------------------------------ MODULE Endpoints ------------------------------
(***************************************************************************)
(* The routes of the API, one definition per router.  Of a route counts    *)
(*   area    the part of the API it belongs to, by its path                *)
(*   verb    the HTTP method                                               *)
(*   guard   what the handler, or the service it calls, asks of the caller *)
(*   narrow  a rate limiter of its own besides the general ones            *)
(*   table   the table its statement is about, if the repository of that   *)
(*           table may run on the caller's own client, else "service"      *)
(***************************************************************************)

Routes(verb, guard, names) ==
    {[name |-> n, area |-> "app", verb |-> verb, guard |-> guard, narrow |-> "none",
      table |-> "service"] : n \in names}

Get(guard, names) == Routes("GET", guard, names)
Post(guard, names) == Routes("POST", guard, names)
Put(guard, names) == Routes("PUT", guard, names)
Patch(guard, names) == Routes("PATCH", guard, names)
Delete(guard, names) == Routes("DELETE", guard, names)

Under(area, routes) == {[r EXCEPT !.area = area] : r \in routes}
Behind(limiter, routes) == {[r EXCEPT !.narrow = limiter] : r \in routes}
On(table, routes) == {[r EXCEPT !.table = table] : r \in routes}

-----------------------------------------------------------------------------
(* Requests, approvals and what is attached to a request                   *)

RequestRoutes ==
    Post("any", {"create_request"}) \cup Get("any", {"list_or_search_requests"})
    \cup Get("view", {"get_request"}) \cup Patch("edit", {"update_request"})
    \cup Delete("withdraw", {"withdraw_request"})

RequestProgressRoutes ==
    Get("view", {"get_workflow_progress", "get_current_stage", "get_workflow_history"})
    \cup Get("any", {"get_approval_eligibility"}) \cup Get("audit", {"get_audit_trail"})

InboxRoutes == Get("analyst", {"list_inbox"})

DecisionRoutes == Post("decide", {"approve_stage", "reject_stage"})

\* Every stage of a bulk call is decided like a single one, and what fails is reported.
BulkDecisionRoutes == Post("decide", {"bulk_approve", "bulk_reject"})

CommentRoutes ==
    On("comments", Get("view", {"list_comments"}) \cup Post("view", {"add_comment"})
                   \cup Delete("moderate", {"remove_comment"}))

AttachmentRoutes ==
    On("attachments", Get("view", {"list_attachments", "get_download_url"})
                      \cup Behind("upload", Post("view", {"upload_attachment"})
                                            \cup Put("remove", {"replace_attachment"}))
                      \cup Delete("remove", {"remove_attachment"}))

DefinitionRoutes ==
    On("workflow_definitions",
       Get("any", {"list_workflow_definitions"})
       \cup Post("define", {"create_workflow_definition", "activate_workflow_definition"})
       \cup Patch("define", {"update_workflow_definition_draft"})
       \cup Delete("define", {"delete_workflow_definition_draft"}))

-----------------------------------------------------------------------------
(* What concerns the caller alone                                          *)

NotificationRoutes ==
    Get("any", {"list_notifications"}) \cup Behind("poll", Get("any", {"get_unread_count"}))
    \cup Post("own", {"mark_notification_read", "archive_notification", "unarchive_notification"})
    \cup Post("any", {"mark_all_notifications_read"})

PreferenceRoutes ==
    On("notification_preferences", Get("any", {"list_notification_preferences"})
                                   \cup Patch("any", {"update_notification_preference"}))

SearchRoutes ==
    Behind("search", Get("any", {"search"}))
    \cup On("saved_filters", Get("any", {"list_saved_filters"}) \cup Post("any", {"create_saved_filter"})
                             \cup Delete("own", {"delete_saved_filter"}))
    \cup On("search_history", Get("any", {"list_search_history"}) \cup Delete("any", {"clear_search_history"}))

MeRoute == Get("any", {"get_current_user"})
SummaryRoute == Get("any", {"get_dashboard_summary"})
ActivityRoute == Get("any", {"list_my_activity"})

-----------------------------------------------------------------------------
(* Administration of a company                                             *)

UserRoutes ==
    Get("admin", {"list_admin_users", "get_admin_user"})
    \cup Patch("users", {"update_admin_user"}) \cup Delete("users", {"erase_admin_user"})

UserActivityRoute == Get("admin", {"get_admin_user_activity"})
RoleRoute == Get("admin", {"list_role_permissions"})
DepartmentRoutes == Get("admin", {"list_departments", "get_department_workload"})
SettingsRoute == Get("admin", {"get_platform_settings"})
AdminDashboardRoute == Get("admin", {"get_admin_dashboard"})

InvitationRoutes ==
    Post("invite", {"create_invitation"}) \cup Post("admin", {"resend_invitation", "revoke_invitation"})
    \cup Get("admin", {"list_invitations", "get_invitation"})

JobRoutes ==
    Get("admin", {"list_dead_letter_jobs", "get_queue_stats", "get_job", "list_jobs"})
    \cup Post("admin", {"retry_job"})

ScheduledJobRoutes ==
    Get("admin", {"list_scheduled_jobs"})
    \cup Post("admin", {"enable_scheduled_job", "disable_scheduled_job", "trigger_scheduled_job_now"})

AdminRoutes ==
    UserRoutes \cup UserActivityRoute \cup RoleRoute \cup DepartmentRoutes \cup SettingsRoute
    \cup AdminDashboardRoute \cup InvitationRoutes \cup JobRoutes \cup ScheduledJobRoutes

-----------------------------------------------------------------------------
(* Figures                                                                 *)

MetricRoutes ==
    Get("analyst", {"get_dashboard_metrics", "get_approval_metrics", "get_workflow_metrics",
                    "get_department_metrics"})
    \cup Get("self", {"get_user_metrics"})

WorkloadRoutes == Get("analyst", {"get_workload_summary", "get_request_trend"})

ReportRoutes ==
    Get("analyst", {"get_executive_summary", "get_operational_summary", "get_workflow_summary",
                    "get_department_summary"})
    \cup Get("self", {"get_user_summary"})

OversightRoutes == Get("admin", {"get_aging_requests", "list_recent_activity"})

OperationalRoutes ==
    Get("analyst", {"get_sla_metrics", "get_approval_delays", "get_bottlenecks", "get_workload_report",
                    "get_trends", "get_executive_kpis", "get_department_analytics"})

AiRoutes ==
    Behind("ai", Get("view", {"get_request_summary", "get_approval_summary"})
                 \cup Get("admin", {"get_workflow_improvements"})
                 \cup Under("figures", Get("analyst",
                        {"get_bottleneck_explanation", "get_policy_recommendations",
                         "get_operational_insights", "get_ai_executive_summary"})
                                      \cup Post("analyst", {"ask_assistant"})))

-----------------------------------------------------------------------------
(* Operation of the platform, and what needs no token                      *)

CompanyRoutes ==
    Post("platform", {"create_company", "restore_company"})
    \cup Get("platform", {"list_companies", "get_company", "get_company_license"})
    \cup Patch("platform", {"update_company", "update_company_license"})
    \cup Delete("platform", {"delete_company"})

FlagRoutes ==
    Get("platform", {"list_feature_flags"}) \cup Post("platform", {"create_feature_flag"})
    \cup Patch("platform", {"update_feature_flag"})

PlatformRoutes == Get("platform", {"get_platform_stats", "get_platform_health", "list_platform_audit_log"})

PublicInvitationRoutes ==
    Behind("invitation", Get("none", {"validate_invitation"}) \cup Post("none", {"accept_invitation"}))

HealthRoutes == Get("none", {"get_liveness", "get_readiness", "get_health"})
MetricsRoute == Get("none", {"get_metrics"})

\* include_router: which of them ask for a token is decided here.
Endpoints ==
    RequestRoutes \cup RequestProgressRoutes \cup InboxRoutes \cup DecisionRoutes
    \cup BulkDecisionRoutes \cup CommentRoutes \cup AttachmentRoutes \cup DefinitionRoutes
    \cup NotificationRoutes \cup PreferenceRoutes \cup SearchRoutes
    \cup MeRoute \cup SummaryRoute \cup ActivityRoute
    \cup Under("admin", AdminRoutes)
    \cup Under("figures", MetricRoutes \cup WorkloadRoutes \cup ReportRoutes \cup OversightRoutes
                          \cup OperationalRoutes)
    \cup AiRoutes
    \cup Under("platform", CompanyRoutes \cup FlagRoutes \cup PlatformRoutes)
    \cup Under("public", PublicInvitationRoutes \cup HealthRoutes \cup MetricsRoute)

Shape(e) == [e EXCEPT !.name = "any"]

\* One route for each behaviour the pipeline can tell apart.
Representatives == {CHOOSE e \in Endpoints : Shape(e) = s : s \in {Shape(e) : e \in Endpoints}}
=============================================================================
