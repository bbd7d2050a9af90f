----------------------------- MODULE RowPolicies -----------------------------
(***************************************************************************)
(* Row level security, as the migrations leave it, and the client a        *)
(* repository runs on.  me is the profile behind the caller's token:       *)
(* [user, role, company].  Only the tables that some repository reaches    *)
(* through the caller's own client (TenantRepositories) have policies      *)
(* here; all others are always read and written by the service role, which *)
(* bypasses every policy.                                                  *)
(***************************************************************************)
EXTENDS Access

\* bootstrap: repositories built with always_use_injected_client=False.
TenantRepositories ==
    {"workflow_definitions", "notification_preferences", "comments", "attachments",
     "saved_filters", "search_history"}

\* Mutant: the client of the caller is never used.
AlwaysService(table, bound) == "service"

\* BaseRepository._client: bound tells whether a client for the caller is bound.
_client(table, bound) == IF table \in TenantRepositories /\ bound THEN "tenant" ELSE "service"

\* A statement on table reaches a row if it runs on the service role or the policy holds.
Reaches(table, bound, policy) == _client(table, bound) = "service" \/ policy

-----------------------------------------------------------------------------
\* requests_select reads the stages through a security definer function.
request_assigned_to_caller(me, stages) == \E s \in stages : s.to = me.user \/ s.role = me.role

requests_select(me, request, stages) ==
    /\ request.company = me.company
    /\ \/ request.requester = me.user
       \/ me.role = "admin"
       \/ request_assigned_to_caller(me, stages)

workflow_definitions_select(me, row) == row.company = me.company /\ (row.active \/ me.role = "admin")

workflow_definitions_write_admin(me, row) == me.role = "admin" /\ row.company = me.company

\* No migration has a policy for deletions, or grants them to authenticated.
workflow_definitions_delete == FALSE

\* comments_select and attachments_select
material_select(me, request, stages) ==
    /\ request.company = me.company
    /\ \/ request.requester = me.user
       \/ me.role = "admin"
       \/ request_assigned_to_caller(me, stages)

\* comments_insert and attachments_insert: an administrator only as a party.
material_insert(me, author, request, stages) ==
    /\ author = me.user
    /\ request.company = me.company
    /\ request.requester = me.user \/ request_assigned_to_caller(me, stages)

\* comments_moderate_admin and attachments_moderate_admin
material_moderate_admin(me, request) == me.role = "admin" /\ request.company = me.company

attachments_soft_delete_uploader(me, uploader, request) ==
    /\ uploader = me.user
    /\ request.status = "pending" /\ request.company = me.company

\* notification_preferences, saved_filters and search_history
own_rows(me, owner) == owner = me.user
=============================================================================
