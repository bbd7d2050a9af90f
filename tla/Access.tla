------------------------------- MODULE Access -------------------------------
(***************************************************************************)
(* Who may do what.  An identity is what the verified claims say of the    *)
(* caller: [user, role, company, platform, expired].  The can_ rules look  *)
(* at the role and at how the caller relates to the row; the authorize_    *)
(* rules add that the session has not expired.                             *)
(***************************************************************************)

UserRole == {"employee", "approver", "admin"}

\* What the role lets a caller do before any row is looked at.
_EMPLOYEE_PERMISSIONS ==
    {"create_request", "view_own_request", "edit_own_request", "withdraw_own_request",
     "search_requests", "comment_on_request", "upload_attachment", "remove_own_attachment",
     "view_notifications", "view_active_workflow_definitions", "view_audit_trail_scoped",
     "update_own_profile"}

_APPROVER_PERMISSIONS ==
    _EMPLOYEE_PERMISSIONS \cup
    {"view_assigned_request", "decide_assigned_stage", "view_pending_approvals"}

_ADMIN_PERMISSIONS ==
    _APPROVER_PERMISSIONS \cup
    {"view_all_requests", "withdraw_any_request", "moderate_comment", "remove_any_attachment",
     "view_all_notifications", "manage_workflow_definitions", "view_audit_trail_all",
     "manage_user_roles"}

ROLE_PERMISSIONS ==
    [role \in UserRole |->
        CASE role = "employee" -> _EMPLOYEE_PERMISSIONS
          [] role = "approver" -> _APPROVER_PERMISSIONS
          [] role = "admin" -> _ADMIN_PERMISSIONS]

has_permission(role, permission) == permission \in ROLE_PERMISSIONS[role]

-----------------------------------------------------------------------------
(* The rules about one row                                                 *)

can_view_request(role, isRequester, isAssigned) == role = "admin" \/ isRequester \/ isAssigned

can_edit_request(role, isRequester, isPending) == isRequester /\ isPending

can_withdraw_request(role, isRequester, isPending) == role = "admin" \/ (isRequester /\ isPending)

can_decide_stage(role, isAssignee, isRoleEligible, isPending) ==
    role \in {"approver", "admin"} /\ isPending /\ (isAssignee \/ isRoleEligible)

can_moderate_comment(role) == role = "admin"

can_remove_attachment(role, isUploader, isPending) == role = "admin" \/ (isUploader /\ isPending)

can_manage_workflow_definitions(role) == role = "admin"

can_view_audit_trail(role, isRequester, isAssigned) ==
    can_view_request(role, isRequester, isAssigned)

can_manage_user_roles(role) == role = "admin"

-----------------------------------------------------------------------------
(* The same, for an identity                                               *)

_ensure_not_expired(id) == ~id.expired

authorize_permission(id, permission) ==
    _ensure_not_expired(id) /\ has_permission(id.role, permission)

authorize_role(id, allowed) == _ensure_not_expired(id) /\ id.role \in allowed

authorize_request_view(id, isRequester, isAssigned) ==
    _ensure_not_expired(id) /\ can_view_request(id.role, isRequester, isAssigned)

authorize_request_edit(id, isRequester, isPending) ==
    _ensure_not_expired(id) /\ can_edit_request(id.role, isRequester, isPending)

authorize_request_withdrawal(id, isRequester, isPending) ==
    _ensure_not_expired(id) /\ can_withdraw_request(id.role, isRequester, isPending)

authorize_stage_decision(id, isAssignee, isRoleEligible, isPending) ==
    _ensure_not_expired(id) /\ can_decide_stage(id.role, isAssignee, isRoleEligible, isPending)

authorize_comment_moderation(id) == _ensure_not_expired(id) /\ can_moderate_comment(id.role)

authorize_attachment_removal(id, isUploader, isPending) ==
    _ensure_not_expired(id) /\ can_remove_attachment(id.role, isUploader, isPending)

authorize_workflow_definition_management(id) ==
    _ensure_not_expired(id) /\ can_manage_workflow_definitions(id.role)

authorize_audit_trail_view(id, isRequester, isAssigned) ==
    _ensure_not_expired(id) /\ can_view_audit_trail(id.role, isRequester, isAssigned)

authorize_user_role_management(id) == _ensure_not_expired(id) /\ can_manage_user_roles(id.role)

authorize_platform_admin(id) == _ensure_not_expired(id) /\ id.platform

-----------------------------------------------------------------------------
(* Seeing a request, as every service that works on one decides it.        *)
(* request: [requester, company, status]; stages: a set of [to, role].     *)

_is_assigned_to_any_stage(id, stages) ==
    /\ id.role \in {"approver", "admin"}
    /\ \E s \in stages : s.to = id.user \/ s.role = id.role

\* Mutant: the company of the request is not compared.
ViewInAnyCompany(id, request, stages) ==
    authorize_request_view(id, request.requester = id.user, _is_assigned_to_any_stage(id, stages))

_authorize_view(id, request, stages) ==
    /\ request.company = id.company
    /\ authorize_request_view(id, request.requester = id.user, _is_assigned_to_any_stage(id, stages))
=============================================================================
