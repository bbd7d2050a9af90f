--------------------------- MODULE WorkflowRules ---------------------------
(***************************************************************************)
(* The pure rules of the workflow engine (app/workflow) and the ownership  *)
(* rules of app/auth/rbac.py that the services consult before they write.  *)
(* Nothing here has state: the services call these rules on snapshots they *)
(* have read, which may be stale by the time the answer is used.           *)
(***************************************************************************)
EXTENDS Naturals

PENDING   == "pending"
IN_REVIEW == "in_review"
COMPLETED == "completed"
REJECTED  == "rejected"
APPROVED  == "approved"
SKIPPED   == "skipped"

RequestStatus == {PENDING, IN_REVIEW, APPROVED, COMPLETED, REJECTED}
StageStatus   == {PENDING, APPROVED, REJECTED, SKIPPED}

\* UserRole; "admin" is also ESCALATION_FALLBACK_ROLE.
EMPLOYEE == "employee"
APPROVER == "approver"
ADMIN    == "admin"
UserRole == {EMPLOYEE, APPROVER, ADMIN}

\* The request transition table.
REQUEST_STATUS_TRANSITIONS ==
    [s \in RequestStatus |->
        CASE s = PENDING   -> {IN_REVIEW, REJECTED, COMPLETED}
          [] s = IN_REVIEW -> {IN_REVIEW, COMPLETED, REJECTED}
          [] OTHER         -> {}]

\* The stage transition table; pending -> pending is the reassignment made by
\* an escalation.
STAGE_STATUS_TRANSITIONS ==
    [s \in StageStatus |->
        IF s = PENDING THEN {PENDING, APPROVED, REJECTED, SKIPPED} ELSE {}]

validate_request_transition(current, target) ==
    target \in REQUEST_STATUS_TRANSITIONS[current]

validate_stage_transition(current, target) ==
    target \in STAGE_STATUS_TRANSITIONS[current]

is_terminal_request_status(s) == REQUEST_STATUS_TRANSITIONS[s] = {}

can_decide_stage(role, isAssignee, isRoleEligible, isPending) ==
    /\ role \in {APPROVER, ADMIN}
    /\ isPending
    /\ isAssignee \/ isRoleEligible

\* Editing is the requester's alone, while the request is pending.
can_edit_request(isRequester, isPending) == isRequester /\ isPending

\* An admin may withdraw a request whatever its status.
can_withdraw_request(role, isRequester, isPending) ==
    role = ADMIN \/ (isRequester /\ isPending)

\* StageGenerator.next_stage refuses to plan unless the stage being decided is
\* the highest one that exists.
next_stage_is_sequential(current, highest) == highest = current

\* is_final_stage, for a definition whose orders are 1 .. n.
is_final_stage(n, order) == order = n
=============================================================================
