-------------------------- MODULE MCApprovalSaga --------------------------
(* Small instances of ApprovalSaga for TLC. *)
EXTENDS ApprovalSaga, TLC

CONSTANTS amy, root     \* an approver and an admin

MCRole == (amy :> APPROVER) @@ (root :> ADMIN)

\* Stage 1 waits for any approver, later stages for the admin.
MCAssignedTo == [o \in Orders |-> IF o = 1 THEN None ELSE root]
MCAssignedRole == [o \in Orders |-> IF o = 1 THEN APPROVER ELSE None]

MCCalls == Permutations(Calls)
=============================================================================
