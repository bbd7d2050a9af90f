---------------------------- MODULE ApprovalSaga ----------------------------
(***************************************************************************)
(* One request and its workflow stages, changed by concurrent service      *)
(* calls: RequestService.create_request / update_request /                 *)
(* withdraw_request and ApprovalService.approve_stage / reject_stage /     *)
(* escalate_stage.                                                         *)
(*                                                                         *)
(* There is no database transaction.  A call is a sequence of repository   *)
(* statements, each atomic on its own, and every statement is an action    *)
(* here; statements of other calls fall in between.  What protects a call  *)
(* is optimistic locking (an update matches only the version it names) and *)
(* TransactionContext, which on an exception runs the compensations        *)
(* registered so far in reverse order and goes on when one of them fails.  *)
(*                                                                         *)
(* BaseRepository._execute retries a statement whose answer did not        *)
(* arrive.  If the first attempt had been applied, the retry matches no    *)
(* row and the call sees a conflict for a write that is in the database:   *)
(* that outcome is "lost" below.                                           *)
(***************************************************************************)
EXTENDS WorkflowRules

CONSTANTS
    Calls,          \* service calls; a call creates at most one stage row, so
                    \* the creating call also serves as the row's id
    Users,
    Role,           \* Role[u]: the UserRole of user u
    Requester,      \* the user who owns the request
    NumStages,      \* stages of the pinned workflow definition
    AssignedTo,     \* AssignedTo[o], AssignedRole[o]: what the assignment
    AssignedRole,   \*   resolver returns for stage o
    None,
    MaxErrors,      \* statements that fail without taking effect
    MaxLost,        \* statements that take effect and report failure
    MaxCrashes      \* calls cut off by the death of their process

Orders == 1 .. NumStages

ASSUME StageAssumption == NumStages \in Nat \ {0}

ASSUME RoleAssumption ==
    /\ Role \in [Users -> UserRole]
    /\ Requester \in Users
    /\ AssignedTo \in [Orders -> Users \cup {None}]
    /\ AssignedRole \in [Orders -> UserRole \cup {None}]

ASSUME NoneAssumption == None \notin Calls /\ None \notin Users /\ None \notin UserRole

ASSUME BudgetAssumption == MaxErrors \in Nat /\ MaxLost \in Nat /\ MaxCrashes \in Nat

VARIABLES
    request,    \* the requests row; version 0 before it is inserted
    stage,      \* stage[o]: the workflow_stages row of order o, or NoRow
    audit,      \* audit[c]: audit_logs rows written by call c
    notices,    \* notifications created: the kind and the call they come from
    pc,         \* pc[c]: the statement call c executes next, or how it ended
    op,         \* op[c]: the call's arguments
    seen,       \* seen[c]: the stage row the call has read
    seenReq,    \* seenReq[c]: the request row the call has read
    undo,       \* undo[c]: effects with a registered compensation
    left,       \* left[c]: effects of an unsuccessful call that stay behind
    budget      \* what the environment may still do wrong

db   == <<request, stage, audit, notices>>
vars == <<request, stage, audit, notices, pc, op, seen, seenReq, undo, left, budget>>

-----------------------------------------------------------------------------
(* Rows.  decided_by names the deciding call; the column holds its user.   *)

NoRow == [id |-> None, version |-> 0, status |-> "none", decided_by |-> None,
          assigned_to |-> None, assigned_role |-> None]

Row == [id: Calls \cup {None}, version: Nat, status: StageStatus \cup {"none"},
        decided_by: Calls \cup {None}, assigned_to: Users \cup {None},
        assigned_role: UserRole \cup {None}]

NoRequest == [status |-> PENDING, current |-> None, version |-> 0,
              completed |-> FALSE, deleted |-> FALSE]

RequestRow == [status: RequestStatus, current: Calls \cup {None}, version: Nat,
               completed: BOOLEAN, deleted: BOOLEAN]

Kinds == {"create", "approve", "reject", "escalate", "edit", "withdraw"}

Args(kind, user, order, row, want) ==
    [kind |-> kind, user |-> user, order |-> order, row |-> row, want |-> want]

NoOp == Args("none", None, 0, None, 0)

Op == [kind: Kinds \cup {"none"}, user: Users \cup {None}, order: Nat,
       row: Calls \cup {None}, want: Nat]

Effects == {"insert", "stage", "decision", "request", "assignment",
            "edit", "withdrawal", "audit"}

Ended   == {"done", "failed", "replayed", "crashed"}
Running == {"decide", "read_request", "plan", "create_stage", "advance", "audit",
            "escalate_read", "escalate", "edit", "withdraw", "rollback"}

Exists(o) == stage[o].id # None

Decides(c) == op[c].kind \in {"approve", "reject"}

\* A call has committed once its TransactionContext has been left normally.
Committed(c) == pc[c] \in {"notify", "done"}

Verdict(c) == IF op[c].kind = "approve" THEN APPROVED ELSE REJECTED

\* Mutant: the update names the version the row has now, not the one decided on.
VersionToUseCurrent(c) == stage[op[c].order].version

\* The version the decision is pinned to: the client's, if it sent one.
VersionToUse(c) == IF op[c].want = 0 THEN seen[c].version ELSE op[c].want

\* Mutant: the request update is not pinned to the version that was read.
RequestVersionCurrent(c) == request.version

\* The version set_current_stage is pinned to.
RequestVersionToUse(c) == seenReq[c].version

\* The stage a call adds is the one after the stage it decides; creation
\* adds stage 1.
NewOrder(c) == op[c].order + 1
AddsStage(c) == \/ op[c].kind = "create"
                \/ op[c].kind = "approve" /\ ~is_final_stage(NumStages, op[c].order)

TargetStatus(c) ==
    IF op[c].kind = "create" THEN PENDING
    ELSE IF op[c].kind = "reject" THEN REJECTED
    ELSE IF AddsStage(c) THEN IN_REVIEW ELSE COMPLETED

get_highest_stage_order ==
    CHOOSE h \in 0 .. NumStages :
        /\ h = 0 \/ Exists(h)
        /\ \A o \in Orders : Exists(o) => o <= h

-----------------------------------------------------------------------------
(* What the statements write.  Every update also moves the version by one. *)

NewStage(c, o) ==
    [id |-> c, version |-> 1, status |-> PENDING, decided_by |-> None,
     assigned_to |-> AssignedTo[o], assigned_role |-> AssignedRole[o]]

Decided(row, verdict, c) ==
    [row EXCEPT !.status = verdict, !.decided_by = c, !.version = @ + 1]

Reverted(row) ==
    [row EXCEPT !.status = PENDING, !.decided_by = None, !.version = @ + 1]

Reassigned(row, to, role) ==
    [row EXCEPT !.assigned_to = to, !.assigned_role = role, !.version = @ + 1]

NewRequest == [NoRequest EXCEPT !.version = 1]

Advanced(req, status, current) ==
    [req EXCEPT !.status = status, !.current = current,
                !.completed = is_terminal_request_status(status), !.version = @ + 1]

Edited(req) == [req EXCEPT !.version = @ + 1]

Withdrawn(req) == [req EXCEPT !.deleted = TRUE, !.version = @ + 1]

-----------------------------------------------------------------------------
(* How one repository statement may answer.  matches says whether the row  *)
(* it addresses is there (update) or its key is free (insert).             *)

Replies == {"ok", "refused", "error", "lost"}

Reply(r, matches) ==
    \/ r = "ok"      /\ matches  /\ UNCHANGED budget
    \/ r = "refused" /\ ~matches /\ UNCHANGED budget
    \/ r = "error"   /\ budget.errors > 0
                     /\ budget' = [budget EXCEPT !.errors = @ - 1]
    \/ r = "lost"    /\ matches /\ budget.lost > 0
                     /\ budget' = [budget EXCEPT !.lost = @ - 1]

Applied(r) == r \in {"ok", "lost"}

\* The call goes on, with a compensation registered for each new effect.
Proceed(c, next, effects) ==
    /\ pc' = [pc EXCEPT ![c] = next]
    /\ undo' = [undo EXCEPT ![c] = @ \cup effects]
    /\ UNCHANGED left

\* The context is left normally: its compensations are forgotten.
Commit(c, next) ==
    /\ pc' = [pc EXCEPT ![c] = next]
    /\ undo' = [undo EXCEPT ![c] = {}]
    /\ UNCHANGED left

\* The call raises: TransactionContext starts to compensate, if there is
\* anything to compensate.  Effects that have no compensation stay.
Raise(c, remaining) ==
    /\ pc' = [pc EXCEPT ![c] = IF undo[c] = {} THEN "failed" ELSE "rollback"]
    /\ left' = [left EXCEPT ![c] = @ \cup remaining]
    /\ UNCHANGED undo

\* What an abandoned call leaves besides the effects it can compensate:
\* a withdrawal is not compensated.
Uncompensated(c) ==
    IF op[c].kind = "withdraw" /\ pc[c] = "audit" THEN {"withdrawal"} ELSE {}

Statement(c, r, next, compensable, effect) ==
    IF r = "ok" THEN Proceed(c, next, compensable)
                ELSE Raise(c, IF r = "lost" THEN {effect} ELSE {})

-----------------------------------------------------------------------------
(* RequestService.create_request                                           *)

\* The first statement inserts the request.  Nothing is changed by the reads
\* that resolve the definition and plan the first stage.
CreateRequest(c) ==
    /\ pc[c] = "idle" /\ \A d \in Calls : op[d].kind # "create"
    /\ \E r \in Replies :
        /\ Reply(r, TRUE)
        /\ request' = IF Applied(r) THEN NewRequest ELSE request
        /\ Statement(c, r, "create_stage", {"insert"}, "insert")
    /\ op' = [op EXCEPT ![c] = Args("create", Requester, 0, None, 0)]
    /\ seenReq' = [seenReq EXCEPT ![c] = NewRequest]
    /\ UNCHANGED <<stage, audit, notices, seen>>

-----------------------------------------------------------------------------
(* ApprovalService._decide_stage                                           *)

\* Read the stage.  A stage this user has already decided the same way is
\* answered as a replay; otherwise ownership and the transition are checked
\* on the row just read.  want is a version the client has observed, or 0.
ReadStage(c) ==
    /\ pc[c] = "idle"
    /\ \E kind \in {"approve", "reject"}, u \in Users, o \in Orders :
        /\ Exists(o)
        /\ \E want \in 0 .. stage[o].version :
            op' = [op EXCEPT ![c] = Args(kind, u, o, stage[o].id, want)]
        /\ seen' = [seen EXCEPT ![c] = stage[o]]
        /\ LET target == IF kind = "approve" THEN APPROVED ELSE REJECTED
               replay == /\ stage[o].status = target
                         /\ stage[o].decided_by # None
                         /\ op[stage[o].decided_by].user = u
               allowed == /\ can_decide_stage(Role[u], stage[o].assigned_to = u,
                                              stage[o].assigned_role = Role[u],
                                              stage[o].status = PENDING)
                          /\ validate_stage_transition(stage[o].status, target)
           IN  pc' = [pc EXCEPT ![c] = IF replay THEN "replayed"
                                       ELSE IF allowed THEN "decide" ELSE "failed"]
    /\ UNCHANGED <<db, seenReq, undo, left, budget>>

\* ApprovalRepository.approve_stage / reject_stage.
DecideStage(c) ==
    /\ pc[c] = "decide"
    /\ LET o == op[c].order IN \E r \in Replies :
        /\ Reply(r, stage[o].id = op[c].row /\ stage[o].version = VersionToUse(c))
        /\ stage' = IF Applied(r)
                    THEN [stage EXCEPT ![o] = Decided(@, Verdict(c), c)] ELSE stage
        /\ Statement(c, r, "read_request", {"decision"}, "decision")
    /\ UNCHANGED <<request, audit, notices, op, seen, seenReq>>

\* Both continuations read the request; a rejection validates right away.
ReadRequest(c) ==
    /\ pc[c] = "read_request"
    /\ \E r \in {"ok", "error"} :
        /\ Reply(r, TRUE)
        /\ seenReq' = [seenReq EXCEPT ![c] = IF r = "ok" THEN request ELSE @]
        /\ IF r = "error" \/ (op[c].kind = "reject" /\
                              ~validate_request_transition(request.status, REJECTED))
           THEN Raise(c, {})
           ELSE Proceed(c, IF op[c].kind = "reject" THEN "advance" ELSE "plan", {})
    /\ UNCHANGED <<db, op, seen>>

\* Read the highest stage order and plan: the stage decided must be the last
\* one that exists.  After the final stage the request is to be completed.
PlanNextStage(c) ==
    /\ pc[c] = "plan"
    /\ \E r \in {"ok", "error"} :
        /\ Reply(r, TRUE)
        /\ IF \/ r = "error"
              \/ ~next_stage_is_sequential(op[c].order, get_highest_stage_order)
              \/ /\ ~AddsStage(c)
                 /\ ~validate_request_transition(seenReq[c].status, COMPLETED)
           THEN Raise(c, {})
           ELSE Proceed(c, IF AddsStage(c) THEN "create_stage" ELSE "advance", {})
    /\ UNCHANGED <<db, op, seen, seenReq>>

\* WorkflowStageRepository.create_stage, for a decision and for a creation;
\* (request_id, stage_order) is unique.  A decision registers the deletion of
\* the row and only then validates the request's transition.
CreateStage(c) ==
    /\ pc[c] = "create_stage"
    /\ LET o == NewOrder(c) IN \E r \in Replies :
        /\ Reply(r, ~Exists(o))
        /\ stage' = IF Applied(r)
                    THEN [stage EXCEPT ![o] = NewStage(c, o)] ELSE stage
        /\ LET valid == \/ op[c].kind = "create"
                        \/ validate_request_transition(seenReq[c].status, IN_REVIEW)
           IN  Statement(c, r, IF valid THEN "advance" ELSE "rollback",
                         IF op[c].kind = "create" THEN {} ELSE {"stage"}, "stage")
    /\ UNCHANGED <<request, audit, notices, op, seen, seenReq>>

\* RequestRepository.set_current_stage, pinned to the request version read.
\* create_request registers no compensation for it.
SetCurrentStage(c) ==
    /\ pc[c] = "advance"
    /\ \E r \in Replies :
        /\ Reply(r, request.version = RequestVersionToUse(c))
        /\ request' = IF Applied(r)
                      THEN Advanced(request, TargetStatus(c), IF AddsStage(c) THEN c ELSE None)
                      ELSE request
        /\ Statement(c, r, "audit", IF op[c].kind = "create" THEN {} ELSE {"request"}, "request")
    /\ UNCHANGED <<stage, audit, notices, op, seen, seenReq>>

\* AuditRepository.record_event, the last statement inside the context.  An
\* insert has no key to stop a retry: a lost answer can leave two rows.
RecordEvent(c) ==
    /\ pc[c] = "audit"
    /\ \E r \in {"ok", "error", "lost"}, rows \in 0 .. 2 :
        /\ \/ r = "ok" /\ rows = 1 /\ UNCHANGED budget
           \/ r = "ok" /\ rows = 2 /\ Reply("lost", TRUE)
           \/ r = "error" /\ rows = 0 /\ Reply("error", TRUE)
           \/ r = "lost" /\ rows = 1 /\ Reply("lost", TRUE)
        /\ audit' = [audit EXCEPT ![c] = @ + rows]
        /\ IF r = "ok"
           THEN Commit(c, IF op[c].kind \in {"escalate", "withdraw"} THEN "done" ELSE "notify")
           ELSE Raise(c, Uncompensated(c) \cup (IF r = "lost" THEN {"audit"} ELSE {}))
    /\ UNCHANGED <<request, stage, notices, op, seen, seenReq>>

\* Notifications go out after the commit.  A decision swallows their failure;
\* create_request lets it reach the caller, although the request exists.
Notify(c) ==
    /\ pc[c] = "notify"
    /\ LET kind == IF AddsStage(c) THEN "assignment"
                   ELSE IF op[c].kind = "reject" THEN "decision" ELSE "completion"
           due  == AddsStage(c) => AssignedTo[NewOrder(c)] # None
       IN \E sent \in {due, FALSE} :
            /\ IF due /\ ~sent THEN Reply("error", TRUE) ELSE UNCHANGED budget
            /\ notices' = IF sent THEN notices \cup {[kind |-> kind, call |-> c]} ELSE notices
            /\ IF due /\ ~sent /\ op[c].kind = "create"
               THEN /\ pc' = [pc EXCEPT ![c] = "failed"]
                    /\ left' = [left EXCEPT ![c] = @ \cup {"insert"}]
               ELSE pc' = [pc EXCEPT ![c] = "done"] /\ UNCHANGED left
    /\ UNCHANGED <<request, stage, audit, op, seen, seenReq, undo>>

-----------------------------------------------------------------------------
(* ApprovalService.escalate_stage, started by the scheduler's escalation   *)
(* check through the job queue: the stage was pending when it was found.   *)

DiscoverStage(c) ==
    /\ pc[c] = "idle"
    /\ \E o \in Orders :
        /\ stage[o].status = PENDING
        /\ op' = [op EXCEPT ![c] = Args("escalate", None, o, stage[o].id, 0)]
    /\ pc' = [pc EXCEPT ![c] = "escalate_read"]
    /\ UNCHANGED <<db, seen, seenReq, undo, left, budget>>

\* The job reads the stage again, and does not look at its status.
EscalateRead(c) ==
    /\ pc[c] = "escalate_read"
    /\ IF stage[op[c].order].id = op[c].row
       THEN /\ seen' = [seen EXCEPT ![c] = stage[op[c].order]]
            /\ pc' = [pc EXCEPT ![c] = "escalate"]
       ELSE /\ UNCHANGED seen
            /\ pc' = [pc EXCEPT ![c] = "failed"]
    /\ UNCHANGED <<db, op, seenReq, undo, left, budget>>

\* ApprovalRepository.escalate_stage: to nobody in particular, role admin.
EscalateStage(c) ==
    /\ pc[c] = "escalate"
    /\ LET o == op[c].order IN \E r \in Replies :
        /\ Reply(r, stage[o].id = op[c].row /\ stage[o].version = seen[c].version)
        /\ stage' = IF Applied(r)
                    THEN [stage EXCEPT ![o] = Reassigned(@, None, ADMIN)] ELSE stage
        /\ Statement(c, r, "audit", {"assignment"}, "assignment")
    /\ UNCHANGED <<request, audit, notices, op, seen, seenReq>>

-----------------------------------------------------------------------------
(* RequestService.update_request and withdraw_request                      *)

ReadOwnRequest(c) ==
    /\ pc[c] = "idle" /\ request.version > 0
    /\ \E kind \in {"edit", "withdraw"}, u \in Users, want \in 1 .. request.version :
        /\ op' = [op EXCEPT ![c] = Args(kind, u, 0, None, want)]
        /\ LET isPending == request.status = PENDING
               allowed == IF kind = "edit"
                          THEN can_edit_request(u = Requester, isPending)
                          ELSE can_withdraw_request(Role[u], u = Requester, isPending)
           IN  pc' = [pc EXCEPT ![c] = IF allowed THEN kind ELSE "failed"]
    /\ seenReq' = [seenReq EXCEPT ![c] = request]
    /\ UNCHANGED <<db, seen, undo, left, budget>>

\* RequestRepository.update_editable_fields: the version moves, nothing else
\* that matters here does.
UpdateFields(c) ==
    /\ pc[c] = "edit"
    /\ \E r \in Replies :
        /\ Reply(r, request.version = op[c].want)
        /\ request' = IF Applied(r) THEN Edited(request) ELSE request
        /\ Statement(c, r, "done", {}, "edit")
    /\ UNCHANGED <<stage, audit, notices, op, seen, seenReq>>

\* RequestRepository.soft_delete: the stages are not touched.
SoftDelete(c) ==
    /\ pc[c] = "withdraw"
    /\ \E r \in Replies :
        /\ Reply(r, request.version = op[c].want)
        /\ request' = IF Applied(r) THEN Withdrawn(request) ELSE request
        /\ Statement(c, r, "audit", {}, "withdrawal")
    /\ UNCHANGED <<stage, audit, notices, op, seen, seenReq>>

-----------------------------------------------------------------------------
(* TransactionContext.__exit__: compensations in reverse order of their    *)
(* registration.  One that fails or matches nothing is logged and skipped. *)

\* Registration order; create_request and escalate_stage register one each.
Registered == <<"insert", "assignment", "decision", "stage", "request">>

\* Mutant: compensations run in the order of their registration.
TurnFirstRegistered(c, i) ==
    /\ pc[c] = "rollback" /\ Registered[i] \in undo[c]
    /\ \A j \in 1 .. i - 1 : Registered[j] \notin undo[c]

\* It is the turn of the last compensation that was registered.
Turn(c, i) ==
    /\ pc[c] = "rollback" /\ Registered[i] \in undo[c]
    /\ \A j \in i + 1 .. 5 : Registered[j] \notin undo[c]

Compensate(c, r, effect) ==
    /\ undo' = [undo EXCEPT ![c] = @ \ {effect}]
    /\ left' = [left EXCEPT ![c] = IF Applied(r) THEN @ ELSE @ \cup {effect}]
    /\ pc' = [pc EXCEPT ![c] = IF undo[c] = {effect} THEN "failed" ELSE "rollback"]
    /\ UNCHANGED <<audit, notices, op, seen, seenReq>>

\* Mutants: the pointer is set to the stage's order instead of its id; the
\* pointer is not put back.
RestoredPointsToOrder(c) ==
    [request EXCEPT !.status = seenReq[c].status, !.current = op[c].order,
                    !.completed = seenReq[c].completed, !.version = @ + 1]
RestoredKeepsPointer(c) ==
    [request EXCEPT !.status = seenReq[c].status,
                    !.completed = seenReq[c].completed, !.version = @ + 1]

\* What _compensate_request_advancement writes: the snapshot taken before.
RestoredRequest(c) ==
    [request EXCEPT !.status = seenReq[c].status, !.current = seenReq[c].current,
                    !.completed = seenReq[c].completed, !.version = @ + 1]

\* _compensate_request_advancement, pinned to the version this call wrote; the
\* stage it points back to must still be there.
RestoreRequest(c) ==
    /\ Turn(c, 5)
    /\ \E r \in Replies :
        /\ Reply(r, /\ request.version = seenReq[c].version + 1
                    /\ seenReq[c].current # None =>
                            \E o \in Orders : stage[o].id = seenReq[c].current)
        /\ request' = IF Applied(r)
                      THEN RestoredRequest(c) ELSE request
        /\ Compensate(c, r, "request")
    /\ UNCHANGED stage

\* Mutant: the delete names the row's id only.
CreatedStageThere(c) == stage[NewOrder(c)].id = c

\* The row delete_if_unchanged addresses: still as create_stage returned it.
CreatedStageUnchanged(c) ==
    stage[NewOrder(c)].id = c /\ stage[NewOrder(c)].version = 1

\* _compensate_stage_creation: delete_if_unchanged; the foreign key of
\* requests.current_stage_id refuses to lose the row it points to.
DeleteIfUnchanged(c) ==
    /\ Turn(c, 4)
    /\ LET o == NewOrder(c) IN \E r \in Replies :
        /\ Reply(r, CreatedStageUnchanged(c) /\ request.current # c)
        /\ stage' = IF Applied(r) THEN [stage EXCEPT ![o] = NoRow] ELSE stage
        /\ Compensate(c, r, "stage")
    /\ UNCHANGED request

\* _compensate_decision: revert_to_pending, pinned to the decided version.
RevertToPending(c) ==
    /\ Turn(c, 3)
    /\ LET o == op[c].order IN \E r \in Replies :
        /\ Reply(r, stage[o].id = op[c].row /\ stage[o].version = VersionToUse(c) + 1)
        /\ stage' = IF Applied(r)
                    THEN [stage EXCEPT ![o] = Reverted(@)] ELSE stage
        /\ Compensate(c, r, "decision")
    /\ UNCHANGED request

\* _compensate_escalation: the previous assignment, pinned likewise.
RestoreAssignment(c) ==
    /\ Turn(c, 2)
    /\ LET o == op[c].order IN \E r \in Replies :
        /\ Reply(r, stage[o].id = op[c].row /\ stage[o].version = seen[c].version + 1)
        /\ stage' = IF Applied(r)
                    THEN [stage EXCEPT ![o] = Reassigned(@, seen[c].assigned_to,
                                                            seen[c].assigned_role)]
                    ELSE stage
        /\ Compensate(c, r, "assignment")
    /\ UNCHANGED request

\* _compensate_create_request: soft_delete, pinned to the inserted version.
DeleteCreated(c) ==
    /\ Turn(c, 1)
    /\ \E r \in Replies :
        /\ Reply(r, request.version = seenReq[c].version)
        /\ request' = IF Applied(r) THEN Withdrawn(request) ELSE request
        /\ Compensate(c, r, "insert")
    /\ UNCHANGED stage

\* The process dies: registered compensations are gone with its memory.
Crash(c) ==
    /\ pc[c] \in Running /\ budget.crashes > 0
    /\ budget' = [budget EXCEPT !.crashes = @ - 1]
    /\ pc' = [pc EXCEPT ![c] = "crashed"]
    /\ left' = [left EXCEPT ![c] = @ \cup undo[c] \cup Uncompensated(c)]
    /\ undo' = [undo EXCEPT ![c] = {}]
    /\ UNCHANGED <<db, op, seen, seenReq>>

-----------------------------------------------------------------------------
Init ==
    /\ request = NoRequest
    /\ stage = [o \in Orders |-> NoRow]
    /\ audit = [c \in Calls |-> 0]
    /\ notices = {}
    /\ pc = [c \in Calls |-> "idle"]
    /\ op = [c \in Calls |-> NoOp]
    /\ seen = [c \in Calls |-> NoRow]
    /\ seenReq = [c \in Calls |-> NoRequest]
    /\ undo = [c \in Calls |-> {}]
    /\ left = [c \in Calls |-> {}]
    /\ budget = [errors |-> MaxErrors, lost |-> MaxLost, crashes |-> MaxCrashes]

Step(c) ==
    \/ CreateRequest(c) \/ ReadStage(c) \/ DecideStage(c) \/ ReadRequest(c)
    \/ PlanNextStage(c) \/ CreateStage(c) \/ SetCurrentStage(c) \/ RecordEvent(c)
    \/ Notify(c) \/ DiscoverStage(c) \/ EscalateRead(c) \/ EscalateStage(c)
    \/ ReadOwnRequest(c) \/ UpdateFields(c) \/ SoftDelete(c)
    \/ RestoreRequest(c) \/ DeleteIfUnchanged(c) \/ RevertToPending(c)
    \/ RestoreAssignment(c) \/ DeleteCreated(c) \/ Crash(c)

\* Nothing is in flight; the service may stay idle for ever.
Quiescent == \A c \in Calls : pc[c] \in Ended \cup {"idle"}

Next == (\E c \in Calls : Step(c)) \/ (Quiescent /\ UNCHANGED vars)

Spec == Init /\ [][Next]_vars
-----------------------------------------------------------------------------
(* Properties *)

\* Every variable keeps its type.
TypeOK ==
    /\ request \in RequestRow
    /\ stage \in [Orders -> Row]
    /\ audit \in [Calls -> Nat]
    /\ notices \subseteq [kind: {"assignment", "decision", "completion"}, call: Calls]
    /\ pc \in [Calls -> Running \cup Ended \cup {"idle", "notify"}]
    /\ op \in [Calls -> Op]
    /\ seen \in [Calls -> Row]
    /\ seenReq \in [Calls -> RequestRow]
    /\ undo \in [Calls -> SUBSET Effects]
    /\ left \in [Calls -> SUBSET Effects]
    /\ budget \in [errors: Nat, lost: Nat, crashes: Nat]

\* A decision that was reported as made stays in the database, under the name
\* of the call that made it: no other call's decision, escalation, rollback,
\* failure or crash overwrites, reverts or deletes it (_decide_stage).
DecisionDurable ==
    \A c \in Calls : Decides(c) /\ Committed(c) =>
        LET row == stage[op[c].order] IN
        row.id = op[c].row /\ row.decided_by = c /\ row.status = Verdict(c)

\* A rejection, or the approval of the final stage, that was reported as made
\* leaves the request in that terminal status for good (_advance_after_approval,
\* _finalize_rejection), whatever other calls do with stale snapshots.
OutcomeDurable ==
    \A c \in Calls : Decides(c) /\ Committed(c) /\ ~AddsStage(c) =>
        request.status = TargetStatus(c)

TakenBackByItsOwnCall ==
    \A o \in Orders : LET c == stage[o].decided_by IN
        (c # None /\ stage'[o].decided_by # c) =>
            /\ pc[c] = "rollback" /\ op[c].row = stage[o].id
            /\ stage'[o].id = stage[o].id /\ stage'[o].status = PENDING

\* A decision recorded on a stage is taken back by its own call's rollback and
\* by nothing else, and the row goes back to pending; it is never deleted with
\* its row (revert_to_pending, delete_if_unchanged).
DecisionOwned == [][TakenBackByItsOwnCall]_vars

\* No failed call has left anything behind.
NothingLeft == \A c \in Calls : left[c] = {}

\* Unless a failed call has left something behind, at most one stage waits for
\* a decision, also while decisions are being made and rolled back.
AtMostOnePending ==
    NothingLeft => \A o, p \in Orders :
        stage[o].status = PENDING /\ stage[p].status = PENDING => o = p

\* The request agrees with its stages: those before some stage k are approved
\* and the request waits at k, or k is the final one and the request is
\* complete, or k is rejected and so is the request.
Consistent ==
    \E k \in Orders :
        /\ \A o \in Orders : /\ o < k => stage[o].status = APPROVED
                             /\ o > k => ~Exists(o)
        /\ \/ /\ stage[k].status = PENDING
              /\ request.current = stage[k].id
              /\ request.status = IF k = 1 THEN PENDING ELSE IN_REVIEW
           \/ /\ stage[k].status = APPROVED /\ k = NumStages
              /\ request.current = None /\ request.status = COMPLETED
           \/ /\ stage[k].status = REJECTED
              /\ request.current = None /\ request.status = REJECTED

\* When nothing is in flight and no failed call has left anything behind, the
\* request and its stages agree: compensation restores exactly what it should.
QuiescentConsistent ==
    /\ Quiescent /\ NothingLeft
    /\ \E c \in Calls : op[c].kind = "create" /\ Committed(c)
    => Consistent

\* A notification never announces what is not so: an announced stage exists,
\* an announced rejection or completion is the request's status
\* (_dispatch_post_decision_notifications, create_request).
NoticesTrue ==
    \A n \in notices :
        CASE n.kind = "assignment" -> \E o \in Orders : stage[o].id = n.call
          [] n.kind = "decision"   -> request.status = REJECTED
          [] n.kind = "completion" -> request.status = COMPLETED

-----------------------------------------------------------------------------
(* The inductive invariant behind DecisionDurable and DecisionOwned *)

\* Calls that have not yet come to the statement that creates a stage.
NotYetCreated == {"idle", "decide", "read_request", "plan", "create_stage"}

\* Row ids are never reused: nobody has seen a row that is still to be created.
RowIdsFresh ==
    \A c \in Calls : pc[c] \in NotYetCreated =>
        /\ \A o \in Orders : stage[o].id # c
        /\ \A d \in Calls : op[d].row # c

\* A pending row is undecided; a decided one is not as create_stage left it.
RowsWellFormed ==
    \A o \in Orders :
        /\ stage[o].id # None => stage[o].version >= 1
        /\ stage[o].status = PENDING => stage[o].id # None /\ stage[o].decided_by = None
        /\ stage[o].decided_by # None => stage[o].id # None /\ stage[o].version >= 2

\* What the statement a call has come to says about its arguments.
CallWellFormed(c) ==
    /\ pc[c] = "idle" => undo[c] = {}
    /\ op[c].kind = "create" => op[c].order = 0
    /\ pc[c] \in {"edit", "withdraw", "escalate_read", "escalate"} => ~Decides(c)
    /\ pc[c] = "create_stage" => NewOrder(c) \in Orders
    /\ "stage" \in undo[c] => NewOrder(c) \in Orders
    /\ (pc[c] = "decide" \/ "decision" \in undo[c]) => Decides(c)
    /\ (Decides(c) \/ pc[c] \in {"escalate_read", "escalate"} \/ "assignment" \in undo[c])
       => op[c].order \in Orders /\ op[c].row # None

CallsWellFormed == \A c \in Calls : CallWellFormed(c)

\* A decision about to be written names a version at which the row, if it
\* still has that version, is pending: versions only grow.
DecisionPinned ==
    \A c \in Calls : pc[c] = "decide" =>
        /\ VersionToUse(c) >= 1
        /\ stage[op[c].order].id = op[c].row =>
            /\ VersionToUse(c) <= stage[op[c].order].version
            /\ VersionToUse(c) = stage[op[c].order].version =>
                stage[op[c].order].status = PENDING

\* Calls whose decision is written, and neither taken back nor given up.
DecisionInForce(c) ==
    /\ Decides(c)
    /\ \/ pc[c] \in {"read_request", "plan", "create_stage", "advance", "audit", "notify", "done"}
       \/ "decision" \in undo[c]

\* From its write to its rollback a decision stands, under its call's name.
DecisionStands ==
    \A c \in Calls : DecisionInForce(c) =>
        /\ stage[op[c].order].id = op[c].row
        /\ stage[op[c].order].decided_by = c
        /\ stage[op[c].order].status = Verdict(c)

\* The inductive invariant of the decision protocol: rows are identified by
\* (id, version), versions grow, a decision is pinned to a pending version and
\* stands until its own call takes it back.
DecisionInv ==
    TypeOK /\ RowIdsFresh /\ RowsWellFormed /\ CallsWellFormed /\ DecisionPinned /\ DecisionStands

-----------------------------------------------------------------------------
(* The inductive invariant behind OutcomeDurable *)

\* Before the request is inserted there is nothing to act on.
NothingBeforeCreation ==
    (\A c \in Calls : op[c].kind # "create") =>
        /\ request.version = 0
        /\ \A o \in Orders : stage[o].id = None
        /\ \A c \in Calls : pc[c] = "idle"

\* A call on its way to set_current_stage holds a snapshot of the request that
\* is out of date or right about its status, and when it gets there it has
\* validated a transition out of that status.
SnapshotPinned(c) ==
    /\ pc[c] = "idle" => op[c].kind = "none"
    /\ pc[c] \in {"decide", "read_request"} => "request" \notin undo[c]
    /\ "request" \in undo[c] \/ pc[c] \in {"read_request", "plan"} => Decides(c)
    /\ pc[c] \in {"create_stage", "advance"} => Decides(c) \/ op[c].kind = "create"
    /\ pc[c] \in {"plan", "create_stage", "advance"} =>
        /\ seenReq[c].version <= request.version
        /\ seenReq[c].version = request.version => seenReq[c].status = request.status
        /\ op[c].kind = "create" => seenReq[c].status = PENDING
    /\ pc[c] = "advance" => ~is_terminal_request_status(seenReq[c].status)

SnapshotsPinned == \A c \in Calls : SnapshotPinned(c)

\* Decisions whose request update is written, and neither restored nor given up.
OutcomeInForce(c) ==
    Decides(c) /\ (pc[c] \in {"audit", "notify", "done"} \/ "request" \in undo[c])

\* A terminal outcome in force is the request's status and the only one; one
\* that moved the chain on is still in review unless the row has moved on.
OutcomeStands ==
    \A c \in Calls : OutcomeInForce(c) =>
        /\ seenReq[c].version < request.version
        /\ AddsStage(c) =>
            (request.version = seenReq[c].version + 1 => request.status = IN_REVIEW)
        /\ ~AddsStage(c) =>
            /\ request.status = TargetStatus(c)
            /\ \A d \in Calls : OutcomeInForce(d) /\ ~AddsStage(d) => d = c

\* The inductive invariant of the request's outcome.
OutcomeInv ==
    DecisionInv /\ NothingBeforeCreation /\ SnapshotsPinned /\ OutcomeStands

-----------------------------------------------------------------------------
(* What the documentation says and the code does not keep *)

\* "Reassign an overdue, still-pending stage" (ApprovalRepository): an
\* escalation reassigns only a stage that is still pending.
EscalatesOnlyPending ==
    [][\A o \in Orders :
        stage'[o].id = stage[o].id /\ stage'[o].assigned_role # stage[o].assigned_role
        => stage[o].status = PENDING]_vars

\* A replay answers success only for a decision that is in force.
ReplayTruthful ==
    \A c \in Calls : pc[c] = "replayed" =>
        LET row == stage[op[c].order] IN row.id = op[c].row /\ row.status = Verdict(c)

\* A request is completed only if every stage of its definition is approved.
CompletedMeansApproved ==
    request.status = COMPLETED => \A o \in Orders : stage[o].status = APPROVED

\* A decision call that failed has left no decision on the stage.
FailedDecisionLeavesPending ==
    \A c \in Calls : Decides(c) /\ pc[c] = "failed" =>
        \A o \in Orders : stage[o].decided_by # c

\* A create_request call that failed has left no live request.
FailedCreateLeavesNothing ==
    \A c \in Calls : op[c].kind = "create" /\ pc[c] = "failed" =>
        request.version = 0 \/ request.deleted
=============================================================================
