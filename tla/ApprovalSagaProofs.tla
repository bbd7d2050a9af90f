------------------------- MODULE ApprovalSagaProofs -------------------------
(***************************************************************************)
(* Proofs about ApprovalSaga, for every set of calls and users, every      *)
(* number of stages and every fault budget: types, the decisions on the    *)
(* stages, the outcome of the request, who wrote what is in the rows, the  *)
(* chain of stages, and where the request points.                          *)
(***************************************************************************)
EXTENDS ApprovalSaga, WellFoundedInduction, TLAPS

-----------------------------------------------------------------------------
(* What the row operators return.                                          *)

\* One column of a stage row is set to a value of its type.
LEMMA SetStageColumn ==
    ASSUME NEW row \in Row
    PROVE  /\ \A v \in Nat : [row EXCEPT !.version = v] \in Row
           /\ \A v \in StageStatus : [row EXCEPT !.status = v] \in Row
           /\ \A v \in Calls \cup {None} : [row EXCEPT !.decided_by = v] \in Row
           /\ \A v \in Users \cup {None} : [row EXCEPT !.assigned_to = v] \in Row
           /\ \A v \in UserRole \cup {None} : [row EXCEPT !.assigned_role = v] \in Row
BY DEF Row

LEMMA RowFields ==
    ASSUME NEW row \in Row
    PROVE  /\ row.id \in Calls \cup {None} /\ row.version \in Nat
           /\ row.assigned_to \in Users \cup {None} /\ row.assigned_role \in UserRole \cup {None}
BY DEF Row

LEMMA NoRowType == NoRow \in Row /\ NoRow.id = None /\ NoRow.decided_by = None
                   /\ NoRow.status = "none" /\ NoRow.version = 0
BY DEF NoRow, Row

LEMMA NewStageRow ==
    ASSUME NEW c \in Calls, NEW o \in Orders
    PROVE  /\ NewStage(c, o) \in Row
           /\ NewStage(c, o).id = c
           /\ NewStage(c, o).version = 1
           /\ NewStage(c, o).status = PENDING
           /\ NewStage(c, o).decided_by = None
BY RoleAssumption DEF NewStage, Row, PENDING, StageStatus

LEMMA DecidedRow ==
    ASSUME NEW row \in Row, NEW c \in Calls, NEW verdict \in {APPROVED, REJECTED}
    PROVE  /\ Decided(row, verdict, c) \in Row
           /\ Decided(row, verdict, c).id = row.id
           /\ Decided(row, verdict, c).version = row.version + 1
           /\ Decided(row, verdict, c).status = verdict
           /\ Decided(row, verdict, c).decided_by = c
<1> DEFINE r1 == [row EXCEPT !.status = verdict]
           r2 == [r1 EXCEPT !.decided_by = c]
           r3 == [r2 EXCEPT !.version = row.version + 1]
<1>1. r1 \in Row
  BY SetStageColumn DEF APPROVED, REJECTED, StageStatus
<1>2. r2 \in Row
  BY <1>1, SetStageColumn
<1>3. row.version + 1 \in Nat
  BY DEF Row
<1>4. r3 \in Row
  BY <1>2, <1>3, SetStageColumn
<1>5. Decided(row, verdict, c) = r3
  BY DEF Decided
<1>6. /\ Decided(row, verdict, c).id = row.id
      /\ Decided(row, verdict, c).version = row.version + 1
      /\ Decided(row, verdict, c).status = verdict
      /\ Decided(row, verdict, c).decided_by = c
  BY DEF Decided, Row
<1> QED BY <1>4, <1>5, <1>6

LEMMA RevertedRow ==
    ASSUME NEW row \in Row
    PROVE  /\ Reverted(row) \in Row
           /\ Reverted(row).id = row.id
           /\ Reverted(row).version = row.version + 1
           /\ Reverted(row).status = PENDING
           /\ Reverted(row).decided_by = None
<1> DEFINE r1 == [row EXCEPT !.status = PENDING]
           r2 == [r1 EXCEPT !.decided_by = None]
           r3 == [r2 EXCEPT !.version = row.version + 1]
<1>1. r1 \in Row
  BY SetStageColumn DEF PENDING, StageStatus
<1>2. r2 \in Row
  BY <1>1, SetStageColumn
<1>3. row.version + 1 \in Nat
  BY DEF Row
<1>4. r3 \in Row
  BY <1>2, <1>3, SetStageColumn
<1>5. Reverted(row) = r3
  BY DEF Reverted
<1>6. /\ Reverted(row).id = row.id
      /\ Reverted(row).version = row.version + 1
      /\ Reverted(row).status = PENDING
      /\ Reverted(row).decided_by = None
  BY DEF Reverted, Row
<1> QED BY <1>4, <1>5, <1>6

LEMMA ReassignedRow ==
    ASSUME NEW row \in Row, NEW to \in Users \cup {None}, NEW role \in UserRole \cup {None}
    PROVE  /\ Reassigned(row, to, role) \in Row
           /\ Reassigned(row, to, role).id = row.id
           /\ Reassigned(row, to, role).version = row.version + 1
           /\ Reassigned(row, to, role).status = row.status
           /\ Reassigned(row, to, role).decided_by = row.decided_by
<1> DEFINE r1 == [row EXCEPT !.assigned_to = to]
           r2 == [r1 EXCEPT !.assigned_role = role]
           r3 == [r2 EXCEPT !.version = row.version + 1]
<1>1. r1 \in Row
  BY SetStageColumn
<1>2. r2 \in Row
  BY <1>1, SetStageColumn
<1>3. row.version + 1 \in Nat
  BY DEF Row
<1>4. r3 \in Row
  BY <1>2, <1>3, SetStageColumn
<1>5. Reassigned(row, to, role) = r3
  BY DEF Reassigned
<1>6. /\ Reassigned(row, to, role).id = row.id
      /\ Reassigned(row, to, role).version = row.version + 1
      /\ Reassigned(row, to, role).status = row.status
      /\ Reassigned(row, to, role).decided_by = row.decided_by
  BY DEF Reassigned, Row
<1> QED BY <1>4, <1>5, <1>6

\* One column of the request row is set to a value of its type.
LEMMA SetRequestColumn ==
    ASSUME NEW req \in RequestRow
    PROVE  /\ \A v \in Nat : [req EXCEPT !.version = v] \in RequestRow
           /\ \A v \in RequestStatus : [req EXCEPT !.status = v] \in RequestRow
           /\ \A v \in Calls \cup {None} : [req EXCEPT !.current = v] \in RequestRow
           /\ \A v \in BOOLEAN : [req EXCEPT !.completed = v] \in RequestRow
           /\ \A v \in BOOLEAN : [req EXCEPT !.deleted = v] \in RequestRow
BY DEF RequestRow

LEMMA NewRequestRow == NewRequest \in RequestRow
BY DEF NewRequest, NoRequest, RequestRow, PENDING, RequestStatus

LEMMA EditedRequest ==
    ASSUME NEW req \in RequestRow
    PROVE  Edited(req) \in RequestRow
BY DEF Edited, RequestRow

LEMMA WithdrawnRequest ==
    ASSUME NEW req \in RequestRow
    PROVE  Withdrawn(req) \in RequestRow
<1> DEFINE r1 == [req EXCEPT !.deleted = TRUE]
           r2 == [r1 EXCEPT !.version = req.version + 1]
<1>1. r1 \in RequestRow
  BY SetRequestColumn
<1>2. req.version + 1 \in Nat
  BY DEF RequestRow
<1>3. r2 \in RequestRow
  BY <1>1, <1>2, SetRequestColumn
<1> QED BY <1>3 DEF Withdrawn

\* A request row with four columns replaced, as SetCurrentStage writes it
\* forward and in compensation.
LEMMA MovedRequest ==
    ASSUME NEW req \in RequestRow, NEW status \in RequestStatus,
           NEW current \in Calls \cup {None}, NEW completed \in BOOLEAN
    PROVE  [req EXCEPT !.status = status, !.current = current, !.completed = completed,
                       !.version = @ + 1] \in RequestRow
<1> DEFINE r1 == [req EXCEPT !.status = status]
           r2 == [r1 EXCEPT !.current = current]
           r3 == [r2 EXCEPT !.completed = completed]
           r4 == [r3 EXCEPT !.version = req.version + 1]
<1>1. r1 \in RequestRow
  BY SetRequestColumn
<1>2. r2 \in RequestRow
  BY <1>1, SetRequestColumn
<1>3. r3 \in RequestRow
  BY <1>2, SetRequestColumn
<1>4. req.version + 1 \in Nat
  BY DEF RequestRow
<1>5. r4 \in RequestRow
  BY <1>3, <1>4, SetRequestColumn
<1> QED BY <1>5

LEMMA AdvancedRequest ==
    ASSUME NEW req \in RequestRow, NEW status \in RequestStatus,
           NEW current \in Calls \cup {None}
    PROVE  Advanced(req, status, current) \in RequestRow
<1>1. is_terminal_request_status(status) \in BOOLEAN
  BY DEF is_terminal_request_status
<1> QED BY <1>1, MovedRequest DEF Advanced

LEMMA RestoredRequestRow ==
    ASSUME TypeOK, NEW c \in Calls
    PROVE  RestoredRequest(c) \in RequestRow
<1>1. /\ seenReq[c].status \in RequestStatus /\ seenReq[c].current \in Calls \cup {None}
      /\ seenReq[c].completed \in BOOLEAN /\ request \in RequestRow
  BY DEF TypeOK, RequestRow
<1> QED BY <1>1, MovedRequest DEF RestoredRequest

LEMMA TargetStatusType ==
    ASSUME NEW c \in Calls
    PROVE  TargetStatus(c) \in RequestStatus
BY DEF TargetStatus, RequestStatus, PENDING, REJECTED, IN_REVIEW, COMPLETED

LEMMA VerdictType ==
    ASSUME NEW c \in Calls
    PROVE  Verdict(c) \in {APPROVED, REJECTED}
BY DEF Verdict

-----------------------------------------------------------------------------
(* What the building blocks of a statement do to a call.                   *)

PCs == Running \cup Ended \cup {"idle", "notify"}

LEMMA ReplyType ==
    ASSUME TypeOK, NEW r, NEW matches, Reply(r, matches)
    PROVE  budget' \in [errors: Nat, lost: Nat, crashes: Nat]
BY DEF TypeOK, Reply

\* A statement is applied only if it matches.
LEMMA ReplyApplied ==
    ASSUME NEW r, NEW matches, Reply(r, matches), Applied(r)
    PROVE  matches
BY DEF Reply, Applied

LEMMA ProceedType ==
    ASSUME TypeOK, NEW c \in Calls, NEW next \in PCs, NEW effects \in SUBSET Effects,
           Proceed(c, next, effects)
    PROVE  pc' \in [Calls -> PCs] /\ undo' \in [Calls -> SUBSET Effects]
           /\ left' \in [Calls -> SUBSET Effects]
BY DEF TypeOK, Proceed, PCs

LEMMA RaiseType ==
    ASSUME TypeOK, NEW c \in Calls, NEW remaining \in SUBSET Effects, Raise(c, remaining)
    PROVE  pc' \in [Calls -> PCs] /\ undo' \in [Calls -> SUBSET Effects]
           /\ left' \in [Calls -> SUBSET Effects]
BY DEF TypeOK, Raise, PCs, Running, Ended

LEMMA StatementType ==
    ASSUME TypeOK, NEW c \in Calls, NEW r, NEW next \in PCs,
           NEW compensable \in SUBSET Effects, NEW effect \in Effects,
           Statement(c, r, next, compensable, effect)
    PROVE  pc' \in [Calls -> PCs] /\ undo' \in [Calls -> SUBSET Effects]
           /\ left' \in [Calls -> SUBSET Effects]
<1>1. CASE r = "ok"
  BY <1>1, ProceedType DEF Statement
<1>2. CASE r # "ok"
  BY <1>2, RaiseType DEF Statement
<1> QED BY <1>1, <1>2

LEMMA CompensateType ==
    ASSUME TypeOK, NEW c \in Calls, NEW r, NEW effect \in Effects, Compensate(c, r, effect)
    PROVE  /\ pc' \in [Calls -> PCs] /\ undo' \in [Calls -> SUBSET Effects]
           /\ left' \in [Calls -> SUBSET Effects]
           /\ UNCHANGED <<audit, notices, op, seen, seenReq>>
BY DEF TypeOK, Compensate, PCs, Running, Ended

-----------------------------------------------------------------------------
(* Type correctness.                                                       *)

LEMMA InitType == Init => TypeOK
BY BudgetAssumption
   DEF Init, TypeOK, NoRequest, RequestRow, NoRow, Row, NoOp, Args, Op, Orders, RequestStatus,
       PENDING, Running

LEMMA NextType == TypeOK /\ CallsWellFormed /\ [Next]_vars => TypeOK'
<1> SUFFICES ASSUME TypeOK, CallsWellFormed, [Next]_vars PROVE TypeOK'
  OBVIOUS
<1>0. CASE UNCHANGED vars
  BY <1>0 DEF vars, TypeOK
<1>1. ASSUME NEW c \in Calls, CreateRequest(c) PROVE TypeOK'
  <2>1. PICK r \in Replies :
          /\ Reply(r, TRUE)
          /\ request' = IF Applied(r) THEN NewRequest ELSE request
          /\ Statement(c, r, "create_stage", {"insert"}, "insert")
    BY <1>1 DEF CreateRequest
  <2>2. request' \in RequestRow
    BY <2>1, NewRequestRow DEF TypeOK
  <2>3. op' \in [Calls -> Op]
    BY <1>1, RoleAssumption DEF CreateRequest, TypeOK, Op, Args, Kinds
  <2>4. seenReq' \in [Calls -> RequestRow]
    BY <1>1, NewRequestRow DEF CreateRequest, TypeOK
  <2>5. pc' \in [Calls -> PCs] /\ undo' \in [Calls -> SUBSET Effects]
        /\ left' \in [Calls -> SUBSET Effects]
    BY <2>1, StatementType DEF PCs, Running, Effects
  <2> QED
    BY <1>1, <2>1, <2>2, <2>3, <2>4, <2>5, ReplyType DEF CreateRequest, TypeOK, PCs
<1>2. ASSUME NEW c \in Calls, ReadStage(c) PROVE TypeOK'
  <2>1. op' \in [Calls -> Op]
    BY <1>2 DEF ReadStage, TypeOK, Op, Args, Kinds, Orders, Row
  <2>2. seen' \in [Calls -> Row]
    BY <1>2 DEF ReadStage, TypeOK
  <2>3. pc' \in [Calls -> PCs]
    BY <1>2 DEF ReadStage, TypeOK, PCs, Running, Ended
  <2> QED
    BY <1>2, <2>1, <2>2, <2>3 DEF ReadStage, TypeOK, db, PCs
<1>3. ASSUME NEW c \in Calls, DecideStage(c) PROVE TypeOK'
  <2> DEFINE o == op[c].order
  <2>1. PICK r \in Replies :
          /\ Reply(r, stage[o].id = op[c].row /\ stage[o].version = VersionToUse(c))
          /\ stage' = IF Applied(r)
                      THEN [stage EXCEPT ![o] = Decided(@, Verdict(c), c)] ELSE stage
          /\ Statement(c, r, "read_request", {"decision"}, "decision")
    BY <1>3 DEF DecideStage
  <2>2. o \in Orders
    BY <1>3 DEF DecideStage, CallsWellFormed, CallWellFormed, Decides
  <2>3. stage' \in [Orders -> Row]
    BY <2>1, <2>2, DecidedRow, VerdictType DEF TypeOK
  <2>4. pc' \in [Calls -> PCs] /\ undo' \in [Calls -> SUBSET Effects]
        /\ left' \in [Calls -> SUBSET Effects]
    BY <2>1, StatementType DEF PCs, Running, Effects
  <2> QED
    BY <1>3, <2>1, <2>3, <2>4, ReplyType DEF DecideStage, TypeOK, PCs
<1>4. ASSUME NEW c \in Calls, ReadRequest(c) PROVE TypeOK'
  <2>1. PICK r \in {"ok", "error"} :
          /\ Reply(r, TRUE)
          /\ seenReq' = [seenReq EXCEPT ![c] = IF r = "ok" THEN request ELSE @]
          /\ \/ Raise(c, {})
             \/ Proceed(c, IF op[c].kind = "reject" THEN "advance" ELSE "plan", {})
    BY <1>4 DEF ReadRequest
  <2>2. seenReq' \in [Calls -> RequestRow]
    BY <2>1 DEF TypeOK
  <2>3. pc' \in [Calls -> PCs] /\ undo' \in [Calls -> SUBSET Effects]
        /\ left' \in [Calls -> SUBSET Effects]
    BY <2>1, RaiseType, ProceedType DEF PCs, Running, Effects
  <2> QED
    BY <1>4, <2>1, <2>2, <2>3, ReplyType DEF ReadRequest, TypeOK, db, PCs
<1>5. ASSUME NEW c \in Calls, PlanNextStage(c) PROVE TypeOK'
  <2>1. PICK r \in {"ok", "error"} :
          /\ Reply(r, TRUE)
          /\ \/ Raise(c, {})
             \/ Proceed(c, IF AddsStage(c) THEN "create_stage" ELSE "advance", {})
    BY <1>5 DEF PlanNextStage
  <2>2. pc' \in [Calls -> PCs] /\ undo' \in [Calls -> SUBSET Effects]
        /\ left' \in [Calls -> SUBSET Effects]
    BY <2>1, RaiseType, ProceedType DEF PCs, Running, Effects
  <2> QED
    BY <1>5, <2>1, <2>2, ReplyType DEF PlanNextStage, TypeOK, db, PCs
<1>6. ASSUME NEW c \in Calls, CreateStage(c) PROVE TypeOK'
  <2> DEFINE o == NewOrder(c)
  <2>1. PICK r \in Replies, next \in {"advance", "rollback"}, new \in {{}, {"stage"}} :
          /\ Reply(r, ~Exists(o))
          /\ stage' = IF Applied(r) THEN [stage EXCEPT ![o] = NewStage(c, o)] ELSE stage
          /\ Statement(c, r, next, new, "stage")
    BY <1>6 DEF CreateStage
  <2>2. o \in Orders
    BY <1>6 DEF CreateStage, CallsWellFormed, CallWellFormed
  <2>3. stage' \in [Orders -> Row]
    BY <2>1, <2>2, NewStageRow DEF TypeOK
  <2>4. pc' \in [Calls -> PCs] /\ undo' \in [Calls -> SUBSET Effects]
        /\ left' \in [Calls -> SUBSET Effects]
    BY <2>1, StatementType DEF PCs, Running, Effects
  <2> QED
    BY <1>6, <2>1, <2>3, <2>4, ReplyType DEF CreateStage, TypeOK, PCs
<1>7. ASSUME NEW c \in Calls, SetCurrentStage(c) PROVE TypeOK'
  <2> DEFINE current == IF AddsStage(c) THEN c ELSE None
  <2>1. PICK r \in Replies, new \in {{}, {"request"}} :
          /\ Reply(r, request.version = RequestVersionToUse(c))
          /\ request' = IF Applied(r) THEN Advanced(request, TargetStatus(c), current)
                                      ELSE request
          /\ Statement(c, r, "audit", new, "request")
    BY <1>7 DEF SetCurrentStage
  <2>2. current \in Calls \cup {None}
    OBVIOUS
  <2>3. request' \in RequestRow
    BY <2>1, <2>2, AdvancedRequest, TargetStatusType DEF TypeOK
  <2>4. pc' \in [Calls -> PCs] /\ undo' \in [Calls -> SUBSET Effects]
        /\ left' \in [Calls -> SUBSET Effects]
    BY <2>1, StatementType DEF PCs, Running, Effects
  <2> QED
    BY <1>7, <2>1, <2>3, <2>4, ReplyType DEF SetCurrentStage, TypeOK, PCs
<1>8. ASSUME NEW c \in Calls, RecordEvent(c) PROVE TypeOK'
  <2>1. PICK rows \in 0 .. 2 : audit' = [audit EXCEPT ![c] = @ + rows]
    BY <1>8 DEF RecordEvent
  <2>2. audit' \in [Calls -> Nat]
    BY <2>1 DEF TypeOK
  <2>3. budget' \in [errors: Nat, lost: Nat, crashes: Nat]
    BY <1>8, ReplyType DEF RecordEvent, TypeOK
  <2>4. \/ \E next \in {"done", "notify"} : Commit(c, next)
        \/ \E lost \in {{}, {"audit"}} : Raise(c, Uncompensated(c) \cup lost)
    BY <1>8 DEF RecordEvent
  <2>5. Uncompensated(c) \in SUBSET Effects
    BY DEF Uncompensated, Effects
  <2>6. pc' \in [Calls -> PCs] /\ undo' \in [Calls -> SUBSET Effects]
        /\ left' \in [Calls -> SUBSET Effects]
    <3>1. ASSUME NEW next \in {"done", "notify"}, Commit(c, next)
          PROVE  pc' \in [Calls -> PCs] /\ undo' \in [Calls -> SUBSET Effects]
                 /\ left' \in [Calls -> SUBSET Effects]
      BY <3>1 DEF Commit, TypeOK, PCs, Ended
    <3>2. ASSUME NEW lost \in {{}, {"audit"}}, Raise(c, Uncompensated(c) \cup lost)
          PROVE  pc' \in [Calls -> PCs] /\ undo' \in [Calls -> SUBSET Effects]
                 /\ left' \in [Calls -> SUBSET Effects]
      <4>1. Uncompensated(c) \cup lost \in SUBSET Effects
        BY <2>5 DEF Effects
      <4> QED BY <3>2, <4>1, RaiseType
    <3> QED BY <2>4, <3>1, <3>2
  <2> QED
    BY <1>8, <2>2, <2>3, <2>6 DEF RecordEvent, TypeOK, PCs
<1>9. ASSUME NEW c \in Calls, Notify(c) PROVE TypeOK'
  <2>1. notices' \subseteq [kind: {"assignment", "decision", "completion"}, call: Calls]
    BY <1>9 DEF Notify, TypeOK
  <2>2. budget' \in [errors: Nat, lost: Nat, crashes: Nat]
    BY <1>9, ReplyType DEF Notify, TypeOK
  <2>3. pc' \in [Calls -> PCs] /\ left' \in [Calls -> SUBSET Effects]
    BY <1>9 DEF Notify, TypeOK, PCs, Ended, Effects
  <2> QED
    BY <1>9, <2>1, <2>2, <2>3 DEF Notify, TypeOK, PCs
<1>10. ASSUME NEW c \in Calls, DiscoverStage(c) PROVE TypeOK'
  <2>1. PICK o \in Orders : op' = [op EXCEPT ![c] = Args("escalate", None, o, stage[o].id, 0)]
    BY <1>10 DEF DiscoverStage
  <2>2a. stage[o] \in Row
    BY DEF TypeOK
  <2>2b. stage[o].id \in Calls \cup {None}
    BY <2>2a DEF Row
  <2>2. o \in Nat /\ 0 \in Nat
    BY DEF Orders
  <2>3. Args("escalate", None, o, stage[o].id, 0) \in Op
    BY <2>2, <2>2b DEF Op, Args, Kinds
  <2>4. op' \in [Calls -> Op]
    BY <2>1, <2>3 DEF TypeOK
  <2>5. pc' \in [Calls -> PCs]
    BY <1>10 DEF DiscoverStage, TypeOK, PCs, Running
  <2> QED
    BY <1>10, <2>4, <2>5 DEF DiscoverStage, TypeOK, db, PCs
<1>11. ASSUME NEW c \in Calls, EscalateRead(c) PROVE TypeOK'
  <2>1. op[c].order \in Orders
    BY <1>11 DEF EscalateRead, CallsWellFormed, CallWellFormed
  <2>2. seen' \in [Calls -> Row]
    BY <1>11, <2>1 DEF EscalateRead, TypeOK
  <2>3. pc' \in [Calls -> PCs]
    BY <1>11 DEF EscalateRead, TypeOK, PCs, Running, Ended
  <2> QED
    BY <1>11, <2>2, <2>3 DEF EscalateRead, TypeOK, db, PCs
<1>12. ASSUME NEW c \in Calls, EscalateStage(c) PROVE TypeOK'
  <2> DEFINE o == op[c].order
  <2>1. PICK r \in Replies :
          /\ Reply(r, stage[o].id = op[c].row /\ stage[o].version = seen[c].version)
          /\ stage' = IF Applied(r)
                      THEN [stage EXCEPT ![o] = Reassigned(@, None, ADMIN)] ELSE stage
          /\ Statement(c, r, "audit", {"assignment"}, "assignment")
    BY <1>12 DEF EscalateStage
  <2>2. o \in Orders
    BY <1>12 DEF EscalateStage, CallsWellFormed, CallWellFormed
  <2>3. stage' \in [Orders -> Row]
    BY <2>1, <2>2, ReassignedRow DEF TypeOK, UserRole
  <2>4. pc' \in [Calls -> PCs] /\ undo' \in [Calls -> SUBSET Effects]
        /\ left' \in [Calls -> SUBSET Effects]
    BY <2>1, StatementType DEF PCs, Running, Effects
  <2> QED
    BY <1>12, <2>1, <2>3, <2>4, ReplyType DEF EscalateStage, TypeOK, PCs
<1>13. ASSUME NEW c \in Calls, ReadOwnRequest(c) PROVE TypeOK'
  <2>1. op' \in [Calls -> Op]
    BY <1>13 DEF ReadOwnRequest, TypeOK, Op, Args, Kinds, RequestRow
  <2>2. seenReq' \in [Calls -> RequestRow]
    BY <1>13 DEF ReadOwnRequest, TypeOK
  <2>3. pc' \in [Calls -> PCs]
    BY <1>13 DEF ReadOwnRequest, TypeOK, PCs, Running, Ended
  <2> QED
    BY <1>13, <2>1, <2>2, <2>3 DEF ReadOwnRequest, TypeOK, db, PCs
<1>14. ASSUME NEW c \in Calls, UpdateFields(c) PROVE TypeOK'
  <2>1. PICK r \in Replies :
          /\ Reply(r, request.version = op[c].want)
          /\ request' = IF Applied(r) THEN Edited(request) ELSE request
          /\ Statement(c, r, "done", {}, "edit")
    BY <1>14 DEF UpdateFields
  <2>2. request' \in RequestRow
    BY <2>1, EditedRequest DEF TypeOK
  <2>3. pc' \in [Calls -> PCs] /\ undo' \in [Calls -> SUBSET Effects]
        /\ left' \in [Calls -> SUBSET Effects]
    BY <2>1, StatementType DEF PCs, Ended, Effects
  <2> QED
    BY <1>14, <2>1, <2>2, <2>3, ReplyType DEF UpdateFields, TypeOK, PCs
<1>15. ASSUME NEW c \in Calls, SoftDelete(c) PROVE TypeOK'
  <2>1. PICK r \in Replies :
          /\ Reply(r, request.version = op[c].want)
          /\ request' = IF Applied(r) THEN Withdrawn(request) ELSE request
          /\ Statement(c, r, "audit", {}, "withdrawal")
    BY <1>15 DEF SoftDelete
  <2>2. request' \in RequestRow
    BY <2>1, WithdrawnRequest DEF TypeOK
  <2>3. pc' \in [Calls -> PCs] /\ undo' \in [Calls -> SUBSET Effects]
        /\ left' \in [Calls -> SUBSET Effects]
    BY <2>1, StatementType DEF PCs, Running, Effects
  <2> QED
    BY <1>15, <2>1, <2>2, <2>3, ReplyType DEF SoftDelete, TypeOK, PCs
<1>16. ASSUME NEW c \in Calls, RestoreRequest(c) PROVE TypeOK'
  <2>1. PICK r \in Replies, matches \in BOOLEAN :
          /\ Reply(r, matches)
          /\ request' = IF Applied(r) THEN RestoredRequest(c) ELSE request
          /\ Compensate(c, r, "request")
    BY <1>16 DEF RestoreRequest
  <2>2. request' \in RequestRow
    BY <2>1, RestoredRequestRow DEF TypeOK
  <2> QED
    BY <1>16, <2>1, <2>2, ReplyType, CompensateType DEF RestoreRequest, TypeOK, PCs, Effects
<1>17. ASSUME NEW c \in Calls, DeleteIfUnchanged(c) PROVE TypeOK'
  <2>1. PICK r \in Replies, matches \in BOOLEAN :
          /\ Reply(r, matches)
          /\ stage' = IF Applied(r) THEN [stage EXCEPT ![NewOrder(c)] = NoRow] ELSE stage
          /\ Compensate(c, r, "stage")
    BY <1>17 DEF DeleteIfUnchanged
  <2>2. stage' \in [Orders -> Row]
    BY <2>1, NoRowType DEF TypeOK
  <2> QED
    BY <1>17, <2>1, <2>2, ReplyType, CompensateType DEF DeleteIfUnchanged, TypeOK, PCs, Effects
<1>18. ASSUME NEW c \in Calls, RevertToPending(c) PROVE TypeOK'
  <2> DEFINE o == op[c].order
  <2>1. PICK r \in Replies, matches \in BOOLEAN :
          /\ Reply(r, matches)
          /\ stage' = IF Applied(r) THEN [stage EXCEPT ![o] = Reverted(@)] ELSE stage
          /\ Compensate(c, r, "decision")
    BY <1>18 DEF RevertToPending
  <2>2. stage' \in [Orders -> Row]
    BY <2>1, RevertedRow DEF TypeOK
  <2> QED
    BY <1>18, <2>1, <2>2, ReplyType, CompensateType DEF RevertToPending, TypeOK, PCs, Effects
<1>19. ASSUME NEW c \in Calls, RestoreAssignment(c) PROVE TypeOK'
  <2> DEFINE o == op[c].order
  <2>1. PICK r \in Replies, matches \in BOOLEAN :
          /\ Reply(r, matches)
          /\ stage' = IF Applied(r)
                      THEN [stage EXCEPT ![o] = Reassigned(@, seen[c].assigned_to,
                                                              seen[c].assigned_role)]
                      ELSE stage
          /\ Compensate(c, r, "assignment")
    BY <1>19 DEF RestoreAssignment
  <2>2. seen[c].assigned_to \in Users \cup {None} /\ seen[c].assigned_role \in UserRole \cup {None}
    BY RowFields DEF TypeOK
  <2>3. stage' \in [Orders -> Row]
    BY <2>1, <2>2, ReassignedRow DEF TypeOK
  <2> QED
    BY <1>19, <2>1, <2>3, ReplyType, CompensateType DEF RestoreAssignment, TypeOK, PCs, Effects
<1>20. ASSUME NEW c \in Calls, DeleteCreated(c) PROVE TypeOK'
  <2>1. PICK r \in Replies, matches \in BOOLEAN :
          /\ Reply(r, matches)
          /\ request' = IF Applied(r) THEN Withdrawn(request) ELSE request
          /\ Compensate(c, r, "insert")
    BY <1>20 DEF DeleteCreated
  <2>2. request' \in RequestRow
    BY <2>1, WithdrawnRequest DEF TypeOK
  <2> QED
    BY <1>20, <2>1, <2>2, ReplyType, CompensateType DEF DeleteCreated, TypeOK, PCs, Effects
<1>21. ASSUME NEW c \in Calls, Crash(c) PROVE TypeOK'
  <2>1. budget' \in [errors: Nat, lost: Nat, crashes: Nat]
    BY <1>21 DEF Crash, TypeOK
  <2>2. Uncompensated(c) \in SUBSET Effects
    BY DEF Uncompensated, Effects
  <2>3. pc' \in [Calls -> PCs] /\ undo' \in [Calls -> SUBSET Effects]
        /\ left' \in [Calls -> SUBSET Effects]
    BY <1>21, <2>2 DEF Crash, TypeOK, PCs, Ended
  <2> QED
    BY <1>21, <2>1, <2>3 DEF Crash, TypeOK, db, PCs
<1> QED
  BY <1>0, <1>1, <1>2, <1>3, <1>4, <1>5, <1>6, <1>7, <1>8, <1>9, <1>10, <1>11, <1>12, <1>13,
     <1>14, <1>15, <1>16, <1>17, <1>18, <1>19, <1>20, <1>21
     DEF Next, Step

-----------------------------------------------------------------------------
(* The decision protocol.  A step is one call's: the others keep where they *)
(* are, what they have read and what they have to undo.                     *)

OthersUnchanged(c) ==
    \A d \in Calls \ {c} :
        pc'[d] = pc[d] /\ undo'[d] = undo[d] /\ op'[d] = op[d] /\ seen'[d] = seen[d]

LEMMA RaiseFrame ==
    ASSUME TypeOK, NEW c \in Calls, NEW remaining, Raise(c, remaining)
    PROVE  /\ \A d \in Calls \ {c} : pc'[d] = pc[d] /\ undo'[d] = undo[d]
           /\ pc'[c] \in {"failed", "rollback"} /\ undo'[c] = undo[c]
BY DEF TypeOK, Raise

LEMMA ProceedFrame ==
    ASSUME TypeOK, NEW c \in Calls, NEW next, NEW effects, Proceed(c, next, effects)
    PROVE  /\ \A d \in Calls \ {c} : pc'[d] = pc[d] /\ undo'[d] = undo[d]
           /\ pc'[c] = next /\ undo'[c] = undo[c] \cup effects
BY DEF TypeOK, Proceed

LEMMA StatementFrame ==
    ASSUME TypeOK, NEW c \in Calls, NEW r, NEW next, NEW compensable, NEW effect,
           Statement(c, r, next, compensable, effect)
    PROVE  /\ \A d \in Calls \ {c} : pc'[d] = pc[d] /\ undo'[d] = undo[d]
           /\ \/ r = "ok" /\ pc'[c] = next /\ undo'[c] = undo[c] \cup compensable
              \/ r # "ok" /\ pc'[c] \in {"failed", "rollback"} /\ undo'[c] = undo[c]
<1>1. CASE r = "ok"
  BY <1>1, ProceedFrame DEF Statement
<1>2. CASE r # "ok"
  BY <1>2, RaiseFrame DEF Statement
<1> QED BY <1>1, <1>2

LEMMA CompensateFrame ==
    ASSUME TypeOK, NEW c \in Calls, NEW r, NEW effect, Compensate(c, r, effect)
    PROVE  /\ OthersUnchanged(c)
           /\ pc'[c] \in {"failed", "rollback"} /\ undo'[c] = undo[c] \ {effect}
           /\ op' = op /\ seen' = seen
BY DEF TypeOK, Compensate, OthersUnchanged

LEMMA InitInv == Init => DecisionInv
<1> SUFFICES ASSUME Init PROVE DecisionInv
  OBVIOUS
<1>1. TypeOK
  BY InitType
<1>2. RowIdsFresh /\ RowsWellFormed
  BY NoneAssumption
     DEF Init, RowIdsFresh, RowsWellFormed, NoRow, NoOp, Args, PENDING
<1>3. CallsWellFormed
  BY DEF Init, CallsWellFormed, CallWellFormed, Decides, NoOp, Args
<1>4. DecisionPinned /\ DecisionStands
  BY DEF Init, DecisionPinned, DecisionStands, DecisionInForce, Decides, NoOp, Args
<1> QED BY <1>1, <1>2, <1>3, <1>4 DEF DecisionInv

\* A step that leaves the stages alone, does not come to the decision and
\* does not enter the part in which a decision is in force.
LEMMA QuietStep ==
    ASSUME DecisionInv, TypeOK', NEW c \in Calls, OthersUnchanged(c), stage' = stage,
           CallWellFormed(c)',
           pc'[c] \in NotYetCreated => pc[c] \in NotYetCreated,
           op'[c].row = op[c].row \/ op'[c].row = None \/ \E o \in Orders : op'[c].row = stage[o].id,
           pc'[c] # "decide",
           DecisionInForce(c)' => DecisionInForce(c) /\ op'[c] = op[c]
    PROVE  DecisionInv'
<1> USE DEF DecisionInv
<1>1. RowIdsFresh'
  BY NoneAssumption DEF RowIdsFresh, OthersUnchanged
<1>2. RowsWellFormed'
  BY DEF RowsWellFormed
<1>3. CallsWellFormed'
  BY DEF CallsWellFormed, CallWellFormed, OthersUnchanged, Decides, NewOrder
<1>4. DecisionPinned'
  BY DEF DecisionPinned, OthersUnchanged, VersionToUse
<1>5. DecisionStands'
  BY DEF DecisionStands, DecisionInForce, OthersUnchanged, Decides, Verdict
<1> QED BY <1>1, <1>2, <1>3, <1>4, <1>5

\* A step that writes one stage row.  The row keeps its id and moves its
\* version, or is removed, or is a new row under a fresh id; and decisions in
\* force on it, other calls' and the step's own, stand afterwards.
LEMMA RowStep ==
    ASSUME DecisionInv, TypeOK', NEW c \in Calls, OthersUnchanged(c), op' = op, seen' = seen,
           NEW o \in Orders, \A p \in Orders \ {o} : stage'[p] = stage[p],
           CallWellFormed(c)',
           pc'[c] \in NotYetCreated => pc[c] \in NotYetCreated,
           pc'[c] # "decide",
           \/ stage'[o].id = stage[o].id /\ stage'[o].version > stage[o].version
           \/ stage'[o].id = None
           \/ stage'[o].id = c /\ pc[c] \in NotYetCreated /\ pc'[c] \notin NotYetCreated,
           stage'[o].id # None => stage'[o].version >= 1,
           stage'[o].status = PENDING => stage'[o].id # None /\ stage'[o].decided_by = None,
           stage'[o].decided_by # None => stage'[o].id # None /\ stage'[o].version >= 2,
           \A d \in Calls \ {c} : DecisionInForce(d) /\ op[d].order = o =>
                /\ stage'[o].id = op[d].row /\ stage'[o].decided_by = d
                /\ stage'[o].status = Verdict(d),
           DecisionInForce(c)' =>
                /\ stage'[op[c].order].id = op[c].row /\ stage'[op[c].order].decided_by = c
                /\ stage'[op[c].order].status = Verdict(c)
    PROVE  DecisionInv'
<1> USE DEF DecisionInv
<1>1. RowIdsFresh'
  BY NoneAssumption DEF RowIdsFresh, OthersUnchanged
<1>2. RowsWellFormed'
  BY DEF RowsWellFormed
<1>3. CallsWellFormed'
  BY DEF CallsWellFormed, CallWellFormed, OthersUnchanged, Decides, NewOrder
<1>4. DecisionPinned'
  <2> SUFFICES ASSUME NEW d \in Calls, pc'[d] = "decide"
               PROVE  /\ VersionToUse(d)' >= 1
                      /\ stage'[op[d].order].id = op[d].row =>
                          /\ VersionToUse(d)' <= stage'[op[d].order].version
                          /\ VersionToUse(d)' = stage'[op[d].order].version =>
                              stage'[op[d].order].status = PENDING
    BY DEF DecisionPinned
  <2>1. d # c /\ pc[d] = "decide" /\ VersionToUse(d)' = VersionToUse(d)
    BY DEF OthersUnchanged, VersionToUse
  <2>2. op[d].order \in Orders /\ op[d].row # None
    BY <2>1 DEF CallsWellFormed, CallWellFormed
  <2>3. CASE op[d].order # o
    BY <2>1, <2>2, <2>3 DEF DecisionPinned
  <2>4. CASE op[d].order = o
    <3>1. stage[o].version \in Nat /\ stage'[o].version \in Nat /\ VersionToUse(d) \in Nat
      BY RowFields DEF TypeOK, VersionToUse, Op
    <3>2. pc[c] \in NotYetCreated => op[d].row # c
      BY DEF RowIdsFresh
    <3>3. CASE stage'[o].id = stage[o].id /\ stage'[o].version > stage[o].version
      BY <2>1, <2>4, <3>1, <3>3 DEF DecisionPinned
    <3>4. CASE stage'[o].id # op[d].row
      BY <2>1, <2>4, <3>4 DEF DecisionPinned
    <3> QED BY <2>2, <3>2, <3>3, <3>4
  <2> QED BY <2>3, <2>4
<1>5. DecisionStands'
  <2> SUFFICES ASSUME NEW d \in Calls, DecisionInForce(d)'
               PROVE  /\ stage'[op[d].order].id = op[d].row
                      /\ stage'[op[d].order].decided_by = d
                      /\ stage'[op[d].order].status = Verdict(d)
    BY DEF DecisionStands, Verdict
  <2>1. CASE d = c
    BY <2>1
  <2>2. CASE d # c
    <3>1. DecisionInForce(d)
      BY <2>2 DEF DecisionInForce, OthersUnchanged, Decides
    <3>2. op[d].order \in Orders
      BY <3>1 DEF DecisionInForce, CallsWellFormed, CallWellFormed
    <3>3. CASE op[d].order = o
      BY <2>2, <3>1, <3>3
    <3>4. CASE op[d].order # o
      BY <3>1, <3>2, <3>4 DEF DecisionStands
    <3> QED BY <3>3, <3>4
  <2> QED BY <2>1, <2>2
<1> QED BY <1>1, <1>2, <1>3, <1>4, <1>5

\* The calls of the steps that write no stage row.
LEMMA QuietActions ==
    ASSUME DecisionInv, TypeOK', NEW c \in Calls,
           \/ CreateRequest(c) \/ ReadRequest(c) \/ PlanNextStage(c) \/ SetCurrentStage(c)
           \/ RecordEvent(c) \/ Notify(c) \/ DiscoverStage(c) \/ EscalateRead(c)
           \/ ReadOwnRequest(c) \/ UpdateFields(c) \/ SoftDelete(c) \/ RestoreRequest(c)
           \/ DeleteCreated(c) \/ Crash(c)
    PROVE  DecisionInv'
<1> USE DEF DecisionInv
<1>0. CallWellFormed(c) /\ TypeOK
  BY DEF CallsWellFormed
<1>1. CASE CreateRequest(c)
  <2>1. PICK r \in Replies : Statement(c, r, "create_stage", {"insert"}, "insert")
    BY <1>1 DEF CreateRequest
  <2>2. OthersUnchanged(c) /\ stage' = stage /\ op'[c].row = None /\ ~Decides(c)'
        /\ op'[c].kind = "create" /\ op'[c].order = 0
    BY <1>0, <1>1, <2>1, StatementFrame DEF CreateRequest, OthersUnchanged, TypeOK, Args, Decides
  <2>3. undo[c] = {} /\ pc[c] = "idle"
    BY <1>0, <1>1 DEF CallWellFormed, CreateRequest
  <2>4. /\ pc'[c] \in {"create_stage", "failed", "rollback"}
        /\ undo'[c] \subseteq {"insert"}
    BY <1>0, <2>1, <2>3, StatementFrame
  <2>5. 0 + 1 \in Orders
    BY StageAssumption DEF Orders
  <2>6. CallWellFormed(c)'
    BY <2>2, <2>4, <2>5 DEF CallWellFormed, NewOrder, Decides
  <2> QED
    BY <2>2, <2>3, <2>4, <2>6, QuietStep DEF NotYetCreated, DecisionInForce
<1>2. CASE ReadRequest(c)
  <2>0. Raise(c, {}) \/ \E next \in {"advance", "plan"} : Proceed(c, next, {})
    BY <1>2 DEF ReadRequest
  <2>1. /\ OthersUnchanged(c) /\ stage' = stage /\ op' = op /\ undo'[c] \subseteq undo[c]
        /\ pc[c] = "read_request"
        /\ pc'[c] \in {"advance", "plan", "failed", "rollback"}
    <3>1. stage' = stage /\ op' = op /\ seen' = seen /\ pc[c] = "read_request"
      BY <1>2 DEF ReadRequest, db
    <3>2. CASE Raise(c, {})
      BY <1>0, <3>1, <3>2, RaiseFrame DEF OthersUnchanged
    <3>3. ASSUME NEW next \in {"advance", "plan"}, Proceed(c, next, {})
          PROVE  /\ OthersUnchanged(c) /\ undo'[c] \subseteq undo[c] /\ pc'[c] = next
      BY <1>0, <3>1, <3>3, ProceedFrame DEF OthersUnchanged
    <3> QED BY <2>0, <3>1, <3>2, <3>3, RaiseFrame, <1>0
  <2>2. CallWellFormed(c)'
    BY <1>0, <2>1 DEF CallWellFormed, NewOrder, Decides
  <2> QED
    BY <2>1, <2>2, QuietStep DEF NotYetCreated, DecisionInForce, Decides
<1>3. CASE PlanNextStage(c)
  <2>0. Raise(c, {}) \/ \E next \in {"create_stage", "advance"} :
                            Proceed(c, next, {}) /\ (next = "create_stage" => AddsStage(c))
    BY <1>3 DEF PlanNextStage
  <2>1. /\ OthersUnchanged(c) /\ stage' = stage /\ op' = op /\ undo'[c] \subseteq undo[c]
        /\ pc[c] = "plan"
        /\ pc'[c] \in {"create_stage", "advance", "failed", "rollback"}
        /\ pc'[c] = "create_stage" => AddsStage(c)
    <3>1. stage' = stage /\ op' = op /\ seen' = seen /\ pc[c] = "plan"
      BY <1>3 DEF PlanNextStage, db
    <3>2. CASE Raise(c, {})
      BY <1>0, <3>1, <3>2, RaiseFrame DEF OthersUnchanged
    <3>3. ASSUME NEW next \in {"create_stage", "advance"}, Proceed(c, next, {})
          PROVE  /\ OthersUnchanged(c) /\ undo'[c] \subseteq undo[c] /\ pc'[c] = next
      BY <1>0, <3>1, <3>3, ProceedFrame DEF OthersUnchanged
    <3> QED BY <2>0, <3>1, <3>2, <3>3, RaiseFrame, <1>0
  <2>2. AddsStage(c) => NewOrder(c) \in Orders
    BY <1>0, StageAssumption
       DEF CallWellFormed, AddsStage, NewOrder, Decides, is_final_stage, Orders
  <2>3. CallWellFormed(c)'
    BY <1>0, <2>1, <2>2 DEF CallWellFormed, NewOrder, Decides
  <2> QED
    BY <2>1, <2>3, QuietStep DEF NotYetCreated, DecisionInForce, Decides
<1>4. CASE SetCurrentStage(c)
  <2>1. PICK r \in Replies, new \in {{}, {"request"}} : Statement(c, r, "audit", new, "request")
    BY <1>4 DEF SetCurrentStage
  <2>2. /\ OthersUnchanged(c) /\ stage' = stage /\ op' = op /\ pc[c] = "advance"
        /\ undo'[c] \subseteq undo[c] \cup {"request"}
        /\ pc'[c] \in {"audit", "failed", "rollback"}
    BY <1>0, <1>4, <2>1, StatementFrame DEF SetCurrentStage, OthersUnchanged
  <2>3. CallWellFormed(c)'
    BY <1>0, <2>2 DEF CallWellFormed, NewOrder, Decides
  <2> QED
    BY <2>2, <2>3, QuietStep DEF NotYetCreated, DecisionInForce, Decides
<1>5. CASE RecordEvent(c)
  <2>1. /\ OthersUnchanged(c) /\ stage' = stage /\ op' = op /\ pc[c] = "audit"
        /\ undo'[c] \subseteq undo[c]
        /\ pc'[c] \in {"done", "notify", "failed", "rollback"}
    BY <1>0, <1>5, RaiseFrame DEF RecordEvent, Commit, OthersUnchanged, TypeOK
  <2>2. CallWellFormed(c)'
    BY <1>0, <2>1 DEF CallWellFormed, NewOrder, Decides
  <2> QED
    BY <2>1, <2>2, QuietStep DEF NotYetCreated, DecisionInForce, Decides
<1>6. CASE Notify(c)
  <2>1. /\ OthersUnchanged(c) /\ stage' = stage /\ op' = op /\ pc[c] = "notify"
        /\ undo'[c] = undo[c]
        /\ pc'[c] \in {"done", "failed"}
    BY <1>0, <1>6 DEF Notify, OthersUnchanged, TypeOK
  <2>2. CallWellFormed(c)'
    BY <1>0, <2>1 DEF CallWellFormed, NewOrder, Decides
  <2> QED
    BY <2>1, <2>2, QuietStep DEF NotYetCreated, DecisionInForce, Decides
<1>7. CASE DiscoverStage(c)
  <2>1. PICK o \in Orders : /\ stage[o].status = PENDING
                            /\ op' = [op EXCEPT ![c] = Args("escalate", None, o, stage[o].id, 0)]
    BY <1>7 DEF DiscoverStage
  <2>2. /\ OthersUnchanged(c) /\ stage' = stage /\ pc[c] = "idle" /\ undo'[c] = undo[c]
        /\ pc'[c] = "escalate_read"
    BY <1>0, <1>7 DEF DiscoverStage, OthersUnchanged, TypeOK, db
  <2>3. op'[c].kind = "escalate" /\ op'[c].order = o /\ op'[c].row = stage[o].id
    BY <1>0, <2>1 DEF TypeOK, Args
  <2>4. stage[o].id # None
    BY <2>1 DEF RowsWellFormed
  <2>5. CallWellFormed(c)'
    BY <1>0, <2>2, <2>3, <2>4 DEF CallWellFormed, NewOrder, Decides
  <2> QED
    BY <1>0, <2>2, <2>3, <2>5, QuietStep
       DEF NotYetCreated, DecisionInForce, Decides, CallWellFormed
<1>8. CASE EscalateRead(c)
  <2>1. /\ OthersUnchanged(c) /\ stage' = stage /\ op' = op /\ pc[c] = "escalate_read"
        /\ undo'[c] = undo[c]
        /\ pc'[c] \in {"escalate", "failed"}
    BY <1>0, <1>8 DEF EscalateRead, OthersUnchanged, TypeOK, db
  <2>2. CallWellFormed(c)'
    BY <1>0, <2>1 DEF CallWellFormed, NewOrder, Decides
  <2> QED
    BY <2>1, <2>2, QuietStep DEF NotYetCreated, DecisionInForce, Decides
<1>9. CASE ReadOwnRequest(c)
  <2>1. /\ OthersUnchanged(c) /\ stage' = stage /\ pc[c] = "idle" /\ undo'[c] = undo[c]
        /\ pc'[c] \in {"edit", "withdraw", "failed"}
        /\ op'[c].kind \in {"edit", "withdraw"} /\ op'[c].row = None
    BY <1>0, <1>9 DEF ReadOwnRequest, OthersUnchanged, TypeOK, db, Args
  <2>2. CallWellFormed(c)'
    BY <1>0, <2>1 DEF CallWellFormed, NewOrder, Decides
  <2> QED
    BY <1>0, <2>1, <2>2, QuietStep DEF NotYetCreated, DecisionInForce, Decides, CallWellFormed
<1>10. CASE UpdateFields(c)
  <2>1. PICK r \in Replies : Statement(c, r, "done", {}, "edit")
    BY <1>10 DEF UpdateFields
  <2>2. /\ OthersUnchanged(c) /\ stage' = stage /\ op' = op /\ pc[c] = "edit"
        /\ undo'[c] \subseteq undo[c]
        /\ pc'[c] \in {"done", "failed", "rollback"}
    BY <1>0, <1>10, <2>1, StatementFrame DEF UpdateFields, OthersUnchanged
  <2>3. CallWellFormed(c)'
    BY <1>0, <2>2 DEF CallWellFormed, NewOrder, Decides
  <2> QED
    BY <1>0, <2>2, <2>3, QuietStep DEF NotYetCreated, DecisionInForce, Decides, CallWellFormed
<1>11. CASE SoftDelete(c)
  <2>1. PICK r \in Replies : Statement(c, r, "audit", {}, "withdrawal")
    BY <1>11 DEF SoftDelete
  <2>2. /\ OthersUnchanged(c) /\ stage' = stage /\ op' = op /\ pc[c] = "withdraw"
        /\ undo'[c] \subseteq undo[c]
        /\ pc'[c] \in {"audit", "failed", "rollback"}
    BY <1>0, <1>11, <2>1, StatementFrame DEF SoftDelete, OthersUnchanged
  <2>3. CallWellFormed(c)'
    BY <1>0, <2>2 DEF CallWellFormed, NewOrder, Decides
  <2> QED
    BY <1>0, <2>2, <2>3, QuietStep DEF NotYetCreated, DecisionInForce, Decides, CallWellFormed
<1>12. CASE RestoreRequest(c) \/ DeleteCreated(c)
  <2>1. PICK r \in Replies, effect \in {"request", "insert"} : Compensate(c, r, effect)
    BY <1>12 DEF RestoreRequest, DeleteCreated
  <2>2. /\ OthersUnchanged(c) /\ stage' = stage /\ op' = op /\ pc[c] = "rollback"
        /\ undo'[c] \subseteq undo[c]
        /\ pc'[c] \in {"failed", "rollback"}
    BY <1>0, <1>12, <2>1, CompensateFrame DEF RestoreRequest, DeleteCreated, Turn
  <2>3. CallWellFormed(c)'
    BY <1>0, <2>2 DEF CallWellFormed, NewOrder, Decides
  <2> QED
    BY <2>2, <2>3, QuietStep DEF NotYetCreated, DecisionInForce, Decides
<1>13. CASE Crash(c)
  <2>1. /\ OthersUnchanged(c) /\ stage' = stage /\ op' = op /\ undo'[c] = {}
        /\ pc'[c] = "crashed"
    BY <1>0, <1>13 DEF Crash, OthersUnchanged, TypeOK, db
  <2>2. CallWellFormed(c)'
    BY <1>0, <2>1 DEF CallWellFormed, NewOrder, Decides
  <2> QED
    BY <2>1, <2>2, QuietStep DEF NotYetCreated, DecisionInForce
<1> QED
  BY <1>1, <1>2, <1>3, <1>4, <1>5, <1>6, <1>7, <1>8, <1>9, <1>10, <1>11, <1>12, <1>13

\* A call that has read a pending stage is pinned to a version of that row.
LEMMA ReadStageInv ==
    ASSUME DecisionInv, TypeOK', NEW c \in Calls, ReadStage(c)
    PROVE  DecisionInv'
<1> USE DEF DecisionInv
<1>0. CallWellFormed(c) /\ TypeOK
  BY DEF CallsWellFormed
<1>a. PICK kind \in {"approve", "reject"}, u \in Users, o \in Orders :
        /\ Exists(o)
        /\ \E want \in 0 .. stage[o].version :
                op' = [op EXCEPT ![c] = Args(kind, u, o, stage[o].id, want)]
        /\ seen' = [seen EXCEPT ![c] = stage[o]]
        /\ LET target == IF kind = "approve" THEN APPROVED ELSE REJECTED
               replay == /\ stage[o].status = target
                         /\ stage[o].decided_by # None
                         /\ op[stage[o].decided_by].user = u
               allowed == /\ can_decide_stage(Role[u], stage[o].assigned_to = u,
                                              stage[o].assigned_role = Role[u],
                                              stage[o].status = PENDING)
                          /\ validate_stage_transition(stage[o].status, target)
           IN  pc' = [pc EXCEPT ![c] = IF replay THEN "replayed"
                                       ELSE IF allowed THEN "decide" ELSE "failed"]
  BY Zenon DEF ReadStage
<1>b. PICK want \in 0 .. stage[o].version :
        op' = [op EXCEPT ![c] = Args(kind, u, o, stage[o].id, want)]
  BY <1>a
<1>1. /\ pc'[c] \in {"replayed", "decide", "failed"}
      /\ pc'[c] = "decide" => stage[o].status = PENDING
  BY <1>0, <1>a DEF TypeOK, can_decide_stage
<1>2. OthersUnchanged(c) /\ stage' = stage /\ undo' = undo /\ pc[c] = "idle" /\ undo[c] = {}
  BY <1>0 DEF ReadStage, TypeOK, OthersUnchanged, db, CallWellFormed
<1>3. /\ op'[c].kind = kind /\ op'[c].order = o /\ op'[c].row = stage[o].id /\ op'[c].want = want
      /\ seen'[c] = stage[o] /\ stage[o].id # None
  BY <1>0, <1>a, <1>b DEF TypeOK, Args, Exists
<1>4. RowIdsFresh'
  BY <1>2, <1>3 DEF RowIdsFresh, OthersUnchanged, NotYetCreated
<1>5. RowsWellFormed'
  BY <1>2 DEF RowsWellFormed
<1>6. CallsWellFormed'
  <2>1. CallWellFormed(c)'
    BY <1>1, <1>2, <1>3 DEF CallWellFormed, Decides, NewOrder
  <2> QED
    BY <1>2, <2>1 DEF CallsWellFormed, CallWellFormed, OthersUnchanged, Decides, NewOrder
<1>7. DecisionPinned'
  <2>1. stage[o].version \in Nat /\ stage[o].version >= 1
    BY <1>0, <1>3, RowFields DEF TypeOK, RowsWellFormed
  <2>2. VersionToUse(c)' >= 1 /\ VersionToUse(c)' <= stage[o].version
    BY <1>b, <1>3, <2>1 DEF VersionToUse
  <2>3. \A d \in Calls \ {c} : VersionToUse(d)' = VersionToUse(d) /\ pc'[d] = pc[d] /\ op'[d] = op[d]
    BY <1>2 DEF OthersUnchanged, VersionToUse
  <2> QED
    BY <1>1, <1>2, <1>3, <2>2, <2>3 DEF DecisionPinned
<1>8. DecisionStands'
  <2>1. ~DecisionInForce(c)'
    BY <1>1, <1>2 DEF DecisionInForce
  <2> QED
    BY <1>2, <2>1 DEF DecisionStands, DecisionInForce, OthersUnchanged, Decides, Verdict
<1> QED BY <1>4, <1>5, <1>6, <1>7, <1>8

\* The update that writes a decision matches only a row nobody has decided.
LEMMA DecideStageInv ==
    ASSUME DecisionInv, TypeOK', NEW c \in Calls, DecideStage(c)
    PROVE  DecisionInv'
<1> USE DEF DecisionInv
<1> DEFINE o == op[c].order
<1>0. CallWellFormed(c) /\ TypeOK /\ pc[c] = "decide" /\ op' = op /\ seen' = seen
  BY DEF CallsWellFormed, DecideStage
<1>1. PICK r \in Replies :
        /\ Reply(r, stage[o].id = op[c].row /\ stage[o].version = VersionToUse(c))
        /\ stage' = IF Applied(r)
                    THEN [stage EXCEPT ![o] = Decided(@, Verdict(c), c)] ELSE stage
        /\ Statement(c, r, "read_request", {"decision"}, "decision")
  BY DEF DecideStage
<1>2. /\ OthersUnchanged(c) /\ pc'[c] \in {"read_request", "failed", "rollback"}
      /\ undo'[c] \subseteq undo[c] \cup {"decision"}
      /\ ~Applied(r) => undo'[c] = undo[c] /\ pc'[c] # "read_request"
  BY <1>0, <1>1, StatementFrame DEF OthersUnchanged, Applied
<1>3. o \in Orders /\ Decides(c) /\ op[c].row # None
  BY <1>0 DEF CallWellFormed
<1>4. CallWellFormed(c)'
  BY <1>0, <1>2, <1>3 DEF CallWellFormed, Decides, NewOrder
<1>5. CASE ~Applied(r)
  BY <1>0, <1>1, <1>2, <1>4, <1>5, QuietStep DEF NotYetCreated, DecisionInForce, Decides
<1>6. CASE Applied(r)
  <2>1. stage[o].id = op[c].row /\ stage[o].status = PENDING /\ stage[o].decided_by = None
        /\ stage[o].version >= 1 /\ stage[o].version \in Nat
    BY <1>0, <1>1, <1>3, <1>6, ReplyApplied, RowFields
       DEF DecisionPinned, RowsWellFormed, TypeOK
  <2>2. /\ stage'[o].id = op[c].row /\ stage'[o].version = stage[o].version + 1
        /\ stage'[o].status = Verdict(c) /\ stage'[o].decided_by = c
    <3>1. stage[o] \in Row /\ stage'[o] = Decided(stage[o], Verdict(c), c)
      BY <1>0, <1>1, <1>3, <1>6 DEF TypeOK
    <3> QED BY <2>1, <3>1, DecidedRow, VerdictType
  <2>3. \A p \in Orders \ {o} : stage'[p] = stage[p]
    BY <1>0, <1>1, <1>6 DEF TypeOK
  <2>4. Verdict(c) # PENDING
    BY DEF Verdict, APPROVED, REJECTED, PENDING
  <2>5. \A d \in Calls : DecisionInForce(d) => op[d].order # o
    BY <2>1, NoneAssumption DEF DecisionStands
  <2> QED
    BY <1>0, <1>2, <1>3, <1>4, <2>1, <2>2, <2>3, <2>4, <2>5, RowStep DEF NotYetCreated
<1> QED BY <1>5, <1>6

\* A new row has an id nobody holds and stands where there was none.
LEMMA CreateStageInv ==
    ASSUME DecisionInv, TypeOK', NEW c \in Calls, CreateStage(c)
    PROVE  DecisionInv'
<1> USE DEF DecisionInv
<1> DEFINE o == NewOrder(c)
<1>0. CallWellFormed(c) /\ TypeOK /\ pc[c] = "create_stage" /\ op' = op /\ seen' = seen
  BY DEF CallsWellFormed, CreateStage
<1>1. PICK r \in Replies, next \in {"advance", "rollback"}, new \in {{}, {"stage"}} :
        /\ Reply(r, ~Exists(o))
        /\ stage' = IF Applied(r) THEN [stage EXCEPT ![o] = NewStage(c, o)] ELSE stage
        /\ Statement(c, r, next, new, "stage")
  BY DEF CreateStage
<1>2. /\ OthersUnchanged(c) /\ pc'[c] \in {"advance", "failed", "rollback"}
      /\ undo'[c] \subseteq undo[c] \cup {"stage"}
  BY <1>0, <1>1, StatementFrame DEF OthersUnchanged
<1>3. o \in Orders
  BY <1>0 DEF CallWellFormed
<1>4. CallWellFormed(c)'
  BY <1>0, <1>2, <1>3 DEF CallWellFormed, Decides, NewOrder
<1>5. DecisionInForce(c)' => DecisionInForce(c)
  BY <1>0, <1>2 DEF DecisionInForce, Decides
<1>6. CASE ~Applied(r)
  BY <1>0, <1>1, <1>2, <1>4, <1>5, <1>6, QuietStep DEF NotYetCreated
<1>7. CASE Applied(r)
  <2>1. stage[o].id = None /\ stage[o].decided_by = None
    BY <1>1, <1>3, <1>7, ReplyApplied DEF Exists, RowsWellFormed
  <2>2. /\ stage'[o].id = c /\ stage'[o].version = 1
        /\ stage'[o].status = PENDING /\ stage'[o].decided_by = None
    BY <1>0, <1>1, <1>3, <1>7, NewStageRow DEF TypeOK
  <2>3. \A p \in Orders \ {o} : stage'[p] = stage[p]
    BY <1>0, <1>1, <1>7 DEF TypeOK
  <2>4. \A d \in Calls : DecisionInForce(d) => op[d].order # o /\ op[d].order \in Orders
    BY <2>1, NoneAssumption
       DEF DecisionStands, DecisionInForce, CallsWellFormed, CallWellFormed
  <2>5. DecisionInForce(c)' =>
            /\ stage'[op[c].order].id = op[c].row /\ stage'[op[c].order].decided_by = c
            /\ stage'[op[c].order].status = Verdict(c)
    BY <1>5, <2>3, <2>4 DEF DecisionStands
  <2> QED
    BY <1>0, <1>2, <1>3, <1>4, <2>2, <2>3, <2>4, <2>5, RowStep, NoneAssumption
       DEF NotYetCreated
<1> QED BY <1>6, <1>7

\* An escalation, and its compensation, move a row's version and assignment
\* only: a decision on the row stands.
LEMMA ReassignStep ==
    ASSUME DecisionInv, TypeOK', NEW c \in Calls, OthersUnchanged(c), op' = op, seen' = seen,
           CallWellFormed(c)', op[c].order \in Orders, op[c].row # None,
           pc'[c] \notin NotYetCreated, DecisionInForce(c)' => DecisionInForce(c),
           stage[op[c].order].id = op[c].row,
           NEW to \in Users \cup {None}, NEW role \in UserRole \cup {None},
           stage' = [stage EXCEPT ![op[c].order] = Reassigned(@, to, role)]
    PROVE  DecisionInv'
<1> USE DEF DecisionInv
<1> DEFINE o == op[c].order
<1>1. /\ stage'[o].id = stage[o].id /\ stage'[o].version = stage[o].version + 1
      /\ stage'[o].status = stage[o].status /\ stage'[o].decided_by = stage[o].decided_by
      /\ stage[o].version \in Nat
  <2>1. stage[o] \in Row /\ stage'[o] = Reassigned(stage[o], to, role)
    BY DEF TypeOK
  <2>2. stage[o].version \in Nat
    BY <2>1, RowFields
  <2> DEFINE row == stage[o]
  <2>3. row \in Row
    BY <2>1
  <2>4. /\ Reassigned(row, to, role).id = row.id
        /\ Reassigned(row, to, role).version = row.version + 1
        /\ Reassigned(row, to, role).status = row.status
        /\ Reassigned(row, to, role).decided_by = row.decided_by
    <3> HIDE DEF row
    <3> QED BY <2>3, ReassignedRow
  <2> QED BY <2>1, <2>2, <2>4
<1>2. \A p \in Orders \ {o} : stage'[p] = stage[p]
  BY DEF TypeOK
<1>3. /\ stage'[o].version > stage[o].version /\ stage'[o].version >= 1
      /\ stage'[o].status = PENDING => stage'[o].id # None /\ stage'[o].decided_by = None
      /\ stage'[o].decided_by # None => stage'[o].id # None /\ stage'[o].version >= 2
  BY <1>1 DEF RowsWellFormed
<1>4. \A d \in Calls : DecisionInForce(d) /\ op[d].order = o =>
            /\ stage'[o].id = op[d].row /\ stage'[o].decided_by = d
            /\ stage'[o].status = Verdict(d)
  BY <1>1 DEF DecisionStands
<1>5. pc'[c] # "decide"
  BY DEF NotYetCreated
<1>6. DecisionInForce(c)' =>
            /\ stage'[op[c].order].id = op[c].row /\ stage'[op[c].order].decided_by = c
            /\ stage'[op[c].order].status = Verdict(c)
  BY <1>4
<1> QED
  BY <1>6, <1>1, <1>2, <1>3, <1>4, <1>5, RowStep, ZenonT(60)

LEMMA EscalateStageInv ==
    ASSUME DecisionInv, TypeOK', NEW c \in Calls, EscalateStage(c)
    PROVE  DecisionInv'
<1> USE DEF DecisionInv
<1> DEFINE o == op[c].order
<1>0. CallWellFormed(c) /\ TypeOK /\ pc[c] = "escalate" /\ op' = op /\ seen' = seen
  BY DEF CallsWellFormed, EscalateStage
<1>1. PICK r \in Replies :
        /\ Reply(r, stage[o].id = op[c].row /\ stage[o].version = seen[c].version)
        /\ stage' = IF Applied(r)
                    THEN [stage EXCEPT ![o] = Reassigned(@, None, ADMIN)] ELSE stage
        /\ Statement(c, r, "audit", {"assignment"}, "assignment")
  BY DEF EscalateStage
<1>2. /\ OthersUnchanged(c) /\ pc'[c] \in {"audit", "failed", "rollback"}
      /\ undo'[c] \subseteq undo[c] \cup {"assignment"}
  BY <1>0, <1>1, StatementFrame DEF OthersUnchanged
<1>3. o \in Orders /\ op[c].row # None /\ ~Decides(c)
  BY <1>0 DEF CallWellFormed
<1>4. CallWellFormed(c)'
  BY <1>0, <1>2, <1>3 DEF CallWellFormed, Decides, NewOrder
<1>5. ~DecisionInForce(c)' /\ pc'[c] \notin NotYetCreated /\ pc'[c] # "decide"
  BY <1>0, <1>2, <1>3 DEF DecisionInForce, Decides, NotYetCreated
<1>6. CASE ~Applied(r)
  BY <1>0, <1>1, <1>2, <1>4, <1>5, <1>6, QuietStep
<1>7. CASE Applied(r)
  BY <1>0, <1>1, <1>2, <1>3, <1>4, <1>5, <1>7, ReplyApplied, ReassignStep DEF UserRole
<1> QED BY <1>6, <1>7

LEMMA RestoreAssignmentInv ==
    ASSUME DecisionInv, TypeOK', NEW c \in Calls, RestoreAssignment(c)
    PROVE  DecisionInv'
<1> USE DEF DecisionInv
<1> DEFINE o == op[c].order
<1>0. CallWellFormed(c) /\ TypeOK /\ pc[c] = "rollback" /\ "assignment" \in undo[c]
  BY DEF CallsWellFormed, RestoreAssignment, Turn, Registered
<1>1. PICK r \in Replies :
        /\ Reply(r, stage[o].id = op[c].row /\ stage[o].version = seen[c].version + 1)
        /\ stage' = IF Applied(r)
                    THEN [stage EXCEPT ![o] = Reassigned(@, seen[c].assigned_to,
                                                            seen[c].assigned_role)]
                    ELSE stage
        /\ Compensate(c, r, "assignment")
  BY DEF RestoreAssignment
<1>2. /\ OthersUnchanged(c) /\ pc'[c] \in {"failed", "rollback"} /\ op' = op /\ seen' = seen
      /\ undo'[c] \subseteq undo[c]
  BY <1>0, <1>1, CompensateFrame
<1>3. o \in Orders /\ op[c].row # None
  BY <1>0 DEF CallWellFormed
<1>4. CallWellFormed(c)'
  BY <1>0, <1>2, <1>3 DEF CallWellFormed, Decides, NewOrder
<1>5. /\ DecisionInForce(c)' => DecisionInForce(c)
      /\ pc'[c] \notin NotYetCreated /\ pc'[c] # "decide"
  BY <1>0, <1>2 DEF DecisionInForce, Decides, NotYetCreated
<1>6. CASE ~Applied(r)
  BY <1>0, <1>1, <1>2, <1>4, <1>5, <1>6, QuietStep
<1>7. CASE Applied(r)
  <2>1. seen[c].assigned_to \in Users \cup {None} /\ seen[c].assigned_role \in UserRole \cup {None}
    BY <1>0, RowFields DEF TypeOK
  <2> QED
    BY <1>0, <1>1, <1>2, <1>3, <1>4, <1>5, <1>7, <2>1, ReplyApplied, ReassignStep
<1> QED BY <1>6, <1>7

\* A decided row has moved past the version delete_if_unchanged asks for.
LEMMA DeleteIfUnchangedInv ==
    ASSUME DecisionInv, TypeOK', NEW c \in Calls, DeleteIfUnchanged(c)
    PROVE  DecisionInv'
<1> USE DEF DecisionInv
<1> DEFINE o == NewOrder(c)
<1>0. CallWellFormed(c) /\ TypeOK /\ pc[c] = "rollback" /\ "stage" \in undo[c]
  BY DEF CallsWellFormed, DeleteIfUnchanged, Turn, Registered
<1>1. PICK r \in Replies :
        /\ Reply(r, CreatedStageUnchanged(c) /\ request.current # c)
        /\ stage' = IF Applied(r) THEN [stage EXCEPT ![o] = NoRow] ELSE stage
        /\ Compensate(c, r, "stage")
  BY DEF DeleteIfUnchanged
<1>2. /\ OthersUnchanged(c) /\ pc'[c] \in {"failed", "rollback"} /\ op' = op /\ seen' = seen
      /\ undo'[c] \subseteq undo[c]
  BY <1>0, <1>1, CompensateFrame
<1>3. o \in Orders
  BY <1>0 DEF CallWellFormed
<1>4. CallWellFormed(c)'
  BY <1>0, <1>2, <1>3 DEF CallWellFormed, Decides, NewOrder
<1>5. /\ DecisionInForce(c)' => DecisionInForce(c)
      /\ pc'[c] \notin NotYetCreated /\ pc'[c] # "decide"
  BY <1>0, <1>2 DEF DecisionInForce, Decides, NotYetCreated
<1>6. CASE ~Applied(r)
  BY <1>0, <1>1, <1>2, <1>4, <1>5, <1>6, QuietStep
<1>7. CASE Applied(r)
  <2>1. stage[o].decided_by = None
    <3>1. stage[o].version = 1
      BY <1>1, <1>7, ReplyApplied DEF CreatedStageUnchanged
    <3> QED BY <1>3, <3>1 DEF RowsWellFormed
  <2>2. stage'[o] = NoRow
    BY <1>0, <1>1, <1>3, <1>7 DEF TypeOK
  <2>3. \A p \in Orders \ {o} : stage'[p] = stage[p]
    BY <1>0, <1>1, <1>7 DEF TypeOK
  <2>4. \A d \in Calls : DecisionInForce(d) => op[d].order # o /\ op[d].order \in Orders
    BY <2>1, NoneAssumption
       DEF DecisionStands, DecisionInForce, CallsWellFormed, CallWellFormed
  <2>5. DecisionInForce(c)' =>
            /\ stage'[op[c].order].id = op[c].row /\ stage'[op[c].order].decided_by = c
            /\ stage'[op[c].order].status = Verdict(c)
    BY <1>5, <2>3, <2>4 DEF DecisionStands
  <2>6. /\ stage'[o].id = None /\ stage'[o].status # PENDING /\ stage'[o].decided_by = None
    BY <2>2, NoRowType DEF PENDING
  <2> QED
    BY <1>0, <1>2, <1>3, <1>4, <1>5, <2>3, <2>4, <2>5, <2>6, RowStep
<1> QED BY <1>6, <1>7

\* The decision that is taken back is the call's own.
LEMMA RevertToPendingInv ==
    ASSUME DecisionInv, TypeOK', NEW c \in Calls, RevertToPending(c)
    PROVE  DecisionInv'
<1> USE DEF DecisionInv
<1> DEFINE o == op[c].order
<1>0. CallWellFormed(c) /\ TypeOK /\ pc[c] = "rollback" /\ "decision" \in undo[c]
  BY DEF CallsWellFormed, RevertToPending, Turn, Registered
<1>1. PICK r \in Replies :
        /\ Reply(r, stage[o].id = op[c].row /\ stage[o].version = VersionToUse(c) + 1)
        /\ stage' = IF Applied(r) THEN [stage EXCEPT ![o] = Reverted(@)] ELSE stage
        /\ Compensate(c, r, "decision")
  BY DEF RevertToPending
<1>2. /\ OthersUnchanged(c) /\ pc'[c] \in {"failed", "rollback"} /\ op' = op /\ seen' = seen
      /\ undo'[c] \subseteq undo[c] /\ "decision" \notin undo'[c]
  BY <1>0, <1>1, CompensateFrame
<1>3. o \in Orders /\ op[c].row # None /\ DecisionInForce(c)
  BY <1>0 DEF CallWellFormed, DecisionInForce
<1>4. CallWellFormed(c)'
  BY <1>0, <1>2, <1>3 DEF CallWellFormed, Decides, NewOrder
<1>5. ~DecisionInForce(c)' /\ pc'[c] \notin NotYetCreated /\ pc'[c] # "decide"
  BY <1>0, <1>2 DEF DecisionInForce, Decides, NotYetCreated
<1>6. CASE ~Applied(r)
  BY <1>0, <1>1, <1>2, <1>4, <1>5, <1>6, QuietStep
<1>7. CASE Applied(r)
  <2>1. stage[o].id = op[c].row /\ stage[o].decided_by = c /\ stage[o].version \in Nat
    BY <1>0, <1>3, RowFields DEF DecisionStands, TypeOK
  <2>2. /\ stage'[o].id = stage[o].id /\ stage'[o].version = stage[o].version + 1
        /\ stage'[o].status = PENDING /\ stage'[o].decided_by = None
    BY <1>0, <1>1, <1>3, <1>7, RevertedRow DEF TypeOK
  <2>3. \A p \in Orders \ {o} : stage'[p] = stage[p]
    BY <1>0, <1>1, <1>7 DEF TypeOK
  <2>4. \A d \in Calls \ {c} : ~(DecisionInForce(d) /\ op[d].order = o)
    BY <2>1 DEF DecisionStands
  <2> QED
    BY <1>0, <1>2, <1>3, <1>4, <1>5, <2>1, <2>2, <2>3, <2>4, RowStep
<1> QED BY <1>6, <1>7

\* The invariant of the decision protocol is inductive.
LEMMA NextInv == DecisionInv /\ [Next]_vars => DecisionInv'
<1> SUFFICES ASSUME DecisionInv, [Next]_vars PROVE DecisionInv'
  OBVIOUS
<1>1. TypeOK'
  BY NextType DEF DecisionInv
<1>2. CASE UNCHANGED vars
  <2>1. RowIdsFresh' /\ RowsWellFormed'
    BY <1>2 DEF DecisionInv, vars, RowIdsFresh, RowsWellFormed
  <2>2. CallsWellFormed' /\ DecisionPinned'
    BY <1>2 DEF DecisionInv, vars, CallsWellFormed, CallWellFormed, NewOrder, Decides,
                DecisionPinned, VersionToUse
  <2>3. DecisionStands'
    BY <1>2 DEF DecisionInv, vars, DecisionStands, DecisionInForce, Decides, Verdict
  <2> QED BY <1>1, <2>1, <2>2, <2>3 DEF DecisionInv
<1>3. ASSUME NEW c \in Calls, Step(c) PROVE DecisionInv'
  BY <1>1, <1>3, QuietActions, ReadStageInv, DecideStageInv, CreateStageInv, EscalateStageInv,
     DeleteIfUnchangedInv, RevertToPendingInv, RestoreAssignmentInv
     DEF Step
<1> QED BY <1>2, <1>3 DEF Next

-----------------------------------------------------------------------------
(* The theorems.                                                           *)

\* The inductive invariant holds in every reachable state.
THEOREM DecisionProtocol == Spec => []DecisionInv
BY InitInv, NextInv, PTL DEF Spec

\* Every variable keeps its type, for every number of calls, users and stages
\* and any faults.
THEOREM TypeCorrect == Spec => []TypeOK
<1>1. DecisionInv => TypeOK
  BY DEF DecisionInv
<1> QED BY <1>1, DecisionProtocol, PTL

\* A decision reported as made (_decide_stage returned) is never overwritten,
\* reverted or deleted by concurrent decisions, escalations, rollbacks,
\* failures or crashes.
THEOREM DecisionDurability == Spec => []DecisionDurable
<1>1. DecisionInv => DecisionDurable
  BY DEF DecisionInv, DecisionDurable, DecisionStands, DecisionInForce, Committed
<1> QED BY <1>1, DecisionProtocol, PTL

-----------------------------------------------------------------------------
(* Who may touch a recorded decision.                                      *)

\* A statement that writes a stage row leaves the decision on it alone, finds
\* none, or is the rollback of the call that made it.
LEMMA OwnedStep == DecisionInv /\ [Next]_vars => [TakenBackByItsOwnCall]_vars
<1> SUFFICES ASSUME DecisionInv, NEW c \in Calls, Step(c) PROVE TakenBackByItsOwnCall
  BY DEF Next
<1> USE DEF DecisionInv
<1>0. TypeOK /\ CallWellFormed(c)
  BY DEF CallsWellFormed
<1>1. CASE stage' = stage
  BY <1>1 DEF TakenBackByItsOwnCall
<1>2. ASSUME NEW o \in Orders, NEW row, stage' = [stage EXCEPT ![o] = row],
             \/ stage[o].decided_by \in {None, row.decided_by}
             \/ /\ stage[o].decided_by = c /\ pc[c] = "rollback" /\ op[c].row = stage[o].id
                /\ row.id = stage[o].id /\ row.status = PENDING
      PROVE  TakenBackByItsOwnCall
  BY <1>0, <1>2 DEF TypeOK, TakenBackByItsOwnCall
<1>3. CASE DecideStage(c)
  <2> DEFINE o == op[c].order
  <2>1. PICK r \in Replies :
          /\ Reply(r, stage[o].id = op[c].row /\ stage[o].version = VersionToUse(c))
          /\ stage' = IF Applied(r)
                      THEN [stage EXCEPT ![o] = Decided(@, Verdict(c), c)] ELSE stage
    BY <1>3 DEF DecideStage
  <2>2. o \in Orders
    BY <1>0, <1>3 DEF DecideStage, CallWellFormed
  <2>3. Applied(r) => stage[o].decided_by = None
    BY <1>3, <2>1, <2>2, ReplyApplied DEF DecideStage, DecisionPinned, RowsWellFormed
  <2> QED BY <1>1, <1>2, <2>1, <2>2, <2>3
<1>4. CASE CreateStage(c)
  <2> DEFINE o == NewOrder(c)
  <2>1. PICK r \in Replies :
          /\ Reply(r, ~Exists(o))
          /\ stage' = IF Applied(r) THEN [stage EXCEPT ![o] = NewStage(c, o)] ELSE stage
    BY <1>4 DEF CreateStage
  <2>2. o \in Orders
    BY <1>0, <1>4 DEF CreateStage, CallWellFormed
  <2>3. Applied(r) => stage[o].decided_by = None
    BY <2>1, <2>2, ReplyApplied DEF Exists, RowsWellFormed
  <2> QED BY <1>1, <1>2, <2>1, <2>2, <2>3
<1>5. CASE EscalateStage(c) \/ RestoreAssignment(c)
  <2> DEFINE o == op[c].order
  <2>1. \/ stage' = stage
        \/ \E to \in Users \cup {None}, role \in UserRole \cup {None} :
                stage' = [stage EXCEPT ![o] = Reassigned(@, to, role)]
    <3>1. seen[c].assigned_to \in Users \cup {None} /\ seen[c].assigned_role \in UserRole \cup {None}
      BY <1>0, RowFields DEF TypeOK
    <3> QED BY <1>5, <3>1 DEF EscalateStage, RestoreAssignment, UserRole
  <2>2. o \in Orders
    BY <1>0, <1>5 DEF EscalateStage, RestoreAssignment, Turn, Registered, CallWellFormed
  <2>3. stage[o] \in Row
    BY <1>0, <2>2 DEF TypeOK
  <2>4. \A to \in Users \cup {None}, role \in UserRole \cup {None} :
            Reassigned(stage[o], to, role).decided_by = stage[o].decided_by
    BY <2>3, ReassignedRow
  <2> QED BY <1>1, <1>2, <2>1, <2>2, <2>4
<1>6. CASE DeleteIfUnchanged(c)
  <2> DEFINE o == NewOrder(c)
  <2>1. PICK r \in Replies :
          /\ Reply(r, CreatedStageUnchanged(c) /\ request.current # c)
          /\ stage' = IF Applied(r) THEN [stage EXCEPT ![o] = NoRow] ELSE stage
    BY <1>6 DEF DeleteIfUnchanged
  <2>2. o \in Orders
    BY <1>0, <1>6 DEF DeleteIfUnchanged, Turn, Registered, CallWellFormed
  <2>3. Applied(r) => stage[o].version = 1
    BY <2>1, ReplyApplied DEF CreatedStageUnchanged
  <2>4. Applied(r) => stage[o].decided_by = None
    BY <2>2, <2>3 DEF RowsWellFormed
  <2> QED BY <1>1, <1>2, <2>1, <2>2, <2>4
<1>7. CASE RevertToPending(c)
  <2> DEFINE o == op[c].order
  <2>1. stage' = stage \/ stage' = [stage EXCEPT ![o] = Reverted(@)]
    BY <1>7 DEF RevertToPending
  <2>2. pc[c] = "rollback" /\ "decision" \in undo[c]
    BY <1>7 DEF RevertToPending, Turn, Registered
  <2>3. o \in Orders /\ DecisionInForce(c)
    BY <1>0, <2>2 DEF CallWellFormed, DecisionInForce
  <2>4. stage[o].decided_by = c /\ op[c].row = stage[o].id
    BY <2>3 DEF DecisionStands
  <2>5. Reverted(stage[o]).id = stage[o].id /\ Reverted(stage[o]).status = PENDING
    BY <1>0, <2>3, RevertedRow DEF TypeOK
  <2> QED BY <1>1, <1>2, <2>1, <2>2, <2>3, <2>4, <2>5
<1>8. CASE \/ CreateRequest(c) \/ ReadStage(c) \/ ReadRequest(c) \/ PlanNextStage(c)
           \/ SetCurrentStage(c) \/ RecordEvent(c) \/ Notify(c) \/ DiscoverStage(c)
           \/ EscalateRead(c) \/ ReadOwnRequest(c) \/ UpdateFields(c) \/ SoftDelete(c)
           \/ RestoreRequest(c) \/ DeleteCreated(c) \/ Crash(c)
  <2>1. stage' = stage
    BY <1>8 DEF CreateRequest, ReadStage, ReadRequest, PlanNextStage, SetCurrentStage,
       RecordEvent, Notify, DiscoverStage, EscalateRead, ReadOwnRequest, UpdateFields,
       SoftDelete, RestoreRequest, DeleteCreated, Crash, db
  <2> QED BY <1>1, <2>1
<1> QED BY <1>3, <1>4, <1>5, <1>6, <1>7, <1>8 DEF Step

\* A recorded decision is taken back by the rollback of its own call and by
\* nothing else, and never deleted with its row (revert_to_pending,
\* delete_if_unchanged, escalate_stage).
THEOREM DecisionOwnership == Spec => DecisionOwned
BY DecisionProtocol, OwnedStep, PTL DEF Spec, DecisionOwned

-----------------------------------------------------------------------------
(* What the statements on the request row do to its version and status.    *)

LEMMA RequestFields ==
    ASSUME NEW req \in RequestRow
    PROVE  req.version \in Nat /\ req.status \in RequestStatus
BY DEF RequestRow

LEMMA NewRequestFields == NewRequest.version = 1 /\ NewRequest.status = PENDING
BY DEF NewRequest, NoRequest

LEMMA AdvancedFields ==
    ASSUME NEW req \in RequestRow, NEW status, NEW current
    PROVE  /\ Advanced(req, status, current).version = req.version + 1
           /\ Advanced(req, status, current).status = status
BY DEF Advanced, RequestRow

LEMMA RestoredFields ==
    ASSUME request \in RequestRow, NEW c \in Calls
    PROVE  /\ RestoredRequest(c).version = request.version + 1
           /\ RestoredRequest(c).status = seenReq[c].status
BY DEF RestoredRequest, RequestRow

LEMMA EditedFields ==
    ASSUME NEW req \in RequestRow
    PROVE  /\ Edited(req).version = req.version + 1 /\ Edited(req).status = req.status
           /\ Withdrawn(req).version = req.version + 1 /\ Withdrawn(req).status = req.status
BY DEF Edited, Withdrawn, RequestRow

\* Only a request that is not finished has a transition.
LEMMA ValidatedIsNotTerminal ==
    ASSUME NEW s \in RequestStatus, NEW t, validate_request_transition(s, t)
    PROVE  ~is_terminal_request_status(s)
BY DEF validate_request_transition, is_terminal_request_status

LEMMA TerminalStatuses ==
    /\ is_terminal_request_status(COMPLETED) /\ is_terminal_request_status(REJECTED)
    /\ ~is_terminal_request_status(PENDING) /\ ~is_terminal_request_status(IN_REVIEW)
BY DEF is_terminal_request_status, REQUEST_STATUS_TRANSITIONS, RequestStatus,
       PENDING, IN_REVIEW, APPROVED, COMPLETED, REJECTED

LEMMA FinalTarget ==
    ASSUME NEW c \in Calls, Decides(c)
    PROVE  /\ ~AddsStage(c) => is_terminal_request_status(TargetStatus(c))
           /\ AddsStage(c) => TargetStatus(c) = IN_REVIEW
BY TerminalStatuses DEF Decides, AddsStage, TargetStatus

-----------------------------------------------------------------------------
(* Steps of one call, by what they do to the request row.                  *)

\* The other calls keep their place, arguments, snapshot and compensations.
OthersKeep(c) ==
    \A d \in Calls \ {c} :
        pc'[d] = pc[d] /\ undo'[d] = undo[d] /\ op'[d] = op[d] /\ seenReq'[d] = seenReq[d]

\* A step on a request that has been created leaves it created.
LEMMA StillCreated ==
    ASSUME OutcomeInv, NEW c \in Calls, OthersKeep(c), op' = op \/ pc[c] = "idle",
           \/ pc[c] # "idle" \/ request.version # 0 \/ \E o \in Orders : stage[o].id # None
    PROVE  NothingBeforeCreation'
<1>1. PICK d \in Calls : op[d].kind = "create"
  BY DEF OutcomeInv, NothingBeforeCreation
<1>2. pc[d] # "idle"
  BY <1>1 DEF OutcomeInv, SnapshotsPinned, SnapshotPinned
<1>3. op'[d].kind = "create"
  BY <1>1, <1>2 DEF OthersKeep
<1> QED BY <1>3 DEF NothingBeforeCreation

\* A step that does not write the request's status: the row is untouched, or
\* moves to a new version with the same status.
LEMMA SameStatusStep ==
    ASSUME OutcomeInv, DecisionInv', NothingBeforeCreation',
           NEW c \in Calls, OthersKeep(c), request'.status = request.status,
           request'.version = request.version \/ request'.version = request.version + 1,
           SnapshotPinned(c)',
           OutcomeInForce(c)' => OutcomeInForce(c) /\ op'[c] = op[c] /\ seenReq'[c] = seenReq[c]
    PROVE  OutcomeInv'
<1> USE DEF OutcomeInv, DecisionInv
<1>0. /\ request.version \in Nat /\ request'.version \in Nat
      /\ \A d \in Calls : seenReq[d].version \in Nat
  BY RequestFields DEF TypeOK
<1>1. SnapshotsPinned'
  <2>1. ASSUME NEW d \in Calls \ {c} PROVE SnapshotPinned(d)'
    BY <1>0, <2>1 DEF SnapshotsPinned, SnapshotPinned, OthersKeep, Decides
  <2> QED BY <2>1 DEF SnapshotsPinned
<1>2. \A d \in Calls : OutcomeInForce(d)' =>
            /\ OutcomeInForce(d) /\ op'[d] = op[d] /\ seenReq'[d] = seenReq[d]
            /\ AddsStage(d)' = AddsStage(d) /\ TargetStatus(d)' = TargetStatus(d)
  BY DEF OthersKeep, OutcomeInForce, Decides, AddsStage, TargetStatus
<1>3. OutcomeStands'
  <2> SUFFICES ASSUME NEW d \in Calls, OutcomeInForce(d)'
               PROVE  /\ seenReq'[d].version < request'.version
                      /\ AddsStage(d)' =>
                          (request'.version = seenReq'[d].version + 1 => request'.status = IN_REVIEW)
                      /\ ~AddsStage(d)' =>
                          /\ request'.status = TargetStatus(d)'
                          /\ \A e \in Calls : OutcomeInForce(e)' /\ ~AddsStage(e)' => e = d
    BY DEF OutcomeStands
  <2>1. OutcomeInForce(d) /\ seenReq'[d] = seenReq[d] /\ AddsStage(d)' = AddsStage(d)
        /\ TargetStatus(d)' = TargetStatus(d)
    BY <1>2
  <2>2. seenReq'[d].version < request'.version
    BY <1>0, <2>1 DEF OutcomeStands
  <2>3. AddsStage(d)' =>
            (request'.version = seenReq'[d].version + 1 => request'.status = IN_REVIEW)
    <3>1. /\ seenReq[d].version < request.version
          /\ AddsStage(d) =>
              (request.version = seenReq[d].version + 1 => request.status = IN_REVIEW)
      BY <2>1 DEF OutcomeStands
    <3>2. seenReq[d].version \in Nat
      BY <1>0
    <3> QED BY <1>0, <2>1, <3>1, <3>2
  <2>4. ~AddsStage(d)' => request'.status = TargetStatus(d)'
    BY <2>1 DEF OutcomeStands
  <2>5. ~AddsStage(d)' => \A e \in Calls : OutcomeInForce(e)' /\ ~AddsStage(e)' => e = d
    BY <1>2, <2>1 DEF OutcomeStands
  <2> QED BY <2>2, <2>3, <2>4, <2>5
<1> QED BY <1>1, <1>3

\* A step that writes a status.  The row was one on which no terminal outcome
\* of another call was in force.
LEMMA NewStatusStep ==
    ASSUME OutcomeInv, DecisionInv', NothingBeforeCreation',
           NEW c \in Calls, OthersKeep(c), request'.version = request.version + 1,
           SnapshotPinned(c)',
           \A d \in Calls \ {c} : OutcomeInForce(d) => AddsStage(d),
           OutcomeInForce(c)' =>
               /\ seenReq'[c].version < request'.version
               /\ request'.status = TargetStatus(c)'
               /\ AddsStage(c)' => TargetStatus(c)' = IN_REVIEW
    PROVE  OutcomeInv'
<1> USE DEF OutcomeInv, DecisionInv
<1>0. /\ request.version \in Nat /\ request'.version \in Nat
      /\ \A d \in Calls : seenReq[d].version \in Nat
  BY RequestFields DEF TypeOK
<1>1. SnapshotsPinned'
  <2>1. ASSUME NEW d \in Calls \ {c} PROVE SnapshotPinned(d)'
    BY <1>0, <2>1 DEF SnapshotsPinned, SnapshotPinned, OthersKeep, Decides
  <2> QED BY <2>1 DEF SnapshotsPinned
<1>2. \A d \in Calls \ {c} : OutcomeInForce(d)' =>
            OutcomeInForce(d) /\ seenReq'[d] = seenReq[d] /\ AddsStage(d)'
  BY DEF OthersKeep, OutcomeInForce, Decides, AddsStage
<1>3. \A d \in Calls \ {c} : OutcomeInForce(d)' =>
            seenReq'[d].version < request'.version /\ request'.version # seenReq'[d].version + 1
  BY <1>0, <1>2 DEF OutcomeStands
<1>4. OutcomeStands'
  BY <1>2, <1>3 DEF OutcomeStands
<1> QED BY <1>1, <1>4

-----------------------------------------------------------------------------
(* One lemma per kind of statement.                                        *)

LEMMA CreateRequestOutcome ==
    ASSUME OutcomeInv, DecisionInv', NEW c \in Calls, CreateRequest(c)
    PROVE  OutcomeInv'
<1>0. /\ TypeOK /\ CallWellFormed(c) /\ request.version = 0
      /\ \A d \in Calls : pc[d] = "idle" /\ undo[d] = {}
  BY DEF OutcomeInv, DecisionInv, CallsWellFormed, CallWellFormed, NothingBeforeCreation,
         CreateRequest
<1>1. PICK r \in Replies :
        /\ request' = IF Applied(r) THEN NewRequest ELSE request
        /\ Statement(c, r, "create_stage", {"insert"}, "insert")
  BY DEF CreateRequest
<1>2. op'[c].kind = "create" /\ seenReq'[c] = NewRequest
  BY <1>0 DEF CreateRequest, TypeOK, Args
<1>3. OthersKeep(c)
  BY <1>0, <1>1, StatementFrame DEF CreateRequest, OthersKeep, TypeOK
<1>4. /\ pc'[c] \in {"create_stage", "failed", "rollback"} /\ undo'[c] \subseteq {"insert"}
      /\ pc'[c] = "create_stage" => r = "ok"
  BY <1>0, <1>1, StatementFrame
<1>5. NothingBeforeCreation'
  BY <1>2 DEF NothingBeforeCreation
<1>6. SnapshotPinned(c)'
  <2>1. r = "ok" => request' = NewRequest
    BY <1>1 DEF Applied
  <2> QED BY <1>2, <1>4, <2>1, NewRequestFields DEF SnapshotPinned, Decides
<1>7. ~OutcomeInForce(c)' /\ \A d \in Calls : ~OutcomeInForce(d)
  BY <1>0, <1>2 DEF OutcomeInForce, Decides
<1>8. CASE Applied(r)
  <2>1. request'.version = request.version + 1
    BY <1>0, <1>1, <1>8, NewRequestFields
  <2> QED BY <1>3, <1>5, <1>6, <1>7, <2>1, NewStatusStep
<1>9. CASE ~Applied(r)
  BY <1>1, <1>3, <1>5, <1>6, <1>7, <1>9, SameStatusStep
<1> QED BY <1>8, <1>9

\* The statements on the way from the decision to set_current_stage.
LEMMA AdvancementOutcome ==
    ASSUME OutcomeInv, DecisionInv', NEW c \in Calls,
           ReadStage(c) \/ DecideStage(c) \/ ReadRequest(c) \/ PlanNextStage(c) \/ CreateStage(c)
    PROVE  OutcomeInv'
<1>0. /\ TypeOK /\ CallWellFormed(c) /\ SnapshotPinned(c)
      /\ seenReq[c] \in RequestRow /\ request \in RequestRow
  BY DEF OutcomeInv, DecisionInv, CallsWellFormed, SnapshotsPinned, TypeOK
<1>1. CASE ReadStage(c)
  <2>1. PICK o \in Orders : Exists(o)
    BY <1>1 DEF ReadStage
  <2>2. /\ op'[c].kind \in {"approve", "reject"} /\ pc'[c] \in {"replayed", "decide", "failed"}
    BY <1>0, <1>1, SMTT(60) DEF ReadStage, TypeOK, Args
  <2>3. OthersKeep(c) /\ request' = request /\ undo' = undo /\ undo[c] = {} /\ pc[c] = "idle"
    BY <1>0, <1>1, SMTT(60) DEF ReadStage, TypeOK, OthersKeep, db, CallWellFormed
  <2>4. NothingBeforeCreation'
    BY <2>1, <2>3, StillCreated DEF Exists
  <2>5. SnapshotPinned(c)' /\ ~OutcomeInForce(c)'
    BY <2>2, <2>3 DEF SnapshotPinned, OutcomeInForce, Decides
  <2> QED BY <2>3, <2>4, <2>5, SameStatusStep
<1>2. CASE DecideStage(c)
  <2>1. PICK r \in Replies : Statement(c, r, "read_request", {"decision"}, "decision")
    BY <1>2 DEF DecideStage
  <2>2. /\ OthersKeep(c) /\ request' = request /\ op' = op /\ pc[c] = "decide"
        /\ pc'[c] \in {"read_request", "failed", "rollback"}
        /\ undo'[c] \subseteq undo[c] \cup {"decision"}
    BY <1>0, <1>2, <2>1, StatementFrame DEF DecideStage, OthersKeep
  <2>3. NothingBeforeCreation'
    BY <2>2, StillCreated
  <2>4. SnapshotPinned(c)' /\ ~OutcomeInForce(c)'
    BY <1>0, <2>2 DEF SnapshotPinned, OutcomeInForce, Decides, CallWellFormed
  <2> QED BY <2>2, <2>3, <2>4, SameStatusStep
<1>3. CASE ReadRequest(c)
  <2>1. PICK r \in {"ok", "error"} :
          /\ seenReq' = [seenReq EXCEPT ![c] = IF r = "ok" THEN request ELSE @]
          /\ IF r = "error" \/ (op[c].kind = "reject" /\
                                ~validate_request_transition(request.status, REJECTED))
             THEN Raise(c, {})
             ELSE Proceed(c, IF op[c].kind = "reject" THEN "advance" ELSE "plan", {})
    BY <1>3 DEF ReadRequest
  <2>2. request' = request /\ op' = op /\ pc[c] = "read_request"
    BY <1>3 DEF ReadRequest, db
  <2>3. \/ Raise(c, {})
        \/ r = "ok" /\ Proceed(c, "plan", {})
        \/ /\ r = "ok" /\ Proceed(c, "advance", {})
           /\ validate_request_transition(request.status, REJECTED)
    BY <2>1
  <2>4. /\ \A d \in Calls \ {c} : pc'[d] = pc[d] /\ undo'[d] = undo[d]
        /\ undo'[c] \subseteq undo[c]
        /\ \/ pc'[c] \in {"failed", "rollback"}
           \/ r = "ok" /\ pc'[c] = "plan"
           \/ /\ r = "ok" /\ pc'[c] = "advance"
              /\ validate_request_transition(request.status, REJECTED)
    <3>1. CASE Raise(c, {})
      BY <1>0, <3>1, RaiseFrame
    <3>2. ASSUME NEW next \in {"plan", "advance"}, Proceed(c, next, {})
          PROVE  /\ \A d \in Calls \ {c} : pc'[d] = pc[d] /\ undo'[d] = undo[d]
                 /\ undo'[c] \subseteq undo[c] /\ pc'[c] = next
      BY <1>0, <3>2, ProceedFrame
    <3> QED BY <2>3, <3>1, <3>2
  <2>5. OthersKeep(c)
    BY <1>0, <2>1, <2>2, <2>4 DEF OthersKeep, TypeOK
  <2>6. NothingBeforeCreation'
    BY <2>2, <2>5, StillCreated
  <2>7. r = "ok" => seenReq'[c] = request
    BY <1>0, <2>1 DEF TypeOK
  <2>8. pc'[c] = "advance" => ~is_terminal_request_status(request.status)
    BY <1>0, <2>4, ValidatedIsNotTerminal, RequestFields
  <2>9. Decides(c)' /\ op'[c].kind # "create"
    BY <1>0, <2>2 DEF SnapshotPinned, Decides
  <2>10. SnapshotPinned(c)'
    <3>1. request.version \in Nat
      BY <1>0, RequestFields
    <3> QED BY <1>0, <2>2, <2>4, <2>7, <2>8, <2>9, <3>1 DEF SnapshotPinned
  <2>11. ~OutcomeInForce(c)'
    BY <1>0, <2>2, <2>4 DEF SnapshotPinned, OutcomeInForce
  <2> QED BY <2>2, <2>5, <2>6, <2>10, <2>11, SameStatusStep
<1>4. CASE PlanNextStage(c)
  <2>1. /\ \A d \in Calls \ {c} : pc'[d] = pc[d] /\ undo'[d] = undo[d]
        /\ undo'[c] \subseteq undo[c]
        /\ \/ pc'[c] \in {"failed", "rollback", "create_stage"}
           \/ pc'[c] = "advance" /\ validate_request_transition(seenReq[c].status, COMPLETED)
    <3>1. CASE Raise(c, {})
      BY <1>0, <3>1, RaiseFrame
    <3>2. ASSUME NEW next \in {"create_stage", "advance"}, Proceed(c, next, {})
          PROVE  /\ \A d \in Calls \ {c} : pc'[d] = pc[d] /\ undo'[d] = undo[d]
                 /\ undo'[c] \subseteq undo[c] /\ pc'[c] = next
      BY <1>0, <3>2, ProceedFrame
    <3>3. \/ Raise(c, {}) \/ Proceed(c, "create_stage", {})
          \/ /\ Proceed(c, "advance", {})
             /\ validate_request_transition(seenReq[c].status, COMPLETED)
      BY <1>4 DEF PlanNextStage
    <3> QED BY <3>1, <3>2, <3>3
  <2>2. request' = request /\ op' = op /\ seenReq' = seenReq /\ pc[c] = "plan"
    BY <1>4 DEF PlanNextStage, db
  <2>3. OthersKeep(c)
    BY <2>1, <2>2 DEF OthersKeep
  <2>4. NothingBeforeCreation'
    BY <2>2, <2>3, StillCreated
  <2>5. pc'[c] = "advance" => ~is_terminal_request_status(seenReq[c].status)
    BY <1>0, <2>1, ValidatedIsNotTerminal, RequestFields
  <2>6. SnapshotPinned(c)'
    BY <1>0, <2>1, <2>2, <2>5 DEF SnapshotPinned, Decides
  <2>7. OutcomeInForce(c)' => OutcomeInForce(c)
    BY <2>1, <2>2 DEF OutcomeInForce, Decides
  <2> QED BY <2>2, <2>3, <2>4, <2>6, <2>7, SameStatusStep
<1>5. CASE CreateStage(c)
  <2>1. PICK r \in Replies :
          Statement(c, r, IF \/ op[c].kind = "create"
                             \/ validate_request_transition(seenReq[c].status, IN_REVIEW)
                          THEN "advance" ELSE "rollback",
                    IF op[c].kind = "create" THEN {} ELSE {"stage"}, "stage")
    BY <1>5 DEF CreateStage
  <2>2. PICK new \in {{}, {"stage"}} :
          /\ \A d \in Calls \ {c} : pc'[d] = pc[d] /\ undo'[d] = undo[d]
          /\ undo'[c] = undo[c] \/ undo'[c] = undo[c] \cup new
          /\ \/ pc'[c] \in {"failed", "rollback"}
             \/ /\ pc'[c] = "advance"
                /\ \/ op[c].kind = "create"
                   \/ validate_request_transition(seenReq[c].status, IN_REVIEW)
    BY <1>0, <2>1, StatementFrame, SMTT(60)
  <2>3. request' = request /\ op' = op /\ seenReq' = seenReq /\ pc[c] = "create_stage"
    BY <1>5 DEF CreateStage
  <2>4. OthersKeep(c)
    BY <2>2, <2>3 DEF OthersKeep
  <2>5. NothingBeforeCreation'
    BY <2>3, <2>4, StillCreated
  <2>6. pc'[c] = "advance" => ~is_terminal_request_status(seenReq[c].status)
    <3>1. op[c].kind = "create" => seenReq[c].status = PENDING
      BY <1>0, <2>3 DEF SnapshotPinned
    <3> QED BY <1>0, <2>2, <3>1, ValidatedIsNotTerminal, RequestFields, TerminalStatuses
  <2>7. "request" \in undo'[c] => "request" \in undo[c]
    BY <2>2
  <2>8. SnapshotPinned(c)'
    BY <1>0, <2>2, <2>3, <2>6, <2>7 DEF SnapshotPinned, Decides
  <2>9. OutcomeInForce(c)' => OutcomeInForce(c)
    BY <2>2, <2>3, <2>7 DEF OutcomeInForce, Decides
  <2> QED BY <2>3, <2>4, <2>5, <2>8, <2>9, SameStatusStep
<1> QED BY <1>1, <1>2, <1>3, <1>4, <1>5

\* set_current_stage matches only the version whose status was validated, so
\* no terminal outcome is in force there.
LEMMA SetCurrentStageOutcome ==
    ASSUME OutcomeInv, DecisionInv', NEW c \in Calls, SetCurrentStage(c)
    PROVE  OutcomeInv'
<1> DEFINE current == IF AddsStage(c) THEN c ELSE None
<1>0. /\ TypeOK /\ SnapshotPinned(c) /\ request \in RequestRow
      /\ pc[c] = "advance" /\ op' = op /\ seenReq' = seenReq
  BY DEF OutcomeInv, DecisionInv, SnapshotsPinned, TypeOK, SetCurrentStage
<1>1. PICK r \in Replies :
        /\ Reply(r, request.version = RequestVersionToUse(c))
        /\ request' = IF Applied(r) THEN Advanced(request, TargetStatus(c), current) ELSE request
        /\ Statement(c, r, "audit", IF op[c].kind = "create" THEN {} ELSE {"request"}, "request")
  BY DEF SetCurrentStage
<1>2. /\ OthersKeep(c) /\ pc'[c] \in {"audit", "failed", "rollback"}
      /\ r # "ok" => pc'[c] # "audit" /\ undo'[c] = undo[c]
      /\ "request" \in undo'[c] => "request" \in undo[c] \/ op[c].kind # "create"
  BY <1>0, <1>1, StatementFrame DEF OthersKeep
<1>3. NothingBeforeCreation'
  BY <1>0, <1>2, StillCreated
<1>4. SnapshotPinned(c)'
  BY <1>0, <1>2 DEF SnapshotPinned, Decides
<1>5. CASE ~Applied(r)
  <2>1. OutcomeInForce(c)' => OutcomeInForce(c)
    BY <1>0, <1>2, <1>5 DEF OutcomeInForce, Decides, Applied
  <2> QED BY <1>0, <1>1, <1>2, <1>3, <1>4, <1>5, <2>1, SameStatusStep
<1>6. CASE Applied(r)
  <2>1. request.version = seenReq[c].version
    BY <1>1, <1>6, ReplyApplied DEF RequestVersionToUse
  <2>2. ~is_terminal_request_status(request.status)
    BY <1>0, <2>1 DEF SnapshotPinned
  <2>3. \A d \in Calls : OutcomeInForce(d) => AddsStage(d)
    BY <2>2, FinalTarget DEF OutcomeInv, OutcomeStands, OutcomeInForce
  <2>4. request'.version = request.version + 1 /\ request'.status = TargetStatus(c)
    BY <1>0, <1>1, <1>6, AdvancedFields
  <2>5. /\ AddsStage(c)' <=> AddsStage(c)
        /\ TargetStatus(c)' = TargetStatus(c)
        /\ OutcomeInForce(c)' => Decides(c)
    BY <1>0 DEF AddsStage, TargetStatus, OutcomeInForce, Decides
  <2>6. seenReq'[c].version < request'.version
    BY <1>0, <2>1, <2>4, RequestFields
  <2> QED BY <1>2, <1>3, <1>4, <2>3, <2>4, <2>5, <2>6, FinalTarget, NewStatusStep
<1> QED BY <1>5, <1>6

\* _compensate_request_advancement matches only the version its call wrote:
\* either the outcome is its own or it had moved the request to in_review.
LEMMA RestoreRequestOutcome ==
    ASSUME OutcomeInv, DecisionInv', NEW c \in Calls, RestoreRequest(c)
    PROVE  OutcomeInv'
<1>0. /\ TypeOK /\ SnapshotPinned(c) /\ request \in RequestRow
      /\ pc[c] = "rollback" /\ "request" \in undo[c]
  BY DEF OutcomeInv, DecisionInv, SnapshotsPinned, TypeOK, RestoreRequest, Turn, Registered
<1>1. PICK r \in Replies :
        /\ Reply(r, /\ request.version = seenReq[c].version + 1
                    /\ seenReq[c].current # None =>
                            \E o \in Orders : stage[o].id = seenReq[c].current)
        /\ request' = IF Applied(r) THEN RestoredRequest(c) ELSE request
        /\ Compensate(c, r, "request")
  BY DEF RestoreRequest
<1>2. /\ OthersKeep(c) /\ op' = op /\ seenReq' = seenReq
      /\ pc'[c] \in {"failed", "rollback"} /\ undo'[c] = undo[c] \ {"request"}
  BY <1>0, <1>1, CompensateFrame DEF OthersKeep, OthersUnchanged, Compensate
<1>3. NothingBeforeCreation'
  BY <1>0, <1>2, StillCreated
<1>4. SnapshotPinned(c)' /\ ~OutcomeInForce(c)'
  BY <1>0, <1>2 DEF SnapshotPinned, Decides, OutcomeInForce
<1>5. CASE ~Applied(r)
  BY <1>1, <1>2, <1>3, <1>4, <1>5, SameStatusStep
<1>6. CASE Applied(r)
  <2>1. request.version = seenReq[c].version + 1
    BY <1>1, <1>6, ReplyApplied
  <2>2. OutcomeInForce(c)
    BY <1>0 DEF SnapshotPinned, OutcomeInForce
  <2>3. ASSUME NEW d \in Calls \ {c}, OutcomeInForce(d) PROVE AddsStage(d)
    <3>1. CASE AddsStage(c)
      <4>1. request.status = IN_REVIEW
        BY <2>1, <2>2, <3>1 DEF OutcomeInv, OutcomeStands
      <4> QED
        BY <2>3, <4>1, FinalTarget, TerminalStatuses DEF OutcomeInv, OutcomeStands, OutcomeInForce
    <3>2. CASE ~AddsStage(c)
      BY <2>2, <2>3, <3>2 DEF OutcomeInv, OutcomeStands
    <3> QED BY <3>1, <3>2
  <2>4. request'.version = request.version + 1
    BY <1>0, <1>1, <1>6, RestoredFields
  <2> QED BY <1>2, <1>3, <1>4, <2>3, <2>4, NewStatusStep
<1> QED BY <1>5, <1>6

\* Every other step leaves the status alone.
LEMMA OtherOutcome ==
    ASSUME OutcomeInv, DecisionInv', NEW c \in Calls,
           \/ RecordEvent(c) \/ Notify(c) \/ DiscoverStage(c) \/ EscalateRead(c)
           \/ EscalateStage(c) \/ ReadOwnRequest(c) \/ UpdateFields(c) \/ SoftDelete(c)
           \/ DeleteIfUnchanged(c) \/ RevertToPending(c) \/ RestoreAssignment(c)
           \/ DeleteCreated(c) \/ Crash(c)
    PROVE  OutcomeInv'
<1>0. TypeOK /\ SnapshotPinned(c) /\ CallWellFormed(c) /\ RowsWellFormed /\ request \in RequestRow
  BY DEF OutcomeInv, DecisionInv, SnapshotsPinned, CallsWellFormed, TypeOK
<1>1. CASE DiscoverStage(c) \/ ReadOwnRequest(c)
  <2>1. /\ pc[c] = "idle" /\ undo[c] = {} /\ undo' = undo /\ request' = request /\ OthersKeep(c)
        /\ op'[c].kind \in {"escalate", "edit", "withdraw"}
        /\ pc'[c] \in {"escalate_read", "edit", "withdraw", "failed"}
    BY <1>0, <1>1
       DEF DiscoverStage, ReadOwnRequest, OthersKeep, TypeOK, db, CallWellFormed, Args
  <2>2. request.version # 0 \/ \E o \in Orders : stage[o].id # None
    BY <1>0, <1>1 DEF DiscoverStage, ReadOwnRequest, RowsWellFormed
  <2>3. NothingBeforeCreation'
    BY <2>1, <2>2, StillCreated
  <2>4. SnapshotPinned(c)' /\ ~OutcomeInForce(c)'
    BY <2>1 DEF SnapshotPinned, OutcomeInForce, Decides
  <2> QED BY <2>1, <2>3, <2>4, SameStatusStep
<1>2. ASSUME pc[c] # "idle", OthersKeep(c), op' = op, seenReq' = seenReq,
             undo'[c] \subseteq undo[c] \cup {"assignment"},
             pc'[c] \in {"notify", "done", "failed", "rollback", "crashed", "escalate", "audit"},
             OutcomeInForce(c)' => OutcomeInForce(c),
             request'.status = request.status,
             request'.version = request.version \/ request'.version = request.version + 1
      PROVE  OutcomeInv'
  <2>1. NothingBeforeCreation'
    BY <1>2, StillCreated
  <2>2. SnapshotPinned(c)'
    BY <1>0, <1>2 DEF SnapshotPinned, Decides
  <2> QED BY <1>2, <2>1, <2>2, SameStatusStep
<1>3. CASE RecordEvent(c)
  <2>1. /\ OthersKeep(c) /\ op' = op /\ seenReq' = seenReq /\ pc[c] = "audit" /\ request' = request
        /\ undo'[c] \subseteq undo[c]
        /\ pc'[c] \in {"done", "notify", "failed", "rollback"}
    BY <1>0, <1>3, RaiseFrame DEF RecordEvent, Commit, OthersKeep, TypeOK
  <2> QED BY <1>2, <2>1 DEF OutcomeInForce, Decides
<1>4. CASE Notify(c) \/ EscalateRead(c) \/ Crash(c)
  <2>1. /\ OthersKeep(c) /\ op' = op /\ seenReq' = seenReq /\ request' = request
        /\ pc[c] # "idle" /\ undo'[c] \subseteq undo[c]
        /\ pc'[c] \in {"done", "failed", "escalate", "crashed"}
        /\ pc'[c] = "done" => pc[c] = "notify"
    BY <1>0, <1>4 DEF Notify, EscalateRead, Crash, OthersKeep, TypeOK, db, Running
  <2> QED BY <1>2, <2>1 DEF OutcomeInForce, Decides
<1>5. CASE EscalateStage(c) \/ UpdateFields(c) \/ SoftDelete(c)
  <2>1. /\ pc[c] \in {"escalate", "edit", "withdraw"} /\ op' = op /\ seenReq' = seenReq
        /\ request' \in {request, Edited(request), Withdrawn(request)}
    BY <1>5 DEF EscalateStage, UpdateFields, SoftDelete
  <2>2. PICK r \in Replies, next \in {"audit", "done"}, new \in {{}, {"assignment"}}, effect \in Effects :
          Statement(c, r, next, new, effect)
    BY <1>5 DEF EscalateStage, UpdateFields, SoftDelete, Effects
  <2>3. /\ OthersKeep(c) /\ pc'[c] \in {"audit", "done", "failed", "rollback"}
        /\ undo'[c] \subseteq undo[c] \cup {"assignment"}
    BY <1>0, <2>1, <2>2, StatementFrame DEF OthersKeep
  <2>4. ~OutcomeInForce(c)'
    BY <1>0, <2>1, <2>3 DEF CallWellFormed, OutcomeInForce, Decides
  <2>5. request'.status = request.status
        /\ (request'.version = request.version \/ request'.version = request.version + 1)
    BY <1>0, <2>1, EditedFields
  <2> QED BY <1>2, <2>1, <2>3, <2>4, <2>5
<1>6. CASE DeleteIfUnchanged(c) \/ RevertToPending(c) \/ RestoreAssignment(c) \/ DeleteCreated(c)
  <2>1. pc[c] = "rollback" /\ request' \in {request, Withdrawn(request)}
    BY <1>6 DEF DeleteIfUnchanged, RevertToPending, RestoreAssignment, DeleteCreated, Turn
  <2>2. PICK r \in Replies, effect \in Effects : Compensate(c, r, effect)
    BY <1>6 DEF DeleteIfUnchanged, RevertToPending, RestoreAssignment, DeleteCreated, Effects
  <2>3. /\ OthersKeep(c) /\ op' = op /\ seenReq' = seenReq
        /\ pc'[c] \in {"failed", "rollback"} /\ undo'[c] \subseteq undo[c]
    BY <1>0, <2>2, CompensateFrame DEF OthersKeep, OthersUnchanged, Compensate
  <2>4. OutcomeInForce(c)' => OutcomeInForce(c)
    BY <2>3 DEF OutcomeInForce, Decides
  <2>5. request'.status = request.status
        /\ (request'.version = request.version \/ request'.version = request.version + 1)
    BY <1>0, <2>1, EditedFields
  <2> QED BY <1>2, <2>1, <2>3, <2>4, <2>5
<1> QED BY <1>1, <1>3, <1>4, <1>5, <1>6

-----------------------------------------------------------------------------
LEMMA InitOutcome == Init => OutcomeInv
<1> SUFFICES ASSUME Init PROVE OutcomeInv
  OBVIOUS
<1>1. NothingBeforeCreation
  BY DEF Init, NothingBeforeCreation, NoRequest, NoRow
<1>2. SnapshotsPinned /\ OutcomeStands
  BY DEF Init, SnapshotsPinned, SnapshotPinned, OutcomeStands, OutcomeInForce, Decides, NoOp, Args
<1> QED BY <1>1, <1>2, InitInv DEF OutcomeInv

\* The invariant of the request's outcome is inductive.
LEMMA NextOutcome == OutcomeInv /\ [Next]_vars => OutcomeInv'
<1> SUFFICES ASSUME OutcomeInv, [Next]_vars PROVE OutcomeInv'
  OBVIOUS
<1>1. DecisionInv'
  BY NextInv DEF OutcomeInv
<1>2. CASE UNCHANGED vars
  <2>1. NothingBeforeCreation' /\ SnapshotsPinned'
    BY <1>2 DEF OutcomeInv, vars, NothingBeforeCreation, SnapshotsPinned, SnapshotPinned, Decides
  <2>2. OutcomeStands'
    BY <1>2 DEF OutcomeInv, vars, OutcomeStands, OutcomeInForce, Decides, AddsStage, TargetStatus
  <2> QED BY <1>1, <2>1, <2>2 DEF OutcomeInv
<1>3. ASSUME NEW c \in Calls, Step(c) PROVE OutcomeInv'
  BY <1>1, <1>3, CreateRequestOutcome, AdvancementOutcome, SetCurrentStageOutcome,
     RestoreRequestOutcome, OtherOutcome
     DEF Step
<1> QED BY <1>2, <1>3 DEF Next

\* A rejection, or the approval of the final stage, reported as made leaves the
\* request in that terminal status for good (_advance_after_approval,
\* _finalize_rejection), against every interleaving, failure and crash.
THEOREM OutcomeDurability == Spec => []OutcomeDurable
<1>1. OutcomeInv => OutcomeDurable
  BY DEF OutcomeInv, OutcomeDurable, OutcomeStands, OutcomeInForce, Committed
<1> QED BY <1>1, InitOutcome, NextOutcome, PTL DEF Spec

-----------------------------------------------------------------------------
(* Steps of one call, by what they leave behind.                           *)

\* What an unsuccessful call leaves behind stays, and no other call adds to it.
LeftGrows(c) ==
    /\ \A d \in Calls \ {c} : left'[d] = left[d]
    /\ left[c] \subseteq left'[c]

LEMMA RaiseLeaves ==
    ASSUME TypeOK, NEW c \in Calls, NEW remaining, Raise(c, remaining)
    PROVE  /\ LeftGrows(c) /\ remaining \subseteq left'[c]
           /\ pc'[c] = IF undo[c] = {} THEN "failed" ELSE "rollback"
BY DEF TypeOK, Raise, LeftGrows

LEMMA ProceedLeaves ==
    ASSUME TypeOK, NEW c \in Calls, NEW next, NEW effects, Proceed(c, next, effects)
    PROVE  LeftGrows(c)
BY DEF TypeOK, Proceed, LeftGrows

LEMMA StatementLeaves ==
    ASSUME TypeOK, NEW c \in Calls, NEW r, NEW next, NEW compensable, NEW effect,
           Statement(c, r, next, compensable, effect)
    PROVE  /\ LeftGrows(c)
           /\ r # "ok" => pc'[c] = IF undo[c] = {} THEN "failed" ELSE "rollback"
           /\ r = "lost" => left'[c] # {}
<1>1. CASE r = "ok"
  BY <1>1, ProceedLeaves DEF Statement
<1>2. CASE r # "ok"
  BY <1>2, RaiseLeaves DEF Statement
<1> QED BY <1>1, <1>2

LEMMA CompensateLeaves ==
    ASSUME TypeOK, NEW c \in Calls, NEW r, NEW effect, Compensate(c, r, effect)
    PROVE  /\ OthersKeep(c) /\ LeftGrows(c) /\ notices' = notices
           /\ ~Applied(r) => left'[c] # {}
           /\ pc'[c] = IF undo[c] = {effect} THEN "failed" ELSE "rollback"
BY DEF TypeOK, Compensate, LeftGrows, OthersKeep

\* A step is one call's: the others keep their place, a call that has ended
\* does not move, arguments are fixed when the call begins.
LEMMA StepFrame ==
    ASSUME TypeOK, NEW c \in Calls, Step(c)
    PROVE  /\ OthersKeep(c) /\ LeftGrows(c) /\ pc[c] \notin Ended
           /\ op' = op \/ pc[c] = "idle"
           /\ pc[c] # "notify" => notices' = notices
<1>1. CASE CreateRequest(c)
  <2>1. PICK r \in Replies : Statement(c, r, "create_stage", {"insert"}, "insert")
    BY <1>1 DEF CreateRequest
  <2> QED BY <1>1, <2>1, StatementFrame, StatementLeaves DEF CreateRequest, OthersKeep, TypeOK, Ended
<1>2. CASE ReadStage(c) \/ DiscoverStage(c) \/ EscalateRead(c) \/ ReadOwnRequest(c)
  <2>1. /\ pc[c] \in {"idle", "escalate_read"} /\ undo' = undo /\ left' = left /\ notices' = notices
        /\ op' = op \/ pc[c] = "idle"
    BY <1>2 DEF ReadStage, DiscoverStage, EscalateRead, ReadOwnRequest, db
  <2>2. OthersKeep(c)
    BY <1>2, SMTT(60) DEF ReadStage, DiscoverStage, EscalateRead, ReadOwnRequest, OthersKeep, TypeOK
  <2> QED BY <2>1, <2>2 DEF LeftGrows, Ended, TypeOK
<1>3. CASE ReadRequest(c) \/ PlanNextStage(c)
  <2>1. /\ pc[c] \in {"read_request", "plan"} /\ op' = op /\ notices' = notices
        /\ \A d \in Calls \ {c} : seenReq'[d] = seenReq[d]
        /\ Raise(c, {}) \/ \E next \in {"plan", "advance", "create_stage"} : Proceed(c, next, {})
    BY <1>3 DEF ReadRequest, PlanNextStage, TypeOK, db
  <2> QED BY <2>1, RaiseFrame, RaiseLeaves, ProceedFrame, ProceedLeaves DEF OthersKeep, Ended
<1>4. CASE \/ DecideStage(c) \/ CreateStage(c) \/ SetCurrentStage(c) \/ EscalateStage(c)
           \/ UpdateFields(c) \/ SoftDelete(c)
  <2>1. /\ pc[c] \in {"decide", "create_stage", "advance", "escalate", "edit", "withdraw"}
        /\ op' = op /\ seenReq' = seenReq /\ notices' = notices
    BY <1>4 DEF DecideStage, CreateStage, SetCurrentStage, EscalateStage, UpdateFields, SoftDelete
  <2>2. \E r, next, new, effect : Statement(c, r, next, new, effect)
    BY <1>4, Zenon
       DEF DecideStage, CreateStage, SetCurrentStage, EscalateStage, UpdateFields, SoftDelete
  <2> QED BY <2>1, <2>2, StatementFrame, StatementLeaves DEF OthersKeep, Ended
<1>5. CASE RecordEvent(c)
  <2>1. /\ pc[c] = "audit" /\ op' = op /\ seenReq' = seenReq /\ notices' = notices
        /\ \/ \E remaining : Raise(c, remaining)
           \/ Commit(c, "done") \/ Commit(c, "notify")
    BY <1>5 DEF RecordEvent
  <2>2. ASSUME NEW next, Commit(c, next) PROVE OthersKeep(c) /\ LeftGrows(c)
    BY <2>1, <2>2 DEF Commit, OthersKeep, LeftGrows, TypeOK
  <2> QED BY <2>1, <2>2, RaiseFrame, RaiseLeaves DEF OthersKeep, Ended
<1>6. CASE Notify(c)
  BY <1>6 DEF Notify, OthersKeep, LeftGrows, TypeOK, Ended
<1>7. CASE \/ RestoreRequest(c) \/ DeleteIfUnchanged(c) \/ RevertToPending(c)
           \/ RestoreAssignment(c) \/ DeleteCreated(c)
  <2>1. pc[c] = "rollback"
    BY <1>7 DEF RestoreRequest, DeleteIfUnchanged, RevertToPending, RestoreAssignment,
                DeleteCreated, Turn
  <2>2. PICK r, effect : Compensate(c, r, effect)
    BY <1>7, Zenon
       DEF RestoreRequest, DeleteIfUnchanged, RevertToPending, RestoreAssignment, DeleteCreated
  <2> QED BY <2>1, <2>2, CompensateLeaves DEF Compensate, Ended
<1>8. CASE Crash(c)
  BY <1>8 DEF Crash, OthersKeep, LeftGrows, TypeOK, db, Running, Ended
<1> QED BY <1>1, <1>2, <1>3, <1>4, <1>5, <1>6, <1>7, <1>8 DEF Step

-----------------------------------------------------------------------------
(* What a call has registered, and who wrote what is in the rows.          *)

\* What a call has registered when it comes to a statement: the decision
\* first, then the stage it created, then the update of the request.
Registers(c) ==
    /\ pc[c] \notin {"read_request", "plan", "create_stage", "advance", "audit", "rollback"}
       => undo[c] = {}
    /\ "request" \in undo[c] => pc[c] \in {"audit", "rollback"} /\ "decision" \in undo[c]
    /\ "stage" \in undo[c] => pc[c] \in {"advance", "audit", "rollback"} /\ "decision" \in undo[c]
    /\ pc[c] = "plan" => op[c].kind = "approve"
    /\ pc[c] = "create_stage" => AddsStage(c)
    /\ pc[c] \in {"escalate_read", "escalate"} => op[c].kind = "escalate"
    /\ pc[c] \in {"edit", "withdraw"} => op[c].kind = pc[c]
    /\ pc[c] = "audit" => Decides(c) \/ op[c].kind \in {"create", "escalate", "withdraw"}
    /\ pc[c] = "notify" => Decides(c) \/ op[c].kind = "create"
    /\ Decides(c) =>
        /\ pc[c] \in {"read_request", "plan", "create_stage", "advance", "audit"}
           => "decision" \in undo[c]
        /\ AddsStage(c) /\ (pc[c] \in {"advance", "audit"} \/ "request" \in undo[c])
           => "stage" \in undo[c]
        /\ pc[c] = "audit" => "request" \in undo[c]

\* A row was created by the call that adds its order, and is decided the way
\* the call says that decided it.
RowHasAuthors(o) ==
    LET row == stage[o] IN
    /\ row.id # None => AddsStage(row.id) /\ NewOrder(row.id) = o
    /\ row.decided_by # None => Decides(row.decided_by) /\ op[row.decided_by].order = o
    /\ row.status = IF row.id = None THEN "none"
                    ELSE IF row.decided_by = None THEN PENDING ELSE Verdict(row.decided_by)

\* The stage a call has created is there while the call goes on, and for good
\* once it has committed.
CreatedStays(c) ==
    AddsStage(c) /\ pc[c] \in {"advance", "audit", "notify", "done"} => stage[NewOrder(c)].id = c

\* A notification was sent by a call that is done, of the kind its outcome has.
NoticesBacked ==
    \A n \in notices :
        /\ pc[n.call] = "done" /\ (Decides(n.call) \/ op[n.call].kind = "create")
        /\ n.kind = IF AddsStage(n.call) THEN "assignment"
                    ELSE IF op[n.call].kind = "reject" THEN "decision" ELSE "completion"

\* The request is created once.
OneCreates == \A c, d \in Calls : op[c].kind = "create" /\ op[d].kind = "create" => c = d

\* The inductive invariant behind NoticesTrue, on top of that of the outcome.
AuthorInv ==
    /\ \A c \in Calls : Registers(c) /\ CreatedStays(c)
    /\ \A o \in Orders : RowHasAuthors(o)
    /\ NoticesBacked /\ OneCreates

\* What is derived from a call's arguments stays while they do.
LEMMA SameArguments ==
    ASSUME NEW d \in Calls, op'[d] = op[d]
    PROVE  /\ Decides(d)' <=> Decides(d)
           /\ AddsStage(d)' <=> AddsStage(d)
           /\ NewOrder(d)' = NewOrder(d)
           /\ Verdict(d)' = Verdict(d)
           /\ TargetStatus(d)' = TargetStatus(d)
BY DEF Decides, AddsStage, NewOrder, Verdict, TargetStatus

\* The stage a call adds is one of the definition's.
LEMMA AddedOrder ==
    ASSUME TypeOK, NEW c \in Calls, CallWellFormed(c), AddsStage(c)
    PROVE  NewOrder(c) \in Orders
BY StageAssumption DEF CallWellFormed, AddsStage, NewOrder, Decides, Orders, is_final_stage

LEMMA RegistersStep ==
    ASSUME OutcomeInv, NEW c \in Calls, Registers(c), Step(c)
    PROVE  Registers(c)'
<1>0. /\ TypeOK /\ CallWellFormed(c) /\ SnapshotPinned(c)
      /\ op' = op => (Decides(c)' <=> Decides(c)) /\ (AddsStage(c)' <=> AddsStage(c))
  BY SameArguments DEF OutcomeInv, DecisionInv, CallsWellFormed, SnapshotsPinned
<1>1. CASE CreateRequest(c)
  <2>1. PICK r \in Replies : Statement(c, r, "create_stage", {"insert"}, "insert")
    BY <1>1 DEF CreateRequest
  <2>2. op'[c].kind = "create" /\ undo[c] = {}
    BY <1>0, <1>1 DEF CreateRequest, TypeOK, Args, CallWellFormed
  <2>3. \/ pc'[c] = "create_stage" /\ undo'[c] = {"insert"}
        \/ pc'[c] = "failed" /\ undo'[c] = {}
    BY <1>0, <2>1, <2>2, StatementFrame, StatementLeaves
  <2> QED BY <2>2, <2>3 DEF Registers, Decides, AddsStage
<1>2. CASE ReadStage(c) \/ DiscoverStage(c) \/ EscalateRead(c) \/ ReadOwnRequest(c)
  <2>1. /\ undo' = undo
        /\ \/ pc[c] = "idle" /\ pc'[c] \in {"replayed", "decide", "failed"}
           \/ pc[c] = "idle" /\ pc'[c] = "escalate_read" /\ op'[c].kind = "escalate"
           \/ pc[c] = "idle" /\ pc'[c] \in {"edit", "withdraw"} /\ op'[c].kind = pc'[c]
           \/ pc[c] = "escalate_read" /\ pc'[c] \in {"escalate", "failed"} /\ op' = op
    BY <1>0, <1>2, SMTT(60)
       DEF ReadStage, DiscoverStage, EscalateRead, ReadOwnRequest, TypeOK, Args
  <2> QED BY <2>1 DEF Registers
<1>3. CASE ReadRequest(c) \/ PlanNextStage(c)
  <2>1. /\ op' = op /\ pc[c] \in {"read_request", "plan"}
        /\ \/ Raise(c, {})
           \/ pc[c] = "read_request" /\ op[c].kind = "reject" /\ Proceed(c, "advance", {})
           \/ pc[c] = "read_request" /\ op[c].kind # "reject" /\ Proceed(c, "plan", {})
           \/ AddsStage(c) /\ Proceed(c, "create_stage", {})
           \/ ~AddsStage(c) /\ Proceed(c, "advance", {})
    BY <1>3 DEF ReadRequest, PlanNextStage
  <2>2. CASE Raise(c, {})
    BY <1>0, <2>1, <2>2, RaiseFrame, RaiseLeaves DEF Registers
  <2>3. ASSUME NEW next \in {"advance", "plan", "create_stage"}, Proceed(c, next, {})
        PROVE  pc'[c] = next /\ undo'[c] = undo[c]
    BY <1>0, <2>3, ProceedFrame
  <2>4. Decides(c)
    BY <1>0, <2>1 DEF SnapshotPinned
  <2> QED BY <1>0, <2>1, <2>2, <2>3, <2>4 DEF Registers, Decides, AddsStage
<1>4. CASE DecideStage(c)
  <2>1. PICK r \in Replies : Statement(c, r, "read_request", {"decision"}, "decision")
    BY <1>4 DEF DecideStage
  <2>2. pc[c] = "decide" /\ op' = op
    BY <1>4 DEF DecideStage
  <2> QED BY <1>0, <2>1, <2>2, StatementFrame, StatementLeaves DEF Registers
<1>5. CASE CreateStage(c)
  <2> DEFINE new == IF op[c].kind = "create" THEN {} ELSE {"stage"}
  <2>1. PICK r \in Replies, next \in {"advance", "rollback"} : Statement(c, r, next, new, "stage")
    BY <1>5 DEF CreateStage
  <2>2. pc[c] = "create_stage" /\ op' = op
    BY <1>5 DEF CreateStage
  <2>3. Decides(c) \/ op[c].kind = "create"
    BY <1>0, <2>2 DEF SnapshotPinned
  <2>4. \/ pc'[c] \in {"advance", "rollback"} /\ undo'[c] = undo[c] \cup new
        \/ /\ pc'[c] = IF undo[c] = {} THEN "failed" ELSE "rollback"
           /\ undo'[c] = undo[c]
    BY <1>0, <2>1, StatementFrame, StatementLeaves
  <2> QED BY <1>0, <2>2, <2>3, <2>4 DEF Registers, Decides
<1>6. CASE SetCurrentStage(c)
  <2> DEFINE new == IF op[c].kind = "create" THEN {} ELSE {"request"}
  <2>1. PICK r \in Replies : Statement(c, r, "audit", new, "request")
    BY <1>6 DEF SetCurrentStage
  <2>2. pc[c] = "advance" /\ op' = op
    BY <1>6 DEF SetCurrentStage
  <2>3. Decides(c) \/ op[c].kind = "create"
    BY <1>0, <2>2 DEF SnapshotPinned
  <2>4. \/ pc'[c] = "audit" /\ undo'[c] = undo[c] \cup new
        \/ /\ pc'[c] = IF undo[c] = {} THEN "failed" ELSE "rollback"
           /\ undo'[c] = undo[c]
    BY <1>0, <2>1, StatementFrame, StatementLeaves
  <2> QED BY <1>0, <2>2, <2>3, <2>4 DEF Registers, Decides
<1>7. CASE EscalateStage(c) \/ UpdateFields(c) \/ SoftDelete(c)
  <2>1. /\ op' = op
        /\ \E r \in Replies :
            \/ pc[c] = "escalate" /\ Statement(c, r, "audit", {"assignment"}, "assignment")
            \/ pc[c] = "edit" /\ Statement(c, r, "done", {}, "edit")
            \/ pc[c] = "withdraw" /\ Statement(c, r, "audit", {}, "withdrawal")
    BY <1>7 DEF EscalateStage, UpdateFields, SoftDelete
  <2>2. \/ pc[c] = "escalate" /\ pc'[c] = "audit" /\ undo'[c] = {"assignment"}
        \/ pc[c] = "edit" /\ pc'[c] = "done" /\ undo'[c] = {}
        \/ pc[c] = "withdraw" /\ pc'[c] = "audit" /\ undo'[c] = {}
        \/ pc'[c] = "failed" /\ undo'[c] = {}
    BY <1>0, <2>1, StatementFrame, StatementLeaves DEF Registers
  <2> QED BY <1>0, <2>1, <2>2 DEF Registers, Decides
<1>8. CASE RecordEvent(c)
  <2>1. /\ pc[c] = "audit" /\ op' = op
        /\ \/ \E remaining : Raise(c, remaining)
           \/ Commit(c, "done")
           \/ Commit(c, "notify") /\ op[c].kind \notin {"escalate", "withdraw"}
    BY <1>8 DEF RecordEvent
  <2>2. ASSUME NEW next, Commit(c, next) PROVE pc'[c] = next /\ undo'[c] = {}
    BY <1>0, <2>2 DEF Commit, TypeOK
  <2>3. ASSUME NEW remaining, Raise(c, remaining) PROVE Registers(c)'
    BY <1>0, <2>1, <2>3, RaiseFrame, RaiseLeaves DEF Registers
  <2> QED BY <1>0, <2>1, <2>2, <2>3 DEF Registers
<1>9. CASE Notify(c) \/ Crash(c)
  <2>1. pc'[c] \in {"done", "failed", "crashed"} /\ undo'[c] = {}
    BY <1>0, <1>9 DEF Notify, Crash, TypeOK, Registers
  <2> QED BY <2>1 DEF Registers
<1>10. CASE \/ RestoreRequest(c) \/ DeleteIfUnchanged(c) \/ RevertToPending(c)
            \/ RestoreAssignment(c) \/ DeleteCreated(c)
  <2>1. \E r \in Replies :
            \/ Turn(c, 5) /\ Compensate(c, r, "request")
            \/ Turn(c, 4) /\ Compensate(c, r, "stage")
            \/ Turn(c, 3) /\ Compensate(c, r, "decision")
            \/ Turn(c, 2) /\ Compensate(c, r, "assignment")
            \/ Turn(c, 1) /\ Compensate(c, r, "insert")
    BY <1>10 DEF RestoreRequest, DeleteIfUnchanged, RevertToPending, RestoreAssignment, DeleteCreated
  <2>2. PICK effect \in {"request", "stage", "decision", "assignment", "insert"} :
            /\ \E r : Compensate(c, r, effect)
            /\ effect = "stage" => "request" \notin undo[c]
            /\ effect = "decision" => "stage" \notin undo[c] /\ "request" \notin undo[c]
    BY <2>1 DEF Turn, Registered
  <2>3. /\ undo'[c] = undo[c] \ {effect} /\ op' = op
        /\ pc'[c] = IF undo[c] = {effect} THEN "failed" ELSE "rollback"
    BY <1>0, <2>2, CompensateFrame, CompensateLeaves
  <2> QED BY <1>0, <2>2, <2>3 DEF Registers
<1> QED BY <1>1, <1>2, <1>3, <1>4, <1>5, <1>6, <1>7, <1>8, <1>9, <1>10 DEF Step

-----------------------------------------------------------------------------
(* What a step does to the stages: nothing but assignments and versions,   *)
(* or one of four writes on one row.                                       *)

Keeps(o) ==
    /\ stage'[o].id = stage[o].id /\ stage'[o].status = stage[o].status
    /\ stage'[o].decided_by = stage[o].decided_by

Decision(c, o) ==
    /\ pc[c] = "decide" /\ o = op[c].order /\ stage[o].status = PENDING
    /\ stage'[o].id = stage[o].id /\ stage'[o].status = Verdict(c) /\ stage'[o].decided_by = c
    /\ left'[c] = {} => "decision" \in undo'[c]

Creation(c, o) ==
    /\ pc[c] = "create_stage" /\ o = NewOrder(c) /\ stage[o].id = None
    /\ stage'[o].id = c /\ stage'[o].status = PENDING /\ stage'[o].decided_by = None
    /\ left'[c] = {} /\ op[c].kind # "create" => "stage" \in undo'[c]

Deletion(c, o) ==
    /\ pc[c] = "rollback" /\ "stage" \in undo[c] /\ undo'[c] = undo[c] \ {"stage"}
    /\ o = NewOrder(c) /\ stage[o].id = c /\ stage[o].decided_by = None
    /\ stage'[o].id = None /\ stage'[o].status = "none" /\ stage'[o].decided_by = None

Reversal(c, o) ==
    /\ pc[c] = "rollback" /\ "decision" \in undo[c] /\ "stage" \notin undo[c]
    /\ undo'[c] = undo[c] \ {"decision"}
    /\ o = op[c].order /\ stage[o].decided_by = c
    /\ stage'[o].id = stage[o].id /\ stage'[o].status = PENDING /\ stage'[o].decided_by = None

Writes(c, o) == Decision(c, o) \/ Creation(c, o) \/ Deletion(c, o) \/ Reversal(c, o)

LEMMA StepRows ==
    ASSUME OutcomeInv, NEW c \in Calls, Step(c)
    PROVE  \E o \in Orders : /\ \A p \in Orders \ {o} : Keeps(p)
                             /\ Keeps(o) \/ (Writes(c, o) /\ op' = op)
<1>0. /\ TypeOK /\ CallWellFormed(c) /\ RowsWellFormed /\ DecisionPinned /\ DecisionStands
      /\ 1 \in Orders /\ \A o \in Orders : stage[o] \in Row
  BY StageAssumption DEF OutcomeInv, DecisionInv, CallsWellFormed, Orders, TypeOK
<1>a. ASSUME \A p \in Orders : Keeps(p)
      PROVE  \E o \in Orders : (\A p \in Orders \ {o} : Keeps(p)) /\ Keeps(o)
  BY <1>0, <1>a, Zenon
<1>1. CASE stage' = stage
  <2>1. \A p \in Orders : Keeps(p)
    BY <1>1 DEF Keeps
  <2> QED BY <1>a, <2>1
<1>2. CASE DecideStage(c)
  <2> DEFINE o == op[c].order
  <2>1. PICK r \in Replies :
          /\ Reply(r, stage[o].id = op[c].row /\ stage[o].version = VersionToUse(c))
          /\ stage' = IF Applied(r)
                      THEN [stage EXCEPT ![o] = Decided(@, Verdict(c), c)] ELSE stage
          /\ Statement(c, r, "read_request", {"decision"}, "decision")
    BY <1>2 DEF DecideStage
  <2>2. o \in Orders /\ op' = op /\ pc[c] = "decide"
    BY <1>0, <1>2 DEF DecideStage, CallWellFormed
  <2>3. CASE Applied(r)
    <3>1. stage[o].id = op[c].row /\ stage[o].version = VersionToUse(c)
      BY <2>1, <2>3, ReplyApplied
    <3>2. stage[o].status = PENDING
      BY <1>0, <2>2, <3>1 DEF DecisionPinned
    <3>3. /\ stage'[o] = Decided(stage[o], Verdict(c), c)
          /\ \A p \in Orders \ {o} : stage'[p] = stage[p]
      BY <1>0, <2>1, <2>2, <2>3 DEF TypeOK
    <3>4. left'[c] = {} => "decision" \in undo'[c]
      BY <1>0, <2>1, <2>3, StatementFrame, StatementLeaves DEF Applied
    <3>5. Decision(c, o)
      BY <1>0, <2>2, <3>2, <3>3, <3>4, DecidedRow, VerdictType DEF Decision
    <3> QED BY <2>2, <3>3, <3>5 DEF Keeps, Writes
  <2>4. CASE ~Applied(r)
    BY <1>1, <2>1, <2>4
  <2> QED BY <2>3, <2>4
<1>3. CASE CreateStage(c)
  <2> DEFINE o == NewOrder(c)
             new == IF op[c].kind = "create" THEN {} ELSE {"stage"}
  <2>1. PICK r \in Replies, next \in {"advance", "rollback"} :
          /\ Reply(r, ~Exists(o))
          /\ stage' = IF Applied(r) THEN [stage EXCEPT ![o] = NewStage(c, o)] ELSE stage
          /\ Statement(c, r, next, new, "stage")
    BY <1>3 DEF CreateStage
  <2>2. o \in Orders /\ op' = op /\ pc[c] = "create_stage"
    BY <1>0, <1>3 DEF CreateStage, CallWellFormed
  <2>3. CASE Applied(r)
    <3>1. stage[o].id = None
      BY <2>1, <2>3, ReplyApplied DEF Exists
    <3>2. stage'[o] = NewStage(c, o) /\ \A p \in Orders \ {o} : stage'[p] = stage[p]
      BY <1>0, <2>1, <2>2, <2>3 DEF TypeOK
    <3>3. left'[c] = {} /\ op[c].kind # "create" => "stage" \in undo'[c]
      BY <1>0, <2>1, <2>3, StatementFrame, StatementLeaves DEF Applied
    <3>4. Creation(c, o)
      BY <2>2, <3>1, <3>2, <3>3, NewStageRow DEF Creation
    <3> QED BY <2>2, <3>2, <3>4 DEF Keeps, Writes
  <2>4. CASE ~Applied(r)
    BY <1>1, <2>1, <2>4
  <2> QED BY <2>3, <2>4
<1>4. CASE DeleteIfUnchanged(c)
  <2> DEFINE o == NewOrder(c)
  <2>1. PICK r \in Replies :
          /\ Reply(r, CreatedStageUnchanged(c) /\ request.current # c)
          /\ stage' = IF Applied(r) THEN [stage EXCEPT ![o] = NoRow] ELSE stage
          /\ Compensate(c, r, "stage")
    BY <1>4 DEF DeleteIfUnchanged
  <2>2. /\ o \in Orders /\ pc[c] = "rollback" /\ "stage" \in undo[c]
        /\ op' = op /\ undo'[c] = undo[c] \ {"stage"}
    BY <1>0, <1>4, <2>1, CompensateFrame DEF DeleteIfUnchanged, Turn, Registered, CallWellFormed
  <2>3. CASE Applied(r)
    <3>1. stage[o].id = c /\ stage[o].version = 1
      BY <2>1, <2>3, ReplyApplied DEF CreatedStageUnchanged
    <3>2. stage[o].decided_by = None
      BY <1>0, <2>2, <3>1 DEF RowsWellFormed
    <3>3. stage'[o] = NoRow /\ \A p \in Orders \ {o} : stage'[p] = stage[p]
      BY <1>0, <2>1, <2>2, <2>3 DEF TypeOK
    <3>4. Deletion(c, o)
      BY <2>2, <3>1, <3>2, <3>3, NoRowType DEF Deletion
    <3> QED BY <2>2, <3>3, <3>4 DEF Keeps, Writes
  <2>4. CASE ~Applied(r)
    BY <1>1, <2>1, <2>4
  <2> QED BY <2>3, <2>4
<1>5. CASE RevertToPending(c)
  <2> DEFINE o == op[c].order
  <2>1. PICK r \in Replies :
          /\ stage' = IF Applied(r) THEN [stage EXCEPT ![o] = Reverted(@)] ELSE stage
          /\ Compensate(c, r, "decision")
    BY <1>5 DEF RevertToPending
  <2>2. /\ pc[c] = "rollback" /\ "decision" \in undo[c] /\ "stage" \notin undo[c]
        /\ op' = op /\ undo'[c] = undo[c] \ {"decision"}
    BY <1>0, <1>5, <2>1, CompensateFrame DEF RevertToPending, Turn, Registered
  <2>3. o \in Orders /\ stage[o].decided_by = c
    BY <1>0, <2>2 DEF CallWellFormed, DecisionStands, DecisionInForce
  <2>4. CASE Applied(r)
    <3>1. stage'[o] = Reverted(stage[o]) /\ \A p \in Orders \ {o} : stage'[p] = stage[p]
      BY <1>0, <2>1, <2>3, <2>4 DEF TypeOK
    <3>2. Reversal(c, o)
      BY <1>0, <2>2, <2>3, <3>1, RevertedRow DEF Reversal
    <3> QED BY <2>2, <2>3, <3>1, <3>2 DEF Keeps, Writes
  <2>5. CASE ~Applied(r)
    BY <1>1, <2>1, <2>5
  <2> QED BY <2>4, <2>5
<1>6. CASE EscalateStage(c) \/ RestoreAssignment(c)
  <2> DEFINE o == op[c].order
  <2>1. o \in Orders
    BY <1>0, <1>6 DEF EscalateStage, RestoreAssignment, Turn, Registered, CallWellFormed
  <2>2. PICK to \in Users \cup {None}, role \in UserRole \cup {None} :
          stage' \in {stage, [stage EXCEPT ![o] = Reassigned(@, to, role)]}
    <3>1. /\ ADMIN \in UserRole
          /\ seen[c].assigned_to \in Users \cup {None}
          /\ seen[c].assigned_role \in UserRole \cup {None}
      BY <1>0, RowFields DEF TypeOK, ADMIN, UserRole
    <3> QED BY <1>6, <3>1 DEF EscalateStage, RestoreAssignment
  <2>3. CASE stage' = [stage EXCEPT ![o] = Reassigned(@, to, role)]
    <3>1. /\ stage'[o] = Reassigned(stage[o], to, role)
          /\ \A p \in Orders \ {o} : stage'[p] = stage[p]
      BY <1>0, <2>1, <2>3 DEF TypeOK
    <3>2. \A p \in Orders : Keeps(p)
      BY <1>0, <2>1, <3>1, ReassignedRow DEF Keeps
    <3> QED BY <1>a, <3>2
  <2> QED BY <1>1, <2>2, <2>3
<1>7. CASE \/ CreateRequest(c) \/ ReadStage(c) \/ ReadRequest(c) \/ PlanNextStage(c)
           \/ SetCurrentStage(c) \/ RecordEvent(c) \/ Notify(c) \/ DiscoverStage(c)
           \/ EscalateRead(c) \/ ReadOwnRequest(c) \/ UpdateFields(c) \/ SoftDelete(c)
           \/ RestoreRequest(c) \/ DeleteCreated(c) \/ Crash(c)
  <2>1. stage' = stage
    BY <1>7 DEF CreateRequest, ReadStage, ReadRequest, PlanNextStage, SetCurrentStage, RecordEvent,
                Notify, DiscoverStage, EscalateRead, ReadOwnRequest, UpdateFields, SoftDelete,
                RestoreRequest, DeleteCreated, Crash, db
  <2> QED BY <1>1, <2>1
<1> QED BY <1>2, <1>3, <1>4, <1>5, <1>6, <1>7 DEF Step

-----------------------------------------------------------------------------
(* The authors of rows and notifications.                                  *)

\* A call that adds a stage comes to set_current_stage by creating it.
LEMMA GoesOnWithItsStage ==
    ASSUME OutcomeInv, NEW c \in Calls, Registers(c), Step(c), AddsStage(c)',
           pc'[c] \in {"advance", "audit", "notify", "done"}
    PROVE  /\ op' = op
           /\ pc[c] \in {"advance", "audit", "notify"} \/ stage'[NewOrder(c)].id = c
<1>0. /\ TypeOK /\ CallWellFormed(c) /\ SnapshotPinned(c)
      /\ op' = op => (AddsStage(c)' <=> AddsStage(c))
  BY SameArguments DEF OutcomeInv, DecisionInv, CallsWellFormed, SnapshotsPinned
<1>1. CASE CreateRequest(c)
  <2>1. PICK r \in Replies : Statement(c, r, "create_stage", {"insert"}, "insert")
    BY <1>1 DEF CreateRequest
  <2> QED BY <1>0, <2>1, StatementFrame
<1>2. CASE ReadStage(c) \/ DiscoverStage(c) \/ EscalateRead(c) \/ ReadOwnRequest(c) \/ Crash(c)
  <2>1. pc'[c] \in {"replayed", "decide", "failed", "edit", "withdraw", "escalate_read", "escalate",
                    "crashed"}
    BY <1>0, <1>2, SMTT(60)
       DEF ReadStage, DiscoverStage, EscalateRead, ReadOwnRequest, Crash, TypeOK
  <2> QED BY <2>1
<1>3. CASE ReadRequest(c) \/ PlanNextStage(c)
  <2>1. /\ op' = op
        /\ \/ Raise(c, {})
           \/ Proceed(c, "plan", {})
           \/ Proceed(c, "create_stage", {})
           \/ Proceed(c, "advance", {}) /\ (op[c].kind = "reject" \/ ~AddsStage(c))
    BY <1>3 DEF ReadRequest, PlanNextStage
  <2>2. AddsStage(c) /\ op[c].kind # "reject"
    BY <1>0, <2>1 DEF AddsStage
  <2>3. ASSUME NEW next \in {"plan", "create_stage"}, Proceed(c, next, {}) PROVE pc'[c] = next
    BY <1>0, <2>3, ProceedFrame
  <2>4. Raise(c, {}) => pc'[c] \in {"failed", "rollback"}
    BY <1>0, RaiseFrame
  <2> QED BY <2>1, <2>2, <2>3, <2>4
<1>4. CASE DecideStage(c)
  <2>1. PICK r \in Replies : Statement(c, r, "read_request", {"decision"}, "decision")
    BY <1>4 DEF DecideStage
  <2> QED BY <1>0, <2>1, StatementFrame
<1>5. CASE CreateStage(c)
  <2> DEFINE o == NewOrder(c)
  <2>1. PICK r, next, new :
          /\ stage' = IF Applied(r) THEN [stage EXCEPT ![o] = NewStage(c, o)] ELSE stage
          /\ Statement(c, r, next, new, "stage")
    BY <1>5, Zenon DEF CreateStage
  <2>2. o \in Orders /\ op' = op
    BY <1>0, <1>5 DEF CreateStage, CallWellFormed
  <2>3. Applied(r)
    BY <1>0, <2>1, StatementFrame DEF Applied
  <2>4. stage'[o] = NewStage(c, o)
    BY <1>0, <2>1, <2>2, <2>3 DEF TypeOK
  <2> QED BY <2>2, <2>4, NewStageRow
<1>6. CASE EscalateStage(c) \/ UpdateFields(c) \/ SoftDelete(c)
  <2>1. op' = op /\ op[c].kind \in {"escalate", "edit", "withdraw"}
    BY <1>6 DEF EscalateStage, UpdateFields, SoftDelete, Registers
  <2> QED BY <1>0, <2>1 DEF AddsStage
<1>7. CASE SetCurrentStage(c) \/ RecordEvent(c) \/ Notify(c)
  BY <1>7 DEF SetCurrentStage, RecordEvent, Notify
<1>8. CASE \/ RestoreRequest(c) \/ DeleteIfUnchanged(c) \/ RevertToPending(c)
           \/ RestoreAssignment(c) \/ DeleteCreated(c)
  <2>1. PICK r, effect : Compensate(c, r, effect)
    BY <1>8, Zenon
       DEF RestoreRequest, DeleteIfUnchanged, RevertToPending, RestoreAssignment, DeleteCreated
  <2> QED BY <1>0, <2>1, CompensateFrame
<1> QED BY <1>1, <1>2, <1>3, <1>4, <1>5, <1>6, <1>7, <1>8 DEF Step

LEMMA AuthorStep ==
    ASSUME OutcomeInv, AuthorInv, NEW c \in Calls, Step(c)
    PROVE  AuthorInv'
<1>0. /\ TypeOK /\ SnapshotPinned(c) /\ CallWellFormed(c) /\ Registers(c) /\ RowsWellFormed
      /\ OthersKeep(c) /\ pc[c] \notin Ended
      /\ op' = op \/ pc[c] = "idle"
      /\ \A o \in Orders : stage[o].id \in Calls \cup {None}
                           /\ stage[o].decided_by \in Calls \cup {None}
  BY StepFrame DEF OutcomeInv, DecisionInv, SnapshotsPinned, CallsWellFormed, AuthorInv, TypeOK, Row
<1>1. ASSUME NEW d \in Calls, Decides(d) \/ AddsStage(d) PROVE op'[d] = op[d]
  BY <1>0, <1>1 DEF SnapshotPinned, OthersKeep, Decides, AddsStage
<1>2. ASSUME NEW d \in Calls PROVE Registers(d)'
  <2>1. CASE d = c
    BY <1>0, <2>1, RegistersStep
  <2>2. CASE d # c
    <3>1. pc'[d] = pc[d] /\ undo'[d] = undo[d] /\ op'[d] = op[d] /\ Registers(d)
      BY <1>0, <2>2 DEF OthersKeep, AuthorInv
    <3> QED BY <3>1, SameArguments DEF Registers
  <2> QED BY <2>1, <2>2
<1>3. PICK o \in Orders : /\ \A p \in Orders \ {o} : Keeps(p)
                          /\ Keeps(o) \/ (Writes(c, o) /\ op' = op)
  BY StepRows
<1>4. ASSUME NEW p \in Orders PROVE RowHasAuthors(p)'
  <2>1. RowHasAuthors(p)
    BY DEF AuthorInv
  <2>2. CASE Keeps(p)
    BY <1>0, <1>1, <2>1, <2>2, SameArguments DEF Keeps, RowHasAuthors
  <2>3. CASE p = o /\ Writes(c, o) /\ op' = op
    <3>1. CASE Decision(c, o)
      <4>1. Decides(c) /\ stage[o].id # None
        BY <1>0, <2>3, <3>1 DEF Decision, CallWellFormed, RowsWellFormed
      <4>2. PICK d \in Calls : d = stage[o].id /\ AddsStage(d)' /\ NewOrder(d)' = o
        BY <1>0, <2>1, <2>3, <4>1, SameArguments DEF RowHasAuthors
      <4>3. Decides(c)' /\ op'[c].order = o /\ Verdict(c)' = Verdict(c)
        BY <2>3, <3>1, <4>1, SameArguments DEF Decision
      <4> QED BY <2>3, <3>1, <4>1, <4>2, <4>3, NoneAssumption DEF Decision, RowHasAuthors
    <3>2. CASE Creation(c, o)
      BY <1>0, <2>3, <3>2, SameArguments, NoneAssumption DEF Creation, RowHasAuthors, Registers
    <3>3. CASE Deletion(c, o)
      BY <2>3, <3>3 DEF Deletion, RowHasAuthors
    <3>4. CASE Reversal(c, o)
      <4>1. stage[o].id # None
        BY <1>0, <3>4, NoneAssumption DEF Reversal, RowsWellFormed
      <4> QED BY <1>0, <1>1, <2>1, <2>3, <3>4, <4>1, SameArguments DEF Reversal, RowHasAuthors
    <3> QED BY <2>3, <3>1, <3>2, <3>3, <3>4 DEF Writes
  <2> QED BY <1>3, <2>2, <2>3
<1>5. ASSUME NEW d \in Calls PROVE CreatedStays(d)'
  <2> SUFFICES ASSUME AddsStage(d)', pc'[d] \in {"advance", "audit", "notify", "done"}
               PROVE  stage'[NewOrder(d)'].id = d
    BY DEF CreatedStays
  <2>1. /\ op'[d] = op[d]
        /\ \/ d = c /\ stage'[NewOrder(c)].id = c
           \/ pc[d] \in {"advance", "audit", "notify", "done"} /\ (d = c => pc[c] # "rollback")
    <3>1. CASE d = c
      BY <1>0, <3>1, GoesOnWithItsStage
    <3>2. CASE d # c
      BY <1>0, <3>2 DEF OthersKeep
    <3> QED BY <3>1, <3>2
  <2>2. AddsStage(d) /\ NewOrder(d)' = NewOrder(d)
    BY <2>1, SameArguments
  <2>3. CASE pc[d] \in {"advance", "audit", "notify", "done"} /\ (d = c => pc[c] # "rollback")
    <3>1. stage[NewOrder(d)].id = d
      BY <2>2, <2>3 DEF AuthorInv, CreatedStays
    <3>2. NewOrder(d) \in Orders
      BY <1>0, <2>2, AddedOrder DEF OutcomeInv, DecisionInv, CallsWellFormed
    <3>3. Keeps(NewOrder(d)) \/ (o = NewOrder(d) /\ Writes(c, o))
      BY <1>3, <3>2
    <3>4. stage'[NewOrder(d)].id = d
      BY <2>3, <3>1, <3>3, NoneAssumption
         DEF Keeps, Writes, Decision, Creation, Deletion, Reversal
    <3> QED BY <2>2, <3>4
  <2> QED BY <2>1, <2>2, <2>3
<1>6. NoticesBacked'
  <2>1. ASSUME NEW n \in notices
        PROVE  /\ pc'[n.call] = "done" /\ (Decides(n.call)' \/ op'[n.call].kind = "create")
               /\ n.kind = IF AddsStage(n.call)' THEN "assignment"
                           ELSE IF op'[n.call].kind = "reject" THEN "decision" ELSE "completion"
    <3>1. n.call \in Calls /\ pc[n.call] = "done"
      BY <1>0 DEF TypeOK, AuthorInv, NoticesBacked
    <3>2. pc'[n.call] = "done" /\ op'[n.call] = op[n.call]
      BY <1>0, <3>1 DEF OthersKeep, Ended
    <3> QED BY <3>1, <3>2, SameArguments DEF AuthorInv, NoticesBacked
  <2>2. CASE notices' = notices
    BY <2>1, <2>2 DEF NoticesBacked
  <2>3. CASE notices' # notices
    <3>1. pc[c] = "notify"
      BY <1>0, <2>3, StepFrame
    <3>2. Notify(c)
      BY <3>1 DEF Step, CreateRequest, ReadStage, DecideStage, ReadRequest, PlanNextStage, CreateStage,
                  SetCurrentStage, RecordEvent, DiscoverStage, EscalateRead, EscalateStage,
                  ReadOwnRequest, UpdateFields, SoftDelete, RestoreRequest, DeleteIfUnchanged,
                  RevertToPending, RestoreAssignment, DeleteCreated, Crash, Turn, Running
    <3>3. DEFINE kind == IF AddsStage(c) THEN "assignment"
                         ELSE IF op[c].kind = "reject" THEN "decision" ELSE "completion"
    <3>4. /\ notices' = notices \cup {[kind |-> kind, call |-> c]}
          /\ pc'[c] = "done" /\ op' = op
      BY <1>0, <2>3, <3>2 DEF Notify, TypeOK
    <3>5. Decides(c) \/ op[c].kind = "create"
      BY <1>0, <3>1 DEF Registers
    <3> QED BY <2>1, <3>4, <3>5, SameArguments DEF NoticesBacked
  <2> QED BY <2>2, <2>3
<1>7. OneCreates'
  <2>1. CASE op' = op
    BY <2>1 DEF AuthorInv, OneCreates
  <2>2. CASE CreateRequest(c)
    BY <1>0, <2>2 DEF CreateRequest, OthersKeep, OneCreates
  <2>3. CASE ReadStage(c) \/ DiscoverStage(c) \/ ReadOwnRequest(c)
    <3>1. op'[c].kind # "create"
      BY <1>0, <2>3, SMTT(60) DEF ReadStage, DiscoverStage, ReadOwnRequest, TypeOK, Args
    <3> QED BY <1>0, <3>1 DEF OthersKeep, AuthorInv, OneCreates
  <2>4. pc[c] = "idle" => CreateRequest(c) \/ ReadStage(c) \/ DiscoverStage(c) \/ ReadOwnRequest(c)
    BY DEF Step, DecideStage, ReadRequest, PlanNextStage, CreateStage, SetCurrentStage, RecordEvent,
           Notify, EscalateRead, EscalateStage, UpdateFields, SoftDelete, RestoreRequest,
           DeleteIfUnchanged, RevertToPending, RestoreAssignment, DeleteCreated, Crash, Turn, Running
  <2> QED BY <1>0, <2>1, <2>2, <2>3, <2>4
<1> QED BY <1>2, <1>4, <1>5, <1>6, <1>7 DEF AuthorInv

LEMMA InitAuthor == Init => AuthorInv
BY NoneAssumption
   DEF Init, AuthorInv, Registers, CreatedStays, RowHasAuthors, NoticesBacked, OneCreates, Decides,
       AddsStage, NoOp, Args, NoRow

\* The invariant of authorship is inductive together with that of the outcome.
LEMMA NextAuthor == OutcomeInv /\ AuthorInv /\ [Next]_vars => AuthorInv'
<1> SUFFICES ASSUME OutcomeInv, AuthorInv, [Next]_vars PROVE AuthorInv'
  OBVIOUS
<1>1. CASE UNCHANGED vars
  BY <1>1 DEF vars, AuthorInv, Registers, CreatedStays, RowHasAuthors, NoticesBacked, OneCreates,
              Decides, AddsStage, NewOrder, Verdict
<1>2. ASSUME NEW c \in Calls, Step(c) PROVE AuthorInv'
  BY <1>2, AuthorStep
<1> QED BY <1>1, <1>2 DEF Next

\* No notification announces what is not so: an announced stage is there and
\* stays, an announced rejection or completion is the request's status
\* (_dispatch_post_decision_notifications, create_request).
THEOREM NoticesAreTrue == Spec => []NoticesTrue
<1>1. OutcomeInv /\ AuthorInv => NoticesTrue
  <2> SUFFICES ASSUME OutcomeInv, AuthorInv, NEW n \in notices
               PROVE  CASE n.kind = "assignment" -> \E o \in Orders : stage[o].id = n.call
                        [] n.kind = "decision"   -> request.status = REJECTED
                        [] n.kind = "completion" -> request.status = COMPLETED
    BY DEF NoticesTrue
  <2> DEFINE c == n.call
  <2>1. /\ c \in Calls /\ pc[c] = "done" /\ (Decides(c) \/ op[c].kind = "create")
        /\ n.kind = IF AddsStage(c) THEN "assignment"
                    ELSE IF op[c].kind = "reject" THEN "decision" ELSE "completion"
    BY DEF OutcomeInv, DecisionInv, TypeOK, AuthorInv, NoticesBacked
  <2>2. CASE AddsStage(c)
    <3>1. NewOrder(c) \in Orders /\ stage[NewOrder(c)].id = c
      BY <2>1, <2>2, AddedOrder
         DEF AuthorInv, CreatedStays, OutcomeInv, DecisionInv, CallsWellFormed
    <3> QED BY <2>1, <2>2, <3>1
  <2>3. CASE ~AddsStage(c)
    <3>1. Decides(c) /\ request.status = TargetStatus(c)
      BY <2>1, <2>3 DEF AddsStage, OutcomeInv, OutcomeStands, OutcomeInForce
    <3> QED BY <2>1, <2>3, <3>1 DEF TargetStatus, Decides
  <2> QED BY <2>2, <2>3
<1> QED BY <1>1, InitOutcome, NextOutcome, InitAuthor, NextAuthor, PTL DEF Spec

-----------------------------------------------------------------------------
(* The chain of stages.                                                    *)

\* An effect is in force from its statement until it is compensated.
Holds(c, effect) == effect \in undo[c] \/ Committed(c)

\* Before a stage that exists every stage is approved.
PredecessorsApproved ==
    \A o, p \in Orders : o < p /\ Exists(p) => stage[o].status = APPROVED

\* A stage that is there, except the first, is one its creator has not given up.
StagesHeld ==
    \A o \in Orders : Exists(o) /\ op[stage[o].id].kind # "create" => Holds(stage[o].id, "stage")

\* A decision that is there is one its call has not given up.
DecisionsHeld ==
    \A o \in Orders : stage[o].decided_by # None => DecisionInForce(stage[o].decided_by)

\* The invariant behind AtMostOnePending: while no failed call has left
\* anything behind, the stages form a chain.
ChainInv == NothingLeft => PredecessorsApproved /\ StagesHeld /\ DecisionsHeld

\* While nothing is left behind, what a call gives up it has undone.
LEMMA GivenUpIsUndone ==
    ASSUME OutcomeInv, NEW c \in Calls, Registers(c), Step(c), left'[c] = {}
    PROVE  /\ Holds(c, "stage") =>
                op' = op /\ (Holds(c, "stage")' \/ stage'[NewOrder(c)].id = None)
           /\ DecisionInForce(c) =>
                op' = op /\ (DecisionInForce(c)' \/ stage'[op[c].order].decided_by = None)
<1>0. /\ TypeOK /\ CallWellFormed(c) /\ SnapshotPinned(c)
      /\ op' = op \/ pc[c] = "idle"
      /\ op' = op => (Decides(c)' <=> Decides(c))
      /\ \A o \in Orders : stage[o] \in Row
  BY StepFrame, SameArguments
     DEF OutcomeInv, DecisionInv, CallsWellFormed, SnapshotsPinned, TypeOK
<1>1. /\ Holds(c, "stage") => pc[c] # "idle" /\ ("stage" \in undo[c] \/ pc[c] = "notify")
      /\ DecisionInForce(c) => pc[c] # "idle" /\ Decides(c)
                               /\ ("decision" \in undo[c] \/ pc[c] = "notify")
  BY <1>0, StepFrame DEF Holds, DecisionInForce, Committed, Registers, SnapshotPinned, Decides, Ended
<1>2. ASSUME undo[c] \subseteq undo'[c] \/ pc'[c] \in {"notify", "done"}, pc[c] # "notify"
      PROVE  /\ Holds(c, "stage") => Holds(c, "stage")'
             /\ DecisionInForce(c) => DecisionInForce(c)'
  BY <1>0, <1>1, <1>2 DEF Holds, DecisionInForce, Committed
<1>3. CASE \/ CreateRequest(c) \/ ReadStage(c) \/ DiscoverStage(c) \/ ReadOwnRequest(c)
  BY <1>1, <1>3 DEF CreateRequest, ReadStage, DiscoverStage, ReadOwnRequest
<1>4. CASE \/ DecideStage(c) \/ CreateStage(c) \/ SetCurrentStage(c) \/ EscalateStage(c)
           \/ UpdateFields(c) \/ SoftDelete(c)
  <2>1. pc[c] \notin {"idle", "notify"} /\ \E r, next, new, effect : Statement(c, r, next, new, effect)
    BY <1>4, Zenon
       DEF DecideStage, CreateStage, SetCurrentStage, EscalateStage, UpdateFields, SoftDelete
  <2> QED BY <1>0, <1>2, <2>1, StatementFrame
<1>5. CASE ReadRequest(c) \/ PlanNextStage(c)
  <2>1. /\ pc[c] \notin {"idle", "notify"}
        /\ Raise(c, {}) \/ \E next \in {"plan", "advance", "create_stage"} : Proceed(c, next, {})
    BY <1>5 DEF ReadRequest, PlanNextStage
  <2> QED BY <1>0, <1>2, <2>1, RaiseFrame, ProceedFrame
<1>6. CASE RecordEvent(c)
  <2>1. /\ pc[c] = "audit"
        /\ \/ \E remaining : Raise(c, remaining)
           \/ Commit(c, "done") \/ Commit(c, "notify")
    BY <1>6 DEF RecordEvent
  <2>2. ASSUME NEW next \in {"done", "notify"}, Commit(c, next) PROVE pc'[c] \in {"notify", "done"}
    BY <1>0, <2>2 DEF Commit, TypeOK
  <2> QED BY <1>0, <1>2, <2>1, <2>2, RaiseFrame
<1>7. CASE Notify(c)
  <2>1. op' = op /\ (\/ pc' = [pc EXCEPT ![c] = "done"]
                     \/ left' = [left EXCEPT ![c] = @ \cup {"insert"}])
    BY <1>7 DEF Notify
  <2>2. pc'[c] = "done"
    BY <1>0, <2>1 DEF TypeOK
  <2> QED BY <1>0, <1>1, <2>1, <2>2 DEF Holds, DecisionInForce, Committed
<1>8. CASE EscalateRead(c)
  BY <1>0, <1>2, <1>8 DEF EscalateRead
<1>9. CASE Crash(c)
  <2>1. undo[c] = {} /\ pc[c] # "notify"
    BY <1>0, <1>9 DEF Crash, TypeOK, Running
  <2> QED BY <1>1, <2>1
<1>10. CASE RestoreRequest(c) \/ RestoreAssignment(c) \/ DeleteCreated(c)
  <2>1. /\ pc[c] = "rollback"
        /\ \E r \in Replies : \/ Compensate(c, r, "request")
                               \/ Compensate(c, r, "assignment")
                               \/ Compensate(c, r, "insert")
    BY <1>10 DEF RestoreRequest, RestoreAssignment, DeleteCreated, Turn
  <2>2. /\ "stage" \in undo[c] => "stage" \in undo'[c]
        /\ "decision" \in undo[c] => "decision" \in undo'[c]
    BY <1>0, <2>1, CompensateFrame
  <2> QED BY <1>0, <1>1, <2>1, <2>2 DEF Holds, DecisionInForce
<1>11. CASE DeleteIfUnchanged(c)
  <2> DEFINE o == NewOrder(c)
  <2>1. PICK r \in Replies :
          /\ stage' = IF Applied(r) THEN [stage EXCEPT ![o] = NoRow] ELSE stage
          /\ Compensate(c, r, "stage")
    BY <1>11 DEF DeleteIfUnchanged
  <2>2. /\ o \in Orders /\ pc[c] = "rollback" /\ op' = op /\ undo'[c] = undo[c] \ {"stage"}
        /\ Applied(r)
    BY <1>0, <1>11, <2>1, CompensateFrame, CompensateLeaves
       DEF DeleteIfUnchanged, Turn, Registered, CallWellFormed
  <2>3. stage'[o].id = None
    BY <1>0, <2>1, <2>2, NoRowType DEF TypeOK
  <2> QED BY <1>0, <1>1, <2>2, <2>3 DEF DecisionInForce
<1>12. CASE RevertToPending(c)
  <2> DEFINE o == op[c].order
  <2>1. PICK r \in Replies :
          /\ stage' = IF Applied(r) THEN [stage EXCEPT ![o] = Reverted(@)] ELSE stage
          /\ Compensate(c, r, "decision")
    BY <1>12 DEF RevertToPending
  <2>2. /\ o \in Orders /\ pc[c] = "rollback" /\ op' = op /\ undo'[c] = undo[c] \ {"decision"}
        /\ Applied(r)
    BY <1>0, <1>12, <2>1, CompensateFrame, CompensateLeaves
       DEF RevertToPending, Turn, Registered, CallWellFormed
  <2>3. stage'[o].decided_by = None
    BY <1>0, <2>1, <2>2, RevertedRow DEF TypeOK
  <2> QED BY <1>0, <1>1, <2>2, <2>3 DEF Holds
<1> QED BY <1>3, <1>4, <1>5, <1>6, <1>7, <1>8, <1>9, <1>10, <1>11, <1>12 DEF Step

LEMMA ChainStep ==
    ASSUME OutcomeInv, AuthorInv, AuthorInv', ChainInv, NEW c \in Calls, Step(c)
    PROVE  ChainInv'
<1> SUFFICES ASSUME NothingLeft'
             PROVE  PredecessorsApproved' /\ StagesHeld' /\ DecisionsHeld'
  BY DEF ChainInv
<1>0. /\ TypeOK /\ Registers(c) /\ OthersKeep(c) /\ left'[c] = {}
      /\ \A o \in Orders : /\ RowHasAuthors(o) /\ RowHasAuthors(o)'
                           /\ stage[o].id \in Calls \cup {None}
                           /\ stage[o].decided_by \in Calls \cup {None}
      /\ Orders \subseteq Nat
  BY StepFrame DEF OutcomeInv, DecisionInv, AuthorInv, NothingLeft, TypeOK, Row, Orders
<1>1. PredecessorsApproved /\ StagesHeld /\ DecisionsHeld
  <2>1. NothingLeft
    BY <1>0, StepFrame DEF NothingLeft, LeftGrows
  <2> QED BY <2>1 DEF ChainInv
<1>2. PICK w \in Orders : /\ \A p \in Orders \ {w} : Keeps(p)
                          /\ Keeps(w) \/ (Writes(c, w) /\ op' = op)
  BY StepRows
<1>3. ASSUME NEW d \in Calls, d # c
      PROVE  /\ op'[d] = op[d] /\ Holds(d, "stage")' = Holds(d, "stage")
             /\ DecisionInForce(d)' = DecisionInForce(d)
  BY <1>0, <1>3 DEF OthersKeep, Holds, Committed, DecisionInForce, Decides
<1>4. StagesHeld'
  <2> SUFFICES ASSUME NEW p \in Orders, NEW d \in Calls, stage'[p].id = d, op'[d].kind # "create"
               PROVE  Holds(d, "stage")'
    <3>1. \A p \in Orders : stage'[p].id \in Calls \cup {None}
      BY NextOutcome DEF Next, OutcomeInv, DecisionInv, TypeOK, Row
    <3> QED BY <3>1 DEF StagesHeld, Exists
  <2>1. CASE p = w /\ Creation(c, w)
    <3>1. d = c /\ op' = op
      BY <1>2, <2>1, NoneAssumption DEF Creation, Keeps
    <3> QED BY <1>0, <2>1, <3>1 DEF Creation, Holds
  <2>2. CASE stage'[p].id = stage[p].id
    <3>1. AddsStage(d) /\ NewOrder(d) = p
      BY <1>0, <2>2, NoneAssumption DEF RowHasAuthors
    <3>2. CASE d # c
      BY <1>1, <1>3, <2>2, <3>2, NoneAssumption DEF StagesHeld, Exists
    <3>3. CASE d = c
      <4>1. op' = op
        BY <3>1, <3>3, StepFrame DEF OutcomeInv, SnapshotsPinned, SnapshotPinned, AddsStage,
                                     DecisionInv
      <4>2. Holds(c, "stage")
        BY <1>1, <2>2, <3>3, <4>1, NoneAssumption DEF StagesHeld, Exists
      <4> QED BY <1>0, <3>1, <3>3, <4>2, GivenUpIsUndone, NoneAssumption
    <3> QED BY <3>2, <3>3
  <2> QED BY <1>2, <2>1, <2>2, NoneAssumption DEF Keeps, Writes, Decision, Deletion, Reversal
<1>5. DecisionsHeld'
  <2> SUFFICES ASSUME NEW p \in Orders, NEW d \in Calls, stage'[p].decided_by = d
               PROVE  DecisionInForce(d)'
    <3>1. \A p \in Orders : stage'[p].decided_by \in Calls \cup {None}
      BY NextOutcome DEF Next, OutcomeInv, DecisionInv, TypeOK, Row
    <3> QED BY <3>1 DEF DecisionsHeld
  <2>1. CASE p = w /\ Decision(c, w)
    <3>1. d = c /\ "decision" \in undo'[c]
      BY <1>0, <2>1 DEF Decision
    <3>2. Decides(c)'
      BY <1>0, <2>1, <3>1, NoneAssumption DEF RowHasAuthors
    <3> QED BY <3>1, <3>2 DEF DecisionInForce
  <2>2. CASE stage'[p].decided_by = stage[p].decided_by
    <3>1. op[d].order = p /\ DecisionInForce(d)
      BY <1>0, <1>1, <2>2, NoneAssumption DEF RowHasAuthors, DecisionsHeld
    <3>2. CASE d # c
      BY <1>3, <3>1, <3>2
    <3>3. CASE d = c
      BY <1>0, <3>1, <3>3, GivenUpIsUndone, NoneAssumption
    <3> QED BY <3>2, <3>3
  <2> QED BY <1>2, <2>1, <2>2, NoneAssumption DEF Keeps, Writes, Creation, Deletion, Reversal
<1>6. PredecessorsApproved'
  <2> SUFFICES ASSUME NEW o \in Orders, NEW p \in Orders, o < p, stage'[p].id # None
               PROVE  stage'[o].status = APPROVED
    BY DEF PredecessorsApproved, Exists
  <2>1. CASE p = w /\ Creation(c, w)
    <3>1. AddsStage(c) /\ CallWellFormed(c) /\ pc[c] = "create_stage" /\ op[c].order + 1 = p
      BY <1>0, <2>1 DEF Creation, Registers, NewOrder, OutcomeInv, DecisionInv, CallsWellFormed
    <3>2. op[c].kind = "approve"
      BY <1>0, <3>1 DEF AddsStage, CallWellFormed, Orders
    <3>3. /\ op[c].order \in Orders
          /\ stage[op[c].order].id # None /\ stage[op[c].order].status = APPROVED
      BY <3>1, <3>2
         DEF OutcomeInv, DecisionInv, CallWellFormed, DecisionStands, DecisionInForce, Decides, Verdict
    <3>4. stage[o].status = APPROVED
      <4>1. o \in Nat /\ op[c].order \in Nat
        BY <1>0, <3>3
      <4>2. o = op[c].order \/ o < op[c].order
        BY <3>1, <4>1
      <4> QED BY <1>1, <3>3, <4>2 DEF PredecessorsApproved, Exists
    <3>5. Keeps(o)
      BY <1>0, <1>2, <2>1
    <3> QED BY <3>4, <3>5 DEF Keeps
  <2>2. CASE stage[p].id # None
    <3>1. stage[o].status = APPROVED
      BY <1>1, <2>2 DEF PredecessorsApproved, Exists
    <3>2. CASE Keeps(o)
      BY <3>1, <3>2 DEF Keeps
    <3>3. CASE Decision(c, o) \/ Creation(c, o) \/ Deletion(c, o)
      BY <1>0, <3>1, <3>3 DEF Decision, Creation, Deletion, RowHasAuthors, PENDING, APPROVED
    <3>4. CASE Reversal(c, o)
      <4>1. o + 1 \in Orders /\ o + 1 <= p
        BY <1>0, StageAssumption DEF Orders
      <4>2. stage[o + 1].id # None
        <5>1. CASE o + 1 = p
          BY <2>2, <5>1
        <5>2. CASE o + 1 < p
          <6>1. stage[o + 1].status = APPROVED
            BY <1>1, <2>2, <4>1, <5>2 DEF PredecessorsApproved, Exists
          <6> QED BY <1>0, <4>1, <6>1 DEF RowHasAuthors, APPROVED
        <5> QED BY <1>0, <4>1, <5>1, <5>2
      <4>3. PICK d \in Calls : stage[o + 1].id = d /\ AddsStage(d) /\ op[d].order + 1 = o + 1
        BY <1>0, <4>1, <4>2 DEF RowHasAuthors, NewOrder
      <4>4. CallWellFormed(d) /\ Registers(d) /\ op[d].order \in Nat
        BY <1>0 DEF OutcomeInv, DecisionInv, CallsWellFormed, AuthorInv, TypeOK, Op
      <4>5. op[d].order = o /\ op[d].kind = "approve"
        BY <1>0, <4>3, <4>4 DEF CallWellFormed, AddsStage, Orders
      <4>6. Holds(d, "stage")
        BY <1>1, <4>1, <4>2, <4>3, <4>5 DEF StagesHeld, Exists
      <4>7. DecisionInForce(d)
        BY <4>4, <4>5, <4>6 DEF Holds, Committed, Registers, DecisionInForce, Decides
      <4>8. d = c
        BY <3>4, <4>5, <4>7 DEF Reversal, OutcomeInv, DecisionInv, DecisionStands
      <4> QED BY <3>4, <4>6, <4>8 DEF Reversal, Holds, Committed
    <3> QED BY <1>2, <3>2, <3>3, <3>4 DEF Writes
  <2> QED BY <1>2, <2>1, <2>2, NoneAssumption DEF Keeps, Writes, Decision, Deletion, Reversal
<1> QED BY <1>4, <1>5, <1>6

LEMMA InitChain == Init => ChainInv
BY DEF Init, ChainInv, PredecessorsApproved, StagesHeld, DecisionsHeld, Exists, NoRow

\* The chain is inductive together with the outcome and its authors.
LEMMA NextChain == OutcomeInv /\ AuthorInv /\ ChainInv /\ [Next]_vars => ChainInv'
<1> SUFFICES ASSUME OutcomeInv, AuthorInv, ChainInv, [Next]_vars PROVE ChainInv'
  OBVIOUS
<1>1. CASE UNCHANGED vars
  BY <1>1 DEF vars, ChainInv, NothingLeft, PredecessorsApproved, StagesHeld, DecisionsHeld, Exists,
              Holds, Committed, DecisionInForce, Decides
<1>2. ASSUME NEW c \in Calls, Step(c) PROVE ChainInv'
  BY <1>2, AuthorStep, ChainStep
<1> QED BY <1>1, <1>2 DEF Next

\* Unless a failed call has left something behind, at most one stage waits for
\* a decision, also between the statements of decisions that are being made,
\* escalated and rolled back (_decide_stage, TransactionContext).
THEOREM OneStageAtATime == Spec => []AtMostOnePending
<1>1. OutcomeInv /\ ChainInv => AtMostOnePending
  <2> SUFFICES ASSUME OutcomeInv, PredecessorsApproved, NEW o \in Orders, NEW p \in Orders, o < p,
                      stage[o].status = PENDING, stage[p].status = PENDING
               PROVE  FALSE
    BY DEF ChainInv, AtMostOnePending, Orders
  <2>1. Exists(p)
    BY DEF OutcomeInv, DecisionInv, RowsWellFormed, Exists
  <2> QED BY <2>1 DEF PredecessorsApproved, PENDING, APPROVED
<1> QED
  BY <1>1, InitOutcome, NextOutcome, InitAuthor, NextAuthor, InitChain, NextChain, PTL DEF Spec

-----------------------------------------------------------------------------
(* The request and its chain.                                              *)

\* No failed call has left anything behind, nor has the creation failed: its
\* compensation does not match a request that has moved on.
Clean ==
    /\ NothingLeft
    /\ \A c \in Calls : op[c].kind = "create" => pc[c] \notin {"rollback", "failed", "crashed"}

\* Calls whose set_current_stage is written and not restored.
Moved(c) == OutcomeInForce(c) \/ (op[c].kind = "create" /\ pc[c] \in {"audit", "notify", "done"})

\* Of these, apart from e, the one that is furthest along the chain.
Latest(c, e) ==
    /\ Moved(c) /\ c # e
    /\ \A d \in Calls : Moved(d) /\ d # e => op[d].order <= op[c].order

Says(req, c) ==
    req.status = TargetStatus(c) /\ req.current = IF AddsStage(c) THEN c ELSE None

\* The request is where the call put it that came furthest.
PointsToLatest == \A c \in Calls : Latest(c, None) => Says(request, c)

\* What a call would restore is where the request was without it.
SnapshotsGoBack ==
    \A c, d \in Calls :
        OutcomeInForce(d) /\ request.version = seenReq[d].version + 1 /\ Latest(c, d)
        => Says(seenReq[d], c)

\* A call that comes to set_current_stage after one that is further along the
\* chain finds that the request has moved.
OvertakenIsStale ==
    \A c, d \in Calls :
        pc[c] = "advance" /\ Moved(d) /\ op[d].order > op[c].order
        => seenReq[c].version < request.version

\* A snapshot of the request that is not out of date has the right pointer.
SnapshotPoints(c) ==
    /\ pc[c] \in {"plan", "create_stage", "advance"} /\ Decides(c)
    /\ seenReq[c].version = request.version
    => seenReq[c].current = request.current

\* The invariant behind QuiescentConsistent.
PointerInv ==
    /\ \A c \in Calls : SnapshotPoints(c)
    /\ Clean => PointsToLatest /\ SnapshotsGoBack /\ OvertakenIsStale

LEMMA MovedKept ==
    ASSUME NEW d \in Calls, pc'[d] = pc[d], undo'[d] = undo[d], op'[d] = op[d]
    PROVE  (Moved(d)' <=> Moved(d)) /\ (OutcomeInForce(d)' <=> OutcomeInForce(d))
BY DEF Moved, OutcomeInForce, Decides

LEMMA RequestVersions ==
    ASSUME OutcomeInv
    PROVE  /\ request \in RequestRow /\ request.version \in Nat
           /\ \A d \in Calls : seenReq[d] \in RequestRow /\ seenReq[d].version \in Nat
                               /\ op[d].order \in Nat
BY RequestFields DEF OutcomeInv, DecisionInv, TypeOK, Op

\* What a call that has moved the request has decided.
LEMMA MovedCalls ==
    ASSUME OutcomeInv, AuthorInv, NEW d \in Calls, Moved(d)
    PROVE  \/ op[d].kind = "create" /\ op[d].order = 0
           \/ /\ Decides(d) /\ OutcomeInForce(d) /\ op[d].order \in Orders
              /\ stage[op[d].order].id # None
              /\ stage[op[d].order].decided_by = d /\ stage[op[d].order].status = Verdict(d)
<1>1. CallWellFormed(d) /\ Registers(d) /\ DecisionStands
  BY DEF OutcomeInv, DecisionInv, CallsWellFormed, AuthorInv
<1>2. CASE OutcomeInForce(d)
  <2>1. Decides(d) /\ DecisionInForce(d)
    BY <1>1, <1>2 DEF OutcomeInForce, DecisionInForce, Registers
  <2> QED BY <1>1, <1>2, <2>1 DEF CallWellFormed, DecisionStands
<1>3. CASE op[d].kind = "create"
  BY <1>1, <1>3 DEF CallWellFormed
<1> QED BY <1>2, <1>3 DEF Moved

\* Up to the stage that has moved the request the stages exist, and those
\* before it are approved.
LEMMA BelowMoved ==
    ASSUME OutcomeInv, AuthorInv, PredecessorsApproved, NEW d \in Calls, Moved(d),
           NEW j \in Nat, j < op[d].order
    PROVE  /\ j \in Orders => stage[j].status = APPROVED
           /\ j + 1 \in Orders /\ stage[j + 1].id # None
<1>1. op[d].order \in Orders /\ op[d].order \in Nat /\ stage[op[d].order].id # None
  BY MovedCalls, RequestVersions
<1>2. j \in Orders => stage[j].status = APPROVED
  BY <1>1 DEF PredecessorsApproved, Exists
<1>3. j + 1 \in Orders /\ (j + 1 = op[d].order \/ j + 1 < op[d].order)
  BY <1>1, StageAssumption DEF Orders
<1>4. ASSUME j + 1 < op[d].order PROVE stage[j + 1].id # None
  <2>1. stage[j + 1].status = APPROVED
    BY <1>1, <1>3, <1>4 DEF PredecessorsApproved, Exists
  <2> QED BY <1>3, <2>1 DEF AuthorInv, RowHasAuthors, APPROVED
<1> QED BY <1>1, <1>2, <1>3, <1>4

\* A step after which the request is as it was, or only its version has moved,
\* and the same calls have moved it.
LEMMA PointerKept ==
    ASSUME OutcomeInv, OutcomeInv', PointerInv, NEW c \in Calls, OthersKeep(c),
           \A d \in Calls : SnapshotPoints(d)',
           Clean' =>
               /\ Clean
               /\ request'.status = request.status /\ request'.current = request.current
               /\ request'.version = request.version \/ request'.version = request.version + 1
               /\ Moved(c)' <=> Moved(c)
               /\ Moved(c) => op'[c] = op[c] /\ seenReq'[c] = seenReq[c]
               /\ pc'[c] = "advance" =>
                    \/ pc[c] = "advance" /\ op'[c] = op[c] /\ seenReq'[c] = seenReq[c]
                    \/ \A d \in Calls : Moved(d) => op[d].order <= op'[c].order
    PROVE  PointerInv'
<1> SUFFICES ASSUME Clean' PROVE PointsToLatest' /\ SnapshotsGoBack' /\ OvertakenIsStale'
  BY DEF PointerInv
<1>0. /\ PointsToLatest /\ SnapshotsGoBack /\ OvertakenIsStale
      /\ request.version \in Nat /\ request'.version \in Nat
      /\ \A d \in Calls : seenReq[d].version \in Nat /\ op[d].order \in Nat
  BY RequestVersions DEF PointerInv
<1>1. ASSUME NEW d \in Calls
      PROVE  (Moved(d)' <=> Moved(d)) /\ (Moved(d) => op'[d] = op[d] /\ seenReq'[d] = seenReq[d])
  <2>1. CASE d = c
    BY <2>1
  <2>2. CASE d # c
    BY <2>2, MovedKept DEF OthersKeep
  <2> QED BY <2>1, <2>2
<1>2. ASSUME NEW d \in Calls, OutcomeInForce(d)' PROVE OutcomeInForce(d) /\ seenReq'[d] = seenReq[d]
  <2>1. Moved(d) /\ op'[d] = op[d] /\ seenReq'[d] = seenReq[d] /\ Decides(d)'
    BY <1>1, <1>2 DEF Moved, OutcomeInForce
  <2> QED BY <2>1 DEF Moved, Decides
<1>3. ASSUME NEW d \in Calls, NEW e, Latest(d, e)' PROVE Latest(d, e)
  BY <1>1, <1>3 DEF Latest
<1>4. ASSUME NEW d \in Calls, NEW e, Latest(d, e)'
      PROVE  TargetStatus(d)' = TargetStatus(d) /\ (AddsStage(d)' <=> AddsStage(d))
  BY <1>1, <1>4, SameArguments DEF Latest
<1>5. PointsToLatest'
  BY <1>0, <1>3, <1>4 DEF PointsToLatest, Says
<1>6. SnapshotsGoBack'
  <2> SUFFICES ASSUME NEW x \in Calls, NEW d \in Calls, OutcomeInForce(d)',
                      request'.version = seenReq'[d].version + 1, Latest(x, d)'
               PROVE  Says(seenReq[d], x)'
    BY DEF SnapshotsGoBack
  <2>1. OutcomeInForce(d) /\ seenReq'[d] = seenReq[d] /\ seenReq[d].version < request.version
    BY <1>2 DEF OutcomeInv, OutcomeStands
  <2>2. request.version = seenReq[d].version + 1
    BY <1>0, <2>1
  <2>3. Says(seenReq[d], x)
    BY <1>0, <1>3, <2>1, <2>2 DEF SnapshotsGoBack
  <2> QED BY <1>4, <2>1, <2>3 DEF Says
<1>7. OvertakenIsStale'
  <2> SUFFICES ASSUME NEW x \in Calls, NEW d \in Calls, pc'[x] = "advance", Moved(d)',
                      op'[d].order > op'[x].order
               PROVE  seenReq'[x].version < request'.version
    BY DEF OvertakenIsStale
  <2>1. Moved(d) /\ op'[d] = op[d]
    BY <1>1
  <2>2. pc[x] = "advance" /\ op'[x] = op[x] /\ seenReq'[x] = seenReq[x]
    <3>1. CASE x = c
      <4>1. ASSUME \A e \in Calls : Moved(e) => op[e].order <= op'[c].order PROVE FALSE
        <5>1. op[d].order <= op'[c].order /\ op[d].order > op'[c].order
          BY <2>1, <3>1, <4>1
        <5>2. op[d].order \in Nat /\ op'[c].order \in Nat
          BY <1>0 DEF OutcomeInv, DecisionInv, TypeOK, Op
        <5> QED BY <5>1, <5>2
      <4> QED BY <3>1, <4>1
    <3>2. CASE x # c
      BY <3>2 DEF OthersKeep
    <3> QED BY <3>1, <3>2
  <2>3. seenReq[x].version < request.version
    BY <1>0, <2>1, <2>2 DEF OvertakenIsStale
  <2> QED BY <1>0, <2>2, <2>3
<1> QED BY <1>5, <1>6, <1>7

\* Only three statements write the status or the pointer of the request.
LEMMA StepRequest ==
    ASSUME OutcomeInv, NEW c \in Calls, Step(c)
    PROVE  \/ CreateRequest(c) \/ SetCurrentStage(c) \/ RestoreRequest(c)
           \/ /\ request'.status = request.status /\ request'.current = request.current
              /\ \/ request' = request
                 \/ /\ request'.version = request.version + 1
                    /\ pc[c] \in {"edit", "withdraw", "rollback"}
<1>1. CASE UpdateFields(c) \/ SoftDelete(c) \/ DeleteCreated(c)
  <2>1. /\ request' \in {request, Edited(request), Withdrawn(request)}
        /\ pc[c] \in {"edit", "withdraw", "rollback"}
    BY <1>1 DEF UpdateFields, SoftDelete, DeleteCreated, Turn
  <2>2. \A req \in RequestRow : Edited(req).current = req.current /\ Withdrawn(req).current = req.current
    BY DEF Edited, Withdrawn, RequestRow
  <2> QED BY <2>1, <2>2, RequestVersions, EditedFields
<1>2. CASE \/ ReadStage(c) \/ DecideStage(c) \/ ReadRequest(c) \/ PlanNextStage(c) \/ CreateStage(c)
           \/ RecordEvent(c) \/ Notify(c) \/ DiscoverStage(c) \/ EscalateRead(c) \/ EscalateStage(c)
           \/ ReadOwnRequest(c) \/ DeleteIfUnchanged(c) \/ RevertToPending(c)
           \/ RestoreAssignment(c) \/ Crash(c)
  <2>1. request' = request
    BY <1>2 DEF ReadStage, DecideStage, ReadRequest, PlanNextStage, CreateStage, RecordEvent, Notify,
                DiscoverStage, EscalateRead, EscalateStage, ReadOwnRequest, DeleteIfUnchanged,
                RevertToPending, RestoreAssignment, Crash, db
  <2> QED BY <2>1
<1> QED BY <1>1, <1>2 DEF Step

\* The statements after which a call holds a snapshot it still has to act on.
LEMMA ComesWithSnapshot ==
    ASSUME TypeOK, NEW c \in Calls, Step(c), pc'[c] \in {"plan", "create_stage", "advance"}
    PROVE  CreateRequest(c) \/ ReadRequest(c) \/ PlanNextStage(c) \/ CreateStage(c)
<1>1. CASE ReadStage(c) \/ DiscoverStage(c) \/ EscalateRead(c) \/ ReadOwnRequest(c)
  <2>1. pc'[c] \in {"replayed", "decide", "failed", "edit", "withdraw", "escalate_read", "escalate"}
    BY <1>1, SMTT(60) DEF ReadStage, DiscoverStage, EscalateRead, ReadOwnRequest, TypeOK
  <2> QED BY <2>1
<1>2. CASE \/ DecideStage(c) \/ SetCurrentStage(c) \/ EscalateStage(c) \/ UpdateFields(c)
           \/ SoftDelete(c)
  <2>1. PICK r \in Replies, next \in {"read_request", "audit", "done"} :
          \E new, effect : Statement(c, r, next, new, effect)
    BY <1>2, Zenon DEF DecideStage, SetCurrentStage, EscalateStage, UpdateFields, SoftDelete
  <2> QED BY <2>1, StatementFrame
<1>3. CASE RecordEvent(c)
  <2>1. (\E remaining : Raise(c, remaining)) \/ Commit(c, "done") \/ Commit(c, "notify")
    BY <1>3 DEF RecordEvent
  <2>2. ASSUME NEW next, Commit(c, next) PROVE pc'[c] = next
    BY <2>2 DEF Commit, TypeOK
  <2> QED BY <2>1, <2>2, RaiseFrame
<1>4. CASE \/ RestoreRequest(c) \/ DeleteIfUnchanged(c) \/ RevertToPending(c)
           \/ RestoreAssignment(c) \/ DeleteCreated(c)
  <2>1. PICK r, effect : Compensate(c, r, effect)
    BY <1>4, Zenon
       DEF RestoreRequest, DeleteIfUnchanged, RevertToPending, RestoreAssignment, DeleteCreated
  <2> QED BY <2>1, CompensateFrame
<1>5. CASE Crash(c) \/ Notify(c)
  <2>1. PICK next \in {"crashed", "done", "failed"} : pc' = [pc EXCEPT ![c] = next]
    BY <1>5 DEF Crash, Notify
  <2> QED BY <2>1 DEF TypeOK
<1> QED BY <1>1, <1>2, <1>3, <1>4, <1>5 DEF Step

\* A call gets a snapshot by reading, and keeps it.
LEMMA SnapshotKept ==
    ASSUME OutcomeInv, NEW c \in Calls, Step(c), pc'[c] \in {"plan", "create_stage", "advance"}
    PROVE  \/ CreateRequest(c)
           \/ /\ request' = request /\ op' = op
              /\ \/ seenReq'[c] = request
                 \/ pc[c] \in {"plan", "create_stage"} /\ seenReq' = seenReq
<1>0. TypeOK
  BY DEF OutcomeInv, DecisionInv
<1>1. CASE ReadRequest(c)
  <2>1. PICK r \in {"ok", "error"} :
          /\ seenReq' = [seenReq EXCEPT ![c] = IF r = "ok" THEN request ELSE @]
          /\ r = "error" => Raise(c, {})
    BY <1>1 DEF ReadRequest
  <2>2. r = "ok"
    BY <1>0, <2>1, RaiseFrame
  <2> QED BY <1>0, <1>1, <2>1, <2>2 DEF ReadRequest, TypeOK, db
<1>2. CASE PlanNextStage(c) \/ CreateStage(c)
  BY <1>2 DEF PlanNextStage, CreateStage, db
<1> QED BY <1>0, <1>1, <1>2, ComesWithSnapshot

LEMMA SnapshotPointsStep ==
    ASSUME OutcomeInv, PointerInv, NEW c \in Calls, Step(c), NEW d \in Calls
    PROVE  SnapshotPoints(d)'
<1>0. /\ TypeOK /\ OthersKeep(c) /\ RowsWellFormed /\ SnapshotPinned(d)
      /\ request.version \in Nat /\ seenReq[d].version \in Nat
  BY StepFrame, RequestVersions DEF OutcomeInv, DecisionInv, SnapshotsPinned
<1>1. CASE CreateRequest(c)
  <2>1. \A e \in Calls : pc[e] = "idle"
    BY <1>1 DEF CreateRequest, OutcomeInv, NothingBeforeCreation
  <2>2. op'[c].kind = "create"
    BY <1>0, <1>1 DEF CreateRequest, TypeOK, Args
  <2> QED BY <1>0, <2>1, <2>2 DEF SnapshotPoints, OthersKeep, Decides
<1>2. CASE ~CreateRequest(c) /\ d = c
  <2> SUFFICES ASSUME pc'[c] \in {"plan", "create_stage", "advance"}, Decides(c)',
                      seenReq'[c].version = request'.version
               PROVE  seenReq'[c].current = request'.current
    BY <1>2 DEF SnapshotPoints
  <2>1. /\ request' = request /\ op' = op
        /\ \/ seenReq'[c] = request
           \/ pc[c] \in {"plan", "create_stage"} /\ seenReq' = seenReq
    BY <1>2, SnapshotKept
  <2> QED BY <2>1 DEF PointerInv, SnapshotPoints, Decides
<1>3. CASE ~CreateRequest(c) /\ d # c
  <2> SUFFICES ASSUME pc[d] \in {"plan", "create_stage", "advance"}, Decides(d),
                      seenReq[d].version = request'.version
               PROVE  seenReq[d].current = request'.current
    BY <1>0, <1>3, SameArguments DEF SnapshotPoints, OthersKeep
  <2>1. seenReq[d].version <= request.version
    BY <1>0 DEF SnapshotPinned
  <2>2. request' = request \/ request'.version = request.version + 1
    <3>1. CASE SetCurrentStage(c) \/ RestoreRequest(c)
      <4>1. PICK current :
              request' \in {request, Advanced(request, TargetStatus(c), current), RestoredRequest(c)}
        BY <3>1, Zenon DEF SetCurrentStage, RestoreRequest
      <4> QED BY <4>1, RequestVersions, AdvancedFields, RestoredFields
    <3> QED BY <1>3, <3>1, StepRequest
  <2> QED BY <1>0, <2>1, <2>2 DEF PointerInv, SnapshotPoints
<1> QED BY <1>1, <1>2, <1>3

\* What has been left behind stays, and a creation that fails has failed.
LEMMA CleanBefore ==
    ASSUME OutcomeInv, NEW c \in Calls, Step(c), Clean'
    PROVE  Clean
<1>0. /\ TypeOK /\ OthersKeep(c) /\ LeftGrows(c) /\ pc[c] \notin Ended
      /\ op' = op \/ pc[c] = "idle"
  BY StepFrame DEF OutcomeInv, DecisionInv
<1>1. NothingLeft
  BY <1>0 DEF Clean, NothingLeft, LeftGrows
<1>2. ASSUME pc[c] = "rollback" PROVE pc'[c] \in {"rollback", "failed", "crashed"} /\ op' = op
  <2>1. \/ RestoreRequest(c) \/ DeleteIfUnchanged(c) \/ RevertToPending(c)
        \/ RestoreAssignment(c) \/ DeleteCreated(c) \/ Crash(c)
    BY <1>2 DEF Step, CreateRequest, ReadStage, DecideStage, ReadRequest, PlanNextStage, CreateStage,
                SetCurrentStage, RecordEvent, Notify, DiscoverStage, EscalateRead, EscalateStage,
                ReadOwnRequest, UpdateFields, SoftDelete
  <2>2. CASE Crash(c)
    BY <1>0, <2>2 DEF Crash, TypeOK
  <2>3. CASE ~Crash(c)
    <3>1. PICK r, effect : Compensate(c, r, effect)
      BY <2>1, <2>3, Zenon
         DEF RestoreRequest, DeleteIfUnchanged, RevertToPending, RestoreAssignment, DeleteCreated
    <3> QED BY <1>0, <3>1, CompensateFrame
  <2> QED BY <2>2, <2>3
<1>3. ASSUME NEW d \in Calls, op[d].kind = "create", pc[d] \in {"rollback", "failed", "crashed"}
      PROVE  FALSE
  <2>1. CASE d = c
    BY <1>0, <1>2, <1>3, <2>1 DEF Clean, Ended
  <2>2. CASE d # c
    BY <1>0, <1>3, <2>2 DEF Clean, OthersKeep
  <2> QED BY <2>1, <2>2
<1> QED BY <1>1, <1>3 DEF Clean

\* set_current_stage matches only if nobody further along has moved the request,
\* so its call becomes the latest, and its snapshot says where the request was.
LEMMA SetCurrentStagePointer ==
    ASSUME OutcomeInv, OutcomeInv', AuthorInv, PointerInv, NEW c \in Calls, SetCurrentStage(c)
    PROVE  PointerInv'
<1> DEFINE current == IF AddsStage(c) THEN c ELSE None
<1>0. /\ TypeOK /\ SnapshotPinned(c) /\ Registers(c) /\ CallWellFormed(c) /\ DecisionStands
      /\ Step(c) /\ OthersKeep(c) /\ pc[c] = "advance" /\ op' = op /\ seenReq' = seenReq
      /\ \A d \in Calls : SnapshotPoints(d)'
  BY StepFrame, SnapshotPointsStep
     DEF OutcomeInv, DecisionInv, SnapshotsPinned, AuthorInv, CallsWellFormed, SetCurrentStage, Step
<1>1. PICK r \in Replies :
        /\ Reply(r, request.version = RequestVersionToUse(c))
        /\ request' = IF Applied(r) THEN Advanced(request, TargetStatus(c), current) ELSE request
        /\ Statement(c, r, "audit", IF op[c].kind = "create" THEN {} ELSE {"request"}, "request")
  BY DEF SetCurrentStage
<1>2. ~Moved(c) /\ (Decides(c) \/ op[c].kind = "create")
  BY <1>0 DEF Moved, OutcomeInForce, Registers, SnapshotPinned
<1>3. CASE ~Applied(r)
  <2>1. pc'[c] \in {"failed", "rollback"} /\ undo'[c] = undo[c]
    BY <1>0, <1>1, <1>3, StatementFrame DEF Applied
  <2>2. ~Moved(c)'
    BY <1>0, <1>2, <2>1 DEF Moved, OutcomeInForce, Decides
  <2>3. Clean' => Clean
    BY <1>0, CleanBefore
  <2> QED BY <1>0, <1>1, <1>2, <1>3, <2>1, <2>2, <2>3, PointerKept
<1>4. CASE r = "lost"
  <2>1. ~Clean'
    BY <1>0, <1>1, <1>4, StatementLeaves DEF Clean, NothingLeft
  <2> QED BY <1>0, <2>1 DEF PointerInv
<1>5. CASE r = "ok"
  <2> SUFFICES ASSUME Clean' PROVE PointsToLatest' /\ SnapshotsGoBack' /\ OvertakenIsStale'
    BY <1>0 DEF PointerInv
  <2>1. PointsToLatest /\ OvertakenIsStale
    BY <1>0, CleanBefore DEF PointerInv
  <2>2. /\ request.version = seenReq[c].version /\ request'.version = request.version + 1
        /\ request'.status = TargetStatus(c) /\ request'.current = current
    <3>1. request.version = seenReq[c].version /\ request' = Advanced(request, TargetStatus(c), current)
      BY <1>1, <1>5, ReplyApplied DEF RequestVersionToUse, Applied
    <3>2. \A req \in RequestRow : \A s : Advanced(req, s, current).current = current
      BY DEF Advanced, RequestRow
    <3> QED BY <3>1, <3>2, RequestVersions, AdvancedFields
  <2>3. /\ request.version \in Nat
        /\ \A d \in Calls : seenReq[d].version \in Nat /\ op[d].order \in Nat
    BY RequestVersions
  <2>4. ASSUME NEW d \in Calls
        PROVE  /\ d # c => (Moved(d)' <=> Moved(d)) /\ (OutcomeInForce(d)' <=> OutcomeInForce(d))
               /\ TargetStatus(d)' = TargetStatus(d) /\ (AddsStage(d)' <=> AddsStage(d))
    BY <1>0, MovedKept, SameArguments DEF OthersKeep
  <2>5. ASSUME NEW d \in Calls, Moved(d) PROVE op[d].order < op[c].order
    <3>1. ~(op[d].order > op[c].order)
      BY <1>0, <2>1, <2>2, <2>3, <2>5 DEF OvertakenIsStale
    <3>2. op[d].order # op[c].order
      <4>1. CASE op[c].kind = "create"
        BY <1>0, <1>2, <2>5, <4>1, MovedCalls DEF AuthorInv, OneCreates, CallWellFormed, Orders
      <4>2. CASE Decides(c)
        <5>1. op[c].order \in Orders /\ stage[op[c].order].decided_by = c
          BY <1>0, <4>2 DEF CallWellFormed, DecisionStands, DecisionInForce
        <5> QED BY <1>2, <2>5, <5>1, MovedCalls DEF Orders
      <4> QED BY <1>2, <4>1, <4>2
    <3> QED BY <2>3, <3>1, <3>2
  <2>6. Moved(c)'
    <3>1. pc'[c] = "audit"
      BY <1>0, <1>1, <1>5, StatementFrame
    <3> QED BY <1>0, <1>2, <3>1 DEF Moved, OutcomeInForce, Decides
  <2>7. PointsToLatest'
    <3> SUFFICES ASSUME NEW d \in Calls, Latest(d, None)' PROVE Says(request, d)'
      BY DEF PointsToLatest
    <3>1. d = c
      <4>1. Moved(d)' /\ op[c].order <= op[d].order
        BY <1>0, <2>6, NoneAssumption DEF Latest
      <4> QED BY <2>3, <2>4, <2>5, <4>1
    <3> QED BY <2>2, <2>4, <3>1 DEF Says
  <2>8. SnapshotsGoBack'
    <3> SUFFICES ASSUME NEW x \in Calls, NEW d \in Calls, OutcomeInForce(d)',
                        request'.version = seenReq[d].version + 1, Latest(x, d)'
                 PROVE  Says(seenReq[d], x)'
      BY <1>0 DEF SnapshotsGoBack
    <3>1. d = c
      <4>1. d # c => seenReq[d].version < request.version
        BY <2>4 DEF OutcomeInv, OutcomeStands
      <4> QED BY <2>2, <2>3, <4>1
    <3>2. Decides(c)
      BY <1>0, <3>1 DEF OutcomeInForce, Decides
    <3>3. Latest(x, None)
      BY <1>0, <1>2, <2>4, <3>1, NoneAssumption DEF Latest
    <3>4. Says(request, x)
      BY <2>1, <3>3 DEF PointsToLatest
    <3>5. seenReq[c].status = request.status /\ seenReq[c].current = request.current
      BY <1>0, <2>2, <3>2 DEF SnapshotPinned, PointerInv, SnapshotPoints
    <3> QED BY <1>0, <2>4, <3>1, <3>4, <3>5 DEF Says
  <2>9. OvertakenIsStale'
    <3> SUFFICES ASSUME NEW x \in Calls, pc'[x] = "advance"
                 PROVE  seenReq[x].version < request'.version
      BY <1>0 DEF OvertakenIsStale
    <3>1. pc[x] = "advance"
      BY <1>0 DEF OthersKeep
    <3>2. seenReq[x].version <= request.version
      BY <3>1 DEF OutcomeInv, SnapshotsPinned, SnapshotPinned
    <3> QED BY <2>2, <2>3, <3>2
  <2> QED BY <2>7, <2>8, <2>9
<1> QED BY <1>3, <1>4, <1>5 DEF Applied

\* A restore that matches undoes the latest update, and what it writes is where
\* the request was without it.
LEMMA RestoreRequestPointer ==
    ASSUME OutcomeInv, OutcomeInv', PointerInv, NEW c \in Calls, RestoreRequest(c)
    PROVE  PointerInv'
<1>0. /\ TypeOK /\ SnapshotPinned(c) /\ Step(c) /\ OthersKeep(c)
      /\ pc[c] = "rollback" /\ "request" \in undo[c]
      /\ \A d \in Calls : SnapshotPoints(d)'
  BY StepFrame, SnapshotPointsStep
     DEF OutcomeInv, DecisionInv, SnapshotsPinned, RestoreRequest, Step, Turn, Registered
<1>1. PICK r \in Replies :
        /\ Reply(r, /\ request.version = seenReq[c].version + 1
                    /\ seenReq[c].current # None =>
                            \E o \in Orders : stage[o].id = seenReq[c].current)
        /\ request' = IF Applied(r) THEN RestoredRequest(c) ELSE request
        /\ Compensate(c, r, "request")
  BY DEF RestoreRequest
<1>2. /\ pc'[c] \in {"failed", "rollback"} /\ undo'[c] = undo[c] \ {"request"}
      /\ op' = op /\ seenReq' = seenReq /\ Decides(c) /\ OutcomeInForce(c)
  BY <1>0, <1>1 DEF Compensate, TypeOK, SnapshotPinned, OutcomeInForce
<1>3. CASE ~Applied(r)
  <2>1. ~Clean'
    BY <1>0, <1>1, <1>3, CompensateLeaves DEF Clean, NothingLeft
  <2> QED BY <1>0, <2>1 DEF PointerInv
<1>4. CASE Applied(r)
  <2> SUFFICES ASSUME Clean' PROVE PointsToLatest' /\ SnapshotsGoBack' /\ OvertakenIsStale'
    BY <1>0 DEF PointerInv
  <2>1. SnapshotsGoBack
    BY <1>0, CleanBefore DEF PointerInv
  <2>2. /\ request.version = seenReq[c].version + 1 /\ request'.version = request.version + 1
        /\ request'.status = seenReq[c].status /\ request'.current = seenReq[c].current
    <3>1. request.version = seenReq[c].version + 1 /\ request' = RestoredRequest(c)
      BY <1>1, <1>4, ReplyApplied
    <3>2. RestoredRequest(c).current = seenReq[c].current
      BY RequestVersions DEF RestoredRequest, RequestRow
    <3> QED BY <3>1, <3>2, RequestVersions, RestoredFields
  <2>3. request.version \in Nat /\ \A d \in Calls : seenReq[d].version \in Nat
    BY RequestVersions
  <2>4. ASSUME NEW d \in Calls
        PROVE  /\ d # c => (Moved(d)' <=> Moved(d)) /\ (OutcomeInForce(d)' <=> OutcomeInForce(d))
               /\ TargetStatus(d)' = TargetStatus(d) /\ (AddsStage(d)' <=> AddsStage(d))
    BY <1>0, <1>2, MovedKept, SameArguments DEF OthersKeep
  <2>5. ~Moved(c)' /\ ~OutcomeInForce(c)'
    BY <1>2 DEF Moved, OutcomeInForce, Decides
  <2>6. PointsToLatest'
    <3> SUFFICES ASSUME NEW d \in Calls, Latest(d, None)' PROVE Says(request, d)'
      BY DEF PointsToLatest
    <3>1. Latest(d, c)
      BY <1>2, <2>4, <2>5, NoneAssumption DEF Latest
    <3>2. Says(seenReq[c], d)
      BY <1>2, <2>1, <2>2, <3>1 DEF SnapshotsGoBack
    <3> QED BY <2>2, <2>4, <3>2 DEF Says
  <2>7. SnapshotsGoBack'
    <3> SUFFICES ASSUME NEW d \in Calls, OutcomeInForce(d)', request'.version = seenReq[d].version + 1
                 PROVE  FALSE
      BY <1>2 DEF SnapshotsGoBack
    <3>1. seenReq[d].version < request.version
      BY <2>4, <2>5 DEF OutcomeInv, OutcomeStands
    <3> QED BY <2>2, <2>3, <3>1
  <2>8. OvertakenIsStale'
    <3> SUFFICES ASSUME NEW x \in Calls, pc'[x] = "advance"
                 PROVE  seenReq[x].version < request'.version
      BY <1>2 DEF OvertakenIsStale
    <3>1. pc[x] = "advance"
      BY <1>0, <1>2 DEF OthersKeep
    <3>2. seenReq[x].version <= request.version
      BY <3>1 DEF OutcomeInv, SnapshotsPinned, SnapshotPinned
    <3> QED BY <2>2, <2>3, <3>2
  <2> QED BY <2>6, <2>7, <2>8
<1> QED BY <1>3, <1>4

\* When the request is created no call has moved it.
LEMMA CreateRequestPointer ==
    ASSUME OutcomeInv, PointerInv, NEW c \in Calls, CreateRequest(c)
    PROVE  PointerInv'
<1>1. /\ TypeOK /\ Step(c) /\ OthersKeep(c) /\ \A d \in Calls : SnapshotPoints(d)'
  BY StepFrame, SnapshotPointsStep DEF OutcomeInv, DecisionInv, Step
<1>2. \A d \in Calls : pc[d] = "idle" /\ op[d].kind = "none" /\ undo[d] = {}
  BY DEF CreateRequest, OutcomeInv, NothingBeforeCreation, SnapshotsPinned, SnapshotPinned,
         DecisionInv, CallsWellFormed, CallWellFormed
<1>3. pc'[c] \in {"create_stage", "failed"} /\ op'[c].kind = "create"
  <2>1. PICK r \in Replies : Statement(c, r, "create_stage", {"insert"}, "insert")
    BY DEF CreateRequest
  <2>2. op'[c].kind = "create"
    BY <1>1 DEF CreateRequest, TypeOK, Args
  <2> QED BY <1>1, <1>2, <2>1, <2>2, StatementFrame, StatementLeaves
<1>4. \A d \in Calls : ~Moved(d)' /\ ~OutcomeInForce(d)' /\ pc'[d] # "advance"
  BY <1>1, <1>2, <1>3 DEF Moved, OutcomeInForce, Decides, OthersKeep
<1> QED BY <1>1, <1>4 DEF PointerInv, PointsToLatest, Latest, SnapshotsGoBack, OvertakenIsStale

\* Calls that write no request update, or have not come to it, have not moved it.
LEMMA NotMoved ==
    ASSUME NEW c \in Calls,
           \/ ~Decides(c) /\ op[c].kind # "create"
           \/ pc[c] \notin {"audit", "notify", "done"} /\ "request" \notin undo[c]
    PROVE  ~Moved(c)
BY DEF Moved, OutcomeInForce

\* Apart from the three statements that write the request, no step makes a call
\* one that has moved it, or takes that away, without leaving something behind.
LEMMA OtherMoved ==
    ASSUME OutcomeInv, NEW c \in Calls, Registers(c), Step(c), Clean',
           ~CreateRequest(c), ~SetCurrentStage(c), ~RestoreRequest(c)
    PROVE  /\ Moved(c)' <=> Moved(c)
           /\ Moved(c) => op'[c] = op[c] /\ seenReq'[c] = seenReq[c]
<1>0. /\ TypeOK /\ SnapshotPinned(c) /\ left'[c] = {}
      /\ op' = op \/ pc[c] = "idle"
      /\ op' = op => (Decides(c)' <=> Decides(c))
      /\ op'[c].kind = "create" => pc'[c] \notin {"rollback", "failed", "crashed"}
  BY StepFrame, SameArguments
     DEF OutcomeInv, DecisionInv, SnapshotsPinned, Clean, NothingLeft
<1>1. ASSUME "request" \notin undo'[c], pc'[c] \notin {"audit", "notify", "done"} PROVE ~Moved(c)'
  BY <1>1 DEF Moved, OutcomeInForce
<1>2. CASE ReadStage(c) \/ DiscoverStage(c) \/ EscalateRead(c) \/ ReadOwnRequest(c)
  <2>1. /\ pc[c] \in {"idle", "escalate_read"} /\ undo' = undo
        /\ pc'[c] \in {"replayed", "decide", "failed", "edit", "withdraw", "escalate_read", "escalate"}
    BY <1>0, <1>2, SMTT(60) DEF ReadStage, DiscoverStage, EscalateRead, ReadOwnRequest, TypeOK, db
  <2>2. undo[c] = {} /\ undo'[c] = {}
    BY <2>1 DEF Registers
  <2> QED BY <1>1, <2>1, <2>2, NotMoved
<1>3. CASE ReadRequest(c) \/ PlanNextStage(c)
  <2>1. /\ pc[c] \in {"read_request", "plan"} /\ "request" \notin undo[c]
        /\ Raise(c, {}) \/ \E next \in {"plan", "advance", "create_stage"} : Proceed(c, next, {})
    BY <1>3 DEF ReadRequest, PlanNextStage, Registers
  <2>2. CASE Raise(c, {})
    <3>1. pc'[c] \in {"failed", "rollback"} /\ undo'[c] = undo[c]
      BY <1>0, <2>2, RaiseFrame
    <3> QED BY <1>1, <2>1, <3>1, NotMoved
  <2>3. ASSUME NEW next \in {"plan", "advance", "create_stage"}, Proceed(c, next, {})
        PROVE  ~Moved(c)' /\ ~Moved(c)
    <3>0. TypeOK
      BY <1>0
    <3>1. pc'[c] = next /\ undo'[c] = undo[c] \cup {}
      BY <3>0, <2>3, ProceedFrame
    <3> QED BY <1>1, <2>1, <2>3, <3>1, NotMoved
  <2> QED BY <2>1, <2>2, <2>3
<1>4. CASE DecideStage(c) \/ CreateStage(c)
  <2>1. pc[c] \in {"decide", "create_stage"} /\ "request" \notin undo[c]
    BY <1>4 DEF DecideStage, CreateStage, Registers
  <2>2. PICK r \in Replies, next \in {"read_request", "advance", "rollback"},
             new \in SUBSET {"decision", "stage"} :
          \E effect : Statement(c, r, next, new, effect)
    BY <1>4 DEF DecideStage, CreateStage
  <2>3. /\ pc'[c] \in {"failed", "rollback", "read_request", "advance"}
        /\ undo'[c] \subseteq undo[c] \cup {"decision", "stage"}
    BY <1>0, <2>2, StatementFrame
  <2> QED BY <1>1, <2>1, <2>3, NotMoved
<1>5. CASE EscalateStage(c) \/ UpdateFields(c) \/ SoftDelete(c)
  <2>1. pc[c] \in {"escalate", "edit", "withdraw"} /\ op' = op
    BY <1>5 DEF EscalateStage, UpdateFields, SoftDelete
  <2>2. ~Decides(c) /\ op[c].kind # "create"
    BY <2>1 DEF Registers, Decides
  <2>3. ~Moved(c)'
    BY <1>0, <2>1, <2>2 DEF Moved, OutcomeInForce
  <2> QED BY <2>2, <2>3, NotMoved
<1>6. CASE RecordEvent(c)
  <2>1. /\ pc[c] = "audit" /\ op' = op /\ seenReq' = seenReq
        /\ (\E remaining : Raise(c, remaining)) \/ Commit(c, "done") \/ Commit(c, "notify")
    BY <1>6 DEF RecordEvent
  <2>2. \/ pc'[c] \in {"notify", "done"}
        \/ pc'[c] \in {"failed", "rollback"} /\ undo'[c] = undo[c]
    <3>1. ASSUME NEW next, Commit(c, next) PROVE pc'[c] = next
      BY <1>0, <3>1 DEF Commit, TypeOK
    <3> QED BY <1>0, <2>1, <3>1, RaiseFrame
  <2>3. CASE Decides(c)
    BY <1>0, <2>1, <2>2, <2>3 DEF Registers, Moved, OutcomeInForce
  <2>4. CASE op[c].kind = "create"
    BY <1>0, <2>1, <2>2, <2>4 DEF Moved
  <2>5. CASE ~Decides(c) /\ op[c].kind # "create"
    BY <1>0, <2>1, <2>5 DEF Moved, OutcomeInForce
  <2> QED BY <2>3, <2>4, <2>5
<1>7. CASE Notify(c)
  <2>1. pc[c] = "notify" /\ op' = op /\ seenReq' = seenReq
    BY <1>7 DEF Notify
  <2>2. pc'[c] = "done"
    BY <1>0, <1>7 DEF Notify, TypeOK
  <2> QED BY <1>0, <2>1, <2>2 DEF Registers, Moved, OutcomeInForce
<1>8. CASE DeleteIfUnchanged(c) \/ RevertToPending(c) \/ RestoreAssignment(c) \/ DeleteCreated(c)
  <2>1. pc[c] = "rollback" /\ "request" \notin undo[c]
    BY <1>8 DEF DeleteIfUnchanged, RevertToPending, RestoreAssignment, DeleteCreated, Turn, Registered
  <2>2. PICK r, effect : Compensate(c, r, effect)
    BY <1>8, Zenon DEF DeleteIfUnchanged, RevertToPending, RestoreAssignment, DeleteCreated
  <2>3. pc'[c] \in {"failed", "rollback"} /\ undo'[c] \subseteq undo[c]
    BY <1>0, <2>2 DEF Compensate, TypeOK
  <2> QED BY <1>1, <2>1, <2>3, NotMoved
<1>9. CASE Crash(c)
  <2>1. /\ pc'[c] = "crashed" /\ undo'[c] = {} /\ undo[c] = {} /\ pc[c] \in Running /\ op' = op
    BY <1>0, <1>9 DEF Crash, TypeOK
  <2>2. ~Moved(c)
    BY <1>0, <2>1 DEF Registers, Moved, OutcomeInForce, Running
  <2> QED BY <1>1, <2>1, <2>2
<1> QED BY <1>2, <1>3, <1>4, <1>5, <1>6, <1>7, <1>8, <1>9 DEF Step

\* Whoever comes to set_current_stage has not been overtaken: the stage after
\* the one it decided was not there.
LEMMA ComesFirst ==
    ASSUME OutcomeInv, AuthorInv, PredecessorsApproved, NEW c \in Calls, Step(c), ~CreateRequest(c),
           pc'[c] = "advance", NEW d \in Calls, Moved(d)
    PROVE  op[d].order <= op[c].order
<1> SUFFICES ASSUME op[c].order < op[d].order PROVE FALSE
  BY RequestVersions
<1>0. /\ TypeOK /\ CallWellFormed(c) /\ SnapshotPinned(c) /\ Registers(c) /\ DecisionStands
      /\ op[c].order \in Nat /\ op[d].order \in Orders
      /\ op[c].order \in Orders => stage[op[c].order].status = APPROVED
      /\ stage[op[c].order + 1].id # None
  <2>1. op[c].order \in Nat /\ op[d].order \in Orders
    BY MovedCalls, RequestVersions
  <2> QED
    BY <2>1, BelowMoved
       DEF OutcomeInv, DecisionInv, CallsWellFormed, SnapshotsPinned, AuthorInv
<1>1. ReadRequest(c) \/ PlanNextStage(c) \/ CreateStage(c)
  BY <1>0, ComesWithSnapshot
<1>2. CASE ReadRequest(c)
  <2>1. op[c].kind = "reject" /\ pc[c] = "read_request"
    BY <1>0, <1>2, RaiseFrame, ProceedFrame DEF ReadRequest
  <2>2. op[c].order \in Orders /\ stage[op[c].order].status = REJECTED
    BY <1>0, <2>1 DEF Decides, CallWellFormed, DecisionStands, DecisionInForce, Verdict
  <2> QED BY <1>0, <2>2 DEF APPROVED, REJECTED
<1>3. CASE PlanNextStage(c)
  <2>1. ~AddsStage(c) /\ op[c].kind = "approve"
    BY <1>0, <1>3, RaiseFrame, ProceedFrame DEF PlanNextStage, Registers
  <2> QED BY <1>0, <2>1, StageAssumption DEF AddsStage, is_final_stage, Orders
<1>4. CASE CreateStage(c)
  <2>1. PICK r \in Replies, next \in {"advance", "rollback"} :
          /\ Reply(r, ~Exists(NewOrder(c)))
          /\ \E new : Statement(c, r, next, new, "stage")
    BY <1>4 DEF CreateStage
  <2>2. r = "ok"
    BY <1>0, <2>1, StatementFrame
  <2> QED BY <1>0, <2>1, <2>2, ReplyApplied DEF Applied, Exists, NewOrder
<1> QED BY <1>1, <1>2, <1>3, <1>4

\* The other statements leave the status and the pointer of the request alone.
LEMMA OtherPointer ==
    ASSUME OutcomeInv, OutcomeInv', AuthorInv, ChainInv, PointerInv, NEW c \in Calls, Step(c),
           ~CreateRequest(c), ~SetCurrentStage(c), ~RestoreRequest(c)
    PROVE  PointerInv'
<1>0. /\ TypeOK /\ Registers(c) /\ OthersKeep(c) /\ \A d \in Calls : SnapshotPoints(d)'
  BY StepFrame, SnapshotPointsStep DEF OutcomeInv, DecisionInv, AuthorInv
<1>1. /\ request'.status = request.status /\ request'.current = request.current
      /\ request'.version = request.version \/ request'.version = request.version + 1
  BY StepRequest
<1>2. ASSUME Clean', pc'[c] = "advance"
      PROVE  op' = op /\ \A d \in Calls : Moved(d) => op[d].order <= op[c].order
  <2>1. PredecessorsApproved /\ op' = op
    BY <1>2, CleanBefore, SnapshotKept DEF Clean, ChainInv
  <2> QED BY <1>2, <2>1, ComesFirst
<1>3. Clean' => /\ Clean
                /\ Moved(c)' <=> Moved(c)
                /\ Moved(c) => op'[c] = op[c] /\ seenReq'[c] = seenReq[c]
                /\ pc'[c] = "advance" => \A d \in Calls : Moved(d) => op[d].order <= op'[c].order
  BY <1>0, <1>2, CleanBefore, OtherMoved
<1> QED BY <1>0, <1>1, <1>3, PointerKept

LEMMA InitPointer == Init => PointerInv
BY DEF Init, PointerInv, SnapshotPoints, PointsToLatest, SnapshotsGoBack, OvertakenIsStale, Latest,
       Moved, OutcomeInForce, Decides, NoOp, Args

\* The invariant of the pointer is inductive together with the other three.
LEMMA NextPointer == OutcomeInv /\ AuthorInv /\ ChainInv /\ PointerInv /\ [Next]_vars => PointerInv'
<1> SUFFICES ASSUME OutcomeInv, AuthorInv, ChainInv, PointerInv, [Next]_vars PROVE PointerInv'
  OBVIOUS
<1>1. OutcomeInv'
  BY NextOutcome
<1>2. CASE UNCHANGED vars
  BY <1>2 DEF vars, PointerInv, SnapshotPoints, PointsToLatest, SnapshotsGoBack, OvertakenIsStale,
              Latest, Moved, OutcomeInForce, Decides, Says, Clean, NothingLeft, TargetStatus, AddsStage
<1>3. ASSUME NEW c \in Calls, Step(c) PROVE PointerInv'
  BY <1>1, <1>3, CreateRequestPointer, SetCurrentStagePointer, RestoreRequestPointer, OtherPointer
<1> QED BY <1>2, <1>3 DEF Next

LEMMA Smallest ==
    ASSUME NEW T \in SUBSET Nat, T # {}
    PROVE  \E x \in T : \A y \in T : x <= y
<1>1. PICK x \in T : \A y \in T : ~(<<y, x>> \in OpToRel(<, Nat))
  BY WFMin, NatLessThanWellFounded
<1>2. \A y \in T : ~(y < x)
  BY <1>1 DEF OpToRel
<1> QED BY <1>2

\* A set of numbers up to n that is not empty has a largest one.
LEMMA Largest ==
    ASSUME NEW n \in Nat, NEW S \in SUBSET (1 .. n), S # {}
    PROVE  \E k \in S : \A o \in S : o <= k
<1> DEFINE T == {n - o : o \in S}
<1>1. \A o \in S : n - o \in Nat /\ o \in Nat
  OBVIOUS
<1>2. T \in SUBSET Nat /\ T # {}
  BY <1>1
<1>3. PICK x \in T : \A y \in T : x <= y
  BY <1>2, Smallest
<1>4. PICK k \in S : x = n - k
  OBVIOUS
<1>5. ASSUME NEW o \in S PROVE o <= k
  <2>1. n - k <= n - o
    BY <1>3, <1>4
  <2> QED BY <1>1, <2>1
<1> QED BY <1>5

\* When nothing is in flight, calls whose effects are there are done, and the
\* last stage that is there tells where the request is.
LEMMA DoneMoved ==
    ASSUME OutcomeInv, AuthorInv, Quiescent, NEW c \in Calls,
           \/ Holds(c, "stage") /\ Decides(c)
           \/ DecisionInForce(c)
    PROVE  pc[c] = "done" /\ Moved(c)
<1>1. undo[c] = {} /\ pc[c] \in Ended \cup {"idle"}
  BY DEF Quiescent, AuthorInv, Registers, Ended
<1> QED BY <1>1 DEF Holds, Committed, DecisionInForce, Moved, OutcomeInForce, Ended

LEMMA LastStageTells ==
    ASSUME OutcomeInv, AuthorInv, ChainInv, PointerInv, Quiescent, Clean,
           NEW a \in Calls, op[a].kind = "create", pc[a] = "done",
           NEW k \in Orders, Exists(k), \A o \in Orders : Exists(o) => o <= k
    PROVE  \/ /\ stage[k].status = PENDING /\ request.current = stage[k].id
              /\ request.status = IF k = 1 THEN PENDING ELSE IN_REVIEW
           \/ /\ stage[k].status = APPROVED /\ k = NumStages
              /\ request.current = None /\ request.status = COMPLETED
           \/ /\ stage[k].status = REJECTED
              /\ request.current = None /\ request.status = REJECTED
<1> DEFINE x == stage[k].id
           d == stage[k].decided_by
<1>0. /\ TypeOK /\ PointsToLatest /\ StagesHeld /\ DecisionsHeld /\ RowHasAuthors(k)
      /\ x \in Calls /\ d \in Calls \cup {None} /\ k \in Nat
      /\ \A e \in Calls : CallWellFormed(e) /\ CreatedStays(e) /\ op[e].order \in Nat
  BY RequestVersions
     DEF OutcomeInv, DecisionInv, CallsWellFormed, ChainInv, PointerInv, Clean, AuthorInv, TypeOK, Row,
         Exists, Orders
<1>1. ASSUME NEW e \in Calls, Moved(e)
      PROVE  op[e].order <= k /\ (op[e].order = k => d = e)
  BY <1>0, <1>1, MovedCalls DEF Exists, Orders
<1>2. CASE d = None
  <2>1. AddsStage(x) /\ op[x].order + 1 = k /\ stage[k].status = PENDING
    BY <1>0, <1>2 DEF RowHasAuthors, Exists, NewOrder
  <2>2. Moved(x)
    <3>1. CASE op[x].kind = "create"
      BY <1>0, <3>1 DEF Moved, AuthorInv, OneCreates
    <3>2. CASE op[x].kind # "create"
      <4>1. Decides(x) /\ Holds(x, "stage")
        BY <1>0, <2>1, <3>2 DEF AddsStage, Decides, StagesHeld
      <4> QED BY <1>0, <4>1, DoneMoved
    <3> QED BY <3>1, <3>2
  <2>3. Latest(x, None)
    <3>1. ASSUME NEW e \in Calls, Moved(e) PROVE op[e].order <= op[x].order
      BY <1>0, <1>1, <1>2, <2>1, <3>1, NoneAssumption
    <3> QED BY <1>0, <2>2, <3>1, NoneAssumption DEF Latest
  <2>4. Says(request, x)
    BY <1>0, <2>3 DEF PointsToLatest
  <2>5. op[x].kind = "create" <=> k = 1
    BY <1>0, <2>1 DEF CallWellFormed, AddsStage, Decides, Orders
  <2>6. TargetStatus(x) = IF k = 1 THEN PENDING ELSE IN_REVIEW
    BY <2>1, <2>5 DEF TargetStatus, AddsStage
  <2> QED BY <2>1, <2>4, <2>6 DEF Says
<1>3. CASE d # None
  <2>1. /\ d \in Calls /\ Decides(d) /\ op[d].order = k /\ stage[k].status = Verdict(d)
        /\ pc[d] = "done" /\ Moved(d)
    BY <1>0, <1>3, DoneMoved DEF RowHasAuthors, DecisionsHeld, Exists
  <2>2. Says(request, d)
    <3>1. Latest(d, None)
      BY <1>0, <1>1, <2>1, NoneAssumption DEF Latest
    <3> QED BY <1>0, <2>1, <3>1 DEF PointsToLatest
  <2>3. ~AddsStage(d)
    <3> SUFFICES ASSUME AddsStage(d) PROVE FALSE
      OBVIOUS
    <3>1. NewOrder(d) = k + 1 /\ k + 1 \in Orders /\ stage[k + 1].id = d
      BY <1>0, <2>1, AddedOrder DEF NewOrder, CreatedStays
    <3> QED BY <1>0, <2>1, <3>1, NoneAssumption DEF Exists
  <2> QED BY <2>1, <2>2, <2>3 DEF Says, AddsStage, Decides, Verdict, TargetStatus, is_final_stage
<1> QED BY <1>2, <1>3

\* When nothing is in flight and no failed call has left anything behind, the
\* request agrees with its stages: it waits at the last one, or is complete, or
\* rejected (_advance_after_approval, _finalize_rejection and the compensations
\* of TransactionContext, whatever calls overlapped and were rolled back).
THEOREM QuiescentConsistency == Spec => []QuiescentConsistent
<1>1. OutcomeInv /\ AuthorInv /\ ChainInv /\ PointerInv => QuiescentConsistent
  <2> SUFFICES ASSUME OutcomeInv, AuthorInv, ChainInv, PointerInv, Quiescent, NothingLeft,
                      NEW a \in Calls, op[a].kind = "create", Committed(a)
               PROVE  Consistent
    BY DEF QuiescentConsistent
  <2>1. pc[a] = "done" /\ Clean
    BY DEF Quiescent, Committed, Ended, Clean, AuthorInv, OneCreates
  <2> DEFINE S == {o \in Orders : Exists(o)}
  <2>2. 1 \in S
    <3>1. CallWellFormed(a) /\ CreatedStays(a) /\ TypeOK
      BY DEF OutcomeInv, DecisionInv, CallsWellFormed, AuthorInv
    <3>2. NewOrder(a) = 1 /\ AddsStage(a)
      BY <3>1 DEF CallWellFormed, NewOrder, AddsStage
    <3> QED BY <2>1, <3>1, <3>2, AddedOrder, NoneAssumption DEF CreatedStays, Exists
  <2>3. PICK k \in S : \A o \in S : o <= k
    BY <2>2, Largest, StageAssumption DEF Orders
  <2>4. \A o \in Orders : (o < k => stage[o].status = APPROVED) /\ (o > k => ~Exists(o))
    BY <2>3 DEF ChainInv, PredecessorsApproved, Orders
  <2> QED BY <2>1, <2>3, <2>4, LastStageTells DEF Consistent
<1> QED
  BY <1>1, InitOutcome, NextOutcome, InitAuthor, NextAuthor, InitChain, NextChain, InitPointer,
     NextPointer, PTL DEF Spec
=============================================================================
