--------------------------- MODULE JobQueueProofs ---------------------------
(***************************************************************************)
(* Proofs about JobQueue, for every set of jobs and workers, every number  *)
(* of attempts, of retries by the administrator and of faults.             *)
(***************************************************************************)
EXTENDS JobQueue, TLAPS

-----------------------------------------------------------------------------
(* The inductive invariant                                                 *)

\* A worker has a job in hand exactly between BRPOP and the end of _process_one.
HandsFull ==
    \A w \in Workers : worker[w].pc \in {"idle", "dead"} <=> worker[w].job = None

\* No row is older than what a worker in a handler has read of it; if it is not
\* newer, the row is running and locked by that worker.
HolderPinned ==
    \A w \in Workers : worker[w].pc \in {"run", "succeed", "fail"} =>
        LET r == row[worker[w].job] IN
        /\ worker[w].version <= r.version
        /\ worker[w].version = r.version => r.status = "running" /\ r.locked_by = w

\* Worker w is what leads to job j: it has yet to load the row, has loaded the
\* version the row still has, or has written that version and is about to push.
WillAct(w, j) == worker[w].job = j /\ Leads(w, j)

\* Somebody or something leads to job j.
Pursued(j) ==
    \/ Pointed(j) \/ reaper.push = j
    \/ \E p \in pushing : p.job = j /\ p.by = "schedule"
    \/ \E w \in Workers : WillAct(w, j)

\* The states of a row the reaper does not look for.
Overlooked(r) == r.status = "retrying" \/ (r.status = "queued" /\ r.later)

\* A job in such a state is pursued, or what pursued this very row was lost.
NoneLost ==
    \A j \in Jobs : Overlooked(row[j]) => Pursued(j) \/ dropped[j] = row[j].version

JobInv ==
    /\ TypeOK /\ HandsFull /\ DeadLetteredIsExhausted /\ HolderPinned /\ NoneLost

-----------------------------------------------------------------------------
(* What the row operators return                                           *)

\* Columns of a jobs row are set to values of their types.
LEMMA SetColumns ==
    ASSUME NEW r \in JobRow, NEW s \in JobStatus, NEW n \in 0 .. MaxAttempts, NEW v \in Nat,
           NEW later \in BOOLEAN, NEW by \in Workers \cup {None}, NEW b \in BOOLEAN
    PROVE  /\ [r EXCEPT !.status = s, !.version = v] \in JobRow
           /\ [r EXCEPT !.status = s, !.attempts = n, !.version = v] \in JobRow
           /\ [r EXCEPT !.status = s, !.version = v, !.later = later] \in JobRow
           /\ [r EXCEPT !.status = s, !.attempts = n, !.later = later, !.version = v] \in JobRow
           /\ [r EXCEPT !.status = s, !.locked_by = by, !.overdue = b, !.version = v] \in JobRow
           /\ [r EXCEPT !.status = s, !.attempts = n, !.later = later, !.locked_by = by,
                        !.version = v] \in JobRow
           /\ [r EXCEPT !.aged = b] \in JobRow
           /\ [r EXCEPT !.overdue = b] \in JobRow
BY DEF JobRow

LEMMA Statuses ==
    {"queued", "running", "retrying", "succeeded", "dead_lettered"} \subseteq JobStatus
BY DEF JobStatus

LEMMA RowFields ==
    ASSUME NEW r \in JobRow
    PROVE  /\ r.version \in Nat /\ r.version + 1 \in Nat
           /\ r.attempts \in 0 .. MaxAttempts /\ r.attempts \in Nat
BY JobAssumption DEF JobRow

LEMMA NoJobRow == NoJob \in JobRow /\ NoJob.status = "none" /\ NoJob.version = 0
BY JobAssumption DEF NoJob, JobRow

LEMMA NewJobRow ==
    ASSUME NEW later \in BOOLEAN
    PROVE  LET r == [NoJob EXCEPT !.status = "queued", !.version = 1, !.later = later]
           IN  r \in JobRow /\ r.status = "queued" /\ r.version = 1 /\ r.later = later
<1>1. 1 \in Nat /\ 0 \in 0 .. MaxAttempts
  BY JobAssumption
<1> DEFINE s(r) == [r EXCEPT !.status = "queued", !.version = 1, !.later = later]
<1>2. s(NoJob) \in JobRow
  BY <1>1, NoJobRow, SetColumns, Statuses
<1>3. \A r \in JobRow : s(r).status = "queued" /\ s(r).version = 1 /\ s(r).later = later
  BY DEF JobRow
<1>4. s(NoJob).status = "queued" /\ s(NoJob).version = 1 /\ s(NoJob).later = later
  <2> HIDE DEF s
  <2> QED BY <1>3, NoJobRow
<1> QED BY <1>2, <1>4

LEMMA RetryingRow ==
    ASSUME NEW r \in JobRow, NEW n \in 0 .. MaxAttempts
    PROVE  /\ Retrying(r, n) \in JobRow
           /\ Retrying(r, n).status = "retrying"
           /\ Retrying(r, n).version = r.version + 1
<1>1. Retrying(r, n) \in JobRow
  BY SetColumns, Statuses, RowFields DEF Retrying
<1> QED BY <1>1 DEF Retrying, JobRow

LEMMA DeadLetteredRow ==
    ASSUME NEW r \in JobRow, NEW n \in 0 .. MaxAttempts
    PROVE  /\ DeadLettered(r, n) \in JobRow
           /\ DeadLettered(r, n).status = "dead_lettered"
           /\ DeadLettered(r, n).attempts = n
           /\ DeadLettered(r, n).version = r.version + 1
<1>1. DeadLettered(r, n) \in JobRow
  BY SetColumns, Statuses, RowFields DEF DeadLettered
<1> QED BY <1>1 DEF DeadLettered, JobRow

LEMMA RunningRow ==
    ASSUME NEW r \in JobRow, NEW w \in Workers
    PROVE  LET s == [r EXCEPT !.status = "running", !.locked_by = w, !.overdue = FALSE,
                              !.version = @ + 1]
           IN  /\ s \in JobRow /\ s.status = "running" /\ s.locked_by = w
               /\ s.version = r.version + 1
<1>1. [r EXCEPT !.status = "running", !.locked_by = w, !.overdue = FALSE, !.version = @ + 1]
          \in JobRow
  BY SetColumns, Statuses, RowFields
<1> QED BY <1>1 DEF JobRow

LEMMA RequeuedRow ==
    ASSUME NEW r \in JobRow
    PROVE  LET s == [r EXCEPT !.status = "queued", !.attempts = 0, !.later = FALSE,
                              !.locked_by = None, !.version = @ + 1]
           IN  s \in JobRow /\ s.status = "queued" /\ ~s.later /\ s.version = r.version + 1
<1>1. 0 \in 0 .. MaxAttempts
  BY JobAssumption
<1>2. [r EXCEPT !.status = "queued", !.attempts = 0, !.later = FALSE, !.locked_by = None,
                !.version = @ + 1] \in JobRow
  BY <1>1, SetColumns, Statuses, RowFields
<1> QED BY <1>2 DEF JobRow

LEMMA SucceededRow ==
    ASSUME NEW r \in JobRow
    PROVE  LET s == [r EXCEPT !.status = "succeeded", !.version = @ + 1]
           IN  s \in JobRow /\ s.status = "succeeded" /\ s.version = r.version + 1
<1>1. [r EXCEPT !.status = "succeeded", !.version = @ + 1] \in JobRow
  BY SetColumns, Statuses, RowFields
<1> QED BY <1>1 DEF JobRow

LEMMA OlderRow ==
    ASSUME NEW r \in JobRow
    PROVE  \A s \in {[r EXCEPT !.aged = TRUE], [r EXCEPT !.overdue = TRUE]} :
             /\ s \in JobRow /\ s.version = r.version /\ s.status = r.status
             /\ s.attempts = r.attempts /\ s.locked_by = r.locked_by /\ s.later = r.later
<1>1. [r EXCEPT !.aged = TRUE] \in JobRow /\ [r EXCEPT !.overdue = TRUE] \in JobRow
  BY DEF JobRow
<1> QED BY <1>1 DEF JobRow

-----------------------------------------------------------------------------
(* Types, and the attempts of a dead-lettered job                          *)

WorkerPcs == {"idle", "load", "mark", "run", "succeed", "fail", "push", "dead"}

WorkerRecord ==
    [pc: WorkerPcs, job: Jobs \cup {None}, version: Nat, attempts: 0 .. MaxAttempts]

FoundRecord == [job: Jobs, version: Nat, attempts: 0 .. MaxAttempts]

\* The parts of the invariant that look at one row or one worker at a time.
Shape == TypeOK /\ HandsFull /\ DeadLetteredIsExhausted

LEMMA ShapeFacts ==
    ASSUME Shape
    PROVE  /\ row \in [Jobs -> JobRow]
           /\ \A j \in Jobs : row[j].status = "dead_lettered" => row[j].attempts = MaxAttempts
           /\ worker \in [Workers -> WorkerRecord]
           /\ \A w \in Workers : worker[w].pc \notin {"idle", "dead"} => worker[w].job \in Jobs
           /\ reaper \in [found: SUBSET FoundRecord, push: Jobs \cup {None}]
           /\ budget \in [faults: Nat, retries: Nat] /\ dropped \in [Jobs -> Nat]
           /\ ready \in [Jobs -> Nat] /\ delayed \subseteq Jobs
           /\ pushing \subseteq [job: Jobs, by: {"enqueue", "schedule", "retry"}]
BY DEF Shape, TypeOK, HandsFull, DeadLetteredIsExhausted, WorkerRecord, WorkerPcs, FoundRecord

LEMMA WorkerFields ==
    ASSUME NEW x \in WorkerRecord
    PROVE  x.version \in Nat /\ x.attempts \in 0 .. MaxAttempts /\ x.attempts \in Nat
BY JobAssumption DEF WorkerRecord

\* The operators that move a worker.
LEMMA WorkerMoves ==
    ASSUME NEW x \in WorkerRecord, NEW pc \in WorkerPcs, NEW v \in Nat,
           NEW n \in 0 .. MaxAttempts
    PROVE  /\ [x EXCEPT !.pc = pc] \in WorkerRecord
           /\ [x EXCEPT !.pc = pc, !.version = v] \in WorkerRecord
           /\ [x EXCEPT !.pc = pc, !.version = v, !.attempts = n] \in WorkerRecord
BY DEF WorkerRecord

LEMMA IdleMoves ==
    ASSUME NEW pc \in WorkerPcs, NEW j \in Jobs
    PROVE  /\ Idle \in WorkerRecord
           /\ [Idle EXCEPT !.pc = pc] \in WorkerRecord
           /\ [Idle EXCEPT !.pc = pc].job = None /\ [Idle EXCEPT !.pc = pc].pc = pc
           /\ [Idle EXCEPT !.pc = pc, !.job = j] \in WorkerRecord
           /\ [Idle EXCEPT !.pc = pc, !.job = j].job = j
           /\ [Idle EXCEPT !.pc = pc, !.job = j].pc = pc
<1>1. 0 \in 0 .. MaxAttempts /\ "idle" \in WorkerPcs
  BY JobAssumption DEF WorkerPcs
<1>2. Idle \in WorkerRecord
  BY <1>1 DEF Idle, WorkerRecord
<1>3. \A x \in WorkerRecord :
        /\ [x EXCEPT !.pc = pc] \in WorkerRecord
        /\ [x EXCEPT !.pc = pc, !.job = j] \in WorkerRecord
  BY DEF WorkerRecord
<1>4. /\ [Idle EXCEPT !.pc = pc].job = None /\ [Idle EXCEPT !.pc = pc].pc = pc
      /\ [Idle EXCEPT !.pc = pc, !.job = j].job = j
      /\ [Idle EXCEPT !.pc = pc, !.job = j].pc = pc
  BY DEF Idle
<1> QED BY <1>2, <1>3, <1>4

LEMMA FaultStep ==
    ASSUME Shape, Fault
    PROVE  budget' \in [faults: Nat, retries: Nat]
BY DEF Shape, TypeOK, Fault

\* A new row keeps the shape.
LEMMA RowShape ==
    ASSUME Shape, NEW j \in Jobs, NEW r \in JobRow,
           r.status = "dead_lettered" => r.attempts = MaxAttempts,
           row' = [row EXCEPT ![j] = r]
    PROVE  row' \in [Jobs -> JobRow] /\ DeadLetteredIsExhausted'
BY DEF Shape, TypeOK, DeadLetteredIsExhausted

\* So does a worker with a job or without.
LEMMA WorkerShape ==
    ASSUME Shape, NEW w \in Workers, NEW x \in WorkerRecord,
           x.pc \in {"idle", "dead"} <=> x.job = None,
           worker' = [worker EXCEPT ![w] = x]
    PROVE  worker' \in [Workers -> WorkerRecord] /\ HandsFull'
BY DEF Shape, TypeOK, HandsFull, WorkerRecord, WorkerPcs

-----------------------------------------------------------------------------
(* How rows and workers may change, and what that keeps                    *)

\* Two versions of a row agree on what the other actors look at.
SameHold(r, s) ==
    /\ s.version = r.version /\ s.status = r.status
    /\ s.locked_by = r.locked_by /\ s.later = r.later

\* A statement that changes a row raises its version; time does not.
RowsAdvance ==
    \A j \in Jobs : row'[j].version > row[j].version \/ SameHold(row[j], row'[j])

\* No worker gets into a handler, or changes hands within one.
NobodyStarts ==
    \A w \in Workers : worker'[w].pc \in {"run", "succeed", "fail"} =>
        /\ worker[w].pc \in {"run", "succeed", "fail"}
        /\ worker'[w].job = worker[w].job /\ worker'[w].version = worker[w].version

LEMMA OneRow ==
    ASSUME Shape, NEW j \in Jobs, NEW r \in JobRow, row' = [row EXCEPT ![j] = r],
           r.version > row[j].version \/ SameHold(row[j], r)
    PROVE  RowsAdvance
BY DEF Shape, TypeOK, RowsAdvance, SameHold

LEMMA NoRow == ASSUME row' = row PROVE RowsAdvance
BY DEF RowsAdvance, SameHold

LEMMA HolderKept ==
    ASSUME Shape, Shape', HolderPinned, RowsAdvance, NobodyStarts
    PROVE  HolderPinned'
<1> SUFFICES ASSUME NEW w \in Workers, worker'[w].pc \in {"run", "succeed", "fail"}
             PROVE  LET r == row'[worker'[w].job] IN
                    /\ worker'[w].version <= r.version
                    /\ worker'[w].version = r.version => r.status = "running" /\ r.locked_by = w
  BY DEF HolderPinned
<1> DEFINE j == worker[w].job
<1>1. /\ worker[w].pc \in {"run", "succeed", "fail"}
      /\ worker'[w].job = j /\ worker'[w].version = worker[w].version
  BY DEF NobodyStarts
<1>2. j \in Jobs
  BY <1>1, ShapeFacts
<1>3. row[j] \in JobRow /\ row'[j] \in JobRow /\ worker[w] \in WorkerRecord
  BY <1>2, ShapeFacts DEF Shape, TypeOK
<1>4. row[j].version \in Nat /\ row'[j].version \in Nat /\ worker[w].version \in Nat
  BY <1>3, RowFields, WorkerFields
<1>5. /\ worker[w].version <= row[j].version
      /\ worker[w].version = row[j].version => row[j].status = "running" /\ row[j].locked_by = w
  BY <1>1 DEF HolderPinned
<1>6. row'[j].version > row[j].version \/ SameHold(row[j], row'[j])
  BY <1>2 DEF RowsAdvance
<1> QED BY <1>1, <1>4, <1>5, <1>6 DEF SameHold

\* The invariant from its parts.
LEMMA InvFromParts ==
    ASSUME Shape', HolderPinned', NoneLost'
    PROVE  JobInv'
BY DEF JobInv, Shape

\* It is enough that every overlooked row is pursued that was so or has changed.
LEMMA NoneLostKept ==
    ASSUME JobInv, UNCHANGED dropped,
           \A j \in Jobs : Overlooked(row'[j]) =>
               \/ /\ Overlooked(row[j]) /\ row'[j].version = row[j].version
                  /\ Pursued(j) => Pursued(j)'
               \/ Pursued(j)'
    PROVE  NoneLost'
BY DEF JobInv, NoneLost

\* A fault that loses what led to job k, or loses nothing, is written down.
LEMMA DropStep ==
    ASSUME JobInv, NEW k \in Jobs, NEW lost, DropIf(k, lost), UNCHANGED row,
           \A j \in Jobs : Pursued(j) => Pursued(j)' \/ (j = k /\ lost) \/ ~Overlooked(row[j])
    PROVE  dropped' \in [Jobs -> Nat] /\ NoneLost'
<1>1. row[k] \in JobRow /\ dropped \in [Jobs -> Nat]
  BY DEF JobInv, TypeOK
<1>2. row[k].version \in Nat
  BY <1>1, RowFields
<1>3. \A j \in Jobs : dropped'[j] = IF j = k /\ lost THEN row[k].version ELSE dropped[j]
  BY <1>1 DEF DropIf
<1>4. dropped' \in [Jobs -> Nat]
  BY <1>1, <1>2 DEF DropIf
<1>5. NoneLost'
  BY <1>3 DEF JobInv, NoneLost
<1> QED BY <1>4, <1>5

LEMMA InvShape == ASSUME JobInv PROVE Shape
BY DEF JobInv, Shape

-----------------------------------------------------------------------------
(* One lemma per action                                                    *)

LEMMA CreateJobStep ==
    ASSUME JobInv, NEW k \in Jobs, NEW later \in BOOLEAN, CreateJob(k, later)
    PROVE  JobInv'
<1> DEFINE r == [NoJob EXCEPT !.status = "queued", !.version = 1, !.later = later]
           q == [job |-> k, by |-> IF later THEN "schedule" ELSE "enqueue"]
<1>0. Shape
  BY InvShape
<1>1. /\ row[k] = NoJob /\ row' = [row EXCEPT ![k] = r] /\ pushing' = pushing \cup {q}
      /\ UNCHANGED <<ready, delayed, worker, reaper, dropped, budget>>
  BY DEF CreateJob, Touch
<1>2. r \in JobRow /\ r.status = "queued" /\ r.version = 1 /\ r.later = later
  BY NewJobRow
<1>3. Shape'
  <2>1. row' \in [Jobs -> JobRow] /\ DeadLetteredIsExhausted'
    BY <1>0, <1>1, <1>2, RowShape
  <2>2. q \in [job: Jobs, by: {"enqueue", "schedule", "retry"}]
    OBVIOUS
  <2> QED BY <1>0, <1>1, <2>1, <2>2 DEF Shape, TypeOK, HandsFull
<1>4. HolderPinned'
  <2> HIDE DEF r
  <2>0. r.version > row[k].version
    BY <1>1, <1>2, NoJobRow
  <2>1. RowsAdvance
    BY <1>0, <1>1, <1>2, <2>0, OneRow
  <2>2. NobodyStarts
    BY <1>1 DEF NobodyStarts
  <2> QED BY <1>0, <1>3, <2>1, <2>2, HolderKept DEF JobInv
<1>5. NoneLost'
  <2>1. SUFFICES ASSUME NEW j \in Jobs, Overlooked(row'[j])
                 PROVE  \/ /\ Overlooked(row[j]) /\ row'[j].version = row[j].version
                           /\ Pursued(j) => Pursued(j)'
                        \/ Pursued(j)'
    BY <1>1, NoneLostKept
  <2>2. CASE j = k
    <3>1. later
      BY <1>0, <1>1, <1>2, <2>1, <2>2 DEF Overlooked, Shape, TypeOK
    <3>2. q \in pushing' /\ q.job = k /\ q.by = "schedule"
      BY <1>1, <3>1
    <3> QED BY <2>2, <3>2 DEF Pursued
  <2>3. CASE j # k
    <3>1. row'[j] = row[j]
      BY <1>0, <1>1, <2>3 DEF Shape, TypeOK
    <3> QED BY <1>1, <2>1, <3>1 DEF Pursued, Pointed, WillAct, Leads, At, Pinned
  <2> QED BY <2>2, <2>3
<1> QED BY <1>1, <1>3, <1>4, <1>5, InvFromParts

LEMMA RetryDeadLetterStep ==
    ASSUME JobInv, NEW k \in Jobs, RetryDeadLetter(k)
    PROVE  JobInv'
<1> DEFINE r == [row[k] EXCEPT !.status = "queued", !.attempts = 0, !.later = FALSE,
                               !.locked_by = None, !.version = @ + 1]
           q == [job |-> k, by |-> "retry"]
<1>0. Shape
  BY InvShape
<1>1. /\ budget.retries > 0 /\ budget' = [budget EXCEPT !.retries = @ - 1]
      /\ row' = [row EXCEPT ![k] = r] /\ pushing' = pushing \cup {q}
      /\ UNCHANGED <<ready, delayed, worker, reaper, dropped>>
  BY DEF RetryDeadLetter, Touch
<1>2. /\ r \in JobRow /\ r.status = "queued" /\ ~r.later /\ r.version = row[k].version + 1
      /\ row[k] \in JobRow
  BY <1>0, ShapeFacts, RequeuedRow
<1>3. budget' \in [faults: Nat, retries: Nat] /\ budget'.faults = budget.faults
  BY <1>0, <1>1 DEF Shape, TypeOK
<1>4. Shape'
  <2>1. row' \in [Jobs -> JobRow] /\ DeadLetteredIsExhausted'
    BY <1>0, <1>1, <1>2, RowShape
  <2>2. q \in [job: Jobs, by: {"enqueue", "schedule", "retry"}]
    OBVIOUS
  <2> QED BY <1>0, <1>1, <1>3, <2>1, <2>2 DEF Shape, TypeOK, HandsFull
<1>5. HolderPinned'
  <2> HIDE DEF r
  <2>0. r.version > row[k].version
    BY <1>2, RowFields
  <2>1. RowsAdvance
    BY <1>0, <1>1, <1>2, <2>0, OneRow
  <2>2. NobodyStarts
    BY <1>1 DEF NobodyStarts
  <2> QED BY <1>0, <1>4, <2>1, <2>2, HolderKept DEF JobInv
<1>6. NoneLost'
  <2>1. SUFFICES ASSUME NEW j \in Jobs, Overlooked(row'[j])
                 PROVE  \/ /\ Overlooked(row[j]) /\ row'[j].version = row[j].version
                           /\ Pursued(j) => Pursued(j)'
                        \/ Pursued(j)'
    BY <1>1, NoneLostKept
  <2>2. CASE j = k
    BY <1>0, <1>1, <1>2, <2>1, <2>2 DEF Overlooked, Shape, TypeOK
  <2>3. CASE j # k
    <3>1. row'[j] = row[j]
      BY <1>0, <1>1, <2>3 DEF Shape, TypeOK
    <3> QED BY <1>1, <2>1, <3>1 DEF Pursued, Pointed, WillAct, Leads, At, Pinned
  <2> QED BY <2>2, <2>3
<1> QED BY <1>3, <1>4, <1>5, <1>6, InvFromParts

LEMMA PushStep ==
    ASSUME JobInv, NEW p \in pushing, Push(p)
    PROVE  JobInv'
<1>0. Shape
  BY InvShape
<1>1. /\ pushing' = pushing \ {p} /\ UNCHANGED <<row, worker, reaper>>
      /\ p.job \in Jobs /\ ready \in [Jobs -> Nat] /\ delayed \subseteq Jobs
  BY <1>0, ShapeFacts DEF Push
<1>2. CASE Fault /\ UNCHANGED <<ready, delayed>> /\ DropIf(p.job, p.by = "schedule")
  <2>0. \A j \in Jobs : Pursued(j) => Pursued(j)' \/ (j = p.job /\ p.by = "schedule")
    BY <1>1, <1>2 DEF Pursued, Pointed, WillAct, Leads, At, Pinned
  <2>3. dropped' \in [Jobs -> Nat] /\ NoneLost'
    BY <1>1, <1>2, <2>0, DropStep
  <2>1. Shape'
    BY <1>0, <1>1, <1>2, <2>3, FaultStep DEF Shape, TypeOK, HandsFull, DeadLetteredIsExhausted
  <2>2. HolderPinned'
    BY <1>1 DEF JobInv, HolderPinned
  <2> QED BY <2>1, <2>2, <2>3, InvFromParts
<1>3. CASE /\ UNCHANGED <<dropped, budget>>
           /\ \/ delayed' = delayed \cup {p.job} /\ UNCHANGED ready
              \/ ready' = [ready EXCEPT ![p.job] = @ + 1] /\ UNCHANGED delayed
  <2>1. /\ ready' \in [Jobs -> Nat] /\ delayed' \subseteq Jobs
        /\ \A j \in Jobs : Pointed(j) => Pointed(j)'
        /\ Pointed(p.job)'
    BY <1>1, <1>3 DEF Pointed
  <2>2. Shape'
    BY <1>0, <1>1, <1>3, <2>1 DEF Shape, TypeOK, HandsFull, DeadLetteredIsExhausted
  <2>3. HolderPinned'
    BY <1>1 DEF JobInv, HolderPinned
  <2>4. \A j \in Jobs : Pursued(j) => Pursued(j)'
    BY <1>1, <2>1 DEF Pursued, WillAct, Leads, At, Pinned
  <2>5. NoneLost'
    BY <1>1, <1>3, <2>4, NoneLostKept
  <2> QED BY <1>3, <2>2, <2>3, <2>5, InvFromParts
<1> QED BY <1>2, <1>3 DEF Push

LEMMA PromoteDueStep ==
    ASSUME JobInv, NEW k \in Jobs, PromoteDue(k)
    PROVE  JobInv'
<1>0. Shape
  BY InvShape
<1>1. /\ k \in delayed /\ delayed' = delayed \ {k} /\ ready' = [ready EXCEPT ![k] = @ + 1]
      /\ ready \in [Jobs -> Nat] /\ delayed \subseteq Jobs
      /\ UNCHANGED <<row, pushing, worker, reaper, dropped, budget>>
  BY <1>0, ShapeFacts DEF PromoteDue
<1>2. /\ ready' \in [Jobs -> Nat] /\ delayed' \subseteq Jobs
      /\ \A j \in Jobs : Pointed(j) => Pointed(j)'
  BY <1>1 DEF Pointed
<1>3. Shape'
  BY <1>0, <1>1, <1>2 DEF Shape, TypeOK, HandsFull, DeadLetteredIsExhausted
<1>4. HolderPinned'
  BY <1>1 DEF JobInv, HolderPinned
<1>5. \A j \in Jobs : Pursued(j) => Pursued(j)'
  BY <1>1, <1>2 DEF Pursued, WillAct, Leads, At, Pinned
<1>6. NoneLost'
  BY <1>1, <1>5, NoneLostKept
<1> QED BY <1>1, <1>3, <1>4, <1>6, InvFromParts

\* GrowOld and Overrun.
LEMMA TimeStep ==
    ASSUME JobInv, NEW k \in Jobs, GrowOld(k) \/ Overrun(k)
    PROVE  JobInv'
<1>0. Shape
  BY InvShape
<1>1. PICK s \in {[row[k] EXCEPT !.aged = TRUE], [row[k] EXCEPT !.overdue = TRUE]} :
        row' = [row EXCEPT ![k] = s]
  BY DEF GrowOld, Overrun, Touch
<1>2. UNCHANGED <<ready, delayed, pushing, worker, reaper, dropped, budget>>
  BY DEF GrowOld, Overrun
<1>a. row[k] \in JobRow
  BY <1>0, ShapeFacts
<1>3. /\ row[k] \in JobRow /\ s \in JobRow /\ SameHold(row[k], s)
      /\ s.attempts = row[k].attempts
  BY <1>a, OlderRow, Zenon DEF SameHold
<1>4. \A j \in Jobs : SameHold(row[j], row'[j])
  BY <1>0, <1>1, <1>3 DEF Shape, TypeOK, SameHold
<1>5. Shape'
  <2>1. s.status = "dead_lettered" => s.attempts = MaxAttempts
    BY <1>0, <1>3, ShapeFacts DEF SameHold
  <2>2. row' \in [Jobs -> JobRow] /\ DeadLetteredIsExhausted'
    BY <1>0, <1>1, <1>3, <2>1, RowShape
  <2> QED BY <1>0, <1>2, <2>2 DEF Shape, TypeOK, HandsFull
<1>6. HolderPinned'
  <2>1. RowsAdvance
    BY <1>4 DEF RowsAdvance
  <2>2. NobodyStarts
    BY <1>2 DEF NobodyStarts
  <2> QED BY <1>0, <1>5, <2>1, <2>2, HolderKept DEF JobInv
<1>7. NoneLost'
  <2>1. \A j \in Jobs : Pursued(j) => Pursued(j)'
    BY <1>2, <1>4 DEF Pursued, Pointed, WillAct, Leads, At, Pinned, SameHold
  <2>2. \A j \in Jobs : /\ Overlooked(row'[j]) => Overlooked(row[j])
                        /\ row'[j].version = row[j].version
    BY <1>4 DEF Overlooked, SameHold
  <2> QED BY <1>2, <2>1, <2>2, NoneLostKept
<1> QED BY <1>2, <1>5, <1>6, <1>7, InvFromParts

\* A step of one worker that leaves it outside every handler, or in the one it
\* was in, starts nobody.
LEMMA OneWorker ==
    ASSUME Shape, NEW w \in Workers, NEW x \in WorkerRecord, worker' = [worker EXCEPT ![w] = x],
           \/ x.pc \notin {"run", "succeed", "fail"}
           \/ /\ worker[w].pc \in {"run", "succeed", "fail"}
              /\ x.job = worker[w].job /\ x.version = worker[w].version
    PROVE  NobodyStarts
BY ShapeFacts DEF NobodyStarts

\* Goto and Leave as replacements of the worker's record.
LEMMA Moves ==
    ASSUME Shape, NEW w \in Workers, NEW pc \in WorkerPcs
    PROVE  /\ Goto(w, pc) => /\ worker' = [worker EXCEPT ![w] = [worker[w] EXCEPT !.pc = pc]]
                             /\ [worker[w] EXCEPT !.pc = pc] \in WorkerRecord
                             /\ [worker[w] EXCEPT !.pc = pc].pc = pc
                             /\ [worker[w] EXCEPT !.pc = pc].job = worker[w].job
                             /\ [worker[w] EXCEPT !.pc = pc].version = worker[w].version
           /\ Leave(w, pc) => worker' = [worker EXCEPT ![w] = [Idle EXCEPT !.pc = pc]]
           /\ [Idle EXCEPT !.pc = pc] \in WorkerRecord
           /\ [Idle EXCEPT !.pc = pc].pc = pc /\ [Idle EXCEPT !.pc = pc].job = None
<1>1. worker[w] \in WorkerRecord /\ worker \in [Workers -> WorkerRecord]
  BY ShapeFacts
<1>2. /\ [worker[w] EXCEPT !.pc = pc] \in WorkerRecord
      /\ [worker[w] EXCEPT !.pc = pc].pc = pc
      /\ [worker[w] EXCEPT !.pc = pc].job = worker[w].job
      /\ [worker[w] EXCEPT !.pc = pc].version = worker[w].version
  BY <1>1 DEF WorkerRecord
<1>3. /\ [Idle EXCEPT !.pc = pc] \in WorkerRecord
      /\ [Idle EXCEPT !.pc = pc].pc = pc /\ [Idle EXCEPT !.pc = pc].job = None
  <2>1. 0 \in 0 .. MaxAttempts /\ "idle" \in WorkerPcs
    BY JobAssumption DEF WorkerPcs
  <2>2. Idle \in WorkerRecord
    BY <2>1 DEF Idle, WorkerRecord
  <2>3. \A x \in WorkerRecord : [x EXCEPT !.pc = pc] \in WorkerRecord
    BY DEF WorkerRecord
  <2> QED BY <2>2, <2>3 DEF Idle
<1> QED BY <1>1, <1>2, <1>3 DEF Goto, Leave

LEMMA Pcs == {"idle", "load", "mark", "run", "succeed", "fail", "push", "dead"} \subseteq WorkerPcs
BY DEF WorkerPcs

\* The part of the state only the API, Redis and the reaper touch.
Rest == <<ready, delayed, pushing, reaper, dropped, budget>>

\* A worker that moves on without a statement, away from a job that it would
\* not have acted on or to a place from which it will.
LEMMA WorkerAlone ==
    ASSUME JobInv, NEW w \in Workers, NEW x \in WorkerRecord,
           worker' = [worker EXCEPT ![w] = x], UNCHANGED row, UNCHANGED Rest,
           x.pc \in {"idle", "dead"} <=> x.job = None,
           \/ x.pc \notin {"run", "succeed", "fail"}
           \/ /\ worker[w].pc \in {"run", "succeed", "fail"}
              /\ x.job = worker[w].job /\ x.version = worker[w].version,
           \A j \in Jobs : ~WillAct(w, j)
    PROVE  JobInv'
<1>0. Shape /\ worker \in [Workers -> WorkerRecord]
  BY InvShape, ShapeFacts
<1>1. worker' \in [Workers -> WorkerRecord] /\ HandsFull'
  BY <1>0, WorkerShape
<1>2. Shape'
  BY <1>0, <1>1 DEF Shape, TypeOK, DeadLetteredIsExhausted, WorkerRecord, WorkerPcs, Rest
<1>3. HolderPinned'
  <2>1. RowsAdvance /\ NobodyStarts
    BY <1>0, NoRow, OneWorker
  <2> QED BY <1>0, <1>2, <2>1, HolderKept DEF JobInv
<1>4. NoneLost'
  <2>1. SUFFICES ASSUME NEW j \in Jobs, Pursued(j) PROVE Pursued(j)'
    BY NoneLostKept DEF Rest
  <2>2. \A v \in Workers : WillAct(v, j) => WillAct(v, j)'
    BY <1>0 DEF WillAct, Leads, At, Pinned
  <2> QED BY <2>1, <2>2 DEF Pursued, Pointed, Rest
<1> QED BY <1>2, <1>3, <1>4, InvFromParts DEF Rest

\* A worker's update of the job it has in hand.
LEMMA WorkerUpdate ==
    ASSUME JobInv, NEW w \in Workers, NEW x \in WorkerRecord, NEW k \in Jobs, NEW r \in JobRow,
           worker[w].job = k, worker' = [worker EXCEPT ![w] = x],
           row' = [row EXCEPT ![k] = r], UNCHANGED Rest,
           r.version = row[k].version + 1,
           r.status = "dead_lettered" => r.attempts = MaxAttempts,
           Overlooked(r) => x.pc = "push" /\ x.job = k /\ r.version = x.version + 1,
           x.pc \in {"idle", "dead"} <=> x.job = None,
           \/ x.pc \notin {"run", "succeed", "fail"}
           \/ /\ x.pc = "run" /\ x.job = k /\ x.version = r.version
              /\ r.status = "running" /\ r.locked_by = w
    PROVE  JobInv'
<1>0. Shape /\ worker \in [Workers -> WorkerRecord] /\ row \in [Jobs -> JobRow]
  BY InvShape, ShapeFacts
<1>1. worker' \in [Workers -> WorkerRecord] /\ HandsFull'
  BY <1>0, WorkerShape
<1>2. row' \in [Jobs -> JobRow] /\ DeadLetteredIsExhausted'
  BY <1>0, RowShape
<1>3. Shape'
  BY <1>0, <1>1, <1>2 DEF Shape, TypeOK, WorkerRecord, WorkerPcs, Rest
<1>4. row[k].version \in Nat /\ r.version > row[k].version
  BY <1>0, RowFields
<1>5. HolderPinned'
  <2>1. RowsAdvance
    BY <1>0, <1>4, OneRow
  <2>2. SUFFICES ASSUME NEW v \in Workers, worker'[v].pc \in {"run", "succeed", "fail"}
                 PROVE  LET s == row'[worker'[v].job] IN
                        /\ worker'[v].version <= s.version
                        /\ worker'[v].version = s.version => s.status = "running" /\ s.locked_by = v
    BY DEF HolderPinned
  <2>3. CASE v = w
    BY <1>0, <1>4, <2>2, <2>3
  <2>4. CASE v # w
    <3>1. worker'[v] = worker[v] /\ worker[v].job \in Jobs /\ worker[v] \in WorkerRecord
      BY <1>0, <2>2, <2>4, ShapeFacts
    <3>2. worker[v].version \in Nat /\ row[worker[v].job].version \in Nat
      BY <1>0, <3>1, RowFields, WorkerFields
    <3>3. /\ worker[v].version <= row[worker[v].job].version
          /\ worker[v].version = row[worker[v].job].version =>
                row[worker[v].job].status = "running" /\ row[worker[v].job].locked_by = v
      BY <2>2, <3>1 DEF JobInv, HolderPinned
    <3>4. CASE worker[v].job = k
      BY <1>0, <1>4, <3>1, <3>2, <3>3, <3>4
    <3>5. CASE worker[v].job # k
      BY <1>0, <3>1, <3>3, <3>5
    <3> QED BY <3>4, <3>5
  <2> QED BY <2>3, <2>4
<1>6. NoneLost'
  <2>1. SUFFICES ASSUME NEW j \in Jobs, Overlooked(row'[j])
                 PROVE  \/ /\ Overlooked(row[j]) /\ row'[j].version = row[j].version
                           /\ Pursued(j) => Pursued(j)'
                        \/ Pursued(j)'
    BY NoneLostKept DEF Rest
  <2>2. CASE j = k
    <3>1. /\ worker'[w].pc = "push" /\ worker'[w].job = k
          /\ row'[k].version = worker'[w].version + 1
      BY <1>0, <2>1, <2>2
    <3> QED BY <2>2, <3>1 DEF Pursued, WillAct, Leads, At, Pinned
  <2>3. CASE j # k
    <3>1. row'[j] = row[j]
      BY <1>0, <2>3
    <3>2. \A v \in Workers : WillAct(v, j) => WillAct(v, j)'
      BY <1>0, <2>3, <3>1 DEF WillAct, Leads, At, Pinned
    <3> QED BY <2>1, <3>1, <3>2 DEF Pursued, Pointed, Rest
  <2> QED BY <2>2, <2>3
<1> QED BY <1>3, <1>5, <1>6, InvFromParts DEF Rest

LEMMA DequeueStep ==
    ASSUME JobInv, NEW w \in Workers, Dequeue(w)
    PROVE  JobInv'
<1>0. Shape /\ worker \in [Workers -> WorkerRecord] /\ ready \in [Jobs -> Nat]
  BY InvShape, ShapeFacts
<1>1. PICK k \in Jobs : /\ ready[k] > 0 /\ ready' = [ready EXCEPT ![k] = @ - 1]
                       /\ worker' = [worker EXCEPT ![w] = [Idle EXCEPT !.pc = "load", !.job = k]]
  BY DEF Dequeue
<1>2. At(w, "idle") /\ UNCHANGED <<row, delayed, pushing, reaper, dropped, budget>>
  BY DEF Dequeue
<1> DEFINE x == [Idle EXCEPT !.pc = "load", !.job = k]
<1>3. x \in WorkerRecord /\ x.pc = "load" /\ x.job = k
  BY IdleMoves, Pcs
<1>a. worker' = [worker EXCEPT ![w] = x]
  BY <1>1
<1> HIDE DEF x
<1>4. ready' \in [Jobs -> Nat]
  BY <1>0, <1>1
<1>5. worker' \in [Workers -> WorkerRecord] /\ HandsFull'
  BY <1>0, <1>3, <1>a, JobAssumption, WorkerShape
<1>6. Shape'
  BY <1>0, <1>2, <1>4, <1>5 DEF Shape, TypeOK, DeadLetteredIsExhausted, WorkerRecord, WorkerPcs
<1>7. HolderPinned'
  <2>1. RowsAdvance /\ NobodyStarts
    BY <1>0, <1>2, <1>3, <1>a, NoRow, OneWorker
  <2> QED BY <1>0, <1>6, <2>1, HolderKept DEF JobInv
<1>8. NoneLost'
  <2>1. SUFFICES ASSUME NEW j \in Jobs, Pursued(j) PROVE Pursued(j)'
    BY <1>2, NoneLostKept
  <2>2. CASE j = k
    <3>1. WillAct(w, k)'
      BY <1>0, <1>3, <1>a DEF WillAct, Leads, At, Pinned
    <3> QED BY <2>2, <3>1 DEF Pursued
  <2>3. CASE j # k
    <3>1. \A v \in Workers : WillAct(v, j) => WillAct(v, j)'
      BY <1>0, <1>2, <1>a DEF WillAct, Leads, At, Pinned
    <3>2. ready'[j] = ready[j]
      BY <1>0, <1>1, <2>3
    <3> QED BY <1>2, <2>1, <3>1, <3>2 DEF Pursued, Pointed
  <2> QED BY <2>2, <2>3
<1> QED BY <1>2, <1>6, <1>7, <1>8, InvFromParts

\* Every fault of a worker: LoadJob's drop and Die.
LEMMA LeaveByFault ==
    ASSUME JobInv, NEW w \in Workers, NEW pc \in {"idle", "dead"}, Leave(w, pc), Fault,
           worker[w].pc \notin {"idle", "dead"}, NEW lost, DropIf(worker[w].job, lost),
           Leads(w, worker[w].job) => lost,
           UNCHANGED <<row, ready, delayed, pushing, reaper>>
    PROVE  JobInv'
<1>0. /\ Shape /\ worker \in [Workers -> WorkerRecord] /\ pc \in WorkerPcs
      /\ worker[w].job \in Jobs
  BY InvShape, ShapeFacts, Pcs
<1> DEFINE x == [Idle EXCEPT !.pc = pc]
<1>1. x \in WorkerRecord /\ x.pc = pc /\ x.job = None /\ worker' = [worker EXCEPT ![w] = x]
  BY <1>0, Moves
<1> HIDE DEF x
<1>2. worker' \in [Workers -> WorkerRecord] /\ HandsFull'
  BY <1>0, <1>1, WorkerShape
<1>3. budget' \in [faults: Nat, retries: Nat]
  BY <1>0, FaultStep
<1>6. dropped' \in [Jobs -> Nat] /\ NoneLost'
  <2>1. \A v \in Workers, j \in Jobs :
          WillAct(v, j) => WillAct(v, j)' \/ (j = worker[w].job /\ lost)
    BY <1>0, <1>1 DEF WillAct, Leads, At, Pinned
  <2>2. \A j \in Jobs : Pursued(j) => Pursued(j)' \/ (j = worker[w].job /\ lost)
    BY <2>1 DEF Pursued, Pointed
  <2> QED BY <1>0, <2>2, DropStep
<1>4. Shape'
  BY <1>0, <1>2, <1>3, <1>6 DEF Shape, TypeOK, DeadLetteredIsExhausted, WorkerRecord, WorkerPcs
<1>5. HolderPinned'
  <2>1. RowsAdvance /\ NobodyStarts
    BY <1>0, <1>1, NoRow, OneWorker
  <2> QED BY <1>0, <1>4, <2>1, HolderKept DEF JobInv
<1> QED BY <1>4, <1>5, <1>6, InvFromParts

LEMMA LoadJobStep ==
    ASSUME JobInv, NEW w \in Workers, LoadJob(w)
    PROVE  JobInv'
<1>0. Shape /\ worker \in [Workers -> WorkerRecord] /\ row \in [Jobs -> JobRow]
  BY InvShape, ShapeFacts
<1>1. CASE Leave(w, "idle") /\ Fault /\ DropIf(worker[w].job, TRUE)
  BY <1>1, LeaveByFault DEF LoadJob, At
<1>2. CASE /\ worker' = [worker EXCEPT ![w] = [@ EXCEPT !.pc = "mark",
                                                       !.version = row[worker[w].job].version]]
           /\ UNCHANGED <<dropped, budget>>
  <2> DEFINE k == worker[w].job
             x == [worker[w] EXCEPT !.pc = "mark", !.version = row[k].version]
  <2>1. worker[w].pc = "load" /\ UNCHANGED <<row, ready, delayed, pushing, reaper>>
    BY DEF LoadJob, At
  <2>2. k \in Jobs /\ worker[w] \in WorkerRecord
    BY <1>0, <2>1, ShapeFacts
  <2>3. row[k].version \in Nat
    BY <1>0, <2>2, RowFields
  <2>4. x \in WorkerRecord
    <3>1. 0 \in 0 .. MaxAttempts
      BY JobAssumption
    <3> QED BY <2>2, <2>3, <3>1, Pcs, WorkerMoves
  <2>5. x.pc = "mark" /\ x.job = k /\ x.version = row[k].version
    BY <2>2 DEF WorkerRecord
  <2>6. worker' = [worker EXCEPT ![w] = x]
    BY <1>2
  <2> HIDE DEF x
  <2>7. worker' \in [Workers -> WorkerRecord] /\ HandsFull'
    BY <1>0, <2>2, <2>4, <2>5, <2>6, JobAssumption, WorkerShape
  <2>8. Shape'
    BY <1>0, <1>2, <2>1, <2>7 DEF Shape, TypeOK, DeadLetteredIsExhausted, WorkerRecord, WorkerPcs
  <2>9. HolderPinned'
    <3>1. RowsAdvance /\ NobodyStarts
      BY <1>0, <2>1, <2>4, <2>5, <2>6, NoRow, OneWorker
    <3> QED BY <1>0, <2>8, <3>1, HolderKept DEF JobInv
  <2>10. NoneLost'
    <3>1. SUFFICES ASSUME NEW j \in Jobs, Pursued(j) PROVE Pursued(j)'
      BY <1>2, <2>1, NoneLostKept
    <3>2. \A v \in Workers : WillAct(v, j) => WillAct(v, j)'
      BY <1>0, <2>1, <2>5, <2>6 DEF WillAct, Leads, At, Pinned
    <3> QED BY <2>1, <3>1, <3>2 DEF Pursued, Pointed
  <2> QED BY <1>2, <2>8, <2>9, <2>10, InvFromParts
<1> QED BY <1>1, <1>2 DEF LoadJob

\* A worker whose update finds another version, or is refused, dies.
LEMMA LeaveDead ==
    ASSUME JobInv, NEW w \in Workers, Leave(w, "dead"), UNCHANGED row, UNCHANGED Rest,
           \A j \in Jobs : ~WillAct(w, j)
    PROVE  JobInv'
<1>0. Shape
  BY InvShape
<1> DEFINE x == [Idle EXCEPT !.pc = "dead"]
<1>1. x \in WorkerRecord /\ x.pc = "dead" /\ x.job = None /\ worker' = [worker EXCEPT ![w] = x]
  BY <1>0, Moves, Pcs
<1> HIDE DEF x
<1> QED BY <1>1, WorkerAlone

LEMMA MarkRunningStep ==
    ASSUME JobInv, NEW w \in Workers, MarkRunning(w)
    PROVE  JobInv'
<1> DEFINE k == worker[w].job
           r == [row[k] EXCEPT !.status = "running", !.locked_by = w, !.overdue = FALSE,
                               !.version = @ + 1]
           x == [worker[w] EXCEPT !.pc = "run", !.version = row[k].version + 1,
                                  !.attempts = row[k].attempts]
<1>1. worker[w].pc = "mark" /\ UNCHANGED Rest
  BY DEF MarkRunning, At, Rest
<1>2. /\ Shape /\ worker[w] \in WorkerRecord /\ k \in Jobs /\ row[k] \in JobRow
  BY <1>1, InvShape, ShapeFacts
<1>3. CASE Pinned(w, k)
  <2>1. row' = [row EXCEPT ![k] = r] /\ worker' = [worker EXCEPT ![w] = x]
    BY <1>3 DEF MarkRunning, Touch
  <2>2. /\ r \in JobRow /\ r.status = "running" /\ r.locked_by = w
        /\ r.version = row[k].version + 1
    BY <1>2, RunningRow
  <2>3. /\ row[k].version \in Nat /\ row[k].version + 1 \in Nat
        /\ row[k].attempts \in 0 .. MaxAttempts
    BY <1>2, RowFields
  <2>4. x \in WorkerRecord
    BY <1>2, <2>3, Pcs, WorkerMoves
  <2>5. x.pc = "run" /\ x.job = k /\ x.version = row[k].version + 1
    BY <1>2 DEF WorkerRecord
  <2> HIDE DEF x, r
  <2>6. k # None /\ ~Overlooked(r)
    BY <1>2, <2>2, JobAssumption DEF Overlooked
  <2> QED BY <1>1, <1>2, <2>1, <2>2, <2>4, <2>5, <2>6, WorkerUpdate
<1>4. CASE ~Pinned(w, k)
  <2>1. UNCHANGED row /\ Leave(w, "dead")
    BY <1>4 DEF MarkRunning
  <2>2. \A j \in Jobs : ~WillAct(w, j)
    BY <1>1, <1>4 DEF WillAct, Leads, At, Pinned
  <2> QED BY <1>1, <2>1, <2>2, LeaveDead
<1> QED BY <1>3, <1>4

LEMMA RunHandlerStep ==
    ASSUME JobInv, NEW w \in Workers, RunHandler(w)
    PROVE  JobInv'
<1>1. worker[w].pc = "run" /\ UNCHANGED row /\ UNCHANGED Rest
  BY DEF RunHandler, At, Rest
<1>2. PICK pc \in {"succeed", "fail"} : Goto(w, pc)
  BY DEF RunHandler
<1>3. Shape /\ pc \in WorkerPcs /\ worker[w].job \in Jobs
  BY <1>1, InvShape, ShapeFacts, Pcs
<1> DEFINE x == [worker[w] EXCEPT !.pc = pc]
<1>4. /\ worker' = [worker EXCEPT ![w] = x] /\ x \in WorkerRecord
      /\ x.pc = pc /\ x.job = worker[w].job /\ x.version = worker[w].version
  BY <1>2, <1>3, Moves
<1>5. \A j \in Jobs : ~WillAct(w, j)
  BY <1>1 DEF WillAct, Leads, At, Pinned
<1> HIDE DEF x
<1>6. x.pc \in {"idle", "dead"} <=> x.job = None
  BY <1>3, <1>4, JobAssumption
<1> QED BY <1>1, <1>4, <1>5, <1>6, WorkerAlone

LEMMA RestartStep ==
    ASSUME JobInv, NEW w \in Workers, Restart(w)
    PROVE  JobInv'
<1>1. worker[w].pc = "dead" /\ Goto(w, "idle") /\ UNCHANGED row /\ UNCHANGED Rest
  BY DEF Restart, At, Rest
<1>2. Shape /\ worker[w].job = None
  BY <1>1, InvShape DEF JobInv, HandsFull
<1> DEFINE x == [worker[w] EXCEPT !.pc = "idle"]
<1>3. /\ worker' = [worker EXCEPT ![w] = x] /\ x \in WorkerRecord
      /\ x.pc = "idle" /\ x.job = None
  BY <1>1, <1>2, Moves, Pcs
<1>4. \A j \in Jobs : ~WillAct(w, j)
  BY <1>1 DEF WillAct, Leads, At, Pinned
<1> HIDE DEF x
<1> QED BY <1>1, <1>3, <1>4, WorkerAlone

LEMMA MarkSucceededStep ==
    ASSUME JobInv, NEW w \in Workers, MarkSucceeded(w)
    PROVE  JobInv'
<1> DEFINE k == worker[w].job
           r == [row[k] EXCEPT !.status = "succeeded", !.version = @ + 1]
           x == [Idle EXCEPT !.pc = "idle"]
<1>1. worker[w].pc = "succeed" /\ UNCHANGED Rest
  BY DEF MarkSucceeded, At, Rest
<1>2. Shape /\ k \in Jobs /\ row[k] \in JobRow
  BY <1>1, InvShape, ShapeFacts
<1>3. CASE Pinned(w, k)
  <2>1. row' = [row EXCEPT ![k] = r] /\ Leave(w, "idle")
    BY <1>3 DEF MarkSucceeded, Touch
  <2>2. r \in JobRow /\ r.status = "succeeded" /\ r.version = row[k].version + 1
    BY <1>2, SucceededRow
  <2>3. x \in WorkerRecord /\ x.pc = "idle" /\ x.job = None /\ worker' = [worker EXCEPT ![w] = x]
    BY <1>2, <2>1, Moves, Pcs
  <2> HIDE DEF x, r
  <2>4. ~Overlooked(r)
    BY <2>2 DEF Overlooked
  <2> QED BY <1>1, <1>2, <2>1, <2>2, <2>3, <2>4, WorkerUpdate
<1>4. CASE ~Pinned(w, k)
  <2>1. UNCHANGED row /\ Leave(w, "dead")
    BY <1>4 DEF MarkSucceeded
  <2>2. \A j \in Jobs : ~WillAct(w, j)
    BY <1>1 DEF WillAct, Leads, At, Pinned
  <2> QED BY <1>1, <2>1, <2>2, LeaveDead
<1> QED BY <1>3, <1>4

\* Whoever counts a failed attempt counts it within the constraint, and gives
\* up exactly at the last one.
LEMMA AttemptsCounted ==
    ASSUME NEW a \in 0 .. MaxAttempts
    PROVE  /\ RetriesLeft(a + 1) => a + 1 \in 0 .. MaxAttempts
           /\ ~RetriesLeft(a + 1) /\ AttemptsCheck(a + 1) =>
                 a + 1 \in 0 .. MaxAttempts /\ a + 1 = MaxAttempts
BY JobAssumption DEF RetriesLeft, AttemptsCheck

LEMMA MarkFailedStep ==
    ASSUME JobInv, NEW w \in Workers, MarkFailed(w)
    PROVE  JobInv'
<1> DEFINE k == worker[w].job
           n == worker[w].attempts + 1
<1>1. worker[w].pc = "fail" /\ UNCHANGED Rest
  BY DEF MarkFailed, At, Rest
<1>2. /\ Shape /\ k \in Jobs /\ row[k] \in JobRow /\ worker[w] \in WorkerRecord
  BY <1>1, InvShape, ShapeFacts
<1>3. worker[w].attempts \in 0 .. MaxAttempts
  BY <1>2, WorkerFields
<1>4. CASE /\ Pinned(w, k) /\ RetriesLeft(n) /\ Touch(k, Retrying(row[k], n)) /\ Goto(w, "push")
  <2> DEFINE x == [worker[w] EXCEPT !.pc = "push"]
             r == Retrying(row[k], n)
  <2>1. n \in 0 .. MaxAttempts
    BY <1>3, <1>4, AttemptsCounted
  <2> HIDE DEF n
  <2>2. r \in JobRow /\ r.status = "retrying" /\ r.version = row[k].version + 1
    BY <1>2, <2>1, RetryingRow
  <2>3. /\ worker' = [worker EXCEPT ![w] = x] /\ x \in WorkerRecord
        /\ x.pc = "push" /\ x.job = k /\ x.version = worker[w].version
    BY <1>2, <1>4, Moves, Pcs
  <2>4. row' = [row EXCEPT ![k] = r]
    BY <1>4 DEF Touch
  <2> HIDE DEF x, r
  <2>5. k # None /\ r.version = x.version + 1
    BY <1>2, <1>4, <2>2, <2>3, JobAssumption DEF Pinned
  <2> QED BY <1>1, <1>2, <2>2, <2>3, <2>4, <2>5, WorkerUpdate
<1>5. CASE /\ ~RetriesLeft(n) /\ AttemptsCheck(n)
           /\ Touch(k, DeadLettered(row[k], n)) /\ Leave(w, "idle")
  <2> DEFINE x == [Idle EXCEPT !.pc = "idle"]
             r == DeadLettered(row[k], n)
  <2>1. n \in 0 .. MaxAttempts /\ n = MaxAttempts
    BY <1>3, <1>5, AttemptsCounted
  <2> HIDE DEF n
  <2>2. /\ r \in JobRow /\ r.status = "dead_lettered" /\ r.attempts = MaxAttempts
        /\ r.version = row[k].version + 1
    BY <1>2, <2>1, DeadLetteredRow
  <2>3. x \in WorkerRecord /\ x.pc = "idle" /\ x.job = None /\ worker' = [worker EXCEPT ![w] = x]
    BY <1>2, <1>5, Moves, Pcs
  <2>4. row' = [row EXCEPT ![k] = r]
    BY <1>5 DEF Touch
  <2> HIDE DEF x, r
  <2>5. ~Overlooked(r)
    BY <2>2 DEF Overlooked
  <2> QED BY <1>1, <1>2, <2>2, <2>3, <2>4, <2>5, WorkerUpdate
<1>6. CASE UNCHANGED row /\ Leave(w, "dead")
  <2>1. \A j \in Jobs : ~WillAct(w, j)
    BY <1>1 DEF WillAct, Leads, At, Pinned
  <2> QED BY <1>1, <1>6, <2>1, LeaveDead
<1> QED BY <1>4, <1>5, <1>6 DEF MarkFailed

LEMMA PushDelayedStep ==
    ASSUME JobInv, NEW w \in Workers, PushDelayed(w)
    PROVE  JobInv'
<1> DEFINE x == [Idle EXCEPT !.pc = "idle"]
<1>1. /\ worker[w].pc = "push" /\ delayed' = delayed \cup {worker[w].job} /\ Leave(w, "idle")
      /\ UNCHANGED <<row, ready, pushing, reaper, dropped, budget>>
  BY DEF PushDelayed, At
<1>2. /\ Shape /\ worker[w].job \in Jobs /\ worker \in [Workers -> WorkerRecord]
      /\ delayed \subseteq Jobs
  BY <1>1, InvShape, ShapeFacts
<1>3. x \in WorkerRecord /\ x.pc = "idle" /\ x.job = None /\ worker' = [worker EXCEPT ![w] = x]
  BY <1>1, <1>2, Moves, Pcs
<1> HIDE DEF x
<1>4. worker' \in [Workers -> WorkerRecord] /\ HandsFull'
  BY <1>2, <1>3, WorkerShape
<1>5. Shape'
  BY <1>1, <1>2, <1>4 DEF Shape, TypeOK, DeadLetteredIsExhausted, WorkerRecord, WorkerPcs
<1>6. HolderPinned'
  <2>1. RowsAdvance /\ NobodyStarts
    BY <1>1, <1>2, <1>3, NoRow, OneWorker
  <2> QED BY <1>2, <1>5, <2>1, HolderKept DEF JobInv
<1>7. NoneLost'
  <2>1. SUFFICES ASSUME NEW j \in Jobs, Pursued(j) PROVE Pursued(j)'
    BY <1>1, NoneLostKept
  <2>2. CASE j = worker[w].job
    BY <1>1, <2>2 DEF Pursued, Pointed
  <2>3. CASE j # worker[w].job
    <3>1. \A v \in Workers : WillAct(v, j) => WillAct(v, j)'
      BY <1>1, <1>2, <1>3, <2>3 DEF WillAct, Leads, At, Pinned
    <3> QED BY <1>1, <2>1, <3>1 DEF Pursued, Pointed
  <2> QED BY <2>2, <2>3
<1> QED BY <1>1, <1>5, <1>6, <1>7, InvFromParts

LEMMA DieStep ==
    ASSUME JobInv, NEW w \in Workers, Die(w)
    PROVE  JobInv'
BY LeaveByFault DEF Die

-----------------------------------------------------------------------------
(* The reaper                                                              *)

LEMMA ListStuckStep ==
    ASSUME JobInv, ListStuck
    PROVE  JobInv'
<1> DEFINE stuck == {j \in Jobs : Stuck(row[j])}
           found == {[job |-> j, version |-> row[j].version, attempts |-> row[j].attempts] :
                        j \in stuck}
<1>0. /\ Shape /\ row \in [Jobs -> JobRow]
      /\ reaper \in [found: SUBSET FoundRecord, push: Jobs \cup {None}]
  BY InvShape, ShapeFacts
<1>1. /\ reaper' = [reaper EXCEPT !.found = found]
      /\ UNCHANGED <<row, ready, delayed, pushing, worker, dropped, budget>>
  BY DEF ListStuck
<1>2. found \in SUBSET FoundRecord
  <2>1. \A j \in Jobs : row[j].version \in Nat /\ row[j].attempts \in 0 .. MaxAttempts
    BY <1>0, RowFields
  <2>2. \A j \in Jobs :
          [job |-> j, version |-> row[j].version, attempts |-> row[j].attempts] \in FoundRecord
    BY <2>1 DEF FoundRecord
  <2> QED BY <2>2
<1> HIDE DEF found
<1>3. /\ reaper' \in [found: SUBSET FoundRecord, push: Jobs \cup {None}]
      /\ reaper'.push = reaper.push
  BY <1>0, <1>1, <1>2
<1>4. Shape'
  BY <1>0, <1>1, <1>3 DEF Shape, TypeOK, HandsFull, DeadLetteredIsExhausted, FoundRecord
<1>5. HolderPinned'
  BY <1>1 DEF JobInv, HolderPinned
<1>6. NoneLost'
  BY <1>1, <1>3, NoneLostKept DEF Pursued, Pointed, WillAct, Leads, At, Pinned
<1> QED BY <1>1, <1>4, <1>5, <1>6, InvFromParts

\* The reaper's update of a row, followed by a push when the row is retried.
LEMMA ReaperUpdate ==
    ASSUME JobInv, NEW k \in Jobs, NEW r \in JobRow, row' = [row EXCEPT ![k] = r],
           r.version = row[k].version + 1,
           r.status = "dead_lettered" => r.attempts = MaxAttempts,
           reaper' \in [found: SUBSET FoundRecord, push: Jobs \cup {None}],
           reaper.push = None, Overlooked(r) => reaper'.push = k,
           UNCHANGED <<ready, delayed, pushing, worker, dropped, budget>>
    PROVE  JobInv'
<1>0. Shape /\ row \in [Jobs -> JobRow] /\ row[k].version \in Nat
  BY InvShape, ShapeFacts, RowFields
<1>1. row' \in [Jobs -> JobRow] /\ DeadLetteredIsExhausted'
  BY <1>0, RowShape
<1>2. Shape'
  BY <1>0, <1>1 DEF Shape, TypeOK, HandsFull, FoundRecord
<1>3. HolderPinned'
  <2>0. r.version > row[k].version
    BY <1>0
  <2>1. RowsAdvance /\ NobodyStarts
    BY <1>0, <2>0, OneRow DEF NobodyStarts
  <2> QED BY <1>0, <1>2, <2>1, HolderKept DEF JobInv
<1>4. NoneLost'
  <2>1. SUFFICES ASSUME NEW j \in Jobs, Overlooked(row'[j])
                 PROVE  \/ /\ Overlooked(row[j]) /\ row'[j].version = row[j].version
                           /\ Pursued(j) => Pursued(j)'
                        \/ Pursued(j)'
    BY NoneLostKept
  <2>2. CASE j = k
    BY <1>0, <2>1, <2>2 DEF Pursued
  <2>3. CASE j # k
    <3>1. row'[j] = row[j] /\ reaper.push # j
      BY <1>0, <2>3, JobAssumption
    <3> QED BY <2>1, <3>1 DEF Pursued, Pointed, WillAct, Leads, At, Pinned
  <2> QED BY <2>2, <2>3
<1> QED BY <1>2, <1>3, <1>4, InvFromParts

\* The reaper passes a row over, with a fault or without.
LEMMA ReaperPasses ==
    ASSUME JobInv, reaper' \in [found: SUBSET FoundRecord, push: Jobs \cup {None}],
           reaper'.push = reaper.push, Fault \/ UNCHANGED budget,
           UNCHANGED <<row, ready, delayed, pushing, worker, dropped>>
    PROVE  JobInv'
<1>0. Shape
  BY InvShape
<1>1. budget' \in [faults: Nat, retries: Nat]
  BY <1>0, FaultStep DEF Shape, TypeOK
<1>2. Shape'
  BY <1>0, <1>1 DEF Shape, TypeOK, HandsFull, DeadLetteredIsExhausted, FoundRecord
<1>3. HolderPinned'
  BY DEF JobInv, HolderPinned
<1>4. NoneLost'
  BY NoneLostKept DEF Pursued, Pointed, WillAct, Leads, At, Pinned
<1> QED BY <1>2, <1>3, <1>4, InvFromParts

LEMMA RecoverStep ==
    ASSUME JobInv, NEW f \in reaper.found, Recover(f)
    PROVE  JobInv'
<1> DEFINE k == f.job
           n == f.attempts + 1
           rest == [reaper EXCEPT !.found = @ \ {f}]
<1>0. /\ Shape /\ row \in [Jobs -> JobRow]
      /\ reaper \in [found: SUBSET FoundRecord, push: Jobs \cup {None}]
  BY InvShape, ShapeFacts
<1>1. reaper.push = None /\ UNCHANGED <<ready, delayed, pushing, worker, dropped>>
  BY DEF Recover
<1>2. k \in Jobs /\ f.attempts \in 0 .. MaxAttempts
  BY <1>0 DEF FoundRecord
<1>3. /\ rest \in [found: SUBSET FoundRecord, push: Jobs \cup {None}] /\ rest.push = None
      /\ [rest EXCEPT !.push = k] \in [found: SUBSET FoundRecord, push: Jobs \cup {None}]
      /\ [rest EXCEPT !.push = k].push = k
  BY <1>0, <1>1, <1>2
<1>4. row[k] \in JobRow
  BY <1>0, <1>2
<1> HIDE DEF rest
<1>5. CASE /\ RetriesLeft(n) /\ Touch(k, Retrying(row[k], n))
           /\ reaper' = [rest EXCEPT !.push = k] /\ UNCHANGED budget
  <2> DEFINE r == Retrying(row[k], n)
  <2>1. n \in 0 .. MaxAttempts
    BY <1>2, <1>5, AttemptsCounted
  <2> HIDE DEF n
  <2>2. r \in JobRow /\ r.status = "retrying" /\ r.version = row[k].version + 1
    BY <1>4, <2>1, RetryingRow
  <2>3. row' = [row EXCEPT ![k] = r]
    BY <1>5 DEF Touch
  <2> HIDE DEF r
  <2> QED BY <1>1, <1>2, <1>3, <1>5, <2>2, <2>3, ReaperUpdate
<1>6. CASE /\ ~RetriesLeft(n) /\ AttemptsCheck(n) /\ Touch(k, DeadLettered(row[k], n))
           /\ reaper' = rest /\ UNCHANGED budget
  <2> DEFINE r == DeadLettered(row[k], n)
  <2>1. n \in 0 .. MaxAttempts /\ n = MaxAttempts
    BY <1>2, <1>6, AttemptsCounted
  <2> HIDE DEF n
  <2>2. /\ r \in JobRow /\ r.status = "dead_lettered" /\ r.attempts = MaxAttempts
        /\ r.version = row[k].version + 1
    BY <1>4, <2>1, DeadLetteredRow
  <2>3. row' = [row EXCEPT ![k] = r]
    BY <1>6 DEF Touch
  <2> HIDE DEF r
  <2>4. ~Overlooked(r)
    BY <2>2 DEF Overlooked
  <2> QED BY <1>1, <1>2, <1>3, <1>6, <2>2, <2>3, <2>4, ReaperUpdate
<1>7. CASE reaper' = rest /\ UNCHANGED row /\ (Fault \/ UNCHANGED budget)
  BY <1>1, <1>3, <1>7, ReaperPasses
<1> QED BY <1>5, <1>6, <1>7 DEF Recover, rest

LEMMA RecoverPushStep ==
    ASSUME JobInv, RecoverPush
    PROVE  JobInv'
<1>0. /\ Shape /\ delayed \subseteq Jobs
      /\ reaper \in [found: SUBSET FoundRecord, push: Jobs \cup {None}]
  BY InvShape, ShapeFacts
<1>1. /\ reaper.push # None /\ reaper' = [reaper EXCEPT !.push = None]
      /\ UNCHANGED <<row, ready, pushing, worker>>
  BY DEF RecoverPush
<1>2. reaper' \in [found: SUBSET FoundRecord, push: Jobs \cup {None}]
  BY <1>0, <1>1
<1>3. HolderPinned'
  BY <1>1 DEF JobInv, HolderPinned
<1>4. CASE delayed' = delayed \cup {reaper.push} /\ UNCHANGED <<dropped, budget>>
  <2>1. delayed' \subseteq Jobs
    BY <1>0, <1>1, <1>4
  <2>2. Shape'
    BY <1>0, <1>1, <1>2, <1>4, <2>1
       DEF Shape, TypeOK, HandsFull, DeadLetteredIsExhausted, FoundRecord
  <2>3. \A j \in Jobs : Pursued(j) => Pursued(j)'
    BY <1>1, <1>4 DEF Pursued, Pointed, WillAct, Leads, At, Pinned
  <2>4. NoneLost'
    BY <1>1, <1>4, <2>3, NoneLostKept
  <2> QED BY <1>3, <1>4, <2>2, <2>4, InvFromParts
<1>5. CASE UNCHANGED delayed /\ Fault /\ DropIf(reaper.push, TRUE)
  <2>0. \A j \in Jobs : Pursued(j) => Pursued(j)' \/ j = reaper.push
    BY <1>1, <1>5 DEF Pursued, Pointed, WillAct, Leads, At, Pinned
  <2>1. dropped' \in [Jobs -> Nat] /\ NoneLost'
    BY <1>0, <1>1, <1>5, <2>0, DropStep
  <2>2. Shape'
    BY <1>0, <1>1, <1>2, <1>5, <2>1, FaultStep
       DEF Shape, TypeOK, HandsFull, DeadLetteredIsExhausted, FoundRecord
  <2> QED BY <1>3, <2>1, <2>2, InvFromParts
<1> QED BY <1>4, <1>5 DEF RecoverPush

-----------------------------------------------------------------------------
(* The theorems                                                            *)

LEMMA JobInit == ASSUME Init PROVE JobInv
<1>1. \A j \in Jobs : row[j] = NoJob
  BY DEF Init
<1>2. Idle.pc = "idle" /\ Idle.job = None
  BY DEF Idle
<1>3. row \in [Jobs -> JobRow] /\ ready \in [Jobs -> Nat] /\ delayed \subseteq Jobs
  BY NoJobRow DEF Init
<1>4. worker \in [Workers -> WorkerRecord]
  <2>1. 0 \in 0 .. MaxAttempts /\ "idle" \in WorkerPcs
    BY JobAssumption DEF WorkerPcs
  <2>2. Idle \in WorkerRecord
    BY <2>1 DEF Idle, WorkerRecord
  <2> QED BY <2>2 DEF Init
<1>5. TypeOK
  BY <1>3, <1>4, JobAssumption DEF TypeOK, Init, WorkerRecord, WorkerPcs
<1>6. HandsFull /\ HolderPinned
  BY <1>2 DEF HandsFull, HolderPinned, Init
<1>7. DeadLetteredIsExhausted /\ NoneLost
  BY <1>1, NoJobRow DEF DeadLetteredIsExhausted, NoneLost, Overlooked
<1> QED BY <1>5, <1>6, <1>7 DEF JobInv

LEMMA JobNext == ASSUME JobInv, [Next]_vars PROVE JobInv'
<1>1. CASE UNCHANGED vars
  <2>1. Shape' /\ HolderPinned' /\ NoneLost'
    BY <1>1 DEF vars, JobInv, Shape, TypeOK, HandsFull, DeadLetteredIsExhausted, HolderPinned,
                NoneLost, Pursued, Pointed, WillAct, Leads, At, Pinned
  <2> QED BY <2>1, InvFromParts
<1>2. CASE \E j \in Jobs : \/ (\E later \in BOOLEAN : CreateJob(j, later)) \/ RetryDeadLetter(j)
                         \/ PromoteDue(j) \/ GrowOld(j) \/ Overrun(j)
  BY <1>2, CreateJobStep, RetryDeadLetterStep, PromoteDueStep, TimeStep
<1>3. CASE \E p \in pushing : Push(p)
  BY <1>3, PushStep
<1>4. CASE \E w \in Workers : WorkerStep(w) \/ Die(w)
  BY <1>4, DequeueStep, LoadJobStep, MarkRunningStep, RunHandlerStep, MarkSucceededStep,
     MarkFailedStep, PushDelayedStep, RestartStep, DieStep DEF WorkerStep
<1>5. CASE Reap
  BY <1>5, ListStuckStep, RecoverStep, RecoverPushStep DEF Reap
<1> QED BY <1>1, <1>2, <1>3, <1>4, <1>5 DEF Next

LEMMA JobInvariant == Spec => []JobInv
BY JobInit, JobNext, PTL DEF Spec

\* Every variable keeps its type, through faults and restarts.
THEOREM JobTypeCorrect == Spec => []TypeOK
<1>1. JobInv => TypeOK
  BY DEF JobInv
<1> QED BY <1>1, JobInvariant, PTL

\* Workers, the reaper and the administrator's retry together dead-letter a job
\* only when its attempts are used up (mark_dead_lettered, _recover).
THEOREM OnlyExhaustedJobsAreDeadLettered == Spec => []DeadLetteredIsExhausted
<1>1. JobInv => DeadLetteredIsExhausted
  BY DEF JobInv
<1> QED BY <1>1, JobInvariant, PTL

LEMMA ForgottenByFault == ASSUME JobInv PROVE ForgottenHasACause
<1> SUFFICES ASSUME NEW j \in Jobs, Forgotten(j), dropped[j] # row[j].version
             PROVE  row[j].status = "running" /\ row[j].attempts = MaxAttempts
  BY DEF ForgottenHasACause
<1>2. ~Pursued(j)
  BY DEF Forgotten, Pursued, WillAct, Holds
<1>3. ~Overlooked(row[j])
  BY <1>2 DEF JobInv, NoneLost
<1>4. row[j].status = "running" /\ ~AttemptsCheck(row[j].attempts + 1)
  <2>1. row[j] \in JobRow /\ row[j].later \in BOOLEAN
    BY InvShape, ShapeFacts DEF JobRow
  <2> QED BY <1>3, <2>1 DEF Forgotten, Overlooked
<1>5. row[j].attempts \in 0 .. MaxAttempts
  BY InvShape, ShapeFacts, RowFields
<1> QED BY <1>4, <1>5, JobAssumption DEF AttemptsCheck

\* However workers, pushes, retries and the reaper interleave, an unfinished job
\* that nobody and nothing leads to any more lost, with the very row it has now,
\* what was to lead to it, by a fault between its commit and its push or between
\* BRPOP and mark_running; or it has been run once more than its attempts allow.
THEOREM NoJobIsForgottenWithoutCause == Spec => []ForgottenHasACause
BY ForgottenByFault, JobInvariant, PTL

\* The action property of one step.
LEMMA SucceededStep ==
    ASSUME JobInv, [Next]_vars, NEW j \in Jobs,
           row[j].status # "succeeded", row'[j].status = "succeeded"
    PROVE  \E w \in Workers : /\ Holds(w, j) /\ At(w, "succeed")
                              /\ row[j].locked_by = w /\ row[j].status = "running"
<1>0. Shape /\ row \in [Jobs -> JobRow]
  BY InvShape, ShapeFacts
<1>1. row' # row
  OBVIOUS
<1>2. ASSUME NEW k \in Jobs, NEW r \in JobRow, r.status # "succeeded" \/ r.status = row[k].status,
             row' = [row EXCEPT ![k] = r]
      PROVE  FALSE
  BY <1>0, <1>2
<1>3. ASSUME NEW k \in Jobs, NEW later \in BOOLEAN, CreateJob(k, later) PROVE FALSE
  <2> DEFINE r == [NoJob EXCEPT !.status = "queued", !.version = 1, !.later = later]
  <2>1. r \in JobRow /\ r.status = "queued" /\ row' = [row EXCEPT ![k] = r]
    BY <1>3, NewJobRow DEF CreateJob, Touch
  <2> HIDE DEF r
  <2> QED BY <1>2, <2>1
<1>4. ASSUME NEW k \in Jobs, RetryDeadLetter(k) PROVE FALSE
  <2> DEFINE r == [row[k] EXCEPT !.status = "queued", !.attempts = 0, !.later = FALSE,
                                 !.locked_by = None, !.version = @ + 1]
  <2>1. r \in JobRow /\ r.status = "queued" /\ row' = [row EXCEPT ![k] = r]
    BY <1>0, <1>4, RequeuedRow DEF RetryDeadLetter, Touch
  <2> HIDE DEF r
  <2> QED BY <1>2, <2>1
<1>5. ASSUME NEW k \in Jobs, GrowOld(k) \/ Overrun(k) PROVE FALSE
  <2>1. PICK s \in {[row[k] EXCEPT !.aged = TRUE], [row[k] EXCEPT !.overdue = TRUE]} :
          row' = [row EXCEPT ![k] = s]
    BY <1>5 DEF GrowOld, Overrun, Touch
  <2>2. row[k] \in JobRow
    BY <1>0
  <2>3. s \in JobRow /\ s.status = row[k].status
    BY <2>2, OlderRow, Zenon
  <2> QED BY <1>2, <2>1, <2>3
<1>6. ASSUME NEW k \in Jobs, NEW n \in 0 .. MaxAttempts,
             Touch(k, Retrying(row[k], n)) \/ Touch(k, DeadLettered(row[k], n))
      PROVE  FALSE
  <2>1. row[k] \in JobRow
    BY <1>0
  <2>2. /\ Retrying(row[k], n) \in JobRow /\ Retrying(row[k], n).status = "retrying"
        /\ DeadLettered(row[k], n) \in JobRow
        /\ DeadLettered(row[k], n).status = "dead_lettered"
    BY <2>1, RetryingRow, DeadLetteredRow
  <2> QED BY <1>2, <1>6, <2>2 DEF Touch
<1>7. ASSUME NEW w \in Workers, MarkRunning(w) PROVE FALSE
  <2> DEFINE k == worker[w].job
             r == [row[k] EXCEPT !.status = "running", !.locked_by = w, !.overdue = FALSE,
                                 !.version = @ + 1]
  <2>1. k \in Jobs /\ row[k] \in JobRow
    BY <1>0, <1>7, ShapeFacts DEF MarkRunning, At
  <2>2. r \in JobRow /\ r.status = "running"
    BY <2>1, RunningRow
  <2>3. row' = [row EXCEPT ![k] = r]
    BY <1>1, <1>7 DEF MarkRunning, Touch
  <2> HIDE DEF r
  <2> QED BY <1>2, <2>1, <2>2, <2>3
<1>8. ASSUME NEW w \in Workers, MarkFailed(w) PROVE FALSE
  <2>1. worker[w].job \in Jobs /\ worker[w].attempts \in 0 .. MaxAttempts
    BY <1>0, <1>8, ShapeFacts, WorkerFields DEF MarkFailed, At
  <2> QED BY <1>1, <1>6, <1>8, <2>1, AttemptsCounted DEF MarkFailed
<1>9. ASSUME NEW f \in reaper.found, Recover(f) PROVE FALSE
  <2>1. f.job \in Jobs /\ f.attempts \in 0 .. MaxAttempts
    BY <1>0, ShapeFacts DEF FoundRecord
  <2> QED BY <1>1, <1>6, <1>9, <2>1, AttemptsCounted DEF Recover
<1>10. ASSUME NEW w \in Workers, MarkSucceeded(w)
       PROVE  /\ Holds(w, j) /\ At(w, "succeed")
              /\ row[j].locked_by = w /\ row[j].status = "running"
  <2> DEFINE k == worker[w].job
  <2>1. /\ At(w, "succeed") /\ Pinned(w, k)
        /\ row' = [row EXCEPT ![k] = [row[k] EXCEPT !.status = "succeeded", !.version = @ + 1]]
    BY <1>1, <1>10 DEF MarkSucceeded, Touch
  <2>2. k = j
    BY <1>0, <2>1
  <2> QED BY <2>1, <2>2 DEF JobInv, HolderPinned, Pinned, Holds, At
<1>11. CASE \E w \in Workers : MarkSucceeded(w)
  BY <1>10, <1>11
<1>12. CASE ~\E w \in Workers : MarkSucceeded(w)
  <2>1. UNCHANGED vars => FALSE
    BY <1>1 DEF vars
  <2>2. \A k \in Jobs : PromoteDue(k) => FALSE
    BY <1>1 DEF PromoteDue
  <2>3. \A p \in pushing : Push(p) => FALSE
    BY <1>1 DEF Push
  <2>4. \A w \in Workers : Dequeue(w) \/ LoadJob(w) \/ RunHandler(w) \/ PushDelayed(w)
                             \/ Restart(w) \/ Die(w) => FALSE
    BY <1>1 DEF Dequeue, LoadJob, RunHandler, PushDelayed, Restart, Die
  <2>5. ListStuck \/ RecoverPush => FALSE
    BY <1>1 DEF ListStuck, RecoverPush
  <2> QED BY <1>3, <1>4, <1>5, <1>7, <1>8, <1>9, <1>12, <2>1, <2>2, <2>3, <2>4, <2>5
          DEF Next, WorkerStep, Reap
<1> QED BY <1>11, <1>12

\* An attempt counts as the job's success only if its worker marked the job
\* running and nobody, reaper, administrator or second worker, has touched the
\* row since (mark_succeeded's version check against mark_running's result).
THEOREM SuccessIsTheHolders == Spec => SucceededByHolder
<1>1. JobInv /\ [Next]_vars =>
        [\A j \in Jobs : row[j].status # "succeeded" /\ row'[j].status = "succeeded" =>
           \E w \in Workers : /\ Holds(w, j) /\ At(w, "succeed")
                              /\ row[j].locked_by = w /\ row[j].status = "running"]_vars
  BY SucceededStep
<1> QED BY <1>1, JobInvariant, PTL DEF Spec, SucceededByHolder
=============================================================================
