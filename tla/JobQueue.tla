------------------------------ MODULE JobQueue ------------------------------
(***************************************************************************)
(* The background job system: JobService.enqueue, the worker process       *)
(* (app/jobs/worker.py), the Redis ready lists and delayed sets, the       *)
(* StuckJobReaperJob and the admin's retry of a dead-lettered job.         *)
(*                                                                         *)
(* The jobs table is the durable record, a Redis entry the only thing that *)
(* makes a worker pick a job up, and no statement changes both.  Every     *)
(* actor works on a row it has read, with updates pinned to that version,  *)
(* and a worker that meets an exception outside a handler dies: _process_one *)
(* is not guarded.  A fault is an actor that stops at some point of its    *)
(* sequence, for a failing statement and a dying process alike.            *)
(*                                                                         *)
(* Which of several entries a worker takes is left open: the order of      *)
(* BRPOP over the priority lists is one of the orders allowed here.        *)
(***************************************************************************)
EXTENDS Naturals, FiniteSets

CONSTANTS
    Jobs,
    Workers,
    MaxAttempts,    \* max_attempts of every job
    MayWaitLong,    \* may an entry wait in Redis past the stuck threshold?
    MayRunLong,     \* may a handler run past the stuck threshold?
    MaxRetries,     \* dead-lettered jobs the admin retries
    MaxFaults,
    None

ASSUME JobAssumption ==
    /\ MaxAttempts \in Nat \ {0} /\ MaxRetries \in Nat /\ MaxFaults \in Nat
    /\ MayWaitLong \in BOOLEAN /\ MayRunLong \in BOOLEAN
    /\ None \notin Jobs /\ None \notin Workers

VARIABLES
    row,        \* row[j]: the jobs row, NoJob before it is inserted
    ready,      \* ready[j]: entries for j in the ready lists
    delayed,    \* jobs in the delayed sorted sets
    pushing,    \* API calls between their commit and their Redis push
    worker,     \* worker[w]: where the worker is, with the row it has read
    reaper,     \* reaper.found: rows found stuck; reaper.push: its next push
    dropped,    \* dropped[j]: the version of j's row when the last actor that was to lead a
                \* worker to it was lost: history, which no action looks at
    budget

vars == <<row, ready, delayed, pushing, worker, reaper, dropped, budget>>

JobStatus == {"queued", "running", "retrying", "succeeded", "dead_lettered"}

NoJob == [status |-> "none", attempts |-> 0, version |-> 0, later |-> FALSE,
          locked_by |-> None, aged |-> FALSE, overdue |-> FALSE]

\* later: scheduled_for is set; aged, overdue: created_at, started_at lie
\* before the reaper's cutoff.
JobRow == [status: JobStatus \cup {"none"}, attempts: 0 .. MaxAttempts, version: Nat,
           later: BOOLEAN, locked_by: Workers \cup {None}, aged: BOOLEAN, overdue: BOOLEAN]

Settled(j) == row[j].status \in {"succeeded", "dead_lettered"}

Idle == [pc |-> "idle", job |-> None, version |-> 0, attempts |-> 0]

Holds(w, j) == worker[w].job = j

\* Redis still has an entry that leads a worker to j.
Pointed(j) == ready[j] > 0 \/ j \in delayed

Touch(j, changes) == row' = [row EXCEPT ![j] = changes]

\* Somebody who was to lead a worker to j is lost now; or, unless so, nothing is.
DropIf(j, lost) == dropped' = IF lost THEN [dropped EXCEPT ![j] = row[j].version] ELSE dropped

Fault == budget.faults > 0 /\ budget' = [budget EXCEPT !.faults = @ - 1]

-----------------------------------------------------------------------------
(* JobService.enqueue, and the admin's retry                               *)

\* later: the job is enqueued with a scheduled_for.
CreateJob(j, later) ==
    /\ row[j] = NoJob
    /\ Touch(j, [NoJob EXCEPT !.status = "queued", !.version = 1, !.later = later])
    /\ pushing' = pushing \cup {[job |-> j, by |-> IF later THEN "schedule" ELSE "enqueue"]}
    /\ UNCHANGED <<ready, delayed, worker, reaper, dropped, budget>>

\* Only a dead-lettered job can be retried; started_at and created_at stay.
RetryDeadLetter(j) ==
    /\ row[j].status = "dead_lettered" /\ budget.retries > 0
    /\ budget' = [budget EXCEPT !.retries = @ - 1]
    /\ Touch(j, [row[j] EXCEPT !.status = "queued", !.attempts = 0, !.later = FALSE,
                               !.locked_by = None, !.version = @ + 1])
    /\ pushing' = pushing \cup {[job |-> j, by |-> "retry"]}
    /\ UNCHANGED <<ready, delayed, worker, reaper, dropped>>

\* A failing push is swallowed by enqueue and reported by the retry; either way
\* nothing is pushed.
Push(p) ==
    /\ p \in pushing /\ pushing' = pushing \ {p}
    /\ \/ /\ p.by = "schedule"
          /\ delayed' = delayed \cup {p.job} /\ UNCHANGED <<ready, dropped, budget>>
       \/ /\ p.by # "schedule"
          /\ ready' = [ready EXCEPT ![p.job] = @ + 1] /\ UNCHANGED <<delayed, dropped, budget>>
       \/ Fault /\ UNCHANGED <<ready, delayed>> /\ DropIf(p.job, p.by = "schedule")
    /\ UNCHANGED <<row, worker, reaper>>

\* promote_due moves every entry that is due; which are is a matter of time.
PromoteDue(j) ==
    /\ j \in delayed
    /\ delayed' = delayed \ {j}
    /\ ready' = [ready EXCEPT ![j] = @ + 1]
    /\ UNCHANGED <<row, pushing, worker, reaper, dropped, budget>>

-----------------------------------------------------------------------------
(* The worker's loop                                                       *)

At(w, pc) == worker[w].pc = pc
Goto(w, pc) == worker' = [worker EXCEPT ![w].pc = pc]
Leave(w, pc) == worker' = [worker EXCEPT ![w] = [Idle EXCEPT !.pc = pc]]

\* BRPOP takes the entry out of Redis.
Dequeue(w) ==
    /\ At(w, "idle")
    /\ \E j \in Jobs :
        /\ ready[j] > 0
        /\ ready' = [ready EXCEPT ![j] = @ - 1]
        /\ worker' = [worker EXCEPT ![w] = [Idle EXCEPT !.pc = "load", !.job = j]]
    /\ UNCHANGED <<row, delayed, pushing, reaper, dropped, budget>>

\* A job that cannot be loaded is dropped.
LoadJob(w) ==
    /\ At(w, "load")
    /\ LET r == row[worker[w].job] IN
       \/ /\ worker' = [worker EXCEPT ![w] = [@ EXCEPT !.pc = "mark", !.version = r.version]]
          /\ UNCHANGED <<dropped, budget>>
       \/ Leave(w, "idle") /\ Fault /\ DropIf(worker[w].job, TRUE)
    /\ UNCHANGED <<row, ready, delayed, pushing, reaper>>

\* Mutant: the update names the version the row has now.
PinnedToCurrent(w, j) == TRUE

\* An update by w matches the version w has seen last.
Pinned(w, j) == row[j].version = worker[w].version

\* mark_running looks at the version only, not at the status.  The worker goes
\* on with the row it returns.
MarkRunning(w) ==
    /\ At(w, "mark")
    /\ LET j == worker[w].job IN
       IF Pinned(w, j)
       THEN /\ Touch(j, [row[j] EXCEPT !.status = "running", !.locked_by = w,
                                       !.overdue = FALSE, !.version = @ + 1])
            /\ worker' = [worker EXCEPT ![w] = [@ EXCEPT !.pc = "run",
                                !.version = row[j].version + 1, !.attempts = row[j].attempts]]
       ELSE UNCHANGED row /\ Leave(w, "dead")
    /\ UNCHANGED <<ready, delayed, pushing, reaper, dropped, budget>>

\* The handler reports success, or fails or raises.
RunHandler(w) ==
    /\ At(w, "run")
    /\ \E outcome \in {"succeed", "fail"} : Goto(w, outcome)
    /\ UNCHANGED <<row, ready, delayed, pushing, reaper, dropped, budget>>

\* Mutant: one attempt too few.
RetriesLeftOneTooFew(attempts) == attempts + 1 < MaxAttempts

RetriesLeft(attempts) == attempts < MaxAttempts

\* The jobs_attempts_check constraint refuses a count beyond max_attempts.
AttemptsCheck(attempts) == attempts <= MaxAttempts

Retrying(r, attempts) ==
    [r EXCEPT !.status = "retrying", !.attempts = attempts, !.later = TRUE, !.version = @ + 1]

DeadLettered(r, attempts) ==
    [r EXCEPT !.status = "dead_lettered", !.attempts = attempts, !.version = @ + 1]

MarkSucceeded(w) ==
    /\ At(w, "succeed")
    /\ LET j == worker[w].job IN
       IF Pinned(w, j)
       THEN Touch(j, [row[j] EXCEPT !.status = "succeeded", !.version = @ + 1]) /\ Leave(w, "idle")
       ELSE UNCHANGED row /\ Leave(w, "dead")
    /\ UNCHANGED <<ready, delayed, pushing, reaper, dropped, budget>>

\* mark_failed_will_retry or mark_dead_lettered; an update that does not match
\* or that the constraint refuses ends the process.
MarkFailed(w) ==
    /\ At(w, "fail")
    /\ LET j == worker[w].job
           n == worker[w].attempts + 1
       IN \/ /\ Pinned(w, j) /\ RetriesLeft(n)
             /\ Touch(j, Retrying(row[j], n)) /\ Goto(w, "push")
          \/ /\ Pinned(w, j) /\ ~RetriesLeft(n) /\ AttemptsCheck(n)
             /\ Touch(j, DeadLettered(row[j], n)) /\ Leave(w, "idle")
          \/ /\ ~Pinned(w, j) \/ ~AttemptsCheck(n)
             /\ UNCHANGED row /\ Leave(w, "dead")
    /\ UNCHANGED <<ready, delayed, pushing, reaper, dropped, budget>>

\* The delayed set holds an entry once.
PushDelayed(w) ==
    /\ At(w, "push")
    /\ delayed' = delayed \cup {worker[w].job}
    /\ Leave(w, "idle")
    /\ UNCHANGED <<row, ready, pushing, reaper, dropped, budget>>

\* Until mark_running, and between mark_failed_will_retry and push_delayed, the
\* worker is what leads to the job, unless the row has moved on without it.
Leads(w, j) ==
    \/ At(w, "load")
    \/ At(w, "mark") /\ Pinned(w, j)
    \/ At(w, "push") /\ row[j].version = worker[w].version + 1

Die(w) ==
    /\ worker[w].pc \notin {"idle", "dead"} /\ Fault
    /\ Leave(w, "dead")
    /\ LET j == worker[w].job IN DropIf(j, Leads(w, j))
    /\ UNCHANGED <<row, ready, delayed, pushing, reaper>>

\* The container's restart policy.
Restart(w) ==
    /\ At(w, "dead") /\ Goto(w, "idle")
    /\ UNCHANGED <<row, ready, delayed, pushing, reaper, dropped, budget>>

-----------------------------------------------------------------------------
(* Time, as far as the reaper sees it                                      *)

\* The job was created longer ago than the threshold.  While its first entry
\* is on its way this takes a backlog.
GrowOld(j) ==
    /\ row[j] # NoJob /\ ~row[j].aged
    /\ \/ MayWaitLong \/ row[j].status # "queued"
       \/ /\ ~Pointed(j) /\ \A p \in pushing : p.job # j
          /\ \A w \in Workers : ~Holds(w, j)
    /\ Touch(j, [row[j] EXCEPT !.aged = TRUE])
    /\ UNCHANGED <<ready, delayed, pushing, worker, reaper, dropped, budget>>

\* The run started longer ago than the threshold: a slow handler, or nobody is
\* running it any more.
Overrun(j) ==
    /\ row[j].status = "running" /\ ~row[j].overdue
    /\ MayRunLong \/ \A w \in Workers : ~(Holds(w, j) /\ Pinned(w, j))
    /\ Touch(j, [row[j] EXCEPT !.overdue = TRUE])
    /\ UNCHANGED <<ready, delayed, pushing, worker, reaper, dropped, budget>>

-----------------------------------------------------------------------------
(* StuckJobReaperJob, on the one instance that leads the scheduler         *)

\* Mutant: only running jobs are looked for.
StuckRunningOnly(r) == r.status = "running" /\ r.overdue

\* list_stuck_running, list_stuck_queued.
Stuck(r) == \/ r.status = "running" /\ r.overdue
            \/ r.status = "queued" /\ ~r.later /\ r.aged

ListStuck ==
    /\ reaper.found = {} /\ reaper.push = None
    /\ LET stuck == {j \in Jobs : Stuck(row[j])} IN
        /\ stuck # {}
        /\ reaper' = [reaper EXCEPT !.found =
               {[job |-> j, version |-> row[j].version, attempts |-> row[j].attempts] : j \in stuck}]
    /\ UNCHANGED <<row, ready, delayed, pushing, worker, dropped, budget>>

\* _recover: the worker's path on a failed run.  A conflict is passed over; any
\* other failure, the constraint's refusal too, is counted and the next row taken.
Recover(f) ==
    /\ f \in reaper.found /\ reaper.push = None
    /\ LET n == f.attempts + 1
           rest == [reaper EXCEPT !.found = @ \ {f}]
       IN \/ /\ row[f.job].version = f.version /\ RetriesLeft(n)
             /\ Touch(f.job, Retrying(row[f.job], n))
             /\ reaper' = [rest EXCEPT !.push = f.job]
             /\ UNCHANGED budget
          \/ /\ row[f.job].version = f.version /\ ~RetriesLeft(n) /\ AttemptsCheck(n)
             /\ Touch(f.job, DeadLettered(row[f.job], n))
             /\ reaper' = rest
             /\ UNCHANGED budget
          \/ /\ row[f.job].version # f.version \/ ~AttemptsCheck(n)
             /\ reaper' = rest
             /\ UNCHANGED <<row, budget>>
          \/ Fault /\ reaper' = rest /\ UNCHANGED row
    /\ UNCHANGED <<ready, delayed, pushing, worker, dropped>>

\* Mutant: the recovered job is not put into the delayed set.
RecoverPushOmitted ==
    /\ reaper.push # None
    /\ reaper' = [reaper EXCEPT !.push = None]
    /\ UNCHANGED <<row, ready, delayed, pushing, worker, dropped, budget>>

\* The push that follows mark_failed_will_retry.  If it fails, or if the answer
\* of that update was lost and its retry reported a conflict, nothing is pushed.
RecoverPush ==
    /\ reaper.push # None
    /\ reaper' = [reaper EXCEPT !.push = None]
    /\ \/ delayed' = delayed \cup {reaper.push} /\ UNCHANGED <<dropped, budget>>
       \/ UNCHANGED delayed /\ Fault /\ DropIf(reaper.push, TRUE)
    /\ UNCHANGED <<row, ready, pushing, worker>>

-----------------------------------------------------------------------------
Init ==
    /\ row = [j \in Jobs |-> NoJob]
    /\ ready = [j \in Jobs |-> 0]
    /\ delayed = {} /\ pushing = {}
    /\ worker = [w \in Workers |-> Idle]
    /\ reaper = [found |-> {}, push |-> None]
    /\ dropped = [j \in Jobs |-> 0]
    /\ budget = [faults |-> MaxFaults, retries |-> MaxRetries]

WorkerStep(w) ==
    \/ Dequeue(w) \/ LoadJob(w) \/ MarkRunning(w) \/ RunHandler(w) \/ MarkSucceeded(w)
    \/ MarkFailed(w) \/ PushDelayed(w) \/ Restart(w)

Reap == ListStuck \/ (\E f \in reaper.found : Recover(f)) \/ RecoverPush

\* Every job is settled and no entry or call is left.
Quiet == /\ \A j \in Jobs : Settled(j) /\ ~Pointed(j)
         /\ pushing = {} /\ \A w \in Workers : worker[w] = Idle

Next ==
    \/ \E j \in Jobs : \/ (\E later \in BOOLEAN : CreateJob(j, later)) \/ RetryDeadLetter(j) \/ PromoteDue(j)
                       \/ GrowOld(j) \/ Overrun(j)
    \/ \E p \in pushing : Push(p)
    \/ \E w \in Workers : WorkerStep(w) \/ Die(w)
    \/ Reap
    \/ Quiet /\ UNCHANGED vars

\* Processes keep running, containers are restarted, time passes, the promoter
\* and the reaper come round again, and handlers return.
Fairness ==
    /\ \A w \in Workers : WF_vars(WorkerStep(w))
    /\ \A j \in Jobs : WF_vars(PromoteDue(j)) /\ WF_vars(GrowOld(j)) /\ WF_vars(Overrun(j))
    /\ WF_vars(\E p \in pushing : Push(p))
    /\ WF_vars(Reap)

Spec == Init /\ [][Next]_vars /\ Fairness
-----------------------------------------------------------------------------
(* Properties *)

\* Every variable keeps its type.
TypeOK ==
    /\ row \in [Jobs -> JobRow]
    /\ ready \in [Jobs -> Nat]
    /\ delayed \subseteq Jobs
    /\ pushing \subseteq [job: Jobs, by: {"enqueue", "schedule", "retry"}]
    /\ worker \in [Workers -> [pc: {"idle", "load", "mark", "run", "succeed", "fail", "push", "dead"},
                               job: Jobs \cup {None}, version: Nat, attempts: 0 .. MaxAttempts]]
    /\ reaper \in [found: SUBSET [job: Jobs, version: Nat, attempts: 0 .. MaxAttempts],
                   push: Jobs \cup {None}]
    /\ dropped \in [Jobs -> Nat]
    /\ budget \in [faults: Nat, retries: Nat]

\* A job becomes succeeded only through the worker that marked it running last,
\* after that worker's handler has reported success: an attempt that the reaper
\* or another worker has taken over is never recorded (mark_succeeded).
SucceededByHolder ==
    [][\A j \in Jobs : row[j].status # "succeeded" /\ row'[j].status = "succeeded" =>
        \E w \in Workers : /\ Holds(w, j) /\ At(w, "succeed")
                           /\ row[j].locked_by = w /\ row[j].status = "running"]_vars

\* A job is dead-lettered only when its attempts are used up, whoever counts
\* them: workers, the reaper, or both in turn (mark_dead_lettered).
DeadLetteredIsExhausted ==
    \A j \in Jobs : row[j].status = "dead_lettered" => row[j].attempts = MaxAttempts

\* An unfinished job that nobody holds, that has no entry in Redis, and that is in no state
\* the reaper looks for.
Forgotten(j) ==
    /\ row[j].status \in {"queued", "running", "retrying"}
    /\ ~Pointed(j) /\ reaper.push # j
    /\ \A p \in pushing : p.job # j
    /\ \A w \in Workers : ~Holds(w, j)
    /\ ~(row[j].status = "running" /\ AttemptsCheck(row[j].attempts + 1))
    /\ ~(row[j].status = "queued" /\ ~row[j].later)

\* At every moment between the statements that move it an unfinished job is in somebody's
\* hands, in Redis, or in a state the reaper looks for (StuckJobReaperJob: "finds both kinds
\* of orphan").  A job is forgotten in two ways only.  Either the very row it has now, one
\* with a scheduled_for, lost what was to lead to it: the push of a scheduled job failed;
\* a worker died, or failed to load the job, between popping its entry and mark_running,
\* or died between mark_failed_will_retry and push_delayed; or the reaper's push failed.
\* Or a left-over entry made the job run once more than its attempts allow.  Any other
\* fault, and any fault on a row that has changed since, leaves the job in reach.
ForgottenHasACause ==
    \A j \in Jobs : Forgotten(j) =>
        \/ dropped[j] = row[j].version
        \/ row[j].status = "running" /\ row[j].attempts = MaxAttempts

\* Every job that was accepted is in the end succeeded or dead-lettered, through
\* failing handlers, dying workers and failing pushes.
EventuallySettled == \A j \in Jobs : row[j] # NoJob ~> Settled(j)

\* The same, except for the jobs that were forgotten.
SettledUnlessForgotten == \A j \in Jobs : row[j] # NoJob ~> Settled(j) \/ Forgotten(j)

-----------------------------------------------------------------------------
(* What the documentation says and the code does not keep *)

\* "DEAD_LETTERED is terminal until an operator explicitly retries it."
DeadLetterIsTerminal ==
    [][\A j \in Jobs : row[j].status = "dead_lettered" =>
        row'[j].status = "dead_lettered" \/ budget'.retries < budget.retries]_vars
=============================================================================
