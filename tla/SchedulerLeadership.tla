------------------------ MODULE SchedulerLeadership ------------------------
(***************************************************************************)
(* The scheduler of several instances of the application that share Redis: *)
(* LeaderElection's thread in each of them, and the runner that            *)
(* SchedulerCoordinator._make_runner builds for one job, entered by the    *)
(* backend's interval thread and by trigger_now.                           *)
(*                                                                         *)
(* Time passes in units of the renewal interval.  A Redis key is its owner *)
(* and the time it has left; Nobody owns a key that is not there.  Redis   *)
(* errors are those of budget.errors, and budget.lost those where the      *)
(* command was executed and the answer did not arrive.                     *)
(***************************************************************************)
EXTENDS Statements

CONSTANTS
    Instances,
    Threads,            \* the threads of one instance that enter the runner
    Nobody,
    Dead,               \* the token of a process that is no more
    LeaderTtl, JobTtl,  \* lifetimes of the two keys
    MaxRuns,            \* entries of the runner
    MaxFaults           \* Redis errors, lost answers, crashes and shutdowns, together

ASSUME SchedulerAssumption ==
    /\ Nobody \notin Instances \cup Threads \cup {Dead} /\ Dead \notin Instances
    /\ LeaderTtl \in Nat \ {0} /\ JobTtl \in Nat \ {0} /\ MaxRuns \in Nat /\ MaxFaults \in Nat

VARIABLES
    leaderKey, jobKey,  \* [owner, ttl]
    flag,               \* flag[i]: _is_leader
    since,              \* since[i]: time since the last tick, counted from its command if that succeeded
    loop,               \* loop[i]: where the election thread is in _tick
    life,               \* life[i]: "up" or "stopped"
    joined,             \* joined[i]: stop() found no tick in flight when it went on
    mutex,              \* mutex[i]: the thread that holds the job's threading.Lock
    run,                \* run[i][t]: where the thread is in the runner
    age,                \* age[i]: time since the job lock was acquired
    currently_running,  \* of the JobStatistics of each instance
    left                \* entries of the runner that are left

schedulerVars == <<leaderKey, jobKey, flag, since, loop, life, joined, mutex, run, age,
                   currently_running, left, budget>>

electionVars == <<leaderKey, flag, since, loop, joined>>
runnerVars == <<jobKey, mutex, run, age, currently_running>>

Free == [owner |-> Nobody, ttl |-> 0]

Running(i, t) == run[i][t] \in {"job", "release"}

-----------------------------------------------------------------------------
(* RedisDistributedLock                                                    *)

\* SET NX with the lifetime.
Acquired(key, i, ttl) == IF key.owner = Nobody THEN [owner |-> i, ttl |-> ttl] ELSE key

\* Mutant: a key is deleted whoever owns it.
ReleasedByName(key, i) == Free

\* The release compares the token; releasing what is not owned does nothing.
Released(key, i) == IF key.owner = i THEN Free ELSE key

Extended(key, i, ttl) == IF key.owner = i THEN [key EXCEPT !.ttl = ttl] ELSE key

\* Mutant: the keys are set without a lifetime.
AgedNever(key) == key

Aged(key) == IF key.ttl <= 1 THEN Free ELSE [key EXCEPT !.ttl = @ - 1]

-----------------------------------------------------------------------------
(* LeaderElection                                                          *)

\* _run_loop enters _tick, which looks at _is_leader.
StartTick(i) ==
    /\ life[i] = "up" /\ loop[i] = "wait"
    /\ loop' = [loop EXCEPT ![i] = IF flag[i] THEN "extend" ELSE "acquire"]
    /\ UNCHANGED <<leaderKey, flag, since, joined, life, runnerVars, left, budget>>

TickAcquire(i) ==
    /\ loop[i] = "acquire"
    /\ \E r \in Replies :
        /\ Reply(r, leaderKey.owner = Nobody)
        /\ leaderKey' = IF Applied(r) THEN Acquired(leaderKey, i, LeaderTtl) ELSE leaderKey
        /\ loop' = [loop EXCEPT ![i] = IF r = "ok" THEN "won" ELSE "wait"]
    /\ since' = [since EXCEPT ![i] = 0]
    /\ UNCHANGED <<flag, joined, life, runnerVars, left>>

\* The lock object forgets its token when stop() releases it, so that an
\* extension after that fails.
TickExtend(i) ==
    /\ loop[i] = "extend"
    /\ \E r \in Replies :
        /\ Reply(r, leaderKey.owner = i /\ life[i] = "up")
        /\ leaderKey' = IF Applied(r) THEN Extended(leaderKey, i, LeaderTtl) ELSE leaderKey
        /\ loop' = [loop EXCEPT ![i] = IF r = "ok" THEN "wait" ELSE "lost"]
        /\ since' = IF r = "ok" THEN [since EXCEPT ![i] = 0] ELSE since
    /\ UNCHANGED <<flag, joined, life, runnerVars, left>>

\* Mutant: a renewal that fails leaves the flag as it was.
TickKeepsFlag(i) ==
    /\ loop[i] \in {"won", "lost"}
    /\ flag' = [flag EXCEPT ![i] = @ \/ loop[i] = "won"]
    /\ since' = IF loop[i] = "lost" THEN [since EXCEPT ![i] = 0] ELSE since
    /\ loop' = [loop EXCEPT ![i] = "wait"]
    /\ UNCHANGED <<leaderKey, joined, life, runnerVars, left, budget>>

\* A renewal without a confirmed success is taken as leadership lost.
SetFlag(i) ==
    /\ loop[i] \in {"won", "lost"}
    /\ flag' = [flag EXCEPT ![i] = loop[i] = "won"]
    /\ since' = IF loop[i] = "lost" THEN [since EXCEPT ![i] = 0] ELSE since
    /\ loop' = [loop EXCEPT ![i] = "wait"]
    /\ UNCHANGED <<leaderKey, joined, life, runnerVars, left, budget>>

\* Mutant: the lock is left to expire.
StopWithoutRelease(i) ==
    /\ life[i] = "up" /\ budget.stops > 0
    /\ joined' = [joined EXCEPT ![i] = loop[i] = "wait"]
    /\ flag' = [flag EXCEPT ![i] = FALSE]
    /\ life' = [life EXCEPT ![i] = "stopped"]
    /\ budget' = [budget EXCEPT !.stops = @ - 1]
    /\ UNCHANGED <<leaderKey, since, loop, runnerVars, left>>

\* stop() waits for the thread, for a limited time, so a tick may still be in
\* flight; then, if the flag is set, it releases the lock and clears the flag.
Stop(i) ==
    /\ life[i] = "up" /\ budget.stops > 0
    /\ joined' = [joined EXCEPT ![i] = loop[i] = "wait"]
    /\ \E e \in {0, 1} :
        /\ e = 1 => flag[i] /\ budget.errors > 0
        /\ leaderKey' = IF flag[i] /\ e = 0 THEN Released(leaderKey, i) ELSE leaderKey
        /\ budget' = [budget EXCEPT !.stops = @ - 1, !.errors = @ - e]
    /\ flag' = [flag EXCEPT ![i] = FALSE]
    /\ life' = [life EXCEPT ![i] = "stopped"]
    /\ UNCHANGED <<since, loop, runnerVars, left>>

-----------------------------------------------------------------------------
(* The runner                                                              *)

At(i, t, p) == run' = [run EXCEPT ![i][t] = p]

is_leader(i) == flag[i]

\* The backend's interval fires, or trigger_now starts its thread.
EnterRunner(i, t) ==
    /\ life[i] = "up" /\ run[i][t] = "idle" /\ left > 0
    /\ left' = left - 1
    /\ IF is_leader(i) THEN At(i, t, "mutex") ELSE UNCHANGED run
    /\ UNCHANGED <<electionVars, life, jobKey, mutex, age, currently_running, budget>>

\* threading.Lock, not blocking.
TakeMutex(i, t) ==
    /\ run[i][t] = "mutex"
    /\ IF mutex[i] = Nobody
       THEN mutex' = [mutex EXCEPT ![i] = t] /\ At(i, t, "lock")
       ELSE At(i, t, "idle") /\ UNCHANGED mutex
    /\ UNCHANGED <<electionVars, life, jobKey, age, currently_running, left, budget>>

\* The job's distributed lock, not blocking; a Redis error is a refusal.
TakeJobLock(i, t) ==
    /\ run[i][t] = "lock"
    /\ \E r \in Replies :
        /\ Reply(r, jobKey.owner = Nobody)
        /\ jobKey' = IF Applied(r) THEN Acquired(jobKey, i, JobTtl) ELSE jobKey
        /\ IF r = "ok"
           THEN /\ At(i, t, "job")
                /\ currently_running' = [currently_running EXCEPT ![i] = TRUE]
                /\ age' = [age EXCEPT ![i] = 0]
                /\ UNCHANGED mutex
           ELSE /\ At(i, t, "idle")
                /\ mutex' = [mutex EXCEPT ![i] = Nobody]
                /\ UNCHANGED <<age, currently_running>>
    /\ UNCHANGED <<electionVars, life, left>>

\* BaseJob.run returns a result whatever _execute does.
FinishJob(i, t) ==
    /\ run[i][t] = "job"
    /\ At(i, t, "release")
    /\ UNCHANGED <<electionVars, life, jobKey, mutex, age, currently_running, left, budget>>

ReleaseJobLock(i, t) ==
    /\ run[i][t] = "release"
    /\ \E r \in {"ok", "error"} :
        /\ Reply(r, TRUE)
        /\ jobKey' = IF Applied(r) THEN Released(jobKey, i) ELSE jobKey
    /\ currently_running' = [currently_running EXCEPT ![i] = FALSE]
    /\ age' = [age EXCEPT ![i] = 0]
    /\ At(i, t, "unlock")
    /\ UNCHANGED <<electionVars, life, mutex, left>>

ReleaseMutex(i, t) ==
    /\ run[i][t] = "unlock"
    /\ mutex' = [mutex EXCEPT ![i] = Nobody]
    /\ At(i, t, "idle")
    /\ UNCHANGED <<electionVars, life, jobKey, age, currently_running, left, budget>>

-----------------------------------------------------------------------------
(* The environment                                                         *)

Older(n, cap) == IF n < cap THEN n + 1 ELSE n

Pass ==
    /\ leaderKey' = Aged(leaderKey)
    /\ jobKey' = Aged(jobKey)
    /\ since' = [i \in Instances |-> IF flag[i] \/ loop[i] = "won"
                                    THEN Older(since[i], LeaderTtl) ELSE 0]
    /\ age' = [i \in Instances |-> IF \E t \in Threads : Running(i, t)
                                  THEN Older(age[i], JobTtl) ELSE 0]
    /\ UNCHANGED <<flag, loop, joined, life, mutex, run, currently_running, left, budget>>

Fresh(i) ==
    /\ flag' = [flag EXCEPT ![i] = FALSE]
    /\ since' = [since EXCEPT ![i] = 0]
    /\ loop' = [loop EXCEPT ![i] = "wait"]
    /\ joined' = [joined EXCEPT ![i] = TRUE]
    /\ mutex' = [mutex EXCEPT ![i] = Nobody]
    /\ run' = [run EXCEPT ![i] = [t \in Threads |-> "idle"]]
    /\ currently_running' = [currently_running EXCEPT ![i] = FALSE]
    /\ age' = [age EXCEPT ![i] = 0]

\* The next process has a token of its own, so the key stays until it expires.
Orphaned(key, i) == IF key.owner = i THEN [key EXCEPT !.owner = Dead] ELSE key

\* The process dies in the middle of anything, or ends after stop(), and another
\* takes its place.
Replaced(i) ==
    /\ life' = [life EXCEPT ![i] = "up"] /\ Fresh(i)
    /\ leaderKey' = Orphaned(leaderKey, i) /\ jobKey' = Orphaned(jobKey, i)
    /\ UNCHANGED left

Die(i) == Dies /\ Replaced(i)

End(i) == life[i] = "stopped" /\ UNCHANGED budget /\ Replaced(i)

-----------------------------------------------------------------------------
FaultsLeft(b) == b.errors + b.lost + b.crashes + b.stops

SchedulerInit ==
    /\ leaderKey = Free /\ jobKey = Free
    /\ flag = [i \in Instances |-> FALSE]
    /\ since = [i \in Instances |-> 0]
    /\ loop = [i \in Instances |-> "wait"]
    /\ life = [i \in Instances |-> "up"]
    /\ joined = [i \in Instances |-> TRUE]
    /\ mutex = [i \in Instances |-> Nobody]
    /\ run = [i \in Instances |-> [t \in Threads |-> "idle"]]
    /\ age = [i \in Instances |-> 0]
    /\ currently_running = [i \in Instances |-> FALSE]
    /\ left = MaxRuns
    /\ budget \in {b \in [errors: 0..MaxFaults, lost: 0..MaxFaults, crashes: 0..MaxFaults,
                            stops: 0..MaxFaults] : FaultsLeft(b) = MaxFaults}

Election(i) == StartTick(i) \/ TickAcquire(i) \/ TickExtend(i) \/ SetFlag(i)

Runner(i, t) ==
    \/ EnterRunner(i, t) \/ TakeMutex(i, t) \/ TakeJobLock(i, t)
    \/ FinishJob(i, t) \/ ReleaseJobLock(i, t) \/ ReleaseMutex(i, t)

SchedulerNext ==
    \/ \E i \in Instances :
        \/ Election(i) \/ Stop(i)
        \/ \E t \in Threads : Runner(i, t)
        \/ Die(i) \/ End(i)
    \/ Pass

\* The election thread loops, Redis expires keys, and a stopped instance is
\* replaced.
SchedulerSpec ==
    /\ SchedulerInit /\ [][SchedulerNext]_schedulerVars
    /\ WF_schedulerVars(Pass)
    /\ \A i \in Instances : WF_schedulerVars(Election(i)) /\ WF_schedulerVars(End(i))
-----------------------------------------------------------------------------
(* Properties *)

\* Two instances act as leader at the same time only when one of them has had no
\* answer to a renewal for the lock's whole lifetime, and has not looked since
\* (LeaderElection._tick); errors, lost answers, crashes and restarts of either
\* do not suffice.  The exception is a tick that was still in flight when stop()
\* gave up waiting for it.
OneLeaderUnlessLate ==
    \A i, j \in Instances : i # j /\ flag[i] /\ flag[j] =>
        \E k \in {i, j} : since[k] >= LeaderTtl \/ ~joined[k]

\* An instance whose stop() waited for its thread neither believes it leads nor
\* keeps the key from the others, unless Redis failed to answer
\* (LeaderElection.stop).
StopHandsOver ==
    \A i \in Instances : life[i] = "stopped" /\ joined[i] =>
        /\ ~flag[i]
        /\ leaderKey.owner = i => FaultsLeft(budget) + 1 < MaxFaults

\* Two instances execute the job at the same time only when one of them has been
\* at it for the whole lifetime of the job's lock; a late release does not take
\* away the lock of the one that runs now (_make_runner).
JobOverlapOnlyWhenLate ==
    \A i, j \in Instances : i # j =>
        ~ \E t, u \in Threads :
            Running(i, t) /\ Running(j, u) /\ age[i] < JobTtl /\ age[j] < JobTtl

\* Whatever crashes, shutdowns and Redis errors there were, some instance becomes
\* leader again and again (LeaderElection).
AlwaysALeaderAgain == []<>(\E i \in Instances : flag[i])
=============================================================================
