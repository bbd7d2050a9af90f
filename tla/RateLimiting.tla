---------------------------- MODULE RateLimiting ----------------------------
(***************************************************************************)
(* The rate limiters of one caller over a fleet of API instances.  Without *)
(* Redis every instance counts for itself, by its monotonic clock, in a    *)
(* deque under a lock; with Redis one sorted set is shared and a script    *)
(* works on it, with the wall clock of the instance that calls.  Either    *)
(* way a call reads the clock first and gets to the count a little later,  *)
(* when calls that read theirs after it may have been counted already.     *)
(***************************************************************************)
EXTENDS Integers, Sequences, FiniteSets

CONSTANTS
    Calls, Instances,
    Limit, Window,      \* calls admitted per window of so many ticks
    Unit,               \* ticks in a second
    MaxSkew,            \* how far apart the wall clocks of two instances are
    MaxDelay,           \* ticks between reading the clock and reaching the count
    MaxRestarts, MaxClock

ASSUME LimitAssumption ==
    /\ {Limit, Window, MaxSkew, MaxDelay, MaxRestarts, MaxClock} \subseteq Nat
    /\ Unit \in Nat \ {0} /\ "redis" \notin Instances

VARIABLES
    backend,        \* "memory" or "redis": AppSettings.redis.enabled, for the fleet
    skew,           \* skew[i]: the wall clock of i is so much ahead
    clock,
    call,           \* call[c]: [pc, inst, now, since]
    hits,           \* hits[b]: the entries of bucket b's deque, or of the sorted set
    lives,          \* when the key in Redis expires
    restarts,
    admissions, refused,    \* who was admitted when, and who was not (history variables)
    told            \* told[b]: b's last refusal, as [at, wait] (history variable)

limitVars == <<hits, lives, admissions, refused, told>>
vars == <<backend, skew, clock, call, restarts, limitVars>>

Buckets == Instances \cup {"redis"}

Bucket(i) == IF backend = "redis" THEN "redis" ELSE i

-----------------------------------------------------------------------------
(* InMemoryRateLimiter and RedisRateLimiter: what of the count is kept.    *)
(* An entry is the time a call has read; the call makes it unique, like    *)
(* the member of the sorted set whose score it is.                         *)

\* popleft while the first is too old: one behind a younger one stays.
DropLeft(s, cutoff) ==
    LET old == {k \in 0 .. Len(s) : \A j \in 1 .. k : s[j].at < cutoff}
    IN  SubSeq(s, (CHOOSE k \in old : \A j \in old : j <= k) + 1, Len(s))

\* ZREMRANGEBYSCORE key -inf cutoff
ZRemRange(z, cutoff) == {h \in z : h.at > cutoff}

\* Mutant: what is older than half a window is dropped.
KeptHalf(b, now) ==
    IF b # "redis" THEN SelectSeq(hits[b], LAMBDA h : 2 * h.at > 2 * now - Window)
    ELSE {h \in hits[b] : 2 * h.at > 2 * now - Window}

\* What is left in bucket b, unless its key has expired altogether.
Kept(b, now) ==
    IF b # "redis" THEN DropLeft(hits[b], now - Window)
    ELSE IF lives <= clock THEN {} ELSE ZRemRange(hits[b], now - Window)

\* len(hits) and ZCARD, hits[0] and ZRANGE 0 0, append and ZADD.
Size(b, kept) == IF b = "redis" THEN Cardinality(kept) ELSE Len(kept)

Oldest(b, kept) ==
    IF b = "redis" THEN (CHOOSE h \in kept : \A g \in kept : h.at <= g.at).at ELSE kept[1].at

Added(b, kept, h) == IF b = "redis" THEN kept \cup {h} ELSE Append(kept, h)

\* Mutant: the header tells how long the oldest call has been counted.
RetryAfterAge(b, kept, now) ==
    IF Size(b, kept) = 0 THEN 0 ELSE (now - Oldest(b, kept)) \div Unit

\* retry_after_seconds, at least one second, as round() puts it in the header
RetryAfter(b, kept, now) ==
    LET left == IF Size(b, kept) = 0 THEN Window ELSE Oldest(b, kept) + Window - now
        ticks == IF left < Unit THEN Unit ELSE left
        whole == ticks \div Unit
        over == 2 * (ticks % Unit)
    IN  IF over > Unit \/ (over = Unit /\ whole % 2 = 1) THEN whole + 1 ELSE whole

-----------------------------------------------------------------------------
Init ==
    /\ backend \in {"memory", "redis"}
    /\ skew \in [Instances -> 0 .. MaxSkew]
    /\ backend = "memory" => skew = [i \in Instances |-> 0]
    /\ clock = 0 /\ restarts = 0 /\ lives = 0
    /\ call = [c \in Calls |-> [pc |-> "idle"]]
    /\ hits = [b \in Buckets |-> IF b = "redis" THEN {} ELSE <<>>]
    /\ admissions = [b \in Buckets |-> {}]
    /\ refused = [b \in Buckets |-> {}]
    /\ told = [b \in Buckets |-> [at |-> 0, wait |-> MaxClock]]

\* time.monotonic() or time.time()
ReadClock(c, i) ==
    /\ call[c].pc = "idle"
    /\ call' = [call EXCEPT ![c] = [pc |-> "check", inst |-> i, now |-> clock + skew[i], since |-> clock]]
    /\ UNCHANGED <<backend, skew, clock, restarts, limitVars>>

\* check, in the lock or in the script
Check(c) ==
    /\ call[c].pc = "check"
    /\ LET b == Bucket(call[c].inst)
           now == call[c].now
           kept == Kept(b, now)
       IN  IF Size(b, kept) >= Limit
           THEN /\ hits' = [hits EXCEPT ![b] = kept]
                /\ call' = [call EXCEPT ![c] = [pc |-> "refused"]]
                /\ refused' = [refused EXCEPT ![b] = @ \cup {c}]
                /\ told' = [told EXCEPT ![b] = [at |-> clock, wait |-> RetryAfter(b, kept, now)]]
                /\ UNCHANGED <<lives, admissions>>
           ELSE /\ hits' = [hits EXCEPT ![b] = Added(b, kept, [call |-> c, at |-> now])]
                /\ call' = [call EXCEPT ![c] = [pc |-> "admitted"]]
                /\ admissions' = [admissions EXCEPT ![b] = @ \cup {[call |-> c, at |-> clock]}]
                /\ lives' = IF b = "redis" THEN clock + Window ELSE lives
                /\ UNCHANGED <<refused, told>>
    /\ UNCHANGED <<backend, skew, clock, restarts>>

\* A new process counts from nothing; calls in the old one are lost.
Restart(i) ==
    /\ restarts < MaxRestarts /\ restarts' = restarts + 1
    /\ call' = [c \in Calls |-> IF call[c].pc = "check" /\ call[c].inst = i
                                THEN [pc |-> "lost"] ELSE call[c]]
    /\ hits' = [hits EXCEPT ![i] = <<>>]
    /\ admissions' = [admissions EXCEPT ![i] = {}]
    /\ UNCHANGED <<backend, skew, clock, lives, refused, told>>

Tick ==
    /\ clock < MaxClock
    /\ \A c \in Calls : call[c].pc = "check" => clock < call[c].since + MaxDelay
    /\ clock' = clock + 1
    /\ UNCHANGED <<backend, skew, call, restarts, limitVars>>

Next ==
    \/ \E c \in Calls : Check(c) \/ \E i \in Instances : ReadClock(c, i)
    \/ \E i \in Instances : Restart(i)
    \/ Tick
    \/ clock = MaxClock /\ UNCHANGED vars

Spec == Init /\ [][Next]_vars

-----------------------------------------------------------------------------
(* Properties                                                              *)

Promise == INSTANCE SlidingWindow WITH Slack <- MaxSkew + MaxDelay

\* RateLimiter ("lets app.bootstrap ... treat either backend interchangeably"): both keep the
\* sliding window, as closely as clocks and threads allow.
KeepsTheWindow == Promise!Spec

\* Retry-After: who waits as long as the last refusal said, and half a second for the
\* rounding, is admitted if nobody else of the bucket was in the meantime.
RetryHelps ==
    [][\A b \in Buckets : refused'[b] # refused[b] /\ Limit > 0 =>
        \/ clock <= told[b].at + told[b].wait * Unit + Unit \div 2 + MaxSkew + MaxDelay
        \/ \E a \in admissions[b] : a.at >= told[b].at]_vars
=============================================================================
