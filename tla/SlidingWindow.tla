--------------------------- MODULE SlidingWindow ---------------------------
(***************************************************************************)
(* What a rate limiter promises, whichever backend keeps its count.  A     *)
(* bucket admits a call only if it has admitted fewer than Limit calls in  *)
(* the last Window - Slack ticks, and refuses one only if it has admitted  *)
(* Limit calls in the last Window + Slack ticks; in between it may do      *)
(* either.  A count kept by a process starts anew with the process.        *)
(***************************************************************************)
EXTENDS Naturals, FiniteSets

CONSTANTS Buckets, Calls, Limit, Window, Slack

VARIABLES
    clock,
    admissions,     \* admissions[b]: the calls admitted by bucket b, as [call, at]
    refused         \* refused[b]: the calls refused by b

vars == <<clock, admissions, refused>>

Init ==
    /\ clock = 0
    /\ admissions = [b \in Buckets |-> {}]
    /\ refused = [b \in Buckets |-> {}]

Tick == clock' = clock + 1 /\ UNCHANGED <<admissions, refused>>

Admit(b, c) ==
    /\ Cardinality({a \in admissions[b] : a.at + Window > clock + Slack}) < Limit
    /\ admissions' = [admissions EXCEPT ![b] = @ \cup {[call |-> c, at |-> clock]}]
    /\ UNCHANGED <<clock, refused>>

Refuse(b, c) ==
    /\ Cardinality({a \in admissions[b] : a.at + Window + Slack >= clock}) >= Limit
    /\ refused' = [refused EXCEPT ![b] = @ \cup {c}]
    /\ UNCHANGED <<clock, admissions>>

Forget(b) == admissions' = [admissions EXCEPT ![b] = {}] /\ UNCHANGED <<clock, refused>>

Next ==
    \/ Tick
    \/ \E b \in Buckets : Forget(b) \/ \E c \in Calls : Admit(b, c) \/ Refuse(b, c)

Spec == Init /\ [][Next]_vars
=============================================================================
