------------------------------ MODULE MCGateway ------------------------------
(* A small instance of Gateway for TLC. *)
EXTENDS Gateway, TLC

CONSTANTS t1, t2

\* One task may be asked anything.  What runs beside it is a write behind a limiter that also
\* guards reads, so that each of two limiters is met with the other one open.
MCBeside == {e \in Endpoints : e.name = "ask_assistant"}

MCMenu == t1 :> Representatives @@ t2 :> MCBeside

MCCallers == t1 :> Users @@ t2 :> {Admin}

MCRounds == t1 :> 1 @@ t2 :> 1

MCLimits == [l \in Limiters |-> 1]
=============================================================================
