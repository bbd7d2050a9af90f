----------------------------- MODULE Statements -----------------------------
(***************************************************************************)
(* One repository statement, as BaseRepository executes it.  A statement   *)
(* is atomic on its own and there is no transaction around several of      *)
(* them.  _execute retries a statement whose answer did not arrive: when   *)
(* the first attempt had been applied, the second finds nothing to update  *)
(* (or the key taken) and the caller is told of a failure for a write that *)
(* is in the database.  That outcome is "lost".                            *)
(***************************************************************************)
EXTENDS Naturals

VARIABLE budget     \* what the environment may still do wrong

Replies == {"ok", "refused", "error", "lost"}

\* matches: the row an update or delete addresses is there, the key of an
\* insert is free, and no constraint is in the way.
Reply(r, matches) ==
    \/ r = "ok"      /\ matches  /\ UNCHANGED budget
    \/ r = "refused" /\ ~matches /\ UNCHANGED budget
    \/ r = "error"   /\ budget.errors > 0
                     /\ budget' = [budget EXCEPT !.errors = @ - 1]
    \/ r = "lost"    /\ matches /\ budget.lost > 0
                     /\ budget' = [budget EXCEPT !.lost = @ - 1]

\* A statement that reads: it answers or fails.
Answers(r) == r \in {"ok", "error"} /\ Reply(r, TRUE)

Applied(r) == r \in {"ok", "lost"}

\* The process that executes a call dies.
Dies == budget.crashes > 0 /\ budget' = [budget EXCEPT !.crashes = @ - 1]
=============================================================================
