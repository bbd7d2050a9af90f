---------------------------- MODULE ServiceCalls ----------------------------
(***************************************************************************)
(* Concurrent calls of services about one request, each a sequence of      *)
(* statements.  A call arrives over HTTP with the caller's own database    *)
(* client bound (or not, when such clients cannot be constructed), or      *)
(* comes from the scheduler, which never binds one.                        *)
(***************************************************************************)
EXTENDS RowPolicies, Statements, FiniteSets

CONSTANTS
    Calls,
    Requester, Approver, Admin, Stranger,   \* Stranger: an administrator of another company
    System,                                 \* the scheduler
    None,
    MaxFaults

People == {Requester, Approver, Admin, Stranger}

ASSUME CallAssumption ==
    /\ Requester \notin {Approver, Admin, Stranger, System, None}
    /\ Approver \notin {Admin, Stranger, System, None}
    /\ Admin \notin {Stranger, System, None} /\ Stranger \notin {System, None}
    /\ System # None
    /\ Calls \cap (People \cup {System, None}) = {}
    /\ MaxFaults \in Nat

VARIABLES
    status,     \* requests.status of the one request
    bound,      \* whether clients for callers can be constructed, and so are bound
    pc, op,     \* the statement each call executes next, and what it is about
    prior       \* prior[c]: calls that had removed a comment or set a preference
                \* when c began (history variable)

callVars == <<status, bound, pc, op, prior>>

Role(u) ==
    CASE u = Requester -> "employee" [] u = Approver -> "approver" [] OTHER -> "admin"

\* The claims and the profile row of u, which this model does not change.
Me(u) == [user |-> u, role |-> Role(u), company |-> IF u = Stranger THEN "other" ELSE "own",
          platform |-> FALSE, expired |-> FALSE]

Request == [requester |-> Requester, company |-> "own", status |-> status]

Stages == {[to |-> Approver, role |-> "none"]}

-----------------------------------------------------------------------------
Ended == {c \in Calls : pc[c] \in {"done", "failed"}}

Overlap(c, d) == c \notin prior[d] /\ d \notin prior[c]

Goto(c, p) == pc' = [pc EXCEPT ![c] = p]

After(c, r, p) == Goto(c, IF r = "ok" THEN p ELSE "failed")

NoOp == [by |-> None, kind |-> "none", on |-> None, arg |-> None]

\* A call begins with what it reads; if the check of that holds it goes on to p, and
\* otherwise it ends without having done anything.
Begin(c, by, kind, on, arg, check, p) ==
    /\ pc[c] = "idle"
    /\ \E r \in Replies :
        /\ Answers(r)
        /\ IF r = "ok" /\ check
           THEN /\ Goto(c, p)
                /\ op' = [op EXCEPT ![c] = [by |-> by, kind |-> kind, on |-> on, arg |-> arg]]
                /\ prior' = [prior EXCEPT ![c] =
                               {d \in Calls : pc[d] = "done" /\ op[d].kind \in {"hide", "prefer"}}]
           ELSE Goto(c, "failed") /\ UNCHANGED <<op, prior>>
    /\ UNCHANGED <<status, bound>>

\* A statement by u on a table reaches the rows the policy lets through.  The scheduler
\* binds no client.
Permits(u, table, policy) == Reaches(table, bound /\ u # System, policy)

\* AuditRepository.record_event, on the service role; p comes next.
Audited(c, p) == \E r \in Replies : Reply(r, TRUE) /\ After(c, r, p)

\* The request is decided or withdrawn by calls of other services.
Decide ==
    /\ status = "pending"
    /\ status' = "approved"
    /\ UNCHANGED <<bound, pc, op, prior, budget>>

InitCalls ==
    /\ status = "pending" /\ bound \in BOOLEAN
    /\ pc = [c \in Calls |-> "idle"]
    /\ op = [c \in Calls |-> NoOp]
    /\ prior = [c \in Calls |-> {}]
    /\ budget \in {[errors |-> n, lost |-> MaxFaults - n, crashes |-> 0] : n \in 0..MaxFaults}
=============================================================================
