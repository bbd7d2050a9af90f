------------------------------ MODULE Comments ------------------------------
(***************************************************************************)
(* CommentService.  A comment is named after the call that wrote it;       *)
(* Earlier was there before, and Elsewhere belongs to another request of   *)
(* the same company.                                                       *)
(***************************************************************************)
EXTENDS ServiceCalls

CONSTANTS Earlier, Elsewhere

Commentables == {Earlier, Elsewhere} \cup Calls

ASSUME EarlierAssumption ==
    /\ Earlier # Elsewhere
    /\ {Earlier, Elsewhere} \cap (Calls \cup People \cup {System, None}) = {}

VARIABLE comments   \* comments[i]: the comments row, or NoComment

NoComment == [state |-> "none", author |-> None, parent |-> None]

CommentRecord ==
    [state: {"none", "live", "deleted"}, author: People \cup {None}, parent: Commentables \cup {None}]

\* What the statements write
NewComment(by, parent) == [state |-> "live", author |-> by, parent |-> parent]

HiddenComment(row) == [row EXCEPT !.state = "deleted"]

\* Mutant: a parent that exists is good enough.
ParentExists(i) == comments[i].state # "none" /\ i # Elsewhere

\* find_by_id and what add_comment asks of its answer
ParentUsable(i) == comments[i].state = "live" /\ i # Elsewhere

\* The caller sees the comments of a request as the policy allows.
SeesComments(u) == Permits(u, "comments", material_select(Me(u), Request, Stages))

-----------------------------------------------------------------------------
(* add_comment; a body that does not validate ends the call before it does *)
(* anything                                                                *)

BeginComment(c) ==
    /\ \E u \in People, parent \in {None} \cup (Commentables \ {c}), valid \in BOOLEAN :
        Begin(c, u, "comment", parent, None,
              /\ valid /\ _authorize_view(Me(u), Request, Stages)
              /\ parent = None \/ (SeesComments(u) /\ ParentUsable(parent)),
              "write")
    /\ UNCHANGED comments

WriteComment(c) ==
    /\ pc[c] = "write"
    /\ LET u == op[c].by IN
       \E r \in Replies :
        /\ Reply(r, Permits(u, "comments", material_insert(Me(u), u, Request, Stages)))
        /\ comments' = IF Applied(r) THEN [comments EXCEPT ![c] = NewComment(u, op[c].on)] ELSE comments
        /\ After(c, r, "note")
    /\ UNCHANGED <<status, bound, op, prior>>

-----------------------------------------------------------------------------
(* remove_comment                                                          *)

BeginHide(c) ==
    /\ \E u \in People, i \in Commentables \ {c, Elsewhere} :
        Begin(c, u, "hide", i, None,
              /\ comments[i].state # "none" /\ SeesComments(u)
              /\ Request.company = Me(u).company /\ authorize_comment_moderation(Me(u)),
              "erase")
    /\ UNCHANGED comments

HideComment(c) ==
    /\ pc[c] = "erase"
    /\ \E r \in Replies :
        /\ Reply(r, Permits(op[c].by, "comments", material_moderate_admin(Me(op[c].by), Request)))
        /\ comments' = IF Applied(r) THEN [comments EXCEPT ![op[c].on] = HiddenComment(@)] ELSE comments
        /\ After(c, r, "note")
    /\ UNCHANGED <<status, bound, op, prior>>

AuditComment(c) == pc[c] = "note" /\ Audited(c, "done") /\ UNCHANGED <<status, bound, op, prior, comments>>

-----------------------------------------------------------------------------
InitComments ==
    comments = [i \in Commentables |->
                  IF i \in {Earlier, Elsewhere} THEN NewComment(Requester, None) ELSE NoComment]

CommentStep(c) ==
    BeginComment(c) \/ WriteComment(c) \/ BeginHide(c) \/ HideComment(c) \/ AuditComment(c)
=============================================================================
