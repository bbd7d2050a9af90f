--------------------------- MODULE RequestMaterial ---------------------------
(***************************************************************************)
(* What people attach to a request, write under it and are told about it:  *)
(* Attachments, Comments and Notices side by side.  The three share the    *)
(* request, the people and the faults and none reads what another writes,  *)
(* so the calls of one behaviour are all calls of one service (focus).     *)
(***************************************************************************)
EXTENDS Attachments, Comments, Notices

VARIABLE focus

vars == <<callVars, attVars, comments, noticeVars, focus, budget>>

Init ==
    /\ InitCalls /\ InitAttachments /\ InitComments /\ InitNotices
    /\ focus \in {"attachments", "comments", "notices"}

Step(c) ==
    \/ focus = "attachments" /\ AttachmentStep(c) /\ UNCHANGED <<comments, noticeVars>>
    \/ focus = "comments" /\ CommentStep(c) /\ UNCHANGED <<attVars, noticeVars>>
    \/ focus = "notices" /\ NoticeStep(c) /\ UNCHANGED <<attVars, comments>>

Next ==
    \/ (\E c \in Calls : Step(c)) /\ UNCHANGED focus
    \/ Decide /\ focus # "notices" /\ UNCHANGED <<attVars, comments, noticeVars, focus>>
    \/ CloseOutbox /\ UNCHANGED <<attVars, comments, focus>>
    \/ Ended = Calls /\ UNCHANGED vars      \* every call has ended

Spec == Init /\ [][Next]_vars

-----------------------------------------------------------------------------
(* Properties                                                              *)

\* AttachmentService: a row that is listed has its file, unless a removal took the file
\* and did not get to the row, or the insertion of the row was not acknowledged and the
\* file was cleaned up under it.
ListedHasFile ==
    \A i \in Attachables : Live(i) /\ i \notin files =>
        \/ i \in unclear
        \/ \E c \in Calls : op[c].kind = "remove" /\ op[c].on = i /\ pc[c] \in {"hide", "failed"}

\* replace_attachment: the version that was replaced and its replacement are both listed
\* only while the replacing call is under way or after it reported a failure.
ReplacedIsGone ==
    \A c \in Calls : op[c].kind = "replace" /\ pc[c] = "done" => ~Live(op[c].on)

\* _store_new_attachment: a file without a row is left behind only if a statement failed.
\* That the caller's own client may not insert the row is no such failure: the policy lets
\* no administrator in who is not a party, the service does.
OrphanOnlyByFault ==
    \A i \in files : \/ att[i].state # "none" \/ pc[i] \in {"row", "cleanup"}
                     \/ budget.errors + budget.lost < MaxFaults

\* Both services, with the caller's own client or the service role: what is written under a
\* request is written by people who may see it.
OnlyPartiesWrite ==
    /\ \A i \in Attachables : att[i].state # "none" => requests_select(Me(att[i].uploader), Request, Stages)
    /\ \A i \in Commentables :
        comments[i].state # "none" => requests_select(Me(comments[i].author), Request, Stages)

\* add_comment: a reply under a comment that has been removed was written by a call that
\* the removal overlapped; once it is gone nobody can begin to answer it.
RepliesBeforeRemoval ==
    \A c, d \in Calls :
        /\ comments[c].state # "none" /\ op[c].kind = "comment"
        /\ op[d].kind = "hide" /\ op[d].on = op[c].on /\ pc[d] = "done"
        => d \notin prior[c]

\* update_preference: what a call set stays set until another call that sets it, or that was
\* under way at the same time and wrote back what it had read before.
PatchSurvives ==
    \A c \in Calls : op[c].kind = "prefer" /\ pc[c] = "done" =>
        \/ prefs[Requester][op[c].on.field] = op[c].on.value
        \/ \E d \in Calls \ {c} :
            /\ op[d].kind = "prefer" /\ d \notin prior[c]
            /\ op[d].on.field = op[c].on.field \/ Overlap(c, d)

-----------------------------------------------------------------------------
(* What the documentation says and the code does not keep                  *)

\* _create_and_dispatch returns None "if the recipient has disabled in-app delivery for this
\* notification type": who turned notices off, and nothing else since, gets none.
PreferenceHonoured ==
    \A c, d \in Calls :
        /\ op[c].kind = "notify" /\ notices[c].to = Requester
        /\ op[d].kind = "prefer" /\ pc[d] = "done" /\ d \in prior[c]
        /\ op[d].on = [field |-> "inApp", value |-> FALSE]
        => \E e \in Calls \ {c, d} : op[e].kind = "prefer"
=============================================================================
