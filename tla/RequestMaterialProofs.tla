------------------------ MODULE RequestMaterialProofs ------------------------
(***************************************************************************)
(* Proofs about RequestMaterial, for any number of calls and of faults.    *)
(* The three services move through disjoint program counters, so the       *)
(* invariant has a part for each of them, and a step of one leaves the     *)
(* other parts alone.                                                      *)
(***************************************************************************)
EXTENDS RequestMaterial, TLAPS

-----------------------------------------------------------------------------
(* The inductive invariant                                                 *)

AttPcs == {"store", "row", "cleanup", "unstore", "hide", "audit"}
ComPcs == {"write", "erase", "note"}
NoticePcs == {"notice", "noticeAndMail", "mark", "markAll", "upsert"}
Pcs == AttPcs \cup ComPcs \cup NoticePcs \cup {"idle", "done", "failed"}

Budget == [errors: Nat, lost: Nat, crashes: Nat]
AttRow == [state: {"none", "live", "deleted"}, uploader: People \cup {None}, version: Nat,
           replaces: Attachables \cup {None}]

\* The people who may see the request; Stranger may not.
Parties == {Requester, Approver, Admin}

CallInv ==
    /\ pc \in [Calls -> Pcs] /\ op = [c \in Calls |-> op[c]] /\ prior \in [Calls -> SUBSET Calls]
    /\ budget \in Budget /\ budget.errors + budget.lost <= MaxFaults
    /\ \A c \in Calls : /\ pc[c] = "idle" => op[c].kind = "none"
                        /\ \A d \in prior[c] : pc[d] = "done"

\* What a call of AttachmentService relies on.
AttCall(c) ==
    /\ pc[c] \in {"idle", "store", "row"} => att[c].state = "none"
    /\ pc[c] \in {"store", "row", "cleanup"} =>
           /\ op[c].kind \in {"upload", "replace"} /\ op[c].by \in Parties
           /\ op[c].on \in Attachables \cup {None}
    /\ pc[c] = "row" => c \in files
    /\ pc[c] = "cleanup" /\ att[c].state # "none" => c \in unclear
    /\ pc[c] = "unstore" => op[c].kind = "remove"
    /\ pc[c] = "hide" => op[c].kind \in {"replace", "remove"}
    /\ pc[c] = "audit" => op[c].kind \in {"upload", "replace", "remove"}
    /\ op[c].kind \in {"replace", "remove"} =>
           op[c].on \in Attachables /\ att[op[c].on].state # "none"
    /\ op[c].kind = "replace" /\ pc[c] = "done" => ~Live(op[c].on)

AttInv ==
    /\ att \in [Attachables -> AttRow] /\ files \subseteq Attachables
    /\ att[First].state # "none"
    /\ \A c \in Calls : AttCall(c)
    /\ \A i \in Attachables : att[i].state # "none" => att[i].uploader \in Parties
    /\ ListedHasFile /\ OrphanOnlyByFault

\* What a call of CommentService relies on.
ComCall(c) ==
    /\ pc[c] \in {"idle", "write"} => comments[c].state = "none"
    /\ pc[c] = "write" =>
           /\ op[c].kind = "comment" /\ op[c].by \in Parties
           /\ op[c].on \in Commentables \cup {None}
    /\ pc[c] = "erase" => op[c].kind = "hide"
    /\ pc[c] = "note" => op[c].kind \in {"comment", "hide"}
    /\ op[c].kind = "hide" =>
           /\ op[c].on \in Commentables /\ comments[op[c].on].state # "none"
           /\ pc[c] \in {"note", "done"} => comments[op[c].on].state = "deleted"

\* No call begins to answer a comment that is gone.
NoLateReply ==
    \A c, d \in Calls :
        op[c].kind = "comment" /\ op[d].kind = "hide" /\ op[d].on = op[c].on => d \notin prior[c]

ComInv ==
    /\ comments \in [Commentables -> CommentRecord]
    /\ \A c \in Calls : ComCall(c)
    /\ \A i \in Commentables : comments[i].state # "none" => comments[i].author \in Parties
    /\ NoLateReply

\* Call e may have written over what call c set.
Interferes(c, e) ==
    /\ e # c /\ op[e].kind = "prefer" /\ e \notin prior[c]
    /\ op[e].on.field = op[c].on.field \/ Overlap(c, e)

Kept(c, row) == row[op[c].on.field] = op[c].on.value \/ \E e \in Calls : Interferes(c, e)

PrefCall(c) ==
    /\ pc[c] = "upsert" => op[c].kind = "prefer"
    /\ pc[c] \in {"notice", "noticeAndMail", "mark", "markAll"} =>
           op[c].kind \in {"notify", "read", "archive", "unarchive", "readAll"}
    /\ op[c].kind = "prefer" => op[c].on \in Patches /\ op[c].arg \in PreferenceRecord

\* A call writes back what others set before it began, or somebody interfered.
WritesBack ==
    \A c, d \in Calls :
        /\ op[c].kind = "prefer" /\ op[d].kind = "prefer" /\ pc[d] = "upsert" /\ c \in prior[d]
        => Kept(c, op[d].arg)

PrefInv ==
    /\ prefs \in [People -> PreferenceRecord]
    /\ prefs[Requester].set \/ prefs[Requester] = NoRow
    /\ \A c \in Calls : PrefCall(c)
    /\ WritesBack
    /\ \A c \in Calls : op[c].kind = "prefer" /\ pc[c] = "done" => Kept(c, prefs[Requester])

MaterialInv == CallInv /\ AttInv /\ ComInv /\ PrefInv

-----------------------------------------------------------------------------
(* How a call goes on                                                      *)

Left(b) == b.errors + b.lost

\* Call c, which had not ended, goes on to p.
Turns(c, p) ==
    /\ pc[c] \notin {"done", "failed"} /\ pc'[c] = p
    /\ \A d \in Calls : d # c => pc'[d] = pc[d] /\ op'[d] = op[d] /\ prior'[d] = prior[d]
    /\ pc[c] # "idle" => op'[c] = op[c] /\ prior'[c] = prior[c]
    /\ Left(budget) \in Nat /\ Left(budget') \in Nat /\ Left(budget') <= Left(budget)

LEMMA ReplyCosts ==
    ASSUME NEW r, NEW m, budget \in Budget, Reply(r, m)
    PROVE  /\ budget' \in Budget /\ Left(budget) \in Nat /\ Left(budget') \in Nat
           /\ Left(budget') <= Left(budget)
           /\ r \in {"error", "lost"} => Left(budget') < Left(budget)
           /\ Applied(r) => m
           /\ Applied(r) <=> r \in {"ok", "lost"}
           /\ m => r # "refused"
<1>1. CASE budget' = budget /\ r \in {"ok", "refused"}
  BY <1>1 DEF Budget, Left, Reply, Applied
<1>2. CASE r = "error" /\ budget.errors > 0 /\ budget' = [budget EXCEPT !.errors = @ - 1]
  BY <1>2 DEF Budget, Left, Reply, Applied
<1>3. CASE r = "lost" /\ m /\ budget.lost > 0 /\ budget' = [budget EXCEPT !.lost = @ - 1]
  BY <1>3 DEF Budget, Left, Reply, Applied
<1> QED BY <1>1, <1>2, <1>3 DEF Reply

\* A call that is under way executes a statement.
LEMMA CallGoesOn ==
    ASSUME CallInv, NEW c \in Calls, pc[c] \notin {"idle", "done", "failed"},
           NEW p \in Pcs \ {"idle"}, pc' = [pc EXCEPT ![c] = p], op' = op, prior' = prior,
           budget' \in Budget, Left(budget) \in Nat, Left(budget') \in Nat,
           Left(budget') <= Left(budget)
    PROVE  CallInv' /\ Turns(c, p)
<1>1. pc' \in [Calls -> Pcs] /\ pc'[c] = p /\ \A d \in Calls : d # c => pc'[d] = pc[d]
  BY DEF CallInv
<1>2. Left(budget') <= MaxFaults
  BY CallAssumption DEF CallInv, Left
<1>3. \A d \in Calls : \A e \in prior[d] : e \in Calls /\ pc[e] = "done" /\ e # c
  BY DEF CallInv
<1>4. CallInv'
  BY <1>1, <1>2, <1>3 DEF CallInv, Left
<1> QED BY <1>1, <1>4 DEF Turns

LEMMA CallBegins ==
    ASSUME CallInv, NEW c \in Calls, NEW by, NEW kind, NEW on, NEW arg, NEW check,
           NEW p \in Pcs \ {"idle"}, Begin(c, by, kind, on, arg, check, p)
    PROVE  /\ CallInv' /\ pc[c] = "idle" /\ op[c].kind = "none" /\ status' = status
           /\ \/ Turns(c, "failed") /\ op' = op /\ prior' = prior
              \/ /\ Turns(c, p) /\ check
                 /\ op'[c].by = by /\ op'[c].kind = kind /\ op'[c].on = on /\ op'[c].arg = arg
                 /\ prior'[c] = {d \in Calls : pc[d] = "done" /\ op[d].kind \in {"hide", "prefer"}}
<1>1. PICK r \in Replies :
        /\ Answers(r)
        /\ r = "ok" /\ check =>
             /\ pc' = [pc EXCEPT ![c] = p]
             /\ op' = [op EXCEPT ![c] = [by |-> by, kind |-> kind, on |-> on, arg |-> arg]]
             /\ prior' = [prior EXCEPT ![c] =
                            {d \in Calls : pc[d] = "done" /\ op[d].kind \in {"hide", "prefer"}}]
        /\ ~(r = "ok" /\ check) => pc' = [pc EXCEPT ![c] = "failed"] /\ op' = op /\ prior' = prior
  BY DEF Begin, Goto
<1>2. /\ budget' \in Budget /\ Left(budget) \in Nat /\ Left(budget') \in Nat
      /\ Left(budget') <= Left(budget)
  BY <1>1, ReplyCosts DEF Answers, CallInv
<1>3. pc[c] = "idle" /\ op[c].kind = "none" /\ status' = status
  BY DEF Begin, CallInv
<1>4. Left(budget') <= MaxFaults
  BY <1>2, CallAssumption DEF CallInv, Left
<1>5. \A d \in Calls : \A e \in prior[d] : e \in Calls /\ pc[e] = "done" /\ e # c
  BY <1>3 DEF CallInv
<1>6. CASE r = "ok" /\ check
  <2>1. /\ pc' \in [Calls -> Pcs] /\ pc'[c] = p /\ \A d \in Calls : d # c => pc'[d] = pc[d]
    BY <1>1, <1>6 DEF CallInv
  <2>2. /\ op' = [d \in Calls |-> op'[d]] /\ \A d \in Calls : d # c => op'[d] = op[d]
        /\ op'[c] = [by |-> by, kind |-> kind, on |-> on, arg |-> arg]
    BY <1>1, <1>6 DEF CallInv
  <2>3. /\ prior' \in [Calls -> SUBSET Calls] /\ \A d \in Calls : d # c => prior'[d] = prior[d]
        /\ prior'[c] = {d \in Calls : pc[d] = "done" /\ op[d].kind \in {"hide", "prefer"}}
    BY <1>1, <1>6 DEF CallInv
  <2>4. CallInv'
    BY <1>2, <1>3, <1>4, <1>5, <2>1, <2>2, <2>3 DEF CallInv, Left
  <2>5. Turns(c, p)
    BY <1>2, <1>3, <2>1, <2>2, <2>3 DEF Turns
  <2> QED BY <1>3, <1>6, <2>2, <2>3, <2>4, <2>5
<1>7. CASE ~(r = "ok" /\ check)
  <2>1. pc' \in [Calls -> Pcs] /\ pc'[c] = "failed" /\ \A d \in Calls : d # c => pc'[d] = pc[d]
    BY <1>1, <1>7 DEF CallInv, Pcs
  <2>2. CallInv'
    BY <1>1, <1>2, <1>4, <1>5, <1>7, <2>1 DEF CallInv, Left
  <2>3. Turns(c, "failed")
    BY <1>1, <1>2, <1>3, <1>7, <2>1 DEF Turns
  <2> QED BY <1>1, <1>3, <1>7, <2>2, <2>3
<1> QED BY <1>6, <1>7

\* The policy, whatever the status of the request, lets exactly the parties see it.
LEMMA PartiesSee ==
    ASSUME NEW u \in People
    PROVE  requests_select(Me(u), Request, Stages) <=> u \in Parties
BY CallAssumption
   DEF Parties, People, requests_select, request_assigned_to_caller, Request, Me, Role, Stages

LEMMA ViewersAreParties ==
    ASSUME NEW u \in People, _authorize_view(Me(u), Request, Stages)
    PROVE  u \in Parties
BY CallAssumption
   DEF Parties, People, _authorize_view, authorize_request_view, can_view_request,
       _is_assigned_to_any_stage, Request, Me, Role, Stages

-----------------------------------------------------------------------------
(* Steps that leave a part alone                                           *)

\* Another call d of AttachmentService relies on what it relied on.
AttOnward(c) ==
    /\ \A i \in Attachables :
           /\ att[i].state # "none" => att'[i].state # "none" /\ (~Live(i) => ~Live(i)')
           /\ i # c /\ att[i].state = "none" => att'[i].state = "none"
    /\ \A d \in Calls : d # c /\ pc[d] = "row" /\ d \in files => d \in files'
    /\ unclear \subseteq unclear'

LEMMA OtherAttCalls ==
    ASSUME NEW c \in Calls, NEW p, Turns(c, p), AttOnward(c), NEW d \in Calls, d # c, AttCall(d)
    PROVE  AttCall(d)'
<1>1. pc'[d] = pc[d] /\ op'[d] = op[d] /\ d \in Attachables
  BY DEF Turns, Attachables
<1>2. /\ att[d].state = "none" <=> att'[d].state = "none"
      /\ pc[d] = "row" /\ d \in files => d \in files'
      /\ d \in unclear => d \in unclear'
  BY <1>1 DEF AttOnward
<1>3. op[d].kind \in {"replace", "remove"} =>
        /\ op[d].on \in Attachables /\ att'[op[d].on].state # "none"
        /\ att[op[d].on].state # "live" => att'[op[d].on].state # "live"
  BY DEF AttCall, AttOnward, Live
<1> QED BY <1>1, <1>2, <1>3 DEF AttCall, Live

LEMMA AttQuiet ==
    ASSUME AttInv, NEW c \in Calls, NEW p, Turns(c, p),
           pc[c] \notin {"row", "cleanup", "hide"}, attVars' = attVars, AttCall(c)'
    PROVE  AttInv'
<1>1. att' = att /\ files' = files /\ unclear' = unclear
  BY DEF attVars
<1>2. AttOnward(c)
  BY <1>1 DEF AttOnward, Live
<1>3. \A d \in Calls : AttCall(d)'
  BY <1>2, OtherAttCalls DEF AttInv
<1>4. ListedHasFile'
  <2>1. SUFFICES ASSUME NEW i \in Attachables, Live(i), i \notin files, i \notin unclear
                 PROVE  \E d \in Calls : /\ op'[d].kind = "remove" /\ op'[d].on = i
                                         /\ pc'[d] \in {"hide", "failed"}
    BY <1>1 DEF ListedHasFile, Live
  <2>2. PICK d \in Calls : op[d].kind = "remove" /\ op[d].on = i /\ pc[d] \in {"hide", "failed"}
    BY <2>1 DEF AttInv, ListedHasFile
  <2>3. d # c
    BY <2>2 DEF Turns
  <2> QED BY <2>2, <2>3 DEF Turns
<1>5. OrphanOnlyByFault'
  <2>1. SUFFICES ASSUME NEW i \in files, att[i].state = "none"
                 PROVE  pc'[i] \in {"row", "cleanup"} \/ Left(budget') < MaxFaults
    BY <1>1 DEF OrphanOnlyByFault, Left
  <2>2. i \in Calls /\ (pc[i] \in {"row", "cleanup"} \/ Left(budget) < MaxFaults)
    BY <2>1 DEF AttInv, OrphanOnlyByFault, Left, Attachables
  <2> QED BY <2>2, CallAssumption DEF Turns
<1> QED BY <1>1, <1>3, <1>4, <1>5 DEF AttInv

\* A call of another service.
LEMMA AttAside ==
    ASSUME AttInv, NEW c \in Calls, NEW p, Turns(c, p),
           pc[c] \notin AttPcs, p \notin AttPcs \cup {"idle"}, attVars' = attVars,
           op'[c].kind \notin {"replace", "remove"}
    PROVE  AttInv'
<1>1. AttCall(c)'
  BY DEF AttCall, AttPcs, Turns
<1> QED BY <1>1, AttQuiet DEF AttPcs

LEMMA ComAside ==
    ASSUME ComInv, NEW c \in Calls, NEW p, Turns(c, p), CallInv,
           pc[c] \notin ComPcs, p \notin ComPcs \cup {"idle"}, comments' = comments,
           op'[c].kind \notin {"comment", "hide"}
    PROVE  ComInv'
<1>1. ASSUME NEW d \in Calls PROVE ComCall(d)'
  <2>1. CASE d = c
    BY <2>1 DEF ComCall, ComPcs, Turns
  <2>2. CASE d # c
    <3>1. ComCall(d) /\ pc'[d] = pc[d] /\ op'[d] = op[d]
      BY <2>2 DEF ComInv, Turns
    <3> QED BY <3>1 DEF ComCall
  <2> QED BY <2>1, <2>2
<1>2. NoLateReply'
  BY DEF ComInv, NoLateReply, Turns
<1> QED BY <1>1, <1>2 DEF ComInv

\* Whoever interfered still did.
LEMMA StillInterferes ==
    ASSUME CallInv, NEW c \in Calls, NEW p, Turns(c, p), NEW d \in Calls, NEW e \in Calls,
           op[d].kind = "prefer", Interferes(d, e)
    PROVE  Interferes(d, e)'
<1>1. op[e].kind = "prefer"
  BY DEF Interferes
<1>2. /\ op'[d] = op[d] /\ op'[e] = op[e] /\ prior'[d] = prior[d] /\ prior'[e] = prior[e]
  BY <1>1 DEF Turns, CallInv
<1> QED BY <1>2 DEF Interferes, Overlap

LEMMA StillKept ==
    ASSUME CallInv, NEW c \in Calls, NEW p, Turns(c, p), NEW d \in Calls, NEW row,
           op[d].kind = "prefer", Kept(d, row)
    PROVE  \/ row[op'[d].on.field] = op'[d].on.value
           \/ \E e \in Calls : Interferes(d, e)'
<1>1. op'[d] = op[d]
  BY DEF Turns, CallInv
<1> QED BY <1>1, StillInterferes DEF Kept

LEMMA PrefAside ==
    ASSUME PrefInv, CallInv, NEW c \in Calls, NEW p, Turns(c, p), prefs' = prefs,
           pc[c] # "upsert", p # "upsert", op'[c].kind # "prefer", PrefCall(c)'
    PROVE  PrefInv'
<1>1. ASSUME NEW d \in Calls PROVE PrefCall(d)'
  BY DEF PrefInv, PrefCall, Turns
<1>2. WritesBack'
  <2>1. SUFFICES ASSUME NEW d \in Calls, NEW e \in Calls, op'[d].kind = "prefer",
                        op'[e].kind = "prefer", pc'[e] = "upsert", d \in prior'[e]
                 PROVE  Kept(d, op[e].arg)'
    BY DEF WritesBack
  <2>2. d # c /\ e # c /\ op'[d] = op[d] /\ op'[e] = op[e]
    BY <2>1 DEF Turns
  <2>3. Kept(d, op[e].arg)
    BY <2>1, <2>2 DEF PrefInv, WritesBack, Turns
  <2> QED BY <2>1, <2>2, <2>3, StillKept DEF Kept
<1>3. ASSUME NEW d \in Calls, op'[d].kind = "prefer", pc'[d] = "done"
      PROVE  Kept(d, prefs[Requester])'
  <2>1. d # c /\ op'[d] = op[d] /\ pc[d] = "done"
    BY <1>3 DEF Turns
  <2>2. Kept(d, prefs[Requester])
    BY <1>3, <2>1 DEF PrefInv
  <2> QED BY <1>3, <2>1, <2>2, StillKept DEF Kept
<1> QED BY <1>1, <1>2, <1>3 DEF PrefInv
-----------------------------------------------------------------------------
(* The steps of AttachmentService                                          *)

\* They are no concern of the other two.
LEMMA AttStepSuffices ==
    ASSUME MaterialInv, NEW c \in Calls, NEW p \in AttPcs \cup {"done", "failed"}, Turns(c, p),
           pc[c] \in AttPcs \cup {"idle"}, CallInv', AttInv', comments' = comments, prefs' = prefs,
           op'[c].kind \in {"upload", "replace", "remove", "download", "none"}
    PROVE  MaterialInv'
<1>1. ComInv'
  BY ComAside DEF MaterialInv, AttPcs, ComPcs
<1>2. PrefCall(c)'
  BY DEF PrefCall, AttPcs, Turns
<1>3. PrefInv'
  BY <1>2, PrefAside DEF MaterialInv, AttPcs
<1> QED BY <1>1, <1>3 DEF MaterialInv

LEMMA AttBegins ==
    ASSUME MaterialInv, NEW c \in Calls, NEW by, NEW on, NEW check,
           NEW kind \in {"upload", "replace", "remove", "download"},
           NEW p \in {"store", "unstore", "done"}, Begin(c, by, kind, on, None, check, p),
           check /\ p = "store" =>
               kind \in {"upload", "replace"} /\ by \in Parties /\ on \in Attachables \cup {None},
           p = "unstore" => kind = "remove",
           check /\ kind \in {"replace", "remove"} =>
               on \in Attachables /\ att[on].state # "none" /\ p # "done",
           attVars' = attVars, comments' = comments, prefs' = prefs
    PROVE  MaterialInv'
<1>1. p \in Pcs \ {"idle"}
  BY DEF Pcs, AttPcs
<1>2. /\ CallInv' /\ pc[c] = "idle" /\ op[c].kind = "none"
      /\ \/ Turns(c, "failed") /\ op' = op
         \/ Turns(c, p) /\ check /\ op'[c].by = by /\ op'[c].kind = kind /\ op'[c].on = on
  BY <1>1, CallBegins DEF MaterialInv
<1>3. AttCall(c) /\ att' = att
  BY DEF MaterialInv, AttInv, attVars
<1>4. CASE Turns(c, "failed") /\ op' = op
  <2>1. AttCall(c)'
    BY <1>2, <1>3, <1>4 DEF AttCall, Turns
  <2>2. AttInv'
    BY <1>2, <1>4, <2>1, AttQuiet DEF MaterialInv
  <2> QED BY <1>2, <1>4, <2>2, AttStepSuffices
<1>5. CASE Turns(c, p) /\ check /\ op'[c].by = by /\ op'[c].kind = kind /\ op'[c].on = on
  <2>1. AttCall(c)'
    BY <1>2, <1>3, <1>5 DEF AttCall, Turns
  <2>2. AttInv'
    BY <1>2, <1>5, <2>1, AttQuiet DEF MaterialInv
  <2> QED BY <1>2, <1>5, <2>2, AttStepSuffices DEF AttPcs
<1> QED BY <1>2, <1>4, <1>5

\* Who may take an attachment away may see the request: an administrator of its company, or
\* whoever attached it.
LEMMA RemoversAreParties ==
    ASSUME AttInv, NEW u \in People, NEW i \in Attachables, att[i].state # "none", MayRemove(u, i)
    PROVE  u \in Parties
BY CallAssumption
   DEF AttInv, MayRemove, Parties, People, Request, Me, authorize_attachment_removal,
       can_remove_attachment, Role

LEMMA AttachmentCallBegins ==
    ASSUME MaterialInv, NEW c \in Calls, comments' = comments, prefs' = prefs,
           BeginUpload(c) \/ BeginReplace(c) \/ BeginRemove(c) \/ Download(c)
    PROVE  MaterialInv'
<1> attVars' = attVars
  BY DEF BeginUpload, BeginReplace, BeginRemove, Download
<1>1. CASE BeginUpload(c)
  <2>1. PICK u \in People :
          Begin(c, u, "upload", None, None, _authorize_view(Me(u), Request, Stages), "store")
    BY <1>1 DEF BeginUpload
  <2>2. _authorize_view(Me(u), Request, Stages) => u \in Parties
    BY ViewersAreParties
  <2> QED BY <2>1, <2>2, AttBegins
<1>2. CASE BeginReplace(c)
  <2>1. PICK u \in People, i \in Attachables :
          Begin(c, u, "replace", i, None, SeesRow(u, i) /\ MayRemove(u, i), "store")
    BY <1>2 DEF BeginReplace
  <2>2. SeesRow(u, i) /\ MayRemove(u, i) => u \in Parties /\ att[i].state # "none"
    BY RemoversAreParties DEF SeesRow, MaterialInv
  <2> QED BY <2>1, <2>2, AttBegins
<1>3. CASE BeginRemove(c)
  <2>1. PICK u \in People, i \in Attachables :
          Begin(c, u, "remove", i, None, SeesRow(u, i) /\ MayRemove(u, i), "unstore")
    BY <1>3 DEF BeginRemove
  <2>2. SeesRow(u, i) => att[i].state # "none"
    BY DEF SeesRow
  <2> QED BY <2>1, <2>2, AttBegins
<1>4. CASE Download(c)
  <2>1. PICK u \in People, i \in Attachables :
          Begin(c, u, "download", i, None,
                SeesRow(u, i) /\ _authorize_view(Me(u), Request, Stages) /\ i \in files, "done")
    BY <1>4 DEF Download
  <2> QED BY <2>1, AttBegins
<1> QED BY <1>1, <1>2, <1>3, <1>4

\* Those who relied on a removal that took a file and not the row still do.
LEMMA WitnessStays ==
    ASSUME NEW c \in Calls, NEW p, Turns(c, p), pc[c] # "hide", NEW i,
           \E d \in Calls : op[d].kind = "remove" /\ op[d].on = i /\ pc[d] \in {"hide", "failed"}
    PROVE  \E d \in Calls : op'[d].kind = "remove" /\ op'[d].on = i /\ pc'[d] \in {"hide", "failed"}
<1>1. PICK d \in Calls : op[d].kind = "remove" /\ op[d].on = i /\ pc[d] \in {"hide", "failed"}
  OBVIOUS
<1>2. d # c
  BY <1>1 DEF Turns
<1> QED BY <1>1, <1>2 DEF Turns

LEMMA StoreFileKeeps ==
    ASSUME MaterialInv, NEW c \in Calls, StoreFile(c), comments' = comments, prefs' = prefs
    PROVE  MaterialInv'
<1>1. /\ pc[c] = "store" /\ op' = op /\ prior' = prior /\ att' = att /\ unclear' = unclear
      /\ c \in Attachables
  BY DEF StoreFile, Attachables
<1>2. /\ CallInv /\ AttInv /\ AttCall(c) /\ budget \in Budget /\ pc \in [Calls -> Pcs]
      /\ Left(budget) <= MaxFaults /\ Left(budget) \in Nat
  BY DEF MaterialInv, CallInv, AttInv, Left, Budget
<1>3. PICK p \in {"row", "failed"} :
        /\ pc' = [pc EXCEPT ![c] = p] /\ budget' \in Budget
        /\ Left(budget') \in Nat /\ Left(budget') <= Left(budget)
        /\ files' \in {files, files \cup {c}}
        /\ p = "row" => c \in files'
        /\ p = "failed" /\ files' # files => Left(budget') < Left(budget)
  <2>1. CASE pc' = [pc EXCEPT ![c] = "failed"] /\ files' = files /\ budget' = budget
    BY <1>2, <2>1
  <2>2. ASSUME NEW r \in Replies, Reply(r, TRUE), After(c, r, "row"),
               files' = IF Applied(r) THEN files \cup {c} ELSE files
        PROVE  \E p \in {"row", "failed"} :
                 /\ pc' = [pc EXCEPT ![c] = p] /\ budget' \in Budget
                 /\ Left(budget') \in Nat /\ Left(budget') <= Left(budget)
                 /\ files' \in {files, files \cup {c}}
                 /\ p = "row" => c \in files'
                 /\ p = "failed" /\ files' # files => Left(budget') < Left(budget)
    <3>1. /\ budget' \in Budget /\ Left(budget') \in Nat /\ Left(budget') <= Left(budget)
          /\ r \in {"error", "lost"} => Left(budget') < Left(budget)
          /\ Applied(r) <=> r \in {"ok", "lost"}
      BY <1>2, <2>2, ReplyCosts
    <3>2. CASE r = "ok"
      BY <2>2, <3>1, <3>2 DEF After, Goto
    <3>3. CASE r # "ok"
      BY <2>2, <3>1, <3>3 DEF After, Goto
    <3> QED BY <3>2, <3>3
  <2> QED BY <2>1, <2>2 DEF StoreFile, Goto
<1>4. CallInv' /\ Turns(c, p)
  BY <1>1, <1>2, <1>3, CallGoesOn DEF Pcs, AttPcs
<1>5. AttOnward(c)
  BY <1>1, <1>3 DEF AttOnward, Live
<1>6. AttCall(c)'
  BY <1>1, <1>2, <1>3, <1>4 DEF AttCall, Turns, Live
<1>7. \A d \in Calls : AttCall(d)'
  BY <1>2, <1>4, <1>5, <1>6, OtherAttCalls DEF AttInv
<1>8. ListedHasFile'
  <2>1. SUFFICES ASSUME NEW i \in Attachables, Live(i), i \notin files', i \notin unclear
                 PROVE  \E d \in Calls : /\ op'[d].kind = "remove" /\ op'[d].on = i
                                         /\ pc'[d] \in {"hide", "failed"}
    BY <1>1 DEF ListedHasFile, Live
  <2>2. \E d \in Calls : op[d].kind = "remove" /\ op[d].on = i /\ pc[d] \in {"hide", "failed"}
    BY <1>2, <1>3, <2>1 DEF AttInv, ListedHasFile
  <2> QED BY <1>1, <1>4, <2>2, WitnessStays
<1>9. OrphanOnlyByFault'
  <2>1. SUFFICES ASSUME NEW i \in files', att[i].state = "none"
                 PROVE  pc'[i] \in {"row", "cleanup"} \/ Left(budget') < MaxFaults
    BY <1>1 DEF OrphanOnlyByFault, Left
  <2>2. CASE i \in files
    <3>1. i \in Calls /\ (pc[i] \in {"row", "cleanup"} \/ Left(budget) < MaxFaults)
      BY <1>2, <2>1, <2>2 DEF AttInv, OrphanOnlyByFault, Left, Attachables
    <3> QED BY <1>1, <1>2, <1>3, <1>4, <3>1, CallAssumption DEF Turns
  <2>3. CASE i \notin files
    <3>1. i = c /\ files' # files
      BY <1>3, <2>1, <2>3
    <3> QED BY <1>2, <1>3, <1>4, <3>1, CallAssumption DEF Turns
  <2> QED BY <2>2, <2>3
<1>10. AttInv'
  BY <1>1, <1>2, <1>3, <1>7, <1>8, <1>9 DEF AttInv
<1>11. op'[c].kind \in {"upload", "replace"}
  BY <1>1, <1>2 DEF AttCall
<1> QED BY <1>1, <1>3, <1>4, <1>10, <1>11, AttStepSuffices DEF AttPcs

\* The row of c is inserted, refused, or inserted without c hearing of it.
LEMMA InsertRowKeeps ==
    ASSUME MaterialInv, NEW c \in Calls, InsertRow(c), comments' = comments, prefs' = prefs
    PROVE  MaterialInv'
<1>1. /\ pc[c] = "row" /\ op' = op /\ prior' = prior /\ files' = files /\ c \in Attachables
  BY DEF InsertRow, Attachables
<1>2. /\ CallInv /\ AttInv /\ AttCall(c) /\ budget \in Budget
      /\ Left(budget) <= MaxFaults /\ Left(budget) \in Nat
  BY DEF MaterialInv, CallInv, AttInv, Left, Budget
<1>3. /\ att[c].state = "none" /\ c \in files /\ op[c].by \in Parties
      /\ op[c].kind \in {"upload", "replace"} /\ op[c].on \in Attachables \cup {None}
  BY <1>1, <1>2 DEF AttCall
<1> DEFINE row == NewAttachment(op[c].by, IF op[c].on = None THEN 1 ELSE att[op[c].on].version + 1, op[c].on)
<1>4. row \in AttRow /\ row.state = "live" /\ row.uploader \in Parties
  <2>1. (IF op[c].on = None THEN 1 ELSE att[op[c].on].version + 1) \in Nat
    BY <1>2, <1>3 DEF AttInv, AttRow
  <2> QED BY <1>3, <2>1 DEF NewAttachment, AttRow, Parties, People
<1> HIDE DEF row
<1>5. PICK r \in Replies :
        /\ Reply(r, Permits(op[c].by, "attachments", material_insert(Me(op[c].by), op[c].by, Request, Stages)))
        /\ Applied(r) => att' = [att EXCEPT ![c] = row]
        /\ ~Applied(r) => att' = att
        /\ r = "lost" => unclear' = unclear \cup {c}
        /\ r # "lost" => unclear' = unclear
        /\ pc' = [pc EXCEPT ![c] = IF r = "ok" THEN "audit" ELSE "cleanup"]
  BY DEF InsertRow, row, Goto, AfterInsert
<1>6. /\ budget' \in Budget /\ Left(budget') \in Nat /\ Left(budget') <= Left(budget)
      /\ Applied(r) <=> r \in {"ok", "lost"}
  BY <1>2, <1>5, ReplyCosts
<1>7. PICK p \in {"audit", "cleanup"} :
        /\ pc' = [pc EXCEPT ![c] = p] /\ att' \in {att, [att EXCEPT ![c] = row]}
        /\ unclear \subseteq unclear'
        /\ p = "audit" => att' = [att EXCEPT ![c] = row]
        /\ p = "cleanup" /\ att' # att => c \in unclear'
  <2>1. CASE r = "ok"
    BY <1>5, <1>6, <2>1
  <2>2. CASE r # "ok"
    BY <1>5, <1>6, <2>2
  <2> QED BY <2>1, <2>2
<1>8. CallInv' /\ Turns(c, p)
  BY <1>1, <1>2, <1>6, <1>7, CallGoesOn DEF Pcs, AttPcs
<1>9. /\ att' \in [Attachables -> AttRow] /\ \A i \in Attachables : i # c => att'[i] = att[i]
      /\ att'[c] = att[c] \/ att'[c] = row
      /\ p = "audit" => att'[c] = row
      /\ p = "cleanup" /\ att'[c].state # "none" => c \in unclear'
  BY <1>1, <1>2, <1>3, <1>4, <1>7 DEF AttInv
<1>10. AttOnward(c)
  BY <1>1, <1>3, <1>7, <1>9 DEF AttOnward, Live
<1>11. AttCall(c)'
  <2>1. op'[c] = op[c] /\ pc'[c] = p
    BY <1>1, <1>8 DEF Turns
  <2>2. op[c].kind = "replace" => op[c].on \in Attachables /\ att'[op[c].on].state # "none"
    BY <1>2, <1>10 DEF AttCall, AttOnward
  <2> QED BY <1>3, <1>9, <2>1, <2>2 DEF AttCall
<1>12. \A d \in Calls : AttCall(d)'
  BY <1>2, <1>8, <1>10, <1>11, OtherAttCalls DEF AttInv
<1>13. ListedHasFile'
  <2>1. SUFFICES ASSUME NEW i \in Attachables, att'[i].state = "live", i \notin files, i \notin unclear'
                 PROVE  \E d \in Calls : /\ op'[d].kind = "remove" /\ op'[d].on = i
                                         /\ pc'[d] \in {"hide", "failed"}
    BY <1>1 DEF ListedHasFile, Live
  <2>2. att[i].state = "live" /\ i \notin unclear
    BY <1>3, <1>7, <1>9, <2>1
  <2>3. \E d \in Calls : op[d].kind = "remove" /\ op[d].on = i /\ pc[d] \in {"hide", "failed"}
    BY <1>2, <2>1, <2>2 DEF AttInv, ListedHasFile, Live
  <2> QED BY <1>1, <1>8, <2>3, WitnessStays
<1>14. OrphanOnlyByFault'
  <2>1. SUFFICES ASSUME NEW i \in files, att'[i].state = "none"
                 PROVE  pc'[i] \in {"row", "cleanup"} \/ Left(budget') < MaxFaults
    BY <1>1 DEF OrphanOnlyByFault, Left
  <2>2. CASE i = c
    BY <1>4, <1>8, <1>9, <2>1, <2>2 DEF Turns
  <2>3. CASE i # c
    <3>1. i \in Attachables /\ att[i].state = "none"
      BY <1>2, <1>9, <2>1, <2>3 DEF AttInv
    <3>2. i \in Calls /\ (pc[i] \in {"row", "cleanup"} \/ Left(budget) < MaxFaults)
      BY <1>2, <2>1, <3>1 DEF AttInv, OrphanOnlyByFault, Left, Attachables
    <3> QED BY <1>2, <1>6, <1>8, <2>3, <3>2, CallAssumption DEF Turns
  <2> QED BY <2>2, <2>3
<1>15. \A i \in Attachables : att'[i].state # "none" => att'[i].uploader \in Parties
  BY <1>2, <1>4, <1>9 DEF AttInv
<1>16. att'[First].state # "none"
  BY <1>2, <1>9, FirstAssumption DEF AttInv, Attachables
<1>17. AttInv'
  BY <1>1, <1>2, <1>9, <1>12, <1>13, <1>14, <1>15, <1>16 DEF AttInv
<1> QED BY <1>1, <1>3, <1>7, <1>8, <1>17, AttStepSuffices DEF AttPcs

\* The file goes unless the statement fails; then it stays without a row, by that fault.
LEMMA CleanUpKeeps ==
    ASSUME MaterialInv, NEW c \in Calls, CleanUp(c), comments' = comments, prefs' = prefs
    PROVE  MaterialInv'
<1>1. /\ pc[c] = "cleanup" /\ op' = op /\ prior' = prior /\ att' = att /\ unclear' = unclear
      /\ c \in Attachables /\ pc' = [pc EXCEPT ![c] = "failed"]
  BY DEF CleanUp, Attachables, Goto
<1>2. /\ CallInv /\ AttInv /\ AttCall(c) /\ budget \in Budget
      /\ Left(budget) <= MaxFaults /\ Left(budget) \in Nat
  BY DEF MaterialInv, CallInv, AttInv, Left, Budget
<1>3. PICK r \in Replies :
        Reply(r, TRUE) /\ files' = IF Applied(r) THEN files \ {c} ELSE files
  BY DEF CleanUp
<1>4. /\ budget' \in Budget /\ Left(budget') \in Nat /\ Left(budget') <= Left(budget)
      /\ files' \in {files, files \ {c}}
      /\ c \in files' => Left(budget') < Left(budget)
  <2>1. /\ budget' \in Budget /\ Left(budget') \in Nat /\ Left(budget') <= Left(budget)
        /\ r \in {"error", "lost"} => Left(budget') < Left(budget)
        /\ (Applied(r) <=> r \in {"ok", "lost"}) /\ r # "refused"
    BY <1>2, <1>3, ReplyCosts
  <2> QED BY <1>3, <2>1 DEF Replies
<1>5. CallInv' /\ Turns(c, "failed")
  BY <1>1, <1>2, <1>4, CallGoesOn DEF Pcs
<1>6. AttOnward(c)
  BY <1>1, <1>4 DEF AttOnward, Live
<1>7. AttCall(c)'
  BY <1>1, <1>2, <1>5 DEF AttCall, Turns
<1>8. \A d \in Calls : AttCall(d)'
  BY <1>2, <1>5, <1>6, <1>7, OtherAttCalls DEF AttInv
<1>9. ListedHasFile'
  <2>1. SUFFICES ASSUME NEW i \in Attachables, Live(i), i \notin files', i \notin unclear
                 PROVE  \E d \in Calls : /\ op'[d].kind = "remove" /\ op'[d].on = i
                                         /\ pc'[d] \in {"hide", "failed"}
    BY <1>1 DEF ListedHasFile, Live
  <2>2. i # c
    BY <1>1, <1>2, <2>1 DEF AttCall, Live
  <2>3. \E d \in Calls : op[d].kind = "remove" /\ op[d].on = i /\ pc[d] \in {"hide", "failed"}
    BY <1>2, <1>4, <2>1, <2>2 DEF AttInv, ListedHasFile
  <2> QED BY <1>1, <1>5, <2>3, WitnessStays
<1>10. OrphanOnlyByFault'
  <2>1. SUFFICES ASSUME NEW i \in files', att[i].state = "none"
                 PROVE  pc'[i] \in {"row", "cleanup"} \/ Left(budget') < MaxFaults
    BY <1>1 DEF OrphanOnlyByFault, Left
  <2>2. i \in files
    BY <1>4, <2>1
  <2>3. i \in Calls /\ (pc[i] \in {"row", "cleanup"} \/ Left(budget) < MaxFaults)
    BY <1>2, <2>1, <2>2 DEF AttInv, OrphanOnlyByFault, Left, Attachables
  <2> QED BY <1>2, <1>4, <1>5, <2>1, <2>3, CallAssumption DEF Turns
<1>11. AttInv'
  BY <1>1, <1>2, <1>4, <1>8, <1>9, <1>10 DEF AttInv
<1>12. op'[c].kind \in {"upload", "replace"}
  BY <1>1, <1>2 DEF AttCall
<1> QED BY <1>1, <1>5, <1>11, <1>12, AttStepSuffices DEF AttPcs

\* The file that goes belongs to a row, so it is not the one a call is about to insert for.
LEMMA RemoveFileKeeps ==
    ASSUME MaterialInv, NEW c \in Calls, RemoveFile(c), comments' = comments, prefs' = prefs
    PROVE  MaterialInv'
<1>1. /\ pc[c] = "unstore" /\ op' = op /\ prior' = prior /\ att' = att /\ unclear' = unclear
  BY DEF RemoveFile
<1>2. /\ CallInv /\ AttInv /\ AttCall(c) /\ budget \in Budget /\ op[c].kind = "remove"
      /\ Left(budget) <= MaxFaults /\ Left(budget) \in Nat
      /\ op[c].on \in Attachables /\ att[op[c].on].state # "none"
  BY <1>1 DEF MaterialInv, CallInv, AttInv, AttCall, Left, Budget
<1>3. PICK r \in Replies :
        Reply(r, TRUE) /\ After(c, r, "hide") /\ files' = IF Applied(r) THEN files \ {op[c].on} ELSE files
  BY DEF RemoveFile
<1>4. /\ budget' \in Budget /\ Left(budget') \in Nat /\ Left(budget') <= Left(budget)
      /\ files' \in {files, files \ {op[c].on}}
  BY <1>2, <1>3, ReplyCosts
<1>5. PICK p \in {"hide", "failed"} : pc' = [pc EXCEPT ![c] = p]
  BY <1>3 DEF After, Goto
<1>6. CallInv' /\ Turns(c, p)
  BY <1>1, <1>2, <1>4, <1>5, CallGoesOn DEF Pcs, AttPcs
<1>7. AttOnward(c)
  <2>1. \A d \in Calls : pc[d] = "row" => d # op[c].on
    BY <1>2 DEF AttInv, AttCall
  <2> QED BY <1>1, <1>4, <2>1 DEF AttOnward, Live
<1>8. AttCall(c)'
  BY <1>1, <1>2, <1>6 DEF AttCall, Turns
<1>9. \A d \in Calls : AttCall(d)'
  BY <1>2, <1>6, <1>7, <1>8, OtherAttCalls DEF AttInv
<1>10. ListedHasFile'
  <2>1. SUFFICES ASSUME NEW i \in Attachables, Live(i), i \notin files', i \notin unclear
                 PROVE  \E d \in Calls : /\ op'[d].kind = "remove" /\ op'[d].on = i
                                         /\ pc'[d] \in {"hide", "failed"}
    BY <1>1 DEF ListedHasFile, Live
  <2>2. CASE i = op[c].on
    BY <1>1, <1>2, <1>6, <2>2 DEF Turns
  <2>3. CASE i # op[c].on
    <3>1. \E d \in Calls : op[d].kind = "remove" /\ op[d].on = i /\ pc[d] \in {"hide", "failed"}
      BY <1>2, <1>4, <2>1, <2>3 DEF AttInv, ListedHasFile
    <3> QED BY <1>1, <1>6, <3>1, WitnessStays
  <2> QED BY <2>2, <2>3
<1>11. OrphanOnlyByFault'
  <2>1. SUFFICES ASSUME NEW i \in files', att[i].state = "none"
                 PROVE  pc'[i] \in {"row", "cleanup"} \/ Left(budget') < MaxFaults
    BY <1>1 DEF OrphanOnlyByFault, Left
  <2>2. i \in Calls /\ (pc[i] \in {"row", "cleanup"} \/ Left(budget) < MaxFaults)
    BY <1>2, <1>4, <2>1 DEF AttInv, OrphanOnlyByFault, Left, Attachables
  <2> QED BY <1>1, <1>2, <1>4, <1>6, <2>2, CallAssumption DEF Turns
<1>12. AttInv'
  BY <1>1, <1>2, <1>4, <1>9, <1>10, <1>11 DEF AttInv
<1> QED BY <1>1, <1>2, <1>5, <1>6, <1>12, AttStepSuffices DEF AttPcs

\* The row goes with an acknowledgement, goes without one, or stays and the call fails.
LEMMA HideRowKeeps ==
    ASSUME MaterialInv, NEW c \in Calls, HideRow(c), comments' = comments, prefs' = prefs
    PROVE  MaterialInv'
<1> DEFINE i == op[c].on
<1>1. /\ pc[c] = "hide" /\ op' = op /\ prior' = prior /\ files' = files /\ unclear' = unclear
  BY DEF HideRow
<1>2. /\ CallInv /\ AttInv /\ AttCall(c) /\ budget \in Budget /\ op[c].kind \in {"replace", "remove"}
      /\ Left(budget) <= MaxFaults /\ Left(budget) \in Nat
      /\ i \in Attachables /\ att[i].state # "none"
  BY <1>1 DEF MaterialInv, CallInv, AttInv, AttCall, Left, Budget
<1>3. PICK r \in Replies, m \in BOOLEAN, q \in {"audit", "done"} :
        /\ Reply(r, m)
        /\ att' = IF Applied(r) THEN [att EXCEPT ![i] = SoftDeleted(@)] ELSE att
        /\ After(c, r, q)
        /\ op[c].kind = "remove" => q = "audit"
  BY DEF HideRow, AfterSoftDelete, Permits, Reaches
<1>4. /\ budget' \in Budget /\ Left(budget') \in Nat /\ Left(budget') <= Left(budget)
      /\ Applied(r) <=> r \in {"ok", "lost"}
  BY <1>2, <1>3, ReplyCosts
<1>5. PICK p \in {"audit", "done", "failed"} :
        /\ pc' = [pc EXCEPT ![c] = p]
        /\ att' = [att EXCEPT ![i] = SoftDeleted(@)] \/ (att' = att /\ p = "failed")
        /\ op[c].kind = "remove" => p # "done"
  <2>1. CASE r = "ok"
    BY <1>3, <1>4, <2>1 DEF After, Goto
  <2>2. CASE r # "ok"
    BY <1>3, <1>4, <2>2 DEF After, Goto
  <2> QED BY <2>1, <2>2
<1>6. CallInv' /\ Turns(c, p)
  BY <1>1, <1>2, <1>4, <1>5, CallGoesOn DEF Pcs, AttPcs
<1>7. /\ att' \in [Attachables -> AttRow] /\ \A j \in Attachables : j # i => att'[j] = att[j]
      /\ att'[i].uploader = att[i].uploader
      /\ att'[i].state = "deleted" \/ (att' = att /\ p = "failed")
  BY <1>2, <1>5 DEF AttInv, AttRow, SoftDeleted
<1>8. AttOnward(c)
  BY <1>1, <1>2, <1>7 DEF AttOnward, Live
<1>9. AttCall(c)'
  <2>1. op'[c] = op[c] /\ pc'[c] = p
    BY <1>1, <1>6 DEF Turns
  <2>2. att'[i].state # "none" /\ (p # "failed" => att'[i].state = "deleted")
    BY <1>2, <1>7
  <2> QED BY <1>2, <2>1, <2>2 DEF AttCall, Live
<1>10. \A d \in Calls : AttCall(d)'
  BY <1>2, <1>6, <1>8, <1>9, OtherAttCalls DEF AttInv
<1>11. ListedHasFile'
  <2>1. SUFFICES ASSUME NEW j \in Attachables, att'[j].state = "live", j \notin files, j \notin unclear
                 PROVE  \E d \in Calls : /\ op'[d].kind = "remove" /\ op'[d].on = j
                                         /\ pc'[d] \in {"hide", "failed"}
    BY <1>1 DEF ListedHasFile, Live
  <2>2. Live(j) /\ (j = i => p = "failed")
    BY <1>2, <1>7, <2>1 DEF Live
  <2>3. PICK d \in Calls : op[d].kind = "remove" /\ op[d].on = j /\ pc[d] \in {"hide", "failed"}
    BY <1>2, <2>1, <2>2 DEF AttInv, ListedHasFile
  <2>4. pc'[d] \in {"hide", "failed"} /\ op'[d] = op[d]
    BY <1>1, <1>6, <2>2, <2>3 DEF Turns
  <2> QED BY <2>3, <2>4
<1>12. OrphanOnlyByFault'
  <2>1. SUFFICES ASSUME NEW j \in files, att'[j].state = "none"
                 PROVE  pc'[j] \in {"row", "cleanup"} \/ Left(budget') < MaxFaults
    BY <1>1 DEF OrphanOnlyByFault, Left
  <2>2. att[j].state = "none"
    BY <1>2, <1>7, <2>1 DEF AttInv
  <2>3. j \in Calls /\ (pc[j] \in {"row", "cleanup"} \/ Left(budget) < MaxFaults)
    BY <1>2, <2>1, <2>2 DEF AttInv, OrphanOnlyByFault, Left, Attachables
  <2> QED BY <1>1, <1>2, <1>4, <1>6, <2>3, CallAssumption DEF Turns
<1>13. \A j \in Attachables : att'[j].state # "none" => att'[j].uploader \in Parties
  BY <1>2, <1>7 DEF AttInv
<1>14. att'[First].state # "none"
  BY <1>2, <1>8 DEF AttInv, AttOnward, Attachables
<1>15. AttInv'
  BY <1>1, <1>2, <1>7, <1>10, <1>11, <1>12, <1>13, <1>14 DEF AttInv
<1> QED BY <1>1, <1>2, <1>5, <1>6, <1>15, AttStepSuffices DEF AttPcs

LEMMA AuditAttachmentKeeps ==
    ASSUME MaterialInv, NEW c \in Calls, AuditAttachment(c), comments' = comments, prefs' = prefs
    PROVE  MaterialInv'
<1>1. pc[c] = "audit" /\ op' = op /\ prior' = prior /\ attVars' = attVars /\ att' = att
  BY DEF AuditAttachment, attVars
<1>2. CallInv /\ AttInv /\ AttCall(c) /\ op[c].kind \in {"upload", "replace", "remove"}
  BY <1>1 DEF MaterialInv, AttInv, AttCall
<1>3. PICK r \in Replies, q \in {"hide", "done"} :
        Reply(r, TRUE) /\ After(c, r, q) /\ (op[c].kind = "replace" <=> q = "hide")
  BY DEF AuditAttachment, Audited
<1>4. /\ budget' \in Budget /\ Left(budget) \in Nat /\ Left(budget') \in Nat
      /\ Left(budget') <= Left(budget)
  BY <1>2, <1>3, ReplyCosts DEF CallInv
<1>5. PICK p \in {"hide", "done", "failed"} :
        /\ pc' = [pc EXCEPT ![c] = p]
        /\ p = "hide" => op[c].kind = "replace"
        /\ p = "done" => op[c].kind # "replace"
  BY <1>3 DEF After, Goto
<1>6. CallInv' /\ Turns(c, p)
  BY <1>1, <1>2, <1>4, <1>5, CallGoesOn DEF Pcs, AttPcs
<1>7. AttCall(c)'
  BY <1>1, <1>2, <1>5, <1>6 DEF AttCall, Turns
<1>8. AttInv'
  BY <1>1, <1>2, <1>6, <1>7, AttQuiet
<1> QED BY <1>1, <1>2, <1>5, <1>6, <1>8, AttStepSuffices DEF AttPcs

-----------------------------------------------------------------------------
(* The steps of CommentService                                             *)

LEMMA ComStepSuffices ==
    ASSUME MaterialInv, NEW c \in Calls, NEW p \in ComPcs \cup {"done", "failed"}, Turns(c, p),
           pc[c] \in ComPcs \cup {"idle"}, CallInv', ComInv', attVars' = attVars, prefs' = prefs,
           op'[c].kind \in {"comment", "hide", "none"}
    PROVE  MaterialInv'
<1>1. AttInv'
  BY AttAside DEF MaterialInv, AttPcs, ComPcs
<1>2. PrefCall(c)'
  BY DEF PrefCall, ComPcs, Turns
<1>3. PrefInv'
  BY <1>2, PrefAside DEF MaterialInv, ComPcs
<1> QED BY <1>1, <1>3 DEF MaterialInv

\* The other calls rely on rows that do not come back: nobody else inserts theirs, none
\* disappears, and what is deleted stays so.
LEMMA OtherComCalls ==
    ASSUME NEW c \in Calls, NEW p, Turns(c, p), ComCall(c)', \A d \in Calls : ComCall(d),
           \A i \in Commentables :
               /\ comments[i].state # "none" => comments'[i].state # "none"
               /\ comments[i].state = "deleted" => comments'[i].state = "deleted"
               /\ i # c /\ comments[i].state = "none" => comments'[i].state = "none"
    PROVE  \A d \in Calls : ComCall(d)'
<1> SUFFICES ASSUME NEW d \in Calls, d # c PROVE ComCall(d)'
  OBVIOUS
<1>1. pc'[d] = pc[d] /\ op'[d] = op[d] /\ d \in Commentables /\ ComCall(d)
  BY DEF Turns, Commentables
<1>2. comments[d].state = "none" => comments'[d].state = "none"
  BY <1>1
<1>3. op[d].kind = "hide" =>
        /\ op[d].on \in Commentables /\ comments'[op[d].on].state # "none"
        /\ pc[d] \in {"note", "done"} => comments'[op[d].on].state = "deleted"
  BY <1>1 DEF ComCall
<1> QED BY <1>1, <1>2, <1>3 DEF ComCall

LEMMA BeginCommentKeeps ==
    ASSUME MaterialInv, NEW c \in Calls, BeginComment(c), attVars' = attVars, prefs' = prefs
    PROVE  MaterialInv'
<1>1. PICK u \in People, parent \in {None} \cup (Commentables \ {c}), valid \in BOOLEAN :
        Begin(c, u, "comment", parent, None,
              /\ valid /\ _authorize_view(Me(u), Request, Stages)
              /\ parent = None \/ (SeesComments(u) /\ ParentUsable(parent)),
              "write")
  BY DEF BeginComment
<1> DEFINE check == /\ valid /\ _authorize_view(Me(u), Request, Stages)
                    /\ parent = None \/ (SeesComments(u) /\ ParentUsable(parent))
<1>2. check => u \in Parties /\ (parent = None \/ comments[parent].state = "live")
  BY ViewersAreParties DEF ParentUsable
<1>3. Begin(c, u, "comment", parent, None, check, "write")
  BY <1>1
<1> HIDE DEF check
<1>4. /\ CallInv' /\ pc[c] = "idle" /\ op[c].kind = "none" /\ comments' = comments
      /\ \/ Turns(c, "failed") /\ op' = op /\ prior' = prior
         \/ /\ Turns(c, "write") /\ check
            /\ op'[c].by = u /\ op'[c].kind = "comment" /\ op'[c].on = parent
            /\ prior'[c] = {d \in Calls : pc[d] = "done" /\ op[d].kind \in {"hide", "prefer"}}
  BY <1>3, CallBegins DEF MaterialInv, Pcs, ComPcs, BeginComment
<1>5. ComInv /\ CallInv /\ ComCall(c)
  BY DEF MaterialInv, ComInv
<1>6. CASE Turns(c, "failed") /\ op' = op /\ prior' = prior
  <2>1. ComInv'
    BY <1>4, <1>5, <1>6, ComAside DEF ComPcs
  <2> QED BY <1>4, <1>6, <2>1, ComStepSuffices DEF ComPcs
<1>7. CASE /\ Turns(c, "write") /\ check
           /\ op'[c].by = u /\ op'[c].kind = "comment" /\ op'[c].on = parent
           /\ prior'[c] = {d \in Calls : pc[d] = "done" /\ op[d].kind \in {"hide", "prefer"}}
  <2>1. ComCall(c)'
    BY <1>2, <1>4, <1>5, <1>7 DEF ComCall, Turns
  <2>2. \A d \in Calls : ComCall(d)'
    BY <1>4, <1>5, <1>7, <2>1, OtherComCalls DEF ComInv
  <2>3. NoLateReply'
    <3>1. SUFFICES ASSUME NEW b \in Calls, NEW d \in Calls, op'[b].kind = "comment",
                          op'[d].kind = "hide", op'[d].on = op'[b].on, d \in prior'[b]
                   PROVE  FALSE
      BY DEF NoLateReply
    <3>2. d # c /\ op'[d] = op[d]
      BY <1>7, <3>1 DEF Turns
    <3>3. CASE b = c
      <4>1. pc[d] = "done" /\ op[d].kind = "hide" /\ op[d].on = parent
        BY <1>7, <3>1, <3>2, <3>3
      <4>2. parent \in Commentables /\ comments[parent].state = "deleted"
        BY <1>5, <4>1 DEF ComInv, ComCall
      <4> QED BY <1>2, <1>7, <4>2, EarlierAssumption, CallAssumption DEF Commentables
    <3>4. CASE b # c
      BY <1>5, <1>7, <3>1, <3>2, <3>4 DEF Turns, ComInv, NoLateReply
    <3> QED BY <3>3, <3>4
  <2>4. ComInv'
    BY <1>4, <1>5, <2>2, <2>3 DEF ComInv
  <2> QED BY <1>4, <1>7, <2>4, ComStepSuffices DEF ComPcs
<1> QED BY <1>4, <1>6, <1>7

LEMMA BeginHideKeeps ==
    ASSUME MaterialInv, NEW c \in Calls, BeginHide(c), attVars' = attVars, prefs' = prefs
    PROVE  MaterialInv'
<1>1. PICK u \in People, i \in Commentables :
        Begin(c, u, "hide", i, None,
              /\ comments[i].state # "none" /\ SeesComments(u)
              /\ Request.company = Me(u).company /\ authorize_comment_moderation(Me(u)),
              "erase")
  BY DEF BeginHide
<1> DEFINE check == /\ comments[i].state # "none" /\ SeesComments(u)
                    /\ Request.company = Me(u).company /\ authorize_comment_moderation(Me(u))
<1>2. check => comments[i].state # "none"
  OBVIOUS
<1>3. Begin(c, u, "hide", i, None, check, "erase")
  BY <1>1
<1> HIDE DEF check
<1>4. /\ CallInv' /\ pc[c] = "idle" /\ op[c].kind = "none" /\ comments' = comments
      /\ \/ Turns(c, "failed") /\ op' = op /\ prior' = prior
         \/ Turns(c, "erase") /\ check /\ op'[c].kind = "hide" /\ op'[c].on = i
  BY <1>3, CallBegins DEF MaterialInv, Pcs, ComPcs, BeginHide
<1>5. ComInv /\ CallInv /\ ComCall(c)
  BY DEF MaterialInv, ComInv
<1>6. CASE Turns(c, "failed") /\ op' = op /\ prior' = prior
  <2>1. ComInv'
    BY <1>4, <1>5, <1>6, ComAside DEF ComPcs
  <2> QED BY <1>4, <1>6, <2>1, ComStepSuffices DEF ComPcs
<1>7. CASE Turns(c, "erase") /\ check /\ op'[c].kind = "hide" /\ op'[c].on = i
  <2>1. ComCall(c)'
    BY <1>2, <1>4, <1>5, <1>7 DEF ComCall, Turns
  <2>2. \A d \in Calls : ComCall(d)'
    BY <1>4, <1>5, <1>7, <2>1, OtherComCalls DEF ComInv
  <2>3. NoLateReply'
    <3>1. SUFFICES ASSUME NEW b \in Calls, NEW d \in Calls, op'[b].kind = "comment",
                          op'[d].kind = "hide", op'[d].on = op'[b].on, d \in prior'[b]
                   PROVE  FALSE
      BY DEF NoLateReply
    <3>2. b # c /\ op'[b] = op[b] /\ prior'[b] = prior[b]
      BY <1>7, <3>1 DEF Turns
    <3>3. d # c
      BY <1>4, <1>5, <3>1, <3>2 DEF CallInv
    <3> QED BY <1>5, <1>7, <3>1, <3>2, <3>3 DEF Turns, ComInv, NoLateReply
  <2>4. ComInv'
    BY <1>4, <1>5, <2>2, <2>3 DEF ComInv
  <2> QED BY <1>4, <1>7, <2>4, ComStepSuffices DEF ComPcs
<1> QED BY <1>4, <1>6, <1>7

\* A call of CommentService that is under way executes a statement.
LEMMA CommentStatement ==
    ASSUME MaterialInv, NEW c \in Calls, pc[c] \in ComPcs, NEW p \in {"note", "done", "failed"},
           pc' = [pc EXCEPT ![c] = p], op' = op, prior' = prior, NEW r, NEW m, Reply(r, m),
           comments' \in [Commentables -> CommentRecord],
           \A i \in Commentables :
               /\ comments[i].state # "none" => comments'[i].state # "none"
               /\ comments[i].state = "deleted" => comments'[i].state = "deleted"
               /\ i # c /\ comments[i].state = "none" => comments'[i].state = "none"
               /\ comments'[i].state # "none" => comments'[i].author \in Parties,
           op[c].kind \in {"comment", "hide"},
           op[c].kind = "hide" /\ p # "failed" => comments'[op[c].on].state = "deleted",
           attVars' = attVars, prefs' = prefs
    PROVE  MaterialInv'
<1>1. CallInv /\ ComInv /\ ComCall(c) /\ budget \in Budget
  BY DEF MaterialInv, ComInv, CallInv
<1>2. /\ budget' \in Budget /\ Left(budget) \in Nat /\ Left(budget') \in Nat
      /\ Left(budget') <= Left(budget)
  BY <1>1, ReplyCosts
<1>3. CallInv' /\ Turns(c, p)
  BY <1>1, <1>2, CallGoesOn DEF Pcs, ComPcs
<1>4. ComCall(c)'
  <2>1. pc'[c] = p /\ op'[c] = op[c]
    BY <1>3 DEF Turns
  <2>2. op[c].kind = "hide" => op[c].on \in Commentables /\ comments'[op[c].on].state # "none"
    BY <1>1 DEF ComCall
  <2> QED BY <2>1, <2>2 DEF ComCall
<1>5. \A d \in Calls : ComCall(d)'
  BY <1>1, <1>3, <1>4, OtherComCalls DEF ComInv
<1>6. NoLateReply'
  BY <1>1 DEF ComInv, NoLateReply
<1>7. ComInv'
  BY <1>5, <1>6 DEF ComInv
<1> QED BY <1>3, <1>7, ComStepSuffices DEF ComPcs

LEMMA CommentStatementsKeep ==
    ASSUME MaterialInv, NEW c \in Calls, attVars' = attVars, prefs' = prefs,
           WriteComment(c) \/ HideComment(c) \/ AuditComment(c)
    PROVE  MaterialInv'
<1>1. ComInv /\ ComCall(c) /\ comments \in [Commentables -> CommentRecord] /\ c \in Commentables
  BY DEF MaterialInv, ComInv, Commentables
<1>2. CASE WriteComment(c)
  <2>1. pc[c] = "write" /\ op' = op /\ prior' = prior
    BY <1>2 DEF WriteComment
  <2>2. /\ comments[c].state = "none" /\ op[c].kind = "comment" /\ op[c].by \in Parties
        /\ op[c].on \in Commentables \cup {None}
    BY <1>1, <2>1 DEF ComCall
  <2> DEFINE row == NewComment(op[c].by, op[c].on)
  <2>3. row \in CommentRecord /\ row.state = "live" /\ row.author \in Parties
    BY <2>2 DEF NewComment, CommentRecord, Parties, People
  <2> HIDE DEF row
  <2>4. PICK r \in Replies, m \in BOOLEAN :
          Reply(r, m) /\ After(c, r, "note")
          /\ comments' = IF Applied(r) THEN [comments EXCEPT ![c] = row] ELSE comments
    BY <1>2 DEF WriteComment, row, Permits, Reaches
  <2>5. PICK p \in {"note", "failed"} : pc' = [pc EXCEPT ![c] = p]
    BY <2>4 DEF After, Goto
  <2>6. /\ comments' \in [Commentables -> CommentRecord]
        /\ comments'[c] \in {comments[c], row}
        /\ \A i \in Commentables : i # c => comments'[i] = comments[i]
    BY <1>1, <2>3, <2>4
  <2>7. \A i \in Commentables :
          /\ comments[i].state # "none" => comments'[i].state # "none"
          /\ comments[i].state = "deleted" => comments'[i].state = "deleted"
          /\ i # c /\ comments[i].state = "none" => comments'[i].state = "none"
          /\ comments'[i].state # "none" => comments'[i].author \in Parties
    BY <1>1, <2>2, <2>3, <2>6 DEF ComInv
  <2> QED BY <2>1, <2>2, <2>4, <2>5, <2>6, <2>7, CommentStatement DEF ComPcs
<1>3. CASE HideComment(c)
  <2> DEFINE i == op[c].on
  <2>1. /\ pc[c] = "erase" /\ op' = op /\ prior' = prior /\ op[c].kind = "hide"
        /\ i \in Commentables /\ comments[i].state # "none"
    BY <1>1, <1>3 DEF HideComment, ComCall
  <2>2. PICK r \in Replies, m \in BOOLEAN :
          Reply(r, m) /\ After(c, r, "note")
          /\ comments' = IF Applied(r) THEN [comments EXCEPT ![i] = HiddenComment(@)] ELSE comments
    BY <1>3 DEF HideComment, Permits, Reaches
  <2>3. PICK p \in {"note", "failed"} : pc' = [pc EXCEPT ![c] = p] /\ (p # "failed" => Applied(r))
    BY <2>2 DEF After, Goto, Applied
  <2>4. /\ comments' \in [Commentables -> CommentRecord]
        /\ comments' = comments \/ comments'[i].state = "deleted"
        /\ p # "failed" => comments'[i].state = "deleted"
        /\ comments'[i].author = comments[i].author
        /\ \A j \in Commentables : j # i => comments'[j] = comments[j]
    BY <1>1, <2>1, <2>2, <2>3 DEF CommentRecord, HiddenComment
  <2>5. \A j \in Commentables :
          /\ comments[j].state # "none" => comments'[j].state # "none"
          /\ comments[j].state = "deleted" => comments'[j].state = "deleted"
          /\ j # c /\ comments[j].state = "none" => comments'[j].state = "none"
          /\ comments'[j].state # "none" => comments'[j].author \in Parties
    BY <1>1, <2>1, <2>4 DEF ComInv
  <2> QED BY <2>1, <2>2, <2>3, <2>4, <2>5, CommentStatement DEF ComPcs
<1>4. CASE AuditComment(c)
  <2>1. /\ pc[c] = "note" /\ op' = op /\ prior' = prior /\ comments' = comments
        /\ op[c].kind \in {"comment", "hide"}
        /\ op[c].kind = "hide" => comments[op[c].on].state = "deleted"
    BY <1>1, <1>4 DEF AuditComment, ComCall
  <2>2. PICK r \in Replies : Reply(r, TRUE) /\ After(c, r, "done")
    BY <1>4 DEF AuditComment, Audited
  <2>3. PICK p \in {"done", "failed"} : pc' = [pc EXCEPT ![c] = p]
    BY <2>2 DEF After, Goto
  <2>4. \A i \in Commentables : comments[i].state # "none" => comments[i].author \in Parties
    BY <1>1 DEF ComInv
  <2> QED BY <1>1, <2>1, <2>2, <2>3, <2>4, CommentStatement DEF ComPcs
<1> QED BY <1>2, <1>3, <1>4

-----------------------------------------------------------------------------
(* The steps of NotificationService                                        *)

OnNoticeKinds == {"notify", "read", "archive", "unarchive", "readAll"}

LEMMA NoticeStepSuffices ==
    ASSUME MaterialInv, NEW c \in Calls, NEW p \in NoticePcs \cup {"done", "failed"}, Turns(c, p),
           pc[c] \in NoticePcs \cup {"idle"}, CallInv', PrefInv', attVars' = attVars,
           comments' = comments, op'[c].kind \in OnNoticeKinds \cup {"prefer", "none"}
    PROVE  MaterialInv'
<1>1. AttInv'
  BY AttAside DEF MaterialInv, AttPcs, NoticePcs, OnNoticeKinds
<1>2. ComInv'
  BY ComAside DEF MaterialInv, ComPcs, NoticePcs, OnNoticeKinds
<1> QED BY <1>1, <1>2 DEF MaterialInv

LEMMA NoticeBegins ==
    ASSUME MaterialInv, NEW c \in Calls, prefs' = prefs, attVars' = attVars, comments' = comments,
           NEW u, NEW kind \in OnNoticeKinds, NEW on, NEW check,
           NEW p \in {"notice", "noticeAndMail", "mark", "markAll", "done"},
           Begin(c, u, kind, on, None, check, p)
    PROVE  MaterialInv'
<1>1. p \in Pcs \ {"idle"} /\ p \in NoticePcs \cup {"done", "failed"} /\ p # "upsert"
  BY DEF Pcs, NoticePcs
<1>2. PICK q \in {p, "failed"} :
        /\ CallInv' /\ pc[c] = "idle" /\ op[c].kind = "none" /\ Turns(c, q)
        /\ \/ q = "failed" /\ op'[c].kind = "none"
           \/ op'[c].kind = kind
  BY <1>1, CallBegins DEF MaterialInv
<1>3. PrefCall(c)'
  BY <1>2 DEF PrefCall, Turns, OnNoticeKinds
<1>4. PrefInv'
  BY <1>1, <1>2, <1>3, PrefAside DEF MaterialInv, OnNoticeKinds
<1> QED BY <1>1, <1>2, <1>4, NoticeStepSuffices DEF NoticePcs

LEMMA NoticeCallBegins ==
    ASSUME MaterialInv, NEW c \in Calls, prefs' = prefs, attVars' = attVars, comments' = comments,
           BeginNotify(c) \/ BeginOnNotice(c) \/ BeginMarkAll(c)
    PROVE  MaterialInv'
<1>1. CASE BeginNotify(c)
  <2> DEFINE next(u) == IF ~_effective_preference(u, Requester).inApp THEN "done"
                        ELSE IF _effective_preference(u, Requester).email THEN "noticeAndMail"
                        ELSE "notice"
  <2>1. PICK u \in {Requester, Approver, System} :
          Begin(c, u, "notify", Requester, None, TRUE, next(u))
    BY <1>1 DEF BeginNotify
  <2>2. next(u) \in {"notice", "noticeAndMail", "mark", "markAll", "done"}
    OBVIOUS
  <2> HIDE DEF next
  <2> QED BY <2>1, <2>2, NoticeBegins DEF OnNoticeKinds
<1>2. CASE BeginOnNotice(c)
  <2>1. PICK u \in {Requester, Approver}, n \in Calls \ {c}, kind \in {"read", "archive", "unarchive"} :
          Begin(c, u, kind, n, None, _get_owned_notification(u, n), "mark")
    BY <1>2 DEF BeginOnNotice
  <2> QED BY <2>1, NoticeBegins DEF OnNoticeKinds
<1>3. CASE BeginMarkAll(c)
  <2>1. PICK u \in {Requester, Approver} : Begin(c, u, "readAll", u, None, TRUE, "markAll")
    BY <1>3 DEF BeginMarkAll
  <2> QED BY <2>1, NoticeBegins DEF OnNoticeKinds
<1> QED BY <1>1, <1>2, <1>3

LEMMA NoticeStatementsKeep ==
    ASSUME MaterialInv, NEW c \in Calls, prefs' = prefs, attVars' = attVars, comments' = comments,
           WriteNotice(c) \/ MarkNotice(c) \/ MarkAllRead(c)
    PROVE  MaterialInv'
<1>1. pc[c] \in {"notice", "noticeAndMail", "mark", "markAll"} /\ op' = op /\ prior' = prior
  BY DEF WriteNotice, MarkNotice, MarkAllRead
<1>2. CallInv /\ PrefInv /\ op[c].kind \in OnNoticeKinds /\ budget \in Budget
  BY <1>1 DEF MaterialInv, CallInv, PrefInv, PrefCall, OnNoticeKinds
<1>3. PICK r \in Replies : Reply(r, TRUE) /\ After(c, r, "done")
  BY DEF WriteNotice, MarkNotice, MarkAllRead
<1>4. /\ budget' \in Budget /\ Left(budget) \in Nat /\ Left(budget') \in Nat
      /\ Left(budget') <= Left(budget)
  BY <1>2, <1>3, ReplyCosts
<1>5. PICK p \in {"done", "failed"} : pc' = [pc EXCEPT ![c] = p]
  BY <1>3 DEF After, Goto
<1>6. CallInv' /\ Turns(c, p)
  BY <1>1, <1>2, <1>4, <1>5, CallGoesOn DEF Pcs
<1>7. PrefCall(c)'
  BY <1>1, <1>2, <1>6 DEF PrefCall, Turns, OnNoticeKinds
<1>8. PrefInv'
  BY <1>1, <1>2, <1>6, <1>7, PrefAside DEF OnNoticeKinds
<1> QED BY <1>1, <1>2, <1>6, <1>8, NoticeStepSuffices DEF NoticePcs

\* The call reads the row that the calls before it left.
LEMMA BeginPreferenceKeeps ==
    ASSUME MaterialInv, NEW c \in Calls, BeginPreference(c), attVars' = attVars, comments' = comments
    PROVE  MaterialInv'
<1>1. PICK patch \in Patches :
        Begin(c, Requester, "prefer", patch, _effective_preference(Requester, Requester), TRUE, "upsert")
  BY DEF BeginPreference
<1>2. CallInv /\ PrefInv /\ prefs' = prefs /\ Requester \in People
  BY DEF MaterialInv, BeginPreference, noticeVars, People
<1>3. _effective_preference(Requester, Requester) = prefs[Requester]
  BY <1>2 DEF _effective_preference, Permits, Reaches, own_rows, _DEFAULT_PREFERENCE, PrefInv
<1>4. /\ CallInv' /\ pc[c] = "idle" /\ op[c].kind = "none"
      /\ \/ Turns(c, "failed") /\ op' = op /\ prior' = prior
         \/ /\ Turns(c, "upsert")
            /\ op'[c].kind = "prefer" /\ op'[c].on = patch /\ op'[c].arg = prefs[Requester]
            /\ prior'[c] = {d \in Calls : pc[d] = "done" /\ op[d].kind \in {"hide", "prefer"}}
  <2> DEFINE check == TRUE
             read == prefs[Requester]
  <2>1. Begin(c, Requester, "prefer", patch, read, check, "upsert")
    BY <1>1, <1>3
  <2> HIDE DEF check
  <2>2. "upsert" \in Pcs \ {"idle"}
    BY DEF Pcs, NoticePcs
  <2> HIDE DEF read
  <2>3. /\ CallInv' /\ pc[c] = "idle" /\ op[c].kind = "none"
        /\ \/ Turns(c, "failed") /\ op' = op /\ prior' = prior
           \/ /\ Turns(c, "upsert") /\ check
              /\ op'[c].by = Requester /\ op'[c].kind = "prefer" /\ op'[c].on = patch /\ op'[c].arg = read
              /\ prior'[c] = {d \in Calls : pc[d] = "done" /\ op[d].kind \in {"hide", "prefer"}}
    BY <1>2, <2>1, <2>2, CallBegins
  <2> QED BY <2>3 DEF read
<1>5. CASE Turns(c, "failed") /\ op' = op /\ prior' = prior
  <2>1. PrefCall(c)'
    BY <1>4, <1>5 DEF PrefCall, Turns
  <2>2. PrefInv'
    BY <1>2, <1>4, <1>5, <2>1, PrefAside
  <2> QED BY <1>4, <1>5, <2>2, NoticeStepSuffices
<1>6. CASE /\ Turns(c, "upsert")
           /\ op'[c].kind = "prefer" /\ op'[c].on = patch /\ op'[c].arg = prefs[Requester]
           /\ prior'[c] = {d \in Calls : pc[d] = "done" /\ op[d].kind \in {"hide", "prefer"}}
  <2>1. \A d \in Calls : PrefCall(d)'
    BY <1>2, <1>6 DEF PrefInv, PrefCall, Turns
  <2>2. WritesBack'
    <3>1. SUFFICES ASSUME NEW d \in Calls, NEW e \in Calls, op'[d].kind = "prefer",
                          op'[e].kind = "prefer", pc'[e] = "upsert", d \in prior'[e]
                   PROVE  Kept(d, op[e].arg)'
      BY DEF WritesBack
    <3>2. CASE e = c
      <4>1. pc[d] = "done" /\ d # c /\ op'[d] = op[d]
        BY <1>4, <1>6, <3>1, <3>2 DEF Turns
      <4>2. Kept(d, prefs[Requester])
        BY <1>2, <3>1, <4>1 DEF PrefInv
      <4> QED BY <1>2, <1>6, <3>1, <3>2, <4>1, <4>2, StillKept DEF Kept
    <3>3. CASE e # c
      <4>1. op'[e] = op[e] /\ prior'[e] = prior[e] /\ pc'[e] = pc[e]
        BY <1>6, <3>3 DEF Turns
      <4>2. d # c
        BY <1>2, <1>4, <3>1, <4>1 DEF CallInv
      <4>3. Kept(d, op[e].arg) /\ op'[d] = op[d]
        BY <1>2, <1>6, <3>1, <4>1, <4>2 DEF Turns, PrefInv, WritesBack
      <4> QED BY <1>2, <1>6, <3>1, <4>1, <4>3, StillKept DEF Kept
    <3> QED BY <3>2, <3>3
  <2>3. ASSUME NEW d \in Calls, op'[d].kind = "prefer", pc'[d] = "done"
        PROVE  Kept(d, prefs[Requester])'
    <3>1. d # c /\ op'[d] = op[d] /\ pc[d] = "done"
      BY <1>6, <2>3 DEF Turns
    <3>2. Kept(d, prefs[Requester])
      BY <1>2, <2>3, <3>1 DEF PrefInv
    <3> QED BY <1>2, <1>6, <2>3, <3>1, <3>2, StillKept DEF Kept
  <2>4. PrefInv'
    BY <1>2, <2>1, <2>2, <2>3 DEF PrefInv
  <2> QED BY <1>4, <1>6, <2>4, NoticeStepSuffices DEF NoticePcs
<1> QED BY <1>4, <1>5, <1>6

LEMMA PatchSets ==
    ASSUME NEW row \in PreferenceRecord, NEW patch \in Patches
    PROVE  /\ Patched(row, patch) \in PreferenceRecord /\ Patched(row, patch).set
           /\ Patched(row, patch)[patch.field] = patch.value
           /\ \A f \in {"inApp", "email"} : f # patch.field => Patched(row, patch)[f] = row[f]
<1>1. CASE patch.field = "inApp"
  BY <1>1 DEF Patched, PreferenceRecord, Patches
<1>2. CASE patch.field = "email"
  BY <1>2 DEF Patched, PreferenceRecord, Patches
<1> QED BY <1>1, <1>2 DEF Patches

\* Whatever another call set before, this one writes back as it read it, or it sets the same
\* field itself, or the two overlapped.
LEMMA UpsertPreferenceKeeps ==
    ASSUME MaterialInv, NEW c \in Calls, UpsertPreference(c), attVars' = attVars, comments' = comments
    PROVE  MaterialInv'
<1>1. pc[c] = "upsert" /\ op' = op /\ prior' = prior
  BY DEF UpsertPreference
<1>2. /\ CallInv /\ PrefInv /\ budget \in Budget /\ Requester \in People
      /\ op[c].kind = "prefer" /\ op[c].on \in Patches /\ op[c].arg \in PreferenceRecord
      /\ prefs \in [People -> PreferenceRecord]
  BY <1>1 DEF MaterialInv, CallInv, PrefInv, PrefCall, People
<1> DEFINE row == Patched(op[c].arg, op[c].on)
<1>3. /\ row \in PreferenceRecord /\ row.set /\ row[op[c].on.field] = op[c].on.value
      /\ \A f \in {"inApp", "email"} : f # op[c].on.field => row[f] = op[c].arg[f]
  BY <1>2, PatchSets
<1> HIDE DEF row
<1>4. PICK r \in Replies :
        /\ Reply(r, TRUE) /\ After(c, r, "done")
        /\ prefs' = IF Applied(r) THEN [prefs EXCEPT ![Requester] = row] ELSE prefs
  BY DEF UpsertPreference, row
<1>5. /\ budget' \in Budget /\ Left(budget) \in Nat /\ Left(budget') \in Nat
      /\ Left(budget') <= Left(budget)
  BY <1>2, <1>4, ReplyCosts
<1>6. PICK p \in {"done", "failed"} :
        pc' = [pc EXCEPT ![c] = p] /\ (p = "done" => Applied(r))
  BY <1>4 DEF After, Goto, Applied
<1>7. CallInv' /\ Turns(c, p)
  BY <1>1, <1>2, <1>5, <1>6, CallGoesOn DEF Pcs, NoticePcs
<1>8. /\ prefs' \in [People -> PreferenceRecord]
      /\ prefs'[Requester] = row \/ (prefs' = prefs /\ p = "failed")
  BY <1>2, <1>3, <1>4, <1>6
<1>9. prefs'[Requester].set \/ prefs'[Requester] = NoRow
  BY <1>2, <1>3, <1>8 DEF PrefInv
<1>10. \A d \in Calls : PrefCall(d)'
  BY <1>1, <1>2, <1>7 DEF PrefInv, PrefCall, Turns
<1>11. WritesBack'
  <2>1. SUFFICES ASSUME NEW d \in Calls, NEW e \in Calls, op[d].kind = "prefer",
                        op[e].kind = "prefer", pc'[e] = "upsert", d \in prior[e]
                 PROVE  Kept(d, op[e].arg)'
    BY <1>1 DEF WritesBack
  <2>2. Kept(d, op[e].arg)
    BY <1>2, <1>7, <2>1 DEF Turns, PrefInv, WritesBack
  <2> QED BY <1>1, <1>2, <1>7, <2>1, <2>2, StillKept DEF Kept
<1>12. ASSUME NEW d \in Calls, op[d].kind = "prefer", pc'[d] = "done"
       PROVE  Kept(d, prefs[Requester])'
  <2>1. CASE d = c
    <3>1. prefs'[Requester][op'[c].on.field] = op'[c].on.value
      BY <1>1, <1>3, <1>7, <1>8, <1>12, <2>1 DEF Turns
    <3> QED BY <2>1, <3>1 DEF Kept
  <2>2. CASE d # c
    <3>1. pc[d] = "done" /\ Kept(d, prefs[Requester])
      BY <1>2, <1>7, <1>12, <2>2 DEF Turns, PrefInv
    <3>2. CASE prefs' = prefs
      BY <1>2, <1>7, <1>12, <3>1, <3>2, StillKept DEF Kept
    <3>3. CASE prefs'[Requester] = row
      <4>1. c \notin prior[d]
        BY <1>1, <1>2 DEF CallInv
      <4>2. CASE op[c].on.field = op[d].on.field \/ d \notin prior[c]
        <5>1. Interferes(d, c)
          BY <1>2, <2>2, <4>1, <4>2 DEF Interferes, Overlap
        <5>2. Kept(d, prefs[Requester]) /\ Interferes(d, c)'
          BY <1>2, <1>7, <1>12, <3>1, <5>1, StillInterferes
        <5> QED BY <5>2 DEF Kept
      <4>3. CASE op[c].on.field # op[d].on.field /\ d \in prior[c]
        <5>1. Kept(d, op[c].arg)
          BY <1>1, <1>2, <1>12, <4>3 DEF PrefInv, WritesBack
        <5>2. op[d].on.field \in {"inApp", "email"}
          BY <1>2, <1>12 DEF PrefInv, PrefCall, Patches
        <5>3. row[op[d].on.field] = op[c].arg[op[d].on.field]
          BY <1>3, <4>3, <5>2
        <5>4. Kept(d, row)
          BY <5>1, <5>3 DEF Kept
        <5> QED BY <1>2, <1>7, <1>12, <3>3, <5>4, StillKept DEF Kept
      <4> QED BY <4>2, <4>3
    <3> QED BY <1>8, <3>2, <3>3
  <2> QED BY <2>1, <2>2
<1>13. PrefInv'
  BY <1>1, <1>8, <1>9, <1>10, <1>11, <1>12 DEF PrefInv
<1> QED BY <1>1, <1>2, <1>6, <1>7, <1>13, NoticeStepSuffices DEF NoticePcs

-----------------------------------------------------------------------------
(* Steps of no call: a mail, the end of the process, a decision about the  *)
(* request, nothing at all                                                 *)

LEMMA NoCallMoves ==
    ASSUME MaterialInv, pc' = pc, op' = op, prior' = prior, attVars' = attVars,
           comments' = comments, prefs' = prefs, budget' \in Budget, Left(budget') \in Nat,
           Left(budget) \in Nat, Left(budget') <= Left(budget)
    PROVE  MaterialInv'
<1>1. att' = att /\ files' = files /\ unclear' = unclear
  BY DEF attVars
<1>2. CallInv'
  BY CallAssumption DEF MaterialInv, CallInv, Left
<1>3. AttInv'
  <2>1. \A c \in Calls : AttCall(c)'
    BY <1>1 DEF MaterialInv, AttInv, AttCall, Live
  <2>2. ListedHasFile'
    BY <1>1 DEF MaterialInv, AttInv, ListedHasFile, Live
  <2>3. OrphanOnlyByFault'
    <3>1. Left(budget) < MaxFaults => Left(budget') < MaxFaults
      BY CallAssumption
    <3> QED BY <1>1, <3>1 DEF MaterialInv, AttInv, OrphanOnlyByFault, Left
  <2> QED BY <1>1, <2>1, <2>2, <2>3 DEF MaterialInv, AttInv
<1>4. ComInv'
  BY DEF MaterialInv, ComInv, ComCall, NoLateReply
<1>5. PrefInv'
  BY DEF MaterialInv, PrefInv, PrefCall, WritesBack, Kept, Interferes, Overlap
<1> QED BY <1>2, <1>3, <1>4, <1>5 DEF MaterialInv

LEMMA MailKeeps ==
    ASSUME MaterialInv, NEW c \in Calls, Mail(c), attVars' = attVars, comments' = comments
    PROVE  MaterialInv'
<1>1. pc' = pc /\ op' = op /\ prior' = prior /\ prefs' = prefs /\ budget \in Budget
  BY DEF Mail, callVars, MaterialInv, CallInv
<1>2. PICK r \in Replies : Reply(r, TRUE) \/ budget' = budget
  BY DEF Mail
<1>3. /\ budget' \in Budget /\ Left(budget) \in Nat /\ Left(budget') \in Nat
      /\ Left(budget') <= Left(budget)
  <2>1. CASE Reply(r, TRUE)
    BY <1>1, <2>1, ReplyCosts
  <2>2. CASE budget' = budget
    BY <1>1, <2>2 DEF Left, Budget
  <2> QED BY <1>2, <2>1, <2>2
<1> QED BY <1>1, <1>3, NoCallMoves

LEMMA MaterialInit == Init => MaterialInv
<1> SUFFICES ASSUME Init PROVE MaterialInv
  OBVIOUS
<1>1. /\ pc = [c \in Calls |-> "idle"] /\ op = [c \in Calls |-> NoOp]
      /\ prior = [c \in Calls |-> {}] /\ files = {First} /\ prefs = [u \in People |-> NoRow]
  BY DEF Init, InitCalls, InitAttachments, InitNotices
<1>2. budget \in Budget /\ budget.errors + budget.lost <= MaxFaults
  <2>1. PICK n \in 0..MaxFaults : budget = [errors |-> n, lost |-> MaxFaults - n, crashes |-> 0]
    BY DEF Init, InitCalls
  <2> QED BY <2>1, CallAssumption DEF Budget
<1>3. CallInv
  BY <1>1, <1>2 DEF CallInv, Pcs, NoOp
<1>4. /\ att \in [Attachables -> AttRow] /\ First \in Attachables
      /\ \A i \in Attachables : /\ i = First => att[i].state = "live" /\ att[i].uploader = Requester
                                /\ i # First => att[i].state = "none"
  BY DEF Init, InitAttachments, NewAttachment, NoAttachment, AttRow, Attachables, People
<1>5. AttInv
  <2>1. \A c \in Calls : AttCall(c)
    BY <1>1, <1>4, FirstAssumption DEF AttCall, NoOp, Attachables
  <2>2. ListedHasFile /\ OrphanOnlyByFault
    BY <1>1, <1>4 DEF ListedHasFile, OrphanOnlyByFault, Live
  <2> QED BY <1>1, <1>4, <2>1, <2>2 DEF AttInv, Parties
<1>6. ComInv
  <2>1. /\ comments \in [Commentables -> CommentRecord]
        /\ \A i \in Commentables :
             /\ i \in {Earlier, Elsewhere} => comments[i].author = Requester
             /\ i \notin {Earlier, Elsewhere} => comments[i].state = "none"
    BY DEF Init, InitComments, NewComment, NoComment, CommentRecord, Commentables, People
  <2>2. \A c \in Calls : ComCall(c)
    BY <1>1, <2>1, EarlierAssumption DEF ComCall, NoOp, Commentables
  <2> QED BY <1>1, <2>1, <2>2 DEF ComInv, NoLateReply, NoOp, Parties
<1>7. PrefInv
  BY <1>1 DEF PrefInv, PrefCall, WritesBack, NoOp, NoRow, PreferenceRecord, People
<1> QED BY <1>3, <1>5, <1>6, <1>7 DEF MaterialInv

LEMMA MaterialNext == MaterialInv /\ [Next]_vars => MaterialInv'
<1> SUFFICES ASSUME MaterialInv, [Next]_vars PROVE MaterialInv'
  OBVIOUS
<1>0. /\ budget \in Budget /\ Left(budget) \in Nat
  BY DEF MaterialInv, CallInv, Budget, Left
<1>1. ASSUME NEW c \in Calls, AttachmentStep(c), UNCHANGED <<comments, noticeVars>>
      PROVE  MaterialInv'
  <2>1. comments' = comments /\ prefs' = prefs
    BY <1>1 DEF noticeVars
  <2> QED BY <1>1, <2>1, AttachmentCallBegins, StoreFileKeeps, InsertRowKeeps, CleanUpKeeps,
             RemoveFileKeeps, HideRowKeeps, AuditAttachmentKeeps DEF AttachmentStep
<1>2. ASSUME NEW c \in Calls, CommentStep(c), UNCHANGED <<attVars, noticeVars>>
      PROVE  MaterialInv'
  <2>1. attVars' = attVars /\ prefs' = prefs
    BY <1>2 DEF noticeVars
  <2> QED BY <1>2, <2>1, BeginCommentKeeps, BeginHideKeeps, CommentStatementsKeep DEF CommentStep
<1>3. ASSUME NEW c \in Calls, NoticeStep(c), UNCHANGED <<attVars, comments>>
      PROVE  MaterialInv'
  <2>1. attVars' = attVars /\ comments' = comments
    BY <1>3
  <2>2. CASE BeginNotify(c) \/ BeginOnNotice(c) \/ BeginMarkAll(c)
    <3>1. prefs' = prefs
      BY <2>2 DEF BeginNotify, BeginOnNotice, BeginMarkAll, noticeVars
    <3> QED BY <2>1, <2>2, <3>1, NoticeCallBegins
  <2>3. CASE WriteNotice(c) \/ MarkNotice(c) \/ MarkAllRead(c)
    <3>1. prefs' = prefs
      BY <2>3 DEF WriteNotice, MarkNotice, MarkAllRead
    <3> QED BY <2>1, <2>3, <3>1, NoticeStatementsKeep
  <2>4. CASE Mail(c) \/ BeginPreference(c) \/ UpsertPreference(c)
    BY <2>1, <2>4, MailKeeps, BeginPreferenceKeeps, UpsertPreferenceKeeps
  <2> QED BY <1>3, <2>2, <2>3, <2>4 DEF NoticeStep
<1>4. CASE Decide /\ UNCHANGED <<attVars, comments, noticeVars, focus>>
  <2>1. /\ pc' = pc /\ op' = op /\ prior' = prior /\ budget' = budget /\ attVars' = attVars
        /\ comments' = comments /\ prefs' = prefs
    BY <1>4 DEF Decide, noticeVars
  <2> QED BY <1>0, <2>1, NoCallMoves
<1>5. CASE CloseOutbox /\ UNCHANGED <<attVars, comments, focus>>
  <2>1. /\ pc' = pc /\ op' = op /\ prior' = prior /\ budget' = budget /\ attVars' = attVars
        /\ comments' = comments /\ prefs' = prefs
    BY <1>5 DEF CloseOutbox, callVars
  <2> QED BY <1>0, <2>1, NoCallMoves
<1>6. CASE UNCHANGED vars
  <2>1. /\ pc' = pc /\ op' = op /\ prior' = prior /\ budget' = budget /\ attVars' = attVars
        /\ comments' = comments /\ prefs' = prefs
    BY <1>6 DEF vars, callVars, noticeVars
  <2> QED BY <1>0, <2>1, NoCallMoves
<1> QED BY <1>1, <1>2, <1>3, <1>4, <1>5, <1>6 DEF Next, Step

-----------------------------------------------------------------------------
(* The theorems                                                            *)

\* Every state satisfies the invariant: what each call of the three services relies on when
\* it executes its next statement, and what that leaves in the tables and in the bucket.
THEOREM MaterialInvariant == Spec => []MaterialInv
BY MaterialInit, MaterialNext, PTL DEF Spec

\* AttachmentService: a listed attachment has its file, unless a removal that did not finish
\* took it, or the insertion of its row was not acknowledged and the upload cleaned up.
THEOREM ListedAttachmentsHaveFiles == Spec => []ListedHasFile
<1>1. MaterialInv => ListedHasFile
  BY DEF MaterialInv, AttInv
<1> QED BY <1>1, MaterialInvariant, PTL

\* replace_attachment: when it reports success, what it replaced is not listed any more and
\* is never listed again.
THEOREM ReplacementRemoves == Spec => []ReplacedIsGone
<1>1. MaterialInv => ReplacedIsGone
  BY DEF MaterialInv, AttInv, AttCall, ReplacedIsGone
<1> QED BY <1>1, MaterialInvariant, PTL

\* _store_new_attachment: without a failing statement no file is left behind without a row,
\* also when the policy on attachments refuses the row.
THEOREM NoOrphanWithoutFault == Spec => []OrphanOnlyByFault
<1>1. MaterialInv => OrphanOnlyByFault
  BY DEF MaterialInv, AttInv
<1> QED BY <1>1, MaterialInvariant, PTL

\* Both services: attachments and comments come from people who may see the request, whether
\* or not the row level policies are asked.
THEOREM WritersAreParties == Spec => []OnlyPartiesWrite
<1>1. MaterialInv => OnlyPartiesWrite
  <2> SUFFICES ASSUME MaterialInv PROVE OnlyPartiesWrite
    OBVIOUS
  <2>1. \A u \in Parties : requests_select(Me(u), Request, Stages)
    BY PartiesSee DEF Parties, People
  <2> QED BY <2>1 DEF MaterialInv, AttInv, ComInv, OnlyPartiesWrite
<1> QED BY <1>1, MaterialInvariant, PTL

\* add_comment: a reply to a removed comment comes from a call that had begun before the
\* removal ended.
THEOREM NoReplyToARemovedComment == Spec => []RepliesBeforeRemoval
<1>1. MaterialInv => RepliesBeforeRemoval
  BY DEF MaterialInv, ComInv, NoLateReply, RepliesBeforeRemoval
<1> QED BY <1>1, MaterialInvariant, PTL

\* update_preference: a preference that was set is lost only to a call that sets the same one
\* or was under way at the same time.
THEOREM PreferenceSurvives == Spec => []PatchSurvives
<1>1. MaterialInv => PatchSurvives
  <2> SUFFICES ASSUME MaterialInv, NEW c \in Calls, op[c].kind = "prefer", pc[c] = "done"
               PROVE  \/ prefs[Requester][op[c].on.field] = op[c].on.value
                      \/ \E d \in Calls \ {c} :
                          /\ op[d].kind = "prefer" /\ d \notin prior[c]
                          /\ op[d].on.field = op[c].on.field \/ Overlap(c, d)
    BY DEF PatchSurvives
  <2>1. Kept(c, prefs[Requester])
    BY DEF MaterialInv, PrefInv
  <2> QED BY <2>1 DEF Kept, Interferes
<1> QED BY <1>1, MaterialInvariant, PTL
=============================================================================
