---------------------------- MODULE Attachments ----------------------------
(***************************************************************************)
(* AttachmentService: a file is stored in the bucket, then its row is      *)
(* inserted; a removal takes the file first, then the row.  An attachment  *)
(* is named after the call that stored it; First was there before.         *)
(***************************************************************************)
EXTENDS ServiceCalls

CONSTANT First

Attachables == {First} \cup Calls

ASSUME FirstAssumption == First \notin Calls \cup People \cup {System, None}

VARIABLES
    att,        \* att[i]: the attachments row, or NoAttachment
    files,      \* the attachments whose object is in the bucket
    unclear     \* rows whose insertion was not acknowledged (history variable)

attVars == <<att, files, unclear>>

NoAttachment == [state |-> "none", uploader |-> None, version |-> 0, replaces |-> None]

AttachmentRecord ==
    [state: {"none", "live", "deleted"}, uploader: People \cup {None}, version: 0..Cardinality(Attachables),
     replaces: Attachables \cup {None}]

Live(i) == att[i].state = "live"

\* What the statements write
NewAttachment(by, version, replaces) ==
    [state |-> "live", uploader |-> by, version |-> version, replaces |-> replaces]

SoftDeleted(row) == [row EXCEPT !.state = "deleted"]

-----------------------------------------------------------------------------
(* Validation of an upload: sizes around the limit, types that do or do    *)
(* not match what the content shows.                                       *)

MaxSize == 2

Uploads == [name: {"blank", "usable"}, type: {"pdf", "docx", "exe"}, shows: {"pdf", "zip", "nothing"},
            size: {0, MaxSize, MaxSize + 1}]

sanitize_filename(f) == f.name # "blank"

validate_content_type(f) == f.type \in {"pdf", "docx"}

validate_file_size(f) == f.size > 0 /\ f.size <= MaxSize

validate_content_type_consistency(f) ==
    f.shows = "nothing" \/ f.shows = f.type \/ (f.shows = "zip" /\ f.type = "docx")

Accepted ==
    {f \in Uploads : /\ sanitize_filename(f) /\ validate_content_type(f)
                     /\ validate_file_size(f) /\ validate_content_type_consistency(f)}

-----------------------------------------------------------------------------
(* upload_attachment, replace_attachment                                   *)

BeginUpload(c) ==
    /\ \E u \in People :
        Begin(c, u, "upload", None, None, _authorize_view(Me(u), Request, Stages), "store")
    /\ UNCHANGED attVars

\* _get_existing finds deleted rows too; what it reads of a row never changes, so
\* that the parent request is read a moment later makes no difference.
MayRemove(u, i) ==
    /\ Request.company = Me(u).company
    /\ authorize_attachment_removal(Me(u), att[i].uploader = u, Request.status = "pending")

SeesRow(u, i) ==
    /\ att[i].state # "none"
    /\ Permits(u, "attachments", material_select(Me(u), Request, Stages))

BeginReplace(c) ==
    /\ \E u \in People, i \in Attachables \ {c} :
        Begin(c, u, "replace", i, None, SeesRow(u, i) /\ MayRemove(u, i), "store")
    /\ UNCHANGED attVars

\* _store_new_attachment: a file that is not valid never reaches the bucket.
StoreFile(c) ==
    /\ pc[c] = "store"
    /\ \/ Uploads \ Accepted # {} /\ Goto(c, "failed") /\ UNCHANGED <<files, budget>>
       \/ /\ Accepted # {}
          /\ \E r \in Replies :
              /\ Reply(r, TRUE)
              /\ files' = IF Applied(r) THEN files \cup {c} ELSE files
              /\ After(c, r, "row")
    /\ UNCHANGED <<status, bound, op, prior, att, unclear>>

\* Mutant: a refused insertion leaves the file behind.
KeepsFile(r) == IF r = "ok" THEN "audit" ELSE "failed"

AfterInsert(r) == IF r = "ok" THEN "audit" ELSE "cleanup"

\* The scanner, which looks at the content before, is one that skips every file.
InsertRow(c) ==
    /\ pc[c] = "row"
    /\ LET u == op[c].by
           old == op[c].on IN
       \E r \in Replies :
        /\ Reply(r, Permits(u, "attachments", material_insert(Me(u), u, Request, Stages)))
        /\ att' = IF Applied(r)
                  THEN [att EXCEPT ![c] = NewAttachment(u, IF old = None THEN 1 ELSE att[old].version + 1, old)]
                  ELSE att
        /\ unclear' = IF r = "lost" THEN unclear \cup {c} ELSE unclear
        /\ Goto(c, AfterInsert(r))
    /\ UNCHANGED <<status, bound, op, prior, files>>

\* _cleanup_orphaned_storage_object: one attempt, whose failure is logged.
CleanUp(c) ==
    /\ pc[c] = "cleanup"
    /\ \E r \in Replies :
        /\ Reply(r, TRUE)
        /\ files' = IF Applied(r) THEN files \ {c} ELSE files
    /\ Goto(c, "failed")
    /\ UNCHANGED <<status, bound, op, prior, att, unclear>>

-----------------------------------------------------------------------------
(* remove_attachment: the object first, then the row                       *)

BeginRemove(c) ==
    /\ \E u \in People, i \in Attachables :
        Begin(c, u, "remove", i, None, SeesRow(u, i) /\ MayRemove(u, i), "unstore")
    /\ UNCHANGED attVars

\* Removing an object that is not there is no error.
RemoveFile(c) ==
    /\ pc[c] = "unstore"
    /\ \E r \in Replies :
        /\ Reply(r, TRUE)
        /\ files' = IF Applied(r) THEN files \ {op[c].on} ELSE files
        /\ After(c, r, "hide")
    /\ UNCHANGED <<status, bound, op, prior, att, unclear>>

\* Mutant: the outcome of the soft delete is not looked at.
SoftDeleteUnchecked(c, r, p) == Goto(c, p)

AfterSoftDelete(c, r, p) == After(c, r, p)

\* soft_delete, which an uploader's own client may no longer do once the request
\* is decided: the update finds no row.
HideRow(c) ==
    /\ pc[c] = "hide"
    /\ LET i == op[c].on
           me == Me(op[c].by) IN
       \E r \in Replies :
        /\ Reply(r, Permits(op[c].by, "attachments",
                            \/ material_moderate_admin(me, Request)
                            \/ attachments_soft_delete_uploader(me, att[i].uploader, Request)))
        /\ att' = IF Applied(r) THEN [att EXCEPT ![i] = SoftDeleted(@)] ELSE att
        /\ AfterSoftDelete(c, r, IF op[c].kind = "remove" THEN "audit" ELSE "done")
    /\ UNCHANGED <<status, bound, op, prior, files, unclear>>

\* Mutant: the file is taken back when only the audit entry failed.
CleanUpWithoutAudit(c) ==
    /\ pc[c] = "audit"
    /\ \E r \in Replies :
        /\ Reply(r, TRUE)
        /\ Goto(c, IF r # "ok" THEN "cleanup" ELSE IF op[c].kind = "replace" THEN "hide" ELSE "done")
    /\ UNCHANGED <<status, bound, op, prior, attVars>>

\* The entry of an upload comes before the old row goes, that of a removal last.
AuditAttachment(c) ==
    /\ pc[c] = "audit"
    /\ Audited(c, IF op[c].kind = "replace" THEN "hide" ELSE "done")
    /\ UNCHANGED <<status, bound, op, prior, attVars>>

-----------------------------------------------------------------------------
(* get_download_url                                                        *)

\* The URL is made for an object that is in the bucket.
Download(c) ==
    /\ \E u \in People, i \in Attachables :
        Begin(c, u, "download", i, None,
              SeesRow(u, i) /\ _authorize_view(Me(u), Request, Stages) /\ i \in files, "done")
    /\ UNCHANGED attVars

-----------------------------------------------------------------------------
InitAttachments ==
    /\ att = [i \in Attachables |->
                IF i = First THEN NewAttachment(Requester, 1, None) ELSE NoAttachment]
    /\ files = {First}
    /\ unclear = {}

AttachmentStep(c) ==
    \/ BeginUpload(c) \/ BeginReplace(c) \/ BeginRemove(c) \/ Download(c)
    \/ StoreFile(c) \/ InsertRow(c) \/ CleanUp(c)
    \/ RemoveFile(c) \/ HideRow(c) \/ AuditAttachment(c)
=============================================================================
