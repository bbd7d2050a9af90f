------------------------ MODULE WorkflowDefinitions ------------------------
(***************************************************************************)
(* The versions of the workflow definition of one request type in one      *)
(* company, changed by concurrent WorkflowDefinitionService calls of       *)
(* administrators (create_definition, update_draft, delete_draft,          *)
(* activate_version), while RequestService.create_request resolves the     *)
(* active version and pins requests to it, and ApprovalService reads the   *)
(* pinned version again for every stage that is approved.                  *)
(*                                                                         *)
(* A document is represented by the number of edits made to it.  The       *)
(* database contributes the unique keys (version; one active row), the     *)
(* foreign key from a request to its definition and, where the clients of  *)
(* the callers can be built, the row policies: an administrator's reads,   *)
(* insertions and updates pass them, a requester's read of the active      *)
(* version does too; the other statements say what they meet.              *)
(***************************************************************************)
EXTENDS Statements, RowPolicies, FiniteSets

CONSTANTS
    Calls,          \* service calls; a call creates at most one definition, so the
                    \* creating call also serves as the row's id
    First, Second,  \* the versions that exist at the start: 1, active, and 2, a draft
    None,
    MaxRequests,
    MaxErrors, MaxLost, MaxCrashes

Defs == {First, Second} \cup Calls

ASSUME DefinitionAssumption ==
    /\ None \notin Defs /\ First \notin Calls /\ Second \notin Calls /\ First # Second
    /\ MaxRequests \in Nat /\ MaxErrors \in Nat /\ MaxLost \in Nat /\ MaxCrashes \in Nat

VARIABLES
    bound,      \* whether clients for callers can be constructed, and so are bound
    defs,       \* defs[d]: the workflow_definitions row, or NoDef
    pins,       \* requests: the definition each is pinned to and the document then
    pc,         \* pc[c]: the statement call c executes next, or how it ended
    op,         \* op[c]: the kind of call and the definition it is about
    seen        \* seen[c]: what it has read, and whether it has switched a row off

vars == <<bound, defs, pins, pc, op, seen, budget>>

NoDef == [version |-> 0, active |-> FALSE, row |-> 0, doc |-> 0, gone |-> FALSE]

DefRow == [version: Nat, active: BOOLEAN, row: Nat, doc: Nat, gone: BOOLEAN]

Exists(d) == defs[d].row > 0 /\ ~defs[d].gone

Live == {d \in Defs : Exists(d)}

NoSeen == [row |-> 0, active |-> FALSE, doc |-> 0, next |-> 0, prev |-> None,
           prevRow |-> 0, off |-> FALSE]

\* The caller, as the policies see it: the company of everything here is the same.
Caller(role) == [user |-> None, role |-> role, company |-> None]

Ended == {"done", "failed", "crashed"}

Goto(c, p) == pc' = [pc EXCEPT ![c] = p]

\* What follows a statement: the next one, or the exception.
After(c, r, p) == Goto(c, IF r = "ok" THEN p ELSE "failed")

-----------------------------------------------------------------------------
(* Rules of VersionManager and DefinitionResolver                          *)

next_version_number(versions) ==
    IF versions = {} THEN 1 ELSE 1 + CHOOSE v \in versions : \A w \in versions : w <= v

\* Only the present activity counts, not whether the row was ever active.
validate_edit_allowed(d) == ~defs[d].active

validate_activation(candidate, wasActive, current) == ~wasActive /\ current # candidate

\* The one active version; a lookup with none or several active ones fails.
resolve(candidates) ==
    LET active == {d \in candidates : defs[d].active}
    IN  IF Cardinality(active) = 1 THEN CHOOSE d \in active : TRUE ELSE None

find_active_for_request_type ==
    IF \E d \in Live : defs[d].active THEN CHOOSE d \in Live : defs[d].active ELSE None

-----------------------------------------------------------------------------
(* What the statements write                                               *)

NewDefinition(v) == [NoDef EXCEPT !.version = v, !.row = 1]

Edited(row) == [row EXCEPT !.doc = @ + 1, !.row = @ + 1]

Switched(row, on) == [row EXCEPT !.active = on, !.row = @ + 1]

\* The unique index on the active row of a request type.
ActiveKeyFree(d) == \A e \in Live \ {d} : ~defs[e].active

\* Mutant: an edit is not pinned to the row version that was checked.
DraftUnpinned(c, d) == Exists(d)

\* update_inactive_definition names the row version of the row that was read.
DraftPinned(c, d) == Exists(d) /\ defs[d].row = seen[c].row

-----------------------------------------------------------------------------
(* create_definition                                                       *)

ListVersions(c) ==
    /\ pc[c] = "idle"
    /\ op' = [op EXCEPT ![c] = [kind |-> "create", def |-> None]]
    /\ \E r \in Replies :
        /\ Answers(r)
        /\ seen' = [seen EXCEPT ![c].next = next_version_number({defs[d].version : d \in Live})]
        /\ After(c, r, "insert")
    /\ UNCHANGED <<bound, defs, pins>>

VersionKeyFree(v) == \A d \in Live : defs[d].version # v

InsertDefinition(c) ==
    /\ pc[c] = "insert"
    /\ \E r \in Replies :
        /\ Reply(r, VersionKeyFree(seen[c].next))
        /\ defs' = IF Applied(r) THEN [defs EXCEPT ![c] = NewDefinition(seen[c].next)] ELSE defs
        /\ After(c, r, "done")
    /\ UNCHANGED <<bound, pins, op, seen>>

-----------------------------------------------------------------------------
(* update_draft and delete_draft                                           *)

ReadDraft(c) ==
    /\ pc[c] = "idle"
    /\ \E d \in Live, kind \in {"edit", "delete"}, r \in Replies :
        /\ Answers(r)
        /\ op' = [op EXCEPT ![c] = [kind |-> kind, def |-> d]]
        /\ seen' = [seen EXCEPT ![c].row = defs[d].row]
        /\ After(c, r, IF validate_edit_allowed(d) THEN kind ELSE "failed")
    /\ UNCHANGED <<bound, defs, pins>>

UpdateInactive(c) ==
    /\ pc[c] = "edit"
    /\ LET d == op[c].def IN \E r \in Replies :
        /\ Reply(r, DraftPinned(c, d))
        /\ defs' = IF Applied(r) THEN [defs EXCEPT ![d] = Edited(@)] ELSE defs
        /\ After(c, r, "done")
    /\ UNCHANGED <<bound, pins, op, seen>>

\* Mutant: the delete names the id only.
DeletableById(d) == Exists(d) /\ \A p \in pins : p.def # d

\* The delete matches an inactive row, whatever its row version; the foreign
\* key of requests refuses to lose one that is referenced.
Deletable(d) == Exists(d) /\ ~defs[d].active /\ \A p \in pins : p.def # d

DeleteInactive(c) ==
    /\ pc[c] = "delete"
    /\ LET d == op[c].def IN \E r \in Replies :
        /\ Reply(r, Deletable(d) /\ Reaches("workflow_definitions", bound,
                                            workflow_definitions_delete))
        /\ defs' = IF Applied(r) THEN [defs EXCEPT ![d].gone = TRUE] ELSE defs
        /\ After(c, r, "done")
    /\ UNCHANGED <<bound, pins, op, seen>>

-----------------------------------------------------------------------------
(* activate_version: read and validate, then activate_definition, which    *)
(* looks the active row up again, switches it off, ignoring whether that   *)
(* matched, and switches the target on; then the audit entry.  The only    *)
(* compensation is a log message.                                          *)

ReadCandidate(c) ==
    /\ pc[c] = "idle"
    /\ \E d \in Live, r \in Replies :
        /\ Answers(r)
        /\ op' = [op EXCEPT ![c] = [kind |-> "activate", def |-> d]]
        /\ seen' = [seen EXCEPT ![c].row = defs[d].row, ![c].active = defs[d].active]
        /\ After(c, r, "validate")
    /\ UNCHANGED <<bound, defs, pins>>

ValidateActivation(c) ==
    /\ pc[c] = "validate"
    /\ \E r \in Replies :
        /\ Answers(r)
        /\ After(c, r, IF validate_activation(op[c].def, seen[c].active, find_active_for_request_type)
                       THEN "find" ELSE "failed")
    /\ UNCHANGED <<bound, defs, pins, op, seen>>

FindActive(c) ==
    /\ pc[c] = "find"
    /\ LET d == find_active_for_request_type IN \E r \in Replies :
        /\ Answers(r)
        /\ seen' = [seen EXCEPT ![c].prev = d, ![c].prevRow = IF d = None THEN 0 ELSE defs[d].row]
        /\ After(c, r, IF d \in {None, op[c].def} THEN "activate" ELSE "deactivate")
    /\ UNCHANGED <<bound, defs, pins, op>>

\* A deactivation that matches no row, or whose answer is lost, is no failure.
DeactivatePrevious(c) ==
    /\ pc[c] = "deactivate"
    /\ LET d == seen[c].prev IN \E r \in Replies :
        /\ Reply(r, Exists(d) /\ defs[d].row = seen[c].prevRow)
        /\ defs' = IF Applied(r) THEN [defs EXCEPT ![d] = Switched(@, FALSE)] ELSE defs
        /\ seen' = [seen EXCEPT ![c].off = Applied(r)]
        /\ Goto(c, IF r = "error" THEN "failed" ELSE "activate")
    /\ UNCHANGED <<bound, pins, op>>

ActivateDefinition(c) ==
    /\ pc[c] = "activate"
    /\ LET d == op[c].def IN \E r \in Replies :
        /\ Reply(r, Exists(d) /\ defs[d].row = seen[c].row /\ ActiveKeyFree(d))
        /\ defs' = IF Applied(r) THEN [defs EXCEPT ![d] = Switched(@, TRUE)] ELSE defs
        /\ After(c, r, "audit")
    /\ UNCHANGED <<bound, pins, op, seen>>

RecordActivation(c) ==
    /\ pc[c] = "audit"
    /\ \E r \in Replies : Reply(r, TRUE) /\ After(c, r, "done")
    /\ UNCHANGED <<bound, defs, pins, op, seen>>

-----------------------------------------------------------------------------
(* create_request, as far as it concerns definitions: the active version   *)
(* is read, the first stage is planned from it, and the row refers to it.  *)

ResolveDefinition(c) ==
    /\ pc[c] = "idle" /\ Cardinality(pins) < MaxRequests
    /\ LET d == resolve(Live) IN \E r \in Replies :
        /\ Answers(r)
        /\ op' = [op EXCEPT ![c] = [kind |-> "request", def |-> d]]
        /\ seen' = [seen EXCEPT ![c].doc = IF d = None THEN 0 ELSE defs[d].doc]
        /\ After(c, r, IF d = None THEN "failed" ELSE "pin")
    /\ UNCHANGED <<bound, defs, pins>>

\* The foreign key on insertion.
ReferenceThere(d) == Exists(d)

InsertRequest(c) ==
    /\ pc[c] = "pin"
    /\ LET d == op[c].def IN \E r \in Replies :
        /\ Reply(r, ReferenceThere(d))
        /\ pins' = IF Applied(r) THEN pins \cup {[by |-> c, def |-> d, doc |-> seen[c].doc]}
                                 ELSE pins
        /\ After(c, r, "done")
    /\ UNCHANGED <<bound, defs, op, seen>>

-----------------------------------------------------------------------------
(* An approval reads the version its request is pinned to, on the client   *)
(* of the approver, and plans the next stage from its document.            *)

ReadPinned(c) ==
    /\ pc[c] = "idle"
    /\ \E p \in pins, role \in {"approver", "admin"}, r \in Replies :
        /\ Answers(r)
        /\ LET there == Reaches("workflow_definitions", bound,
                        workflow_definitions_select(Caller(role),
                            [company |-> None, active |-> defs[p.def].active]))
           IN  /\ op' = [op EXCEPT ![c] = [kind |-> IF there \/ r # "ok" THEN "advance" ELSE "stuck",
                                          def |-> p.def]]
               /\ seen' = [seen EXCEPT ![c].doc = IF there THEN defs[p.def].doc ELSE 0]
               /\ After(c, r, IF there THEN "done" ELSE "failed")
    /\ UNCHANGED <<bound, defs, pins>>

Crash(c) ==
    /\ pc[c] \notin Ended \cup {"idle"} /\ Dies
    /\ Goto(c, "crashed")
    /\ UNCHANGED <<bound, defs, pins, op, seen>>

-----------------------------------------------------------------------------
Init ==
    /\ bound \in BOOLEAN
    /\ defs = [d \in Defs |-> CASE d = First  -> Switched(NewDefinition(1), TRUE)
                              [] d = Second -> NewDefinition(2)
                              [] OTHER      -> NoDef]
    /\ pins = {}
    /\ pc = [c \in Calls |-> "idle"]
    /\ op = [c \in Calls |-> [kind |-> "none", def |-> None]]
    /\ seen = [c \in Calls |-> NoSeen]
    /\ budget = [errors |-> MaxErrors, lost |-> MaxLost, crashes |-> MaxCrashes]

Step(c) ==
    \/ ListVersions(c) \/ InsertDefinition(c)
    \/ ReadDraft(c) \/ UpdateInactive(c) \/ DeleteInactive(c)
    \/ ReadCandidate(c) \/ ValidateActivation(c) \/ FindActive(c)
    \/ DeactivatePrevious(c) \/ ActivateDefinition(c) \/ RecordActivation(c)
    \/ ResolveDefinition(c) \/ InsertRequest(c) \/ ReadPinned(c) \/ Crash(c)

Quiescent == \A c \in Calls : pc[c] \in Ended \cup {"idle"}

Next == (\E c \in Calls : Step(c)) \/ (Quiescent /\ UNCHANGED vars)

Spec == Init /\ [][Next]_vars
-----------------------------------------------------------------------------
(* Properties *)

NoneActive == \A d \in Live : ~defs[d].active

\* When no version is active, one particular call is the author: it has switched
\* the old version off and is about to switch its own on, or ended there, by a fault
\* or because its candidate had changed meanwhile.  Successful activations in any
\* overlap never cancel each other out, and no other call, a delete that was
\* checked before the activation among them, leaves a request type without an
\* active version (activate_definition).
GapHasAnAuthor ==
    NoneActive => \E c \in Calls : seen[c].off /\ pc[c] \in {"activate", "failed", "crashed"}

\* The document of an active version is not edited and the version not deleted,
\* although the check that it is inactive was made on an earlier read
\* (update_draft, delete_draft).
ActiveUntouched ==
    [][\A d \in Defs : defs[d].active =>
        defs'[d].doc = defs[d].doc /\ ~defs'[d].gone]_vars

-----------------------------------------------------------------------------
(* What the documentation says and the code does not keep *)

\* "a request_type with no active version would silently block all future submissions
\* of that type, a state the system deliberately makes unreachable": when no call is
\* under way, some version is active (activate_definition, two statements).
SomeVersionActive == Quiescent => ~NoneActive

\* "the two populations of requests are reading from physically different, immutable
\* rows": the document of the version that a request is pinned to never changes
\* (update_draft edits it once the version is superseded).
PinnedDocumentUnchanged == \A p \in pins : defs[p.def].doc = p.doc

\* "Delete a workflow definition that has not yet been activated.": what may be
\* deleted can be, but for a fault (delete_draft, on the administrator's client).
DraftsCanBeDeleted ==
    [][\A c \in Calls : pc[c] = "delete" /\ pc'[c] = "failed" /\ budget' = budget =>
        ~Deletable(op[c].def)]_vars

\* "in-flight requests finish under the version they started with": an approver finds the
\* version that the request is pinned to.
PinnedDefinitionReadable == \A c \in Calls : op[c].kind # "stuck"
=============================================================================
