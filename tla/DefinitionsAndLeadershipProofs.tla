------------------- MODULE DefinitionsAndLeadershipProofs -------------------
(***************************************************************************)
(* Proofs about the two components whose statements fail one at a time:    *)
(* WorkflowDefinitions, for every set of overlapping calls, every number of*)
(* requests and every fault budget; and SchedulerLeadership, for every     *)
(* number of instances, of threads, of runs and of faults, and all         *)
(* lifetimes of the two keys.                                              *)
(***************************************************************************)
EXTENDS WorkflowDefinitions, SchedulerLeadership, FiniteSetTheorems, TLAPS

-----------------------------------------------------------------------------
(* WorkflowDefinitions: the inductive invariant                            *)

\* A row of workflow_definitions; its version is whatever next_version_number
\* has returned.
DefOK(r) ==
    /\ r \in [version: {r.version}, active: BOOLEAN, row: Nat, doc: Nat, gone: BOOLEAN]
    /\ r.row = 0 \/ r.gone => ~r.active
    /\ r.row = 0 => ~r.gone

SeenOK(s) ==
    s \in [row: Nat, active: BOOLEAN, doc: Nat, next: {s.next}, prev: {s.prev},
           prevRow: {s.prevRow}, off: BOOLEAN]

OpOK(o) == o \in [kind: {o.kind}, def: {o.def}]

\* A call that has yet to execute a statement on the definition it is about.
Targeted == {"edit", "delete", "validate", "find", "deactivate", "activate", "pin"}

Pcs == Targeted \cup {"idle", "insert", "audit"} \cup Ended

\* What a call at p knows: the definition is in the table; a draft's row was
\* inactive when it was read, and is not older now.
Linked(p, o, s) ==
    /\ p \in Targeted => o.def \in Defs
    /\ p = "deactivate" => s.prev \in Defs
    /\ p = "edit" => /\ s.row > 0 /\ s.row <= defs[o.def].row
                     /\ s.row = defs[o.def].row => ~defs[o.def].active

\* A call that has not inserted its definition has no row.
Unborn == \A c \in Calls : pc[c] \in {"idle", "insert"} => defs[c].row = 0

DefTypes ==
    /\ defs = [d \in Defs |-> defs[d]] /\ \A d \in Defs : DefOK(defs[d])
    /\ pc \in [Calls -> Pcs]
    /\ op = [c \in Calls |-> op[c]] /\ \A c \in Calls : OpOK(op[c])
    /\ seen = [c \in Calls |-> seen[c]] /\ \A c \in Calls : SeenOK(seen[c])
    /\ pins \subseteq [by: Calls, def: Defs, doc: Nat]

DefinitionInv ==
    /\ DefTypes /\ Unborn
    /\ \A c \in Calls : Linked(pc[c], op[c], seen[c])
    /\ GapHasAnAuthor

-----------------------------------------------------------------------------
(* What the row operators return                                           *)

\* Columns of a row are set to values of their types.
LEMMA SetColumns ==
    ASSUME NEW V, NEW v \in V, NEW r \in [version: V, active: BOOLEAN, row: Nat, doc: Nat, gone: BOOLEAN],
           NEW n \in Nat, NEW m \in Nat, NEW b \in BOOLEAN
    PROVE  LET T == [version: V, active: BOOLEAN, row: Nat, doc: Nat, gone: BOOLEAN]
           IN  /\ [r EXCEPT !.version = v, !.row = n] \in T
               /\ [r EXCEPT !.doc = m, !.row = n] \in T
               /\ [r EXCEPT !.active = b, !.row = n] \in T
               /\ [r EXCEPT !.gone = b] \in T
OBVIOUS

LEMMA NewRow ==
    ASSUME NEW v
    PROVE  /\ DefOK(NewDefinition(v)) /\ NewDefinition(v).row = 1
           /\ ~NewDefinition(v).active /\ ~NewDefinition(v).gone
<1> DEFINE V == {0, v}
<1>1. NoDef \in [version: V, active: BOOLEAN, row: Nat, doc: Nat, gone: BOOLEAN]
  BY DEF NoDef
<1>2. v \in V /\ 1 \in Nat
  OBVIOUS
<1> HIDE DEF V
<1>3. NewDefinition(v) \in [version: V, active: BOOLEAN, row: Nat, doc: Nat, gone: BOOLEAN]
  BY <1>1, <1>2, SetColumns DEF NewDefinition
<1>4. /\ NewDefinition(v).row = 1 /\ NewDefinition(v).active = FALSE
      /\ NewDefinition(v).gone = FALSE
  BY DEF NewDefinition, NoDef
<1> QED BY <1>3, <1>4 DEF DefOK

LEMMA EditedRow ==
    ASSUME NEW r, DefOK(r)
    PROVE  /\ DefOK(Edited(r)) /\ Edited(r).row = r.row + 1
           /\ Edited(r).active = r.active /\ Edited(r).gone = r.gone
<1> DEFINE V == {r.version}
<1>1. /\ r \in [version: V, active: BOOLEAN, row: Nat, doc: Nat, gone: BOOLEAN]
      /\ r.version \in V /\ r.row + 1 \in Nat /\ r.doc + 1 \in Nat
  BY DEF DefOK
<1> HIDE DEF V
<1>2. Edited(r) \in [version: V, active: BOOLEAN, row: Nat, doc: Nat, gone: BOOLEAN]
  BY <1>1, SetColumns DEF Edited
<1>3. /\ Edited(r).row = r.row + 1 /\ Edited(r).active = r.active /\ Edited(r).gone = r.gone
  BY <1>1 DEF Edited
<1> QED BY <1>1, <1>2, <1>3 DEF DefOK

LEMMA SwitchedRow ==
    ASSUME NEW r, DefOK(r), ~r.gone, NEW on \in BOOLEAN
    PROVE  /\ DefOK(Switched(r, on)) /\ Switched(r, on).row = r.row + 1
           /\ Switched(r, on).active = on /\ ~Switched(r, on).gone
           /\ Switched(r, on).doc = r.doc
<1> DEFINE V == {r.version}
<1>1. /\ r \in [version: V, active: BOOLEAN, row: Nat, doc: Nat, gone: BOOLEAN]
      /\ r.version \in V /\ r.row + 1 \in Nat
  BY DEF DefOK
<1> HIDE DEF V
<1>2. Switched(r, on) \in [version: V, active: BOOLEAN, row: Nat, doc: Nat, gone: BOOLEAN]
  BY <1>1, SetColumns DEF Switched
<1>3. /\ Switched(r, on).row = r.row + 1 /\ Switched(r, on).active = on
      /\ Switched(r, on).gone = r.gone /\ Switched(r, on).doc = r.doc
  BY <1>1 DEF Switched
<1> QED BY <1>1, <1>2, <1>3 DEF DefOK

LEMMA DeletedRow ==
    ASSUME NEW r, DefOK(r), r.row > 0, ~r.active
    PROVE  LET s == [r EXCEPT !.gone = TRUE]
           IN  DefOK(s) /\ s.row = r.row /\ ~s.active /\ s.gone
<1> DEFINE s == [r EXCEPT !.gone = TRUE]
<1>1. r \in [version: {r.version}, active: BOOLEAN, row: Nat, doc: Nat, gone: BOOLEAN]
  BY DEF DefOK
<1>2. s \in [version: {r.version}, active: BOOLEAN, row: Nat, doc: Nat, gone: BOOLEAN]
  BY <1>1
<1>3. s.row = r.row /\ s.active = r.active /\ s.gone = TRUE
  BY <1>1
<1> HIDE DEF s
<1>4. DefOK(s)
  BY <1>1, <1>2, <1>3 DEF DefOK
<1> QED BY <1>3, <1>4 DEF s

LEMMA OpRecord == \A k, d : OpOK([kind |-> k, def |-> d]) /\ [kind |-> k, def |-> d].def = d
BY DEF OpOK

\* A statement that was applied had matched.
LEMMA ReplyApplied ==
    ASSUME NEW r, NEW m, Reply(r, m), Applied(r)
    PROVE  m
BY DEF Reply, Applied

LEMMA FoundActive ==
    find_active_for_request_type = None \/ find_active_for_request_type \in Live
BY DEF find_active_for_request_type

LEMMA Resolved == resolve(Live) = None \/ resolve(Live) \in Live
<1> DEFINE active == {d \in Live : defs[d].active}
<1>1. Cardinality({}) = 0
  BY FS_EmptySet
<1>2. Cardinality(active) = 1 => active # {}
  BY <1>1
<1>3. active # {} => (CHOOSE d \in active : TRUE) \in active
  OBVIOUS
<1> QED BY <1>2, <1>3 DEF resolve

-----------------------------------------------------------------------------
(* Steps that leave the rows alone                                         *)

\* Call c reads, validates, ends or dies: it may do so unless it hides that it
\* has switched a row off.
LEMMA QuietStep ==
    ASSUME DefinitionInv, NEW c \in Calls, NEW p \in Pcs, NEW o, OpOK(o), NEW s, SeenOK(s),
           pc' = [pc EXCEPT ![c] = p], op' = [op EXCEPT ![c] = o], seen' = [seen EXCEPT ![c] = s],
           UNCHANGED <<defs, pins>>,
           Linked(p, o, s),
           p = "idle" => pc[c] = "idle",
           p = "insert" => pc[c] = "idle",
           seen[c].off /\ pc[c] \in {"activate", "failed", "crashed"} =>
               s.off /\ p \in {"activate", "failed", "crashed"}
    PROVE  DefinitionInv'
<1>1. DefTypes'
  BY DEF DefinitionInv, DefTypes
<1>2. Unborn'
  BY DEF DefinitionInv, DefTypes, Unborn
<1>3. \A x \in Calls : Linked(pc[x], op[x], seen[x])'
  BY DEF DefinitionInv, DefTypes, Linked
<1>5. GapHasAnAuthor'
  <2>1. SUFFICES ASSUME \A d \in Live : ~defs[d].active
                 PROVE  \E x \in Calls : seen'[x].off /\ pc'[x] \in {"activate", "failed", "crashed"}
    BY DEF GapHasAnAuthor, NoneActive, Live, Exists
  <2>2. PICK x \in Calls : seen[x].off /\ pc[x] \in {"activate", "failed", "crashed"}
    BY <2>1 DEF DefinitionInv, GapHasAnAuthor, NoneActive
  <2>3. CASE x = c
    BY <2>2, <2>3 DEF DefinitionInv, DefTypes
  <2>4. CASE x # c
    BY <2>2, <2>4 DEF DefinitionInv, DefTypes
  <2> QED BY <2>3, <2>4
<1> QED BY <1>1, <1>2, <1>3, <1>5 DEF DefinitionInv

-----------------------------------------------------------------------------
(* Steps that write one row                                                *)

\* Call c replaces the row of definition d by r.  Every such statement raises
\* the row version, except the delete, which leaves an inactive row.
LEMMA RowStep ==
    ASSUME DefinitionInv, NEW c \in Calls, NEW d \in Defs, NEW r, DefOK(r), NEW s, SeenOK(s),
           NEW p \in {"activate", "audit"} \cup Ended, p = "activate" => op[c].def \in Defs,
           defs' = [defs EXCEPT ![d] = r], pc' = [pc EXCEPT ![c] = p],
           seen' = [seen EXCEPT ![c] = s], pins' = pins, op' = op,
           defs[d].row > 0 \/ d = c,
           \/ r.row = defs[d].row + 1
           \/ r.row = defs[d].row /\ defs[d].row > 0 /\ ~r.active,
           defs[d].active => ~r.gone,
           \/ s.off /\ p = "activate"
           \/ r.active
           \/ /\ s = seen[c] /\ pc[c] \notin {"activate", "failed", "crashed"}
              /\ ~defs[d].active
    PROVE  DefinitionInv'
<1>0. /\ \A e \in Defs : DefOK(defs[e]) /\ defs'[e] = IF e = d THEN r ELSE defs[e]
      /\ \A x \in Calls : /\ pc'[x] = IF x = c THEN p ELSE pc[x]
                          /\ seen'[x] = IF x = c THEN s ELSE seen[x]
  <2>1. \A e \in Defs : DefOK(defs[e])
    BY DEF DefinitionInv, DefTypes
  <2>2. defs = [e \in Defs |-> defs[e]]
    BY DEF DefinitionInv, DefTypes
  <2>3. \A e \in Defs : defs'[e] = IF e = d THEN r ELSE defs[e]
    BY <2>2
  <2>4. pc \in [Calls -> Pcs] /\ seen = [x \in Calls |-> seen[x]]
    BY DEF DefinitionInv, DefTypes
  <2> QED BY <2>1, <2>3, <2>4
<1>7. r.row \in Nat /\ r.row > 0 /\ defs[d].row \in Nat /\ r.row >= defs[d].row
  BY <1>0 DEF DefOK
<1>8. r.active => ~r.gone
  BY DEF DefOK
<1>1. DefTypes'
  <2>1. p \in Pcs
    BY DEF Pcs, Targeted
  <2>2. defs' = [e \in Defs |-> defs'[e]] /\ \A e \in Defs : DefOK(defs'[e])
    BY <1>0 DEF DefinitionInv, DefTypes
  <2>3. seen' = [x \in Calls |-> seen'[x]] /\ \A x \in Calls : SeenOK(seen'[x])
    BY <1>0 DEF DefinitionInv, DefTypes
  <2>4. pc' \in [Calls -> Pcs]
    BY <2>1 DEF DefinitionInv, DefTypes
  <2> QED BY <2>2, <2>3, <2>4 DEF DefinitionInv, DefTypes
<1>2. Unborn'
  <2>1. SUFFICES ASSUME NEW x \in Calls, pc'[x] \in {"idle", "insert"} PROVE defs'[x].row = 0
    BY DEF Unborn
  <2>2. x # c /\ pc'[x] = pc[x]
    BY <1>0, <2>1 DEF Ended
  <2>3. defs[x].row = 0 /\ x \in Defs
    BY <2>1, <2>2 DEF DefinitionInv, Unborn, Defs
  <2> QED BY <1>0, <2>2, <2>3
<1>3. \A x \in Calls : Linked(pc[x], op[x], seen[x])'
  <2>1. SUFFICES ASSUME NEW x \in Calls PROVE Linked(pc[x], op[x], seen[x])'
    OBVIOUS
  <2>2. CASE x = c
    BY <1>0, <2>2 DEF Linked, Targeted, Ended
  <2>3. CASE x # c
    <3>1. Linked(pc[x], op[x], seen[x]) /\ pc'[x] = pc[x] /\ seen'[x] = seen[x]
      BY <1>0, <2>3 DEF DefinitionInv
    <3>2. CASE pc[x] = "edit"
      <4> DEFINE e == op[x].def
      <4>1. /\ e \in Defs /\ seen[x].row > 0 /\ seen[x].row <= defs[e].row
            /\ seen[x].row = defs[e].row => ~defs[e].active
        BY <3>1, <3>2 DEF Linked, Targeted
      <4>2. SeenOK(seen[x]) /\ DefOK(defs[e])
        BY <4>1 DEF DefinitionInv, DefTypes
      <4>3. seen[x].row \in Nat /\ defs[e].row \in Nat
        BY <4>2 DEF SeenOK, DefOK
      <4>4. /\ seen[x].row <= defs'[e].row
            /\ seen[x].row = defs'[e].row => ~defs'[e].active
        BY <1>0, <1>7, <4>1, <4>3
      <4> QED BY <3>1, <3>2, <4>1, <4>4 DEF Linked, Targeted
    <3>3. CASE pc[x] # "edit"
      BY <3>1, <3>3 DEF Linked
    <3> QED BY <3>2, <3>3
  <2> QED BY <2>2, <2>3
<1>6. GapHasAnAuthor'
  <2>1. CASE s.off /\ p = "activate"
    <3>1. seen'[c].off /\ pc'[c] = "activate"
      BY <1>0, <2>1
    <3> QED BY <3>1 DEF GapHasAnAuthor, NoneActive
  <2>2. CASE r.active
    <3>1. d \in Live' /\ defs'[d].active
      BY <1>0, <1>7, <1>8, <2>2 DEF Live, Exists
    <3> QED BY <3>1 DEF GapHasAnAuthor, NoneActive
  <2>3. CASE /\ s = seen[c] /\ pc[c] \notin {"activate", "failed", "crashed"}
             /\ ~defs[d].active
    <3>1. SUFFICES ASSUME \A e \in Live' : ~defs'[e].active
                   PROVE  \E x \in Calls : seen'[x].off /\ pc'[x] \in {"activate", "failed", "crashed"}
      BY DEF GapHasAnAuthor, NoneActive
    <3>2. \A e \in Live : ~defs[e].active
      BY <1>0, <2>3, <3>1 DEF Live, Exists
    <3>3. PICK x \in Calls : seen[x].off /\ pc[x] \in {"activate", "failed", "crashed"}
      BY <3>2 DEF DefinitionInv, GapHasAnAuthor, NoneActive
    <3> QED BY <1>0, <2>3, <3>3
  <2> QED BY <2>1, <2>2, <2>3
<1> QED BY <1>1, <1>2, <1>3, <1>6 DEF DefinitionInv

-----------------------------------------------------------------------------
(* One lemma per action                                                    *)

LEMMA Keep ==
    ASSUME DefinitionInv, NEW c \in Calls
    PROVE  /\ op = [op EXCEPT ![c] = op[c]] /\ seen = [seen EXCEPT ![c] = seen[c]]
           /\ OpOK(op[c]) /\ SeenOK(seen[c]) /\ Linked(pc[c], op[c], seen[c])
BY DEF DefinitionInv, DefTypes

LEMMA FailedLinked == \A o, s : Linked("failed", o, s) /\ Linked("done", o, s) /\ Linked("audit", o, s)
                              /\ Linked("crashed", o, s) /\ Linked("insert", o, s)
BY DEF Linked, Targeted

LEMMA CrashStep ==
    ASSUME DefinitionInv, NEW c \in Calls, Crash(c)
    PROVE  DefinitionInv'
<1>1. pc' = [pc EXCEPT ![c] = "crashed"] /\ UNCHANGED <<defs, pins, op, seen>>
  BY DEF Crash, Goto
<1>2. op' = [op EXCEPT ![c] = op[c]] /\ seen' = [seen EXCEPT ![c] = seen[c]]
  BY <1>1, Keep
<1>3. "crashed" \in Pcs
  BY DEF Pcs, Ended
<1> QED BY <1>1, <1>2, <1>3, Keep, FailedLinked, QuietStep

LEMMA RecordActivationStep ==
    ASSUME DefinitionInv, NEW c \in Calls, RecordActivation(c)
    PROVE  DefinitionInv'
<1>1. pc[c] = "audit" /\ UNCHANGED <<defs, pins, op, seen>>
  BY DEF RecordActivation
<1>2. PICK q \in {"done", "failed"} : pc' = [pc EXCEPT ![c] = q] /\ q \in Pcs
  BY DEF RecordActivation, After, Goto, Pcs, Ended
<1>3. op' = [op EXCEPT ![c] = op[c]] /\ seen' = [seen EXCEPT ![c] = seen[c]]
  BY <1>1, Keep
<1>4. /\ OpOK(op[c]) /\ SeenOK(seen[c]) /\ Linked(q, op[c], seen[c])
      /\ q \notin {"idle", "insert"} /\ pc[c] \notin {"activate", "failed", "crashed"}
  BY <1>1, <1>2, Keep, FailedLinked
<1> QED BY <1>1, <1>2, <1>3, <1>4, QuietStep

LEMMA ListVersionsStep ==
    ASSUME DefinitionInv, NEW c \in Calls, ListVersions(c)
    PROVE  DefinitionInv'
<1> DEFINE o == [kind |-> "create", def |-> None]
           s == [seen[c] EXCEPT !.next = next_version_number({defs[d].version : d \in Live})]
<1>1. /\ pc[c] = "idle" /\ op' = [op EXCEPT ![c] = o] /\ seen' = [seen EXCEPT ![c] = s]
      /\ UNCHANGED <<defs, pins>>
  BY DEF ListVersions
<1>2. PICK q \in {"insert", "failed"} : pc' = [pc EXCEPT ![c] = q] /\ q \in Pcs
  BY DEF ListVersions, After, Goto, Pcs, Ended
<1>3. OpOK(o) /\ SeenOK(s)
  BY Keep, OpRecord DEF SeenOK
<1> HIDE DEF o, s
<1> QED BY <1>1, <1>2, <1>3, FailedLinked, QuietStep

LEMMA ReadDraftStep ==
    ASSUME DefinitionInv, NEW c \in Calls, ReadDraft(c)
    PROVE  DefinitionInv'
<1>1. PICK d \in Live, kind \in {"edit", "delete"}, r \in Replies :
        /\ op' = [op EXCEPT ![c] = [kind |-> kind, def |-> d]]
        /\ seen' = [seen EXCEPT ![c].row = defs[d].row]
        /\ After(c, r, IF validate_edit_allowed(d) THEN kind ELSE "failed")
  BY DEF ReadDraft
<1> DEFINE o == [kind |-> kind, def |-> d]
           s == [seen[c] EXCEPT !.row = defs[d].row]
<1>2. pc[c] = "idle" /\ UNCHANGED <<defs, pins>>
  BY DEF ReadDraft
<1>3. PICK q \in {kind, "failed"} : /\ pc' = [pc EXCEPT ![c] = q] /\ q \in Pcs
                                    /\ q = "failed" \/ ~defs[d].active
  BY <1>1 DEF After, Goto, validate_edit_allowed, Pcs, Targeted, Ended
<1>4. d \in Defs /\ defs[d].row \in Nat /\ defs[d].row > 0
  BY DEF DefinitionInv, DefTypes, DefOK, Live, Exists
<1>5. OpOK(o) /\ o.def = d /\ SeenOK(s) /\ s.row = defs[d].row
  BY <1>4, Keep, OpRecord DEF SeenOK
<1>6. op' = [op EXCEPT ![c] = o] /\ seen' = [seen EXCEPT ![c] = s]
  BY <1>1
<1> HIDE DEF o, s
<1>7. Linked(q, o, s)
  BY <1>3, <1>4, <1>5 DEF Linked
<1>8. q \notin {"idle", "insert"} /\ pc[c] \notin {"activate", "failed", "crashed"}
  BY <1>2, <1>3
<1> QED BY <1>2, <1>3, <1>5, <1>6, <1>7, <1>8, QuietStep

LEMMA ReadCandidateStep ==
    ASSUME DefinitionInv, NEW c \in Calls, ReadCandidate(c)
    PROVE  DefinitionInv'
<1>1. PICK d \in Live, r \in Replies :
        /\ op' = [op EXCEPT ![c] = [kind |-> "activate", def |-> d]]
        /\ seen' = [seen EXCEPT ![c].row = defs[d].row, ![c].active = defs[d].active]
        /\ After(c, r, "validate")
  BY DEF ReadCandidate
<1> DEFINE o == [kind |-> "activate", def |-> d]
           t == [seen[c] EXCEPT !.row = defs[d].row]
           s == [t EXCEPT !.active = defs[d].active]
<1>2. pc[c] = "idle" /\ UNCHANGED <<defs, pins>>
  BY DEF ReadCandidate
<1>3. PICK q \in {"validate", "failed"} : pc' = [pc EXCEPT ![c] = q] /\ q \in Pcs
  BY <1>1 DEF After, Goto, Pcs, Targeted, Ended
<1>4. d \in Defs /\ defs[d].row \in Nat /\ defs[d].active \in BOOLEAN
  BY DEF DefinitionInv, DefTypes, DefOK, Live
<1>5. OpOK(o) /\ o.def = d
  BY OpRecord
<1>6. SeenOK(t)
  BY <1>4, Keep DEF SeenOK
<1>7. SeenOK(s)
  BY <1>4, <1>6 DEF SeenOK
<1>8. op' = [op EXCEPT ![c] = o] /\ seen' = [seen EXCEPT ![c] = s]
  BY <1>1 DEF DefinitionInv, DefTypes
<1> HIDE DEF o, s
<1>9. Linked(q, o, s)
  BY <1>3, <1>4, <1>5 DEF Linked
<1> QED BY <1>2, <1>3, <1>5, <1>7, <1>8, <1>9, QuietStep

LEMMA ValidateActivationStep ==
    ASSUME DefinitionInv, NEW c \in Calls, ValidateActivation(c)
    PROVE  DefinitionInv'
<1>1. pc[c] = "validate" /\ UNCHANGED <<defs, pins, op, seen>>
  BY DEF ValidateActivation
<1>2. PICK q \in {"find", "failed"} : pc' = [pc EXCEPT ![c] = q] /\ q \in Pcs
  BY DEF ValidateActivation, After, Goto, Pcs, Targeted, Ended
<1>3. op' = [op EXCEPT ![c] = op[c]] /\ seen' = [seen EXCEPT ![c] = seen[c]]
  BY <1>1, Keep
<1>4. Linked(q, op[c], seen[c])
  BY <1>1, <1>2, Keep DEF Linked, Targeted
<1> QED BY <1>1, <1>2, <1>3, <1>4, Keep, QuietStep

LEMMA FindActiveStep ==
    ASSUME DefinitionInv, NEW c \in Calls, FindActive(c)
    PROVE  DefinitionInv'
<1> DEFINE d == find_active_for_request_type
           n == IF d = None THEN 0 ELSE defs[d].row
           t == [seen[c] EXCEPT !.prev = d]
           s == [t EXCEPT !.prevRow = n]
<1>1. pc[c] = "find" /\ UNCHANGED <<defs, pins, op>>
  BY DEF FindActive
<1>2. PICK q \in {"activate", "deactivate", "failed"} :
        /\ pc' = [pc EXCEPT ![c] = q] /\ q \in Pcs
        /\ q = "deactivate" => d # None
  BY DEF FindActive, After, Goto, Pcs, Targeted, Ended
<1>3. seen' = [seen EXCEPT ![c] = s]
  BY DEF FindActive, DefinitionInv, DefTypes
<1>4. op' = [op EXCEPT ![c] = op[c]]
  BY <1>1, Keep
<1> HIDE DEF n
<1>5. SeenOK(t) /\ t.prev = d
  BY Keep DEF SeenOK
<1>6. SeenOK(s) /\ s.prev = d
  BY <1>5 DEF SeenOK
<1>7. d = None \/ d \in Defs
  BY FoundActive DEF Live
<1> HIDE DEF d, s
<1>8. Linked(q, op[c], s)
  BY <1>1, <1>2, <1>6, <1>7, Keep DEF Linked, Targeted
<1> QED BY <1>1, <1>2, <1>3, <1>4, <1>6, <1>8, Keep, QuietStep

LEMMA ResolveDefinitionStep ==
    ASSUME DefinitionInv, NEW c \in Calls, ResolveDefinition(c)
    PROVE  DefinitionInv'
<1> DEFINE d == resolve(Live)
           n == IF d = None THEN 0 ELSE defs[d].doc
           o == [kind |-> "request", def |-> d]
           s == [seen[c] EXCEPT !.doc = n]
<1>1. /\ pc[c] = "idle" /\ op' = [op EXCEPT ![c] = o] /\ seen' = [seen EXCEPT ![c] = s]
      /\ UNCHANGED <<defs, pins>>
  BY DEF ResolveDefinition
<1>2. PICK q \in {"pin", "failed"} : /\ pc' = [pc EXCEPT ![c] = q] /\ q \in Pcs
                                     /\ q = "failed" \/ d # None
  BY DEF ResolveDefinition, After, Goto, Pcs, Targeted, Ended
<1>3. d = None \/ d \in Defs
  BY Resolved DEF Live
<1> HIDE DEF d
<1>4. n \in Nat
  <2>1. d \in Defs => defs[d].doc \in Nat
    BY DEF DefinitionInv, DefTypes, DefOK
  <2> QED BY <1>3, <2>1
<1> HIDE DEF n
<1>5. OpOK(o) /\ o.def = d /\ SeenOK(s)
  BY <1>4, Keep, OpRecord DEF SeenOK
<1> HIDE DEF o, s
<1>6. Linked(q, o, s)
  BY <1>2, <1>3, <1>5 DEF Linked, Targeted
<1> QED BY <1>1, <1>2, <1>5, <1>6, QuietStep

LEMMA ReadPinnedStep ==
    ASSUME DefinitionInv, NEW c \in Calls, ReadPinned(c)
    PROVE  DefinitionInv'
<1>1. PICK p \in pins, role \in {"approver", "admin"}, r \in Replies :
        LET there == Reaches("workflow_definitions", bound,
                     workflow_definitions_select(Caller(role),
                         [company |-> None, active |-> defs[p.def].active]))
        IN  /\ op' = [op EXCEPT ![c] = [kind |-> IF there \/ r # "ok" THEN "advance" ELSE "stuck",
                                       def |-> p.def]]
            /\ seen' = [seen EXCEPT ![c].doc = IF there THEN defs[p.def].doc ELSE 0]
            /\ After(c, r, IF there THEN "done" ELSE "failed")
  BY DEF ReadPinned
<1> DEFINE there == Reaches("workflow_definitions", bound,
                    workflow_definitions_select(Caller(role),
                        [company |-> None, active |-> defs[p.def].active]))
           kind == IF there \/ r # "ok" THEN "advance" ELSE "stuck"
           doc == IF there THEN defs[p.def].doc ELSE 0
           q == IF r = "ok" /\ there THEN "done" ELSE "failed"
<1> DEFINE o == [kind |-> kind, def |-> p.def]
           s == [seen[c] EXCEPT !.doc = doc]
<1>2. pc[c] = "idle" /\ UNCHANGED <<defs, pins>>
  BY DEF ReadPinned
<1>3. doc \in Nat /\ q \in Pcs
  <2>1. p.def \in Defs
    BY DEF DefinitionInv, DefTypes
  <2>2. defs[p.def].doc \in Nat
    BY <2>1 DEF DefinitionInv, DefTypes, DefOK
  <2> QED BY <2>2 DEF Pcs, Ended
<1>4. OpOK(o) /\ SeenOK(s)
  <2> HIDE DEF doc, kind
  <2> QED BY <1>3, Keep, OpRecord DEF SeenOK
<1>5. op' = [op EXCEPT ![c] = o] /\ seen' = [seen EXCEPT ![c] = s] /\ pc' = [pc EXCEPT ![c] = q]
  BY <1>1 DEF After, Goto
<1> HIDE DEF o, s
<1>6. Linked(q, o, s) /\ q \notin {"idle", "insert"}
  BY FailedLinked
<1> HIDE DEF q
<1> QED BY <1>1, <1>2, <1>3, <1>4, <1>5, <1>6, QuietStep

\* A statement that was not applied ends the call, or is passed over.
LEMMA NotApplied ==
    ASSUME DefinitionInv, NEW c \in Calls, NEW q \in {"done", "audit", "failed"},
           pc[c] \notin {"failed", "crashed"}, pc[c] = "activate" => q = "failed",
           pc' = [pc EXCEPT ![c] = q], UNCHANGED <<defs, pins, op, seen>>
    PROVE  DefinitionInv'
<1>1. op' = [op EXCEPT ![c] = op[c]] /\ seen' = [seen EXCEPT ![c] = seen[c]] /\ q \in Pcs
  BY Keep DEF Pcs, Ended
<1>2. OpOK(op[c]) /\ SeenOK(seen[c]) /\ Linked(q, op[c], seen[c])
  BY Keep, FailedLinked
<1>3. q \notin {"idle", "insert"} /\ UNCHANGED <<defs, pins>>
  OBVIOUS
<1>4. seen[c].off /\ pc[c] \in {"activate", "failed", "crashed"} => q = "failed"
  OBVIOUS
<1> QED BY <1>1, <1>2, <1>3, <1>4, QuietStep

LEMMA InsertDefinitionStep ==
    ASSUME DefinitionInv, NEW c \in Calls, InsertDefinition(c)
    PROVE  DefinitionInv'
<1>1. PICK r \in Replies, q \in {"done", "failed"} :
        /\ defs' = IF Applied(r) THEN [defs EXCEPT ![c] = NewDefinition(seen[c].next)] ELSE defs
        /\ pc' = [pc EXCEPT ![c] = q]
  BY DEF InsertDefinition, After, Goto
<1>2. pc[c] = "insert" /\ UNCHANGED <<pins, op, seen>>
  BY DEF InsertDefinition
<1>3. CASE Applied(r)
  <2> DEFINE n == NewDefinition(seen[c].next)
  <2>1. DefOK(n) /\ n.row = 1 /\ ~n.active /\ ~n.gone
    BY NewRow
  <2>2. c \in Defs /\ defs[c].row = 0 /\ ~defs[c].active
    <3>1. c \in Defs /\ defs[c].row = 0
      BY <1>2 DEF DefinitionInv, Unborn, Defs
    <3> QED BY <3>1 DEF DefinitionInv, DefTypes, DefOK
  <2>3. defs' = [defs EXCEPT ![c] = n] /\ seen' = [seen EXCEPT ![c] = seen[c]]
    BY <1>1, <1>2, <1>3, Keep
  <2>4. SeenOK(seen[c]) /\ q \in Ended
    BY Keep DEF Ended
  <2>5. n.row = defs[c].row + 1
    BY <2>1, <2>2
  <2>6. pc[c] \notin {"activate", "failed", "crashed"} /\ q # "activate"
    BY <1>2
  <2>7. q \in {"activate", "audit"} \cup Ended
    BY <2>4
  <2>8. pc' = [pc EXCEPT ![c] = q] /\ pins' = pins /\ op' = op
    BY <1>1, <1>2
  <2> HIDE DEF n
  <2> QED BY <2>1, <2>2, <2>3, <2>4, <2>5, <2>6, <2>7, <2>8, RowStep
<1>4. CASE ~Applied(r)
  BY <1>1, <1>2, <1>4, NotApplied
<1> QED BY <1>3, <1>4

LEMMA UpdateInactiveStep ==
    ASSUME DefinitionInv, NEW c \in Calls, UpdateInactive(c)
    PROVE  DefinitionInv'
<1> DEFINE d == op[c].def
<1>1. PICK r \in Replies, q \in {"done", "failed"} :
        /\ Reply(r, DraftPinned(c, d))
        /\ defs' = IF Applied(r) THEN [defs EXCEPT ![d] = Edited(@)] ELSE defs
        /\ pc' = [pc EXCEPT ![c] = q]
  BY DEF UpdateInactive, After, Goto
<1>2. pc[c] = "edit" /\ UNCHANGED <<pins, op, seen>>
  BY DEF UpdateInactive
<1>3. CASE Applied(r)
  <2> DEFINE n == Edited(defs[d])
  <2>1. Exists(d) /\ defs[d].row = seen[c].row
    BY <1>1, <1>3, ReplyApplied DEF DraftPinned
  <2>2. d \in Defs /\ ~defs[d].active
    BY <1>2, <2>1, Keep DEF Linked, Targeted
  <2>3. DefOK(defs[d])
    BY <2>2 DEF DefinitionInv, DefTypes
  <2>4. DefOK(n) /\ n.row = defs[d].row + 1 /\ ~n.active /\ ~n.gone
    BY <2>1, <2>2, <2>3, EditedRow DEF Exists
  <2>5. defs' = [defs EXCEPT ![d] = n] /\ seen' = [seen EXCEPT ![c] = seen[c]]
    BY <1>1, <1>2, <1>3, Keep
  <2>6. SeenOK(seen[c]) /\ q \in Ended /\ defs[d].row > 0
    BY <2>1, Keep DEF Ended, Exists
  <2>7. pc[c] \notin {"activate", "failed", "crashed"} /\ q # "activate"
    BY <1>2
  <2>8. q \in {"activate", "audit"} \cup Ended
    BY <2>6
  <2>9. pc' = [pc EXCEPT ![c] = q] /\ pins' = pins /\ op' = op
    BY <1>1, <1>2
  <2> HIDE DEF n, d
  <2> QED BY <2>2, <2>4, <2>5, <2>6, <2>7, <2>8, <2>9, RowStep
<1>4. CASE ~Applied(r)
  BY <1>1, <1>2, <1>4, NotApplied
<1> QED BY <1>3, <1>4

LEMMA DeleteInactiveStep ==
    ASSUME DefinitionInv, NEW c \in Calls, DeleteInactive(c)
    PROVE  DefinitionInv'
<1> DEFINE d == op[c].def
<1>1. PICK r \in Replies, q \in {"done", "failed"} :
        /\ Reply(r, Deletable(d) /\ Reaches("workflow_definitions", bound, workflow_definitions_delete))
        /\ defs' = IF Applied(r) THEN [defs EXCEPT ![d].gone = TRUE] ELSE defs
        /\ pc' = [pc EXCEPT ![c] = q]
  BY DEF DeleteInactive, After, Goto
<1>2. pc[c] = "delete" /\ UNCHANGED <<pins, op, seen>>
  BY DEF DeleteInactive
<1>3. CASE Applied(r)
  <2> DEFINE n == [defs[d] EXCEPT !.gone = TRUE]
  <2>1. Exists(d) /\ ~defs[d].active /\ \A p \in pins : p.def # d
    BY <1>1, <1>3, ReplyApplied DEF Deletable
  <2>2. d \in Defs
    BY <1>2, Keep DEF Linked, Targeted
  <2>3. DefOK(defs[d]) /\ defs[d].row > 0
    BY <2>1, <2>2 DEF DefinitionInv, DefTypes, Exists
  <2>4. DefOK(n) /\ n.row = defs[d].row /\ ~n.active
    BY <2>1, <2>3, DeletedRow
  <2>5. defs' = [defs EXCEPT ![d] = n] /\ seen' = [seen EXCEPT ![c] = seen[c]]
    BY <1>1, <1>2, <1>3, Keep
  <2>6. SeenOK(seen[c]) /\ q \in Ended
    BY Keep DEF Ended
  <2>7. pc[c] \notin {"activate", "failed", "crashed"} /\ q # "activate"
    BY <1>2
  <2>8. q \in {"activate", "audit"} \cup Ended
    BY <2>6
  <2>9. pc' = [pc EXCEPT ![c] = q] /\ pins' = pins /\ op' = op
    BY <1>1, <1>2
  <2> HIDE DEF n, d
  <2> QED BY <2>1, <2>2, <2>3, <2>4, <2>5, <2>6, <2>7, <2>8, <2>9, RowStep
<1>4. CASE ~Applied(r)
  BY <1>1, <1>2, <1>4, NotApplied
<1> QED BY <1>3, <1>4

LEMMA DeactivatePreviousStep ==
    ASSUME DefinitionInv, NEW c \in Calls, DeactivatePrevious(c)
    PROVE  DefinitionInv'
<1> DEFINE d == seen[c].prev
<1>1. PICK r \in Replies :
        /\ Reply(r, Exists(d) /\ defs[d].row = seen[c].prevRow)
        /\ defs' = IF Applied(r) THEN [defs EXCEPT ![d] = Switched(@, FALSE)] ELSE defs
        /\ seen' = [seen EXCEPT ![c].off = Applied(r)]
        /\ pc' = [pc EXCEPT ![c] = IF r = "error" THEN "failed" ELSE "activate"]
  BY DEF DeactivatePrevious, Goto
<1> DEFINE s == [seen[c] EXCEPT !.off = Applied(r)]
<1>2. pc[c] = "deactivate" /\ UNCHANGED <<pins, op>>
  BY DEF DeactivatePrevious
<1>3. d \in Defs /\ op[c].def \in Defs
  BY <1>2, Keep DEF Linked, Targeted
<1>4. SeenOK(s) /\ s.off = Applied(r) /\ seen' = [seen EXCEPT ![c] = s]
  <2>1. Applied(r) \in BOOLEAN
    BY DEF Applied
  <2> HIDE DEF d
  <2>2. SeenOK(seen[c])
    BY Keep
  <2>3. SeenOK(s) /\ s.off = Applied(r)
    BY <2>1, <2>2 DEF SeenOK
  <2> QED BY <1>1, <2>3
<1>5. CASE Applied(r)
  <2> DEFINE n == Switched(defs[d], FALSE)
  <2>1. Exists(d) /\ DefOK(defs[d])
    BY <1>1, <1>3, <1>5, ReplyApplied DEF DefinitionInv, DefTypes
  <2>2. DefOK(n) /\ n.row = defs[d].row + 1 /\ ~n.active /\ ~n.gone
    BY <2>1, SwitchedRow DEF Exists
  <2>3. defs' = [defs EXCEPT ![d] = n] /\ defs[d].row > 0
    BY <1>1, <1>5, <2>1 DEF Exists
  <2>4. pc' = [pc EXCEPT ![c] = "activate"] /\ s.off
    BY <1>1, <1>4, <1>5 DEF Applied
  <2> HIDE DEF n, d, s
  <2> QED BY <1>2, <1>3, <1>4, <2>2, <2>3, <2>4, RowStep
<1>6. CASE ~Applied(r)
  <2>1. PICK q \in {"failed", "activate"} : pc' = [pc EXCEPT ![c] = q] /\ q \in Pcs
    BY <1>1 DEF Pcs, Targeted, Ended
  <2>2. op' = [op EXCEPT ![c] = op[c]] /\ UNCHANGED <<defs, pins>>
    BY <1>1, <1>2, <1>6, Keep
  <2>3. Linked(q, op[c], s)
    BY <1>3, <2>1 DEF Linked
  <2> HIDE DEF s
  <2> QED BY <1>2, <1>4, <2>1, <2>2, <2>3, Keep, QuietStep
<1> QED BY <1>5, <1>6

LEMMA ActivateDefinitionStep ==
    ASSUME DefinitionInv, NEW c \in Calls, ActivateDefinition(c)
    PROVE  DefinitionInv'
<1> DEFINE d == op[c].def
<1>1. PICK r \in Replies, q \in {"audit", "failed"} :
        /\ Reply(r, Exists(d) /\ defs[d].row = seen[c].row /\ ActiveKeyFree(d))
        /\ defs' = IF Applied(r) THEN [defs EXCEPT ![d] = Switched(@, TRUE)] ELSE defs
        /\ pc' = [pc EXCEPT ![c] = q]
        /\ r # "ok" => q = "failed"
  BY DEF ActivateDefinition, After, Goto
<1>2. pc[c] = "activate" /\ UNCHANGED <<pins, op, seen>>
  BY DEF ActivateDefinition
<1>3. CASE Applied(r)
  <2> DEFINE n == Switched(defs[d], TRUE)
  <2>1. Exists(d) /\ ActiveKeyFree(d)
    BY <1>1, <1>3, ReplyApplied
  <2>2. d \in Defs
    BY <1>2, Keep DEF Linked, Targeted
  <2>3. DefOK(defs[d]) /\ defs[d].row > 0
    BY <2>1, <2>2 DEF DefinitionInv, DefTypes, Exists
  <2>4. DefOK(n) /\ n.row = defs[d].row + 1 /\ n.active /\ ~n.gone
    BY <2>1, <2>3, SwitchedRow DEF Exists
  <2>5. defs' = [defs EXCEPT ![d] = n] /\ seen' = [seen EXCEPT ![c] = seen[c]]
    BY <1>1, <1>2, <1>3, Keep
  <2>6. SeenOK(seen[c]) /\ q \in {"activate", "audit"} \cup Ended /\ q # "activate"
    BY Keep DEF Ended
  <2>9. pc' = [pc EXCEPT ![c] = q] /\ pins' = pins /\ op' = op
    BY <1>1, <1>2
  <2> HIDE DEF n, d
  <2> QED BY <2>1, <2>2, <2>3, <2>4, <2>5, <2>6, <2>9, RowStep
<1>4. CASE ~Applied(r)
  <2>1. q = "failed"
    BY <1>1, <1>4 DEF Applied
  <2> QED BY <1>1, <1>2, <1>4, <2>1, NotApplied
<1> QED BY <1>3, <1>4

LEMMA InsertRequestStep ==
    ASSUME DefinitionInv, NEW c \in Calls, InsertRequest(c)
    PROVE  DefinitionInv'
<1> DEFINE d == op[c].def
<1>1. PICK r \in Replies, q \in {"done", "failed"} :
        /\ Reply(r, ReferenceThere(d))
        /\ pins' = IF Applied(r) THEN pins \cup {[by |-> c, def |-> d, doc |-> seen[c].doc]}
                                 ELSE pins
        /\ pc' = [pc EXCEPT ![c] = q]
  BY DEF InsertRequest, After, Goto
<1>2. pc[c] = "pin" /\ UNCHANGED <<defs, op, seen>>
  BY DEF InsertRequest
<1>3. CASE Applied(r)
  <2>2. d \in Defs /\ seen[c].doc \in Nat
    BY <1>2, Keep DEF Linked, Targeted, SeenOK
  <2>3. q \in Pcs
    BY DEF Pcs, Ended
  <2>4. DefTypes'
    BY <1>1, <1>2, <1>3, <2>2, <2>3 DEF DefinitionInv, DefTypes
  <2>5. \A x \in Calls : pc'[x] = IF x = c THEN q ELSE pc[x]
    BY <1>1 DEF DefinitionInv, DefTypes
  <2>6. Unborn'
    BY <1>2, <2>5 DEF DefinitionInv, Unborn
  <2>7. \A x \in Calls : Linked(pc[x], op[x], seen[x])'
    BY <1>2, <2>5 DEF DefinitionInv, Linked, Targeted
  <2>8. GapHasAnAuthor'
    BY <1>2, <2>5 DEF DefinitionInv, GapHasAnAuthor, NoneActive, Live, Exists
  <2> QED BY <2>4, <2>6, <2>7, <2>8 DEF DefinitionInv
<1>4. CASE ~Applied(r)
  BY <1>1, <1>2, <1>4, NotApplied
<1> QED BY <1>3, <1>4

-----------------------------------------------------------------------------
(* The theorems about WorkflowDefinitions                                  *)

LEMMA DefinitionInit == ASSUME Init PROVE DefinitionInv
<1>0. /\ defs[First] = Switched(NewDefinition(1), TRUE) /\ defs[Second] = NewDefinition(2)
      /\ \A c \in Calls : defs[c] = NoDef
  BY DefinitionAssumption DEF Init, Defs
<1>1. DefOK(NoDef) /\ NoDef.row = 0 /\ ~NoDef.active
  BY DEF DefOK, NoDef
<1>2. /\ DefOK(defs[First]) /\ defs[First].active /\ defs[First].row = 2 /\ ~defs[First].gone
  <2> DEFINE n == NewDefinition(1)
  <2>1. DefOK(n) /\ n.row = 1 /\ ~n.gone
    BY NewRow
  <2> HIDE DEF n
  <2>2. /\ DefOK(Switched(n, TRUE)) /\ Switched(n, TRUE).active /\ ~Switched(n, TRUE).gone
        /\ Switched(n, TRUE).row = n.row + 1
    BY <2>1, SwitchedRow
  <2>3. defs[First] = Switched(n, TRUE)
    BY <1>0 DEF n
  <2>4. n.row + 1 = 2
    BY <2>1
  <2>5. Switched(n, TRUE).row = 2
    BY <2>2, <2>4, Zenon
  <2> QED BY <2>2, <2>3, <2>5, Zenon
<1>3. DefOK(defs[Second]) /\ ~defs[Second].active
  BY <1>0, NewRow
<1>4. \A d \in Defs : DefOK(defs[d]) /\ (d # First => ~defs[d].active)
  BY <1>0, <1>1, <1>2, <1>3 DEF Defs
<1>5. SeenOK(NoSeen)
  BY DEF SeenOK, NoSeen
<1>6. DefTypes
  <2>1. "idle" \in Pcs /\ pins \subseteq [by: Calls, def: Defs, doc: Nat]
    BY DEF Pcs, Init
  <2>2. defs = [d \in Defs |-> defs[d]]
    BY DEF Init
  <2>3. pc \in [Calls -> Pcs] /\ op = [c \in Calls |-> op[c]] /\ \A c \in Calls : OpOK(op[c])
    BY <2>1, OpRecord DEF Init
  <2>4. seen = [c \in Calls |-> seen[c]] /\ \A c \in Calls : SeenOK(seen[c])
    BY <1>5 DEF Init
  <2> QED BY <1>4, <2>1, <2>2, <2>3, <2>4 DEF DefTypes
<1>7. Unborn
  BY <1>0, <1>1 DEF Unborn
<1>8. \A c \in Calls : Linked(pc[c], op[c], seen[c])
  BY DEF Init, Linked, Targeted
<1>9. GapHasAnAuthor
  <2>1. First \in Live
    BY <1>2 DEF Live, Exists, Defs
  <2> QED BY <1>2, <2>1 DEF GapHasAnAuthor, NoneActive
<1> QED BY <1>6, <1>7, <1>8, <1>9 DEF DefinitionInv

LEMMA DefinitionNext == ASSUME DefinitionInv, [Next]_vars PROVE DefinitionInv'
<1>1. CASE UNCHANGED vars
  BY <1>1 DEF vars, DefinitionInv, DefTypes, Unborn, Linked,
              GapHasAnAuthor, NoneActive, Live, Exists
<1>2. CASE \E c \in Calls : Step(c)
  BY <1>2, ListVersionsStep, InsertDefinitionStep, ReadDraftStep, UpdateInactiveStep,
     DeleteInactiveStep, ReadCandidateStep, ValidateActivationStep, FindActiveStep,
     DeactivatePreviousStep, ActivateDefinitionStep, RecordActivationStep,
     ResolveDefinitionStep, InsertRequestStep, ReadPinnedStep, CrashStep DEF Step
<1> QED BY <1>1, <1>2 DEF Next

LEMMA DefinitionInvariant == Spec => []DefinitionInv
BY DefinitionInit, DefinitionNext, PTL DEF Spec

\* A request type is left without an active version by one call only, which has
\* switched the old one off and is about to switch its own on or ended there: no
\* overlap of activations, edits and deletions does it together
\* (activate_definition, whose only compensation is a log message).
THEOREM GapsHaveAuthors == Spec => []GapHasAnAuthor
<1>1. DefinitionInv => GapHasAnAuthor
  BY DEF DefinitionInv
<1> QED BY <1>1, DefinitionInvariant, PTL

\* Only an edit and a delete change a document or remove a row.
LEMMA UntouchedStep ==
    ASSUME DefinitionInv, [Next]_vars, NEW d \in Defs, defs[d].active
    PROVE  defs'[d].doc = defs[d].doc /\ ~defs'[d].gone
<1>0. DefOK(defs[d]) /\ ~defs[d].gone /\ defs = [e \in Defs |-> defs[e]]
  BY DEF DefinitionInv, DefTypes, DefOK
<1>1. CASE UNCHANGED defs
  BY <1>0, <1>1
<1>2. ASSUME NEW c \in Calls, InsertDefinition(c), ~UNCHANGED defs
      PROVE  defs'[d] = defs[d]
  <2>1. defs' = [defs EXCEPT ![c] = NewDefinition(seen[c].next)] /\ pc[c] = "insert"
    BY <1>2 DEF InsertDefinition
  <2>2. c # d
    <3>1. defs[c].row = 0 /\ c \in Defs
      BY <2>1 DEF DefinitionInv, Unborn, Defs
    <3> QED BY <3>1 DEF DefinitionInv, DefTypes, DefOK
  <2> QED BY <1>0, <2>1, <2>2
<1>3. ASSUME NEW c \in Calls, UpdateInactive(c), ~UNCHANGED defs
      PROVE  defs'[d] = defs[d]
  <2> DEFINE e == op[c].def
  <2>1. PICK r : /\ Reply(r, DraftPinned(c, e)) /\ Applied(r)
                 /\ defs' = [defs EXCEPT ![e] = Edited(@)]
    BY <1>3 DEF UpdateInactive
  <2>2. defs[e].row = seen[c].row /\ pc[c] = "edit"
    BY <1>3, <2>1, ReplyApplied DEF DraftPinned, UpdateInactive
  <2>3. e # d
    BY <2>2, Keep DEF Linked
  <2> QED BY <1>0, <2>1, <2>3
<1>4. ASSUME NEW c \in Calls, DeleteInactive(c), ~UNCHANGED defs
      PROVE  defs'[d] = defs[d]
  <2> DEFINE e == op[c].def
  <2>1. PICK r : /\ Reply(r, Deletable(e) /\ Reaches("workflow_definitions", bound, workflow_definitions_delete))
                 /\ Applied(r)
                 /\ defs' = [defs EXCEPT ![e].gone = TRUE]
    BY <1>4 DEF DeleteInactive
  <2>2. e # d
    BY <2>1, ReplyApplied DEF Deletable
  <2> QED BY <1>0, <2>1, <2>2
<1>5. ASSUME NEW e, NEW on \in BOOLEAN, defs' = [defs EXCEPT ![e] = Switched(@, on)]
      PROVE  defs'[d].doc = defs[d].doc /\ ~defs'[d].gone
  <2>1. CASE e = d
    BY <1>0, <1>5, <2>1, SwitchedRow
  <2>2. CASE e # d
    BY <1>0, <1>5, <2>2
  <2> QED BY <2>1, <2>2
<1>6. ASSUME NEW c \in Calls, DeactivatePrevious(c) \/ ActivateDefinition(c), ~UNCHANGED defs
      PROVE  \E e : \E on \in BOOLEAN : defs' = [defs EXCEPT ![e] = Switched(@, on)]
  BY <1>6 DEF DeactivatePrevious, ActivateDefinition
<1>7. CASE ~UNCHANGED defs
  <2>1. PICK c \in Calls : Step(c)
    BY <1>7 DEF Next, vars
  <2>2. \/ InsertDefinition(c) \/ UpdateInactive(c) \/ DeleteInactive(c)
        \/ DeactivatePrevious(c) \/ ActivateDefinition(c)
    BY <1>7, <2>1 DEF Step, ListVersions, ReadDraft, ReadCandidate, ValidateActivation, FindActive,
                      RecordActivation, ResolveDefinition, InsertRequest, ReadPinned, Crash
  <2> QED BY <1>0, <1>2, <1>3, <1>4, <1>5, <1>6, <1>7, <2>2
<1> QED BY <1>1, <1>7

\* The document of an active version is never edited and the version never
\* deleted, however long ago the caller found it inactive (update_draft's pin to
\* the row version, delete_draft's filter on is_active).
THEOREM ActiveVersionIsFixed == Spec => ActiveUntouched
<1>1. DefinitionInv /\ [Next]_vars =>
        [\A d \in Defs : defs[d].active => defs'[d].doc = defs[d].doc /\ ~defs'[d].gone]_vars
  BY UntouchedStep
<1> QED BY <1>1, DefinitionInvariant, PTL DEF Spec, ActiveUntouched

-----------------------------------------------------------------------------
(* SchedulerLeadership: the inductive invariant                            *)

Owners == Instances \cup {Nobody, Dead}
Key == [owner: Owners, ttl: Nat]
LoopPcs == {"wait", "acquire", "won", "extend", "lost"}
RunPcs == {"idle", "mutex", "lock", "job", "release", "unlock"}
Budget == [errors: Nat, lost: Nat, crashes: Nat, stops: Nat]

SchedulerTypes ==
    /\ leaderKey \in Key /\ jobKey \in Key
    /\ flag \in [Instances -> BOOLEAN] /\ since \in [Instances -> Nat]
    /\ loop \in [Instances -> LoopPcs] /\ life \in [Instances -> {"up", "stopped"}]
    /\ joined \in [Instances -> BOOLEAN]
    /\ mutex \in [Instances -> Threads \cup {Nobody}]
    /\ run \in [Instances -> [Threads -> RunPcs]]
    /\ age \in [Instances -> Nat]
    /\ budget \in Budget

\* Whoever acts as leader, or is about to, and has renewed in time, owns the
\* key, and the key outlives what is left of that time.
LeaseHeld ==
    \A i \in Instances : joined[i] /\ (flag[i] \/ loop[i] = "won") /\ since[i] < LeaderTtl =>
        leaderKey.owner = i /\ leaderKey.ttl + since[i] >= LeaderTtl

\* Where the election thread may be, given the flag.
FlagAndLoop ==
    \A i \in Instances :
        /\ loop[i] \in {"acquire", "won"} => ~flag[i]
        /\ life[i] = "up" /\ loop[i] \in {"extend", "lost"} => flag[i]
        /\ life[i] = "stopped" /\ joined[i] => loop[i] = "wait" /\ ~flag[i]

\* A key whose owner does not know of it, or is about to forget it, has cost a
\* fault; one that outlived stop() a second one.
KeyAccounted ==
    \A i \in Instances : leaderKey.owner = i =>
        /\ life[i] = "up" /\ loop[i] # "won" /\ ~(flag[i] /\ loop[i] # "lost") =>
               FaultsLeft(budget) < MaxFaults
        /\ life[i] = "stopped" /\ joined[i] => FaultsLeft(budget) + 1 < MaxFaults

ElectionInv == LeaseHeld /\ FlagAndLoop /\ KeyAccounted /\ FaultsLeft(budget) <= MaxFaults

\* One thread of an instance at a time is past the threading.Lock.
MutexHeld ==
    \A i \in Instances, t \in Threads :
        run[i][t] \in {"lock", "job", "release", "unlock"} => mutex[i] = t

\* The same for the lock of the job.
JobLockHeld ==
    \A i \in Instances, t \in Threads : Running(i, t) /\ age[i] < JobTtl =>
        jobKey.owner = i /\ jobKey.ttl + age[i] >= JobTtl

RunnerInv == MutexHeld /\ JobLockHeld

SchedulerInv == SchedulerTypes /\ ElectionInv /\ RunnerInv

-----------------------------------------------------------------------------
(* What Redis and the budget do                                            *)

LEMMA KeyFields == \A key \in Key : key.owner \in Owners /\ key.ttl \in Nat
BY DEF Key

LEMMA FreeKey == Free \in Key /\ Free.owner = Nobody
BY DEF Free, Key, Owners

LEMMA AcquiredKey ==
    ASSUME NEW key \in Key, NEW i \in Instances, NEW n \in Nat, key.owner = Nobody
    PROVE  /\ Acquired(key, i, n) \in Key
           /\ Acquired(key, i, n).owner = i /\ Acquired(key, i, n).ttl = n
BY DEF Acquired, Key, Owners

LEMMA ReleasedKey ==
    ASSUME NEW key \in Key, NEW i \in Instances
    PROVE  /\ Released(key, i) \in Key
           /\ key.owner # i => Released(key, i) = key
           /\ Released(key, i).owner # i /\ Released(key, i).owner \in {key.owner, Nobody}
<1>1. Nobody # i
  BY SchedulerAssumption
<1> QED BY <1>1, FreeKey DEF Released

LEMMA ExtendedKey ==
    ASSUME NEW key \in Key, NEW i \in Instances, NEW n \in Nat, key.owner = i
    PROVE  /\ Extended(key, i, n) \in Key
           /\ Extended(key, i, n).owner = i /\ Extended(key, i, n).ttl = n
BY DEF Extended, Key

LEMMA AgedKey ==
    ASSUME NEW key \in Key
    PROVE  /\ Aged(key) \in Key
           /\ Aged(key).owner \in {key.owner, Nobody}
           /\ key.ttl > 1 => Aged(key).owner = key.owner /\ Aged(key).ttl = key.ttl - 1
<1>1. CASE key.ttl <= 1
  BY <1>1, FreeKey, KeyFields DEF Aged
<1>2. CASE ~(key.ttl <= 1)
  <2>1. key.ttl \in Nat /\ key.ttl - 1 \in Nat
    BY <1>2, KeyFields
  <2>2. [key EXCEPT !.ttl = key.ttl - 1] \in Key
    BY <2>1 DEF Key
  <2>3. /\ [key EXCEPT !.ttl = key.ttl - 1].owner = key.owner
        /\ [key EXCEPT !.ttl = key.ttl - 1].ttl = key.ttl - 1
    BY DEF Key
  <2> QED BY <1>2, <2>1, <2>2, <2>3 DEF Aged
<1> QED BY <1>1, <1>2

LEMMA OrphanedKey ==
    ASSUME NEW key \in Key, NEW i \in Instances
    PROVE  /\ Orphaned(key, i) \in Key
           /\ key.owner # i => Orphaned(key, i) = key
           /\ key.owner = i => Orphaned(key, i).owner = Dead
BY DEF Orphaned, Key, Owners

\* A reply costs at most a fault; an error or a lost answer costs one.
LEMMA ReplyCosts ==
    ASSUME NEW r, NEW m, budget \in Budget, Reply(r, m)
    PROVE  /\ budget' \in Budget
           /\ FaultsLeft(budget) \in Nat /\ FaultsLeft(budget') \in Nat
           /\ FaultsLeft(budget') <= FaultsLeft(budget)
           /\ r \in {"error", "lost"} => FaultsLeft(budget') < FaultsLeft(budget)
<1>1. CASE UNCHANGED budget /\ r \in {"ok", "refused"}
  BY <1>1 DEF Budget, FaultsLeft
<1>2. CASE budget.errors > 0 /\ budget' = [budget EXCEPT !.errors = @ - 1]
  BY <1>2 DEF Budget, FaultsLeft
<1>3. CASE budget.lost > 0 /\ budget' = [budget EXCEPT !.lost = @ - 1]
  BY <1>3 DEF Budget, FaultsLeft
<1> QED BY <1>1, <1>2, <1>3 DEF Reply

LEMMA DeathCosts ==
    ASSUME budget \in Budget, Dies
    PROVE  /\ budget' \in Budget
           /\ FaultsLeft(budget) \in Nat /\ FaultsLeft(budget') \in Nat
           /\ FaultsLeft(budget') <= FaultsLeft(budget)
BY DEF Budget, FaultsLeft, Dies

LEMMA StopCosts ==
    ASSUME NEW e \in {0, 1}, budget \in Budget, budget.stops > 0, e = 1 => budget.errors > 0,
           budget' = [budget EXCEPT !.stops = @ - 1, !.errors = @ - e]
    PROVE  /\ budget' \in Budget
           /\ FaultsLeft(budget) \in Nat /\ FaultsLeft(budget') \in Nat
           /\ FaultsLeft(budget') = FaultsLeft(budget) - 1 - e
<1>1. budget.stops - 1 \in Nat /\ budget.errors - e \in Nat
  BY DEF Budget
<1>2. /\ budget'.stops = budget.stops - 1 /\ budget'.errors = budget.errors - e
      /\ budget'.lost = budget.lost /\ budget'.crashes = budget.crashes
  BY DEF Budget
<1>3. \A a, b \in Nat : [budget EXCEPT !.stops = a, !.errors = b] \in Budget
  BY DEF Budget
<1>4. budget' \in Budget
  BY <1>1, <1>3
<1> QED BY <1>1, <1>2, <1>4 DEF Budget, FaultsLeft

LEMMA MatchedReply ==
    ASSUME NEW r, NEW m, Reply(r, m)
    PROVE  /\ (Applied(r) => m) /\ (r = "refused" => ~m) /\ (r = "ok" => Applied(r))
           /\ (Applied(r) <=> r \in {"ok", "lost"}) /\ r \in Replies
BY DEF Reply, Applied, Replies

-----------------------------------------------------------------------------
(* Steps of the runner leave the election alone, and the other way round   *)

LEMMA ElectionAside ==
    ASSUME SchedulerInv, electionVars' = electionVars, life' = life,
           FaultsLeft(budget') <= FaultsLeft(budget), FaultsLeft(budget') \in Nat,
           FaultsLeft(budget) \in Nat
    PROVE  ElectionInv'
<1>1. /\ leaderKey' = leaderKey /\ flag' = flag /\ since' = since /\ loop' = loop
      /\ joined' = joined
  BY DEF electionVars
<1>2. LeaseHeld' /\ FlagAndLoop'
  BY <1>1 DEF SchedulerInv, ElectionInv, LeaseHeld, FlagAndLoop
<1>3. FaultsLeft(budget') <= MaxFaults
  BY SchedulerAssumption DEF SchedulerInv, ElectionInv
<1>4. KeyAccounted'
  BY <1>1, SchedulerAssumption DEF SchedulerInv, ElectionInv, KeyAccounted
<1> QED BY <1>2, <1>3, <1>4 DEF ElectionInv, SchedulerInv

LEMMA RunnerAside ==
    ASSUME SchedulerInv, runnerVars' = runnerVars
    PROVE  RunnerInv'
BY DEF SchedulerInv, RunnerInv, MutexHeld, JobLockHeld, Running, runnerVars

LEMMA NatFaults == ASSUME SchedulerTypes PROVE FaultsLeft(budget) \in Nat
BY DEF SchedulerTypes, Budget, FaultsLeft

-----------------------------------------------------------------------------
(* The election, one lemma per action                                      *)

LEMMA StartTickStep ==
    ASSUME SchedulerInv, NEW k \in Instances, StartTick(k)
    PROVE  SchedulerInv'
<1>1. /\ life[k] = "up" /\ loop[k] = "wait"
      /\ loop' = [loop EXCEPT ![k] = IF flag[k] THEN "extend" ELSE "acquire"]
      /\ leaderKey' = leaderKey /\ flag' = flag /\ since' = since /\ joined' = joined
      /\ life' = life /\ runnerVars' = runnerVars /\ budget' = budget
  BY DEF StartTick
<1>2. SchedulerTypes'
  BY <1>1 DEF SchedulerInv, SchedulerTypes, LoopPcs, runnerVars
<1>3. \A i \in Instances :
        /\ loop'[i] = IF i = k THEN IF flag[k] THEN "extend" ELSE "acquire" ELSE loop[i]
        /\ flag[i] \in BOOLEAN
  BY <1>1 DEF SchedulerInv, SchedulerTypes
<1>4. LeaseHeld'
  BY <1>1, <1>3 DEF SchedulerInv, ElectionInv, LeaseHeld
<1>5. FlagAndLoop'
  BY <1>1, <1>3 DEF SchedulerInv, ElectionInv, FlagAndLoop
<1>6. KeyAccounted'
  BY <1>1, <1>3 DEF SchedulerInv, ElectionInv, KeyAccounted
<1>7. FaultsLeft(budget') <= MaxFaults
  BY <1>1 DEF SchedulerInv, ElectionInv
<1> QED BY <1>1, <1>2, <1>4, <1>5, <1>6, <1>7, RunnerAside DEF SchedulerInv, ElectionInv

LEMMA TickAcquireStep ==
    ASSUME SchedulerInv, NEW k \in Instances, TickAcquire(k)
    PROVE  SchedulerInv'
<1>0. /\ loop[k] = "acquire" /\ since' = [since EXCEPT ![k] = 0]
      /\ flag' = flag /\ joined' = joined /\ life' = life /\ runnerVars' = runnerVars
  BY DEF TickAcquire
<1>1. PICK r \in Replies :
        /\ Reply(r, leaderKey.owner = Nobody)
        /\ leaderKey' = IF Applied(r) THEN Acquired(leaderKey, k, LeaderTtl) ELSE leaderKey
        /\ loop' = [loop EXCEPT ![k] = IF r = "ok" THEN "won" ELSE "wait"]
  BY DEF TickAcquire
<1>2. /\ budget' \in Budget /\ FaultsLeft(budget) \in Nat /\ FaultsLeft(budget') \in Nat
      /\ FaultsLeft(budget') <= FaultsLeft(budget)
      /\ r \in {"error", "lost"} => FaultsLeft(budget') < FaultsLeft(budget)
  BY <1>1, ReplyCosts DEF SchedulerInv, SchedulerTypes
<1>3. /\ Applied(r) => leaderKey.owner = Nobody
      /\ r = "ok" => Applied(r)
      /\ r \in {"refused", "error"} <=> ~Applied(r)
  BY <1>1, MatchedReply DEF Replies
<1>4. /\ leaderKey \in Key /\ LeaderTtl \in Nat /\ LeaderTtl > 0
      /\ flag \in [Instances -> BOOLEAN] /\ since \in [Instances -> Nat]
      /\ FaultsLeft(budget) <= MaxFaults /\ Nobody \notin Instances
  BY SchedulerAssumption DEF SchedulerInv, SchedulerTypes, ElectionInv
<1>5. /\ leaderKey' \in Key
      /\ Applied(r) => leaderKey'.owner = k /\ leaderKey'.ttl = LeaderTtl
      /\ ~Applied(r) => leaderKey' = leaderKey
  BY <1>1, <1>3, <1>4, AcquiredKey
<1>6. \A i \in Instances :
        /\ loop'[i] = IF i = k THEN IF r = "ok" THEN "won" ELSE "wait" ELSE loop[i]
        /\ since'[i] = IF i = k THEN 0 ELSE since[i]
  BY <1>0, <1>1, <1>4 DEF SchedulerInv, SchedulerTypes
<1>7. SchedulerTypes'
  BY <1>0, <1>1, <1>2, <1>5 DEF SchedulerInv, SchedulerTypes, LoopPcs, runnerVars
<1>8. ~flag[k]
  BY <1>0 DEF SchedulerInv, ElectionInv, FlagAndLoop
<1>9. LeaseHeld'
  <2>1. SUFFICES ASSUME NEW i \in Instances, joined[i], flag[i] \/ loop'[i] = "won",
                        since'[i] < LeaderTtl
                 PROVE  leaderKey'.owner = i /\ leaderKey'.ttl + since'[i] >= LeaderTtl
    BY <1>0 DEF LeaseHeld
  <2>2. CASE i = k
    BY <1>3, <1>4, <1>5, <1>6, <1>8, <2>1, <2>2
  <2>3. CASE i # k
    <3>1. leaderKey.owner = i /\ leaderKey.ttl + since[i] >= LeaderTtl
      BY <1>6, <2>1, <2>3 DEF SchedulerInv, ElectionInv, LeaseHeld
    <3> QED BY <1>3, <1>4, <1>5, <1>6, <2>3, <3>1
  <2> QED BY <2>2, <2>3
<1>10. FlagAndLoop'
  BY <1>0, <1>6, <1>8 DEF SchedulerInv, ElectionInv, FlagAndLoop
<1>11. KeyAccounted'
  <2>1. SUFFICES ASSUME NEW i \in Instances, leaderKey'.owner = i
                 PROVE  /\ life[i] = "up" /\ loop'[i] # "won" /\ ~(flag[i] /\ loop'[i] # "lost") =>
                               FaultsLeft(budget') < MaxFaults
                        /\ life[i] = "stopped" /\ joined[i] => FaultsLeft(budget') + 1 < MaxFaults
    BY <1>0 DEF KeyAccounted
  <2>2. life[k] = "stopped" => ~joined[k]
    BY <1>0 DEF SchedulerInv, ElectionInv, FlagAndLoop
  <2>3. CASE Applied(r)
    BY <1>2, <1>3, <1>4, <1>5, <1>6, <2>1, <2>2, <2>3, SchedulerAssumption, MatchedReply, <1>1
  <2>4. CASE ~Applied(r)
    <3>1. leaderKey.owner = i
      BY <1>5, <2>1, <2>4
    <3>2. /\ life[i] = "up" /\ loop[i] # "won" /\ ~(flag[i] /\ loop[i] # "lost") =>
                 FaultsLeft(budget) < MaxFaults
          /\ life[i] = "stopped" /\ joined[i] => FaultsLeft(budget) + 1 < MaxFaults
      BY <3>1 DEF SchedulerInv, ElectionInv, KeyAccounted
    <3>3. CASE i = k
      BY <1>0, <1>2, <1>8, <2>2, <3>2, <3>3, SchedulerAssumption
    <3>4. CASE i # k
      BY <1>2, <1>6, <3>2, <3>4, SchedulerAssumption
    <3> QED BY <3>3, <3>4
  <2> QED BY <2>3, <2>4
<1>12. FaultsLeft(budget') <= MaxFaults
  BY <1>2, <1>4, SchedulerAssumption
<1> QED BY <1>0, <1>7, <1>9, <1>10, <1>11, <1>12, RunnerAside DEF SchedulerInv, ElectionInv

LEMMA TickExtendStep ==
    ASSUME SchedulerInv, NEW k \in Instances, TickExtend(k)
    PROVE  SchedulerInv'
<1>0. /\ loop[k] = "extend"
      /\ flag' = flag /\ joined' = joined /\ life' = life /\ runnerVars' = runnerVars
  BY DEF TickExtend
<1>1. PICK r \in Replies :
        /\ Reply(r, leaderKey.owner = k /\ life[k] = "up")
        /\ leaderKey' = IF Applied(r) THEN Extended(leaderKey, k, LeaderTtl) ELSE leaderKey
        /\ loop' = [loop EXCEPT ![k] = IF r = "ok" THEN "wait" ELSE "lost"]
        /\ since' = IF r = "ok" THEN [since EXCEPT ![k] = 0] ELSE since
  BY DEF TickExtend
<1>2. /\ budget' \in Budget /\ FaultsLeft(budget) \in Nat /\ FaultsLeft(budget') \in Nat
      /\ FaultsLeft(budget') <= FaultsLeft(budget)
      /\ r \in {"error", "lost"} => FaultsLeft(budget') < FaultsLeft(budget)
  BY <1>1, ReplyCosts DEF SchedulerInv, SchedulerTypes
<1>3. /\ Applied(r) => leaderKey.owner = k /\ life[k] = "up"
      /\ r = "refused" => ~(leaderKey.owner = k /\ life[k] = "up")
      /\ r = "ok" => Applied(r)
      /\ r \in {"refused", "error"} <=> ~Applied(r)
      /\ r \in {"ok", "refused"} \/ r \in {"error", "lost"}
  BY <1>1, MatchedReply DEF Replies
<1>4. /\ leaderKey \in Key /\ LeaderTtl \in Nat /\ LeaderTtl > 0
      /\ flag \in [Instances -> BOOLEAN] /\ since \in [Instances -> Nat]
      /\ FaultsLeft(budget) <= MaxFaults /\ MaxFaults \in Nat /\ life[k] \in {"up", "stopped"}
      /\ leaderKey.ttl \in Nat
  BY SchedulerAssumption, KeyFields DEF SchedulerInv, SchedulerTypes, ElectionInv
<1>5. /\ leaderKey' \in Key /\ leaderKey'.owner = leaderKey.owner
      /\ Applied(r) => leaderKey'.ttl = LeaderTtl
      /\ ~Applied(r) => leaderKey' = leaderKey
  BY <1>1, <1>3, <1>4, ExtendedKey
<1>6. \A i \in Instances :
        /\ loop'[i] = IF i = k THEN IF r = "ok" THEN "wait" ELSE "lost" ELSE loop[i]
        /\ since'[i] = IF i = k /\ r = "ok" THEN 0 ELSE since[i]
  BY <1>0, <1>1, <1>4 DEF SchedulerInv, SchedulerTypes
<1>7. SchedulerTypes'
  <2>1. since' \in [Instances -> Nat]
    BY <1>1, <1>4
  <2> QED BY <1>0, <1>1, <1>2, <1>5, <2>1 DEF SchedulerInv, SchedulerTypes, LoopPcs, runnerVars
<1>8. /\ life[k] = "up" => flag[k]
      /\ life[k] = "stopped" => ~joined[k]
  BY <1>0 DEF SchedulerInv, ElectionInv, FlagAndLoop
<1>9. LeaseHeld'
  <2>1. SUFFICES ASSUME NEW i \in Instances, joined[i], flag[i] \/ loop'[i] = "won",
                        since'[i] < LeaderTtl
                 PROVE  leaderKey'.owner = i /\ leaderKey'.ttl + since'[i] >= LeaderTtl
    BY <1>0 DEF LeaseHeld
  <2>2. CASE i = k
    <3>1. CASE r = "ok"
      BY <1>3, <1>4, <1>5, <1>6, <2>2, <3>1
    <3>2. CASE r # "ok"
      <4>1. since'[i] = since[i] /\ flag[i]
        BY <1>6, <2>1, <2>2, <3>2
      <4>2. leaderKey.owner = i /\ leaderKey.ttl + since[i] >= LeaderTtl
        BY <2>1, <4>1 DEF SchedulerInv, ElectionInv, LeaseHeld
      <4> QED BY <1>4, <1>5, <4>1, <4>2
    <3> QED BY <3>1, <3>2
  <2>3. CASE i # k
    <3>1. leaderKey.owner = i /\ leaderKey.ttl + since[i] >= LeaderTtl
      BY <1>6, <2>1, <2>3 DEF SchedulerInv, ElectionInv, LeaseHeld
    <3> QED BY <1>3, <1>4, <1>5, <1>6, <2>3, <3>1
  <2> QED BY <2>2, <2>3
<1>10. FlagAndLoop'
  BY <1>0, <1>6, <1>8 DEF SchedulerInv, ElectionInv, FlagAndLoop
<1>11. KeyAccounted'
  <2>1. SUFFICES ASSUME NEW i \in Instances, leaderKey.owner = i
                 PROVE  /\ life[i] = "up" /\ loop'[i] # "won" /\ ~(flag[i] /\ loop'[i] # "lost") =>
                               FaultsLeft(budget') < MaxFaults
                        /\ life[i] = "stopped" /\ joined[i] => FaultsLeft(budget') + 1 < MaxFaults
    BY <1>0, <1>5 DEF KeyAccounted
  <2>2. CASE i = k
    BY <1>2, <1>3, <1>4, <1>6, <1>8, <2>1, <2>2
  <2>3. CASE i # k
    <3>1. /\ life[i] = "up" /\ loop[i] # "won" /\ ~(flag[i] /\ loop[i] # "lost") =>
                 FaultsLeft(budget) < MaxFaults
          /\ life[i] = "stopped" /\ joined[i] => FaultsLeft(budget) + 1 < MaxFaults
      BY <2>1 DEF SchedulerInv, ElectionInv, KeyAccounted
    <3> QED BY <1>2, <1>4, <1>6, <2>3, <3>1
  <2> QED BY <2>2, <2>3
<1>12. FaultsLeft(budget') <= MaxFaults
  BY <1>2, <1>4
<1> QED BY <1>0, <1>7, <1>9, <1>10, <1>11, <1>12, RunnerAside DEF SchedulerInv, ElectionInv

LEMMA SetFlagStep ==
    ASSUME SchedulerInv, NEW k \in Instances, SetFlag(k)
    PROVE  SchedulerInv'
<1>1. /\ loop[k] \in {"won", "lost"}
      /\ flag' = [flag EXCEPT ![k] = loop[k] = "won"]
      /\ since' = IF loop[k] = "lost" THEN [since EXCEPT ![k] = 0] ELSE since
      /\ loop' = [loop EXCEPT ![k] = "wait"]
      /\ leaderKey' = leaderKey /\ joined' = joined /\ life' = life
      /\ runnerVars' = runnerVars /\ budget' = budget
  BY DEF SetFlag
<1>2. /\ flag' \in [Instances -> BOOLEAN] /\ since' \in [Instances -> Nat]
      /\ loop' \in [Instances -> LoopPcs]
  BY <1>1 DEF SchedulerInv, SchedulerTypes, LoopPcs
<1>3. SchedulerTypes'
  BY <1>1, <1>2 DEF SchedulerInv, SchedulerTypes, runnerVars
<1>4. /\ \A i \in Instances \ {k} : /\ loop'[i] = loop[i] /\ flag'[i] = flag[i]
                                    /\ since'[i] = since[i]
      /\ loop'[k] = "wait" /\ (flag'[k] <=> loop[k] = "won")
      /\ loop[k] = "won" => since'[k] = since[k]
  BY <1>1 DEF SchedulerInv, SchedulerTypes
<1>5. /\ life[k] = "stopped" => ~joined[k]
  BY <1>1 DEF SchedulerInv, ElectionInv, FlagAndLoop
<1>6. LeaseHeld'
  <2>1. SUFFICES ASSUME NEW i \in Instances, joined[i], flag'[i] \/ loop'[i] = "won",
                        since'[i] < LeaderTtl
                 PROVE  leaderKey.owner = i /\ leaderKey.ttl + since'[i] >= LeaderTtl
    BY <1>1 DEF LeaseHeld
  <2>2. since'[i] = since[i] /\ (flag[i] \/ loop[i] = "won")
    BY <1>4, <2>1
  <2> QED BY <2>1, <2>2 DEF SchedulerInv, ElectionInv, LeaseHeld
<1>7. FlagAndLoop'
  BY <1>1, <1>4, <1>5 DEF SchedulerInv, ElectionInv, FlagAndLoop
<1>8. KeyAccounted'
  BY <1>1, <1>4, <1>5 DEF SchedulerInv, ElectionInv, KeyAccounted
<1>9. FaultsLeft(budget') <= MaxFaults
  BY <1>1 DEF SchedulerInv, ElectionInv
<1> QED BY <1>1, <1>3, <1>6, <1>7, <1>8, <1>9, RunnerAside DEF SchedulerInv, ElectionInv

LEMMA StopStep ==
    ASSUME SchedulerInv, NEW k \in Instances, Stop(k)
    PROVE  SchedulerInv'
<1>0. /\ life[k] = "up" /\ budget.stops > 0
      /\ joined' = [joined EXCEPT ![k] = loop[k] = "wait"]
      /\ flag' = [flag EXCEPT ![k] = FALSE]
      /\ life' = [life EXCEPT ![k] = "stopped"]
      /\ since' = since /\ loop' = loop /\ runnerVars' = runnerVars
  BY DEF Stop
<1>1. PICK e \in {0, 1} :
        /\ e = 1 => flag[k] /\ budget.errors > 0
        /\ leaderKey' = IF flag[k] /\ e = 0 THEN Released(leaderKey, k) ELSE leaderKey
        /\ budget' = [budget EXCEPT !.stops = @ - 1, !.errors = @ - e]
  BY DEF Stop
<1>2. /\ budget' \in Budget /\ FaultsLeft(budget) \in Nat /\ FaultsLeft(budget') \in Nat
      /\ FaultsLeft(budget') = FaultsLeft(budget) - 1 - e
  BY <1>0, <1>1, StopCosts DEF SchedulerInv, SchedulerTypes
<1>3. leaderKey \in Key /\ FaultsLeft(budget) <= MaxFaults /\ MaxFaults \in Nat
  BY SchedulerAssumption DEF SchedulerInv, SchedulerTypes, ElectionInv
<1>4. /\ leaderKey' \in Key
      /\ leaderKey.owner # k => leaderKey' = leaderKey
      /\ leaderKey'.owner = k => ~(flag[k] /\ e = 0) /\ leaderKey.owner = k
      /\ leaderKey'.owner \in {leaderKey.owner, Nobody}
  BY <1>1, <1>3, ReleasedKey
<1>5. /\ \A i \in Instances \ {k} : /\ joined'[i] = joined[i] /\ flag'[i] = flag[i]
                                    /\ life'[i] = life[i]
      /\ (joined'[k] <=> loop[k] = "wait") /\ ~flag'[k] /\ life'[k] = "stopped"
  BY <1>0 DEF SchedulerInv, SchedulerTypes
<1>6. SchedulerTypes'
  <2>1. /\ joined' \in [Instances -> BOOLEAN] /\ flag' \in [Instances -> BOOLEAN]
        /\ life' \in [Instances -> {"up", "stopped"}]
    BY <1>0 DEF SchedulerInv, SchedulerTypes
  <2> QED BY <1>0, <1>2, <1>4, <2>1 DEF SchedulerInv, SchedulerTypes, runnerVars
<1>7. LeaseHeld'
  <2>1. SUFFICES ASSUME NEW i \in Instances, joined'[i], flag'[i] \/ loop[i] = "won",
                        since[i] < LeaderTtl
                 PROVE  leaderKey'.owner = i /\ leaderKey'.ttl + since[i] >= LeaderTtl
    BY <1>0 DEF LeaseHeld
  <2>2. i # k
    BY <1>5, <2>1
  <2>3. leaderKey.owner = i /\ leaderKey.ttl + since[i] >= LeaderTtl
    BY <1>5, <2>1, <2>2 DEF SchedulerInv, ElectionInv, LeaseHeld
  <2> QED BY <1>4, <2>2, <2>3
<1>8. FlagAndLoop'
  BY <1>0, <1>5 DEF SchedulerInv, ElectionInv, FlagAndLoop
<1>9. KeyAccounted'
  <2>1. SUFFICES ASSUME NEW i \in Instances, leaderKey'.owner = i
                 PROVE  /\ life'[i] = "up" /\ loop[i] # "won" /\ ~(flag'[i] /\ loop[i] # "lost") =>
                               FaultsLeft(budget') < MaxFaults
                        /\ life'[i] = "stopped" /\ joined'[i] => FaultsLeft(budget') + 1 < MaxFaults
    BY <1>0 DEF KeyAccounted
  <2>2. CASE i = k
    <3>1. SUFFICES ASSUME joined'[k] PROVE FaultsLeft(budget') + 1 < MaxFaults
      BY <1>5, <2>2
    <3>2. loop[k] = "wait" /\ leaderKey.owner = k /\ ~(flag[k] /\ e = 0)
      BY <1>4, <1>5, <2>1, <2>2, <3>1
    <3>3. CASE flag[k]
      BY <1>2, <1>3, <3>2, <3>3
    <3>4. CASE ~flag[k]
      <4>1. FaultsLeft(budget) < MaxFaults
        BY <1>0, <3>2, <3>4 DEF SchedulerInv, ElectionInv, KeyAccounted
      <4> QED BY <1>2, <1>3, <4>1
    <3> QED BY <3>3, <3>4
  <2>3. CASE i # k
    <3>1. leaderKey.owner = i
      BY <1>4, <2>1, SchedulerAssumption
    <3>2. /\ life[i] = "up" /\ loop[i] # "won" /\ ~(flag[i] /\ loop[i] # "lost") =>
                 FaultsLeft(budget) < MaxFaults
          /\ life[i] = "stopped" /\ joined[i] => FaultsLeft(budget) + 1 < MaxFaults
      BY <3>1 DEF SchedulerInv, ElectionInv, KeyAccounted
    <3> QED BY <1>2, <1>3, <1>5, <2>3, <3>2
  <2> QED BY <2>2, <2>3
<1>10. FaultsLeft(budget') <= MaxFaults
  BY <1>2, <1>3
<1> QED BY <1>0, <1>6, <1>7, <1>8, <1>9, <1>10, RunnerAside DEF SchedulerInv, ElectionInv

-----------------------------------------------------------------------------
(* The runner, one lemma per action                                        *)

\* A thread of instance k moves on.
LEMMA RunMoves ==
    ASSUME SchedulerTypes, NEW k \in Instances, NEW t \in Threads, NEW p \in RunPcs, At(k, t, p)
    PROVE  /\ run' \in [Instances -> [Threads -> RunPcs]]
           /\ \A i \in Instances, u \in Threads :
                 run'[i][u] = IF i = k /\ u = t THEN p ELSE run[i][u]
BY DEF SchedulerTypes, At

LEMMA TypesFromParts ==
    ASSUME SchedulerInv, electionVars' = electionVars, life' = life,
           jobKey' \in Key, mutex' \in [Instances -> Threads \cup {Nobody}],
           run' \in [Instances -> [Threads -> RunPcs]], age' \in [Instances -> Nat],
           budget' \in Budget
    PROVE  SchedulerTypes'
BY DEF SchedulerInv, SchedulerTypes, electionVars

\* Nothing is cheaper than nothing.
LEMMA NoCost ==
    ASSUME SchedulerInv, budget' = budget
    PROVE  /\ FaultsLeft(budget') <= FaultsLeft(budget) /\ FaultsLeft(budget') \in Nat
           /\ FaultsLeft(budget) \in Nat /\ budget' \in Budget
BY NatFaults DEF SchedulerInv, SchedulerTypes

LEMMA EnterRunnerStep ==
    ASSUME SchedulerInv, NEW k \in Instances, NEW t \in Threads, EnterRunner(k, t)
    PROVE  SchedulerInv'
<1>1. /\ run[k][t] = "idle" /\ (At(k, t, "mutex") \/ run' = run)
      /\ electionVars' = electionVars /\ life' = life /\ jobKey' = jobKey /\ mutex' = mutex
      /\ age' = age /\ budget' = budget
  BY DEF EnterRunner
<1>2. ElectionInv'
  BY <1>1, NoCost, ElectionAside
<1>3. CASE run' = run
  BY <1>1, <1>2, <1>3, NoCost, TypesFromParts
     DEF SchedulerInv, SchedulerTypes, RunnerInv, MutexHeld, JobLockHeld, Running
<1>4. CASE At(k, t, "mutex")
  <2>1. "mutex" \in RunPcs
    BY DEF RunPcs
  <2>2. /\ run' \in [Instances -> [Threads -> RunPcs]]
        /\ \A i \in Instances, u \in Threads :
              run'[i][u] = IF i = k /\ u = t THEN "mutex" ELSE run[i][u]
    BY <1>4, <2>1, RunMoves DEF SchedulerInv
  <2>3. SchedulerTypes'
    BY <1>1, <2>2, NoCost, TypesFromParts DEF SchedulerInv, SchedulerTypes
  <2>4. MutexHeld' /\ JobLockHeld'
    BY <1>1, <2>2 DEF SchedulerInv, RunnerInv, MutexHeld, JobLockHeld, Running
  <2> QED BY <1>2, <2>3, <2>4 DEF SchedulerInv, RunnerInv
<1> QED BY <1>1, <1>3, <1>4

LEMMA TakeMutexStep ==
    ASSUME SchedulerInv, NEW k \in Instances, NEW t \in Threads, TakeMutex(k, t)
    PROVE  SchedulerInv'
<1>1. /\ run[k][t] = "mutex" /\ electionVars' = electionVars /\ life' = life /\ jobKey' = jobKey
      /\ age' = age /\ budget' = budget
      /\ \/ mutex[k] = Nobody /\ mutex' = [mutex EXCEPT ![k] = t] /\ At(k, t, "lock")
         \/ mutex' = mutex /\ At(k, t, "idle")
  BY DEF TakeMutex
<1>2. ElectionInv'
  BY <1>1, NoCost, ElectionAside
<1>3. PICK p \in {"lock", "idle"} :
        /\ At(k, t, p)
        /\ p = "lock" => mutex[k] = Nobody /\ mutex' = [mutex EXCEPT ![k] = t]
        /\ p = "idle" => mutex' = mutex
  BY <1>1
<1>4. p \in RunPcs
  BY DEF RunPcs
<1>5. /\ run' \in [Instances -> [Threads -> RunPcs]]
      /\ \A i \in Instances, u \in Threads :
            run'[i][u] = IF i = k /\ u = t THEN p ELSE run[i][u]
  BY <1>3, <1>4, RunMoves DEF SchedulerInv
<1>6. mutex \in [Instances -> Threads \cup {Nobody}] /\ Nobody \notin Threads
  BY SchedulerAssumption DEF SchedulerInv, SchedulerTypes
<1>7. /\ mutex' \in [Instances -> Threads \cup {Nobody}]
      /\ \A i \in Instances : mutex'[i] = IF i = k /\ p = "lock" THEN t ELSE mutex[i]
  BY <1>3, <1>6
<1>8. SchedulerTypes'
  BY <1>1, <1>5, <1>7, NoCost, TypesFromParts DEF SchedulerInv, SchedulerTypes
<1>9. MutexHeld'
  <2>1. SUFFICES ASSUME NEW i \in Instances, NEW u \in Threads,
                        run'[i][u] \in {"lock", "job", "release", "unlock"}
                 PROVE  mutex'[i] = u
    BY DEF MutexHeld
  <2>2. CASE i = k /\ u = t
    BY <1>5, <1>7, <2>1, <2>2
  <2>3. CASE ~(i = k /\ u = t)
    <3>1. mutex[i] = u
      BY <1>5, <2>1, <2>3 DEF SchedulerInv, RunnerInv, MutexHeld
    <3> QED BY <1>3, <1>6, <1>7, <3>1
  <2> QED BY <2>2, <2>3
<1>10. JobLockHeld'
  BY <1>1, <1>5 DEF SchedulerInv, RunnerInv, JobLockHeld, Running
<1> QED BY <1>2, <1>8, <1>9, <1>10 DEF SchedulerInv, RunnerInv

LEMMA TakeJobLockStep ==
    ASSUME SchedulerInv, NEW k \in Instances, NEW t \in Threads, TakeJobLock(k, t)
    PROVE  SchedulerInv'
<1>0. run[k][t] = "lock" /\ electionVars' = electionVars /\ life' = life
  BY DEF TakeJobLock
<1>1. PICK r \in Replies :
        /\ Reply(r, jobKey.owner = Nobody)
        /\ jobKey' = IF Applied(r) THEN Acquired(jobKey, k, JobTtl) ELSE jobKey
        /\ r = "ok" => /\ At(k, t, "job") /\ age' = [age EXCEPT ![k] = 0] /\ mutex' = mutex
        /\ r # "ok" => /\ At(k, t, "idle") /\ age' = age /\ mutex' = [mutex EXCEPT ![k] = Nobody]
  BY DEF TakeJobLock
<1>2. /\ budget' \in Budget /\ FaultsLeft(budget) \in Nat /\ FaultsLeft(budget') \in Nat
      /\ FaultsLeft(budget') <= FaultsLeft(budget)
  BY <1>1, ReplyCosts DEF SchedulerInv, SchedulerTypes
<1>3. ElectionInv'
  BY <1>0, <1>2, ElectionAside
<1>4. (Applied(r) => jobKey.owner = Nobody) /\ (r = "ok" => Applied(r))
  BY <1>1, MatchedReply
<1>5. /\ jobKey \in Key /\ JobTtl \in Nat /\ age \in [Instances -> Nat]
      /\ mutex \in [Instances -> Threads \cup {Nobody}] /\ Nobody \notin Instances
  BY SchedulerAssumption DEF SchedulerInv, SchedulerTypes
<1>6. /\ jobKey' \in Key
      /\ Applied(r) => jobKey'.owner = k /\ jobKey'.ttl = JobTtl
      /\ ~Applied(r) => jobKey' = jobKey
  BY <1>1, <1>4, <1>5, AcquiredKey
<1> DEFINE p == IF r = "ok" THEN "job" ELSE "idle"
<1>7. p \in RunPcs /\ At(k, t, p)
  BY <1>1 DEF RunPcs
<1> HIDE DEF p
<1>8. /\ run' \in [Instances -> [Threads -> RunPcs]]
      /\ \A i \in Instances, u \in Threads :
            run'[i][u] = IF i = k /\ u = t THEN p ELSE run[i][u]
  BY <1>7, RunMoves DEF SchedulerInv
<1>9. /\ mutex' \in [Instances -> Threads \cup {Nobody}] /\ age' \in [Instances -> Nat]
      /\ \A i \in Instances : age'[i] = IF i = k /\ r = "ok" THEN 0 ELSE age[i]
      /\ \A i \in Instances : mutex'[i] = IF i = k /\ r # "ok" THEN Nobody ELSE mutex[i]
  BY <1>1, <1>5
<1>10. SchedulerTypes'
  BY <1>0, <1>2, <1>6, <1>8, <1>9, TypesFromParts
<1>11. mutex[k] = t
  BY <1>0 DEF SchedulerInv, RunnerInv, MutexHeld
<1>12. MutexHeld'
  <2>1. SUFFICES ASSUME NEW i \in Instances, NEW u \in Threads,
                        run'[i][u] \in {"lock", "job", "release", "unlock"}
                 PROVE  mutex'[i] = u
    BY DEF MutexHeld
  <2>2. CASE i = k /\ u = t
    BY <1>8, <1>9, <1>11, <2>1, <2>2 DEF p
  <2>3. CASE ~(i = k /\ u = t)
    <3>1. mutex[i] = u
      BY <1>8, <2>1, <2>3 DEF SchedulerInv, RunnerInv, MutexHeld
    <3> QED BY <1>9, <1>11, <2>3, <3>1
  <2> QED BY <2>2, <2>3
<1>13. JobLockHeld'
  <2>1. SUFFICES ASSUME NEW i \in Instances, NEW u \in Threads,
                        run'[i][u] \in {"job", "release"}, age'[i] < JobTtl
                 PROVE  jobKey'.owner = i /\ jobKey'.ttl + age'[i] >= JobTtl
    BY DEF JobLockHeld, Running
  <2>2. CASE i = k /\ u = t
    BY <1>4, <1>5, <1>6, <1>8, <1>9, <2>1, <2>2 DEF p
  <2>3. CASE ~(i = k /\ u = t)
    <3>1. run[i][u] \in {"job", "release"} /\ mutex[i] = u
      BY <1>8, <2>1, <2>3 DEF SchedulerInv, RunnerInv, MutexHeld
    <3>2. i # k
      BY <1>11, <2>3, <3>1
    <3>3. jobKey.owner = i /\ jobKey.ttl + age[i] >= JobTtl
      BY <1>9, <2>1, <3>1, <3>2 DEF SchedulerInv, RunnerInv, JobLockHeld, Running
    <3> QED BY <1>4, <1>5, <1>6, <1>9, <3>2, <3>3
  <2> QED BY <2>2, <2>3
<1> QED BY <1>3, <1>10, <1>12, <1>13 DEF SchedulerInv, RunnerInv

LEMMA FinishJobStep ==
    ASSUME SchedulerInv, NEW k \in Instances, NEW t \in Threads, FinishJob(k, t)
    PROVE  SchedulerInv'
<1>1. /\ run[k][t] = "job" /\ At(k, t, "release")
      /\ electionVars' = electionVars /\ life' = life /\ jobKey' = jobKey /\ mutex' = mutex
      /\ age' = age /\ budget' = budget
  BY DEF FinishJob
<1>2. ElectionInv'
  BY <1>1, NoCost, ElectionAside
<1>3. "release" \in RunPcs
  BY DEF RunPcs
<1>4. /\ run' \in [Instances -> [Threads -> RunPcs]]
      /\ \A i \in Instances, u \in Threads :
            run'[i][u] = IF i = k /\ u = t THEN "release" ELSE run[i][u]
  BY <1>1, <1>3, RunMoves DEF SchedulerInv
<1>5. SchedulerTypes'
  BY <1>1, <1>4, NoCost, TypesFromParts DEF SchedulerInv, SchedulerTypes
<1>6. MutexHeld' /\ JobLockHeld'
  BY <1>1, <1>4 DEF SchedulerInv, RunnerInv, MutexHeld, JobLockHeld, Running
<1> QED BY <1>2, <1>5, <1>6 DEF SchedulerInv, RunnerInv

LEMMA ReleaseJobLockStep ==
    ASSUME SchedulerInv, NEW k \in Instances, NEW t \in Threads, ReleaseJobLock(k, t)
    PROVE  SchedulerInv'
<1>0. /\ run[k][t] = "release" /\ At(k, t, "unlock") /\ age' = [age EXCEPT ![k] = 0]
      /\ electionVars' = electionVars /\ life' = life /\ mutex' = mutex
  BY DEF ReleaseJobLock
<1>1. PICK r \in {"ok", "error"} :
        /\ Reply(r, TRUE)
        /\ jobKey' = IF Applied(r) THEN Released(jobKey, k) ELSE jobKey
  BY DEF ReleaseJobLock
<1>2. /\ budget' \in Budget /\ FaultsLeft(budget) \in Nat /\ FaultsLeft(budget') \in Nat
      /\ FaultsLeft(budget') <= FaultsLeft(budget)
  BY <1>1, ReplyCosts DEF SchedulerInv, SchedulerTypes
<1>3. ElectionInv'
  BY <1>0, <1>2, ElectionAside
<1>4. jobKey \in Key /\ age \in [Instances -> Nat] /\ mutex \in [Instances -> Threads \cup {Nobody}]
  BY DEF SchedulerInv, SchedulerTypes
<1>5. jobKey' \in Key /\ (jobKey.owner # k => jobKey' = jobKey)
  BY <1>1, <1>4, ReleasedKey
<1>6. "unlock" \in RunPcs
  BY DEF RunPcs
<1>7. /\ run' \in [Instances -> [Threads -> RunPcs]]
      /\ \A i \in Instances, u \in Threads :
            run'[i][u] = IF i = k /\ u = t THEN "unlock" ELSE run[i][u]
  BY <1>0, <1>6, RunMoves DEF SchedulerInv
<1>8. age' \in [Instances -> Nat] /\ \A i \in Instances : i # k => age'[i] = age[i]
  BY <1>0, <1>4
<1>9. SchedulerTypes'
  BY <1>0, <1>2, <1>4, <1>5, <1>7, <1>8, TypesFromParts
<1>10. MutexHeld'
  BY <1>0, <1>7 DEF SchedulerInv, RunnerInv, MutexHeld
<1>11. JobLockHeld'
  <2>1. SUFFICES ASSUME NEW i \in Instances, NEW u \in Threads,
                        run'[i][u] \in {"job", "release"}, age'[i] < JobTtl
                 PROVE  jobKey'.owner = i /\ jobKey'.ttl + age'[i] >= JobTtl
    BY DEF JobLockHeld, Running
  <2>2. ~(i = k /\ u = t) /\ run[i][u] \in {"job", "release"}
    BY <1>7, <2>1
  <2>3. mutex[i] = u /\ mutex[k] = t
    BY <1>0, <2>2 DEF SchedulerInv, RunnerInv, MutexHeld
  <2>4. i # k
    BY <2>2, <2>3
  <2>5. jobKey.owner = i /\ jobKey.ttl + age[i] >= JobTtl
    BY <1>8, <2>1, <2>2, <2>4 DEF SchedulerInv, RunnerInv, JobLockHeld, Running
  <2> QED BY <1>5, <1>8, <2>4, <2>5
<1> QED BY <1>3, <1>9, <1>10, <1>11 DEF SchedulerInv, RunnerInv

LEMMA ReleaseMutexStep ==
    ASSUME SchedulerInv, NEW k \in Instances, NEW t \in Threads, ReleaseMutex(k, t)
    PROVE  SchedulerInv'
<1>1. /\ run[k][t] = "unlock" /\ At(k, t, "idle") /\ mutex' = [mutex EXCEPT ![k] = Nobody]
      /\ electionVars' = electionVars /\ life' = life /\ jobKey' = jobKey
      /\ age' = age /\ budget' = budget
  BY DEF ReleaseMutex
<1>2. ElectionInv'
  BY <1>1, NoCost, ElectionAside
<1>3. "idle" \in RunPcs
  BY DEF RunPcs
<1>4. /\ run' \in [Instances -> [Threads -> RunPcs]]
      /\ \A i \in Instances, u \in Threads :
            run'[i][u] = IF i = k /\ u = t THEN "idle" ELSE run[i][u]
  BY <1>1, <1>3, RunMoves DEF SchedulerInv
<1>5. /\ mutex' \in [Instances -> Threads \cup {Nobody}]
      /\ \A i \in Instances : i # k => mutex'[i] = mutex[i]
  BY <1>1 DEF SchedulerInv, SchedulerTypes
<1>6. SchedulerTypes'
  BY <1>1, <1>4, <1>5, NoCost, TypesFromParts DEF SchedulerInv, SchedulerTypes
<1>7. MutexHeld'
  <2>1. SUFFICES ASSUME NEW i \in Instances, NEW u \in Threads,
                        run'[i][u] \in {"lock", "job", "release", "unlock"}
                 PROVE  mutex'[i] = u
    BY DEF MutexHeld
  <2>2. ~(i = k /\ u = t) /\ run[i][u] \in {"lock", "job", "release", "unlock"}
    BY <1>4, <2>1
  <2>3. mutex[i] = u /\ mutex[k] = t
    BY <1>1, <2>2 DEF SchedulerInv, RunnerInv, MutexHeld
  <2> QED BY <1>5, <2>2, <2>3
<1>8. JobLockHeld'
  BY <1>1, <1>4 DEF SchedulerInv, RunnerInv, JobLockHeld, Running
<1> QED BY <1>2, <1>6, <1>7, <1>8 DEF SchedulerInv, RunnerInv

-----------------------------------------------------------------------------
(* The environment                                                         *)

\* Time takes as much from the key as it adds to the age of its owner.
LEMMA LeaseAges ==
    ASSUME NEW key \in Key, NEW i \in Instances, NEW n \in Nat, NEW cap \in Nat,
           n < cap => key.owner = i /\ key.ttl + n >= cap,
           Older(n, cap) < cap
    PROVE  Aged(key).owner = i /\ Aged(key).ttl + Older(n, cap) >= cap
<1>1. n < cap /\ Older(n, cap) = n + 1
  BY DEF Older
<1>2. key.ttl \in Nat /\ key.ttl > 1
  BY <1>1, KeyFields
<1> QED BY <1>1, <1>2, AgedKey

LEMMA OlderNat == ASSUME NEW n \in Nat, NEW cap \in Nat PROVE Older(n, cap) \in Nat
BY DEF Older

LEMMA PassStep ==
    ASSUME SchedulerInv, Pass
    PROVE  SchedulerInv'
<1>1. /\ leaderKey' = Aged(leaderKey) /\ jobKey' = Aged(jobKey)
      /\ flag' = flag /\ loop' = loop /\ joined' = joined /\ life' = life /\ mutex' = mutex
      /\ run' = run /\ budget' = budget
  BY DEF Pass
<1>2. /\ since' = [i \in Instances |-> IF flag[i] \/ loop[i] = "won"
                                       THEN Older(since[i], LeaderTtl) ELSE 0]
      /\ age' = [i \in Instances |-> IF \E t \in Threads : Running(i, t)
                                     THEN Older(age[i], JobTtl) ELSE 0]
  BY DEF Pass
<1>3. /\ leaderKey \in Key /\ jobKey \in Key /\ since \in [Instances -> Nat]
      /\ age \in [Instances -> Nat] /\ LeaderTtl \in Nat /\ JobTtl \in Nat
  BY SchedulerAssumption DEF SchedulerInv, SchedulerTypes
<1>4. /\ leaderKey' \in Key /\ leaderKey'.owner \in {leaderKey.owner, Nobody} /\ jobKey' \in Key
  BY <1>1, <1>3, AgedKey
<1>5. /\ since' \in [Instances -> Nat] /\ age' \in [Instances -> Nat]
      /\ \A i \in Instances :
            /\ flag[i] \/ loop[i] = "won" => since'[i] = Older(since[i], LeaderTtl)
            /\ (\E t \in Threads : Running(i, t)) => age'[i] = Older(age[i], JobTtl)
  BY <1>2, <1>3, OlderNat
<1>6. SchedulerTypes'
  BY <1>1, <1>4, <1>5 DEF SchedulerInv, SchedulerTypes
<1>7. LeaseHeld'
  <2>1. SUFFICES ASSUME NEW i \in Instances, joined[i], flag[i] \/ loop[i] = "won",
                        since'[i] < LeaderTtl
                 PROVE  leaderKey'.owner = i /\ leaderKey'.ttl + since'[i] >= LeaderTtl
    BY <1>1 DEF LeaseHeld
  <2>2. since[i] < LeaderTtl => leaderKey.owner = i /\ leaderKey.ttl + since[i] >= LeaderTtl
    BY <2>1 DEF SchedulerInv, ElectionInv, LeaseHeld
  <2>3. since'[i] = Older(since[i], LeaderTtl) /\ since[i] \in Nat
    BY <1>3, <1>5, <2>1
  <2> QED BY <1>1, <1>3, <2>1, <2>2, <2>3, LeaseAges
<1>8. FlagAndLoop'
  BY <1>1 DEF SchedulerInv, ElectionInv, FlagAndLoop
<1>9. KeyAccounted'
  BY <1>1, <1>4, SchedulerAssumption DEF SchedulerInv, ElectionInv, KeyAccounted
<1>10. FaultsLeft(budget') <= MaxFaults
  BY <1>1 DEF SchedulerInv, ElectionInv
<1>11. MutexHeld'
  BY <1>1 DEF SchedulerInv, RunnerInv, MutexHeld
<1>12. JobLockHeld'
  <2>1. SUFFICES ASSUME NEW i \in Instances, NEW u \in Threads, Running(i, u), age'[i] < JobTtl
                 PROVE  jobKey'.owner = i /\ jobKey'.ttl + age'[i] >= JobTtl
    BY <1>1 DEF JobLockHeld, Running
  <2>2. age[i] < JobTtl => jobKey.owner = i /\ jobKey.ttl + age[i] >= JobTtl
    BY <2>1 DEF SchedulerInv, RunnerInv, JobLockHeld
  <2>3. age'[i] = Older(age[i], JobTtl) /\ age[i] \in Nat
    BY <1>3, <1>5, <2>1
  <2> QED BY <1>1, <1>3, <2>1, <2>2, <2>3, LeaseAges
<1> QED BY <1>6, <1>7, <1>8, <1>9, <1>10, <1>11, <1>12 DEF SchedulerInv, ElectionInv, RunnerInv

LEMMA ReplacedStep ==
    ASSUME SchedulerInv, NEW k \in Instances, Replaced(k), budget' \in Budget,
           FaultsLeft(budget') <= FaultsLeft(budget), FaultsLeft(budget') \in Nat
    PROVE  SchedulerInv'
<1>1. /\ life' = [life EXCEPT ![k] = "up"] /\ flag' = [flag EXCEPT ![k] = FALSE]
      /\ since' = [since EXCEPT ![k] = 0] /\ loop' = [loop EXCEPT ![k] = "wait"]
      /\ joined' = [joined EXCEPT ![k] = TRUE] /\ mutex' = [mutex EXCEPT ![k] = Nobody]
      /\ run' = [run EXCEPT ![k] = [t \in Threads |-> "idle"]] /\ age' = [age EXCEPT ![k] = 0]
      /\ leaderKey' = Orphaned(leaderKey, k) /\ jobKey' = Orphaned(jobKey, k)
  BY DEF Replaced, Fresh
<1>2. /\ leaderKey \in Key /\ jobKey \in Key /\ Dead \notin Instances /\ MaxFaults \in Nat
      /\ FaultsLeft(budget) \in Nat /\ FaultsLeft(budget) <= MaxFaults
  BY SchedulerAssumption, NatFaults DEF SchedulerInv, SchedulerTypes, ElectionInv
<1>3. /\ leaderKey' \in Key /\ leaderKey'.owner # k
      /\ leaderKey.owner # k => leaderKey' = leaderKey
      /\ \A i \in Instances : leaderKey'.owner = i => leaderKey.owner = i
  BY <1>1, <1>2, OrphanedKey
<1>4. jobKey' \in Key /\ (jobKey.owner # k => jobKey' = jobKey)
  BY <1>1, <1>2, OrphanedKey
<1>5. /\ \A i \in Instances \ {k} :
            /\ life'[i] = life[i] /\ flag'[i] = flag[i] /\ since'[i] = since[i]
            /\ loop'[i] = loop[i] /\ joined'[i] = joined[i]
      /\ life'[k] = "up" /\ ~flag'[k] /\ loop'[k] = "wait"
  BY <1>1 DEF SchedulerInv, SchedulerTypes
<1>6. /\ \A i \in Instances \ {k} : run'[i] = run[i] /\ mutex'[i] = mutex[i] /\ age'[i] = age[i]
      /\ \A t \in Threads : run'[k][t] = "idle"
  BY <1>1 DEF SchedulerInv, SchedulerTypes
<1>7. SchedulerTypes'
  <2>1. [t \in Threads |-> "idle"] \in [Threads -> RunPcs]
    BY DEF RunPcs
  <2>2. run' \in [Instances -> [Threads -> RunPcs]]
    BY <1>1, <2>1 DEF SchedulerInv, SchedulerTypes
  <2>3. /\ flag' \in [Instances -> BOOLEAN] /\ since' \in [Instances -> Nat]
        /\ loop' \in [Instances -> LoopPcs] /\ life' \in [Instances -> {"up", "stopped"}]
        /\ joined' \in [Instances -> BOOLEAN]
    BY <1>1 DEF SchedulerInv, SchedulerTypes, LoopPcs
  <2>4. mutex' \in [Instances -> Threads \cup {Nobody}] /\ age' \in [Instances -> Nat]
    BY <1>1 DEF SchedulerInv, SchedulerTypes
  <2> QED BY <1>3, <1>4, <2>2, <2>3, <2>4 DEF SchedulerTypes
<1>8. LeaseHeld'
  <2>1. SUFFICES ASSUME NEW i \in Instances, joined'[i], flag'[i] \/ loop'[i] = "won",
                        since'[i] < LeaderTtl
                 PROVE  leaderKey'.owner = i /\ leaderKey'.ttl + since'[i] >= LeaderTtl
    BY DEF LeaseHeld
  <2>2. i # k
    BY <1>5, <2>1
  <2>3. leaderKey.owner = i /\ leaderKey.ttl + since[i] >= LeaderTtl
    BY <1>5, <2>1, <2>2 DEF SchedulerInv, ElectionInv, LeaseHeld
  <2> QED BY <1>3, <1>5, <2>2, <2>3
<1>9. FlagAndLoop'
  BY <1>5 DEF SchedulerInv, ElectionInv, FlagAndLoop
<1>10. KeyAccounted'
  <2>1. SUFFICES ASSUME NEW i \in Instances, leaderKey'.owner = i
                 PROVE  /\ life'[i] = "up" /\ loop'[i] # "won" /\ ~(flag'[i] /\ loop'[i] # "lost") =>
                               FaultsLeft(budget') < MaxFaults
                        /\ life'[i] = "stopped" /\ joined'[i] => FaultsLeft(budget') + 1 < MaxFaults
    BY DEF KeyAccounted
  <2>2. i # k /\ leaderKey.owner = i
    BY <1>3, <2>1
  <2>3. /\ life[i] = "up" /\ loop[i] # "won" /\ ~(flag[i] /\ loop[i] # "lost") =>
               FaultsLeft(budget) < MaxFaults
        /\ life[i] = "stopped" /\ joined[i] => FaultsLeft(budget) + 1 < MaxFaults
    BY <2>2 DEF SchedulerInv, ElectionInv, KeyAccounted
  <2> QED BY <1>2, <1>5, <2>2, <2>3
<1>11. FaultsLeft(budget') <= MaxFaults
  BY <1>2
<1>12. MutexHeld'
  BY <1>6 DEF SchedulerInv, RunnerInv, MutexHeld
<1>13. JobLockHeld'
  <2>1. SUFFICES ASSUME NEW i \in Instances, NEW u \in Threads,
                        run'[i][u] \in {"job", "release"}, age'[i] < JobTtl
                 PROVE  jobKey'.owner = i /\ jobKey'.ttl + age'[i] >= JobTtl
    BY DEF JobLockHeld, Running
  <2>2. i # k
    BY <1>6, <2>1
  <2>3. jobKey.owner = i /\ jobKey.ttl + age[i] >= JobTtl
    BY <1>6, <2>1, <2>2 DEF SchedulerInv, RunnerInv, JobLockHeld, Running
  <2> QED BY <1>4, <1>6, <2>2, <2>3
<1> QED
  BY <1>7, <1>8, <1>9, <1>10, <1>11, <1>12, <1>13 DEF SchedulerInv, ElectionInv, RunnerInv

-----------------------------------------------------------------------------
(* The theorems about SchedulerLeadership                                  *)

LEMMA SchedulerStarts == SchedulerInit => SchedulerInv
<1>1. SUFFICES ASSUME SchedulerInit PROVE SchedulerInv
  OBVIOUS
<1>2. budget \in Budget /\ FaultsLeft(budget) = MaxFaults
  BY <1>1, SchedulerAssumption DEF SchedulerInit, Budget
<1>3. SchedulerTypes
  BY <1>1, <1>2, FreeKey DEF SchedulerInit, SchedulerTypes, LoopPcs, RunPcs
<1>4. leaderKey.owner = Nobody /\ Nobody \notin Instances
  BY <1>1, FreeKey, SchedulerAssumption DEF SchedulerInit
<1>5. LeaseHeld /\ FlagAndLoop
  BY <1>1 DEF SchedulerInit, LeaseHeld, FlagAndLoop
<1>6. KeyAccounted
  BY <1>4 DEF KeyAccounted
<1>7. MutexHeld /\ JobLockHeld
  BY <1>1 DEF SchedulerInit, MutexHeld, JobLockHeld, Running
<1> QED
  BY <1>2, <1>3, <1>5, <1>6, <1>7, SchedulerAssumption DEF SchedulerInv, ElectionInv, RunnerInv

LEMMA SchedulerContinues == SchedulerInv /\ [SchedulerNext]_schedulerVars => SchedulerInv'
<1>1. SUFFICES ASSUME SchedulerInv, [SchedulerNext]_schedulerVars PROVE SchedulerInv'
  OBVIOUS
<1>2. ASSUME NEW k \in Instances, Election(k) PROVE SchedulerInv'
  BY <1>1, <1>2, StartTickStep, TickAcquireStep, TickExtendStep, SetFlagStep DEF Election
<1>3. ASSUME NEW k \in Instances, NEW t \in Threads, Runner(k, t) PROVE SchedulerInv'
  BY <1>1, <1>3, EnterRunnerStep, TakeMutexStep, TakeJobLockStep, FinishJobStep,
     ReleaseJobLockStep, ReleaseMutexStep DEF Runner
<1>4. ASSUME NEW k \in Instances, Die(k) PROVE SchedulerInv'
  BY <1>1, <1>4, DeathCosts, ReplacedStep DEF Die, SchedulerInv, SchedulerTypes
<1>5. ASSUME NEW k \in Instances, End(k) PROVE SchedulerInv'
  BY <1>1, <1>5, NoCost, ReplacedStep DEF End
<1>6. CASE UNCHANGED schedulerVars
  <2>1. /\ electionVars' = electionVars /\ runnerVars' = runnerVars /\ life' = life
        /\ budget' = budget
    BY <1>6 DEF schedulerVars, electionVars, runnerVars
  <2>2. ElectionInv' /\ RunnerInv'
    BY <1>1, <2>1, NoCost, ElectionAside, RunnerAside
  <2> QED BY <1>1, <2>1, <2>2 DEF SchedulerInv, SchedulerTypes, electionVars, runnerVars
<1> QED BY <1>1, <1>2, <1>3, <1>4, <1>5, <1>6, StopStep, PassStep DEF SchedulerNext

\* The invariant holds of every behaviour, whatever the faults.
THEOREM SchedulerInvariant == SchedulerSpec => []SchedulerInv
<1>1. SchedulerInit /\ [][SchedulerNext]_schedulerVars => []SchedulerInv
  BY SchedulerStarts, SchedulerContinues, PTL
<1> QED BY <1>1, PTL DEF SchedulerSpec

\* Two instances lead at the same time only when one of them is late with its
\* renewal by the lock's lifetime or its stop() gave up on a tick
\* (LeaderElection._tick, stop): each of the others owns the one key.
THEOREM LeadershipIsExclusive == SchedulerSpec => []OneLeaderUnlessLate
<1>1. ASSUME SchedulerInv PROVE OneLeaderUnlessLate
  <2>1. SUFFICES ASSUME NEW i \in Instances, NEW j \in Instances, i # j, flag[i], flag[j],
                        \A k \in {i, j} : ~(since[k] >= LeaderTtl) /\ joined[k]
                 PROVE  FALSE
    BY DEF OneLeaderUnlessLate
  <2>2. /\ joined[i] /\ joined[j]
        /\ since[i] < LeaderTtl /\ since[j] < LeaderTtl
    BY <1>1, <2>1, SchedulerAssumption DEF SchedulerInv, SchedulerTypes
  <2>3. leaderKey.owner = i /\ leaderKey.owner = j
    BY <1>1, <2>1, <2>2 DEF SchedulerInv, ElectionInv, LeaseHeld
  <2> QED BY <2>1, <2>3
<1> QED BY <1>1, SchedulerInvariant, PTL

\* An instance that has stopped in good order does not lead, and holds the key
\* only if there were two faults, its own stop among them (LeaderElection.stop).
THEOREM StoppingHandsOver == SchedulerSpec => []StopHandsOver
<1>1. SchedulerInv => StopHandsOver
  BY DEF SchedulerInv, ElectionInv, FlagAndLoop, KeyAccounted, StopHandsOver
<1> QED BY <1>1, SchedulerInvariant, PTL

\* Two instances execute the job at the same time only when one of them has
\* outlived its lock (_make_runner, RedisDistributedLock).
THEOREM JobRunsAlone == SchedulerSpec => []JobOverlapOnlyWhenLate
<1>1. ASSUME SchedulerInv PROVE JobOverlapOnlyWhenLate
  BY <1>1 DEF SchedulerInv, RunnerInv, JobLockHeld, JobOverlapOnlyWhenLate
<1> QED BY <1>1, SchedulerInvariant, PTL
=============================================================================
