---------------------------- MODULE ReportsProofs ----------------------------
(***************************************************************************)
(* Proofs about Reports, for every set of accounts, of threads and of      *)
(* calls, all tables whose rows agree on the company they belong to, every *)
(* length of a page, every clock and every number of writes and of faults. *)
(***************************************************************************)
EXTENDS Reports, FiniteSetTheorems, WellFoundedInduction, TLAPS

-----------------------------------------------------------------------------
(* The inductive invariant                                                 *)

IsSeq(list) == list \in Seq(ToSet(list))

Phases == {"look", "wait", "work"}

\* A caller acts as the profile of the user.
IsCaller(p) == \E q \in Profiles : q.user = p.user /\ q.role = p.role /\ q.company = p.company

IsFrame(f) ==
    f \in [key: {f.key}, phase: Phases, todo: {f.todo}, got: {f.got}, started: {f.started},
           version: {f.version}, clean: {f.clean}, sight: {f.sight}, by: {f.by}, keep: {f.keep}]

\* Only a call that is cached waits for a lock.
FrameInv(f) == IsFrame(f) /\ (f.phase = "wait" => f.key.method \in CachedMethods)

CallsInv ==
    /\ DOMAIN frames = Threads /\ DOMAIN coming = Threads /\ DOMAIN answer = Threads
    /\ \A t \in Threads :
           /\ IsSeq(frames[t]) /\ \A i \in DOMAIN frames[t] : FrameInv(frames[t][i])
           /\ IsSeq(coming[t]) /\ \A i \in DOMAIN coming[t] : HasProfile(coming[t][i].user)
           /\ frames[t] # <<>> => IsCaller(answer[t].caller)

\* The lock of every key that is being computed under TTLCache is held, for one
\* computation only.
LockInv ==
    backend = "ttl" =>
        \A t \in Threads : \A i \in Computing(t) :
            /\ frames[t][i].key \in locked
            /\ \A o \in Threads : \A j \in Computing(o) :
                   frames[o][j].key = frames[t][i].key => o = t /\ j = i

ClockInv == now \in Int /\ \A k \in DOMAIN store : store[k].expires \in Int

\* An item a search may show to the caller p who has seen the requests of sight.
Showable(item, sight, p) ==
    \/ item.request \in sight
    \/ item.request = 0 /\ item.company = p.company
    \/ item.kind = "audit_entry" /\ p.role = "admin"
    \/ item.kind \in {"comment", "attachment"} /\ p.role = "admin" /\ ~p.bound

AllShowable(list, sight, p) == IsSeq(list) /\ \A i \in DOMAIN list : Showable(list[i], sight, p)

SearchReadNames == ENTITY_TYPES \cup {"assigned", "visible", "queue"}

IsStep(s) ==
    s \in [read: SearchReadNames, for: {s.for}, page: {1}, at: {s.at}, ids: {s.ids}, free: BOOLEAN]

\* A read is restricted to requests in sight, or it restricts itself.
StepInv(s, f, p) ==
    /\ IsStep(s)
    /\ s.free \/ s.ids \subseteq f.sight
    /\ s.read = "assigned" => p.role = "approver" /\ s.for \in {"request"} \cup ScopedKinds
    /\ s.read = "visible" => s.for \in ScopedKinds /\ (s.free => p.role = "employee")
    /\ s.read = "request" /\ s.free => p.role # "approver"
    /\ s.read \in ScopedKinds /\ s.free => p.role = "admin"
    /\ s.read = "queue" => p.role \in {"approver", "admin"}
    /\ s.read = "approval" => "queue" \in DOMAIN f.got

AllSteps(list, f, p) == IsSeq(list) /\ \A i \in DOMAIN list : StepInv(list[i], f, p)

\* What a search has found so far is in sight.
FoundInv(f, p) ==
    /\ \A kind \in ENTITY_TYPES \cap DOMAIN f.got : AllShowable(f.got[kind], f.sight, p)
    /\ "queue" \in DOMAIN f.got =>
           IsSeq(f.got.queue) /\ \A i \in DOMAIN f.got.queue : f.got.queue[i].request \in f.sight

Searching(f, p) ==
    /\ f.phase # "wait"
    /\ AllSteps(f.todo, f, p)
    /\ FoundInv(f, p)

\* A search calls nothing, and nothing calls it.
SearchOf(t) ==
    frames[t] # <<>> /\ frames[t][1].key.method = "search" =>
        Len(frames[t]) = 1 /\ Searching(frames[t][1], answer[t].caller)

SearchInv == \A t \in Threads : SearchOf(t)

ReportsInv == Sound(db) /\ CallsInv /\ LockInv /\ ClockInv /\ SearchInv /\ SearchWithinSight

-----------------------------------------------------------------------------
(* Sorting                                                                 *)

\* Every set of natural numbers that is not empty has a least element.
LEMMA Smallest ==
    ASSUME NEW T \in SUBSET Nat, T # {}
    PROVE  \E x \in T : \A y \in T : x <= y
<1>1. PICK x \in T : \A y \in T : ~(<<y, x>> \in OpToRel(<, Nat))
  BY WFMin, NatLessThanWellFounded
<1>2. \A y \in T : ~(y < x)
  BY <1>1 DEF OpToRel
<1> QED BY <1>2

\* A row is put somewhere into the list.
LEMMA InsertedType ==
    ASSUME NEW S, NEW list \in Seq(S), NEW row \in S, NEW before
    PROVE  Inserted(list, row, before) \in Seq(S)
<1> DEFINE places == {i \in DOMAIN list : ~before[<<row, list[i]>>]}
           k == Cardinality(places)
<1>1. 1 \in Int /\ Len(list) \in Nat /\ DOMAIN list = 1 .. Len(list)
  OBVIOUS
<1>2. IsFiniteSet(DOMAIN list) /\ Cardinality(DOMAIN list) = Len(list)
  <2>1. IsFiniteSet(1 .. Len(list))
    BY <1>1, FS_Interval
  <2>2. Cardinality(1 .. Len(list)) = IF 1 > Len(list) THEN 0 ELSE Len(list) - 1 + 1
    BY <1>1, FS_Interval
  <2> QED BY <1>1, <2>1, <2>2
<1>3. places \subseteq DOMAIN list
  OBVIOUS
<1>4. k \in Nat /\ k <= Len(list)
  BY <1>2, <1>3, FS_Subset, FS_CardinalityType
<1> HIDE DEF k, places
<1>5. SubSeq(list, 1, k) \in Seq(S) /\ SubSeq(list, k + 1, Len(list)) \in Seq(S)
  BY <1>4
<1>6. SubSeq(list, 1, k) \o <<row>> \o SubSeq(list, k + 1, Len(list)) \in Seq(S)
  BY <1>5
<1> QED BY <1>6 DEF Inserted, k, places

Some(s) == CHOOSE x \in s : TRUE

\* What the fold makes of a set, given what h makes of the set without one row.
Folded(h, s, before) == IF s = {} THEN <<>> ELSE Inserted(h[s \ {Some(s)}], Some(s), before)

IsFold(h, S, before) == h = [s \in SUBSET S |-> Folded(h, s, before)]

Small(S, n) == {s \in SUBSET S : Cardinality(s) <= n}

LEMMA OneLess ==
    ASSUME NEW S, IsFiniteSet(S), NEW s \in SUBSET S, s # {}
    PROVE  /\ Some(s) \in s
           /\ s \ {Some(s)} \in SUBSET S
           /\ Cardinality(s) \in Nat /\ Cardinality(s \ {Some(s)}) \in Nat
           /\ Cardinality(s \ {Some(s)}) = Cardinality(s) - 1
<1>1. Some(s) \in s
  BY DEF Some
<1>2. IsFiniteSet(s)
  BY FS_Subset
<1> QED BY <1>1, <1>2, FS_RemoveElement, FS_CardinalityType

\* The recursion the fold is defined by has a solution.
LEMMA FoldExists ==
    ASSUME NEW S, IsFiniteSet(S), NEW before
    PROVE  \E h : IsFold(h, S, before)
<1> DEFINE Solved(n) == \E h : h = [s \in Small(S, n) |-> Folded(h, s, before)]
           bad == {n \in Nat : ~Solved(n)}
<1>0. \A s \in SUBSET S : IsFiniteSet(s) /\ Cardinality(s) \in Nat /\ Cardinality(s) <= Cardinality(S)
  BY FS_Subset, FS_CardinalityType
<1>1. Solved(0)
  <2> DEFINE h == [s \in Small(S, 0) |-> <<>>]
  <2>1. \A s \in Small(S, 0) : s = {}
    BY <1>0, FS_EmptySet DEF Small
  <2>2. h = [s \in Small(S, 0) |-> Folded(h, s, before)]
    BY <2>1 DEF Folded
  <2> QED BY <2>2
<1>2. ASSUME NEW n \in Nat, Solved(n)
      PROVE  Solved(n + 1)
  <2>1. PICK h : h = [s \in Small(S, n) |-> Folded(h, s, before)]
    BY <1>2
  <2> DEFINE g == [s \in Small(S, n + 1) |-> IF s \in Small(S, n) THEN h[s] ELSE Folded(h, s, before)]
  <2>2. ASSUME NEW s \in Small(S, n + 1), s # {}
        PROVE  s \ {Some(s)} \in Small(S, n)
    BY <2>2, OneLess DEF Small
  <2>3. Small(S, n) \subseteq Small(S, n + 1)
    BY <1>0 DEF Small
  <2>4. ASSUME NEW s \in Small(S, n)
        PROVE  g[s] = h[s]
    BY <2>3
  <2>5. ASSUME NEW s \in Small(S, n + 1)
        PROVE  Folded(h, s, before) = Folded(g, s, before)
    <3>1. CASE s = {}
      BY <3>1 DEF Folded
    <3>2. CASE s # {}
      <4>1. g[s \ {Some(s)}] = h[s \ {Some(s)}]
        BY <2>2, <2>4, <3>2
      <4> QED BY <3>2, <4>1 DEF Folded
    <3> QED BY <3>1, <3>2
  <2>6. ASSUME NEW s \in Small(S, n + 1)
        PROVE  g[s] = Folded(g, s, before)
    <3>1. CASE s \in Small(S, n)
      <4>1. h[s] = Folded(h, s, before)
        BY <2>1, <3>1
      <4> QED BY <2>4, <2>5, <3>1, <4>1
    <3>2. CASE s \notin Small(S, n)
      BY <2>5, <3>2
    <3> QED BY <3>1, <3>2
  <2>7. g = [s \in Small(S, n + 1) |-> Folded(g, s, before)]
    <3> HIDE DEF g
    <3>1. g = [s \in Small(S, n + 1) |-> g[s]]
      BY DEF g
    <3> QED BY <2>6, <3>1
  <2> QED BY <2>7
<1> HIDE DEF Solved
<1>3. bad = {}
  <2> SUFFICES ASSUME bad # {} PROVE FALSE
    OBVIOUS
  <2>1. PICK n \in bad : \A m \in bad : n <= m
    BY Smallest
  <2>2. n \in Nat /\ ~Solved(n) /\ n # 0
    BY <1>1, <2>1
  <2>3. n - 1 \in Nat /\ Solved(n - 1)
    BY <2>1, <2>2
  <2> QED BY <1>2, <2>2, <2>3
<1>4. Cardinality(S) \in Nat /\ Small(S, Cardinality(S)) = SUBSET S
  BY <1>0, FS_CardinalityType DEF Small
<1>5. Solved(Cardinality(S))
  BY <1>3, <1>4
<1> QED BY <1>4, <1>5 DEF Solved, IsFold

\* A set of rows that is sorted is a list of its rows.
LEMMA SortedByType ==
    ASSUME NEW rows, IsFiniteSet(rows), NEW before
    PROVE  SortedBy(rows, before) \in Seq(rows)
<1> DEFINE iter == CHOOSE h : IsFold(h, rows, before)
           bad == {n \in Nat : \E s \in SUBSET rows : Cardinality(s) = n /\ iter[s] \notin Seq(rows)}
<1>1. SortedBy(rows, before) = iter[rows]
  BY Zenon DEF SortedBy, FoldSet, MapThenFoldSet, IsFold, Folded, Some
<1>2. IsFold(iter, rows, before)
  <2>1. \E h : IsFold(h, rows, before)
    BY FoldExists
  <2> QED BY <2>1, Zenon
<1> HIDE DEF iter
<1>3. \A s \in SUBSET rows : iter[s] = Folded(iter, s, before)
  BY <1>2 DEF IsFold
<1>4. \A s \in SUBSET rows : IsFiniteSet(s) /\ Cardinality(s) \in Nat
  BY FS_Subset, FS_CardinalityType
<1>5. bad = {}
  <2> SUFFICES ASSUME bad # {} PROVE FALSE
    OBVIOUS
  <2>1. PICK n \in bad : \A m \in bad : n <= m
    BY Smallest
  <2>2. PICK s \in SUBSET rows : Cardinality(s) = n /\ iter[s] \notin Seq(rows)
    BY <2>1
  <2>3. s # {}
    <3>1. Folded(iter, {}, before) = <<>> /\ <<>> \in Seq(rows)
      BY DEF Folded
    <3> QED BY <1>3, <2>2, <3>1
  <2> DEFINE rest == s \ {Some(s)}
  <2>4. Some(s) \in rows /\ rest \in SUBSET rows /\ Cardinality(rest) \in Nat /\ Cardinality(rest) < n
    <3>1. Some(s) \in s /\ rest \in SUBSET rows /\ Cardinality(rest) \in Nat /\ Cardinality(rest) = Cardinality(s) - 1
      BY <2>3, OneLess
    <3> QED BY <1>4, <2>2, <3>1
  <2>5. iter[s \ {Some(s)}] \in Seq(rows)
    BY <2>1, <2>4
  <2>6. Inserted(iter[s \ {Some(s)}], Some(s), before) \in Seq(rows)
    BY <2>4, <2>5, InsertedType, Zenon
  <2> QED BY <1>3, <2>2, <2>3, <2>6 DEF Folded
<1> QED BY <1>1, <1>4, <1>5

-----------------------------------------------------------------------------
(* Lists                                                                   *)

LEMMA SeqFacts ==
    ASSUME NEW s, IsSeq(s)
    PROVE  Len(s) \in Nat /\ DOMAIN s = 1 .. Len(s) /\ (s # <<>> => Len(s) \in 1 .. Len(s))
<1>1. s \in Seq(ToSet(s))
  BY DEF IsSeq
<1> QED BY <1>1

LEMMA SeqIs ==
    ASSUME NEW S, NEW s \in Seq(S)
    PROVE  IsSeq(s) /\ \A i \in DOMAIN s : s[i] \in S
<1>1. \A i \in DOMAIN s : s[i] \in S /\ s[i] \in ToSet(s)
  BY DEF ToSet
<1>2. s \in Seq(ToSet(s))
  BY <1>1
<1> QED BY <1>1, <1>2 DEF IsSeq

\* A list of given length whose elements are given is one.
LEMMA SeqMade ==
    ASSUME NEW n \in Nat, NEW s, s = [i \in 1 .. n |-> s[i]]
    PROVE  IsSeq(s) /\ Len(s) = n
<1> DEFINE S == {s[i] : i \in 1 .. n}
<1>1. s \in [1 .. n -> S]
  OBVIOUS
<1>2. s \in Seq(S) /\ Len(s) = n
  BY <1>1
<1> QED BY <1>2, SeqIs

LEMMA SeqAppended ==
    ASSUME NEW s, IsSeq(s), NEW e
    PROVE  /\ IsSeq(Append(s, e)) /\ Len(Append(s, e)) = Len(s) + 1
           /\ \A i \in 1 .. Len(s) : Append(s, e)[i] = s[i]
           /\ Append(s, e)[Len(s) + 1] = e
<1> DEFINE S == ToSet(s) \cup {e}
<1>1. s \in Seq(S) /\ e \in S
  BY DEF IsSeq
<1>2. Append(s, e) \in Seq(S)
  BY <1>1
<1>3. IsSeq(Append(s, e))
  BY <1>2, SeqIs
<1> QED BY <1>1, <1>3

LEMMA SeqReplaced ==
    ASSUME NEW s, IsSeq(s), NEW k \in DOMAIN s, NEW e
    PROVE  /\ IsSeq([s EXCEPT ![k] = e]) /\ Len([s EXCEPT ![k] = e]) = Len(s)
           /\ \A i \in DOMAIN s : [s EXCEPT ![k] = e][i] = IF i = k THEN e ELSE s[i]
<1> DEFINE S == ToSet(s) \cup {e}
<1>1. s \in Seq(S) /\ e \in S
  BY DEF IsSeq
<1>2. [s EXCEPT ![k] = e] \in Seq(S)
  BY <1>1
<1>3. IsSeq([s EXCEPT ![k] = e])
  BY <1>2, SeqIs
<1> QED BY <1>1, <1>3

LEMMA SeqPart ==
    ASSUME NEW s, IsSeq(s), NEW m \in 1 .. Len(s) + 1, NEW n \in 0 .. Len(s)
    PROVE  /\ IsSeq(SubSeq(s, m, n))
           /\ \A i \in DOMAIN SubSeq(s, m, n) : m + i - 1 \in DOMAIN s /\ SubSeq(s, m, n)[i] = s[m + i - 1]
<1>1. s \in Seq(ToSet(s)) /\ Len(s) \in Nat
  BY DEF IsSeq
<1>2. SubSeq(s, m, n) \in Seq(ToSet(s))
  BY <1>1
<1>3. IsSeq(SubSeq(s, m, n))
  BY <1>2, SeqIs
<1>4. ASSUME NEW i \in DOMAIN SubSeq(s, m, n)
      PROVE  m + i - 1 \in DOMAIN s /\ SubSeq(s, m, n)[i] = s[m + i - 1]
  BY <1>1
<1> QED BY <1>3, <1>4

LEMMA SeqJoined ==
    ASSUME NEW s, IsSeq(s), NEW u, IsSeq(u)
    PROVE  /\ IsSeq(s \o u)
           /\ \A i \in DOMAIN (s \o u) : \/ \E j \in DOMAIN s : (s \o u)[i] = s[j]
                                         \/ \E j \in DOMAIN u : (s \o u)[i] = u[j]
<1> DEFINE S == ToSet(s) \cup ToSet(u)
<1>1. s \in Seq(S) /\ u \in Seq(S)
  BY DEF IsSeq
<1>2. s \o u \in Seq(S)
  BY <1>1
<1>3. IsSeq(s \o u)
  BY <1>2, SeqIs
<1>4. ASSUME NEW i \in DOMAIN (s \o u)
      PROVE  (s \o u)[i] \in S
  BY <1>2
<1>5. \A e \in S : (\E j \in DOMAIN s : e = s[j]) \/ (\E j \in DOMAIN u : e = u[j])
  BY DEF ToSet
<1> QED BY <1>3, <1>4, <1>5

LEMMA SeqTail ==
    ASSUME NEW S, NEW s \in Seq(S), s # <<>>
    PROVE  Head(s) \in S /\ Tail(s) \in Seq(S)
OBVIOUS

LEMMA SeqShort ==
    ASSUME NEW e
    PROVE  /\ IsSeq(<<>>) /\ Len(<<>>) = 0 /\ DOMAIN <<>> = {}
           /\ IsSeq(<<e>>) /\ Len(<<e>>) = 1 /\ <<e>>[1] = e /\ DOMAIN <<e>> = {1}
<1>1. <<>> \in Seq({e}) /\ <<e>> \in Seq({e})
  OBVIOUS
<1>2. IsSeq(<<>>) /\ IsSeq(<<e>>)
  BY <1>1, SeqIs
<1> QED BY <1>2

-----------------------------------------------------------------------------
(* What a step does to the calls of a thread                               *)

\* The calls of the threads but t stay as they are.
OthersStay(t) ==
    /\ DOMAIN frames' = DOMAIN frames
    /\ \A o \in Threads \ {t} : frames'[o] = frames[o]

\* Calls of t may end; those that remain keep their keys, and go on.
CallsEnd(t) ==
    /\ OthersStay(t)
    /\ IsSeq(frames'[t]) /\ Len(frames'[t]) <= Len(frames[t])
    /\ \A i \in DOMAIN frames'[t] :
           /\ FrameInv(frames'[t][i])
           /\ frames'[t][i].key = frames[t][i].key /\ frames'[t][i].phase = frames[t][i].phase

\* The innermost call of t becomes g.
TopIs(t, g) ==
    /\ OthersStay(t)
    /\ IsSeq(frames'[t]) /\ Len(frames'[t]) = Len(frames[t])
    /\ \A i \in DOMAIN frames[t] : frames'[t][i] = IF i = Len(frames[t]) THEN g ELSE frames[t][i]

LEMMA InnerFacts ==
    ASSUME CallsInv, NEW t \in Threads, frames[t] # <<>>
    PROVE  /\ Len(frames[t]) \in Nat /\ Len(frames[t]) >= 1 /\ DOMAIN frames[t] = 1 .. Len(frames[t])
           /\ Inner(t) = frames[t][Len(frames[t])] /\ FrameInv(Inner(t))
<1>1. IsSeq(frames[t])
  BY DEF CallsInv
<1>2. Len(frames[t]) \in Nat /\ DOMAIN frames[t] = 1 .. Len(frames[t]) /\ Len(frames[t]) \in DOMAIN frames[t]
  BY <1>1, SeqFacts
<1> QED BY <1>2 DEF CallsInv, Inner

LEMMA SetTopIs ==
    ASSUME CallsInv, NEW t \in Threads, frames[t] # <<>>, NEW g, SetTop(t, g)
    PROVE  TopIs(t, g)
<1>1. frames' = [frames EXCEPT ![t] = [frames[t] EXCEPT ![Len(frames[t])] = g]]
  BY DEF SetTop
<1>2. /\ DOMAIN frames' = DOMAIN frames
      /\ frames'[t] = [frames[t] EXCEPT ![Len(frames[t])] = g]
      /\ \A o \in Threads \ {t} : frames'[o] = frames[o]
  BY <1>1 DEF CallsInv
<1>3. IsSeq(frames[t]) /\ Len(frames[t]) \in DOMAIN frames[t]
  BY InnerFacts DEF CallsInv
<1> QED BY <1>2, <1>3, SeqReplaced DEF TopIs, OthersStay

LEMMA RaiseEnds ==
    ASSUME CallsInv, NEW t \in Threads, frames[t] # <<>>, frames' = [frames EXCEPT ![t] = <<>>]
    PROVE  CallsEnd(t) /\ frames'[t] = <<>>
<1>1. /\ DOMAIN frames' = DOMAIN frames /\ frames'[t] = <<>>
      /\ \A o \in Threads \ {t} : frames'[o] = frames[o]
  BY DEF CallsInv
<1>2. IsSeq(<<>>) /\ Len(<<>>) = 0 /\ DOMAIN <<>> = {}
  BY SeqShort
<1>3. IsSeq(frames'[t]) /\ Len(frames'[t]) <= Len(frames[t]) /\ DOMAIN frames'[t] = {}
  BY <1>1, <1>2, InnerFacts
<1> QED BY <1>1, <1>3 DEF CallsEnd, OthersStay

LEMMA ReturnEnds ==
    ASSUME CallsInv, NEW t \in Threads, frames[t] # <<>>,
           NEW value, NEW asOf, NEW clean, NEW by, Return(t, value, asOf, clean, by)
    PROVE  /\ CallsEnd(t) /\ Len(frames'[t]) = Len(frames[t]) - 1
           /\ \A i \in 1 .. Len(frames[t]) - 2 : frames'[t][i] = frames[t][i]
<1> DEFINE n == Len(frames[t])
           outer == frames[t][n - 1]
<1>1. n \in Nat /\ n >= 1 /\ DOMAIN frames[t] = 1 .. n /\ IsSeq(frames[t])
  BY InnerFacts DEF CallsInv
<1>2. CASE n = 1
  <2>1. frames' = [frames EXCEPT ![t] = <<>>]
    BY <1>2 DEF Return
  <2>2. CallsEnd(t) /\ frames'[t] = <<>>
    BY <2>1, RaiseEnds
  <2>3. Len(frames'[t]) = 0
    BY <2>2, SeqShort
  <2> QED BY <1>2, <2>2, <2>3
<1>3. CASE n # 1
  <2> DEFINE rest == SubSeq(frames[t], 1, n - 2)
             g == [outer EXCEPT !.got = Having(@, Inner(t).key.method, value), !.todo = Tail(@),
                                !.by = @ \cup by, !.clean = @ /\ clean /\ asOf = outer.version]
  <2>1. frames' = [frames EXCEPT ![t] = Append(rest, g)]
    BY <1>3 DEF Return
  <2>2. FrameInv(outer)
    BY <1>1, <1>3 DEF CallsInv
  <2>3. FrameInv(g) /\ g.key = outer.key /\ g.phase = outer.phase
    BY <2>2 DEF FrameInv, IsFrame
  <2> HIDE DEF g
  <2>4. IsSeq(rest) /\ Len(rest) = n - 2 /\ \A i \in 1 .. n - 2 : rest[i] = frames[t][i]
    <3>0. frames[t] \in Seq(ToSet(frames[t]))
      BY <1>1 DEF IsSeq
    <3>1. Len(frames[t]) \in Nat /\ Len(frames[t]) >= 2
      <4>1. n \in Nat /\ n >= 1
        BY <1>1
      <4> HIDE DEF n
      <4>2. n >= 2
        BY <1>3, <4>1
      <4> QED BY <4>1, <4>2 DEF n
    <3>2. rest \in Seq(ToSet(frames[t])) /\ Len(rest) = Len(frames[t]) - 2
      BY <3>0, <3>1
    <3>3. \A i \in 1 .. Len(frames[t]) - 2 : rest[i] = frames[t][i]
      BY <3>0, <3>1
    <3>4. IsSeq(rest)
      BY <3>2, SeqIs
    <3> QED BY <3>2, <3>3, <3>4
  <2> HIDE DEF rest
  <2>5. /\ IsSeq(Append(rest, g)) /\ Len(Append(rest, g)) = n - 1
        /\ \A i \in 1 .. n - 2 : Append(rest, g)[i] = frames[t][i]
        /\ Append(rest, g)[n - 1] = g
    BY <1>1, <1>3, <2>4, SeqAppended
  <2>6. frames'[t] = Append(rest, g) /\ DOMAIN frames' = DOMAIN frames /\ \A o \in Threads \ {t} : frames'[o] = frames[o]
    BY <2>1 DEF CallsInv
  <2>7. DOMAIN frames'[t] = 1 .. n - 1
    BY <2>5, <2>6, SeqFacts
  <2>8. ASSUME NEW i \in 1 .. n - 1
        PROVE  /\ FrameInv(frames'[t][i])
               /\ frames'[t][i].key = frames[t][i].key /\ frames'[t][i].phase = frames[t][i].phase
    <3>1. CASE i = n - 1
      BY <2>3, <2>5, <2>6, <3>1
    <3>2. CASE i # n - 1
      <4>1. i \in 1 .. n - 2 /\ i \in DOMAIN frames[t]
        BY <1>1, <3>2
      <4> QED BY <2>5, <2>6, <4>1 DEF CallsInv
    <3> QED BY <3>1, <3>2
  <2>9. CallsEnd(t)
    <3>1. IsSeq(frames'[t]) /\ Len(frames'[t]) <= Len(frames[t])
      BY <1>1, <2>5, <2>6
    <3>2. OthersStay(t)
      BY <2>6 DEF OthersStay
    <3> QED BY <2>7, <2>8, <3>1, <3>2 DEF CallsEnd
  <2> QED BY <2>5, <2>6, <2>9
<1> QED BY <1>2, <1>3

\* The answers of the other threads stay; that of t does while it serves a call.
AnswerStays(t) ==
    /\ DOMAIN answer' = DOMAIN answer
    /\ \A o \in Threads : o # t \/ frames'[t] # <<>> => answer'[o] = answer[o]

LEMMA ReturnAnswers ==
    ASSUME CallsInv, NEW t \in Threads, frames[t] # <<>>,
           NEW value, NEW asOf, NEW clean, NEW by, Return(t, value, asOf, clean, by)
    PROVE  AnswerStays(t)
<1>1. CASE Len(frames[t]) = 1
  BY <1>1 DEF Return, AnswerStays, CallsInv
<1>2. CASE Len(frames[t]) # 1
  BY <1>2 DEF Return, AnswerStays, CallsInv
<1> QED BY <1>1, <1>2

LEMMA RaiseAnswers ==
    ASSUME CallsInv, NEW t \in Threads, Raise(t)
    PROVE  AnswerStays(t)
BY DEF Raise, AnswerStays, CallsInv

LEMMA EndKeepsCalls ==
    ASSUME CallsInv, NEW t \in Threads, frames[t] # <<>>, CallsEnd(t), AnswerStays(t), UNCHANGED coming
    PROVE  CallsInv'
<1>1. DOMAIN frames' = Threads /\ DOMAIN coming' = Threads /\ DOMAIN answer' = Threads
  BY DEF CallsInv, CallsEnd, OthersStay, AnswerStays
<1>2. ASSUME NEW o \in Threads
      PROVE  IsSeq(frames'[o]) /\ \A i \in DOMAIN frames'[o] : FrameInv(frames'[o][i])
  BY DEF CallsInv, CallsEnd, OthersStay
<1>3. ASSUME NEW o \in Threads, frames'[o] # <<>>
      PROVE  IsCaller(answer'[o].caller)
  BY <1>3 DEF CallsInv, CallsEnd, OthersStay, AnswerStays
<1>4. ASSUME NEW o \in Threads
      PROVE  IsSeq(coming'[o]) /\ \A i \in DOMAIN coming'[o] : HasProfile(coming'[o][i].user)
  BY DEF CallsInv
<1> QED BY <1>1, <1>2, <1>3, <1>4 DEF CallsInv

LEMMA TopKeepsCalls ==
    ASSUME CallsInv, NEW t \in Threads, frames[t] # <<>>, NEW g, TopIs(t, g), FrameInv(g),
           UNCHANGED <<coming, answer>>
    PROVE  CallsInv'
<1>1. DOMAIN frames' = Threads /\ DOMAIN coming' = Threads /\ DOMAIN answer' = Threads
  BY DEF CallsInv, TopIs, OthersStay
<1>2. DOMAIN frames'[t] = DOMAIN frames[t]
  BY InnerFacts, SeqFacts DEF TopIs
<1>3. ASSUME NEW o \in Threads
      PROVE  IsSeq(frames'[o]) /\ \A i \in DOMAIN frames'[o] : FrameInv(frames'[o][i])
  BY <1>2 DEF CallsInv, TopIs, OthersStay
<1>4. ASSUME NEW o \in Threads, frames'[o] # <<>>
      PROVE  IsCaller(answer'[o].caller)
  BY <1>4 DEF CallsInv, TopIs, OthersStay
<1>5. ASSUME NEW o \in Threads
      PROVE  IsSeq(coming'[o]) /\ \A i \in DOMAIN coming'[o] : HasProfile(coming'[o][i].user)
  BY DEF CallsInv
<1> QED BY <1>1, <1>3, <1>4, <1>5 DEF CallsInv

-----------------------------------------------------------------------------
(* The locks                                                               *)

\* Nothing begins to be computed, and what is goes on under its key.
Quiet ==
    \A o \in Threads : \A i \in Computing(o)' :
        i \in Computing(o) /\ frames'[o][i].key = frames[o][i].key

LEMMA EndIsQuiet ==
    ASSUME CallsInv, NEW t \in Threads, frames[t] # <<>>, CallsEnd(t)
    PROVE  Quiet
<1>1. \A i \in DOMAIN frames'[t] : i \in DOMAIN frames[t]
  <2>1. DOMAIN frames'[t] = 1 .. Len(frames'[t]) /\ Len(frames'[t]) \in Nat
    BY SeqFacts DEF CallsEnd
  <2>2. DOMAIN frames[t] = 1 .. Len(frames[t]) /\ Len(frames[t]) \in Nat
    BY InnerFacts
  <2> QED BY <2>1, <2>2 DEF CallsEnd
<1>2. ASSUME NEW i \in Computing(t)'
      PROVE  i \in Computing(t) /\ frames'[t][i].key = frames[t][i].key
  BY <1>1 DEF Computing, Working, CallsEnd
<1>3. ASSUME NEW o \in Threads, o # t, NEW i \in Computing(o)'
      PROVE  i \in Computing(o) /\ frames'[o][i].key = frames[o][i].key
  BY <1>3 DEF Computing, CallsEnd, OthersStay
<1> QED BY <1>2, <1>3 DEF Quiet

LEMMA TopIsQuiet ==
    ASSUME CallsInv, NEW t \in Threads, frames[t] # <<>>, NEW g, TopIs(t, g), g.key = Inner(t).key,
           Working(g) /\ g.key.method \in CachedMethods => Working(Inner(t))
    PROVE  Quiet
<1>1. DOMAIN frames'[t] = DOMAIN frames[t]
  BY InnerFacts, SeqFacts DEF TopIs
<1>2. ASSUME NEW i \in Computing(t)'
      PROVE  i \in Computing(t) /\ frames'[t][i].key = frames[t][i].key
  <2>1. i \in DOMAIN frames[t] /\ Working(frames'[t][i]) /\ frames'[t][i].key.method \in CachedMethods
    BY <1>1, <1>2 DEF Computing, Working
  <2>2. CASE i = Len(frames[t])
    BY <2>1, <2>2 DEF Computing, TopIs, Inner
  <2>3. CASE i # Len(frames[t])
    BY <2>1, <2>3 DEF Computing, TopIs
  <2> QED BY <2>2, <2>3
<1>3. ASSUME NEW o \in Threads, o # t, NEW i \in Computing(o)'
      PROVE  i \in Computing(o) /\ frames'[o][i].key = frames[o][i].key
  BY <1>3 DEF Computing, TopIs, OthersStay
<1> QED BY <1>2, <1>3 DEF Quiet

LEMMA QuietKeepsLocks ==
    ASSUME LockInv, Quiet, UNCHANGED backend,
           backend = "ttl" => \A o \in Threads : \A i \in Computing(o)' : frames[o][i].key \in locked'
    PROVE  LockInv'
<1> SUFFICES ASSUME backend' = "ttl", NEW t \in Threads, NEW i \in Computing(t)'
             PROVE  /\ frames'[t][i].key \in locked'
                    /\ \A o \in Threads : \A j \in Computing(o)' :
                           frames'[o][j].key = frames'[t][i].key => o = t /\ j = i
  BY DEF LockInv
<1>1. i \in Computing(t) /\ frames'[t][i].key = frames[t][i].key
  BY DEF Quiet
<1>2. ASSUME NEW o \in Threads, NEW j \in Computing(o)', frames'[o][j].key = frames'[t][i].key
      PROVE  o = t /\ j = i
  <2>1. j \in Computing(o) /\ frames'[o][j].key = frames[o][j].key
    BY DEF Quiet
  <2>2. backend = "ttl"
    OBVIOUS
  <2>3. \A u \in Threads : \A k \in Computing(u) : frames[u][k].key = frames[t][i].key => u = t /\ k = i
    BY <1>1, <2>2 DEF LockInv
  <2>4. frames[o][j].key = frames[t][i].key
    BY <1>1, <1>2, <2>1
  <2> QED BY <2>1, <2>3, <2>4
<1> QED BY <1>1, <1>2

\* The key a computation gives back is that of no other.
LEMMA OwnKeyOnly ==
    ASSUME CallsInv, LockInv, backend = "ttl", NEW t \in Threads, NEW k \in DOMAIN frames[t], Working(frames[t][k]),
           NEW o \in Threads, NEW i \in Computing(o), o # t \/ i # k
    PROVE  frames[o][i].key # frames[t][k].key
<1>1. CASE frames[t][k].key.method \in CachedMethods
  <2>1. k \in Computing(t)
    BY <1>1 DEF Computing
  <2> QED BY <2>1 DEF LockInv
<1>2. CASE frames[t][k].key.method \notin CachedMethods
  BY <1>2 DEF Computing
<1> QED BY <1>1, <1>2

-----------------------------------------------------------------------------
(* The steps: calls and locks                                              *)

\* What NoStampede says of a step.
Single ==
    backend = "ttl" =>
        \A t \in Threads : \A i \in Computing(t)' \ Computing(t) :
            LET key == CacheKey(frames'[t][i].key)
            IN  /\ key \in DOMAIN store => store[key].expires <= now
                /\ \A o \in Threads \ {t} : \A j \in Computing(o) : CacheKey(frames[o][j].key) # key

LEMMA QuietIsSingle ==
    ASSUME Quiet
    PROVE  Single
BY DEF Quiet, Single

LEMMA SameLocks ==
    ASSUME LockInv, Quiet, UNCHANGED <<backend, locked>>
    PROVE  LockInv' /\ Single
<1>1. backend = "ttl" => \A o \in Threads : \A i \in Computing(o)' : frames[o][i].key \in locked'
  BY DEF Quiet, LockInv
<1> QED BY <1>1, QuietKeepsLocks, QuietIsSingle

LEMMA FrameFacts ==
    ASSUME NEW key
    PROVE  FrameInv(Frame(key)) /\ Frame(key).key = key /\ Frame(key).phase = "look"
BY DEF FrameInv, IsFrame, Frame, Phases

LEMMA WorkTop ==
    ASSUME CallsInv, NEW t \in Threads, frames[t] # <<>>, NEW keep, Work(t, keep)
    PROVE  \E g : TopIs(t, g) /\ FrameInv(g) /\ g.key = Inner(t).key
<1> DEFINE g == [Inner(t) EXCEPT !.phase = "work", !.keep = keep, !.started = now, !.version = changes,
                    !.clean = TRUE, !.todo = Plan(Inner(t).key, answer[t].caller)]
<1>1. SetTop(t, g)
  BY DEF Work, me
<1>2. FrameInv(Inner(t))
  BY InnerFacts
<1>3. FrameInv(g) /\ g.key = Inner(t).key
  BY <1>2 DEF FrameInv, IsFrame, Phases
<1> HIDE DEF g
<1> QED BY <1>1, <1>3, SetTopIs

LEMMA CallerFacts ==
    ASSUME NEW ask, HasProfile(ask.user)
    PROVE  IsCaller(Caller(ask))
<1>1. \E p \in Profiles : p.user = ask.user
  BY DEF HasProfile
<1>2. ProfileOf(ask.user) \in Profiles /\ ProfileOf(ask.user).user = ask.user
  BY <1>1, Zenon DEF ProfileOf
<1> QED BY <1>2 DEF IsCaller, Caller

LEMMA AskCalls ==
    ASSUME CallsInv, LockInv, NEW t \in Threads, Ask(t)
    PROVE  CallsInv' /\ LockInv' /\ Single
<1> DEFINE ask == Head(coming[t])
<1>1. IsSeq(coming[t]) /\ coming[t] # <<>> /\ frames[t] = <<>> /\ UNCHANGED <<backend, locked>>
  BY DEF CallsInv, Ask
<1>2. HasProfile(ask.user)
  <2>1. coming[t] \in Seq(ToSet(coming[t])) /\ 1 \in DOMAIN coming[t]
    BY <1>1, SeqFacts DEF IsSeq
  <2>2. ask = coming[t][1]
    BY <1>1, <2>1
  <2> QED BY <2>1, <2>2 DEF CallsInv
<1>3. IsSeq(Tail(coming[t])) /\ \A i \in DOMAIN Tail(coming[t]) : HasProfile(Tail(coming[t])[i].user)
  <2>1. coming[t] \in Seq(ToSet(coming[t]))
    BY <1>1 DEF IsSeq
  <2>2. Tail(coming[t]) \in Seq(ToSet(coming[t]))
    BY <1>1, <2>1, SeqTail
  <2>3. \A a \in ToSet(coming[t]) : HasProfile(a.user)
    BY DEF CallsInv, ToSet
  <2> QED BY <2>2, <2>3, SeqIs
<1>4. /\ DOMAIN coming' = Threads /\ coming'[t] = Tail(coming[t])
      /\ \A o \in Threads \ {t} : coming'[o] = coming[o]
  BY DEF Ask, CallsInv
<1> DEFINE f == Frame(ask.key)
<1>5. /\ DOMAIN frames' = Threads /\ DOMAIN answer' = Threads
      /\ \A o \in Threads \ {t} : frames'[o] = frames[o] /\ answer'[o] = answer[o]
      /\ frames'[t] = <<>> \/ (frames'[t] = <<f>> /\ answer'[t].caller = Caller(ask))
  <2> HIDE DEF ask
  <2>1. \/ /\ frames' = [frames EXCEPT ![t] = <<Frame(ask.key)>>]
           /\ answer' = [answer EXCEPT ![t] = [state |-> "asked", caller |-> Caller(ask)]]
        \/ /\ answer' = [answer EXCEPT ![t] = [state |-> "error", caller |-> Caller(ask), key |-> ask.key]]
           /\ UNCHANGED frames
    BY DEF Ask, ask
  <2> QED BY <1>1, <2>1 DEF CallsInv
<1> HIDE DEF ask, f
<1>6. FrameInv(f) /\ f.phase = "look"
  BY FrameFacts DEF f
<1>7. /\ IsSeq(frames'[t]) /\ \A i \in DOMAIN frames'[t] : FrameInv(frames'[t][i]) /\ frames'[t][i].phase = "look"
      /\ frames'[t] # <<>> => IsCaller(answer'[t].caller)
  <2>1. CASE frames'[t] = <<>>
    BY <2>1, SeqShort
  <2>2. CASE frames'[t] = <<f>> /\ answer'[t].caller = Caller(ask)
    BY <1>2, <1>6, <2>2, SeqShort, CallerFacts
  <2> QED BY <1>5, <2>1, <2>2
<1>8. CallsInv'
  <2>1. ASSUME NEW o \in Threads
        PROVE  /\ IsSeq(frames'[o]) /\ \A i \in DOMAIN frames'[o] : FrameInv(frames'[o][i])
               /\ IsSeq(coming'[o]) /\ \A i \in DOMAIN coming'[o] : HasProfile(coming'[o][i].user)
               /\ frames'[o] # <<>> => IsCaller(answer'[o].caller)
    <3>1. CASE o = t
      BY <1>3, <1>4, <1>7, <3>1
    <3>2. CASE o # t
      BY <1>4, <1>5, <3>2 DEF CallsInv
    <3> QED BY <3>1, <3>2
  <2> QED BY <1>4, <1>5, <2>1 DEF CallsInv
<1>9. Quiet
  <2>1. ASSUME NEW o \in Threads, NEW i \in Computing(o)'
        PROVE  i \in Computing(o) /\ frames'[o][i].key = frames[o][i].key
    <3>1. o # t
      BY <1>7, <2>1 DEF Computing, Working
    <3> QED BY <1>5, <2>1, <3>1 DEF Computing
  <2> QED BY <2>1 DEF Quiet
<1> QED BY <1>1, <1>8, <1>9, SameLocks

LEMMA LookCalls ==
    ASSUME CallsInv, LockInv, NEW t \in Threads, Look(t)
    PROVE  CallsInv' /\ LockInv' /\ Single
<1>1. frames[t] # <<>> /\ Inner(t).phase = "look" /\ UNCHANGED <<backend, coming, locked>>
  BY DEF Look
<1>2. FrameInv(Inner(t))
  BY <1>1, InnerFacts
<1>3. CASE Inner(t).key.method \notin CachedMethods
  <2>1. Work(t, FALSE) /\ UNCHANGED answer
    BY <1>3 DEF Look
  <2>2. PICK g : TopIs(t, g) /\ FrameInv(g) /\ g.key = Inner(t).key
    BY <1>1, <2>1, WorkTop
  <2>3. CallsInv'
    BY <1>1, <2>1, <2>2, TopKeepsCalls
  <2>4. Quiet
    BY <1>1, <1>3, <2>2, TopIsQuiet
  <2> QED BY <1>1, <2>3, <2>4, SameLocks
<1>4. CASE Inner(t).key.method \in CachedMethods /\ Hit(t)
  <2> DEFINE entry == store[CacheKey(Inner(t).key)]
  <2>1. Return(t, entry.value, entry.asOf, entry.clean, entry.by)
    BY <1>4 DEF Hit
  <2>2. CallsEnd(t) /\ AnswerStays(t)
    BY <1>1, <2>1, ReturnEnds, ReturnAnswers
  <2>3. CallsInv' /\ Quiet
    BY <1>1, <2>2, EndKeepsCalls, EndIsQuiet
  <2> QED BY <1>1, <2>3, SameLocks
<1>5. CASE /\ Inner(t).key.method \in CachedMethods
           /\ SetTop(t, [Inner(t) EXCEPT !.phase = "wait"]) /\ UNCHANGED answer
  <2> DEFINE g == [Inner(t) EXCEPT !.phase = "wait"]
  <2>1. FrameInv(g) /\ g.key = Inner(t).key /\ ~Working(g)
    BY <1>2, <1>5 DEF FrameInv, IsFrame, Phases, Working
  <2>2. TopIs(t, g)
    BY <1>1, <1>5, SetTopIs
  <2> HIDE DEF g
  <2>3. CallsInv' /\ Quiet
    BY <1>1, <1>5, <2>1, <2>2, TopKeepsCalls, TopIsQuiet
  <2> QED BY <1>1, <2>3, SameLocks
<1>6. CASE backend = "redis" /\ Work(t, TRUE) /\ UNCHANGED answer
  <2>1. PICK g : TopIs(t, g) /\ FrameInv(g) /\ g.key = Inner(t).key
    BY <1>1, <1>6, WorkTop
  <2>2. CallsInv'
    BY <1>1, <1>6, <2>1, TopKeepsCalls
  <2>3. LockInv' /\ Single
    BY <1>1, <1>6 DEF LockInv, Single
  <2> QED BY <2>2, <2>3
<1> QED BY <1>3, <1>4, <1>5, <1>6 DEF Look

LEMMA LookFailsCalls ==
    ASSUME CallsInv, LockInv, NEW t \in Threads, LookFails(t)
    PROVE  CallsInv' /\ LockInv' /\ Single
<1>1. /\ frames[t] # <<>> /\ backend = "redis" /\ Work(t, FALSE)
      /\ UNCHANGED <<backend, coming, answer>>
  BY DEF LookFails
<1>2. PICK g : TopIs(t, g) /\ FrameInv(g) /\ g.key = Inner(t).key
  BY <1>1, WorkTop
<1>3. CallsInv'
  BY <1>1, <1>2, TopKeepsCalls
<1>4. LockInv' /\ Single
  BY <1>1 DEF LockInv, Single
<1> QED BY <1>3, <1>4

\* A lock that is taken was free, so nobody else computes what is computed now.
LEMMA LockCalls ==
    ASSUME CallsInv, LockInv, ClockInv, NEW t \in Threads, Lock(t)
    PROVE  CallsInv' /\ LockInv' /\ Single
<1> DEFINE key == Inner(t).key
           n == Len(frames[t])
<1>1. /\ frames[t] # <<>> /\ Inner(t).phase = "wait" /\ key \notin locked
      /\ UNCHANGED <<backend, coming, store, now>>
  BY DEF Lock, CacheKey, world
<1>2. CASE Hit(t) /\ UNCHANGED locked
  <2> DEFINE entry == store[CacheKey(key)]
  <2>1. Return(t, entry.value, entry.asOf, entry.clean, entry.by)
    BY <1>2 DEF Hit
  <2>2. CallsEnd(t) /\ AnswerStays(t)
    BY <1>1, <2>1, ReturnEnds, ReturnAnswers
  <2>3. CallsInv' /\ Quiet
    BY <1>1, <2>2, EndKeepsCalls, EndIsQuiet
  <2> QED BY <1>1, <1>2, <2>3, SameLocks
<1>3. CASE ~Live(key) /\ locked' = locked \cup {key} /\ Work(t, TRUE) /\ UNCHANGED answer
  <2>1. PICK g : TopIs(t, g) /\ FrameInv(g) /\ g.key = key
    BY <1>1, <1>3, WorkTop
  <2>2. CallsInv'
    BY <1>1, <1>3, <2>1, TopKeepsCalls
  <2>3. n \in DOMAIN frames[t] /\ Inner(t) = frames[t][n] /\ ~Working(frames[t][n])
    BY <1>1, InnerFacts DEF Working
  <2>4. DOMAIN frames'[t] = DOMAIN frames[t]
    BY <1>1, <2>1, InnerFacts, SeqFacts DEF TopIs
  <2> HIDE DEF key, n
  \* what is computed after the step was so before, or is the call of t
  <2>5. ASSUME NEW o \in Threads, NEW i \in Computing(o)'
        PROVE  \/ o = t /\ i = n /\ frames'[o][i].key = key
               \/ ~(o = t /\ i = n) /\ i \in Computing(o) /\ frames'[o][i] = frames[o][i]
    <3>1. CASE o # t
      BY <2>1, <2>5, <3>1 DEF Computing, TopIs, OthersStay
    <3>2. CASE o = t /\ i = n
      BY <2>1, <2>3, <3>2 DEF TopIs, n
    <3>3. CASE o = t /\ i # n
      BY <2>1, <2>4, <2>5, <3>3 DEF Computing, TopIs, n
    <3> QED BY <3>1, <3>2, <3>3
  <2>6. ASSUME backend = "ttl", NEW o \in Threads, NEW i \in Computing(o)
        PROVE  frames[o][i].key \in locked /\ frames[o][i].key # key
    <3>1. frames[o][i].key \in locked
      BY <2>6 DEF LockInv
    <3> QED BY <1>1, <3>1
  <2>7. LockInv'
    <3> SUFFICES ASSUME backend' = "ttl", NEW u \in Threads, NEW i \in Computing(u)'
                 PROVE  /\ frames'[u][i].key \in locked'
                        /\ \A o \in Threads : \A j \in Computing(o)' :
                               frames'[o][j].key = frames'[u][i].key => o = u /\ j = i
      BY DEF LockInv
    <3>1. backend = "ttl"
      BY <1>1
    <3>2. frames'[u][i].key \in locked'
      BY <1>3, <2>5, <2>6, <3>1
    <3>3. ASSUME NEW o \in Threads, NEW j \in Computing(o)', frames'[o][j].key = frames'[u][i].key
          PROVE  o = u /\ j = i
      <4>1. CASE u = t /\ i = n
        BY <2>5, <2>6, <3>1, <3>3, <4>1
      <4>2. CASE o = t /\ j = n
        BY <2>5, <2>6, <3>1, <3>3, <4>2
      <4>3. CASE ~(u = t /\ i = n) /\ ~(o = t /\ j = n)
        <5>1. i \in Computing(u) /\ j \in Computing(o) /\ frames[o][j].key = frames[u][i].key
          BY <2>5, <3>3, <4>3
        <5> QED BY <3>1, <5>1 DEF LockInv
      <4> QED BY <4>1, <4>2, <4>3
    <3> QED BY <3>2, <3>3
  <2>8. Single
    <3> SUFFICES ASSUME backend = "ttl", NEW u \in Threads, NEW i \in Computing(u)', i \notin Computing(u)
                 PROVE  /\ frames'[u][i].key \in DOMAIN store => store[frames'[u][i].key].expires <= now
                        /\ \A o \in Threads \ {u} : \A j \in Computing(o) : frames[o][j].key # frames'[u][i].key
      BY DEF Single, CacheKey
    <3>1. frames'[u][i].key = key
      BY <2>5
    <3>2. key \in DOMAIN store => store[key].expires <= now
      <4>1. key \in DOMAIN store => ~(store[key].expires > now)
        BY <1>3 DEF Live, CacheKey
      <4>2. now \in Int /\ (key \in DOMAIN store => store[key].expires \in Int)
        BY DEF ClockInv
      <4> QED BY <4>1, <4>2
    <3> QED BY <2>6, <3>1, <3>2
  <2> QED BY <2>2, <2>7, <2>8
<1> QED BY <1>2, <1>3 DEF Lock, CacheKey

LEMMA FetchCalls ==
    ASSUME CallsInv, LockInv, NEW t \in Threads, Fetch(t)
    PROVE  CallsInv' /\ LockInv' /\ Single
<1>1. frames[t] # <<>> /\ UNCHANGED <<backend, coming, answer, locked>> /\ Working(Inner(t))
  BY DEF Fetch
<1>2. PICK got, todo, sight :
         SetTop(t, [Inner(t) EXCEPT !.got = got, !.todo = todo, !.sight = sight])
  BY DEF Fetch
<1> DEFINE g == [Inner(t) EXCEPT !.got = got, !.todo = todo, !.sight = sight]
<1>3. FrameInv(Inner(t))
  BY <1>1, InnerFacts
<1>4. FrameInv(g) /\ g.key = Inner(t).key /\ Working(g)
  BY <1>1, <1>3 DEF FrameInv, IsFrame, Working
<1>5. TopIs(t, g)
  BY <1>1, <1>2, SetTopIs
<1> HIDE DEF g
<1>6. CallsInv' /\ Quiet
  BY <1>1, <1>4, <1>5, TopKeepsCalls, TopIsQuiet
<1> QED BY <1>1, <1>6, SameLocks

LEMMA EnterCalls ==
    ASSUME CallsInv, LockInv, NEW t \in Threads, Enter(t)
    PROVE  CallsInv' /\ LockInv' /\ Single
<1> DEFINE n == Len(frames[t])
           f == Frame(Nested(Inner(t).key, Head(Inner(t).todo).for))
<1>1. /\ frames[t] # <<>> /\ UNCHANGED <<backend, coming, answer, locked>>
      /\ frames' = [frames EXCEPT ![t] = Append(frames[t], f)]
  BY DEF Enter
<1>2. n \in Nat /\ DOMAIN frames[t] = 1 .. n /\ IsSeq(frames[t])
  BY <1>1, InnerFacts DEF CallsInv
<1>3. FrameInv(f) /\ f.phase = "look"
  BY FrameFacts
<1> HIDE DEF f
<1>4. /\ DOMAIN frames' = Threads /\ frames'[t] = Append(frames[t], f)
      /\ \A o \in Threads \ {t} : frames'[o] = frames[o]
  BY <1>1 DEF CallsInv
<1>5. /\ IsSeq(frames'[t]) /\ DOMAIN frames'[t] = 1 .. n + 1
      /\ \A i \in 1 .. n : frames'[t][i] = frames[t][i]
      /\ frames'[t][n + 1] = f
  BY <1>2, <1>4, SeqAppended, SeqFacts
<1>6. ASSUME NEW i \in DOMAIN frames'[t]
      PROVE  (i \in DOMAIN frames[t] /\ frames'[t][i] = frames[t][i]) \/ frames'[t][i] = f
  BY <1>2, <1>5
<1>7. CallsInv'
  <2>1. ASSUME NEW o \in Threads
        PROVE  IsSeq(frames'[o]) /\ \A i \in DOMAIN frames'[o] : FrameInv(frames'[o][i])
    BY <1>3, <1>4, <1>5, <1>6 DEF CallsInv
  <2>2. ASSUME NEW o \in Threads
        PROVE  /\ IsSeq(coming'[o]) /\ \A i \in DOMAIN coming'[o] : HasProfile(coming'[o][i].user)
               /\ frames'[o] # <<>> => IsCaller(answer'[o].caller)
    BY <1>1, <1>4 DEF CallsInv
  <2> QED BY <1>1, <1>4, <2>1, <2>2 DEF CallsInv
<1>8. Quiet
  <2>1. ASSUME NEW o \in Threads, NEW i \in Computing(o)'
        PROVE  i \in Computing(o) /\ frames'[o][i].key = frames[o][i].key
    <3>1. CASE o = t
      BY <1>3, <1>6, <2>1, <3>1 DEF Computing, Working
    <3>2. CASE o # t
      BY <1>4, <2>1, <3>2 DEF Computing
    <3> QED BY <3>1, <3>2
  <2> QED BY <2>1 DEF Quiet
<1> QED BY <1>1, <1>7, <1>8, SameLocks

LEMMA FinishCalls ==
    ASSUME CallsInv, LockInv, NEW t \in Threads, Finish(t)
    PROVE  CallsInv' /\ LockInv' /\ Single
<1> DEFINE n == Len(frames[t])
<1>1. PICK value, asOf, clean, by : Return(t, value, asOf, clean, by)
  BY DEF Finish
<1>2. /\ frames[t] # <<>> /\ Working(Inner(t)) /\ UNCHANGED <<backend, coming>>
      /\ locked' = locked \ {Inner(t).key}
  BY DEF Finish, CacheKey
<1>3. CallsEnd(t) /\ Len(frames'[t]) = n - 1 /\ AnswerStays(t)
  BY <1>1, <1>2, ReturnEnds, ReturnAnswers
<1>4. CallsInv' /\ Quiet
  BY <1>2, <1>3, EndKeepsCalls, EndIsQuiet
<1>5. n \in DOMAIN frames[t] /\ Inner(t) = frames[t][n] /\ n \in Nat
  BY <1>2, InnerFacts
<1>6. n \notin DOMAIN frames'[t]
  <2>1. IsSeq(frames'[t])
    BY <1>3 DEF CallsEnd
  <2> QED BY <1>3, <1>5, <2>1, SeqFacts
<1>7. ASSUME backend = "ttl", NEW o \in Threads, NEW i \in Computing(o)'
      PROVE  frames[o][i].key \in locked'
  <2>1. i \in Computing(o) /\ ~(o = t /\ i = n)
    BY <1>4, <1>6 DEF Quiet, Computing
  <2>2. frames[o][i].key # Inner(t).key
    BY <1>2, <1>5, <1>7, <2>1, OwnKeyOnly
  <2>3. frames[o][i].key \in locked
    BY <1>7, <2>1 DEF LockInv
  <2> QED BY <1>2, <2>2, <2>3
<1>8. LockInv'
  BY <1>2, <1>4, <1>7, QuietKeepsLocks
<1> QED BY <1>4, <1>8, QuietIsSingle

\* An exception gives back the locks of all calls of t, and those only.
LEMMA RaiseCalls ==
    ASSUME CallsInv, LockInv, NEW t \in Threads, frames[t] # <<>>, Raise(t), locked' = Unlocked(t),
           UNCHANGED <<backend, coming>>
    PROVE  CallsInv' /\ LockInv' /\ Single
<1>1. CallsEnd(t) /\ frames'[t] = <<>> /\ AnswerStays(t)
  BY RaiseEnds, RaiseAnswers DEF Raise
<1>2. CallsInv' /\ Quiet
  BY <1>1, EndKeepsCalls, EndIsQuiet
<1>3. ASSUME backend = "ttl", NEW o \in Threads, NEW i \in Computing(o)'
      PROVE  frames[o][i].key \in locked'
  <2>1. i \in Computing(o) /\ o # t
    BY <1>1, <1>2, SeqShort DEF Quiet, Computing
  <2>2. frames[o][i].key \in locked
    BY <1>3, <2>1 DEF LockInv
  <2>3. frames[o][i].key \notin HeldBy(t)
    <3> SUFFICES ASSUME frames[o][i].key \in HeldBy(t) PROVE FALSE
      OBVIOUS
    <3>1. PICK k \in DOMAIN frames[t] : Working(frames[t][k]) /\ frames[t][k].key = frames[o][i].key
      BY DEF HeldBy, CacheKey, ToSet
    <3> QED BY <1>3, <2>1, <3>1, OwnKeyOnly
  <2> QED BY <2>2, <2>3 DEF Unlocked
<1>4. LockInv'
  BY <1>2, <1>3, QuietKeepsLocks
<1> QED BY <1>2, <1>4, QuietIsSingle

LEMMA StillCalls ==
    ASSUME CallsInv, LockInv, UNCHANGED <<frames, coming, answer, backend, locked>>
    PROVE  CallsInv' /\ LockInv' /\ Single
<1>1. CallsInv'
  BY DEF CallsInv
<1>2. Quiet
  BY DEF Quiet, Computing
<1> QED BY <1>1, <1>2, SameLocks

LEMMA NextCalls ==
    ASSUME CallsInv, LockInv, ClockInv, [Next]_vars
    PROVE  CallsInv' /\ LockInv' /\ Single
<1>1. ASSUME NEW t \in Threads, Ask(t)
      PROVE  CallsInv' /\ LockInv' /\ Single
  BY <1>1, AskCalls
<1>2. ASSUME NEW t \in Threads, Look(t) \/ LookFails(t) \/ Lock(t)
      PROVE  CallsInv' /\ LockInv' /\ Single
  BY <1>2, LookCalls, LookFailsCalls, LockCalls
<1>3. ASSUME NEW t \in Threads, Fetch(t) \/ Enter(t) \/ Finish(t)
      PROVE  CallsInv' /\ LockInv' /\ Single
  BY <1>3, FetchCalls, EnterCalls, FinishCalls
<1>4. ASSUME NEW t \in Threads, Refused(t) \/ Fail(t)
      PROVE  CallsInv' /\ LockInv' /\ Single
  <2>1. frames[t] # <<>> /\ Raise(t) /\ locked' = Unlocked(t) /\ UNCHANGED <<backend, coming>>
    BY <1>4 DEF Refused, Fail
  <2> QED BY <2>1, RaiseCalls
<1>5. ASSUME Write \/ Tick \/ UNCHANGED vars
      PROVE  CallsInv' /\ LockInv' /\ Single
  <2>1. UNCHANGED <<frames, coming, answer, backend, locked>>
    BY <1>5 DEF Write, Tick, vars, Written, create_request, Decide, escalate_stage, withdraw_request, activate_definition
  <2> QED BY <2>1, StillCalls
<1> QED BY <1>1, <1>2, <1>3, <1>4, <1>5 DEF Next, Proceed

\* The clock and the instants at which entries expire are numbers.
LEMMA NextClock ==
    ASSUME ClockInv, [Next]_vars
    PROVE  ClockInv'
<1>1. CASE now' \in Int /\ UNCHANGED store
  BY <1>1 DEF ClockInv
<1>2. ASSUME UNCHANGED <<now, store>>
      PROVE  ClockInv'
  BY <1>2 DEF ClockInv
<1>3. ASSUME NEW t \in Threads, Finish(t)
      PROVE  ClockInv'
  <2>1. now' = now
    BY <1>3 DEF Finish, world
  <2>2. CASE UNCHANGED store
    BY <1>2, <2>1, <2>2
  <2>3. CASE store' # store
    <3>1. PICK key, entry : store' = Having(store, key, entry) /\ entry.expires = now + TTL
      BY <1>3, <2>3 DEF Finish
    <3>2. /\ DOMAIN store' = {key} \cup DOMAIN store
          /\ \A k \in DOMAIN store' : store'[k] = IF k = key THEN entry ELSE store[k]
      BY <3>1 DEF Having
    <3>3. now + TTL \in Int
      BY ClockAssumption DEF ClockInv
    <3> QED BY <2>1, <3>1, <3>2, <3>3 DEF ClockInv
  <2> QED BY <2>2, <2>3
<1>4. ASSUME NEW t \in Threads, Ask(t) \/ Look(t) \/ LookFails(t) \/ Lock(t) \/ Fetch(t) \/ Enter(t) \/ Refused(t) \/ Fail(t)
      PROVE  UNCHANGED <<now, store>>
  BY <1>4 DEF Ask, Look, LookFails, Lock, Fetch, Enter, Refused, Fail, world
<1>5. ASSUME Write
      PROVE  UNCHANGED <<now, store>>
  BY <1>5 DEF Write, Written, create_request, Decide, escalate_stage, withdraw_request, activate_definition
<1>6. ASSUME Tick
      PROVE  now' \in Int /\ UNCHANGED store
  BY <1>6 DEF Tick, ClockInv
<1>7. ASSUME UNCHANGED vars
      PROVE  UNCHANGED <<now, store>>
  BY <1>7 DEF vars
<1> QED BY <1>1, <1>2, <1>3, <1>4, <1>5, <1>6, <1>7 DEF Next, Proceed

LEMMA InitCalls ==
    ASSUME Init
    PROVE  CallsInv /\ LockInv /\ ClockInv
<1>1. \A t \in Threads : frames[t] = <<>>
  BY DEF Init
<1>2. PICK load \in Loads : coming = load
  BY DEF Init
<1>3. CallsInv
  <2>1. DOMAIN frames = Threads /\ DOMAIN answer = Threads
    BY DEF Init
  <2>2. DOMAIN coming = Threads
    BY <1>2, LoadsAssumption
  <2>3. ASSUME NEW t \in Threads
        PROVE  IsSeq(coming[t]) /\ \A i \in DOMAIN coming[t] : HasProfile(coming[t][i].user)
    <3>1. coming[t] \in Seq(ToSet(coming[t])) /\ \A ask \in ToSet(coming[t]) : HasProfile(ask.user)
      BY <1>2, LoadsAssumption
    <3> QED BY <3>1, SeqIs
  <2>4. ASSUME NEW t \in Threads
        PROVE  IsSeq(frames[t]) /\ DOMAIN frames[t] = {}
    BY <1>1, SeqShort
  <2> QED BY <1>1, <2>1, <2>2, <2>3, <2>4 DEF CallsInv
<1>4. LockInv
  <2>1. ASSUME NEW t \in Threads
        PROVE  DOMAIN frames[t] = {}
    BY <1>1, SeqShort
  <2> QED BY <2>1 DEF LockInv, Computing
<1>5. ClockInv
  <2>1. store = <<>> /\ now = Begin
    BY DEF Init
  <2>2. DOMAIN store = {}
    BY <2>1, SeqShort
  <2> QED BY <2>1, <2>2, ClockAssumption DEF ClockInv
<1> QED BY <1>3, <1>4, <1>5

\* TTLCache.get_or_compute: a value is computed only when no live one is stored
\* and nobody else computes it, for every number of threads, every load, however
\* reports call each other, and whatever calls fail on the way.
THEOREM ComputedOnce == Spec => NoStampede
<1>1. Init => CallsInv /\ LockInv /\ ClockInv
  BY InitCalls
<1>2. CallsInv /\ LockInv /\ ClockInv /\ [Next]_vars => (CallsInv /\ LockInv /\ ClockInv)'
  BY NextCalls, NextClock
<1>3. CallsInv /\ LockInv /\ ClockInv /\ [Next]_vars => [Single]_vars
  BY NextCalls
<1> QED BY <1>1, <1>2, <1>3, PTL DEF Spec, NoStampede, Single

-----------------------------------------------------------------------------
(* The tables                                                              *)

\* Tables that keep every request under its id and company, and whose new rows
\* refer to what is there, are sound.
LEMMA SoundStep ==
    ASSUME Sound(db), NEW tables, DOMAIN tables = {"requests", "stages", "definitions", "audit"},
           IsFiniteSet(tables.requests), IsFiniteSet(tables.stages),
           IsFiniteSet(tables.definitions), IsFiniteSet(tables.audit),
           \A r \in db.requests : \E q \in tables.requests : q.id = r.id /\ q.company = r.company,
           \A r \in tables.requests :
               /\ {"id", "company", "requester"} \subseteq DOMAIN r
               /\ \A p \in Profiles : p.user = r.requester => p.company = r.company,
           \A s \in tables.stages :
               /\ {"request", "company"} \subseteq DOMAIN s
               /\ \/ \E o \in db.stages : o.request = s.request /\ o.company = s.company
                  \/ \E r \in tables.requests : r.id = s.request /\ r.company = s.company
    PROVE  Sound(tables)
<1>1. \A name \in DOMAIN tables : IsFiniteSet(tables[name])
  OBVIOUS
<1>2. ASSUME NEW s \in tables.stages
      PROVE  \E r \in tables.requests : r.id = s.request /\ r.company = s.company
  <2>1. ASSUME NEW o \in db.stages, o.request = s.request, o.company = s.company
        PROVE  \E r \in tables.requests : r.id = s.request /\ r.company = s.company
    <3>1. PICK q \in db.requests : q.id = o.request /\ q.company = o.company
      BY DEF Sound
    <3> QED BY <2>1, <3>1
  <2> QED BY <2>1
<1> QED BY <1>1, <1>2 DEF Sound

LEMMA SoundFacts ==
    ASSUME Sound(db)
    PROVE  /\ DOMAIN db = {"requests", "stages", "definitions", "audit"}
           /\ IsFiniteSet(db.requests) /\ IsFiniteSet(db.stages)
           /\ IsFiniteSet(db.definitions) /\ IsFiniteSet(db.audit)
BY DEF Sound

\* One row takes the place of another, and one is added.
LEMMA FiniteSwap ==
    ASSUME NEW S, IsFiniteSet(S), NEW old, NEW new
    PROVE  IsFiniteSet(S \cup {new}) /\ IsFiniteSet((S \ {old}) \cup {new})
<1>1. IsFiniteSet(S \ {old})
  BY FS_Subset
<1> QED BY <1>1, FS_AddElement

LEMMA RequestFound ==
    ASSUME Sound(db), NEW s \in db.stages
    PROVE  RequestOf(db, s.request) \in db.requests /\ RequestOf(db, s.request).id = s.request
<1>1. \E r \in db.requests : r.id = s.request
  BY DEF Sound
<1> QED BY <1>1 DEF RequestOf

LEMMA CreateSound ==
    ASSUME Sound(db), create_request
    PROVE  Sound(db')
<1>1. PICK a \in Arrivals, d \in {e \in db.definitions : e.active} :
        LET r == [id |-> Cardinality(db.requests) + 1, company |-> a.company, requester |-> a.requester,
                  department |-> a.department, type |-> a.type, status |-> "pending", created |-> now,
                  completed |-> Never, deleted |-> FALSE, definition |-> d.id, text |-> a.text]
        IN  /\ d.company = a.company /\ d.type = a.type
            /\ Written([db EXCEPT !.requests = @ \cup {r}, !.stages = @ \cup {StageRow(r, d, 1)},
                                  !.audit = @ \cup {Log("REQUEST_CREATED", a.requester, r.id)}])
  BY Zenon DEF create_request
<1> DEFINE r == [id |-> Cardinality(db.requests) + 1, company |-> a.company, requester |-> a.requester,
                 department |-> a.department, type |-> a.type, status |-> "pending", created |-> now,
                 completed |-> Never, deleted |-> FALSE, definition |-> d.id, text |-> a.text]
           log == Log("REQUEST_CREATED", a.requester, r.id)
           after == [db EXCEPT !.requests = @ \cup {r}, !.stages = @ \cup {StageRow(r, d, 1)}, !.audit = @ \cup {log}]
<1>2. db' = after
  <2>1. Written(after)
    BY <1>1, Zenon
  <2> HIDE DEF after
  <2> QED BY <2>1 DEF Written
<1>3. /\ DOMAIN db' = {"requests", "stages", "definitions", "audit"}
      /\ db'.requests = db.requests \cup {r} /\ db'.stages = db.stages \cup {StageRow(r, d, 1)}
      /\ db'.definitions = db.definitions /\ db'.audit = db.audit \cup {log}
  BY <1>2, SoundFacts
<1> HIDE DEF r, log
<1>4. /\ IsFiniteSet(db'.requests) /\ IsFiniteSet(db'.stages)
      /\ IsFiniteSet(db'.definitions) /\ IsFiniteSet(db'.audit)
  <2>1. /\ IsFiniteSet(db.requests \cup {r}) /\ IsFiniteSet(db.stages \cup {StageRow(r, d, 1)})
        /\ IsFiniteSet(db.audit \cup {log})
    BY SoundFacts, FS_AddElement
  <2> QED BY <1>3, <2>1, SoundFacts
<1>5. /\ {"id", "company", "requester"} \subseteq DOMAIN r
      /\ \A p \in Profiles : p.user = r.requester => p.company = r.company
  BY ArrivalsAssumption DEF r
<1>6. ASSUME NEW q \in db'.requests
      PROVE  /\ {"id", "company", "requester"} \subseteq DOMAIN q
             /\ \A p \in Profiles : p.user = q.requester => p.company = q.company
  BY <1>3, <1>5 DEF Sound
<1>7. LET s == StageRow(r, d, 1)
      IN  {"request", "company"} \subseteq DOMAIN s /\ s.request = r.id /\ s.company = r.company
  BY DEF StageRow
<1>8. ASSUME NEW s \in db'.stages
      PROVE  /\ {"request", "company"} \subseteq DOMAIN s
             /\ \/ \E o \in db.stages : o.request = s.request /\ o.company = s.company
                \/ \E q \in db'.requests : q.id = s.request /\ q.company = s.company
  BY <1>3, <1>7 DEF Sound
<1> QED BY <1>3, <1>4, <1>6, <1>8, SoundStep

LEMMA DecideSound ==
    ASSUME Sound(db), Decide
    PROVE  Sound(db')
<1>1. PICK s, r, q, z, more, log, actor, status :
        /\ s \in db.stages
        /\ r = RequestOf(db, s.request)
        /\ \/ q = [r EXCEPT !.status = "in_review"]
           \/ q = [r EXCEPT !.status = IF status = "approved" THEN "completed" ELSE "rejected", !.completed = now]
        /\ z = [s EXCEPT !.status = status, !.decided = now, !.by = actor]
        /\ more = {} \/ \E d, order : more = {StageRow(r, d, order)}
        /\ db' = [db EXCEPT !.stages = (@ \ {s}) \cup {z} \cup more, !.requests = (@ \ {r}) \cup {q},
                            !.audit = @ \cup {log}]
  <2>1. PICK s \in db.stages, p \in Profiles, status \in {"approved", "rejected"} :
          LET r == RequestOf(db, s.request)
              d == DefinitionOf(r)
              more == status = "approved" /\ s.order < Len(d.stages)
              ended == [r EXCEPT !.status = IF status = "approved" THEN "completed" ELSE "rejected", !.completed = now]
          IN  /\ s.status = "pending" /\ p.company = s.company /\ p.role # "employee"
              /\ s.to = p.user \/ s.role = p.role
              /\ Written([db EXCEPT
                   !.stages = (@ \ {s}) \cup {[s EXCEPT !.status = status, !.decided = now, !.by = p.user]}
                              \cup (IF more THEN {StageRow(r, d, s.order + 1)} ELSE {}),
                   !.requests = (@ \ {r}) \cup {IF more THEN [r EXCEPT !.status = "in_review"] ELSE ended},
                   !.audit = @ \cup {Log(IF status = "approved" THEN "STAGE_APPROVED" ELSE "STAGE_REJECTED",
                                         p.user, r.id)}])
    BY Zenon DEF Decide
  <2> DEFINE r == RequestOf(db, s.request)
             d == DefinitionOf(r)
             goes == status = "approved" /\ s.order < Len(d.stages)
             more == IF goes THEN {StageRow(r, d, s.order + 1)} ELSE {}
             ended == [r EXCEPT !.status = IF status = "approved" THEN "completed" ELSE "rejected", !.completed = now]
             q == IF goes THEN [r EXCEPT !.status = "in_review"] ELSE ended
             z == [s EXCEPT !.status = status, !.decided = now, !.by = p.user]
             log == Log(IF status = "approved" THEN "STAGE_APPROVED" ELSE "STAGE_REJECTED", p.user, r.id)
             after == [db EXCEPT !.stages = (@ \ {s}) \cup {z} \cup more, !.requests = (@ \ {r}) \cup {q},
                                 !.audit = @ \cup {log}]
  <2>2. db' = after
    <3>1. Written(after)
      BY <2>1, Zenon
    <3> HIDE DEF after
    <3> QED BY <3>1 DEF Written
  <2>3. q = [r EXCEPT !.status = "in_review"] \/ q = ended
    OBVIOUS
  <2>4. more = {} \/ \E e, order : more = {StageRow(r, e, order)}
    OBVIOUS
  <2> HIDE DEF more, q, d, goes, log
  <2> QED BY <2>1, <2>2, <2>3, <2>4
<1>2. r \in db.requests /\ r.id = s.request
  BY <1>1, RequestFound
<1>3. {"id", "company", "requester"} \subseteq DOMAIN r /\ {"request", "company"} \subseteq DOMAIN s
  BY <1>1, <1>2 DEF Sound
<1>4. /\ q.id = r.id /\ q.company = r.company /\ q.requester = r.requester
      /\ {"id", "company", "requester"} \subseteq DOMAIN q
  BY <1>1, <1>3
<1>5. z.request = s.request /\ z.company = s.company /\ {"request", "company"} \subseteq DOMAIN z
  BY <1>1, <1>3
<1>6. ASSUME NEW x \in more
      PROVE  x.request = r.id /\ x.company = r.company /\ {"request", "company"} \subseteq DOMAIN x
  BY <1>1 DEF StageRow
<1>7. /\ DOMAIN db' = {"requests", "stages", "definitions", "audit"}
      /\ db'.requests = (db.requests \ {r}) \cup {q} /\ db'.stages = (db.stages \ {s}) \cup {z} \cup more
      /\ db'.definitions = db.definitions /\ db'.audit = db.audit \cup {log}
  BY <1>1, SoundFacts
<1>8. /\ IsFiniteSet(db'.requests) /\ IsFiniteSet(db'.stages)
      /\ IsFiniteSet(db'.definitions) /\ IsFiniteSet(db'.audit)
  <2>1. IsFiniteSet(more)
    <3>1. CASE more = {}
      BY <3>1, FS_EmptySet
    <3>2. CASE \E d, order : more = {StageRow(r, d, order)}
      BY <3>2, FS_Singleton
    <3> QED BY <1>1, <3>1, <3>2
  <2>2. /\ IsFiniteSet((db.stages \ {s}) \cup {z}) /\ IsFiniteSet((db.requests \ {r}) \cup {q})
        /\ IsFiniteSet(db.audit \cup {log})
    BY SoundFacts, FiniteSwap
  <2>3. IsFiniteSet(((db.stages \ {s}) \cup {z}) \cup more)
    BY <2>1, <2>2, FS_Union
  <2> QED BY <1>7, <2>2, <2>3, SoundFacts
<1>9. ASSUME NEW x \in db.requests
      PROVE  \E y \in db'.requests : y.id = x.id /\ y.company = x.company
  BY <1>4, <1>7
<1>10. ASSUME NEW x \in db'.requests
       PROVE  /\ {"id", "company", "requester"} \subseteq DOMAIN x
              /\ \A p \in Profiles : p.user = x.requester => p.company = x.company
  <2>1. CASE x = q
    BY <1>2, <1>4, <2>1 DEF Sound
  <2>2. CASE x # q
    BY <1>7, <2>2 DEF Sound
  <2> QED BY <2>1, <2>2
<1>11. ASSUME NEW x \in db'.stages
       PROVE  /\ {"request", "company"} \subseteq DOMAIN x
              /\ \/ \E o \in db.stages : o.request = x.request /\ o.company = x.company
                 \/ \E y \in db'.requests : y.id = x.request /\ y.company = x.company
  <2>1. CASE x \in more
    BY <1>4, <1>6, <1>7, <2>1
  <2>2. CASE x = z
    BY <1>1, <1>5, <2>2
  <2>3. CASE x \in db.stages
    BY <2>3 DEF Sound
  <2> QED BY <1>7, <2>1, <2>2, <2>3
<1> QED BY <1>7, <1>8, <1>9, <1>10, <1>11, SoundStep

LEMMA EscalateSound ==
    ASSUME Sound(db), escalate_stage
    PROVE  Sound(db')
<1>1. PICK s, log :
        /\ s \in db.stages
        /\ db' = [db EXCEPT !.stages = (@ \ {s}) \cup {[s EXCEPT !.to = Unset, !.role = "admin"]},
                            !.audit = @ \cup {log}]
  BY DEF escalate_stage, Written
<1> DEFINE z == [s EXCEPT !.to = Unset, !.role = "admin"]
<1>2. {"request", "company"} \subseteq DOMAIN s
  BY <1>1 DEF Sound
<1>3. z.request = s.request /\ z.company = s.company /\ {"request", "company"} \subseteq DOMAIN z
  BY <1>2
<1> HIDE DEF z
<1>4. /\ DOMAIN db' = {"requests", "stages", "definitions", "audit"}
      /\ db'.requests = db.requests /\ db'.stages = (db.stages \ {s}) \cup {z}
      /\ db'.definitions = db.definitions /\ db'.audit = db.audit \cup {log}
  BY <1>1, SoundFacts DEF z
<1>5. /\ IsFiniteSet(db'.requests) /\ IsFiniteSet(db'.stages)
      /\ IsFiniteSet(db'.definitions) /\ IsFiniteSet(db'.audit)
  <2>1. IsFiniteSet((db.stages \ {s}) \cup {z}) /\ IsFiniteSet(db.audit \cup {log})
    BY SoundFacts, FiniteSwap
  <2> QED BY <1>4, <2>1, SoundFacts
<1>6. ASSUME NEW x \in db'.stages
      PROVE  /\ {"request", "company"} \subseteq DOMAIN x
             /\ \E o \in db.stages : o.request = x.request /\ o.company = x.company
  BY <1>1, <1>3, <1>4 DEF Sound
<1>7. \A r \in db'.requests :
          /\ {"id", "company", "requester"} \subseteq DOMAIN r
          /\ \A p \in Profiles : p.user = r.requester => p.company = r.company
  BY <1>4 DEF Sound
<1> QED BY <1>4, <1>5, <1>6, <1>7, SoundStep

LEMMA WithdrawSound ==
    ASSUME Sound(db), withdraw_request
    PROVE  Sound(db')
<1>1. PICK r, log :
        /\ r \in db.requests
        /\ db' = [db EXCEPT !.requests = (@ \ {r}) \cup {[r EXCEPT !.deleted = TRUE]}, !.audit = @ \cup {log}]
  BY DEF withdraw_request, Written
<1> DEFINE q == [r EXCEPT !.deleted = TRUE]
<1>2. {"id", "company", "requester"} \subseteq DOMAIN r
  BY <1>1 DEF Sound
<1>3. /\ q.id = r.id /\ q.company = r.company /\ q.requester = r.requester
      /\ {"id", "company", "requester"} \subseteq DOMAIN q
  BY <1>2
<1> HIDE DEF q
<1>4. /\ DOMAIN db' = {"requests", "stages", "definitions", "audit"}
      /\ db'.requests = (db.requests \ {r}) \cup {q} /\ db'.stages = db.stages
      /\ db'.definitions = db.definitions /\ db'.audit = db.audit \cup {log}
  BY <1>1, SoundFacts DEF q
<1>5. /\ IsFiniteSet(db'.requests) /\ IsFiniteSet(db'.stages)
      /\ IsFiniteSet(db'.definitions) /\ IsFiniteSet(db'.audit)
  <2>1. IsFiniteSet((db.requests \ {r}) \cup {q}) /\ IsFiniteSet(db.audit \cup {log})
    BY SoundFacts, FiniteSwap
  <2> QED BY <1>4, <2>1, SoundFacts
<1>6. \A x \in db.requests : \E y \in db'.requests : y.id = x.id /\ y.company = x.company
  BY <1>3, <1>4
<1>7. ASSUME NEW x \in db'.requests
      PROVE  /\ {"id", "company", "requester"} \subseteq DOMAIN x
             /\ \A p \in Profiles : p.user = x.requester => p.company = x.company
  <2>1. CASE x = q
    BY <1>1, <1>3, <2>1 DEF Sound
  <2>2. CASE x # q
    BY <1>4, <2>2 DEF Sound
  <2> QED BY <2>1, <2>2
<1>8. ASSUME NEW x \in db'.stages
      PROVE  /\ {"request", "company"} \subseteq DOMAIN x
             /\ \E o \in db.stages : o.request = x.request /\ o.company = x.company
  BY <1>4 DEF Sound
<1> QED BY <1>4, <1>5, <1>6, <1>7, <1>8, SoundStep

LEMMA ActivateSound ==
    ASSUME Sound(db), activate_definition
    PROVE  Sound(db')
<1>1. PICK d \in db.definitions :
        db' = [db EXCEPT !.definitions =
                  {[e EXCEPT !.active = IF e.company = d.company /\ e.type = d.type THEN e.id = d.id ELSE @] : e \in @}]
  BY DEF activate_definition, Written
<1> DEFINE new == {[e EXCEPT !.active = IF e.company = d.company /\ e.type = d.type THEN e.id = d.id ELSE @] :
                      e \in db.definitions}
<1>2. /\ DOMAIN db' = {"requests", "stages", "definitions", "audit"}
      /\ db'.requests = db.requests /\ db'.stages = db.stages /\ db'.definitions = new /\ db'.audit = db.audit
  BY <1>1, SoundFacts
<1>3. IsFiniteSet(new)
  <2> DEFINE change == [e \in db.definitions |->
                           [e EXCEPT !.active = IF e.company = d.company /\ e.type = d.type THEN e.id = d.id ELSE @]]
  <2>1. new = {change[e] : e \in db.definitions}
    OBVIOUS
  <2>2. change \in Surjection(db.definitions, new)
    BY DEF Surjection
  <2> QED BY <2>2, SoundFacts, FS_Surjection
<1> HIDE DEF new
<1>4. \A r \in db'.requests :
          /\ {"id", "company", "requester"} \subseteq DOMAIN r
          /\ \A p \in Profiles : p.user = r.requester => p.company = r.company
  BY <1>2 DEF Sound
<1>5. \A x \in db'.stages :
          /\ {"request", "company"} \subseteq DOMAIN x
          /\ \E o \in db.stages : o.request = x.request /\ o.company = x.company
  BY <1>2 DEF Sound
<1> QED BY <1>2, <1>3, <1>4, <1>5, SoundFacts, SoundStep

\* Every write leaves the rows of one request in one company.
LEMMA NextSound ==
    ASSUME Sound(db), [Next]_vars
    PROVE  Sound(db')
<1>1. ASSUME Write
      PROVE  Sound(db')
  BY <1>1, CreateSound, DecideSound, EscalateSound, WithdrawSound, ActivateSound DEF Write
<1>2. ASSUME NEW t \in Threads, Ask(t) \/ Proceed(t)
      PROVE  db' = db
  BY <1>2 DEF Proceed, Ask, Look, LookFails, Lock, Fetch, Enter, Finish, Refused, Fail, world
<1>3. ASSUME Tick \/ UNCHANGED vars
      PROVE  db' = db
  BY <1>3 DEF Tick, vars
<1> QED BY <1>1, <1>2, <1>3 DEF Next

-----------------------------------------------------------------------------
(* What a search reads                                                     *)

LEMMA PageType ==
    ASSUME NEW S, NEW rows \in Seq(S)
    PROVE  FirstPage(rows) \in Seq(S)
<1> DEFINE last == IF 1 * MAX_PAGE_SIZE < Len(rows) THEN 1 * MAX_PAGE_SIZE ELSE Len(rows)
<1>1. MAX_PAGE_SIZE \in Nat \ {0} /\ Len(rows) \in Nat
  BY PageAssumption
<1>2. last \in 0 .. Len(rows) /\ (1 - 1) * MAX_PAGE_SIZE + 1 = 1
  BY <1>1
<1> HIDE DEF last
<1>3. SubSeq(rows, 1, last) \in Seq(S)
  BY <1>2
<1> QED BY <1>2, <1>3 DEF FirstPage, paginate, last

\* Newest first, oldest first, by id, by rank, or in any order: a list of the rows
LEMMA OrderedType ==
    ASSUME NEW rows, IsFiniteSet(rows)
    PROVE  Newest(rows) \in Seq(rows) /\ Oldest(rows) \in Seq(rows) /\ ById(rows) \in Seq(rows) /\ Listed(rows) \in Seq(rows)
<1>1. \A before : SortedBy(rows, before) \in Seq(rows)
  BY SortedByType
<1>2. Newest(rows) \in Seq(rows)
  BY <1>1, Zenon DEF Newest, Sorted
<1>3. Oldest(rows) \in Seq(rows)
  BY <1>1, Zenon DEF Oldest, Sorted
<1>4. ById(rows) \in Seq(rows)
  BY <1>1, Zenon DEF ById, Sorted
<1>5. Listed(rows) \in Seq(rows)
  BY <1>1, Zenon DEF Listed, Sorted
<1> QED BY <1>2, <1>3, <1>4, <1>5

\* A list made of one that is given, one element of each
LEMMA ShowableList ==
    ASSUME NEW S, NEW rows \in Seq(S), NEW list, list = [i \in DOMAIN rows |-> list[i]],
           NEW sight, NEW p, \A i \in DOMAIN rows : rows[i] \in S => Showable(list[i], sight, p)
    PROVE  AllShowable(list, sight, p)
<1>1. Len(rows) \in Nat /\ DOMAIN rows = 1 .. Len(rows) /\ \A i \in DOMAIN rows : rows[i] \in S
  OBVIOUS
<1>2. IsSeq(list) /\ DOMAIN list = DOMAIN rows
  BY <1>1, SeqMade
<1> QED BY <1>1, <1>2 DEF AllShowable

LEMMA ShowableJoined ==
    ASSUME NEW sight, NEW p, NEW a, AllShowable(a, sight, p), NEW b, AllShowable(b, sight, p)
    PROVE  AllShowable(a \o b, sight, p)
BY SeqJoined DEF AllShowable

\* A list whose elements are found at the places of another
LEMMA ShowablePlaces ==
    ASSUME NEW sight, NEW p, NEW list, AllShowable(list, sight, p), NEW places \in SUBSET DOMAIN list,
           NEW order \in Seq(places), NEW arranged, arranged = [i \in DOMAIN order |-> list[order[i]]]
    PROVE  AllShowable(arranged, sight, p)
<1>1. arranged = [i \in DOMAIN order |-> arranged[i]]
  OBVIOUS
<1>2. \A i \in DOMAIN order : order[i] \in places => Showable(arranged[i], sight, p)
  BY DEF AllShowable
<1> QED BY <1>1, <1>2, ShowableList

LEMMA ShowableMore ==
    ASSUME NEW list, NEW sight, NEW p, AllShowable(list, sight, p), NEW more, sight \subseteq more
    PROVE  AllShowable(list, more, p)
BY DEF AllShowable, Showable

\* What the rule about viewing a request lets p see
LEMMA Seen ==
    ASSUME NEW p, NEW r \in db.requests, r.company = p.company,
           \/ p.role = "admin"
           \/ r.requester = p.user
           \/ p.role = "approver" /\ \E s \in db.stages : s.request = r.id /\ (s.to = p.user \/ s.role = p.role)
    PROVE  r.id \in Viewable(p)
<1>1. Sees(p, r)
  BY DEF Sees, _authorize_view, authorize_request_view, _ensure_not_expired, can_view_request,
         _is_assigned_to_any_stage
<1> QED BY <1>1 DEF Viewable

LEMMA StageSeen ==
    ASSUME Sound(db), NEW p, p.role \in {"approver", "admin"},
           NEW s \in db.stages, s.company = p.company, s.to = p.user \/ s.role = p.role
    PROVE  s.request \in Viewable(p)
<1>1. PICK r \in db.requests : r.id = s.request /\ r.company = s.company
  BY DEF Sound
<1>2. CASE p.role = "admin"
  BY <1>1, <1>2, Seen
<1>3. CASE p.role = "approver"
  BY <1>1, <1>3, Seen
<1> QED BY <1>2, <1>3

\* The stages the queue of p lists
LEMMA QueueType ==
    ASSUME Sound(db), NEW p
    PROVE  list_pending_for_approver(db, p.company, p.user, p.role)
               \in Seq({s \in db.stages : s.company = p.company /\ (s.to = p.user \/ s.role = p.role)})
<1> DEFINE rows == {s \in OfCompany(db.stages, p.company) : s.status = "pending" /\ (s.to = p.user \/ s.role = p.role)}
           all == {s \in db.stages : s.company = p.company /\ (s.to = p.user \/ s.role = p.role)}
<1>1. IsFiniteSet(rows)
  BY SoundFacts, FS_Subset DEF OfCompany
<1>2. Oldest(rows) \in Seq(rows)
  BY <1>1, OrderedType
<1>3. rows \subseteq all
  BY DEF OfCompany
<1> HIDE DEF rows, all
<1>4. Oldest(rows) \in Seq(all)
  BY <1>2, <1>3
<1> QED BY <1>4 DEF list_pending_for_approver, rows, all

\* The requests p lists, out of those with the given ids
LEMMA RequestsType ==
    ASSUME Sound(db), NEW p, NEW ids
    PROVE  list_requests(db, Whole(p.company), Anything, Mine(p), ids, FALSE)
               \in Seq({r \in db.requests : r.company = p.company /\ Given(Mine(p), r.requester) /\ r.id \in ids})
<1> DEFINE rows == Requested(db, Whole(p.company), Anything, Mine(p), ids, FALSE)
           all == {r \in db.requests : r.company = p.company /\ Given(Mine(p), r.requester) /\ r.id \in ids}
<1>1. rows \subseteq all
  BY DEF Requested, OfCompany, Whole
<1>2. IsFiniteSet(rows)
  BY <1>1, SoundFacts, FS_Subset
<1>3. Newest(rows) \in Seq(rows)
  BY <1>2, OrderedType
<1> HIDE DEF rows, all
<1>4. Newest(rows) \in Seq(all)
  BY <1>1, <1>3
<1> QED BY <1>4 DEF list_requests, rows, all

\* A request that p lists, alone or within what is in sight
LEMMA ListedSeen ==
    ASSUME NEW p, IsCaller(p), NEW sight, Viewable(p) \subseteq sight,
           NEW r \in db.requests, r.company = p.company, Given(Mine(p), r.requester),
           r.id \in sight \/ p.role # "approver"
    PROVE  r.id \in sight
<1>1. CASE p.role = "employee"
  <2>1. r.requester = p.user
    BY <1>1, ProfilesAssumption DEF Mine, Given, IsCaller
  <2> QED BY <2>1, Seen
<1>2. CASE p.role = "admin"
  BY <1>2, Seen
<1> QED BY <1>1, <1>2, ProfilesAssumption DEF UserRole, IsCaller

-----------------------------------------------------------------------------
(* What each read of a search finds                                        *)

LEMMA RequestsShowable ==
    ASSUME Sound(db), NEW p, IsCaller(p), NEW sight, Viewable(p) \subseteq sight,
           NEW ids, ids \subseteq sight \/ p.role # "approver"
    PROVE  AllShowable(_search_requests(db, p, ids), sight, p)
<1> DEFINE hits == {r \in Requested(db, Whole(p.company), Anything, Mine(p), ids, FALSE) : r.text = "hit"}
           S == {r \in db.requests : r.company = p.company /\ Given(Mine(p), r.requester) /\ r.id \in ids}
           rows == FirstPage(Newest(hits))
           list == _search_requests(db, p, ids)
<1>1. hits \subseteq S
  BY DEF Requested, OfCompany, Whole
<1>2. IsFiniteSet(hits)
  BY <1>1, SoundFacts, FS_Subset
<1>3. rows \in Seq(hits)
  BY <1>2, OrderedType, PageType
<1>4. list = [i \in DOMAIN rows |-> Item("request", rows[i], rows[i].id, rows[i].text)]
  BY Zenon DEF _search_requests, search_requests, MapSeq
<1> HIDE DEF hits, rows, list
<1>5. list = [i \in DOMAIN rows |-> list[i]]
  BY <1>4
<1>6. ASSUME NEW i \in DOMAIN rows, rows[i] \in hits
      PROVE  Showable(list[i], sight, p)
  <2>1. rows[i].id \in sight
    BY <1>1, <1>6, ListedSeen
  <2>2. list[i].request = rows[i].id
    BY <1>4 DEF Item
  <2> QED BY <2>1, <2>2 DEF Showable
<1> QED BY <1>3, <1>5, <1>6, ShowableList DEF list

LEMMA ApprovalsShowable ==
    ASSUME NEW p, NEW sight, NEW stages, IsSeq(stages), \A i \in DOMAIN stages : stages[i].request \in sight
    PROVE  AllShowable(_search_approvals(db, stages), sight, p)
<1> DEFINE Title(s) == LET r == RequestOf(db, s.request) IN IF r.deleted THEN "miss" ELSE r.text
           scored == [i \in DOMAIN stages |-> Item("approval", stages[i], stages[i].request, Title(stages[i]))]
           places == {i \in DOMAIN scored : scored[i].score >= _MIN_APPROVAL_SCORE}
           Best(i, j) == scored[i].score > scored[j].score \/ (~(scored[j].score > scored[i].score) /\ i < j)
           order == SortedBy(places, [pair \in places \X places |-> Best(pair[1], pair[2])])
           arranged == [i \in DOMAIN order |-> scored[order[i]]]
<1>1. _search_approvals(db, stages) = FirstPage(arranged)
  BY Zenon DEF _search_approvals, Arranged, MapSeq, Sorted
<1>2. \A i \in DOMAIN stages : scored[i].request = stages[i].request
  BY DEF Item
<1> HIDE DEF Title
<1>3. AllShowable(scored, sight, p)
  <2>1. stages \in Seq(ToSet(stages)) /\ scored = [i \in DOMAIN stages |-> scored[i]]
    BY DEF IsSeq
  <2> HIDE DEF scored
  <2>2. \A i \in DOMAIN stages : Showable(scored[i], sight, p)
    BY <1>2 DEF Showable
  <2> QED BY <2>1, <2>2, ShowableList
<1>4. places \in SUBSET DOMAIN scored /\ IsFiniteSet(places)
  <2>1. Len(stages) \in Nat /\ DOMAIN scored = 1 .. Len(stages)
    BY SeqFacts
  <2>2. IsFiniteSet(1 .. Len(stages))
    BY <2>1, FS_Interval
  <2>3. places \subseteq 1 .. Len(stages)
    BY <2>1
  <2> QED BY <2>1, <2>2, <2>3, FS_Subset
<1>5. order \in Seq(places)
  BY <1>4, SortedByType
<1> HIDE DEF order, places, scored
<1>6. AllShowable(arranged, sight, p)
  BY <1>3, <1>4, <1>5, ShowablePlaces
<1> HIDE DEF arranged
<1>7. FirstPage(arranged) \in Seq(ToSet(arranged))
  BY <1>6, PageType DEF AllShowable, IsSeq
<1>8. AllShowable(FirstPage(arranged), sight, p)
  <2>1. \A e \in ToSet(arranged) : Showable(e, sight, p)
    BY <1>6 DEF AllShowable, ToSet
  <2> QED BY <1>7, <2>1, SeqIs DEF AllShowable
<1> QED BY <1>1, <1>8

\* What belongs to no request is of the company of p.
LEMMA CompanyShowable ==
    ASSUME Sound(db), NEW p, NEW sight
    PROVE  /\ AllShowable(_search_workflows(db, p), sight, p)
           /\ AllShowable(_search_users(p), sight, p)
           /\ AllShowable(_search_departments(p), sight, p)
<1>1. AllShowable(_search_workflows(db, p), sight, p)
  <2> DEFINE active == p.role # "admin"
             S == {d \in OfCompany(db.definitions, p.company) :
                      /\ active => d.active
                      /\ Reaches("workflow_definitions", p.bound, workflow_definitions_select(p, d))}
             rows == FirstPage(ById(S))
             list == _search_workflows(db, p)
  <2>1. IsFiniteSet(S)
    BY SoundFacts, FS_Subset DEF OfCompany
  <2>2. \A d \in S : d.company = p.company
    BY DEF OfCompany
  <2>3. list = [i \in DOMAIN rows |-> [kind |-> "workflow", id |-> rows[i].id, request |-> 0,
                                       company |-> rows[i].company, score |-> 2, created |-> 0]]
    BY Zenon DEF _search_workflows, search_definitions, MapSeq
  <2> HIDE DEF S
  <2>4. rows \in Seq(S)
    BY <2>1, OrderedType, PageType
  <2> HIDE DEF rows, list
  <2>5. list = [i \in DOMAIN rows |-> list[i]]
    BY <2>3
  <2>6. \A i \in DOMAIN rows : rows[i] \in S => Showable(list[i], sight, p)
    BY <2>2, <2>3 DEF Showable
  <2> QED BY <2>4, <2>5, <2>6, ShowableList DEF list
<1>2. AllShowable(_search_users(p), sight, p)
  <2> DEFINE S == OfCompany(Profiles, p.company)
             people == SortedBy(S, [pair \in S \X S |-> pair[1].rank < pair[2].rank])
             rows == FirstPage(people)
             list == _search_users(p)
  <2>1. IsFiniteSet(S)
    BY ProfilesAssumption, FS_Subset DEF OfCompany
  <2>2. \A q \in S : q.company = p.company
    BY DEF OfCompany
  <2>3. list = [i \in DOMAIN rows |-> [kind |-> "user", id |-> rows[i].rank, request |-> 0,
                                       company |-> rows[i].company, score |-> 2, created |-> 0]]
    BY Zenon DEF _search_users, People, Sorted, MapSeq
  <2> HIDE DEF S
  <2>4. rows \in Seq(S)
    BY <2>1, SortedByType, PageType
  <2> HIDE DEF rows, list
  <2>5. list = [i \in DOMAIN rows |-> list[i]]
    BY <2>3
  <2>6. \A i \in DOMAIN rows : rows[i] \in S => Showable(list[i], sight, p)
    BY <2>2, <2>3 DEF Showable
  <2> QED BY <2>4, <2>5, <2>6, ShowableList DEF list
<1>3. AllShowable(_search_departments(p), sight, p)
  <2> DEFINE people == OfCompany(Profiles, p.company)
             names == {q.department : q \in people}
             S == {[kind |-> "department", id |-> d, request |-> 0, company |-> p.company, score |-> 2, created |-> 0] :
                      d \in names}
             made == [q \in people |-> [kind |-> "department", id |-> q.department, request |-> 0, company |-> p.company,
                                        score |-> 2, created |-> 0]]
  <2>1. IsFiniteSet(S)
    <3>1. IsFiniteSet(people)
      BY ProfilesAssumption, FS_Subset DEF OfCompany
    <3>2. S = {made[q] : q \in people}
      <4> HIDE DEF people
      <4> QED OBVIOUS
    <3> HIDE DEF people, S, made
    <3>3. made \in Surjection(people, S)
      BY <3>2 DEF Surjection, made
    <3> QED BY <3>1, <3>3, FS_Surjection
  <2>2. \A d \in S : d.request = 0 /\ d.company = p.company
    OBVIOUS
  <2>3. _search_departments(p) = FirstPage(Listed(S))
    BY Zenon DEF _search_departments
  <2> HIDE DEF S
  <2>4. FirstPage(Listed(S)) \in Seq(S)
    BY <2>1, OrderedType, PageType
  <2>5. \A d \in S : Showable(d, sight, p)
    BY <2>2 DEF Showable
  <2> QED BY <2>3, <2>4, <2>5, SeqIs DEF AllShowable
<1> QED BY <1>1, <1>2, <1>3

LEMMA MaterialShowable ==
    ASSUME Sound(db), NEW p, NEW sight, Viewable(p) \subseteq sight,
           NEW ids, ids \subseteq sight \/ p.role = "admin", NEW kind \in {"comment", "attachment"}
    PROVE  AllShowable(Material(db, p, kind, ids), sight, p)
<1> DEFINE StagesOf(r) == {s \in db.stages : s.request = r.id}
           S == {r \in db.requests :
                    /\ r.id \in ids /\ r.text = "hit"
                    /\ Reaches(MaterialTable[kind], p.bound, material_select(p, r, StagesOf(r)))}
           rows == FirstPage(Newest(S))
           list == Material(db, p, kind, ids)
<1>1. IsFiniteSet(S)
  BY SoundFacts, FS_Subset
<1>2. ASSUME NEW r \in S
      PROVE  r.id \in sight \/ (p.role = "admin" /\ ~p.bound)
  <2>1. r \in db.requests /\ r.id \in ids
    OBVIOUS
  <2>2. ~p.bound \/ r.company = p.company
    BY DEF Reaches, _client, TenantRepositories, MaterialTable, material_select
  <2> QED BY <2>1, <2>2, Seen
<1>3. list = [i \in DOMAIN rows |-> Item(kind, rows[i], rows[i].id, rows[i].text)]
  BY Zenon DEF Material, MapSeq
<1> HIDE DEF S
<1>4. rows \in Seq(S)
  BY <1>1, OrderedType, PageType
<1> HIDE DEF rows, list
<1>5. list = [i \in DOMAIN rows |-> list[i]]
  BY <1>3
<1>6. \A i \in DOMAIN rows : rows[i] \in S => Showable(list[i], sight, p)
  BY <1>2, <1>3 DEF Showable, Item
<1> QED BY <1>4, <1>5, <1>6, ShowableList DEF list

LEMMA AuditShowable ==
    ASSUME Sound(db), NEW p, NEW sight, NEW ids, ids \subseteq sight \/ p.role = "admin"
    PROVE  AllShowable(_search_audit_entries(db, ids), sight, p)
<1> DEFINE S == {e \in db.audit : e.request \in ids}
           rows == FirstPage(Newest(S))
           list == _search_audit_entries(db, ids)
<1>1. IsFiniteSet(S)
  BY SoundFacts, FS_Subset
<1>2. list = [i \in DOMAIN rows |-> Item("audit_entry", rows[i], rows[i].request, "hit")]
  BY Zenon DEF _search_audit_entries, MapSeq
<1>3. \A e \in S : e.request \in ids
  OBVIOUS
<1> HIDE DEF S
<1>4. rows \in Seq(S)
  BY <1>1, OrderedType, PageType
<1> HIDE DEF rows, list
<1>5. list = [i \in DOMAIN rows |-> list[i]]
  BY <1>2
<1>6. \A i \in DOMAIN rows : rows[i] \in S => Showable(list[i], sight, p)
  BY <1>2, <1>3 DEF Showable, Item
<1> QED BY <1>4, <1>5, <1>6, ShowableList DEF list

LEMMA NotificationsShowable ==
    ASSUME Sound(db), NEW p, IsCaller(p), NEW sight, Viewable(p) \subseteq sight
    PROVE  AllShowable(_search_notifications(db, p), sight, p)
<1> DEFINE S == {r \in db.requests :
                    /\ r.requester = p.user /\ r.text = "hit"
                    /\ \E s \in db.stages : s.request = r.id /\ s.decided # Never}
           rows == FirstPage(Newest(S))
           list == _search_notifications(db, p)
<1>1. IsFiniteSet(S)
  BY SoundFacts, FS_Subset
<1>2. ASSUME NEW r \in S
      PROVE  r.id \in sight
  <2>1. r \in db.requests /\ r.requester = p.user /\ r.company = p.company
    BY DEF Sound, IsCaller
  <2> QED BY <2>1, Seen
<1>3. list = [i \in DOMAIN rows |-> Item("notification", rows[i], rows[i].id, rows[i].text)]
  BY Zenon DEF _search_notifications, MapSeq
<1> HIDE DEF S
<1>4. rows \in Seq(S)
  BY <1>1, OrderedType, PageType
<1> HIDE DEF rows, list
<1>5. list = [i \in DOMAIN rows |-> list[i]]
  BY <1>3
<1>6. \A i \in DOMAIN rows : rows[i] \in S => Showable(list[i], sight, p)
  BY <1>2, <1>3 DEF Showable, Item
<1> QED BY <1>4, <1>5, <1>6, ShowableList DEF list

\* A step of the plan: what it finds is in sight, once the requests p sees now are.
LEMMA AnswerShowable ==
    ASSUME Sound(db), NEW p, IsCaller(p), NEW f, FoundInv(f, p), NEW sight, f.sight \subseteq sight,
           Viewable(p) \subseteq sight, NEW step, StepInv(step, f, p), NEW key, step.read \in ENTITY_TYPES
    PROVE  AllShowable(Answered(key, p, step, f.got), sight, p)
<1> DEFINE ids == IF step.free THEN RequestIds(db) ELSE step.ids
           all == Answered(key, p, step, f.got)
<1>1. step.free \in BOOLEAN /\ (step.free \/ step.ids \subseteq sight)
  BY DEF StepInv, IsStep
<1>2. CASE step.read = "request"
  <2>1. all = _search_requests(db, p, ids)
    BY <1>2 DEF Answered
  <2>2. ids \subseteq sight \/ p.role # "approver"
    BY <1>1, <1>2 DEF StepInv
  <2> HIDE DEF ids
  <2> QED BY <2>1, <2>2, RequestsShowable
<1>3. CASE step.read = "approval"
  <2>1. all = _search_approvals(db, f.got.queue)
    BY <1>3 DEF Answered
  <2>2. IsSeq(f.got.queue) /\ \A i \in DOMAIN f.got.queue : f.got.queue[i].request \in sight
    BY <1>3 DEF StepInv, FoundInv
  <2> QED BY <2>1, <2>2, ApprovalsShowable
<1>4. CASE step.read \in {"workflow", "user", "department"}
  <2>1. all \in {_search_workflows(db, p), _search_users(p), _search_departments(p)}
    BY <1>4 DEF Answered
  <2> QED BY <2>1, CompanyShowable
<1>5. CASE step.read \in {"comment", "attachment"}
  <2>1. all = Material(db, p, step.read, ids)
    BY <1>5 DEF Answered
  <2>2. ids \subseteq sight \/ p.role = "admin"
    BY <1>1, <1>5 DEF StepInv, ScopedKinds
  <2> DEFINE kind == step.read
  <2>3. kind \in {"comment", "attachment"}
    BY <1>5
  <2> HIDE DEF ids
  <2>4. AllShowable(Material(db, p, kind, ids), sight, p)
    <3> HIDE DEF kind
    <3> QED BY <2>2, <2>3, MaterialShowable
  <2> QED BY <2>1, <2>4
<1>6. CASE step.read = "audit_entry"
  <2> DEFINE which == IF step.free THEN ids \cup {0} ELSE ids
  <2>1. all = _search_audit_entries(db, which)
    BY <1>6 DEF Answered
  <2>2. which \subseteq sight \/ p.role = "admin"
    BY <1>1, <1>6 DEF StepInv, ScopedKinds
  <2> HIDE DEF which
  <2> QED BY <2>1, <2>2, AuditShowable
<1>7. CASE step.read = "notification"
  <2>1. all = _search_notifications(db, p)
    BY <1>7 DEF Answered
  <2> QED BY <2>1, NotificationsShowable
<1> QED BY <1>2, <1>3, <1>4, <1>5, <1>6, <1>7 DEF ENTITY_TYPES

LEMMA QueueSeen ==
    ASSUME Sound(db), NEW p, p.role \in {"approver", "admin"}
    PROVE  LET queue == FirstPage(list_pending_for_approver(db, p.company, p.user, p.role))
           IN  IsSeq(queue) /\ \A i \in DOMAIN queue : queue[i].request \in Viewable(p)
<1> DEFINE S == {s \in db.stages : s.company = p.company /\ (s.to = p.user \/ s.role = p.role)}
           queue == FirstPage(list_pending_for_approver(db, p.company, p.user, p.role))
<1>1. \A s \in S : s.request \in Viewable(p)
  BY StageSeen
<1> HIDE DEF S
<1>2. queue \in Seq(S)
  BY QueueType, PageType DEF S
<1> HIDE DEF queue
<1>3. IsSeq(queue) /\ \A i \in DOMAIN queue : queue[i].request \in Viewable(p)
  BY <1>1, <1>2, SeqIs
<1> QED BY <1>3 DEF queue

LEMMA GatheredFound ==
    ASSUME Sound(db), NEW p, IsCaller(p), NEW f, FoundInv(f, p), NEW sight, f.sight \subseteq sight,
           Viewable(p) \subseteq sight, NEW step, StepInv(step, f, p), NEW key,
           NEW g, g.got = Gathered(key, p, step, f.got), g.sight = sight
    PROVE  FoundInv(g, p) /\ DOMAIN g.got = IF step.read \in {"assigned", "visible"} THEN DOMAIN f.got
                                            ELSE DOMAIN f.got \cup {step.read}
<1>1. /\ \A kind \in ENTITY_TYPES \cap DOMAIN f.got : AllShowable(f.got[kind], sight, p)
      /\ "queue" \in DOMAIN f.got =>
             IsSeq(f.got.queue) /\ \A i \in DOMAIN f.got.queue : f.got.queue[i].request \in sight
  BY ShowableMore DEF FoundInv
<1>2. step.read \in SearchReadNames /\ step.read \notin PagedReads /\ step.read \notin {"contexts", "definition_contexts"}
  BY DEF StepInv, IsStep, SearchReadNames, ENTITY_TYPES, PagedReads
<1>3. CASE step.read \in {"assigned", "visible"}
  <2>1. g.got = f.got
    BY <1>2, <1>3 DEF Gathered
  <2> QED BY <1>1, <1>3, <2>1 DEF FoundInv
<1>4. CASE step.read \notin {"assigned", "visible"}
  <2> DEFINE new == Answered(key, p, step, f.got)
  <2>1. g.got = Having(f.got, step.read, new)
    BY <1>2, <1>4 DEF Gathered
  <2>2. step.read \in ENTITY_TYPES => AllShowable(new, sight, p)
    BY AnswerShowable
  <2>3. step.read = "queue" => IsSeq(new) /\ \A i \in DOMAIN new : new[i].request \in sight
    <3>1. ASSUME step.read = "queue"
          PROVE  new = FirstPage(list_pending_for_approver(db, p.company, p.user, p.role))
      BY <3>1 DEF Answered
    <3>2. step.read = "queue" => p.role \in {"approver", "admin"}
      BY DEF StepInv
    <3> HIDE DEF new
    <3> QED BY <3>1, <3>2, QueueSeen
  <2> HIDE DEF new
  <2>4. /\ DOMAIN g.got = DOMAIN f.got \cup {step.read}
        /\ \A k \in DOMAIN g.got : g.got[k] = IF k = step.read THEN new ELSE f.got[k]
    BY <2>1 DEF Having
  <2>5. \A kind \in ENTITY_TYPES \cap DOMAIN g.got : AllShowable(g.got[kind], sight, p)
    BY <1>1, <2>2, <2>4
  <2>6. "queue" \in DOMAIN g.got =>
            IsSeq(g.got.queue) /\ \A i \in DOMAIN g.got.queue : g.got.queue[i].request \in sight
    BY <1>1, <2>3, <2>4
  <2> QED BY <1>4, <2>4, <2>5, <2>6 DEF FoundInv
<1> QED BY <1>3, <1>4

LEMMA OneMore ==
    ASSUME NEW g, NEW p, NEW new, StepInv(new, g, p), NEW more, more \in {<<>>, <<new>>}
    PROVE  AllSteps(more, g, p)
BY SeqShort DEF AllSteps

\* What a step calls for is restricted to requests in sight.
LEMMA FollowingInv ==
    ASSUME Sound(db), NEW p, IsCaller(p), NEW f, NEW step, StepInv(step, f, p),
           NEW g, f.sight \subseteq g.sight, Viewable(p) \subseteq g.sight,
           step.read = "queue" => "queue" \in DOMAIN g.got, NEW key
    PROVE  AllSteps(Following(step, key, p, g.got), g, p)
<1> DEFINE more == Following(step, key, p, g.got)
<1>1. /\ step.read \in SearchReadNames /\ step.free \in BOOLEAN
      /\ step.read \notin PagedReads /\ step.read \notin {"contexts", "definition_contexts"}
  BY DEF StepInv, IsStep, SearchReadNames, ENTITY_TYPES, PagedReads
<1>2. CASE step.read = "assigned"
  <2> DEFINE ids == AssignedRequests(db, p)
             new == [Step(IF step.for \in ScopedKinds THEN "visible" ELSE step.for, step.for)
                        EXCEPT !.ids = ids, !.free = FALSE]
  <2>1. more \in {<<>>, <<new>>}
    BY <1>1, <1>2 DEF Following, If
  <2>2. p.role = "approver" /\ step.for \in {"request"} \cup ScopedKinds
    BY <1>2 DEF StepInv
  <2>3. ids \subseteq g.sight
    <3> DEFINE queue == FirstPage(list_pending_for_approver(db, p.company, p.user, p.role))
    <3>1. ids = {s.request : s \in ToSet(queue)}
      BY Zenon DEF AssignedRequests, FirstPage
    <3>2. \A i \in DOMAIN queue : queue[i].request \in Viewable(p)
      BY <2>2, QueueSeen
    <3> HIDE DEF queue
    <3> QED BY <3>1, <3>2 DEF ToSet
  <2> HIDE DEF ids
  <2>4. StepInv(new, g, p)
    BY <2>2, <2>3 DEF StepInv, IsStep, Step, SearchReadNames, ENTITY_TYPES, ScopedKinds
  <2> HIDE DEF new
  <2> QED BY <2>1, <2>4, OneMore
<1>3. CASE step.read = "visible"
  <2> DEFINE found == IF step.free THEN RequestIds(db) ELSE step.ids
             rows == FirstPage(list_requests(db, Whole(p.company), Anything, Mine(p), found, FALSE))
             ids == {r.id : r \in ToSet(rows)}
             new == [Step(step.for, step.for) EXCEPT !.ids = ids, !.free = FALSE]
  <2>1. more \in {<<>>, <<new>>}
    BY <1>1, <1>3 DEF Following, If
  <2>2. step.for \in ScopedKinds /\ (step.free \/ step.ids \subseteq g.sight) /\ (step.free => p.role = "employee")
    BY <1>3 DEF StepInv
  <2>3. ids \subseteq g.sight
    <3> DEFINE S == {r \in db.requests : r.company = p.company /\ Given(Mine(p), r.requester) /\ r.id \in found}
    <3>1. ASSUME NEW r \in S
          PROVE  r.id \in g.sight
      <4>1. r.id \in g.sight \/ p.role # "approver"
        BY <1>1, <2>2
      <4> QED BY <4>1, ListedSeen
    <3> HIDE DEF found, S
    <3>2. rows \in Seq(S)
      BY RequestsType, PageType DEF S
    <3> HIDE DEF rows
    <3>3. \A i \in DOMAIN rows : rows[i] \in S
      BY <3>2, SeqIs
    <3> QED BY <3>1, <3>3 DEF ToSet
  <2> HIDE DEF ids
  <2>4. StepInv(new, g, p)
    BY <2>2, <2>3 DEF StepInv, IsStep, Step, SearchReadNames, ENTITY_TYPES, ScopedKinds
  <2> HIDE DEF new
  <2> QED BY <2>1, <2>4, OneMore
<1>4. CASE step.read = "queue"
  <2> DEFINE new == Step("approval", "approval")
  <2>1. more \in {<<>>, <<new>>}
    BY <1>1, <1>4 DEF Following, If
  <2>2. StepInv(new, g, p)
    BY <1>4 DEF StepInv, IsStep, Step, SearchReadNames, ENTITY_TYPES, ScopedKinds
  <2> HIDE DEF new
  <2> QED BY <2>1, <2>2, OneMore
<1>5. CASE step.read \notin {"assigned", "visible", "queue"}
  <2>1. more = <<>>
    BY <1>1, <1>5 DEF Following
  <2> QED BY <2>1, SeqShort DEF AllSteps
<1> QED BY <1>2, <1>3, <1>4, <1>5

\* The plan of a search: an employee reads the own requests, an approver the
\* queue, before anything that is not restricted by itself.
LEMMA PlanInv ==
    ASSUME NEW p, IsCaller(p), NEW key, key.method = "search", NEW g
    PROVE  AllSteps(Plan(key, p), g, p)
<1> DEFINE kinds == Searched(p, key.types)
           S == {SearchRead(p, kind) : kind \in kinds}
<1>1. kinds \subseteq ENTITY_TYPES /\ \A kind \in kinds : kind = "approval" => p.role \in {"approver", "admin"}
  BY DEF Searched, Planned
<1>2. Plan(key, p) = Listed(S)
  BY DEF Plan, SummaryOf
<1>3. ASSUME NEW kind \in kinds
      PROVE  StepInv(SearchRead(p, kind), g, p)
  <2>1. p.role \in UserRole
    BY ProfilesAssumption DEF IsCaller
  <2>2. CASE kind = "request"
    BY <2>1, <2>2 DEF SearchRead, StepInv, IsStep, Step, SearchReadNames, ENTITY_TYPES, ScopedKinds, UserRole
  <2>3. CASE kind \in ScopedKinds
    BY <2>1, <2>3 DEF SearchRead, StepInv, IsStep, Step, SearchReadNames, ENTITY_TYPES, ScopedKinds, UserRole, Unrestricted
  <2>4. CASE kind = "approval"
    BY <1>1, <2>4 DEF SearchRead, StepInv, IsStep, Step, SearchReadNames, ENTITY_TYPES, ScopedKinds
  <2>5. CASE kind \in {"workflow", "user", "department", "notification"}
    BY <2>5 DEF SearchRead, StepInv, IsStep, Step, SearchReadNames, ENTITY_TYPES, ScopedKinds
  <2> QED BY <1>1, <2>2, <2>3, <2>4, <2>5 DEF ENTITY_TYPES, ScopedKinds
<1>4. IsFiniteSet(S)
  <2>1. IsFiniteSet(ENTITY_TYPES)
    <3>1. ASSUME NEW x, NEW y, NEW z
          PROVE  IsFiniteSet({x, y, z})
      <4>1. IsFiniteSet({x}) /\ IsFiniteSet({x} \cup {y}) /\ IsFiniteSet(({x} \cup {y}) \cup {z})
        BY FS_Singleton, FS_AddElement
      <4>2. ({x} \cup {y}) \cup {z} = {x, y, z}
        OBVIOUS
      <4> QED BY <4>1, <4>2
    <3> DEFINE one == {"request", "approval", "workflow"}
               two == {"user", "comment", "audit_entry"}
               three == {"department", "notification", "attachment"}
    <3>2. IsFiniteSet(one) /\ IsFiniteSet(two) /\ IsFiniteSet(three)
      BY <3>1
    <3>3. ENTITY_TYPES = (one \cup two) \cup three
      BY DEF ENTITY_TYPES
    <3> HIDE DEF one, two, three
    <3>4. IsFiniteSet(one \cup two) /\ IsFiniteSet((one \cup two) \cup three)
      BY <3>2, FS_Union
    <3> QED BY <3>3, <3>4
  <2>2. IsFiniteSet(kinds)
    BY <1>1, <2>1, FS_Subset
  <2> HIDE DEF kinds
  <2> DEFINE made == [kind \in kinds |-> SearchRead(p, kind)]
  <2>3. made \in Surjection(kinds, S)
    BY DEF Surjection
  <2> QED BY <2>2, <2>3, FS_Surjection
<1> HIDE DEF S
<1>5. Listed(S) \in Seq(S)
  BY <1>4, OrderedType
<1>6. \A s \in S : StepInv(s, g, p)
  BY <1>3 DEF S
<1> QED BY <1>2, <1>5, <1>6, SeqIs DEF AllSteps

\* Merging shows nothing that has not been found.
LEMMA MergedShowable ==
    ASSUME NEW items, NEW sight, NEW p, AllShowable(items, sight, p)
    PROVE  AllShowable(Merged(items), sight, p)
<1> DEFINE Best(a, b) == a.score > b.score \/ (a.score = b.score /\ a.created > b.created)
           places == DOMAIN items
           First(i, j) == Best(items[i], items[j]) \/ (~Best(items[j], items[i]) /\ i < j)
           order == SortedBy(places, [pair \in places \X places |-> First(pair[1], pair[2])])
           arranged == [i \in DOMAIN order |-> items[order[i]]]
<1>1. Merged(items) = arranged
  BY Zenon DEF Merged, Arranged, MapSeq, Sorted
<1>2. IsFiniteSet(places)
  <2>1. Len(items) \in Nat /\ places = 1 .. Len(items)
    BY SeqFacts DEF AllShowable
  <2>2. IsFiniteSet(1 .. Len(items))
    BY <2>1, FS_Interval
  <2> QED BY <2>1, <2>2
<1>3. order \in Seq(places)
  BY <1>2, SortedByType
<1> HIDE DEF order
<1>4. AllShowable(arranged, sight, p)
  BY <1>3, ShowablePlaces
<1> QED BY <1>1, <1>4

LEMMA ResultShowable ==
    ASSUME NEW f, NEW p, FoundInv(f, p)
    PROVE  AllShowable(SearchResult(f.got), f.sight, p)
<1> DEFINE F(kind) == Found(f.got, kind)
           A(list) == AllShowable(list, f.sight, p)
<1>1. ASSUME NEW kind \in ENTITY_TYPES
      PROVE  A(F(kind))
  <2>1. A(<<>>)
    BY SeqShort DEF AllShowable
  <2> QED BY <2>1 DEF Found, FoundInv
<1>2. /\ A(F("request")) /\ A(F("approval")) /\ A(F("workflow")) /\ A(F("user")) /\ A(F("department"))
      /\ A(F("comment")) /\ A(F("audit_entry")) /\ A(F("notification")) /\ A(F("attachment"))
  BY <1>1 DEF ENTITY_TYPES
<1> HIDE DEF F
<1> DEFINE three == F("request") \o F("approval") \o F("workflow")
           five == three \o F("user") \o F("department")
           seven == five \o F("comment") \o F("audit_entry")
           nine == seven \o F("notification") \o F("attachment")
<1>3. A(F("request") \o F("approval")) /\ A(three)
  BY <1>2, ShowableJoined
<1>4. A(three \o F("user")) /\ A(five)
  <2> HIDE DEF three
  <2> QED BY <1>2, <1>3, ShowableJoined
<1>5. A(five \o F("comment")) /\ A(seven)
  <2> HIDE DEF five
  <2> QED BY <1>2, <1>4, ShowableJoined
<1>6. A(seven \o F("notification")) /\ A(nine)
  <2> HIDE DEF seven
  <2> QED BY <1>2, <1>5, ShowableJoined
<1>7. SearchResult(f.got) = Merged(nine)
  BY Zenon DEF SearchResult, F
<1> HIDE DEF nine
<1> QED BY <1>6, <1>7, MergedShowable

-----------------------------------------------------------------------------
(* The steps: searches                                                     *)

\* A call goes on: if it is a search, it is one still.
LEMMA TopSearch ==
    ASSUME CallsInv, SearchInv, SearchWithinSight, NEW t \in Threads, frames[t] # <<>>,
           NEW g, TopIs(t, g), g.key = Inner(t).key, UNCHANGED answer,
           Len(frames[t]) = 1 /\ g.key.method = "search" => Searching(g, answer[t].caller)
    PROVE  SearchInv' /\ SearchWithinSight'
<1>1. SearchWithinSight'
  BY DEF SearchWithinSight, me
<1>2. /\ Len(frames[t]) \in Nat /\ Len(frames[t]) >= 1 /\ 1 \in DOMAIN frames[t]
      /\ Inner(t) = frames[t][Len(frames[t])] /\ Len(frames'[t]) = Len(frames[t])
  BY InnerFacts DEF TopIs
<1>3. frames'[t][1] = IF Len(frames[t]) = 1 THEN g ELSE frames[t][1]
  BY <1>2 DEF TopIs
<1>4. SearchOf(t)'
  <2>1. CASE Len(frames[t]) = 1
    BY <1>2, <1>3, <2>1 DEF SearchOf
  <2>2. CASE Len(frames[t]) # 1
    BY <1>2, <1>3, <2>2 DEF SearchOf, SearchInv
  <2> QED BY <2>1, <2>2
<1>5. ASSUME NEW o \in Threads, o # t
      PROVE  SearchOf(o)'
  BY <1>5 DEF SearchInv, SearchOf, TopIs, OthersStay
<1> QED BY <1>1, <1>4, <1>5 DEF SearchInv

\* Calls end: if it is a search that does, its answer shows what is in sight.
LEMMA ReturnSearch ==
    ASSUME CallsInv, SearchInv, SearchWithinSight, NEW t \in Threads, frames[t] # <<>>,
           NEW value, NEW asOf, NEW clean, NEW by, Return(t, value, asOf, clean, by),
           Len(frames[t]) = 1 /\ Inner(t).key.method = "search" =>
               AllShowable(value, Inner(t).sight, answer[t].caller)
    PROVE  SearchInv' /\ SearchWithinSight'
<1>1. CallsEnd(t) /\ Len(frames'[t]) = Len(frames[t]) - 1 /\ AnswerStays(t)
  BY ReturnEnds, ReturnAnswers
<1>2. Len(frames[t]) \in Nat /\ Len(frames[t]) >= 1
  BY InnerFacts
<1>3. SearchOf(t)'
  <2> SUFFICES ASSUME frames'[t] # <<>>, frames'[t][1].key.method = "search"
               PROVE  FALSE
    BY DEF SearchOf
  <2>1. 1 \in DOMAIN frames'[t] /\ Len(frames[t]) # 1
    <3>1. IsSeq(frames'[t])
      BY <1>1 DEF CallsEnd
    <3>2. Len(frames'[t]) \in Nat /\ DOMAIN frames'[t] = 1 .. Len(frames'[t]) /\ Len(frames'[t]) >= 1
      BY <3>1, SeqFacts
    <3>3. \A m, n \in Nat : m >= 1 /\ m = n - 1 => n # 1 /\ 1 \in 1 .. m
      OBVIOUS
    <3> QED BY <1>1, <1>2, <3>2, <3>3
  <2>2. frames[t][1].key.method = "search"
    BY <1>1, <2>1 DEF CallsEnd
  <2> QED BY <2>1, <2>2 DEF SearchInv, SearchOf
<1>4. ASSUME NEW o \in Threads, o # t
      PROVE  SearchOf(o)'
  BY <1>1, <1>4 DEF SearchInv, SearchOf, CallsEnd, OthersStay, AnswerStays
<1>5. CASE Len(frames[t]) = 1
  <2>1. answer' = [answer EXCEPT ![t] =
            [state |-> "done", caller |-> answer[t].caller, key |-> Inner(t).key, value |-> value,
             asOf |-> asOf, clean |-> clean, by |-> by, sight |-> Inner(t).sight]]
    BY <1>5 DEF Return
  <2>2. /\ \A o \in Threads \ {t} : answer'[o] = answer[o]
        /\ answer'[t].key = Inner(t).key /\ answer'[t].caller = answer[t].caller /\ answer'[t].value = value
        /\ answer'[t].sight = Inner(t).sight
    BY <2>1 DEF CallsInv
  <2>3. ASSUME Inner(t).key.method = "search", NEW i \in DOMAIN value
        PROVE  Showable(value[i], Inner(t).sight, answer[t].caller)
    BY <1>5, <2>3 DEF AllShowable
  <2>4. SearchWithinSight'
    BY <2>2, <2>3 DEF SearchWithinSight, Showable, me
  <2> QED BY <1>3, <1>4, <2>4 DEF SearchInv
<1>6. CASE Len(frames[t]) # 1
  <2>1. UNCHANGED answer
    BY <1>6 DEF Return
  <2>2. SearchWithinSight'
    BY <2>1 DEF SearchWithinSight, me
  <2> QED BY <1>3, <1>4, <2>2 DEF SearchInv
<1> QED BY <1>5, <1>6

LEMMA WorkSearch ==
    ASSUME CallsInv, SearchInv, SearchWithinSight, NEW t \in Threads, frames[t] # <<>>,
           NEW keep, Work(t, keep), UNCHANGED answer
    PROVE  SearchInv' /\ SearchWithinSight'
<1> DEFINE p == answer[t].caller
           g == [Inner(t) EXCEPT !.phase = "work", !.keep = keep, !.started = now, !.version = changes,
                    !.clean = TRUE, !.todo = Plan(Inner(t).key, p)]
<1>1. TopIs(t, g)
  BY SetTopIs DEF Work, me
<1>2. FrameInv(Inner(t)) /\ Len(frames[t]) \in Nat /\ Inner(t) = frames[t][Len(frames[t])]
  BY InnerFacts
<1>3. /\ g.key = Inner(t).key /\ g.phase = "work" /\ g.todo = Plan(Inner(t).key, p)
      /\ g.got = Inner(t).got /\ g.sight = Inner(t).sight
  BY <1>2 DEF FrameInv, IsFrame
<1> HIDE DEF g
<1>4. ASSUME Len(frames[t]) = 1, g.key.method = "search"
      PROVE  Searching(g, p)
  <2>1. Searching(Inner(t), p)
    BY <1>2, <1>3, <1>4 DEF SearchInv, SearchOf
  <2>2. FoundInv(g, p)
    BY <1>3, <2>1 DEF Searching, FoundInv
  <2>3. IsCaller(p)
    BY DEF CallsInv
  <2>4. AllSteps(g.todo, g, p)
    <3> HIDE DEF p
    <3> QED BY <1>3, <1>4, <2>3, PlanInv
  <2> QED BY <1>3, <2>2, <2>4 DEF Searching
<1> QED BY <1>1, <1>3, <1>4, TopSearch

LEMMA HitSearch ==
    ASSUME CallsInv, SearchInv, SearchWithinSight, NEW t \in Threads, frames[t] # <<>>,
           Inner(t).key.method \in CachedMethods, Hit(t)
    PROVE  SearchInv' /\ SearchWithinSight'
<1> DEFINE entry == store[CacheKey(Inner(t).key)]
<1>1. Return(t, entry.value, entry.asOf, entry.clean, entry.by)
  BY DEF Hit
<1>2. Inner(t).key.method # "search"
  BY DEF CachedMethods
<1> HIDE DEF entry
<1> QED BY <1>1, <1>2, ReturnSearch

LEMMA AskSearch ==
    ASSUME CallsInv, SearchInv, SearchWithinSight, NEW t \in Threads, Ask(t)
    PROVE  SearchInv' /\ SearchWithinSight'
<1> DEFINE ask == Head(coming[t])
           f == Frame(ask.key)
<1>1. \/ /\ frames' = [frames EXCEPT ![t] = <<f>>]
         /\ answer' = [answer EXCEPT ![t] = [state |-> "asked", caller |-> Caller(ask)]]
      \/ /\ answer' = [answer EXCEPT ![t] = [state |-> "error", caller |-> Caller(ask), key |-> ask.key]]
         /\ UNCHANGED frames
  BY DEF Ask
<1>2. frames[t] = <<>>
  BY DEF Ask
<1>3. f.phase = "look" /\ f.todo = <<>> /\ f.got = Empty
  BY DEF Frame
<1> HIDE DEF f, ask
<1>4. /\ \A o \in Threads \ {t} : frames'[o] = frames[o] /\ answer'[o] = answer[o]
      /\ answer'[t].state # "done"
      /\ frames'[t] \in {<<>>, <<f>>}
  BY <1>1, <1>2 DEF CallsInv
<1>5. ASSUME NEW p
      PROVE  Searching(f, p)
  <2>1. \A kind \in ENTITY_TYPES \cup {"queue"} : kind \notin DOMAIN f.got
    BY <1>3 DEF Empty, PagedReads, ENTITY_TYPES
  <2> QED BY <1>3, <2>1, SeqShort DEF AllSteps, Searching, FoundInv
<1>6. SearchOf(t)'
  <2>1. CASE frames'[t] = <<>>
    BY <2>1 DEF SearchOf
  <2>2. CASE frames'[t] = <<f>>
    <3>1. Len(frames'[t]) = 1 /\ frames'[t][1] = f
      BY <2>2, SeqShort
    <3> QED BY <1>5, <3>1 DEF SearchOf
  <2> QED BY <1>4, <2>1, <2>2
<1>7. SearchInv'
  BY <1>4, <1>6 DEF SearchInv, SearchOf
<1>8. SearchWithinSight'
  BY <1>4 DEF SearchWithinSight, me
<1> QED BY <1>7, <1>8

\* A look at the cache, and the lock: what is found there is no search.
LEMMA LookSearch ==
    ASSUME CallsInv, SearchInv, SearchWithinSight, NEW t \in Threads, Look(t) \/ LookFails(t) \/ Lock(t)
    PROVE  SearchInv' /\ SearchWithinSight'
<1>1. frames[t] # <<>>
  BY DEF Look, LookFails, Lock
<1>2. FrameInv(Inner(t))
  BY <1>1, InnerFacts
<1>3. ASSUME NEW keep, Work(t, keep), UNCHANGED answer
      PROVE  SearchInv' /\ SearchWithinSight'
  BY <1>1, <1>3, WorkSearch
<1>4. CASE Hit(t) /\ Inner(t).key.method \in CachedMethods
  BY <1>1, <1>4, HitSearch
<1>5. CASE /\ Inner(t).key.method \in CachedMethods
           /\ SetTop(t, [Inner(t) EXCEPT !.phase = "wait"]) /\ UNCHANGED answer
  <2> DEFINE g == [Inner(t) EXCEPT !.phase = "wait"]
  <2>1. TopIs(t, g)
    BY <1>1, <1>5, SetTopIs
  <2>2. g.key = Inner(t).key /\ g.key.method # "search"
    BY <1>2, <1>5 DEF FrameInv, IsFrame, CachedMethods
  <2> HIDE DEF g
  <2> QED BY <1>1, <1>5, <2>1, <2>2, TopSearch
<1>6. CASE Look(t)
  BY <1>3, <1>4, <1>5, <1>6 DEF Look
<1>7. CASE LookFails(t)
  BY <1>3, <1>7 DEF LookFails
<1>8. CASE Lock(t)
  <2>1. Inner(t).key.method \in CachedMethods
    BY <1>2, <1>8 DEF Lock, FrameInv
  <2> QED BY <1>3, <1>4, <1>8, <2>1 DEF Lock
<1> QED BY <1>6, <1>7, <1>8

LEMMA StepsJoined ==
    ASSUME NEW f, NEW p, NEW a, AllSteps(a, f, p), NEW b, AllSteps(b, f, p)
    PROVE  AllSteps(a \o b, f, p)
BY SeqJoined DEF AllSteps

\* The other steps stay restricted, and what takes the place of a step is.
LEMMA TodoInv ==
    ASSUME NEW f, NEW p, AllSteps(f.todo, f, p), NEW i \in DOMAIN f.todo, NEW more, NEW g, AllSteps(more, g, p),
           f.sight \subseteq g.sight, DOMAIN f.got \subseteq DOMAIN g.got,
           g.todo = SubSeq(f.todo, 1, i - 1) \o more \o SubSeq(f.todo, i + 1, Len(f.todo))
    PROVE  AllSteps(g.todo, g, p)
<1>1. ASSUME NEW s, StepInv(s, f, p)
      PROVE  StepInv(s, g, p)
  BY <1>1 DEF StepInv
<1> DEFINE before == SubSeq(f.todo, 1, i - 1)
           after == SubSeq(f.todo, i + 1, Len(f.todo))
<1>2. Len(f.todo) \in Nat /\ i \in 1 .. Len(f.todo)
  BY SeqFacts DEF AllSteps
<1>3. AllSteps(before, g, p)
  <2>1. 1 \in 1 .. Len(f.todo) + 1 /\ i - 1 \in 0 .. Len(f.todo)
    BY <1>2
  <2>2. IsSeq(before) /\ \A k \in DOMAIN before : 1 + k - 1 \in DOMAIN f.todo /\ before[k] = f.todo[1 + k - 1]
    BY <2>1, SeqPart DEF AllSteps
  <2> QED BY <1>1, <2>2 DEF AllSteps
<1>4. AllSteps(after, g, p)
  <2>1. i + 1 \in 1 .. Len(f.todo) + 1 /\ Len(f.todo) \in 0 .. Len(f.todo)
    BY <1>2
  <2>2. IsSeq(after) /\ \A k \in DOMAIN after : i + 1 + k - 1 \in DOMAIN f.todo /\ after[k] = f.todo[i + 1 + k - 1]
    BY <2>1, SeqPart DEF AllSteps
  <2> QED BY <1>1, <2>2 DEF AllSteps
<1> HIDE DEF before, after
<1> DEFINE first == before \o more
<1>5. AllSteps(first, g, p)
  BY <1>3, StepsJoined
<1>6. g.todo = first \o after
  BY DEF before, after
<1> HIDE DEF first
<1> QED BY <1>4, <1>5, <1>6, StepsJoined

LEMMA FetchSearch ==
    ASSUME Sound(db), CallsInv, SearchInv, SearchWithinSight, NEW t \in Threads, Fetch(t)
    PROVE  SearchInv' /\ SearchWithinSight'
<1> DEFINE f == Inner(t)
           p == answer[t].caller
<1>1. frames[t] # <<>> /\ Working(f) /\ UNCHANGED answer
  BY DEF Fetch
<1>2. PICK i \in Ready(f) :
        LET step == IF f.todo[i].page = 1 THEN [f.todo[i] EXCEPT !.at = now] ELSE f.todo[i]
            got == Gathered(f.key, p, step, f.got)
        IN  SetTop(t, [f EXCEPT !.got = got,
                !.todo = SubSeq(f.todo, 1, i - 1) \o Following(step, f.key, p, got) \o SubSeq(f.todo, i + 1, Len(f.todo)),
                !.sight = IF f.key.method = "search" THEN f.sight \cup Viewable(p) ELSE f.sight])
  BY DEF Fetch, me
<1> DEFINE step == IF f.todo[i].page = 1 THEN [f.todo[i] EXCEPT !.at = now] ELSE f.todo[i]
           got == Gathered(f.key, p, step, f.got)
           more == Following(step, f.key, p, got)
           sight == IF f.key.method = "search" THEN f.sight \cup Viewable(p) ELSE f.sight
           todo == SubSeq(f.todo, 1, i - 1) \o more \o SubSeq(f.todo, i + 1, Len(f.todo))
           g == [f EXCEPT !.got = got, !.todo = todo, !.sight = sight]
<1>3. TopIs(t, g)
  BY <1>1, <1>2, SetTopIs
<1>4. FrameInv(f) /\ Len(frames[t]) \in Nat /\ f = frames[t][Len(frames[t])]
  BY <1>1, InnerFacts
<1>5. g.key = f.key /\ g.phase = f.phase /\ g.got = got /\ g.todo = todo /\ g.sight = sight
  <2> HIDE DEF got, todo, sight
  <2> QED BY <1>4 DEF FrameInv, IsFrame
<1>6. IsCaller(p)
  BY <1>1 DEF CallsInv
<1> HIDE DEF f, p, step, got, more, sight, todo, g
<1>7. ASSUME Len(frames[t]) = 1, g.key.method = "search"
      PROVE  Searching(g, p)
  <2>1. Searching(f, p)
    BY <1>1, <1>4, <1>5, <1>7 DEF SearchInv, SearchOf, p
  <2>2. i \in DOMAIN f.todo
    BY <1>5, <1>7 DEF Ready, Pooled
  <2>3. StepInv(step, f, p)
    <3>1. StepInv(f.todo[i], f, p)
      BY <2>1, <2>2 DEF Searching, AllSteps
    <3> QED BY <3>1 DEF StepInv, IsStep, step
  <2>4. f.sight \subseteq sight /\ Viewable(p) \subseteq sight
    BY <1>5, <1>7 DEF sight
  <2>5. FoundInv(f, p)
    BY <2>1 DEF Searching
  <2>6. /\ FoundInv(g, p)
        /\ DOMAIN g.got = IF step.read \in {"assigned", "visible"} THEN DOMAIN f.got ELSE DOMAIN f.got \cup {step.read}
    <3> DEFINE key == f.key
    <3>1. g.got = Gathered(key, p, step, f.got)
      BY <1>5 DEF got
    <3>2. g.sight = sight
      BY <1>5
    <3>3. f.sight \subseteq sight
      BY <2>4
    <3>4. Viewable(p) \subseteq sight
      BY <2>4
    <3> HIDE DEF key
    <3> QED BY <1>6, <2>3, <2>5, <3>1, <3>2, <3>3, <3>4, GatheredFound, SMTT(60)
  <2>7. AllSteps(more, g, p)
    <3>1. step.read = "queue" => "queue" \in DOMAIN g.got
      BY <2>6
    <3>2. more = Following(step, f.key, p, g.got)
      BY <1>5 DEF more
    <3> QED BY <1>5, <1>6, <2>3, <2>4, <3>1, <3>2, FollowingInv
  <2>8. AllSteps(g.todo, g, p)
    <3>1. g.todo = SubSeq(f.todo, 1, i - 1) \o more \o SubSeq(f.todo, i + 1, Len(f.todo))
      BY <1>5 DEF todo
    <3>2. DOMAIN f.got \subseteq DOMAIN g.got
      BY <2>6
    <3>3. AllSteps(f.todo, f, p)
      BY <2>1 DEF Searching
    <3> QED BY <1>5, <2>2, <2>4, <2>7, <3>1, <3>2, <3>3, TodoInv
  <2>9. g.phase # "wait"
    BY <1>5, <2>1 DEF Searching
  <2> QED BY <2>6, <2>8, <2>9 DEF Searching
<1> QED BY <1>1, <1>3, <1>5, <1>7, TopSearch DEF f, p

LEMMA EnterSearch ==
    ASSUME CallsInv, SearchInv, SearchWithinSight, NEW t \in Threads, Enter(t)
    PROVE  SearchInv' /\ SearchWithinSight'
<1>1. /\ frames[t] # <<>> /\ Inner(t).todo # <<>> /\ Head(Inner(t).todo).read = "call" /\ UNCHANGED answer
      /\ frames' = [frames EXCEPT ![t] = Append(frames[t], Frame(Nested(Inner(t).key, Head(Inner(t).todo).for)))]
  BY DEF Enter
<1> DEFINE new == Frame(Nested(Inner(t).key, Head(Inner(t).todo).for))
<1>2. /\ IsSeq(frames[t]) /\ Len(frames[t]) \in Nat /\ Len(frames[t]) >= 1
      /\ Inner(t) = frames[t][Len(frames[t])]
  BY <1>1, InnerFacts DEF CallsInv
<1>3. frames'[t] = Append(frames[t], new) /\ \A o \in Threads \ {t} : frames'[o] = frames[o]
  BY <1>1 DEF CallsInv
<1> HIDE DEF new
<1>4. frames'[t][1] = frames[t][1]
  BY <1>2, <1>3, SeqAppended
<1>5. frames[t][1].key.method # "search"
  <2> SUFFICES ASSUME frames[t][1].key.method = "search" PROVE FALSE
    OBVIOUS
  <2>1. Len(frames[t]) = 1 /\ Searching(frames[t][1], answer[t].caller)
    BY <1>1 DEF SearchInv, SearchOf
  <2> DEFINE todo == Inner(t).todo
  <2>2. IsSeq(todo) /\ \A i \in DOMAIN todo : StepInv(todo[i], frames[t][1], answer[t].caller)
    BY <1>2, <2>1 DEF Searching, AllSteps
  <2>3. todo # <<>> /\ Head(todo).read = "call"
    BY <1>1
  <2> HIDE DEF todo
  <2>4. 1 \in DOMAIN todo /\ Head(todo) = todo[1]
    <3>1. todo \in Seq(ToSet(todo))
      BY <2>2 DEF IsSeq
    <3> QED BY <2>3, <3>1
  <2> QED BY <2>2, <2>3, <2>4 DEF StepInv, IsStep, SearchReadNames, ENTITY_TYPES
<1>6. SearchInv'
  BY <1>1, <1>3, <1>4, <1>5 DEF SearchInv, SearchOf
<1>7. SearchWithinSight'
  BY <1>1 DEF SearchWithinSight, me
<1> QED BY <1>6, <1>7

LEMMA FinishSearch ==
    ASSUME CallsInv, SearchInv, SearchWithinSight, NEW t \in Threads, Finish(t)
    PROVE  SearchInv' /\ SearchWithinSight'
<1>1. frames[t] # <<>>
  BY DEF Finish
<1>2. PICK asOf, clean, by : Return(t, Result(Inner(t)), asOf, clean, by)
  BY DEF Finish
<1>3. Inner(t) = frames[t][Len(frames[t])]
  BY <1>1, InnerFacts
<1>4. ASSUME Len(frames[t]) = 1, Inner(t).key.method = "search"
      PROVE  AllShowable(Result(Inner(t)), Inner(t).sight, answer[t].caller)
  <2>1. FoundInv(Inner(t), answer[t].caller)
    BY <1>1, <1>3, <1>4 DEF SearchInv, SearchOf, Searching
  <2>2. Result(Inner(t)) = SearchResult(Inner(t).got)
    BY <1>4 DEF Result
  <2> QED BY <2>1, <2>2, ResultShowable
<1> QED BY <1>1, <1>2, <1>4, ReturnSearch

LEMMA RaiseSearch ==
    ASSUME CallsInv, SearchInv, SearchWithinSight, NEW t \in Threads, frames[t] # <<>>, Raise(t)
    PROVE  SearchInv' /\ SearchWithinSight'
<1>1. /\ frames'[t] = <<>> /\ answer'[t].state = "error"
      /\ \A o \in Threads \ {t} : frames'[o] = frames[o] /\ answer'[o] = answer[o]
  BY DEF Raise, CallsInv
<1>2. SearchInv'
  BY <1>1 DEF SearchInv, SearchOf
<1>3. SearchWithinSight'
  BY <1>1 DEF SearchWithinSight, me
<1> QED BY <1>2, <1>3

LEMMA NextSearch ==
    ASSUME Sound(db), CallsInv, SearchInv, SearchWithinSight, [Next]_vars
    PROVE  SearchInv' /\ SearchWithinSight'
<1>1. ASSUME NEW t \in Threads, Ask(t)
      PROVE  SearchInv' /\ SearchWithinSight'
  BY <1>1, AskSearch
<1>2. ASSUME NEW t \in Threads, Look(t) \/ LookFails(t) \/ Lock(t)
      PROVE  SearchInv' /\ SearchWithinSight'
  BY <1>2, LookSearch
<1>3. ASSUME NEW t \in Threads, Fetch(t) \/ Enter(t) \/ Finish(t)
      PROVE  SearchInv' /\ SearchWithinSight'
  BY <1>3, FetchSearch, EnterSearch, FinishSearch
<1>4. ASSUME NEW t \in Threads, Refused(t) \/ Fail(t)
      PROVE  SearchInv' /\ SearchWithinSight'
  <2>1. frames[t] # <<>> /\ Raise(t)
    BY <1>4 DEF Refused, Fail
  <2> QED BY <2>1, RaiseSearch
<1>5. ASSUME Write \/ Tick \/ UNCHANGED vars
      PROVE  SearchInv' /\ SearchWithinSight'
  <2>1. UNCHANGED <<frames, answer>>
    BY <1>5 DEF Write, Tick, vars, Written, create_request, Decide, escalate_stage, withdraw_request, activate_definition
  <2> QED BY <2>1 DEF SearchInv, SearchOf, SearchWithinSight, me
<1> QED BY <1>1, <1>2, <1>3, <1>4, <1>5 DEF Next, Proceed

\* GlobalSearchService.search: whatever is submitted, decided, escalated or
\* withdrawn between its reads, whatever reads fail, and with or without a client
\* of the caller's own, a search shows no one an item of a request that was not
\* theirs to see at some time during it; but for an administrator's audit entries
\* and, without such a client, an administrator's comments and attachments.
THEOREM SearchStaysWithinSight == Spec => []SearchWithinSight
<1>1. Init => ReportsInv
  <2> SUFFICES ASSUME Init PROVE ReportsInv
    OBVIOUS
  <2>1. CallsInv /\ LockInv /\ ClockInv
    BY InitCalls
  <2>2. Sound(db)
    BY TablesAssumption DEF Init
  <2>3. frames = [t \in Threads |-> <<>>] /\ answer = [t \in Threads |-> NoAnswer]
    BY DEF Init
  <2>4. SearchInv
    BY <2>3 DEF SearchInv, SearchOf
  <2>5. SearchWithinSight
    BY <2>3 DEF SearchWithinSight, NoAnswer
  <2> QED BY <2>1, <2>2, <2>4, <2>5 DEF ReportsInv
<1>2. ReportsInv /\ [Next]_vars => ReportsInv'
  BY NextSound, NextCalls, NextClock, NextSearch DEF ReportsInv
<1>3. ReportsInv => SearchWithinSight
  BY DEF ReportsInv
<1> QED BY <1>1, <1>2, <1>3, PTL DEF Spec
=============================================================================
