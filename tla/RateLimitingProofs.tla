------------------------- MODULE RateLimitingProofs -------------------------
(***************************************************************************)
(* Proofs about RateLimiting, for any number of calls, instances and       *)
(* restarts, every limit and window, and every skew and delay.             *)
(***************************************************************************)
EXTENDS RateLimiting, FiniteSetTheorems, WellFoundedInduction, TLAPS

-----------------------------------------------------------------------------
(* The inductive invariant                                                 *)

Slack == MaxSkew + MaxDelay

Entry == [call: Calls, at: Nat]

\* The entries in s, the contents of bucket b, in whatever order.
Entries(b, s) == IF b = "redis" THEN s ELSE {s[k] : k \in DOMAIN s}

\* A call that has read its clock gets to the count within MaxDelay.
CallInv ==
    /\ call = [c \in Calls |-> call[c]]
    /\ \A c \in Calls : call[c].pc = "check" =>
        /\ call[c].inst \in Instances /\ call[c].since \in Nat
        /\ call[c].now = call[c].since + skew[call[c].inst]
        /\ call[c].since <= clock /\ clock <= call[c].since + MaxDelay

\* Every admission belongs to a call that was admitted, and each to another one.
AdmissionsOf(b) ==
    /\ admissions[b] \subseteq Entry /\ IsFiniteSet(admissions[b])
    /\ \A a \in admissions[b] : a.at <= clock /\ call[a.call].pc = "admitted"
    /\ \A a, e \in admissions[b] : a.call = e.call => a = e

\* The entry h tells of admission a, as well as the clocks allow.
Tells(h, a) == h.call = a.call /\ h.at <= a.at + MaxSkew /\ a.at <= h.at + MaxDelay

\* The entries of different calls, in a set or one after the other.
Distinct(b, s) ==
    IF b = "redis"
    THEN /\ s \subseteq Entry /\ IsFiniteSet(s)
         /\ \A g, h \in s : g.call = h.call => g = h
    ELSE /\ s \in Seq(Entry)
         /\ \A j, k \in DOMAIN s : s[j].call = s[k].call => j = k

\* A deque has its entries in the order of the admissions they tell of.
InOrder(b, s) ==
    b # "redis" => \A j, k \in DOMAIN s : j < k =>
        \A a, e \in admissions[b] : a.call = s[j].call /\ e.call = s[k].call => a.at <= e.at

Told(b, s) == \A h \in Entries(b, s) : \E a \in admissions[b] : Tells(h, a)

\* An admission that has no entry any more is out of the window.
Counted(b, s) ==
    \A a \in admissions[b] :
        \/ \E h \in Entries(b, s) : h.call = a.call
        \/ a.at + Window <= clock + Slack

BucketInv(b) ==
    /\ AdmissionsOf(b)
    /\ Distinct(b, hits[b]) /\ InOrder(b, hits[b]) /\ Told(b, hits[b]) /\ Counted(b, hits[b])

\* The key in Redis outlives the window of every admission.
KeyLives == \A a \in admissions["redis"] : a.at + Window <= lives

WindowInv ==
    /\ clock \in Nat /\ lives \in Nat /\ skew \in [Instances -> 0 .. MaxSkew]
    /\ hits = [b \in Buckets |-> hits[b]] /\ admissions = [b \in Buckets |-> admissions[b]]
    /\ CallInv /\ KeyLives
    /\ \A b \in Buckets : BucketInv(b)

-----------------------------------------------------------------------------
(* Deques and sets of entries                                              *)

LEMMA Constants ==
    /\ Limit \in Nat /\ Window \in Nat /\ MaxSkew \in Nat /\ MaxDelay \in Nat
    /\ Unit \in Nat /\ Unit > 0 /\ \A i \in Instances : i # "redis"
BY LimitAssumption

LEMMA Smallest ==
    ASSUME NEW T \in SUBSET Nat, T # {}
    PROVE  \E x \in T : \A y \in T : x <= y
<1>1. PICK x \in T : \A y \in T : ~(<<y, x>> \in OpToRel(<, Nat))
  BY WFMin, NatLessThanWellFounded
<1>2. \A y \in T : ~(y < x)
  BY <1>1 DEF OpToRel
<1> QED BY <1>2

\* popleft takes away a part of the deque from its left end, all of it too old,
\* and what is then the first is not.
LEMMA DropLeftKeeps ==
    ASSUME NEW s \in Seq(Entry), NEW cutoff \in Int
    PROVE  \E m \in 0 .. Len(s) :
               /\ DropLeft(s, cutoff) = SubSeq(s, m + 1, Len(s))
               /\ \A j \in 1 .. m : s[j].at < cutoff
               /\ m < Len(s) => s[m + 1].at >= cutoff
<1> DEFINE old == {k \in 0 .. Len(s) : \A j \in 1 .. k : s[j].at < cutoff}
           T == {Len(s) - k : k \in old}
           m == CHOOSE k \in old : \A j \in old : j <= k
<1>0. Len(s) \in Nat /\ \A j \in 1 .. Len(s) : s[j].at \in Nat
  <2>1. \A j \in 1 .. Len(s) : s[j] \in Entry
    OBVIOUS
  <2> QED BY <2>1 DEF Entry
<1>1. \E k \in old : \A j \in old : j <= k
  <2>1. 0 \in old
    BY <1>0
  <2>2. \A k \in old : k \in Nat /\ Len(s) - k \in Nat
    BY <1>0
  <2>3. T \in SUBSET Nat /\ T # {}
    BY <2>1, <2>2
  <2>4. PICK x \in T : \A y \in T : x <= y
    BY <2>3, Smallest
  <2>5. PICK k \in old : x = Len(s) - k
    OBVIOUS
  <2>6. \A j \in old : Len(s) - k <= Len(s) - j
    BY <2>4, <2>5
  <2> QED BY <1>0, <2>2, <2>6
<1>2. m \in old /\ \A j \in old : j <= m
  BY <1>1
<1> HIDE DEF m
<1>3. ASSUME m < Len(s), s[m + 1].at < cutoff PROVE FALSE
  <2>1. m + 1 \in old
    BY <1>0, <1>2, <1>3
  <2> QED BY <1>0, <1>2, <2>1
<1>4. m < Len(s) => s[m + 1].at >= cutoff
  BY <1>0, <1>2, <1>3
<1>5. DropLeft(s, cutoff) = SubSeq(s, m + 1, Len(s))
  BY DEF DropLeft, m
<1> QED BY <1>2, <1>4, <1>5

\* A deque of different calls is as long as it has entries.
LEMMA DequeSize ==
    ASSUME NEW s \in Seq(Entry), \A j, k \in DOMAIN s : s[j].call = s[k].call => j = k
    PROVE  LET E == {s[k] : k \in DOMAIN s} IN IsFiniteSet(E) /\ Cardinality(E) = Len(s)
<1> DEFINE E == {s[k] : k \in DOMAIN s}
<1>1. DOMAIN s = 1 .. Len(s) /\ Len(s) \in Nat
  OBVIOUS
<1>2. IsFiniteSet(1 .. Len(s)) /\ Cardinality(1 .. Len(s)) = Len(s)
  BY <1>1, FS_Interval
<1>3. [k \in 1 .. Len(s) |-> s[k]] \in Surjection(1 .. Len(s), E)
  BY <1>1 DEF Surjection
<1>4. [k \in 1 .. Len(s) |-> s[k]] \in Injection(1 .. Len(s), E)
  BY <1>1 DEF Injection, IsInjective
<1> QED BY <1>2, <1>3, <1>4, FS_Surjection

\* The size of a bucket is the number of its entries.
LEMMA SizeIsNumber ==
    ASSUME NEW b, NEW s, Distinct(b, s)
    PROVE  /\ Entries(b, s) \subseteq Entry /\ IsFiniteSet(Entries(b, s))
           /\ Size(b, s) = Cardinality(Entries(b, s)) /\ Size(b, s) \in Nat
           /\ \A g, h \in Entries(b, s) : g.call = h.call => g = h
<1>1. CASE b = "redis"
  BY <1>1, FS_CardinalityType DEF Distinct, Entries, Size
<1>2. CASE b # "redis"
  BY <1>2, DequeSize DEF Distinct, Entries, Size
<1> QED BY <1>1, <1>2

\* As many admissions as calls that have an entry, and the other way round.
LEMMA AtMostEntries ==
    ASSUME NEW A \in SUBSET Entry, NEW E \in SUBSET Entry, IsFiniteSet(E),
           \A a, e \in A : a.call = e.call => a = e,
           \A a \in A : \E h \in E : h.call = a.call
    PROVE  IsFiniteSet(A) /\ Cardinality(A) <= Cardinality(E)
<1> DEFINE f == [a \in A |-> CHOOSE h \in E : h.call = a.call]
<1>1. \A a \in A : f[a] \in E /\ f[a].call = a.call
  OBVIOUS
<1>2. f \in Injection(A, E)
  <2>1. f \in [A -> E]
    BY <1>1
  <2>2. ASSUME NEW a \in A, NEW e \in A, f[a] = f[e] PROVE a = e
    BY <1>1, <2>2
  <2> HIDE DEF f
  <2> QED BY <2>1, <2>2 DEF Injection, IsInjective
<1> QED BY <1>2, FS_Injection

LEMMA Suffix ==
    ASSUME NEW s \in Seq(Entry), NEW m \in 0 .. Len(s)
    PROVE  LET t == SubSeq(s, m + 1, Len(s)) IN
           /\ t \in Seq(Entry) /\ Len(t) = Len(s) - m /\ DOMAIN t = 1 .. (Len(s) - m)
           /\ \A k \in 1 .. (Len(s) - m) : t[k] = s[m + k] /\ m + k \in DOMAIN s
<1>1. Len(s) \in Nat /\ m \in Nat /\ \A k \in 1 .. Len(s) : s[k] \in Entry
  OBVIOUS
<1> QED BY <1>1

-----------------------------------------------------------------------------
(* What a call finds when it gets to the count                             *)

\* The clock a call has read is close to the present.
LEMMA ClockRead ==
    ASSUME WindowInv, NEW c \in Calls, call[c].pc = "check"
    PROVE  /\ Bucket(call[c].inst) \in Buckets /\ call[c].now \in Nat /\ clock \in Nat
           /\ call[c].now <= clock + MaxSkew /\ clock <= call[c].now + MaxDelay
<1>1. /\ call[c].inst \in Instances /\ call[c].since \in Nat /\ clock \in Nat
      /\ call[c].now = call[c].since + skew[call[c].inst]
      /\ call[c].since <= clock /\ clock <= call[c].since + MaxDelay
      /\ skew[call[c].inst] \in 0 .. MaxSkew
  BY DEF WindowInv, CallInv
<1> QED BY <1>1, Constants DEF Bucket, Buckets

\* An admission and the entry with its call tell of each other.
LEMMA TellsOfIts ==
    ASSUME NEW b \in Buckets, BucketInv(b), NEW a \in admissions[b],
           NEW h \in Entries(b, hits[b]), h.call = a.call
    PROVE  h.at \in Nat /\ a.at \in Nat /\ h.at <= a.at + MaxSkew /\ a.at <= h.at + MaxDelay
<1>1. PICK e \in admissions[b] : Tells(h, e)
  BY DEF BucketInv, Told
<1>2. e = a
  BY <1>1 DEF BucketInv, AdmissionsOf, Tells
<1>3. h \in Entry /\ a \in Entry
  BY SizeIsNumber DEF BucketInv, AdmissionsOf
<1> QED BY <1>1, <1>2, <1>3 DEF Tells, Entry

\* What Kept leaves is a part of the bucket; what it drops is out of the window,
\* what it leaves is not long so.
KeptWell(b, s) ==
    /\ Distinct(b, s) /\ InOrder(b, s) /\ Told(b, s) /\ Counted(b, s)
    /\ Entries(b, s) \subseteq Entries(b, hits[b])
    /\ \A a \in admissions[b] :
        (\E h \in Entries(b, s) : h.call = a.call) => a.at + Window + Slack >= clock

LEMMA KeptInRedis ==
    ASSUME WindowInv, NEW now \in Nat, now <= clock + MaxSkew, clock <= now + MaxDelay
    PROVE  KeptWell("redis", Kept("redis", now))
<1> DEFINE s == Kept("redis", now)
<1>0. /\ "redis" \in Buckets /\ BucketInv("redis") /\ clock \in Nat /\ lives \in Nat /\ KeyLives
      /\ admissions["redis"] \subseteq Entry /\ Distinct("redis", hits["redis"])
      /\ \A a \in admissions["redis"] : a.at \in Nat
  BY DEF WindowInv, Buckets, BucketInv, AdmissionsOf, Entry
<1>1. s \subseteq hits["redis"] /\ Entries("redis", s) \subseteq Entries("redis", hits["redis"])
  BY DEF Kept, ZRemRange, Entries
<1>2. Distinct("redis", s) /\ InOrder("redis", s) /\ Told("redis", s)
  BY <1>0, <1>1, FS_Subset DEF Distinct, InOrder, Told, BucketInv, Entries
<1>3. ASSUME NEW a \in admissions["redis"], NEW h \in hits["redis"], h.call = a.call
      PROVE  h.at \in Nat /\ a.at \in Nat /\ h.at <= a.at + MaxSkew /\ a.at <= h.at + MaxDelay
  BY <1>0, <1>3, TellsOfIts DEF Entries
<1>4. CASE lives <= clock
  <2>1. s = {}
    BY <1>4 DEF Kept
  <2>2. \A a \in admissions["redis"] : a.at + Window <= clock + Slack
    BY <1>0, <1>4, Constants DEF KeyLives, Slack
  <2> QED BY <1>2, <2>1, <2>2 DEF KeptWell, Counted, Entries
<1>5. CASE ~(lives <= clock)
  <2>1. s = {h \in hits["redis"] : h.at > now - Window}
    BY <1>5 DEF Kept, ZRemRange
  <2>2. Counted("redis", s)
    <3> SUFFICES ASSUME NEW a \in admissions["redis"], ~(a.at + Window <= clock + Slack)
                 PROVE  \E h \in s : h.call = a.call
      BY DEF Counted, Entries
    <3>1. PICK h \in hits["redis"] : h.call = a.call
      BY <1>0 DEF BucketInv, Counted, Entries
    <3>2. h.at > now - Window
      BY <1>0, <1>3, <3>1, Constants DEF Slack
    <3> QED BY <2>1, <3>1, <3>2
  <2>3. ASSUME NEW a \in admissions["redis"], NEW h \in s, h.call = a.call
        PROVE  a.at + Window + Slack >= clock
    BY <1>0, <1>3, <2>1, <2>3, Constants DEF Slack
  <2>4. \A a \in admissions["redis"] :
          (\E h \in Entries("redis", s) : h.call = a.call) => a.at + Window + Slack >= clock
    BY <2>3 DEF Entries
  <2> HIDE DEF s
  <2>5. KeptWell("redis", s)
    BY <1>1, <1>2, <2>2, <2>4 DEF KeptWell
  <2> QED BY <2>5 DEF s
<1> QED BY <1>4, <1>5

LEMMA KeptInDeque ==
    ASSUME WindowInv, NEW b \in Instances, NEW now \in Nat,
           now <= clock + MaxSkew, clock <= now + MaxDelay
    PROVE  KeptWell(b, Kept(b, now))
<1> DEFINE s == hits[b]
           t == Kept(b, now)
<1>a. b \in Buckets /\ b # "redis" /\ clock \in Nat
  BY Constants DEF WindowInv, Buckets
<1>b. /\ BucketInv(b) /\ AdmissionsOf(b) /\ Distinct(b, s) /\ InOrder(b, s)
      /\ Told(b, s) /\ Counted(b, s)
  BY <1>a DEF WindowInv, BucketInv
<1>c. s \in Seq(Entry) /\ \A j, k \in DOMAIN s : s[j].call = s[k].call => j = k
  BY <1>a, <1>b DEF Distinct
<1>d. DOMAIN s = 1 .. Len(s) /\ Len(s) \in Nat
  BY <1>c
<1>e. \A k \in DOMAIN s : s[k] \in Entries(b, s)
  BY <1>a DEF Entries
<1>f. \A a \in admissions[b] : a.at \in Nat
  BY <1>b DEF AdmissionsOf, Entry
<1>3. ASSUME NEW a \in admissions[b], NEW k \in DOMAIN s, s[k].call = a.call
      PROVE  /\ s[k].at \in Nat /\ a.at \in Nat
             /\ s[k].at <= a.at + MaxSkew /\ a.at <= s[k].at + MaxDelay
  BY <1>a, <1>b, <1>e, <1>3, TellsOfIts
<1>g. t = DropLeft(s, now - Window) /\ now - Window \in Int
  BY <1>a, Constants DEF Kept
<1>h. Entries(b, t) \subseteq Entries(b, s) => Entries(b, t) \subseteq Entries(b, hits[b])
  OBVIOUS
<1> HIDE DEF s, t
<1>1. PICK m \in 0 .. Len(s) :
        /\ t = SubSeq(s, m + 1, Len(s))
        /\ \A j \in 1 .. m : s[j].at < now - Window
        /\ m < Len(s) => s[m + 1].at >= now - Window
  BY <1>c, <1>g, DropLeftKeeps
<1>i. m \in Nat /\ m <= Len(s)
  BY <1>d
<1>2. /\ t \in Seq(Entry) /\ DOMAIN t = 1 .. (Len(s) - m)
      /\ \A k \in DOMAIN t : t[k] = s[m + k] /\ m + k \in DOMAIN s
  BY <1>c, <1>1, Suffix
<1>j. \A k \in DOMAIN t : k \in Nat /\ k >= 1 /\ k <= Len(s) - m
  BY <1>2, <1>d, <1>i
<1>4. Distinct(b, t)
  <2>1. ASSUME NEW j \in DOMAIN t, NEW k \in DOMAIN t, t[j].call = t[k].call PROVE j = k
    <3>1. m + j = m + k
      BY <1>c, <1>2, <2>1
    <3> QED BY <1>i, <1>j, <3>1
  <2> QED BY <1>a, <1>2, <2>1 DEF Distinct
<1>5. InOrder(b, t)
  <2> SUFFICES ASSUME NEW j \in DOMAIN t, NEW k \in DOMAIN t, j < k,
                      NEW a \in admissions[b], NEW e \in admissions[b],
                      a.call = t[j].call, e.call = t[k].call
               PROVE  a.at <= e.at
    BY <1>a DEF InOrder
  <2>1. m + j \in DOMAIN s /\ m + k \in DOMAIN s /\ m + j < m + k
    BY <1>2, <1>i, <1>j
  <2>2. a.call = s[m + j].call /\ e.call = s[m + k].call
    BY <1>2
  <2> QED BY <1>a, <1>b, <2>1, <2>2 DEF InOrder
<1>6. Entries(b, t) \subseteq Entries(b, s)
  BY <1>a, <1>2 DEF Entries
<1>7. Told(b, t)
  BY <1>b, <1>6 DEF Told
<1>8. Counted(b, t)
  <2> SUFFICES ASSUME NEW a \in admissions[b], ~(a.at + Window <= clock + Slack)
               PROVE  \E h \in Entries(b, t) : h.call = a.call
    BY DEF Counted
  <2>1. PICK k \in DOMAIN s : s[k].call = a.call
    BY <1>a, <1>b DEF Counted, Entries
  <2>a. /\ s[k].at \in Nat /\ a.at \in Nat /\ a.at <= s[k].at + MaxDelay
    BY <1>3, <2>1
  <2>2. ~(s[k].at < now - Window)
    BY <1>a, <2>a, Constants DEF Slack
  <2>b. k \in Nat /\ k >= 1 /\ k <= Len(s)
    BY <1>d
  <2>3. k > m
    BY <1>1, <1>i, <2>b, <2>2
  <2>4. k - m \in DOMAIN t
    BY <1>2, <1>i, <1>d, <2>b, <2>3
  <2>5. t[k - m] = s[k]
    <3>1. m + (k - m) = k
      BY <1>i, <2>b
    <3> QED BY <1>2, <2>4, <3>1
  <2> QED BY <1>a, <2>1, <2>4, <2>5 DEF Entries
<1>9. ASSUME NEW a \in admissions[b], NEW h \in Entries(b, t), h.call = a.call
      PROVE  a.at + Window + Slack >= clock
  <2>1. PICK k \in DOMAIN t : h = t[k]
    BY <1>a DEF Entries
  <2>2. m + 1 \in DOMAIN s /\ m < Len(s) /\ (k = 1 \/ m + 1 < m + k)
    BY <1>d, <1>i, <1>j
  <2>a. m + k \in DOMAIN s /\ s[m + k].call = a.call
    BY <1>2, <1>9, <2>1
  <2>b. s[m + 1].at >= now - Window
    BY <1>1, <2>2
  <2>3. PICK e \in admissions[b] : Tells(s[m + 1], e)
    BY <1>b, <1>e, <2>2 DEF Told
  <2>4. e.at <= a.at
    <3>1. CASE k = 1
      <4>1. e = a
        BY <1>b, <2>a, <2>3, <3>1 DEF AdmissionsOf, Tells
      <4> QED BY <4>1, <1>f
    <3>2. CASE m + 1 < m + k
      BY <1>a, <1>b, <2>2, <2>a, <2>3, <3>2 DEF InOrder, Tells
    <3> QED BY <2>2, <3>1, <3>2
  <2>5. s[m + 1].at <= e.at + MaxSkew /\ s[m + 1].at \in Nat
    BY <1>3, <2>2, <2>3 DEF Tells
  <2>6. a.at \in Nat /\ e.at \in Nat
    BY <1>f
  <2> QED BY <1>a, <2>b, <2>4, <2>5, <2>6, Constants DEF Slack
<1>k. Entries(b, t) \subseteq Entries(b, hits[b])
  BY <1>6, <1>h
<1>l. KeptWell(b, t)
  BY <1>4, <1>5, <1>k, <1>7, <1>8, <1>9 DEF KeptWell
<1> QED BY <1>l DEF t

LEMMA KeptIsRight ==
    ASSUME WindowInv, NEW c \in Calls, call[c].pc = "check"
    PROVE  LET b == Bucket(call[c].inst) IN KeptWell(b, Kept(b, call[c].now))
<1>1. call[c].inst \in Instances
  BY DEF WindowInv, CallInv
<1> QED BY <1>1, ClockRead, KeptInRedis, KeptInDeque DEF Bucket

-----------------------------------------------------------------------------
(* The guards of the promise                                               *)

\* A bucket with room for a call has admitted fewer than Limit in the window.
LEMMA RoomInWindow ==
    ASSUME clock \in Nat, NEW b \in Buckets, AdmissionsOf(b), NEW s, KeptWell(b, s),
           Size(b, s) < Limit
    PROVE  Cardinality({a \in admissions[b] : a.at + Window > clock + Slack}) < Limit
<1> DEFINE A == {a \in admissions[b] : a.at + Window > clock + Slack}
<1>1. /\ Entries(b, s) \subseteq Entry /\ IsFiniteSet(Entries(b, s))
      /\ Size(b, s) = Cardinality(Entries(b, s)) /\ Size(b, s) \in Nat
  BY SizeIsNumber DEF KeptWell
<1>2. A \subseteq Entry /\ \A a, e \in A : a.call = e.call => a = e
  BY DEF AdmissionsOf
<1>3. ASSUME NEW a \in A PROVE \E h \in Entries(b, s) : h.call = a.call
  <2>1. a.at \in Nat /\ a.at + Window > clock + Slack
    BY DEF AdmissionsOf, Entry
  <2>2. ~(a.at + Window <= clock + Slack)
    BY <2>1, Constants DEF Slack
  <2> QED BY <2>2 DEF KeptWell, Counted
<1> HIDE DEF A
<1>4. IsFiniteSet(A) /\ Cardinality(A) <= Cardinality(Entries(b, s))
  BY <1>1, <1>2, <1>3, AtMostEntries
<1>5. Cardinality(A) \in Nat
  BY <1>4, FS_CardinalityType
<1>6. Cardinality(A) < Limit
  BY <1>1, <1>4, <1>5, Constants
<1> QED BY <1>6 DEF A

\* A full bucket has admitted Limit calls, none of them long out of the window.
LEMMA FullInWindow ==
    ASSUME NEW b \in Buckets, AdmissionsOf(b), NEW s, KeptWell(b, s), Size(b, s) >= Limit
    PROVE  Cardinality({a \in admissions[b] : a.at + Window + Slack >= clock}) >= Limit
<1> DEFINE A == {a \in admissions[b] : a.at + Window + Slack >= clock}
<1>1. /\ Entries(b, s) \subseteq Entry
      /\ Size(b, s) = Cardinality(Entries(b, s)) /\ Size(b, s) \in Nat
      /\ \A g, h \in Entries(b, s) : g.call = h.call => g = h
  BY SizeIsNumber DEF KeptWell
<1>2. A \subseteq Entry /\ IsFiniteSet(A)
  BY FS_Subset DEF AdmissionsOf
<1>3. ASSUME NEW h \in Entries(b, s) PROVE \E a \in A : a.call = h.call
  <2>1. PICK a \in admissions[b] : Tells(h, a)
    BY DEF KeptWell, Told
  <2>2. a \in A
    BY <2>1 DEF KeptWell, Tells
  <2> QED BY <2>1, <2>2 DEF Tells
<1> HIDE DEF A
<1>4. Cardinality(Entries(b, s)) <= Cardinality(A)
  BY <1>1, <1>2, <1>3, AtMostEntries
<1>5. Cardinality(A) \in Nat
  BY <1>2, FS_CardinalityType
<1>6. Cardinality(A) >= Limit
  BY <1>1, <1>4, <1>5, Constants
<1> QED BY <1>6 DEF A

-----------------------------------------------------------------------------
(* The invariant, bucket by bucket                                         *)

\* A bucket that admits nobody keeps its invariant while time passes.
LEMMA NobodyAdmitted ==
    ASSUME NEW b \in Buckets, NEW s,
           AdmissionsOf(b), Distinct(b, s), InOrder(b, s), Told(b, s), Counted(b, s),
           hits'[b] = s, admissions'[b] = admissions[b],
           clock \in Nat, clock' \in Nat, clock <= clock',
           \A d \in Calls : call[d].pc = "admitted" => call'[d].pc = "admitted"
    PROVE  BucketInv(b)'
<1>0. \A a \in admissions[b] : a.at \in Nat /\ a.call \in Calls
  BY DEF AdmissionsOf, Entry
<1>1. AdmissionsOf(b)'
  BY <1>0 DEF AdmissionsOf
<1>2. Distinct(b, hits[b])' /\ InOrder(b, hits[b])' /\ Told(b, hits[b])'
  BY DEF Distinct, InOrder, Told, Entries, Tells
<1>3. Counted(b, hits[b])'
  <2> SUFFICES ASSUME NEW a \in admissions[b], ~\E h \in Entries(b, s) : h.call = a.call
               PROVE  a.at + Window <= clock' + Slack
    BY DEF Counted, Entries
  <2>1. a.at + Window <= clock + Slack
    BY DEF Counted
  <2> QED BY <1>0, <2>1, Constants DEF Slack
<1> QED BY <1>1, <1>2, <1>3 DEF BucketInv

\* A new process has an empty deque and no admissions.
LEMMA StartsEmpty ==
    ASSUME NEW b \in Instances, hits'[b] = <<>>, admissions'[b] = {}
    PROVE  BucketInv(b)'
<1>1. AdmissionsOf(b)'
  BY FS_EmptySet DEF AdmissionsOf
<1>2. Distinct(b, hits[b])' /\ InOrder(b, hits[b])' /\ Told(b, hits[b])' /\ Counted(b, hits[b])'
  BY Constants DEF Distinct, InOrder, Told, Entries, Counted
<1> QED BY <1>1, <1>2 DEF BucketInv

\* The entries of a bucket that admits a call.
LEMMA EntryAdded ==
    ASSUME NEW b, NEW s, NEW h \in Entry, Distinct(b, s),
           \A g \in Entries(b, s) : g.call # h.call
    PROVE  /\ Distinct(b, Added(b, s, h)) /\ Entries(b, Added(b, s, h)) = Entries(b, s) \cup {h}
           /\ Size(b, Added(b, s, h)) = Size(b, s) + 1
<1>1. CASE b = "redis"
  <2>1. s \subseteq Entry /\ IsFiniteSet(s) /\ \A g, k \in s : g.call = k.call => g = k
    BY <1>1 DEF Distinct
  <2>2. h \notin s /\ \A g \in s : g.call # h.call
    BY <1>1 DEF Entries
  <2>3. IsFiniteSet(s \cup {h}) /\ Cardinality(s \cup {h}) = Cardinality(s) + 1
    BY <2>1, <2>2, FS_AddElement
  <2> QED BY <1>1, <2>1, <2>2, <2>3 DEF Added, Distinct, Entries, Size
<1>2. CASE b # "redis"
  <2> DEFINE t == Append(s, h)
  <2>1. s \in Seq(Entry) /\ \A j, k \in DOMAIN s : s[j].call = s[k].call => j = k
    BY <1>2 DEF Distinct
  <2>2. /\ t \in Seq(Entry) /\ Len(t) = Len(s) + 1 /\ Len(s) \in Nat
        /\ DOMAIN t = 1 .. (Len(s) + 1) /\ DOMAIN s = 1 .. Len(s)
        /\ t[Len(s) + 1] = h /\ \A k \in DOMAIN s : t[k] = s[k]
    BY <2>1
  <2>3. \A k \in DOMAIN s : s[k].call # h.call
    BY <1>2 DEF Entries
  <2> HIDE DEF t
  <2>a. \A k \in DOMAIN t : k \in DOMAIN s \/ k = Len(s) + 1
    BY <2>2
  <2>4. \A j, k \in DOMAIN t : t[j].call = t[k].call => j = k
    BY <2>1, <2>2, <2>3, <2>a
  <2>5. {t[k] : k \in DOMAIN t} = {s[k] : k \in DOMAIN s} \cup {h}
    <3>1. Len(s) + 1 \in DOMAIN t /\ DOMAIN s \subseteq DOMAIN t
      BY <2>2
    <3> QED BY <2>2, <2>a, <3>1
  <2>6. Added(b, s, h) = t
    BY <1>2 DEF Added, t
  <2> QED BY <1>2, <2>2, <2>4, <2>5, <2>6 DEF Distinct, Entries, Size
<1> QED BY <1>1, <1>2

\* The bucket that admits a call keeps its invariant.
LEMMA OneAdmitted ==
    ASSUME WindowInv, NEW c \in Calls, call[c].pc = "check", NEW b \in Buckets, NEW s,
           NEW now \in Nat, now <= clock + MaxSkew, clock <= now + MaxDelay,
           AdmissionsOf(b), KeptWell(b, s), clock' = clock,
           hits'[b] = Added(b, s, [call |-> c, at |-> now]),
           admissions'[b] = admissions[b] \cup {[call |-> c, at |-> clock]},
           call'[c].pc = "admitted",
           \A d \in Calls : call[d].pc = "admitted" => call'[d].pc = "admitted"
    PROVE  BucketInv(b)'
<1> DEFINE h == [call |-> c, at |-> now]
           n == [call |-> c, at |-> clock]
           t == Added(b, s, h)
<1>0. clock \in Nat /\ h \in Entry /\ n \in Entry
  BY DEF WindowInv, Entry
<1>a. /\ h.call = c /\ h.at = now /\ n.call = c /\ n.at = clock
      /\ h.at <= n.at + MaxSkew /\ n.at <= h.at + MaxDelay
  OBVIOUS
<1>1. \A a \in admissions[b] : a.call # c /\ a.call \in Calls /\ a.at \in Nat /\ a.at <= clock
  BY DEF AdmissionsOf, Entry
<1>2. \A g \in Entries(b, s) : g.call # h.call
  <2> SUFFICES ASSUME NEW g \in Entries(b, s) PROVE g.call # c
    OBVIOUS
  <2>1. PICK a \in admissions[b] : Tells(g, a)
    BY DEF KeptWell, Told
  <2> QED BY <1>1, <2>1 DEF Tells
<1>b. hits'[b] = t /\ admissions'[b] = admissions[b] \cup {n}
  OBVIOUS
<1> HIDE DEF h, n
<1>3. Distinct(b, t) /\ Entries(b, t) = Entries(b, s) \cup {h}
  BY <1>0, <1>2, EntryAdded DEF KeptWell
<1>4. AdmissionsOf(b)'
  <2>1. admissions'[b] \subseteq Entry /\ IsFiniteSet(admissions'[b])
    BY <1>0, <1>b, FS_AddElement DEF AdmissionsOf
  <2>2. \A a \in admissions'[b] : a.at <= clock' /\ call'[a.call].pc = "admitted"
    BY <1>0, <1>1, <1>a, <1>b DEF AdmissionsOf
  <2>3. \A a, e \in admissions'[b] : a.call = e.call => a = e
    BY <1>1, <1>a, <1>b DEF AdmissionsOf
  <2> QED BY <2>1, <2>2, <2>3 DEF AdmissionsOf
<1>5. Distinct(b, hits[b])'
  BY <1>3, <1>b DEF Distinct
<1>6. InOrder(b, hits[b])'
  <2> SUFFICES ASSUME b # "redis", NEW j \in DOMAIN hits'[b], NEW k \in DOMAIN hits'[b], j < k,
                      NEW a \in admissions'[b], NEW e \in admissions'[b],
                      a.call = hits'[b][j].call, e.call = hits'[b][k].call
               PROVE  a.at <= e.at
    BY DEF InOrder
  <2>1. s \in Seq(Entry) /\ t = Append(s, h)
    BY DEF KeptWell, Distinct, Added
  <2>2. /\ DOMAIN t = 1 .. (Len(s) + 1) /\ DOMAIN s = 1 .. Len(s) /\ Len(s) \in Nat
        /\ t[Len(s) + 1] = h /\ \A i \in DOMAIN s : t[i] = s[i]
    BY <2>1, <1>0
  <2> HIDE DEF t
  <2>3. j \in DOMAIN s /\ (k \in DOMAIN s \/ k = Len(s) + 1)
    BY <1>b, <2>2
  <2>4. s[j] \in Entries(b, s) /\ t[j] = s[j]
    BY <2>2, <2>3 DEF Entries
  <2>5. a \in admissions[b]
    BY <1>2, <1>a, <1>b, <2>4
  <2>6. CASE e = n
    BY <1>1, <1>a, <2>5, <2>6
  <2>7. CASE e \in admissions[b]
    <3>1. k \in DOMAIN s
      BY <1>1, <1>a, <1>b, <2>2, <2>3, <2>7
    <3>2. a.call = s[j].call /\ e.call = s[k].call
      BY <1>b, <2>2, <2>3, <3>1
    <3> QED BY <2>3, <2>5, <2>7, <3>1, <3>2 DEF KeptWell, InOrder
  <2> QED BY <1>b, <2>6, <2>7
<1>7. Told(b, hits[b])'
  <2>1. \A g \in Entries(b, t) : \E a \in admissions'[b] : Tells(g, a)
    <3>1. Tells(h, n)
      BY <1>a DEF Tells
    <3> QED BY <1>3, <1>b, <3>1 DEF KeptWell, Told
  <2> QED BY <1>b, <2>1 DEF Told, Entries, Tells
<1>8. Counted(b, hits[b])'
  <2>1. \A a \in admissions'[b] :
          (\E g \in Entries(b, t) : g.call = a.call) \/ a.at + Window <= clock + Slack
    BY <1>3, <1>a, <1>b DEF KeptWell, Counted
  <2> QED BY <1>b, <2>1 DEF Counted, Entries
<1> QED BY <1>4, <1>5, <1>6, <1>7, <1>8 DEF BucketInv

-----------------------------------------------------------------------------
(* The invariant, step by step                                             *)

LEMMA InitWindow ==
    ASSUME Init
    PROVE  WindowInv
<1>1. /\ clock = 0 /\ lives = 0 /\ skew \in [Instances -> 0 .. MaxSkew]
      /\ call = [c \in Calls |-> [pc |-> "idle"]]
      /\ hits = [b \in Buckets |-> IF b = "redis" THEN {} ELSE <<>>]
      /\ admissions = [b \in Buckets |-> {}]
  BY DEF Init
<1>2. CallInv
  BY <1>1 DEF CallInv
<1>3. KeyLives
  BY <1>1 DEF KeyLives, Buckets
<1>4. ASSUME NEW b \in Buckets PROVE BucketInv(b)
  <2>1. admissions[b] = {} /\ hits[b] = IF b = "redis" THEN {} ELSE <<>>
    BY <1>1
  <2>2. AdmissionsOf(b)
    BY <2>1, FS_EmptySet DEF AdmissionsOf
  <2>3. Distinct(b, hits[b]) /\ InOrder(b, hits[b]) /\ Told(b, hits[b]) /\ Counted(b, hits[b])
    BY <2>1, FS_EmptySet DEF Distinct, InOrder, Told, Entries, Counted
  <2> QED BY <2>2, <2>3 DEF BucketInv
<1> QED BY <1>1, <1>2, <1>3, <1>4 DEF WindowInv

LEMMA WindowReadClock ==
    ASSUME WindowInv, NEW c \in Calls, NEW i \in Instances, ReadClock(c, i)
    PROVE  WindowInv'
<1>0. /\ clock \in Nat /\ skew \in [Instances -> 0 .. MaxSkew] /\ CallInv /\ call[c].pc = "idle"
      /\ call' = [call EXCEPT ![c] = [pc |-> "check", inst |-> i, now |-> clock + skew[i],
                                      since |-> clock]]
      /\ UNCHANGED <<skew, clock, hits, lives, admissions>>
  BY DEF WindowInv, ReadClock, limitVars
<1>1. CallInv'
  <2>1. call' = [d \in Calls |-> call'[d]]
    BY <1>0 DEF CallInv
  <2>2. ASSUME NEW d \in Calls, call'[d].pc = "check"
        PROVE  /\ call'[d].inst \in Instances /\ call'[d].since \in Nat
               /\ call'[d].now = call'[d].since + skew[call'[d].inst]
               /\ call'[d].since <= clock /\ clock <= call'[d].since + MaxDelay
    <3>1. CASE d = c
      <4>1. call'[d] = [pc |-> "check", inst |-> i, now |-> clock + skew[i], since |-> clock]
        BY <1>0, <3>1 DEF CallInv
      <4> QED BY <1>0, <4>1, Constants
    <3>2. CASE d # c
      BY <1>0, <2>2, <3>2 DEF CallInv
    <3> QED BY <3>1, <3>2
  <2> QED BY <1>0, <2>1, <2>2 DEF CallInv
<1>2. KeyLives'
  BY <1>0 DEF WindowInv, KeyLives
<1>3. ASSUME NEW b \in Buckets PROVE BucketInv(b)'
  <2>1. \A d \in Calls : call[d].pc = "admitted" => call'[d].pc = "admitted"
    BY <1>0 DEF CallInv
  <2>2. BucketInv(b) /\ clock <= clock' /\ clock' \in Nat
    BY <1>0 DEF WindowInv
  <2> QED BY <1>0, <2>1, <2>2, NobodyAdmitted DEF BucketInv
<1> QED BY <1>0, <1>1, <1>2, <1>3 DEF WindowInv

LEMMA WindowTick ==
    ASSUME WindowInv, Tick
    PROVE  WindowInv'
<1>0. /\ clock \in Nat /\ clock' = clock + 1 /\ CallInv
      /\ \A c \in Calls : call[c].pc = "check" => clock < call[c].since + MaxDelay
      /\ UNCHANGED <<skew, call, hits, lives, admissions>>
  BY DEF WindowInv, Tick, limitVars
<1>1. CallInv'
  <2>1. ASSUME NEW c \in Calls, call[c].pc = "check"
        PROVE  call[c].since <= clock' /\ clock' <= call[c].since + MaxDelay
    BY <1>0, <2>1, Constants DEF CallInv
  <2> QED BY <1>0, <2>1 DEF CallInv
<1>2. KeyLives'
  BY <1>0 DEF WindowInv, KeyLives
<1>3. ASSUME NEW b \in Buckets PROVE BucketInv(b)'
  <2>1. BucketInv(b) /\ clock <= clock' /\ clock' \in Nat
    BY <1>0 DEF WindowInv
  <2> QED BY <1>0, <2>1, NobodyAdmitted DEF BucketInv
<1> QED BY <1>0, <1>1, <1>2, <1>3 DEF WindowInv

LEMMA WindowRestart ==
    ASSUME WindowInv, NEW i \in Instances, Restart(i)
    PROVE  WindowInv'
<1>0. /\ call' = [c \in Calls |-> IF call[c].pc = "check" /\ call[c].inst = i
                                  THEN [pc |-> "lost"] ELSE call[c]]
      /\ hits' = [hits EXCEPT ![i] = <<>>] /\ admissions' = [admissions EXCEPT ![i] = {}]
      /\ UNCHANGED <<skew, clock, lives>>
  BY DEF Restart
<1>a. /\ clock \in Nat /\ CallInv /\ i \in Buckets /\ i # "redis" /\ "redis" \in Buckets
      /\ hits = [b \in Buckets |-> hits[b]] /\ admissions = [b \in Buckets |-> admissions[b]]
  BY Constants DEF WindowInv, Buckets
<1>b. hits'[i] = <<>> /\ admissions'[i] = {}
  BY <1>0, <1>a
<1>c. \A b \in Buckets : b # i => hits'[b] = hits[b] /\ admissions'[b] = admissions[b]
  BY <1>0, <1>a
<1>1. CallInv'
  <2>1. \A c \in Calls : call'[c].pc = "check" => call'[c] = call[c]
    BY <1>0
  <2>2. call' = [c \in Calls |-> call'[c]]
    BY <1>0
  <2> QED BY <1>0, <1>a, <2>1, <2>2 DEF CallInv
<1>2. KeyLives'
  BY <1>0, <1>a, <1>c DEF WindowInv, KeyLives
<1>3. ASSUME NEW b \in Buckets PROVE BucketInv(b)'
  <2>1. CASE b = i
    BY <1>b, <2>1, StartsEmpty
  <2>2. CASE b # i
    <3>1. \A d \in Calls : call[d].pc = "admitted" => call'[d].pc = "admitted"
      BY <1>0
    <3>2. BucketInv(b) /\ clock <= clock' /\ clock' \in Nat
      BY <1>0, <1>a DEF WindowInv
    <3> QED BY <1>a, <1>c, <2>2, <3>1, <3>2, NobodyAdmitted DEF BucketInv
  <2> QED BY <2>1, <2>2
<1> QED BY <1>0, <1>a, <1>1, <1>2, <1>3 DEF WindowInv

\* A call at the count of bucket b, in which s is left: the two ways to go on.
Refuses(c, b, now, s) ==
    /\ Size(b, s) >= Limit
    /\ hits' = [hits EXCEPT ![b] = s]
    /\ call' = [call EXCEPT ![c] = [pc |-> "refused"]]
    /\ refused' = [refused EXCEPT ![b] = @ \cup {c}]
    /\ told' = [told EXCEPT ![b] = [at |-> clock, wait |-> RetryAfter(b, s, now)]]
    /\ UNCHANGED <<lives, admissions>>

Admits(c, b, now, s) ==
    /\ Size(b, s) < Limit
    /\ hits' = [hits EXCEPT ![b] = Added(b, s, [call |-> c, at |-> now])]
    /\ call' = [call EXCEPT ![c] = [pc |-> "admitted"]]
    /\ admissions' = [admissions EXCEPT ![b] = @ \cup {[call |-> c, at |-> clock]}]
    /\ lives' = IF b = "redis" THEN clock + Window ELSE lives
    /\ UNCHANGED <<refused, told>>

LEMMA AtTheCount ==
    ASSUME WindowInv, NEW c \in Calls, Check(c)
    PROVE  \E b \in Buckets, now \in Nat : \E s :
               /\ call[c].pc = "check" /\ s = Kept(b, now) /\ KeptWell(b, s)
               /\ now <= clock + MaxSkew /\ clock <= now + MaxDelay
               /\ UNCHANGED <<backend, skew, clock, restarts>>
               /\ Refuses(c, b, now, s) \/ Admits(c, b, now, s)
<1> DEFINE b == Bucket(call[c].inst)
           now == call[c].now
           s == Kept(b, now)
<1>1. call[c].pc = "check"
  BY DEF Check
<1>2. b \in Buckets /\ now \in Nat /\ now <= clock + MaxSkew /\ clock <= now + MaxDelay
  BY <1>1, ClockRead
<1>3. KeptWell(b, s)
  BY <1>1, KeptIsRight
<1>4. ~(Size(b, s) >= Limit) => Size(b, s) < Limit
  BY <1>3, SizeIsNumber, Constants DEF KeptWell
<1>5. /\ UNCHANGED <<backend, skew, clock, restarts>>
      /\ Refuses(c, b, now, s) \/ Admits(c, b, now, s)
  BY <1>4 DEF Check, Refuses, Admits
<1>6. s = Kept(b, now)
  OBVIOUS
<1> HIDE DEF b, now, s
<1> QED BY <1>1, <1>2, <1>3, <1>5, <1>6

LEMMA WindowCheck ==
    ASSUME WindowInv, NEW c \in Calls, Check(c)
    PROVE  WindowInv'
<1>1. PICK b \in Buckets, now \in Nat : \E s :
        /\ call[c].pc = "check" /\ s = Kept(b, now) /\ KeptWell(b, s)
        /\ now <= clock + MaxSkew /\ clock <= now + MaxDelay
        /\ UNCHANGED <<backend, skew, clock, restarts>>
        /\ Refuses(c, b, now, s) \/ Admits(c, b, now, s)
  BY AtTheCount
<1>2. PICK s :
        /\ call[c].pc = "check" /\ KeptWell(b, s)
        /\ now <= clock + MaxSkew /\ clock <= now + MaxDelay
        /\ UNCHANGED <<backend, skew, clock, restarts>>
        /\ Refuses(c, b, now, s) \/ Admits(c, b, now, s)
  BY <1>1
<1>3. /\ clock \in Nat /\ lives \in Nat /\ CallInv /\ KeyLives /\ BucketInv(b)
      /\ skew \in [Instances -> 0 .. MaxSkew] /\ clock' = clock /\ skew' = skew
      /\ hits = [d \in Buckets |-> hits[d]] /\ admissions = [d \in Buckets |-> admissions[d]]
      /\ call = [d \in Calls |-> call[d]]
  BY <1>2 DEF WindowInv, CallInv
<1>4. /\ call' = [d \in Calls |-> call'[d]]
      /\ \A d \in Calls : d # c => call'[d] = call[d]
      /\ call'[c].pc \in {"refused", "admitted"}
      /\ Admits(c, b, now, s) => call'[c].pc = "admitted"
  BY <1>2, <1>3 DEF Refuses, Admits
<1>5. CallInv'
  BY <1>3, <1>4 DEF CallInv
<1>6. \A d \in Calls : call[d].pc = "admitted" => call'[d].pc = "admitted"
  BY <1>2, <1>4
<1>7. /\ hits' = [d \in Buckets |-> hits'[d]] /\ admissions' = [d \in Buckets |-> admissions'[d]]
      /\ \A d \in Buckets : d # b => hits'[d] = hits[d] /\ admissions'[d] = admissions[d]
  <2>1. CASE Refuses(c, b, now, s)
    BY <1>3, <2>1 DEF Refuses
  <2>2. CASE Admits(c, b, now, s)
    BY <1>3, <2>2 DEF Admits
  <2> QED BY <1>2, <2>1, <2>2
<1>8. ASSUME NEW d \in Buckets PROVE BucketInv(d)'
  <2>0. BucketInv(d) /\ clock' \in Nat /\ clock <= clock'
    BY <1>3 DEF WindowInv
  <2>1. CASE d # b
    <3>1. hits'[d] = hits[d] /\ admissions'[d] = admissions[d]
      BY <1>7, <2>1
    <3> QED BY <1>3, <1>6, <2>0, <3>1, NobodyAdmitted DEF BucketInv
  <2>2. CASE d = b /\ Refuses(c, b, now, s)
    <3>1. hits'[d] = s /\ admissions'[d] = admissions[d]
      BY <1>3, <2>2 DEF Refuses
    <3>2. AdmissionsOf(d) /\ Distinct(d, s) /\ InOrder(d, s) /\ Told(d, s) /\ Counted(d, s)
      BY <1>2, <2>0, <2>2 DEF BucketInv, KeptWell
    <3> QED BY <1>3, <1>6, <2>0, <3>1, <3>2, NobodyAdmitted
  <2>3. CASE d = b /\ Admits(c, b, now, s)
    <3>1. /\ hits'[d] = Added(d, s, [call |-> c, at |-> now])
          /\ admissions'[d] = admissions[d] \cup {[call |-> c, at |-> clock]}
      BY <1>3, <2>3 DEF Admits
    <3>2. AdmissionsOf(d) /\ KeptWell(d, s) /\ call'[c].pc = "admitted"
      BY <1>2, <1>4, <2>0, <2>3 DEF BucketInv
    <3> QED BY <1>2, <1>3, <1>6, <3>1, <3>2, OneAdmitted
  <2> QED BY <1>2, <2>1, <2>2, <2>3
<1>9. lives' \in Nat /\ KeyLives'
  <2>1. CASE Refuses(c, b, now, s)
    BY <1>3, <2>1 DEF Refuses, KeyLives
  <2>2. CASE Admits(c, b, now, s) /\ b # "redis"
    BY <1>3, <1>7, <2>2 DEF Admits, KeyLives, Buckets
  <2>3. CASE Admits(c, b, now, s) /\ b = "redis"
    <3>1. lives' = clock + Window
      BY <2>3 DEF Admits
    <3>2. \A a \in admissions'["redis"] : a.at \in Nat /\ a.at <= clock
      BY <1>3, <1>8, <2>3 DEF BucketInv, AdmissionsOf, Entry
    <3> QED BY <1>3, <3>1, <3>2, Constants DEF KeyLives
  <2> QED BY <1>2, <2>1, <2>2, <2>3
<1> QED BY <1>3, <1>5, <1>7, <1>8, <1>9 DEF WindowInv

LEMMA NextWindow ==
    ASSUME WindowInv, [Next]_vars
    PROVE  WindowInv'
<1>1. CASE UNCHANGED vars
  <2>1. UNCHANGED <<clock, lives, skew, call, hits, admissions>> /\ clock \in Nat /\ clock <= clock'
    BY <1>1 DEF vars, limitVars, WindowInv
  <2>2. CallInv' /\ KeyLives'
    BY <2>1 DEF WindowInv, CallInv, KeyLives
  <2>3. \A b \in Buckets : BucketInv(b)'
    BY <2>1, NobodyAdmitted DEF WindowInv, BucketInv
  <2> QED BY <2>1, <2>2, <2>3 DEF WindowInv
<1>2. CASE \E c \in Calls : Check(c)
  BY <1>2, WindowCheck
<1>3. CASE \E c \in Calls : \E i \in Instances : ReadClock(c, i)
  BY <1>3, WindowReadClock
<1>4. CASE \E i \in Instances : Restart(i)
  BY <1>4, WindowRestart
<1>5. CASE Tick
  BY <1>5, WindowTick
<1> QED BY <1>1, <1>2, <1>3, <1>4, <1>5 DEF Next

-----------------------------------------------------------------------------
(* The two backends implement the promise                                  *)

LEMMA SameCardinality ==
    ASSUME NEW A
    PROVE  Promise!Cardinality(A) = Cardinality(A)
BY Zenon DEF Promise!Cardinality, Cardinality

LEMMA CheckKeepsPromise ==
    ASSUME WindowInv, NEW c \in Calls, Check(c)
    PROVE  \E b \in Buckets : Promise!Admit(b, c) \/ Promise!Refuse(b, c)
<1>1. PICK b \in Buckets, now \in Nat : \E s :
        /\ KeptWell(b, s) /\ UNCHANGED clock
        /\ Refuses(c, b, now, s) \/ Admits(c, b, now, s)
  BY AtTheCount
<1>2. PICK s :
        /\ KeptWell(b, s) /\ UNCHANGED clock
        /\ Refuses(c, b, now, s) \/ Admits(c, b, now, s)
  BY <1>1
<1>3. clock \in Nat /\ AdmissionsOf(b)
  BY DEF WindowInv, BucketInv
<1>4. CASE Refuses(c, b, now, s)
  <2>1. Cardinality({a \in admissions[b] : a.at + Window + Slack >= clock}) >= Limit
    BY <1>2, <1>3, <1>4, FullInWindow DEF Refuses
  <2>2. Promise!Refuse(b, c)
    BY <1>2, <1>4, <2>1, SameCardinality DEF Refuses, Promise!Refuse, Slack
  <2> QED BY <2>2
<1>5. CASE Admits(c, b, now, s)
  <2>1. Cardinality({a \in admissions[b] : a.at + Window > clock + Slack}) < Limit
    BY <1>2, <1>3, <1>5, RoomInWindow DEF Admits
  <2>2. Promise!Admit(b, c)
    BY <1>2, <1>5, <2>1, SameCardinality DEF Admits, Promise!Admit, Slack
  <2> QED BY <2>2
<1> QED BY <1>2, <1>4, <1>5

LEMMA StepKeepsPromise ==
    ASSUME WindowInv, [Next]_vars
    PROVE  [Promise!Next]_(Promise!vars)
<1>1. CASE UNCHANGED vars
  BY <1>1 DEF vars, limitVars, Promise!vars
<1>2. CASE \E c \in Calls : Check(c)
  BY <1>2, CheckKeepsPromise DEF Promise!Next
<1>3. CASE \E c \in Calls : \E i \in Instances : ReadClock(c, i)
  BY <1>3 DEF ReadClock, limitVars, Promise!vars
<1>4. CASE \E i \in Instances : Restart(i)
  BY <1>4 DEF Restart, Buckets, Promise!Next, Promise!Forget
<1>5. CASE Tick
  BY <1>5 DEF Tick, limitVars, Promise!Next, Promise!Tick
<1> QED BY <1>1, <1>2, <1>3, <1>4, <1>5 DEF Next

\* InMemoryRateLimiter and RedisRateLimiter both implement the sliding window, in a fleet of any
\* size, with clocks apart and calls late by as much as MaxSkew and MaxDelay say, whatever restarts.
THEOREM BothKeepTheWindow == Spec => KeepsTheWindow
<1>1. Init => WindowInv
  BY InitWindow
<1>2. WindowInv /\ [Next]_vars => WindowInv'
  BY NextWindow
<1>3. Init => Promise!Init
  BY DEF Init, Promise!Init
<1>4. WindowInv /\ [Next]_vars => [Promise!Next]_(Promise!vars)
  BY StepKeepsPromise
<1> QED BY <1>1, <1>2, <1>3, <1>4, PTL DEF Spec, KeepsTheWindow, Promise!Spec

-----------------------------------------------------------------------------
(* Waiting as long as told                                                 *)

\* When b's last refusal said that there is room again, as late as it may have meant.
Due(b) == told[b].at + told[b].wait * Unit + Unit \div 2 + MaxSkew

\* A bucket is never more than full, and one that is full since its last refusal has as its
\* first entry one that is out of the window when that refusal said.
ToldOf(b) ==
    /\ told[b].at \in Nat /\ told[b].at <= clock /\ told[b].wait \in Int
    /\ Size(b, hits[b]) <= Limit
    /\ \/ Limit = 0 \/ Size(b, hits[b]) < Limit
       \/ \E a \in admissions[b] : a.at >= told[b].at
       \/ \E h \in Entries(b, hits[b]) :
            (b # "redis" => h = hits[b][1]) /\ h.at + Window <= Due(b)

ToldInv ==
    /\ told = [b \in Buckets |-> told[b]] /\ refused = [b \in Buckets |-> refused[b]]
    /\ \A b \in Buckets : ToldOf(b)

LEMMA DivMod ==
    ASSUME NEW t \in Nat, NEW u \in Nat, u > 0
    PROVE  /\ t \div u \in Int /\ t % u \in Nat /\ t % u < u
           /\ t = (t \div u) * u + (t % u)
<1>1. t \div u \in Int /\ t % u \in 0 .. (u - 1)
  OBVIOUS
<1>2. t = u * (t \div u) + (t % u)
  BY SMTT(30)
<1>3. u * (t \div u) = (t \div u) * u
  BY <1>1
<1> QED BY <1>1, <1>2, <1>3

\* The header falls short of what is left by no more than half a second.
LEMMA Rounded ==
    ASSUME NEW b, NEW s, NEW now, NEW left \in Int,
           left = IF Size(b, s) = 0 THEN Window ELSE Oldest(b, s) + Window - now
    PROVE  RetryAfter(b, s, now) \in Int /\ left <= RetryAfter(b, s, now) * Unit + Unit \div 2
<1> DEFINE ticks == IF left < Unit THEN Unit ELSE left
           whole == ticks \div Unit
           over == 2 * (ticks % Unit)
           w == RetryAfter(b, s, now)
<1>1. ticks \in Nat /\ left <= ticks
  BY Constants
<1>2. w = IF over > Unit \/ (over = Unit /\ whole % 2 = 1) THEN whole + 1 ELSE whole
  BY DEF RetryAfter
<1> HIDE DEF ticks, w
<1>3. /\ whole \in Int /\ ticks % Unit \in Nat /\ ticks % Unit < Unit
      /\ ticks = whole * Unit + (ticks % Unit)
  BY <1>1, DivMod, Constants
<1>4. over \in Nat /\ whole * Unit \in Int /\ (whole + 1) * Unit = whole * Unit + Unit
  BY <1>3, Constants
<1>5. Unit \div 2 \in Nat
  BY Constants
<1>6. CASE w = whole + 1
  <2>1. w \in Int /\ w * Unit = whole * Unit + Unit
    BY <1>3, <1>4, <1>6
  <2>2. left <= whole * Unit + Unit + Unit \div 2
    BY <1>1, <1>3, <1>4, <1>5, Constants
  <2> QED BY <2>1, <2>2 DEF w
<1>7. CASE w = whole /\ ~(over > Unit)
  <2>1. 2 * (ticks % Unit) <= Unit
    BY <1>4, <1>7, Constants
  <2>2. ticks % Unit <= Unit \div 2
    BY <1>3, <2>1, Constants
  <2>3. left <= whole * Unit + Unit \div 2
    BY <1>1, <1>3, <1>4, <1>5, <2>2, Constants
  <2> QED BY <1>3, <1>7, <2>3 DEF w
<1> QED BY <1>2, <1>6, <1>7

\* hits[0] and ZRANGE 0 0 are there if anything is.
LEMMA OldestIsThere ==
    ASSUME NEW b, NEW s, Distinct(b, s), Size(b, s) > 0
    PROVE  \E h \in Entries(b, s) :
             h.at \in Nat /\ h.at = Oldest(b, s) /\ (b # "redis" => h = s[1])
<1>1. CASE b = "redis"
  <2>1. s \subseteq Entry /\ IsFiniteSet(s) /\ s # {}
    BY <1>1, FS_EmptySet DEF Distinct, Size
  <2> DEFINE T == {h.at : h \in s}
  <2>2. T \in SUBSET Nat /\ T # {}
    BY <2>1 DEF Entry
  <2>3. PICK x \in T : \A y \in T : x <= y
    BY <2>2, Smallest
  <2>4. PICK g \in s : x = g.at
    OBVIOUS
  <2>5. \A k \in s : g.at <= k.at
    BY <2>3, <2>4
  <2> DEFINE h == CHOOSE h \in s : \A k \in s : h.at <= k.at
  <2>6. h \in s
    BY <2>5
  <2>7. h.at \in Nat
    BY <2>1, <2>6 DEF Entry
  <2>8. Oldest(b, s) = h.at
    BY <1>1 DEF Oldest
  <2> HIDE DEF h
  <2> QED BY <1>1, <2>6, <2>7, <2>8 DEF Entries
<1>2. CASE b # "redis"
  <2>1. s \in Seq(Entry) /\ Len(s) > 0
    BY <1>2 DEF Distinct, Size
  <2>2. 1 \in DOMAIN s /\ s[1] \in Entry
    BY <2>1
  <2>3. s[1].at \in Nat /\ Oldest(b, s) = s[1].at
    BY <1>2, <2>2 DEF Entry, Oldest
  <2> QED BY <1>2, <2>2, <2>3 DEF Entries
<1> QED BY <1>1, <1>2

\* Nothing is added to what is left.
LEMMA KeptIsSmaller ==
    ASSUME NEW b \in Buckets, BucketInv(b), NEW s, KeptWell(b, s)
    PROVE  /\ Size(b, s) \in Nat /\ Size(b, hits[b]) \in Nat /\ Size(b, s) <= Size(b, hits[b])
           /\ Size(b, s) = Size(b, hits[b]) => Entries(b, s) = Entries(b, hits[b])
<1>1. /\ IsFiniteSet(Entries(b, hits[b])) /\ Size(b, hits[b]) = Cardinality(Entries(b, hits[b]))
      /\ Size(b, hits[b]) \in Nat
  BY SizeIsNumber DEF BucketInv
<1>2. Size(b, s) = Cardinality(Entries(b, s)) /\ Size(b, s) \in Nat
  BY SizeIsNumber DEF KeptWell
<1>3. Entries(b, s) \in SUBSET Entries(b, hits[b])
  BY DEF KeptWell
<1> QED BY <1>1, <1>2, <1>3, FS_Subset

\* A bucket from which nothing is dropped has a first entry in the window.
LEMMA FirstIsYoung ==
    ASSUME NEW b \in Buckets, BucketInv(b), NEW now \in Nat, NEW s,
           s = Kept(b, now), KeptWell(b, s), Size(b, s) = Size(b, hits[b]),
           NEW h \in Entries(b, hits[b]), b # "redis" => h = hits[b][1]
    PROVE  h.at \in Nat /\ h.at >= now - Window
<1>1. h \in Entries(b, s) /\ h.at \in Nat
  BY KeptIsSmaller, SizeIsNumber DEF BucketInv, Entry
<1>2. CASE b = "redis"
  <2>1. h.at > now - Window
    BY <1>1, <1>2 DEF Entries, Kept, ZRemRange
  <2> QED BY <1>1, <2>1, Constants
<1>3. CASE b # "redis"
  <2>1. /\ hits[b] \in Seq(Entry) /\ s = DropLeft(hits[b], now - Window)
        /\ now - Window \in Int
    BY <1>3, Constants DEF BucketInv, Distinct, Kept
  <2>2. PICK m \in 0 .. Len(hits[b]) :
          /\ s = SubSeq(hits[b], m + 1, Len(hits[b]))
          /\ m < Len(hits[b]) => hits[b][m + 1].at >= now - Window
    BY <2>1, DropLeftKeeps
  <2>3. Len(s) = Len(hits[b]) - m /\ Len(hits[b]) \in Nat
    BY <2>1, <2>2, Suffix
  <2>4. Len(s) = Len(hits[b])
    BY <1>3 DEF Size
  <2>5. m = 0
    BY <2>3, <2>4
  <2>6. Len(hits[b]) > 0
    BY <1>3, <2>1, <2>3 DEF Entries
  <2>7. hits[b][1].at >= now - Window
    BY <2>2, <2>5, <2>6
  <2> QED BY <1>1, <1>3, <2>7
<1> QED BY <1>2, <1>3

LEMMA DueIsNumber ==
    ASSUME NEW b \in Buckets, ToldOf(b)
    PROVE  Due(b) \in Int
<1>1. told[b].wait * Unit \in Int /\ Unit \div 2 \in Int
  BY Constants DEF ToldOf
<1> QED BY <1>1, Constants DEF Due, ToldOf

LEMMA InitTold ==
    ASSUME Init
    PROVE  ToldInv
<1>1. /\ clock = 0 /\ hits = [b \in Buckets |-> IF b = "redis" THEN {} ELSE <<>>]
      /\ refused = [b \in Buckets |-> {}]
      /\ told = [b \in Buckets |-> [at |-> 0, wait |-> MaxClock]]
  BY DEF Init
<1>2. ASSUME NEW b \in Buckets PROVE ToldOf(b)
  <2>1. told[b].at = 0 /\ told[b].wait \in Int
    BY <1>1, LimitAssumption
  <2>2. Size(b, hits[b]) = 0
    BY <1>1, FS_EmptySet DEF Size
  <2> QED BY <1>1, <2>1, <2>2, Constants DEF ToldOf
<1> QED BY <1>1, <1>2 DEF ToldInv

\* What a refusal has said stays true of a bucket that no call gets to.
LEMMA StillTold ==
    ASSUME NEW b \in Buckets, ToldOf(b), clock \in Nat, clock' \in Nat, clock <= clock',
           hits'[b] = hits[b], told'[b] = told[b], admissions'[b] = admissions[b]
    PROVE  ToldOf(b)'
<1>1. told'[b].at \in Nat /\ told'[b].at <= clock' /\ told'[b].wait \in Int
  BY DEF ToldOf
<1> QED BY <1>1 DEF ToldOf, Due, Size, Entries

LEMMA RefusedTold ==
    ASSUME WindowInv, NEW b \in Buckets, ToldOf(b), NEW now \in Nat, NEW s,
           KeptWell(b, s), now <= clock + MaxSkew, clock' = clock,
           Size(b, s) >= Limit, hits'[b] = s, admissions'[b] = admissions[b],
           told'[b] = [at |-> clock, wait |-> RetryAfter(b, s, now)]
    PROVE  ToldOf(b)'
<1>0. clock \in Nat /\ BucketInv(b) /\ Distinct(b, s)
  BY DEF WindowInv, KeptWell
<1>1. Size(b, s) = Limit /\ Size(b, s) \in Nat
  BY <1>0, KeptIsSmaller, Constants DEF ToldOf
<1> DEFINE w == RetryAfter(b, s, now)
<1>a. told'[b].at = clock /\ told'[b].wait = w
  OBVIOUS
<1> HIDE DEF w
<1>2. CASE Limit = 0
  <2>1. Size(b, s) = 0
    BY <1>1, <1>2
  <2>2. w \in Int
    BY <2>1, Rounded, Constants DEF w
  <2> QED BY <1>0, <1>1, <1>2, <1>a, <2>2, Constants DEF ToldOf, Size
<1>3. CASE Limit # 0
  <2>1. PICK h \in Entries(b, s) :
          h.at \in Nat /\ h.at = Oldest(b, s) /\ (b # "redis" => h = s[1])
    BY <1>0, <1>1, <1>3, OldestIsThere, Constants
  <2>2. w \in Int /\ h.at + Window - now <= w * Unit + Unit \div 2
    <3>1. h.at + Window - now \in Int
      BY <2>1, Constants
    <3>2. h.at + Window - now = IF Size(b, s) = 0 THEN Window ELSE Oldest(b, s) + Window - now
      BY <1>1, <1>3, <2>1
    <3> QED BY <3>1, <3>2, Rounded DEF w
  <2>3. w * Unit \in Int /\ Unit \div 2 \in Int
    BY <2>2, Constants
  <2>4. h.at + Window <= clock + w * Unit + Unit \div 2 + MaxSkew
    BY <1>0, <2>1, <2>2, <2>3, Constants
  <2>5. h.at + Window <= Due(b)'
    BY <1>a, <2>4 DEF Due
  <2>6. h \in Entries(b, hits[b])' /\ (b # "redis" => h = hits'[b][1])
    BY <2>1 DEF Entries
  <2>7. Size(b, hits[b])' <= Limit
    BY <1>1 DEF Size
  <2> QED BY <1>0, <1>a, <2>2, <2>5, <2>6, <2>7 DEF ToldOf
<1> QED BY <1>2, <1>3

LEMMA AdmittedTold ==
    ASSUME WindowInv, NEW b \in Buckets, ToldOf(b), NEW c \in Calls, NEW now \in Nat, NEW s,
           KeptWell(b, s), call[c].pc = "check", clock' = clock,
           Size(b, s) < Limit, hits'[b] = Added(b, s, [call |-> c, at |-> now]),
           admissions'[b] = admissions[b] \cup {[call |-> c, at |-> clock]}, told'[b] = told[b]
    PROVE  ToldOf(b)'
<1> DEFINE h == [call |-> c, at |-> now]
<1>0. clock \in Nat /\ AdmissionsOf(b) /\ Distinct(b, s) /\ h \in Entry /\ h.call = c
  BY DEF WindowInv, BucketInv, KeptWell, Entry
<1>1. \A g \in Entries(b, s) : g.call # c
  BY <1>0 DEF KeptWell, Told, Tells, AdmissionsOf
<1>a. hits'[b] = Added(b, s, h)
  OBVIOUS
<1> HIDE DEF h
<1>2. Size(b, Added(b, s, h)) = Size(b, s) + 1 /\ Size(b, s) \in Nat
  BY <1>0, <1>1, EntryAdded, SizeIsNumber
<1>3. Size(b, hits[b])' <= Limit
  <2>1. Size(b, Added(b, s, h)) <= Limit
    BY <1>2, Constants
  <2> QED BY <1>a, <2>1 DEF Size
<1>4. \E a \in admissions'[b] : a.at >= told'[b].at
  <2>1. [call |-> c, at |-> clock].at >= told[b].at
    BY <1>0 DEF ToldOf
  <2> QED BY <2>1
<1>5. told'[b].at \in Nat /\ told'[b].at <= clock' /\ told'[b].wait \in Int
  BY DEF ToldOf
<1> QED BY <1>3, <1>4, <1>5 DEF ToldOf

LEMMA NextTold ==
    ASSUME WindowInv, ToldInv, [Next]_vars
    PROVE  ToldInv'
<1>0. /\ clock \in Nat /\ told = [b \in Buckets |-> told[b]]
      /\ refused = [b \in Buckets |-> refused[b]] /\ \A b \in Buckets : ToldOf(b)
      /\ hits = [b \in Buckets |-> hits[b]] /\ admissions = [b \in Buckets |-> admissions[b]]
  BY DEF WindowInv, ToldInv
<1>1. ASSUME UNCHANGED <<hits, admissions, refused, told>>, clock' \in Nat, clock <= clock'
      PROVE  ToldInv'
  <2>1. \A b \in Buckets : ToldOf(b)'
    BY <1>0, <1>1, StillTold
  <2> QED BY <1>0, <1>1, <2>1 DEF ToldInv
<1>2. CASE UNCHANGED vars
  BY <1>0, <1>1, <1>2 DEF vars, limitVars
<1>3. ASSUME NEW c \in Calls, Check(c)
      PROVE  ToldInv'
  <2>1. PICK b \in Buckets, now \in Nat : \E s :
          /\ call[c].pc = "check" /\ KeptWell(b, s) /\ now <= clock + MaxSkew
          /\ clock' = clock
          /\ Refuses(c, b, now, s) \/ Admits(c, b, now, s)
    BY <1>3, AtTheCount
  <2>2. PICK s :
          /\ call[c].pc = "check" /\ KeptWell(b, s) /\ now <= clock + MaxSkew
          /\ clock' = clock
          /\ Refuses(c, b, now, s) \/ Admits(c, b, now, s)
    BY <2>1
  <2>3. CASE Refuses(c, b, now, s)
    <3>1. /\ told' = [d \in Buckets |-> told'[d]] /\ refused' = [d \in Buckets |-> refused'[d]]
          /\ \A d \in Buckets : /\ d # b => hits'[d] = hits[d] /\ told'[d] = told[d]
                                /\ admissions'[d] = admissions[d]
      BY <1>0, <2>3 DEF Refuses
    <3>2. /\ Size(b, s) >= Limit /\ hits'[b] = s
          /\ told'[b] = [at |-> clock, wait |-> RetryAfter(b, s, now)]
      BY <1>0, <2>3 DEF Refuses
    <3>3. ToldOf(b)'
      BY <1>0, <2>2, <3>1, <3>2, RefusedTold
    <3>4. \A d \in Buckets : d # b => ToldOf(d)'
      BY <1>0, <2>2, <3>1, StillTold
    <3> QED BY <3>1, <3>3, <3>4 DEF ToldInv
  <2>4. CASE Admits(c, b, now, s)
    <3>1. /\ told' = [d \in Buckets |-> told'[d]] /\ refused' = [d \in Buckets |-> refused'[d]]
          /\ \A d \in Buckets : /\ d # b => hits'[d] = hits[d] /\ admissions'[d] = admissions[d]
                                /\ told'[d] = told[d]
      BY <1>0, <2>4 DEF Admits
    <3>2. /\ Size(b, s) < Limit /\ hits'[b] = Added(b, s, [call |-> c, at |-> now])
          /\ admissions'[b] = admissions[b] \cup {[call |-> c, at |-> clock]}
      BY <1>0, <2>4 DEF Admits
    <3>3. ToldOf(b)'
      BY <1>0, <2>2, <3>1, <3>2, AdmittedTold
    <3>4. \A d \in Buckets : d # b => ToldOf(d)'
      BY <1>0, <2>2, <3>1, StillTold
    <3> QED BY <3>1, <3>3, <3>4 DEF ToldInv
  <2> QED BY <2>2, <2>3, <2>4
<1>4. CASE \E c \in Calls : \E i \in Instances : ReadClock(c, i)
  BY <1>0, <1>1, <1>4 DEF ReadClock, limitVars
<1>5. ASSUME NEW i \in Instances, Restart(i)
      PROVE  ToldInv'
  <2>1. /\ i \in Buckets /\ i # "redis" /\ UNCHANGED <<clock, told, refused>>
        /\ hits'[i] = <<>> /\ admissions'[i] = {}
        /\ \A d \in Buckets : d # i => hits'[d] = hits[d] /\ admissions'[d] = admissions[d]
    BY <1>0, <1>5, Constants DEF Restart, Buckets
  <2>2. ToldOf(i)'
    <3>1. told'[i].at \in Nat /\ told'[i].at <= clock' /\ told'[i].wait \in Int
      BY <1>0, <2>1 DEF ToldOf
    <3>2. Size(i, hits[i])' = 0
      BY <2>1 DEF Size
    <3> QED BY <3>1, <3>2, Constants DEF ToldOf
  <2>3. \A d \in Buckets : d # i => ToldOf(d)'
    BY <1>0, <2>1, StillTold
  <2> QED BY <1>0, <2>1, <2>2, <2>3 DEF ToldInv
<1>6. CASE Tick
  BY <1>0, <1>1, <1>6 DEF Tick, limitVars
<1> QED BY <1>2, <1>3, <1>4, <1>5, <1>6 DEF Next

\* A call that is refused by a bucket, when the last refusal is past.
LEMMA RefusedInTime ==
    ASSUME WindowInv, ToldInv, [Next]_vars, NEW b \in Buckets, refused'[b] # refused[b], Limit > 0
    PROVE  \/ clock <= told[b].at + told[b].wait * Unit + Unit \div 2 + MaxSkew + MaxDelay
           \/ \E a \in admissions[b] : a.at >= told[b].at
<1>0. clock \in Nat /\ BucketInv(b) /\ ToldOf(b) /\ refused = [d \in Buckets |-> refused[d]]
  BY DEF WindowInv, ToldInv
<1>1. PICK c \in Calls : Check(c)
  BY DEF Next, vars, limitVars, ReadClock, Restart, Tick
<1>2. PICK d \in Buckets, now \in Nat : \E s :
        /\ s = Kept(d, now) /\ KeptWell(d, s) /\ clock <= now + MaxDelay
        /\ Refuses(c, d, now, s) \/ Admits(c, d, now, s)
  BY <1>1, AtTheCount
<1>3. PICK s :
        /\ s = Kept(d, now) /\ KeptWell(d, s) /\ clock <= now + MaxDelay
        /\ Refuses(c, d, now, s) \/ Admits(c, d, now, s)
  BY <1>2
<1>4. Refuses(c, d, now, s)
  BY <1>3 DEF Admits
<1>5. d = b
  BY <1>0, <1>4 DEF Refuses
<1>6. Size(b, s) = Limit /\ Size(b, s) = Size(b, hits[b])
  BY <1>0, <1>3, <1>4, <1>5, KeptIsSmaller, Constants DEF ToldOf, Refuses
<1>7. ASSUME NEW h \in Entries(b, hits[b]), b # "redis" => h = hits[b][1],
             h.at + Window <= Due(b)
      PROVE  clock <= Due(b) + MaxDelay
  <2>1. h.at \in Nat /\ h.at >= now - Window
    BY <1>0, <1>3, <1>5, <1>6, <1>7, FirstIsYoung
  <2>2. Due(b) \in Int
    BY <1>0, DueIsNumber
  <2> QED BY <1>0, <1>3, <1>7, <2>1, <2>2, Constants
<1>8. (\E a \in admissions[b] : a.at >= told[b].at) \/ clock <= Due(b) + MaxDelay
  BY <1>0, <1>6, <1>7, Constants DEF ToldOf
<1> QED BY <1>8 DEF Due

\* Retry-After of both limiters is honest: a call refused later than the last refusal of its bucket
\* told to wait, with half a second for the rounding and the skew and delay of the clocks, has lost
\* its place to a call admitted in the meantime.
THEOREM RetryAfterHelps == Spec => RetryHelps
<1>1. Init => WindowInv /\ ToldInv
  BY InitWindow, InitTold
<1>2. WindowInv /\ ToldInv /\ [Next]_vars => (WindowInv /\ ToldInv)'
  BY NextWindow, NextTold
<1>3. WindowInv /\ ToldInv /\ [Next]_vars =>
        [\A b \in Buckets : refused'[b] # refused[b] /\ Limit > 0 =>
          \/ clock <= told[b].at + told[b].wait * Unit + Unit \div 2 + MaxSkew + MaxDelay
          \/ \E a \in admissions[b] : a.at >= told[b].at]_vars
  BY RefusedInTime
<1> QED BY <1>1, <1>2, <1>3, PTL DEF Spec, RetryHelps
=============================================================================
