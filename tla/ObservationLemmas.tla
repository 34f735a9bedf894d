-------------------------- MODULE ObservationLemmas --------------------------
(***************************************************************************)
(* What the proofs about the observations table have in common: facts      *)
(* about timelines, the plans made over them, and the compressed timeline  *)
(* a sequence of plans leaves behind.                                      *)
(*                                                                         *)
(* Everything rests on one fact: what is decided about an entry depends on *)
(* the entries before it.                                                  *)
(***************************************************************************)
EXTENDS Observations, TLAPS, FiniteSetTheorems, NaturalsInduction, WellFoundedInduction

(* The key of a stored row within its period; and one vintage is listed    *)
(* once by a payload.                                                      *)
OneEntryEach(T) == \A r, q \in T : r.vintage = q.vintage => r = q

(* Dated no later than n.                                                  *)
DatedBy(T, n) == \A r \in T : r.vintage \in 0..n

(* Two timelines that say the same of every instant.                       *)
SameEntry(r, q) == r.vintage = q.vintage /\ r.value = q.value
SameHistory(T, U) ==
  /\ \A r \in T : \E q \in U : SameEntry(r, q)
  /\ \A q \in U : \E r \in T : SameEntry(r, q)

-----------------------------------------------------------------------------
(* A judgement depends on what precedes the point, and on nothing else.    *)
LEMMA JudgedByThePast ==
  ASSUME NEW T, NEW U, NEW c, Before(T, c.vintage) = Before(U, c.vintage)
  PROVE  /\ NewInformation(T, c) <=> NewInformation(U, c)
         /\ ChangesBefore(T, c.vintage) = ChangesBefore(U, c.vintage)
         /\ HadPredecessor(T, c.vintage) <=> HadPredecessor(U, c.vintage)
BY DEF NewInformation, HadPredecessor, ValueBefore, ChangesBefore

(* Entries at or after an instant do not precede it.                       *)
LEMMA LaterEntriesDoNotPrecede ==
  ASSUME NEW T, NEW L, NEW t \in Nat, \A e \in L : e.vintage \in Nat /\ t <= e.vintage
  PROVE  Before(T \cup L, t) = Before(T, t)
BY DEF Before

(* A set of natural numbers that is not empty has a least element.         *)
LEMMA LeastNumber ==
  ASSUME NEW V \in SUBSET Nat, V # {}
  PROVE  \E x \in V : \A y \in V : x <= y
<1> DEFINE Less == {ss \in Nat \X Nat : ss[1] < ss[2]}
<1>1. IsWellFoundedOn(Less, Nat)
  BY NatLessThanWellFounded DEF OpToRel
<1> HIDE DEF Less
<1>2. PICK x \in V : \A y \in V : ~ (<<y, x>> \in Less)
  BY <1>1, WFMin
<1>3. ASSUME NEW y \in V, y < x PROVE FALSE
  <2>1. <<y, x>> \in Nat \X Nat
    OBVIOUS
  <2>2. <<y, x>> \in Less
    BY <2>1, <1>3 DEF Less
  <2> QED BY <2>2, <1>2
<1> QED BY <1>2, <1>3

(* A set of entries is not empty if and only if it has an earliest one.    *)
LEMMA Earliest ==
  ASSUME NEW S, S # {}, \A c \in S : c.vintage \in Nat
  PROVE  \E c \in S : \A e \in S : c.vintage <= e.vintage
<1> DEFINE V == {c.vintage : c \in S}
<1>1. V \in SUBSET Nat /\ V # {}
  OBVIOUS
<1>2. PICK x \in V : \A y \in V : x <= y
  <2> HIDE DEF V
  <2> QED BY <1>1, LeastNumber
<1> QED BY <1>2

(* Numbers up to n, if there are any, have a greatest one.                 *)
LEMMA GreatestNumber ==
  ASSUME NEW n \in Nat, NEW V \in SUBSET (0..n), V # {}
  PROVE  \E x \in V : \A y \in V : y <= x
<1> DEFINE Bounds == {m \in Nat : \A y \in V : y <= m}
<1>1. n \in Bounds
  OBVIOUS
<1>2. PICK m \in Bounds : \A y \in Bounds : m <= y
  BY <1>1, LeastNumber
<1>3. m \in V
  <2> SUFFICES ASSUME m \notin V PROVE FALSE
    OBVIOUS
  <2>1. m \in Nat /\ \A y \in V : y \in Nat /\ y <= m /\ y # m
    BY <1>2
  <2>2. PICK y \in V : TRUE
    OBVIOUS
  <2>3. m - 1 \in Bounds
    BY <2>1, <2>2
  <2> QED BY <2>1, <2>3, <1>2
<1> QED BY <1>3

(* Entries dated by some instant have a latest one.                        *)
LEMMA Latest ==
  ASSUME NEW S, S # {}, NEW n \in Nat, DatedBy(S, n)
  PROVE  /\ Newest(S) \in S
         /\ \A q \in S : q.vintage <= Newest(S).vintage
<1> DEFINE V == {r.vintage : r \in S}
<1>1. V \in SUBSET (0..n) /\ V # {}
  BY DEF DatedBy
<1>2. PICK x \in V : \A y \in V : y <= x
  <2> HIDE DEF V
  <2> QED BY <1>1, GreatestNumber
<1>3. \E r \in S : \A q \in S : q.vintage <= r.vintage
  BY <1>2
<1> QED BY <1>3 DEF Newest

(* One entry each: an entry no other follows is the newest.                *)
LEMMA NewestIsUnique ==
  ASSUME NEW S, NEW n \in Nat, DatedBy(S, n), OneEntryEach(S),
         NEW r \in S, \A q \in S : q.vintage <= r.vintage
  PROVE  Newest(S) = r
<1>1. Newest(S) \in S /\ r.vintage <= Newest(S).vintage
  BY Latest
<1>2. Newest(S).vintage <= r.vintage
  BY <1>1
<1>3. Newest(S).vintage = r.vintage
  BY <1>1, <1>2 DEF DatedBy
<1> QED BY <1>1, <1>3 DEF OneEntryEach

(* Two timelines that say the same end with the same value.                *)
LEMMA NewestAlike ==
  ASSUME NEW T, NEW U, NEW n \in Nat, DatedBy(T, n), OneEntryEach(T),
         SameHistory(T, U), T # {}
  PROVE  U # {} /\ Newest(T).value = Newest(U).value
<1>1. U # {} /\ DatedBy(U, n)
  BY DEF DatedBy, SameHistory, SameEntry
<1>2. /\ Newest(T) \in T /\ \A q \in T : q.vintage <= Newest(T).vintage
      /\ Newest(U) \in U /\ \A q \in U : q.vintage <= Newest(U).vintage
  BY <1>1, Latest
<1>3. PICK q \in U : SameEntry(Newest(T), q)
  BY <1>2 DEF SameHistory
<1>4. PICK r \in T : SameEntry(r, Newest(U))
  BY <1>2 DEF SameHistory
<1>5. r.vintage = Newest(T).vintage
  <2>1. r.vintage \in Nat /\ Newest(T).vintage \in Nat
    BY <1>2 DEF DatedBy
  <2>2. r.vintage <= Newest(T).vintage /\ q.vintage <= Newest(U).vintage
    BY <1>2
  <2> QED BY <2>1, <2>2, <1>3, <1>4 DEF SameEntry
<1>6. r = Newest(T)
  BY <1>2, <1>5 DEF OneEntryEach
<1> QED BY <1>1, <1>4, <1>6 DEF SameEntry

(* A point is judged alike against two timelines that say the same.        *)
LEMMA JudgedAlike ==
  ASSUME NEW T, NEW U, NEW n \in Nat, DatedBy(T, n), OneEntryEach(T),
         SameHistory(T, U), NEW c
  PROVE  NewInformation(T, c) <=> NewInformation(U, c)
<1> DEFINE BT == Before(T, c.vintage)
           BU == Before(U, c.vintage)
<1>1. SameHistory(BT, BU) /\ DatedBy(BT, n) /\ OneEntryEach(BT)
  BY DEF Before, SameHistory, SameEntry, DatedBy, OneEntryEach
<1>2. BT = {} <=> BU = {}
  BY <1>1 DEF SameHistory
<1>3. BT # {} => Newest(BT).value = Newest(BU).value
  <2> HIDE DEF BT, BU
  <2> QED BY <1>1, NewestAlike
<1> QED BY <1>2, <1>3 DEF NewInformation, HadPredecessor, ValueBefore

(* The image of a finite set under a function is finite.                   *)
LEMMA ImageFinite ==
  ASSUME NEW S, IsFiniteSet(S), NEW f, f \in [S -> {f[x] : x \in S}]
  PROVE  IsFiniteSet({f[x] : x \in S})
<1>1. f \in Surjection(S, {f[x] : x \in S})
  BY DEF Surjection
<1> QED
  BY <1>1, FS_Surjection

(* One entry each: as many entries as vintages.                            *)
LEMMA CountedByVintage ==
  ASSUME NEW S, IsFiniteSet(S), OneEntryEach(S)
  PROVE  Cardinality(S) = Cardinality({r.vintage : r \in S})
<1> DEFINE V == {r.vintage : r \in S}
           f == [r \in S |-> r.vintage]
<1>1. f \in Bijection(S, V)
  BY DEF Bijection, Injection, IsInjective, Surjection, OneEntryEach
<1>2. ExistsBijection(S, V)
  BY <1>1 DEF ExistsBijection
<1> QED BY <1>2, FS_Bijection

(* Two timelines that say the same number a revision alike.                *)
LEMMA NumberedAlike ==
  ASSUME NEW T, NEW U, IsFiniteSet(T), IsFiniteSet(U),
         OneEntryEach(T), OneEntryEach(U), SameHistory(T, U), NEW t
  PROVE  ChangesBefore(T, t) = ChangesBefore(U, t)
<1>1. IsFiniteSet(Before(T, t)) /\ IsFiniteSet(Before(U, t))
  BY FS_Subset DEF Before
<1>2. OneEntryEach(Before(T, t)) /\ OneEntryEach(Before(U, t))
  BY DEF OneEntryEach, Before
<1>3. {r.vintage : r \in Before(T, t)} = {r.vintage : r \in Before(U, t)}
  BY DEF Before, SameHistory, SameEntry
<1> QED BY <1>1, <1>2, <1>3, CountedByVintage DEF ChangesBefore

-----------------------------------------------------------------------------
(* planner.py, plan_writes - a timeline and a batch admit one plan: of two *)
(* plans, the earliest point on which they differ would have been judged   *)
(* against the same past.                                                  *)
THEOREM PlanIsUnique ==
  ASSUME NEW E, NEW I, NEW A, NEW B,
         \A c \in I : c.vintage \in Nat,
         IsPlan(E, I, A), IsPlan(E, I, B)
  PROVE  A = B
<1> DEFINE D == (A \ B) \cup (B \ A)
<1>1. A \subseteq Candidates(E, I) /\ B \subseteq Candidates(E, I)
  BY DEF IsPlan
<1>2. \A c \in Candidates(E, I) : c.vintage \in Nat
  BY DEF Candidates
<1>3. SUFFICES ASSUME D # {} PROVE FALSE
  OBVIOUS
<1>4. PICK c \in D : \A e \in D : c.vintage <= e.vintage
  BY <1>1, <1>2, <1>3, Earliest
<1>5. c.vintage \in Nat
  BY <1>1, <1>2
<1>6. Before(E \cup A, c.vintage) = Before(E \cup B, c.vintage)
  <2>1. \A e \in A \cup B : e.vintage < c.vintage => (e \in A <=> e \in B)
    BY <1>1, <1>2, <1>4, <1>5
  <2> QED BY <2>1 DEF Before
<1>7. NewInformation(E \cup A, c) <=> NewInformation(E \cup B, c)
  BY <1>6, JudgedByThePast
<1> QED BY <1>1, <1>7 DEF IsPlan

-----------------------------------------------------------------------------
(* The compressed timeline: T holds, of the points R read so far, those    *)
(* that changed the value in force, and no point was left out that did.    *)
Compressed(T, R) ==
  /\ OneEntryEach(T) /\ OneEntryEach(R)
  /\ \A r \in T : \E c \in R : SameEntry(r, c)
  /\ \A c \in R : (\E r \in T : r.vintage = c.vintage) \/ ~ NewInformation(T, c)
  /\ \A r \in T : NewInformation(T, r)

(* A batch that goes on where the reading stopped: a point of it was read  *)
(* before, or is dated after everything that was.                          *)
GoesOn(P, R) == \A c \in P : c \in R \/ \A e \in R : e.vintage < c.vintage

(* What a plan accepts of such a batch is dated after everything read: an  *)
(* accepted point that was read before would, if it is the earliest, be    *)
(* judged as when it was left out.                                         *)
LEMMA OnlyNewsIsAccepted ==
  ASSUME NEW T, NEW R, NEW P, NEW A, NEW n \in Nat,
         DatedBy(R, n), DatedBy(P, n),
         Compressed(T, R), GoesOn(P, R), IsPlan(T, P, A)
  PROVE  /\ A \subseteq P /\ DatedBy(T, n)
         /\ \A c \in A, e \in R : e.vintage < c.vintage
         /\ \A c \in A, r \in T : r.vintage < c.vintage
<1>1. A \subseteq P /\ A \subseteq Candidates(T, P)
  BY DEF IsPlan, Candidates
<1>2. DatedBy(T, n)
  BY DEF DatedBy, Compressed, SameEntry
<1>3. A \cap R = {}
  <2> SUFFICES ASSUME A \cap R # {} PROVE FALSE
    OBVIOUS
  <2>1. \A c \in A \cap R : c.vintage \in Nat
    BY DEF DatedBy
  <2>2. PICK c \in A \cap R : \A e \in A \cap R : c.vintage <= e.vintage
    BY <2>1, Earliest
  <2>3. \A e \in A : e.vintage \in Nat /\ c.vintage <= e.vintage
    BY <1>1, <2>1, <2>2 DEF GoesOn, DatedBy
  <2>4. Before(T \cup A, c.vintage) = Before(T, c.vintage)
    BY <2>1, <2>3, LaterEntriesDoNotPrecede
  <2>5. NewInformation(T \cup A, c) <=> NewInformation(T, c)
    BY <2>4, JudgedByThePast
  <2>6. c \in Candidates(T, P) /\ NewInformation(T \cup A, c)
    BY <1>1, <2>2 DEF IsPlan
  <2> QED BY <2>2, <2>5, <2>6 DEF Compressed, Candidates
<1>4. \A c \in A, e \in R : e.vintage < c.vintage
  BY <1>1, <1>3 DEF GoesOn
<1>5. \A c \in A, r \in T : r.vintage < c.vintage
  BY <1>4 DEF Compressed, SameEntry
<1> QED BY <1>1, <1>2, <1>4, <1>5

(* planner.py:7 - storing a plan keeps the timeline compressed.  N are the *)
(* rows of the accepted points.                                            *)
LEMMA PlanKeepsCompressed ==
  ASSUME NEW T, NEW R, NEW P, NEW A, NEW N, NEW n \in Nat,
         DatedBy(R, n), DatedBy(P, n), OneEntryEach(P),
         Compressed(T, R), GoesOn(P, R), IsPlan(T, P, A),
         OneEntryEach(N), SameHistory(N, A)
  PROVE  /\ Compressed(T \cup N, R \cup P)
         /\ OneEntryEach(T \cup A) /\ SameHistory(T \cup N, T \cup A)
<1>1. /\ A \subseteq P /\ DatedBy(T, n)
      /\ \A c \in A, e \in R : e.vintage < c.vintage
      /\ \A c \in A, r \in T : r.vintage < c.vintage
  BY OnlyNewsIsAccepted
<1>2. DatedBy(A, n) /\ OneEntryEach(A)
  BY <1>1 DEF DatedBy, OneEntryEach
<1>3. /\ DatedBy(N, n)
      /\ \A m \in N, e \in R : e.vintage < m.vintage
      /\ \A m \in N, r \in T : r.vintage < m.vintage
  BY <1>1, <1>2 DEF SameHistory, SameEntry, DatedBy
<1>4. \A c \in R : Before(T \cup N, c.vintage) = Before(T, c.vintage)
  <2> SUFFICES ASSUME NEW c \in R
               PROVE Before(T \cup N, c.vintage) = Before(T, c.vintage)
    OBVIOUS
  <2>1. c.vintage \in Nat /\ \A m \in N : m.vintage \in Nat /\ c.vintage <= m.vintage
    BY <1>3 DEF DatedBy
  <2> QED BY <2>1, LaterEntriesDoNotPrecede
<1>5. \A r \in T : Before(T \cup N, r.vintage) = Before(T, r.vintage)
  BY <1>4 DEF Compressed, SameEntry
<1>6. OneEntryEach(T \cup N)
  BY <1>1, <1>3 DEF OneEntryEach, Compressed, DatedBy
<1>7. OneEntryEach(T \cup A)
  BY <1>1, <1>2 DEF OneEntryEach, Compressed, DatedBy
<1>8. OneEntryEach(R \cup P)
  BY DEF OneEntryEach, Compressed, GoesOn, DatedBy
<1>9. SameHistory(T \cup N, T \cup A)
  BY DEF SameHistory, SameEntry
<1>10. \A r \in T \cup N : \E c \in R \cup P : SameEntry(r, c)
  BY <1>1 DEF Compressed, SameHistory
<1>11. DatedBy(T \cup N, n)
  BY <1>1, <1>3 DEF DatedBy
<1>12. \A c : NewInformation(T \cup N, c) <=> NewInformation(T \cup A, c)
  BY <1>6, <1>9, <1>11, JudgedAlike
<1>13. \A c \in R \cup P :
         (\E r \in T \cup N : r.vintage = c.vintage) \/ ~ NewInformation(T \cup N, c)
  <2>1. ASSUME NEW c \in R
        PROVE  (\E r \in T \cup N : r.vintage = c.vintage) \/ ~ NewInformation(T \cup N, c)
    <3>1. NewInformation(T \cup N, c) <=> NewInformation(T, c)
      BY <1>4, JudgedByThePast
    <3> QED BY <3>1 DEF Compressed
  <2>2. ASSUME NEW c \in P
        PROVE  (\E r \in T \cup N : r.vintage = c.vintage) \/ ~ NewInformation(T \cup N, c)
    <3>1. CASE c \notin Candidates(T, P)
      BY <3>1 DEF Candidates
    <3>2. CASE c \in A
      BY <3>2 DEF SameHistory, SameEntry
    <3>3. CASE c \in Candidates(T, P) \ A
      BY <3>3, <1>12 DEF IsPlan
    <3> QED BY <3>1, <3>2, <3>3
  <2> QED BY <2>1, <2>2
<1>14. \A r \in T \cup N : NewInformation(T \cup N, r)
  <2>1. ASSUME NEW r \in T PROVE NewInformation(T \cup N, r)
    <3>1. NewInformation(T \cup N, r) <=> NewInformation(T, r)
      BY <1>5, JudgedByThePast
    <3> QED BY <3>1 DEF Compressed
  <2>2. ASSUME NEW m \in N PROVE NewInformation(T \cup N, m)
    <3>1. PICK c \in A : SameEntry(m, c)
      BY DEF SameHistory
    <3>2. NewInformation(T \cup A, c)
      BY <3>1 DEF IsPlan
    <3>3. NewInformation(T \cup N, c)
      BY <3>2, <1>12
    <3> QED BY <3>1, <3>3
          DEF SameEntry, NewInformation, HadPredecessor, ValueBefore
  <2> QED BY <2>1, <2>2
<1> QED
  BY <1>4, <1>5, <1>6, <1>7, <1>8, <1>9, <1>10, <1>13, <1>14 DEF Compressed

(* planner.py:52 - the skip loses nothing: at every instant a compressed   *)
(* timeline has something in force if and only if a point was read, and    *)
(* what is in force is what the newest point says.                         *)
LEMMA CompressedLosesNothing ==
  ASSUME NEW T, NEW R, NEW n \in Nat, DatedBy(R, n), Compressed(T, R), NEW t \in Nat
  PROVE  LET K == {r \in T : r.vintage <= t}
             Q == {c \in R : c.vintage <= t}
         IN /\ K = {} <=> Q = {}
            /\ Q # {} => Newest(K).value = Newest(Q).value
<1> DEFINE K == {r \in T : r.vintage <= t}
           Q == {c \in R : c.vintage <= t}
<1>1. DatedBy(T, n) /\ DatedBy(K, n) /\ DatedBy(Q, n)
  BY DEF DatedBy, Compressed, SameEntry
<1>2. ASSUME K # {} PROVE Q # {}
  BY <1>2 DEF Compressed, SameEntry
<1>3. ASSUME NEW c \in Q, \A r \in T : r.vintage # c.vintage
      PROVE  /\ Before(T, c.vintage) # {} /\ Before(T, c.vintage) \subseteq K
             /\ Newest(Before(T, c.vintage)).value = c.value
  <2>1. ~ NewInformation(T, c)
    BY <1>3 DEF Compressed
  <2>2. Before(T, c.vintage) \subseteq K
    BY <1>1 DEF Before, DatedBy
  <2> QED BY <2>1, <2>2 DEF NewInformation, HadPredecessor, ValueBefore
<1>4. ASSUME Q # {} PROVE K # {}
  <2>1. PICK c \in Q : TRUE
    BY <1>4
  <2> QED BY <2>1, <1>3
<1>5. ASSUME Q # {} PROVE Newest(K).value = Newest(Q).value
  <2> DEFINE k == Newest(K)
             q == Newest(Q)
  <2>1. /\ k \in K /\ \A r \in K : r.vintage <= k.vintage
        /\ q \in Q /\ \A c \in Q : c.vintage <= q.vintage
    <3> HIDE DEF K, Q
    <3> QED BY <1>1, <1>4, <1>5, Latest
  <2>2. PICK c \in R : SameEntry(k, c)
    BY <2>1 DEF Compressed
  <2>3. c \in Q /\ c.vintage = k.vintage /\ c.value = k.value
    BY <2>1, <2>2 DEF SameEntry
  <2>4. k.vintage \in Nat /\ q.vintage \in Nat /\ k.vintage <= q.vintage
    BY <1>1, <2>1, <2>3 DEF DatedBy
  <2>5. CASE \E r \in T : r.vintage = q.vintage
    <3>1. PICK r \in T : r.vintage = q.vintage
      BY <2>5
    <3>2. r \in K
      BY <2>1, <3>1
    <3>3. k.vintage = q.vintage
      BY <2>1, <2>4, <3>1, <3>2
    <3>4. c = q
      BY <2>1, <2>3, <3>3 DEF Compressed, OneEntryEach
    <3> QED BY <2>3, <3>4
  <2>6. CASE \A r \in T : r.vintage # q.vintage
    <3> DEFINE B == Before(T, q.vintage)
    <3>1. B # {} /\ B \subseteq K /\ Newest(B).value = q.value
      BY <1>3, <2>1, <2>6
    <3>2. k \in B
      BY <2>1, <2>4, <2>6 DEF Before
    <3>3. DatedBy(B, n) /\ OneEntryEach(B)
      BY <1>1 DEF Before, DatedBy, Compressed, OneEntryEach
    <3>4. \A r \in B : r.vintage <= k.vintage
      BY <2>1, <3>1
    <3>5. Newest(B) = k
      <4> HIDE DEF B, k
      <4> QED BY <3>2, <3>3, <3>4, NewestIsUnique
    <3> QED BY <3>1, <3>5
  <2> QED BY <2>5, <2>6
<1> QED BY <1>2, <1>4, <1>5
-----------------------------------------------------------------------------
(* Sets of a bounded size: losing elements keeps the bound, one element    *)
(* more costs one.                                                         *)
AtMost(S, n) == IsFiniteSet(S) /\ Cardinality(S) <= n

LEMMA NoneIsAtMost == ASSUME NEW n \in Nat PROVE AtMost({}, n)
BY FS_EmptySet DEF AtMost

LEMMA FewerIsAtMost ==
  ASSUME NEW S, NEW n \in Nat, AtMost(S, n), NEW T \in SUBSET S, NEW m \in Nat, n <= m
  PROVE  AtMost(T, m)
<1>1. IsFiniteSet(S) /\ Cardinality(S) \in Nat /\ Cardinality(S) <= n
  BY FS_CardinalityType DEF AtMost
<1>2. IsFiniteSet(T) /\ Cardinality(T) \in Nat /\ Cardinality(T) <= Cardinality(S)
  BY <1>1, FS_Subset, FS_CardinalityType
<1> QED BY <1>1, <1>2 DEF AtMost

LEMMA OneMoreIsAtMost ==
  ASSUME NEW S, NEW n \in Nat, AtMost(S, n), NEW x, NEW T \in SUBSET (S \cup {x}),
         NEW m \in Nat, n < m
  PROVE  AtMost(T, m)
<1>1. IsFiniteSet(S) /\ Cardinality(S) \in Nat /\ Cardinality(S) <= n
  BY FS_CardinalityType DEF AtMost
<1>2. IsFiniteSet(S \cup {x}) /\ Cardinality(S \cup {x}) <= Cardinality(S) + 1
  BY <1>1, FS_AddElement
<1>3. Cardinality(S \cup {x}) \in Nat
  BY <1>2, FS_CardinalityType
<1>4. AtMost(S \cup {x}, m)
  BY <1>1, <1>2, <1>3 DEF AtMost
<1> QED BY <1>4, FewerIsAtMost
=============================================================================
