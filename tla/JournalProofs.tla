---------------------------- MODULE JournalProofs ----------------------------
(***************************************************************************)
(* What is recorded of a target series stands still: for every set of      *)
(* periods and values, every schedule of batches, replays and kills, and   *)
(* however many rows a batch has.                                          *)
(*                                                                         *)
(* Two arguments carry it.  A read as of an instant depends on the rows    *)
(* dated by then, and a batch adds rows dated after everything settled.    *)
(* And a first print, once there is one, is the first print for ever.      *)
(*                                                                         *)
(* Last what the scoreboard's figures can be trusted for, for every set of *)
(* scored rows.                                                            *)
(***************************************************************************)
EXTENDS ForecastJournal, Scoreboard, CalendarStore, ObservationLemmas

SettledOnly == \A r \in obs : r.vintage <= settled
OneRowEach == \A r, q \in obs : SameKey(r, q) => r = q

(* A forecast is about a period after those it read.                       *)
AheadOfItsBasis ==
  \A f \in predictions : f.asOf = f.at /\ \A b \in f.basis : b.period < f.period

(* What it read was public at its cutoff.                                  *)
RestsOnThePast == \A f \in predictions : ReadsThePast(f)

(* A score is taken from a row that carries a figure.                      *)
OfAPrint ==
  \A e \in errors :
    /\ e.forecast = <<Day(e.at), e.period>>
    /\ \E r \in obs : r.period = e.period /\ r.value # Gap /\ r.vintage = e.actual.vintage

IInv ==
  /\ TypeOK /\ IsFiniteSet(obs) /\ SettledOnly /\ OneRowEach
  /\ AheadOfItsBasis /\ RestsOnThePast /\ OfAPrint

-----------------------------------------------------------------------------
(* Reads.                                                                  *)

(* A finite set of numbers has a greatest one: else take the smallest set  *)
(* that has none, and leave out one of its numbers.                        *)
LEMMA GreatestOfFinite ==
  ASSUME NEW S \in SUBSET Nat, IsFiniteSet(S), S # {}
  PROVE  \E x \in S : \A y \in S : y <= x
<1> DEFINE HasGreatest(T) == \E x \in T : \A y \in T : y <= x
           Without == {T \in SUBSET S : T # {} /\ ~ HasGreatest(T)}
           Sizes == {Cardinality(T) : T \in Without}
<1> SUFFICES ASSUME ~ HasGreatest(S) PROVE FALSE
  OBVIOUS
<1>1. \A T \in SUBSET S : IsFiniteSet(T) /\ Cardinality(T) \in Nat
  BY FS_Subset, FS_CardinalityType
<1>2. Sizes \in SUBSET Nat /\ Sizes # {}
  BY <1>1
<1>3. PICK n \in Sizes : \A m \in Sizes : n <= m
  <2> HIDE DEF Sizes
  <2> QED BY <1>2, LeastNumber
<1>4. PICK T \in Without : Cardinality(T) = n
  OBVIOUS
<1>5. PICK x \in T : TRUE
  OBVIOUS
<1>6. Cardinality(T \ {x}) = Cardinality(T) - 1 /\ T \ {x} \in SUBSET S
  BY <1>1, <1>4, <1>5, FS_RemoveElement
<1>7. T \ {x} \notin Without
  <2>1. Cardinality(T) \in Nat /\ Cardinality(T \ {x}) \in Nat
    BY <1>1, <1>4, <1>6
  <2>2. SUFFICES ASSUME T \ {x} \in Without PROVE FALSE
    OBVIOUS
  <2>3. Cardinality(T \ {x}) \in Sizes
    BY <2>2
  <2>4. Cardinality(T) <= Cardinality(T \ {x})
    BY <1>3, <1>4, <2>3
  <2> QED BY <1>6, <2>1, <2>4
<1>8. T \in SUBSET S /\ x \in T /\ x \in Nat /\ ~ HasGreatest(T)
  BY <1>4, <1>5
<1>9. CASE T \ {x} = {}
  <2>1. \A y \in T : y = x
    BY <1>9
  <2> QED BY <1>8, <2>1
<1>10. CASE T \ {x} # {}
  <2>1. HasGreatest(T \ {x})
    BY <1>6, <1>7, <1>10
  <2>2. PICK z \in T \ {x} : \A y \in T \ {x} : y <= z
    BY <2>1
  <2>3. z \in Nat /\ z \in T
    BY <1>8, <2>2
  <2>4. CASE x <= z
    <3>1. \A y \in T : y <= z
      BY <2>2, <2>4
    <3> QED BY <1>8, <2>3, <3>1
  <2>5. CASE ~ (x <= z)
    <3>1. \A y \in T : y \in Nat
      BY <1>8
    <3>2. \A y \in T : y <= x
      BY <1>8, <2>2, <2>3, <2>5, <3>1
    <3> QED BY <1>8, <3>2
  <2> QED BY <2>4, <2>5
<1> QED BY <1>9, <1>10

LEMMA RowShape ==
  ASSUME NEW r \in Row
  PROVE  /\ r.series = Target /\ r.period \in Periods /\ r.period \in Nat
         /\ r.vintage \in Nat /\ r.vintage <= MaxTime /\ r.value \in Values
<1>1. /\ r.series \in {Target} /\ r.period \in Periods
      /\ r.vintage \in 0..MaxTime /\ r.value \in Values
  BY DEF Row
<1>2. Periods \subseteq Nat /\ MaxTime \in Nat
  BY JournalAssumption
<1>3. r.vintage \in Nat /\ r.vintage <= MaxTime
  BY <1>1, <1>2
<1> QED BY <1>1, <1>2, <1>3

(* as_of reads rows dated by then, one for each period that has any.       *)
LEMMA WhatIsRead ==
  ASSUME NEW o \in SUBSET Row, NEW t
  PROVE  /\ \A r \in AsOf(o, Target, t) : r \in o /\ r.vintage <= t
         /\ \A q \in o : q.vintage <= t => \E r \in AsOf(o, Target, t) : r.period = q.period
<1>1. ASSUME NEW q \in o, q.vintage <= t
      PROVE  /\ InForce(o, Target, q.period, t) \in o
             /\ InForce(o, Target, q.period, t).vintage <= t
             /\ InForce(o, Target, q.period, t).period = q.period
  <2> DEFINE K == KnownAt(o, Target, q.period, t)
  <2>1. q \in K
    BY <1>1, RowShape DEF KnownAt, RowsOf
  <2>2. DatedBy(K, MaxTime)
    BY RowShape, JournalAssumption DEF KnownAt, RowsOf, DatedBy
  <2>3. Newest(K) \in K
    <3> HIDE DEF K
    <3> QED BY <2>1, <2>2, Latest, JournalAssumption
  <2> QED BY <2>3 DEF InForce, KnownAt, RowsOf
<1>2. \A q \in o : q.series = Target
  BY RowShape
<1> QED BY <1>1, <1>2 DEF AsOf

(* Two tables with the same rows dated by an instant read the same.        *)
LEMMA ReadAlike ==
  ASSUME NEW o, NEW u, NEW t, {r \in o : r.vintage <= t} = {r \in u : r.vintage <= t}
  PROVE  AsOf(o, Target, t) = AsOf(u, Target, t)
<1>1. \A p : KnownAt(o, Target, p, t) = KnownAt(u, Target, p, t)
  BY DEF KnownAt, RowsOf
<1>2. \A p : InForce(o, Target, p, t) = InForce(u, Target, p, t)
  BY <1>1 DEF InForce
<1>3. {r.period : r \in {q \in o : q.series = Target /\ q.vintage <= t}}
        = {r.period : r \in {q \in u : q.series = Target /\ q.vintage <= t}}
  OBVIOUS
<1> QED BY <1>2, <1>3 DEF AsOf

(* The first print is the oldest row that carries a figure; one row of a   *)
(* period and vintage, there is no other.                                  *)
LEMMA TheFirstPrint ==
  ASSUME NEW o \in SUBSET Row, \A r, q \in o : SameKey(r, q) => r = q,
         NEW p, NEW t, Printed(o, Target, p, t, Gap) # {}
  PROVE  /\ FirstPrint(o, Target, p, t, Gap) \in Printed(o, Target, p, t, Gap)
         /\ \A q \in Printed(o, Target, p, t, Gap) :
              FirstPrint(o, Target, p, t, Gap).vintage <= q.vintage
         /\ \A r \in Printed(o, Target, p, t, Gap) :
              (\A q \in Printed(o, Target, p, t, Gap) : r.vintage <= q.vintage)
                => r = FirstPrint(o, Target, p, t, Gap)
<1> DEFINE P == Printed(o, Target, p, t, Gap)
<1>1. \A r \in P : r \in o /\ r.vintage \in Nat /\ r.series = Target /\ r.period = p
  BY RowShape DEF Printed, KnownAt, RowsOf
<1>2. \E r \in P : \A q \in P : r.vintage <= q.vintage
  <2> HIDE DEF P
  <2>1. P # {} /\ \A r \in P : r.vintage \in Nat
    BY <1>1 DEF P
  <2> QED BY <2>1, Earliest
<1>3. /\ FirstPrint(o, Target, p, t, Gap) \in P
      /\ \A q \in P : FirstPrint(o, Target, p, t, Gap).vintage <= q.vintage
  BY <1>2 DEF FirstPrint
<1>4. ASSUME NEW r \in P, \A q \in P : r.vintage <= q.vintage
      PROVE  r = FirstPrint(o, Target, p, t, Gap)
  <2> DEFINE f == FirstPrint(o, Target, p, t, Gap)
  <2> HIDE DEF f, P
  <2>1. f \in P /\ f.vintage <= r.vintage /\ r.vintage <= f.vintage
    BY <1>3, <1>4 DEF f
  <2>2. SameKey(r, f) /\ r \in o /\ f \in o
    BY <1>1, <1>4, <2>1 DEF SameKey
  <2> QED BY <2>2 DEF f
<1> QED BY <1>3, <1>4

(* Rows dated later do not come before a first print.                      *)
LEMMA FirstPrintStays ==
  ASSUME NEW o \in SUBSET Row, NEW u \in SUBSET Row, o \subseteq u,
         \A r, q \in u : SameKey(r, q) => r = q,
         NEW p, NEW t \in Nat, NEW v \in Nat, t <= v,
         \A r \in u \ o : t < r.vintage,
         Printed(o, Target, p, t, Gap) # {}
  PROVE  /\ Printed(u, Target, p, v, Gap) # {}
         /\ FirstPrint(u, Target, p, v, Gap) = FirstPrint(o, Target, p, t, Gap)
<1> DEFINE P == Printed(o, Target, p, t, Gap)
           Q == Printed(u, Target, p, v, Gap)
           f == FirstPrint(o, Target, p, t, Gap)
<1>1. f \in P /\ \A q \in P : f.vintage <= q.vintage
  BY TheFirstPrint
<1>2. /\ P \subseteq Q
      /\ \A q \in Q : q.vintage \in Nat /\ (q \in P \/ t < q.vintage)
  BY RowShape DEF Printed, KnownAt, RowsOf
<1>3. f.vintage \in Nat /\ f.vintage <= t
  BY <1>1, RowShape DEF Printed, KnownAt, RowsOf
<1>4. f \in Q /\ \A q \in Q : f.vintage <= q.vintage
  <2> HIDE DEF f, P, Q
  <2> QED BY <1>1, <1>2, <1>3
<1>5. Q # {}
  BY <1>4
<1> QED BY <1>4, <1>5, TheFirstPrint

LEMMA UsableRows ==
  ASSUME obs \in SUBSET Row, NEW t
  PROVE  \A r \in Usable(t) : r \in obs /\ r.vintage <= t /\ r.value # Gap
BY WhatIsRead DEF Usable

(* The period a forecast is about lies after the newest it has read.       *)
LEMMA NextPeriodIsLater ==
  ASSUME NEW p \in Nat
  PROVE  NextPeriod(p) \in Nat /\ p < NextPeriod(p)
<1>1. MonthDays \in Nat \ {0}
  BY JournalAssumption
<1>2. p \div MonthDays \in Nat
  BY <1>1
<1>3. p < (p \div MonthDays + 1) * MonthDays
  BY <1>1
<1>4. (p \div MonthDays + 1) * MonthDays \in Nat
  BY <1>1, <1>2
<1> QED BY <1>3, <1>4 DEF NextPeriod

LEMMA DaysInOrder ==
  ASSUME NEW t \in Nat, NEW u \in Nat, t <= u
  PROVE  Day(t) \in Nat /\ Day(u) \in Nat /\ Day(t) <= Day(u)
<1>1. TicksPerDay \in Nat \ {0}
  BY JournalAssumption
<1> QED BY <1>1 DEF Day

LEMMA LatestOfUsable ==
  ASSUME obs \in SUBSET Row, IsFiniteSet(obs), NEW t, Usable(t) # {}
  PROVE  /\ LatestOf(Usable(t)) \in Usable(t)
         /\ \A q \in Usable(t) : q.period <= LatestOf(Usable(t)).period
<1> DEFINE V == {r.period : r \in Usable(t)}
<1>1. Usable(t) \subseteq obs
  BY UsableRows
<1>2. IsFiniteSet(Usable(t))
  BY <1>1, FS_Subset
<1>3. V \in SUBSET Nat /\ V # {}
  BY <1>1, RowShape
<1>4. IsFiniteSet(V)
  <2>1. [r \in Usable(t) |-> r.period] \in Surjection(Usable(t), V)
    BY DEF Surjection
  <2> QED BY <1>2, <2>1, FS_Surjection
<1>5. \E x \in V : \A y \in V : y <= x
  <2> HIDE DEF V
  <2> QED BY <1>3, <1>4, GreatestOfFinite
<1>6. \E r \in Usable(t) : \A q \in Usable(t) : q.period <= r.period
  BY <1>5
<1> QED BY <1>6 DEF LatestOf

-----------------------------------------------------------------------------
(* The invariant.                                                          *)

(* A batch: rows of a period and vintage not stored before.                *)
LEMMA BatchKeepsKeys ==
  ASSUME IInv, NEW batch \in SUBSET Row, NEW from, NEW to, FreshBatch(obs, batch, from, to),
         obs' = obs \cup batch
  PROVE  /\ OneRowEach'
         /\ \A r \in batch : r.vintage \in from..to
<1>1. ASSUME NEW r \in batch, NEW q \in obs \cup batch, SameKey(r, q) \/ SameKey(q, r)
      PROVE  r = q
  <2>1. q \in RowsOf(obs \cup batch, r.series, r.period) /\ q.vintage = r.vintage
    BY <1>1 DEF RowsOf, SameKey
  <2> QED BY <2>1 DEF FreshBatch
<1>2. OneRowEach'
  BY <1>1 DEF IInv, OneRowEach
<1> QED BY <1>2 DEF FreshBatch

LEMMA BatchShape ==
  ASSUME NEW rows, NEW size, NEW batch \in Batches(rows, size)
  PROVE  batch \subseteq rows /\ IsFiniteSet(batch)
<1>1. \/ \E r \in rows : batch = {r}
      \/ \E r, q \in rows : batch = {r, q}
  BY DEF Batches
<1>2. CASE \E r \in rows : batch = {r}
  BY <1>2, FS_Singleton
<1>3. ASSUME NEW r \in rows, NEW q \in rows, batch = {r, q}
      PROVE  batch \subseteq rows /\ IsFiniteSet(batch)
  <2>1. IsFiniteSet({r}) /\ IsFiniteSet({q})
    BY FS_Singleton
  <2>2. IsFiniteSet({r} \cup {q})
    BY <2>1, FS_Union
  <2>3. batch = {r} \cup {q}
    BY <1>3
  <2> QED BY <2>2, <2>3
<1> QED BY <1>1, <1>2, <1>3

(* Observations arrive: what is recorded is not touched.                   *)
LEMMA ArrivalStep ==
  ASSUME IInv, NEW batch \in SUBSET Row, IsFiniteSet(batch), NEW from,
         FreshBatch(obs, batch, from, settled'), obs' = obs \cup batch,
         now' = now, settled' \in settled..now, late' \in 0..MaxLate,
         predictions' = predictions, errors' = errors, releases' = releases
  PROVE  IInv'
<1>1. now \in Nat /\ settled \in Nat /\ settled <= now /\ settled' \in 0..now'
  BY JournalAssumption DEF IInv, TypeOK
<1>2. OneRowEach' /\ \A r \in batch : r.vintage \in from..settled'
  BY BatchKeepsKeys
<1>3. \A r \in batch : r.vintage <= settled'
  BY <1>2, <1>1, RowShape
<1>4. TypeOK'
  BY <1>1 DEF IInv, TypeOK
<1>5. IsFiniteSet(obs')
  BY FS_Union DEF IInv
<1>6. SettledOnly'
  <2>1. \A r \in obs : r.vintage \in Nat /\ r.vintage <= settled
    BY RowShape DEF IInv, TypeOK, SettledOnly
  <2> QED BY <1>1, <1>3, <2>1 DEF SettledOnly
<1>7. AheadOfItsBasis' /\ OfAPrint'
  BY DEF IInv, AheadOfItsBasis, OfAPrint, Day
<1>8. RestsOnThePast'
  BY DEF IInv, RestsOnThePast, ReadsThePast
<1> QED BY <1>2, <1>4, <1>5, <1>6, <1>7, <1>8 DEF IInv

LEMMA ForecastStep ==
  ASSUME IInv, NEW t \in 0..now, Forecast(t)
  PROVE  IInv'
<1> DEFINE f == ForecastAt(t)
<1>1. /\ Usable(t) # {} /\ predictions' = predictions \cup {f}
      /\ UNCHANGED <<now, obs, settled, late, errors, releases>>
  BY DEF Forecast
<1>2. obs \in SUBSET Row /\ IsFiniteSet(obs)
  BY DEF IInv, TypeOK
<1>3. \A r \in Usable(t) : r.period \in Periods /\ r.period \in Nat /\ r.value \in Values \ {Gap}
  BY <1>2, UsableRows, RowShape
<1>4. /\ LatestOf(Usable(t)) \in Usable(t)
      /\ \A r \in Usable(t) : r.period <= LatestOf(Usable(t)).period
  BY <1>1, <1>2, LatestOfUsable
<1>5. /\ f.period \in Nat /\ f.at = t /\ f.asOf = t /\ f.basis = Figures(Usable(t))
      /\ LatestOf(Usable(t)).period < f.period
  BY <1>3, <1>4, NextPeriodIsLater DEF ForecastAt
<1>6. /\ f.basis \subseteq [period : Periods, value : Values \ {Gap}]
      /\ \A b \in f.basis : b.period < f.period
  BY <1>3, <1>4, <1>5 DEF Figures
<1> HIDE DEF f
<1>7. TypeOK'
  BY <1>1, <1>5, <1>6 DEF IInv, TypeOK
<1>8. AheadOfItsBasis'
  BY <1>1, <1>5, <1>6 DEF IInv, AheadOfItsBasis
<1>9. SettledOnly' /\ OneRowEach' /\ OfAPrint'
  BY <1>1 DEF IInv, SettledOnly, OneRowEach, OfAPrint, Day
<1>10. RestsOnThePast'
  <2>1. ReadsThePast(f)
    BY <1>2, <1>5, UsableRows DEF Figures, ReadsThePast
  <2> QED BY <1>1, <2>1 DEF IInv, RestsOnThePast, ReadsThePast
<1> QED BY <1>1, <1>2, <1>7, <1>8, <1>9, <1>10 DEF IInv

(* What scoring as of an instant takes for the first print.                *)
LEMMA PrintRow ==
  ASSUME IInv, NEW p, NEW t, HasPrinted(p, t)
  PROVE  /\ PrintOf(p, t) \in obs /\ PrintOf(p, t).period = p /\ PrintOf(p, t).value # Gap
         /\ PrintOf(p, t).vintage \in Nat /\ PrintOf(p, t).vintage <= t
         /\ PrintOf(p, t).vintage <= settled /\ p \in Periods
<1>1. PrintOf(p, t) \in Printed(obs, Target, p, t, Gap)
  BY TheFirstPrint DEF IInv, TypeOK, OneRowEach, HasPrinted, PrintOf
<1>2. /\ PrintOf(p, t) \in obs /\ PrintOf(p, t).period = p /\ PrintOf(p, t).value # Gap
      /\ PrintOf(p, t).vintage <= t
  BY <1>1 DEF Printed, KnownAt, RowsOf
<1> QED BY <1>2, RowShape DEF IInv, TypeOK, SettledOnly

LEMMA ScoreStep ==
  ASSUME IInv, NEW t \in 0..now, NEW f \in predictions, ScoreOne(f, t)
  PROVE  IInv'
<1> DEFINE e == ErrorOf(f, t)
<1>1. /\ HasActual(f.period, t) /\ errors' = errors \cup {e}
      /\ UNCHANGED <<now, obs, settled, late, predictions, releases>>
  BY DEF ScoreOne
<1>2. /\ PrintOf(f.period, t) \in obs /\ PrintOf(f.period, t).period = f.period
      /\ PrintOf(f.period, t).value # Gap /\ PrintOf(f.period, t).vintage \in Nat
      /\ f.period \in Periods
  BY <1>1, PrintRow DEF HasActual
<1>3. f.at \in Nat
  BY JournalAssumption DEF IInv, TypeOK
<1>4. /\ e.period = f.period /\ e.at = f.at /\ e.forecast = <<Day(e.at), e.period>>
      /\ e.actual.vintage = PrintOf(f.period, t).vintage
      /\ e.ahead = DaysAhead(f, PrintOf(f.period, t).vintage)
  BY DEF ErrorOf, IdOf, ActualChange
<1>5. e.ahead \in Nat
  <2>1. TicksPerDay \in Nat \ {0}
    BY JournalAssumption
  <2> QED BY <1>2, <1>3, <1>4, <2>1 DEF DaysAhead
<1> HIDE DEF e
<1>6. TypeOK'
  BY <1>1, <1>2, <1>4, <1>5 DEF IInv, TypeOK
<1>7. OfAPrint'
  <2>1. \E r \in obs : r.period = e.period /\ r.value # Gap /\ r.vintage = e.actual.vintage
    BY <1>2, <1>4
  <2> QED BY <1>1, <1>4, <2>1 DEF IInv, OfAPrint, Day
<1>8. /\ SettledOnly' /\ OneRowEach' /\ AheadOfItsBasis' /\ RestsOnThePast'
      /\ IsFiniteSet(obs')
  BY <1>1 DEF IInv, SettledOnly, OneRowEach, AheadOfItsBasis, RestsOnThePast, ReadsThePast
<1> QED BY <1>6, <1>7, <1>8 DEF IInv

LEMMA RecordStep ==
  ASSUME IInv, NEW p \in Periods, RecordOne(p)
  PROVE  IInv'
<1> DEFINE r == ReleaseOf(p)
<1>1. /\ releases' = releases \cup {r}
      /\ UNCHANGED <<now, obs, settled, late, predictions, errors>>
  BY DEF RecordOne
<1>2. \A t : \A q \in Usable(t) : q.value \in Values
  BY UsableRows, RowShape DEF IInv, TypeOK
<1>3. r.period = p /\ r.previous \cup r.revised \subseteq Values
  BY <1>2 DEF ReleaseOf, ValuesAt
<1> HIDE DEF r
<1>4. TypeOK'
  BY <1>1, <1>3 DEF IInv, TypeOK
<1>5. /\ SettledOnly' /\ OneRowEach' /\ AheadOfItsBasis' /\ RestsOnThePast' /\ OfAPrint'
      /\ IsFiniteSet(obs')
  BY <1>1 DEF IInv, SettledOnly, OneRowEach, AheadOfItsBasis, RestsOnThePast, ReadsThePast,
              OfAPrint, Day
<1> QED BY <1>4, <1>5 DEF IInv

(* What a step of Next is, replays included.                               *)
LEMMA StepsOfTheJournal ==
  ASSUME IInv, Next
  PROVE  \/ Tick \/ Load \/ LoadLate
         \/ \E t \in 0..now : Forecast(t) \/ \E f \in Pending(t) : ScoreOne(f, t)
         \/ \E p \in Periods : RecordOne(p)
<1>1. now \in Nat /\ now \in 0..now /\ 0..(now - 1) \subseteq 0..now
  BY JournalAssumption DEF IInv, TypeOK
<1> QED BY <1>1 DEF Next, Arrive, Replay, Score, Record

LEMMA IInvStep == IInv /\ [Next]_vars => IInv'
<1> SUFFICES ASSUME IInv, [Next]_vars PROVE IInv'
  OBVIOUS
<1>1. now \in Nat /\ settled \in Nat /\ settled <= now /\ MaxTime \in Nat /\ MaxLate \in Nat
      /\ now <= MaxTime /\ late \in 0..MaxLate /\ settled \in settled..now
  BY JournalAssumption DEF IInv, TypeOK
<1>2. CASE UNCHANGED vars
  BY <1>2 DEF vars, IInv, TypeOK, SettledOnly, OneRowEach, AheadOfItsBasis, RestsOnThePast,
              ReadsThePast, OfAPrint, Day
<1>3. CASE Tick
  <2>1. now' = now + 1 /\ now < MaxTime /\ UNCHANGED <<obs, settled, late, predictions, errors, releases>>
    BY <1>3 DEF Tick
  <2>2. TypeOK'
    <3>1. \A f \in predictions : f.at \in 0..now'
      BY <1>1, <2>1 DEF IInv, TypeOK
    <3> QED BY <1>1, <2>1, <3>1 DEF IInv, TypeOK
  <2> QED BY <2>1, <2>2 DEF IInv, SettledOnly, OneRowEach, AheadOfItsBasis, RestsOnThePast,
                            ReadsThePast, OfAPrint, Day
<1>4. CASE Load
  <2>1. PICK batch \in Batches(RowsDated(settled + 1, now), MaxBatch) :
          FreshBatch(obs, batch, settled + 1, now) /\ obs' = obs \cup batch
    BY <1>4 DEF Load
  <2>2. batch \in SUBSET Row /\ IsFiniteSet(batch)
    BY <2>1, BatchShape DEF RowsDated
  <2>3. /\ settled' = now /\ now' = now /\ late' = late /\ predictions' = predictions
        /\ errors' = errors /\ releases' = releases
    BY <1>4 DEF Load
  <2>4. FreshBatch(obs, batch, settled + 1, settled') /\ settled' \in settled..now
    BY <1>1, <2>1, <2>3
  <2> QED BY <1>1, <2>1, <2>2, <2>3, <2>4, ArrivalStep
<1>5. CASE LoadLate
  <2>1. PICK r \in RowsDated(0, settled) : FreshBatch(obs, {r}, 0, settled) /\ obs' = obs \cup {r}
    BY <1>5 DEF LoadLate
  <2>2. {r} \in SUBSET Row /\ IsFiniteSet({r})
    BY <2>1, FS_Singleton DEF RowsDated
  <2>3. /\ settled' = settled /\ now' = now /\ late' = late + 1 /\ late < MaxLate
        /\ predictions' = predictions /\ errors' = errors /\ releases' = releases
    BY <1>5 DEF LoadLate
  <2>4. FreshBatch(obs, {r}, 0, settled') /\ settled' \in settled..now /\ late' \in 0..MaxLate
    BY <1>1, <2>1, <2>3
  <2> QED BY <1>1, <2>1, <2>2, <2>3, <2>4, ArrivalStep
<1>6. ASSUME NEW t \in 0..now, Forecast(t) PROVE IInv'
  BY <1>6, ForecastStep
<1>7. ASSUME NEW t \in 0..now, NEW f \in Pending(t), ScoreOne(f, t) PROVE IInv'
  BY <1>7, ScoreStep DEF Pending
<1>8. ASSUME NEW p \in Periods, RecordOne(p) PROVE IInv'
  BY <1>8, RecordStep
<1> QED BY <1>2, <1>3, <1>4, <1>5, <1>6, <1>7, <1>8, StepsOfTheJournal

LEMMA Invariance == Spec => []IInv
<1>1. Init => IInv
  BY FS_EmptySet, JournalAssumption
     DEF Init, IInv, TypeOK, SettledOnly, OneRowEach, AheadOfItsBasis, RestsOnThePast, OfAPrint
<1> QED BY <1>1, IInvStep, PTL DEF Spec

-----------------------------------------------------------------------------
(* No forecast rests on a figure published after its cutoff, and one whose *)
(* cutoff still reads as it did is scored against a print that came after  *)
(* it: a print by then would be among the figures it read, and those are   *)
(* of earlier periods.                                                     *)
THEOREM CallsComeFirst == Spec => []NoHindsight
<1>1. IInv => NoHindsight
  <2> SUFFICES ASSUME IInv, NEW f \in predictions, NEW e \in errors, e.forecast = IdOf(f),
                      StillReads(f), Usable(f.asOf) = AsOf(obs, Target, f.asOf)
               PROVE  f.at < e.actual.vintage
    BY DEF NoHindsight, IInv, RestsOnThePast
  <2>1. /\ f.asOf = f.at /\ f.at \in Nat /\ e.period = f.period
        /\ \A b \in f.basis : b.period \in Nat /\ b.period < f.period
    <3>1. f.asOf = f.at /\ \A b \in f.basis : b.period < f.period
      BY DEF IInv, AheadOfItsBasis
    <3>2. f.at \in Nat
      BY JournalAssumption DEF IInv, TypeOK
    <3>3. f.basis \subseteq [period : Periods, value : Values \ {Gap}] /\ Periods \subseteq Nat
      BY JournalAssumption DEF IInv, TypeOK
    <3>4. e.forecast = <<Day(e.at), e.period>> /\ e.forecast = <<Day(f.at), f.period>>
      BY DEF IInv, OfAPrint, IdOf
    <3>5. e.period = f.period
      BY <3>4
    <3>6. \A b \in f.basis : b.period \in Nat
      BY <3>3
    <3> QED BY <3>1, <3>2, <3>5, <3>6
  <2>2. PICK r \in obs : r.period = e.period /\ r.value # Gap /\ r.vintage = e.actual.vintage
    BY DEF IInv, OfAPrint
  <2>3. r.vintage \in Nat /\ r.period \in Nat /\ obs \in SUBSET Row
    BY RowShape DEF IInv, TypeOK
  <2>4. ASSUME r.vintage <= f.at PROVE FALSE
    <3>1. PICK q \in AsOf(obs, Target, f.at) : q.period = r.period
      BY <2>3, <2>4, WhatIsRead
    <3>2. [period |-> q.period, value |-> q.value] \in Figures(Usable(f.asOf))
      BY <2>1, <3>1 DEF Figures
    <3>3. [period |-> q.period, value |-> q.value] \in f.basis
      BY <3>2 DEF StillReads
    <3>4. q.period < f.period
      BY <2>1, <3>3
    <3> QED BY <2>1, <2>2, <2>3, <3>1, <3>4
  <2> QED BY <2>1, <2>2, <2>3, <2>4
<1> QED BY <1>1, Invariance, PTL

-----------------------------------------------------------------------------
(* Time passes and batches arrive after everything settled: what has       *)
(* printed has printed, and what is read as of a settled instant is what   *)
(* was read.                                                               *)
LEMMA SettledReads ==
  ASSUME IInv, IInv', Tick \/ Load
  PROVE  /\ \A t \in Int : t <= settled => Usable(t)' = Usable(t)
         /\ \A p : HasPrinted(p, now) =>
              HasPrinted(p, now)' /\ PrintOf(p, now)' = PrintOf(p, now)
<1>1. /\ now \in Nat /\ now' \in Nat /\ settled \in Nat /\ settled <= now /\ now <= now'
      /\ obs \in SUBSET Row /\ obs' \in SUBSET Row
      /\ \A r \in obs : r.vintage \in Nat /\ r.vintage <= settled
  <2>1. now' = now \/ now' = now + 1
    BY DEF Tick, Load
  <2> QED BY <2>1, RowShape, JournalAssumption DEF IInv, TypeOK, SettledOnly
<1>2. obs \subseteq obs' /\ \A r \in obs' \ obs : r.vintage \in Nat /\ settled < r.vintage
  <2>1. CASE Tick
    BY <2>1 DEF Tick
  <2>2. CASE Load
    <3>1. PICK batch \in Batches(RowsDated(settled + 1, now), MaxBatch) :
            obs' = obs \cup batch
      BY <2>2 DEF Load
    <3>2. \A r \in batch : r.vintage \in (settled + 1)..now
      BY <3>1, BatchShape DEF RowsDated
    <3> QED BY <1>1, <3>1, <3>2
  <2> QED BY <2>1, <2>2
<1>3. ASSUME NEW t \in Int, t <= settled PROVE Usable(t)' = Usable(t)
  <2>1. {r \in obs : r.vintage <= t} = {r \in obs' : r.vintage <= t}
    BY <1>1, <1>2, <1>3
  <2>2. AsOf(obs, Target, t) = AsOf(obs', Target, t)
    BY <2>1, ReadAlike
  <2> QED BY <2>2 DEF Usable
<1>4. ASSUME NEW p, HasPrinted(p, now)
      PROVE  HasPrinted(p, now)' /\ PrintOf(p, now)' = PrintOf(p, now)
  <2>1. Printed(obs, Target, p, now, Gap) = Printed(obs, Target, p, settled, Gap)
    BY <1>1 DEF Printed, KnownAt, RowsOf
  <2>2. FirstPrint(obs, Target, p, now, Gap) = FirstPrint(obs, Target, p, settled, Gap)
    BY <2>1 DEF FirstPrint
  <2>3. \A r, q \in obs' : SameKey(r, q) => r = q
    BY DEF IInv, OneRowEach
  <2>4. Printed(obs, Target, p, settled, Gap) # {} /\ settled <= now'
    BY <1>1, <1>4, <2>1 DEF HasPrinted
  <2>5. /\ Printed(obs', Target, p, now', Gap) # {}
        /\ FirstPrint(obs', Target, p, now', Gap) = FirstPrint(obs, Target, p, settled, Gap)
    BY <1>1, <1>2, <2>3, <2>4, FirstPrintStays
  <2> QED BY <2>2, <2>5 DEF HasPrinted, PrintOf
<1> QED BY <1>3, <1>4

(* A step that arrives with nothing late keeps what a score is made of.    *)
LEMMA ActualStays ==
  ASSUME IInv, IInv', Tick \/ Load, NEW p, HasActual(p, now)
  PROVE  HasActual(p, now)' /\ ActualChange(p, now)' = ActualChange(p, now)
<1>1. HasPrinted(p, now) /\ Preceding(p, now) # {}
  BY DEF HasActual
<1>2. HasPrinted(p, now)' /\ PrintOf(p, now)' = PrintOf(p, now)
  BY <1>1, SettledReads
<1>3. PrintOf(p, now).vintage \in Nat /\ PrintOf(p, now).vintage <= settled
  BY <1>1, PrintRow
<1>4. Usable(PrintOf(p, now).vintage)' = Usable(PrintOf(p, now).vintage)
  BY <1>2, <1>3, SettledReads
<1>5. Preceding(p, now)' = Preceding(p, now)
  BY <1>4 DEF Preceding, UpTo
<1> QED BY <1>1, <1>2, <1>5 DEF HasActual, ActualChange, LatestOf

(* scoring.py:9-11 - a score computed today and one computed next year     *)
(* agree, whatever it was computed as of: nothing but a row dated in the   *)
(* settled past changes what scoring would compute.                        *)
THEOREM ScoresNeverMove == Spec => ScoresStandStill
<1> DEFINE Still == late' > late \/ \A e \in errors' : (e \in errors => Agrees(e)) => Agrees(e)'
<1>1. IInv /\ IInv' /\ [Next]_vars => [Still]_<<now, obs, errors>>
  <2> SUFFICES ASSUME IInv, IInv', [Next]_vars PROVE [Still]_<<now, obs, errors>>
    OBVIOUS
  <2>1. CASE UNCHANGED <<now, obs, errors>>
    BY <2>1
  <2>2. CASE Tick \/ Load
    <3>1. errors' = errors
      BY <2>2 DEF Tick, Load
    <3>2. ASSUME NEW e \in errors, Agrees(e) PROVE Agrees(e)'
      BY <2>2, <3>2, ActualStays DEF Agrees
    <3> QED BY <3>1, <3>2
  <2>3. CASE LoadLate
    BY <2>3 DEF LoadLate, IInv, TypeOK
  <2>4. ASSUME NEW t \in 0..now, NEW f \in Pending(t), ScoreOne(f, t)
        PROVE  Still
    <3>1. /\ HasActual(f.period, t) /\ errors' = errors \cup {ErrorOf(f, t)}
          /\ now' = now /\ obs' = obs
      BY <2>4 DEF ScoreOne
    <3>2. t \in Nat /\ now \in Nat /\ t <= now
      BY JournalAssumption DEF IInv, TypeOK
    <3>3. HasPrinted(f.period, now) /\ PrintOf(f.period, now) = PrintOf(f.period, t)
      <4>1. obs \in SUBSET Row /\ \A r, q \in obs : SameKey(r, q) => r = q
        BY DEF IInv, TypeOK, OneRowEach
      <4>2. Printed(obs, Target, f.period, t, Gap) # {} /\ \A r \in obs \ obs : t < r.vintage
        BY <3>1 DEF HasActual, HasPrinted
      <4> QED BY <3>2, <4>1, <4>2, FirstPrintStays DEF HasPrinted, PrintOf
    <3>4. Preceding(f.period, now) = Preceding(f.period, t)
      BY <3>3 DEF Preceding
    <3>5. Agrees(ErrorOf(f, t))
      BY <3>1, <3>3, <3>4 DEF Agrees, HasActual, ActualChange, ErrorOf
    <3>6. \A e : Agrees(e) => Agrees(e)'
      BY <3>1 DEF Agrees, HasActual, HasPrinted, Preceding, UpTo, Usable, PrintOf, ActualChange
    <3> QED BY <3>1, <3>5, <3>6
  <2>5. ASSUME NEW t \in 0..now, Forecast(t) PROVE UNCHANGED <<now, obs, errors>>
    BY <2>5 DEF Forecast
  <2>6. ASSUME NEW p \in Periods, RecordOne(p) PROVE UNCHANGED <<now, obs, errors>>
    BY <2>6 DEF RecordOne
  <2>7. CASE UNCHANGED vars
    BY <2>7 DEF vars
  <2> QED BY <2>1, <2>2, <2>3, <2>4, <2>5, <2>6, <2>7, StepsOfTheJournal
<1>2. Spec => [][Still]_<<now, obs, errors>>
  BY <1>1, Invariance, PTL DEF Spec
<1> QED BY <1>2 DEF ScoresStandStill

(* releases.py:14-17 - the figure of a release, and the two readings of    *)
(* the month before it, are fixed for ever.                                *)
THEOREM ReleasesNeverMove == Spec => ReleasesStandStill
<1> DEFINE Still == late' > late \/ \A r \in releases :
                      HasPrinted(r.period, now) /\ ReleaseOf(r.period) = r =>
                        HasPrinted(r.period, now)' /\ ReleaseOf(r.period)' = r
<1>1. IInv /\ IInv' /\ [Next]_vars => [Still]_<<now, obs>>
  <2> SUFFICES ASSUME IInv, IInv', [Next]_vars PROVE [Still]_<<now, obs>>
    OBVIOUS
  <2>1. CASE UNCHANGED <<now, obs>>
    BY <2>1
  <2>2. CASE Tick \/ Load
    <3> SUFFICES ASSUME NEW r \in releases, HasPrinted(r.period, now), ReleaseOf(r.period) = r
                 PROVE  HasPrinted(r.period, now)' /\ ReleaseOf(r.period)' = r
      OBVIOUS
    <3> DEFINE print == PrintOf(r.period, now)
               before == PreviousPeriod(r.period)
    <3>1. HasPrinted(r.period, now)' /\ PrintOf(r.period, now)' = print
      BY <2>2, SettledReads
    <3>2. print.vintage \in Nat /\ print.vintage <= settled /\ settled \in Nat
      BY PrintRow, JournalAssumption DEF IInv, TypeOK
    <3>3. /\ Usable(print.vintage)' = Usable(print.vintage)
          /\ Usable(print.vintage - 1)' = Usable(print.vintage - 1)
      <4>1. /\ print.vintage \in Int /\ print.vintage <= settled
            /\ print.vintage - 1 \in Int /\ print.vintage - 1 <= settled
        BY <3>2
      <4> HIDE DEF print
      <4>2. print' = print
        BY <3>1 DEF print
      <4> QED BY <2>2, <4>1, <4>2, SettledReads
    <3>4. /\ ValuesAt(before, print.vintage)' = ValuesAt(before, print.vintage)
          /\ ValuesAt(before, print.vintage - 1)' = ValuesAt(before, print.vintage - 1)
      BY <3>3 DEF ValuesAt
    <3> QED BY <3>1, <3>4 DEF ReleaseOf
  <2>3. CASE LoadLate
    BY <2>3 DEF LoadLate, IInv, TypeOK
  <2>4. CASE (\E t \in 0..now : Forecast(t) \/ \E f \in Pending(t) : ScoreOne(f, t))
             \/ \E p \in Periods : RecordOne(p)
    BY <2>4 DEF Forecast, ScoreOne, RecordOne
  <2>5. CASE UNCHANGED vars
    BY <2>5 DEF vars
  <2> QED BY <2>1, <2>2, <2>3, <2>4, <2>5, StepsOfTheJournal
<1>2. Spec => [][Still]_<<now, obs>>
  BY <1>1, Invariance, PTL DEF Spec
<1> QED BY <1>2 DEF ReleasesStandStill

(* repo.py:80-85 - a report dated in the past shows the forecast that      *)
(* stood then: a new forecast is of another day, so it is older than the   *)
(* one that stands or later than the day.                                  *)
THEOREM PastForecastsStand == Spec => PastReportsStand
<1> DEFINE Stands == \A f \in predictions : \A t \in f.at..MaxTime : Day(t) = Day(f.at) =>
       /\ Standing(t, f.period)' = Standing(t, f.period)
       /\ Replayed(f.at) \/ ForecastSection(t, f.period)' = ForecastSection(t, f.period)
<1>1. IInv /\ IInv' /\ [Next]_vars => [Stands]_predictions
  <2> SUFFICES ASSUME IInv, IInv', [Next]_vars PROVE [Stands]_predictions
    OBVIOUS
  <2>1. ASSUME NEW c \in 0..now, Forecast(c) PROVE Stands
    <3> DEFINE g == ForecastAt(c)
    <3>1. predictions' = predictions \cup {g} /\ ~ Taken(g) /\ g.at = c /\ c \in Nat
      BY <2>1, JournalAssumption DEF Forecast, ForecastAt, IInv, TypeOK
    <3>2. \A h \in predictions : h.at \in Nat
      BY JournalAssumption DEF IInv, TypeOK
    <3>3. \A h \in predictions : h.period = g.period => Day(h.at) # Day(c)
      BY <3>1 DEF Taken, IdOf
    <3> SUFFICES ASSUME NEW f \in predictions, NEW t \in f.at..MaxTime, Day(t) = Day(f.at)
                 PROVE  /\ Standing(t, f.period)' = Standing(t, f.period)
                        /\ Replayed(f.at) \/ ForecastSection(t, f.period)' = ForecastSection(t, f.period)
      OBVIOUS
    <3> DEFINE p == f.period
               Then == {h \in predictions : h.period = p /\ h.at <= t}
    <3> HIDE DEF g
    <3>4. f.at \in Nat /\ t \in Nat /\ f.at <= t
      BY <3>2, JournalAssumption
    <3>5. g.period = p /\ c <= t => c < f.at
      <4> SUFFICES ASSUME g.period = p, c <= t, ~ (c < f.at) PROVE FALSE
        OBVIOUS
      <4>1. f.at <= c
        BY <3>1, <3>4
      <4>2. Day(f.at) <= Day(c) /\ Day(c) <= Day(t) /\ Day(c) \in Nat /\ Day(t) \in Nat
        BY <3>1, <3>4, <4>1, DaysInOrder
      <4>3. Day(c) = Day(f.at)
        BY <4>2
      <4> QED BY <3>3, <4>3
    <3>6. Standing(t, p)' = Standing(t, p)
      <4>1. Then' = IF g.period = p /\ c <= t THEN Then \cup {g} ELSE Then
        BY <3>1
      <4>2. CASE ~ (g.period = p /\ c <= t)
        BY <4>1, <4>2 DEF Standing, LastOf
      <4>3. CASE g.period = p /\ c <= t
        <5>1. /\ f \in Then /\ c < f.at /\ c \in Nat /\ Then' = Then \cup {g}
              /\ \A h \in Then : h.at \in Nat
          BY <3>1, <3>2, <3>4, <3>5, <4>1, <4>3
        <5> HIDE DEF Then
        <5>2. LastOf(Then \cup {g}) = LastOf(Then)
          <6>1. g \notin LastOf(Then \cup {g})
            BY <3>1, <3>4, <5>1 DEF LastOf
          <6>2. \A h \in Then : (\A x \in Then : x.at <= h.at) => g.at <= h.at
            BY <3>1, <3>4, <5>1
          <6> QED BY <6>1, <6>2 DEF LastOf
        <5> QED BY <5>1, <5>2 DEF Standing, Then
      <4> QED BY <4>2, <4>3
    <3>7. ASSUME ~ Replayed(f.at)
          PROVE  ForecastSection(t, p)' = ForecastSection(t, p)
      <4>1. CASE g \in predictions
        <5>1. predictions' = predictions
          BY <3>1, <4>1
        <5> QED BY <5>1 DEF ForecastSection, Standing, PreviousTo, LastOf
      <4>2. CASE g \notin predictions
        <5>1. g.period = p => t < c
          <6>1. ~ (c < f.at)
            BY <3>1, <3>7, <4>2 DEF Replayed
          <6> QED BY <3>1, <3>4, <3>5, <6>1
        <5>2. ASSUME NEW h \in Standing(t, p) PROVE PreviousTo(h)' = PreviousTo(h)
          <6>1. h \in predictions /\ h.period = p /\ h.at <= t /\ h.at \in Nat
            BY <3>2, <5>2 DEF Standing, LastOf
          <6>2. {x \in predictions' : x.period = h.period /\ x.at < h.at}
                  = {x \in predictions : x.period = h.period /\ x.at < h.at}
            BY <3>1, <3>4, <5>1, <6>1
          <6> QED BY <6>2 DEF PreviousTo, LastOf
        <5> QED BY <3>6, <5>2 DEF ForecastSection
      <4> QED BY <4>1, <4>2
    <3> QED BY <3>6, <3>7
  <2>2. CASE Tick \/ Load \/ LoadLate
    BY <2>2 DEF Tick, Load, LoadLate
  <2>3. ASSUME NEW t \in 0..now, NEW f \in Pending(t), ScoreOne(f, t)
        PROVE  predictions' = predictions
    BY <2>3 DEF ScoreOne
  <2>4. ASSUME NEW p \in Periods, RecordOne(p) PROVE predictions' = predictions
    BY <2>4 DEF RecordOne
  <2>5. CASE UNCHANGED vars
    BY <2>5 DEF vars
  <2> QED BY <2>1, <2>2, <2>3, <2>4, <2>5, StepsOfTheJournal
<1>2. Spec => [][Stands]_predictions
  BY <1>1, Invariance, PTL DEF Spec
<1> QED BY <1>2 DEF PastReportsStand

-----------------------------------------------------------------------------
(* The scoreboard: the figures of a scored row.                            *)
LEMMA RowArithmetic ==
  ASSUME NEW r \in ScoredRow
  PROVE  /\ r.point \in Int /\ r.baseline \in Int /\ r.actual \in Int
         /\ Error(r) \in Int /\ BaselineError(r) \in Int /\ Adjustment(r) \in Int
         /\ BaselineError(r) = Error(r) + Adjustment(r)
BY DEF ScoredRow, Error, BaselineError, Adjustment

-----------------------------------------------------------------------------
(* scoring.py:124-130, 142 - skill and direction agree one way: a forecast *)
(* that beat the baseline made a call, and called the right side.          *)
THEOREM BeatingNaiveCallsTheSide ==
  ASSUME NEW r \in ScoredRow, Skill(r) > 0
  PROVE  MakesCall(r) /\ Hit(r)
BY RowArithmetic DEF Skill, Abs, MakesCall, Hit

(* The wrong side costs the whole adjustment, and no forecast can gain or  *)
(* lose more than it moved.                                                *)
THEOREM SkillIsBoundedByTheAdjustment ==
  ASSUME NEW r \in ScoredRow
  PROVE  /\ Skill(r) <= Abs(Adjustment(r)) /\ -Abs(Adjustment(r)) <= Skill(r)
         /\ MakesCall(r) /\ ~ Hit(r) => Skill(r) = -Abs(Adjustment(r))
BY RowArithmetic DEF Skill, Abs, MakesCall, Hit

(* scoring.py:130 - a print exactly at the baseline is the one case of     *)
(* both: the call lost all it could, and a call downwards counts as a hit. *)
THEOREM FlatPrintFavoursDownCalls ==
  ASSUME NEW r \in ScoredRow, r.actual = r.baseline, MakesCall(r)
  PROVE  /\ Skill(r) = -Abs(Adjustment(r))
         /\ Hit(r) <=> Adjustment(r) < 0
BY RowArithmetic DEF Skill, Abs, MakesCall, Hit, BaselineError, Error, Adjustment

-----------------------------------------------------------------------------
(* metrics.py:24-30, 138-141 - the bins are half open and the last reaches *)
(* past 1: every stated probability counts in one bin, and in one only.    *)
THEOREM OneBin ==
  ASSUME NEW rows \in SUBSET ScoredRow, NEW r \in Stated(rows)
  PROVE  /\ \E b \in Bins : r \in InBin(rows, b)
         /\ \A b, c \in Bins : r \in InBin(rows, b) /\ r \in InBin(rows, c) => b = c
<1>1. r.prob \in 0..100
  BY DEF Stated, ScoredRow
<1> QED
  BY <1>1 DEF InBin, Bins

(* metrics.py:100-111 - rows are only ever added: a group that has enough  *)
(* evidence keeps it, and a share of hits once shown stays shown.          *)
THEOREM EvidenceAccumulates ==
  ASSUME NEW rows, NEW more, IsFiniteSet(more), rows \subseteq more, NEW key, MinSample \in Nat
  PROVE  /\ Sufficient(Group(rows, key)) => Sufficient(Group(more, key))
         /\ DirectionReported(Group(rows, key)) => DirectionReported(Group(more, key))
<1>1. Group(rows, key) \subseteq Group(more, key) /\ Group(more, key) \subseteq more
  BY DEF Group
<1>2. IsFiniteSet(Group(more, key))
  BY <1>1, FS_Subset
<1>3. IsFiniteSet(Group(rows, key)) /\ Cardinality(Group(rows, key)) <= Cardinality(Group(more, key))
  BY <1>1, <1>2, FS_Subset
<1>4. Cardinality(Group(rows, key)) \in Nat /\ Cardinality(Group(more, key)) \in Nat
  BY <1>2, <1>3, FS_CardinalityType
<1>5. Sufficient(Group(rows, key)) => Sufficient(Group(more, key))
  BY <1>3, <1>4 DEF Sufficient
<1>6. Calls(Group(rows, key)) \subseteq Calls(Group(more, key))
  BY <1>1 DEF Calls
<1> QED
  BY <1>5, <1>6 DEF DirectionReported

-----------------------------------------------------------------------------
(* Daily forecasts of one period of target t, from `first' to `last' days  *)
(* before its print, of which the last moved the baseline by `call'.       *)
Daily(t, first, last, call) ==
  {[id |-> d, target |-> t, period |-> 0, days |-> d,
    point |-> IF d = last THEN call ELSE 0, baseline |-> 0, actual |-> call,
    prob |-> NoProbability] : d \in last..first}

LEMMA DailyRows ==
  ASSUME NEW t \in Targets, NEW first \in Nat, NEW last \in Nat, last <= first,
         NEW call \in Int
  PROVE  /\ Daily(t, first, last, call) \in SUBSET ScoredRow
         /\ IsFiniteSet(Daily(t, first, last, call))
         /\ Cardinality(Daily(t, first, last, call)) = first - last + 1
<1> DEFINE D == Daily(t, first, last, call)
           f == [d \in last..first |->
                  [id |-> d, target |-> t, period |-> 0, days |-> d,
                   point |-> IF d = last THEN call ELSE 0, baseline |-> 0,
                   actual |-> call, prob |-> NoProbability]]
<1>1. D \in SUBSET ScoredRow
  BY DEF Daily, ScoredRow
<1>2. f \in Bijection(last..first, D)
  BY DEF Daily, Bijection, Injection, Surjection, IsInjective
<1>3. ExistsBijection(last..first, D)
  BY <1>2 DEF ExistsBijection
<1>4. IsFiniteSet(last..first) /\ Cardinality(last..first) = first - last + 1
  BY FS_Interval
<1>5. IsFiniteSet(D) /\ Cardinality(D) = Cardinality(last..first)
  BY <1>3, <1>4, FS_Bijection
<1> QED
  BY <1>1, <1>4, <1>5

(* metrics.py:3-7 - the minimum sample is asked of the group, not of the   *)
(* rows that made a call: whatever the minimum, a share of hits is shown   *)
(* that rests on one call.                                                 *)
THEOREM AnAnecdoteIsReported ==
  ASSUME NEW t \in Targets, MinSample \in Nat \ {0}
  PROVE  \E rows \in SUBSET ScoredRow : \E key :
           /\ DirectionReported(Group(rows, key))
           /\ Cardinality(Calls(Group(rows, key))) = 1
<1> DEFINE last == 31
           rows == Daily(t, last + MinSample - 1, last, 1)
           key == <<t, "31d+">>
<1>1. /\ rows \in SUBSET ScoredRow /\ Cardinality(rows) = MinSample
  BY DailyRows
<1>2. Group(rows, key) = rows
  BY DEF Group, Key, Band, Daily
<1>3. PICK r \in rows : Calls(rows) = {r}
  <2>1. \A r \in rows : MakesCall(r) <=> r.days = last
    BY DEF Daily, MakesCall, Adjustment
  <2>2. \A r, q \in rows : r.days = q.days => r = q
    BY DEF Daily
  <2>3. \E r \in rows : r.days = last
    <3>1. 31 \in 31..(31 + MinSample - 1)
      OBVIOUS
    <3>2. [id |-> 31, target |-> t, period |-> 0, days |-> 31, point |-> 1,
           baseline |-> 0, actual |-> 1, prob |-> NoProbability] \in rows
      BY <3>1 DEF Daily
    <3> QED
      BY <3>2
  <2> QED
    BY <2>1, <2>2, <2>3 DEF Calls
<1>4. Cardinality(Calls(rows)) = 1
  BY <1>3, FS_Singleton
<1>5. DirectionReported(rows)
  BY <1>1, <1>3 DEF DirectionReported, Sufficient
<1> QED
  BY <1>1, <1>2, <1>4, <1>5

(* metrics.py:110 - n counts forecasts, not prints.  A period is forecast  *)
(* every day, so with a minimum of up to twenty, as the code has it, one   *)
(* print makes the group of 11 to 30 days sufficient by itself.            *)
THEOREM OnePrintIsEnough ==
  ASSUME NEW t \in Targets, MinSample \in 1..20
  PROVE  \E rows \in SUBSET ScoredRow :
           Sufficient(Group(rows, <<t, "11-30d">>)) /\ Cardinality(PeriodsOf(rows)) = 1
<1> DEFINE rows == Daily(t, 30, 11, 1)
<1>1. rows \in SUBSET ScoredRow /\ Cardinality(rows) = 20
  BY DailyRows
<1>2. Group(rows, <<t, "11-30d">>) = rows
  BY DEF Group, Key, Band, Daily
<1>3. PeriodsOf(rows) = {0}
  <2>1. \E r \in rows : TRUE
    <3>1. 11 \in 11..30
      OBVIOUS
    <3> QED
      BY <3>1 DEF Daily
  <2>2. \A r \in rows : r.period = 0
    BY DEF Daily
  <2> QED
    BY <2>1, <2>2 DEF PeriodsOf
<1>4. Cardinality(PeriodsOf(rows)) = 1
  BY <1>3, FS_Singleton
<1> QED
  BY <1>1, <1>2, <1>4 DEF Sufficient

-----------------------------------------------------------------------------
(* The calendar, for every set of releases, clocks and days, every move    *)
(* and edit, and every failed or killed run: the table has two unique      *)
(* keys, and only one of them is the upsert's conflict target.  That an    *)
(* instant lies in the day its calendar_id names ties the two together.    *)

OfItsDay(e) ==
  \E d \in Days, h \in 0..(HoursPerDay - 1) :
    e.id = <<d, e.release, e.series>> /\ e.at = d * HoursPerDay + h

OneRowPerId == \A q, r \in table : q.id = r.id => q = r

CalendarInv ==
  /\ CalendarTypeOK /\ OneRowPerId
  /\ \A e \in table \cup todo : OfItsDay(e)

(* No line of a day's report repeats another.                              *)
OneLineEach ==
  \A day \in Days : \A q, r \in Today(day) :
    q.release = r.release /\ q.series = r.series => q = r

(* A stored row is never dropped, renamed or moved.                        *)
RowsStay ==
  [][\A q \in table : \E r \in table' : r = [q EXCEPT !.exact = r.exact]]_calendarVars

(* What the primary key refuses it refuses for ever.                       *)
ClashesStay ==
  [][\A e \in Rows : OfItsDay(e) /\ Clash(e) => Clash(e)']_calendarVars

-----------------------------------------------------------------------------
(* An instant lies in one day.                                             *)
LEMMA OneDay ==
  ASSUME NEW d \in Nat, NEW h \in 0..(HoursPerDay - 1),
         NEW c \in Nat, NEW k \in 0..(HoursPerDay - 1),
         d * HoursPerDay + h = c * HoursPerDay + k
  PROVE  d = c
<1>1. HoursPerDay \in Nat \ {0} /\ h \in Nat /\ k \in Nat /\ h < HoursPerDay /\ k < HoursPerDay
  BY CalendarAssumption
<1>2. ASSUME NEW a \in Nat, NEW b \in Nat, a < b
      PROVE  a * HoursPerDay + HoursPerDay <= b * HoursPerDay
  <2>1. PICK n \in Nat : b = a + 1 + n
    <3>1. b - (a + 1) \in Nat /\ b = a + 1 + (b - (a + 1))
      BY <1>2
    <3> QED BY <3>1
  <2>2. b * HoursPerDay = a * HoursPerDay + HoursPerDay + n * HoursPerDay
    BY <1>1, <2>1
  <2>3. n * HoursPerDay \in Nat /\ a * HoursPerDay \in Nat
    BY <1>1
  <2> QED BY <1>1, <2>2, <2>3
<1>3. d * HoursPerDay \in Nat /\ c * HoursPerDay \in Nat
  BY <1>1
<1>4. ~ (d < c)
  BY <1>1, <1>2, <1>3
<1>5. ~ (c < d)
  BY <1>1, <1>2, <1>3
<1> QED BY <1>4, <1>5

(* The index on the instant implies the id.                                *)
LEMMA SameEventSameId ==
  ASSUME NEW e, NEW q, OfItsDay(e), OfItsDay(q), SameEvent(e, q)
  PROVE  q.id = e.id
<1>1. PICK d \in Days, h \in 0..(HoursPerDay - 1) :
        e.id = <<d, e.release, e.series>> /\ e.at = d * HoursPerDay + h
  BY DEF OfItsDay
<1>2. PICK c \in Days, k \in 0..(HoursPerDay - 1) :
        q.id = <<c, q.release, q.series>> /\ q.at = c * HoursPerDay + k
  BY DEF OfItsDay
<1>3. d \in Nat /\ c \in Nat
  BY CalendarAssumption
<1>4. d * HoursPerDay + h = c * HoursPerDay + k
  BY <1>1, <1>2 DEF SameEvent
<1>5. d = c
  BY <1>3, <1>4, OneDay
<1> QED BY <1>1, <1>2, <1>5 DEF SameEvent

LEMMA EntriesShape ==
  ASSUME CalendarInv, latest # Unreadable, NEW e \in Entries(latest, watched)
  PROVE  e \in Rows /\ OfItsDay(e)
<1>1. PICK r \in Releases : \E day \in latest[r], s \in SeriesOf(watched[r]) :
        e = Entry(r, day, s, watched[r])
  BY DEF Entries
<1> PICK day \in latest[r], s \in SeriesOf(watched[r]) : e = Entry(r, day, s, watched[r])
  BY <1>1
<1>2. day \in Days /\ day \in Nat
  BY CalendarAssumption DEF CalendarInv, CalendarTypeOK
<1>3. watched[r] \in Watch
  BY CalendarAssumption DEF CalendarInv, CalendarTypeOK
<1>4. s \in Series \cup {NoSeries}
  BY <1>3 DEF Watch, SeriesOf
<1>5. PICK h \in 0..(HoursPerDay - 1), b \in BOOLEAN :
        ScheduledAt(day, watched[r]) = [at |-> day * HoursPerDay + h, exact |-> b]
  <2>1. CASE watched[r] = Unwatched
    <3>1. 0 \in 0..(HoursPerDay - 1) /\ day * HoursPerDay = day * HoursPerDay + 0
      BY <1>2, CalendarAssumption
    <3> QED BY <2>1, <3>1 DEF ScheduledAt
  <2>2. CASE watched[r] # Unwatched
    <3>1. watched[r].hour \in 0..(HoursPerDay - 1)
      BY <1>3, <2>2, CalendarAssumption DEF Watch
    <3> QED BY <2>2, <3>1 DEF ScheduledAt
  <2> QED BY <2>1, <2>2
<1>6. e = [id |-> <<day, r, s>>, release |-> r, series |-> s,
           at |-> day * HoursPerDay + h, exact |-> b]
  BY <1>5 DEF Entry
<1>7. day * HoursPerDay + h \in Nat
  BY <1>2, CalendarAssumption
<1>8. e \in Rows
  BY <1>2, <1>4, <1>6, <1>7 DEF Rows
<1>9. OfItsDay(e)
  BY <1>2, <1>6 DEF OfItsDay
<1> QED BY <1>8, <1>9

(* What an upsert makes of the table: every row keeps its id and instant,  *)
(* and an insertion brings an id the table did not have.                   *)
LEMMA UpsertKeeps ==
  ASSUME CalendarInv, NEW e \in Rows, OfItsDay(e), ~ Clash(e)
  PROVE  /\ \A q \in table : \E r \in Upserted(e) : r = [q EXCEPT !.exact = r.exact]
         /\ \A r \in Upserted(e) :
              /\ r \in Rows /\ OfItsDay(r)
              /\ \/ \E q \in table : /\ r.id = q.id /\ r.at = q.at
                                     /\ r.release = q.release /\ r.series = q.series
                 \/ r = e /\ \A q \in table : q.id # e.id
         /\ \A q, r \in Upserted(e) : q.id = r.id => q = r
<1>1. \A q \in table : q \in Rows /\ OfItsDay(q)
  BY DEF CalendarInv, CalendarTypeOK
<1>2. \A q \in table : LET c == Corrected(q, e)
                       IN /\ c \in Rows /\ c = [q EXCEPT !.exact = c.exact]
                          /\ c.id = q.id /\ c.at = q.at
                          /\ c.release = q.release /\ c.series = q.series
  BY <1>1 DEF Corrected, Rows
<1>3. \A q \in table : OfItsDay(Corrected(q, e))
  BY <1>1, <1>2 DEF OfItsDay
<1>4. \A q \in table : q = [q EXCEPT !.exact = q.exact]
  BY <1>1 DEF Rows
<1>5. CASE \E q \in table : SameEvent(e, q)
  <2> DEFINE Now(q) == IF SameEvent(e, q) THEN Corrected(q, e) ELSE q
  <2>1. Upserted(e) = {Now(q) : q \in table}
    BY <1>5 DEF Upserted
  <2>2. \A q \in table : /\ Now(q) \in Rows /\ OfItsDay(Now(q))
                        /\ Now(q) = [q EXCEPT !.exact = Now(q).exact]
                        /\ Now(q).id = q.id /\ Now(q).at = q.at
                        /\ Now(q).release = q.release /\ Now(q).series = q.series
    BY <1>1, <1>2, <1>3, <1>4
  <2>3. \A q, r \in table : q.id = r.id => q = r
    BY DEF CalendarInv, OneRowPerId
  <2> HIDE DEF Now
  <2> QED BY <2>1, <2>2, <2>3
<1>6. CASE ~ \E q \in table : SameEvent(e, q)
  <2>1. Upserted(e) = table \cup {e} /\ \A q \in table : q.id # e.id
    BY <1>6 DEF Upserted, Clash
  <2>2. \A q, r \in table : q.id = r.id => q = r
    BY DEF CalendarInv, OneRowPerId
  <2> QED BY <1>1, <1>4, <2>1, <2>2
<1> QED BY <1>5, <1>6

LEMMA CalendarStep == CalendarInv /\ [CalendarNext]_calendarVars => CalendarInv'
<1> SUFFICES ASSUME CalendarInv, [CalendarNext]_calendarVars PROVE CalendarInv'
  OBVIOUS
<1>1. CASE UNCHANGED <<table, todo>>
  <2>1. /\ schedule' \in [Releases -> SUBSET Days] /\ watched' \in [Releases -> Configs]
        /\ latest' \in [Releases -> SUBSET Days] \cup {Unreadable} /\ running' \in BOOLEAN
        /\ kept' \subseteq [Releases -> SUBSET Days]
    <3>1. CASE Provider
      BY <3>1 DEF Provider, Announce, rawStore, CalendarInv, CalendarTypeOK
    <3>2. CASE Operator
      BY <3>2 DEF Operator, Configure, rawStore, CalendarInv, CalendarTypeOK
    <3>3. CASE Collect
      BY <3>3 DEF Collect, StoreSchedule, StoreErrorPage, CalendarInv, CalendarTypeOK
    <3>4. CASE Job \/ (\E e \in todo : Refused(e)) \/ Killed \/ UNCHANGED calendarVars
      BY <3>4 DEF Job, FailedRun, StartRun, Write, FinishRun, Refused, Killed, rawStore,
                  calendarVars, CalendarInv, CalendarTypeOK
    <3> QED BY <3>1, <3>2, <3>3, <3>4 DEF CalendarNext
  <2>2. CalendarTypeOK'
    BY <1>1, <2>1 DEF CalendarInv, CalendarTypeOK
  <2> QED BY <1>1, <2>2 DEF CalendarInv, OneRowPerId
<1>2. CASE StartRun
  <2>1. /\ latest # Unreadable /\ todo' = Entries(latest, watched) /\ running' = TRUE
        /\ UNCHANGED <<schedule, watched, kept, latest, table>>
    BY <1>2 DEF StartRun, rawStore
  <2>2. \A e \in todo' : e \in Rows /\ OfItsDay(e)
    BY <2>1, EntriesShape
  <2>3. CalendarTypeOK'
    BY <2>1, <2>2 DEF CalendarInv, CalendarTypeOK
  <2> QED BY <2>1, <2>2, <2>3 DEF CalendarInv, OneRowPerId
<1>3. ASSUME NEW e \in todo, Write(e) PROVE CalendarInv'
  <2>1. /\ ~ Clash(e) /\ table' = Upserted(e) /\ todo' = todo \ {e}
        /\ UNCHANGED <<schedule, watched, kept, latest, running>>
    BY <1>3 DEF Write, rawStore
  <2>2. e \in Rows /\ OfItsDay(e)
    BY DEF CalendarInv, CalendarTypeOK
  <2>3. /\ \A r \in table' : r \in Rows /\ OfItsDay(r)
        /\ \A q, r \in table' : q.id = r.id => q = r
    BY <2>1, <2>2, UpsertKeeps
  <2>4. CalendarTypeOK'
    BY <2>1, <2>3 DEF CalendarInv, CalendarTypeOK
  <2> QED BY <2>1, <2>3, <2>4 DEF CalendarInv, OneRowPerId
<1>4. CASE (\E e \in todo : Refused(e)) \/ Killed
  <2>1. todo' = {} /\ running' = FALSE /\ UNCHANGED <<schedule, watched, kept, latest, table>>
    BY <1>4 DEF Refused, Killed, rawStore
  <2>2. CalendarTypeOK'
    BY <2>1 DEF CalendarInv, CalendarTypeOK
  <2> QED BY <2>1, <2>2 DEF CalendarInv, OneRowPerId
<1>5. Provider \/ Operator \/ Collect \/ FailedRun \/ FinishRun \/ UNCHANGED calendarVars
        => UNCHANGED <<table, todo>>
  BY DEF Provider, Announce, Operator, Configure, Collect, StoreSchedule, StoreErrorPage,
         FailedRun, FinishRun, calendarVars
<1> QED BY <1>1, <1>2, <1>3, <1>4, <1>5 DEF CalendarNext, Job

LEMMA CalendarInvariance == CalendarSpec => []CalendarInv
<1>1. CalendarInit => CalendarInv
  <2> SUFFICES ASSUME CalendarInit PROVE CalendarInv
    OBVIOUS
  <2>1. schedule \in [Releases -> SUBSET Days]
    BY DEF CalendarInit
  <2>2. CalendarTypeOK
    BY <2>1 DEF CalendarInit, CalendarTypeOK
  <2> QED BY <2>2 DEF CalendarInit, CalendarInv, OneRowPerId
<1> QED BY <1>1, CalendarStep, PTL DEF CalendarSpec

(* daily.py, _today - a report lists a release once for each series,       *)
(* however its clock was corrected and whenever its date moved.            *)
THEOREM ReportListsOnce == CalendarSpec => []OneLineEach
<1>1. CalendarInv => OneLineEach
  <2> SUFFICES ASSUME CalendarInv, NEW day \in Days, NEW q \in Today(day), NEW r \in Today(day),
                      q.release = r.release, q.series = r.series
               PROVE  q = r
    BY DEF OneLineEach
  <2>1. /\ q \in table /\ OfItsDay(q) /\ q.at \div HoursPerDay = day
        /\ r \in table /\ OfItsDay(r) /\ r.at \div HoursPerDay = day
    BY DEF Today, CalendarInv
  <2>2. HoursPerDay \in Nat \ {0}
    BY CalendarAssumption
  <2>3. ASSUME NEW d \in Nat, NEW h \in 0..(HoursPerDay - 1)
        PROVE  (d * HoursPerDay + h) \div HoursPerDay = d
    <3> DEFINE p == d * HoursPerDay + h
    <3>1. p \in Nat /\ p \div HoursPerDay \in Nat
      BY <2>2
    <3> QED BY <2>2, <2>3
  <2>4. PICK d \in Days, h \in 0..(HoursPerDay - 1) :
          q.id = <<d, q.release, q.series>> /\ q.at = d * HoursPerDay + h
    BY <2>1 DEF OfItsDay
  <2>5. PICK c \in Days, k \in 0..(HoursPerDay - 1) :
          r.id = <<c, r.release, r.series>> /\ r.at = c * HoursPerDay + k
    BY <2>1 DEF OfItsDay
  <2>6. d \in Nat /\ c \in Nat
    BY CalendarAssumption
  <2>7. d = day /\ c = day
    <3>1. (d * HoursPerDay + h) \div HoursPerDay = d
      BY <2>3, <2>6
    <3>2. (c * HoursPerDay + k) \div HoursPerDay = c
      BY <2>3, <2>6
    <3> QED BY <2>1, <2>4, <2>5, <3>1, <3>2
  <2>8. q.id = r.id
    BY <2>4, <2>5, <2>7
  <2> QED BY <2>1, <2>8 DEF CalendarInv, OneRowPerId
<1> QED BY <1>1, CalendarInvariance, PTL

(* calendar.py:144-151 - an upsert corrects a row in place: none is        *)
(* dropped, and none moves to another instant.                             *)
THEOREM StoredRowsStay == CalendarSpec => RowsStay
<1> DEFINE A == \A q \in table : \E r \in table' : r = [q EXCEPT !.exact = r.exact]
<1>1. CalendarInv /\ [CalendarNext]_calendarVars => [A]_calendarVars
  <2> SUFFICES ASSUME CalendarInv, CalendarNext PROVE A
    OBVIOUS
  <2>1. ASSUME NEW e \in todo, Write(e) PROVE A
    <3>1. e \in Rows /\ OfItsDay(e) /\ ~ Clash(e) /\ table' = Upserted(e)
      BY <2>1 DEF CalendarInv, CalendarTypeOK, Write
    <3> QED BY <3>1, UpsertKeeps
  <2>2. CASE table' = table
    <3>1. \A q \in table : q = [q EXCEPT !.exact = q.exact]
      BY DEF CalendarInv, CalendarTypeOK, Rows
    <3> QED BY <2>2, <3>1
  <2> QED BY <2>1, <2>2 DEF CalendarNext, Provider, Announce, Operator, Configure, Collect,
                           StoreSchedule, StoreErrorPage, Job, FailedRun, calendarVars, StartRun, FinishRun, Refused, Killed
<1> QED BY <1>1, CalendarInvariance, PTL DEF CalendarSpec, RowsStay

(* calendar.py:125-131 - once the primary key refuses a row, it refuses it *)
(* for ever: nothing moves the stored row to the corrected hour.           *)
THEOREM RefusedForGood == CalendarSpec => ClashesStay
<1> DEFINE A == \A e \in Rows : OfItsDay(e) /\ Clash(e) => Clash(e)'
<1>1. CalendarInv /\ [CalendarNext]_calendarVars => [A]_calendarVars
  <2> SUFFICES ASSUME CalendarInv, CalendarNext,
                      NEW e \in Rows, OfItsDay(e), Clash(e)
               PROVE  Clash(e)'
    OBVIOUS
  <2>1. CASE table' = table
    BY <2>1 DEF Clash, SameEvent
  <2>2. ASSUME NEW n \in todo, Write(n) PROVE Clash(e)'
    <3>1. n \in Rows /\ OfItsDay(n) /\ ~ Clash(n) /\ table' = Upserted(n)
      BY <2>2 DEF CalendarInv, CalendarTypeOK, Write
    <3>2. PICK q \in table : q.id = e.id
      BY DEF Clash
    <3>3. \A r \in table' : ~ SameEvent(e, r)
      <4> SUFFICES ASSUME NEW r \in table', SameEvent(e, r) PROVE FALSE
        OBVIOUS
      <4>1. OfItsDay(r) /\ r.id = e.id
        BY <3>1, UpsertKeeps, SameEventSameId
      <4>2. CASE \E p \in table : r.at = p.at /\ r.release = p.release /\ r.series = p.series
        BY <4>2 DEF Clash, SameEvent
      <4>3. CASE r = n /\ \A p \in table : p.id # n.id
        BY <3>2, <4>1, <4>3
      <4> QED BY <3>1, <4>2, <4>3, UpsertKeeps
    <3>4. PICK r \in table' : r = [q EXCEPT !.exact = r.exact]
      BY <3>1, UpsertKeeps
    <3>5. r.id = e.id
      BY <3>2, <3>4 DEF CalendarInv, CalendarTypeOK, Rows
    <3> QED BY <3>3, <3>5 DEF Clash, SameEvent
  <2> QED BY <2>1, <2>2 DEF CalendarNext, Provider, Announce, Operator, Configure, Collect,
                           StoreSchedule, StoreErrorPage, Job, FailedRun, calendarVars, StartRun, FinishRun, Refused, Killed
<1> QED BY <1>1, CalendarInvariance, PTL DEF CalendarSpec, ClashesStay
=============================================================================
