---------------------------- MODULE VintageProofs ----------------------------
(***************************************************************************)
(* What the observations table can be trusted for, for every number of     *)
(* sources, series, periods and values, every interleaving of              *)
(* publications, collections, parser changes, runs and crashes.            *)
(*                                                                         *)
(* First type correctness and provenance, which hold of every series.      *)
(* Then the compressed table: where no payload is refused and read late,   *)
(* items are read in the order they were fetched, so every batch lies      *)
(* after what is stored, and the table is the compressed history of what   *)
(* was read.  Reading, revision numbers, currency and the refinement of    *)
(* BitemporalLog follow from that, and so does what the modules that only  *)
(* read the table assume of the batches written to it.                     *)
(*                                                                         *)
(* Last the planner: the loop of plan_writes computes the relation IsPlan  *)
(* that all of this rests on.  What is decided about a point depends on    *)
(* the entries before it, and the loop adds only entries at or after the   *)
(* ones it has decided.                                                    *)
(***************************************************************************)
EXTENDS VintageProps, PlannerLoop, ObservationLemmas

(* Revision numbers are cardinalities, so the sets they count are finite;  *)
(* what a run has still to visit comes from the raw store; and a payload   *)
(* never dates a point after the moment it was fetched.                    *)
Finite ==
  /\ IsFiniteSet(published)
  /\ IsFiniteSet(obs)
  /\ \A i \in raw : IsFiniteSet(i.points)

TodoStored == \A pr \in todo : pr.item \in raw

DatedByNow ==
  /\ \A f \in published : f.vintage <= now
  /\ \A i \in raw :
       /\ i.at <= now
       /\ \A c \in i.points : c.vintage # Fetched => c.vintage <= i.at

IInv == TypeOK /\ Finite /\ TodoStored /\ DatedByNow /\ Provenance

-----------------------------------------------------------------------------
(* The day an instant belongs to starts at or before it.                   *)
LEMMA DayStartBounds ==
  ASSUME NEW t \in Nat
  PROVE  DayStart(t) \in Nat /\ DayStart(t) <= t
BY VintageAssumption DEF DayStart

(* A revision number is a natural number.                                  *)
LEMMA ChangesAreCounted ==
  ASSUME NEW T, IsFiniteSet(T), NEW t
  PROVE  ChangesBefore(T, t) \in Nat
<1>1. IsFiniteSet(Before(T, t))
  BY FS_Subset DEF Before
<1> QED
  BY <1>1, FS_CardinalityType DEF ChangesBefore

(* What a source answers is a finite set of well-formed points, none dated *)
(* in the future.                                                          *)
LEMMA AnswerShape ==
  ASSUME TypeOK, Finite, DatedByNow, NEW src \in Sources
  PROVE  /\ PointsNow(src) \subseteq Point
         /\ IsFiniteSet(PointsNow(src))
         /\ \A c \in PointsNow(src) : c.vintage # Fetched => c.vintage <= now
<1> DEFINE figures == {f \in published : SourceOf[f.series] = src}
           newest  == {g \in figures : g = Newest(History(g.series, g.period))}
           dated   == [f \in figures |->
                         [series |-> f.series, period |-> f.period,
                          vintage |-> f.vintage, value |-> f.value]]
           plain   == [f \in newest |->
                         [series |-> f.series, period |-> f.period,
                          vintage |-> Fetched, value |-> f.value]]
<1>1. IsFiniteSet(figures) /\ IsFiniteSet(newest)
  BY FS_Subset DEF Finite
<1>2. CASE src \in Archives
  <2>1. PointsNow(src) = {dated[f] : f \in figures}
    BY <1>2 DEF PointsNow
  <2>2. IsFiniteSet({dated[f] : f \in figures})
    <3> HIDE DEF figures
    <3>1. dated \in [figures -> {dated[f] : f \in figures}]
      OBVIOUS
    <3> HIDE DEF dated
    <3> QED BY <1>1, <3>1, ImageFinite
  <2>3. \A f \in figures : dated[f] \in Point /\ dated[f].vintage <= now
    BY DEF TypeOK, Figure, Point, DatedByNow
  <2> QED BY <2>1, <2>2, <2>3
<1>3. CASE src \notin Archives
  <2>1. PointsNow(src) = {plain[f] : f \in newest}
    BY <1>3 DEF PointsNow
  <2>2. IsFiniteSet({plain[f] : f \in newest})
    <3> HIDE DEF newest
    <3>1. plain \in [newest -> {plain[f] : f \in newest}]
      OBVIOUS
    <3> HIDE DEF plain
    <3> QED BY <1>1, <3>1, ImageFinite
  <2>3. \A f \in newest : plain[f] \in Point /\ plain[f].vintage = Fetched
    BY DEF TypeOK, Figure, Point
  <2> QED BY <2>1, <2>2, <2>3
<1> QED
  BY <1>2, <1>3

(* What an item says of one series, vintages filled in, is a finite set of *)
(* points dated at or before the item's retrieval.                         *)
LEMMA PointsForShape ==
  ASSUME TypeOK, Finite, DatedByNow, NEW pr \in Pair, pr.item \in raw
  PROVE  /\ IsFiniteSet(PointsFor(pr))
         /\ \A c \in PointsFor(pr) :
              /\ c.period \in Periods /\ c.value \in Values /\ c.vintage \in Nat
              /\ c.vintage <= pr.item.at
<1> DEFINE mine == {d \in pr.item.points : d.series = pr.series}
           fill == [c \in mine |->
                      [period |-> c.period, value |-> c.value,
                       vintage |-> IF c.vintage = Fetched THEN pr.item.at ELSE c.vintage]]
<1>1. PointsFor(pr) = {fill[c] : c \in mine}
  BY DEF PointsFor, Parsed, VintageOf
<1>2. IsFiniteSet({fill[c] : c \in mine})
  <2>1. IsFiniteSet(mine)
    BY FS_Subset DEF Finite
  <2> HIDE DEF mine
  <2>2. fill \in [mine -> {fill[c] : c \in mine}]
    OBVIOUS
  <2> HIDE DEF fill
  <2> QED BY <2>1, <2>2, ImageFinite
<1>3. pr.item \in Item /\ pr.item.at \in Nat /\ pr.item.points \subseteq Point
  BY DEF Pair, Item
<1>4. \A c \in mine : /\ fill[c].period \in Periods /\ fill[c].value \in Values
                      /\ fill[c].vintage \in Nat /\ fill[c].vintage <= pr.item.at
  BY <1>3 DEF Point, DatedByNow
<1> QED
  BY <1>1, <1>2, <1>4

-----------------------------------------------------------------------------
LEMMA InitInv == Init => IInv
BY FS_EmptySet, VintageAssumption
   DEF Init, IInv, TypeOK, Finite, TodoStored, DatedByNow, Provenance

(* The clock only makes "dated by now" easier.                             *)
LEMMA TickInv == IInv /\ Tick => IInv'
<1> SUFFICES ASSUME IInv, Tick PROVE IInv'
  OBVIOUS
<1>1. now \in Nat /\ now' = now + 1 /\ now' \in 0..MaxTime
  BY VintageAssumption DEF IInv, TypeOK, Tick
<1>2. /\ published' = published /\ raw' = raw /\ rejected' = rejected /\ obs' = obs
      /\ marks' = marks /\ pc' = pc /\ todo' = todo /\ crashes' = crashes
      /\ written' = written
  BY DEF Tick, store, job
<1>3. TypeOK'
  BY <1>1, <1>2 DEF IInv, TypeOK
<1>4. Finite' /\ TodoStored'
  BY <1>2 DEF IInv, Finite, TodoStored
<1>5. DatedByNow'
  <2>1. \A f \in published : f.vintage \in Nat
    BY DEF IInv, TypeOK, Figure
  <2>2. \A i \in raw : i.at \in Nat
    BY DEF IInv, TypeOK, Item
  <2> QED BY <1>1, <1>2, <2>1, <2>2 DEF IInv, DatedByNow
<1>6. Provenance'
  <2>1. \A r \in obs : r.item.at \in Nat
    BY DEF IInv, TypeOK, Row, Item
  <2> QED BY <1>1, <1>2, <2>1 DEF IInv, Provenance, PointsFor, Parsed, VintageOf
<1> QED BY <1>3, <1>4, <1>5, <1>6 DEF IInv

(* A publication dates its figure on the current day.                      *)
LEMMA PublishInv ==
  ASSUME IInv, NEW s \in Series, NEW p \in Periods, NEW v \in Values, Publish(s, p, v)
  PROVE  IInv'
<1> DEFINE figure == [series |-> s, period |-> p, at |-> now,
                      vintage |-> DayStart(now), value |-> v]
<1>1. published' = published \cup {figure}
  BY DEF Publish
<1>2. /\ now' = now /\ raw' = raw /\ rejected' = rejected /\ obs' = obs
      /\ marks' = marks /\ pc' = pc /\ todo' = todo /\ crashes' = crashes
      /\ written' = written
  BY DEF Publish, store, job
<1>3. now \in Nat /\ DayStart(now) \in Nat /\ DayStart(now) <= now
  BY DayStartBounds DEF IInv, TypeOK
<1>4. TypeOK'
  <2>1. figure \in Figure
    BY <1>3 DEF Figure
  <2> QED BY <1>1, <1>2, <2>1 DEF IInv, TypeOK
<1>5. Finite' /\ TodoStored'
  <2>1. IsFiniteSet(published')
    BY <1>1, FS_AddElement DEF IInv, Finite
  <2> QED BY <1>2, <2>1 DEF IInv, Finite, TodoStored
<1>6. DatedByNow'
  BY <1>1, <1>2, <1>3 DEF IInv, DatedByNow
<1>7. Provenance'
  BY <1>2 DEF IInv, Provenance, PointsFor, Parsed, VintageOf
<1> QED BY <1>4, <1>5, <1>6, <1>7 DEF IInv

(* A collection stores a finite payload fetched now.                       *)
LEMMA FetchInv ==
  ASSUME IInv, NEW src \in Sources,
         NEW bad \in SUBSET (MayReject \cap SeriesIn(src)), Fetch(src, bad)
  PROVE  IInv'
<1> DEFINE item == Response(src)
<1>1. /\ raw' = raw \cup {item}
      /\ rejected' = rejected \cup {[item |-> item, series |-> s] : s \in bad}
  BY DEF Fetch
<1>2. /\ now' = now /\ published' = published /\ obs' = obs /\ marks' = marks
      /\ pc' = pc /\ todo' = todo /\ crashes' = crashes /\ written' = written
  BY DEF Fetch, world, job
<1>3. /\ PointsNow(src) \subseteq Point /\ IsFiniteSet(PointsNow(src))
      /\ \A c \in PointsNow(src) : c.vintage # Fetched => c.vintage <= now
  BY AnswerShape DEF IInv
<1>4. /\ item \in Item /\ item.at = now /\ item.points = PointsNow(src)
  BY <1>3 DEF Response, Item, IInv, TypeOK
<1>5. TypeOK'
  <2>1. \A s \in bad : [item |-> item, series |-> s] \in Pair
    BY <1>4 DEF Pair, SeriesIn
  <2> QED BY <1>1, <1>2, <1>4, <2>1 DEF IInv, TypeOK
<1>6. Finite' /\ TodoStored'
  BY <1>1, <1>2, <1>3, <1>4 DEF IInv, Finite, TodoStored
<1>7. DatedByNow'
  <2>1. now \in Nat
    BY DEF IInv, TypeOK
  <2> QED BY <1>1, <1>2, <1>3, <1>4, <2>1 DEF IInv, DatedByNow
<1>8. Provenance'
  BY <1>1, <1>2 DEF IInv, Provenance, PointsFor, Parsed, VintageOf
<1> QED BY <1>5, <1>6, <1>7, <1>8 DEF IInv

(* The rows of one written pair: each a point of an item in the store.     *)
LEMMA WritePointsInv ==
  ASSUME IInv, NEW pr \in todo, WritePoints(pr)
  PROVE  IInv'
<1>1. PICK accepted \in SUBSET PointsFor(pr) :
        obs' = InsertRows(obs, {NewRow(pr, accepted, c) : c \in accepted})
  BY DEF WritePoints
<1>2. /\ now' = now /\ published' = published /\ raw' = raw /\ rejected' = rejected
      /\ marks' = marks /\ pc' = "mark" /\ todo' = todo /\ crashes' = crashes
      /\ written' = written \cup {pr}
  BY DEF WritePoints, world, store
<1>3. pr \in Pair /\ pr.item \in raw /\ pr.item \in Item /\ pr.item.at \in Nat /\ pr.series \in Series
  BY DEF IInv, TypeOK, TodoStored, Pair, Item
<1>4. /\ IsFiniteSet(PointsFor(pr))
      /\ \A c \in PointsFor(pr) :
           /\ c.period \in Periods /\ c.value \in Values /\ c.vintage \in Nat
           /\ c.vintage <= pr.item.at
  BY <1>3, PointsForShape DEF IInv
<1>5. IsFiniteSet(accepted)
  BY <1>4, FS_Subset
<1> DEFINE new == [c \in accepted |-> NewRow(pr, accepted, c)]
<1>6. \A r \in obs' : r \in obs \/ \E c \in accepted : r = NewRow(pr, accepted, c)
  BY <1>1 DEF InsertRows
<1>7. \A c \in accepted : NewRow(pr, accepted, c) \in Row
  <2> SUFFICES ASSUME NEW c \in accepted PROVE NewRow(pr, accepted, c) \in Row
    OBVIOUS
  <2>1. IsFiniteSet(RowsOf(obs, pr.series, c.period))
    BY FS_Subset DEF IInv, Finite, RowsOf
  <2>2. IsFiniteSet(AtPeriod(accepted, c.period))
    BY <1>5, FS_Subset DEF AtPeriod
  <2>3. IsFiniteSet(RowsOf(obs, pr.series, c.period) \cup AtPeriod(accepted, c.period))
    BY <2>1, <2>2, FS_Union
  <2>4. ChangesBefore(RowsOf(obs, pr.series, c.period) \cup AtPeriod(accepted, c.period),
                      c.vintage) \in Nat
    BY <2>3, ChangesAreCounted
  <2>5. c.period \in Periods /\ c.value \in Values /\ c.vintage \in Nat
    BY <1>4
  <2> QED BY <1>3, <2>4, <2>5 DEF NewRow, RevisionOf, Row
<1>8. TypeOK'
  <2>1. obs' \subseteq Row
    BY <1>6, <1>7 DEF IInv, TypeOK
  <2> QED BY <1>2, <1>3, <2>1 DEF IInv, TypeOK
<1>9. Finite' /\ TodoStored'
  <2>1. IsFiniteSet({new[c] : c \in accepted})
    <3>1. new \in [accepted -> {new[c] : c \in accepted}]
      OBVIOUS
    <3> HIDE DEF new
    <3> QED BY <1>5, <3>1, ImageFinite
  <2>2. {new[c] : c \in accepted} = {NewRow(pr, accepted, c) : c \in accepted}
    OBVIOUS
  <2>3. obs' \subseteq obs \cup {new[c] : c \in accepted}
    BY <1>6, <2>2
  <2>4. IsFiniteSet(obs \cup {new[c] : c \in accepted})
    BY <2>1, FS_Union DEF IInv, Finite
  <2>5. IsFiniteSet(obs')
    BY <2>3, <2>4, FS_Subset
  <2> QED BY <1>2, <2>5 DEF IInv, Finite, TodoStored
<1>10. DatedByNow'
  BY <1>2 DEF IInv, DatedByNow
<1>11. Provenance'
  <2>1. \A i : PointsFor(i)' = PointsFor(i)
    BY DEF PointsFor, Parsed, VintageOf
  <2>2. pr.item.at <= now
    BY <1>3 DEF IInv, DatedByNow
  <2>3. \A c \in accepted :
          LET r == NewRow(pr, accepted, c)
          IN /\ r.item = pr.item /\ r.series = pr.series /\ r.period = c.period
             /\ r.vintage = c.vintage /\ r.value = c.value
    BY DEF NewRow, RevisionOf
  <2>4. PointsFor([item |-> pr.item, series |-> pr.series]) = PointsFor(pr)
    BY DEF PointsFor, Parsed, VintageOf
  <2>5. ASSUME NEW r \in obs'
        PROVE  /\ r.item \in raw
               /\ \E c \in PointsFor([item |-> r.item, series |-> r.series]) :
                    c.period = r.period /\ c.vintage = r.vintage /\ c.value = r.value
               /\ r.vintage <= r.item.at /\ r.item.at <= now
    <3>1. CASE r \in obs
      BY <3>1 DEF IInv, Provenance
    <3>2. CASE \E c \in accepted : r = NewRow(pr, accepted, c)
      <4>1. PICK c \in accepted : r = NewRow(pr, accepted, c)
        BY <3>2
      <4>2. c \in PointsFor(pr)
        BY <4>1
      <4>3. /\ r.item = pr.item /\ r.series = pr.series /\ r.period = c.period
            /\ r.vintage = c.vintage /\ r.value = c.value
        BY <2>3, <4>1
      <4>4. r.vintage <= r.item.at
        BY <1>4, <4>2, <4>3
      <4> QED BY <1>3, <2>2, <2>4, <4>2, <4>3, <4>4
    <3> QED BY <1>6, <3>1, <3>2
  <2> QED BY <1>2, <2>1, <2>5 DEF Provenance
<1> QED BY <1>8, <1>9, <1>10, <1>11 DEF IInv

(* The steps that only move the run along: what it reads of the store and  *)
(* of the table stays as it was.                                           *)
LEMMA BookkeepingInv ==
  ASSUME IInv, 
         \/ \E s \in MayReject : Repair(s)
         \/ StartRun \/ FinishRun \/ Crash
         \/ \E pr \in todo : ParseFailure(pr) \/ Mark(pr)
  PROVE  IInv'
<1>1. now' = now /\ published' = published /\ raw' = raw /\ obs' = obs
  BY DEF Repair, StartRun, FinishRun, Crash, ParseFailure, Mark, world, store, job
<1>2. PairsOf(raw) \subseteq Pair /\ \A pr \in PairsOf(raw) : pr.item \in raw
  BY DEF IInv, TypeOK, PairsOf, Pair
<1>3. /\ todo' \subseteq Pair /\ \A pr \in todo' : pr.item \in raw
  BY <1>2 DEF Repair, StartRun, FinishRun, Crash, ParseFailure, Mark, world, store, job,
              IInv, TypeOK, TodoStored
<1>4. rejected' \subseteq Pair /\ marks' \subseteq Pair /\ written' \subseteq Pair
  BY DEF Repair, StartRun, FinishRun, Crash, ParseFailure, Mark, Marked, world, store, job,
         IInv, TypeOK
<1>5. pc' \in {"idle", "scan", "mark"} /\ crashes' \in 0..MaxCrashes
  BY VintageAssumption
     DEF Repair, StartRun, FinishRun, Crash, ParseFailure, Mark, world, store, job,
         IInv, TypeOK
<1>6. TypeOK'
  BY <1>1, <1>3, <1>4, <1>5 DEF IInv, TypeOK
<1>7. Finite' /\ TodoStored' /\ DatedByNow'
  BY <1>1, <1>3 DEF IInv, Finite, TodoStored, DatedByNow
<1>8. Provenance'
  BY <1>1 DEF IInv, Provenance, PointsFor, Parsed, VintageOf
<1> QED BY <1>6, <1>7, <1>8 DEF IInv

LEMMA StepInv == IInv /\ [Next]_vars => IInv'
<1> SUFFICES ASSUME IInv, [Next]_vars PROVE IInv'
  OBVIOUS
<1>1. CASE Tick
  BY <1>1, TickInv
<1>2. CASE \E s \in Series, p \in Periods, v \in Values : Publish(s, p, v)
  BY <1>2, PublishInv
<1>3. CASE \E src \in Sources : \E bad \in SUBSET (MayReject \cap SeriesIn(src)) :
             Fetch(src, bad)
  BY <1>3, FetchInv
<1>4. CASE \E pr \in todo : WritePoints(pr)
  BY <1>4, WritePointsInv
<1>5. CASE \/ \E s \in MayReject : Repair(s)
           \/ StartRun \/ FinishRun \/ Crash
           \/ \E pr \in todo : ParseFailure(pr) \/ Mark(pr)
  BY <1>5, BookkeepingInv
<1>6. CASE UNCHANGED vars
  BY <1>6 DEF vars, IInv, TypeOK, Finite, TodoStored, DatedByNow, Provenance, PointsFor, Parsed, VintageOf
<1> QED
  BY <1>1, <1>2, <1>3, <1>4, <1>5, <1>6 DEF Next, Provider, Collect, Visit, Normalize

(* The inductive invariant holds of every behaviour.                       *)
LEMMA Invariance == Spec => []IInv
BY InitInv, StepInv, PTL DEF Spec

(* Every variable keeps its type: in particular every stored revision      *)
(* number is a natural number and every row names a well-formed item.      *)
THEOREM TypeCorrect == Spec => []TypeOK
<1>1. IInv => TypeOK
  BY DEF IInv
<1> QED BY <1>1, Invariance, PTL

(* 0005_series_vintage.sql:62-69, 84 - for every provider, schedule of crashes,    *)
(* parser repair and replay: a row is a point of the stored item it names, *)
(* and is never dated after that item was retrieved (no look-ahead).       *)
THEOREM ProvenanceHolds == Spec => []Provenance
<1>1. IInv => Provenance
  BY DEF IInv
<1> QED BY <1>1, Invariance, PTL
-----------------------------------------------------------------------------
(* The order of reading.  An item is known by its source and the instant   *)
(* it was fetched; a run visits a source's items oldest first, and of the  *)
(* series no parser ever refuses it leaves nothing behind.                 *)
Keyed == \A i, j \in raw : i.source = j.source /\ i.at = j.at => i = j

Bookkept ==
  /\ todo \subseteq PairsOf(raw)
  /\ written \subseteq PairsOf(raw)
  /\ marks \subseteq written
  /\ \A pr \in rejected : pr.series \in MayReject
  /\ pc = "mark" => \E pr \in written : IsNext(pr)

ReadInOrder ==
  \A s \in Series \ MayReject :
    /\ pc # "idle" =>
         \A i \in raw : SourceOf[s] = i.source =>
           [item |-> i, series |-> s] \in todo \cup written
    /\ \A w \in written, i \in raw :
         w.series = s /\ i.source = w.item.source /\ i.at < w.item.at
           => [item |-> i, series |-> s] \in written

(* The payloads.  A provider publishes a figure once a day; a point comes  *)
(* from a figure published before the item was fetched.  A feed that is    *)
(* not an archive gives one figure for a period, without a date; an        *)
(* archive leaves out what was published later, which is dated later.      *)
Dated(f) ==
  [series |-> f.series, period |-> f.period, vintage |-> f.vintage, value |-> f.value]

OncePerDay ==
  /\ \A f \in published : f.at <= now /\ f.vintage = DayStart(f.at)
  /\ \A f, g \in published :
       f.series = g.series /\ f.period = g.period /\ f.vintage = g.vintage => f = g

FromFigures ==
  \A i \in raw : \A c \in i.points :
    \E f \in published :
      /\ f.series = c.series /\ f.period = c.period /\ f.value = c.value
      /\ f.at <= i.at
      /\ i.source \in Archives => c = Dated(f)

StampedByTheClock == \A i \in raw : i.source \in Stamped => i.stamp = i.at

Feeds ==
  \A i \in raw : i.source \notin Archives =>
    /\ \A c \in i.points : c.vintage = Fetched
    /\ \A c, d \in i.points : c.series = d.series /\ c.period = d.period => c = d

Cumulative ==
  \A i \in raw : i.source \in Archives =>
    \A f \in published : SourceOf[f.series] = i.source =>
      \/ Dated(f) \in i.points
      \/ /\ i.at <= f.at
         /\ \A c \in i.points : c.series = f.series /\ c.period = f.period
              => c.vintage < f.vintage

(* The table.  For a series no parser refuses, the rows of a period are    *)
(* what plan_writes keeps of the points read so far, numbered in order.    *)
TableCompressed ==
  \A s \in Series \ MayReject, p \in Periods :
    /\ Compressed(RowsOf(obs, s, p), Read(s, p))
    /\ \A r \in RowsOf(obs, s, p) : r.rev = ChangesBefore(RowsOf(obs, s, p), r.vintage)

Reading == Keyed /\ Bookkept /\ ReadInOrder
Payloads == OncePerDay /\ FromFigures /\ StampedByTheClock /\ Feeds /\ Cumulative
CInv == IInv /\ Reading /\ Payloads /\ TableCompressed
-----------------------------------------------------------------------------
(* Only the clock, a publication and a collection touch what Payloads is   *)
(* about.                                                                  *)
LEMMA PayloadsTick == IInv /\ Payloads /\ Tick => Payloads'
<1> SUFFICES ASSUME IInv, Payloads, Tick PROVE Payloads'
  OBVIOUS
<1>1. published' = published /\ raw' = raw /\ now' = now + 1 /\ now \in Nat
  BY VintageAssumption DEF Tick, store, IInv, TypeOK
<1>2. \A f \in published : f.at \in Nat
  BY DEF IInv, TypeOK, Figure
<1> QED
  BY <1>1, <1>2 DEF Payloads, OncePerDay, FromFigures, StampedByTheClock, Feeds, Cumulative,
                  Dated, DayStart

LEMMA PayloadsPublish ==
  ASSUME IInv, Payloads, NEW s \in Series, NEW p \in Periods, NEW v \in Values,
         Publish(s, p, v)
  PROVE  Payloads'
<1> DEFINE figure == [series |-> s, period |-> p, at |-> now,
                      vintage |-> DayStart(now), value |-> v]
<1>1. /\ published' = published \cup {figure} /\ now' = now /\ raw' = raw
      /\ \A f \in History(s, p) : f.vintage < DayStart(now)
  BY DEF Publish, store
<1>2. now \in Nat /\ DayStart(now) \in Nat
  BY DayStartBounds DEF IInv, TypeOK
<1>3. OncePerDay'
  <2>1. \A f \in published' : f.at <= now' /\ f.vintage = DayStart(f.at)'
    BY <1>1, <1>2 DEF Payloads, OncePerDay, DayStart
  <2>2. \A f \in published : f.series = s /\ f.period = p => f.vintage # DayStart(now)
    BY <1>1, <1>2 DEF History
  <2> QED BY <1>1, <2>1, <2>2 DEF Payloads, OncePerDay
<1>4. FromFigures' /\ StampedByTheClock' /\ Feeds'
  BY <1>1 DEF Payloads, FromFigures, StampedByTheClock, Feeds, Dated
<1>5. Cumulative'
  <2> SUFFICES ASSUME NEW i \in raw, i.source \in Archives, SourceOf[s] = i.source
               PROVE  /\ i.at <= now
                      /\ \A c \in i.points : c.series = s /\ c.period = p
                           => c.vintage < DayStart(now)
    BY <1>1 DEF Payloads, Cumulative, Dated
  <2>1. i.at <= now
    BY DEF IInv, DatedByNow
  <2>2. ASSUME NEW c \in i.points, c.series = s, c.period = p
        PROVE  c.vintage < DayStart(now)
    <3>1. PICK f \in published : c = Dated(f) /\ f.series = s /\ f.period = p
      BY <2>2 DEF Payloads, FromFigures
    <3> QED BY <1>1, <3>1 DEF History, Dated
  <2> QED BY <2>1, <2>2
<1> QED BY <1>3, <1>4, <1>5 DEF Payloads

(* What a source answers now is what was published until now.              *)
LEMMA AnswerIsPublished ==
  ASSUME IInv, Payloads, NEW src \in Sources
  PROVE  /\ \A c \in PointsNow(src) : \E f \in published :
              /\ f.series = c.series /\ f.period = c.period /\ f.value = c.value
              /\ f.at <= now /\ SourceOf[f.series] = src
              /\ src \in Archives => c = Dated(f)
              /\ src \notin Archives => c.vintage = Fetched /\ f = Newest(History(f.series, f.period))
         /\ src \in Archives => \A f \in published :
              SourceOf[f.series] = src => Dated(f) \in PointsNow(src)
<1>1. CASE src \in Archives
  <2>1. PointsNow(src) = {Dated(f) : f \in {g \in published : SourceOf[g.series] = src}}
    BY <1>1 DEF PointsNow, Dated
  <2> QED BY <1>1, <2>1 DEF Dated, Payloads, OncePerDay
<1>2. CASE src \notin Archives
  <2>1. \A c \in PointsNow(src) : \E f \in published :
          /\ SourceOf[f.series] = src /\ f = Newest(History(f.series, f.period))
          /\ c = [series |-> f.series, period |-> f.period, vintage |-> Fetched,
                  value |-> f.value]
    BY <1>2 DEF PointsNow
  <2> QED BY <1>2, <2>1 DEF Payloads, OncePerDay
<1> QED BY <1>1, <1>2

LEMMA PayloadsFetch ==
  ASSUME IInv, Payloads, NEW src \in Sources, NEW bad, Fetch(src, bad)
  PROVE  Payloads'
<1> DEFINE item == Response(src)
<1>1. raw' = raw \cup {item} /\ published' = published /\ now' = now
  BY DEF Fetch, world
<1>2. item.source = src /\ item.at = now /\ item.points = PointsNow(src)
  BY DEF Response
<1>3. OncePerDay'
  BY <1>1 DEF Payloads, OncePerDay, DayStart
<1>4. FromFigures'
  <2>1. \A c \in item.points : \E f \in published :
          /\ f.series = c.series /\ f.period = c.period /\ f.value = c.value
          /\ f.at <= item.at
          /\ item.source \in Archives => c = Dated(f)
    BY <1>2, AnswerIsPublished
  <2> QED BY <1>1, <2>1 DEF Payloads, FromFigures, Dated
<1>5. Feeds'
  <2> SUFFICES ASSUME src \notin Archives
               PROVE  /\ \A c \in PointsNow(src) : c.vintage = Fetched
                      /\ \A c, d \in PointsNow(src) :
                           c.series = d.series /\ c.period = d.period => c = d
    BY <1>1, <1>2 DEF Payloads, Feeds
  <2>1. \A c \in PointsNow(src) : \E f \in published :
          /\ f = Newest(History(f.series, f.period))
          /\ c = [series |-> f.series, period |-> f.period, vintage |-> Fetched,
                  value |-> f.value]
    BY DEF PointsNow
  <2> QED BY <2>1
<1>6. Cumulative'
  <2>1. src \in Archives => \A f \in published :
          SourceOf[f.series] = src => Dated(f) \in item.points
    BY <1>2, AnswerIsPublished
  <2> QED BY <1>1, <1>2, <2>1 DEF Payloads, Cumulative, Dated
<1>7. StampedByTheClock'
  BY <1>1 DEF Payloads, StampedByTheClock, Response
<1> QED BY <1>3, <1>4, <1>5, <1>6, <1>7 DEF Payloads

LEMMA PayloadsStep == IInv /\ Payloads /\ [Next]_vars => Payloads'
<1> SUFFICES ASSUME IInv, Payloads, [Next]_vars PROVE Payloads'
  OBVIOUS
<1>1. CASE Tick
  BY <1>1, PayloadsTick
<1>2. CASE \E s \in Series, p \in Periods, v \in Values : Publish(s, p, v)
  BY <1>2, PayloadsPublish
<1>3. CASE \E src \in Sources : \E bad \in SUBSET (MayReject \cap SeriesIn(src)) :
             Fetch(src, bad)
  BY <1>3, PayloadsFetch
<1>4. CASE now' = now /\ published' = published /\ raw' = raw
  BY <1>4 DEF Payloads, OncePerDay, FromFigures, StampedByTheClock, Feeds, Cumulative,
                  Dated, DayStart
<1> QED
  BY <1>1, <1>2, <1>3, <1>4
     DEF Next, vars, Provider, Collect, Normalize, Visit, Repair, StartRun, WritePoints,
         ParseFailure, Mark, FinishRun, Crash, world, store

-----------------------------------------------------------------------------
(* Precedes puts the pairs of the store in one order, so one is next.      *)
LEMMA NextIsUnique ==
  ASSUME IInv, Keyed, NEW a \in PairsOf(raw), NEW b \in PairsOf(raw),
         Precedes(a, b), Precedes(b, a)
  PROVE  a = b
<1>1. /\ a \in [item : raw, series : Series] /\ b \in [item : raw, series : Series]
      /\ a.item \in raw /\ b.item \in raw /\ a.series \in Nat /\ b.series \in Nat
      /\ a.item.source \in Nat /\ b.item.source \in Nat
      /\ a.item.at \in Nat /\ b.item.at \in Nat
  BY VintageAssumption DEF PairsOf, IInv, TypeOK, Item
<1>2. a.item.source = b.item.source /\ a.item.at = b.item.at /\ a.series = b.series
  BY <1>1 DEF Precedes
<1>3. a.item = b.item
  BY <1>1, <1>2 DEF Keyed
<1> QED BY <1>1, <1>2, <1>3

LEMMA ReadingFetch ==
  ASSUME IInv, Reading, NEW src \in Sources,
         NEW bad \in SUBSET (MayReject \cap SeriesIn(src)), Fetch(src, bad)
  PROVE  Reading'
<1> DEFINE item == Response(src)
<1>1. /\ raw' = raw \cup {item} /\ pc = "idle" /\ pc' = pc
      /\ rejected' = rejected \cup {[item |-> item, series |-> s] : s \in bad}
      /\ todo' = todo /\ marks' = marks /\ written' = written
      /\ \A i \in raw : i.source = src => i.at # now
  BY DEF Fetch, job
<1>2. item.source = src /\ item.at = now
  BY DEF Response
<1>3. Keyed'
  BY <1>1, <1>2 DEF Reading, Keyed
<1>4. Bookkept'
  <2>1. PairsOf(raw) \subseteq PairsOf(raw')
    BY <1>1 DEF PairsOf
  <2>2. \A pr \in rejected' : pr.series \in MayReject
    BY <1>1 DEF Reading, Bookkept
  <2> QED BY <1>1, <2>1, <2>2 DEF Reading, Bookkept, PairsOf
<1>5. ReadInOrder'
  <2> SUFFICES ASSUME NEW s \in Series \ MayReject, NEW w \in written, NEW i \in raw',
                      w.series = s, i.source = w.item.source, i.at < w.item.at
               PROVE  [item |-> i, series |-> s] \in written
    BY <1>1 DEF ReadInOrder
  <2>1. w.item \in raw /\ w.item.at \in Nat /\ w.item.at <= now /\ now \in Nat
    BY DEF Reading, Bookkept, PairsOf, IInv, TypeOK, Item, DatedByNow
  <2>2. i \in raw
    BY <1>1, <1>2, <2>1
  <2> QED BY <2>2 DEF Reading, ReadInOrder
<1> QED BY <1>3, <1>4, <1>5 DEF Reading

(* A pair is written when everything before it has been.                   *)
LEMMA ReadingWrite ==
  ASSUME IInv, Reading, NEW pr \in todo, WritePoints(pr)
  PROVE  Reading'
<1>1. /\ raw' = raw /\ rejected' = rejected /\ marks' = marks /\ todo' = todo
      /\ written' = written \cup {pr} /\ pc = "scan" /\ pc' = "mark" /\ IsNext(pr)
  BY DEF WritePoints, store
<1>2. pr \in PairsOf(raw) /\ pr.item \in raw
  BY DEF Reading, Bookkept, PairsOf
<1>3. Keyed'
  BY <1>1 DEF Reading, Keyed
<1>4. Bookkept'
  BY <1>1, <1>2 DEF Reading, Bookkept, PairsOf, IsNext
<1>5. ReadInOrder'
  <2>1. ASSUME NEW i \in raw, pr.series \notin MayReject,
               i.source = pr.item.source, i.at < pr.item.at
        PROVE  [item |-> i, series |-> pr.series] \in written
    <3> DEFINE earlier == [item |-> i, series |-> pr.series]
    <3>1. earlier \in todo \cup written
      BY <1>1, <1>2, <2>1 DEF Reading, ReadInOrder, PairsOf
    <3>2. i.at \in Nat /\ pr.item.at \in Nat /\ pr.item.source \in Nat
      BY <1>2, VintageAssumption DEF IInv, TypeOK, Item
    <3>3. earlier \notin todo
      BY <1>1, <2>1, <3>2 DEF IsNext, Precedes
    <3> QED BY <3>1, <3>3
  <2> QED BY <1>1, <2>1 DEF Reading, ReadInOrder
<1> QED BY <1>3, <1>4, <1>5 DEF Reading

(* The other steps of a run: a pair is marked only when it is written, and *)
(* one that is given up belongs to a series that may be refused.           *)
LEMMA ReadingMark ==
  ASSUME IInv, Reading, NEW pr \in todo, Mark(pr)
  PROVE  Reading'
<1>1. /\ raw' = raw /\ rejected' = rejected /\ marks' = Marked(pr) /\ todo' = todo \ {pr}
      /\ written' = written /\ pc = "mark" /\ pc' = "scan" /\ IsNext(pr)
  BY DEF Mark, store
<1>2. PICK w \in written : IsNext(w)
  BY <1>1 DEF Reading, Bookkept
<1>3. pr \in written
  BY <1>1, <1>2, NextIsUnique DEF Reading, Bookkept, IsNext
<1>4. Bookkept'
  BY <1>1, <1>3 DEF Reading, Bookkept, PairsOf, Marked
<1>5. Keyed' /\ ReadInOrder'
  BY <1>1, <1>3 DEF Reading, Keyed, ReadInOrder
<1> QED BY <1>4, <1>5 DEF Reading

LEMMA ReadingOthers ==
  ASSUME IInv, Reading,
         \/ Tick
         \/ \E s \in Series, p \in Periods, v \in Values : Publish(s, p, v)
         \/ \E s \in MayReject : Repair(s)
         \/ StartRun \/ FinishRun \/ Crash
         \/ \E pr \in todo : ParseFailure(pr)
         \/ UNCHANGED vars
  PROVE  Reading'
<1>1. raw' = raw /\ marks' = marks /\ written' = written /\ rejected' \subseteq rejected
  BY DEF Tick, Publish, Repair, StartRun, FinishRun, Crash, ParseFailure, vars, store
<1>2. Keyed'
  BY <1>1 DEF Reading, Keyed
<1>3. CASE StartRun
  <2>1. todo' = PairsOf(raw) \ marks /\ pc' = "scan"
    BY <1>3 DEF StartRun, Processed
  <2>2. Bookkept'
    BY <1>1, <2>1 DEF Reading, Bookkept, PairsOf
  <2>3. ReadInOrder'
    <3>1. \A s \in Series, i \in raw : SourceOf[s] = i.source =>
            [item |-> i, series |-> s] \in PairsOf(raw)
      BY DEF PairsOf
    <3> QED BY <1>1, <2>1, <3>1 DEF Reading, Bookkept, ReadInOrder
  <2> QED BY <1>2, <2>2, <2>3 DEF Reading
<1>4. CASE \E pr \in todo : ParseFailure(pr)
  <2>1. PICK pr \in todo : ParseFailure(pr)
    BY <1>4
  <2>2. todo' = todo \ {pr} /\ pc' = pc /\ pc = "scan" /\ pr \in rejected
    BY <2>1 DEF ParseFailure
  <2>3. pr.series \in MayReject
    BY <2>2 DEF Reading, Bookkept
  <2>4. Bookkept'
    BY <1>1, <2>2 DEF Reading, Bookkept, PairsOf
  <2>5. ReadInOrder'
    BY <1>1, <2>2, <2>3 DEF Reading, ReadInOrder
  <2> QED BY <1>2, <2>4, <2>5 DEF Reading
<1>5. CASE pc' = "idle" /\ todo' \subseteq todo
  BY <1>1, <1>2, <1>5 DEF Reading, Bookkept, ReadInOrder, PairsOf
<1>6. CASE pc' = pc /\ todo' = todo
  BY <1>1, <1>2, <1>6 DEF Reading, Bookkept, ReadInOrder, PairsOf, IsNext
<1> QED
  BY <1>3, <1>4, <1>5, <1>6 DEF Tick, Publish, Repair, FinishRun, Crash, job, vars

LEMMA ReadingStep == IInv /\ Reading /\ [Next]_vars => Reading'
<1> SUFFICES ASSUME IInv, Reading, [Next]_vars PROVE Reading'
  OBVIOUS
<1> QED
  BY ReadingFetch, ReadingWrite, ReadingMark, ReadingOthers
     DEF Next, Provider, Collect, Normalize, Visit
-----------------------------------------------------------------------------
(* Dates the run can meet.                                                 *)
LEMMA ReadIsDated ==
  ASSUME IInv, Reading, NEW s, NEW p
  PROVE  DatedBy(Read(s, p), now)
<1> SUFFICES ASSUME NEW c \in Read(s, p) PROVE c.vintage \in 0..now
  BY DEF DatedBy
<1>1. PICK w \in written : c \in PointsFor(w)
  BY DEF Read, AtPeriod
<1>2. w \in Pair /\ w.item \in raw
  BY DEF Reading, Bookkept, PairsOf, IInv, TypeOK
<1>3. c.vintage \in Nat /\ c.vintage <= w.item.at
  BY <1>1, <1>2, PointsForShape DEF IInv
<1>4. w.item.at \in Nat /\ w.item.at <= now /\ now \in Nat
  BY <1>2 DEF IInv, TypeOK, Item, DatedByNow
<1> QED BY <1>3, <1>4

(* A point a parser reads out of an item, traced to its figure.            *)
LEMMA PointIsFigure ==
  ASSUME IInv, Payloads, NEW pr \in PairsOf(raw), NEW c \in PointsFor(pr)
  PROVE  /\ pr.item \in raw
         /\ pr.item.source \notin Archives => c.vintage = pr.item.at
         /\ \E f \in published :
              /\ f.series = pr.series /\ f.period = c.period /\ f.value = c.value
              /\ f.at <= pr.item.at
              /\ pr.item.source \in Archives =>
                   Dated(f) \in pr.item.points /\ c.vintage = f.vintage
<1>1. pr.item \in raw
  BY DEF PairsOf
<1>2. PICK d \in pr.item.points :
        /\ d.series = pr.series /\ c.period = d.period /\ c.value = d.value
        /\ c.vintage = IF d.vintage = Fetched THEN pr.item.at ELSE d.vintage
  BY DEF PointsFor, Parsed, VintageOf
<1>3. pr.item.source \notin Archives => d.vintage = Fetched
  BY <1>1 DEF Payloads, Feeds
<1>4. PICK f \in published :
        /\ f.series = d.series /\ f.period = d.period /\ f.value = d.value
        /\ f.at <= pr.item.at
        /\ pr.item.source \in Archives => d = Dated(f)
  BY <1>1 DEF Payloads, FromFigures
<1>5. f.vintage # Fetched
  BY VintageAssumption DEF IInv, TypeOK, Figure
<1> QED BY <1>1, <1>2, <1>3, <1>4, <1>5 DEF Dated

(* A payload dates the points of a period once.                            *)
LEMMA OneVintageEach ==
  ASSUME IInv, Payloads, NEW pr \in PairsOf(raw), NEW p
  PROVE  OneEntryEach(AtPeriod(PointsFor(pr), p))
<1> SUFFICES ASSUME NEW c \in PointsFor(pr), NEW e \in PointsFor(pr),
                    c.period = p, e.period = p, c.vintage = e.vintage
             PROVE c = e
  BY DEF OneEntryEach, AtPeriod
<1>1. pr.item \in raw
  BY DEF PairsOf
<1>2. /\ c = [period |-> c.period, value |-> c.value, vintage |-> c.vintage]
      /\ e = [period |-> e.period, value |-> e.value, vintage |-> e.vintage]
  BY DEF PointsFor
<1>3. CASE pr.item.source \in Archives
  <2>1. PICK f \in published :
          f.series = pr.series /\ f.period = c.period /\ f.value = c.value /\ c.vintage = f.vintage
    BY <1>3, PointIsFigure
  <2>2. PICK g \in published :
          g.series = pr.series /\ g.period = e.period /\ g.value = e.value /\ e.vintage = g.vintage
    BY <1>3, PointIsFigure
  <2>3. f = g
    BY <2>1, <2>2 DEF Payloads, OncePerDay
  <2> QED BY <1>2, <2>1, <2>2, <2>3
<1>4. CASE pr.item.source \notin Archives
  <2>1. PICK d \in pr.item.points :
          d.series = pr.series /\ c.period = d.period /\ c.value = d.value
    BY DEF PointsFor, Parsed
  <2>2. PICK h \in pr.item.points :
          h.series = pr.series /\ e.period = h.period /\ e.value = h.value
    BY DEF PointsFor, Parsed
  <2>3. d = h
    BY <1>1, <1>4, <2>1, <2>2 DEF Payloads, Feeds
  <2> QED BY <1>2, <2>1, <2>2, <2>3
<1> QED BY <1>3, <1>4

(* What is newly read of a period is dated after all that was read of it:  *)
(* a feed by its retrieval; an archive, because what it left out earlier   *)
(* was published later.                                                    *)
LEMMA LaterItemGoesOn ==
  ASSUME IInv, Payloads, NEW w \in PairsOf(raw), NEW pr \in PairsOf(raw),
         w.series = pr.series, w.item.at < pr.item.at,
         NEW p, NEW c \in AtPeriod(PointsFor(pr), p), NEW e \in AtPeriod(PointsFor(w), p)
  PROVE  c \in AtPeriod(PointsFor(w), p) \/ e.vintage < c.vintage
<1>1. /\ c \in PointsFor(pr) /\ c.period = p /\ e \in PointsFor(w) /\ e.period = p
      /\ w.item.source = pr.item.source /\ SourceOf[pr.series] = pr.item.source
      /\ w.item \in raw /\ pr.item \in raw
  BY DEF AtPeriod, PairsOf
<1>2. CASE pr.item.source \in Archives
  <2>1. PICK f \in published :
          /\ f.series = pr.series /\ f.period = c.period /\ f.value = c.value
          /\ c.vintage = f.vintage
    BY <1>1, <1>2, PointIsFigure
  <2>2. PICK g \in published :
          /\ g.series = w.series /\ g.period = e.period
          /\ Dated(g) \in w.item.points /\ e.vintage = g.vintage
    BY <1>1, <1>2, PointIsFigure
  <2>3. CASE Dated(f) \in w.item.points
    <3>1. f.vintage # Fetched
      BY VintageAssumption DEF IInv, TypeOK, Figure
    <3>2. [period |-> f.period, value |-> f.value, vintage |-> f.vintage] \in PointsFor(w)
      BY <2>1, <2>3, <3>1 DEF PointsFor, Parsed, VintageOf, Dated
    <3>3. c = [period |-> c.period, value |-> c.value, vintage |-> c.vintage]
      BY <1>1 DEF PointsFor
    <3> QED BY <1>1, <2>1, <3>2, <3>3 DEF AtPeriod
  <2>4. CASE Dated(f) \notin w.item.points
    <3>1. Dated(g).vintage < f.vintage
      BY <1>1, <1>2, <2>1, <2>2, <2>4 DEF Payloads, Cumulative, Dated
    <3> QED BY <2>1, <2>2, <3>1 DEF Dated
  <2> QED BY <2>3, <2>4
<1>3. CASE pr.item.source \notin Archives
  <2>1. c.vintage = pr.item.at /\ e.vintage = w.item.at
    BY <1>1, <1>3, PointIsFigure
  <2> QED BY <2>1
<1> QED BY <1>2, <1>3

LEMMA BatchGoesOn ==
  ASSUME IInv, Reading, Payloads, NEW pr \in todo, WritePoints(pr),
         pr.series \notin MayReject, NEW p
  PROVE  GoesOn(AtPeriod(PointsFor(pr), p), Read(pr.series, p))
<1>1. pr \in PairsOf(raw) /\ written \subseteq PairsOf(raw) /\ pr.series \in Series
  BY DEF Reading, Bookkept, PairsOf
<1>2. CASE pr \in written
  BY <1>2 DEF GoesOn, Read
<1>3. CASE pr \notin written
  <2>1. ASSUME NEW w \in written, w.series = pr.series
        PROVE  w.item.at < pr.item.at
    <3>1. /\ w.item \in raw /\ pr.item \in raw /\ w.item.source = pr.item.source
          /\ w = [item |-> w.item, series |-> w.series]
          /\ pr = [item |-> pr.item, series |-> pr.series]
      BY <1>1, <2>1 DEF PairsOf
    <3>2. w.item.at \in Nat /\ pr.item.at \in Nat
      BY <3>1 DEF IInv, TypeOK, Item
    <3>3. w.item.at # pr.item.at
      BY <1>3, <2>1, <3>1 DEF Reading, Keyed
    <3>4. ~ (pr.item.at < w.item.at)
      BY <1>1, <1>3, <2>1, <3>1 DEF Reading, ReadInOrder
    <3> QED BY <3>2, <3>3, <3>4
  <2>2. ASSUME NEW c \in AtPeriod(PointsFor(pr), p), c \notin Read(pr.series, p),
               NEW e \in Read(pr.series, p)
        PROVE  e.vintage < c.vintage
    <3>1. PICK w \in written : w.series = pr.series /\ e \in AtPeriod(PointsFor(w), p)
      BY DEF Read
    <3>2. c \notin AtPeriod(PointsFor(w), p)
      BY <2>2, <3>1 DEF Read
    <3> QED BY <1>1, <2>1, <3>1, <3>2, LaterItemGoesOn
  <2> QED BY <2>2 DEF GoesOn
<1> QED BY <1>2, <1>3

-----------------------------------------------------------------------------
(* The rows N one transaction adds to a period are what the plan accepted. *)
LEMMA PeriodGrows ==
  ASSUME IInv, Reading, Payloads, NEW pr \in todo, NEW p \in Periods,
         NEW accepted \in SUBSET PointsFor(pr), Plan(pr, accepted),
         obs' = InsertRows(obs, {NewRow(pr, accepted, c) : c \in accepted})
  PROVE  LET T == RowsOf(obs, pr.series, p)
             P == AtPeriod(PointsFor(pr), p)
             A == AtPeriod(accepted, p)
             N == {NewRow(pr, accepted, c) : c \in A}
         IN /\ RowsOf(obs', pr.series, p) = T \cup N
            /\ IsPlan(T, P, A) /\ A \subseteq P /\ DatedBy(P, now) /\ OneEntryEach(P)
            /\ OneEntryEach(N) /\ SameHistory(N, A)
<1> DEFINE s == pr.series
           T == RowsOf(obs, s, p)
           P == AtPeriod(PointsFor(pr), p)
           A == AtPeriod(accepted, p)
           N == {NewRow(pr, accepted, c) : c \in A}
<1>1. pr \in PairsOf(raw) /\ pr.item \in raw /\ pr \in Pair /\ now \in Nat
  BY DEF Reading, Bookkept, PairsOf, IInv, TypeOK
<1>2. DatedBy(P, now)
  <2>1. \A c \in PointsFor(pr) : c.vintage \in Nat /\ c.vintage <= pr.item.at
    BY <1>1, PointsForShape DEF IInv
  <2>2. pr.item.at \in Nat /\ pr.item.at <= now
    BY <1>1 DEF IInv, TypeOK, Item, DatedByNow
  <2> QED BY <1>1, <2>1, <2>2 DEF DatedBy, AtPeriod
<1>3. OneEntryEach(P) /\ IsPlan(T, P, A) /\ A \subseteq P
  <2>1. OneEntryEach(P)
    BY <1>1, OneVintageEach
  <2>2. IsPlan(T, P, A)
    BY DEF Plan
  <2>3. A \subseteq P
    BY DEF AtPeriod
  <2> QED BY <2>1, <2>2, <2>3
<1>4. \A c : /\ NewRow(pr, accepted, c).series = s
             /\ NewRow(pr, accepted, c).period = c.period
             /\ NewRow(pr, accepted, c).vintage = c.vintage
             /\ NewRow(pr, accepted, c).value = c.value
  BY DEF NewRow
<1>5. OneEntryEach(N) /\ SameHistory(N, A)
  <2>1. OneEntryEach(A)
    BY <1>3 DEF OneEntryEach
  <2> QED BY <1>4, <2>1 DEF OneEntryEach, SameHistory, SameEntry
<1>6. RowsOf(obs', s, p) = T \cup N
  <2>1. \A n \in {NewRow(pr, accepted, c) : c \in accepted} :
          n.series = s /\ n.period = p => n \in N
    BY <1>4 DEF AtPeriod
  <2>2. \A n \in N : n.series = s /\ n.period = p
    BY <1>4 DEF AtPeriod
  <2>3. ASSUME NEW n \in N PROVE \A r \in obs : ~ SameKey(r, n)
    <3>1. \A r \in T : r.vintage # n.vintage
      BY <1>4, <1>3 DEF IsPlan, Candidates
    <3> QED BY <2>2, <3>1 DEF SameKey, RowsOf
  <2>4. N \subseteq {NewRow(pr, accepted, c) : c \in accepted}
    BY DEF AtPeriod
  <2> HIDE DEF N
  <2> QED BY <2>1, <2>2, <2>3, <2>4 DEF InsertRows, RowsOf
<1> QED BY <1>2, <1>3, <1>5, <1>6

-----------------------------------------------------------------------------
(* What one transaction does to one period: to its rows, N, and to what    *)
(* has been read of it.                                                    *)
LEMMA OnePeriodWritten ==
  ASSUME IInv, Reading, Payloads, TableCompressed,
         NEW pr \in todo, WritePoints(pr), pr.series \notin MayReject, NEW p \in Periods,
         NEW accepted \in SUBSET PointsFor(pr), Plan(pr, accepted),
         obs' = InsertRows(obs, {NewRow(pr, accepted, c) : c \in accepted})
  PROVE  LET s == pr.series
             T == RowsOf(obs, s, p)
             P == AtPeriod(PointsFor(pr), p)
             A == AtPeriod(accepted, p)
             N == {NewRow(pr, accepted, c) : c \in A}
         IN /\ RowsOf(obs, s, p)' = T \cup N /\ Read(s, p)' = Read(s, p) \cup P
            /\ A \subseteq P
            /\ \A c \in A, e \in Read(s, p) : e.vintage < c.vintage
            /\ Compressed(T \cup N, Read(s, p) \cup P)
            /\ \A r \in T \cup N : r.rev = ChangesBefore(T \cup N, r.vintage)
<1> DEFINE s == pr.series
           T == RowsOf(obs, s, p)
           R == Read(s, p)
           P == AtPeriod(PointsFor(pr), p)
           A == AtPeriod(accepted, p)
           N == {NewRow(pr, accepted, c) : c \in A}
<1>1. /\ pr \in PairsOf(raw) /\ s \in Series /\ pr.item \in raw /\ pr \in Pair
      /\ now \in Nat
  BY DEF Reading, Bookkept, PairsOf, IInv, TypeOK
<1>2. DatedBy(R, now) /\ DatedBy(P, now)
  BY ReadIsDated, PeriodGrows
<1>3. OneEntryEach(P) /\ GoesOn(P, R) /\ Compressed(T, R) /\ IsPlan(T, P, A)
  <2>1. OneEntryEach(P)
    BY PeriodGrows
  <2>2. GoesOn(P, R)
    BY BatchGoesOn
  <2>3. Compressed(T, R)
    BY <1>1 DEF TableCompressed
  <2>4. IsPlan(T, P, A)
    BY DEF Plan
  <2> QED BY <2>1, <2>2, <2>3, <2>4
<1>4. \A c : /\ NewRow(pr, accepted, c).series = s
             /\ NewRow(pr, accepted, c).period = c.period
             /\ NewRow(pr, accepted, c).vintage = c.vintage
             /\ NewRow(pr, accepted, c).value = c.value
             /\ c.period = p => NewRow(pr, accepted, c).rev = ChangesBefore(T \cup A, c.vintage)
  BY DEF NewRow, RevisionOf
<1>5. /\ A \subseteq P /\ DatedBy(T, now)
      /\ \A c \in A, e \in R : e.vintage < c.vintage
      /\ \A c \in A, r \in T : r.vintage < c.vintage
  <2> HIDE DEF T, R, P, A
  <2> QED BY <1>1, <1>2, <1>3, OnlyNewsIsAccepted
<1>6. OneEntryEach(N) /\ SameHistory(N, A)
  BY PeriodGrows
<1>7. RowsOf(obs, s, p)' = T \cup N
  <2>1. RowsOf(obs', s, p) = T \cup N
    BY PeriodGrows
  <2> QED BY <2>1 DEF RowsOf
<1>8. Read(s, p)' = R \cup P
  <2>1. written' = written \cup {pr}
    BY DEF WritePoints
  <2> QED BY <2>1 DEF Read, AtPeriod, PointsFor, Parsed, VintageOf
<1>9. /\ Compressed(T \cup N, R \cup P)
      /\ \A r \in T : Before(T \cup N, r.vintage) = Before(T, r.vintage)
      /\ OneEntryEach(T \cup A) /\ SameHistory(T \cup N, T \cup A)
  <2> HIDE DEF T, R, P, A, N
  <2>1. /\ now \in Nat /\ DatedBy(R, now) /\ DatedBy(P, now) /\ OneEntryEach(P)
        /\ Compressed(T, R) /\ GoesOn(P, R) /\ IsPlan(T, P, A)
        /\ OneEntryEach(N) /\ SameHistory(N, A)
    BY <1>1, <1>2, <1>3, <1>6
  <2>2. /\ Compressed(T \cup N, R \cup P)
        /\ OneEntryEach(T \cup A) /\ SameHistory(T \cup N, T \cup A)
    BY <2>1, PlanKeepsCompressed
  <2>3. ASSUME NEW r \in T PROVE Before(T \cup N, r.vintage) = Before(T, r.vintage)
    <3>1. \A m \in N : r.vintage < m.vintage /\ m.vintage \in Nat
      BY <1>2, <1>5, <2>1 DEF SameHistory, SameEntry, DatedBy
    <3>2. r.vintage \in Nat
      BY <1>5 DEF DatedBy
    <3> QED BY <3>1, <3>2 DEF Before
  <2> QED BY <2>2, <2>3
<1>10. \A r \in T \cup N : r.rev = ChangesBefore(T \cup N, r.vintage)
  <2>1. ASSUME NEW r \in T PROVE r.rev = ChangesBefore(T \cup N, r.vintage)
    <3>1. r.rev = ChangesBefore(T, r.vintage)
      BY <1>1 DEF TableCompressed
    <3>2. Before(T \cup N, r.vintage) = Before(T, r.vintage)
      BY <1>9
    <3> QED BY <3>1, <3>2 DEF ChangesBefore
  <2>2. ASSUME NEW c \in A PROVE ChangesBefore(T \cup A, c.vintage) = ChangesBefore(T \cup N, c.vintage)
    <3>1. IsFiniteSet(T) /\ IsFiniteSet(A)
      <4>1. IsFiniteSet(T)
        BY FS_Subset DEF RowsOf, IInv, Finite
      <4>2. IsFiniteSet(PointsFor(pr)) /\ A \subseteq PointsFor(pr)
        BY <1>1, PointsForShape DEF IInv, AtPeriod
      <4> QED BY <4>1, <4>2, FS_Subset
    <3>2. IsFiniteSet(N)
      <4> DEFINE f == [d \in A |-> NewRow(pr, accepted, d)]
      <4>1. f \in Surjection(A, N)
        BY DEF Surjection
      <4> QED BY <3>1, <4>1, FS_Surjection
    <3>3. IsFiniteSet(T \cup A) /\ IsFiniteSet(T \cup N) /\ OneEntryEach(T \cup N)
      BY <1>9, <3>1, <3>2, FS_Union DEF Compressed
    <3> HIDE DEF T, A, N
    <3> QED BY <1>9, <3>3, NumberedAlike
  <2>3. ASSUME NEW c \in A
        PROVE  NewRow(pr, accepted, c).rev
                 = ChangesBefore(T \cup N, NewRow(pr, accepted, c).vintage)
    BY <1>4, <2>2 DEF AtPeriod
  <2> QED BY <2>1, <2>3
<1> QED BY <1>5, <1>7, <1>8, <1>9, <1>10

LEMMA TableWrite ==
  ASSUME IInv, Reading, Payloads, TableCompressed, NEW pr \in todo, WritePoints(pr)
  PROVE  TableCompressed'
<1>1. PICK accepted \in SUBSET PointsFor(pr) :
        /\ Plan(pr, accepted)
        /\ obs' = InsertRows(obs, {NewRow(pr, accepted, c) : c \in accepted})
  BY DEF WritePoints
<1> SUFFICES ASSUME NEW s \in Series \ MayReject, NEW p \in Periods
             PROVE  /\ Compressed(RowsOf(obs, s, p)', Read(s, p)')
                    /\ \A r \in RowsOf(obs, s, p)' :
                         r.rev = ChangesBefore(RowsOf(obs, s, p)', r.vintage)
  BY DEF TableCompressed, RowsOf, Read, Compressed, OneEntryEach, SameEntry,
         NewInformation, HadPredecessor, ValueBefore, ChangesBefore, Before, Newest
<1>2. CASE s = pr.series
  <2>1. pr.series \notin MayReject
    BY <1>2
  <2>2. /\ Compressed(RowsOf(obs, pr.series, p)', Read(pr.series, p)')
        /\ \A r \in RowsOf(obs, pr.series, p)' :
             r.rev = ChangesBefore(RowsOf(obs, pr.series, p)', r.vintage)
    BY <1>1, <2>1, OnePeriodWritten
  <2> QED BY <1>2, <2>2
<1>3. CASE s # pr.series
  <2>1. \A c : NewRow(pr, accepted, c).series = pr.series
    BY DEF NewRow
  <2>2. RowsOf(obs, s, p)' = RowsOf(obs, s, p)
    BY <1>1, <1>3, <2>1 DEF RowsOf, InsertRows
  <2>3. Read(s, p)' = Read(s, p)
    <3>1. written' = written \cup {pr}
      BY DEF WritePoints
    <3> QED BY <1>3, <3>1 DEF Read, AtPeriod, PointsFor, Parsed, VintageOf
  <2> QED BY <2>2, <2>3 DEF TableCompressed
<1> QED BY <1>2, <1>3

(* No other step touches the rows or what has been read.                   *)
LEMMA TableStep ==
  IInv /\ Reading /\ Payloads /\ TableCompressed /\ [Next]_vars => TableCompressed'
<1> SUFFICES ASSUME IInv, Reading, Payloads, TableCompressed, [Next]_vars
             PROVE  TableCompressed'
  OBVIOUS
<1>1. CASE \E pr \in todo : WritePoints(pr)
  BY <1>1, TableWrite
<1>2. CASE obs' = obs /\ written' = written
  <2>1. \A s, p : RowsOf(obs, s, p)' = RowsOf(obs, s, p) /\ Read(s, p)' = Read(s, p)
    BY <1>2 DEF RowsOf, Read, AtPeriod, PointsFor, Parsed, VintageOf
  <2> QED
    BY <2>1 DEF TableCompressed, Compressed, OneEntryEach, SameEntry,
                NewInformation, HadPredecessor, ValueBefore, ChangesBefore, Before, Newest
<1> QED
  BY <1>1, <1>2
     DEF Next, vars, Provider, Collect, Normalize, Visit, Tick, Publish, Fetch, Repair,
         StartRun, ParseFailure, Mark, FinishRun, Crash

LEMMA CompressedInit == Init => Reading /\ Payloads /\ TableCompressed
<1> SUFFICES ASSUME Init PROVE Reading /\ Payloads /\ TableCompressed
  OBVIOUS
<1>1. Reading
  BY DEF Init, Reading, Keyed, Bookkept, ReadInOrder
<1>2. Payloads
  BY DEF Init, Payloads, OncePerDay, FromFigures, StampedByTheClock, Feeds, Cumulative
<1>3. \A s, p : RowsOf(obs, s, p) = {} /\ Read(s, p) = {}
  BY DEF Init, RowsOf, Read
<1> QED
  BY <1>1, <1>2, <1>3 DEF TableCompressed, Compressed, OneEntryEach

LEMMA CInvariance == Spec => []CInv
<1>1. Init => CInv
  BY InitInv, CompressedInit DEF CInv
<1>2. CInv /\ [Next]_vars => CInv'
  BY StepInv, ReadingStep, PayloadsStep, TableStep DEF CInv
<1> QED BY <1>1, <1>2, PTL DEF Spec

-----------------------------------------------------------------------------
(* planner.py:7, 52 - the table of a series no parser ever refuses is, at  *)
(* every moment of every behaviour, the compressed history of what was     *)
(* read of it: a row for each change and no other, numbered in order,      *)
(* whatever is refused for the series beside it, killed or replayed.       *)
THEOREM TableIsCompressed == Spec => []TableCompressed
<1>1. CInv => TableCompressed
  BY DEF CInv
<1> QED BY <1>1, CInvariance, PTL

(* 0005_series_vintage.sql:70-75 - "every row here is a real first         *)
(* publication or a real revision, and revision_n counts revisions", as    *)
(* long as no payload is refused and read late.                            *)
THEOREM RevisionsAreCounted ==
  ASSUME MayReject = {}
  PROVE  Spec => []RevisionsCount
<1>1. CInv => RevisionsCount
  <2> SUFFICES ASSUME CInv, NEW r \in obs
               PROVE  /\ NewInformation(RowsOf(obs, r.series, r.period), r)
                      /\ r.rev = ChangesBefore(RowsOf(obs, r.series, r.period), r.vintage)
    BY DEF RevisionsCount
  <2>1. r.series \in Series \ MayReject /\ r.period \in Periods
    BY DEF CInv, IInv, TypeOK, Row
  <2>2. r \in RowsOf(obs, r.series, r.period)
    BY DEF RowsOf
  <2> QED BY <2>1, <2>2 DEF CInv, TableCompressed, Compressed
<1> QED BY <1>1, CInvariance, PTL

(* planner.py:52, test_planner.py:3-8 - reading the table as of any        *)
(* instant gives what reading every point ever parsed would give, as long  *)
(* as no payload is refused and read late.                                 *)
THEOREM NothingIsLost ==
  ASSUME MayReject = {}
  PROVE  Spec => []Lossless
<1>1. CInv => Lossless
  <2> SUFFICES ASSUME CInv, NEW s \in Series, NEW p \in Periods, NEW t \in 0..now
               PROVE  LET points == {c \in Read(s, p) : c.vintage <= t}
                      IN /\ KnownAt(obs, s, p, t) = {} <=> points = {}
                         /\ points # {} =>
                              InForce(obs, s, p, t).value = Newest(points).value
    BY DEF Lossless
  <2>1. now \in Nat /\ DatedBy(Read(s, p), now) /\ Compressed(RowsOf(obs, s, p), Read(s, p))
    BY ReadIsDated DEF CInv, IInv, TypeOK, TableCompressed
  <2>2. t \in Nat
    BY <2>1
  <2> QED BY <2>1, <2>2, CompressedLosesNothing DEF KnownAt, InForce
<1> QED BY <1>1, CInvariance, PTL

(* A row of a series no parser refuses, or of any other, comes from a      *)
(* figure published before the row's item was fetched.                     *)
LEMMA RowIsFigure ==
  ASSUME IInv, Payloads, NEW r \in obs
  PROVE  \E f \in published :
           /\ f.series = r.series /\ f.period = r.period /\ f.value = r.value
           /\ r.item.source \in Archives => r.vintage = f.vintage
           /\ r.item.source \notin Archives => r.vintage = r.item.at
           /\ f.at <= r.item.at /\ f.vintage = DayStart(f.at) /\ f.at \in Nat
<1> DEFINE pr == [item |-> r.item, series |-> r.series]
<1>1. PICK c \in PointsFor(pr) :
        c.period = r.period /\ c.vintage = r.vintage /\ c.value = r.value
  BY DEF IInv, Provenance
<1>2. r.item \in raw
  BY DEF IInv, Provenance
<1>3. PICK d \in r.item.points :
        /\ d.series = r.series /\ c.period = d.period /\ c.value = d.value
        /\ c.vintage = IF d.vintage = Fetched THEN r.item.at ELSE d.vintage
  BY <1>1 DEF PointsFor, Parsed, VintageOf
<1>4. PICK f \in published :
        /\ f.series = d.series /\ f.period = d.period /\ f.value = d.value
        /\ f.at <= r.item.at
        /\ r.item.source \in Archives => d = Dated(f)
  BY <1>2, <1>3 DEF Payloads, FromFigures
<1>5. r.item.source \notin Archives => d.vintage = Fetched
  BY <1>2, <1>3 DEF Payloads, Feeds
<1>6. f.vintage \in Nat /\ f.vintage # Fetched /\ f.at \in Nat /\ f.vintage = DayStart(f.at)
  BY VintageAssumption DEF IInv, TypeOK, Figure, Payloads, OncePerDay
<1> QED BY <1>1, <1>3, <1>4, <1>5, <1>6 DEF Dated

(* parsers.py:221-224, 245 - no row is knowable before the day its figure  *)
(* was published on.  Nothing is assumed: a day may have many instants,    *)
(* and within it an archived row may precede its figure.                   *)
THEOREM NoRowBeforeItsDay == Spec => []NeverBeforeItsDay
<1>1. CInv => NeverBeforeItsDay
  <2> SUFFICES ASSUME CInv, NEW r \in obs
               PROVE  \E f \in published :
                        /\ f.series = r.series /\ f.period = r.period /\ f.value = r.value
                        /\ DayStart(f.at) <= r.vintage
    BY DEF NeverBeforeItsDay
  <2>1. PICK f \in published :
          /\ f.series = r.series /\ f.period = r.period /\ f.value = r.value
          /\ r.item.source \in Archives => r.vintage = f.vintage
          /\ r.item.source \notin Archives => r.vintage = r.item.at
          /\ f.at <= r.item.at /\ f.vintage = DayStart(f.at) /\ f.at \in Nat
    BY RowIsFigure DEF CInv
  <2>2. DayStart(f.at) \in Nat /\ DayStart(f.at) <= f.at /\ r.item.at \in Nat
    BY <2>1, DayStartBounds DEF CInv, IInv, TypeOK, Row, Item
  <2> QED BY <2>1, <2>2
<1> QED BY <1>1, CInvariance, PTL

(* planner.py:7 - "a row exists for every moment the published value       *)
(* changed": with nothing left to collect and every payload read, what is  *)
(* in force is what the provider publishes.  A feed whose text carries no  *)
(* date is left out: back at an old value it looks like an old payload.    *)
THEOREM NothingNewIsCurrent ==
  ASSUME MayReject = {}, Sources \subseteq Stamped \cup Archives
  PROVE  Spec => []NothingNewMeansCurrent
<1>1. CInv => NothingNewMeansCurrent
  <2> SUFFICES ASSUME CInv,
                      \A src \in Sources : PointsNow(src) # {} => Seen(Response(src)),
                      PairsOf(raw) \subseteq written,
                      NEW s \in Series, NEW p \in Periods, History(s, p) # {}
               PROVE  /\ KnownAt(obs, s, p, now) # {}
                      /\ InForce(obs, s, p, now).value = Newest(History(s, p)).value
    BY DEF NothingNewMeansCurrent
  <2> DEFINE src == SourceOf[s]
             g == Newest(History(s, p))
  <2>1. src \in Sources /\ now \in Nat
    BY VintageAssumption DEF CInv, IInv, TypeOK
  <2>2. DatedBy(History(s, p), now) /\ \A f \in History(s, p) : f.vintage # Fetched
    BY <2>1, VintageAssumption
       DEF CInv, IInv, TypeOK, Figure, DatedByNow, History, DatedBy
  <2>3. g \in History(s, p)
    BY <2>1, <2>2, Latest
  <2>4. g \in published /\ g.series = s /\ g.period = p
    BY <2>3 DEF History
  <2>5. /\ src \in Archives =>
             \A f \in History(s, p) : Dated(f) \in PointsNow(src)
        /\ src \notin Archives =>
             [series |-> s, period |-> p, vintage |-> Fetched, value |-> g.value]
               \in PointsNow(src)
    BY <2>4 DEF PointsNow, Dated, History
  <2>6. PICK i \in raw : /\ i.source = src /\ i.points = PointsNow(src)
                         /\ i.stamp = IF src \in Stamped THEN now ELSE 0
    BY <2>1, <2>3, <2>5 DEF Seen, Response
  <2> DEFINE pr == [item |-> i, series |-> s]
  <2>7. pr \in written /\ pr \in PairsOf(raw)
    BY <2>6 DEF PairsOf
  <2>8. /\ DatedBy(Read(s, p), now) /\ OneEntryEach(Read(s, p))
        /\ Compressed(RowsOf(obs, s, p), Read(s, p))
    BY ReadIsDated DEF CInv, TableCompressed, Compressed
  <2>9. Read(s, p) # {} /\ Newest(Read(s, p)).value = g.value
    <3>1. CASE src \in Archives
      <4>1. \A f \in History(s, p) :
              [period |-> p, value |-> f.value, vintage |-> f.vintage] \in Read(s, p)
        <5> SUFFICES ASSUME NEW f \in History(s, p)
                     PROVE  [period |-> p, value |-> f.value, vintage |-> f.vintage]
                              \in AtPeriod(PointsFor(pr), p)
          BY <2>7 DEF Read
        <5>1. Dated(f) \in i.points /\ Dated(f).series = s /\ Dated(f).period = p
          BY <2>5, <2>6, <3>1 DEF Dated, History
        <5> QED BY <2>2, <5>1 DEF PointsFor, Parsed, VintageOf, AtPeriod, Dated
      <4>2. \A c \in Read(s, p) : \E f \in History(s, p) : SameEntry(c, f)
        <5> SUFFICES ASSUME NEW w \in written, w.series = s,
                            NEW c \in PointsFor(w), c.period = p
                     PROVE  \E f \in History(s, p) : SameEntry(c, f)
          BY DEF Read, AtPeriod
        <5>1. w \in PairsOf(raw) /\ w.item.source \in Archives
          BY <3>1 DEF CInv, Reading, Bookkept, PairsOf
        <5> QED BY <5>1, PointIsFigure DEF CInv, History, SameEntry
      <4>3. SameHistory(Read(s, p), History(s, p)) /\ Read(s, p) # {}
        BY <4>1, <4>2 DEF SameHistory, SameEntry
      <4> QED BY <2>1, <2>8, <4>3, NewestAlike
    <3>2. CASE src \notin Archives
      <4> DEFINE c == [period |-> p, value |-> g.value, vintage |-> now]
      <4>1. i.at = now
        BY <2>1, <2>6, <3>2 DEF CInv, Payloads, StampedByTheClock
      <4>2. c \in Read(s, p)
        <5>1. c \in AtPeriod(PointsFor(pr), p)
          BY <2>5, <2>6, <3>2, <4>1 DEF PointsFor, Parsed, VintageOf, AtPeriod
        <5> QED BY <2>7, <5>1 DEF Read
      <4>3. \A e \in Read(s, p) : e.vintage <= c.vintage
        BY <2>1, <2>8 DEF DatedBy
      <4>4. Newest(Read(s, p)) = c
        <5> HIDE DEF c
        <5> QED BY <2>1, <2>8, <4>2, <4>3, NewestIsUnique
      <4> QED BY <4>2, <4>4
    <3> QED BY <3>1, <3>2
  <2>10. {c \in Read(s, p) : c.vintage <= now} = Read(s, p)
    BY <2>1, <2>8 DEF DatedBy
  <2> QED BY <2>1, <2>8, <2>9, <2>10, CompressedLosesNothing DEF KnownAt, InForce
<1> QED BY <1>1, CInvariance, PTL

-----------------------------------------------------------------------------
(* The refinement: what as_of answers about a settled instant is final.    *)

(* The mapped state is well-formed: a series is settled up to the newest   *)
(* item written for it, and what is in force is a published value.         *)
MapsToLog ==
  /\ \A s \in Series :
       /\ SettledNow[s] \in WrittenAt(s) /\ SettledNow[s] \in 0..now
       /\ \A u \in WrittenAt(s) : u \in Nat /\ u <= SettledNow[s]
  /\ \A s \in Series, p \in Periods, t \in 0..MaxTime :
       KnownAt(obs, s, p, t) # {} => InForce(obs, s, p, t).value \in Values

LEMMA SettledIsNewest ==
  ASSUME IInv, Reading, NEW s \in Series
  PROVE  /\ SettledNow[s] \in WrittenAt(s) /\ SettledNow[s] \in 0..now
         /\ \A u \in WrittenAt(s) : u \in Nat /\ u <= SettledNow[s]
<1>1. now \in Nat
  BY DEF IInv, TypeOK
<1>2. \A w \in written : w.item \in raw /\ w.item.at \in Nat /\ w.item.at <= now
  BY DEF Reading, Bookkept, PairsOf, IInv, TypeOK, Item, DatedByNow
<1>3. WrittenAt(s) \subseteq 0..now /\ WrittenAt(s) # {}
  BY <1>1, <1>2 DEF WrittenAt
<1>4. \E t \in WrittenAt(s) : \A u \in WrittenAt(s) : u <= t
  BY <1>1, <1>3, GreatestNumber
<1>5. SettledNow[s] = CHOOSE t \in WrittenAt(s) : \A u \in WrittenAt(s) : u <= t
  BY DEF SettledNow
<1> QED BY <1>3, <1>4, <1>5

(* The newest row known at an instant is a row.                            *)
LEMMA InForceIsARow ==
  ASSUME IInv, NEW s, NEW p, NEW t \in Nat, KnownAt(obs, s, p, t) # {}
  PROVE  InForce(obs, s, p, t).value \in Values
<1>1. DatedBy(KnownAt(obs, s, p, t), t) /\ \A r \in KnownAt(obs, s, p, t) : r.value \in Values
  BY DEF KnownAt, RowsOf, IInv, TypeOK, Row, DatedBy
<1> QED BY <1>1, Latest DEF InForce

LEMMA MappedInvariance == Spec => [](CInv /\ MapsToLog)
<1>1. CInv => MapsToLog
  <2>1. \A t \in 0..MaxTime : t \in Nat
    BY VintageAssumption
  <2> QED BY <2>1, SettledIsNewest, InForceIsARow DEF CInv, MapsToLog
<1> QED BY <1>1, CInvariance, PTL

(* What plan_writes adds is dated at or after all that was settled: a feed *)
(* by its retrieval; an archive whose day is one instant, because what an  *)
(* earlier item left out was published when it was fetched or later.       *)
LEMMA NewsIsUnsettled ==
  ASSUME IInv, Reading, Payloads, TicksPerDay = 1 \/ Archives = {},
         NEW pr \in todo, WritePoints(pr), pr.series \notin MayReject, NEW p,
         NEW c \in AtPeriod(PointsFor(pr), p), c \notin Read(pr.series, p)
  PROVE  SettledNow[pr.series] <= c.vintage
<1>1. pr \in PairsOf(raw) /\ written \subseteq PairsOf(raw) /\ pr.series \in Series
  BY DEF Reading, Bookkept, PairsOf
<1>2. c \in PointsFor(pr) /\ c.period = p /\ pr.item \in raw
  BY <1>1 DEF AtPeriod, PairsOf
<1>3. c.vintage \in Nat
  BY <1>2, PointsForShape DEF IInv, TypeOK
<1>4. SUFFICES ASSUME NEW w \in written, w.series = pr.series
               PROVE  w.item.at <= c.vintage
  BY <1>1, <1>3, SettledIsNewest DEF WrittenAt
<1>5. c \notin AtPeriod(PointsFor(w), p)
  BY <1>4 DEF Read
<1>6. /\ w.item \in raw /\ w.item.source = pr.item.source
      /\ SourceOf[pr.series] = pr.item.source
      /\ w = [item |-> w.item, series |-> w.series]
      /\ pr = [item |-> pr.item, series |-> pr.series]
  BY <1>1, <1>4 DEF PairsOf
<1>7. w.item.at \in Nat /\ pr.item.at \in Nat /\ w.item.at < pr.item.at
  <2>1. w.item.at \in Nat /\ pr.item.at \in Nat
    BY <1>2, <1>6 DEF IInv, TypeOK, Item
  <2>2. pr \notin written
    BY <1>2 DEF Read, AtPeriod
  <2>3. w.item.at # pr.item.at
    BY <1>2, <1>4, <1>6, <2>2 DEF Reading, Keyed
  <2>4. ~ (pr.item.at < w.item.at)
    BY <1>1, <1>2, <1>4, <1>6, <2>2 DEF Reading, ReadInOrder
  <2> QED BY <2>1, <2>3, <2>4
<1>8. CASE pr.item.source \in Archives
  <2>1. PICK f \in published :
          /\ f.series = pr.series /\ f.period = c.period /\ f.value = c.value
          /\ c.vintage = f.vintage
    BY <1>1, <1>2, <1>8, PointIsFigure
  <2>2. f.at \in Nat /\ f.vintage = DayStart(f.at) /\ f.vintage # Fetched
    BY VintageAssumption DEF IInv, TypeOK, Figure, Payloads, OncePerDay
  <2>3. f.vintage = f.at
    BY <1>8, <2>2 DEF DayStart
  <2>4. Dated(f) \notin w.item.points
    <3> SUFFICES ASSUME Dated(f) \in w.item.points PROVE FALSE
      OBVIOUS
    <3>1. [period |-> f.period, value |-> f.value, vintage |-> f.vintage] \in PointsFor(w)
      BY <1>4, <2>1, <2>2 DEF PointsFor, Parsed, VintageOf, Dated
    <3>2. c = [period |-> c.period, value |-> c.value, vintage |-> c.vintage]
      BY <1>2 DEF PointsFor
    <3> QED BY <1>2, <1>5, <2>1, <3>1, <3>2 DEF AtPeriod
  <2>5. w.item.at <= f.at
    BY <1>6, <1>8, <2>1, <2>4 DEF Payloads, Cumulative
  <2> QED BY <2>1, <2>3, <2>5
<1>9. CASE pr.item.source \notin Archives
  <2>1. c.vintage = pr.item.at
    BY <1>1, <1>2, <1>9, PointIsFigure
  <2> QED BY <1>7, <2>1
<1> QED BY <1>8, <1>9

(* One transaction settles the series up to its item, and changes nothing  *)
(* that was settled.                                                       *)
LEMMA WriteLearns ==
  ASSUME CInv, MapsToLog, MapsToLog', MayReject = {}, TicksPerDay = 1 \/ Archives = {},
         NEW pr \in todo, WritePoints(pr)
  PROVE  Log!Learn(pr.series)
<1> DEFINE s == pr.series
<1>1. PICK accepted \in SUBSET PointsFor(pr) :
        /\ Plan(pr, accepted)
        /\ obs' = InsertRows(obs, {NewRow(pr, accepted, c) : c \in accepted})
  BY DEF WritePoints
<1>2. now' = now /\ written' = written \cup {pr} /\ s \in Series /\ MaxTime \in Nat
  BY VintageAssumption DEF WritePoints, world, CInv, IInv, TypeOK, Pair
<1>3. SettledNow'[s] \in SettledNow[s]..now
  <2>1. WrittenAt(s)' = WrittenAt(s) \cup {pr.item.at}
    BY <1>2 DEF WrittenAt
  <2> QED BY <1>2, <2>1 DEF MapsToLog
<1>4. SettledNow' = [SettledNow EXCEPT ![s] = SettledNow'[s]]
  <2>1. \A q \in Series \ {s} : WrittenAt(q)' = WrittenAt(q)
    BY <1>2 DEF WrittenAt
  <2>2. \A q \in Series \ {s} : SettledNow'[q] = SettledNow[q]
    BY <2>1 DEF SettledNow
  <2>3. SettledNow = [q \in Series |-> SettledNow[q]] /\ SettledNow' = [q \in Series |-> SettledNow'[q]]
    BY DEF SettledNow
  <2> QED BY <2>2, <2>3
<1>5. \A q \in Series \ {s}, p \in Periods, t \in 0..MaxTime :
        KnownAt(obs, q, p, t)' = KnownAt(obs, q, p, t)
  <2>1. \A c : NewRow(pr, accepted, c).series = s
    BY DEF NewRow
  <2> QED BY <1>1, <2>1 DEF KnownAt, RowsOf, InsertRows
<1>6. ViewNow' = [ViewNow EXCEPT ![s] = ViewNow'[s]]
  <2>1. \A q \in Series \ {s} : ViewNow'[q] = ViewNow[q]
    BY <1>5 DEF ViewNow, InForce
  <2>2. ViewNow = [q \in Series |-> ViewNow[q]] /\ ViewNow' = [q \in Series |-> ViewNow'[q]]
    BY DEF ViewNow
  <2> QED BY <2>1, <2>2
<1>7. ViewNow'[s] \in [Periods -> [0..MaxTime -> Values \cup {Unknown}]]
  BY <1>2 DEF ViewNow, MapsToLog
<1>8. ASSUME NEW p \in Periods, NEW t \in 0..MaxTime
      PROVE  /\ KnownAt(obs, s, p, t) \subseteq KnownAt(obs, s, p, t)'
             /\ t < SettledNow[s] => KnownAt(obs, s, p, t)' = KnownAt(obs, s, p, t)
  <2> DEFINE T == RowsOf(obs, s, p)
             A == AtPeriod(accepted, p)
             N == {NewRow(pr, accepted, c) : c \in A}
  <2>1. /\ RowsOf(obs, s, p)' = T \cup N /\ A \subseteq AtPeriod(PointsFor(pr), p)
        /\ \A c \in A, e \in Read(s, p) : e.vintage < c.vintage
    BY <1>1, OnePeriodWritten DEF CInv
  <2>2. \A c \in A : SettledNow[s] <= c.vintage
    <3> SUFFICES ASSUME NEW c \in A PROVE SettledNow[s] <= c.vintage
      OBVIOUS
    <3>1. c \notin Read(s, p)
      <4>1. DatedBy(Read(s, p), now) /\ now \in Nat
        BY ReadIsDated DEF CInv, IInv, TypeOK
      <4> QED BY <2>1, <4>1 DEF DatedBy
    <3> QED BY <2>1, <3>1, NewsIsUnsettled DEF CInv
  <2>3. \A m \in N : \E c \in A : m.vintage = c.vintage /\ c.vintage \in Nat
    <3>1. \A c : NewRow(pr, accepted, c).vintage = c.vintage
      BY DEF NewRow
    <3>2. \A c \in A : c.vintage \in Nat
      <4>1. pr \in Pair /\ pr.item \in raw
        BY DEF CInv, IInv, TypeOK, TodoStored
      <4> QED BY <4>1, PointsForShape DEF CInv, IInv, AtPeriod
    <3> QED BY <3>1, <3>2
  <2>4. SettledNow[s] \in Nat /\ t \in Nat
    BY <1>2 DEF MapsToLog
  <2>5. t < SettledNow[s] => \A m \in N : ~ (m.vintage <= t)
    BY <2>2, <2>3, <2>4
  <2> HIDE DEF N, A
  <2> QED BY <2>1, <2>5 DEF KnownAt
<1>9. ASSUME NEW p \in Periods, NEW t \in 0..MaxTime
      PROVE  /\ t < SettledNow[s] => ViewNow'[s][p][t] = ViewNow[s][p][t]
             /\ ViewNow[s][p][t] # Unknown => ViewNow'[s][p][t] # Unknown
  <2>1. /\ ViewNow[s][p][t] =
             IF KnownAt(obs, s, p, t) = {} THEN Unknown ELSE InForce(obs, s, p, t).value
        /\ ViewNow'[s][p][t] =
             IF KnownAt(obs, s, p, t)' = {} THEN Unknown ELSE InForce(obs, s, p, t)'.value
    BY <1>2 DEF ViewNow
  <2>2. KnownAt(obs, s, p, t)' # {} => InForce(obs, s, p, t)'.value \in Values
    BY <1>2 DEF MapsToLog
  <2>3. KnownAt(obs, s, p, t)' = KnownAt(obs, s, p, t) =>
          InForce(obs, s, p, t)'.value = InForce(obs, s, p, t).value
    BY DEF InForce
  <2> QED BY <1>8, <2>1, <2>2, <2>3, UnknownAssumption
<1> QED
  BY <1>2, <1>3, <1>4, <1>6, <1>7, <1>9
     DEF Log!Learn, Log!Reading, Log!Instants, Log!Extends

LEMMA StartsAsLog == Init => Log!Init
<1> SUFFICES ASSUME Init PROVE Log!Init
  OBVIOUS
<1>1. \A s : WrittenAt(s) = {0}
  BY DEF Init, WrittenAt
<1>2. \A s, p, t : KnownAt(obs, s, p, t) = {}
  BY DEF Init, KnownAt, RowsOf
<1>3. \A s \in Series : (CHOOSE t \in WrittenAt(s) : \A u \in WrittenAt(s) : u <= t) = 0
  BY <1>1
<1> QED BY <1>2, <1>3 DEF Init, Log!Init, Log!Instants, SettledNow, ViewNow

LEMMA StepsAsLog ==
  ASSUME CInv, MapsToLog, MapsToLog', MayReject = {}, TicksPerDay = 1 \/ Archives = {},
         [Next]_vars
  PROVE  [Log!Next]_<<now, SettledNow, ViewNow>>
<1>1. CASE \E pr \in todo : WritePoints(pr)
  <2>1. PICK pr \in todo : WritePoints(pr)
    BY <1>1
  <2>2. pr.series \in Series
    BY DEF CInv, IInv, TypeOK, Pair
  <2> QED BY <2>1, <2>2, WriteLearns DEF Log!Next
<1>2. CASE obs' = obs /\ written' = written
  <2>1. SettledNow' = SettledNow /\ ViewNow' = ViewNow
    BY <1>2 DEF SettledNow, WrittenAt, ViewNow, KnownAt, InForce, RowsOf
  <2>2. CASE Tick
    <3>1. now' = now + 1 /\ now' \in 0..MaxTime
      BY <2>2, VintageAssumption DEF Tick, CInv, IInv, TypeOK
    <3> QED BY <2>1, <3>1 DEF Log!Next, Log!Tick, Log!Instants
  <2>3. CASE now' = now
    BY <2>1, <2>3
  <2> QED
    BY <2>2, <2>3
       DEF Next, vars, Provider, Collect, Normalize, Visit, Publish, Fetch, Repair,
           StartRun, WritePoints, ParseFailure, Mark, FinishRun, Crash, world
<1> QED
  BY <1>1, <1>2
     DEF Next, vars, Provider, Collect, Normalize, Visit, Tick, Publish, Fetch, Repair,
         StartRun, ParseFailure, Mark, FinishRun, Crash

(* repo.py, as_of; scoring.py:11 - what was knowable at a settled instant  *)
(* stays what it was, through crashes and replays: VintageStore implements *)
(* BitemporalLog, where no payload is refused and read late and a day is   *)
(* one instant or every date is the moment of retrieval.                   *)
THEOREM ThePastIsFinal ==
  ASSUME MayReject = {}, TicksPerDay = 1 \/ Archives = {}
  PROVE  Spec => PastIsFinal
<1>1. Init => Log!Init
  BY StartsAsLog
<1>2. CInv /\ MapsToLog /\ MapsToLog' /\ [Next]_vars
        => [Log!Next]_<<now, SettledNow, ViewNow>>
  BY StepsAsLog
<1> QED
  BY <1>1, <1>2, MappedInvariance, PTL DEF Spec, PastIsFinal, Log!Spec, Log!vars

-----------------------------------------------------------------------------
(* What the readers of the table assume of it.  ForecastJournal and        *)
(* MacroReadings do not repeat the store: their Load adds a FreshBatch     *)
(* dated after what is settled, their LoadLate one of any date.            *)

(* The primary key of observations.                                        *)
OneRowPerKey == \A r, q \in obs : SameKey(r, q) => r = q

(* 0005_series_vintage.sql:70-75 - what a transaction adds is news at its  *)
(* date.                                                                   *)
BatchesAreFresh ==
  [][\A pr \in todo : WritePoints(pr) => FreshBatch(obs, obs' \ obs, 0, pr.item.at)]_vars

(* repo.py, as_of - and its date is not before what was settled of its     *)
(* series, unless the series has a parser that refuses payloads.           *)
BatchesAreRecent ==
  [][\A pr \in todo : WritePoints(pr) /\ pr.series \notin MayReject =>
       FreshBatch(obs, obs' \ obs, SettledNow[pr.series], pr.item.at)]_vars

LEMMA BatchIsFresh ==
  ASSUME IInv, Reading, Payloads, OneRowPerKey, NEW pr \in todo, WritePoints(pr),
         NEW r \in obs' \ obs
  PROVE  /\ r.series = pr.series /\ r.period \in Periods /\ r.vintage \in 0..pr.item.at
         /\ \A q \in RowsOf(obs', pr.series, r.period) : q.vintage = r.vintage => q = r
         /\ NewInformation(RowsOf(obs', pr.series, r.period), r)
<1>1. PICK accepted \in SUBSET PointsFor(pr) :
        /\ Plan(pr, accepted)
        /\ obs' = InsertRows(obs, {NewRow(pr, accepted, c) : c \in accepted})
  BY DEF WritePoints
<1>2. PICK c \in accepted : r = NewRow(pr, accepted, c)
  BY <1>1 DEF InsertRows
<1>3. r.series = pr.series /\ r.period = c.period /\ r.vintage = c.vintage /\ r.value = c.value
  BY <1>2 DEF NewRow
<1>4. pr \in Pair /\ pr.item \in raw /\ pr.item.at \in Nat /\ now \in Nat
  BY DEF IInv, TypeOK, TodoStored, Pair, Item
<1>5. c \in PointsFor(pr) /\ c.period \in Periods /\ c.vintage \in Nat /\ c.vintage <= pr.item.at
  BY <1>4, PointsForShape DEF IInv
<1> DEFINE p == c.period
           T == RowsOf(obs, pr.series, p)
           P == AtPeriod(PointsFor(pr), p)
           A == AtPeriod(accepted, p)
           N == {NewRow(pr, accepted, d) : d \in A}
<1>6. /\ RowsOf(obs', pr.series, p) = T \cup N
      /\ IsPlan(T, P, A) /\ A \subseteq P /\ DatedBy(P, now) /\ OneEntryEach(P)
      /\ OneEntryEach(N) /\ SameHistory(N, A)
  BY <1>1, <1>5, PeriodGrows
<1>7. c \in A /\ r \in N
  BY <1>2 DEF AtPeriod
<1>8. OneEntryEach(T) /\ DatedBy(T, now)
  <2>1. OneEntryEach(T)
    BY DEF OneRowPerKey, SameKey, RowsOf, OneEntryEach
  <2>2. \A q \in obs : q.vintage \in 0..now
    <3>1. ASSUME NEW q \in obs PROVE q.vintage \in 0..now
      <4>1. q.vintage \in Nat /\ q.item.at \in Nat /\ q.vintage <= q.item.at /\ q.item.at <= now
        BY DEF IInv, TypeOK, Row, Item, Provenance
      <4> QED BY <1>4, <4>1
    <3> QED BY <3>1
  <2> QED BY <2>1, <2>2 DEF RowsOf, DatedBy
<1> HIDE DEF T, P, A, N
<1>9. \A q \in T, d \in A : q.vintage # d.vintage
  BY <1>6 DEF IsPlan, Candidates
<1>10. \A q \in T, n \in N : q.vintage # n.vintage
  BY <1>6, <1>9 DEF SameHistory, SameEntry
<1>11. OneEntryEach(T \cup A) /\ DatedBy(T \cup A, now) /\ SameHistory(T \cup A, T \cup N)
  <2>1. OneEntryEach(A)
    BY <1>6 DEF OneEntryEach
  <2>2. OneEntryEach(T \cup A)
    BY <1>8, <1>9, <2>1 DEF OneEntryEach
  <2>3. DatedBy(T \cup A, now)
    BY <1>6, <1>8 DEF DatedBy
  <2>4. SameHistory(T \cup A, T \cup N)
    BY <1>6 DEF SameHistory, SameEntry
  <2> QED BY <2>2, <2>3, <2>4
<1>12. NewInformation(T \cup N, r)
  <2>1. NewInformation(T \cup A, c)
    BY <1>6, <1>7 DEF IsPlan
  <2>2. NewInformation(T \cup N, c)
    BY <1>4, <1>11, <2>1, JudgedAlike
  <2> QED BY <1>3, <2>2 DEF NewInformation, HadPredecessor, ValueBefore
<1>13. \A q \in T \cup N : q.vintage = r.vintage => q = r
  BY <1>6, <1>7, <1>10 DEF OneEntryEach
<1> QED
  BY <1>3, <1>4, <1>5, <1>6, <1>12, <1>13 DEF T

LEMMA KeyInvariance == Spec => [](CInv /\ OneRowPerKey)
<1>1. Init => OneRowPerKey
  BY DEF Init, OneRowPerKey
<1>2. CInv /\ OneRowPerKey /\ [Next]_vars => OneRowPerKey'
  <2> SUFFICES ASSUME CInv, OneRowPerKey, [Next]_vars PROVE OneRowPerKey'
    OBVIOUS
  <2>1. ASSUME NEW pr \in todo, WritePoints(pr) PROVE OneRowPerKey'
    <3> SUFFICES ASSUME NEW r \in obs', NEW q \in obs', SameKey(r, q) PROVE r = q
      BY DEF OneRowPerKey, SameKey
    <3>1. ASSUME NEW n \in obs' \ obs, NEW m \in obs', SameKey(n, m) PROVE n = m
      <4>1. n.series = pr.series
        BY <2>1, BatchIsFresh DEF CInv
      <4>2. m \in RowsOf(obs', pr.series, n.period) /\ m.vintage = n.vintage
        BY <3>1, <4>1 DEF SameKey, RowsOf
      <4> QED BY <2>1, <4>2, BatchIsFresh DEF CInv
    <3>2. SameKey(q, r)
      BY DEF SameKey
    <3>3. CASE r \in obs /\ q \in obs
      BY <3>3 DEF OneRowPerKey
    <3>4. CASE r \notin obs
      BY <3>1, <3>4
    <3>5. CASE q \notin obs
      BY <3>1, <3>2, <3>5
    <3> QED BY <3>3, <3>4, <3>5
  <2>2. CASE obs' = obs
    BY <2>2 DEF OneRowPerKey, SameKey
  <2> QED
    BY <2>1, <2>2
       DEF Next, vars, Provider, Collect, Normalize, Visit, Tick, Publish, Fetch, Repair,
           StartRun, ParseFailure, Mark, FinishRun, Crash
<1> QED BY <1>1, <1>2, CInvariance, PTL DEF Spec

(* 0005_series_vintage.sql:70-75, planner.py:7 - whatever is refused,      *)
(* killed, repaired or replayed, what one transaction adds is news at its  *)
(* date: FreshBatch, which the readers' models assume, is what the store   *)
(* guarantees.                                                             *)
THEOREM WritesAreFresh == Spec => BatchesAreFresh
<1> DEFINE A == \A pr \in todo :
                  WritePoints(pr) => FreshBatch(obs, obs' \ obs, 0, pr.item.at)
<1>1. CInv /\ OneRowPerKey => A
  <2> SUFFICES ASSUME CInv, OneRowPerKey, NEW pr \in todo, WritePoints(pr)
               PROVE  FreshBatch(obs, obs' \ obs, 0, pr.item.at)
    OBVIOUS
  <2>1. obs \cup (obs' \ obs) = obs'
    BY DEF WritePoints, InsertRows
  <2> QED BY <2>1, BatchIsFresh DEF CInv, FreshBatch
<1>2. CInv /\ OneRowPerKey => [A]_vars
  BY <1>1
<1> QED BY <1>2, KeyInvariance, PTL DEF BatchesAreFresh

LEMMA NewRowIsUnsettled ==
  ASSUME CInv, TicksPerDay = 1 \/ Archives = {},
         NEW pr \in todo, WritePoints(pr), pr.series \notin MayReject, NEW r \in obs' \ obs
  PROVE  SettledNow[pr.series] <= r.vintage
<1>1. PICK accepted \in SUBSET PointsFor(pr) :
        /\ Plan(pr, accepted)
        /\ obs' = InsertRows(obs, {NewRow(pr, accepted, c) : c \in accepted})
  BY DEF WritePoints
<1>2. PICK c \in accepted : r = NewRow(pr, accepted, c)
  BY <1>1 DEF InsertRows
<1>3. r.vintage = c.vintage /\ c \in AtPeriod(accepted, c.period)
  BY <1>2 DEF NewRow, AtPeriod
<1>4. c.period \in Periods
  <2>1. pr \in Pair /\ pr.item \in raw
    BY DEF CInv, IInv, TypeOK, TodoStored
  <2> QED BY <2>1, PointsForShape DEF CInv, IInv
<1>5. \A e \in Read(pr.series, c.period) : e.vintage < c.vintage
  BY <1>1, <1>3, <1>4, OnePeriodWritten DEF CInv
<1>6. c \notin Read(pr.series, c.period)
  <2>1. DatedBy(Read(pr.series, c.period), now) /\ now \in Nat
    BY ReadIsDated DEF CInv, IInv, TypeOK
  <2> QED BY <1>5, <2>1 DEF DatedBy
<1> QED BY <1>3, <1>6, NewsIsUnsettled DEF CInv, AtPeriod

(* repo.py, as_of - and it is dated at or after all that is settled of its *)
(* series, where the series has no parser that refuses payloads, and a day *)
(* is one instant or every date is the moment of retrieval.                *)
THEOREM WritesAreRecent ==
  ASSUME TicksPerDay = 1 \/ Archives = {}
  PROVE  Spec => BatchesAreRecent
<1> DEFINE A == \A pr \in todo : WritePoints(pr) /\ pr.series \notin MayReject =>
                  FreshBatch(obs, obs' \ obs, SettledNow[pr.series], pr.item.at)
<1>1. CInv /\ OneRowPerKey => A
  <2> SUFFICES ASSUME CInv, OneRowPerKey, NEW pr \in todo, WritePoints(pr),
                      pr.series \notin MayReject
               PROVE  FreshBatch(obs, obs' \ obs, SettledNow[pr.series], pr.item.at)
    OBVIOUS
  <2>1. obs \cup (obs' \ obs) = obs'
    BY DEF WritePoints, InsertRows
  <2>2. pr.series \in Series /\ SettledNow[pr.series] \in Nat
    <3>1. pr.series \in Series /\ now \in Nat
      BY DEF CInv, IInv, TypeOK, Pair
    <3> QED BY <3>1, SettledIsNewest DEF CInv
  <2>3. ASSUME NEW r \in obs' \ obs PROVE SettledNow[pr.series] <= r.vintage
    BY NewRowIsUnsettled
  <2>4. pr.item.at \in Nat
    BY DEF CInv, IInv, TypeOK, Pair, Item
  <2>5. \A r \in obs' \ obs : r.vintage \in SettledNow[pr.series]..pr.item.at
    BY <2>2, <2>3, <2>4, BatchIsFresh DEF CInv
  <2> QED BY <2>1, <2>5, BatchIsFresh DEF CInv, FreshBatch
<1>2. CInv /\ OneRowPerKey => [A]_vars
  BY <1>1
<1> QED BY <1>2, KeyInvariance, PTL DEF BatchesAreRecent

-----------------------------------------------------------------------------
(* The planner.                                                            *)

(* planner.py:53 - "re-running a backfill must be a no-op": once a plan is *)
(* stored, planning the same batch again accepts nothing.                  *)
THEOREM PlanAgainIsEmpty ==
  ASSUME NEW E, NEW I, NEW A, IsPlan(E, I, A)
  PROVE  IsPlan(E \cup A, I, {})
<1>1. \A c \in Candidates(E \cup A, I) : c \in Candidates(E, I) /\ c \notin A
  BY DEF Candidates
<1>2. (E \cup A) \cup {} = E \cup A
  OBVIOUS
<1> QED
  BY <1>1, <1>2 DEF IsPlan

(* planner.py:7 - a row for every moment the value changed: a plan leaves  *)
(* every row it stores new information, and, when the batch lies after     *)
(* what was stored, does not turn a stored row into a repetition.          *)
THEOREM PlanKeepsRowsChanges ==
  ASSUME NEW E \in SUBSET Vintage, NEW I \in SUBSET Vintage, NEW A, IsPlan(E, I, A),
         \A c \in E : NewInformation(E, c),
         \A r \in E, c \in I : r.vintage < c.vintage
  PROVE  \A c \in E \cup A : NewInformation(E \cup A, c)
<1>1. A \subseteq I
  BY DEF IsPlan, Candidates
<1>2. ASSUME NEW c \in E PROVE NewInformation(E \cup A, c)
  <2>1. c.vintage \in Nat /\ \A e \in A : e.vintage \in Nat /\ c.vintage <= e.vintage
    BY <1>1, <1>2 DEF Vintage
  <2>2. Before(E \cup A, c.vintage) = Before(E, c.vintage)
    BY <2>1, LaterEntriesDoNotPrecede
  <2> QED
    BY <1>2, <2>2, JudgedByThePast
<1> QED
  BY <1>2 DEF IsPlan

-----------------------------------------------------------------------------
(* The loop.  Visited candidates lie before those still queued, so what    *)
(* joins the timeline later cannot change how they were judged.            *)
Visited == Candidates(existing, incoming) \ queue

LoopInv ==
  /\ existing \in SUBSET Vintage /\ incoming \in SUBSET Vintage
  /\ queue \subseteq Candidates(existing, incoming)
  /\ timeline = existing \cup Wrote
  /\ Wrote \subseteq Visited
  /\ \A v \in Visited, c \in queue : v.vintage <= c.vintage
  /\ \A v \in Visited : v \in Wrote <=> NewInformation(timeline, v)
  /\ \A w \in planned :
       /\ w.vintage \in Nat
       /\ \A c \in queue : w.vintage <= c.vintage
       /\ w.rev = ChangesBefore(timeline, w.vintage)
       /\ w.isRevision = HadPredecessor(timeline, w.vintage)

LEMMA LoopBegins == LoopInit => LoopInv
BY DEF LoopInit, LoopInv, Visited, Wrote, Candidates

LEMMA LoopSkips ==
  ASSUME LoopInv, NEW c \in queue, Skip(c)
  PROVE  LoopInv'
<1>1. Candidates(existing, incoming)' = Candidates(existing, incoming)
  BY DEF Skip, Candidates
<1>2. Wrote' = Wrote
  BY DEF Skip, Wrote
<1>3. Visited' = Visited \cup {c}
  BY <1>1 DEF Skip, Visited, LoopInv
<1>4. c \notin Wrote /\ ~ NewInformation(timeline, c)
  BY DEF Skip, LoopInv, Visited
<1> QED
  BY <1>1, <1>2, <1>3, <1>4 DEF LoopInv, Skip, IsFirst

LEMMA LoopAccepts ==
  ASSUME LoopInv, NEW c \in queue, Accept(c)
  PROVE  LoopInv'
<1>1. Candidates(existing, incoming)' = Candidates(existing, incoming)
  BY DEF Accept, Candidates
<1>2. c \in Vintage /\ c = [vintage |-> c.vintage, value |-> c.value]
  BY DEF LoopInv, Candidates, Vintage
<1>3. Wrote' = Wrote \cup {c}
  <2>1. planned' = planned \cup {PlannedWrite(c)}
    BY DEF Accept
  <2>2. [vintage |-> PlannedWrite(c).vintage, value |-> PlannedWrite(c).value] = c
    BY <1>2 DEF PlannedWrite
  <2> QED
    BY <2>1, <2>2 DEF Wrote
<1>4. Visited' = Visited \cup {c}
  BY <1>1 DEF Accept, Visited, LoopInv
<1>5. \A v \in Visited \cup {c} : v \in Vintage /\ v.vintage <= c.vintage
  BY <1>2 DEF LoopInv, Visited, Candidates, Vintage
<1>6. ASSUME NEW t \in Nat, t <= c.vintage
      PROVE  Before(timeline', t) = Before(timeline, t)
  BY <1>2, <1>6, LaterEntriesDoNotPrecede DEF Accept, Vintage
<1>7. \A v \in Visited' : v \in Wrote' <=> NewInformation(timeline', v)
  <2> SUFFICES ASSUME NEW v \in Visited' PROVE v \in Wrote' <=> NewInformation(timeline', v)
    OBVIOUS
  <2>1. Before(timeline', v.vintage) = Before(timeline, v.vintage)
    BY <1>4, <1>5, <1>6 DEF Vintage
  <2>2. NewInformation(timeline', v) <=> NewInformation(timeline, v)
    BY <2>1, JudgedByThePast
  <2>3. CASE v = c
    BY <2>2, <2>3, <1>3 DEF Accept
  <2>4. CASE v # c
    BY <2>2, <2>4, <1>3, <1>4 DEF LoopInv
  <2> QED
    BY <2>3, <2>4
<1>8. \A w \in planned' :
        /\ w.vintage \in Nat
        /\ \A e \in queue' : w.vintage <= e.vintage
        /\ w.rev = ChangesBefore(timeline', w.vintage)
        /\ w.isRevision = HadPredecessor(timeline', w.vintage)
  <2> SUFFICES ASSUME NEW w \in planned'
               PROVE  /\ w.vintage \in Nat
                      /\ \A e \in queue' : w.vintage <= e.vintage
                      /\ w.rev = ChangesBefore(timeline', w.vintage)
                      /\ w.isRevision = HadPredecessor(timeline', w.vintage)
    OBVIOUS
  <2>1. /\ w.vintage \in Nat /\ w.vintage <= c.vintage
        /\ w.rev = ChangesBefore(timeline, w.vintage)
        /\ w.isRevision = HadPredecessor(timeline, w.vintage)
    <3>1. CASE w \in planned
      BY <3>1 DEF LoopInv
    <3>2. CASE w = PlannedWrite(c)
      BY <1>2, <3>2 DEF PlannedWrite, Vintage
    <3> QED
      BY <3>1, <3>2 DEF Accept
  <2>2. Before(timeline', w.vintage) = Before(timeline, w.vintage)
    BY <2>1, <1>6
  <2>3. \A e \in queue' : w.vintage <= e.vintage
    BY <1>2 DEF Accept, LoopInv, IsFirst, PlannedWrite
  <2> QED
    BY <2>1, <2>2, <2>3 DEF ChangesBefore, HadPredecessor
<1>9. timeline' = existing' \cup Wrote'
  BY <1>3 DEF Accept, LoopInv
<1>10. \A v \in Visited', e \in queue' : v.vintage <= e.vintage
  BY <1>4 DEF Accept, LoopInv, IsFirst
<1>11. Wrote' \subseteq Visited'
  BY <1>3, <1>4 DEF LoopInv
<1> QED
  BY <1>1, <1>7, <1>8, <1>9, <1>10, <1>11 DEF LoopInv, Accept

LEMMA LoopInvariant == LoopSpec => []LoopInv
<1>1. ASSUME LoopInv, [LoopNext]_loopVars PROVE LoopInv'
  <2>1. CASE LoopNext
    BY <1>1, <2>1, LoopSkips, LoopAccepts DEF LoopNext
  <2>2. CASE UNCHANGED loopVars
    BY <1>1, <2>2 DEF loopVars, LoopInv, Visited, Wrote, Candidates
  <2> QED
    BY <1>1, <2>1, <2>2
<1> QED
  BY <1>1, LoopBegins, PTL DEF LoopSpec

(* When the queue is empty the invariant is IsPlan.                        *)
LEMMA DoneIsAPlan ==
  ASSUME LoopInv, Done
  PROVE  IsPlan(existing, incoming, Wrote) /\ timeline = Stored
BY DEF LoopInv, Done, Stored, Visited, IsPlan

(* planner.py:41 - whatever was stored and whatever is in the batch, the   *)
(* loop accepts the one set that IsPlan allows and numbers each write by   *)
(* what precedes it in the end.                                            *)
THEOREM LoopComputesThePlan == LoopSpec => []LoopIsThePlan
<1>1. ASSUME LoopInv, Done PROVE LoopIsThePlan
  <2>1. \A a \in SUBSET incoming : IsPlan(existing, incoming, a) <=> a = Wrote
    <3>1. \A c \in incoming : c.vintage \in Nat
      BY <1>1 DEF LoopInv, Vintage
    <3> QED BY <1>1, <3>1, DoneIsAPlan, PlanIsUnique DEF LoopInv
  <2> QED
    BY <1>1, <2>1, DoneIsAPlan DEF LoopIsThePlan, LoopInv
<1>2. LoopInv => LoopIsThePlan
  BY <1>1 DEF LoopIsThePlan
<1> QED
  BY <1>2, LoopInvariant, PTL

(* planner.py:53 - a backfill run again over what it stored is a no-op.    *)
THEOREM LoopIsIdempotent == LoopSpec => []RerunPlansNothing
<1>1. LoopInv => RerunPlansNothing
  BY DoneIsAPlan, PlanAgainIsEmpty DEF RerunPlansNothing, Stored
<1> QED
  BY <1>1, LoopInvariant, PTL

(* planner.py:7 - a poll or a first import leaves a row for every change.  *)
THEOREM LoopKeepsRowsChanges == LoopSpec => []PollKeepsRowsChanges
<1>1. LoopInv => PollKeepsRowsChanges
  BY DoneIsAPlan, PlanKeepsRowsChanges DEF PollKeepsRowsChanges, Stored, LoopInv
<1> QED
  BY <1>1, LoopInvariant, PTL
=============================================================================
