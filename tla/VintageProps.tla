---------------------------- MODULE VintageProps ----------------------------
(***************************************************************************)
(* What the observations table promises its readers.                       *)
(***************************************************************************)
EXTENDS VintageStore

TypeOK ==
  /\ now \in 0..MaxTime
  /\ published \in SUBSET Figure
  /\ raw \in SUBSET Item
  /\ rejected \in SUBSET Pair
  /\ obs \in SUBSET Row
  /\ marks \in SUBSET Pair
  /\ pc \in {"idle", "scan", "mark"}
  /\ todo \in SUBSET Pair
  /\ crashes \in 0..MaxCrashes
  /\ written \in SUBSET Pair

(* 0005_series_vintage.sql:62-69, 84 - provenance and no look-ahead: every row is  *)
(* a point of the stored item it names, none is dated after the item was   *)
(* retrieved, and no item is dated in the future, whatever was killed,     *)
(* refused, repaired or replayed.                                          *)
Provenance ==
  \A r \in obs :
    /\ r.item \in raw
    /\ \E c \in PointsFor([item |-> r.item, series |-> r.series]) :
          c.period = r.period /\ c.vintage = r.vintage /\ c.value = r.value
    /\ r.vintage <= r.item.at /\ r.item.at <= now

(* Every point the normalizer has read of one period, uncompressed.        *)
Read(s, p) ==
  UNION {AtPeriod(PointsFor(pr), p) : pr \in {w \in written : w.series = s}}

(* planner.py:52, test_planner.py:3-8 - the skip loses nothing: reading    *)
(* the table as of any instant gives what reading every point ever parsed  *)
(* would give, so a backtest matches history collected live.               *)
Lossless ==
  \A s \in Series, p \in Periods, t \in 0..now :
    LET points == {c \in Read(s, p) : c.vintage <= t}
    IN /\ KnownAt(obs, s, p, t) = {} <=> points = {}
       /\ points # {} => InForce(obs, s, p, t).value = Newest(points).value

(* 0005_series_vintage.sql:70-75 - "every row here is a real first publication or  *)
(* a real revision, and revision_n counts revisions".                      *)
RevisionsCount ==
  \A r \in obs :
    LET timeline == RowsOf(obs, r.series, r.period)
    IN /\ NewInformation(timeline, r)
       /\ r.rev = ChangesBefore(timeline, r.vintage)

(* planner.py:7 - "a row exists for every moment the published value       *)
(* changed": once collecting again would store nothing and every payload   *)
(* has been read, the value in force is the one the provider publishes.    *)
NothingNewMeansCurrent ==
  (/\ \A src \in Sources : PointsNow(src) # {} => Seen(Response(src))
   /\ rejected = {}
   /\ PairsOf(raw) \subseteq written) =>
    \A s \in Series, p \in Periods :
      History(s, p) # {} =>
        /\ KnownAt(obs, s, p, now) # {}
        /\ InForce(obs, s, p, now).value = Newest(History(s, p)).value

(* 0005_series_vintage.sql:157-160 - normalize_state keeps re-parsing proportional *)
(* to new data: when a run comes to its end, every pair it has ever        *)
(* written is a processed pair, so the next run will not parse it again.   *)
CleanRunRemembers ==
  [][pc = "scan" /\ pc' = "idle" /\ todo = {} => written \subseteq marks]_vars

(* alfred_json, parsers.py:221-224, 245 - an archive names only the day of *)
(* a vintage and the row is dated at that day's first instant, so a figure *)
(* published later in the day is knowable some instants early; but no row, *)
(* archived or polled, is knowable before the day its figure came out.     *)
NeverBeforeItsDay ==
  \A r \in obs :
    \E f \in published :
      /\ f.series = r.series /\ f.period = r.period /\ f.value = r.value
      /\ DayStart(f.at) <= r.vintage

(* A parse failure or a crash costs a pair its turn, never its place:      *)
(* every stored payload the deployed parsers can read ends up in the       *)
(* table, once the crashes and repairs are over.                           *)
EventuallyRead == <>[](PairsOf(raw) \ rejected \subseteq written)
-----------------------------------------------------------------------------
(* The table as a BitemporalLog: a series is settled up to the newest item *)
(* written for it, and the view is what as_of answers at every instant.    *)
CONSTANT Unknown

ASSUME UnknownAssumption == Unknown \notin Values

WrittenAt(s) == {0} \cup {pr.item.at : pr \in {w \in written : w.series = s}}

SettledNow == [s \in Series |->
  CHOOSE t \in WrittenAt(s) : \A u \in WrittenAt(s) : u <= t]

ViewNow == [s \in Series |-> [p \in Periods |-> [t \in 0..MaxTime |->
  IF KnownAt(obs, s, p, t) = {} THEN Unknown ELSE InForce(obs, s, p, t).value]]]

Log == INSTANCE BitemporalLog WITH settled <- SettledNow, view <- ViewNow

(* repo.py, as_of; scoring.py:11 - what was knowable at a settled instant  *)
(* stays what it was, through crashes and replays.                         *)
PastIsFinal == Log!Spec
=============================================================================
