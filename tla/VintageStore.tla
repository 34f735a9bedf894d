---------------------------- MODULE VintageStore ----------------------------
(***************************************************************************)
(* From a provider's publications to the observations table: the raw store *)
(* as the normalizer sees it, and Normalizer.run as the short-lived,       *)
(* killable job it is.                                                     *)
(*                                                                         *)
(* The providers are outside the program: Publish is a new figure, Reject  *)
(* and Repair are a change of payload shape the deployed parser refuses    *)
(* (ParseError) and the later parser that reads it.  One collection        *)
(* (Fetch) stores a new payload or drops one whose text it has seen.       *)
(* Normalization reads the set of processed pairs once, then walks the raw *)
(* items oldest first; for each (item, series) it writes the points in one *)
(* transaction and marks the pair in another, and it can die between any   *)
(* two steps.  Collection and normalization are steps of one chain that    *)
(* has the database to itself (the workflow's concurrency group), so they  *)
(* do not overlap here.                                                    *)
(***************************************************************************)
EXTENDS Observations

CONSTANTS
  Sources,      \* source ids, numbered in the order sorted() visits them
  Series,       \* series ids, numbered in the order of config/series.yaml
  Periods,      \* reference periods
  Values,       \* published values; a published gap is one of them
  SourceOf,     \* the source_id of each series
  Archives,     \* sources parsed by alfred_json: every vintage, dated
  Stamped,      \* sources whose payload text carries the day it was asked
  MayReject,    \* series whose parser may refuse a payload
  Fetched,      \* "no vintage of its own": the retrieval time is used
  TicksPerDay,  \* clock instants in a day; ALFRED knows days only
  MaxTime,      \* bound: the last instant
  MaxCrashes    \* bound: how often a normalize run is killed

ASSUME VintageAssumption ==
  /\ Sources \subseteq Nat /\ Series \subseteq Nat
  /\ SourceOf \in [Series -> Sources]
  /\ Archives \subseteq Sources /\ Stamped \subseteq Sources
  /\ MayReject \subseteq Series
  /\ Fetched \notin Nat
  /\ TicksPerDay \in Nat \ {0}
  /\ MaxTime \in Nat /\ MaxCrashes \in Nat

VARIABLES
  now,        \* the clock
  published,  \* external: every figure the providers ever published
  raw,        \* the raw store: stored payloads
  rejected,   \* (item, series) pairs the deployed parsers refuse
  obs,        \* table observations
  marks,      \* table normalize_state
  pc,         \* "idle", or where the running normalize is: "scan", "mark"
  todo,       \* pairs the running normalize has still to visit
  crashes,    \* runs killed so far
  written     \* history: pairs write_points has completed

world == <<now, published>>
store == <<raw, rejected>>
job   == <<pc, todo, crashes>>
vars  == <<now, published, raw, rejected, obs, marks, pc, todo, crashes, written>>

DayStart(t) == t - (t % TicksPerDay)
SeriesIn(src) == {s \in Series : SourceOf[s] = src}

Figure == [series : Series, period : Periods, at : Nat, vintage : Nat, value : Values]
Point  == [series : Series, period : Periods, vintage : Nat \cup {Fetched}, value : Values]
Item   == [source : Sources, at : Nat, stamp : Nat, points : SUBSET Point]
Pair   == [item : Item, series : Series]
Row    == [series : Series, period : Periods, vintage : Nat, value : Values,
           rev : Nat, item : Item]

-----------------------------------------------------------------------------
(* The providers.                                                          *)

Tick ==
  /\ now < MaxTime
  /\ now' = now + 1
  /\ UNCHANGED <<published, store, obs, marks, job, written>>

History(s, p) == {f \in published : f.series = s /\ f.period = p}

(* A provider publishes or restates one figure, at most once a day.        *)
Publish(s, p, v) ==
  /\ \A f \in History(s, p) : f.vintage < DayStart(now)
  /\ NewInformation(History(s, p), [vintage |-> now, value |-> v])
  /\ published' = published \cup
       {[series |-> s, period |-> p, at |-> now, vintage |-> DayStart(now), value |-> v]}
  /\ UNCHANGED <<now, store, obs, marks, job, written>>

(* What a source answers: an archive lists every vintage with its day, any *)
(* other feed the current figure of every period.                          *)
PointsNow(src) ==
  LET figures == {f \in published : SourceOf[f.series] = src}
  IN IF src \in Archives
     THEN {[series |-> f.series, period |-> f.period, vintage |-> f.vintage,
            value |-> f.value] : f \in figures}
     ELSE {[series |-> f.series, period |-> f.period, vintage |-> Fetched,
            value |-> f.value] : f \in {g \in figures : g = Newest(History(g.series, g.period))}}

-----------------------------------------------------------------------------
(* Collection.  put() drops a payload whose text hash the source has       *)
(* produced before; `bad` is the set of series whose parser refuses it.    *)
Response(src) ==
  [source |-> src, at |-> now,
   stamp |-> IF src \in Stamped THEN now ELSE 0, points |-> PointsNow(src)]

Seen_DataOnly(item) ==
  \E i \in raw : i.source = item.source /\ i.points = item.points
Seen(item) ==
  \E i \in raw : i.source = item.source /\ i.stamp = item.stamp /\ i.points = item.points

Fetch(src, bad) ==
  /\ pc = "idle"
  /\ PointsNow(src) # {}
  /\ \A i \in raw : i.source = src => i.at # now
  /\ ~ Seen(Response(src))
  /\ raw' = raw \cup {Response(src)}
  /\ rejected' = rejected \cup {[item |-> Response(src), series |-> s] : s \in bad}
  /\ UNCHANGED <<world, obs, marks, job, written>>

(* A parser that reads the payloads it refused is deployed.                *)
Repair(s) ==
  /\ pc = "idle"
  /\ \E pr \in rejected : pr.series = s
  /\ rejected' = {pr \in rejected : pr.series # s}
  /\ UNCHANGED <<world, raw, obs, marks, job, written>>

-----------------------------------------------------------------------------
(* Normalization.                                                          *)

PairsOf(items) ==
  {pr \in [item : items, series : Series] : SourceOf[pr.series] = pr.item.source}

(* NormalizeState.processed: the (raw_item_id, series_id) rows.            *)
Processed_HighWater ==
  {pr \in PairsOf(raw) : \E m \in marks : m.series = pr.series /\ pr.item.at <= m.item.at}
Processed == marks

StartRun ==
  /\ pc = "idle"
  /\ pc' = "scan"
  /\ todo' = PairsOf(raw) \ Processed
  /\ UNCHANGED <<world, store, obs, marks, crashes, written>>

(* Sources in sorted order, a source's items oldest first, the series that *)
(* share an item in registry order.                                        *)
Precedes_NewestFirst(a, b) ==
  \/ a.item.source < b.item.source
  \/ a.item.source = b.item.source /\ a.item.at > b.item.at
  \/ a.item.source = b.item.source /\ a.item.at = b.item.at /\ a.series <= b.series
Precedes(a, b) ==
  \/ a.item.source < b.item.source
  \/ a.item.source = b.item.source /\ a.item.at < b.item.at
  \/ a.item.source = b.item.source /\ a.item.at = b.item.at /\ a.series <= b.series

IsNext(pr) == pr \in todo /\ \A other \in todo : Precedes(pr, other)

(* The points a parser reads out of an item for one series: a period the   *)
(* publisher reports without figure is one of them, with a gap as value.   *)
Parsed(pr) == {c \in pr.item.points : c.series = pr.series}

(* Vintages filled in by `vintage_at or default_vintage`.                  *)
VintageOf_DayBefore(pr, c) == IF c.vintage = Fetched THEN pr.item.at ELSE c.vintage - 1
VintageOf_RunTime(pr, c) == IF c.vintage = Fetched THEN now ELSE c.vintage
VintageOf(pr, c) == IF c.vintage = Fetched THEN pr.item.at ELSE c.vintage

PointsFor(pr) ==
  {[period |-> c.period, value |-> c.value, vintage |-> VintageOf(pr, c)] :
     c \in Parsed(pr)}

AtPeriod(points, p) == {c \in points : c.period = p}

(* plan_writes, period by period, over the stored rows of the series.      *)
Plan(pr, accepted) ==
  \A p \in Periods :
    IsPlan(RowsOf(obs, pr.series, p), AtPeriod(PointsFor(pr), p), AtPeriod(accepted, p))

RevisionOf_CountFromOne(timeline, c) == ChangesBefore(timeline, c.vintage) + 1
RevisionOf_LessOne(timeline, c) == ChangesBefore(timeline, c.vintage) - 1
RevisionOf(timeline, c) == ChangesBefore(timeline, c.vintage)

NewRow(pr, accepted, c) ==
  [series |-> pr.series, period |-> c.period, vintage |-> c.vintage, value |-> c.value,
   rev |-> RevisionOf(RowsOf(obs, pr.series, c.period) \cup AtPeriod(accepted, c.period), c),
   item |-> pr.item]

(* write_points: one transaction.                                          *)
WritePoints(pr) ==
  /\ pc = "scan"
  /\ IsNext(pr)
  /\ pr \notin rejected
  /\ \E accepted \in SUBSET PointsFor(pr) :
       /\ Plan(pr, accepted)
       /\ obs' = InsertRows(obs, {NewRow(pr, accepted, c) : c \in accepted})
  /\ written' = written \cup {pr}
  /\ pc' = "mark"
  /\ UNCHANGED <<world, store, marks, todo, crashes>>

(* ParseError: recorded in the report, the pair left unmarked, the run     *)
(* goes on.                                                                *)
ParseFailure(pr) ==
  /\ pc = "scan"
  /\ IsNext(pr)
  /\ pr \in rejected
  /\ todo' = todo \ {pr}
  /\ UNCHANGED <<world, store, obs, marks, pc, crashes, written>>

(* mark: the primary key of normalize_state is raw_item_id alone, so the   *)
(* upsert replaces the series another pair of the same item left there.    *)
Marked(pr) == {m \in marks : m.item # pr.item} \cup {pr}

Mark(pr) ==
  /\ pc = "mark"
  /\ IsNext(pr)
  /\ marks' = Marked(pr)
  /\ todo' = todo \ {pr}
  /\ pc' = "scan"
  /\ UNCHANGED <<world, store, obs, crashes, written>>

FinishRun ==
  /\ pc = "scan"
  /\ todo = {}
  /\ pc' = "idle"
  /\ UNCHANGED <<world, store, obs, marks, todo, crashes, written>>

(* The process dies, or a StorageError ends the run: what was committed    *)
(* stays, the rest is forgotten.                                           *)
Crash ==
  /\ pc # "idle"
  /\ crashes < MaxCrashes
  /\ crashes' = crashes + 1
  /\ pc' = "idle"
  /\ todo' = {}
  /\ UNCHANGED <<world, store, obs, marks, written>>

-----------------------------------------------------------------------------
Init ==
  /\ now = 0 /\ published = {}
  /\ raw = {} /\ rejected = {}
  /\ obs = {} /\ marks = {}
  /\ pc = "idle" /\ todo = {} /\ crashes = 0
  /\ written = {}

Provider ==
  \/ Tick
  \/ \E s \in Series, p \in Periods, v \in Values : Publish(s, p, v)

Collect ==
  \/ \E src \in Sources : \E bad \in SUBSET (MayReject \cap SeriesIn(src)) : Fetch(src, bad)
  \/ \E s \in MayReject : Repair(s)

Visit == \E pr \in todo : WritePoints(pr) \/ ParseFailure(pr) \/ Mark(pr)

Normalize == StartRun \/ Visit \/ FinishRun

Next == Provider \/ Collect \/ Normalize \/ Crash

Spec == Init /\ [][Next]_vars

(* The chain is started every day whatever happened the day before, and a  *)
(* run that is not killed reaches its end.                                 *)
FairSpec == Spec /\ WF_vars(Normalize)
=============================================================================
