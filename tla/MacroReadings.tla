----------------------------- MODULE MacroReadings -----------------------------
(***************************************************************************)
(* `mios analyze` and the daily report: every dimension is scored from its *)
(* signals as of a cutoff, the asset views are built on those scores, and  *)
(* the report shows what is stored as of an instant.  A report changes     *)
(* nothing: Rendered(t) is what it shows for the instant t.                *)
(*                                                                         *)
(* Analyze keeps its scores in memory and commits them one by one, one row *)
(* per subject and day, the first for ever; a kill or a database error     *)
(* ends it between two rows.  The report then shows what there is.         *)
(*                                                                         *)
(* A reading stands for the figures it was computed from, a view for the   *)
(* scores it was built on.  The report's sections that are not as of an    *)
(* instant (schedule, accuracy, data quality) are left out.  Observations  *)
(* arrive as in ForecastJournal.                                           *)
(***************************************************************************)
EXTENDS Observations, Sequences, SequencesExt

CONSTANTS
  Dimensions, Views,  \* the configured subjects, each a sequence
  SourcesOf,    \* of a dimension its series, of a view its dimensions
  NameOf,       \* what a subject's score_id names: a dimension, a view's asset
  Market,       \* the series of the market tables
  Readable(_, _),  \* whether the figures of a history give a dimension a reading:
                   \* min_history of them, and some spread
  Values, Gap, Periods,
  MayReplay,    \* `mios analyze --as-of` is used on past days
  TicksPerDay,
  MaxBatch, MaxLate, MaxKills, MaxTime  \* bounds

Subjects == Dimensions \o Views
Signals == UNION {SourcesOf[d] : d \in ToSet(Dimensions)}

ASSUME ReadingsAssumption ==
  /\ Dimensions \in Seq(ToSet(Dimensions)) /\ Views \in Seq(ToSet(Views))
  /\ IsInjective(Subjects)
  /\ DOMAIN SourcesOf = ToSet(Subjects)
  /\ \A x \in ToSet(Subjects) : SourcesOf[x] # {}
  /\ \A v \in ToSet(Views) : SourcesOf[v] \subseteq ToSet(Dimensions)
  /\ Periods \subseteq Nat /\ TicksPerDay \in Nat \ {0} /\ MayReplay \in BOOLEAN
  /\ MaxBatch \in Nat /\ MaxLate \in Nat /\ MaxKills \in Nat /\ MaxTime \in Nat

(* As in config/analysis.yaml: no two views are of one asset, and no asset *)
(* is called like a dimension.  The loader refuses a second dimension of a *)
(* name and nothing else.                                                  *)
ASSUME NamesAssumption ==
  \A x, y \in ToSet(Subjects) : NameOf[x] = NameOf[y] => x = y

VARIABLES
  now, obs, settled, late,
  scores,       \* table macro_scores
  cutoff, todo, fresh,  \* a run of analyze: its cutoff, the subjects ahead of
                        \* it and the scores it has computed
  analyzed, cut,  \* history: days whose analysis ended; was cut short
  kills         \* bound

data == <<now, obs, settled, late>>
run  == <<cutoff, todo, fresh>>
vars == <<now, obs, settled, late, scores, cutoff, todo, fresh,
          analyzed, cut, kills>>

Day(t) == t \div TicksPerDay
Idle == todo = <<>>

Row == [series : Signals \cup Market, period : Periods, vintage : 0..MaxTime, value : Values]

-----------------------------------------------------------------------------
Tick ==
  /\ now < MaxTime
  /\ now' = now + 1
  /\ UNCHANGED <<obs, settled, late, scores, run, analyzed, cut, kills>>

(* No two reads of the clock give the same instant.                        *)
Load ==
  /\ Idle /\ settled < now
  /\ \A w \in scores : w.at # now
  /\ \E batch \in Batches(Row, MaxBatch) :
       /\ FreshBatch(obs, batch, settled + 1, now)
       /\ obs' = obs \cup batch
  /\ settled' = now
  /\ UNCHANGED <<now, late, scores, run, analyzed, cut, kills>>

LoadLate ==
  /\ Idle /\ late < MaxLate
  /\ late' = late + 1
  /\ \E r \in Row :
       /\ FreshBatch(obs, {r}, 0, settled)
       /\ obs' = obs \cup {r}
  /\ UNCHANGED <<now, settled, scores, run, analyzed, cut, kills>>

-----------------------------------------------------------------------------
(* features.load, and what is read of it.                                  *)
History(s, t) == {r \in AsOf(obs, s, t) : r.value # Gap}
Figures(rows) == {[period |-> r.period, value |-> r.value] : r \in rows}

(* A signal without a reading is a gap, and so is a dimension without      *)
(* signals.                                                                *)
DimensionSignals(d) ==
  {[source |-> s, reading |-> Figures(History(s, cutoff))] :
     s \in {s \in SourcesOf[d] : Readable(d, Figures(History(s, cutoff)))}}

ViewSignals(v) ==
  {[source |-> w.subject, reading |-> w.signals] :
     w \in {w \in fresh : w.subject \in SourcesOf[v] /\ w.signals # {}}}

ScoreOf(x) ==
  [subject |-> x, at |-> cutoff,
   signals |-> IF x \in ToSet(Dimensions) THEN DimensionSignals(x) ELSE ViewSignals(x)]

(* score_id is the day and the name; a second one is refused.              *)
IdOf(w) == <<NameOf[w.subject], Day(w.at)>>

Saved_Upsert(w) == {u \in scores : IdOf(u) # IdOf(w)} \cup {w}
Saved(w) == IF \E u \in scores : IdOf(u) = IdOf(w) THEN scores ELSE scores \cup {w}

-----------------------------------------------------------------------------
StartAnalyze(t) ==
  /\ Idle
  /\ cutoff' = t /\ todo' = Subjects /\ fresh' = {}
  /\ UNCHANGED <<data, scores, analyzed, cut, kills>>

Rest_StopAtGap(w) == IF w.signals = {} THEN <<>> ELSE Tail(todo)
Rest(w) == Tail(todo)

AnalyzeNext ==
  /\ ~ Idle
  /\ LET w == ScoreOf(Head(todo))
     IN /\ scores' = Saved(w)
        /\ todo' = Rest(w)
        /\ fresh' = IF todo' = <<>> THEN {} ELSE fresh \cup {w}
  /\ analyzed' = IF todo' = <<>> THEN analyzed \cup {Day(cutoff)} ELSE analyzed
  /\ UNCHANGED <<data, cutoff, cut, kills>>

CutShort ==
  /\ ~ Idle /\ kills < MaxKills
  /\ kills' = kills + 1
  /\ todo' = <<>> /\ fresh' = {}
  /\ cut' = cut \cup ({Day(cutoff)} \ analyzed)
  /\ UNCHANGED <<data, scores, cutoff, analyzed>>

-----------------------------------------------------------------------------
(* The reads of the report: a table of one row or none.                    *)
NewestOf(rows) == {w \in rows : \A u \in rows : u.at <= w.at}
Latest_Now(x, t) == NewestOf({w \in scores : w.subject = x})
Latest(x, t) == NewestOf({w \in scores : w.subject = x /\ w.at <= t})
Previous(x, t) == NewestOf({w \in scores : w.subject = x /\ w.at < t})

(* latest_as_of: a gap in the newest period is shown as no figure.         *)
SeriesValue(s, t) ==
  {r \in AsOf(obs, s, t) : r.value # Gap /\ \A q \in AsOf(obs, s, t) : q.period <= r.period}

MarketTable(t) == [s \in Market |-> <<SeriesValue(s, t), SeriesValue(s, t - TicksPerDay)>>]

(* What the report says of a subject: its reading, and the one before it   *)
(* that the change is taken from.                                          *)
TheOneBefore(x, t) == UNION {Previous(x, w.at) : w \in Latest(x, t)}
Section(x, t) == <<Latest(x, t), TheOneBefore(x, t)>>

Summary(t) == [v \in ToSet(Views) |-> Latest(v, t)]

(* "Changes from yesterday": for a view, from its previous reading,        *)
(* however old; for a series, from a day ago, if both figures are there.   *)
Changes(t) ==
  [views  |-> {v \in ToSet(Views) : TheOneBefore(v, t) # {}},
   series |-> {s \in Market :
     \E r \in SeriesValue(s, t), q \in SeriesValue(s, t - TicksPerDay) : r.value # q.value}]

DimensionsTable(t) == [d \in ToSet(Dimensions) |-> Latest(d, t)]

Rendered(t) ==
  [summary |-> Summary(t), changes |-> Changes(t), market |-> MarketTable(t),
   sections |-> [x \in ToSet(Subjects) |-> Section(x, t)], table |-> DimensionsTable(t)]

-----------------------------------------------------------------------------
Init ==
  /\ now = 0 /\ obs = {} /\ settled = 0 /\ late = 0
  /\ scores = {} /\ cutoff = 0 /\ todo = <<>> /\ fresh = {}
  /\ analyzed = {} /\ cut = {} /\ kills = 0

Replay == MayReplay /\ \E t \in 0..(now - 1) : StartAnalyze(t)

Next == Tick \/ Load \/ LoadLate \/ StartAnalyze(now) \/ Replay \/ AnalyzeNext \/ CutShort

Spec == Init /\ [][Next]_vars
-----------------------------------------------------------------------------
(* macro.py:73, 206 - everything needed to replay a score is in its row:   *)
(* the scores a view was built on are those stored under the ids it cites, *)
(* unless an analysis of that day was cut short, and a later run of the    *)
(* day built the view on scores that were refused.                         *)
EvidenceHolds ==
  \A v \in scores : v.subject \in ToSet(Views) /\ Day(v.at) \notin cut =>
    \A g \in v.signals : \E w \in scores :
      IdOf(w) = IdOf([v EXCEPT !.subject = g.source]) /\ w.signals = g.reading

(* A report shows readings of two days only when one of the two analyses   *)
(* was cut short, whatever gaps the days had.                              *)
Shown(t) == UNION {Latest(x, t) : x \in ToSet(Subjects)}
SectionsOfOneDay ==
  Idle => \A t \in 0..now : \A u, w \in Shown(t) :
    Day(u.at) # Day(w.at) => {Day(u.at), Day(w.at)} \cap cut # {}

(* daily.py:14-15 - "the difference is a subtraction rather than a guess": *)
(* a report whose observations are settled renders the same for ever; only *)
(* a row added to the settled past, or the replay of a day that had no     *)
(* complete analysis, can change it.                                       *)
Backfills(t) == ~ Idle /\ cutoff <= t /\ Day(cutoff) \notin analyzed
PastReportsReproduce ==
  [][UNCHANGED <<obs, scores>> \/ late' > late \/ \A t \in 0..settled :
       Backfills(t) \/ Rendered(t)' = Rendered(t)]_vars
=============================================================================
