--------------------------- MODULE ForecastJournal ---------------------------
(***************************************************************************)
(* What is recorded about one target series for ever: the forecasts of     *)
(* every day, their scores once the period has printed, and the releases.  *)
(* All three tables are append-only; each is computed by reading the       *)
(* observations as of an instant.                                          *)
(*                                                                         *)
(* The observations arrive in batches, as a normalize run leaves them: the *)
(* rows of a batch are dated after everything settled by the batch before  *)
(* it (VintageStore's PastIsFinal) and may be dated before today, when a   *)
(* normalize run failed or the archive is polled weekly; LoadLate is a row *)
(* a repaired parser adds to the settled past.  A job killed halfway has   *)
(* done any part of its work, and the next run does the rest: ScoreOne and *)
(* RecordOne are one row each.                                             *)
(***************************************************************************)
EXTENDS Observations

CONSTANTS
  Target,       \* the series
  Periods,      \* dates of its reference periods
  MonthDays,    \* dates in a month; 1 for a monthly series
  Values, Gap,  \* published values; a published gap may be one of them
  MayReplay,    \* `mios forecast` and `validate` are used with --as-of
  TicksPerDay,
  MaxBatch,     \* bound: rows per batch
  MaxLate,      \* bound: rows dated in the settled past
  MaxTime       \* bound

ASSUME JournalAssumption ==
  /\ Periods \subseteq Nat
  /\ MonthDays \in Nat \ {0} /\ TicksPerDay \in Nat \ {0}
  /\ MayReplay \in BOOLEAN
  /\ MaxBatch \in Nat /\ MaxLate \in Nat /\ MaxTime \in Nat

VARIABLES
  now, obs, settled, late,
  predictions,  \* table predictions
  errors,       \* table forecast_errors
  releases      \* table releases

vars == <<now, obs, settled, late, predictions, errors, releases>>

Day(t) == t \div TicksPerDay

Row == [series : {Target}, period : Periods, vintage : 0..MaxTime, value : Values]
RowsDated(from, to) == {r \in Row : r.vintage \in from..to}

-----------------------------------------------------------------------------
Tick ==
  /\ now < MaxTime
  /\ now' = now + 1
  /\ UNCHANGED <<obs, settled, late, predictions, errors, releases>>

(* No two reads of the clock give the same instant: nothing is loaded with *)
(* the date of a forecast already made.                                    *)
Load ==
  /\ settled < now
  /\ \A f \in predictions : f.at # now
  /\ \E batch \in Batches(RowsDated(settled + 1, now), MaxBatch) :
       /\ FreshBatch(obs, batch, settled + 1, now)
       /\ obs' = obs \cup batch
  /\ settled' = now
  /\ UNCHANGED <<now, late, predictions, errors, releases>>

LoadLate ==
  /\ late < MaxLate
  /\ late' = late + 1
  /\ \E r \in RowsDated(0, settled) :
       /\ FreshBatch(obs, {r}, 0, settled)
       /\ obs' = obs \cup {r}
  /\ UNCHANGED <<now, settled, predictions, errors, releases>>

-----------------------------------------------------------------------------
(* features.load: the series as knowable at t, published gaps dropped.     *)
Usable(t) == {r \in AsOf(obs, Target, t) : r.value # Gap}

LatestOf(rows) == CHOOSE r \in rows : \A q \in rows : q.period <= r.period
Figures(rows) == {[period |-> r.period, value |-> r.value] : r \in rows}

NextPeriod(p) == (p \div MonthDays + 1) * MonthDays
PreviousPeriod(p) == (p \div MonthDays - 1) * MonthDays

(* One opinion per target, period and day; a second one is refused.        *)
IdOf(f) == <<Day(f.at), f.period>>
Taken_SameInstant(f) == \E g \in predictions : g.at = f.at /\ g.period = f.period
Taken(f) == \E g \in predictions : IdOf(g) = IdOf(f)

(* forecast_target reads nothing but the series as of the cutoff, so what  *)
(* it read stands for the numbers it computes; _cmd_forecast dates the     *)
(* forecast by the cutoff, today's or a replayed day's.                    *)
ForecastAt_ReadsNow(t) ==
  [period |-> NextPeriod(LatestOf(Usable(now)).period), at |-> t, asOf |-> t,
   basis |-> Figures(Usable(now))]
ForecastAt(t) ==
  [period |-> NextPeriod(LatestOf(Usable(t)).period), at |-> t, asOf |-> t,
   basis |-> Figures(Usable(t))]

Forecast(t) ==
  /\ Usable(t) # {}
  /\ ~ Taken(ForecastAt(t))
  /\ predictions' = predictions \cup {ForecastAt(t)}
  /\ UNCHANGED <<now, obs, settled, late, errors, releases>>

-----------------------------------------------------------------------------
(* actual_change: the first print known at t, against the latest figure up *)
(* to the previous month as it stood when that print appeared.             *)
HasPrinted(p, t) == Printed(obs, Target, p, t, Gap) # {}
PrintOf_Newest(p, t) == Newest(Printed(obs, Target, p, t, Gap))
PrintOf(p, t) == FirstPrint(obs, Target, p, t, Gap)
UpTo(p, rows) == {r \in rows : r.period <= PreviousPeriod(p)}
Preceding_AsOfTheRun(p, t) == UpTo(p, Usable(t))
Preceding(p, t) == UpTo(p, Usable(PrintOf(p, t).vintage))

HasActual(p, t) == HasPrinted(p, t) /\ Preceding(p, t) # {}
ActualChange(p, t) ==
  [value |-> PrintOf(p, t).value, previous |-> LatestOf(Preceding(p, t)).value,
   vintage |-> PrintOf(p, t).vintage]

(* score(): days_ahead is never negative.                                  *)
DaysAhead(f, vintage) == IF f.at >= vintage THEN 0 ELSE (vintage - f.at) \div TicksPerDay

Scored(f) == \E e \in errors : e.forecast = IdOf(f)
Pending_SameDay(t) == {f \in predictions : Day(f.at) = Day(t) /\ ~ Scored(f)}
Pending(t) == {f \in predictions : f.at <= t /\ ~ Scored(f)}

(* MetricsReader.coverage: "awaiting actuals".                             *)
Awaiting == {f \in predictions : ~ Scored(f)}

ErrorOf(f, t) ==
  [forecast |-> IdOf(f), period |-> f.period, at |-> f.at,
   actual |-> ActualChange(f.period, t),
   ahead |-> DaysAhead(f, ActualChange(f.period, t).vintage)]

(* One row of Scorer.run(t); `validate --as-of` scores as of a past t.     *)
ScoreOne(f, t) ==
  /\ HasActual(f.period, t)
  /\ errors' = errors \cup {ErrorOf(f, t)}
  /\ UNCHANGED <<now, obs, settled, late, predictions, releases>>

-----------------------------------------------------------------------------
(* ReleaseBuilder._record: the first print, and the previous month just    *)
(* before it and with it.  No predecessor in force: a backfill, not a      *)
(* release.                                                                *)
ValuesAt(p, t) == {r \in Usable(t) : r.period = p}

ReleaseOf(p) ==
  LET vintage == PrintOf(p, now).vintage
      before  == ValuesAt(PreviousPeriod(p), vintage - 1)
      after   == ValuesAt(PreviousPeriod(p), vintage)
      valueIn(rows) == {r.value : r \in rows}
  IN [period |-> p, at |-> vintage, actual |-> PrintOf(p, now).value,
      previous |-> valueIn(before), revised |-> valueIn(after)]

Recorded(p) == \E r \in releases : r.period = p

Recordable(p) ==
  /\ \E r \in Usable(now) : r.period = p
  /\ HasPrinted(p, now)
  /\ ValuesAt(PreviousPeriod(p), PrintOf(p, now).vintage - 1) # {}

RecordOne(p) ==
  /\ ~ Recorded(p)
  /\ Recordable(p)
  /\ releases' = releases \cup {ReleaseOf(p)}
  /\ UNCHANGED <<now, obs, settled, late, predictions, errors>>

-----------------------------------------------------------------------------
(* The report of an instant: the newest forecast of each period by then,   *)
(* and the one before it that the change is taken from.                    *)
LastOf(forecasts) == {f \in forecasts : \A g \in forecasts : g.at <= f.at}
Standing(t, p) == LastOf({f \in predictions : f.period = p /\ f.at <= t})
PreviousTo(f) == LastOf({g \in predictions : g.period = f.period /\ g.at < f.at})
ForecastSection(t, p) == <<Standing(t, p), UNION {PreviousTo(f) : f \in Standing(t, p)}>>

-----------------------------------------------------------------------------
Init ==
  /\ now = 0 /\ obs = {} /\ settled = 0 /\ late = 0
  /\ predictions = {} /\ errors = {} /\ releases = {}

Arrive  == Load \/ LoadLate
Score(t) == \E f \in Pending(t) : ScoreOne(f, t)
Record_TodaysPrints ==
  \E p \in Periods : RecordOne(p) /\ Day(PrintOf(p, now).vintage) = Day(now)
Record  == \E p \in Periods : RecordOne(p)
Replay  == MayReplay /\ \E t \in 0..(now - 1) : Forecast(t) \/ Score(t)

Next == Tick \/ Arrive \/ Forecast(now) \/ Score(now) \/ Record \/ Replay

Spec == Init /\ [][Next]_vars

(* `validate` and `releases` are steps of the daily chain: each is run     *)
(* again every day, and does all it can do.                                *)
FairSpec == Spec /\ WF_vars(Score(now)) /\ WF_vars(Record)
-----------------------------------------------------------------------------
TypeOK ==
  /\ now \in 0..MaxTime /\ settled \in 0..now /\ late \in 0..MaxLate
  /\ obs \subseteq Row
  /\ \A f \in predictions :
       /\ f.period \in Nat /\ f.at \in 0..now
       /\ f.basis \subseteq [period : Periods, value : Values \ {Gap}]
  /\ \A e \in errors : e.period \in Periods /\ e.ahead \in Nat
  /\ \A r \in releases : r.period \in Periods /\ r.previous \cup r.revised \subseteq Values

(* scoring.py:9-11 - "a score computed today and one computed next year    *)
(* agree": what a score records, as of whatever instant it was computed,   *)
(* is what scoring would compute now, and whatever arrives, is forecast or *)
(* recorded after it leaves it so.  Only a row dated in the settled past   *)
(* (a repaired parser) can change it.                                      *)
Agrees(e) == HasActual(e.period, now) /\ ActualChange(e.period, now) = e.actual
ScoresStandStill ==
  [][late' > late \/ \A e \in errors' : (e \in errors => Agrees(e)) => Agrees(e)']_<<now, obs, errors>>

(* releases.py:14-17 - "the figure a release published is fixed forever",  *)
(* and so are the two readings of the month before it, late rows apart.    *)
ReleasesStandStill ==
  [][late' > late \/ \A r \in releases : HasPrinted(r.period, now) /\ ReleaseOf(r.period) = r =>
        HasPrinted(r.period, now)' /\ ReleaseOf(r.period)' = r]_<<now, obs>>

(* 0006_predictions.sql:22-25 - a forecast is comparable to one replayed:  *)
(* as of its cutoff the series still reads as it did.  It ceases to when   *)
(* rows dated up to the cutoff arrive later (a failed normalize run).      *)
StillReads(f) == f.basis = Figures(Usable(f.asOf))

(* features.py:3-6, "only ever built from data that was knowable at the    *)
(* moment being forecast" - a forecast, live or replayed, rests on figures *)
(* published by its cutoff; and 0007_forecast_errors.sql, "how far out the *)
(* call was made" - one whose cutoff still reads as it did is never scored *)
(* against a figure that was public when it was made, unless that figure   *)
(* had been withdrawn (a gap was in force at the cutoff).                  *)
ReadsThePast(f) ==
  \A b \in f.basis :
    \E r \in obs : r.period = b.period /\ r.value = b.value /\ r.vintage <= f.asOf

NoHindsight ==
  \A f \in predictions :
    /\ ReadsThePast(f)
    /\ \A e \in errors :
         (e.forecast = IdOf(f) /\ StillReads(f) /\ Usable(f.asOf) = AsOf(obs, Target, f.asOf)) =>
           f.at < e.actual.vintage

(* repo.py:80-85 - "a report dated in the past must show the forecast that *)
(* stood then": what the report of an instant shows of a period that       *)
(* already had its forecast that day never changes, but for the forecast   *)
(* before it when an earlier instant is replayed.                          *)
Replayed(t) == \E g \in predictions' \ predictions : g.at < t
PastReportsStand ==
  [][\A f \in predictions : \A t \in f.at..MaxTime : Day(t) = Day(f.at) =>
       /\ Standing(t, f.period)' = Standing(t, f.period)
       /\ Replayed(f.at) \/ ForecastSection(t, f.period)' = ForecastSection(t, f.period)]_predictions

(* metrics.py:150-155, releases.py:76, 121-135 - in the end the scoreboard *)
(* awaits only forecasts whose period has no actual, and every printed     *)
(* period whose month before was in force just before the print is a       *)
(* release, whatever was killed.                                           *)
EventuallyAccounted ==
  <>[](/\ \A f \in Awaiting : ~ HasActual(f.period, now)
       /\ \A p \in Periods : Recordable(p) => Recorded(p))

(* releases.py:76 - "every period that has printed": the rule needs only   *)
(* that some earlier period was held when the print landed.                *)
HadHistory(p) == \E r \in Usable(PrintOf(p, now).vintage - 1) : r.period < p
EveryPrintRecorded == <>[](\A p \in Periods : HasPrinted(p, now) /\ HadHistory(p) => Recorded(p))
=============================================================================
