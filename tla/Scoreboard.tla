----------------------------- MODULE Scoreboard -----------------------------
(***************************************************************************)
(* What a scored forecast is worth and what the scoreboard says of many:   *)
(* score() of scoring.py and the groups and bins of metrics.py, as         *)
(* operators.  A figure is an integer, in whatever its smallest unit is; a *)
(* probability is in percent.  The averages themselves are left out: these *)
(* operators say which of them are shown, and from which rows.             *)
(***************************************************************************)
EXTENDS Integers, FiniteSets

CONSTANTS
  Targets,        \* forecast targets
  MinSample,      \* MIN_SAMPLE
  NoProbability   \* upside_prob is NULL

(* A row of forecast_errors.                                               *)
ScoredRow ==
  [id : Nat, target : Targets, period : Nat, days : Nat,
   point : Int, baseline : Int, actual : Int,
   prob : 0..100 \cup {NoProbability}]

-----------------------------------------------------------------------------
(* One forecast.                                                           *)
Abs(n) == IF n < 0 THEN -n ELSE n

Error(r) == r.actual - r.point
BaselineError(r) == r.actual - r.baseline
Adjustment(r) == r.point - r.baseline
Skill(r) == Abs(BaselineError(r)) - Abs(Error(r))

(* direction_hit is NULL for a forecast that leaves the baseline alone.    *)
MakesCall(r) == Adjustment(r) # 0
Hit(r) == Adjustment(r) > 0 <=> BaselineError(r) > 0

-----------------------------------------------------------------------------
(* Many forecasts, by target and horizon.                                  *)
Band(days) == CASE days <= 3  -> "0-3d"
                [] days > 3  /\ days <= 10 -> "4-10d"
                [] days > 10 /\ days <= 30 -> "11-30d"
                [] days > 30 -> "31d+"

Key(r) == <<r.target, Band(r.days)>>
Group(rows, key) == {r \in rows : Key(r) = key}

Sufficient(g) == Cardinality(g) >= MinSample

(* The share of hits is taken over the rows that made a call.              *)
Calls(g) == {r \in g : MakesCall(r)}
DirectionReported(g) == Sufficient(g) /\ Calls(g) # {}

(* coverage(): how many periods the scores are about.                      *)
PeriodsOf(rows) == {r.period : r \in rows}

-----------------------------------------------------------------------------
(* Many forecasts, by the probability they stated.                         *)
Bins == {<<0, 20>>, <<20, 40>>, <<40, 60>>, <<60, 80>>, <<80, 101>>}

Stated(rows) == {r \in rows : r.prob # NoProbability}
InBin(rows, bin) == {r \in Stated(rows) : bin[1] <= r.prob /\ r.prob < bin[2]}

(* A bin shows its two shares from one row on, its verdict from MinSample. *)
BinShown(rows, bin) == InBin(rows, bin) # {}
BinJudged(rows, bin) == BinShown(rows, bin) /\ Cardinality(InBin(rows, bin)) >= MinSample
=============================================================================
