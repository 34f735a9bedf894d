# MIOS: a TLA+ verification project

MIOS collects economic data on a schedule, keeps every published figure with
the moment it became known, forecasts the next print of a few series, scores
the forecasts when the prints arrive, and writes a daily report. The code is a
set of short-lived Python jobs (`src/src/mios`), a PostgreSQL schema
(`src/db/migrations`), a few operator scripts (`src/ops`) and the GitHub
workflows that run them (`src/.github/workflows`).

What the code promises, again and again, is about *time*: a row for every
change and no other moment, nothing knowable before it was published, nothing
rewritten once it was recorded, the same answer next year as today. Tests hold
single orders of events; the models here run all of them, with crashes.

## 1. Inventory

| Component | State it keeps | Operations | Correct when |
| --- | --- | --- | --- |
| Collector (`ingestion/collector.py`, `health.py`, `dlq.py`) | `state/http.json`, `state/health.json`, dead letters, run records | `collect` per source | nothing served is lost for ever; a failing source stays flagged until its data is stored |
| Raw store (`ingestion/rawstore.py`) | item files, `_hashes.txt` | `put`, `seen`, `items`, `latest` | an item file exists before anything says so |
| HTTP and adapters | none | `get`, `fetch` | every failure is a `TransportError` or an `AdapterError` |
| Scheduler (`scheduler/`) | last runs, breaker entries | `run_due`, `run_job`, retry ladder | one dying job costs one trial per cooldown and no other job its turn |
| Normalizer, parsers (`series/normalize.py`, `parsers.py`) | `normalize_state` | `run` | every payload is read; reading twice changes nothing |
| Planner, observation store (`series/planner.py`, `repo.py`) | `observations` | `plan_writes`, `write_points`, `as_of`, `revisions` | the compressed table answers like the full history |
| Release calendar (`series/calendar.py`) | `economic_calendar` | `upsert`, `run` | the announced schedule is what is listed |
| Forecasting (`prediction/`) | `predictions` | `forecast_target`, `save` | reads nothing past its cutoff; one opinion a day |
| Scoring, releases (`validation/`) | `forecast_errors`, `releases` | `Scorer.run`, `ReleaseBuilder.run` | what is recorded is what would be recorded at any later time |
| Analysis (`analysis/`) | `macro_scores` | `score_dimension`, `asset_view`, `save` | one reading a day, never overwritten |
| Reports, exports (`reports/`) | files in the checkout | `write_report`, `run` | written whatever else failed |
| Chain and CLI (`cli.py`) | none | `daily` and its ten steps | a failure is visible and costs no evidence |
| Migrations, database (`storage/`) | `schema_migrations` | `apply_all`, `transaction` | every file once, in order |
| Workflows | the repository: `data/`, `reports/`, `exports/` | daily, us-knowledge, us-mail-artifacts | one writer; the run's output is pushed |
| Mail scripts (`ops/`) | `seen.json`, immutable records and renderings | `scan`, `publish`, `import` | each record announced once, stored unchanged |
| Audit, configuration, identifiers, logging | run records; none | append; validation at start | - |

How they interact: the daily workflow checks the repository out and runs
`mios daily`, which is *migrate, collect, normalize, calendar, releases,
forecast, analyze, validate, report, export* in that order. Collect writes raw
items into the checkout; normalize reads them and writes rows that name them
into the database; all later steps read the database as of an instant. At the
end the workflow commits and pushes the checkout. The database and the
repository therefore last, `state/` does not. The hourly knowledge sync is a
second process on the same database; the mail watcher a reader of the
repository. There are no threads; the interleavings are those of jobs, of the
provider and the operator between a job's steps, and of kills.

Hard to test: a kill between two file writes or two transactions; a payload
read later than newer ones; an instant that is a day; what was *stored* by an
instant against what was *known* at it; two workflows on one database; a
database ahead of the repository. `PROJECT.json` lists each at its line under
`hazards`, with the properties that cover it.

## 2. Modules

| Module | Models | Abstracts |
| --- | --- | --- |
| `Observations` | the operators everything shares: what a plan must be (`IsPlan`), `InsertRows`, `as_of` (`AsOf`, `InForce`), `FirstPrint` | figures are model values |
| `ObservationLemmas` | lemmas about these operators that several proofs need; `PlanIsUnique` | - |
| `PlannerLoop` | the loop of `plan_writes`, one stored timeline and one batch at a time | - |
| `VintageStore` | provider, raw store and normalizer around the observations table, with `ParseFailure`, `Repair`, `Crash` | a payload is a set of points or one current figure |
| `VintageProps` | the properties of `VintageStore` | - |
| `BitemporalLog` | abstract specification: a log of readings whose past is final | - |
| `MCVintage` | instances of `VintageStore` for TLC | - |
| `VintageProofs` | the theorems about `VintageStore` and `PlannerLoop` | - |
| `Collector`, `CollectorProofs` | `mios collect`, one action per durable write | a document is a model value, a validator the document it came with |
| `JobRunner`, `MCJobRunner`, `JobRunnerProofs` | `run_due`, breaker, retry | time is a counter; a job is a behaviour (dying, working, unknown, ending the run) |
| `ForecastJournal`, `MCForecastJournal` | forecasts, scores and releases of one series over observations that arrive in batches | a forecast's numbers are the figures it read; the order of the jobs within a day is left open |
| `MacroReadings`, `MCMacroReadings`, `MacroProofs` | `mios analyze`, row by row, and what a report of an instant shows | a reading is the figures it was computed from, a view the scores it was built on |
| `CalendarStore`, `MCCalendarStore` | `mios calendar` over a schedule and a configuration that change | titles, importance |
| `Scoreboard` | `score()` and `metrics.py` as operators: skill, direction, groups, bins, what is shown of them | figures are integers; the means are left out |
| `JournalProofs` | the theorems about `ForecastJournal`, `Scoreboard` and `CalendarStore` | - |
| `DailyChain`, `MCDailyChain`, `DailyChainProofs` | the daily workflow with all ten steps, scheduled or dispatched for a past day, the sync, migrations, commit and push | a step's work is the payloads, rows, report and sheets that cross its border |
| `MailRecords` | what the mail scripts share: the records under `data/knowledge/us`, and a file a kill left torn | - |
| `MailWatch`, `MCMailWatch` | the Mac notification script | records are ids; a failed fetch changes nothing |
| `MailArtifacts`, `MCMailArtifacts` | publishing, rendering and importing the records: the author's clone, commits through GitHub, the render workflow, the hourly import | a record is a version of its document; what `validate` and `load_record` refuse are sets of versions |
| `MailProofs` | the theorems about the watcher and about the places a document is kept | - |

`VintageStore`, `PlannerLoop`, `ForecastJournal` and `MacroReadings` extend
`Observations`, so the reads the last two make are the reads the store is shown
to answer correctly. They do not repeat the store: they take from it that a
batch is new information dated after everything settled (`FreshBatch`), and drop
the date for the rows a repaired parser adds to the past (`LoadLate`). Both
are theorems about the store (`WritesAreRecent`, `WritesAreFresh`; section 6).

How state corresponds: a table is a set of records with the columns that
matter; a file is a set or a sequence; a job is a `pc` with the locals that
live across its durable writes. One action is one transaction, one file write
or one external event; everything the code does in memory between two such
points is part of the action. Definitions whose name carries a suffix
(`Seen_DataOnly`, `After_TolerateAll`) are the mutated forms of the definition
below them, used only to show that a property can fail.

## 3. The compressed table (core)

`plan_writes` keeps a row when its value differs from the one that preceded it
in time. `IsPlan` says that declaratively; `PlannerLoop` shows the loop
computes exactly it, plans nothing on a second run and, for a batch later than
everything stored, leaves every row a change. These are theorems (section 6), so
the loop needs no run and the other modules may call the planner by `IsPlan`.

`VintageStore` then lets a provider publish, polls it, and normalizes with a
kill at any point. `Lossless` compares the table with the uncompressed history
of everything read: at every instant both answer the same. `RevisionsCount`
says revision numbers count what precedes; `NeverBeforeItsDay`, that no figure
is knowable before the day it was published on; `Provenance`, that a row is a
point of the item it names, dated no later than the item's retrieval;
`NothingNewMeansCurrent`, that nothing left to collect or read means the table
shows the current figure; `EventuallyRead`, that every payload is read.
`PastIsFinal` is the refinement: with the table read through `as_of`,
`VintageStore` implements `BitemporalLog`, whose readings never change once
time has passed them.

| Run | Instance | Shows |
| --- | --- | --- |
| `VintageLive` | 1 polled series, three values of which one a gap, 5 instants, 1 crash | live polling is lossless and refines the log |
| `VintageRepair` | a polled and an archived series, two instants a day, payloads refused and later read, 3 instants, 2 crashes | dating and reading hold even then |
| `VintageSharedMarks` | violation; two series of one payload | one mark per item, not per item and series |

Bounds: five instants let a value change, return and change again around a
crash; three instants, the last of them on a second day, let a payload be
refused, overtaken by a newer one and read late, and a figure be published after
the instant its archive dates it at. A gap is a value like any other. The live
run is symmetric in the values; runs with liveness use no symmetry.

What the runs assume, and the code does not enforce: a polled payload is read
in the order it was fetched (`VintageLive` has no refused payloads; with them
`Lossless` and `RevisionsCount` fail, section 5); the payload text carries its
date, so that no two fetches are equal (`Stamped`); and `PastIsFinal` speaks of
polled series, whose rows are dated by the instant of retrieval. An archive
names only the day of a vintage, and the code dates the row at that day's first
instant (`parsers.py:245`). With instants finer than a day, as `VintageRepair`
has them and the five configured `alfred_json` series do, a figure is then
knowable *before* the hour it was published at. So what holds, and is checked
and proved, is said of days; the same of instants is false, against
`parsers.py:221-224` (section 5).

## 4. The other parts

**Collector** (run `Collector`). `FileFirst`: nothing says "we have it" before a
readable file exists. `OneCopyPerCrash`, `OneOmissionPerCrash`: a second copy of
a payload, and an item no run record names, are each owed to a kill (or, for the
audit, to a failed append). `HealedByData`: failures are cleared only by stored
data. `EventuallyStored`. Two sources, one of them without validators, a
disabled one, two documents, a change, a fault and a crash at any of the eight
program points, or inside the write of an item file, which is in place and
leaves it torn (`TearFile`). Fairness: the chain runs every day (`SF` on its
start, since an operator may run single sources between) and goes on unless
killed; crashes and faults are finitely many.

**JobRunner** (run `JobRunner`). `OneTrialPerCooldown`, `Served` (a working job
gets its turn again and again), `FailingIsCutOff`, `RepairedIsReadmitted`. Four
jobs: one dying, one that ends the run with an exception `run_due` does not
catch, one unknown, one working behind them. `Served` and
`RepairedIsReadmitted` hold unless the second stays broken for ever. Ages
saturate at the interval and the cooldown, so time needs no bound. Fairness:
cron starts a run again and again, time passes, and a process goes on.

**ForecastJournal** (run `Journal`). `ScoresStandStill`, `ReleasesStandStill`:
whatever happens after a record, what would be recorded now stays what was
recorded, rows added to the settled past excepted. `NoHindsight`: a
forecast, replayed or live, rests on figures published by its cutoff, and none
whose reading still stands is scored against a figure public when it was made.
`PastReportsStand`: a day that has its forecast keeps it, whatever is replayed,
and the change shown beside it moves only when an earlier instant is replayed.
Scores are made as of now or, with `validate --as-of`, of any past instant;
`ScoresStandStill` holds of both, that is, a score does not depend on when and
as of when it was made. `EventuallyAccounted`: in the end only forecasts whose
period has no actual await one, and every printed period with a predecessor is a
release; under weak fairness of the two steps, which the daily chain justifies.
Two periods suffice, since every reading concerns a period and the one before;
four instants, two a day, place forecast, print, revision, gap and load in every
order; rows arrive one at a time, and one row may be added to the settled past.
No two reads of the clock are equal, so nothing is loaded at the instant of a
forecast already made.

**MacroReadings** (run `Readings`). `EvidenceHolds`: what a view says it was
built on is what is stored under the ids it cites. `SectionsOfOneDay`: a report
shows the readings of one day. Both speak of days whose analysis was not cut
short, the only exception the code has. `PastReportsReproduce`: a report over
settled observations renders the same for ever, but for a row added to the
settled past and for the replay of a day that had no complete analysis. Two
dimensions, of which one has no reading from some figures, and a view of both;
two days of two instants, so that a day is analyzed twice, replayed, and
reported before and after; one kill, one late row. One period with its
revisions is enough, since a reading is whatever its history gives. A
`score_id` names the day and, of a dimension, the dimension, but of a view its
*asset* (`NameOf`; `macro.py:225-229`). That no two subjects share a name is true
of the configuration as shipped and assumed (`NamesAssumption`); the loader
refuses a second dimension of a name, not two views of one asset, of which the
second would never be stored.

**CalendarStore** (run `Calendar`). `ListedUnlessClash`: once provider and
operator rest, every announced release is listed at its hour, unless a stored
row holds the same `calendar_id` at another hour, or the raw store takes the
schedule for an old one (`Overlooked`): `put` drops a text it has stored before,
so a date moved and moved back, or a schedule behind an error page, is not the
newest item, and no run reads it. Two releases, two days, two
hours, one move, one edit, one fault (an error page, or a run that dies);
schedules are few, so the page before an unchanged schedule reaches `Overlooked`
without a second move. Fairness: every day the schedule is
collected and the calendar run; strong on the collection, because other
calendar runs may come between. `CalendarStuck` (violated: `EventuallyListed`)
shows the exception is reached by correcting one clock.

**DailyChain** (run `DailyChain`). `NoGapInSchema`, `StepsSeeTheirSchema`,
`EventuallyMigrated` for two runners with different checkouts;
`GreenIsComplete`, `RowsKeepTheirPayload`, `TolerantStepsCostNoReport` for the
chain and its commit, whatever past day a run is dispatched for. A failing
export leaves the sheets before the error new and the rest as they were;
`GreenIsComplete` says a green run leaves none older than itself, next to its
report and its payloads. `EventuallyMigrated` rests on the sync, which runs every
hour (weak fairness of the sync alone). Two days, two migrations, two documents
and two faults, which are a failing step in a run whose push is then lost, or
two failing steps.

**MailWatch** (run `MailWatch`). `NoBacklog`, `OneRepeatPerFault`,
`ReadWasShown`, and `EventuallyShown` under weak fairness of the loop, which
never returns. Five documents, one of them not eligible, one whose summary
`announce` refuses and one that is no record; one failed notification, two
kills between steps and one in the middle of a save, after which
`EventuallyShown` promises nothing more: the file stays unreadable. Nor does it
of the records a raising one stands before (`Barred`): a scan takes the records
in order of their paths and ends at the first that raises, and the next scan
does too. One first scan must get past every record, since it saves at its end
only.

**MailArtifacts** (run `MailArtifacts`). `OneVersion`: whoever publishes,
commits, renders or imports, and whatever is killed, main holds no torn file and
a document is one version as record, rendering, PDF and row, unless its record
was changed on main. `KeptForGood`: rendering, PDF and row stay even then. (The
author commits what `publish` lists; what an interrupted one left beside is
cleared away, as ADR-017 asks.) `EventuallyRendered`, `EventuallyImported`: only
the named exceptions keep a record without them. Two documents in two versions,
so that one document can stop the other; of the second one version is refused by
`publish` and one by the import. One change on main; one killed publication
(between two files or inside one) or one lost rendering job. `publish` looks at
the files of its clone only, which may be older than main, so an author may
publish a document that is there; the push then tells. A render job checks out
the commit whose push started it: `due` keeps what is older there than on main,
the texts, and a push takes the place of one that waits, as GitHub keeps one
waiting run of a concurrency group. Starting the workflow by hand is left out.
Fairness: the import is scheduled hourly; a render job that was started, or is
due, goes on. The author promises nothing.

`CHECK_DEADLOCK FALSE` appears where the modelled world stops at its bounds
(time ends, every record published); no run hides a stuck program by it.

## 5. Findings

Violation runs, each quoting the line it contradicts (`findings` in
`PROJECT.json`):

* `VintageSharedMarks`: `normalize_state` remembers one series per raw item.
* `CalendarStuck`: a corrected clock makes every later calendar run die on the
  primary key.

Exceptions that the passing properties name, because the code has them:

* a kill between an item's file and its ledger line stores the payload twice,
  one inside the write of the file leaves a torn one (`OneCopyPerCrash`); after
  the store and before the record, no record names the item
  (`OneOmissionPerCrash`);
* an exception that is no `MiosError` ends `run_due` for the jobs after it
  (`Served`); `ingestion/http.py:60` lets one through,
  `http.client.IncompleteRead`, which also leaves `_cmd_collect` and
  `_cmd_daily`;
* a vintage added before the first print changes what a stored score would be
  (`ScoresStandStill`, `LoadLate`); a row dated before a forecast that arrives
  after it makes a call with hindsight look like one made 0 days ahead
  (`NoHindsight`, `StillReads`);
* a schedule whose text the raw store already holds is dropped, so a date moved
  back is never read again (`Overlooked`);
* a kill inside the save of `seen.json` silences the mail watcher for ever, a
  record that raises silences it for those behind it (`EventuallyShown`,
  `Barred`), and a failing `say` repeats a banner (`OneRepeatPerFault`);
* a lost runner leaves rows whose payload nobody holds
  (`RowsKeepTheirPayload`); a migration applied by the sync between the daily
  run's listing and its own attempt costs the day its report
  (`TolerantStepsCostNoReport` speaks of tolerant steps only);
* an analysis killed between two rows leaves a day whose report mixes readings
  of two days, and a later analysis of the day builds its views on scores that
  are refused (`cut` in `MacroReadings`);
* one record that `validate` refuses or that was changed on main stops all
  renderings (`Blocked`), one that `load_record` refuses or that changed after
  its import stops all imports (`Refused`), and a rendering whose push lost
  waits for the next push that touches a record (`strayed`).

The same specifications refute, on instances without a run of their own:

* `VintageLive`'s with `MayReject = {1}` and `Lossless`, `RevisionsCount`,
  `NothingNewMeansCurrent` or `PastIsFinal`: a payload read after newer ones adds
  to the settled past, and leaves a stored row that repeats its predecessor, or
  two rows with one revision number, because a stored row is not judged again
  (`planner.py:49-52` promises the same result as live collection);
* `VintageLive`'s with `Stamped = {}` and `NothingNewMeansCurrent`: a provider
  that returns to an earlier payload is not heard;
* `Journal`'s with `Periods = {4, 5}`, `MonthDays = 4`, `MaxLate = 0` and
  `EveryPrintRecorded`: the predecessor of a series with several dates a month
  is sought on the first of the month before, is not there, and every print
  counts as a backfill (`releases.py:76`: "every period that has printed");
* `VintageRepair`'s with `f.at <= r.vintage` for `DayStart(f.at) <= r.vintage`
  in `NeverBeforeItsDay`: an archived vintage is knowable from the start of its
  day, before its hour (`parsers.py:223-224`: "errs toward *later* knowledge
  being hidden, never toward it leaking early"); likewise `VintageLive`'s with
  an archive and `TicksPerDay = 2`, and `PastIsFinal`, since a row is then dated
  before instants that are already past.

Read beside the code:

* `cli.py:383` passes `--as-of` to six steps but not to `releases`; of the six
  sheets of `export --as-of` two are written as of the instant (`Dated`), and
  the accuracy and data quality sections of `report --as-of` are of today
  (`daily.py:317`, `354`).
* `metrics.py:3-7`: "Every metric here refuses to report on too few
  observations". The minimum is asked of the group; the share of hits is taken
  over the rows that made a call, possibly one (`metrics.py:122`), the shares of
  a bin are shown from one row on, and twenty forecasts of one print count as
  twenty observations (`AnAnecdoteIsReported`, `OnePrintIsEnough`).
* `scoring.py:130`: a print exactly at the baseline is a hit for a call
  downwards (`FlatPrintFavoursDownCalls`).
* a torn item file stays where it is, and `RawStore.items`, which
  parses every file of a source, raises on it in every later run of the
  normalizer; so does `latest` while it is the newest.
* `us_mail_artifacts.py publish` accepts records `import_us_knowledge.py`
  refuses, which then stop the import for all.
* `series/calendar.py` inserts a moved date as a second row and leaves the
  first, although `0010_calendar_precision.sql:30-31` says "rather than leave
  both".
* `series/parsers.py:5-6` says unparsable payloads go to the dead-letter queue;
  the normalizer never writes one.
* `db/migrations/0008_macro_scores.sql:6-7` promises a new row for a
  recomputation at a new `as_of`; the id holds only the day.

## 6. Proofs

Every theorem holds for all values of the constants that satisfy the `ASSUME`
of the module (TLC evaluates them in every run that extends it); the bounds
(`MaxTime`, `MaxFaults`, ...) are such constants too, so nothing here depends on
a small instance. Where a theorem needs more, the hypothesis is part of its
statement.

**The store** (`VintageProofs`, `ObservationLemmas`). `TypeCorrect` and
`ProvenanceHolds` need only that the item a point is read from is stored, that
a stored item was retrieved no later than now, and that what revision numbers
count is finite. The others rest on `TableIsCompressed`: of a series no parser
refuses (`Series \ MayReject`), the rows of a period are at every moment the
compressed history of the points read so far, numbered in order. Why that is
inductive:

* items are read in the order they were fetched, and what is read of a source is
  an initial part of what is stored of it (`Reading`), whatever is killed;
* a feed gives one figure for a period, dated by its retrieval, and an archive
  everything published before its retrieval, so what a later item adds is
  dated after what earlier ones held (`Payloads`);
* a plan over later points keeps a compressed timeline compressed
  (`PlanKeepsCompressed`), and a compressed timeline answers every instant like
  the full one (`CompressedLosesNothing`).

| Theorem | Property | Hypothesis |
| --- | --- | --- |
| `NothingIsLost` | `Lossless` | `MayReject = {}` |
| `RevisionsAreCounted` | `RevisionsCount` | `MayReject = {}` |
| `NothingNewIsCurrent` | `NothingNewMeansCurrent` | `MayReject = {}`; sources are stamped or archives |
| `NoRowBeforeItsDay` | `NeverBeforeItsDay` | none |
| `ThePastIsFinal` | `PastIsFinal`, the refinement of `BitemporalLog` | `MayReject = {}`; no archives, or a day is one instant |
| `WritesAreFresh` | a transaction adds a `FreshBatch` | none |
| `WritesAreRecent` | and dates it no earlier than what is settled of its series | the series is not in `MayReject`; no archives, or a day is one instant |

The hypotheses are not conveniences: without each of them TLC refutes the
property, and section 5 says by which behaviour of the code. (The second
disjunct of the last hypothesis is a clock that counts days: said of days, the
past is final for archives too.)

The last two are what the readers' modules assume: a row of `Load` is fresh and
recent, a row of `LoadLate` fresh only. (The readers' batches are dated *after*
what is settled, since no two reads of the clock are equal; an archive that
publishes in the instant of its own retrieval is the one case between.) A batch
here is one transaction, of one series; a reader may see several at once.

**The planner** (`VintageProofs`; `PlanIsUnique` is in `ObservationLemmas`).

* `PlanIsUnique`: one timeline and one batch admit one plan. A judgement about a
  point depends on the entries before it alone (`JudgedByThePast`); of two plans
  that differ, take the earliest point they differ on: both judged it against
  the same past. `Earliest` is the well-foundedness of the naturals.
* `LoopComputesThePlan`: the invariant says that what the loop has accepted is
  the plan of the candidates it has decided. It holds because the loop goes in
  order of time and adds nothing before what it has decided
  (`LaterEntriesDoNotPrecede`).
* `LoopIsIdempotent`, `LoopKeepsRowsChanges`: re-running a batch is a no-op, and
  a batch after everything stored leaves every row a change.

**The collector** (`CollectorProofs`). `NothingIsClaimedEarly` (`FileFirst`)
needs to know what the process holds at each program point (`AtWork`): the file
is written before the ledger, the ledger before the validators.
`CopiesAreAccounted` and `OmissionsAreAccounted` are accounts: the files of a
source are at most the ledger's entries, one for each kill and the one about to
be listed; the items no record names are the one in hand, and one for each kill
(`FilesCounted`, `OmissionsCounted`). A kill turns "in hand" into "owed to a
kill", and nothing else adds to either. `HealedOnlyByData` is the action
property, from the same invariant.

**The job runner** (`JobRunnerProofs`). `TrialsAreAccounted`
(`OneTrialPerCooldown`) is an account too: the trials of an open circuit since
its opening are at most the kills, and one for the trial in hand (`Account`); a
closed circuit has none, and a trial that ends is followed by a save that starts
the cooldown again. It needs that the two fields of a key of `breakers.json`
agree (`OpenIffAtThreshold`: `opened_at` is set exactly when the failures have
reached the threshold). Two more results say what the breaker does *not* see:
`EscapersAreNeverCutOff` (an exception `run_due` does not catch is never
counted, so the job is begun by every run, and ends it) and the action property
`FailingStaysCutOff` (no order of runs, kills and neighbours closes the circuit
of a job that is still broken).

**The daily chain** (`DailyChainProofs`). Two arguments. The schema
(`SchemaHasNoGap`, `StepsFindTheirSchema`): what is applied is `1..n`; what a
runner has listed, with what is applied, covers its checkout; so the least
listed file either is applied already, and the attempt fails on its key, or
extends the history by one. The repository (`GreenRunsAreComplete`,
`RowsHavePayloads`): one workflow writes it, so the checkout of a run is the
repository and what its day added (`OneWriter`), and a push takes nothing away.
`ReportSurvives` follows from what a past step has left behind unless it failed
(`StepsDone`). The chain is any sequence of steps that migrates first and
tolerates neither a failing migrate nor a failing report (`ChainAssumption`).

**The journal** (`JournalProofs`). A read as of an instant depends on the rows
dated by then, and a batch adds rows dated after everything settled; a first
print stays the first print. Hence `ScoresNeverMove` and `ReleasesNeverMove`,
rows added to the settled past excepted, as the properties say. `CallsComeFirst`
(`NoHindsight`): a forecast is about a period after all it read
(`AheadOfItsBasis`), so a print of that period known at the cutoff would be
among the figures read, and rows are never taken away (`RestsOnThePast`).
`PastForecastsStand`: one opinion a day, so a new forecast is older than the one
that stands, or later than the day.

**Macro readings** (`MacroProofs`). Which rows a day has is decided by its first
analysis, since `save` refuses the second row of an id. `ViewsCiteWhatIsStored`
(`EvidenceHolds`) therefore needs that while the first analysis of a day runs,
the rows of the day *are* the scores it keeps in memory (`Remembered`): of a day
not `cut`, a view's evidence is stored by the run that stores the view, and
nothing else wrote there (`Accounted`). `SectionsAgree` (`SectionsOfOneDay`)
rests on every analysed day having a row of every subject (`Complete`, from
`DealtWith` row by row) and on the rows of a day being of one instant
(`OneInstant`), so the newest row of each subject is of one day. For
`SettledReportsStand` (`PastReportsReproduce`) an analysis that runs now is
later than a settled instant, a replay of a complete day adds nothing, and
batches are dated after what is settled (`LaterScoreIsUnseen`,
`RepeatsAreRefused`, `BatchIsUnseen`).
Subjects are sequences: `TakeFirst` and `TheSubjects` say that a run deals with
each once and that no view is a dimension.

**The calendar** (`JournalProofs`). The table has two unique keys, `calendar_id`
and the instant, of which the upsert's conflict target is the second. The
invariant ties them together: an instant lies in the day its id names
(`OfItsDay`, with `OneDay` on division by the hours of a day), so the target
implies the id and one id has one row. From it `ReportListsOnce` (a day's
schedule lists a series of a release once), and two action properties:
`StoredRowsStay` (no step drops or moves a row) and `RefusedForGood` (an entry
that clashes once clashes for ever), the general form of what the run
`CalendarStuck` exhibits.

**Mail** (`MailProofs`). The watcher: `NoBacklog` and `ReadWasShown` from what
the running scan knows against what is in the file. `RepeatsAreAccounted`: each
banner shown while the file does not list the record is owed to one failed
`say`, kill or torn save. The artifacts: `DocumentsAreOneVersion` and
`NothingIsReplaced` need that what a job or an import has read of a record is
still what the record says, unless it was changed on main, and that a job which
has pulled finds main as it was, or its push is refused (`ReadsLast`); and that
what `publish` lists is written, or about to be, in one version (`DeskInOrder`).

**The scoreboard** (`JournalProofs`), for every set of scored rows:
`BeatingNaiveCallsTheSide` and `SkillIsBoundedByTheAdjustment` (arithmetic of
one row), `OneBin`, `EvidenceAccumulates` (subsets of finite sets), and the
three results of section 5, each by exhibiting rows the code can store: daily
forecasts of one period, of which the last makes a call.

Left to TLC: every liveness property (`EventuallyRead`, `EventuallyStored`,
`Served`, `FailingIsCutOff`, `RepairedIsReadmitted`, `EventuallyAccounted`,
`ListedUnlessClash`, `EventuallyMigrated`, `EventuallyShown`,
`EventuallyRendered`, `EventuallyImported`), since fairness and `ENABLED` are
beyond the provers, and the two violation runs. Every invariant and every action
property of a passing run is stated by a theorem. The planner's loop over a
sequence is proved as a state machine, not by recursion, since induction over
data is beyond them too. The other way round, the results that no run lists
(`LoopIsThePlan`, `BatchesAreFresh`, `OpenAtThreshold`, `StaysOpen`,
`OneLineEach`, `RowsStay`, `ClashesStay`, ...) are defined beside their
theorems; the inductive invariants were checked by TLC on the instances of the
runs before they were proved.

The assumptions on constants, `NamesAssumption` apart (section 4), are what the
configuration loader or the schema guarantees: finite sets, sequences over their
own elements without repetitions (`ReadingsAssumption`), positive counts of
hours, instants and thresholds.

## 7. Plan

1. (done) `Observations`, `PlannerLoop`, `VintageStore`, `BitemporalLog`, first
   theorems; `Collector`, `JobRunner`, `ForecastJournal`, `CalendarStore`,
   `MacroReadings`, `DailyChain`, `MailWatch`.
2. (done) `MailArtifacts`; `Scoreboard`; replayed days and sheets in
   `DailyChain`, replayed scores in `ForecastJournal`; the planner proved.
3. (done) The compressed table and its refinement, the collector's accounts, the
   daily chain, the journal, the mail scripts.
4. (done) The job runner's account, the macro readings and the reports over
   them, the calendar's keys.
5. (done) The link between `VintageStore` and the modules that assume its
   batches.

What could come next: the columns of the sheets; the liveness properties, with a
proof system that has `ENABLED`.

## 8. Not modelled

* The report's accuracy and data quality sections and the columns of the sheets:
  they read the tables as they stand and keep nothing. The schedule section is
  `Today` of `CalendarStore`.
* Floats: probabilities (`erf`, standard deviations), spreads, the means of the
  scoreboard. The provers have no reals, and TLC no floats.
* Configuration: files validated at start. What they yield (series, targets,
  dimensions, clocks, sources) are the constants of the modules; a file that is
  refused starts nothing.
* Source verification and `verify-sources.yml`: a probe that stores nothing. The
  rate limiter: sleeping within one process, which no state depends on.
* Parsing of formats, identifiers, logging, wording and layout.
* The extraction and privacy review of PDFs (`us_mail_artifacts.py:1-52`): a
  judgement of one document's text, made before anything is written.
* Torn files beyond the item file and `seen.json`: a line of the ledger or of a
  log cut off by a kill. Nor does `VintageStore` go on from a torn item
  (section 5): its store holds the items that can be read.
* A second process on `state/`: the workflows run one at a time, and an operator
  at a clone has a `state/` of their own.
* The tables of `0001`-`0004` and `0009` are not written by this code.

PostgreSQL is taken at its word: a transaction is atomic, a key is unique, a
trigger refuses. So is GitHub: jobs of one concurrency group run one at a time,
and a push is all or nothing.
