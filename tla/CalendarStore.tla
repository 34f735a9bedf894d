---------------------------- MODULE CalendarStore ----------------------------
(***************************************************************************)
(* `mios calendar`: economic_calendar, the one table that is updated in    *)
(* place.  A run reads the newest payload of the schedule source and the   *)
(* configured clocks, and upserts one row per release, day and series,     *)
(* each in a transaction of its own; an error ends the run with the rest   *)
(* unwritten.  Between runs publishers move dates, and the operator edits  *)
(* config/calendar.yaml.                                                   *)
(***************************************************************************)
EXTENDS Naturals, FiniteSets

CONSTANTS
  Releases, Days,  \* provider release ids, dates
  Series,          \* series a release may publish
  Hours,           \* publication clocks, as hours of the UTC day
  HoursPerDay,
  Unwatched,       \* a release calendar.yaml does not describe
  NoSeries,        \* series_id NULL
  Unreadable,      \* a payload fred_release_dates refuses
  Configs,         \* the clocks and series a release may be configured with
  MaxMoves, MaxEdits, MaxFaults  \* bounds

Watch == [hour : Hours, series : SUBSET Series] \cup {Unwatched}

ASSUME CalendarAssumption ==
  /\ Days \subseteq Nat /\ HoursPerDay \in Nat \ {0}
  /\ Hours \subseteq 0..(HoursPerDay - 1)
  /\ Configs \subseteq Watch
  /\ MaxMoves \in Nat /\ MaxEdits \in Nat /\ MaxFaults \in Nat

VARIABLES
  schedule,  \* external: the days each release is announced for
  watched,   \* calendar.yaml
  kept,      \* the schedules whose text the raw store holds
  latest,    \* RawStore.latest: the newest stored payload
  table,     \* economic_calendar
  running, todo,          \* the running process
  moves, edits, faults    \* bounds

calendarVars ==
  <<schedule, watched, kept, latest, table, running, todo, moves, edits, faults>>
rawStore == <<kept, latest>>

-----------------------------------------------------------------------------
(* scheduled_at: a configured clock, or the start of the day flagged as    *)
(* date-only.                                                              *)
ScheduledAt(day, w) ==
  IF w = Unwatched THEN [at |-> day * HoursPerDay, exact |-> FALSE]
  ELSE [at |-> day * HoursPerDay + w.hour, exact |-> TRUE]

(* `spec.series or [None]`.                                                *)
SeriesOf(w) == IF w = Unwatched \/ w.series = {} THEN {NoSeries} ELSE w.series

(* calendar_id names the day; the upsert's conflict target the instant.    *)
Entry(r, day, s, w) ==
  [id |-> <<day, r, s>>, release |-> r, series |-> s,
   at |-> ScheduledAt(day, w).at, exact |-> ScheduledAt(day, w).exact]

Entries(payload, config) ==
  UNION {{Entry(r, day, s, config[r]) : day \in payload[r], s \in SeriesOf(config[r])} :
         r \in Releases}

SameEvent(e, q) == q.release = e.release /\ q.at = e.at /\ q.series = e.series

-----------------------------------------------------------------------------
Announce(r, days) ==
  /\ moves < MaxMoves
  /\ days # schedule[r]
  /\ schedule' = [schedule EXCEPT ![r] = days]
  /\ moves' = moves + 1
  /\ UNCHANGED <<watched, rawStore, table, running, todo, edits, faults>>

Configure(r, w) ==
  /\ edits < MaxEdits
  /\ w # watched[r]
  /\ watched' = [watched EXCEPT ![r] = w]
  /\ edits' = edits + 1
  /\ UNCHANGED <<schedule, rawStore, table, running, todo, moves, faults>>

(* The collector stores what the provider serves, an error page included,  *)
(* unless it has stored the same text before: put() then drops it, and a   *)
(* schedule that returns to an earlier text does not become the newest.    *)
StoreSchedule ==
  /\ ~ running
  /\ schedule \notin kept
  /\ kept' = kept \cup {schedule}
  /\ latest' = schedule
  /\ UNCHANGED <<schedule, watched, table, running, todo, moves, edits, faults>>

StoreErrorPage ==
  /\ ~ running
  /\ faults < MaxFaults
  /\ faults' = faults + 1
  /\ latest' = Unreadable
  /\ UNCHANGED <<schedule, watched, kept, table, running, todo, moves, edits>>

(* Nothing collected yet, or an unreadable payload: the run fails as a     *)
(* whole and leaves everything as it was.                                  *)
FailedRun ==
  /\ ~ running
  /\ latest = Unreadable
  /\ UNCHANGED calendarVars

StartRun ==
  /\ ~ running
  /\ latest # Unreadable
  /\ running' = TRUE
  /\ todo' = Entries(latest, watched)
  /\ UNCHANGED <<schedule, watched, rawStore, table, moves, edits, faults>>

(* INSERT ... ON CONFLICT (release, instant, series) DO UPDATE: calendar_id *)
(* and scheduled_at of the stored row stay.                                *)
Corrected_InsertOnly(row, e) == row
Corrected(row, e) == [row EXCEPT !.exact = e.exact]

Clash(e) == ~ (\E q \in table : SameEvent(e, q)) /\ \E q \in table : q.id = e.id

Upserted(e) ==
  IF \E q \in table : SameEvent(e, q)
  THEN {IF SameEvent(e, q) THEN Corrected(q, e) ELSE q : q \in table}
  ELSE table \cup {e}

Write(e) ==
  /\ running /\ e \in todo
  /\ ~ Clash(e)
  /\ table' = Upserted(e)
  /\ todo' = todo \ {e}
  /\ UNCHANGED <<schedule, watched, rawStore, running, moves, edits, faults>>

(* The primary key refuses the row: a StorageError, which nothing in run   *)
(* catches.                                                                *)
Refused(e) ==
  /\ running /\ e \in todo
  /\ Clash(e)
  /\ running' = FALSE /\ todo' = {}
  /\ UNCHANGED <<schedule, watched, rawStore, table, moves, edits, faults>>

Killed ==
  /\ running
  /\ faults < MaxFaults
  /\ faults' = faults + 1
  /\ running' = FALSE /\ todo' = {}
  /\ UNCHANGED <<schedule, watched, rawStore, table, moves, edits>>

FinishRun ==
  /\ running /\ todo = {}
  /\ running' = FALSE
  /\ UNCHANGED <<schedule, watched, rawStore, table, todo, moves, edits, faults>>

-----------------------------------------------------------------------------
CalendarInit ==
  /\ schedule \in [Releases -> {{d} : d \in Days}]
  /\ watched \in [Releases -> Configs]
  /\ kept = {} /\ latest = Unreadable
  /\ table = {} /\ running = FALSE /\ todo = {}
  /\ moves = 0 /\ edits = 0 /\ faults = 0

Provider == \E r \in Releases, days \in SUBSET Days : Announce(r, days)
Operator == \E r \in Releases, w \in Configs : Configure(r, w)
Job == FailedRun \/ StartRun \/ (\E e \in todo : Write(e)) \/ FinishRun

Collect == StoreSchedule \/ StoreErrorPage

CalendarNext == Provider \/ Operator \/ Collect \/ Job \/ (\E e \in todo : Refused(e)) \/ Killed

CalendarSpec == CalendarInit /\ [][CalendarNext]_calendarVars

(* The daily chain collects and runs `calendar` every day.                 *)
FairCalendarSpec ==
  /\ CalendarSpec
  /\ SF_calendarVars(StoreSchedule)
  /\ WF_calendarVars(StartRun) /\ WF_calendarVars(FinishRun)
  /\ WF_calendarVars(\E e \in todo : Write(e) \/ Refused(e))
-----------------------------------------------------------------------------
Rows == [id : Days \X Releases \X (Series \cup {NoSeries}), release : Releases,
         series : Series \cup {NoSeries}, at : Nat, exact : BOOLEAN]

CalendarTypeOK ==
  /\ schedule \in [Releases -> SUBSET Days]
  /\ watched \in [Releases -> Configs]
  /\ kept \subseteq [Releases -> SUBSET Days]
  /\ latest \in [Releases -> SUBSET Days] \cup {Unreadable}
  /\ table \subseteq Rows /\ todo \subseteq Rows
  /\ running \in BOOLEAN

(* What a day's report lists: between() reads the table as it stands.      *)
Today(day) == {q \in table : q.at \div HoursPerDay = day}

Shows(e, day) == \E q \in Today(day) : SameEvent(e, q) /\ q.exact = e.exact
Current(e) == Shows(e, e.id[1])

(* calendar.py:125-131 - a moved release does not stay wrong for ever:     *)
(* once provider and operator leave it alone, every announced release is   *)
(* listed at its hour.                                                     *)
EventuallyListed == <>[](\A e \in Entries(schedule, watched) : Current(e))

(* A schedule served again word for word after another payload, a moved    *)
(* date moved back or an error page between: no later run reads it.        *)
Overlooked == schedule \in kept /\ latest # schedule

(* calendar.py:125-131, 144-151 - only two things can keep the calendar    *)
(* wrong for ever: a stored row of the same calendar_id at another hour,   *)
(* and a schedule that the raw store takes for an old one.                 *)
ListedUnlessClash ==
  \/ EventuallyListed
  \/ <>[](\E e \in Entries(schedule, watched) : Clash(e))
  \/ <>[]Overlooked
=============================================================================
