---------------------------- MODULE MCCalendarStore ----------------------------
(* Instances of CalendarStore: what config/calendar.yaml may say of a      *)
(* release.  Hour 0 is a clock that falls on midnight UTC.                 *)
EXTENDS CalendarStore

CONSTANTS cpi, fomc, s1, s2

(* Without series or with one or two; the clock of a release without       *)
(* series is corrected.                                                    *)
Clocks ==
  {Unwatched, [hour |-> 0, series |-> {}], [hour |-> 1, series |-> {}],
   [hour |-> 1, series |-> {s1, s2}]}
================================================================================
