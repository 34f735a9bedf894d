--------------------------- MODULE MCForecastJournal ---------------------------
(* Instances of ForecastJournal: two figures, a and b.                     *)
EXTENDS ForecastJournal

CONSTANTS a, b
=============================================================================
