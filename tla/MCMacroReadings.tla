---------------------------- MODULE MCMacroReadings ----------------------------
(* An instance of MacroReadings: two dimensions of one series, a view of   *)
(* both.  Any figure gives "inflation" a reading, only the figure b gives  *)
(* "rates" one.                                                            *)
EXTENDS MacroReadings

CONSTANTS a, b

TwoDimensions == <<"inflation", "rates">>
OneView == <<"gold">>
Configured == [inflation |-> {"cpi"}, rates |-> {"cpi"}, gold |-> {"inflation", "rates"}]
Names == [inflation |-> "inflation", rates |-> "rates", gold |-> "xauusd"]
ReadableHere(d, figures) ==
  \E f \in figures : d = "rates" => f.value = b
=============================================================================
