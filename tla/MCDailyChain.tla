------------------------------ MODULE MCDailyChain ------------------------------
(* Instances of DailyChain: the chain of cli.py.                           *)
EXTENDS DailyChain

CONSTANTS a, b

DAILY_CHAIN ==
  <<"migrate", "collect", "normalize", "calendar", "releases", "forecast",
    "analyze", "validate", "report", "export">>

CSV_FILES == <<"releases", "history", "calendar", "forecasts", "accuracy", "series">>

AsOfFiles == {"history", "calendar"}

TolerantSteps == ToSet(DAILY_CHAIN) \ {"migrate", "report"}
================================================================================
