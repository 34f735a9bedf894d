SPECIFICATION FairSpec
CONSTANTS
  Sources = {"fred", "treasury", "off"}
  Disabled = {"off"}
  Documents = {"d1", "d2"}
  Labelled = {"treasury"}
  None = None
  Torn = Torn
  MaxChanges = 1
  MaxFaults = 1
  MaxCrashes = 1
INVARIANTS
  FileFirst
  OneCopyPerCrash
  OneOmissionPerCrash
PROPERTIES
  HealedByData
  EventuallyStored
