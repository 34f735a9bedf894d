SPECIFICATION FairSpec
CONSTANTS
  a = a
  b = b
  Chain <- DAILY_CHAIN
  Tolerant <- TolerantSteps
  Sheets <- CSV_FILES
  Dated <- AsOfFiles
  Documents = {a, b}
  Versions = 2
  MaxDays = 2
  MaxFaults = 2
INVARIANTS
  NoGapInSchema
  StepsSeeTheirSchema
  GreenIsComplete
  RowsKeepTheirPayload
  TolerantStepsCostNoReport
PROPERTY EventuallyMigrated
