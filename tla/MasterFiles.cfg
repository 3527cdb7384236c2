SPECIFICATION Spec
CONSTANTS
  BackLogs = 3
  SaveModes = {"BACKGROUND", "SYNC"}
  StoreTimeout = 2
  MaxVersion = 3
  MaxStarts = 2
  MaxFaults = 1
  Cases = {"power"}
  LateStore = FALSE
INVARIANTS  PlainStartComplete
CHECK_DEADLOCK FALSE
 
