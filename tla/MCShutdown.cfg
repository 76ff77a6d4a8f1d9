CONSTANTS
  Keys = {k1}
  SyncIDs = {j1}
  Clients = {c1}
  App = App
  NoJob = NoJob
  Free = Free
  JobTTL = 1
  Millisecond = 4
  HalfRange = 262144
  NumPages = 1
  MaxStarts = 1
  Inputs <- MCInputs
SPECIFICATION Spec
INVARIANT DiagnosticServersStopped
CHECK_DEADLOCK FALSE
