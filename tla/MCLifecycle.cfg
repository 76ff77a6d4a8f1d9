CONSTANTS
  Keys = {k1}
  SyncIDs = {j1, j2}
  Clients = {c1, c2}
  App = App
  NoJob = NoJob
  Free = Free
  JobTTL = 1
  Millisecond = 4
  HalfRange = 262144
  NumPages = 1
  MaxStarts = 2
  Inputs <- MCInputs
SPECIFICATION Spec
INVARIANTS ToldTheTruth DrainedBeforeClose StartupSound ConfigPrecedence
PROPERTIES ShutdownCompletes
CHECK_DEADLOCK FALSE
