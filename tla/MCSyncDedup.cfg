SPECIFICATION Safety
CONSTANTS
  k1 = k1
  k2 = k2
  i1 = i1
  i2 = i2
  i3 = i3
  i4 = i4
  Clients = {c1}
  NoJob = NoJob
  Free = Free
  Keys = {k1, k2}
  SyncIDs = {j1, j2}
  Callers = {r1, r2}
  Issues = {i1}
  Listing <- ListTwo
  ProjectsLimit = 100
  InitialJira <- TwoProjects
  PageSize = 1
  JobTTL = 1
  MaxTime = 2
  MaxDeletes = 0
SYMMETRY Symmetry
INVARIANTS OneSyncPerProject MetricsAgree
PROPERTIES KeepsManagerContract
