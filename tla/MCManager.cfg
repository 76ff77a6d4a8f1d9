SPECIFICATION Spec
CONSTANTS
  Keys = {k1, k2}
  SyncIDs = {j1, j2, j3}
  Clients = {c1}
  NoJob = NoJob
  Free = Free
  JobTTL = 2
  MaxTime = 4
  MaxTotal = 1
  MaxProcessed = 1
SYMMETRY Symmetry
INVARIANTS TypeOK ByKeyExactlyRunning FindableUntilTTL NoLostProgress SnapshotNotTorn
PROPERTIES TerminalIsFinal ImplementsSyncJobs
