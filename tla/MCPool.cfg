SPECIFICATION Spec
CONSTANTS
  Workers = {w1, w2}
  Tasks = {t1, t2, t3}
  QueueSize = 1
  NoTask = NoTask
INVARIANTS TypeOK ExactlyOnce NoSendOnClosed
PROPERTIES ImplementsTaskLedger ResultsGetClosed SubmitReturns
