SPECIFICATION Spec
CONSTANTS
  Workers = {w1, w2}
  Tasks = {t1, t2, t3, t4}
  QueueSize = 1
  NoTask = NoTask
INVARIANTS FetchContract NoGoroutineLeft NoSubmitPanic
PROPERTIES FetchReturns
