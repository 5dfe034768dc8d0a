SPECIFICATION Spec
CONSTANTS
  Tasks = {t1, t2}
  Delayed = {}
  Workers = {w1, w2}
  QueueLength = 1
  StopWaits = TRUE
  NoTask = NoTask
  NoWorker = NoWorker
INVARIANT WaitCompletes
