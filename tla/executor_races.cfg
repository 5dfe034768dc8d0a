SPECIFICATION FairSpec
CONSTANTS
  Tasks = {t1, t2, t3}
  Delayed = {t1}
  Workers = {w1, w2}
  QueueLength = 1
  StopWaits = TRUE
  NoTask = NoTask
  NoWorker = NoWorker
INVARIANTS TypeOK StopCompletesSubmitted
PROPERTIES StopReturnsEventually AcceptedTasksRun
