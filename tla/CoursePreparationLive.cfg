SPECIFICATION PreparedFairSpec
CONSTANTS
  Requests = {r1, r2}
  Worker = worker
  Nobody = nobody
  MaxTopics = 3
  MaxRevision = 1
  Questions = {q1, q2}
  MaxClicks = 2
  MaxRestarts = 1
CHECK_DEADLOCK FALSE
INVARIANTS NothingForgotten
PROPERTIES QueuedJobEnds
