SPECIFICATION RestartedSpec
CONSTANTS
  Requests = {r1, r2}
  Worker = worker
  Nobody = nobody
  MaxTopics = 2
  MaxRevision = 2
  Questions = {q1, q2}
  MaxClicks = 2
  MaxRestarts = 0
SYMMETRY Symmetry
CHECK_DEADLOCK FALSE
INVARIANTS TypeOK OneModelCall LessonWrittenOnce NoRepeatedQuestion FillOnlyEmpty OpenedIsSaved JobInOnePlace ReadyLessonIsSaved NothingForgotten
