SPECIFICATION FairSpec
CONSTANTS
  c1 = c1
  c2 = c2
  Courses = {c1, c2}
  None = None
  Failed = Failed
  Path <- TwoTopics
  MaxItems = 2
  MaxRevision = 1
  Slots = {s1, s2}
  Start <- Various
INVARIANTS HelpIsRecorded VisitIsRecorded
PROPERTIES DraftSurvives AsksBeforeNotes PollStaysInCourse WaitingEnds
\* The student may stop using the page.
CHECK_DEADLOCK FALSE
