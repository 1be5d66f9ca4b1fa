SPECIFICATION FollowSpec
CONSTANTS
  Titles = {a, b, c}
  NoTitle = none
  Documents = {d1, d2}
  MaxProposed = 3
  MaxListed = 2
CHECK_DEADLOCK FALSE
INVARIANTS RequiresEarlier DetoursEnd
PROPERTIES CourseIsFinished
