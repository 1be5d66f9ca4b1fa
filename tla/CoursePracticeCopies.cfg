SPECIFICATION Spec
CONSTANTS
  i1 = i1
  i2 = i2
  Clients = {c1, c2}
  Items = {i1, i2}
  NoItem = none
  Original <- SavedTwice
  Reveals = {"hint", "solution", "notes"}
  MaxAttempts = 3
CHECK_DEADLOCK FALSE
INVARIANTS CopyAnswerIsAssisted
