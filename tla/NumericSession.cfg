SPECIFICATION Spec
CONSTANTS
  Clients = {c1, c2}
  Decisions = {d1, d2}
  None = none
  MaxTime = 1
  MaxAssignments = 2
  MaxHelp = 1
SYMMETRY Symmetry
INVARIANTS AttemptsMatch ViewWasTrue NeverTwoPending
PROPERTIES AnswersOnce
