SPECIFICATION StudentSpec
CONSTANTS
  Sessions = {s1, s2}
  Items = {i1, i2, i3}
  Groups = {g1}
  None = none
  Inputs <- SomeInputs
  MaxEvents = 4
SYMMETRY Symmetry
CHECK_DEADLOCK FALSE
INVARIANTS LevelIsEarned
PROPERTIES LevelFollowsAnswers
