SPECIFICATION Spec
CONSTANTS
  Clients = {c1, c2}
  Decisions = {d1}
  None = none
  MaxTime = 0
  MaxAssignments = 1
  MaxHelp = 1
INVARIANT NoLateHelp
