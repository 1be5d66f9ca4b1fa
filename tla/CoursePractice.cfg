SPECIFICATION Spec
CONSTANTS
  i1 = i1
  i2 = i2
  Clients = {c1, c2}
  Items = {i1}
  NoItem = none
  Original <- OneItem
  Reveals = {"notes"}
  MaxAttempts = 3
SYMMETRY Symmetry
CHECK_DEADLOCK FALSE
INVARIANTS EvidenceIsUnassisted StrugglingRereads
