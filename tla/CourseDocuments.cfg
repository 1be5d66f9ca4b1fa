SPECIFICATION Spec
CONSTANTS
  Requests = {r1, r2, r3}
  Courses = {m1, m2}
  Contents = {x1, x2, x3, x4}
  MaxDocuments = 1
  NoContent = none
SYMMETRY Symmetry
INVARIANTS DocumentsReadable LimitByThreads
CHECK_DEADLOCK FALSE
