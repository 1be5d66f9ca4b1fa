SPECIFICATION Spec
CONSTANTS
  Clients = {c1, c2}
  Traces = {t1, t2}
  Decisions = {d1, d2}
  Inputs = {x1}
  Contents = {p1}
  Events = {e1}
  Responses = {r1, r2}
  Activities = {a1}
  Texts = {y1}
  FeedbackIds = {f1, f2}
  Versions = {v1}
  Remarks = {m1}
  None = none
  MaxTime = 1
SYMMETRY Symmetry
INVARIANTS ProfessorOncePerDecision CompletedHasTrace RecordHangsTogether AcknowledgedIsStored
PROPERTIES TurnOnce FeedbackOnce
