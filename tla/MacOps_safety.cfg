SPECIFICATION Spec
CONSTANTS
  Chans = {c1, c6, c14, w36, w52}
  First = c1
  Wide = {w36, w52}
  Rows = {c1, c6, w36}
  None = None
INVARIANTS ReadyIsTuned OpenAtDocumentedStop FailsForAReason
