CONSTANTS
  BlockSize = 2
  PanMin = 2
  PanMax = 4
  Padding = {3}
  Request = {r1, r2}
  Message <- MCMessage
  Answer <- MCAnswer
  FakePan <- MCFakePan
  IsProd = FALSE
  MinHashed = 2
  Grace = 1
  Window = 2
  MaxToken = 2
  MaxNow = 3
SPECIFICATION Spec
SYMMETRY Symmetry
INVARIANTS
  TypeOK
  OpaqueUpstream
  KeptUntilExpiry
  ExpandsToOriginal
  AnswerIsUpstreams
  StaleAreCleaned
