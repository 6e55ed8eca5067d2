CONSTANTS
  Pan = {p}
  Cvn = {}
  Host = {h1}
  Request = {r1}
  Proc = {hp}
  Faults = FALSE
  MaxRow = 2
  MaxVersion = 1
  MaxKey = 2
SPECIFICATION Spec
INVARIANT
  SameToken
