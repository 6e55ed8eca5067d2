CONSTANTS
  Pan = {p}
  Cvn = {c}
  Host = {h1, h2}
  Request = {r1}
  Proc = {hp}
  Faults = TRUE
  MaxRow = 2
  MaxVersion = 1
  MaxKey = 3
SPECIFICATION LiveSpec
INVARIANTS
  TypeOK
  FoundAgain
PROPERTIES
  AllRehashed
