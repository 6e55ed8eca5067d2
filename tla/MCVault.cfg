CONSTANTS
  BlockSize = 2
  PanMin = 2
  PanMax = 4
  Padding = {3}
  Thread = {t1, t2}
  Checker = {t2}
  Text <- MCText
  Domain = {d1, d2}
  MinHashed = 2
  Parts <- MCParts
  MaxRow = 2
  MaxVersion = 1
SPECIFICATION LiveSpec
INVARIANTS
  TypeOK
  AnswersOwnDomain
  FoundAgainInDomain
PROPERTIES
  KeysReturn
