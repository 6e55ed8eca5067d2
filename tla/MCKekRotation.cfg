CONSTANTS
  MaxVersion = 1
  MaxGen = 3
  Host = {h1, h2}
  Proc = {p1, p2}
  Dek = {1}
  Officer = {o1, o2}
  NoOfficer = NoOfficer
  Secret = FALSE
  Patient = TRUE
  Faults = TRUE
SYMMETRY Symmetry
SPECIFICATION Spec
INVARIANTS
  TypeOK
  Decryptable
  OnlyConfirmed
  CacheGenuine
  ActiveIntact
