CONSTANTS
  Node = {n1, n2}
  Id = {i1, i2}
  MaxSets = 2
  MaxRestarts = 1
  MaxFailures = 1
  Rewrites = FALSE
  Careful = TRUE
SPECIFICATION LiveSpec
INVARIANTS
  TypeOK
  NeverLost
  SetDistributes
PROPERTY
  AllRecover
