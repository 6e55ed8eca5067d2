CONSTANTS
  Node = {n1, n2}
  Id = {i1}
  MaxSets = 2
  MaxRestarts = 0
  MaxFailures = 0
  Rewrites = TRUE
  Careful = TRUE
SPECIFICATION Spec
INVARIANT
  SetDistributes
