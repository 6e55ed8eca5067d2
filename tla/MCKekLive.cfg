CONSTANTS
  MaxVersion = 1
  MaxGen = 2
  Host = {h1}
  Proc = {p1}
  Dek = {1, 2}
  Officer = {o1, o2, o3}
  NoOfficer = NoOfficer
  Secret = FALSE
  Patient = TRUE
  Faults = FALSE
SPECIFICATION LiveSpec
PROPERTIES
  TargetReached
  GenerateDistributes
