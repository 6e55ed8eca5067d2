CONSTANTS
  Client = {c1, c2}
  MaxDead = 2
  MaxFailedStarts = 1
  Sends <- MCSends
  NoClient = NoClient
SPECIFICATION LiveSpec
INVARIANTS
  TypeOK
  OnlyWholeRequests
  
  OpenIsServed
PROPERTIES
  EveryConnectionEnds
  DeadAreCollected
