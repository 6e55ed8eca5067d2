CONSTANTS
  Dek = {d1, d2, d3, d4}
  Session = {s1}
  NoSession = NoSession
  NoDek = NoDek
  UseCount = 2
  MinActive = 1
  MaxUses = 2
  MaxRequests = 1
SPECIFICATION LiveSpecWithExpiry
PROPERTY
  EveryRequestEnds
