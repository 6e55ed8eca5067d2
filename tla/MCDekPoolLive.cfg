CONSTANTS
  Dek = {d1, d2, d3, d4}
  Session = {s1, s2}
  NoSession = NoSession
  NoDek = NoDek
  UseCount = 2
  MinActive = 1
  MaxUses = 2
  MaxRequests = 2
SPECIFICATION LiveSpec
PROPERTY
  EveryRequestEnds
