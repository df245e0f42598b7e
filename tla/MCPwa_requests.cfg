SPECIFICATION FairSpec
CONSTANTS
  p1 = p1
  p2 = p2
  v1 = v1
  v2 = v2
  NoImage = NoImage
  Pages <- OnePage
  Versions <- MCVersions
  Archives <- MCVersions
  Faults <- Tested
INVARIANTS
  HandOverKnownGood
  HandOverAsked
PROPERTIES
  RequestsEnd
