SPECIFICATION FairSpec
CONSTANTS
  a = a  b = b  r1 = r1  r2 = r2  c1 = c1  c2 = c2
  Root = Root
  Ids <- MCIds
  Needs <- MCNeeds
  Manifests <- MCManifests
  MaxManifests = 3
  MaxFaults = 2
INVARIANTS LastKnownGood CachedPlugin
PROPERTIES ChildrenFirst SettlesInOrder
CHECK_DEADLOCK FALSE
