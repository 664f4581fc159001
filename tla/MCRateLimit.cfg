\* Two addresses on two route families, a map for three keys of six.
CONSTANTS
  Clients = {c1, c2}
  Families = {"admin", "analytics"}
  Limit <- MCLimit
  Second = 2
  WindowSeconds = 2
  SampleEvery = 3
  MaxTrackedKeys = 3
  MaxTime = 12
  MaxRequests = 5
SPECIFICATION Spec
SYMMETRY Symmetry
CHECK_DEADLOCK FALSE
INVARIANTS BoundsAreKept
PROPERTIES RefusalsAreHonest 
