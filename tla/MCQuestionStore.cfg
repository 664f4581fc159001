\* Two requests on two questions: duplicates, and PUTs whose body names another id.
CONSTANTS
  Ids = {q1, q2}
  Reqs = {r1, r2}
  Seed = seed
  Drafts <- LiveDrafts
SPECIFICATION Spec
SYMMETRY Symmetry
CHECK_DEADLOCK FALSE
INVARIANTS TypeOK VersionsNameStates AcknowledgedTookEffect
PROPERTIES CatalogSpec
