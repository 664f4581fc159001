\* Three requests at a time, two sessions, one OAuth state.
CONSTANTS
  Users = {u1}
  Txns = {t1}
  Nil = Nil
  Sessions = {s1, s2}
  Requests = {r1, r2, r3}
  SessionTTL = 4
  IdleTTL = 3
  SeenThreshold = 2
  TxnTTL = 1
  MaxFlight = 1
  MaxTime = 5
SPECIFICATION Spec
SYMMETRY Symmetry
CHECK_DEADLOCK FALSE
INVARIANTS SignInsAreSound LateRequestsAreDenied
PROPERTIES SessionsEndOnce
