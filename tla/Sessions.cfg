SPECIFICATION Spec
CONSTANTS
  Tokens = {t1, t2}
  Requests = {r1}
  Logouts = {l1, l2, l3, l4}
  Lifetime = 1
  LastTick = 2
  None = None
SYMMETRY MCSymmetry
INVARIANTS
  TypeOK
  RevokedStaysDenied
  TableBounded
  NoLogoutStuck
PROPERTIES
  RevokedRejectedWhileLive
  PromiseSpec
  LogoutsAdvance
