SPECIFICATION Spec
CONSTANTS
  Requests = {r1, r2, r3, r4}
  Incidents = {i1}
  None = None
  ClientVersions <- MCClientVersions
SYMMETRY MCSymmetry
INVARIANT DeletionLoggedOnce
