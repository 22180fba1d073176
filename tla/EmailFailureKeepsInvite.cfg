SPECIFICATION Spec
CONSTANTS
  Requests = {r1, r2, r3}
  Founders = {f1}
  Emails = {e1}
  Roles = {admin, viewer}
  Admin = admin
  None = None
SYMMETRY MCSymmetry
INVARIANT EmailFailureKeepsInvite
