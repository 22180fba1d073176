SPECIFICATION Spec
CONSTANTS
  Requests = {r1, r2, r3, r4}
  Founders = {f1, f2}
  Emails = {e1}
  Roles = {admin, viewer}
  Admin = admin
  None = None
SYMMETRY MCSymmetry
INVARIANTS
  TypeOK
  OneUserPerInvite
  NoOrphans
  AnswersKept
PROPERTIES
  PromiseSpec
