SPECIFICATION Spec
CONSTANTS
  anna = anna
  adam = adam
  ben = ben
  A = A
  B = B
  Users = {anna, adam, ben}
  Founders = {anna, ben}
  Leavers = {adam}
  Accounts = {A, B}
  AccountOf <- MCAccountOf
  Requests = {r1, r2, r3}
  Nobody = Nobody
  None = None
  Calls = {"createIncident", "setRole", "createInvite", "invites", "auditLogs", "incidents",
           "incidentLog", "users"}
SYMMETRY MCSymmetry
INVARIANTS
  TypeOK
  AnswersStayInAccount
  RowsStayInAccount
  AuthorityIsFresh
  RolesAreHidden
  RoleHistoryLogged
