SPECIFICATION Spec
CONSTANTS
  anna = anna
  adam = adam
  ben = ben
  A = A
  B = B
  Users = {anna, adam, ben}
  Founders = {anna, ben}
  Leavers = {adam}
  Accounts = {A, B}
  AccountOf <- MCAccountOf
  Requests = {r1, r2}
  Nobody = Nobody
  None = None
  Calls <- Ops
SYMMETRY MCSymmetry
INVARIANT LogShowsRole
