\* One route behind the JWT guard that does not opt in to the tight limit.
SPECIFICATION Spec
CONSTANTS
  None = None
  r1 = r1
  r2 = r2
  a = a
  b = b
  c1 = c1
  u1 = u1
  Requests = {r1, r2}
  Replicas = {a, b}
  Clients = {c1}
  Users = {u1}
  Roles = {"USER", "SUPER_ADMIN"}
  Routes = {"me"}
  Limit <- MCLimit
SYMMETRY Symmetry
INVARIANTS
  AuthTierIsOptIn
CHECK_DEADLOCK FALSE
