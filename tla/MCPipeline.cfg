\* A restricted route and a health route, two requests at a time.
SPECIFICATION Spec
CONSTANTS
  None = None
  r1 = r1
  r2 = r2
  a = a
  b = b
  c1 = c1
  u1 = u1
  Requests = {r1, r2}
  Replicas = {a, b}
  Clients = {c1}
  Users = {u1}
  Roles = {"USER", "SUPER_ADMIN"}
  Routes = {"settings", "live"}
  Limit <- MCLimit
SYMMETRY Symmetry
INVARIANTS
  PipelineTypeOK
  LimitShared
  CurrentAccess
  OutageIsNotRefusal
CHECK_DEADLOCK FALSE
