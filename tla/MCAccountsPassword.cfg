\* One account: login, refresh, reset, while somebody edits the users table.
SPECIFICATION AccountsSpec
CONSTANTS
  None = None
  u1 = u1
  u2 = u2
  g1 = g1
  g2 = g2
  r1 = r1
  r2 = r2
  t1 = t1
  t2 = t2
  t3 = t3
  t4 = t4
  UserIds = {u1}
  Addresses = {"ann@"}
  LowerCase <- MCLowerCase
  Passwords = {"right", "new"}
  GoogleIds = {}
  Tokens = {t1, t2, t3, t4}
  ResetTokens = {1}
  Requests = {r1, r2}
  MaxFailedAttempts = 3
  SeedUsers <- MCSeedUsers
  Operations = {"login", "refresh", "forgot", "reset", "admin"}
  FailureBound = 1
SYMMETRY RequestsAndTokens
INVARIANTS
  AccountsTypeOK
  RememberedRows
  ResetUsesBounded
  DeactivationBounded
  DeletionBounded
CHECK_DEADLOCK FALSE
