\* The instance of MCAccountsGoogle with one claim of a comment.
SPECIFICATION AccountsSpec
CONSTANTS
  None = None
  u1 = u1
  u2 = u2
  g1 = g1
  g2 = g2
  r1 = r1
  r2 = r2
  t1 = t1
  t2 = t2
  t3 = t3
  t4 = t4
  UserIds = {u1, u2}
  Addresses = {"Ann@", "ann@", "bob@"}
  LowerCase <- MCLowerCase
  Passwords = {"right"}
  GoogleIds = {g1, g2}
  Tokens = {t1, t2, t3}
  ResetTokens = {}
  Requests = {r1, r2}
  MaxFailedAttempts = 3
  SeedUsers <- MCSeedUsers
  Operations = {"register", "google", "admin"}
  FailureBound = 1
SYMMETRY RequestsAndKeys
INVARIANTS
  DeletionBounded
CHECK_DEADLOCK FALSE
