\* One seeded account, two concurrent requests, threshold 3.
SPECIFICATION LateSpec
CONSTANTS
  None = None
  u1 = u1
  r1 = r1
  r2 = r2
  UserIds = {u1}
  Addresses = {"ann@"}
  LowerCase <- MCLowerCase
  Passwords = {"right", "wrong"}
  GoogleIds = {}
  Tokens = {1, 2}
  ResetTokens = {1}
  Requests = {r1, r2}
  MaxFailedAttempts = 3
  SeedUsers <- MCSeedUsers
  Operations = {"login", "forgot", "reset"}
  FailureBound = 8
  GuessBound = 6
SYMMETRY Symmetry
INVARIANTS
  LockoutTypeOK
  ThresholdLocks
  GuessesBounded
  LateLocksBounded
CHECK_DEADLOCK FALSE
