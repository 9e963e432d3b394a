\* Two accounts, two concurrent requests, four refresh tokens.
SPECIFICATION SessionsSpec
CONSTANTS
  None = None
  u1 = u1
  u2 = u2
  r1 = r1
  r2 = r2
  r3 = r3
  UserIds = {u1, u2}
  Addresses = {"ann@", "bob@"}
  LowerCase <- MCLowerCase
  Passwords = {"right"}
  GoogleIds = {}
  t1 = t1
  t2 = t2
  t3 = t3
  t4 = t4
  Tokens = {t1, t2, t3, t4}
  ResetTokens = {}
  Requests = {r1, r2}
  MaxFailedAttempts = 3
  SeedUsers <- MCSeedUsers
  Operations = {"login", "refresh", "logout", "logoutAll"}
  FailureBound = 3
  SweepBound = 1
SYMMETRY Symmetry
INVARIANTS
  SessionsTypeOK
  SurvivorsBounded
  RotationsBounded
PROPERTIES
  ImplementsSessionStore
CHECK_DEADLOCK FALSE
