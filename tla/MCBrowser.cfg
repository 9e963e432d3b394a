\* One account, two browsers, two requests at a time, three refresh tokens; a
\* wrong password may be tried twice.
SPECIFICATION BrowserSpec
CONSTANTS
  None = None
  u1 = u1
  r1 = r1
  r2 = r2
  b1 = b1
  b2 = b2
  t1 = t1
  t2 = t2
  t3 = t3
  t4 = t4
  UserIds = {u1}
  Addresses = {"ann@"}
  LowerCase <- MCLowerCase
  Passwords = {"right", "wrong"}
  GoogleIds = {}
  Tokens = {t1, t2, t3}
  ResetTokens = {}
  Requests = {r1, r2}
  Browsers = {b1, b2}
  MaxFailedAttempts = 3
  SeedUsers <- MCSeedUsers
  Operations = {"login", "refresh", "logout", "logoutAll"}
  FailureBound = 2
SYMMETRY Symmetry
INVARIANTS
  BrowserTypeOK
  QuietCookieValid
  OpenSessionsAccounted
CHECK_DEADLOCK FALSE
