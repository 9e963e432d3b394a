\* Two probes and a call compete for one connection; five startup attempts, as
\* in the code; eight of the environment's variables may have any kind of value.
SPECIFICATION Spec
CONSTANTS
  p1 = p1
  p2 = p2
  c1 = c1
  c2 = c2
  Probes = {p1, p2}
  Calls = {c1}
  MaxStartupRetries = 5
  PoolMax = 1
  Watched = {"DB_CONN_TIMEOUT_MS", "HOST", "LOCAL_STORAGE_DEST", "MAIL_PROVIDER", "SMTP_PORT", "STORAGE_PROVIDER", "STORAGE_AWS_REGION", "TRUST_PROXY"}
INVARIANTS
  TypeOK
  AcceptedComplete
PROPERTIES
  ProbesAnswered
  Withdrawn
  ReadyAgain
  ShutdownEnds
