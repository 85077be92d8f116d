SPECIFICATION Spec
CONSTANTS
  Queries = {q1, q2}
  Default = "default"
  Backups = {"backup"}
  MaxRecursion = 1
  TTLStrategies = {"forever", "timed"}
  TypeStrategies = {6, 40}
  Addrs = {a1, a2}
  Tags = {t1}
  NoTag = NoTag
  Direct = Direct
  MaxLoads = 3
  MaxStarts = 2
  Headers = {h1}
  Handshakes = {c1, c2, c3}
  MaxTimeGap = 2
  AuthidDuration = 2
  SessionDuration = 3
  MaxTime = 6
  Requests = {r1, r2}
  None = None
INVARIANTS
  ListenersOfServers
CHECK_DEADLOCK FALSE
