SPECIFICATION Spec
CONSTANTS
  Peers = {p1, p2}
  Datagrams = {1, 2, 3}
  Backlog = 1
  InCap = 1
  Addrs = {a1, a2}
  Writes = {1, 2}
  Base = Base
  ChanCap = 1
  Writers = {w1, w2}
  Closers = {k1}
  MaxSets = 2
  Senders = {p1}
  Arrivals = {1, 2, 3}
  ReadCap = 1
  None = None
INVARIANTS
  NoOrphan
  CrashOnlyWhenClosed
  MapInjective
PROPERTIES
  Released
  DeadlineWakes
CHECK_DEADLOCK FALSE
