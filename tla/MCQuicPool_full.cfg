SPECIFICATION Spec
CONSTANTS
  Requests = {r1, r2}
  Conns = {c1, c2, c3}
  None = None
  MaxStreams = 1
  Closers = 2
PROPERTY FullOpensAnother
