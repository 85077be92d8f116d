SPECIFICATION Spec
CONSTANTS
  Subs = {s1, s2}
  Base = Base
  None = None
  Carriers = {"grpc"}
  Chunks = 2
INVARIANT SubConnsKeptApart
