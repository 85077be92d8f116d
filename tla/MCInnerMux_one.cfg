SPECIFICATION Spec
CONSTANTS
  Requests = {r1, r2, r3}
  None = None
INVARIANT OneInnerMux
