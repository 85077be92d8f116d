SPECIFICATION Spec
CONSTANTS
  Addrs = {a1, a2}
  First = a1
  Rcs = {c0, c1, c2}
  Rc0 = c0
  None = None
INVARIANT OwnTarget
