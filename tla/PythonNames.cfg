SPECIFICATION Spec
CONSTANTS
  Pairs = {k1, k2}
  Randoms = {r1, r2}
  Messages = {m1, m2}
INVARIANT PythonNamesAreTheC
CHECK_DEADLOCK FALSE
