SPECIFICATION Bindings
CONSTANTS
  Blocks = {b1, b2, b3, b4}
  Randoms = {r1, r2}
  NotAScalar = {r2}
  Null = Null
  MaxSigned = 1
  Messages <- MessageSet
  Pairs = {"k1", "k2"}
  ScriptRandoms = {"r1", "r2"}
  ScriptMessages = {"m1", "m2"}
SYMMETRY Interchangeable
INVARIANTS
  NothingLeaks
  OnlyConversionsLeaveSecrets
  VerifiesWhatWasSigned
  ScriptsVerifyWhatWasSigned
\* A caller may stop.
CHECK_DEADLOCK FALSE
