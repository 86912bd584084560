SPECIFICATION Spec
CONSTANTS
  Keypairs = {k1, k2}
  Signatures = {s1}
  Blocks = {b1, b2, b3, b4, b5}
  Randoms = {r1, r2}
  Messages = {m1}
  Null = Null
  Reuse = FALSE
SYMMETRY Interchangeable
INVARIANTS
  DescribesBlocks
  OneOwner
  NoLeak
  FreedIsBlank
  VerifiedWasSigned
PROPERTY
  FailureChangesNothing
