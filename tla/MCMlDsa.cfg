SPECIFICATION Parts
CONSTANTS
  Divisor = 88
  Beta = 78
  Radius = 2
  Coefficients <- MCCoefficients
  Secrets <- MCSecrets
  Errors <- MCErrors
  OtherDivisor = 32
  OtherBeta = 196
  OtherCoefficients <- MCOtherCoefficients
  OtherSecrets <- MCOtherSecrets
  OtherErrors <- MCOtherErrors
  HintsN = 5
  HintsK = 2
  HintsOMEGA = 3
  SignatureBytes = 2
  MaxMessage = 3
  MaxContextLength = 2
  MemoryBytes = {1, 2}
  NonceWidth = 32
  MaskWidth = 128
  VectorLengths = {4, 5, 7}
  SampledN = 6
  SampledLanes = 2
  SampledPolys = 2
  SampledBuilds = {"ref", "avx2", "x4"}
  SampledRates <- SmallRates
  SampledBlocks <- SmallBlocks
  SampledPatterns <- SmallPatterns
  ChallengeN = 5
  ChallengeTAU = 3
  ChallengeRATE = 3
  ChallengeSIGNBYTES = 1
  ChallengeSIGNS = 4
  ChallengeBYTE = 8
INVARIANTS
  HintRecovers
  LanesAgree
  RoundingInEveryMode
  PackingIsExact
  HintsAreExact
  OpensWhatWasSigned
  SignersAndVerifiersAgree
  NoncesAreFresh
  SamplesTheReference
  ChallengeIsUniform
  CoefficientsStayInRange
\* Each part comes to an end.
CHECK_DEADLOCK FALSE
