SPECIFICATION Pieces
CONSTANTS
  AddressSets <- SomeSets
  WotsN = 1
  WotsLOGW = 4
  WotsLEN2 = 3
  WotsMessages <- OneByte
  TallestTree = 4
  TreesOfARow = {0, 3}
  SchemeLayers = 2
  LayerHeight = 3
  ForsTrees = 2
  ForsHeight = 3
  ChainLength = 3
  ChainCount = 2
  SchemeLengths <- SomeLengths
  SchemeDigests <- SomeDigests
  WordBytes = 2
  Rate128 = 6
  Rate256 = 4
  MaxAbsorbed = 13
  MaxSqueezed = 13
  MessageLengths = {0, 1, 64, 65, 130}
  SeedChanges <- SomeChanges
INVARIANTS
  ChainsGiveTheKey
  TreesGiveTheRoot
  SignaturesAreExact
  HashesWhatTheSchemeDefines
  KeccakFollowsTheStandard
  SpongeIsOneStream
  Sha2FollowsTheStandard
  SeedIsTheColumns
PROPERTY
  AddressesHoldTheFields
\* Each part comes to an end.
CHECK_DEADLOCK FALSE
