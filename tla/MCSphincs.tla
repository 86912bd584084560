----------------------------- MODULE MCSphincs -----------------------------
(* The pieces of SPHINCS+ and of its hash functions side by side. Each is
   sequential code that shares no state with the others, so one model holds
   one piece at a time, with its variables in the slots. *)
EXTENDS Integers

CONSTANTS
  AddressSets,                           \* the parameter sets whose addresses are tried
  WotsN, WotsLOGW, WotsLEN2, WotsMessages,
  TallestTree, TreesOfARow,              \* of the Merkle trees that are built
  SchemeLayers, LayerHeight,             \* of the trees of a whole signature
  ForsTrees, ForsHeight,
  ChainLength, ChainCount,
  SchemeLengths, SchemeDigests,
  WordBytes, Rate128, Rate256,           \* of the sponge
  MaxAbsorbed, MaxSqueezed,
  MessageLengths,                        \* of messages from which a seed is made
  SeedChanges                            \* bytes in which two keys and messages differ

VARIABLES piece, u1, u2, u3, u4, u5, u6, u7, u8, u9, u10, u11, u12, u13, u14, u15, u16

(* A parameter set for each of the sizes and each of the layouts. *)
Params == INSTANCE SphincsParams
SomeSets == {Params!shake_128s, Params!haraka_192s, Params!sha2_256s}
OneByte == [{0} -> 0 .. 255]

(* Two layers of trees with eight leaves, two small trees of eight leaves for the message, two chains of three places. *)
SomeLengths == {l \in [0 .. 1 -> 0 .. 2] : l[0] + l[1] = 2}
Indices(t, leaf, first, second) ==
  [tree |-> t, idx_leaf |-> leaf, indices |-> [k \in 0 .. 1 |-> IF k = 0 THEN first ELSE second]]
SomeDigests == {Indices(5, 6, 3, 3), Indices(5, 6, 3, 4), Indices(2, 6, 0, 7), Indices(5, 1, 3, 3)}

(* All zeros, all ones, single bits, and a word that differs everywhere; each instance starts from another state. *)
Sample(kind, w) ==
  CASE kind = 0 -> {}
    [] kind = 1 -> IF w = 0 THEN {0} ELSE {}
    [] kind = 2 -> IF w = 24 THEN {63} ELSE {}
    [] kind = 3 -> 0 .. 63
    [] kind = 4 -> {i \in 0 .. 63 : ((i * (w + 3)) + (w * w)) % 7 < 3}
    [] kind = 5 -> IF w = 11 THEN {8, 31} ELSE {}
SomeStates ==
  LET words(shift) == [y \in 1 .. 5 |-> [x \in 1 .. 5 |-> [k \in 1 .. 4 |-> Sample((k + shift) % 6, (5 * (y - 1)) + x - 1)]]]
  IN  {words(shift) : shift \in {0, 3}}

(* One byte, two at the distances that the folding and the mixing have, the key, and what repeats it. *)
SomeChanges ==
  {{b} : b \in 0 .. 193} \cup {{b, b + step} : b \in 0 .. 129, step \in {1, 6, 7, 12, 13, 63, 64}}
    \cup {0 .. n : n \in {63, 126, 127, 191}} \cup {{0, 1, 65, 67, 129, 131}}

SomeOutputs == {1, 16, 24, 31, 32, 33, 48, 63, 64, 65, 96, 128, 136, 192, 200}

Address == INSTANCE SphincsAddress WITH
  Sets <- AddressSets, p <- u1, in <- u2, out <- u3, call <- u4
Wots == INSTANCE SphincsWots WITH
  N <- WotsN, LOGW <- WotsLOGW, LEN2 <- WotsLEN2, Messages <- WotsMessages, msg <- u1, build <- u2,
  start <- u3, steps <- u4, idxs <- u5, phase <- u6, i <- u7, watching <- u8, k <- u9, bufs <- u10,
  chains <- u11, out <- u12
Treehash == INSTANCE SphincsTrees WITH
  MaxHeight <- TallestTree, Trees <- TreesOfARow, build <- u1, tree_height <- u2, leaf_idx <- u3,
  idx_offset <- u4, phase <- u5, idx <- u6, h <- u7, current <- u8, stack <- u9, left_adj <- u10,
  prev_left_adj <- u11, heights <- u12, offset <- u13, root <- u14, auth_path <- u15
Hypertree == INSTANCE SphincsScheme WITH
  D <- SchemeLayers, TREE_HEIGHT <- LayerHeight, FORS_TREES <- ForsTrees, FORS_HEIGHT <- ForsHeight,
  W <- ChainLength, LEN <- ChainCount, Lengths <- SchemeLengths, Digests <- SchemeDigests, build <- u1, pc <- u2, pk <- u3, digest <- u4,
  lengths <- u5, others <- u6, signed <- u7, i <- u8, tree <- u9, idx_leaf <- u10,
  wots_addr <- u11, tree_addr <- u12, root <- u13, sig <- u14, change <- u15, verdict <- u16
Hash == INSTANCE SphincsHash WITH
  Sizes <- {16, 24, 32}, InBlocks <- {1, 2, 3}, build <- u1, robust <- u2, op <- u3, n <- u4,
  m <- u5, todo <- u6, buf <- u7, mask <- u8, data <- u9, log <- u10
Digest == INSTANCE MessageHash WITH
  Around <- 2, p <- u1, op <- u2, mlen <- u3, pc <- u4, state <- u5, buf <- u6, hashes <- u7,
  fors <- u8, tree <- u9, leaf_idx <- u10
Keccak == INSTANCE KeccakF WITH
  Starts <- SomeStates, build <- u1, round <- u2, A <- u3, C <- u4, std <- u5
Sponge == INSTANCE Sponge WITH
  W <- WordBytes, SHAKE128_RATE <- Rate128, SHAKE256_RATE <- Rate256, MaxIn <- MaxAbsorbed,
  MaxOut <- MaxSqueezed, build <- u1, r <- u2, pc <- u3, s <- u4, pos <- u5, left <- u6, ask <- u7,
  fed <- u8, out <- u9
Rounds == INSTANCE Sha2Rounds WITH
  build <- u1, blocks <- u2, left <- u3, t <- u4, s <- u5, w <- u6, state <- u7, out <- u8
Padding == INSTANCE Sha2Padding WITH
  SPX_N <- 24, Around <- 2, build <- u1, len <- u2, seeded <- u3, messages <- u4, pc <- u5,
  taken <- u6, count <- u7, absorbed <- u8, state_seeded <- u9
Mask == INSTANCE Mgf1 WITH
  Outputs <- SomeOutputs, build <- u1, outlen <- u2, i <- u3, outx <- u4, out <- u5, running <- u6
Seed == INSTANCE SlhDerandomize WITH
  Lengths <- MessageLengths, Changes <- SeedChanges, mlen <- u1, pc <- u2, combined <- u3, buffer <- u4, i <- u5,
  j <- u6, seed <- u7

ASSUME PiecesAssumption ==
  /\ Address!SetsAssumption
  /\ Wots!SizesAssumption
  /\ Treehash!SizesAssumption
  /\ Hypertree!SizesAssumption /\ Hypertree!LengthsAssumption /\ Hypertree!DigestsAssumption
  /\ Hash!HashAssumption
  /\ Digest!AroundAssumption
  /\ Sponge!RatesAssumption
  /\ Padding!PaddingAssumption
  /\ Mask!OutputsAssumption
  /\ Seed!LengthsAssumption /\ Seed!ChangesAssumption

Unused == "unused"
Unused16 == u16 = Unused
Unused15 == u15 = Unused /\ Unused16
Unused14 == u14 = Unused /\ Unused15
Unused13 == u13 = Unused /\ Unused14
Unused12 == u12 = Unused /\ Unused13
Unused11 == u11 = Unused /\ Unused12
Unused10 == u10 = Unused /\ Unused11
Unused9 == u9 = Unused /\ Unused10
Unused8 == u8 = Unused /\ Unused9
Unused7 == u7 = Unused /\ Unused8
Unused6 == u6 = Unused /\ Unused7
Unused5 == u5 = Unused /\ Unused6

PiecesInit ==
  \/ piece = "address" /\ Address!Init /\ Unused5
  \/ piece = "wots" /\ Wots!Init /\ Unused13
  \/ piece = "trees" /\ Treehash!Init /\ Unused16
  \/ piece = "hypertree" /\ Hypertree!Init
  \/ piece = "hash" /\ Hash!Init /\ Unused11
  \/ piece = "message" /\ Digest!Init /\ Unused11
  \/ piece = "keccak" /\ Keccak!Init /\ Unused6
  \/ piece = "sponge" /\ Sponge!Init /\ Unused10
  \/ piece = "rounds" /\ Rounds!Init /\ Unused9
  \/ piece = "padding" /\ Padding!Init /\ Unused10
  \/ piece = "mask" /\ Mask!Init /\ Unused7
  \/ piece = "seed" /\ Seed!Init /\ Unused8

PiecesNext ==
  \/ piece = "address" /\ Address!Next /\ UNCHANGED <<piece, u5, u6, u7, u8, u9, u10, u11, u12, u13, u14, u15, u16>>
  \/ piece = "wots" /\ Wots!Next /\ UNCHANGED <<piece, u13, u14, u15, u16>>
  \/ piece = "trees" /\ Treehash!Next /\ UNCHANGED <<piece, u16>>
  \/ piece = "hypertree" /\ Hypertree!Next /\ UNCHANGED piece
  \/ piece = "hash" /\ Hash!Next /\ UNCHANGED <<piece, u11, u12, u13, u14, u15, u16>>
  \/ piece = "message" /\ Digest!Next /\ UNCHANGED <<piece, u11, u12, u13, u14, u15, u16>>
  \/ piece = "keccak" /\ Keccak!Next /\ UNCHANGED <<piece, u6, u7, u8, u9, u10, u11, u12, u13, u14, u15, u16>>
  \/ piece = "sponge" /\ Sponge!Next /\ UNCHANGED <<piece, u10, u11, u12, u13, u14, u15, u16>>
  \/ piece = "rounds" /\ Rounds!Next /\ UNCHANGED <<piece, u9, u10, u11, u12, u13, u14, u15, u16>>
  \/ piece = "padding" /\ Padding!Next /\ UNCHANGED <<piece, u10, u11, u12, u13, u14, u15, u16>>
  \/ piece = "mask" /\ Mask!Next /\ UNCHANGED <<piece, u7, u8, u9, u10, u11, u12, u13, u14, u15, u16>>
  \/ piece = "seed" /\ Seed!Next /\ UNCHANGED <<piece, u8, u9, u10, u11, u12, u13, u14, u15, u16>>

slots == <<u1, u2, u3, u4, u5, u6, u7, u8, u9, u10, u11, u12, u13, u14, u15, u16>>
Pieces == PiecesInit /\ [][PiecesNext]_<<piece, slots>>
-----------------------------------------------------------------------------
(* The bytes of an address hold its fields and do what its functions       *)
(* promise of them; the hash functions see every field; the sizes of each  *)
(* parameter set fit together (address.c:10-104, sha2_offsets.h:9-16,      *)
(* slh_dsa.h:14-16).                                                       *)
AddressesHoldTheFields ==
  /\ piece = "address" => Address!F!Init
  /\ [][piece = "address" => Address!F!Next]_<<piece, slots>>
  /\ [](piece = "address" => Address!HashSeesEveryField /\ Address!ChecksumFits /\ Address!SizesAgree)

(* One chain after the other or many lanes at once: nothing is read past   *)
(* the end, signer and verifier get the same key, and the signature is no  *)
(* other message's (ref/wots.c:66-84, shake-avx2/wots.c:72-94).            *)
ChainsGiveTheKey == piece = "wots" => Wots!InBounds /\ Wots!SameKey /\ Wots!NoOtherMessage

(* All versions of treehash give the root and the path that the tree has,  *)
(* on a stack with room, and the verifier follows the path to that root    *)
(* (utilsx1.c:36-64, utilsx4.c:49-89, utils.c:119).                        *)
TreesGiveTheRoot ==
  piece = "trees" => /\ Treehash!StackHasRoom /\ Treehash!RootIsTheRoot
                     /\ Treehash!PathIsTheNeighbours /\ Treehash!VerifierFindsRoot

(* A signature is accepted, a changed one is not, no two hashes have the   *)
(* same address, every build signs alike (sign.c:140-235, fors.c:92-104).  *)
SignaturesAreExact ==
  piece = "hypertree" => /\ Hypertree!AcceptsWhatWasSigned /\ Hypertree!RejectsChanges
                         /\ Hypertree!NoAddressTwice /\ Hypertree!BuildsAgree

(* Every lane of every build hashes what the scheme defines, into its own  *)
(* place; messages are hashed whole and every leaf of the hypertree is as  *)
(* likely (thash_shake_robustx4.c:73, hash_sha2.c:90-184).                 *)
HashesWhatTheSchemeDefines ==
  /\ piece = "hash" => Hash!LanesHashTheScheme /\ Hash!ResultsInPlace
  /\ piece = "message" => Digest!WholeMessageOnce /\ Digest!EveryLeafReached

(* The rounds of Keccak that the code writes out by hand are those of the  *)
(* standard, in each build and instance (fips202.c:82,                     *)
(* KeccakP-1600-times4-SIMD256.c:473).                                     *)
KeccakFollowsTheStandard == piece = "keccak" => Keccak!FollowsTheStandard /\ Keccak!ParityIsCurrent

(* However input and output are cut into calls, the sponge absorbs the     *)
(* padded message and gives the one stream it has (fips202.c:379-499).     *)
SpongeIsOneStream ==
  piece = "sponge" => Sponge!AbsorbsPaddedMessage /\ Sponge!OutputIsTheStream /\ Sponge!RoomForPadding

(* SHA-2 in C and in vectors: the rounds and the padding of the standard   *)
(* on every block, and masks that are the stream of hashes and end where   *)
(* they should (sha2.c:69, 517, 634, sha256avx.c:48-183).                  *)
Sha2FollowsTheStandard ==
  /\ piece = "rounds" => Rounds!RoundsAreTheStandards /\ Rounds!EveryBlockAbsorbed /\ Rounds!LanesSeparate
  /\ piece = "padding" => Padding!HashesThePaddedMessage
  /\ piece = "mask" => Mask!MasksAreTheStream /\ Mask!NothingBehind

(* The seed of an SLH-DSA signature hangs on the columns of key and        *)
(* message and on nothing else; it is a constant only without memory, and  *)
(* the copy of the key is wiped (slh_dsa/utils.c:107-126).                 *)
SeedIsTheColumns == piece = "seed" => Seed!SeedIsTheColumns
=============================================================================
