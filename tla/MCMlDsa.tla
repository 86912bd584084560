------------------------------ MODULE MCMlDsa ------------------------------
(* The parts of ML-DSA side by side. Each is sequential code that shares no state with the others, so one model
   holds one part at a time: the rounding of mode 2 in the variables of MlDsaRounding, any other in the slots. *)
EXTENDS MlDsaRounding

CONSTANTS
  Radius,                                    \* how far from a value where the splitting changes
  OtherDivisor, OtherBeta, OtherCoefficients, OtherSecrets, OtherErrors,   \* the rounding of modes 3 and 5
  HintsN, HintsK, HintsOMEGA,
  SignatureBytes, MaxMessage, MaxContextLength, MemoryBytes,               \* of signed messages
  NonceWidth, MaskWidth, VectorLengths,                                    \* of the nonces of attempts
  SampledN, SampledLanes, SampledPolys, SampledBuilds, SampledRates, SampledBlocks, SampledPatterns,
  ChallengeN, ChallengeTAU, ChallengeRATE, ChallengeSIGNBYTES, ChallengeSIGNS, ChallengeBYTE

VARIABLES part, v1, v2, v3, v4, v5, v6, v7, v8, v9, v10, v11, v12, v13, v14

(* The rounding around every value where it splits differently. *)
Edges(divisor, beta) ==
  LET gamma2 == (Q - 1) \div divisor
  IN  {x \in {k * gamma2 + d : k \in 0 .. divisor, d \in -Radius .. Radius} : 0 <= x /\ x < Q}
      \cup {x \in {k * gamma2 + s * (beta + d) : k \in 0 .. divisor, s \in {-1, 1}, d \in -1 .. 1} : 0 <= x /\ x < Q}
Offsets(divisor, beta) ==
  {s * ((Q - 1) \div divisor - d) : s \in {-1, 1}, d \in 0 .. 2 + Radius} \cup {-beta, -1, 0, 1, beta}
  \cup {255 * 8388608 + 4194303, -255 * 8388608 - 4194304, Q, -Q}
MCCoefficients == Edges(Divisor, Beta)
MCSecrets == {-Beta, -1, 0, 1, Beta}
MCErrors == Offsets(Divisor, Beta)
MCOtherCoefficients == Edges(OtherDivisor, OtherBeta)
MCOtherSecrets == {-OtherBeta, -1, 0, 1, OtherBeta}
MCOtherErrors == Offsets(OtherDivisor, OtherBeta)

(* Keys of the small schemes: one coefficient and two rows, two coefficients and one row. *)
MatricesColumn == {[r \in 0 .. 1 |-> [j \in {0} |-> [k \in {0} |-> IF r = 0 THEN a ELSE b]]] : a \in {5, 18}, b \in {0, 29}}
MatrixWide == {[r \in {0} |-> [j \in {0} |-> [k \in 0 .. 1 |-> 18 + 7 * k]]]}
SecretsWide(s) == {[j \in {0} |-> [k \in 0 .. 1 |-> IF k = 0 THEN -s ELSE s]], [j \in {0} |-> [k \in 0 .. 1 |-> s]]}

(* Blocks of 6 and 7 bytes for matrices, the second with bytes left over; of 5 for secrets. *)
SmallRates == [uniform |-> {6, 7}, eta |-> {5}]
SmallBlocks == [uniform |-> 4, eta |-> 1]
SmallPatterns == SUBSET {0, 2, 3, 5, 8, 9}

Rounding32 == INSTANCE MlDsaRounding WITH
  Divisor <- OtherDivisor, Beta <- OtherBeta, Coefficients <- OtherCoefficients,
  Secrets <- OtherSecrets, Errors <- OtherErrors, stage <- v1, w <- v2, w1 <- v3, w0 <- v4,
  sent <- v5, hint <- v6, recovered <- v7
Packing == INSTANCE MlDsaPacking WITH
  Modes <- {2, 3, 5}, mode <- v1, object <- v2, packer <- v3, unpacker <- v4, phase <- v5,
  step <- v6, offset <- v7, buffer <- v8, found <- v9
Hints == INSTANCE MlDsaHints WITH
  N <- HintsN, K <- HintsK, OMEGA <- HintsOMEGA, route <- v1, phase <- v2, i <- v3, j <- v4,
  k <- v5, sig <- v6, h <- v7, first <- v8
Signed == INSTANCE SignedMessage WITH
  BYTES <- SignatureBytes, MaxLength <- MaxMessage, MaxContext <- MaxContextLength,
  Values <- MemoryBytes, scheme <- v1, message <- v2, ctx <- v8, mem <- v4, m <- v5, mlen <- v6,
  smlen <- v7, pc <- v3, i <- v9, ret <- v10, openctx <- v11
Scheme == INSTANCE MlDsaScheme WITH
  N <- 1, K <- 2, L <- 1, Q <- 41, D <- 3, ETA <- 1, GAMMA1 <- 4, GAMMA2 <- 4, OMEGA <- 1,
  Matrices <- MatricesColumn, Secrets1 <- [{0} -> [{0} -> -1 .. 1]],
  Secrets2 <- [{0, 1} -> [{0} -> -1 .. 1]], Messages <- {"m1", "m2"}, Junk <- 1, key <- v1,
  mu <- v2, pc <- v3, y <- v4, w1 <- v5, w0 <- v6, z <- v7, sig <- v8, avx <- v9, i <- v10,
  pos <- v11, low <- v12, hint <- v13
WideScheme == INSTANCE MlDsaScheme WITH
  N <- 2, K <- 1, L <- 1, Q <- 41, D <- 3, ETA <- 1, GAMMA1 <- 4, GAMMA2 <- 4, OMEGA <- 2,
  Matrices <- MatrixWide, Secrets1 <- SecretsWide(-1), Secrets2 <- SecretsWide(1),
  Messages <- {"m1", "m2"}, Junk <- 1, key <- v1, mu <- v2, pc <- v3, y <- v4, w1 <- v5, w0 <- v6,
  z <- v7, sig <- v8, avx <- v9, i <- v10, pos <- v11, low <- v12, hint <- v13
Rejection == INSTANCE MlDsaRejection WITH
  Width <- NonceWidth, Wide <- MaskWidth, Vectors <- VectorLengths, L <- v1, accepted <- v2, pc <- v3, nonce <- v4,
  nonceAvx <- v5, polys <- v6, polysAvx <- v7, used <- v8, attempts <- v9
Matrix == INSTANCE MlDsaMatrix WITH
  K <- v1, L <- v2, rows <- v3, i <- v4, pc <- v5, call <- v6, n <- v7, mem <- v8
Sampling == INSTANCE MlDsaSampling WITH
  N <- SampledN, LANES <- SampledLanes, Polys <- SampledPolys, Builds <- SampledBuilds,
  Rates <- SampledRates, Blocks <- SampledBlocks, Patterns <- SampledPatterns, kind <- v1, build <- v2,
  rate <- v3, bad <- v12, pc <- v5, p <- v6, squeezed <- v7, buf <- v8, buflen <- v9, a <- v10,
  ctr <- v11, pos <- v4, step <- v13, stores <- v14
Challenge == INSTANCE MlDsaChallenge WITH
  N <- ChallengeN, TAU <- ChallengeTAU, RATE <- ChallengeRATE, SIGNBYTES <- ChallengeSIGNBYTES,
  SIGNS <- ChallengeSIGNS, BYTE <- ChallengeBYTE, i <- v1, c <- v2, signs <- v3,
  pos <- v4, uses <- v5, draws <- v6, drawn <- v7
Ranges == INSTANCE MlDsaRanges WITH
  mode <- v1, build <- v2, call <- v3, pc <- v4, level <- v5, range <- v6, entry <- v7

ASSUME PartsAssumption ==
  /\ Rounding32!DivisorAssumption /\ Rounding32!BetaAssumption /\ Rounding32!CoefficientsAssumption
  /\ Rounding32!SecretsAssumption /\ Rounding32!ErrorsAssumption
  /\ Packing!ModesAssumption
  /\ Hints!SizesAssumption
  /\ Signed!SizesAssumption
  /\ Scheme!SizesAssumption /\ Scheme!ModulusAssumption
  /\ WideScheme!SizesAssumption /\ WideScheme!ModulusAssumption
  /\ Rejection!WidthsAssumption /\ Rejection!VectorsAssumption
  /\ Sampling!SizesAssumption /\ Sampling!BuildsAssumption /\ Sampling!PatternsAssumption
  /\ Challenge!SizesAssumption

Idle == "idle"
Idle14 == v14 = Idle
Idle13 == v13 = Idle /\ Idle14
Idle12 == v12 = Idle /\ Idle13
Idle11 == v11 = Idle /\ Idle12
Idle10 == v10 = Idle /\ Idle11
Idle9 == v9 = Idle /\ Idle10
Idle8 == v8 = Idle /\ Idle9
Idle7 == v7 = Idle /\ Idle8
Idle6 == v6 = Idle /\ Idle7
Idle5 == v5 = Idle /\ Idle6
Idle4 == v4 = Idle /\ Idle5
Idle3 == v3 = Idle /\ Idle4
Idle2 == v2 = Idle /\ Idle3
Idle1 == v1 = Idle /\ Idle2

cells == <<v1, v2, v3, v4, v5, v6, v7, v8, v9, v10, v11, v12, v13, v14>>

PartsInit ==
  \/ part = "rounding" /\ Init /\ Idle1
  \/ part = "rounding32" /\ Rounding32!Init /\ Idle8 /\ Init
  \/ part = "packing" /\ Packing!Init /\ Idle10 /\ Init
  \/ part = "hints" /\ Hints!Init /\ Idle9 /\ Init
  \/ part = "signed" /\ Signed!Init /\ Idle12 /\ Init
  \/ part = "scheme" /\ Scheme!Init /\ Idle14 /\ Init
  \/ part = "wide" /\ WideScheme!Init /\ Idle14 /\ Init
  \/ part = "rejection" /\ Rejection!Init /\ Idle10 /\ Init
  \/ part = "matrix" /\ Matrix!Init /\ Idle9 /\ Init
  \/ part = "sampling" /\ Sampling!Init /\ Init
  \/ part = "challenge" /\ Challenge!Init /\ Idle8 /\ Init
  \/ part = "ranges" /\ Ranges!Init /\ Idle8 /\ Init

PartsNext ==
  \/ part = "rounding" /\ Next /\ UNCHANGED <<part, cells>>
  \/ part = "rounding32" /\ Rounding32!Next /\ UNCHANGED <<part, vars, v8, v9, v10, v11, v12, v13, v14>>
  \/ part = "packing" /\ Packing!Next /\ UNCHANGED <<part, vars, v10, v11, v12, v13, v14>>
  \/ part = "hints" /\ Hints!Next /\ UNCHANGED <<part, vars, v9, v10, v11, v12, v13, v14>>
  \/ part = "signed" /\ Signed!Next /\ UNCHANGED <<part, vars, v12, v13, v14>>
  \/ part = "scheme" /\ Scheme!Next /\ UNCHANGED <<part, vars, v14>>
  \/ part = "wide" /\ WideScheme!Next /\ UNCHANGED <<part, vars, v14>>
  \/ part = "rejection" /\ Rejection!Next /\ UNCHANGED <<part, vars, v10, v11, v12, v13, v14>>
  \/ part = "matrix" /\ Matrix!Next /\ UNCHANGED <<part, vars, v9, v10, v11, v12, v13, v14>>
  \/ part = "sampling" /\ Sampling!Next /\ UNCHANGED <<part, vars>>
  \/ part = "challenge" /\ Challenge!Place /\ UNCHANGED <<part, vars, v8, v9, v10, v11, v12, v13, v14>>
  \/ part = "ranges" /\ Ranges!Next /\ UNCHANGED <<part, vars, v8, v9, v10, v11, v12, v13, v14>>

Parts == PartsInit /\ [][PartsNext]_<<part, vars, cells>>
-----------------------------------------------------------------------------
(* In the modes with the other GAMMA2, too, one hint bit gives the verifier *)
(* the high bits, and in every mode the two parts of a coefficient say      *)
(* which value was split (rounding.c:6-102).                                *)
RoundingInEveryMode ==
  /\ part = "rounding" => SplitsExactly
  /\ part = "rounding32" => Rounding32!HintRecovers /\ Rounding32!SplitsExactly /\ Rounding32!LanesAgree

(* Keys and signatures come back bit by bit from the places they were put  *)
(* at, of either build; no bit is lost and no place used twice             *)
(* (packing.c:8-237, poly.c:523-876, avx2/poly.c:1005-1128).               *)
PackingIsExact ==
  part = "packing" => /\ Packing!ReadsBack
                      /\ Packing!FillsExactly
                      /\ Packing!PacksInARow
                      /\ Packing!VectorCodeAgrees

(* Hints come back from their bytes, the list does not run into the counts *)
(* behind it, and no accepted bytes are a second way to write some hints   *)
(* (packing.c:170-236).                                                    *)
HintsAreExact == part = "hints" => Hints!HintsAreExact

(* A signed message has the message and its signature also where they      *)
(* overlap; only what was signed is opened; of the rest no byte is left    *)
(* (dilithium/ref/sign.c:245, 389-392, 438-440).                           *)
OpensWhatWasSigned == part = "signed" => Signed!OpensWhatWasSigned

(* What either signer writes both verifiers accept; the signers reject the *)
(* same attempts and write the same bytes; z could be from any key.  On    *)
(* what others wrote the verifiers differ where z is too long or a hint    *)
(* stands at a low part of 0, in the way VerifiersDiffer says, and nowhere *)
(* else (sign.c:146-183, 314-344, avx2/sign.c:278, 405-427).               *)
SignersAndVerifiersAgree ==
  /\ part = "scheme" => /\ Scheme!AcceptsWhatWasSigned /\ Scheme!SignersAgree
                        /\ Scheme!EveryKeyExplainsZ /\ Scheme!VerifiersDiffer
  /\ part = "wide" => WideScheme!SignersAgree /\ WideScheme!VerifiersDiffer

(* While its 16 bits last the nonce gives every attempt new polynomials,   *)
(* and both builds the same (polyvec.c:46, avx2/sign.c:204).               *)
NoncesAreFresh == part = "rejection" => Rejection!NoncesAreFresh

(* The vector code samples the reference's polynomials, from the same      *)
(* bytes and within its arrays, and multiplies the rows of the same matrix *)
(* (ref/poly.c:359, avx2/rejsample.c:291-324, avx2/sign.c:13).             *)
SamplesTheReference ==
  /\ part = "sampling" => Sampling!FirstAccepted /\ Sampling!StoresInBounds
  /\ part = "matrix" => Matrix!RowIsTheMatrix /\ Matrix!MatrixStays

(* A challenge has TAU coefficients 1 or -1, any places as likely as any   *)
(* others, each with a sign and a byte of its own (ref/poly.c:503-519).    *)
ChallengeIsUniform ==
  part = "challenge" => /\ Challenge!HasWeight
                        /\ Challenge!AllPlacesAlike
                        /\ Challenge!SignsSpent
                        /\ Challenge!EachByteOnce

(* In every mode, for whatever bytes the keys and the signature have,      *)
(* coefficients that are not reduced keep to their 32 bits and to what the *)
(* next function takes, and those of a transform to what is documented     *)
(* (reduce.c:5-51, ntt.c:72-77, polyvec.c:76).                             *)
CoefficientsStayInRange ==
  part = "ranges" => Ranges!OperandsFit /\ Ranges!TransformsAsDocumented
=============================================================================
