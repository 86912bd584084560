---------------------------- MODULE PartsProofs ----------------------------
(***************************************************************************)
(* The parts side by side (MCMlDsa, MCSphincs): what is proved of a part   *)
(* holds of the model that has all of them.  Each theorem has the same     *)
(* four steps: where the part is the one that the model holds, the initial *)
(* states and the steps are those of the part, and it stays the one;       *)
(* where it is another one it stays that; so that the part behaves as it   *)
(* does alone, and its theorem gives the property.                         *)
(*                                                                         *)
(* The modules of proofs are instantiated with the constants and the slots *)
(* of the models.  They define the parts as the models do, under other     *)
(* names, which is what the lemmas say.                                    *)
(***************************************************************************)
EXTENDS MCMlDsa, MCSphincs, TLAPS

(* ---- Where the proofs are: with the constants and the slots of MCMlDsa. ---- *)
Polynomial == INSTANCE MlDsaPolynomialProofs WITH
  K <- v1, L <- v2, rows <- v3, line <- v4, at <- v5, call <- v6, unpacking <- v7, mem <- v8,
  N <- SampledN, LANES <- SampledLanes, Polys <- SampledPolys, Builds <- SampledBuilds,
  Rates <- SampledRates, Blocks <- SampledBlocks, Patterns <- SampledPatterns, kind <- v1,
  build <- v2, rate <- v3, bad <- v12, pc <- v5, p <- v6, squeezed <- v7, buf <- v8, buflen <- v9,
  a <- v10, ctr <- v11, pos <- v4, step <- v13, stores <- v14,
  TAU <- 0, RATE <- 0, SIGNBYTES <- 0, SIGNS <- 0, BYTE <- 0, filling <- v1, c <- v2, signs <- v3,
  uses <- v5, draws <- v6, drawn <- v7

(* The challenge is another polynomial than those that are sampled, and *)
(* the rounding the one of the other modes. *)
Other == INSTANCE MlDsaPolynomialProofs WITH
  Divisor <- OtherDivisor, Beta <- OtherBeta, Coefficients <- OtherCoefficients,
  Secrets <- OtherSecrets, Errors <- OtherErrors, stage <- v1, w <- v2, w1 <- v3, w0 <- v4,
  sent <- v5, hint <- v6, recovered <- v7,
  K <- v1, L <- v2, rows <- v3, line <- v4, at <- v5, call <- v6, unpacking <- v7, mem <- v8,
  N <- ChallengeN, LANES <- SampledLanes, Polys <- SampledPolys, Builds <- SampledBuilds,
  Rates <- SampledRates, Blocks <- SampledBlocks, Patterns <- SampledPatterns, kind <- v1,
  build <- v2, rate <- v3, bad <- v12, pc <- v5, p <- v6, squeezed <- v7, buf <- v8, buflen <- v9,
  a <- v10, ctr <- v11, pos <- v4, step <- v13, stores <- v14,
  TAU <- ChallengeTAU, RATE <- ChallengeRATE, SIGNBYTES <- ChallengeSIGNBYTES,
  SIGNS <- ChallengeSIGNS, BYTE <- ChallengeBYTE, filling <- v1, c <- v2, signs <- v3,
  uses <- v5, draws <- v6, drawn <- v7

(* The random-data source is no part of the model: any numbers do for it. *)
MlDsa == INSTANCE MlDsaProofs WITH
  BufferSizes <- {1}, RequestSizes <- {1}, SizeMod <- 2,
  g_random_data <- v1, g_random_data_size <- v2, g_random_data_offset <- v4, out <- v5,
  outlen <- v6, total_copied <- v7, delivered <- v8, start <- v9,
  N <- HintsN, K <- HintsK, OMEGA <- HintsOMEGA, route <- v1, phase <- v2, i <- v3, j <- v4,
  k <- v5, sig <- v6, h <- v7, first <- v8,
  BYTES <- SignatureBytes, MaxLength <- MaxMessage, MaxContext <- MaxContextLength,
  Values <- MemoryBytes, scheme <- v1, message <- v2, ctx <- v8, mem <- v4, at <- v5, mlen <- v6,
  smlen <- v7, pc <- v3, n <- v9, ret <- v10, openctx <- v11,
  Width <- NonceWidth, Wide <- MaskWidth, Vectors <- VectorLengths, L <- v1, accepted <- v2,
  nonce <- v4, nonceAvx <- v5, polys <- v6, polysAvx <- v7, used <- v8, attempts <- v9

-----------------------------------------------------------------------------
(* The assumptions that the modules of proofs make on their constants. *)
LEMMA PolynomialConstants ==
  /\ Polynomial!Q = Q /\ Other!Q = Q
  /\ Divisor \in {32, 88} /\ Beta \in 0 .. 256 /\ Coefficients \subseteq 0 .. Q - 1
  /\ Secrets \subseteq -Beta .. Beta /\ Errors \subseteq Int
  /\ OtherDivisor \in {32, 88} /\ OtherBeta \in 0 .. 256 /\ OtherCoefficients \subseteq 0 .. Q - 1
  /\ OtherSecrets \subseteq -OtherBeta .. OtherBeta /\ OtherErrors \subseteq Int
<1>1. Polynomial!Q = Q /\ Other!Q = Q /\ Rounding32!Q = Q  BY SMTT(60) DEF Polynomial!Q, Other!Q, Rounding32!Q, Q
<1>2. /\ OtherDivisor \in {32, 88} /\ OtherBeta \in 0 .. 256 /\ OtherCoefficients \subseteq 0 .. Rounding32!Q - 1
      /\ OtherSecrets \subseteq -OtherBeta .. OtherBeta /\ OtherErrors \subseteq Int
  BY PartsAssumption, ZenonT(60) DEF Rounding32!DivisorAssumption, Rounding32!BetaAssumption,
     Rounding32!CoefficientsAssumption, Rounding32!SecretsAssumption, Rounding32!ErrorsAssumption
<1> QED
  BY <1>1, <1>2, DivisorAssumption, BetaAssumption, CoefficientsAssumption, SecretsAssumption,
     ErrorsAssumption

LEMMA SourceConstants ==
  /\ {1} \subseteq Nat \ {0} /\ {1} \subseteq Nat
  /\ 2 \in Nat /\ \A n_ \in {1} \cup {1} : n_ < 2
  OBVIOUS

(***************************************************************************)
(* The parts of ML-DSA are those the proofs are about.                     *)
(***************************************************************************)
(* Rounding in mode 2. *)
LEMMA SameRounding ==
  /\ Init => Polynomial!Init
  /\ [Next]_vars => [Polynomial!Next]_Polynomial!vars
  /\ Polynomial!SplitsExactly => SplitsExactly
<1>1. Init => Polynomial!Init
  BY SMTT(60) DEF
    Init, Polynomial!Init
<1>2. [Next]_vars => [Polynomial!Next]_Polynomial!vars
  BY SMTT(60) DEF
    Next, Polynomial!Next, vars, Polynomial!vars, Commit, Polynomial!Commit, Respond,
    Polynomial!Respond, Recover, Polynomial!Recover, decompose, Polynomial!decompose, reduce32,
    Polynomial!reduce32, chknorm, Polynomial!chknorm, GAMMA2, Polynomial!GAMMA2, make_hint,
    Polynomial!make_hint, Q, Polynomial!Q, use_hint, Polynomial!use_hint, HighBits,
    Polynomial!HighBits, Levels, Polynomial!Levels
<1>3. Polynomial!SplitsExactly => SplitsExactly
  BY SMTT(60) DEF
    SplitsExactly, Polynomial!SplitsExactly, decompose, Polynomial!decompose, power2round,
    Polynomial!power2round, GAMMA2, Polynomial!GAMMA2, Q, Polynomial!Q, HighBits,
    Polynomial!HighBits
<1> QED BY <1>1, <1>2, <1>3

(* Rounding in modes 3 and 5. *)
LEMMA SameRounding32 ==
  /\ Rounding32!Init => Other!Init
  /\ [Rounding32!Next]_Rounding32!vars => [Other!Next]_Other!vars
  /\ Other!HintRecovers => Rounding32!HintRecovers
  /\ Other!SplitsExactly => Rounding32!SplitsExactly
  /\ Other!LanesAgree => Rounding32!LanesAgree
<1>1. Rounding32!Init => Other!Init
  BY SMTT(60) DEF
    Rounding32!Init, Other!Init
<1>2. [Rounding32!Next]_Rounding32!vars => [Other!Next]_Other!vars
  BY SMTT(60) DEF
    Rounding32!Next, Other!Next, Rounding32!vars, Other!vars, Rounding32!Commit, Other!Commit,
    Rounding32!Respond, Other!Respond, Rounding32!Recover, Other!Recover, Rounding32!decompose,
    Other!decompose, Rounding32!reduce32, Other!reduce32, Rounding32!chknorm, Other!chknorm,
    Rounding32!GAMMA2, Other!GAMMA2, Rounding32!make_hint, Other!make_hint, Rounding32!Q, Other!Q,
    Rounding32!use_hint, Other!use_hint, Rounding32!HighBits, Other!HighBits, Rounding32!Levels,
    Other!Levels
<1>3. Other!HintRecovers => Rounding32!HintRecovers
  BY SMTT(60) DEF Rounding32!HintRecovers, Other!HintRecovers
<1>4. Other!Q = Rounding32!Q /\ Other!GAMMA2 = Rounding32!GAMMA2 /\ Other!Levels = Rounding32!Levels
  BY SMTT(60) DEF Rounding32!Q, Other!Q, Rounding32!GAMMA2, Other!GAMMA2, Rounding32!Levels, Other!Levels
<1>5. \A x : Other!HighBits(x) = Rounding32!HighBits(x) /\ Other!power2round(x) = Rounding32!power2round(x)
  BY SMTT(60) DEF Rounding32!HighBits, Other!HighBits, Rounding32!power2round, Other!power2round
<1>6. \A x : Other!HighBits_avx(x) = Rounding32!HighBits_avx(x)
  BY SMTT(60) DEF Rounding32!HighBits_avx, Other!HighBits_avx, Rounding32!mulhrs, Other!mulhrs,
             Rounding32!mulhi, Other!mulhi
<1>7. \A x : Other!power2round_avx(x) = Rounding32!power2round_avx(x)
  BY SMTT(60) DEF Rounding32!power2round_avx, Other!power2round_avx
<1>8. \A x : Other!decompose(x) = Rounding32!decompose(x)
  BY <1>4, <1>5, SMTT(60) DEF Rounding32!decompose, Other!decompose
<1>9. \A x : Other!decompose_avx(x) = Rounding32!decompose_avx(x)
  BY <1>4, <1>6, SMTT(60) DEF Rounding32!decompose_avx, Other!decompose_avx
<1>10. \A x, y : Other!make_hint_avx(x, y) = Rounding32!make_hint_avx(x, y)
  BY <1>4, SMTT(60) DEF Rounding32!make_hint_avx, Other!make_hint_avx
<1>11. \A x, y : Other!use_hint(x, y) = Rounding32!use_hint(x, y)
  BY <1>4, <1>8, SMTT(60) DEF Rounding32!use_hint, Other!use_hint
<1>12. \A x, y : Other!use_hint_avx(x, y) = Rounding32!use_hint_avx(x, y)
  BY <1>4, <1>9, SMTT(60) DEF Rounding32!use_hint_avx, Other!use_hint_avx
<1>13. Other!SplitsExactly => Rounding32!SplitsExactly
  BY <1>4, <1>5, <1>8, SMTT(60) DEF Rounding32!SplitsExactly, Other!SplitsExactly
<1>14. Other!LanesAgree => Rounding32!LanesAgree
  BY <1>5, <1>7, <1>8, <1>9, <1>10, <1>11, <1>12, ZenonT(60) DEF Rounding32!LanesAgree, Other!LanesAgree
<1> QED BY <1>1, <1>2, <1>3, <1>13, <1>14

(* The bytes of the hints. *)
LEMMA SameHints ==
  /\ Hints!Init => MlDsa!Hints!Init
  /\ [Hints!Next]_Hints!vars => [MlDsa!Hints!Next]_MlDsa!Hints!vars
  /\ MlDsa!Hints!HintsAreExact => Hints!HintsAreExact
<1>1. Hints!Init => MlDsa!Hints!Init
  BY ZenonT(60) DEF
    Hints!Init, MlDsa!Hints!Init, Hints!Polys, MlDsa!Hints!Polys, Hints!Byte, MlDsa!Hints!Byte,
    Hints!FewEnough, MlDsa!Hints!FewEnough, Hints!Cardinality, MlDsa!Hints!Cardinality, Hints!Zeros,
    MlDsa!Hints!Zeros, Hints!Places, MlDsa!Hints!Places, Hints!Empty, MlDsa!Hints!Empty, Hints!Ones,
    MlDsa!Hints!Ones
<1>2. [Hints!Next]_Hints!vars => [MlDsa!Hints!Next]_MlDsa!Hints!vars
  BY ZenonT(60) DEF
    Hints!Next, MlDsa!Hints!Next, Hints!vars, MlDsa!Hints!vars, Hints!PackCoefficient,
    MlDsa!Hints!PackCoefficient, Hints!PackEnd, MlDsa!Hints!PackEnd, Hints!UnpackCount,
    MlDsa!Hints!UnpackCount, Hints!UnpackPlace, MlDsa!Hints!UnpackPlace, Hints!UnpackNext,
    MlDsa!Hints!UnpackNext, Hints!UnpackEnd, MlDsa!Hints!UnpackEnd, Hints!Reject, MlDsa!Hints!Reject,
    Hints!CountFits, MlDsa!Hints!CountFits, Hints!OutOfOrder, MlDsa!Hints!OutOfOrder, Hints!Cleared,
    MlDsa!Hints!Cleared, Hints!RestIsZero, MlDsa!Hints!RestIsZero, Hints!Zeros, MlDsa!Hints!Zeros,
    Hints!Places, MlDsa!Hints!Places
<1>3. MlDsa!Hints!HintsAreExact => Hints!HintsAreExact
  BY ZenonT(60) DEF
    Hints!HintsAreExact, MlDsa!Hints!HintsAreExact, Hints!ListStaysShort, MlDsa!Hints!ListStaysShort,
    Hints!AcceptsWhatItPacks, MlDsa!Hints!AcceptsWhatItPacks, Hints!OneEncoding, MlDsa!Hints!OneEncoding
<1> QED BY <1>1, <1>2, <1>3

(* Signed messages. *)
LEMMA SameSigned ==
  /\ Signed!Init => MlDsa!Signed!Init
  /\ [Signed!Next]_Signed!vars => [MlDsa!Signed!Next]_MlDsa!Signed!vars
  /\ MlDsa!Signed!OpensWhatWasSigned => Signed!OpensWhatWasSigned
<1>1. Signed!Init => MlDsa!Signed!Init
  BY ZenonT(60) DEF
    Signed!Init, MlDsa!Signed!Init, Signed!Messages, MlDsa!Signed!Messages, Signed!Contexts,
    MlDsa!Signed!Contexts, Signed!Apart, MlDsa!Signed!Apart, Signed!Size, MlDsa!Signed!Size,
    Signed!Cell, MlDsa!Signed!Cell, Signed!Zero, MlDsa!Signed!Zero, Signed!Strings, MlDsa!Signed!Strings
<1>2. [Signed!Next]_Signed!vars => [MlDsa!Signed!Next]_MlDsa!Signed!vars
  BY ZenonT(60) DEF
    Signed!Next, MlDsa!Signed!Next, Signed!vars, MlDsa!Signed!vars, Signed!CopyUp, MlDsa!Signed!CopyUp,
    Signed!SignDilithium, MlDsa!Signed!SignDilithium, Signed!SignSphincs, MlDsa!Signed!SignSphincs,
    Signed!Deliver, MlDsa!Signed!Deliver, Signed!Open, MlDsa!Signed!Open, Signed!Give,
    MlDsa!Signed!Give, Signed!Wipe, MlDsa!Signed!Wipe, Signed!signing, MlDsa!Signed!signing,
    Signed!TooLong, MlDsa!Signed!TooLong, Signed!Put, MlDsa!Signed!Put, Signed!Signature,
    MlDsa!Signed!Signature, Signed!pre, MlDsa!Signed!pre, Signed!Bytes, MlDsa!Signed!Bytes,
    Signed!Apart, MlDsa!Signed!Apart, Signed!Zero, MlDsa!Signed!Zero, Signed!Messages,
    MlDsa!Signed!Messages, Signed!Contexts, MlDsa!Signed!Contexts, Signed!Cell, MlDsa!Signed!Cell,
    Signed!Verified, MlDsa!Signed!Verified, Signed!ToWipe, MlDsa!Signed!ToWipe, Signed!Size,
    MlDsa!Signed!Size, Signed!Strings, MlDsa!Signed!Strings
<1>3. MlDsa!Signed!OpensWhatWasSigned => Signed!OpensWhatWasSigned
  BY ZenonT(60) DEF
    Signed!OpensWhatWasSigned, MlDsa!Signed!OpensWhatWasSigned, Signed!SignsTheMessage,
    MlDsa!Signed!SignsTheMessage, Signed!OnlyWhatWasSigned, MlDsa!Signed!OnlyWhatWasSigned,
    Signed!NothingIsLeft, MlDsa!Signed!NothingIsLeft, Signed!Bytes, MlDsa!Signed!Bytes, Signed!pre,
    MlDsa!Signed!pre, Signed!Zero, MlDsa!Signed!Zero, Signed!Cell, MlDsa!Signed!Cell
<1> QED BY <1>1, <1>2, <1>3

(* The nonces of attempts. *)
LEMMA SameRejection ==
  /\ Rejection!Init => MlDsa!Rejection!Init
  /\ [Rejection!Next]_Rejection!vars => [MlDsa!Rejection!Next]_MlDsa!Rejection!vars
  /\ MlDsa!Rejection!NoncesAreFresh => Rejection!NoncesAreFresh
<1>1. Rejection!Init => MlDsa!Rejection!Init
  BY DEF
    Rejection!Init, MlDsa!Rejection!Init
<1>2. [Rejection!Next]_Rejection!vars => [MlDsa!Rejection!Next]_MlDsa!Rejection!vars
  BY DEF
    Rejection!Next, MlDsa!Rejection!Next, Rejection!vars, MlDsa!Rejection!vars, Rejection!Sample,
    MlDsa!Rejection!Sample, Rejection!GiveUp, MlDsa!Rejection!GiveUp, Rejection!Write,
    MlDsa!Rejection!Write, Rejection!uniform_gamma1, MlDsa!Rejection!uniform_gamma1, Rejection!First,
    MlDsa!Rejection!First, Rejection!Attempted, MlDsa!Rejection!Attempted
<1>3. MlDsa!Rejection!NoncesAreFresh => Rejection!NoncesAreFresh
  BY DEF
    Rejection!NoncesAreFresh, MlDsa!Rejection!NoncesAreFresh, Rejection!FreshWhileTheyLast,
    MlDsa!Rejection!FreshWhileTheyLast, Rejection!Cardinality, MlDsa!Rejection!Cardinality,
    Rejection!SameY, MlDsa!Rejection!SameY
<1> QED BY <1>1, <1>2, <1>3

(* Sampling of polynomials. *)
LEMMA SameSampling ==
  /\ Sampling!Init => Polynomial!Sampling!Init
  /\ [Sampling!Next]_Sampling!vars => [Polynomial!Sampling!Next]_Polynomial!Sampling!vars
  /\ Polynomial!Sampling!FirstAccepted => Sampling!FirstAccepted
  /\ Polynomial!Sampling!StoresInBounds => Sampling!StoresInBounds
<1>1. Sampling!Init => Polynomial!Sampling!Init
  BY ZenonT(60) DEF
    Sampling!Init, Polynomial!Sampling!Init, Sampling!Kinds, Polynomial!Sampling!Kinds, Sampling!Lanes,
    Polynomial!Sampling!Lanes, Sampling!Bytes, Polynomial!Sampling!Bytes, Sampling!None,
    Polynomial!Sampling!None
<1>2. [Sampling!Next]_Sampling!vars => [Polynomial!Sampling!Next]_Polynomial!Sampling!vars
  BY ZenonT(60) DEF
    Sampling!Next, Polynomial!Sampling!Next, Sampling!vars, Polynomial!Sampling!vars,
    Sampling!VectorUniform, Polynomial!Sampling!VectorUniform, Sampling!VectorEta,
    Polynomial!Sampling!VectorEta, Sampling!VectorEnd, Polynomial!Sampling!VectorEnd,
    Sampling!ScalarUniform, Polynomial!Sampling!ScalarUniform, Sampling!ScalarEta,
    Polynomial!Sampling!ScalarEta, Sampling!NextPoly, Polynomial!Sampling!NextPoly, Sampling!Squeeze,
    Polynomial!Sampling!Squeeze, Sampling!Finish, Polynomial!Sampling!Finish, Sampling!Vectorised,
    Polynomial!Sampling!Vectorised, Sampling!Store, Polynomial!Sampling!Store, Sampling!Uniform,
    Polynomial!Sampling!Uniform, Sampling!MoreEta, Polynomial!Sampling!MoreEta, Sampling!EtaLanes,
    Polynomial!Sampling!EtaLanes, Sampling!Keep, Polynomial!Sampling!Keep, Sampling!Eta,
    Polynomial!Sampling!Eta, Sampling!Exhausted, Polynomial!Sampling!Exhausted, Sampling!Lanes,
    Polynomial!Sampling!Lanes, Sampling!Left, Polynomial!Sampling!Left, Sampling!Select,
    Polynomial!Sampling!Select, Sampling!Cardinality, Polynomial!Sampling!Cardinality,
    Sampling!Accepted, Polynomial!Sampling!Accepted, Sampling!InOrder, Polynomial!Sampling!InOrder
<1>3. Polynomial!Sampling!FirstAccepted => Sampling!FirstAccepted
  BY ZenonT(60) DEF
    Sampling!FirstAccepted, Polynomial!Sampling!FirstAccepted, Sampling!Lanes,
    Polynomial!Sampling!Lanes, Sampling!Nth, Polynomial!Sampling!Nth, Sampling!Cardinality,
    Polynomial!Sampling!Cardinality, Sampling!InOrder, Polynomial!Sampling!InOrder
<1>4. Polynomial!Sampling!StoresInBounds => Sampling!StoresInBounds
  BY ZenonT(60) DEF
    Sampling!StoresInBounds, Polynomial!Sampling!StoresInBounds
<1> QED BY <1>1, <1>2, <1>3, <1>4

(* The rows of the matrix. *)
LEMMA SameMatrix ==
  /\ Matrix!Init => Polynomial!Matrix!Init
  /\ [Matrix!Next]_Matrix!vars => [Polynomial!Matrix!Next]_Polynomial!Matrix!vars
  /\ Polynomial!Matrix!RowIsTheMatrix => Matrix!RowIsTheMatrix
  /\ Polynomial!Matrix!MatrixStays => Matrix!MatrixStays
<1>1. Matrix!Init => Polynomial!Matrix!Init
  BY ZenonT(60) DEF
    Matrix!Init, Polynomial!Matrix!Init, Matrix!Never, Polynomial!Matrix!Never
<1>2. Polynomial!Matrix!row = Matrix!row
  BY SMTT(60) DEF
    Matrix!row, Polynomial!Matrix!row, Matrix!Expand, Polynomial!Matrix!Expand, Matrix!Expand44,
    Polynomial!Matrix!Expand44, Matrix!Expand65, Polynomial!Matrix!Expand65, Matrix!Expand87,
    Polynomial!Matrix!Expand87, Matrix!Row, Polynomial!Matrix!Row
<1>3. Matrix!Sample => Polynomial!Matrix!Sample
  BY <1>2, SMTT(60) DEF
    Matrix!Sample, Polynomial!Matrix!Sample, Matrix!Target, Polynomial!Matrix!Target, Matrix!Outputs,
    Polynomial!Matrix!Outputs, Matrix!rowa, Polynomial!Matrix!rowa, Matrix!rowb, Polynomial!Matrix!rowb
<1>4. Matrix!Unpack => Polynomial!Matrix!Unpack
  BY <1>2, SMTT(60) DEF
    Matrix!Unpack, Polynomial!Matrix!Unpack, Matrix!Target, Polynomial!Matrix!Target, Matrix!Outputs,
    Polynomial!Matrix!Outputs, Matrix!rowa, Polynomial!Matrix!rowa, Matrix!rowb, Polynomial!Matrix!rowb
<1>5. Matrix!Use => Polynomial!Matrix!Use
  BY ZenonT(60) DEF Matrix!Use, Polynomial!Matrix!Use
<1>6. [Matrix!Next]_Matrix!vars => [Polynomial!Matrix!Next]_Polynomial!Matrix!vars
  BY <1>3, <1>4, <1>5, ZenonT(60) DEF Matrix!Next, Polynomial!Matrix!Next, Matrix!vars, Polynomial!Matrix!vars
<1>7. Polynomial!Matrix!RowIsTheMatrix => Matrix!RowIsTheMatrix
  BY ZenonT(60) DEF
    Matrix!RowIsTheMatrix, Polynomial!Matrix!RowIsTheMatrix, Matrix!Right, Polynomial!Matrix!Right,
    Matrix!rowa, Polynomial!Matrix!rowa
<1>8. Polynomial!Matrix!MatrixStays => Matrix!MatrixStays
  BY ZenonT(60) DEF
    Matrix!MatrixStays, Polynomial!Matrix!MatrixStays, Matrix!Right, Polynomial!Matrix!Right
<1> QED BY <1>1, <1>6, <1>7, <1>8

(* The challenge. *)
LEMMA SameChallenge ==
  /\ Challenge!Init => Other!Challenge!Init
  /\ [Challenge!Place]_Challenge!vars => [Other!Challenge!Place]_Other!Challenge!vars
  /\ Other!Challenge!HasWeight => Challenge!HasWeight
  /\ Other!Challenge!AllPlacesAlike => Challenge!AllPlacesAlike
  /\ Other!Challenge!SignsSpent => Challenge!SignsSpent
  /\ Other!Challenge!EachByteOnce => Challenge!EachByteOnce
<1>1. Challenge!Init => Other!Challenge!Init
  BY ZenonT(60) DEF
    Challenge!Init, Other!Challenge!Init
<1>2. [Challenge!Place]_Challenge!vars => [Other!Challenge!Place]_Other!Challenge!vars
  BY ZenonT(60) DEF
    Challenge!Place, Other!Challenge!Place, Challenge!vars, Other!Challenge!vars, Challenge!Byte,
    Other!Challenge!Byte, Challenge!Beyond, Other!Challenge!Beyond, Challenge!Insert,
    Other!Challenge!Insert, Challenge!Shift, Other!Challenge!Shift
<1>3. Other!Challenge!HasWeight => Challenge!HasWeight
  BY ZenonT(60) DEF
    Challenge!HasWeight, Other!Challenge!HasWeight, Challenge!Cardinality, Other!Challenge!Cardinality,
    Challenge!Places, Other!Challenge!Places
<1>4. Other!Challenge!AllPlacesAlike => Challenge!AllPlacesAlike
  BY ZenonT(60) DEF
    Challenge!AllPlacesAlike, Other!Challenge!AllPlacesAlike, Challenge!Cardinality,
    Other!Challenge!Cardinality, Challenge!Places, Other!Challenge!Places, Challenge!Drawn,
    Other!Challenge!Drawn, Challenge!Draws, Other!Challenge!Draws, Challenge!Orders,
    Other!Challenge!Orders, Challenge!Filling, Other!Challenge!Filling, Challenge!Beyond,
    Other!Challenge!Beyond
<1>5. Other!Challenge!SignsSpent => Challenge!SignsSpent
  BY ZenonT(60) DEF
    Challenge!SignsSpent, Other!Challenge!SignsSpent, Challenge!Cardinality,
    Other!Challenge!Cardinality, Challenge!Places, Other!Challenge!Places
<1>6. Other!Challenge!EachByteOnce => Challenge!EachByteOnce
  BY ZenonT(60) DEF
    Challenge!EachByteOnce, Other!Challenge!EachByteOnce
<1> QED BY <1>1, <1>2, <1>3, <1>4, <1>5, <1>6

-----------------------------------------------------------------------------
(* The model keeps the part it started with. *)
LEMMA PartStays == [PartsNext]_<<part, vars, cells>> => part' = part
  BY ZenonT(60) DEF PartsNext

(* Mode 2. *)
LEMMA SplittingInParts == Parts => [](part = "rounding" => SplitsExactly)
<1> DEFINE Here == part = "rounding"
<1>1. Polynomial!Spec => []Polynomial!RoundingInEveryMode
  BY PolynomialConstants, Polynomial!EveryModeRounds
<1>2. PartsInit /\ Here => Polynomial!Init
  BY SameRounding, ZenonT(60) DEF PartsInit
<1>3. Here /\ [PartsNext]_<<part, vars, cells>> => [Polynomial!Next]_(Polynomial!vars)
  BY SameRounding, ZenonT(60) DEF PartsNext, cells, vars
<1>4. /\ Here /\ [PartsNext]_<<part, vars, cells>> => Here'
      /\ ~Here /\ [PartsNext]_<<part, vars, cells>> => ~Here'
  BY PartStays, ZenonT(60)
<1>5. (Here => Polynomial!RoundingInEveryMode) => (part = "rounding" => SplitsExactly)
  BY SameRounding, ZenonT(60) DEF Polynomial!RoundingInEveryMode
<1> HIDE DEF Here
<1>6. Parts /\ Here => []Here /\ Polynomial!Spec
  BY <1>2, <1>3, <1>4, PTL DEF Parts, Polynomial!Spec
<1>7. Parts /\ ~Here => []~Here
  BY <1>4, PTL DEF Parts
<1> QED BY <1>1, <1>5, <1>6, <1>7, PTL

(* Modes 3 and 5. *)
LEMMA Rounding32InParts ==
  Parts => [](part = "rounding32" => Rounding32!HintRecovers /\ Rounding32!SplitsExactly /\ Rounding32!LanesAgree)
<1> DEFINE Here == part = "rounding32"
<1>1. Other!Spec => []Other!RoundingInEveryMode
  BY PolynomialConstants, Other!EveryModeRounds
<1>2. PartsInit /\ Here => Other!Init
  BY SameRounding32, ZenonT(60) DEF PartsInit
<1>3. Here /\ [PartsNext]_<<part, vars, cells>> => [Other!Next]_(Other!vars)
  BY SameRounding32, ZenonT(60) DEF PartsNext, cells, Rounding32!vars
<1>4. /\ Here /\ [PartsNext]_<<part, vars, cells>> => Here'
      /\ ~Here /\ [PartsNext]_<<part, vars, cells>> => ~Here'
  BY PartStays, ZenonT(60)
<1>5. (Here => Other!RoundingInEveryMode)
      => (part = "rounding32" => Rounding32!HintRecovers /\ Rounding32!SplitsExactly /\ Rounding32!LanesAgree)
  BY SameRounding32, ZenonT(60) DEF Other!RoundingInEveryMode
<1> HIDE DEF Here
<1>6. Parts /\ Here => []Here /\ Other!Spec
  BY <1>2, <1>3, <1>4, PTL DEF Parts, Other!Spec
<1>7. Parts /\ ~Here => []~Here
  BY <1>4, PTL DEF Parts
<1> QED BY <1>1, <1>5, <1>6, <1>7, PTL

(* In modes 3 and 5, too, one hint bit gives the verifier the high bits,   *)
(* and in every mode the two parts of a coefficient say which value was    *)
(* split (rounding.c:6-102).                                               *)
THEOREM RoundingInParts == Parts => []RoundingInEveryMode
<1>1. (part = "rounding" => SplitsExactly)
      /\ (part = "rounding32" => Rounding32!HintRecovers /\ Rounding32!SplitsExactly /\ Rounding32!LanesAgree)
      => RoundingInEveryMode
  BY ZenonT(60) DEF RoundingInEveryMode
<1> QED BY <1>1, SplittingInParts, Rounding32InParts, PTL

(* Hints come back from their bytes, and from no other bytes              *)
(* (packing.c:170-236).                                                    *)
THEOREM HintsInParts == Parts => []HintsAreExact
<1> DEFINE Here == part = "hints"
<1>1. MlDsa!Hints!Spec => []MlDsa!Hints!HintsAreExact
  BY SourceConstants, PartsAssumption, MlDsa!HintsStayExact DEF Hints!SizesAssumption,
     MlDsa!Hints!SizesAssumption
<1>2. PartsInit /\ Here => MlDsa!Hints!Init
  BY SameHints, ZenonT(60) DEF PartsInit
<1>3. Here /\ [PartsNext]_<<part, vars, cells>> => [MlDsa!Hints!Next]_(MlDsa!Hints!vars)
  BY SameHints, ZenonT(60) DEF PartsNext, cells, Hints!vars
<1>4. /\ Here /\ [PartsNext]_<<part, vars, cells>> => Here'
      /\ ~Here /\ [PartsNext]_<<part, vars, cells>> => ~Here'
  BY PartStays, ZenonT(60)
<1>5. (Here => MlDsa!Hints!HintsAreExact) => HintsAreExact
  BY SameHints, ZenonT(60) DEF HintsAreExact
<1> HIDE DEF Here
<1>6. Parts /\ Here => []Here /\ MlDsa!Hints!Spec
  BY <1>2, <1>3, <1>4, PTL DEF Parts, MlDsa!Hints!Spec
<1>7. Parts /\ ~Here => []~Here
  BY <1>4, PTL DEF Parts
<1> QED BY <1>1, <1>5, <1>6, <1>7, PTL

(* Only what was signed is opened, also where message and signature       *)
(* overlap (dilithium/ref/sign.c:245, 389-392, 438-440).                   *)
THEOREM SignedInParts == Parts => []OpensWhatWasSigned
<1> DEFINE Here == part = "signed"
<1>1. MlDsa!Signed!Spec => []MlDsa!Signed!OpensWhatWasSigned
  BY SourceConstants, PartsAssumption, MlDsa!OnlySignedIsOpened DEF Signed!SizesAssumption,
     MlDsa!Signed!SizesAssumption
<1>2. PartsInit /\ Here => MlDsa!Signed!Init
  BY SameSigned, ZenonT(60) DEF PartsInit
<1>3. Here /\ [PartsNext]_<<part, vars, cells>> => [MlDsa!Signed!Next]_(MlDsa!Signed!vars)
  BY SameSigned, ZenonT(60) DEF PartsNext, cells, Signed!vars
<1>4. /\ Here /\ [PartsNext]_<<part, vars, cells>> => Here'
      /\ ~Here /\ [PartsNext]_<<part, vars, cells>> => ~Here'
  BY PartStays, ZenonT(60)
<1>5. (Here => MlDsa!Signed!OpensWhatWasSigned) => OpensWhatWasSigned
  BY SameSigned, ZenonT(60) DEF OpensWhatWasSigned
<1> HIDE DEF Here
<1>6. Parts /\ Here => []Here /\ MlDsa!Signed!Spec
  BY <1>2, <1>3, <1>4, PTL DEF Parts, MlDsa!Signed!Spec
<1>7. Parts /\ ~Here => []~Here
  BY <1>4, PTL DEF Parts
<1> QED BY <1>1, <1>5, <1>6, <1>7, PTL

(* While its 16 bits last the nonce gives every attempt new polynomials   *)
(* (polyvec.c:46, avx2/sign.c:204).                                        *)
THEOREM NoncesInParts == Parts => []NoncesAreFresh
<1> DEFINE Here == part = "rejection"
<1>1. MlDsa!Rejection!Spec => []MlDsa!Rejection!NoncesAreFresh
  BY SourceConstants, PartsAssumption, MlDsa!NoncesStayFresh DEF Rejection!WidthsAssumption,
     MlDsa!Rejection!WidthsAssumption, Rejection!VectorsAssumption, MlDsa!Rejection!VectorsAssumption
<1>2. PartsInit /\ Here => MlDsa!Rejection!Init
  BY SameRejection, ZenonT(60) DEF PartsInit
<1>3. Here /\ [PartsNext]_<<part, vars, cells>> => [MlDsa!Rejection!Next]_(MlDsa!Rejection!vars)
  BY SameRejection, ZenonT(60) DEF PartsNext, cells, Rejection!vars
<1>4. /\ Here /\ [PartsNext]_<<part, vars, cells>> => Here'
      /\ ~Here /\ [PartsNext]_<<part, vars, cells>> => ~Here'
  BY PartStays, ZenonT(60)
<1>5. (Here => MlDsa!Rejection!NoncesAreFresh) => NoncesAreFresh
  BY SameRejection, ZenonT(60) DEF NoncesAreFresh
<1> HIDE DEF Here
<1>6. Parts /\ Here => []Here /\ MlDsa!Rejection!Spec
  BY <1>2, <1>3, <1>4, PTL DEF Parts, MlDsa!Rejection!Spec
<1>7. Parts /\ ~Here => []~Here
  BY <1>4, PTL DEF Parts
<1> QED BY <1>1, <1>5, <1>6, <1>7, PTL

LEMMA SampledConstants ==
  /\ Polynomial!Sampling!SizesAssumption /\ Polynomial!Sampling!BuildsAssumption
  /\ Polynomial!Sampling!PatternsAssumption
<1>1. Sampling!SizesAssumption => Polynomial!Sampling!SizesAssumption
  BY ZenonT(60) DEF Sampling!SizesAssumption, Polynomial!Sampling!SizesAssumption, Sampling!Kinds,
     Polynomial!Sampling!Kinds
<1>2. Sampling!BuildsAssumption => Polynomial!Sampling!BuildsAssumption
  BY ZenonT(60) DEF Sampling!BuildsAssumption, Polynomial!Sampling!BuildsAssumption
<1>3. Sampling!PatternsAssumption => Polynomial!Sampling!PatternsAssumption
  BY ZenonT(60) DEF Sampling!PatternsAssumption, Polynomial!Sampling!PatternsAssumption,
     Sampling!IsFiniteSet, Polynomial!Sampling!IsFiniteSet
<1> QED BY <1>1, <1>2, <1>3, PartsAssumption

LEMMA SamplingInParts == Parts => [](part = "sampling" => Sampling!FirstAccepted /\ Sampling!StoresInBounds)
<1> DEFINE Here == part = "sampling"
<1>1. Polynomial!Sampling!Spec => [](Polynomial!Sampling!FirstAccepted /\ Polynomial!Sampling!StoresInBounds)
  BY PolynomialConstants, SampledConstants, Polynomial!FirstAreAccepted
<1>2. PartsInit /\ Here => Polynomial!Sampling!Init
  BY SameSampling, ZenonT(60) DEF PartsInit
<1>3. Here /\ [PartsNext]_<<part, vars, cells>> => [Polynomial!Sampling!Next]_(Polynomial!Sampling!vars)
  BY SameSampling, ZenonT(60) DEF PartsNext, cells, Sampling!vars
<1>4. /\ Here /\ [PartsNext]_<<part, vars, cells>> => Here'
      /\ ~Here /\ [PartsNext]_<<part, vars, cells>> => ~Here'
  BY PartStays, ZenonT(60)
<1>5. (Here => (Polynomial!Sampling!FirstAccepted /\ Polynomial!Sampling!StoresInBounds))
      => (part = "sampling" => Sampling!FirstAccepted /\ Sampling!StoresInBounds)
  BY SameSampling, ZenonT(60)
<1> HIDE DEF Here
<1>6. Parts /\ Here => []Here /\ Polynomial!Sampling!Spec
  BY <1>2, <1>3, <1>4, PTL DEF Parts, Polynomial!Sampling!Spec
<1>7. Parts /\ ~Here => []~Here
  BY <1>4, PTL DEF Parts
<1> QED BY <1>1, <1>5, <1>6, <1>7, PTL

LEMMA MatrixInParts == Parts => [](part = "matrix" => Matrix!RowIsTheMatrix /\ Matrix!MatrixStays)
<1> DEFINE Here == part = "matrix"
<1>1. Polynomial!Matrix!Spec => [](Polynomial!Matrix!RowIsTheMatrix /\ Polynomial!Matrix!MatrixStays)
  BY PolynomialConstants, Polynomial!RowsAreTheMatrix
<1>2. PartsInit /\ Here => Polynomial!Matrix!Init
  BY SameMatrix, ZenonT(60) DEF PartsInit
<1>3. Here /\ [PartsNext]_<<part, vars, cells>> => [Polynomial!Matrix!Next]_(Polynomial!Matrix!vars)
  BY SameMatrix, ZenonT(60) DEF PartsNext, cells, Matrix!vars
<1>4. /\ Here /\ [PartsNext]_<<part, vars, cells>> => Here'
      /\ ~Here /\ [PartsNext]_<<part, vars, cells>> => ~Here'
  BY PartStays, ZenonT(60)
<1>5. (Here => (Polynomial!Matrix!RowIsTheMatrix /\ Polynomial!Matrix!MatrixStays))
      => (part = "matrix" => Matrix!RowIsTheMatrix /\ Matrix!MatrixStays)
  BY SameMatrix, ZenonT(60)
<1> HIDE DEF Here
<1>6. Parts /\ Here => []Here /\ Polynomial!Matrix!Spec
  BY <1>2, <1>3, <1>4, PTL DEF Parts, Polynomial!Matrix!Spec
<1>7. Parts /\ ~Here => []~Here
  BY <1>4, PTL DEF Parts
<1> QED BY <1>1, <1>5, <1>6, <1>7, PTL

(* The vector code samples the reference's polynomials and multiplies the  *)
(* rows of the same matrix (ref/poly.c:359, avx2/rejsample.c:291-324,      *)
(* avx2/sign.c:13).                                                        *)
THEOREM SamplesInParts == Parts => []SamplesTheReference
<1>1. (part = "sampling" => Sampling!FirstAccepted /\ Sampling!StoresInBounds)
      /\ (part = "matrix" => Matrix!RowIsTheMatrix /\ Matrix!MatrixStays)
      => SamplesTheReference
  BY ZenonT(60) DEF SamplesTheReference
<1> QED BY <1>1, SamplingInParts, MatrixInParts, PTL

(* A challenge has TAU coefficients 1 or -1, any places as likely as any   *)
(* others (ref/poly.c:503-519).                                            *)
THEOREM ChallengeInParts == Parts => []ChallengeIsUniform
<1> DEFINE Here == part = "challenge"
<1>1. Other!Challenge!Spec => []Other!ChallengeIsUniform
  BY PolynomialConstants, PartsAssumption, Other!ChallengesAreUniform DEF Challenge!SizesAssumption,
     Other!Challenge!SizesAssumption
<1>2. PartsInit /\ Here => Other!Challenge!Init
  BY SameChallenge, ZenonT(60) DEF PartsInit
<1>3. Here /\ [PartsNext]_<<part, vars, cells>> => [Other!Challenge!Place]_(Other!Challenge!vars)
  BY SameChallenge, ZenonT(60) DEF PartsNext, cells, Challenge!vars
<1>4. /\ Here /\ [PartsNext]_<<part, vars, cells>> => Here'
      /\ ~Here /\ [PartsNext]_<<part, vars, cells>> => ~Here'
  BY PartStays, ZenonT(60)
<1>5. (Here => Other!ChallengeIsUniform) => ChallengeIsUniform
  BY SameChallenge, ZenonT(60) DEF ChallengeIsUniform, Other!ChallengeIsUniform
<1> HIDE DEF Here
<1>6. Parts /\ Here => []Here /\ Other!Challenge!Spec
  BY <1>2, <1>3, <1>4, PTL DEF Parts, Other!Challenge!Spec
<1>7. Parts /\ ~Here => []~Here
  BY <1>4, PTL DEF Parts
<1> QED BY <1>1, <1>5, <1>6, <1>7, PTL

(***************************************************************************)
(* The pieces of SPHINCS+ are those the proofs are about.                  *)
(***************************************************************************)
(* The proofs are instantiated with the slots of MCSphincs. *)
SlhDsa == INSTANCE SlhDsaProofs WITH
  BufferSizes <- {1}, RequestSizes <- {1}, SizeMod <- 2,
  g_random_data <- u1, g_random_data_size <- u2, g_random_data_offset <- u3, out <- u4,
  outlen <- u5, copied <- u6, remaining <- u7, delivered <- u8, start <- u9,
  Lengths <- MessageLengths, Changes <- SeedChanges, mlen <- u1, pc <- u2, combined <- u3, buffer <- u4, i <- u5, j <- u6,
  seed <- u7,
  Sets <- AddressSets, p <- u1, in <- u2, to <- u3, call <- u4,
  N <- WotsN, LOGW <- WotsLOGW, LEN2 <- WotsLEN2, Messages <- WotsMessages, msg <- u1,
  build <- u2, lengths <- u3, steps <- u4, idxs <- u5, phase <- u6, group <- u7, watching <- u8,
  climbed <- u9, bufs <- u10, chains <- u11, values <- u12,
  WordSize <- WordBytes, whose <- u1, rate <- u2, stage <- u3, states <- u4, pos <- u5, left <- u6,
  ask <- u7, fed <- u8, output <- u9,
  MaxTreeHeight <- TallestTree, RowOfTrees <- TreesOfARow, builder <- u1, tree_height <- u2,
  leaf_idx <- u3, idx_offset <- u4, doing <- u5, idx <- u6, level <- u7, current <- u8,
  waiting <- u9, left_adj <- u10, prev_left_adj <- u11, heights <- u12, depth <- u13,
  top_node <- u14, auth_path <- u15,
  D <- SchemeLayers, TREE_HEIGHT <- LayerHeight, FORS_TREES <- ForsTrees, FORS_HEIGHT <- ForsHeight,
  WotsW <- ChainLength, WotsLEN <- ChainCount, ChainLengths <- SchemeLengths,
  Digests <- SchemeDigests, pk <- u3, digest <- u4, turns_of <- u5, others <- u6, signed <- u7,
  tier <- u8, tree <- u9, idx_leaf <- u10, wots_addr <- u11, tree_addr <- u12, root <- u13,
  sig <- u14, change <- u15, verdict <- u16, turn <- u2

(* Chains. *)
LEMMA SameWots ==
  /\ Wots!Init => SlhDsa!Wots!Init
  /\ [Wots!Next]_Wots!vars => [SlhDsa!Wots!Next]_SlhDsa!Wots!vars
  /\ SlhDsa!Wots!InBounds => Wots!InBounds
  /\ SlhDsa!Wots!SameKey => Wots!SameKey
  /\ SlhDsa!Wots!NoOtherMessage => Wots!NoOtherMessage
<1>1. Wots!Init => SlhDsa!Wots!Init
  BY ZenonT(60) DEF
    Wots!Init, SlhDsa!Wots!Init, Wots!chain_lengths, SlhDsa!Wots!chain_lengths, Wots!Chains,
    SlhDsa!Wots!Chains, Wots!W, SlhDsa!Wots!W, Wots!Place, SlhDsa!Wots!Place, Wots!Cardinality,
    SlhDsa!Wots!Cardinality, Wots!Signature, SlhDsa!Wots!Signature, Wots!base_w, SlhDsa!Wots!base_w,
    Wots!LEN1, SlhDsa!Wots!LEN1, Wots!wots_checksum, SlhDsa!Wots!wots_checksum, Wots!LEN,
    SlhDsa!Wots!LEN, Wots!ull_to_bytes, SlhDsa!Wots!ull_to_bytes
<1>2. [Wots!Next]_Wots!vars => [SlhDsa!Wots!Next]_SlhDsa!Wots!vars
  BY ZenonT(60) DEF
    Wots!Next, SlhDsa!Wots!Next, Wots!vars, SlhDsa!Wots!vars, Wots!gen_chains_x2,
    SlhDsa!Wots!gen_chains_x2, Wots!gen_chains_x4, SlhDsa!Wots!gen_chains_x4, Wots!gen_chains_x8,
    SlhDsa!Wots!gen_chains_x8, Wots!Group, SlhDsa!Wots!Group, Wots!Drop, SlhDsa!Wots!Drop, Wots!Climb,
    SlhDsa!Wots!Climb, Wots!Finish, SlhDsa!Wots!Finish, Wots!LEN, SlhDsa!Wots!LEN, Wots!LastIsDone,
    SlhDsa!Wots!LastIsDone, Wots!Chains, SlhDsa!Wots!Chains, Wots!thash, SlhDsa!Wots!thash,
    Wots!HashAddress, SlhDsa!Wots!HashAddress, Wots!LEN1, SlhDsa!Wots!LEN1, Wots!Garbage,
    SlhDsa!Wots!Garbage
<1>3. SlhDsa!Wots!InBounds => Wots!InBounds
  BY ZenonT(60) DEF
    Wots!InBounds, SlhDsa!Wots!InBounds, Wots!LEN, SlhDsa!Wots!LEN, Wots!Lanes, SlhDsa!Wots!Lanes,
    Wots!Chains, SlhDsa!Wots!Chains, Wots!W, SlhDsa!Wots!W, Wots!LEN1, SlhDsa!Wots!LEN1
<1>4. SlhDsa!Wots!SameKey => Wots!SameKey
  BY ZenonT(60) DEF
    Wots!SameKey, SlhDsa!Wots!SameKey, Wots!wots_pk_from_sig, SlhDsa!Wots!wots_pk_from_sig,
    Wots!Signature, SlhDsa!Wots!Signature, Wots!Chains, SlhDsa!Wots!Chains, Wots!W, SlhDsa!Wots!W,
    Wots!chain_lengths, SlhDsa!Wots!chain_lengths, Wots!gen_chain, SlhDsa!Wots!gen_chain, Wots!LEN,
    SlhDsa!Wots!LEN, Wots!base_w, SlhDsa!Wots!base_w, Wots!LEN1, SlhDsa!Wots!LEN1, Wots!wots_checksum,
    SlhDsa!Wots!wots_checksum, Wots!Climb, SlhDsa!Wots!Climb, Wots!thash, SlhDsa!Wots!thash,
    Wots!ull_to_bytes, SlhDsa!Wots!ull_to_bytes, Wots!LastIsDone, SlhDsa!Wots!LastIsDone,
    Wots!HashAddress, SlhDsa!Wots!HashAddress, Wots!Garbage, SlhDsa!Wots!Garbage
<1>5. SlhDsa!Wots!NoOtherMessage => Wots!NoOtherMessage
  BY ZenonT(60) DEF
    Wots!NoOtherMessage, SlhDsa!Wots!NoOtherMessage, Wots!chain_lengths, SlhDsa!Wots!chain_lengths,
    Wots!Chains, SlhDsa!Wots!Chains, Wots!base_w, SlhDsa!Wots!base_w, Wots!LEN1, SlhDsa!Wots!LEN1,
    Wots!wots_checksum, SlhDsa!Wots!wots_checksum, Wots!LEN, SlhDsa!Wots!LEN, Wots!W, SlhDsa!Wots!W,
    Wots!ull_to_bytes, SlhDsa!Wots!ull_to_bytes
<1> QED BY <1>1, <1>2, <1>3, <1>4, <1>5

(* Trees. *)
LEMMA SameTrees ==
  /\ Treehash!Init => SlhDsa!Treehash!Init
  /\ [Treehash!Next]_Treehash!vars => [SlhDsa!Treehash!Next]_SlhDsa!Treehash!vars
  /\ SlhDsa!Treehash!StackHasRoom => Treehash!StackHasRoom
  /\ SlhDsa!Treehash!RootIsTheRoot => Treehash!RootIsTheRoot
  /\ SlhDsa!Treehash!PathIsTheNeighbours => Treehash!PathIsTheNeighbours
  /\ SlhDsa!Treehash!VerifierFindsRoot => Treehash!VerifierFindsRoot
<1>1. Treehash!Init => SlhDsa!Treehash!Init
  BY ZenonT(60) DEF
    Treehash!Init, SlhDsa!Treehash!Init, Treehash!LogLanes, SlhDsa!Treehash!LogLanes,
    Treehash!NoLeaf, SlhDsa!Treehash!NoLeaf, Treehash!Garbage, SlhDsa!Treehash!Garbage,
    Treehash!Node, SlhDsa!Treehash!Node
<1>2. [Treehash!Next]_Treehash!vars => [SlhDsa!Treehash!Next]_SlhDsa!Treehash!vars
  <2>1. ASSUME NEW n
        PROVE  Treehash!Leaf(n) => SlhDsa!Treehash!Leaf(n)
    BY ZenonT(60) DEF
      Treehash!Leaf, SlhDsa!Treehash!Leaf, Treehash!call, SlhDsa!Treehash!call, Treehash!Node,
      SlhDsa!Treehash!Node, Treehash!Garbage, SlhDsa!Treehash!Garbage
  <2>2. Treehash!Level1 => SlhDsa!Treehash!Level1
    BY ZenonT(60) DEF
      Treehash!Level1, SlhDsa!Treehash!Level1, Treehash!Wait, SlhDsa!Treehash!Wait, Treehash!call,
      SlhDsa!Treehash!call, Treehash!internal_idx, SlhDsa!Treehash!internal_idx,
      Treehash!internal_leaf, SlhDsa!Treehash!internal_leaf, Treehash!Node, SlhDsa!Treehash!Node,
      Treehash!thash, SlhDsa!Treehash!thash, Treehash!Garbage, SlhDsa!Treehash!Garbage
  <2>3. ASSUME NEW n, NEW log
        PROVE  Treehash!Level(n, log) => SlhDsa!Treehash!Level(n, log)
    BY ZenonT(60) DEF
      Treehash!Level, SlhDsa!Treehash!Level, Treehash!Neighbour, SlhDsa!Treehash!Neighbour,
      Treehash!Wait, SlhDsa!Treehash!Wait, Treehash!call, SlhDsa!Treehash!call, Treehash!internal_idx,
      SlhDsa!Treehash!internal_idx, Treehash!internal_leaf, SlhDsa!Treehash!internal_leaf,
      Treehash!Node, SlhDsa!Treehash!Node, Treehash!thash, SlhDsa!Treehash!thash, Treehash!Garbage,
      SlhDsa!Treehash!Garbage
  <2>4. ASSUME NEW n
        PROVE  Treehash!Return(n) => SlhDsa!Treehash!Return(n)
    BY ZenonT(60) DEF
      Treehash!Return, SlhDsa!Treehash!Return, Treehash!call, SlhDsa!Treehash!call, Treehash!NoLeaf,
      SlhDsa!Treehash!NoLeaf, Treehash!Node, SlhDsa!Treehash!Node
  <2>5. Treehash!Push => SlhDsa!Treehash!Push
    BY ZenonT(60) DEF
      Treehash!Push, SlhDsa!Treehash!Push, Treehash!call, SlhDsa!Treehash!call, Treehash!Node,
      SlhDsa!Treehash!Node
  <2>6. Treehash!Join => SlhDsa!Treehash!Join
    BY ZenonT(60) DEF
      Treehash!Join, SlhDsa!Treehash!Join, Treehash!call, SlhDsa!Treehash!call, Treehash!Node,
      SlhDsa!Treehash!Node, Treehash!thash, SlhDsa!Treehash!thash, Treehash!Garbage,
      SlhDsa!Treehash!Garbage
  <2>7. Treehash!NextLeaf => SlhDsa!Treehash!NextLeaf
    BY ZenonT(60) DEF
      Treehash!NextLeaf, SlhDsa!Treehash!NextLeaf, Treehash!call, SlhDsa!Treehash!call, Treehash!Node,
      SlhDsa!Treehash!Node, Treehash!NoLeaf, SlhDsa!Treehash!NoLeaf
  <2>8. Treehash!compute_root => SlhDsa!Treehash!compute_root
    BY ZenonT(60) DEF
      Treehash!compute_root, SlhDsa!Treehash!compute_root, Treehash!call, SlhDsa!Treehash!call,
      Treehash!Node, SlhDsa!Treehash!Node, Treehash!thash, SlhDsa!Treehash!thash, Treehash!Garbage,
      SlhDsa!Treehash!Garbage
  <2> QED BY <2>1, <2>2, <2>3, <2>4, <2>5, <2>6, <2>7, <2>8, ZenonT(60) DEF
    Treehash!Next, SlhDsa!Treehash!Next, Treehash!vars, SlhDsa!Treehash!vars, Treehash!treehashx1,
    SlhDsa!Treehash!treehashx1, Treehash!treehashx2, SlhDsa!Treehash!treehashx2,
    Treehash!treehashx4, SlhDsa!Treehash!treehashx4, Treehash!treehashx8,
    SlhDsa!Treehash!treehashx8, Treehash!treehash, SlhDsa!Treehash!treehash
<1>3. SlhDsa!Treehash!StackHasRoom => Treehash!StackHasRoom
  BY ZenonT(60) DEF
    Treehash!StackHasRoom, SlhDsa!Treehash!StackHasRoom, Treehash!LogLanes,
    SlhDsa!Treehash!LogLanes, Treehash!internal_idx, SlhDsa!Treehash!internal_idx, Treehash!Node,
    SlhDsa!Treehash!Node, Treehash!Lanes, SlhDsa!Treehash!Lanes
<1>4. SlhDsa!Treehash!RootIsTheRoot => Treehash!RootIsTheRoot
  BY ZenonT(60) DEF
    Treehash!RootIsTheRoot, SlhDsa!Treehash!RootIsTheRoot, Treehash!Node, SlhDsa!Treehash!Node
<1>5. SlhDsa!Treehash!PathIsTheNeighbours => Treehash!PathIsTheNeighbours
  BY ZenonT(60) DEF
    Treehash!PathIsTheNeighbours, SlhDsa!Treehash!PathIsTheNeighbours, Treehash!NoLeaf,
    SlhDsa!Treehash!NoLeaf, Treehash!Garbage, SlhDsa!Treehash!Garbage, Treehash!Node,
    SlhDsa!Treehash!Node
<1>6. SlhDsa!Treehash!VerifierFindsRoot => Treehash!VerifierFindsRoot
  BY ZenonT(60) DEF
    Treehash!VerifierFindsRoot, SlhDsa!Treehash!VerifierFindsRoot, Treehash!NoLeaf,
    SlhDsa!Treehash!NoLeaf
<1> QED BY <1>1, <1>2, <1>3, <1>4, <1>5, <1>6

(* Signatures. *)
LEMMA SameScheme ==
  /\ SlhDsa!SchemeSizes
  /\ Hypertree!Init => SlhDsa!Scheme!Init
  /\ [Hypertree!Next]_Hypertree!vars => [SlhDsa!Scheme!Next]_SlhDsa!Scheme!vars
  /\ SlhDsa!Scheme!AcceptsWhatWasSigned => Hypertree!AcceptsWhatWasSigned
  /\ SlhDsa!Scheme!RejectsChanges => Hypertree!RejectsChanges
  /\ SlhDsa!Scheme!NoAddressTwice => Hypertree!NoAddressTwice
  /\ SlhDsa!Scheme!BuildsAgree => Hypertree!BuildsAgree
<1>1. SlhDsa!SchemeSizes
  BY PiecesAssumption, ZenonT(60) DEF
    Hypertree!SizesAssumption, SlhDsa!Scheme!SizesAssumption, Hypertree!LengthsAssumption,
    SlhDsa!Scheme!LengthsAssumption, Hypertree!DigestsAssumption, SlhDsa!Scheme!DigestsAssumption,
    Hypertree!Leaves, SlhDsa!Scheme!Leaves, SlhDsa!SchemeSizes
<1>2. Hypertree!Init => SlhDsa!Scheme!Init
  BY ZenonT(60) DEF
    Hypertree!Init, SlhDsa!Scheme!Init, Hypertree!Builds, SlhDsa!Scheme!Builds, Hypertree!Layers,
    SlhDsa!Scheme!Layers, Hypertree!Junk, SlhDsa!Scheme!Junk, Hypertree!Term, SlhDsa!Scheme!Term,
    Hypertree!Blank, SlhDsa!Scheme!Blank, Hypertree!NoTree, SlhDsa!Scheme!NoTree, Hypertree!NoSig,
    SlhDsa!Scheme!NoSig, Hypertree!NoChange, SlhDsa!Scheme!NoChange
<1>3. [Hypertree!Next]_Hypertree!vars => [SlhDsa!Scheme!Next]_SlhDsa!Scheme!vars
  <2>1. Hypertree!KeyPair => SlhDsa!Scheme!KeyPair
    BY ZenonT(60) DEF
      Hypertree!KeyPair, SlhDsa!Scheme!KeyPair, Hypertree!set_layer_addr,
      SlhDsa!Scheme!set_layer_addr, Hypertree!Blank, SlhDsa!Scheme!Blank, Hypertree!NoTree,
      SlhDsa!Scheme!NoTree, Hypertree!PubSeed, SlhDsa!Scheme!PubSeed, Hypertree!Term,
      SlhDsa!Scheme!Term, Hypertree!merkle_sign, SlhDsa!Scheme!merkle_sign,
      Hypertree!copy_subtree_addr, SlhDsa!Scheme!copy_subtree_addr, Hypertree!set_type,
      SlhDsa!Scheme!set_type, Hypertree!TypeWOTSPK, SlhDsa!Scheme!TypeWOTSPK,
      Hypertree!TypeHASHTREE, SlhDsa!Scheme!TypeHASHTREE, Hypertree!treehash,
      SlhDsa!Scheme!treehash, Hypertree!Node, SlhDsa!Scheme!Node, Hypertree!thash,
      SlhDsa!Scheme!thash, Hypertree!NodeAddr, SlhDsa!Scheme!NodeAddr, Hypertree!set_tree_index,
      SlhDsa!Scheme!set_tree_index, Hypertree!set_tree_height, SlhDsa!Scheme!set_tree_height,
      Hypertree!LaneOf, SlhDsa!Scheme!LaneOf, Hypertree!Lanes, SlhDsa!Scheme!Lanes,
      Hypertree!Leaves, SlhDsa!Scheme!Leaves, Hypertree!wots_gen_leaf, SlhDsa!Scheme!wots_gen_leaf,
      Hypertree!ChainValue, SlhDsa!Scheme!ChainValue, Hypertree!set_hash_addr,
      SlhDsa!Scheme!set_hash_addr, Hypertree!set_chain_addr, SlhDsa!Scheme!set_chain_addr,
      Hypertree!prf_addr, SlhDsa!Scheme!prf_addr, Hypertree!TypeWOTSPRF, SlhDsa!Scheme!TypeWOTSPRF,
      Hypertree!TypeWOTS, SlhDsa!Scheme!TypeWOTS, Hypertree!set_keypair_addr,
      SlhDsa!Scheme!set_keypair_addr, Hypertree!fixed, SlhDsa!Scheme!fixed
  <2>2. Hypertree!SignFors => SlhDsa!Scheme!SignFors
    BY ZenonT(60) DEF
      Hypertree!SignFors, SlhDsa!Scheme!SignFors, Hypertree!fors_sign, SlhDsa!Scheme!fors_sign,
      Hypertree!TreeLanes, SlhDsa!Scheme!TreeLanes, Hypertree!Lanes, SlhDsa!Scheme!Lanes,
      Hypertree!set_type, SlhDsa!Scheme!set_type, Hypertree!copy_keypair_addr,
      SlhDsa!Scheme!copy_keypair_addr, Hypertree!copy_subtree_addr, SlhDsa!Scheme!copy_subtree_addr,
      Hypertree!Blank, SlhDsa!Scheme!Blank, Hypertree!NoTree, SlhDsa!Scheme!NoTree,
      Hypertree!TypeFORSTREE, SlhDsa!Scheme!TypeFORSTREE, Hypertree!treehash,
      SlhDsa!Scheme!treehash, Hypertree!Node, SlhDsa!Scheme!Node, Hypertree!thash,
      SlhDsa!Scheme!thash, Hypertree!Term, SlhDsa!Scheme!Term, Hypertree!NodeAddr,
      SlhDsa!Scheme!NodeAddr, Hypertree!set_tree_index, SlhDsa!Scheme!set_tree_index,
      Hypertree!set_tree_height, SlhDsa!Scheme!set_tree_height, Hypertree!LaneOf,
      SlhDsa!Scheme!LaneOf, Hypertree!Leaves, SlhDsa!Scheme!Leaves, Hypertree!fors_gen_leaf,
      SlhDsa!Scheme!fors_gen_leaf, Hypertree!idx_offset, SlhDsa!Scheme!idx_offset,
      Hypertree!prf_addr, SlhDsa!Scheme!prf_addr, Hypertree!TypeFORSPRF, SlhDsa!Scheme!TypeFORSPRF,
      Hypertree!AtLeaf, SlhDsa!Scheme!AtLeaf, Hypertree!fors_pk_addr, SlhDsa!Scheme!fors_pk_addr,
      Hypertree!TypeFORSPK, SlhDsa!Scheme!TypeFORSPK, Hypertree!Begin, SlhDsa!Scheme!Begin,
      Hypertree!set_keypair_addr, SlhDsa!Scheme!set_keypair_addr, Hypertree!set_tree_addr,
      SlhDsa!Scheme!set_tree_addr, Hypertree!TypeWOTS, SlhDsa!Scheme!TypeWOTS, Hypertree!Tree,
      SlhDsa!Scheme!Tree, Hypertree!TypeHASHTREE, SlhDsa!Scheme!TypeHASHTREE, Hypertree!fixed,
      SlhDsa!Scheme!fixed
  <2>3. Hypertree!SignLayer => SlhDsa!Scheme!SignLayer
    BY ZenonT(60) DEF
      Hypertree!SignLayer, SlhDsa!Scheme!SignLayer, Hypertree!merkle_sign,
      SlhDsa!Scheme!merkle_sign, Hypertree!copy_subtree_addr, SlhDsa!Scheme!copy_subtree_addr,
      Hypertree!Blank, SlhDsa!Scheme!Blank, Hypertree!NoTree, SlhDsa!Scheme!NoTree,
      Hypertree!set_type, SlhDsa!Scheme!set_type, Hypertree!TypeWOTSPK, SlhDsa!Scheme!TypeWOTSPK,
      Hypertree!TypeHASHTREE, SlhDsa!Scheme!TypeHASHTREE, Hypertree!treehash,
      SlhDsa!Scheme!treehash, Hypertree!Node, SlhDsa!Scheme!Node, Hypertree!thash,
      SlhDsa!Scheme!thash, Hypertree!Term, SlhDsa!Scheme!Term, Hypertree!NodeAddr,
      SlhDsa!Scheme!NodeAddr, Hypertree!set_tree_index, SlhDsa!Scheme!set_tree_index,
      Hypertree!set_tree_height, SlhDsa!Scheme!set_tree_height, Hypertree!LaneOf,
      SlhDsa!Scheme!LaneOf, Hypertree!Lanes, SlhDsa!Scheme!Lanes, Hypertree!Leaves,
      SlhDsa!Scheme!Leaves, Hypertree!wots_gen_leaf, SlhDsa!Scheme!wots_gen_leaf,
      Hypertree!ChainValue, SlhDsa!Scheme!ChainValue, Hypertree!set_hash_addr,
      SlhDsa!Scheme!set_hash_addr, Hypertree!set_chain_addr, SlhDsa!Scheme!set_chain_addr,
      Hypertree!prf_addr, SlhDsa!Scheme!prf_addr, Hypertree!TypeWOTSPRF, SlhDsa!Scheme!TypeWOTSPRF,
      Hypertree!TypeWOTS, SlhDsa!Scheme!TypeWOTS, Hypertree!set_keypair_addr,
      SlhDsa!Scheme!set_keypair_addr, Hypertree!LayerAddresses, SlhDsa!Scheme!LayerAddresses,
      Hypertree!set_tree_addr, SlhDsa!Scheme!set_tree_addr, Hypertree!set_layer_addr,
      SlhDsa!Scheme!set_layer_addr, Hypertree!Tree, SlhDsa!Scheme!Tree, Hypertree!Upwards,
      SlhDsa!Scheme!Upwards, Hypertree!fixed, SlhDsa!Scheme!fixed
  <2>4. Hypertree!Signed => SlhDsa!Scheme!Signed
    BY ZenonT(60) DEF
      Hypertree!Signed, SlhDsa!Scheme!Signed, Hypertree!fixed, SlhDsa!Scheme!fixed
  <2>5. Hypertree!Deliver => SlhDsa!Scheme!Deliver
    BY ZenonT(60) DEF
      Hypertree!Deliver, SlhDsa!Scheme!Deliver, Hypertree!NoChange, SlhDsa!Scheme!NoChange,
      Hypertree!Junk, SlhDsa!Scheme!Junk, Hypertree!Term, SlhDsa!Scheme!Term, Hypertree!Blank,
      SlhDsa!Scheme!Blank, Hypertree!NoTree, SlhDsa!Scheme!NoTree, Hypertree!Layers,
      SlhDsa!Scheme!Layers, Hypertree!fixed, SlhDsa!Scheme!fixed
  <2>6. Hypertree!VerifyFors => SlhDsa!Scheme!VerifyFors
    BY ZenonT(60) DEF
      Hypertree!VerifyFors, SlhDsa!Scheme!VerifyFors, Hypertree!Begin, SlhDsa!Scheme!Begin,
      Hypertree!set_keypair_addr, SlhDsa!Scheme!set_keypair_addr, Hypertree!set_tree_addr,
      SlhDsa!Scheme!set_tree_addr, Hypertree!set_type, SlhDsa!Scheme!set_type, Hypertree!Blank,
      SlhDsa!Scheme!Blank, Hypertree!NoTree, SlhDsa!Scheme!NoTree, Hypertree!TypeWOTS,
      SlhDsa!Scheme!TypeWOTS, Hypertree!Tree, SlhDsa!Scheme!Tree, Hypertree!TypeHASHTREE,
      SlhDsa!Scheme!TypeHASHTREE, Hypertree!fors_pk_from_sig, SlhDsa!Scheme!fors_pk_from_sig,
      Hypertree!copy_keypair_addr, SlhDsa!Scheme!copy_keypair_addr, Hypertree!copy_subtree_addr,
      SlhDsa!Scheme!copy_subtree_addr, Hypertree!TypeFORSTREE, SlhDsa!Scheme!TypeFORSTREE,
      Hypertree!compute_root, SlhDsa!Scheme!compute_root, Hypertree!NodeAddr,
      SlhDsa!Scheme!NodeAddr, Hypertree!set_tree_index, SlhDsa!Scheme!set_tree_index,
      Hypertree!set_tree_height, SlhDsa!Scheme!set_tree_height, Hypertree!thash,
      SlhDsa!Scheme!thash, Hypertree!Term, SlhDsa!Scheme!Term, Hypertree!AtLeaf,
      SlhDsa!Scheme!AtLeaf, Hypertree!idx_offset, SlhDsa!Scheme!idx_offset, Hypertree!fors_pk_addr,
      SlhDsa!Scheme!fors_pk_addr, Hypertree!TypeFORSPK, SlhDsa!Scheme!TypeFORSPK, Hypertree!fixed,
      SlhDsa!Scheme!fixed
  <2>7. Hypertree!VerifyLayer => SlhDsa!Scheme!VerifyLayer
    BY ZenonT(60) DEF
      Hypertree!VerifyLayer, SlhDsa!Scheme!VerifyLayer, Hypertree!copy_keypair_addr,
      SlhDsa!Scheme!copy_keypair_addr, Hypertree!copy_subtree_addr, SlhDsa!Scheme!copy_subtree_addr,
      Hypertree!set_type, SlhDsa!Scheme!set_type, Hypertree!Blank, SlhDsa!Scheme!Blank,
      Hypertree!NoTree, SlhDsa!Scheme!NoTree, Hypertree!TypeWOTSPK, SlhDsa!Scheme!TypeWOTSPK,
      Hypertree!wots_pk_from_sig, SlhDsa!Scheme!wots_pk_from_sig, Hypertree!gen_chain,
      SlhDsa!Scheme!gen_chain, Hypertree!thash, SlhDsa!Scheme!thash, Hypertree!Term,
      SlhDsa!Scheme!Term, Hypertree!set_hash_addr, SlhDsa!Scheme!set_hash_addr,
      Hypertree!set_chain_addr, SlhDsa!Scheme!set_chain_addr, Hypertree!Steps, SlhDsa!Scheme!Steps,
      Hypertree!LayerAddresses, SlhDsa!Scheme!LayerAddresses, Hypertree!set_tree_addr,
      SlhDsa!Scheme!set_tree_addr, Hypertree!set_layer_addr, SlhDsa!Scheme!set_layer_addr,
      Hypertree!Tree, SlhDsa!Scheme!Tree, Hypertree!set_keypair_addr,
      SlhDsa!Scheme!set_keypair_addr, Hypertree!Upwards, SlhDsa!Scheme!Upwards,
      Hypertree!compute_root, SlhDsa!Scheme!compute_root, Hypertree!NodeAddr,
      SlhDsa!Scheme!NodeAddr, Hypertree!set_tree_index, SlhDsa!Scheme!set_tree_index,
      Hypertree!set_tree_height, SlhDsa!Scheme!set_tree_height, Hypertree!fixed, SlhDsa!Scheme!fixed
  <2>8. Hypertree!Compare => SlhDsa!Scheme!Compare
    BY ZenonT(60) DEF
      Hypertree!Compare, SlhDsa!Scheme!Compare, Hypertree!fixed, SlhDsa!Scheme!fixed
  <2> QED
    BY <2>1, <2>2, <2>3, <2>4, <2>5, <2>6, <2>7, <2>8, ZenonT(60) DEF
      Hypertree!Next, SlhDsa!Scheme!Next, Hypertree!vars, SlhDsa!Scheme!vars, Hypertree!fixed,
      SlhDsa!Scheme!fixed
<1>4. SlhDsa!Scheme!AcceptsWhatWasSigned => Hypertree!AcceptsWhatWasSigned
  BY ZenonT(60) DEF
    Hypertree!AcceptsWhatWasSigned, SlhDsa!Scheme!AcceptsWhatWasSigned, Hypertree!NoChange,
    SlhDsa!Scheme!NoChange
<1>5. SlhDsa!Scheme!RejectsChanges => Hypertree!RejectsChanges
  BY ZenonT(60) DEF
    Hypertree!RejectsChanges, SlhDsa!Scheme!RejectsChanges, Hypertree!NoChange,
    SlhDsa!Scheme!NoChange
<1>6. SlhDsa!Scheme!NoAddressTwice => Hypertree!NoAddressTwice
  BY ZenonT(60) DEF
    Hypertree!NoAddressTwice, SlhDsa!Scheme!NoAddressTwice, Hypertree!Layers, SlhDsa!Scheme!Layers,
    Hypertree!Depth, SlhDsa!Scheme!Depth, Hypertree!Parts, SlhDsa!Scheme!Parts,
    Hypertree!Cardinality, SlhDsa!Scheme!Cardinality
<1>7. SlhDsa!Scheme!BuildsAgree => Hypertree!BuildsAgree
  BY ZenonT(60) DEF
    Hypertree!BuildsAgree, SlhDsa!Scheme!BuildsAgree, Hypertree!fors_sign, SlhDsa!Scheme!fors_sign,
    Hypertree!TreeLanes, SlhDsa!Scheme!TreeLanes, Hypertree!Lanes, SlhDsa!Scheme!Lanes,
    Hypertree!set_type, SlhDsa!Scheme!set_type, Hypertree!copy_keypair_addr,
    SlhDsa!Scheme!copy_keypair_addr, Hypertree!copy_subtree_addr, SlhDsa!Scheme!copy_subtree_addr,
    Hypertree!Blank, SlhDsa!Scheme!Blank, Hypertree!NoTree, SlhDsa!Scheme!NoTree,
    Hypertree!TypeFORSTREE, SlhDsa!Scheme!TypeFORSTREE, Hypertree!treehash, SlhDsa!Scheme!treehash,
    Hypertree!Node, SlhDsa!Scheme!Node, Hypertree!thash, SlhDsa!Scheme!thash, Hypertree!Term,
    SlhDsa!Scheme!Term, Hypertree!NodeAddr, SlhDsa!Scheme!NodeAddr, Hypertree!set_tree_index,
    SlhDsa!Scheme!set_tree_index, Hypertree!set_tree_height, SlhDsa!Scheme!set_tree_height,
    Hypertree!LaneOf, SlhDsa!Scheme!LaneOf, Hypertree!Leaves, SlhDsa!Scheme!Leaves,
    Hypertree!fors_gen_leaf, SlhDsa!Scheme!fors_gen_leaf, Hypertree!idx_offset,
    SlhDsa!Scheme!idx_offset, Hypertree!prf_addr, SlhDsa!Scheme!prf_addr, Hypertree!TypeFORSPRF,
    SlhDsa!Scheme!TypeFORSPRF, Hypertree!AtLeaf, SlhDsa!Scheme!AtLeaf, Hypertree!fors_pk_addr,
    SlhDsa!Scheme!fors_pk_addr, Hypertree!TypeFORSPK, SlhDsa!Scheme!TypeFORSPK,
    Hypertree!merkle_sign, SlhDsa!Scheme!merkle_sign, Hypertree!TypeWOTSPK,
    SlhDsa!Scheme!TypeWOTSPK, Hypertree!TypeHASHTREE, SlhDsa!Scheme!TypeHASHTREE,
    Hypertree!wots_gen_leaf, SlhDsa!Scheme!wots_gen_leaf, Hypertree!ChainValue,
    SlhDsa!Scheme!ChainValue, Hypertree!set_hash_addr, SlhDsa!Scheme!set_hash_addr,
    Hypertree!set_chain_addr, SlhDsa!Scheme!set_chain_addr, Hypertree!TypeWOTSPRF,
    SlhDsa!Scheme!TypeWOTSPRF, Hypertree!TypeWOTS, SlhDsa!Scheme!TypeWOTS,
    Hypertree!set_keypair_addr, SlhDsa!Scheme!set_keypair_addr
<1> QED BY <1>1, <1>2, <1>3, <1>4, <1>5, <1>6, <1>7, Zenon

(* Seeds. *)
LEMMA SameSeed ==
  /\ Seed!Init => SlhDsa!Derandomize!Init
  /\ [Seed!Next]_Seed!vars => [SlhDsa!Derandomize!Next]_SlhDsa!Derandomize!vars
  /\ SlhDsa!Derandomize!SeedIsTheColumns => Seed!SeedIsTheColumns
<1>1. Seed!Init => SlhDsa!Derandomize!Init
  BY ZenonT(60) DEF
    Seed!Init, SlhDsa!Derandomize!Init, Seed!Index, SlhDsa!Derandomize!Index, Seed!Unset,
    SlhDsa!Derandomize!Unset
<1>2. [Seed!Next]_Seed!vars => [SlhDsa!Derandomize!Next]_SlhDsa!Derandomize!vars
  BY ZenonT(60) DEF
    Seed!Next, SlhDsa!Derandomize!Next, Seed!vars, SlhDsa!Derandomize!vars, Seed!slh_dsa_derandomize,
    SlhDsa!Derandomize!slh_dsa_derandomize, Seed!Alloc, SlhDsa!Derandomize!Alloc, Seed!NoMemory,
    SlhDsa!Derandomize!NoMemory, Seed!Fold, SlhDsa!Derandomize!Fold, Seed!Mix, SlhDsa!Derandomize!Mix,
    Seed!Copy, SlhDsa!Derandomize!Copy, Seed!Index, SlhDsa!Derandomize!Index, Seed!Xor,
    SlhDsa!Derandomize!Xor, Seed!combined_len, SlhDsa!Derandomize!combined_len,
    Seed!CRYPTO_SECRETKEYBYTES, SlhDsa!Derandomize!CRYPTO_SECRETKEYBYTES
<1>3. SlhDsa!Derandomize!SeedIsTheColumns => Seed!SeedIsTheColumns
  BY ZenonT(60) DEF
    Seed!SeedIsTheColumns, SlhDsa!Derandomize!SeedIsTheColumns, Seed!ColumnsDecideTheSeed,
    SlhDsa!Derandomize!ColumnsDecideTheSeed, Seed!KeyCopyIsWiped, SlhDsa!Derandomize!KeyCopyIsWiped,
    Seed!ConstantWithoutMemory, SlhDsa!Derandomize!ConstantWithoutMemory,
    Seed!Seeded, SlhDsa!Derandomize!Seeded, Seed!combined_len, SlhDsa!Derandomize!combined_len,
    Seed!Odd, SlhDsa!Derandomize!Odd, Seed!Cardinality, SlhDsa!Derandomize!Cardinality,
    Seed!Column, SlhDsa!Derandomize!Column, Seed!Index, SlhDsa!Derandomize!Index,
    Seed!CRYPTO_SECRETKEYBYTES, SlhDsa!Derandomize!CRYPTO_SECRETKEYBYTES
<1> QED BY <1>1, <1>2, <1>3

(* Sponges. *)
LEMMA SameSponge ==
  /\ Sponge!Init => SlhDsa!Sponge!Init
  /\ [Sponge!Next]_Sponge!vars => [SlhDsa!Sponge!Next]_SlhDsa!Sponge!vars
  /\ SlhDsa!SpongeIsRight => Sponge!AbsorbsPaddedMessage /\ Sponge!OutputIsTheStream /\ Sponge!RoomForPadding
<1>1. Sponge!Init => SlhDsa!Sponge!Init
  BY ZenonT(60) DEF
    Sponge!Init, SlhDsa!Sponge!Init, Sponge!Instances, SlhDsa!Sponge!Instances, Sponge!Zero,
    SlhDsa!Sponge!Zero, Sponge!None, SlhDsa!Sponge!None
<1>2. [Sponge!Next]_Sponge!vars => [SlhDsa!Sponge!Next]_SlhDsa!Sponge!vars
  <2>1. /\ Sponge!shake_init => SlhDsa!Sponge!Next
        /\ Sponge!shake256_inc_init => SlhDsa!Sponge!Next
    <3>1. /\ Sponge!shake_init => SlhDsa!Sponge!shake_init
          /\ Sponge!shake256_inc_init => SlhDsa!Sponge!shake256_inc_init
      BY ZenonT(60) DEF
        Sponge!shake_init, SlhDsa!Sponge!shake_init, Sponge!shake256_inc_init,
        SlhDsa!Sponge!shake256_inc_init, Sponge!call, SlhDsa!Sponge!call
    <3> QED BY <3>1, ZenonT(60) DEF SlhDsa!Sponge!Next
  <2>2. \A n \in 0 .. MaxAbsorbed :
          /\ Sponge!shake_absorb(n) => SlhDsa!Sponge!Next
          /\ Sponge!shake256_inc_absorb(n) => SlhDsa!Sponge!Next
          /\ Sponge!shake_absorb_once(n) => SlhDsa!Sponge!Next
          /\ Sponge!shakex4_absorb_once(n) => SlhDsa!Sponge!Next
    <3>1. \A n :
            /\ Sponge!shake_absorb(n) => SlhDsa!Sponge!shake_absorb(n)
            /\ Sponge!shake256_inc_absorb(n) => SlhDsa!Sponge!shake256_inc_absorb(n)
            /\ Sponge!shake_absorb_once(n) => SlhDsa!Sponge!shake_absorb_once(n)
            /\ Sponge!shakex4_absorb_once(n) => SlhDsa!Sponge!shakex4_absorb_once(n)
      BY ZenonT(60) DEF
        Sponge!shake_absorb, SlhDsa!Sponge!shake_absorb, Sponge!shake256_inc_absorb,
        SlhDsa!Sponge!shake256_inc_absorb, Sponge!shake_absorb_once, SlhDsa!Sponge!shake_absorb_once,
        Sponge!shakex4_absorb_once, SlhDsa!Sponge!shakex4_absorb_once, Sponge!Absorb,
        SlhDsa!Sponge!Absorb, Sponge!Once, SlhDsa!Sponge!Once, Sponge!None, SlhDsa!Sponge!None,
        Sponge!call, SlhDsa!Sponge!call
    <3> QED BY <3>1, ZenonT(60) DEF SlhDsa!Sponge!Next
  <2>3. \A m \in 0 .. MaxSqueezed, n \in 0 .. MaxAbsorbed :
          /\ Sponge!shake128(m, n) => SlhDsa!Sponge!Next
          /\ Sponge!shake256(m, n) => SlhDsa!Sponge!Next
          /\ Sponge!shake128x4(m, n) => SlhDsa!Sponge!Next
          /\ Sponge!shake256x4(m, n) => SlhDsa!Sponge!Next
          /\ Sponge!shake256Sphincs(m, n) => SlhDsa!Sponge!Next
    <3>1. \A m, n :
            /\ Sponge!shake128(m, n) => SlhDsa!Sponge!shake128(m, n)
            /\ Sponge!shake256(m, n) => SlhDsa!Sponge!shake256(m, n)
            /\ Sponge!shake128x4(m, n) => SlhDsa!Sponge!shake128x4(m, n)
            /\ Sponge!shake256x4(m, n) => SlhDsa!Sponge!shake256x4(m, n)
            /\ Sponge!shake256Sphincs(m, n) => SlhDsa!Sponge!shake256Sphincs(m, n)
      BY ZenonT(60) DEF
        Sponge!shake128, SlhDsa!Sponge!shake128, Sponge!shake256, SlhDsa!Sponge!shake256,
        Sponge!shake128x4, SlhDsa!Sponge!shake128x4, Sponge!shake256x4, SlhDsa!Sponge!shake256x4,
        Sponge!shake256Sphincs, SlhDsa!Sponge!shake256Sphincs, Sponge!Once, SlhDsa!Sponge!Once
    <3> QED BY <3>1, ZenonT(60) DEF SlhDsa!Sponge!Next
  <2>4. \A m \in 0 .. MaxSqueezed, n \in 0 .. MaxAbsorbed :
          /\ Sponge!shake128x4Sphincs(m, n) => SlhDsa!Sponge!Next
          /\ Sponge!shake256x4Sphincs(m, n) => SlhDsa!Sponge!Next
          /\ Sponge!shake128x2(m, n) => SlhDsa!Sponge!Next
          /\ Sponge!shake256x2(m, n) => SlhDsa!Sponge!Next
    <3>1. \A m, n :
            /\ Sponge!shake128x4Sphincs(m, n) => SlhDsa!Sponge!shake128x4Sphincs(m, n)
            /\ Sponge!shake256x4Sphincs(m, n) => SlhDsa!Sponge!shake256x4Sphincs(m, n)
            /\ Sponge!shake128x2(m, n) => SlhDsa!Sponge!shake128x2(m, n)
            /\ Sponge!shake256x2(m, n) => SlhDsa!Sponge!shake256x2(m, n)
      BY ZenonT(60) DEF
        Sponge!shake128x4Sphincs, SlhDsa!Sponge!shake128x4Sphincs, Sponge!shake256x4Sphincs,
        SlhDsa!Sponge!shake256x4Sphincs, Sponge!shake128x2, SlhDsa!Sponge!shake128x2, Sponge!shake256x2,
        SlhDsa!Sponge!shake256x2, Sponge!Once, SlhDsa!Sponge!Once
    <3> QED BY <3>1, ZenonT(60) DEF SlhDsa!Sponge!Next
  <2>5. /\ Sponge!keccak_absorb => SlhDsa!Sponge!Next
        /\ Sponge!keccak_inc_absorb => SlhDsa!Sponge!Next
    <3>1. /\ Sponge!keccak_absorb => SlhDsa!Sponge!keccak_absorb
          /\ Sponge!keccak_inc_absorb => SlhDsa!Sponge!keccak_inc_absorb
      BY ZenonT(60) DEF
        Sponge!keccak_absorb, SlhDsa!Sponge!keccak_absorb, Sponge!keccak_inc_absorb,
        SlhDsa!Sponge!keccak_inc_absorb, Sponge!AbsorbBlock, SlhDsa!Sponge!AbsorbBlock,
        Sponge!AbsorbRest, SlhDsa!Sponge!AbsorbRest, Sponge!Permute, SlhDsa!Sponge!Permute, Sponge!Into,
        SlhDsa!Sponge!Into, Sponge!Read, SlhDsa!Sponge!Read, Sponge!call, SlhDsa!Sponge!call,
        Sponge!Flip, SlhDsa!Sponge!Flip
    <3> QED BY <3>1, ZenonT(60) DEF SlhDsa!Sponge!Next
  <2>6. /\ Sponge!shake_finalize => SlhDsa!Sponge!Next
        /\ Sponge!shake256_inc_finalize => SlhDsa!Sponge!Next
    <3>1. /\ Sponge!shake_finalize => SlhDsa!Sponge!shake_finalize
          /\ Sponge!shake256_inc_finalize => SlhDsa!Sponge!shake256_inc_finalize
      BY ZenonT(60) DEF
        Sponge!shake_finalize, SlhDsa!Sponge!shake_finalize, Sponge!shake256_inc_finalize,
        SlhDsa!Sponge!shake256_inc_finalize, Sponge!keccak_finalize, SlhDsa!Sponge!keccak_finalize,
        Sponge!call, SlhDsa!Sponge!call, Sponge!Xor, SlhDsa!Sponge!Xor, Sponge!p, SlhDsa!Sponge!p,
        Sponge!top, SlhDsa!Sponge!top, Sponge!Into, SlhDsa!Sponge!Into, Sponge!Flip, SlhDsa!Sponge!Flip
    <3> QED BY <3>1, ZenonT(60) DEF SlhDsa!Sponge!Next
  <2>7. /\ Sponge!OnceBlock => SlhDsa!Sponge!Next
    <3>1. /\ Sponge!OnceBlock => SlhDsa!Sponge!OnceBlock
      BY ZenonT(60) DEF
        Sponge!OnceBlock, SlhDsa!Sponge!OnceBlock, Sponge!Permute, SlhDsa!Sponge!Permute, Sponge!Into,
        SlhDsa!Sponge!Into, Sponge!Read, SlhDsa!Sponge!Read, Sponge!call, SlhDsa!Sponge!call,
        Sponge!Flip, SlhDsa!Sponge!Flip
    <3> QED BY <3>1, ZenonT(60) DEF SlhDsa!Sponge!Next
  <2>8. /\ Sponge!OnceRest => SlhDsa!Sponge!Next
    <3>1. /\ Sponge!OnceRest => SlhDsa!Sponge!OnceRest
      BY ZenonT(60) DEF
        Sponge!OnceRest, SlhDsa!Sponge!OnceRest, Sponge!LastBlock, SlhDsa!Sponge!LastBlock, Sponge!Read,
        SlhDsa!Sponge!Read, Sponge!None, SlhDsa!Sponge!None, Sponge!call, SlhDsa!Sponge!call,
        Sponge!keccak_absorb_once, SlhDsa!Sponge!keccak_absorb_once, Sponge!keccakx4_absorb_once,
        SlhDsa!Sponge!keccakx4_absorb_once, Sponge!keccak_absorbSphincs,
        SlhDsa!Sponge!keccak_absorbSphincs, Sponge!keccak_absorb4x, SlhDsa!Sponge!keccak_absorb4x,
        Sponge!keccak_absorb2x, SlhDsa!Sponge!keccak_absorb2x, Sponge!Xor, SlhDsa!Sponge!Xor,
        Sponge!Into, SlhDsa!Sponge!Into, Sponge!p, SlhDsa!Sponge!p, Sponge!top, SlhDsa!Sponge!top,
        Sponge!Junk, SlhDsa!Sponge!Junk, Sponge!Zero, SlhDsa!Sponge!Zero, Sponge!Flip,
        SlhDsa!Sponge!Flip
    <3> QED BY <3>1, ZenonT(60) DEF SlhDsa!Sponge!Next
  <2>9. \A n \in 0 .. MaxSqueezed :
          /\ Sponge!shake_squeezeblocks(n) => SlhDsa!Sponge!Next
          /\ Sponge!shake_squeeze(n) => SlhDsa!Sponge!Next
          /\ Sponge!shake256_inc_squeeze(n) => SlhDsa!Sponge!Next
    <3>1. \A n :
            /\ Sponge!shake_squeezeblocks(n) => SlhDsa!Sponge!shake_squeezeblocks(n)
            /\ Sponge!shake_squeeze(n) => SlhDsa!Sponge!shake_squeeze(n)
            /\ Sponge!shake256_inc_squeeze(n) => SlhDsa!Sponge!shake256_inc_squeeze(n)
      BY ZenonT(60) DEF
        Sponge!shake_squeezeblocks, SlhDsa!Sponge!shake_squeezeblocks, Sponge!shake_squeeze,
        SlhDsa!Sponge!shake_squeeze, Sponge!shake256_inc_squeeze, SlhDsa!Sponge!shake256_inc_squeeze,
        Sponge!call, SlhDsa!Sponge!call, Sponge!Least, SlhDsa!Sponge!Least, Sponge!Give,
        SlhDsa!Sponge!Give, Sponge!Byte, SlhDsa!Sponge!Byte
    <3> QED BY <3>1, ZenonT(60) DEF SlhDsa!Sponge!Next
  <2>10. /\ Sponge!keccak_squeezeblocks => SlhDsa!Sponge!Next
         /\ Sponge!ShakeRest => SlhDsa!Sponge!Next
         /\ Sponge!OneShot => SlhDsa!Sponge!Next
    <3>1. /\ Sponge!keccak_squeezeblocks => SlhDsa!Sponge!keccak_squeezeblocks
          /\ Sponge!ShakeRest => SlhDsa!Sponge!ShakeRest
          /\ Sponge!OneShot => SlhDsa!Sponge!OneShot
      BY ZenonT(60) DEF
        Sponge!keccak_squeezeblocks, SlhDsa!Sponge!keccak_squeezeblocks, Sponge!ShakeRest,
        SlhDsa!Sponge!ShakeRest, Sponge!OneShot, SlhDsa!Sponge!OneShot, Sponge!Give, SlhDsa!Sponge!Give,
        Sponge!Permuted, SlhDsa!Sponge!Permuted, Sponge!call, SlhDsa!Sponge!call, Sponge!Returned,
        SlhDsa!Sponge!Returned, Sponge!Byte, SlhDsa!Sponge!Byte, Sponge!Permute, SlhDsa!Sponge!Permute,
        Sponge!None, SlhDsa!Sponge!None
    <3> QED BY <3>1, ZenonT(60) DEF SlhDsa!Sponge!Next
  <2>11. /\ Sponge!keccak_squeeze => SlhDsa!Sponge!Next
         /\ Sponge!keccak_inc_squeeze => SlhDsa!Sponge!Next
         /\ Sponge!Return => SlhDsa!Sponge!Next
    <3>1. /\ Sponge!keccak_squeeze => SlhDsa!Sponge!keccak_squeeze
          /\ Sponge!keccak_inc_squeeze => SlhDsa!Sponge!keccak_inc_squeeze
          /\ Sponge!Return => SlhDsa!Sponge!Return
      BY ZenonT(60) DEF
        Sponge!keccak_squeeze, SlhDsa!Sponge!keccak_squeeze, Sponge!keccak_inc_squeeze,
        SlhDsa!Sponge!keccak_inc_squeeze, Sponge!Return, SlhDsa!Sponge!Return, Sponge!Least,
        SlhDsa!Sponge!Least, Sponge!Give, SlhDsa!Sponge!Give, Sponge!Permuted, SlhDsa!Sponge!Permuted,
        Sponge!call, SlhDsa!Sponge!call, Sponge!Returned, SlhDsa!Sponge!Returned, Sponge!Byte,
        SlhDsa!Sponge!Byte, Sponge!Permute, SlhDsa!Sponge!Permute, Sponge!None, SlhDsa!Sponge!None
    <3> QED BY <3>1, ZenonT(60) DEF SlhDsa!Sponge!Next
  <2>12. UNCHANGED Sponge!vars => UNCHANGED SlhDsa!Sponge!vars
    BY ZenonT(60) DEF Sponge!vars, SlhDsa!Sponge!vars
  <2>13. Sponge!Next => SlhDsa!Sponge!Next
    <3>1. ASSUME NEW n \in 0 .. MaxAbsorbed,
                 \/ Sponge!shake_absorb(n) \/ Sponge!shake256_inc_absorb(n)
                 \/ Sponge!shake_absorb_once(n) \/ Sponge!shakex4_absorb_once(n)
                 \/ \E m \in 0 .. MaxSqueezed :
                      \/ Sponge!shake128(m, n) \/ Sponge!shake256(m, n)
                      \/ Sponge!shake128x4(m, n) \/ Sponge!shake256x4(m, n)
                      \/ Sponge!shake256Sphincs(m, n) \/ Sponge!shake128x4Sphincs(m, n)
                      \/ Sponge!shake256x4Sphincs(m, n) \/ Sponge!shake128x2(m, n) \/ Sponge!shake256x2(m, n)
          PROVE  SlhDsa!Sponge!Next
      <4>1. CASE \/ Sponge!shake_absorb(n) \/ Sponge!shake256_inc_absorb(n)
                 \/ Sponge!shake_absorb_once(n) \/ Sponge!shakex4_absorb_once(n)
        BY <2>2, <4>1, ZenonT(60)
      <4>2. ASSUME NEW m \in 0 .. MaxSqueezed,
                   \/ Sponge!shake128(m, n) \/ Sponge!shake256(m, n)
                   \/ Sponge!shake128x4(m, n) \/ Sponge!shake256x4(m, n)
                   \/ Sponge!shake256Sphincs(m, n) \/ Sponge!shake128x4Sphincs(m, n)
                   \/ Sponge!shake256x4Sphincs(m, n) \/ Sponge!shake128x2(m, n) \/ Sponge!shake256x2(m, n)
            PROVE  SlhDsa!Sponge!Next
        BY <2>3, <2>4, <4>2, ZenonT(60)
      <4> QED BY <3>1, <4>1, <4>2, ZenonT(60)
    <3>2. ASSUME NEW n \in 0 .. MaxSqueezed,
                 \/ Sponge!shake_squeezeblocks(n) \/ Sponge!shake_squeeze(n)
                 \/ Sponge!shake256_inc_squeeze(n)
          PROVE  SlhDsa!Sponge!Next
      BY <2>9, <3>2, ZenonT(60)
    <3> QED BY <2>1, <2>5, <2>6, <2>7, <2>8, <2>10, <2>11, <3>1, <3>2, ZenonT(60) DEF Sponge!Next
  <2> QED BY <2>12, <2>13, ZenonT(60)
<1>3. SlhDsa!SpongeIsRight => Sponge!AbsorbsPaddedMessage /\ Sponge!OutputIsTheStream /\ Sponge!RoomForPadding
  BY ZenonT(60) DEF SlhDsa!SpongeIsRight,
    Sponge!AbsorbsPaddedMessage, SlhDsa!Sponge!AbsorbsPaddedMessage, Sponge!OutputIsTheStream,
    SlhDsa!Sponge!OutputIsTheStream, Sponge!RoomForPadding, SlhDsa!Sponge!RoomForPadding, Sponge!Blocks,
    SlhDsa!Sponge!Blocks, Sponge!Padded, SlhDsa!Sponge!Padded, Sponge!p, SlhDsa!Sponge!p, Sponge!top,
    SlhDsa!Sponge!top
<1> QED BY <1>1, <1>2, <1>3

(* Addresses. *)
LEMMA SameAddress ==
  /\ Address!Init => SlhDsa!Address!Init
  /\ Address!Next => SlhDsa!Address!Next
  /\ SlhDsa!Address!F!Init => Address!F!Init
  /\ SlhDsa!Address!F!Next => Address!F!Next
  /\ SlhDsa!Address!HashSeesEveryField => Address!HashSeesEveryField
  /\ SlhDsa!Address!ChecksumFits => Address!ChecksumFits
  /\ SlhDsa!Address!SizesAgree => Address!SizesAgree
<1>1. Address!Init => SlhDsa!Address!Init
  BY ZenonT(60) DEF
    Address!Init, SlhDsa!Address!Init, Address!Blank, SlhDsa!Address!Blank, Address!Width,
    SlhDsa!Address!Width
<1>2. Address!Next => SlhDsa!Address!Next
  BY ZenonT(60) DEF
    Address!Next, SlhDsa!Address!Next, Address!Set, SlhDsa!Address!Set, Address!set_layer_addr,
    SlhDsa!Address!set_layer_addr, Address!set_tree_addr, SlhDsa!Address!set_tree_addr,
    Address!set_type, SlhDsa!Address!set_type, Address!set_keypair_addr,
    SlhDsa!Address!set_keypair_addr, Address!set_chain_addr, SlhDsa!Address!set_chain_addr,
    Address!set_hash_addr, SlhDsa!Address!set_hash_addr, Address!set_tree_height,
    SlhDsa!Address!set_tree_height, Address!set_tree_index, SlhDsa!Address!set_tree_index, Address!Copy,
    SlhDsa!Address!Copy, Address!copy_subtree_addr, SlhDsa!Address!copy_subtree_addr,
    Address!copy_keypair_addr, SlhDsa!Address!copy_keypair_addr, Address!Put, SlhDsa!Address!Put,
    Address!ull_to_bytes, SlhDsa!Address!ull_to_bytes, Address!u32_to_bytes,
    SlhDsa!Address!u32_to_bytes, Address!Width, SlhDsa!Address!Width,
    Address!F!Layers, SlhDsa!Address!F!Layers, Address!F!LastTree, SlhDsa!Address!F!LastTree,
    Address!F!Trees, SlhDsa!Address!F!Trees, Address!F!NoTree, SlhDsa!Address!F!NoTree, Address!F!Types,
    SlhDsa!Address!F!Types, Address!F!TypeWOTS, SlhDsa!Address!F!TypeWOTS, Address!F!TypeFORSPRF,
    SlhDsa!Address!F!TypeFORSPRF, Address!F!Keypairs, SlhDsa!Address!F!Keypairs, Address!F!Chains,
    SlhDsa!Address!F!Chains, Address!F!Hashes, SlhDsa!Address!F!Hashes, Address!F!Heights,
    SlhDsa!Address!F!Heights, Address!F!Indices, SlhDsa!Address!F!Indices
<1>3. SlhDsa!Address!F!Init => Address!F!Init
  BY ZenonT(60) DEF
    Address!F!Init, SlhDsa!Address!F!Init, Address!F!ParameterSets, SlhDsa!Address!F!ParameterSets,
    Address!F!Blank, SlhDsa!Address!F!Blank, Address!F!haraka_128f, SlhDsa!Address!F!haraka_128f,
    Address!F!haraka_128s, SlhDsa!Address!F!haraka_128s, Address!F!haraka_192f,
    SlhDsa!Address!F!haraka_192f, Address!F!haraka_192s, SlhDsa!Address!F!haraka_192s,
    Address!F!haraka_256f, SlhDsa!Address!F!haraka_256f, Address!F!haraka_256s,
    SlhDsa!Address!F!haraka_256s, Address!F!sha2_128f, SlhDsa!Address!F!sha2_128f, Address!F!sha2_128s,
    SlhDsa!Address!F!sha2_128s, Address!F!sha2_192f, SlhDsa!Address!F!sha2_192f, Address!F!sha2_192s,
    SlhDsa!Address!F!sha2_192s, Address!F!sha2_256f, SlhDsa!Address!F!sha2_256f, Address!F!sha2_256s,
    SlhDsa!Address!F!sha2_256s, Address!F!shake_128f, SlhDsa!Address!F!shake_128f, Address!F!shake_128s,
    SlhDsa!Address!F!shake_128s, Address!F!shake_192f, SlhDsa!Address!F!shake_192f,
    Address!F!shake_192s, SlhDsa!Address!F!shake_192s, Address!F!shake_256f,
    SlhDsa!Address!F!shake_256f, Address!F!shake_256s, SlhDsa!Address!F!shake_256s, Address!F!NoTree,
    SlhDsa!Address!F!NoTree, Address!F!Header, SlhDsa!Address!F!Header, Address!F!haraka_offsets,
    SlhDsa!Address!F!haraka_offsets, Address!F!sha2_offsets, SlhDsa!Address!F!sha2_offsets,
    Address!F!shake_offsets, SlhDsa!Address!F!shake_offsets, Address!F!LOGW, SlhDsa!Address!F!LOGW,
    Address!F!LEN2, SlhDsa!Address!F!LEN2, Address!F!LayoutOf, SlhDsa!Address!F!LayoutOf,
    Address!Fields, SlhDsa!Address!Fields, Address!Word, SlhDsa!Address!Word
<1>4. SlhDsa!Address!F!Next => Address!F!Next
  BY ZenonT(60) DEF
    Address!F!Next, SlhDsa!Address!F!Next, Address!F!Layers, SlhDsa!Address!F!Layers, Address!F!Set,
    SlhDsa!Address!F!Set, Address!F!set_layer_addr, SlhDsa!Address!F!set_layer_addr, Address!F!Trees,
    SlhDsa!Address!F!Trees, Address!F!set_tree_addr, SlhDsa!Address!F!set_tree_addr, Address!F!Types,
    SlhDsa!Address!F!Types, Address!F!set_type, SlhDsa!Address!F!set_type, Address!F!Keypairs,
    SlhDsa!Address!F!Keypairs, Address!F!set_keypair_addr, SlhDsa!Address!F!set_keypair_addr,
    Address!F!Chains, SlhDsa!Address!F!Chains, Address!F!set_chain_addr,
    SlhDsa!Address!F!set_chain_addr, Address!F!Hashes, SlhDsa!Address!F!Hashes, Address!F!set_hash_addr,
    SlhDsa!Address!F!set_hash_addr, Address!F!Heights, SlhDsa!Address!F!Heights,
    Address!F!set_tree_height, SlhDsa!Address!F!set_tree_height, Address!F!Indices,
    SlhDsa!Address!F!Indices, Address!F!set_tree_index, SlhDsa!Address!F!set_tree_index, Address!F!Copy,
    SlhDsa!Address!F!Copy, Address!F!copy_subtree_addr, SlhDsa!Address!F!copy_subtree_addr,
    Address!F!copy_keypair_addr, SlhDsa!Address!F!copy_keypair_addr, Address!F!NoTree,
    SlhDsa!Address!F!NoTree, Address!F!LastTree, SlhDsa!Address!F!LastTree, Address!F!TypeWOTS,
    SlhDsa!Address!F!TypeWOTS, Address!F!TypeFORSPRF, SlhDsa!Address!F!TypeFORSPRF,
    Address!Fields, SlhDsa!Address!Fields, Address!Word, SlhDsa!Address!Word
<1>5. SlhDsa!Address!HashSeesEveryField => Address!HashSeesEveryField
  BY ZenonT(60) DEF
    Address!HashSeesEveryField, SlhDsa!Address!HashSeesEveryField, Address!Hashed,
    SlhDsa!Address!Hashed, Address!Width, SlhDsa!Address!Width, Address!Fields, SlhDsa!Address!Fields,
    Address!Word, SlhDsa!Address!Word,
    Address!F!Blank, SlhDsa!Address!F!Blank, Address!F!NoTree, SlhDsa!Address!F!NoTree
<1>6. SlhDsa!Address!ChecksumFits => Address!ChecksumFits
  BY ZenonT(60) DEF Address!ChecksumFits, SlhDsa!Address!ChecksumFits
<1>7. SlhDsa!Address!shake_128s = Address!shake_128s
  BY ZenonT(60) DEF
    Address!shake_128s, SlhDsa!Address!shake_128s, Address!Header, SlhDsa!Address!Header,
    Address!shake_offsets, SlhDsa!Address!shake_offsets, Address!LOGW, SlhDsa!Address!LOGW,
    Address!LEN2, SlhDsa!Address!LEN2, Address!LayoutOf, SlhDsa!Address!LayoutOf
<1>8. SlhDsa!Address!SizesAgree => Address!SizesAgree
  BY <1>7, SMTT(60) DEF Address!SizesAgree, SlhDsa!Address!SizesAgree
<1> QED BY <1>1, <1>2, <1>3, <1>4, <1>5, <1>6, <1>8

-----------------------------------------------------------------------------
(* The model keeps the piece it started with. *)
LEMMA PieceStays == [PiecesNext]_<<piece, slots>> => piece' = piece
  BY ZenonT(60) DEF PiecesNext

(* The seed of an SLH-DSA signature hangs on the columns of key and        *)
(* message and on nothing else; it is a constant only without memory, and  *)
(* the copy of the key is wiped (slh_dsa/utils.c:107-126).                 *)
THEOREM SeedInPieces == Pieces => []SeedIsTheColumns
<1> DEFINE Here == piece = "seed"
<1>1. SlhDsa!Derandomize!Spec => []SlhDsa!Derandomize!SeedIsTheColumns
  BY SourceConstants, PiecesAssumption, SlhDsa!SeedFollowsTheColumns, ZenonT(60) DEF Seed!LengthsAssumption,
     SlhDsa!Derandomize!LengthsAssumption, Seed!ChangesAssumption, SlhDsa!Derandomize!ChangesAssumption,
     Seed!IsFiniteSet, SlhDsa!Derandomize!IsFiniteSet
<1>2. PiecesInit /\ Here => SlhDsa!Derandomize!Init
  BY SameSeed, ZenonT(60) DEF PiecesInit
<1>3. Here /\ [PiecesNext]_<<piece, slots>> => [SlhDsa!Derandomize!Next]_(SlhDsa!Derandomize!vars)
  BY SameSeed, ZenonT(60) DEF PiecesNext, slots, Seed!vars
<1>4. /\ Here /\ [PiecesNext]_<<piece, slots>> => Here'
      /\ ~Here /\ [PiecesNext]_<<piece, slots>> => ~Here'
  BY PieceStays, ZenonT(60)
<1>5. (Here => SlhDsa!Derandomize!SeedIsTheColumns) => SeedIsTheColumns
  BY SameSeed, ZenonT(60) DEF SeedIsTheColumns
<1> HIDE DEF Here
<1>6. Pieces /\ Here => []Here /\ SlhDsa!Derandomize!Spec
  BY <1>2, <1>3, <1>4, PTL DEF Pieces, SlhDsa!Derandomize!Spec
<1>7. Pieces /\ ~Here => []~Here
  BY <1>4, PTL DEF Pieces
<1> QED BY <1>1, <1>5, <1>6, <1>7, PTL

(* However input and output are cut into calls, the sponge absorbs the     *)
(* padded message and gives the one stream it has (fips202.c:379-499).     *)
THEOREM SpongeInPieces == Pieces => []SpongeIsOneStream
<1> DEFINE Here == piece = "sponge"
<1>1. SlhDsa!Sponge!Spec => []SlhDsa!SpongeIsRight
  BY SourceConstants, PiecesAssumption, SlhDsa!SpongeGivesOneStream DEF Sponge!RatesAssumption,
     SlhDsa!Sponge!RatesAssumption
<1>2. PiecesInit /\ Here => SlhDsa!Sponge!Init
  BY SameSponge, ZenonT(60) DEF PiecesInit
<1>3. Here /\ [PiecesNext]_<<piece, slots>> => [SlhDsa!Sponge!Next]_(SlhDsa!Sponge!vars)
  BY SameSponge, ZenonT(60) DEF PiecesNext, slots, Sponge!vars
<1>4. /\ Here /\ [PiecesNext]_<<piece, slots>> => Here'
      /\ ~Here /\ [PiecesNext]_<<piece, slots>> => ~Here'
  BY PieceStays, ZenonT(60)
<1>5. (Here => SlhDsa!SpongeIsRight) => SpongeIsOneStream
  BY SameSponge, ZenonT(60) DEF SpongeIsOneStream
<1> HIDE DEF Here
<1>6. Pieces /\ Here => []Here /\ SlhDsa!Sponge!Spec
  BY <1>2, <1>3, <1>4, PTL DEF Pieces, SlhDsa!Sponge!Spec
<1>7. Pieces /\ ~Here => []~Here
  BY <1>4, PTL DEF Pieces
<1> QED BY <1>1, <1>5, <1>6, <1>7, PTL

(* One chain after the other or many lanes at once: nothing is read past   *)
(* the end, signer and verifier get the same key, and the signature is no  *)
(* other message's; with digits of four bits and a checksum of three, as   *)
(* every parameter set has them (ref/wots.c:66-84, shake-avx2/wots.c:72).  *)
THEOREM ChainsInPieces ==
  ASSUME WotsLOGW = 4, WotsLEN2 = 3, WotsN <= 136
  PROVE  Pieces => []ChainsGiveTheKey
<1>0. SlhDsa!WotsSizes
  BY PiecesAssumption, ZenonT(60) DEF SlhDsa!WotsSizes, Wots!SizesAssumption, SlhDsa!Wots!SizesAssumption
<1> DEFINE Here == piece = "wots"
<1>1. SlhDsa!Wots!Spec => []SlhDsa!ChainsGiveTheKey
  BY <1>0, SourceConstants, SlhDsa!ManyLanesGiveTheKey
<1>2. PiecesInit /\ Here => SlhDsa!Wots!Init
  BY SameWots, ZenonT(60) DEF PiecesInit
<1>3. Here /\ [PiecesNext]_<<piece, slots>> => [SlhDsa!Wots!Next]_(SlhDsa!Wots!vars)
  BY SameWots, ZenonT(60) DEF PiecesNext, slots, Wots!vars
<1>4. /\ Here /\ [PiecesNext]_<<piece, slots>> => Here'
      /\ ~Here /\ [PiecesNext]_<<piece, slots>> => ~Here'
  BY PieceStays, ZenonT(60)
<1>5. (Here => SlhDsa!ChainsGiveTheKey) => ChainsGiveTheKey
  BY SameWots, ZenonT(60) DEF ChainsGiveTheKey, SlhDsa!ChainsGiveTheKey
<1> HIDE DEF Here
<1>6. Pieces /\ Here => []Here /\ SlhDsa!Wots!Spec
  BY <1>2, <1>3, <1>4, PTL DEF Pieces, SlhDsa!Wots!Spec
<1>7. Pieces /\ ~Here => []~Here
  BY <1>4, PTL DEF Pieces
<1> QED BY <1>1, <1>5, <1>6, <1>7, PTL

(* All versions of treehash give the root and the path that the tree has,  *)
(* on a stack with room, and the verifier follows the path to that root,   *)
(* for trees of every height below 28 anywhere in a row: no parameter set  *)
(* has one higher than 14 (utilsx1.c:36-64, utilsx4.c:49-89, utils.c:119). *)
THEOREM TreesInPieces ==
  ASSUME TallestTree <= 27
  PROVE  Pieces => []TreesGiveTheRoot
<1>0. SlhDsa!TreeSizes
  BY PiecesAssumption, ZenonT(60) DEF SlhDsa!TreeSizes, Treehash!SizesAssumption, SlhDsa!Treehash!SizesAssumption
<1> DEFINE Here == piece = "trees"
           Inv == /\ SlhDsa!Treehash!StackHasRoom /\ SlhDsa!Treehash!RootIsTheRoot
                  /\ SlhDsa!Treehash!PathIsTheNeighbours /\ SlhDsa!Treehash!VerifierFindsRoot
<1>1. SlhDsa!Treehash!Spec => []Inv
  BY <1>0, SlhDsa!TreesAreBuilt
<1>2. PiecesInit /\ Here => SlhDsa!Treehash!Init
  BY SameTrees, ZenonT(60) DEF PiecesInit
<1>3. Here /\ [PiecesNext]_<<piece, slots>> => [SlhDsa!Treehash!Next]_(SlhDsa!Treehash!vars)
  BY SameTrees, ZenonT(60) DEF PiecesNext, slots, Treehash!vars
<1>4. /\ Here /\ [PiecesNext]_<<piece, slots>> => Here'
      /\ ~Here /\ [PiecesNext]_<<piece, slots>> => ~Here'
  BY PieceStays, ZenonT(60)
<1>5. (Here => Inv) => TreesGiveTheRoot
  BY SameTrees, ZenonT(60) DEF TreesGiveTheRoot
<1> HIDE DEF Here, Inv
<1>6. Pieces /\ Here => []Here /\ SlhDsa!Treehash!Spec
  BY <1>2, <1>3, <1>4, PTL DEF Pieces, SlhDsa!Treehash!Spec
<1>7. Pieces /\ ~Here => []~Here
  BY <1>4, PTL DEF Pieces
<1> QED BY <1>1, <1>5, <1>6, <1>7, PTL

(* A signature is accepted, a changed one is not, no two hashes have the   *)
(* same address, every build signs alike, for every number and height of   *)
(* the trees and of the chains (sign.c:140-235, fors.c:92-104).            *)
THEOREM SignaturesInPieces == Pieces => []SignaturesAreExact
<1> DEFINE Here == piece = "hypertree"
           Inv == /\ SlhDsa!Scheme!AcceptsWhatWasSigned /\ SlhDsa!Scheme!RejectsChanges
                  /\ SlhDsa!Scheme!NoAddressTwice /\ SlhDsa!Scheme!BuildsAgree
<1>1. SlhDsa!Scheme!Spec => []Inv
  BY SameScheme, SlhDsa!SignaturesAreRight
<1>2. PiecesInit /\ Here => SlhDsa!Scheme!Init
  BY SameScheme, ZenonT(60) DEF PiecesInit
<1>3. Here /\ [PiecesNext]_<<piece, slots>> => [SlhDsa!Scheme!Next]_(SlhDsa!Scheme!vars)
  BY SameScheme, ZenonT(60) DEF PiecesNext, slots, Hypertree!vars
<1>4. /\ Here /\ [PiecesNext]_<<piece, slots>> => Here'
      /\ ~Here /\ [PiecesNext]_<<piece, slots>> => ~Here'
  BY PieceStays, ZenonT(60)
<1>5. (Here => Inv) => SignaturesAreExact
  BY SameScheme, ZenonT(60) DEF SignaturesAreExact
<1> HIDE DEF Here, Inv
<1>6. Pieces /\ Here => []Here /\ SlhDsa!Scheme!Spec
  BY <1>2, <1>3, <1>4, PTL DEF Pieces, SlhDsa!Scheme!Spec
<1>7. Pieces /\ ~Here => []~Here
  BY <1>4, PTL DEF Pieces
<1> QED BY <1>1, <1>5, <1>6, <1>7, PTL

(* The bytes of an address hold its fields and do what its functions       *)
(* promise of them; the hash functions see every field; the sizes of each  *)
(* parameter set fit together (address.c:10-104, sha2_offsets.h:9-16,      *)
(* slh_dsa.h:14-16).                                                       *)
THEOREM AddressesInPieces == Pieces => AddressesHoldTheFields
<1> DEFINE Here == piece = "address"
           Inv == SlhDsa!AddressInv
           Means == Address!HashSeesEveryField /\ Address!ChecksumFits /\ Address!SizesAgree
<1>1. PiecesInit /\ Here => Inv /\ Address!F!Init
  <2>1. PiecesInit /\ Here => SlhDsa!Address!Init  BY SameAddress, ZenonT(60) DEF PiecesInit
  <2>2. SlhDsa!Address!SetsAssumption
    <3>1. Address!SetsAssumption  BY PiecesAssumption
    <3> QED BY <3>1, ZenonT(60) DEF
         Address!SetsAssumption, SlhDsa!Address!SetsAssumption, Address!ParameterSets,
         SlhDsa!Address!ParameterSets, Address!haraka_128f, SlhDsa!Address!haraka_128f, Address!haraka_128s,
         SlhDsa!Address!haraka_128s, Address!haraka_192f, SlhDsa!Address!haraka_192f, Address!haraka_192s,
         SlhDsa!Address!haraka_192s, Address!haraka_256f, SlhDsa!Address!haraka_256f, Address!haraka_256s,
         SlhDsa!Address!haraka_256s, Address!sha2_128f, SlhDsa!Address!sha2_128f, Address!sha2_128s,
         SlhDsa!Address!sha2_128s, Address!sha2_192f, SlhDsa!Address!sha2_192f, Address!sha2_192s,
         SlhDsa!Address!sha2_192s, Address!sha2_256f, SlhDsa!Address!sha2_256f, Address!sha2_256s,
         SlhDsa!Address!sha2_256s, Address!shake_128f, SlhDsa!Address!shake_128f, Address!shake_128s,
         SlhDsa!Address!shake_128s, Address!shake_192f, SlhDsa!Address!shake_192f, Address!shake_192s,
         SlhDsa!Address!shake_192s, Address!shake_256f, SlhDsa!Address!shake_256f, Address!shake_256s,
         SlhDsa!Address!shake_256s, Address!Header, SlhDsa!Address!Header, Address!haraka_offsets,
         SlhDsa!Address!haraka_offsets, Address!sha2_offsets, SlhDsa!Address!sha2_offsets,
         Address!shake_offsets, SlhDsa!Address!shake_offsets, Address!LOGW, SlhDsa!Address!LOGW,
         Address!LEN2, SlhDsa!Address!LEN2, Address!LayoutOf, SlhDsa!Address!LayoutOf
  <2> QED BY <2>1, <2>2, SourceConstants, SlhDsa!AddressStarts, SameAddress
<1>2. Here /\ Inv /\ [PiecesNext]_<<piece, slots>> => Inv'
  <2>1. ASSUME Here, PiecesNext  PROVE Address!Next
    BY <2>1, ZenonT(60) DEF PiecesNext
  <2>2. ASSUME Inv, UNCHANGED <<piece, slots>>  PROVE Inv'
    <3>1. UNCHANGED <<u1, u2, u3, u4>>  BY <2>2 DEF slots
    <3> QED BY <2>2, <3>1, SourceConstants, SlhDsa!AddressStutters
  <2>3. ASSUME Inv, Address!Next  PROVE Inv'
    <3>1. SlhDsa!Address!Next  BY <2>3, SameAddress
    <3> QED BY <2>3, <3>1, SourceConstants, SlhDsa!AddressStep
  <2> QED BY <2>1, <2>2, <2>3
<1>3. Here /\ Inv /\ PiecesNext => Address!F!Next
  <2> SUFFICES ASSUME Here, Inv, PiecesNext  PROVE Address!F!Next  OBVIOUS
  <2>1. SlhDsa!Address!Next  BY SameAddress, ZenonT(60) DEF PiecesNext
  <2>2. SlhDsa!Address!F!Next  BY <2>1, SourceConstants, SlhDsa!AddressStep
  <2> QED BY <2>2, SameAddress
<1>4. Inv => Means
  BY SourceConstants, SlhDsa!HashesSee, SlhDsa!SetsAreSound, SameAddress
<1>5. /\ Here /\ [PiecesNext]_<<piece, slots>> => Here'
      /\ ~Here /\ [PiecesNext]_<<piece, slots>> => ~Here'
  BY PieceStays, ZenonT(60)
<1>6. /\ Here /\ Inv /\ [PiecesNext]_<<piece, slots>> => [Here => Address!F!Next]_<<piece, slots>>
      /\ ~Here /\ [PiecesNext]_<<piece, slots>> => [Here => Address!F!Next]_<<piece, slots>>
      /\ (Here => Means) => (Here => Address!HashSeesEveryField /\ Address!ChecksumFits /\ Address!SizesAgree)
  BY <1>3
<1> HIDE DEF Here, Inv, Means
<1>7. Pieces /\ Here => [](Here /\ Inv)  BY <1>1, <1>2, <1>5, PTL DEF Pieces
<1>8. Pieces /\ ~Here => []~Here  BY <1>5, PTL DEF Pieces
<1>9. Pieces => (Here => Address!F!Init)  BY <1>1 DEF Pieces
<1>10. Pieces => [][Here => Address!F!Next]_<<piece, slots>>  BY <1>6, <1>7, <1>8, PTL DEF Pieces
<1>11. Pieces => [](Here => Means)  BY <1>4, <1>7, <1>8, PTL
<1> QED BY <1>9, <1>10, <1>11, PTL DEF AddressesHoldTheFields, Here, Means
=============================================================================
