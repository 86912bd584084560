------------------------------- MODULE KeccakF -------------------------------
(***************************************************************************)
(* The permutation Keccak-f[1600] as the code unrolls it: on 25 words in C *)
(* (fips202.c, twice) and on 25 vectors of four words in AVX2 (keccak4x).  *)
(* A state is five rows of five vectors, a vector one word for each of the *)
(* instances, and a word the set of its one bits.  Word x of row y is      *)
(* state[5y + x] of the code.                                              *)
(***************************************************************************)
EXTENDS Integers, FiniteSets, Sequences

CONSTANT Starts      \* states to start from

NROUNDS == 24
Instances == 1 .. 4
Rows == 0 .. 4
\* One for each word of a row, or for each row; and for each instance. With \o TLC computes them all at once.
Five(f(_)) == [x \in 1 .. 5 |-> f(x - 1)] \o <<>>
Four(f(_)) == [k \in Instances |-> f(k)] \o <<>>
At(row, x) == row[(x % 5) + 1]

Bits(a, b) == (a \ b) \cup (b \ a)             \* exclusive or of two words
XOR(v, w) == LET f(k) == Bits(v[k], w[k]) IN Four(f)
ANDnu(v, w) == LET f(k) == w[k] \ v[k] IN Four(f)
Rotate(a, n) == {(i + n) % 64 : i \in a}
ROL(v, n) == LET f(k) == Rotate(v[k], n) IN Four(f)

(* The byte an index names lies in the same half of the vector.            *)
Shuffle(v, index) ==
  LET f(k) == {i \in 0 .. 63 :
         LET byte == index[k][(i \div 8) + 1] % 16
         IN  (8 * (byte % 8)) + (i % 8) \in v[(2 * ((k - 1) \div 2)) + (byte \div 8) + 1]}
  IN  Four(f)
rho8 == [k \in Instances |-> [b \in 1 .. 8 |-> (8 * (k - 1)) + ((b + 6) % 8)]]
rho56 == [k \in Instances |-> [b \in 1 .. 8 |-> (8 * (k - 1)) + (b % 8)]]
ROL64in256(v, n) == IF n = 8 THEN Shuffle(v, rho8) ELSE IF n = 56 THEN Shuffle(v, rho56) ELSE ROL(v, n)

(* The bits that are set in the constant of each round. *)
KeccakF_RoundConstants == <<
  {0}, {1, 7, 15}, {1, 3, 7, 15, 63}, {15, 31, 63}, {0, 1, 3, 7, 15}, {0, 31}, {0, 7, 15, 31, 63}, {0, 3, 15, 63},
  {1, 3, 7}, {3, 7}, {0, 3, 15, 31}, {1, 3, 31}, {0, 1, 3, 7, 15, 31}, {0, 1, 3, 7, 63}, {0, 3, 7, 15, 63},
  {0, 1, 15, 63}, {1, 15, 63}, {7, 63}, {1, 3, 15}, {1, 3, 31, 63}, {0, 7, 15, 31, 63}, {7, 15, 63}, {0, 31},
  {3, 15, 31, 63}>>

(* Which words go into each row of the next state, and how far they turn.  *)
From == << <<0, 6, 12, 18, 24>>, <<3, 9, 10, 16, 22>>, <<1, 7, 13, 19, 20>>, <<4, 5, 11, 17, 23>>, <<2, 8, 14, 15, 21>> >>
Turn == << <<0, 44, 43, 21, 14>>, <<28, 20, 3, 45, 61>>, <<1, 6, 25, 8, 18>>, <<27, 36, 10, 15, 56>>, <<62, 55, 39, 41, 2>> >>

VARIABLES
  build,     \* "dilithium", "sphincs" or "x4"
  round,     \* how many rounds are done
  A,         \* the state
  C,         \* the parity of each column, which the AVX2 code gets while it writes the state
  std        \* what the standard says the state is

vars == <<build, round, A, C, std>>

prepareTheta(a) == LET f(x) == XOR(XOR(XOR(XOR(At(a[1], x), At(a[2], x)), At(a[3], x)), At(a[4], x)), At(a[5], x)) IN Five(f)

thetaRhoPiChiIota(i, a, c) ==
  LET turn(v, n) == IF build = "x4" THEN ROL64in256(v, n) ELSE ROL(v, n)
      d(x) == XOR(At(c, x + 4), ROL(At(c, x + 1), 1))
      D == Five(d)
      word(y, x) == LET w == From[y + 1][x + 1] IN turn(XOR(At(a[(w \div 5) + 1], w), At(D, w)), Turn[y + 1][x + 1])
      row(y) ==
        LET b(x) == word(y, x)
            B == Five(b)
            e(x) == XOR(At(B, x), ANDnu(At(B, x + 1), At(B, x + 2)))
        IN  Five(e)
      iota == [k \in Instances |-> KeccakF_RoundConstants[i + 1]]
  IN  [Five(row) EXCEPT ![1][1] = XOR(@, iota)]

-----------------------------------------------------------------------------
(* The standard: word x of row y of one instance. *)
Walk[t \in 0 .. 24] == IF t = 0 THEN <<1, 0>> ELSE LET p == Walk[t - 1] IN <<p[2], ((2 * p[1]) + (3 * p[2])) % 5>>
Offset[x \in Rows, y \in Rows] ==
  IF x = 0 /\ y = 0 THEN 0
  ELSE LET t == CHOOSE t \in 0 .. 23 : Walk[t] = <<x, y>> IN (((t + 1) * (t + 2)) \div 2) % 64
Shift[t \in 0 .. 255] ==        \* the shift register that gives the constants
  IF t = 0 THEN {0} ELSE LET s == {i + 1 : i \in Shift[t - 1]} IN IF 8 \in s THEN Bits(s \ {8}, {0, 4, 5, 6}) ELSE s
Iota(i) == {2 ^ j - 1 : j \in {j \in 0 .. 6 : 0 \in Shift[(j + 7 * i) % 255]}}
Standard(i, a) ==
  LET parity(x) == {b \in 0 .. 63 : Cardinality({y \in Rows : b \in a[y + 1][x + 1]}) % 2 = 1}
      parities == Five(parity)
      thetas(y) == LET f(x) == Bits(a[y + 1][x + 1], Bits(At(parities, x + 4), Rotate(At(parities, x + 1), 1))) IN Five(f)
      theta == Five(thetas)
      pis(v) == LET f(y) == LET x == CHOOSE x \in Rows : ((2 * x) + (3 * y)) % 5 = v
                            IN  Rotate(theta[y + 1][x + 1], Offset[x, y])
                IN  Five(f)
      pi == Five(pis)
      chis(y) == LET f(x) == Bits(At(pi[y + 1], x), At(pi[y + 1], x + 2) \ At(pi[y + 1], x + 1)) IN Five(f)
  IN  [Five(chis) EXCEPT ![1][1] = Bits(@, Iota(i))]
-----------------------------------------------------------------------------
Instance(a, k) == LET f(y) == LET g(x) == a[y + 1][x + 1][k] IN Five(g) IN Five(f)

Init ==
  /\ build \in {"dilithium", "sphincs", "x4"} /\ round = 0
  /\ A \in Starts /\ C = prepareTheta(A)
  /\ std = LET f(k) == Instance(A, k) IN Four(f)

Done(n) == round' = round + n /\ UNCHANGED build
Ahead(n) == LET f(k) == IF n = 2 THEN Standard(round + 1, Standard(round, std[k])) ELSE Standard(round, std[k]) IN Four(f)

(* Mistake: the second round takes the parity the first one had. *)
StatePermuteStaleParity(b) ==
  /\ build = b /\ round < NROUNDS
  /\ LET E == thetaRhoPiChiIota(round, A, prepareTheta(A))
     IN  A' = thetaRhoPiChiIota(round + 1, E, prepareTheta(A))
  /\ std' = Ahead(2) /\ Done(2) /\ UNCHANGED C

(* Two rounds: from A to E and back to A. *)
StatePermute(b) ==
  /\ build = b /\ round < NROUNDS
  /\ LET E == thetaRhoPiChiIota(round, A, prepareTheta(A))
     IN  A' = thetaRhoPiChiIota(round + 1, E, prepareTheta(E))
  /\ std' = Ahead(2) /\ Done(2) /\ UNCHANGED C

KeccakF1600_StatePermute == StatePermute("dilithium")
KeccakF1600_StatePermuteSphincs == StatePermute("sphincs")

(* The parity of what is written is gathered row by row. *)
thetaRhoPiChiIotaPrepareTheta ==
  /\ build = "x4" /\ round < NROUNDS - 1
  /\ A' = thetaRhoPiChiIota(round, A, C)
  /\ C' = LET f(x) == XOR(XOR(XOR(XOR(At(A'[1], x), At(A'[2], x)), At(A'[3], x)), At(A'[4], x)), At(A'[5], x)) IN Five(f)
  /\ std' = Ahead(1) /\ Done(1)

LastRound ==
  /\ build = "x4" /\ round = NROUNDS - 1
  /\ A' = thetaRhoPiChiIota(round, A, C)
  /\ std' = Ahead(1) /\ Done(1) /\ UNCHANGED C

Next == KeccakF1600_StatePermute \/ KeccakF1600_StatePermuteSphincs \/ thetaRhoPiChiIotaPrepareTheta \/ LastRound
Spec == Init /\ [][Next]_vars
-----------------------------------------------------------------------------
(* Every round of every build, in each of the four instances, is the round *)
(* of the standard: the 25 names, rotations and constants that the code    *)
(* writes out by hand, and the byte shuffles that stand for rotations by 8 *)
(* and by 56 (fips202.c:82, KeccakP-1600-times4-SIMD256.c:473).            *)
FollowsTheStandard == \A k \in Instances : Instance(A, k) = std[k]

(* The parity that goes from round to round is that of the state as it is  *)
(* now, so that no round has to read the state for it.                     *)
ParityIsCurrent == build = "x4" /\ round < NROUNDS => C = prepareTheta(A)
=============================================================================
