----------------------- MODULE MlDsaPolynomialProofs -----------------------
(***************************************************************************)
(* Proofs about the polynomials of ML-DSA: the rounding (MlDsaRounding),   *)
(* for every coefficient and both GAMMA2; the expansion of the matrix A    *)
(* (MlDsaMatrix); the rejection sampling of one polynomial                 *)
(* (MlDsaSampling), for all sizes and patterns of rejected candidates; and *)
(* the challenge (MlDsaChallenge), for every length and weight.            *)
(***************************************************************************)
EXTENDS MlDsaRounding, WellFoundedInduction, FiniteSetTheorems, FunctionTheorems, TLAPS

(* Any numbers have a least one: the well-founded order of the library,    *)
(* with a set in place of a predicate.                                     *)
LEMMA Least ==
  ASSUME NEW T, T \subseteq Nat, T # {}
  PROVE  \E x \in T : \A y \in T : x <= y
<1> DEFINE R == OpToRel(<, Nat)
<1>1. IsWellFoundedOn(R, Nat)  BY NatLessThanWellFounded
<1>2. \A x, y \in Nat : x < y => <<x, y>> \in R  BY DEF OpToRel
<1> HIDE DEF R
<1>3. PICK x \in T : \A y \in T : ~ (<<y, x>> \in R)  BY <1>1, WFMin
<1>4. \A y \in T : x <= y
  <2> TAKE y \in T
  <2>1. x \in Nat /\ y \in Nat  OBVIOUS
  <2>2. ~ (y < x)  BY <1>2, <1>3, <2>1
  <2> QED BY <2>1, <2>2
<1> QED BY <1>4

(* What holds of 0 and, with every number, of the next one holds of all    *)
(* numbers; T is the set of those it holds of.                             *)
LEMMA Induction ==
  ASSUME NEW T, 0 \in T, \A n \in Nat : n \in T => n + 1 \in T
  PROVE  Nat \subseteq T
<1> SUFFICES ASSUME Nat \ T # {}
             PROVE  FALSE
  OBVIOUS
<1>1. PICK x \in Nat \ T : \A y \in Nat \ T : x <= y  BY Least
<1>2. x # 0 /\ x - 1 \in Nat  BY <1>1
<1>3. x - 1 \in T  BY <1>1, <1>2
<1>4. (x - 1) + 1 = x  BY <1>1
<1> QED BY <1>1, <1>2, <1>3, <1>4


(* The two values of GAMMA2, as numbers the provers can compute with. *)
LEMMA Numbers ==
  /\ Q = 8380417
  /\ \/ Divisor = 88 /\ GAMMA2 = 95232 /\ Levels = 44
     \/ Divisor = 32 /\ GAMMA2 = 261888 /\ Levels = 16
  BY DivisorAssumption, SMT DEF GAMMA2, Levels, Q

(* A value and a low part within the reach of high bits g. *)
Near(a, g) == g * 2 * GAMMA2 - GAMMA2 < a /\ a <= g * 2 * GAMMA2 + GAMMA2

(* The multiplication and shift of rounding.c round to the nearest         *)
(* multiple of 2*GAMMA2, and the last of them wraps to 0.                  *)
LEMMA HighBits88 ==
  ASSUME NEW a \in Int, 0 <= a, a < Q, Divisor = 88
  PROVE  /\ HighBits(a) \in Int /\ 0 <= HighBits(a) /\ HighBits(a) < Levels
         /\ \/ Near(a, HighBits(a))
            \/ HighBits(a) = 0 /\ Q - GAMMA2 <= a
<1> DEFINE f == (a + 127) \div 128
           g == (f * 11275 + 8388608) \div 16777216
<1>1. f \in Int /\ 128 * f <= a + 127 /\ a + 127 < 128 * f + 128
  BY SMT
<1>2. HighBits(a) = IF g > 43 THEN 0 ELSE g
  BY SMT DEF HighBits
<1> HIDE DEF f
<1>3. /\ g \in Int /\ 16777216 * g <= f * 11275 + 8388608
      /\ f * 11275 + 8388608 < 16777216 * g + 16777216
  BY <1>1, SMT
<1> HIDE DEF g
<1>4. 0 <= g /\ g <= 44 /\ g * 190464 - 95232 < a /\ a <= g * 190464 + 95232
  BY <1>1, <1>3, SMT DEF Q
<1> QED BY <1>2, <1>3, <1>4, Numbers, SMT DEF Near

LEMMA HighBits32 ==
  ASSUME NEW a \in Int, 0 <= a, a < Q, Divisor = 32
  PROVE  /\ HighBits(a) \in Int /\ 0 <= HighBits(a) /\ HighBits(a) < Levels
         /\ \/ Near(a, HighBits(a))
            \/ HighBits(a) = 0 /\ Q - GAMMA2 <= a
<1> DEFINE f == (a + 127) \div 128
           g == (f * 1025 + 2097152) \div 4194304
<1>1. f \in Int /\ 128 * f <= a + 127 /\ a + 127 < 128 * f + 128
  BY SMT
<1>2. HighBits(a) = g % 16
  BY SMT DEF HighBits
<1> HIDE DEF f
<1>3. /\ g \in Int /\ 4194304 * g <= f * 1025 + 2097152
      /\ f * 1025 + 2097152 < 4194304 * g + 4194304
  BY <1>1, SMT
<1> HIDE DEF g
<1>4. 0 <= g /\ g <= 16 /\ g * 523776 - 261888 < a /\ a <= g * 523776 + 261888
  BY <1>1, <1>3, SMT DEF Q
<1>5. g % 16 = IF g = 16 THEN 0 ELSE g
  BY <1>3, <1>4, SMT
<1> QED BY <1>2, <1>3, <1>4, <1>5, Numbers, SMT DEF Near

(* decompose splits a, with a low part of at most GAMMA2 either way. *)
LEMMA Decomposed ==
  ASSUME NEW a \in Int, 0 <= a, a < Q
  PROVE  /\ decompose(a).a1 \in Int /\ 0 <= decompose(a).a1 /\ decompose(a).a1 < Levels
         /\ decompose(a).a0 \in Int /\ -GAMMA2 <= decompose(a).a0 /\ decompose(a).a0 <= GAMMA2
         /\ \/ a = decompose(a).a1 * 2 * GAMMA2 + decompose(a).a0 /\ decompose(a).a0 # -GAMMA2
            \/ a = decompose(a).a0 + Q /\ decompose(a).a1 = 0 /\ decompose(a).a0 < 0
<1> DEFINE g == HighBits(a)
<1>1. /\ g \in Int /\ 0 <= g /\ g < Levels
      /\ Near(a, g) \/ (g = 0 /\ Q - GAMMA2 <= a)
  BY HighBits88, HighBits32, DivisorAssumption
<1>2. /\ decompose(a).a1 = g
      /\ decompose(a).a0 = IF a - g * 2 * GAMMA2 > (Q - 1) \div 2 THEN a - g * 2 * GAMMA2 - Q
                           ELSE a - g * 2 * GAMMA2
  BY DEF decompose
<1> HIDE DEF g
<1>3. CASE Divisor = 88 BY <1>1, <1>2, <1>3, Numbers, SMT DEF Near
<1>4. CASE Divisor = 32 BY <1>1, <1>2, <1>4, Numbers, SMT DEF Near
<1> QED BY <1>3, <1>4, DivisorAssumption

(* reduce32 gives a congruent value in a range around 0 that is one wider  *)
(* below than the comment on it says, and leaves small values as they are. *)
LEMMA Reduced ==
  ASSUME NEW a \in Int
  PROVE  /\ reduce32(a) \in Int
         /\ \E k \in Int : reduce32(a) = a - k * Q
         /\ -4194304 <= a /\ a < 4194304 => reduce32(a) = a
<1> DEFINE k == (a + 4194304) \div 8388608
<1>1. k \in Int /\ (-4194304 <= a /\ a < 4194304 => k = 0) BY SMT
<1>2. reduce32(a) = a - k * Q BY DEF reduce32
<1> HIDE DEF k
<1> QED BY <1>1, <1>2, SMT DEF Q

LEMMA ReducedRange ==
  ASSUME NEW a \in Int, -2147483648 <= a, a <= 2143289343
  PROVE  -6283009 <= reduce32(a) /\ reduce32(a) <= 6283008
<1> DEFINE k == (a + 4194304) \div 8388608
<1>1. k \in Int /\ k * 8388608 <= a + 4194304 /\ a + 4194304 < k * 8388608 + 8388608 BY SMT
<1>2. reduce32(a) = a - k * Q BY DEF reduce32
<1> HIDE DEF k
<1> QED BY <1>1, <1>2, SMT DEF Q

(* Values a multiple of Q apart and less than 2Q from each other. *)
LEMMA Remainder ==
  ASSUME NEW a \in Int, NEW b \in Int, NEW k \in Int, a = b + k * Q, -Q < b, b < 2 * Q
  PROVE  /\ a % Q \in Int /\ 0 <= a % Q /\ a % Q < Q
         /\ a % Q \in {b - Q, b, b + Q}
<1> DEFINE r == a % Q
           n == a \div Q
<1>1. r \in Int /\ n \in Int /\ 0 <= r /\ r < Q /\ a = n * Q + r BY SMT DEF Q
<1> HIDE DEF r, n
<1>2. r \in {b - Q, b, b + Q} BY <1>1, SMT DEF Q
<1> QED BY <1>1, <1>2 DEF r

(* The heart of the hints: low bits that stayed small before c*t0 was      *)
(* added differ from those the verifier finds by at most one step of the   *)
(* high bits, and the hint says when.                                      *)
LEMMA HintWorks ==
  ASSUME NEW a \in Int, 0 <= a, a < Q,
         NEW x \in Int, -Beta <= x, x <= Beta,
         NEW e \in Int, -GAMMA2 < e, e < GAMMA2,
         NEW v \in Int, 0 <= v, v < Q, v \in {(a - x + e) - Q, a - x + e, a - x + e + Q},
         -(GAMMA2 - Beta) < decompose(a).a0 - x, decompose(a).a0 - x < GAMMA2 - Beta
  PROVE  /\ use_hint(v, make_hint(decompose(a).a0 - x + e, decompose(a).a1)) = decompose(a).a1
         /\ make_hint(decompose(a).a0 - x + e, decompose(a).a1) # 0 => decompose(v).a0 # 0
<1> DEFINE a1 == decompose(a).a1
           a0 == decompose(a).a0
           v1 == decompose(v).a1
           v0 == decompose(v).a0
           h == make_hint(a0 - x + e, a1)
           step == IF h = 0 THEN 0 ELSE IF v0 > 0 THEN 1 ELSE Levels - 1
<1>1. /\ a1 \in Int /\ 0 <= a1 /\ a1 < Levels
      /\ a0 \in Int /\ -GAMMA2 <= a0 /\ a0 <= GAMMA2
      /\ \/ a = a1 * 2 * GAMMA2 + a0 /\ a0 # -GAMMA2
         \/ a = a0 + Q /\ a1 = 0 /\ a0 < 0
  BY Decomposed
<1>2. /\ v1 \in Int /\ 0 <= v1 /\ v1 < Levels
      /\ v0 \in Int /\ -GAMMA2 <= v0 /\ v0 <= GAMMA2
      /\ \/ v = v1 * 2 * GAMMA2 + v0 /\ v0 # -GAMMA2
         \/ v = v0 + Q /\ v1 = 0 /\ v0 < 0
  BY Decomposed
<1>3. use_hint(v, h) = (v1 + step) % Levels BY DEF use_hint
<1>4. h = IF \/ a0 - x + e > GAMMA2 \/ a0 - x + e < -GAMMA2
             \/ (a0 - x + e = -GAMMA2 /\ a1 # 0) THEN 1 ELSE 0
  BY DEF make_hint
<1> HIDE DEF a1, a0, v1, v0, h
<1>5. CASE Divisor = 88
  <2>1. Q = 8380417 /\ GAMMA2 = 95232 /\ Levels = 44 BY <1>5, Numbers
  <2>2. Beta \in Int /\ 0 <= Beta /\ Beta <= 256 BY BetaAssumption, SMT
  <2>5. /\ v = a - x + e - 8380417 \/ v = a - x + e \/ v = a - x + e + 8380417
        /\ 0 <= v /\ v < 8380417 /\ -95232 < e /\ e < 95232
        /\ Beta - 95232 < a0 - x /\ a0 - x < 95232 - Beta
    BY <1>1, <2>1, <2>2, SMT DEF a0
  <2>6. (a = a1 * 190464 + a0 /\ a0 # -95232) \/ (a = a0 + 8380417 /\ a1 = 0 /\ a0 < 0)
    BY <1>1, <2>1, SMT
  <2>7. (v = v1 * 190464 + v0 /\ v0 # -95232) \/ (v = v0 + 8380417 /\ v1 = 0 /\ v0 < 0)
    BY <1>2, <2>1, SMT
  <2>3. v1 + step \in {a1, a1 + 44} /\ (h # 0 => v0 # 0)
    <3>1. CASE h = 0
      <4>1. a0 - x + e <= 95232 /\ a0 - x + e >= -95232 /\ (a0 - x + e = -95232 => a1 = 0)
        BY <1>1, <1>4, <2>1, <3>1, SMT
      <4>2. v1 = a1
        BY <1>1, <1>2, <2>1, <2>2, <2>5, <2>6, <2>7, <4>1, SMT
      <4> QED BY <1>2, <3>1, <4>2
    <3>2. CASE h # 0 /\ a0 - x + e > 95232
      <4>1. v0 < 0 /\ (v1 = a1 + 1 \/ (v1 = 0 /\ a1 = 43))
        BY <1>1, <1>2, <2>1, <2>2, <2>5, <2>6, <2>7, <3>2, SMT
      <4> QED BY <1>1, <1>2, <2>1, <3>2, <4>1, SMT
    <3>3. CASE h # 0 /\ a0 - x + e <= 95232
      <4>1. a0 - x + e <= -95232 /\ (a0 - x + e = -95232 => a1 # 0)
        BY <1>1, <1>4, <2>1, <3>3, SMT
      <4>2. v0 > 0 /\ (v1 = a1 - 1 \/ (v1 = 43 /\ a1 = 0))
        BY <1>1, <1>2, <2>1, <2>2, <2>5, <2>6, <2>7, <3>3, <4>1, SMT
      <4> QED BY <1>1, <1>2, <2>1, <3>3, <4>2, SMT
    <3> QED BY <1>1, <3>1, <3>2, <3>3, SMT
  <2>4. (v1 + step) % 44 = a1 BY <1>1, <2>1, <2>3, SMT
  <2> QED BY <1>3, <2>1, <2>3, <2>4 DEF a1, a0, v0, h
<1>6. CASE Divisor = 32
  <2>1. Q = 8380417 /\ GAMMA2 = 261888 /\ Levels = 16 BY <1>6, Numbers
  <2>2. Beta \in Int /\ 0 <= Beta /\ Beta <= 256 BY BetaAssumption, SMT
  <2>5. /\ v = a - x + e - 8380417 \/ v = a - x + e \/ v = a - x + e + 8380417
        /\ 0 <= v /\ v < 8380417 /\ -261888 < e /\ e < 261888
        /\ Beta - 261888 < a0 - x /\ a0 - x < 261888 - Beta
    BY <1>1, <2>1, <2>2, SMT DEF a0
  <2>6. (a = a1 * 523776 + a0 /\ a0 # -261888) \/ (a = a0 + 8380417 /\ a1 = 0 /\ a0 < 0)
    BY <1>1, <2>1, SMT
  <2>7. (v = v1 * 523776 + v0 /\ v0 # -261888) \/ (v = v0 + 8380417 /\ v1 = 0 /\ v0 < 0)
    BY <1>2, <2>1, SMT
  <2>3. v1 + step \in {a1, a1 + 16} /\ (h # 0 => v0 # 0)
    <3>1. CASE h = 0
      <4>1. a0 - x + e <= 261888 /\ a0 - x + e >= -261888 /\ (a0 - x + e = -261888 => a1 = 0)
        BY <1>1, <1>4, <2>1, <3>1, SMT
      <4>2. v1 = a1
        BY <1>1, <1>2, <2>1, <2>2, <2>5, <2>6, <2>7, <4>1, SMT
      <4> QED BY <1>2, <3>1, <4>2
    <3>2. CASE h # 0 /\ a0 - x + e > 261888
      <4>1. v0 < 0 /\ (v1 = a1 + 1 \/ (v1 = 0 /\ a1 = 15))
        BY <1>1, <1>2, <2>1, <2>2, <2>5, <2>6, <2>7, <3>2, SMT
      <4> QED BY <1>1, <1>2, <2>1, <3>2, <4>1, SMT
    <3>3. CASE h # 0 /\ a0 - x + e <= 261888
      <4>1. a0 - x + e <= -261888 /\ (a0 - x + e = -261888 => a1 # 0)
        BY <1>1, <1>4, <2>1, <3>3, SMT
      <4>2. v0 > 0 /\ (v1 = a1 - 1 \/ (v1 = 15 /\ a1 = 0))
        BY <1>1, <1>2, <2>1, <2>2, <2>5, <2>6, <2>7, <3>3, <4>1, SMT
      <4> QED BY <1>1, <1>2, <2>1, <3>3, <4>2, SMT
    <3> QED BY <1>1, <3>1, <3>2, <3>3, SMT
  <2>4. (v1 + step) % 16 = a1 BY <1>1, <2>1, <2>3, SMT
  <2> QED BY <1>3, <2>1, <2>3, <2>4 DEF a1, a0, v0, h
<1> QED BY <1>5, <1>6, DivisorAssumption

LEMMA LanesSplit ==
  ASSUME NEW a \in Int, 0 <= a, a < Q
  PROVE  power2round_avx(a) = power2round(a) /\ decompose_avx(a) = decompose(a)
<1> DEFINE f == (a + 127) \div 128
           x88 == (f * 11275) \div 65536
           x32 == (f * 1025) \div 65536
           y88 == (x88 * 128 + 16384) \div 32768
           y32 == (x32 * 512 + 16384) \div 32768
           g88 == (f * 11275 + 8388608) \div 16777216
           g32 == (f * 1025 + 2097152) \div 4194304
<1>1. power2round_avx(a) = power2round(a)
  <2> DEFINE n == (a + 4095) \div 8192
             m == (a + 4095) % 8192
  <2>1. n \in Int /\ m \in Int /\ a + 4095 = n * 8192 + m BY SMT
  <2>2. /\ power2round_avx(a) = [a1 |-> n, a0 |-> a - (a + 4095 - m)]
        /\ power2round(a) = [a1 |-> n, a0 |-> a - n * 8192]
    BY DEF power2round_avx, power2round
  <2> HIDE DEF n, m
  <2>3. a - (a + 4095 - m) = a - n * 8192 BY <2>1, SMT
  <2> QED BY <2>2, <2>3
<1>2. /\ HighBits(a) = IF Divisor = 32 THEN g32 % 16 ELSE IF g88 > 43 THEN 0 ELSE g88
      /\ HighBits_avx(a) = IF Divisor = 32 THEN y32 % 16 ELSE IF 43 - y88 < 0 THEN 0 ELSE y88
  BY SMT DEF HighBits, HighBits_avx, mulhi, mulhrs
<1>3. f \in Int BY SMT
<1> HIDE DEF f
<1>4. /\ x88 \in Int /\ x88 * 65536 <= f * 11275 /\ f * 11275 < x88 * 65536 + 65536
      /\ x32 \in Int /\ x32 * 65536 <= f * 1025 /\ f * 1025 < x32 * 65536 + 65536
      /\ g88 \in Int /\ g88 * 16777216 <= f * 11275 + 8388608
      /\ f * 11275 + 8388608 < g88 * 16777216 + 16777216
      /\ g32 \in Int /\ g32 * 4194304 <= f * 1025 + 2097152
      /\ f * 1025 + 2097152 < g32 * 4194304 + 4194304
  BY <1>3, SMT
<1> HIDE DEF x88, x32, g88, g32
<1>5. /\ y88 \in Int /\ y88 * 32768 <= x88 * 128 + 16384 /\ x88 * 128 + 16384 < y88 * 32768 + 32768
      /\ y32 \in Int /\ y32 * 32768 <= x32 * 512 + 16384 /\ x32 * 512 + 16384 < y32 * 32768 + 32768
  BY <1>4, SMT
<1> HIDE DEF y88, y32
<1>6. y88 = g88 /\ y32 = g32 BY <1>3, <1>4, <1>5, SMT
<1>7. HighBits_avx(a) = HighBits(a) BY <1>2, <1>4, <1>6, SMT
<1>8. Q \div 2 = (Q - 1) \div 2 BY SMT DEF Q
<1> QED BY <1>1, <1>7, <1>8 DEF decompose_avx, decompose

(* The vector form of use_hint differs from the reference only where the   *)
(* hint is set and the low part is 0.                                      *)
LEMMA LanesUseHint ==
  ASSUME NEW a \in Int, 0 <= a, a < Q, NEW h \in {0, 1}, h # 0 => decompose(a).a0 # 0
  PROVE  use_hint_avx(a, h) = use_hint(a, h)
<1> DEFINE a1 == decompose(a).a1
           a0 == decompose(a).a0
           step == IF h = 0 THEN 0 ELSE IF a0 > 0 THEN 1 ELSE Levels - 1
           g == a1 + (IF a0 < 0 THEN -h ELSE h)
<1>1. /\ a1 \in Int /\ 0 <= a1 /\ a1 < Levels /\ a0 \in Int BY Decomposed
<1>2. use_hint(a, h) = (a1 + step) % Levels BY DEF use_hint
<1>3. use_hint_avx(a, h) = IF Divisor = 32 THEN g % 16
                           ELSE IF (IF g < 0 THEN 43 ELSE g) > 43 THEN 0 ELSE IF g < 0 THEN 43 ELSE g
  BY LanesSplit DEF use_hint_avx
<1>4. h # 0 => a0 # 0 OBVIOUS
<1> HIDE DEF a1, a0
<1>5. CASE Divisor = 88
  <2>1. Levels = 44 BY <1>5, Numbers
  <2> QED BY <1>1, <1>2, <1>3, <1>4, <1>5, <2>1, SMT
<1>6. CASE Divisor = 32
  <2>1. Levels = 16 BY <1>6, Numbers
  <2> QED BY <1>1, <1>2, <1>3, <1>4, <1>6, <2>1, SMT
<1> QED BY <1>5, <1>6, DivisorAssumption

LEMMA LanesMakeHint ==
  ASSUME NEW a0 \in Int, NEW a1 \in Int
  PROVE  make_hint_avx(a0, a1) = make_hint(a0, a1)
<1>1. GAMMA2 \in Int /\ GAMMA2 > 0 BY Numbers
<1> HIDE DEF GAMMA2
<1> QED BY <1>1, SMT DEF make_hint_avx, make_hint
-----------------------------------------------------------------------------
(* What holds of the variables at each stage. *)
IInv ==
  /\ stage \in {"commit", "respond", "recover", "rejected", "done"}
  /\ w \in Int /\ 0 <= w /\ w < Q
  /\ stage = "respond" => w1 = decompose(w).a1 /\ w0 = decompose(w).a0
  /\ stage \in {"recover", "done"} =>
       /\ sent \in Int /\ 0 <= sent /\ sent < Q
       /\ w0 \in Int /\ w1 \in Int /\ hint \in {0, 1}
       /\ hint = make_hint(w0, w1)
       /\ use_hint(sent, hint) = w1
       /\ hint # 0 => decompose(sent).a0 # 0
  /\ stage = "done" => recovered = w1

LEMMA InitIInv == Init => IInv
  BY SMT DEF Init, IInv, Q

LEMMA CommitIInv == IInv /\ Commit => IInv'
<1> SUFFICES ASSUME IInv, Commit PROVE IInv'  OBVIOUS
<1>1. PICK a \in Coefficients :
        w' = a /\ w1' = decompose(a).a1 /\ w0' = decompose(a).a0 /\ stage' = "respond"
  BY DEF Commit
<1>2. a \in Int /\ 0 <= a /\ a < Q
  <2>1. a \in 0 .. Q - 1 BY CoefficientsAssumption
  <2>2. Q \in Int BY Numbers
  <2> QED BY <2>1, <2>2
<1> QED BY <1>1, <1>2 DEF IInv

LEMMA RespondIInv ==
  ASSUME IInv, NEW cs2 \in Secrets, NEW ct0 \in Errors, Respond(cs2, ct0)
  PROVE  IInv'
<1> DEFINE low == reduce32(w0 - cs2)
           e == reduce32(ct0)
           v == (w - cs2 + ct0) % Q
<1>1. /\ stage = "respond" /\ w \in Int /\ 0 <= w /\ w < Q
      /\ w1 = decompose(w).a1 /\ w0 = decompose(w).a0
      /\ w' = w /\ w1' = w1
  BY DEF IInv, Respond
<1>2. cs2 \in Int /\ -Beta <= cs2 /\ cs2 <= Beta
  BY SecretsAssumption, BetaAssumption, SMT
<1>3. ct0 \in Int BY ErrorsAssumption
<1>4. CASE chknorm(low, GAMMA2 - Beta) \/ chknorm(e, GAMMA2)
  BY <1>1, <1>4 DEF Respond, IInv
<1>5. CASE ~(chknorm(low, GAMMA2 - Beta) \/ chknorm(e, GAMMA2))
  <2>1. /\ w0' = low + e /\ hint' = make_hint(w0', w1) /\ sent' = v /\ stage' = "recover"
    BY <1>5 DEF Respond
  <2>2. w0 \in Int /\ -GAMMA2 <= w0 /\ w0 <= GAMMA2 /\ w1 \in Int BY <1>1, Decomposed
  <2>3. low = w0 - cs2 /\ low \in Int
    <3>1. w0 - cs2 \in Int /\ -4194304 <= w0 - cs2 /\ w0 - cs2 < 4194304
      BY <1>2, <2>2, Numbers, BetaAssumption, SMT
    <3> QED BY <3>1, Reduced
  <2>4. PICK k \in Int : e \in Int /\ e = ct0 - k * Q BY <1>3, Reduced
  <2> HIDE DEF low, e
  <2>5. GAMMA2 \in Int /\ GAMMA2 > 0 /\ Beta \in Int /\ Q \in Int /\ GAMMA2 < Q /\ Beta < GAMMA2
    BY Numbers, BetaAssumption, SMT
  <2>6. -GAMMA2 < e /\ e < GAMMA2 /\ -(GAMMA2 - Beta) < low /\ low < GAMMA2 - Beta
    BY <1>5, <2>3, <2>4, <2>5, SMT DEF chknorm
  <2>7. v \in Int /\ 0 <= v /\ v < Q /\ v \in {(w - cs2 + e) - Q, w - cs2 + e, w - cs2 + e + Q}
    <3>1. w - cs2 + ct0 = w - cs2 + e + k * Q BY <1>1, <1>2, <1>3, <2>4, <2>5, SMT DEF Q
    <3>2. -Q < w - cs2 + e /\ w - cs2 + e < 2 * Q
      BY <1>1, <1>2, <2>4, <2>6, Numbers, BetaAssumption, SMT
    <3>3. w - cs2 + ct0 \in Int /\ w - cs2 + e \in Int BY <1>1, <1>2, <1>3, <2>4, SMT
    <3> DEFINE a == w - cs2 + ct0
               b == w - cs2 + e
    <3>4. a \in Int /\ b \in Int /\ a = b + k * Q /\ -Q < b /\ b < 2 * Q
      BY <3>1, <3>2, <3>3
    <3> HIDE DEF a, b
    <3>5. a % Q \in Int /\ 0 <= a % Q /\ a % Q < Q /\ a % Q \in {b - Q, b, b + Q}
      BY <2>4, <3>4, Remainder
    <3> QED BY <3>5 DEF a, b
  <2> HIDE DEF v
  <2>8. /\ use_hint(v, make_hint(low + e, w1)) = w1
        /\ make_hint(low + e, w1) # 0 => decompose(v).a0 # 0
    BY <1>1, <1>2, <2>3, <2>4, <2>6, <2>7, HintWorks
  <2>9. make_hint(low + e, w1) \in {0, 1} BY DEF make_hint
  <2>10. low + e \in Int BY <2>3, <2>4, SMT
  <2> QED BY <1>1, <2>1, <2>2, <2>7, <2>8, <2>9, <2>10 DEF IInv
<1> QED BY <1>4, <1>5

LEMMA NextIInv == IInv /\ [Next]_vars => IInv'
<1> SUFFICES ASSUME IInv, [Next]_vars PROVE IInv'  OBVIOUS
<1>1. CASE Commit BY <1>1, CommitIInv
<1>2. CASE \E cs2 \in Secrets, ct0 \in Errors : Respond(cs2, ct0) BY <1>2, RespondIInv
<1>3. CASE Recover BY <1>3 DEF Recover, IInv
<1>4. CASE UNCHANGED vars BY <1>4 DEF vars, IInv
<1> QED BY <1>1, <1>2, <1>3, <1>4 DEF Next

(* The stage decides what w, w1, w0 and the hint are of. *)
THEOREM Inductive == Spec => []IInv
<1> QED BY InitIInv, NextIInv, PTL DEF Spec

(* One hint bit is enough: the verifier finds the high bits that went into *)
(* the challenge, for every coefficient the norm checks of sign.c let      *)
(* through (sign.c:146-168, rounding.c:68-102).                            *)
THEOREM VerifierFindsHighBits == Spec => []HintRecovers
<1>1. IInv => HintRecovers BY DEF IInv, HintRecovers
<1> QED BY <1>1, Inductive, PTL

(* decompose and power2round split every coefficient exactly, within the   *)
(* ranges rounding.c documents.                                            *)
THEOREM SplittingIsExact == Spec => []SplitsExactly
<1>1. IInv => SplitsExactly
  <2> SUFFICES ASSUME IInv PROVE SplitsExactly  OBVIOUS
  <2>1. w \in Int /\ 0 <= w /\ w < Q BY DEF IInv
  <2> DEFINE d1 == decompose(w).a1
             d0 == decompose(w).a0
             n == (w + 4095) \div 8192
  <2>2. /\ d1 \in Int /\ 0 <= d1 /\ d1 < Levels
        /\ d0 \in Int /\ -GAMMA2 <= d0 /\ d0 <= GAMMA2
        /\ \/ w = d1 * 2 * GAMMA2 + d0 /\ d0 # -GAMMA2
           \/ w = d0 + Q /\ d1 = 0 /\ d0 < 0
    BY <2>1, Decomposed
  <2>3. n \in Int /\ n * 8192 <= w + 4095 /\ w + 4095 < n * 8192 + 8192 BY <2>1, SMT
  <2>4. power2round(w) = [a1 |-> n, a0 |-> w - n * 8192] BY DEF power2round
  <2> HIDE DEF d1, d0, n
  <2>5. (d1 * 2 * GAMMA2 + d0) % Q = w BY <2>1, <2>2, Numbers, SMT
  <2>6. n * 8192 + (w - n * 8192) = w /\ -4096 < w - n * 8192 /\ w - n * 8192 <= 4096
        /\ 0 <= n /\ n < 1024
    BY <2>1, <2>3, Numbers, SMT
  <2>7. d0 = -GAMMA2 => d1 = 0 BY <2>2
  <2> QED BY <2>2, <2>4, <2>5, <2>6, <2>7 DEF SplitsExactly, d1, d0
<1> QED BY <1>1, Inductive, PTL

(* The vector code of avx2/rounding.c agrees with the reference wherever a *)
(* signer can take it.                                                     *)
THEOREM VectorCodeAgrees == Spec => []LanesAgree
<1>1. IInv => LanesAgree
  <2> SUFFICES ASSUME IInv PROVE LanesAgree  OBVIOUS
  <2>1. w \in Int /\ 0 <= w /\ w < Q BY DEF IInv
  <2>2. power2round_avx(w) = power2round(w) /\ decompose_avx(w) = decompose(w)
    BY <2>1, LanesSplit
  <2>3. ASSUME stage \in {"recover", "done"}
        PROVE  make_hint_avx(w0, w1) = hint /\ use_hint_avx(sent, hint) = use_hint(sent, hint)
    BY <2>3, LanesMakeHint, LanesUseHint DEF IInv
  <2> QED BY <2>2, <2>3 DEF LanesAgree
<1> QED BY <1>1, Inductive, PTL

(* What MCMlDsa checks on the values where the splitting changes, here for *)
(* every coefficient and, Divisor being 88 or 32, in every mode.           *)
RoundingInEveryMode == HintRecovers /\ SplitsExactly /\ LanesAgree

(* In the modes with either GAMMA2 the verifier finds the high bits, the   *)
(* two parts say which value was split, and the vector code decides as the *)
(* reference does (rounding.c:6-102, avx2/rounding.c).                     *)
THEOREM EveryModeRounds == Spec => []RoundingInEveryMode
<1>1. HintRecovers /\ SplitsExactly /\ LanesAgree => RoundingInEveryMode
  BY DEF RoundingInEveryMode
<1> QED BY <1>1, VerifierFindsHighBits, SplittingIsExact, VectorCodeAgrees, PTL

-----------------------------------------------------------------------------
(* The matrix (MlDsaMatrix). What each call of polyvec_matrix_expand_row   *)
(* samples is what is left of its row and the beginning of the next one;   *)
(* the invariant keeps account of both.                                    *)
VARIABLES K, L, rows, line, at, call, unpacking, mem

Matrix == INSTANCE MlDsaMatrix WITH
  i <- line, pc <- at, n <- unpacking

Shape == (K = 4 /\ L = 4) \/ (K = 6 /\ L = 5) \/ (K = 8 /\ L = 7)

(* The k-th polynomial that an entry of the table for row r samples. *)
NonceOf(r, from, k) ==
  IF k < L - from THEN 256 * r + from + k ELSE 256 * (r + 1) + k - (L - from)

(* An entry of the table for row r: it goes on where the last one stopped. *)
Fits(e, r, from, b) ==
  /\ e.from = from /\ e.to = L - 1 /\ e.b = b
  /\ from \in 0 .. L - 1 /\ b \in 0 .. L - 1
  /\ L - from + b = 4 \/ L - from + b = 8
  /\ \A k \in 0 .. L - from + b - 1 : e.nonces[k + 1] = NonceOf(r, from, k)

LEMMA Four == ASSUME NEW x1, NEW x2, NEW x3, NEW x4
  PROVE  LET t == <<x1, x2, x3, x4>> IN t[1] = x1 /\ t[2] = x2 /\ t[3] = x3 /\ t[4] = x4
  OBVIOUS

LEMMA Six == ASSUME NEW x1, NEW x2, NEW x3, NEW x4, NEW x5, NEW x6
  PROVE  LET t == <<x1, x2, x3, x4, x5, x6>>
         IN  t[1] = x1 /\ t[2] = x2 /\ t[3] = x3 /\ t[4] = x4 /\ t[5] = x5 /\ t[6] = x6
  OBVIOUS

LEMMA Eight == ASSUME NEW x1, NEW x2, NEW x3, NEW x4, NEW x5, NEW x6, NEW x7, NEW x8
  PROVE  LET t == <<x1, x2, x3, x4, x5, x6, x7, x8>>
         IN  /\ t[1] = x1 /\ t[2] = x2 /\ t[3] = x3 /\ t[4] = x4
             /\ t[5] = x5 /\ t[6] = x6 /\ t[7] = x7 /\ t[8] = x8
  OBVIOUS

LEMMA FitsFour ==
  ASSUME L \in Nat, NEW r \in Nat, NEW from \in 0 .. L - 1, NEW b \in 0 .. L - 1, L - from + b = 4,
         NEW x1, NEW x2, NEW x3, NEW x4,
         x1 = NonceOf(r, from, 0), x2 = NonceOf(r, from, 1), x3 = NonceOf(r, from, 2),
         x4 = NonceOf(r, from, 3)
  PROVE  Fits(Matrix!Row(from, L - 1, b, <<x1, x2, x3, x4>>), r, from, b)
<1> DEFINE t == <<x1, x2, x3, x4>>
<1>1. t[1] = x1 /\ t[2] = x2 /\ t[3] = x3 /\ t[4] = x4  BY Four
<1> HIDE DEF t
<1>2. \A k \in 0 .. 3 : t[k + 1] = NonceOf(r, from, k)
  <2> TAKE k \in 0 .. 3
  <2>1. k = 0 \/ k = 1 \/ k = 2 \/ k = 3  OBVIOUS
  <2> QED BY <1>1, <2>1
<1>3. Fits(Matrix!Row(from, L - 1, b, t), r, from, b)
  BY <1>2 DEF Fits, Matrix!Row
<1> QED BY <1>3 DEF t

LEMMA FitsEight ==
  ASSUME L \in Nat, NEW r \in Nat, NEW from \in 0 .. L - 1, NEW b \in 0 .. L - 1, L - from + b = 8,
         NEW x1, NEW x2, NEW x3, NEW x4, NEW x5, NEW x6, NEW x7, NEW x8,
         x1 = NonceOf(r, from, 0), x2 = NonceOf(r, from, 1), x3 = NonceOf(r, from, 2),
         x4 = NonceOf(r, from, 3), x5 = NonceOf(r, from, 4), x6 = NonceOf(r, from, 5),
         x7 = NonceOf(r, from, 6), x8 = NonceOf(r, from, 7)
  PROVE  Fits(Matrix!Row(from, L - 1, b, <<x1, x2, x3, x4, x5, x6, x7, x8>>), r, from, b)
<1> DEFINE t == <<x1, x2, x3, x4, x5, x6, x7, x8>>
<1>1. /\ t[1] = x1 /\ t[2] = x2 /\ t[3] = x3 /\ t[4] = x4
      /\ t[5] = x5 /\ t[6] = x6 /\ t[7] = x7 /\ t[8] = x8
  BY Eight
<1> HIDE DEF t
<1>2. \A k \in 0 .. 7 : t[k + 1] = NonceOf(r, from, k)
  <2> TAKE k \in 0 .. 7
  <2>1. k = 0 \/ k = 1 \/ k = 2 \/ k = 3 \/ k = 4 \/ k = 5 \/ k = 6 \/ k = 7  OBVIOUS
  <2> QED BY <1>1, <2>1
<1>3. Fits(Matrix!Row(from, L - 1, b, t), r, from, b)
  BY <1>2 DEF Fits, Matrix!Row
<1> QED BY <1>3 DEF t

(* Where the entries of the three tables begin, and how far they reach     *)
(* into the next row.                                                      *)
From(r) ==
  IF L = 4 THEN 0
  ELSE IF L = 5 THEN IF r = 1 \/ r = 5 THEN 3 ELSE IF r = 2 THEN 2 ELSE IF r = 3 THEN 1 ELSE 0
  ELSE r % 4
Ahead(r) ==
  IF L = 4 THEN 0
  ELSE IF L = 5 THEN IF r = 0 \/ r = 4 THEN 3 ELSE IF r = 1 \/ r = 5 THEN 2 ELSE IF r = 2 THEN 1 ELSE 0
  ELSE (r + 1) % 4

LEMMA Chained ==
  ASSUME Shape, NEW r \in 0 .. K - 1
  PROVE  /\ From(r) \in 0 .. L - 1 /\ Ahead(r) \in 0 .. L - 1
         /\ r = 0 => From(r) = 0
         /\ From(r + 1) = Ahead(r) \/ r + 1 = K
         /\ L - From(r) + Ahead(r) = 4 \/ L - From(r) + Ahead(r) = 8
<1>1. CASE L = 4 BY <1>1 DEF Shape, From, Ahead
<1>2. CASE L = 5
  <2>1. r = 0 \/ r = 1 \/ r = 2 \/ r = 3 \/ r = 4 \/ r = 5  BY <1>2 DEF Shape
  <2> QED BY <1>2, <2>1 DEF Shape, From, Ahead
<1>3. CASE L = 7
  <2>1. r = 0 \/ r = 1 \/ r = 2 \/ r = 3 \/ r = 4 \/ r = 5 \/ r = 6 \/ r = 7  BY <1>3 DEF Shape
  <2> QED BY <1>3, <2>1 DEF Shape, From, Ahead
<1> QED BY <1>1, <1>2, <1>3 DEF Shape

LEMMA Tables ==
  ASSUME Shape, NEW r \in 0 .. K - 1
  PROVE  Fits(Matrix!Expand[r + 1], r, From(r), Ahead(r))
<1>1. CASE L = 4
  <2>1. Matrix!Expand = Matrix!Expand44  BY <1>1 DEF Matrix!Expand
  <2>2. r = 0 \/ r = 1 \/ r = 2 \/ r = 3  BY <1>1 DEF Shape
  <2>3. CASE r = 0
    <3>1. Matrix!Expand[r + 1] = Matrix!Row(0, 3, 0, <<0, 1, 2, 3>>)
      BY <2>1, <2>3, Four DEF Matrix!Expand44
    <3>2. From(r) = 0 /\ Ahead(r) = 0  BY <1>1, <2>3 DEF From, Ahead
    <3> QED BY <1>1, <2>3, <3>1, <3>2, FitsFour DEF NonceOf
  <2>4. CASE r = 1
    <3>1. Matrix!Expand[r + 1] = Matrix!Row(0, 3, 0, <<256, 257, 258, 259>>)
      BY <2>1, <2>4, Four DEF Matrix!Expand44
    <3>2. From(r) = 0 /\ Ahead(r) = 0  BY <1>1, <2>4 DEF From, Ahead
    <3> QED BY <1>1, <2>4, <3>1, <3>2, FitsFour DEF NonceOf
  <2>5. CASE r = 2
    <3>1. Matrix!Expand[r + 1] = Matrix!Row(0, 3, 0, <<512, 513, 514, 515>>)
      BY <2>1, <2>5, Four DEF Matrix!Expand44
    <3>2. From(r) = 0 /\ Ahead(r) = 0  BY <1>1, <2>5 DEF From, Ahead
    <3> QED BY <1>1, <2>5, <3>1, <3>2, FitsFour DEF NonceOf
  <2>6. CASE r = 3
    <3>1. Matrix!Expand[r + 1] = Matrix!Row(0, 3, 0, <<768, 769, 770, 771>>)
      BY <2>1, <2>6, Four DEF Matrix!Expand44
    <3>2. From(r) = 0 /\ Ahead(r) = 0  BY <1>1, <2>6 DEF From, Ahead
    <3> QED BY <1>1, <2>6, <3>1, <3>2, FitsFour DEF NonceOf
  <2> QED BY <2>2, <2>3, <2>4, <2>5, <2>6
<1>2. CASE L = 5
  <2>1. Matrix!Expand = Matrix!Expand65  BY <1>2 DEF Matrix!Expand
  <2>2. r = 0 \/ r = 1 \/ r = 2 \/ r = 3 \/ r = 4 \/ r = 5  BY <1>2 DEF Shape
  <2>3. CASE r = 0
    <3>1. Matrix!Expand[r + 1] = Matrix!Row(0, 4, 3, <<0, 1, 2, 3, 4, 256, 257, 258>>)
      BY <2>1, <2>3, Six DEF Matrix!Expand65
    <3>2. From(r) = 0 /\ Ahead(r) = 3  BY <1>2, <2>3 DEF From, Ahead
    <3> QED BY <1>2, <2>3, <3>1, <3>2, FitsEight DEF NonceOf
  <2>4. CASE r = 1
    <3>1. Matrix!Expand[r + 1] = Matrix!Row(3, 4, 2, <<259, 260, 512, 513>>)
      BY <2>1, <2>4, Six DEF Matrix!Expand65
    <3>2. From(r) = 3 /\ Ahead(r) = 2  BY <1>2, <2>4 DEF From, Ahead
    <3> QED BY <1>2, <2>4, <3>1, <3>2, FitsFour DEF NonceOf
  <2>5. CASE r = 2
    <3>1. Matrix!Expand[r + 1] = Matrix!Row(2, 4, 1, <<514, 515, 516, 768>>)
      BY <2>1, <2>5, Six DEF Matrix!Expand65
    <3>2. From(r) = 2 /\ Ahead(r) = 1  BY <1>2, <2>5 DEF From, Ahead
    <3> QED BY <1>2, <2>5, <3>1, <3>2, FitsFour DEF NonceOf
  <2>6. CASE r = 3
    <3>1. Matrix!Expand[r + 1] = Matrix!Row(1, 4, 0, <<769, 770, 771, 772>>)
      BY <2>1, <2>6, Six DEF Matrix!Expand65
    <3>2. From(r) = 1 /\ Ahead(r) = 0  BY <1>2, <2>6 DEF From, Ahead
    <3> QED BY <1>2, <2>6, <3>1, <3>2, FitsFour DEF NonceOf
  <2>7. CASE r = 4
    <3>1. Matrix!Expand[r + 1] = Matrix!Row(0, 4, 3, <<1024, 1025, 1026, 1027, 1028, 1280, 1281, 1282>>)
      BY <2>1, <2>7, Six DEF Matrix!Expand65
    <3>2. From(r) = 0 /\ Ahead(r) = 3  BY <1>2, <2>7 DEF From, Ahead
    <3> QED BY <1>2, <2>7, <3>1, <3>2, FitsEight DEF NonceOf
  <2>8. CASE r = 5
    <3>1. Matrix!Expand[r + 1] = Matrix!Row(3, 4, 2, <<1283, 1284, 1536, 1537>>)
      BY <2>1, <2>8, Six DEF Matrix!Expand65
    <3>2. From(r) = 3 /\ Ahead(r) = 2  BY <1>2, <2>8 DEF From, Ahead
    <3> QED BY <1>2, <2>8, <3>1, <3>2, FitsFour DEF NonceOf
  <2> QED BY <2>2, <2>3, <2>4, <2>5, <2>6, <2>7, <2>8
<1>3. CASE L = 7
  <2>1. Matrix!Expand = Matrix!Expand87  BY <1>3 DEF Matrix!Expand
  <2>2. r = 0 \/ r = 1 \/ r = 2 \/ r = 3 \/ r = 4 \/ r = 5 \/ r = 6 \/ r = 7  BY <1>3 DEF Shape
  <2>3. CASE r = 0
    <3>1. Matrix!Expand[r + 1] = Matrix!Row(0, 6, 1, <<0, 1, 2, 3, 4, 5, 6, 256>>)
      BY <2>1, <2>3, Eight DEF Matrix!Expand87
    <3>2. From(r) = 0 /\ Ahead(r) = 1  BY <1>3, <2>3 DEF From, Ahead
    <3> QED BY <1>3, <2>3, <3>1, <3>2, FitsEight DEF NonceOf
  <2>4. CASE r = 1
    <3>1. Matrix!Expand[r + 1] = Matrix!Row(1, 6, 2, <<257, 258, 259, 260, 261, 262, 512, 513>>)
      BY <2>1, <2>4, Eight DEF Matrix!Expand87
    <3>2. From(r) = 1 /\ Ahead(r) = 2  BY <1>3, <2>4 DEF From, Ahead
    <3> QED BY <1>3, <2>4, <3>1, <3>2, FitsEight DEF NonceOf
  <2>5. CASE r = 2
    <3>1. Matrix!Expand[r + 1] = Matrix!Row(2, 6, 3, <<514, 515, 516, 517, 518, 768, 769, 770>>)
      BY <2>1, <2>5, Eight DEF Matrix!Expand87
    <3>2. From(r) = 2 /\ Ahead(r) = 3  BY <1>3, <2>5 DEF From, Ahead
    <3> QED BY <1>3, <2>5, <3>1, <3>2, FitsEight DEF NonceOf
  <2>6. CASE r = 3
    <3>1. Matrix!Expand[r + 1] = Matrix!Row(3, 6, 0, <<771, 772, 773, 774>>)
      BY <2>1, <2>6, Eight DEF Matrix!Expand87
    <3>2. From(r) = 3 /\ Ahead(r) = 0  BY <1>3, <2>6 DEF From, Ahead
    <3> QED BY <1>3, <2>6, <3>1, <3>2, FitsFour DEF NonceOf
  <2>7. CASE r = 4
    <3>1. Matrix!Expand[r + 1] = Matrix!Row(0, 6, 1, <<1024, 1025, 1026, 1027, 1028, 1029, 1030, 1280>>)
      BY <2>1, <2>7, Eight DEF Matrix!Expand87
    <3>2. From(r) = 0 /\ Ahead(r) = 1  BY <1>3, <2>7 DEF From, Ahead
    <3> QED BY <1>3, <2>7, <3>1, <3>2, FitsEight DEF NonceOf
  <2>8. CASE r = 5
    <3>1. Matrix!Expand[r + 1] = Matrix!Row(1, 6, 2, <<1281, 1282, 1283, 1284, 1285, 1286, 1536, 1537>>)
      BY <2>1, <2>8, Eight DEF Matrix!Expand87
    <3>2. From(r) = 1 /\ Ahead(r) = 2  BY <1>3, <2>8 DEF From, Ahead
    <3> QED BY <1>3, <2>8, <3>1, <3>2, FitsEight DEF NonceOf
  <2>9. CASE r = 6
    <3>1. Matrix!Expand[r + 1] = Matrix!Row(2, 6, 3, <<1538, 1539, 1540, 1541, 1542, 1792, 1793, 1794>>)
      BY <2>1, <2>9, Eight DEF Matrix!Expand87
    <3>2. From(r) = 2 /\ Ahead(r) = 3  BY <1>3, <2>9 DEF From, Ahead
    <3> QED BY <1>3, <2>9, <3>1, <3>2, FitsEight DEF NonceOf
  <2>10. CASE r = 7
    <3>1. Matrix!Expand[r + 1] = Matrix!Row(3, 6, 0, <<1795, 1796, 1797, 1798>>)
      BY <2>1, <2>10, Eight DEF Matrix!Expand87
    <3>2. From(r) = 3 /\ Ahead(r) = 0  BY <1>3, <2>10 DEF From, Ahead
    <3> QED BY <1>3, <2>10, <3>1, <3>2, FitsFour DEF NonceOf
  <2> QED BY <2>2, <2>3, <2>4, <2>5, <2>6, <2>7, <2>8, <2>9, <2>10
<1> QED BY <1>1, <1>2, <1>3 DEF Shape
Slots == (0 .. 8) \X (0 .. 6)
Width == L - From(line) + Ahead(line)
Counted == IF line = K - 1 THEN L - From(line) ELSE Width
Place(k) ==
  IF k < L - From(line) THEN <<Matrix!rowa, From(line) + k>>
  ELSE <<Matrix!rowb, k - (L - From(line))>>
Holds(s, r, j, u) == mem[s] = [nonce |-> 256 * r + j, unpacked |-> u]

MatrixInv ==
  /\ Shape /\ rows \in {"all", "two"} /\ line \in 0 .. K - 1
  /\ mem = [s \in Slots |-> mem[s]]
  /\ call \in Nat /\ unpacking \in Nat
  /\ at \in {"sample", "unpack", "use", "done"}
  /\ at = "sample" =>
       /\ 4 * call < Width /\ unpacking = 0
       /\ \A k \in 0 .. 4 * call - 1 :
            mem[Place(k)] = [nonce |-> NonceOf(line, From(line), k), unpacked |-> 0]
  /\ at = "unpack" =>
       /\ call = 0 /\ unpacking < Counted
       /\ \A k \in 0 .. Width - 1 :
            mem[Place(k)] = [nonce |-> NonceOf(line, From(line), k),
                             unpacked |-> IF k < unpacking THEN 1 ELSE 0]
  /\ at \in {"sample", "unpack"} =>
       \A j \in 0 .. From(line) - 1 : Holds(<<Matrix!rowa, j>>, line, j, 1)
  /\ at = "use" =>
       /\ call = 0 /\ unpacking = 0
       /\ line + 1 < K => \A j \in 0 .. Ahead(line) - 1 : Holds(<<Matrix!rowb, j>>, line + 1, j, 1)
  /\ at \in {"use", "done"} => \A j \in 0 .. L - 1 : Holds(<<Matrix!rowa, j>>, line, j, 1)
  /\ at = "done" => line = K - 1
  /\ rows = "all" => \A r \in 0 .. line - 1, j \in 0 .. L - 1 : Holds(<<r, j>>, r, j, 1)

LEMMA Places ==
  ASSUME Shape, rows \in {"all", "two"}, line \in 0 .. K - 1
  PROVE  /\ K \in 4 .. 8 /\ L \in 4 .. 7
         /\ From(line) \in 0 .. L - 1 /\ Ahead(line) \in 0 .. L - 1
         /\ Width = 4 \/ Width = 8
         /\ Width = L - From(line) + Ahead(line)
         /\ Matrix!row.from = From(line) /\ Matrix!row.to = L - 1
         /\ Matrix!Outputs = Width
         /\ \A k \in 0 .. Width - 1 : Matrix!row.nonces[k + 1] = NonceOf(line, From(line), k)
         /\ Matrix!rowa \in 0 .. 7 /\ Matrix!rowb \in 0 .. 8 /\ Matrix!rowa # Matrix!rowb
         /\ \A k \in 0 .. Width - 1 : Matrix!Target(k) = Place(k) /\ Place(k) \in Slots
         /\ \A k \in 0 .. Width - 1, m \in 0 .. Width - 1 : Place(k) = Place(m) => k = m
         /\ \A k \in 0 .. Width - 1, j \in 0 .. From(line) - 1 : Place(k) # <<Matrix!rowa, j>>
         /\ rows = "all" =>
              \A k \in 0 .. Width - 1, r \in 0 .. line - 1, j \in 0 .. L - 1 : Place(k) # <<r, j>>
<1> DEFINE f == From(line)
           b == Ahead(line)
<1>1. K \in 4 .. 8 /\ L \in 4 .. 7  BY DEF Shape
<1>2. /\ f \in 0 .. L - 1 /\ b \in 0 .. L - 1
      /\ L - f + b = 4 \/ L - f + b = 8
  BY Chained
<1>3. Fits(Matrix!row, line, f, b)
  BY Tables DEF Matrix!row
<1>4. /\ Matrix!row.from = f /\ Matrix!row.to = L - 1 /\ Matrix!row.b = b
      /\ \A k \in 0 .. L - f + b - 1 : Matrix!row.nonces[k + 1] = NonceOf(line, f, k)
  BY <1>3 DEF Fits
<1>5. Matrix!rowa \in 0 .. 7 /\ Matrix!rowb \in 0 .. 8 /\ Matrix!rowa # Matrix!rowb
  BY <1>1 DEF Matrix!rowa, Matrix!rowb
<1>6. rows = "all" => Matrix!rowa = line /\ Matrix!rowb = line + 1
  BY DEF Matrix!rowa, Matrix!rowb
<1> HIDE DEF f, b
<1>7. Matrix!Outputs = L - f + b
  BY <1>1, <1>2, <1>4 DEF Matrix!Outputs
<1>8. Width = L - f + b  BY DEF Width, f, b
<1>9. ASSUME NEW k \in 0 .. Width - 1
      PROVE  /\ Matrix!Target(k) = Place(k)
             /\ \/ k < L - f /\ Place(k) = <<Matrix!rowa, f + k>>
                \/ k >= L - f /\ Place(k) = <<Matrix!rowb, k - (L - f)>>
  <2>1. Place(k) = IF k < L - f THEN <<Matrix!rowa, f + k>> ELSE <<Matrix!rowb, k - (L - f)>>
    BY DEF Place, f
  <2>2. Matrix!Target(k) =
          IF k <= L - 1 - f THEN <<Matrix!rowa, f + k>> ELSE <<Matrix!rowb, k - (L - 1 - f + 1)>>
    BY <1>4 DEF Matrix!Target
  <2>3. k <= L - 1 - f <=> k < L - f  BY <1>1, <1>2, <1>8
  <2>4. k - (L - 1 - f + 1) = k - (L - f)  BY <1>1, <1>2, <1>8
  <2> QED BY <2>1, <2>2, <2>3, <2>4, <1>1, <1>2, <1>8
<1>10. \A k \in 0 .. Width - 1 : Place(k) \in Slots
  <2> TAKE k \in 0 .. Width - 1
  <2>1. CASE k < L - f /\ Place(k) = <<Matrix!rowa, f + k>>
    BY <2>1, <1>1, <1>2, <1>5, <1>8 DEF Slots
  <2>2. CASE k >= L - f /\ Place(k) = <<Matrix!rowb, k - (L - f)>>
    BY <2>2, <1>1, <1>2, <1>5, <1>8 DEF Slots
  <2> QED BY <1>9, <2>1, <2>2
<1>11. \A k \in 0 .. Width - 1, m \in 0 .. Width - 1 : Place(k) = Place(m) => k = m
  <2> TAKE k \in 0 .. Width - 1, m \in 0 .. Width - 1
  <2> HAVE Place(k) = Place(m)
  <2>1. \/ k < L - f /\ Place(k) = <<Matrix!rowa, f + k>>
        \/ k >= L - f /\ Place(k) = <<Matrix!rowb, k - (L - f)>>
    BY <1>9
  <2>2. \/ m < L - f /\ Place(m) = <<Matrix!rowa, f + m>>
        \/ m >= L - f /\ Place(m) = <<Matrix!rowb, m - (L - f)>>
    BY <1>9
  <2> QED BY <2>1, <2>2, <1>1, <1>2, <1>5, <1>8
<1>12. \A k \in 0 .. Width - 1, j \in 0 .. f - 1 : Place(k) # <<Matrix!rowa, j>>
  <2> TAKE k \in 0 .. Width - 1, j \in 0 .. f - 1
  <2>1. \/ k < L - f /\ Place(k) = <<Matrix!rowa, f + k>>
        \/ k >= L - f /\ Place(k) = <<Matrix!rowb, k - (L - f)>>
    BY <1>9
  <2> QED BY <2>1, <1>1, <1>2, <1>5, <1>8
<1>13. rows = "all" =>
         \A k \in 0 .. Width - 1, r \in 0 .. line - 1, j \in 0 .. L - 1 : Place(k) # <<r, j>>
  <2> HAVE rows = "all"
  <2> TAKE k \in 0 .. Width - 1, r \in 0 .. line - 1, j \in 0 .. L - 1
  <2>1. \/ Place(k) = <<Matrix!rowa, f + k>>
        \/ Place(k) = <<Matrix!rowb, k - (L - f)>>
    BY <1>9
  <2> QED BY <2>1, <1>1, <1>6
<1> QED BY <1>1, <1>2, <1>4, <1>5, <1>7, <1>8, <1>9, <1>10, <1>11, <1>12, <1>13 DEF f, b

LEMMA EarlySlots ==
  ASSUME Shape, rows \in {"all", "two"}, line \in 0 .. K - 1
  PROVE  /\ \A j \in 0 .. From(line) - 1 : <<Matrix!rowa, j>> \in Slots
         /\ \A r \in 0 .. line - 1, j \in 0 .. L - 1 : <<r, j>> \in Slots
<1>1. K \in 4 .. 8 /\ L \in 4 .. 7 /\ From(line) \in 0 .. L - 1 /\ Matrix!rowa \in 0 .. 7
  BY Places
<1>2. ASSUME NEW x \in 0 .. 8, NEW y \in 0 .. 6 PROVE <<x, y>> \in Slots
  BY DEF Slots
<1>3. ASSUME NEW j \in 0 .. From(line) - 1 PROVE <<Matrix!rowa, j>> \in Slots
  <2>1. Matrix!rowa \in 0 .. 8 /\ j \in 0 .. 6  BY <1>1
  <2> QED BY <2>1, <1>2
<1>4. ASSUME NEW r \in 0 .. line - 1, NEW j \in 0 .. L - 1 PROVE <<r, j>> \in Slots
  <2>1. r \in 0 .. 8 /\ j \in 0 .. 6  BY <1>1
  <2> QED BY <2>1, <1>2
<1> QED BY <1>3, <1>4

LEMMA MatrixInit == Matrix!Init => MatrixInv
<1> SUFFICES ASSUME Matrix!Init PROVE MatrixInv  OBVIOUS
<1>1. Shape /\ rows \in {"all", "two"} /\ line = 0 /\ at = "sample" /\ call = 0 /\ unpacking = 0
  BY DEF Matrix!Init, Shape
<1>2. mem = [s \in Slots |-> Matrix!Never]  BY DEF Matrix!Init, Slots
<1>3. line \in 0 .. K - 1  BY <1>1 DEF Shape
<1>4. From(line) = 0 /\ (Width = 4 \/ Width = 8)  BY <1>1, <1>3, Chained, Places
<1>5. mem = [s \in Slots |-> mem[s]]  BY <1>2
<1> QED BY <1>1, <1>3, <1>4, <1>5 DEF MatrixInv

(* The polynomials of a call go where no other is. *)
LEMMA MatrixSample == MatrixInv /\ Matrix!Sample => MatrixInv'
<1> SUFFICES ASSUME MatrixInv, Matrix!Sample PROVE MatrixInv'  OBVIOUS
<1>1. /\ Shape /\ rows \in {"all", "two"} /\ line \in 0 .. K - 1 /\ at = "sample"
      /\ call \in Nat /\ 4 * call < Width /\ unpacking = 0
      /\ mem = [s \in Slots |-> mem[s]]
  BY DEF MatrixInv, Matrix!Sample
<1>2. UNCHANGED <<K, L, rows, line, unpacking>>  BY DEF Matrix!Sample
<1> DEFINE now == 4 * call .. 4 * call + 3
<1>3. now \subseteq 0 .. Width - 1 /\ (4 * (call + 1) < Width \/ 4 * (call + 1) = Width)
  BY <1>1, Places
<1>4. mem' = [s \in Slots |->
               IF \E k \in now : Matrix!Target(k) = s
               THEN [nonce |-> Matrix!row.nonces[(CHOOSE k \in now : Matrix!Target(k) = s) + 1],
                     unpacked |-> 0]
               ELSE mem[s]]
  BY <1>1 DEF Matrix!Sample
<1>5. ASSUME NEW k \in now
      PROVE  mem'[Place(k)] = [nonce |-> NonceOf(line, From(line), k), unpacked |-> 0]
  <2>1. k \in 0 .. Width - 1 /\ Place(k) \in Slots /\ Matrix!Target(k) = Place(k)
    BY <1>1, <1>3, Places
  <2>2. \A m \in now : Matrix!Target(m) = Place(k) => m = k
    BY <2>1, <1>1, <1>3, Places
  <2>3. (CHOOSE m \in now : Matrix!Target(m) = Place(k)) = k
    BY <2>1, <2>2
  <2>4. Matrix!row.nonces[k + 1] = NonceOf(line, From(line), k)
    BY <2>1, <1>1, Places
  <2> QED BY <1>4, <2>1, <2>3, <2>4
<1>6. ASSUME NEW s \in Slots, \A k \in now : Place(k) # s
      PROVE  mem'[s] = mem[s]
  <2>1. \A k \in now : Matrix!Target(k) = Place(k)
    BY <1>1, <1>3, Places
  <2> QED BY <1>4, <1>6, <2>1
<1>7. ASSUME NEW k \in 0 .. 4 * call - 1
      PROVE  mem'[Place(k)] = mem[Place(k)]
  <2>1. k \in 0 .. Width - 1 /\ Place(k) \in Slots
    BY <1>1, Places
  <2>2. \A m \in now : Place(m) # Place(k)
    BY <2>1, <1>1, <1>3, Places
  <2> QED BY <1>6, <2>1, <2>2
<1>8. ASSUME NEW j \in 0 .. From(line) - 1
      PROVE  mem'[<<Matrix!rowa, j>>] = mem[<<Matrix!rowa, j>>]
  <2>1. <<Matrix!rowa, j>> \in Slots  BY <1>1, EarlySlots
  <2>2. \A m \in now : Place(m) # <<Matrix!rowa, j>>
    BY <1>1, <1>3, Places
  <2> QED BY <1>6, <2>1, <2>2
<1>9. ASSUME rows = "all", NEW r \in 0 .. line - 1, NEW j \in 0 .. L - 1
      PROVE  mem'[<<r, j>>] = mem[<<r, j>>]
  <2>1. <<r, j>> \in Slots  BY <1>1, EarlySlots
  <2>2. \A m \in now : Place(m) # <<r, j>>
    BY <1>1, <1>3, <1>9, Places
  <2> QED BY <1>6, <2>1, <2>2
<1>10. \A k \in 0 .. 4 * (call + 1) - 1 :
         mem'[Place(k)] = [nonce |-> NonceOf(line, From(line), k), unpacked |-> 0]
  <2> TAKE k \in 0 .. 4 * (call + 1) - 1
  <2>1. CASE k \in now BY <2>1, <1>5
  <2>2. CASE k \in 0 .. 4 * call - 1
    BY <2>2, <1>1, <1>7 DEF MatrixInv
  <2> QED BY <2>1, <2>2, <1>1
<1>11. /\ Matrix!rowa' = Matrix!rowa
       /\ \A k \in Int : Place(k)' = Place(k) /\ NonceOf(line, From(line), k)' = NonceOf(line, From(line), k)
       /\ Width' = Width /\ Counted' = Counted /\ From(line)' = From(line) /\ Shape'
  BY <1>1, <1>2 DEF Matrix!rowa, Matrix!rowb, Place, NonceOf, Width, Counted, From, Ahead, Shape
<1>12. /\ \A j \in 0 .. From(line) - 1 : Holds(<<Matrix!rowa, j>>, line, j, 1)
       /\ rows = "all" => \A r \in 0 .. line - 1, j \in 0 .. L - 1 : Holds(<<r, j>>, r, j, 1)
  BY <1>1 DEF MatrixInv
<1>13. (\A j \in 0 .. From(line) - 1 : Holds(<<Matrix!rowa, j>>, line, j, 1))'
  BY <1>2, <1>8, <1>11, <1>12 DEF Holds
<1>14. (rows = "all" => \A r \in 0 .. line - 1, j \in 0 .. L - 1 : Holds(<<r, j>>, r, j, 1))'
  <2>1. ASSUME rows = "all", NEW r \in 0 .. line - 1, NEW j \in 0 .. L - 1
        PROVE  mem'[<<r, j>>] = [nonce |-> 256 * r + j, unpacked |-> 1]
    BY <1>9, <1>12, <2>1 DEF Holds
  <2> QED BY <1>2, <2>1, ZenonT(40) DEF Holds
<1>15. mem' = [s \in Slots |-> mem'[s]]  BY <1>4
<1>16. CASE 4 * (call + 1) < Width
  <2>1. call' = call + 1 /\ at' = "sample"
    BY <1>1, <1>16, Places DEF Matrix!Sample
  <2> QED BY <2>1, <1>1, <1>2, <1>10, <1>11, <1>13, <1>14, <1>15, <1>16 DEF MatrixInv
<1>17. CASE 4 * (call + 1) = Width
  <2>1. call' = 0 /\ at' = "unpack"
    BY <1>1, <1>17, Places DEF Matrix!Sample
  <2>2. 0 < Counted  BY <1>1, Places DEF Counted
  <2>3. \A k \in 0 .. Width - 1 :
          mem'[Place(k)] = [nonce |-> NonceOf(line, From(line), k), unpacked |-> IF k < 0 THEN 1 ELSE 0]
    BY <1>1, <1>10, <1>17, Places
  <2> QED BY <2>1, <2>2, <2>3, <1>1, <1>2, <1>11, <1>13, <1>14, <1>15 DEF MatrixInv
<1> QED BY <1>3, <1>16, <1>17
LEMMA MatrixUnpack == MatrixInv /\ Matrix!Unpack => MatrixInv'
<1> SUFFICES ASSUME MatrixInv, Matrix!Unpack PROVE MatrixInv'  OBVIOUS
<1>1. /\ Shape /\ rows \in {"all", "two"} /\ line \in 0 .. K - 1 /\ at = "unpack"
      /\ call = 0 /\ unpacking \in Nat /\ unpacking < Counted
      /\ mem = [s \in Slots |-> mem[s]]
      /\ \A k \in 0 .. Width - 1 :
            mem[Place(k)] = [nonce |-> NonceOf(line, From(line), k),
                             unpacked |-> IF k < unpacking THEN 1 ELSE 0]
      /\ \A j \in 0 .. From(line) - 1 : Holds(<<Matrix!rowa, j>>, line, j, 1)
      /\ rows = "all" => \A r \in 0 .. line - 1, j \in 0 .. L - 1 : Holds(<<r, j>>, r, j, 1)
  BY DEF MatrixInv, Matrix!Unpack
<1>2. UNCHANGED <<K, L, rows, line, call>>  BY DEF Matrix!Unpack
<1>3. /\ Counted \in 1 .. Width /\ unpacking \in 0 .. Width - 1
      /\ Counted = IF line = K - 1 THEN Matrix!row.to - Matrix!row.from + 1 ELSE Matrix!Outputs
  BY <1>1, Places DEF Counted
<1>4. Matrix!Target(unpacking) = Place(unpacking) /\ Place(unpacking) \in Slots
  BY <1>1, <1>3, Places
<1>5. mem' = [mem EXCEPT ![Place(unpacking)].unpacked = @ + 1]
  BY <1>4 DEF Matrix!Unpack
<1>6. ASSUME NEW s \in Slots, s # Place(unpacking)
      PROVE  mem'[s] = mem[s]
  BY <1>1, <1>5, <1>6
<1>7. mem'[Place(unpacking)] = [nonce |-> NonceOf(line, From(line), unpacking), unpacked |-> 1]
  <2>1. mem[Place(unpacking)] = [nonce |-> NonceOf(line, From(line), unpacking), unpacked |-> 0]
    BY <1>1, <1>3
  <2> QED BY <2>1, <1>1, <1>4, <1>5
<1>8. ASSUME NEW k \in 0 .. Width - 1
      PROVE  mem'[Place(k)] = [nonce |-> NonceOf(line, From(line), k),
                               unpacked |-> IF k < unpacking + 1 THEN 1 ELSE 0]
  <2>1. CASE k = unpacking BY <2>1, <1>1, <1>7
  <2>2. CASE k # unpacking
    <3>1. Place(k) \in Slots /\ Place(k) # Place(unpacking)
      BY <2>2, <1>1, <1>3, Places
    <3>2. k < unpacking <=> k < unpacking + 1  BY <2>2, <1>1
    <3> QED BY <1>1, <1>6, <3>1, <3>2
  <2> QED BY <2>1, <2>2
<1>9. ASSUME NEW j \in 0 .. From(line) - 1
      PROVE  mem'[<<Matrix!rowa, j>>] = [nonce |-> 256 * line + j, unpacked |-> 1]
  <2>1. <<Matrix!rowa, j>> \in Slots  BY <1>1, EarlySlots
  <2>2. Place(unpacking) # <<Matrix!rowa, j>>  BY <1>1, <1>3, Places
  <2>3. mem'[<<Matrix!rowa, j>>] = mem[<<Matrix!rowa, j>>]  BY <1>6, <2>1, <2>2
  <2>4. Holds(<<Matrix!rowa, j>>, line, j, 1)  BY <1>1
  <2> QED BY <2>3, <2>4 DEF Holds
<1>10. ASSUME rows = "all", NEW r \in 0 .. line - 1, NEW j \in 0 .. L - 1
       PROVE  mem'[<<r, j>>] = [nonce |-> 256 * r + j, unpacked |-> 1]
  <2>2. <<r, j>> \in Slots  BY <1>1, EarlySlots
  <2>3. Place(unpacking) # <<r, j>>  BY <1>1, <1>3, <1>10, Places
  <2> QED BY <1>1, <1>6, <1>10, <2>2, <2>3 DEF Holds
<1>11. /\ Matrix!rowa' = Matrix!rowa /\ Matrix!rowb' = Matrix!rowb
       /\ \A k \in Int : Place(k)' = Place(k) /\ NonceOf(line, From(line), k)' = NonceOf(line, From(line), k)
       /\ Width' = Width /\ Counted' = Counted /\ From(line)' = From(line) /\ Shape'
       /\ Ahead(line)' = Ahead(line)
  BY <1>1, <1>2 DEF Matrix!rowa, Matrix!rowb, Place, NonceOf, Width, Counted, From, Ahead, Shape
<1>12. (rows = "all" => \A r \in 0 .. line - 1, j \in 0 .. L - 1 : Holds(<<r, j>>, r, j, 1))'
  BY <1>2, <1>10, ZenonT(40) DEF Holds
<1>13. mem' = [s \in Slots |-> mem'[s]]  BY <1>1, <1>5
<1>14. CASE unpacking + 1 < Counted
  <2>1. unpacking' = unpacking + 1 /\ at' = "unpack"
    BY <1>1, <1>3, <1>14 DEF Matrix!Unpack
  <2>2. (\A j \in 0 .. From(line) - 1 : Holds(<<Matrix!rowa, j>>, line, j, 1))'
    BY <1>2, <1>9, <1>11 DEF Holds
  <2> QED BY <2>1, <2>2, <1>1, <1>2, <1>8, <1>11, <1>12, <1>13, <1>14 DEF MatrixInv
<1>15. CASE ~(unpacking + 1 < Counted)
  <2>1. unpacking' = 0 /\ at' = "use"
    BY <1>1, <1>3, <1>15 DEF Matrix!Unpack
  <2>2. unpacking + 1 = Counted  BY <1>1, <1>3, <1>15
  <2>3. /\ L \in 4 .. 7 /\ K \in 4 .. 8 /\ From(line) \in 0 .. L - 1 /\ Ahead(line) \in 0 .. L - 1
        /\ Width = L - From(line) + Ahead(line)
    BY <1>1, Places
  <2>4. ASSUME NEW j \in 0 .. L - 1
        PROVE  mem'[<<Matrix!rowa, j>>] = [nonce |-> 256 * line + j, unpacked |-> 1]
    <3>1. CASE j < From(line)
      <4>1. j \in 0 .. From(line) - 1  BY <3>1, <2>3
      <4> QED BY <4>1, <1>9
    <3>2. CASE j >= From(line)
      <4> DEFINE k == j - From(line)
      <4>1. k \in 0 .. Width - 1 /\ k < L - From(line) /\ From(line) + k = j /\ 256 * line + From(line) + k = 256 * line + j
        BY <3>2, <2>3, <1>1
      <4>2. k < unpacking + 1  BY <4>1, <2>2, <2>3, <1>1 DEF Counted
      <4>3. Place(k) = <<Matrix!rowa, j>> /\ NonceOf(line, From(line), k) = 256 * line + j
        BY <4>1 DEF Place, NonceOf
      <4> QED BY <4>1, <4>2, <4>3, <1>8
    <3> QED BY <3>1, <3>2, <2>3
  <2>5. ASSUME line + 1 < K, NEW j \in 0 .. Ahead(line) - 1
        PROVE  mem'[<<Matrix!rowb, j>>] = [nonce |-> 256 * (line + 1) + j, unpacked |-> 1]
    <3> DEFINE k == j + (L - From(line))
    <3>1. /\ k \in 0 .. Width - 1 /\ ~(k < L - From(line)) /\ k - (L - From(line)) = j
          /\ 256 * (line + 1) + k - (L - From(line)) = 256 * (line + 1) + j
      BY <2>3, <1>1
    <3>2. k < unpacking + 1  BY <3>1, <2>2, <2>3, <2>5, <1>1 DEF Counted
    <3>3. Place(k) = <<Matrix!rowb, j>> /\ NonceOf(line, From(line), k) = 256 * (line + 1) + j
      BY <3>1 DEF Place, NonceOf
    <3> QED BY <3>1, <3>2, <3>3, <1>8
  <2>6. (\A j \in 0 .. L - 1 : Holds(<<Matrix!rowa, j>>, line, j, 1))'
    BY <1>2, <1>11, <2>4 DEF Holds
  <2>7. (line + 1 < K => \A j \in 0 .. Ahead(line) - 1 : Holds(<<Matrix!rowb, j>>, line + 1, j, 1))'
    BY <1>2, <1>11, <2>5 DEF Holds
  <2> QED BY <2>1, <2>6, <2>7, <1>1, <1>2, <1>11, <1>12, <1>13 DEF MatrixInv
<1> QED BY <1>14, <1>15

(* The second buffer of a row is the first of the next one. *)
LEMMA MatrixUse == MatrixInv /\ Matrix!Use => MatrixInv'
<1> SUFFICES ASSUME MatrixInv, Matrix!Use PROVE MatrixInv'  OBVIOUS
<1>1. /\ Shape /\ rows \in {"all", "two"} /\ line \in 0 .. K - 1 /\ at = "use"
      /\ call = 0 /\ unpacking = 0
      /\ mem = [s \in Slots |-> mem[s]]
      /\ line + 1 < K => \A j \in 0 .. Ahead(line) - 1 : Holds(<<Matrix!rowb, j>>, line + 1, j, 1)
      /\ \A j \in 0 .. L - 1 : Holds(<<Matrix!rowa, j>>, line, j, 1)
      /\ rows = "all" => \A r \in 0 .. line - 1, j \in 0 .. L - 1 : Holds(<<r, j>>, r, j, 1)
  BY DEF MatrixInv, Matrix!Use
<1>2. UNCHANGED <<K, L, rows, call, unpacking, mem>> /\ Shape'  BY <1>1 DEF Matrix!Use, Shape
<1>3. K \in 4 .. 8 /\ L \in 4 .. 7  BY <1>1, Places
<1>4. CASE line + 1 < K
  <2>1. line' = line + 1 /\ at' = "sample"  BY <1>4 DEF Matrix!Use
  <2>2. line + 1 \in 0 .. K - 1 /\ line' \in 0 .. K' - 1  BY <1>1, <1>2, <1>3, <1>4, <2>1
  <2>3. From(line + 1) = Ahead(line)  BY <1>1, <1>3, <1>4, Chained
  <2>4. From(line)' = From(line + 1) /\ Ahead(line)' = Ahead(line + 1)
    BY <2>1, <1>2 DEF From, Ahead
  <2>5. Matrix!rowa' = Matrix!rowb
    BY <2>1, <1>1, <1>2, <1>3 DEF Matrix!rowa, Matrix!rowb
  <2>6. 0 < Width'
    <3>1. From(line + 1) \in 0 .. L - 1 /\ Ahead(line + 1) \in 0 .. L - 1
      BY <1>1, <2>2, Chained
    <3> QED BY <3>1, <2>4, <1>2, <1>3 DEF Width
  <2>7. (\A j \in 0 .. From(line) - 1 : Holds(<<Matrix!rowa, j>>, line, j, 1))'
    BY <1>1, <1>2, <1>4, <2>1, <2>3, <2>4, <2>5 DEF Holds
  <2>8. (rows = "all" => \A r \in 0 .. line - 1, j \in 0 .. L - 1 : Holds(<<r, j>>, r, j, 1))'
    <3>1. ASSUME rows = "all", NEW r \in 0 .. line' - 1, NEW j \in 0 .. L - 1
          PROVE  mem[<<r, j>>] = [nonce |-> 256 * r + j, unpacked |-> 1]
      <4>1. CASE r = line
        BY <4>1, <3>1, <1>1 DEF Holds, Matrix!rowa
      <4>2. CASE r # line
        <5>1. r \in 0 .. line - 1  BY <4>2, <1>1, <2>1
        <5> QED BY <5>1, <3>1, <1>1 DEF Holds
      <4> QED BY <4>1, <4>2
    <3> QED BY <3>1, <1>2, ZenonT(40) DEF Holds
  <2> QED BY <1>1, <1>2, <2>1, <2>2, <2>6, <2>7, <2>8 DEF MatrixInv
<1>5. CASE ~(line + 1 < K)
  <2>1. line' = line /\ at' = "done"  BY <1>5 DEF Matrix!Use
  <2>2. line = K - 1  BY <1>1, <1>3, <1>5
  <2>3. Matrix!rowa' = Matrix!rowa  BY <2>1, <1>2 DEF Matrix!rowa
  <2> QED BY <1>1, <1>2, <2>1, <2>2, <2>3 DEF MatrixInv, Holds
<1> QED BY <1>4, <1>5

(* What the calls so far have put where is kept by every step. *)
THEOREM MatrixInductive == Matrix!Spec => []MatrixInv
<1>1. MatrixInv /\ UNCHANGED Matrix!vars => MatrixInv'
  BY DEF Matrix!vars, MatrixInv, Holds, Place, Width, Counted, Shape, NonceOf, From, Ahead, Matrix!rowa, Matrix!rowb
<1>2. MatrixInv /\ [Matrix!Next]_Matrix!vars => MatrixInv'
  BY <1>1, MatrixSample, MatrixUnpack, MatrixUse DEF Matrix!Next
<1> QED BY MatrixInit, <1>2, PTL DEF Matrix!Spec

(* The rows the AVX2 build multiplies with are those of the reference, and *)
(* the signer's matrix is whole at the end (avx2/polyvec.c:24, 65).        *)
THEOREM RowsAreTheMatrix == Matrix!Spec => [](Matrix!RowIsTheMatrix /\ Matrix!MatrixStays)
<1>1. MatrixInv => Matrix!RowIsTheMatrix
  BY DEF MatrixInv, Matrix!RowIsTheMatrix, Matrix!Right, Holds
<1>2. MatrixInv => Matrix!MatrixStays
  <2> SUFFICES ASSUME MatrixInv, at = "done", rows = "all", NEW r \in 0 .. K - 1, NEW j \in 0 .. L - 1
               PROVE  Matrix!Right(<<r, j>>, r, j)
    BY DEF Matrix!MatrixStays
  <2>1. line = K - 1 /\ K \in 4 .. 8  BY Places DEF MatrixInv
  <2>2. CASE r = line
    BY <2>2 DEF MatrixInv, Matrix!Right, Holds, Matrix!rowa
  <2>3. CASE r # line
    BY <2>1, <2>3 DEF MatrixInv, Matrix!Right, Holds
  <2> QED BY <2>2, <2>3
<1> QED BY <1>1, <1>2, MatrixInductive, PTL

-----------------------------------------------------------------------------
(* Rejection sampling (MlDsaSampling). The candidates of a polynomial are  *)
(* numbered in the order of the stream; the rank of one is the number of   *)
(* accepted ones before it, which is its place in the polynomial. The      *)
(* invariant: the coefficients so far are the accepted candidates by rank, *)
(* and unless the polynomial is full there are as many as were accepted    *)
(* among the candidates that were seen.                                    *)
CONSTANTS N, Rates, Blocks, LANES, Builds, Polys, Patterns
VARIABLES kind, build, rate, bad, pc, p, squeezed, buf, buflen, a, ctr, pos, step, stores

Sampling == INSTANCE MlDsaSampling

Rank(b, x) == Cardinality((0 .. x - 1) \ b)

(* Which of the next n candidates are accepted.                            *)
Taken(b, x, n) == {o \in 0 .. n - 1 : x + o \notin b}

LEMMA RankType ==
  ASSUME NEW b, NEW x \in Nat
  PROVE  IsFiniteSet((0 .. x - 1) \ b) /\ Rank(b, x) \in Nat
<1>1. IsFiniteSet(0 .. x - 1)  BY FS_Interval, 0 \in Int /\ x - 1 \in Int
<1>2. IsFiniteSet((0 .. x - 1) \ b)  BY <1>1, FS_Difference
<1> QED BY <1>2, FS_CardinalityType DEF Rank

LEMMA RankZero == ASSUME NEW b PROVE Rank(b, 0) = 0
<1>1. (0 .. 0 - 1) \ b = {}  OBVIOUS
<1> QED BY <1>1, FS_EmptySet DEF Rank

LEMMA RankNext ==
  ASSUME NEW b, NEW x \in Nat
  PROVE  Rank(b, x + 1) = IF x \in b THEN Rank(b, x) ELSE Rank(b, x) + 1
<1> DEFINE S == (0 .. x - 1) \ b
<1>1. IsFiniteSet(S)  BY RankType
<1>2. x \notin S  OBVIOUS
<1>3. CASE x \in b
  <2>1. (0 .. (x + 1) - 1) \ b = S  BY <1>3
  <2> QED BY <1>3, <2>1 DEF Rank
<1>4. CASE x \notin b
  <2>1. (0 .. (x + 1) - 1) \ b = S \cup {x}  BY <1>4
  <2>2. Cardinality(S \cup {x}) = Cardinality(S) + 1  BY <1>1, <1>2, FS_AddElement
  <2> QED BY <1>4, <2>1, <2>2 DEF Rank
<1> QED BY <1>3, <1>4

(* The rank further on: the accepted ones of those in between are added.   *)
LEMMA RankPlus ==
  ASSUME NEW b, NEW x \in Nat, NEW n \in Nat
  PROVE  /\ IsFiniteSet(Taken(b, x, n))
         /\ Rank(b, x + n) = Rank(b, x) + Cardinality(Taken(b, x, n))
<1> DEFINE S == (0 .. x - 1) \ b
           T == (x .. x + n - 1) \ b
           O == {o \in 0 .. n - 1 : x + o \notin b}
           f == [o \in O |-> x + o]
<1>1. IsFiniteSet(0 .. n - 1)  BY FS_Interval, 0 \in Int /\ n - 1 \in Int
<1>2. IsFiniteSet(O)  BY <1>1, FS_Subset, O \subseteq 0 .. n - 1
<1>3. f \in Bijection(O, T)
  <2>1. f \in [O -> T]  OBVIOUS
  <2>2. \A y, z \in O : f[y] = f[z] => y = z  OBVIOUS
  <2>3. \A t \in T : \E o \in O : f[o] = t
    <3> TAKE t \in T
    <3>1. t - x \in O /\ f[t - x] = t  OBVIOUS
    <3> QED BY <3>1
  <2> QED BY <2>1, <2>2, <2>3 DEF Bijection, Injection, Surjection, IsInjective
<1>4. IsFiniteSet(T) /\ Cardinality(T) = Cardinality(O)
  BY <1>2, <1>3, FS_Bijection DEF ExistsBijection
<1>5. IsFiniteSet(S)  BY RankType
<1>6. (0 .. (x + n) - 1) \ b = S \cup T /\ S \cap T = {}  OBVIOUS
<1>7. Cardinality(S \cup T) = Cardinality(S) + Cardinality(T) - Cardinality({})
  BY <1>4, <1>5, <1>6, FS_Union
<1>8. Cardinality(S) \in Nat /\ Cardinality(T) \in Nat /\ Cardinality({}) = 0
  BY <1>4, <1>5, FS_CardinalityType, FS_EmptySet
<1>9. Rank(b, x + n) = Cardinality(S \cup T) /\ Rank(b, x) = Cardinality(S)
  BY <1>6 DEF Rank
<1>10. S \cap T = {}  BY <1>6
<1> HIDE DEF S, T
<1>11. Rank(b, x + n) = Rank(b, x) + Cardinality(O)
  BY <1>4, <1>7, <1>8, <1>9, <1>10
<1> QED BY <1>2, <1>11 DEF Taken

(* Two accepted candidates of the same rank are the same one.              *)
LEMMA RankUnique ==
  ASSUME NEW b, NEW x \in Nat \ b, NEW y \in Nat \ b, Rank(b, x) = Rank(b, y)
  PROVE  x = y
<1>1. ASSUME NEW u \in Nat \ b, NEW v \in Nat, u < v PROVE Rank(b, u) < Rank(b, v)
  <2> DEFINE n == v - (u + 1)
  <2>1. n \in Nat /\ (u + 1) + n = v /\ u + 1 \in Nat  BY <1>1
  <2> HIDE DEF n
  <2>2. /\ IsFiniteSet(Taken(b, u + 1, n))
        /\ Rank(b, (u + 1) + n) = Rank(b, u + 1) + Cardinality(Taken(b, u + 1, n))
    BY <2>1, RankPlus
  <2>3. Rank(b, u + 1) = Rank(b, u) + 1  BY RankNext
  <2>4. Cardinality(Taken(b, u + 1, n)) \in Nat /\ Rank(b, u) \in Nat
    BY <2>2, FS_CardinalityType, RankType
  <2> QED BY <2>1, <2>2, <2>3, <2>4
<1>2. Rank(b, x) \in Nat /\ Rank(b, y) \in Nat  BY RankType
<1> QED BY <1>1, <1>2

(* Only the rejected ones are lost on the way to a rank.                   *)
LEMMA RankBound ==
  ASSUME NEW b \in SUBSET Nat, IsFiniteSet(b), NEW x \in Nat
  PROVE  Cardinality(b) \in Nat /\ x <= Rank(b, x) + Cardinality(b)
<1> DEFINE S == 0 .. x - 1
<1>1. IsFiniteSet(S) /\ Cardinality(S) = x
  BY FS_Interval, 0 \in Int /\ x - 1 \in Int
<1>2. Cardinality(S \ b) = Cardinality(S) - Cardinality(S \cap b)
  BY <1>1, FS_Difference
<1>3. IsFiniteSet(S \cap b) /\ Cardinality(S \cap b) <= Cardinality(b)
  BY <1>1, FS_Subset, S \cap b \subseteq b, FS_Intersection
<1>4. Cardinality(S \cap b) \in Nat /\ Cardinality(b) \in Nat  BY <1>3, FS_CardinalityType
<1> QED BY <1>1, <1>2, <1>3, <1>4 DEF Rank

(* In a finite set of numbers there is one with m smaller ones, for every  *)
(* m below its size: counting those below is one to one.                   *)
LEMMA MthExists ==
  ASSUME NEW S \in SUBSET Nat, IsFiniteSet(S), NEW m \in Nat, m < Cardinality(S)
  PROVE  \E k \in S : Cardinality({o \in S : o < k}) = m
<1> DEFINE below(k) == {o \in S : o < k}
           T == 0 .. Cardinality(S) - 1
           f == [k \in S |-> Cardinality(below(k))]
<1>1. Cardinality(S) \in Nat  BY FS_CardinalityType
<1>2. IsFiniteSet(T) /\ Cardinality(T) = Cardinality(S)
  BY <1>1, FS_Interval, 0 \in Int /\ Cardinality(S) - 1 \in Int
<1>3. ASSUME NEW k \in S, NEW U, below(k) \cup {k} \subseteq U, U \subseteq S
      PROVE  /\ Cardinality(below(k)) \in Nat /\ Cardinality(U) \in Nat
             /\ Cardinality(below(k)) < Cardinality(U)
  <2>1. IsFiniteSet(below(k)) /\ IsFiniteSet(U)  BY <1>3, FS_Subset, below(k) \subseteq S
  <2>2. k \notin below(k)  OBVIOUS
  <2>3. Cardinality(below(k) \cup {k}) = Cardinality(below(k)) + 1
    BY <2>1, <2>2, FS_AddElement
  <2>4. Cardinality(below(k) \cup {k}) <= Cardinality(U)  BY <1>3, <2>1, FS_Subset
  <2>5. Cardinality(below(k)) \in Nat /\ Cardinality(U) \in Nat  BY <2>1, FS_CardinalityType
  <2> QED BY <2>3, <2>4, <2>5
<1>4. \A k \in S : Cardinality(below(k)) \in T
  <2> TAKE k \in S
  <2>1. below(k) \cup {k} \subseteq S  OBVIOUS
  <2>2. Cardinality(below(k)) \in Nat /\ Cardinality(below(k)) < Cardinality(S)
    BY <1>3, <2>1
  <2> QED BY <1>1, <2>2
<1>5. \A k, n \in S : k < n => Cardinality(below(k)) < Cardinality(below(n))
  <2> TAKE k, n \in S
  <2> HAVE k < n
  <2>1. k \in Int /\ n \in Int /\ \A o \in S : o \in Int  OBVIOUS
  <2>2. \A o \in S : o < k => o < n  BY <2>1
  <2>3. below(k) \cup {k} \subseteq below(n) /\ below(n) \subseteq S  BY <2>2
  <2> QED BY <1>3, <2>3
<1>6. f \in Injection(S, T)
  <2>1. f \in [S -> T]  BY <1>4
  <2>2. \A k, n \in S : f[k] = f[n] => k = n
    <3> TAKE k, n \in S
    <3> HAVE f[k] = f[n]
    <3>1. Cardinality(below(k)) = Cardinality(below(n))  OBVIOUS
    <3>2. Cardinality(below(k)) \in Nat  BY <1>4, <1>1
    <3>3. ~(k < n) /\ ~(n < k)  BY <1>5, <3>1, <3>2
    <3> QED BY <3>3
  <2> QED BY <2>1, <2>2 DEF Injection, IsInjective
<1>7. f \in Surjection(S, T)  BY <1>2, <1>6, FS_Injection
<1>8. m \in T  BY <1>1
<1>9. PICK k \in S : f[k] = m  BY <1>7, <1>8 DEF Surjection
<1> QED BY <1>9

Cand(kd, x) == IF kd = "uniform" THEN <<3 * x, 3 * x + 1, 3 * x + 2>> ELSE <<x \div 2, x % 2, 0>>

ByRank(kd, b, v, c) == \A k \in 0 .. c - 1 : \E x \in Nat \ b : Rank(b, x) = k /\ v[k] = Cand(kd, x)

(* A polynomial v with c coefficients, after seen candidates.              *)
Lane(kd, b, v, c, seen) ==
  c \in 0 .. N /\ ByRank(kd, b, v, c) /\ (c < N => c = Rank(b, seen))

LEMMA CandUnique ==
  ASSUME NEW kd, NEW x \in Nat, NEW y \in Nat, Cand(kd, x) = Cand(kd, y)
  PROVE  x = y
<1>1. CASE kd = "uniform"
  <2>1. <<3 * x, 3 * x + 1, 3 * x + 2>> = <<3 * y, 3 * y + 1, 3 * y + 2>>  BY <1>1 DEF Cand
  <2>2. 3 * x = 3 * y  BY <2>1
  <2> QED BY <2>2
<1>2. CASE kd # "uniform"
  <2>1. <<x \div 2, x % 2, 0>> = <<y \div 2, y % 2, 0>>  BY <1>2 DEF Cand
  <2>2. x \div 2 = y \div 2 /\ x % 2 = y % 2  BY <2>1
  <2> QED BY <2>2
<1> QED BY <1>1, <1>2

LEMMA OneTaken ==
  ASSUME N \in Nat, NEW kd, NEW b, NEW v, NEW w2, NEW c \in Nat, NEW seen \in Nat,
         Lane(kd, b, v, c, seen), c < N,
         seen \notin b => w2[c] = Cand(kd, seen),
         \A k \in 0 .. c - 1 : w2[k] = v[k]
  PROVE  Lane(kd, b, w2, IF seen \in b THEN c ELSE c + 1, seen + 1)
<1>1. c = Rank(b, seen) /\ ByRank(kd, b, v, c)  BY DEF Lane
<1>2. ByRank(kd, b, w2, c)  BY <1>1 DEF ByRank
<1>3. CASE seen \in b
  BY <1>1, <1>2, <1>3, RankNext DEF Lane
<1>4. CASE seen \notin b
  <2>1. Rank(b, seen + 1) = c + 1  BY <1>1, <1>4, RankNext
  <2>2. ByRank(kd, b, w2, c + 1)
    <3> SUFFICES ASSUME NEW k \in 0 .. c
                 PROVE  \E x \in Nat \ b : Rank(b, x) = k /\ w2[k] = Cand(kd, x)
      BY DEF ByRank
    <3>1. CASE k = c  BY <1>1, <1>4, <3>1
    <3>2. CASE k # c
      <4>1. k \in 0 .. c - 1  BY <3>2
      <4> QED BY <4>1, <1>2 DEF ByRank
    <3> QED BY <3>1, <3>2
  <2> QED BY <1>4, <2>1, <2>2 DEF Lane
<1> QED BY <1>3, <1>4

LEMMA TakenType ==
  ASSUME NEW b, NEW x \in Nat, NEW n \in Nat
  PROVE  /\ IsFiniteSet(Taken(b, x, n))
         /\ Cardinality(Taken(b, x, n)) \in Nat /\ Cardinality(Taken(b, x, n)) <= n
<1>1. 0 \in Int /\ n - 1 \in Int  OBVIOUS
<1>2. IsFiniteSet(0 .. n - 1) /\ Cardinality(0 .. n - 1) = IF 0 > n - 1 THEN 0 ELSE (n - 1) - 0 + 1
  BY <1>1, FS_Interval
<1>3. Cardinality(0 .. n - 1) = n  BY <1>2
<1>4. Taken(b, x, n) \subseteq 0 .. n - 1  BY DEF Taken
<1> QED BY <1>2, <1>3, <1>4, FS_Subset, FS_CardinalityType

LEMMA ManyTaken ==
  ASSUME N \in Nat, LANES \in Nat \ {0}, NEW kd, NEW b, NEW v, NEW w2, NEW c \in Nat, NEW seen \in Nat,
         Lane(kd, b, v, c, seen), c <= N - LANES,
         \A k \in 0 .. c - 1 : w2[k] = v[k],
         \A m \in 0 .. Cardinality(Taken(b, seen, LANES)) - 1 :
           \E o \in Taken(b, seen, LANES) :
             /\ Cardinality({q \in Taken(b, seen, LANES) : q < o}) = m
             /\ w2[c + m] = Cand(kd, seen + o)
  PROVE  Lane(kd, b, w2, c + Cardinality(Taken(b, seen, LANES)), seen + LANES)
<1> DEFINE n == Cardinality(Taken(b, seen, LANES))
<1>1. c = Rank(b, seen) /\ ByRank(kd, b, v, c)  BY DEF Lane
<1>2. ByRank(kd, b, w2, c)  BY <1>1 DEF ByRank
<1>3. IsFiniteSet(Taken(b, seen, LANES)) /\ Rank(b, seen + LANES) = c + n
  BY <1>1, RankPlus
<1>4. n \in Nat /\ n <= LANES  BY TakenType
<1>5. ASSUME NEW m \in 0 .. n - 1
      PROVE  \E x \in Nat \ b : Rank(b, x) = c + m /\ w2[c + m] = Cand(kd, x)
  <2>1. PICK o \in Taken(b, seen, LANES) :
          /\ Cardinality({q \in Taken(b, seen, LANES) : q < o}) = m
          /\ w2[c + m] = Cand(kd, seen + o)
    OBVIOUS
  <2>2. o \in 0 .. LANES - 1 /\ seen + o \in Nat \ b  BY DEF Taken
  <2>3. {q \in Taken(b, seen, LANES) : q < o} = Taken(b, seen, o)  BY <2>2 DEF Taken
  <2>4. Rank(b, seen + o) = Rank(b, seen) + Cardinality(Taken(b, seen, o))
    BY <2>2, RankPlus
  <2> QED BY <1>1, <2>1, <2>2, <2>3, <2>4
<1> HIDE DEF n
<1>6. ByRank(kd, b, w2, c + n)
  <2> SUFFICES ASSUME NEW k \in 0 .. (c + n) - 1
               PROVE  \E x \in Nat \ b : Rank(b, x) = k /\ w2[k] = Cand(kd, x)
    BY DEF ByRank
  <2>1. CASE k < c
    <3>1. k \in 0 .. c - 1  BY <2>1
    <3> QED BY <3>1, <1>2 DEF ByRank
  <2>2. CASE k >= c
    <3>1. k - c \in 0 .. n - 1 /\ c + (k - c) = k  BY <2>2, <1>4
    <3> QED BY <3>1, <1>5
  <2> QED BY <2>1, <2>2
<1>7. c + n \in 0 .. N  BY <1>4
<1> QED BY <1>3, <1>6, <1>7 DEF Lane, n

LEMMA AcceptedCand ==
  ASSUME NEW l, bad[l] \subseteq Nat, NEW x \in Nat
  PROVE  Sampling!Accepted(l, Cand(kind, x)) <=> x \notin bad[l]
<1>1. \A k \in Nat : Sampling!InOrder(k) = Cand(kind, k)  BY DEF Sampling!InOrder, Cand
<1>2. \A k \in bad[l] : Cand(kind, x) # Sampling!InOrder(k) <=> x # k  BY <1>1, CandUnique
<1> QED BY <1>2 DEF Sampling!Accepted

(* A vector of candidates is stored in order, behind those there are.      *)
LEMMA VectorStored ==
  ASSUME N \in Nat, LANES \in Nat \ {0}, NEW l \in Sampling!Lanes, bad[l] \subseteq Nat,
         a = [i \in Sampling!Lanes |-> a[i]], ctr \in [Sampling!Lanes -> Nat],
         NEW seen \in Nat, Lane(kind, bad[l], a[l], ctr[l], seen), ctr[l] <= N - LANES,
         NEW cs, \A k \in 0 .. LANES - 1 : cs[k] = Cand(kind, seen + k),
         Sampling!Store(l, cs)
  PROVE  /\ a' = [i \in Sampling!Lanes |-> a'[i]] /\ ctr' \in [Sampling!Lanes -> Nat]
         /\ \A i \in Sampling!Lanes : i # l => a'[i] = a[i] /\ ctr'[i] = ctr[i]
         /\ Lane(kind, bad[l], a'[l], ctr'[l], seen + LANES)
         /\ stores' = stores \cup {ctr[l] + LANES - 1}
<1> DEFINE b == bad[l]
           c == ctr[l]
           chosen == {k \in 0 .. LANES - 1 : Sampling!Accepted(l, cs[k])}
           n == Cardinality(chosen)
           lane(m) == CHOOSE k \in chosen : Cardinality({o \in chosen : o < k}) = m
<1>1. chosen = Taken(b, seen, LANES)
  <2>1. \A k \in 0 .. LANES - 1 : Sampling!Accepted(l, cs[k]) <=> seen + k \notin b
    BY AcceptedCand
  <2> QED BY <2>1 DEF Taken
<1>2. IsFiniteSet(chosen) /\ n \in Nat /\ n <= LANES /\ n = Cardinality(Taken(b, seen, LANES))
  <2>1. /\ IsFiniteSet(Taken(b, seen, LANES)) /\ Cardinality(Taken(b, seen, LANES)) \in Nat
        /\ Cardinality(Taken(b, seen, LANES)) <= LANES
    BY TakenType
  <2> HIDE DEF chosen
  <2> QED BY <1>1, <2>1
<1>3. Sampling!Select(l, cs) =
        [n |-> n, lane |-> [m \in 0 .. LANES - 1 |-> IF m < n THEN cs[lane(m)] ELSE cs[0]]]
  BY DEF Sampling!Select, Sampling!Cardinality, Cardinality
<1>4. \A m \in 0 .. n - 1 : lane(m) \in chosen /\ Cardinality({o \in chosen : o < lane(m)}) = m
  <2> TAKE m \in 0 .. n - 1
  <2>1. chosen \in SUBSET Nat  OBVIOUS
  <2>2. \E k \in chosen : Cardinality({o \in chosen : o < k}) = m
    BY <1>2, <2>1, MthExists, SMTT(40)
  <2> QED BY <2>2
<1> HIDE DEF n, lane, chosen
<1>5. c \in Nat  OBVIOUS
<1>6. a' = [a EXCEPT ![l] = [i \in 0 .. N - 1 |->
              IF c <= i /\ i < c + LANES THEN Sampling!Select(l, cs).lane[i - c] ELSE a[l][i]]]
  BY DEF Sampling!Store
<1>7. ctr' = [ctr EXCEPT ![l] = @ + Sampling!Select(l, cs).n]  BY DEF Sampling!Store
<1>8. Sampling!Select(l, cs).n = n  BY <1>3
<1>9. ctr' = [ctr EXCEPT ![l] = @ + n]  BY <1>7, <1>8
<1>10. a'[l] = [i \in 0 .. N - 1 |->
              IF c <= i /\ i < c + LANES THEN Sampling!Select(l, cs).lane[i - c] ELSE a[l][i]]
  BY <1>6
<1>11. \A k \in 0 .. c - 1 : a'[l][k] = a[l][k]  BY <1>5, <1>10
<1>12. \A m \in 0 .. n - 1 :
         \E o \in Taken(b, seen, LANES) :
           /\ Cardinality({q \in Taken(b, seen, LANES) : q < o}) = m
           /\ a'[l][c + m] = Cand(kind, seen + o)
  <2> TAKE m \in 0 .. n - 1
  <2>1. lane(m) \in Taken(b, seen, LANES) /\ Cardinality({o \in Taken(b, seen, LANES) : o < lane(m)}) = m
    BY <1>1, <1>4
  <2>2. m \in 0 .. LANES - 1 /\ c + m \in 0 .. N - 1 /\ (c + m) - c = m /\ c + m < c + LANES /\ c <= c + m
    BY <1>2, <1>5
  <2>3. a'[l][c + m] = Sampling!Select(l, cs).lane[m]  BY <1>10, <2>2
  <2>4. Sampling!Select(l, cs).lane = [k \in 0 .. LANES - 1 |-> IF k < n THEN cs[lane(k)] ELSE cs[0]]
    BY <1>3
  <2>5. Sampling!Select(l, cs).lane[m] = cs[lane(m)]  BY <2>2, <2>4, <1>2
  <2>6. lane(m) \in 0 .. LANES - 1  BY <2>1 DEF Taken
  <2> QED BY <2>1, <2>3, <2>5, <2>6
<1>13. Lane(kind, b, a'[l], c + n, seen + LANES)
  <2>1. n = Cardinality(Taken(b, seen, LANES))  BY <1>2
  <2> QED BY <1>5, <1>11, <1>12, <2>1, ManyTaken
<1>14. ctr'[l] = c + n /\ ctr' \in [Sampling!Lanes -> Nat] /\ \A i \in Sampling!Lanes : i # l => ctr'[i] = ctr[i]
  BY <1>2, <1>9
<1>15. a' = [i \in Sampling!Lanes |-> a'[i]] /\ \A i \in Sampling!Lanes : i # l => a'[i] = a[i]
  BY <1>6
<1> QED BY <1>13, <1>14, <1>15 DEF Sampling!Store

(* The byte the buffer begins with, and how many candidates of a lane were *)
(* seen: all lanes read the same buffer, one after the other.              *)
Base == squeezed - buflen
Used(l) == IF l < p THEN squeezed ELSE IF l = p THEN Base + pos ELSE Base
Seen(l) == IF kind = "uniform" THEN Used(l) \div 3 ELSE 2 * Used(l)

(* A vector of 2*LANES bytes that is begun is in the buffer to its end.    *)
VectorInBuffer ==
  step > 0 =>
    /\ pc = "vector" /\ kind = "eta"
    /\ step = 1 => pos + 3 * (LANES \div 2) <= buflen
    /\ step = 2 => pos + 2 * (LANES \div 2) <= buflen
    /\ step = 3 => pos + (LANES \div 2) <= buflen

BufferHolds ==
  /\ squeezed \in Nat /\ buflen \in Nat /\ buflen <= squeezed /\ pos \in Nat /\ pos <= buflen
  /\ buf = [i \in 0 .. buflen - 1 |-> Base + i]
  /\ kind = "uniform" =>
       /\ Base % 3 = 0 /\ pos % 3 = 0
       /\ build # "ref" => rate % 3 = 0 /\ squeezed % 3 = 0

SamplingInv ==
  /\ kind \in {"uniform", "eta"} /\ build \in {"ref", "avx2", "x4"} /\ rate \in Nat \ {0}
  /\ \A l \in Sampling!Lanes : bad[l] \subseteq Nat /\ IsFiniteSet(bad[l])
  /\ pc \in {"vector", "scalar", "done"} /\ p \in Sampling!Lanes
  /\ BufferHolds
  /\ a = [l \in Sampling!Lanes |-> a[l]] /\ ctr \in [Sampling!Lanes -> Nat]
  /\ step \in 0 .. 3 /\ VectorInBuffer
  /\ \A l \in Sampling!Lanes : Lane(kind, bad[l], a[l], ctr[l], Seen(l))
  /\ pc = "done" => \A l \in Sampling!Lanes : ctr[l] = N
  /\ \A s \in stores : s < N

LEMMA SamplingSizes ==
  ASSUME Sampling!SizesAssumption
  PROVE  /\ N \in Nat \ {0} /\ Polys \in Nat \ {0} /\ LANES \in Nat \ {0}
         /\ LANES = 2 * (LANES \div 2) /\ LANES \div 2 \in Nat \ {0}
         /\ Sampling!Lanes \subseteq Nat /\ 0 \in Sampling!Lanes
         /\ build # "x4" => Sampling!Lanes = {0}
         /\ \A l \in Sampling!Lanes, m \in Nat : m <= l => m \in Sampling!Lanes
<1>1. N \in Nat \ {0} /\ Polys \in Nat \ {0} /\ LANES \in Nat \ {0} /\ LANES % 2 = 0
  BY DEF Sampling!SizesAssumption
<1>2. LANES = 2 * (LANES \div 2) /\ LANES \div 2 \in Nat \ {0}  BY <1>1
<1> QED BY <1>1, <1>2 DEF Sampling!Lanes

LEMMA SamplingInit ==
  ASSUME Sampling!SizesAssumption, Sampling!BuildsAssumption, Sampling!PatternsAssumption
  PROVE  Sampling!Init => SamplingInv
<1> SUFFICES ASSUME Sampling!Init PROVE SamplingInv  OBVIOUS
<1>1. /\ kind \in {"uniform", "eta"} /\ build \in {"ref", "avx2", "x4"} /\ rate \in Nat \ {0}
      /\ Blocks[kind] \in Nat
  BY DEF Sampling!Init, Sampling!SizesAssumption, Sampling!BuildsAssumption, Sampling!Kinds
<1>2. \A l \in Sampling!Lanes : bad[l] \subseteq Nat /\ IsFiniteSet(bad[l])
  BY DEF Sampling!Init, Sampling!PatternsAssumption, Sampling!IsFiniteSet, IsFiniteSet
<1>3. /\ pc = "vector" /\ p = 0 /\ pos = 0 /\ step = 0 /\ stores = {}
      /\ squeezed = Blocks[kind] * rate /\ buflen = squeezed
      /\ buf = [i \in 0 .. squeezed - 1 |-> 0 + i]
      /\ ctr = [l \in Sampling!Lanes |-> 0]
      /\ a = [l \in Sampling!Lanes |-> [i \in 0 .. N - 1 |-> Sampling!None]]
  BY DEF Sampling!Init, Sampling!Bytes
<1>4. squeezed \in Nat
  BY <1>1, <1>3
<1>5. kind = "uniform" /\ build # "ref" => rate % 3 = 0 /\ squeezed % 3 = 0
  <2> HAVE kind = "uniform" /\ build # "ref"
  <2>1. rate % 3 = 0  BY DEF Sampling!Init
  <2>2. PICK r \in Nat : rate = 3 * r
    <3>1. rate \div 3 \in Nat /\ rate = 3 * (rate \div 3)  BY <1>1, <2>1
    <3> QED BY <3>1
  <2> DEFINE n == Blocks[kind]
  <2>3. n \in Nat /\ squeezed = n * (3 * r)  BY <1>1, <1>3, <2>2
  <2> HIDE DEF n
  <2>4. n * r \in Nat /\ n * (3 * r) = 3 * (n * r)  BY <2>2, <2>3
  <2> DEFINE q == n * r
  <2>5. q \in Nat /\ squeezed = 3 * q  BY <2>3, <2>4
  <2> HIDE DEF q
  <2> QED BY <2>1, <2>5
<1>6. Base = 0  BY <1>3, <1>4 DEF Base
<1>7. BufferHolds  BY <1>3, <1>4, <1>5, <1>6 DEF BufferHolds
<1>8. \A l \in Sampling!Lanes : Lane(kind, bad[l], a[l], ctr[l], Seen(l))
  <2> TAKE l \in Sampling!Lanes
  <2>1. ~(l < 0)  BY SamplingSizes
  <2>2. Used(l) = 0  BY <1>3, <1>6, <2>1 DEF Used
  <2>3. Seen(l) = 0  BY <2>2 DEF Seen
  <2>4. ctr[l] = 0  BY <1>3
  <2>5. ByRank(kind, bad[l], a[l], 0)  BY DEF ByRank
  <2> QED BY <2>3, <2>4, <2>5, RankZero, SamplingSizes DEF Lane
<1>9. a = [l \in Sampling!Lanes |-> a[l]] /\ ctr \in [Sampling!Lanes -> Nat]  BY <1>3
<1>10. VectorInBuffer  BY <1>3 DEF VectorInBuffer
<1>11. p \in Sampling!Lanes  BY <1>3, SamplingSizes
<1>12. pc = "vector" /\ step \in 0 .. 3 /\ \A s \in stores : s < N  BY <1>3
<1> QED BY <1>1, <1>2, <1>7, <1>8, <1>9, <1>10, <1>11, <1>12 DEF SamplingInv

LEMMA ThirdsMove ==
  ASSUME NEW x \in Nat, NEW m \in Nat
  PROVE  (x + 3 * m) \div 3 = x \div 3 + m
  OBVIOUS

(* A step of one lane: d bytes further on, and seen candidates more.       *)
LEMMA Consumed ==
  ASSUME Sampling!SizesAssumption, SamplingInv,
         UNCHANGED <<kind, build, rate, bad, p, squeezed, buf, buflen>>,
         a' = [i \in Sampling!Lanes |-> a'[i]], ctr' \in [Sampling!Lanes -> Nat],
         \A i \in Sampling!Lanes : i # p => a'[i] = a[i] /\ ctr'[i] = ctr[i],
         NEW d \in Nat, NEW more \in Nat, pos' = pos + d, pos + d <= buflen,
         kind = "uniform" => d = 3 * more, kind = "eta" => more = 2 * d,
         Lane(kind, bad[p], a'[p], ctr'[p], Seen(p) + more),
         step' \in 0 .. 3, VectorInBuffer', pc' \in {"vector", "scalar"}, \A s \in stores' : s < N
  PROVE  SamplingInv'
<1>1. Sampling!Lanes' = Sampling!Lanes /\ Base' = Base  BY DEF Sampling!Lanes, Base
<1>2. /\ kind \in {"uniform", "eta"} /\ p \in Sampling!Lanes /\ Sampling!Lanes \subseteq Nat
      /\ squeezed \in Nat /\ buflen \in Nat /\ pos \in Nat /\ buflen <= squeezed
      /\ buf = [i \in 0 .. buflen - 1 |-> Base + i]
      /\ kind = "uniform" => /\ Base % 3 = 0 /\ pos % 3 = 0
                             /\ build # "ref" => rate % 3 = 0 /\ squeezed % 3 = 0
  BY SamplingSizes DEF SamplingInv, BufferHolds
<1>3. Base \in Nat  BY <1>2 DEF Base
<1>4. BufferHolds'
  <2>1. kind = "uniform" => (pos + d) % 3 = 0  BY <1>2
  <2>2. buf' = [i \in 0 .. buflen' - 1 |-> Base' + i]  BY <1>1, <1>2
  <2>3. pos' \in Nat /\ pos' <= buflen'  BY <1>2
  <2>4. kind' = "uniform" => /\ Base' % 3 = 0 /\ pos' % 3 = 0
                             /\ build' # "ref" => rate' % 3 = 0 /\ squeezed' % 3 = 0
    BY <1>1, <1>2, <2>1
  <2> QED BY <1>2, <2>2, <2>3, <2>4 DEF BufferHolds
<1>5. ASSUME NEW l \in Sampling!Lanes, l # p
      PROVE  Seen(l)' = Seen(l)
  <2>1. Used(l)' = Used(l)  BY <1>1, <1>5 DEF Used
  <2> QED BY <2>1 DEF Seen
<1>6. Seen(p)' = Seen(p) + more
  <2>1. Used(p) = Base + pos /\ Used(p)' = Base + (pos + d)  BY <1>1, <1>2 DEF Used
  <2>2. CASE kind = "uniform"
    <3>1. Base + (pos + d) = (Base + pos) + 3 * more /\ Base + pos \in Nat  BY <1>2, <1>3, <2>2, SMTT(40)
    <3>2. ((Base + pos) + 3 * more) \div 3 = (Base + pos) \div 3 + more  BY <3>1, ThirdsMove
    <3> QED BY <2>1, <2>2, <3>1, <3>2 DEF Seen
  <2>3. CASE kind = "eta"
    <3>1. 2 * (Base + (pos + d)) = 2 * (Base + pos) + more  BY <1>2, <1>3, <2>3
    <3> QED BY <2>1, <2>3, <3>1 DEF Seen
  <2> QED BY <1>2, <2>2, <2>3
<1>7. \A l \in Sampling!Lanes : Lane(kind, bad[l], a'[l], ctr'[l], Seen(l)')
  <2> TAKE l \in Sampling!Lanes
  <2>1. CASE l = p  BY <1>6, <2>1
  <2>2. CASE l # p  BY <1>5, <2>2 DEF SamplingInv
  <2> QED BY <2>1, <2>2
<1>8. (\A l \in Sampling!Lanes : Lane(kind, bad[l], a[l], ctr[l], Seen(l)))'
  BY <1>1, <1>7 DEF Lane, ByRank, Cand
<1>9. (\A l \in Sampling!Lanes : bad[l] \subseteq Nat /\ IsFiniteSet(bad[l]))'
  BY <1>1 DEF SamplingInv
<1>10. (kind \in {"uniform", "eta"} /\ build \in {"ref", "avx2", "x4"} /\ rate \in Nat \ {0} /\ p \in Sampling!Lanes)'
  BY <1>1 DEF SamplingInv
<1>11. (a = [l \in Sampling!Lanes |-> a[l]] /\ ctr \in [Sampling!Lanes -> Nat])'
  BY <1>1
<1>12. pc' \in {"vector", "scalar", "done"} /\ pc' # "done" /\ step' \in 0 .. 3  OBVIOUS
<1> QED BY <1>4, <1>8, <1>9, <1>10, <1>11, <1>12 DEF SamplingInv
(* What the lanes are given by the buffer is what comes next in the stream. *)
LEMMA NextCandidates ==
  ASSUME SamplingInv, Sampling!SizesAssumption
  PROVE  /\ Seen(p) \in Nat
         /\ kind = "uniform" =>
              \A k \in Nat : pos + 3 * k + 2 < buflen =>
                Sampling!Uniform(buf, pos + 3 * k) = Cand(kind, Seen(p) + k)
         /\ kind = "eta" =>
              \A k \in Nat : pos + k \div 2 < buflen =>
                Sampling!Eta(buf, pos + k \div 2, k % 2) = Cand(kind, Seen(p) + k)
<1>1. /\ kind \in {"uniform", "eta"} /\ p \in Nat
      /\ squeezed \in Nat /\ buflen \in Nat /\ pos \in Nat /\ buflen <= squeezed
      /\ buf = [i \in 0 .. buflen - 1 |-> Base + i]
      /\ kind = "uniform" => Base % 3 = 0 /\ pos % 3 = 0
  BY SamplingSizes DEF SamplingInv, BufferHolds
<1>2. Base \in Nat /\ Used(p) = Base + pos  BY <1>1 DEF Base, Used
<1>3. Seen(p) \in Nat  BY <1>1, <1>2 DEF Seen
<1>4. ASSUME kind = "uniform", NEW k \in Nat, pos + 3 * k + 2 < buflen
      PROVE  Sampling!Uniform(buf, pos + 3 * k) = Cand(kind, Seen(p) + k)
  <2> DEFINE x == pos + 3 * k
  <2>1. x \in Nat /\ x \in 0 .. buflen - 1 /\ x + 1 \in 0 .. buflen - 1 /\ x + 2 \in 0 .. buflen - 1
    BY <1>1, <1>4
  <2>2. Seen(p) = (Base + pos) \div 3  BY <1>2, <1>4 DEF Seen
  <2>3. 3 * ((Base + pos) \div 3) = Base + pos  BY <1>1, <1>2, <1>4
  <2>4. Base + x = 3 * (Seen(p) + k)  BY <1>1, <1>2, <1>3, <2>2, <2>3
  <2> HIDE DEF x
  <2>5. buf[x] = Base + x /\ buf[x + 1] = Base + (x + 1) /\ buf[x + 2] = Base + (x + 2)
    BY <1>1, <2>1
  <2>6. Base + (x + 1) = 3 * (Seen(p) + k) + 1 /\ Base + (x + 2) = 3 * (Seen(p) + k) + 2
    BY <1>2, <1>3, <2>1, <2>4
  <2>7. Sampling!Uniform(buf, x) = Cand(kind, Seen(p) + k)
    BY <1>4, <2>4, <2>5, <2>6 DEF Sampling!Uniform, Cand
  <2> QED BY <2>7 DEF x
<1>5. ASSUME kind = "eta", NEW k \in Nat, pos + k \div 2 < buflen
      PROVE  Sampling!Eta(buf, pos + k \div 2, k % 2) = Cand(kind, Seen(p) + k)
  <2> DEFINE x == pos + k \div 2
  <2>1. x \in 0 .. buflen - 1  BY <1>1, <1>5
  <2>2. Seen(p) = 2 * (Base + pos)  BY <1>2, <1>5 DEF Seen
  <2>3. (Seen(p) + k) \div 2 = Base + x /\ (Seen(p) + k) % 2 = k % 2
    BY <1>1, <1>2, <2>2
  <2> HIDE DEF x
  <2>4. buf[x] = Base + x  BY <1>1, <2>1
  <2>5. Sampling!Eta(buf, x, k % 2) = Cand(kind, Seen(p) + k)
    BY <1>5, <2>3, <2>4 DEF Sampling!Eta, Cand
  <2> QED BY <2>5 DEF x
<1> QED BY <1>3, <1>4, <1>5

LEMMA LaneOf ==
  ASSUME SamplingInv, Sampling!SizesAssumption
  PROVE  /\ p \in Sampling!Lanes /\ bad[p] \subseteq Nat /\ ctr[p] \in 0 .. N
         /\ Lane(kind, bad[p], a[p], ctr[p], Seen(p))
         /\ a = [i \in Sampling!Lanes |-> a[i]] /\ ctr \in [Sampling!Lanes -> Nat]
         /\ \A s \in stores : s < N
  BY DEF SamplingInv, Lane

LEMMA Positions ==
  ASSUME SamplingInv, Sampling!SizesAssumption
  PROVE  /\ LANES \in Nat \ {0} /\ N \in Nat \ {0}
         /\ LANES = 2 * (LANES \div 2) /\ LANES \div 2 \in Nat \ {0}
         /\ pos \in Nat /\ buflen \in Nat /\ step \in 0 .. 3
         /\ step > 0 => pc = "vector" /\ kind = "eta"
         /\ step = 1 => pos + 3 * (LANES \div 2) <= buflen
         /\ step = 2 => pos + 2 * (LANES \div 2) <= buflen
         /\ step = 3 => pos + (LANES \div 2) <= buflen
<1>1. BufferHolds /\ VectorInBuffer /\ step \in 0 .. 3  BY DEF SamplingInv
<1>2. pos \in Nat /\ buflen \in Nat  BY <1>1 DEF BufferHolds
<1>3. /\ step > 0 => pc = "vector" /\ kind = "eta"
      /\ step = 1 => pos + 3 * (LANES \div 2) <= buflen
      /\ step = 2 => pos + 2 * (LANES \div 2) <= buflen
      /\ step = 3 => pos + (LANES \div 2) <= buflen
  BY <1>1 DEF VectorInBuffer
<1> QED BY <1>1, <1>2, <1>3, SamplingSizes

LEMMA VectorUniformInv ==
  ASSUME Sampling!SizesAssumption
  PROVE  SamplingInv /\ Sampling!VectorUniform => SamplingInv'
<1> SUFFICES ASSUME SamplingInv, Sampling!VectorUniform PROVE SamplingInv'  OBVIOUS
<1>1. /\ kind = "uniform" /\ pos <= buflen - 3 * LANES /\ ctr[p] <= N - LANES
      /\ pos' = pos + 3 * LANES
      /\ UNCHANGED <<kind, build, rate, bad, pc, p, squeezed, buf, buflen, step>> /\ pc = "vector"
  BY DEF Sampling!VectorUniform
<1>2. /\ LANES \in Nat \ {0} /\ N \in Nat \ {0} /\ pos \in Nat /\ buflen \in Nat
      /\ step = 0
  BY <1>1, Positions
<1> DEFINE cs == [k \in 0 .. LANES - 1 |-> Sampling!Uniform(buf, pos + 3 * k)]
<1>3. Sampling!Store(p, cs)  BY DEF Sampling!VectorUniform
<1>4. \A k \in 0 .. LANES - 1 : cs[k] = Cand(kind, Seen(p) + k)
  <2> TAKE k \in 0 .. LANES - 1
  <2>1. k \in Nat /\ pos + 3 * k + 2 < buflen  BY <1>1, <1>2
  <2> QED BY <1>1, <2>1, NextCandidates
<1> HIDE DEF cs
<1>5. Seen(p) \in Nat  BY NextCandidates
<1>6. /\ a' = [i \in Sampling!Lanes |-> a'[i]] /\ ctr' \in [Sampling!Lanes -> Nat]
      /\ \A i \in Sampling!Lanes : i # p => a'[i] = a[i] /\ ctr'[i] = ctr[i]
      /\ Lane(kind, bad[p], a'[p], ctr'[p], Seen(p) + LANES)
      /\ stores' = stores \cup {ctr[p] + LANES - 1}
  BY <1>1, <1>2, <1>3, <1>4, <1>5, LaneOf, VectorStored
<1>7. \A s \in stores' : s < N
  <2>1. ctr[p] + LANES - 1 < N  BY <1>1, <1>2, LaneOf
  <2> QED BY <1>6, <2>1, LaneOf
<1>8. VectorInBuffer' /\ step' \in 0 .. 3  BY <1>1, <1>2 DEF VectorInBuffer
<1>9. 3 * LANES \in Nat /\ pos + 3 * LANES <= buflen  BY <1>1, <1>2
<1>10. kind # "eta" /\ pc' \in {"vector", "scalar"}  BY <1>1
<1> QED BY <1>1, <1>2, <1>6, <1>7, <1>8, <1>9, <1>10, Consumed

LEMMA VectorEtaInv ==
  ASSUME Sampling!SizesAssumption
  PROVE  SamplingInv /\ Sampling!VectorEta => SamplingInv'
<1> SUFFICES ASSUME SamplingInv, Sampling!VectorEta PROVE SamplingInv'  OBVIOUS
<1> DEFINE half == LANES \div 2
<1>1. /\ kind = "eta" /\ ctr[p] <= N - LANES /\ (step > 0 \/ pos <= buflen - 2 * LANES)
      /\ pos' = pos + half /\ step' = (step + 1) % 4
      /\ UNCHANGED <<kind, build, rate, bad, pc, p, squeezed, buf, buflen>> /\ pc = "vector"
  BY DEF Sampling!VectorEta, Sampling!MoreEta
<1>2. /\ LANES \in Nat \ {0} /\ N \in Nat \ {0} /\ pos \in Nat /\ buflen \in Nat
      /\ LANES = 2 * half /\ half \in Nat \ {0} /\ step \in 0 .. 3
      /\ step = 1 => pos + 3 * half <= buflen
      /\ step = 2 => pos + 2 * half <= buflen
      /\ step = 3 => pos + half <= buflen
  BY Positions
<1> DEFINE cs == [k \in 0 .. LANES - 1 |-> Sampling!Eta(buf, pos + k \div 2, k % 2)]
<1>3. Sampling!Store(p, cs)  BY DEF Sampling!VectorEta, Sampling!EtaLanes
<1> HIDE DEF half
<1>4. pos + half <= buflen
  BY <1>1, <1>2
<1>5. \A k \in 0 .. LANES - 1 : cs[k] = Cand(kind, Seen(p) + k)
  <2> TAKE k \in 0 .. LANES - 1
  <2>1. k \in Nat /\ pos + k \div 2 < buflen  BY <1>2, <1>4
  <2> QED BY <1>1, <2>1, NextCandidates
<1> HIDE DEF cs
<1>6. Seen(p) \in Nat  BY NextCandidates
<1>7. /\ a' = [i \in Sampling!Lanes |-> a'[i]] /\ ctr' \in [Sampling!Lanes -> Nat]
      /\ \A i \in Sampling!Lanes : i # p => a'[i] = a[i] /\ ctr'[i] = ctr[i]
      /\ Lane(kind, bad[p], a'[p], ctr'[p], Seen(p) + LANES)
      /\ stores' = stores \cup {ctr[p] + LANES - 1}
  BY <1>1, <1>2, <1>3, <1>5, <1>6, LaneOf, VectorStored
<1>8. \A s \in stores' : s < N
  <2>1. ctr[p] + LANES - 1 < N  BY <1>1, <1>2, LaneOf
  <2> QED BY <1>7, <2>1, LaneOf
<1>9. step' \in 0 .. 3 /\ VectorInBuffer'
  <2>1. /\ step = 0 => step' = 1 /\ pos' + 3 * half <= buflen
        /\ step = 1 => step' = 2 /\ pos' + 2 * half <= buflen
        /\ step = 2 => step' = 3 /\ pos' + half <= buflen
        /\ step = 3 => step' = 0
    BY <1>1, <1>2
  <2>2. step = 0 \/ step = 1 \/ step = 2 \/ step = 3  BY <1>2
  <2> QED BY <1>1, <2>1, <2>2 DEF VectorInBuffer, half
<1>10. LANES = 2 * half /\ half \in Nat  BY <1>2
<1>11. kind # "uniform" /\ pc' \in {"vector", "scalar"}  BY <1>1
<1> QED BY <1>1, <1>2, <1>4, <1>7, <1>8, <1>9, <1>10, <1>11, Consumed
(* The scalar code takes one candidate, or the two of a byte.              *)
LEMMA ScalarUniformInv ==
  ASSUME Sampling!SizesAssumption
  PROVE  SamplingInv /\ Sampling!ScalarUniform => SamplingInv'
<1> SUFFICES ASSUME SamplingInv, Sampling!ScalarUniform PROVE SamplingInv'  OBVIOUS
<1> DEFINE c == ctr[p]
           cand == Sampling!Uniform(buf, pos)
           first == Sampling!Accepted(p, cand)
           at1 == c + (IF first THEN 1 ELSE 0)
<1>1. /\ kind = "uniform" /\ c < N /\ pos + 3 <= buflen /\ pos' = pos + 3 /\ pc = "scalar"
      /\ UNCHANGED <<kind, build, rate, bad, pc, p, squeezed, buf, buflen, step, stores>>
      /\ Sampling!Keep(p, <<cand>>)
  BY DEF Sampling!ScalarUniform
<1>2. /\ pos \in Nat /\ buflen \in Nat /\ N \in Nat /\ step = 0
      /\ c \in Nat /\ Seen(p) \in Nat
  BY <1>1, Positions, NextCandidates, LaneOf
<1>3. cand = Cand(kind, Seen(p))
  <2>1. pos + 3 * 0 + 2 < buflen /\ pos + 3 * 0 = pos /\ Seen(p) + 0 = Seen(p)  BY <1>1, <1>2
  <2>2. Sampling!Uniform(buf, pos + 3 * 0) = Cand(kind, Seen(p) + 0)
    BY <1>1, <2>1, NextCandidates, 0 \in Nat
  <2> QED BY <2>1, <2>2
<1> HIDE DEF cand
<1>4. first <=> Seen(p) \notin bad[p]  BY <1>2, <1>3, LaneOf, AcceptedCand
<1>5. /\ a' = [a EXCEPT ![p] = [i \in 0 .. N - 1 |-> IF first /\ i = c THEN cand ELSE a[p][i]]]
      /\ ctr' = [ctr EXCEPT ![p] = at1]
  <2> DEFINE cs == <<cand>>
  <2>1. Sampling!Len(cs) = 1 /\ cs[1] = cand /\ Sampling!Keep(p, cs)  BY <1>1
  <2> HIDE DEF cs
  <2>2. ~(Sampling!Len(cs) > 1) /\ Sampling!Len(cs) > 0  BY <2>1
  <2>3. at1 + 0 = at1  BY <1>2
  <2> QED BY <2>1, <2>2, <2>3 DEF Sampling!Keep
<1>6. at1 \in Nat /\ at1 = IF Seen(p) \in bad[p] THEN c ELSE c + 1
  BY <1>2, <1>4
<1> HIDE DEF first, at1
<1>7. /\ a' = [i \in Sampling!Lanes |-> a'[i]] /\ ctr' \in [Sampling!Lanes -> Nat]
      /\ \A i \in Sampling!Lanes : i # p => a'[i] = a[i] /\ ctr'[i] = ctr[i]
      /\ a'[p] = [i \in 0 .. N - 1 |-> IF first /\ i = c THEN cand ELSE a[p][i]]
      /\ ctr'[p] = IF Seen(p) \in bad[p] THEN c ELSE c + 1
  BY <1>5, <1>6, LaneOf
<1>8. Lane(kind, bad[p], a'[p], ctr'[p], Seen(p) + 1)
  <2>1. Seen(p) \notin bad[p] => a'[p][c] = Cand(kind, Seen(p))  BY <1>1, <1>2, <1>3, <1>4, <1>7
  <2>2. \A k \in 0 .. c - 1 : a'[p][k] = a[p][k]  BY <1>1, <1>2, <1>7
  <2>3. Lane(kind, bad[p], a[p], c, Seen(p))  BY LaneOf
  <2>4. Lane(kind, bad[p], a'[p], IF Seen(p) \in bad[p] THEN c ELSE c + 1, Seen(p) + 1)
    <3> HIDE DEF c
    <3> QED BY <1>1, <1>2, <2>1, <2>2, <2>3, OneTaken
  <2> QED BY <1>7, <2>4
<1>9. VectorInBuffer' /\ step' \in 0 .. 3  BY <1>1, <1>2 DEF VectorInBuffer
<1>10. kind # "eta" /\ pc' \in {"vector", "scalar"} /\ 3 = 3 * 1  BY <1>1
<1>11. \A s \in stores' : s < N  BY <1>1, LaneOf
<1> QED BY <1>1, <1>2, <1>7, <1>8, <1>9, <1>10, <1>11, Consumed

LEMMA ScalarEtaInv ==
  ASSUME Sampling!SizesAssumption
  PROVE  SamplingInv /\ Sampling!ScalarEta => SamplingInv'
<1> SUFFICES ASSUME SamplingInv, Sampling!ScalarEta PROVE SamplingInv'  OBVIOUS
<1> DEFINE c == ctr[p]
           c1 == Sampling!Eta(buf, pos, 0)
           c2 == Sampling!Eta(buf, pos, 1)
           first == Sampling!Accepted(p, c1)
           at1 == c + (IF first THEN 1 ELSE 0)
           second == Sampling!Accepted(p, c2) /\ at1 < N
           w2 == [i \in 0 .. N - 1 |-> IF first /\ i = c THEN c1 ELSE a[p][i]]
           w3 == [i \in 0 .. N - 1 |->
                   IF first /\ i = c THEN c1 ELSE IF second /\ i = at1 THEN c2 ELSE a[p][i]]
<1>1. /\ kind = "eta" /\ c < N /\ pos < buflen /\ pos' = pos + 1 /\ pc = "scalar"
      /\ UNCHANGED <<kind, build, rate, bad, pc, p, squeezed, buf, buflen, step, stores>>
      /\ Sampling!Keep(p, <<c1, c2>>)
  BY DEF Sampling!ScalarEta
<1>2. /\ pos \in Nat /\ buflen \in Nat /\ N \in Nat /\ step = 0
      /\ c \in Nat /\ Seen(p) \in Nat
  BY <1>1, Positions, NextCandidates, LaneOf
<1>3. c1 = Cand(kind, Seen(p)) /\ c2 = Cand(kind, Seen(p) + 1)
  <2>1. /\ pos + 0 \div 2 = pos /\ pos + 1 \div 2 = pos /\ 0 % 2 = 0 /\ 1 % 2 = 1
        /\ Seen(p) + 0 = Seen(p)
    BY <1>2
  <2>2. Sampling!Eta(buf, pos + 0 \div 2, 0 % 2) = Cand(kind, Seen(p) + 0)
    BY <1>1, <2>1, NextCandidates, 0 \in Nat
  <2>3. Sampling!Eta(buf, pos + 1 \div 2, 1 % 2) = Cand(kind, Seen(p) + 1)
    BY <1>1, <2>1, NextCandidates, 1 \in Nat
  <2> QED BY <2>1, <2>2, <2>3
<1> HIDE DEF c1, c2
<1>4. first <=> Seen(p) \notin bad[p]  BY <1>2, <1>3, LaneOf, AcceptedCand
<1>5. Sampling!Accepted(p, c2) <=> Seen(p) + 1 \notin bad[p]
  <2>1. Seen(p) + 1 \in Nat  BY <1>2
  <2> QED BY <1>3, <2>1, LaneOf, AcceptedCand
<1>6. /\ a' = [a EXCEPT ![p] = w3]
      /\ ctr' = [ctr EXCEPT ![p] = at1 + (IF second THEN 1 ELSE 0)]
  <2> DEFINE cs == <<c1, c2>>
  <2>1. Sampling!Len(cs) = 2 /\ cs[1] = c1 /\ cs[2] = c2 /\ Sampling!Keep(p, cs)  BY <1>1
  <2> HIDE DEF cs
  <2>2. Sampling!Len(cs) > 1 /\ Sampling!Len(cs) > 0  BY <2>1
  <2> QED BY <2>1, <2>2 DEF Sampling!Keep
<1>7. at1 \in 0 .. N /\ (at1 = c \/ at1 = c + 1) /\ at1 = IF Seen(p) \in bad[p] THEN c ELSE c + 1
  BY <1>1, <1>2, <1>4
<1> HIDE DEF first, at1
<1>8. Lane(kind, bad[p], w2, at1, Seen(p) + 1)
  <2>1. Seen(p) \notin bad[p] => w2[c] = Cand(kind, Seen(p))  BY <1>1, <1>2, <1>3, <1>4
  <2>2. \A k \in 0 .. c - 1 : w2[k] = a[p][k]  BY <1>1, <1>2
  <2> HIDE DEF w2
  <2> QED BY <1>1, <1>2, <1>7, <2>1, <2>2, LaneOf, OneTaken
<1>9. Lane(kind, bad[p], w3, at1 + (IF second THEN 1 ELSE 0), Seen(p) + 2)
  <2>1. \A k \in 0 .. at1 - 1 : w3[k] = w2[k]
    BY <1>1, <1>2, <1>7
  <2>2. CASE at1 < N
    <3>1. second <=> Seen(p) + 1 \notin bad[p]  BY <1>5, <2>2
    <3>2. Seen(p) + 1 \notin bad[p] => w3[at1] = Cand(kind, Seen(p) + 1)
      <4>1. ~(first /\ at1 = c)  BY <1>2, <1>4, <1>7
      <4> QED BY <1>2, <1>3, <1>7, <2>2, <3>1, <4>1
    <3> HIDE DEF w2, w3, second
    <3>3. Lane(kind, bad[p], w3, IF Seen(p) + 1 \in bad[p] THEN at1 ELSE at1 + 1, (Seen(p) + 1) + 1)
      <4>1. Seen(p) + 1 \in Nat /\ at1 \in Nat  BY <1>2, <1>7
      <4> QED BY <1>2, <1>8, <2>1, <2>2, <3>2, <4>1, OneTaken
    <3>4. /\ (Seen(p) + 1) + 1 = Seen(p) + 2
          /\ (IF Seen(p) + 1 \in bad[p] THEN at1 ELSE at1 + 1) = at1 + (IF second THEN 1 ELSE 0)
      BY <1>2, <1>7, <3>1
    <3> QED BY <3>3, <3>4
  <2>3. CASE ~(at1 < N)
    <3>1. at1 = N /\ ~second  BY <1>2, <1>7, <2>3
    <3>2. at1 + (IF second THEN 1 ELSE 0) = N /\ ~(N < N)  BY <1>2, <3>1
    <3>3. ByRank(kind, bad[p], w3, N)  BY <1>8, <2>1, <3>1 DEF Lane, ByRank
    <3> QED BY <1>2, <3>2, <3>3 DEF Lane
  <2> QED BY <2>2, <2>3
<1>10. at1 + (IF second THEN 1 ELSE 0) \in Nat  BY <1>2, <1>7
<1> HIDE DEF second, w3
<1>11. /\ a' = [i \in Sampling!Lanes |-> a'[i]] /\ ctr' \in [Sampling!Lanes -> Nat]
       /\ \A i \in Sampling!Lanes : i # p => a'[i] = a[i] /\ ctr'[i] = ctr[i]
       /\ a'[p] = w3 /\ ctr'[p] = at1 + (IF second THEN 1 ELSE 0)
  BY <1>6, <1>10, LaneOf
<1>12. VectorInBuffer' /\ step' \in 0 .. 3  BY <1>1, <1>2 DEF VectorInBuffer
<1>13. kind # "uniform" /\ pc' \in {"vector", "scalar"} /\ 2 = 2 * 1  BY <1>1
<1>14. \A s \in stores' : s < N  BY <1>1, LaneOf
<1>15. Lane(kind, bad[p], a'[p], ctr'[p], Seen(p) + 2) /\ pos + 1 <= buflen
  BY <1>1, <1>2, <1>9, <1>11
<1> QED BY <1>1, <1>2, <1>11, <1>12, <1>13, <1>14, <1>15, Consumed
LEMMA SamplingHolds ==
  ASSUME SamplingInv, Sampling!SizesAssumption
  PROVE  /\ kind \in {"uniform", "eta"} /\ build \in {"ref", "avx2", "x4"} /\ rate \in Nat \ {0}
         /\ p \in Nat /\ N \in Nat /\ Sampling!Lanes \subseteq Nat
         /\ squeezed \in Nat /\ buflen \in Nat /\ buflen <= squeezed /\ pos \in Nat /\ pos <= buflen
         /\ Base \in Nat /\ Base = squeezed - buflen
         /\ buf = [i \in 0 .. buflen - 1 |-> Base + i]
         /\ kind = "uniform" /\ build # "ref" => rate % 3 = 0 /\ squeezed % 3 = 0
         /\ pc # "vector" => step = 0
<1>1. /\ kind \in {"uniform", "eta"} /\ build \in {"ref", "avx2", "x4"} /\ rate \in Nat \ {0}
      /\ p \in Sampling!Lanes /\ BufferHolds
  BY DEF SamplingInv
<1>2. p \in Nat /\ N \in Nat /\ Sampling!Lanes \subseteq Nat  BY <1>1, SamplingSizes
<1>3. /\ squeezed \in Nat /\ buflen \in Nat /\ buflen <= squeezed /\ pos \in Nat /\ pos <= buflen
      /\ buf = [i \in 0 .. buflen - 1 |-> Base + i]
      /\ kind = "uniform" /\ build # "ref" => rate % 3 = 0 /\ squeezed % 3 = 0
  BY <1>1 DEF BufferHolds
<1>4. Base \in Nat /\ Base = squeezed - buflen  BY <1>3 DEF Base
<1>5. pc # "vector" => step = 0
  <2>1. step \in 0 .. 3 /\ (step > 0 => pc = "vector")  BY Positions
  <2> QED BY <2>1
<1> QED BY <1>1, <1>2, <1>3, <1>4, <1>5

LEMMA LanesMove ==
  ASSUME Sampling!Lanes' = Sampling!Lanes, kind' = kind, bad' = bad,
         a' = [l \in Sampling!Lanes |-> a'[l]], ctr' \in [Sampling!Lanes -> Nat],
         \A l \in Sampling!Lanes : Lane(kind, bad[l], a'[l], ctr'[l], Seen(l)')
  PROVE  (\A l \in Sampling!Lanes : Lane(kind, bad[l], a[l], ctr[l], Seen(l)))'
BY DEF Lane, ByRank, Cand

LEMMA VectorEndInv ==
  ASSUME Sampling!SizesAssumption
  PROVE  SamplingInv /\ Sampling!VectorEnd => SamplingInv'
<1> SUFFICES ASSUME SamplingInv, Sampling!VectorEnd PROVE SamplingInv'  OBVIOUS
<1>1. /\ UNCHANGED <<kind, build, rate, bad, p, squeezed, buf, buflen, a, ctr, pos, stores>>
      /\ pc' = "scalar" /\ step' = 0
  BY DEF Sampling!VectorEnd
<1>2. /\ pos \in Nat /\ buflen \in Nat /\ pos <= buflen /\ Seen(p) \in Nat
  BY NextCandidates DEF SamplingInv, BufferHolds
<1>3. pos' = pos + 0 /\ pos + 0 <= buflen /\ 0 = 3 * 0 /\ 0 = 2 * 0 /\ 0 \in Nat  BY <1>1, <1>2
<1>4. Lane(kind, bad[p], a'[p], ctr'[p], Seen(p) + 0)  BY <1>1, <1>2, LaneOf
<1>5. a' = [i \in Sampling!Lanes |-> a'[i]] /\ ctr' \in [Sampling!Lanes -> Nat]
      /\ \A i \in Sampling!Lanes : i # p => a'[i] = a[i] /\ ctr'[i] = ctr[i]
  BY <1>1, LaneOf
<1>6. VectorInBuffer' /\ step' \in 0 .. 3 /\ pc' \in {"vector", "scalar"}  BY <1>1 DEF VectorInBuffer
<1>7. \A s \in stores' : s < N  BY <1>1, LaneOf
<1> QED BY <1>1, <1>3, <1>4, <1>5, <1>6, <1>7, Consumed

(* A lane is done with the buffer: full, or at its end but for the bytes   *)
(* that make no candidate.                                                 *)
LEMMA AtEnd ==
  ASSUME SamplingInv, Sampling!SizesAssumption, Sampling!Exhausted
  PROVE  /\ Sampling!Left \in Nat /\ Sampling!Left <= buflen
         /\ kind = "uniform" => (squeezed - Sampling!Left) % 3 = 0
         /\ build = "x4" => Sampling!Left = 0
         /\ ctr[p] = N \/ Base + pos = squeezed - Sampling!Left
<1>1. /\ kind \in {"uniform", "eta"}
      /\ squeezed \in Nat /\ buflen \in Nat /\ pos \in Nat /\ buflen <= squeezed /\ pos <= buflen
      /\ kind = "uniform" =>
           Base % 3 = 0 /\ pos % 3 = 0 /\ (build # "ref" => squeezed % 3 = 0)
  BY DEF SamplingInv, BufferHolds
<1>2. Base = squeezed - buflen  BY DEF Base
<1>3. Sampling!Left = IF kind = "uniform" /\ build = "ref" THEN buflen % 3 ELSE 0
  BY DEF Sampling!Left
<1>4. ctr[p] = N \/ (kind = "uniform" /\ pos + 3 > buflen) \/ (kind = "eta" /\ pos >= buflen)
  BY DEF Sampling!Exhausted
<1>5. CASE kind = "uniform" /\ build = "ref"
  BY <1>1, <1>2, <1>3, <1>4, <1>5
<1>6. CASE kind = "uniform" /\ build # "ref"
  <2>1. buflen % 3 = 0  BY <1>1, <1>2, <1>6
  <2> QED BY <1>1, <1>2, <1>3, <1>4, <1>6, <2>1
<1>7. CASE kind = "eta"
  BY <1>1, <1>2, <1>3, <1>4, <1>7
<1> QED BY <1>1, <1>5, <1>6, <1>7

LEMMA FullLane ==
  ASSUME NEW kd, NEW b, NEW v, NEW c, NEW s, NEW t, Lane(kd, b, v, c, s), c = N \/ s = t, N \in Nat
  PROVE  Lane(kd, b, v, c, t)
  BY DEF Lane

LEMMA NextPolyInv ==
  ASSUME Sampling!SizesAssumption
  PROVE  SamplingInv /\ Sampling!NextPoly => SamplingInv'
<1> SUFFICES ASSUME SamplingInv, Sampling!NextPoly PROVE SamplingInv'  OBVIOUS
<1>1. /\ UNCHANGED <<kind, build, rate, bad, squeezed, buf, buflen, a, ctr, step, stores>>
      /\ pc = "scalar" /\ pc' = "vector" /\ p' = p + 1 /\ p + 1 \in Sampling!Lanes /\ pos' = 0
      /\ Sampling!Exhausted
  BY DEF Sampling!NextPoly
<1>2. Sampling!Lanes' = Sampling!Lanes /\ Base' = Base  BY <1>1 DEF Sampling!Lanes, Base
<1>3. /\ p \in Nat /\ N \in Nat /\ squeezed \in Nat /\ buflen \in Nat /\ buflen <= squeezed /\ pos \in Nat
      /\ Sampling!Lanes \subseteq Nat /\ step = 0 /\ Base \in Nat
  BY <1>1, SamplingHolds
<1>4. build = "x4"  BY <1>1, <1>3, SamplingSizes
<1>5. ctr[p] = N \/ Base + pos = squeezed
  <2>1. Sampling!Left = 0 /\ (ctr[p] = N \/ Base + pos = squeezed - Sampling!Left)
    BY <1>1, <1>4, AtEnd
  <2> QED BY <2>1, <1>3
<1>6. ASSUME NEW l \in Sampling!Lanes
      PROVE  ctr[l] = N \/ Seen(l)' = Seen(l)
  <2>1. l < p \/ l = p \/ l = p + 1 \/ l > p + 1  BY <1>3
  <2>2. CASE l = p
    <3>1. Used(l) = Base + pos /\ Used(l)' = squeezed  BY <1>1, <1>2, <1>3, <2>2 DEF Used
    <3> QED BY <1>1, <1>5, <2>2, <3>1 DEF Seen
  <2>3. CASE l # p
    <3>1. Used(l)' = Used(l)  BY <1>1, <1>2, <1>3, <2>1, <2>3 DEF Used
    <3> QED BY <1>1, <3>1 DEF Seen
  <2> QED BY <2>2, <2>3
<1>7. \A l \in Sampling!Lanes : Lane(kind, bad[l], a'[l], ctr'[l], Seen(l)')
  <2> TAKE l \in Sampling!Lanes
  <2>1. Lane(kind, bad[l], a[l], ctr[l], Seen(l))  BY DEF SamplingInv
  <2>2. Lane(kind, bad[l], a[l], ctr[l], Seen(l)')  BY <1>3, <1>6, <2>1, FullLane
  <2> QED BY <1>1, <2>2
<1>8. (\A l \in Sampling!Lanes : Lane(kind, bad[l], a[l], ctr[l], Seen(l)))'
  <2>1. kind' = kind /\ bad' = bad  BY <1>1
  <2>2. a' = [l \in Sampling!Lanes |-> a'[l]] /\ ctr' \in [Sampling!Lanes -> Nat]
    BY <1>1 DEF SamplingInv
  <2> QED BY <1>2, <1>7, <2>1, <2>2, LanesMove
<1>9. BufferHolds'
  <2>1. 0 % 3 = 0 /\ 0 <= buflen  BY <1>3
  <2> QED BY <1>1, <1>2, <2>1 DEF SamplingInv, BufferHolds
<1>10. VectorInBuffer' /\ step' \in 0 .. 3  BY <1>1, <1>3 DEF VectorInBuffer
<1>11. (/\ \A l \in Sampling!Lanes : bad[l] \subseteq Nat /\ IsFiniteSet(bad[l])
        /\ p \in Sampling!Lanes
        /\ kind \in {"uniform", "eta"} /\ build \in {"ref", "avx2", "x4"} /\ rate \in Nat \ {0})'
  BY <1>1, <1>2 DEF SamplingInv
<1>12. (a = [l \in Sampling!Lanes |-> a[l]] /\ ctr \in [Sampling!Lanes -> Nat])'
  BY <1>1, <1>2 DEF SamplingInv
<1>13. pc' = "vector" /\ \A s \in stores' : s < N  BY <1>1 DEF SamplingInv
<1> QED BY <1>8, <1>9, <1>10, <1>11, <1>12, <1>13 DEF SamplingInv

LEMMA SqueezeInv ==
  ASSUME Sampling!SizesAssumption
  PROVE  SamplingInv /\ Sampling!Squeeze => SamplingInv'
<1> SUFFICES ASSUME SamplingInv, Sampling!Squeeze PROVE SamplingInv'  OBVIOUS
<1> DEFINE left == Sampling!Left
<1>1. /\ UNCHANGED <<kind, build, rate, bad, a, ctr, step, stores>>
      /\ pc = "scalar" /\ pc' = "vector" /\ p' = 0 /\ p + 1 \notin Sampling!Lanes /\ pos' = 0
      /\ Sampling!Exhausted
      /\ buf' = [i \in 0 .. left + rate - 1 |-> IF i < left THEN buf[buflen - left + i] ELSE squeezed + i - left]
      /\ buflen' = rate + left /\ squeezed' = squeezed + rate
  BY DEF Sampling!Squeeze
<1>2. Sampling!Lanes' = Sampling!Lanes  BY <1>1 DEF Sampling!Lanes
<1>3. /\ p \in Nat /\ N \in Nat /\ squeezed \in Nat /\ buflen \in Nat /\ buflen <= squeezed /\ pos \in Nat
      /\ Sampling!Lanes \subseteq Nat /\ step = 0 /\ rate \in Nat \ {0}
      /\ kind = "uniform" /\ build # "ref" => rate % 3 = 0 /\ squeezed % 3 = 0
      /\ buf = [i \in 0 .. buflen - 1 |-> Base + i] /\ Base = squeezed - buflen
  BY <1>1, SamplingHolds
<1>4. /\ left \in Nat /\ left <= buflen
      /\ kind = "uniform" => (squeezed - left) % 3 = 0
      /\ build = "x4" => left = 0
      /\ ctr[p] = N \/ Base + pos = squeezed - left
  BY <1>1, AtEnd
<1> HIDE DEF left
<1>5. Base' = squeezed - left  BY <1>1, <1>3, <1>4 DEF Base
<1>6. ASSUME NEW l \in Sampling!Lanes
      PROVE  ctr[l] = N \/ Seen(l)' = Seen(l)
  <2>1. l \in Nat  BY <1>3
  <2>2. ~(l > p)
    <3>1. p + 1 \in Nat  BY <1>3
    <3>2. l > p => p + 1 <= l  BY <1>3, <2>1
    <3> QED BY <3>1, <3>2, <1>1, SamplingSizes
  <2>3. Used(l)' = Base'
    <3>1. ~(l < 0)  BY <2>1
    <3>2. Base' + 0 = Base'  BY <1>3, <1>4, <1>5
    <3> QED BY <1>1, <3>1, <3>2 DEF Used
  <2>4. CASE l = p
    <3>1. Used(l) = Base + pos  BY <1>3, <2>4 DEF Used
    <3> QED BY <1>1, <1>4, <1>5, <2>3, <2>4, <3>1 DEF Seen
  <2>5. CASE l < p
    <3>1. build = "x4"  BY <2>1, <2>5, <1>3, SamplingSizes DEF SamplingInv
    <3>2. Used(l) = squeezed /\ Base' = squeezed  BY <1>3, <1>4, <1>5, <2>5, <3>1 DEF Used
    <3> QED BY <1>1, <2>3, <3>2 DEF Seen
  <2> QED BY <1>3, <2>1, <2>2, <2>4, <2>5
<1>7. \A l \in Sampling!Lanes : Lane(kind, bad[l], a'[l], ctr'[l], Seen(l)')
  <2> TAKE l \in Sampling!Lanes
  <2>1. Lane(kind, bad[l], a[l], ctr[l], Seen(l))  BY DEF SamplingInv
  <2>2. Lane(kind, bad[l], a[l], ctr[l], Seen(l)')  BY <1>3, <1>6, <2>1, FullLane
  <2> QED BY <1>1, <2>2
<1>8. (\A l \in Sampling!Lanes : Lane(kind, bad[l], a[l], ctr[l], Seen(l)))'
  <2>1. kind' = kind /\ bad' = bad  BY <1>1
  <2>2. a' = [l \in Sampling!Lanes |-> a'[l]] /\ ctr' \in [Sampling!Lanes -> Nat]
    BY <1>1 DEF SamplingInv
  <2> QED BY <1>2, <1>7, <2>1, <2>2, LanesMove
<1>9. BufferHolds'
  <2>1. buf' = [i \in 0 .. buflen' - 1 |-> Base' + i]
    <3>1. left + rate - 1 = buflen' - 1  BY <1>1, <1>3, <1>4
    <3>2. ASSUME NEW i \in 0 .. left + rate - 1
          PROVE  (IF i < left THEN buf[buflen - left + i] ELSE squeezed + i - left) = Base' + i
      <4>1. CASE i < left
        <5>1. buflen - left + i \in 0 .. buflen - 1  BY <4>1, <1>3, <1>4
        <5>2. buf[buflen - left + i] = Base + (buflen - left + i)  BY <1>3, <5>1
        <5>3. Base + (buflen - left + i) = Base' + i  BY <1>3, <1>4, <1>5
        <5> QED BY <4>1, <5>2, <5>3
      <4>2. CASE ~(i < left)
        <5>1. squeezed + i - left = Base' + i  BY <1>3, <1>4, <1>5
        <5> QED BY <4>2, <5>1
      <4> QED BY <4>1, <4>2
    <3> QED BY <1>1, <3>1, <3>2
  <2>2. squeezed' \in Nat /\ buflen' \in Nat /\ buflen' <= squeezed' /\ pos' \in Nat /\ pos' <= buflen'
    BY <1>1, <1>3, <1>4
  <2>3. kind' = "uniform" => /\ Base' % 3 = 0 /\ pos' % 3 = 0
                             /\ build' # "ref" => rate' % 3 = 0 /\ squeezed' % 3 = 0
    <3>1. kind = "uniform" => Base' % 3 = 0  BY <1>4, <1>5
    <3>2. pos' % 3 = 0  BY <1>1
    <3>3. squeezed % 3 = 0 /\ rate % 3 = 0 => (squeezed + rate) % 3 = 0  BY <1>3
    <3> QED BY <1>1, <1>3, <3>1, <3>2, <3>3
  <2> QED BY <2>1, <2>2, <2>3 DEF BufferHolds
<1>10. VectorInBuffer' /\ step' \in 0 .. 3  BY <1>1, <1>3 DEF VectorInBuffer
<1>11. (/\ \A l \in Sampling!Lanes : bad[l] \subseteq Nat /\ IsFiniteSet(bad[l])
        /\ p \in Sampling!Lanes
        /\ kind \in {"uniform", "eta"} /\ build \in {"ref", "avx2", "x4"} /\ rate \in Nat \ {0})'
  BY <1>1, <1>2, SamplingSizes DEF SamplingInv
<1>12. (a = [l \in Sampling!Lanes |-> a[l]] /\ ctr \in [Sampling!Lanes -> Nat])'
  BY <1>1, <1>2 DEF SamplingInv
<1>13. pc' = "vector" /\ \A s \in stores' : s < N  BY <1>1 DEF SamplingInv
<1> QED BY <1>8, <1>9, <1>10, <1>11, <1>12, <1>13 DEF SamplingInv

LEMMA FinishInv ==
  ASSUME Sampling!SizesAssumption
  PROVE  SamplingInv /\ Sampling!Finish => SamplingInv'
<1> SUFFICES ASSUME SamplingInv, Sampling!Finish PROVE SamplingInv'  OBVIOUS
<1>1. /\ UNCHANGED <<kind, build, rate, bad, p, squeezed, buf, buflen, a, ctr, pos, step, stores>>
      /\ pc = "scalar" /\ pc' = "done" /\ \A l \in Sampling!Lanes : ctr[l] = N
  BY DEF Sampling!Finish
<1>2. /\ Sampling!Lanes' = Sampling!Lanes /\ Base' = Base /\ step = 0
  BY <1>1, Positions DEF Sampling!Lanes, Base
<1>3. \A l \in Sampling!Lanes : Seen(l)' = Seen(l)
  BY <1>1, <1>2 DEF Seen, Used
<1>4. (\A l \in Sampling!Lanes : Lane(kind, bad[l], a[l], ctr[l], Seen(l)))'
  BY <1>1, <1>2, <1>3 DEF SamplingInv, Lane, ByRank, Cand
<1>5. BufferHolds'  BY <1>1, <1>2 DEF SamplingInv, BufferHolds
<1>6. VectorInBuffer'  BY <1>1, <1>2 DEF VectorInBuffer
<1> QED BY <1>1, <1>2, <1>4, <1>5, <1>6 DEF SamplingInv

(* Every step, of one byte or of a vector, leaves each lane with the       *)
(* accepted among the candidates it has seen.                              *)
THEOREM SamplingInductive ==
  ASSUME Sampling!SizesAssumption, Sampling!BuildsAssumption, Sampling!PatternsAssumption
  PROVE  Sampling!Spec => []SamplingInv
<1>1. SamplingInv /\ UNCHANGED Sampling!vars => SamplingInv'
  <2> SUFFICES ASSUME SamplingInv, UNCHANGED Sampling!vars PROVE SamplingInv'  OBVIOUS
  <2>1. UNCHANGED <<kind, build, rate, bad, pc, p, squeezed, buf, buflen, a, ctr, pos, step, stores>>
    BY DEF Sampling!vars
  <2>2. /\ Sampling!Lanes' = Sampling!Lanes /\ Base' = Base  BY <2>1 DEF Sampling!Lanes, Base
  <2>3. \A l \in Sampling!Lanes : Seen(l)' = Seen(l)
    BY <2>1, <2>2 DEF Seen, Used
  <2>4. (\A l \in Sampling!Lanes : Lane(kind, bad[l], a[l], ctr[l], Seen(l)))'
    BY <2>1, <2>2, <2>3 DEF SamplingInv, Lane, ByRank, Cand
  <2>5. BufferHolds'  BY <2>1, <2>2 DEF SamplingInv, BufferHolds
  <2>6. VectorInBuffer'  BY <2>1 DEF SamplingInv, VectorInBuffer
  <2> QED BY <2>1, <2>2, <2>4, <2>5, <2>6 DEF SamplingInv
<1>2. SamplingInv /\ [Sampling!Next]_Sampling!vars => SamplingInv'
  BY <1>1, VectorUniformInv, VectorEtaInv, VectorEndInv, ScalarUniformInv, ScalarEtaInv,
     NextPolyInv, SqueezeInv, FinishInv
  DEF Sampling!Next
<1> QED BY SamplingInit, <1>2, PTL DEF Sampling!Spec

(* Whatever is rejected, and however vectors, the scalar end and further   *)
(* blocks follow one another, a polynomial is made of the first N accepted *)
(* candidates of its stream, so that every build samples the same one, and *)
(* the vector code stores nothing behind it (ref/poly.c:359,               *)
(* avx2/rejsample.c:291-324).                                              *)
THEOREM FirstAreAccepted ==
  ASSUME Sampling!SizesAssumption, Sampling!BuildsAssumption, Sampling!PatternsAssumption
  PROVE  Sampling!Spec => [](Sampling!FirstAccepted /\ Sampling!StoresInBounds)
<1>1. SamplingInv => Sampling!StoresInBounds
  BY DEF SamplingInv, Sampling!StoresInBounds
<1>2. SamplingInv => Sampling!FirstAccepted
  <2> SUFFICES ASSUME SamplingInv, pc = "done", NEW l \in Sampling!Lanes, NEW k \in 0 .. N - 1
               PROVE  a[l][k] = Sampling!Nth(l, k)
    BY DEF Sampling!FirstAccepted
  <2> DEFINE b == bad[l]
             Searched == 0 .. N + Cardinality(b) - 1
             Is(c) == c \notin b /\ Cardinality((0 .. c - 1) \ b) = k
  <2>1. N \in Nat /\ b \in SUBSET Nat /\ IsFiniteSet(b) /\ ctr[l] = N
    BY SamplingSizes DEF SamplingInv
  <2>2. ByRank(kind, b, a[l], N)
    BY <2>1 DEF SamplingInv, Lane
  <2>3. PICK x \in Nat \ b : Rank(b, x) = k /\ a[l][k] = Cand(kind, x)
    BY <2>2 DEF ByRank
  <2>4. x \in Searched
    <3>1. Cardinality(b) \in Nat /\ x <= k + Cardinality(b)  BY <2>1, <2>3, RankBound
    <3> HIDE DEF b
    <3> QED BY <2>1, <3>1
  <2>5. \A c \in Searched : Is(c) => c = x
    <3> TAKE c \in Searched
    <3> HAVE Is(c)
    <3>1. c \in Nat \ b /\ Rank(b, c) = Rank(b, x)
      <4>1. c \in Nat  OBVIOUS
      <4> QED BY <4>1, <2>3 DEF Rank
    <3> HIDE DEF b, Is
    <3> QED BY <2>3, <3>1, RankUnique
  <2>6. Is(x)  BY <2>3 DEF Rank
  <2>7. (CHOOSE c \in Searched : Is(c)) = x
    <3> HIDE DEF Is, Searched
    <3> QED BY <2>4, <2>5, <2>6
  <2>8. Sampling!Nth(l, k) = Sampling!InOrder(CHOOSE c \in Searched : Is(c))
    BY DEF Sampling!Nth, Sampling!Cardinality, Cardinality
  <2>9. Sampling!InOrder(x) = Cand(kind, x)  BY DEF Sampling!InOrder, Cand
  <2> QED BY <2>3, <2>7, <2>8, <2>9
<1> QED BY <1>1, <1>2, SamplingInductive, PTL

-----------------------------------------------------------------------------
(* Both halves of the expansion: every entry of the matrix is of its own   *)
(* nonce and in place when its row is used, and the polynomial a nonce     *)
(* stands for is the same in every build.                                  *)
SamplesTheReference ==
  /\ Sampling!FirstAccepted /\ Sampling!StoresInBounds
  /\ Matrix!RowIsTheMatrix /\ Matrix!MatrixStays

(* Sampling and the expansion of A give what the reference code gives, in  *)
(* every build, for all sizes, blocks and patterns of rejected candidates  *)
(* (ref/poly.c:359, avx2/rejsample.c:291-324, avx2/polyvec.c:20-240).      *)
THEOREM SamplingIsTheReferences ==
  ASSUME Sampling!SizesAssumption, Sampling!BuildsAssumption, Sampling!PatternsAssumption
  PROVE  Sampling!Spec /\ Matrix!Spec => []SamplesTheReference
<1>1. Sampling!Spec => [](Sampling!FirstAccepted /\ Sampling!StoresInBounds)
  BY FirstAreAccepted
<1>2. Sampling!FirstAccepted /\ Sampling!StoresInBounds /\ Matrix!RowIsTheMatrix /\ Matrix!MatrixStays
        => SamplesTheReference
  BY DEF SamplesTheReference
<1> QED BY <1>1, <1>2, RowsAreTheMatrix, PTL

-----------------------------------------------------------------------------
(* The challenge (MlDsaChallenge). The invariant: the places that are set  *)
(* are those that Floyd's method draws, and lie before the coefficient to  *)
(* be filled; the bits that are left are those not yet used; and the bytes *)
(* of the block are used once each, up to the next. That every set of      *)
(* places is drawn as often as any other is counted over the sequences of  *)
(* draws: any place of the set may be the last, and for each the draws     *)
(* before it give the set without one place (WalksCount).                  *)
CONSTANTS TAU, RATE, SIGNBYTES, SIGNS, BYTE
VARIABLES filling, c, signs, uses, draws, drawn

Challenge == INSTANCE MlDsaChallenge WITH i <- filling

(* Where the filling begins.                                               *)
Lo == N - TAU

(* One draw more, and the function that Drawn defines by recursion.        *)
OneMore(set, here, b) == set \cup {IF b \in set THEN here ELSE b}
DrawnSets(d, f, n) == [k \in 0 .. n |-> IF k = 0 THEN {} ELSE OneMore(f[k - 1], Lo + k - 1, d[Lo + k - 1])]

(* The recursion of Drawn has a function.                                  *)
LEMMA SetsExist ==
  ASSUME NEW d, NEW n \in Nat
  PROVE  \E f : f = DrawnSets(d, f, n)
<1> DEFINE T == {m \in Nat : \E f : f = DrawnSets(d, f, m)}
<1>1. 0 \in T
  <2> DEFINE f == [k \in 0 .. 0 |-> {}]
  <2>1. \A k \in 0 .. 0 : k = 0  OBVIOUS
  <2>2. f = DrawnSets(d, f, 0)  BY <2>1, Zenon DEF DrawnSets
  <2> QED BY <2>2
<1>2. ASSUME NEW m \in Nat, m \in T
      PROVE  m + 1 \in T
  <2>1. PICK f : f = DrawnSets(d, f, m)  BY <1>2
  <2> DEFINE next == OneMore(f[m], Lo + (m + 1) - 1, d[Lo + (m + 1) - 1])
             g == [k \in 0 .. m + 1 |-> IF k = m + 1 THEN next ELSE f[k]]
  <2>2. \A k \in 0 .. m : f[k] = IF k = 0 THEN {} ELSE OneMore(f[k - 1], Lo + k - 1, d[Lo + k - 1])
    BY <2>1, Zenon DEF DrawnSets
  <2>3. \A k \in 0 .. m : k \in 0 .. m + 1 /\ k # m + 1  OBVIOUS
  <2>4. \A k \in 0 .. m : g[k] = f[k]  BY <2>3, Zenon
  <2>5. m + 1 \in 0 .. m + 1 /\ (m + 1) - 1 = m /\ m \in 0 .. m /\ m + 1 # 0  OBVIOUS
  <2>6. g[m + 1] = next  BY <2>5, Zenon
  <2>7. g = [k \in 0 .. m + 1 |-> g[k]]  OBVIOUS
  <2>8. \A k \in 0 .. m + 1 : k = m + 1 \/ (k \in 0 .. m /\ (k # 0 => k - 1 \in 0 .. m))  OBVIOUS
  <2> HIDE DEF g
  <2>9. \A k \in 0 .. m + 1 :
          g[k] = IF k = 0 THEN {} ELSE OneMore(g[k - 1], Lo + k - 1, d[Lo + k - 1])
    <3> TAKE k \in 0 .. m + 1
    <3>1. CASE k = m + 1
      <4>1. g[k - 1] = f[m]  BY <2>4, <2>5, <3>1, Zenon
      <4> QED BY <2>5, <2>6, <3>1, <4>1, Zenon
    <3>2. CASE k # m + 1
      <4>1. k \in 0 .. m /\ (k # 0 => k - 1 \in 0 .. m)  BY <2>8, <3>2, Zenon
      <4>2. k # 0 => g[k - 1] = f[k - 1]  BY <2>4, <4>1, Zenon
      <4> QED BY <2>2, <2>4, <4>1, <4>2, Zenon
    <3> QED BY <3>1, <3>2
  <2>10. g = DrawnSets(d, g, m + 1)  BY <2>7, <2>9, Zenon DEF DrawnSets
  <2> QED BY <2>10
<1> HIDE DEF T
<1>3. Nat \subseteq T  BY <1>1, <1>2, Induction
<1> QED BY <1>3 DEF T

(* Drawn, from the first draw on.                                          *)
LEMMA DrawnBegins ==
  ASSUME Challenge!SizesAssumption, NEW d
  PROVE  /\ Challenge!Drawn(d, 0) = {}
         /\ \A n \in 0 .. TAU - 1 :
              Challenge!Drawn(d, n + 1) = OneMore(Challenge!Drawn(d, n), Lo + n, d[Lo + n])
<1> DEFINE f == CHOOSE f : f = DrawnSets(d, f, TAU)
<1>1. TAU \in Nat /\ N \in Nat  BY DEF Challenge!SizesAssumption
<1>2. f = DrawnSets(d, f, TAU)  BY <1>1, SetsExist, Zenon
<1>3. \A n : Challenge!Drawn(d, n) = f[n]
  BY Zenon DEF Challenge!Drawn, DrawnSets, OneMore, Lo
<1> HIDE DEF f
<1>4. \A k \in 0 .. TAU : f[k] = IF k = 0 THEN {} ELSE OneMore(f[k - 1], Lo + k - 1, d[Lo + k - 1])
  BY <1>2, Zenon DEF DrawnSets
<1>5. f[0] = {}
  <2>1. 0 \in 0 .. TAU  BY <1>1
  <2> QED BY <1>4, <2>1, Zenon
<1>6. ASSUME NEW n \in 0 .. TAU - 1
      PROVE  f[n + 1] = OneMore(f[n], Lo + n, d[Lo + n])
  <2>1. n + 1 \in 0 .. TAU /\ n + 1 # 0 /\ (n + 1) - 1 = n  BY <1>1
  <2>2. Lo + (n + 1) - 1 = Lo + n  BY <1>1 DEF Lo
  <2> QED BY <1>4, <2>1, <2>2, Zenon
<1> QED BY <1>3, <1>5, <1>6, Zenon

(* Only the draws so far count.                                            *)
LEMMA DrawnAgree ==
  ASSUME Challenge!SizesAssumption, NEW d, NEW e, NEW n \in 0 .. TAU,
         \A k \in 0 .. n - 1 : d[Lo + k] = e[Lo + k]
  PROVE  Challenge!Drawn(d, n) = Challenge!Drawn(e, n)
<1> DEFINE T == {m \in Nat : m <= n => Challenge!Drawn(d, m) = Challenge!Drawn(e, m)}
<1>1. TAU \in Nat /\ N \in Nat  BY DEF Challenge!SizesAssumption
<1>2. 0 \in T  BY DrawnBegins
<1>3. ASSUME NEW m \in Nat, m \in T
      PROVE  m + 1 \in T
  <2> SUFFICES ASSUME m + 1 <= n
               PROVE  Challenge!Drawn(d, m + 1) = Challenge!Drawn(e, m + 1)
    OBVIOUS
  <2>1. m \in 0 .. TAU - 1 /\ m \in 0 .. n - 1 /\ m <= n  BY <1>1
  <2>2. Challenge!Drawn(d, m) = Challenge!Drawn(e, m)  BY <1>3, <2>1
  <2>3. d[Lo + m] = e[Lo + m]  BY <2>1, Zenon
  <2> QED BY <2>1, <2>2, <2>3, DrawnBegins, Zenon
<1> HIDE DEF T
<1>4. Nat \subseteq T  BY <1>2, <1>3, Induction
<1> QED BY <1>4 DEF T
(* The sequences of n draws that give the set S.                           *)
Walk(d, n) ==
  /\ d \in [Lo .. Lo + n - 1 -> 0 .. N - 1]
  /\ \A x \in Lo .. Lo + n - 1 : d[x] <= x
Walks(n, S) == {d \in [Lo .. Lo + n - 1 -> 0 .. N - 1] : Walk(d, n) /\ Challenge!Drawn(d, n) = S}

(* The set before the last draw, when that is x.                           *)
Before(S, n, x) == S \ {IF Lo + n \in S THEN Lo + n ELSE x}
Cut(d, n) == [y \in Lo .. Lo + n - 1 |-> d[y]]
Extended(e, n, x) == [y \in Lo .. Lo + (n + 1) - 1 |-> IF y = Lo + n THEN x ELSE e[y]]

LEMMA ChallengeSizes ==
  ASSUME Challenge!SizesAssumption
  PROVE  N \in Nat /\ TAU \in Nat /\ Lo \in Nat /\ N = Lo + TAU /\ TAU > 0
  BY DEF Challenge!SizesAssumption, Lo

LEMMA WalkIsShorter ==
  ASSUME Challenge!SizesAssumption, NEW n \in 0 .. TAU - 1, NEW d, Walk(d, n + 1)
  PROVE  /\ Walk(Cut(d, n), n) /\ d[Lo + n] \in 0 .. Lo + n
         /\ Challenge!Drawn(Cut(d, n), n) = Challenge!Drawn(d, n)
         /\ d = Extended(Cut(d, n), n, d[Lo + n])
<1>1. N \in Nat /\ TAU \in Nat /\ Lo \in Nat /\ N = Lo + TAU /\ TAU > 0  BY ChallengeSizes
<1>2. /\ \A y \in Lo .. Lo + n - 1 : y \in Lo .. Lo + (n + 1) - 1 /\ y # Lo + n
      /\ \A y \in Lo .. Lo + (n + 1) - 1 : y = Lo + n \/ y \in Lo .. Lo + n - 1
      /\ Lo + n \in Lo .. Lo + (n + 1) - 1
  BY <1>1
<1>3. /\ d = [y \in Lo .. Lo + (n + 1) - 1 |-> d[y]]
      /\ \A y \in Lo .. Lo + (n + 1) - 1 : d[y] \in 0 .. N - 1 /\ d[y] <= y
  BY Zenon DEF Walk
<1>4. \A y \in Lo .. Lo + n - 1 : Cut(d, n)[y] = d[y]  BY Zenon DEF Cut
<1>5. Walk(Cut(d, n), n)
  <2>1. \A y \in Lo .. Lo + n - 1 : d[y] \in 0 .. N - 1 /\ Cut(d, n)[y] <= y
    BY <1>2, <1>3, <1>4, Zenon
  <2> QED BY <2>1, Zenon DEF Walk, Cut
<1>6. d[Lo + n] \in 0 .. Lo + n
  <2>1. d[Lo + n] \in 0 .. N - 1 /\ d[Lo + n] <= Lo + n  BY <1>2, <1>3, Zenon
  <2> QED BY <1>1, <2>1
<1>7. Challenge!Drawn(Cut(d, n), n) = Challenge!Drawn(d, n)
  <2>1. \A k \in 0 .. n - 1 : Lo + k \in Lo .. Lo + n - 1  BY <1>1
  <2>2. \A k \in 0 .. n - 1 : Cut(d, n)[Lo + k] = d[Lo + k]  BY <1>4, <2>1, Zenon
  <2>3. n \in 0 .. TAU  BY <1>1
  <2> QED BY <2>2, <2>3, DrawnAgree, Zenon
<1>8. d = Extended(Cut(d, n), n, d[Lo + n])
  <2>1. \A y \in Lo .. Lo + (n + 1) - 1 : d[y] = IF y = Lo + n THEN d[Lo + n] ELSE Cut(d, n)[y]
    BY <1>2, <1>4, Zenon
  <2> QED BY <1>3, <2>1, Zenon DEF Extended
<1> QED BY <1>5, <1>6, <1>7, <1>8

LEMMA WalkIsLonger ==
  ASSUME Challenge!SizesAssumption, NEW n \in 0 .. TAU - 1, NEW e, Walk(e, n), NEW x \in 0 .. Lo + n
  PROVE  /\ Walk(Extended(e, n, x), n + 1) /\ Extended(e, n, x)[Lo + n] = x
         /\ Cut(Extended(e, n, x), n) = e
<1>1. N \in Nat /\ TAU \in Nat /\ Lo \in Nat /\ N = Lo + TAU /\ TAU > 0  BY ChallengeSizes
<1>2. /\ \A y \in Lo .. Lo + n - 1 : y \in Lo .. Lo + (n + 1) - 1 /\ y # Lo + n
      /\ \A y \in Lo .. Lo + (n + 1) - 1 : y = Lo + n \/ y \in Lo .. Lo + n - 1
      /\ Lo + n \in Lo .. Lo + (n + 1) - 1
  BY <1>1
<1>3. /\ e = [y \in Lo .. Lo + n - 1 |-> e[y]]
      /\ \A y \in Lo .. Lo + n - 1 : e[y] \in 0 .. N - 1 /\ e[y] <= y
  BY Zenon DEF Walk
<1> DEFINE d == Extended(e, n, x)
<1>4. \A y \in Lo .. Lo + (n + 1) - 1 : d[y] = IF y = Lo + n THEN x ELSE e[y]  BY Zenon DEF Extended
<1>5. d = [y \in Lo .. Lo + (n + 1) - 1 |-> d[y]]  BY DEF Extended
<1>6. x \in 0 .. N - 1 /\ x <= Lo + n  BY <1>1
<1> HIDE DEF d
<1>7. \A y \in Lo .. Lo + (n + 1) - 1 : d[y] \in 0 .. N - 1 /\ d[y] <= y
  <2> TAKE y \in Lo .. Lo + (n + 1) - 1
  <2>1. CASE y = Lo + n  BY <1>4, <1>6, <2>1, Zenon
  <2>2. CASE y # Lo + n
    <3>1. y \in Lo .. Lo + n - 1  BY <1>2, <2>2, Zenon
    <3> QED BY <1>3, <1>4, <2>2, <3>1, Zenon
  <2> QED BY <2>1, <2>2
<1>8. d \in [Lo .. Lo + (n + 1) - 1 -> 0 .. N - 1]  BY <1>5, <1>7, Zenon
<1>9. Walk(d, n + 1)  BY <1>7, <1>8, Zenon DEF Walk
<1>10. d[Lo + n] = x  BY <1>2, <1>4, Zenon
<1>11. Cut(d, n) = e
  <2>1. \A y \in Lo .. Lo + n - 1 : d[y] = e[y]  BY <1>2, <1>4, Zenon
  <2> QED BY <1>3, <2>1, Zenon DEF Cut
<1> QED BY <1>9, <1>10, <1>11 DEF d

LEMMA DrawnFits ==
  ASSUME Challenge!SizesAssumption, NEW n \in 0 .. TAU, NEW d, Walk(d, n)
  PROVE  Challenge!Drawn(d, n) \subseteq 0 .. Lo + n - 1
<1> DEFINE T == {m \in Nat : m <= n => Challenge!Drawn(d, m) \subseteq 0 .. Lo + m - 1}
<1>1. N \in Nat /\ TAU \in Nat /\ Lo \in Nat /\ N = Lo + TAU /\ TAU > 0  BY ChallengeSizes
<1>2. 0 \in T  BY DrawnBegins
<1>3. ASSUME NEW m \in Nat, m \in T
      PROVE  m + 1 \in T
  <2> SUFFICES ASSUME m + 1 <= n
               PROVE  Challenge!Drawn(d, m + 1) \subseteq 0 .. Lo + (m + 1) - 1
    OBVIOUS
  <2>1. m \in 0 .. TAU - 1 /\ m <= n /\ Lo + m \in Lo .. Lo + n - 1  BY <1>1
  <2>2. Challenge!Drawn(d, m) \subseteq 0 .. Lo + m - 1  BY <1>3, <2>1
  <2>3. d[Lo + m] \in 0 .. Lo + m
    <3>1. d[Lo + m] \in 0 .. N - 1 /\ d[Lo + m] <= Lo + m  BY <2>1, Zenon DEF Walk
    <3> QED BY <1>1, <3>1
  <2>4. Challenge!Drawn(d, m + 1) = OneMore(Challenge!Drawn(d, m), Lo + m, d[Lo + m])
    BY <2>1, DrawnBegins, Zenon
  <2>5. OneMore(Challenge!Drawn(d, m), Lo + m, d[Lo + m]) \subseteq Challenge!Drawn(d, m) \cup {Lo + m, d[Lo + m]}
    BY Zenon DEF OneMore
  <2>6. 0 .. Lo + m - 1 \subseteq 0 .. Lo + (m + 1) - 1 /\ Lo + m \in 0 .. Lo + (m + 1) - 1
        /\ \A y \in 0 .. Lo + m : y \in 0 .. Lo + (m + 1) - 1
    BY <1>1
  <2>7. d[Lo + m] \in 0 .. Lo + (m + 1) - 1  BY <2>3, <2>6, Zenon
  <2> SUFFICES ASSUME NEW y \in Challenge!Drawn(d, m + 1)
               PROVE  y \in 0 .. Lo + (m + 1) - 1
    BY Zenon
  <2>8. y \in Challenge!Drawn(d, m) \/ y = Lo + m \/ y = d[Lo + m]  BY <2>4, <2>5, Zenon
  <2> QED BY <2>2, <2>6, <2>7, <2>8, Zenon
<1> HIDE DEF T
<1>4. Nat \subseteq T  BY <1>2, <1>3, Induction
<1>5. n \in T /\ n <= n  BY <1>4
<1> QED BY <1>5 DEF T

(* The last draw is in the set, and tells what was there before it.        *)
LEMMA LastDraw ==
  ASSUME Challenge!SizesAssumption, NEW n \in 0 .. TAU - 1, NEW d, Walk(d, n + 1),
         NEW S, S = Challenge!Drawn(d, n + 1)
  PROVE  d[Lo + n] \in S /\ Challenge!Drawn(d, n) = Before(S, n, d[Lo + n])
<1> DEFINE A == Challenge!Drawn(d, n)
           here == Lo + n
           x == d[Lo + n]
<1>1. A \subseteq 0 .. Lo + n - 1
  <2>1. Walk(Cut(d, n), n) /\ Challenge!Drawn(Cut(d, n), n) = A  BY WalkIsShorter
  <2>2. n \in 0 .. TAU  BY ChallengeSizes
  <2> QED BY <2>1, <2>2, DrawnFits
<1>2. here \notin A
  <2>1. ~ (here \in 0 .. Lo + n - 1)  BY ChallengeSizes
  <2> QED BY <1>1, <2>1, Zenon
<1>3. S = A \cup {IF x \in A THEN here ELSE x}  BY DrawnBegins, Zenon DEF OneMore
<1> HIDE DEF A, here, x
<1>4. x \in S /\ A = S \ {IF here \in S THEN here ELSE x}
  <2>1. CASE x \in A  BY <1>2, <1>3, <2>1
  <2>2. CASE x \notin A  BY <1>2, <1>3, <2>2
  <2> QED BY <2>1, <2>2
<1> QED BY <1>4 DEF Before, A, here, x

(* From what was there before it, the last draw makes the set again.       *)
LEMMA DrawsAgain ==
  ASSUME Challenge!SizesAssumption, NEW n \in 0 .. TAU - 1, NEW d, Walk(d, n + 1),
         NEW S, S \subseteq 0 .. Lo + n, d[Lo + n] \in S, Challenge!Drawn(d, n) = Before(S, n, d[Lo + n])
  PROVE  Challenge!Drawn(d, n + 1) = S
<1> DEFINE A == Challenge!Drawn(d, n)
           here == Lo + n
           x == d[Lo + n]
<1>1. Challenge!Drawn(d, n + 1) = A \cup {IF x \in A THEN here ELSE x}
  BY DrawnBegins, Zenon DEF OneMore
<1>2. A = S \ {IF here \in S THEN here ELSE x} /\ x \in S  BY DEF Before
<1> HIDE DEF A, here, x
<1>3. CASE here \in S  BY <1>1, <1>2, <1>3
<1>4. CASE here \notin S  BY <1>1, <1>2, <1>4
<1> QED BY <1>3, <1>4
FactorialStep(f, n) == [k \in 0 .. n |-> IF k = 0 THEN 1 ELSE k * f[k - 1]]

LEMMA FactorialExists ==
  ASSUME NEW n \in Nat
  PROVE  \E f : f = FactorialStep(f, n)
<1> DEFINE T == {m \in Nat : \E f : f = FactorialStep(f, m)}
<1>1. 0 \in T
  <2> DEFINE f == [k \in 0 .. 0 |-> 1]
  <2>1. \A k \in 0 .. 0 : k = 0  OBVIOUS
  <2>2. f = FactorialStep(f, 0)  BY <2>1, Zenon DEF FactorialStep
  <2> QED BY <2>2
<1>2. ASSUME NEW m \in Nat, m \in T
      PROVE  m + 1 \in T
  <2>1. PICK f : f = FactorialStep(f, m)  BY <1>2
  <2> DEFINE next == (m + 1) * f[m]
             g == [k \in 0 .. m + 1 |-> IF k = m + 1 THEN next ELSE f[k]]
  <2>2. \A k \in 0 .. m : f[k] = IF k = 0 THEN 1 ELSE k * f[k - 1]  BY <2>1, Zenon DEF FactorialStep
  <2>3. \A k \in 0 .. m : k \in 0 .. m + 1 /\ k # m + 1  OBVIOUS
  <2>4. \A k \in 0 .. m : g[k] = f[k]  BY <2>3, Zenon
  <2>5. m + 1 \in 0 .. m + 1 /\ (m + 1) - 1 = m /\ m \in 0 .. m /\ m + 1 # 0  OBVIOUS
  <2>6. g[m + 1] = next  BY <2>5, Zenon
  <2>7. g = [k \in 0 .. m + 1 |-> g[k]]  OBVIOUS
  <2>8. \A k \in 0 .. m + 1 : k = m + 1 \/ (k \in 0 .. m /\ (k # 0 => k - 1 \in 0 .. m))  OBVIOUS
  <2> HIDE DEF g
  <2>9. \A k \in 0 .. m + 1 : g[k] = IF k = 0 THEN 1 ELSE k * g[k - 1]
    <3> TAKE k \in 0 .. m + 1
    <3>1. CASE k = m + 1
      <4>1. g[k - 1] = f[m]  BY <2>4, <2>5, <3>1, Zenon
      <4> QED BY <2>5, <2>6, <3>1, <4>1, Zenon
    <3>2. CASE k # m + 1
      <4>1. k \in 0 .. m /\ (k # 0 => k - 1 \in 0 .. m)  BY <2>8, <3>2, Zenon
      <4>2. k # 0 => g[k - 1] = f[k - 1]  BY <2>4, <4>1, Zenon
      <4> QED BY <2>2, <2>4, <4>1, <4>2, Zenon
    <3> QED BY <3>1, <3>2
  <2>10. g = FactorialStep(g, m + 1)  BY <2>7, <2>9, Zenon DEF FactorialStep
  <2> QED BY <2>10
<1> HIDE DEF T
<1>3. Nat \subseteq T  BY <1>1, <1>2, Induction
<1> QED BY <1>3 DEF T

IsFactorial(f) == f[0] = 1 /\ \A n \in 0 .. TAU - 1 : f[n + 1] = (n + 1) * f[n]

LEMMA PermutationsAre ==
  ASSUME Challenge!SizesAssumption
  PROVE  \E f : IsFactorial(f) /\ Challenge!Orders = f[TAU]
<1> DEFINE f == CHOOSE f : f = FactorialStep(f, TAU)
<1>1. TAU \in Nat  BY ChallengeSizes
<1>2. f = FactorialStep(f, TAU)  BY <1>1, FactorialExists, Zenon
<1>3. Challenge!Orders = f[TAU]  BY Zenon DEF Challenge!Orders, FactorialStep
<1> HIDE DEF f
<1>4. \A k \in 0 .. TAU : f[k] = IF k = 0 THEN 1 ELSE k * f[k - 1]  BY <1>2, Zenon DEF FactorialStep
<1>5. f[0] = 1
  <2>1. 0 \in 0 .. TAU  BY <1>1
  <2> QED BY <1>4, <2>1, Zenon
<1>6. ASSUME NEW n \in 0 .. TAU - 1
      PROVE  f[n + 1] = (n + 1) * f[n]
  <2>1. n + 1 \in 0 .. TAU /\ n + 1 # 0 /\ (n + 1) - 1 = n  BY <1>1
  <2> QED BY <1>4, <2>1, Zenon
<1> QED BY <1>3, <1>5, <1>6, Zenon DEF IsFactorial

(* How the last draw and those before it make up a sequence.               *)
Numbered(S, n, count) ==
  [x \in S |-> CHOOSE h : h \in Bijection(Walks(n, Before(S, n, x)), 1 .. count)]
Pairing(S, n, H) == [d \in Walks(n + 1, S) |-> <<d[Lo + n], H[d[Lo + n]][Cut(d, n)]>>]

LEMMA IsPair ==
  ASSUME NEW A, NEW B, NEW x \in A, NEW y \in B
  PROVE  <<x, y>> \in A \X B
OBVIOUS

(* A sequence of n+1 draws is its last draw and one of those before it.    *)
LEMMA PairingIsBijective ==
  ASSUME Challenge!SizesAssumption, NEW n \in 0 .. TAU - 1, NEW S, S \subseteq 0 .. Lo + n, NEW count,
         NEW H, \A x \in S : H[x] \in Bijection(Walks(n, Before(S, n, x)), 1 .. count)
  PROVE  Pairing(S, n, H) \in Bijection(Walks(n + 1, S), S \X (1 .. count))
<1> DEFINE W == Walks(n + 1, S)
           P == Pairing(S, n, H)
<1>1. ASSUME NEW d \in W
      PROVE  /\ d[Lo + n] \in S /\ Cut(d, n) \in Walks(n, Before(S, n, d[Lo + n]))
             /\ d = Extended(Cut(d, n), n, d[Lo + n])
  <2>1. Walk(d, n + 1) /\ Challenge!Drawn(d, n + 1) = S  BY Zenon DEF Walks
  <2>2. /\ Walk(Cut(d, n), n) /\ Challenge!Drawn(Cut(d, n), n) = Challenge!Drawn(d, n)
        /\ d = Extended(Cut(d, n), n, d[Lo + n])
    BY <2>1, WalkIsShorter, Zenon
  <2>3. d[Lo + n] \in S /\ Challenge!Drawn(d, n) = Before(S, n, d[Lo + n])  BY <2>1, LastDraw, Zenon
  <2>4. Cut(d, n) \in Walks(n, Before(S, n, d[Lo + n]))  BY <2>2, <2>3, Zenon DEF Walks, Walk
  <2> QED BY <2>2, <2>3, <2>4
<1>2. ASSUME NEW x \in S, NEW e \in Walks(n, Before(S, n, x))
      PROVE  Extended(e, n, x) \in W /\ Extended(e, n, x)[Lo + n] = x /\ Cut(Extended(e, n, x), n) = e
  <2> DEFINE d == Extended(e, n, x)
  <2>1. Walk(e, n) /\ Challenge!Drawn(e, n) = Before(S, n, x)  BY Zenon DEF Walks
  <2>2. x \in 0 .. Lo + n  OBVIOUS
  <2>3. Walk(d, n + 1) /\ d[Lo + n] = x /\ Cut(d, n) = e  BY <2>1, <2>2, WalkIsLonger, Zenon
  <2> HIDE DEF d
  <2>4. Challenge!Drawn(Cut(d, n), n) = Challenge!Drawn(d, n)  BY <2>3, WalkIsShorter, Zenon
  <2>5. Challenge!Drawn(d, n) = Before(S, n, d[Lo + n]) /\ d[Lo + n] \in S
    BY <2>1, <2>3, <2>4, Zenon
  <2>6. Challenge!Drawn(d, n + 1) = S  BY <2>3, <2>5, DrawsAgain, Zenon
  <2>7. d \in W  BY <2>3, <2>6, Zenon DEF Walks, Walk
  <2> QED BY <2>3, <2>7 DEF d
<1>3. ASSUME NEW x \in S
      PROVE  /\ H[x] \in [Walks(n, Before(S, n, x)) -> 1 .. count]
             /\ \A d, e \in Walks(n, Before(S, n, x)) : H[x][d] = H[x][e] => d = e
             /\ \A k \in 1 .. count : \E d \in Walks(n, Before(S, n, x)) : H[x][d] = k
  BY Zenon DEF Bijection, Injection, Surjection, IsInjective
<1> HIDE DEF W
<1>4. \A d \in W : P[d] = <<d[Lo + n], H[d[Lo + n]][Cut(d, n)]>>  BY Zenon DEF Pairing, W
<1>5. P = [d \in W |-> P[d]]  BY DEF Pairing, W
<1> HIDE DEF P
<1>6. P \in [W -> S \X (1 .. count)]
  <2>1. ASSUME NEW d \in W PROVE P[d] \in S \X (1 .. count)
    <3>1. d[Lo + n] \in S /\ Cut(d, n) \in Walks(n, Before(S, n, d[Lo + n]))  BY <1>1, Zenon
    <3>2. H[d[Lo + n]] \in [Walks(n, Before(S, n, d[Lo + n])) -> 1 .. count]  BY <1>3, <3>1, Zenon
    <3>3. H[d[Lo + n]][Cut(d, n)] \in 1 .. count  BY <3>1, <3>2, Zenon
    <3>4. P[d] = <<d[Lo + n], H[d[Lo + n]][Cut(d, n)]>>  BY <1>4, Zenon
    <3>5. <<d[Lo + n], H[d[Lo + n]][Cut(d, n)]>> \in S \X (1 .. count)  BY <3>1, <3>3, IsPair
    <3> QED BY <3>4, <3>5, Zenon
  <2> QED BY <1>5, <2>1, Zenon
<1>7. ASSUME NEW d \in W, NEW e \in W, P[d] = P[e]
      PROVE  d = e
  <2>1. d[Lo + n] = e[Lo + n] /\ H[d[Lo + n]][Cut(d, n)] = H[e[Lo + n]][Cut(e, n)]  BY <1>4, <1>7
  <2>2. Cut(d, n) = Cut(e, n)  BY <1>1, <1>3, <2>1, Zenon
  <2> QED BY <1>1, <2>1, <2>2, Zenon
<1>8. ASSUME NEW t \in S \X (1 .. count)
      PROVE  \E d \in W : P[d] = t
  <2>1. t[1] \in S /\ t[2] \in 1 .. count /\ t = <<t[1], t[2]>>  OBVIOUS
  <2>2. PICK e \in Walks(n, Before(S, n, t[1])) : H[t[1]][e] = t[2]  BY <1>3, <2>1, Zenon
  <2>3. Extended(e, n, t[1]) \in W /\ Extended(e, n, t[1])[Lo + n] = t[1] /\ Cut(Extended(e, n, t[1]), n) = e
    BY <1>2, <2>1, Zenon
  <2>4. P[Extended(e, n, t[1])] = <<t[1], t[2]>>  BY <1>4, <2>2, <2>3, Zenon
  <2> QED BY <2>1, <2>3, <2>4, Zenon
<1>9. P \in Bijection(W, S \X (1 .. count))  BY <1>6, <1>7, <1>8, Fun_IsBij, Zenon
<1> QED BY <1>9 DEF P, W
LEMMA CountUpTo ==
  ASSUME NEW n \in Nat
  PROVE  IsFiniteSet(1 .. n) /\ Cardinality(1 .. n) = n
<1>1. 1 \in Int /\ n \in Int  OBVIOUS
<1>2. IsFiniteSet(1 .. n) /\ Cardinality(1 .. n) = (IF 1 > n THEN 0 ELSE (n - 1) + 1)
  BY <1>1, FS_Interval
<1>3. (IF 1 > n THEN 0 ELSE (n - 1) + 1) = n  OBVIOUS
<1> QED BY <1>2, <1>3

LEMMA BeforeIsSmaller ==
  ASSUME Challenge!SizesAssumption, NEW n \in 0 .. TAU - 1, NEW S, S \subseteq 0 .. Lo + n,
         IsFiniteSet(S), Cardinality(S) = n + 1, NEW x \in S
  PROVE  /\ Before(S, n, x) \subseteq 0 .. Lo + n - 1
         /\ IsFiniteSet(Before(S, n, x)) /\ Cardinality(Before(S, n, x)) = n
<1> DEFINE gone == IF Lo + n \in S THEN Lo + n ELSE x
<1>1. gone \in S /\ (Lo + n \in S => gone = Lo + n)  OBVIOUS
<1>2. Before(S, n, x) = S \ {gone}  BY Zenon DEF Before
<1> HIDE DEF gone
<1>3. IsFiniteSet(S \ {gone}) /\ Cardinality(S \ {gone}) = Cardinality(S) - 1
  BY <1>1, FS_RemoveElement
<1>4. S \ {gone} \subseteq 0 .. Lo + n - 1
  <2>1. Lo \in Nat /\ n \in Nat  BY ChallengeSizes
  <2>2. \A y \in 0 .. Lo + n : y # Lo + n => y \in 0 .. Lo + n - 1  BY <2>1
  <2>3. \A y \in S \ {gone} : y # Lo + n  BY <1>1
  <2> QED BY <2>2, <2>3
<1>5. (n + 1) - 1 = n  BY ChallengeSizes
<1> QED BY <1>2, <1>3, <1>4, <1>5

(* As many sequences of n draws give a set of n places as there are        *)
(* permutations of n: the last draw is any of them, and for each of them   *)
(* the draws before it give the set without one.                           *)
LEMMA WalksCount ==
  ASSUME Challenge!SizesAssumption, NEW f, IsFactorial(f)
  PROVE  \A n \in 0 .. TAU : \A S \in SUBSET (0 .. Lo + n - 1) :
           IsFiniteSet(S) /\ Cardinality(S) = n =>
             f[n] \in Nat /\ IsFiniteSet(Walks(n, S)) /\ Cardinality(Walks(n, S)) = f[n]
<1> DEFINE Counts(n, S) == f[n] \in Nat /\ IsFiniteSet(Walks(n, S)) /\ Cardinality(Walks(n, S)) = f[n]
           T == {m \in Nat : m <= TAU => f[m] \in Nat /\ \A S \in SUBSET (0 .. Lo + m - 1) :
                               IsFiniteSet(S) /\ Cardinality(S) = m => Counts(m, S)}
<1>1. N \in Nat /\ TAU \in Nat /\ Lo \in Nat /\ N = Lo + TAU /\ TAU > 0  BY ChallengeSizes
<1>2. 0 \in T
  <2>1. f[0] = 1  BY DEF IsFactorial
  <2> SUFFICES ASSUME NEW S, IsFiniteSet(S), Cardinality(S) = 0
               PROVE  IsFiniteSet(Walks(0, S)) /\ Cardinality(Walks(0, S)) = 1
    BY <2>1
  <2>2. S = {}  BY FS_EmptySet
  <2> DEFINE empty == [y \in Lo .. Lo + 0 - 1 |-> 0]
  <2>3. Lo .. Lo + 0 - 1 = {}  BY <1>1
  <2>4. \A d \in [Lo .. Lo + 0 - 1 -> 0 .. N - 1] : d = empty  BY <2>3
  <2>5. empty \in [Lo .. Lo + 0 - 1 -> 0 .. N - 1]  BY <2>3
  <2>6. Walk(empty, 0)  BY <2>3, <2>5 DEF Walk
  <2>7. Challenge!Drawn(empty, 0) = S  BY <2>2, DrawnBegins
  <2> HIDE DEF empty
  <2>8. Walks(0, S) = {empty}  BY <2>4, <2>5, <2>6, <2>7, Zenon DEF Walks
  <2> QED BY <2>8, FS_Singleton
<1>3. ASSUME NEW n \in Nat, n \in T
      PROVE  n + 1 \in T
  <2> SUFFICES ASSUME n + 1 <= TAU
               PROVE  f[n + 1] \in Nat /\ \A S \in SUBSET (0 .. Lo + (n + 1) - 1) :
                               IsFiniteSet(S) /\ Cardinality(S) = n + 1 => Counts(n + 1, S)
    OBVIOUS
  <2>1. n \in 0 .. TAU - 1 /\ n <= TAU /\ Lo + (n + 1) - 1 = Lo + n  BY <1>1
  <2>2. f[n] \in Nat  BY <1>3, <2>1
  <2>3. f[n + 1] = (n + 1) * f[n]  BY <2>1, Zenon DEF IsFactorial
  <2>4. f[n + 1] \in Nat  BY <2>2, <2>3
  <2> SUFFICES ASSUME NEW S \in SUBSET (0 .. Lo + (n + 1) - 1), IsFiniteSet(S), Cardinality(S) = n + 1
               PROVE  Counts(n + 1, S)
    BY <2>4
  <2>5. S \subseteq 0 .. Lo + n  BY <2>1
  <2> DEFINE H == Numbered(S, n, f[n])
  <2>6. ASSUME NEW x \in S
        PROVE  H[x] \in Bijection(Walks(n, Before(S, n, x)), 1 .. f[n])
    <3> DEFINE W == Walks(n, Before(S, n, x))
    <3>1. IsFiniteSet(W) /\ Cardinality(W) = f[n]
      <4>1. /\ Before(S, n, x) \subseteq 0 .. Lo + n - 1
            /\ IsFiniteSet(Before(S, n, x)) /\ Cardinality(Before(S, n, x)) = n
        BY <2>1, <2>5, BeforeIsSmaller
      <4> QED BY <1>3, <2>1, <4>1
    <3> HIDE DEF W
    <3>2. ExistsBijection(1 .. f[n], W)  BY <3>1, FS_CardinalityType
    <3>3. ExistsBijection(W, 1 .. f[n])  BY <3>2, Fun_ExistsBijSymmetric
    <3>4. \E h : h \in Bijection(W, 1 .. f[n])  BY <3>3 DEF ExistsBijection
    <3>5. H[x] = CHOOSE h : h \in Bijection(W, 1 .. f[n])  BY Zenon DEF Numbered, W
    <3> QED BY <3>4, <3>5, Zenon DEF W
  <2> HIDE DEF H
  <2>7. ExistsBijection(Walks(n + 1, S), S \X (1 .. f[n]))
    <3>1. Pairing(S, n, H) \in Bijection(Walks(n + 1, S), S \X (1 .. f[n]))
      BY <2>1, <2>5, <2>6, PairingIsBijective
    <3> QED BY <3>1, Zenon DEF ExistsBijection
  <2>8. ExistsBijection(S \X (1 .. f[n]), Walks(n + 1, S))  BY <2>7, Fun_ExistsBijSymmetric
  <2>9. IsFiniteSet(1 .. f[n]) /\ Cardinality(1 .. f[n]) = f[n]
    BY <2>2, CountUpTo
  <2>10. /\ IsFiniteSet(S \X (1 .. f[n]))
         /\ Cardinality(S \X (1 .. f[n])) = Cardinality(S) * Cardinality(1 .. f[n])
    BY <2>9, FS_Product
  <2>11. /\ IsFiniteSet(Walks(n + 1, S))
         /\ Cardinality(Walks(n + 1, S)) = Cardinality(S \X (1 .. f[n]))
    BY <2>8, <2>10, FS_Bijection
  <2> QED BY <2>3, <2>4, <2>9, <2>10, <2>11, Zenon
<1> HIDE DEF T
<1>4. Nat \subseteq T  BY <1>2, <1>3, Induction
<1>5. ASSUME NEW n \in 0 .. TAU, NEW S \in SUBSET (0 .. Lo + n - 1), IsFiniteSet(S), Cardinality(S) = n
      PROVE  Counts(n, S)
  <2>1. n \in T /\ n <= TAU  BY <1>1, <1>4
  <2> QED BY <1>5, <2>1 DEF T
<1> QED BY <1>5, Zenon
(* What putting one coefficient in does to the places and to the signs.    *)
PlacesOf(f) == {j \in 0 .. N - 1 : f[j] # 0}
MinusOf(f) == {j \in 0 .. N - 1 : f[j] = -1}
Ternaries == [0 .. N - 1 -> {-1, 0, 1}]
Bits == [0 .. SIGNS - 1 -> {0, 1}]
SetBits(bits, n) == {k \in 0 .. n - 1 : bits[k] = 1}
MinusAt(sign, b) == IF sign = -1 THEN {b} ELSE {}
Inserted(old, here, b, sign) == [[old EXCEPT ![here] = old[b]] EXCEPT ![b] = sign]
Moved(set, here, b) == IF b \in set THEN (set \ {b}) \cup {here} ELSE set

InsertFits(old, here, b, sign) ==
  here \in 0 .. N - 1 /\ b \in 0 .. N - 1 /\ old \in Ternaries /\ old[here] = 0 /\ sign \in {1, -1}
InsertGives(new, old, here, b, sign) ==
  /\ new \in Ternaries
  /\ PlacesOf(new) = OneMore(PlacesOf(old), here, b)
  /\ MinusOf(new) = Moved(MinusOf(old), here, b) \cup MinusAt(sign, b)

(* A place more and a sign moved, also where the two places are the same.  *)
LEMMA InsertIs ==
  ASSUME NEW old, NEW here, NEW b, NEW sign, InsertFits(old, here, b, sign)
  PROVE  InsertGives(Inserted(old, here, b, sign), old, here, b, sign)
<1> DEFINE new == Inserted(old, here, b, sign)
<1> USE DEF InsertFits
<1>1. /\ \A j \in 0 .. N - 1 : new[j] = IF j = b THEN sign ELSE IF j = here THEN old[b] ELSE old[j]
      /\ new = [j \in 0 .. N - 1 |-> new[j]]
  BY DEF Ternaries, Inserted
<1>2. \A j \in 0 .. N - 1 : old[j] \in {-1, 0, 1}  BY DEF Ternaries
<1> HIDE DEF new
<1>3. new \in Ternaries  BY <1>1, <1>2, Zenon DEF Ternaries
<1>4. PlacesOf(new) = OneMore(PlacesOf(old), here, b)
  <2>1. ASSUME NEW j \in 0 .. N - 1
        PROVE  new[j] # 0 <=> j = b \/ (j = here /\ old[b] # 0) \/ (j # here /\ old[j] # 0)
    BY <1>1, <1>2
  <2>2. CASE old[b] # 0
    <3>1. b \in PlacesOf(old)  BY <2>2 DEF PlacesOf
    <3>2. \A j \in 0 .. N - 1 : new[j] # 0 <=> old[j] # 0 \/ j = here  BY <2>1, <2>2
    <3> QED BY <3>1, <3>2 DEF PlacesOf, OneMore
  <2>3. CASE old[b] = 0
    <3>1. b \notin PlacesOf(old)  BY <2>3 DEF PlacesOf
    <3>2. \A j \in 0 .. N - 1 : new[j] # 0 <=> old[j] # 0 \/ j = b  BY <2>1, <2>3
    <3> QED BY <3>1, <3>2 DEF PlacesOf, OneMore
  <2> QED BY <2>2, <2>3
<1>5. MinusOf(new) = Moved(MinusOf(old), here, b) \cup MinusAt(sign, b)
  <2>1. ASSUME NEW j \in 0 .. N - 1
        PROVE  new[j] = -1 <=> (j = b /\ sign = -1) \/ (j # b /\ j = here /\ old[b] = -1)
                               \/ (j # b /\ j # here /\ old[j] = -1)
    BY <1>1, <1>2
  <2>2. CASE old[b] = -1
    <3>1. b \in MinusOf(old) /\ here # b  BY <2>2 DEF MinusOf
    <3>2. \A j \in 0 .. N - 1 : new[j] = -1 <=> (j = b /\ sign = -1) \/ j = here \/ (j # b /\ old[j] = -1)
      BY <2>1, <2>2, <3>1
    <3> QED BY <3>1, <3>2 DEF MinusOf, Moved, MinusAt
  <2>3. CASE old[b] # -1
    <3>1. b \notin MinusOf(old)  BY <2>3 DEF MinusOf
    <3>2. \A j \in 0 .. N - 1 : new[j] = -1 <=> (j = b /\ sign = -1) \/ old[j] = -1
      <4> TAKE j \in 0 .. N - 1
      <4>1. CASE j = here
        <5>1. old[j] = 0  BY <4>1
        <5>2. new[j] = -1 <=> j = b /\ sign = -1  BY <2>1, <2>3, <4>1, <5>1
        <5> QED BY <5>1, <5>2
      <4>2. CASE j # here /\ j = b  BY <2>1, <2>3, <4>2
      <4>3. CASE j # here /\ j # b  BY <2>1, <4>3
      <4> QED BY <4>1, <4>2, <4>3
    <3> QED BY <3>1, <3>2 DEF MinusOf, Moved, MinusAt
  <2> QED BY <2>2, <2>3
<1> QED BY <1>3, <1>4, <1>5 DEF InsertGives, new

LEMMA InsertCounts ==
  ASSUME N \in Nat, NEW here \in 0 .. N - 1, NEW b \in 0 .. here, NEW old \in Ternaries, \A j \in PlacesOf(old) : j < here,
         NEW sign \in {1, -1}, NEW new, new = Inserted(old, here, b, sign)
  PROVE  /\ new \in Ternaries
         /\ PlacesOf(new) = OneMore(PlacesOf(old), here, b)
         /\ Cardinality(PlacesOf(new)) = Cardinality(PlacesOf(old)) + 1
         /\ Cardinality(MinusOf(new)) = Cardinality(MinusOf(old)) + (IF sign = -1 THEN 1 ELSE 0)
         /\ \A j \in PlacesOf(new) : j < here + 1
<1>1. old[here] = 0 /\ here \notin PlacesOf(old) /\ here \notin MinusOf(old)
  BY DEF PlacesOf, MinusOf
<1>2. b \in 0 .. N - 1  OBVIOUS
<1>3. /\ new \in Ternaries
      /\ PlacesOf(new) = OneMore(PlacesOf(old), here, b)
      /\ MinusOf(new) = Moved(MinusOf(old), here, b) \cup MinusAt(sign, b)
  <2>1. InsertFits(old, here, b, sign)  BY <1>1, <1>2 DEF InsertFits
  <2>2. InsertGives(Inserted(old, here, b, sign), old, here, b, sign)  BY <2>1, InsertIs, Zenon
  <2>3. InsertGives(new, old, here, b, sign)  BY <2>2, Zenon
  <2> QED BY <2>3, Zenon DEF InsertGives
<1>4. IsFiniteSet(PlacesOf(old)) /\ IsFiniteSet(MinusOf(old))
  <2>1. IsFiniteSet(0 .. N - 1)
    <3>1. 0 \in Int /\ N - 1 \in Int  OBVIOUS
    <3> QED BY <3>1, FS_Interval
  <2> QED BY <2>1, FS_Subset, PlacesOf(old) \in SUBSET (0 .. N - 1), MinusOf(old) \in SUBSET (0 .. N - 1)
          DEF PlacesOf, MinusOf
<1>5. Cardinality(PlacesOf(old)) \in Nat /\ Cardinality(MinusOf(old)) \in Nat
  BY <1>4, FS_CardinalityType
<1>6. Cardinality(PlacesOf(new)) = Cardinality(PlacesOf(old)) + 1
  <2> DEFINE x == IF b \in PlacesOf(old) THEN here ELSE b
  <2>1. x \notin PlacesOf(old)  BY <1>1
  <2>2. PlacesOf(new) = PlacesOf(old) \cup {x}  BY <1>3 DEF OneMore
  <2> HIDE DEF x
  <2> QED BY <1>4, <2>1, <2>2, FS_AddElement
<1>7. LET m == Moved(MinusOf(old), here, b)
      IN  b \notin m /\ IsFiniteSet(m) /\ Cardinality(m) = Cardinality(MinusOf(old))
  <2> DEFINE old1 == MinusOf(old)
  <2>1. CASE b \in old1
    <3>1. b # here  BY <1>1, <2>1
    <3>2. IsFiniteSet(old1 \ {b}) /\ Cardinality(old1 \ {b}) = Cardinality(old1) - 1
      BY <1>4, <2>1, FS_RemoveElement
    <3>3. here \notin old1 \ {b}  BY <1>1
    <3>4. /\ IsFiniteSet((old1 \ {b}) \cup {here})
          /\ Cardinality((old1 \ {b}) \cup {here}) = Cardinality(old1 \ {b}) + 1
      BY <3>2, <3>3, FS_AddElement
    <3>5. (Cardinality(old1) - 1) + 1 = Cardinality(old1)  BY <1>5
    <3>6. Moved(old1, here, b) = (old1 \ {b}) \cup {here}  BY <2>1 DEF Moved
    <3> QED BY <3>1, <3>2, <3>4, <3>5, <3>6
  <2>2. CASE b \notin old1
    <3>1. Moved(old1, here, b) = old1  BY <2>2 DEF Moved
    <3> QED BY <1>4, <2>2, <3>1
  <2> QED BY <2>1, <2>2
<1>8. Cardinality(MinusOf(new)) = Cardinality(MinusOf(old)) + (IF sign = -1 THEN 1 ELSE 0)
  <2> DEFINE m == Moved(MinusOf(old), here, b)
  <2>1. b \notin m /\ IsFiniteSet(m) /\ Cardinality(m) = Cardinality(MinusOf(old))  BY <1>7
  <2>2. MinusOf(new) = m \cup MinusAt(sign, b)  BY <1>3
  <2> HIDE DEF m
  <2>3. CASE sign = -1
    <3>1. MinusOf(new) = m \cup {b}  BY <2>2, <2>3 DEF MinusAt
    <3>2. Cardinality(m \cup {b}) = Cardinality(m) + 1  BY <2>1, FS_AddElement
    <3> QED BY <2>1, <2>3, <3>1, <3>2
  <2>4. CASE sign # -1
    <3>1. MinusOf(new) = m  BY <2>2, <2>4 DEF MinusAt
    <3> QED BY <1>5, <2>1, <2>4, <3>1
  <2> QED BY <2>3, <2>4
<1>9. \A j \in PlacesOf(new) : j < here + 1
  <2>1. \A j \in PlacesOf(new) : j \in PlacesOf(old) \/ j = here \/ j = b
    BY <1>3, Zenon DEF OneMore
  <2>2. \A j \in PlacesOf(old) : j \in Int  BY DEF PlacesOf
  <2> QED BY <2>1, <2>2
<1> QED BY <1>3, <1>6, <1>8, <1>9

LEMMA BitsCount ==
  ASSUME NEW bits, NEW n \in Nat
  PROVE  /\ IsFiniteSet(SetBits(bits, n)) /\ Cardinality(SetBits(bits, n)) \in Nat
         /\ Cardinality(SetBits(bits, n + 1)) = Cardinality(SetBits(bits, n)) + (IF bits[n] = 1 THEN 1 ELSE 0)
<1>1. IsFiniteSet(SetBits(bits, n)) /\ Cardinality(SetBits(bits, n)) \in Nat
  <2>1. IsFiniteSet(0 .. n - 1)
    <3>1. 0 \in Int /\ n - 1 \in Int  OBVIOUS
    <3> QED BY <3>1, FS_Interval
  <2>2. SetBits(bits, n) \in SUBSET (0 .. n - 1)  BY DEF SetBits
  <2>3. IsFiniteSet(SetBits(bits, n))  BY <2>1, <2>2, FS_Subset
  <2> QED BY <2>3, FS_CardinalityType
<1>2. n \notin SetBits(bits, n)  BY DEF SetBits
<1>3. \A k : k \in 0 .. (n + 1) - 1 <=> k \in 0 .. n - 1 \/ k = n  OBVIOUS
<1>4. CASE bits[n] = 1
  <2>1. SetBits(bits, n + 1) = SetBits(bits, n) \cup {n}  BY <1>3, <1>4, Zenon DEF SetBits
  <2>2. Cardinality(SetBits(bits, n) \cup {n}) = Cardinality(SetBits(bits, n)) + 1
    BY <1>1, <1>2, FS_AddElement
  <2>3. (IF bits[n] = 1 THEN 1 ELSE 0) = 1  BY <1>4
  <2> QED BY <1>1, <2>1, <2>2, <2>3, Zenon
<1>5. CASE bits[n] # 1
  <2>1. SetBits(bits, n + 1) = SetBits(bits, n)  BY <1>3, <1>5, Zenon DEF SetBits
  <2>2. (IF bits[n] = 1 THEN 1 ELSE 0) = 0  BY <1>5
  <2>3. Cardinality(SetBits(bits, n)) + 0 = Cardinality(SetBits(bits, n))  BY <1>1
  <2> QED BY <1>1, <2>1, <2>2, <2>3, Zenon
<1> QED BY <1>1, <1>4, <1>5
ChallengeInv ==
  /\ filling \in Lo .. N /\ c \in Ternaries /\ signs \in Bits /\ drawn \in Bits
  /\ \A k \in 0 .. SIGNS - 1 : k + (filling - Lo) < SIGNS => signs[k] = drawn[k + (filling - Lo)]
  /\ pos \in 0 .. RATE /\ uses = [k \in 0 .. RATE - 1 |-> IF k < pos THEN 1 ELSE 0]
  /\ Walk(draws, filling - Lo)
  /\ PlacesOf(c) = Challenge!Drawn(draws, filling - Lo)
  /\ Cardinality(PlacesOf(c)) = filling - Lo
  /\ \A j \in PlacesOf(c) : j < filling
  /\ Cardinality(MinusOf(c)) = Cardinality(SetBits(drawn, filling - Lo))

LEMMA ChallengeBegins ==
  ASSUME Challenge!SizesAssumption, Challenge!Init
  PROVE  ChallengeInv
<1>1. N \in Nat /\ TAU \in Nat /\ Lo \in Nat /\ N = Lo + TAU /\ TAU > 0  BY ChallengeSizes
<1>2. RATE \in Nat /\ SIGNBYTES \in 1 .. RATE /\ SIGNS \in Nat
  BY SMT DEF Challenge!SizesAssumption
<1>3. filling = Lo /\ filling - Lo = 0 /\ filling \in Lo .. N  BY <1>1 DEF Challenge!Init, Lo
<1>4. c = [j \in 0 .. N - 1 |-> 0]  BY Zenon DEF Challenge!Init
<1>5. c \in Ternaries /\ PlacesOf(c) = {} /\ MinusOf(c) = {}
  BY <1>4 DEF Ternaries, PlacesOf, MinusOf
<1>6. signs \in Bits /\ drawn \in Bits /\ signs = drawn  BY Zenon DEF Challenge!Init, Bits
<1>7. \A k \in 0 .. SIGNS - 1 : k + 0 < SIGNS => signs[k] = drawn[k + 0]  BY <1>6
<1>8. pos \in 0 .. RATE /\ uses = [k \in 0 .. RATE - 1 |-> IF k < pos THEN 1 ELSE 0]
  BY <1>2 DEF Challenge!Init
<1>9. Walk(draws, 0)
  <2>1. draws = [j \in {} |-> 0]  BY Zenon DEF Challenge!Init
  <2>2. Lo .. Lo + 0 - 1 = {}  BY <1>1
  <2> QED BY <2>1, <2>2 DEF Walk
<1>10. Challenge!Drawn(draws, 0) = {}  BY DrawnBegins, Zenon
<1>11. SetBits(drawn, 0) = {}  BY DEF SetBits
<1>12. Cardinality({}) = 0  BY FS_EmptySet
<1> QED BY <1>3, <1>5, <1>6, <1>7, <1>8, <1>9, <1>10, <1>11, <1>12, Zenon DEF ChallengeInv

(* The place that is taken is one draw more.                               *)
Lengthened(d, here, x) == [j \in DOMAIN d \cup {here} |-> IF j = here THEN x ELSE d[j]]

LEMMA DrawsExtend ==
  ASSUME Challenge!SizesAssumption, NEW n \in 0 .. TAU - 1, NEW d, Walk(d, n), NEW x
  PROVE  Lengthened(d, Lo + n, x) = Extended(d, n, x)
<1>1. N \in Nat /\ TAU \in Nat /\ Lo \in Nat /\ N = Lo + TAU /\ TAU > 0  BY ChallengeSizes
<1>2. DOMAIN d = Lo .. Lo + n - 1  BY Zenon DEF Walk
<1>3. (Lo .. Lo + n - 1) \cup {Lo + n} = Lo .. Lo + (n + 1) - 1  BY <1>1
<1> QED BY <1>2, <1>3, Zenon DEF Extended, Lengthened

LEMMA BytesStay ==
  ASSUME Challenge!SizesAssumption, ChallengeInv, Challenge!Place
  PROVE  pos' \in 0 .. RATE /\ uses' = [k \in 0 .. RATE - 1 |-> IF k < pos' THEN 1 ELSE 0]
<1>1. RATE \in Nat /\ RATE > 0  BY SMT DEF Challenge!SizesAssumption
<1>2. pos \in 0 .. RATE /\ uses = [k \in 0 .. RATE - 1 |-> IF k < pos THEN 1 ELSE 0]
  BY Zenon DEF ChallengeInv
<1>3. /\ pos' = Challenge!Byte + 1
      /\ uses' = [k \in 0 .. RATE - 1 |->
                   (IF pos >= RATE THEN 0 ELSE uses[k]) + (IF k = Challenge!Byte THEN 1 ELSE 0)]
  BY Zenon DEF Challenge!Place
<1>4. CASE pos >= RATE
  <2>1. Challenge!Byte = 0 /\ pos' = 1  BY <1>3, <1>4 DEF Challenge!Byte
  <2>2. \A k \in 0 .. RATE - 1 :
          (IF pos >= RATE THEN 0 ELSE uses[k]) + (IF k = 0 THEN 1 ELSE 0) = IF k < 1 THEN 1 ELSE 0
    BY <1>4
  <2> QED BY <1>1, <1>3, <2>1, <2>2
<1>5. CASE ~ (pos >= RATE)
  <2>1. Challenge!Byte = pos /\ pos' = pos + 1  BY <1>3, <1>5 DEF Challenge!Byte
  <2>2. ASSUME NEW k \in 0 .. RATE - 1
        PROVE  (IF pos >= RATE THEN 0 ELSE uses[k]) + (IF k = pos THEN 1 ELSE 0)
                 = IF k < pos + 1 THEN 1 ELSE 0
    <3>1. uses[k] = IF k < pos THEN 1 ELSE 0  BY <1>2, Zenon
    <3> QED BY <1>2, <1>5, <3>1
  <2>3. pos + 1 \in 0 .. RATE  BY <1>1, <1>2, <1>5
  <2> QED BY <1>3, <2>1, <2>2, <2>3, Zenon
<1> QED BY <1>4, <1>5

(* The signs that are left are those after the ones that were used.        *)
LEMMA SignsStay ==
  ASSUME Challenge!SizesAssumption, NEW n \in 0 .. TAU - 1, NEW left \in Bits, NEW bits \in Bits,
         \A k \in 0 .. SIGNS - 1 : k + n < SIGNS => left[k] = bits[k + n]
  PROVE  /\ Challenge!Shift(left) \in Bits
         /\ \A k \in 0 .. SIGNS - 1 : k + (n + 1) < SIGNS => Challenge!Shift(left)[k] = bits[k + (n + 1)]
         /\ left[0] = bits[n] /\ bits[n] \in {0, 1}
<1>1. SIGNS \in Nat /\ TAU \in Nat /\ TAU <= SIGNS /\ n < SIGNS /\ n \in Nat
  BY SMT DEF Challenge!SizesAssumption
<1>2. /\ \A k \in 0 .. SIGNS - 1 : left[k] \in {0, 1} /\ bits[k] \in {0, 1}
      /\ \A k \in 0 .. SIGNS - 1 : Challenge!Shift(left)[k] = IF k + 1 < SIGNS THEN left[k + 1] ELSE 0
  BY DEF Bits, Challenge!Shift
<1>3. Challenge!Shift(left) \in Bits
  <2>1. \A k \in 0 .. SIGNS - 1 : k + 1 < SIGNS => k + 1 \in 0 .. SIGNS - 1  BY <1>1
  <2>2. \A k \in 0 .. SIGNS - 1 : (IF k + 1 < SIGNS THEN left[k + 1] ELSE 0) \in {0, 1}
    BY <1>2, <2>1
  <2> QED BY <2>2, Zenon DEF Bits, Challenge!Shift
<1>4. ASSUME NEW k \in 0 .. SIGNS - 1, k + (n + 1) < SIGNS
      PROVE  Challenge!Shift(left)[k] = bits[k + (n + 1)]
  <2>1. k + 1 \in 0 .. SIGNS - 1 /\ (k + 1) + n < SIGNS /\ (k + 1) + n = k + (n + 1)  BY <1>1, <1>4
  <2>2. Challenge!Shift(left)[k] = left[k + 1]  BY <1>1, <1>2, <2>1
  <2> QED BY <2>1, <2>2
<1>5. left[0] = bits[n] /\ bits[n] \in {0, 1}
  <2>1. 0 \in 0 .. SIGNS - 1 /\ 0 + n < SIGNS /\ 0 + n = n /\ n \in 0 .. SIGNS - 1  BY <1>1
  <2> QED BY <1>2, <2>1
<1> QED BY <1>3, <1>4, <1>5

(* A place that is not beyond the coefficient to be filled.                *)
LEMMA PlaceIsTaken ==
  ASSUME Challenge!SizesAssumption, ChallengeInv, Challenge!Place
  PROVE  \/ UNCHANGED <<filling, c, signs, draws, drawn>>
         \/ \E b \in 0 .. filling :
            /\ filling \in Lo .. N - 1 /\ filling' = filling + 1
            /\ c' = Inserted(c, filling, b, 1 - 2 * signs[0]) /\ signs' = Challenge!Shift(signs)
            /\ draws' = [j \in DOMAIN draws \cup {filling} |-> IF j = filling THEN b ELSE draws[j]]
            /\ drawn' = drawn
<1>1. N \in Nat /\ TAU \in Nat /\ Lo \in Nat /\ N = Lo + TAU /\ TAU > 0  BY ChallengeSizes
<1>2. PICK b \in 0 .. BYTE - 1 :
        /\ filling < N
        /\ IF Challenge!Beyond(b, filling)
           THEN UNCHANGED <<filling, c, signs, draws>>
           ELSE /\ c' = Challenge!Insert(b, 1 - 2 * signs[0]) /\ signs' = Challenge!Shift(signs)
                /\ filling' = filling + 1
                /\ draws' = [j \in DOMAIN draws \cup {filling} |-> IF j = filling THEN b ELSE draws[j]]
        /\ UNCHANGED drawn
  BY Zenon DEF Challenge!Place
<1>3. filling \in Lo .. N /\ filling < N  BY <1>2, Zenon DEF ChallengeInv
<1>4. CASE ~ Challenge!Beyond(b, filling)
  <2>1. BYTE \in Nat  BY DEF Challenge!SizesAssumption
  <2>2. b \in 0 .. filling /\ filling \in Lo .. N - 1
    BY <1>1, <1>3, <1>4, <2>1 DEF Challenge!Beyond
  <2>3. c' = Inserted(c, filling, b, 1 - 2 * signs[0])
    BY <1>2, <1>4, Zenon DEF Inserted, Challenge!Insert
  <2> QED BY <1>2, <1>4, <2>2, <2>3, Zenon
<1>5. CASE Challenge!Beyond(b, filling)  BY <1>2, <1>5, Zenon
<1> QED BY <1>4, <1>5

LEMMA ChallengeSteps ==
  ASSUME Challenge!SizesAssumption, ChallengeInv, [Challenge!Place]_Challenge!vars
  PROVE  ChallengeInv'
<1>1. CASE UNCHANGED Challenge!vars
  <2>1. /\ filling' = filling /\ c' = c /\ signs' = signs /\ drawn' = drawn /\ draws' = draws
        /\ pos' = pos /\ uses' = uses
    BY <1>1, Zenon DEF Challenge!vars
  <2> QED BY <2>1, Zenon DEF ChallengeInv, PlacesOf, MinusOf, SetBits, Walk
<1> SUFFICES ASSUME Challenge!Place
             PROVE  ChallengeInv'
  BY <1>1
<1>2. pos' \in 0 .. RATE /\ uses' = [k \in 0 .. RATE - 1 |-> IF k < pos' THEN 1 ELSE 0]
  BY BytesStay, Zenon
<1>3. CASE UNCHANGED <<filling, c, signs, draws, drawn>>
  <2>1. filling' = filling /\ c' = c /\ signs' = signs /\ drawn' = drawn /\ draws' = draws
    BY <1>3, Zenon
  <2> QED BY <1>2, <2>1, Zenon DEF ChallengeInv, PlacesOf, MinusOf, SetBits, Walk
<1>4. ASSUME NEW b \in 0 .. filling, filling \in Lo .. N - 1, filling' = filling + 1,
             c' = Inserted(c, filling, b, 1 - 2 * signs[0]), signs' = Challenge!Shift(signs),
             draws' = [j \in DOMAIN draws \cup {filling} |-> IF j = filling THEN b ELSE draws[j]],
             drawn' = drawn
      PROVE  ChallengeInv'
  <2> DEFINE n == filling - Lo
             sign == 1 - 2 * signs[0]
  <2>1. N \in Nat /\ TAU \in Nat /\ Lo \in Nat /\ N = Lo + TAU /\ TAU > 0  BY ChallengeSizes
  <2>2. /\ n \in 0 .. TAU - 1 /\ Lo + n = filling /\ filling' - Lo = n + 1 /\ filling + 1 \in Lo .. N
        /\ filling \in 0 .. N - 1 /\ b \in 0 .. Lo + n /\ n \in Nat
    BY <1>4, <2>1
  <2>3. /\ c \in Ternaries /\ signs \in Bits /\ drawn \in Bits
        /\ \A k \in 0 .. SIGNS - 1 : k + n < SIGNS => signs[k] = drawn[k + n]
        /\ Walk(draws, n) /\ PlacesOf(c) = Challenge!Drawn(draws, n)
        /\ Cardinality(PlacesOf(c)) = n /\ \A j \in PlacesOf(c) : j < filling
        /\ Cardinality(MinusOf(c)) = Cardinality(SetBits(drawn, n))
    BY Zenon DEF ChallengeInv
  <2> HIDE DEF n
  <2>4. /\ Challenge!Shift(signs) \in Bits
        /\ \A k \in 0 .. SIGNS - 1 : k + (n + 1) < SIGNS => Challenge!Shift(signs)[k] = drawn[k + (n + 1)]
        /\ signs[0] = drawn[n] /\ drawn[n] \in {0, 1}
    BY <2>2, <2>3, SignsStay, Zenon
  <2>5. sign \in {1, -1} /\ (IF sign = -1 THEN 1 ELSE 0) = (IF drawn[n] = 1 THEN 1 ELSE 0)  BY <2>4
  <2> HIDE DEF sign
  <2>6. c' = Inserted(c, filling, b, sign)  BY <1>4 DEF sign
  <2>7. /\ c' \in Ternaries /\ PlacesOf(c') = OneMore(PlacesOf(c), filling, b)
        /\ Cardinality(PlacesOf(c')) = Cardinality(PlacesOf(c)) + 1
        /\ Cardinality(MinusOf(c')) = Cardinality(MinusOf(c)) + (IF sign = -1 THEN 1 ELSE 0)
        /\ \A j \in PlacesOf(c') : j < filling + 1
    BY <2>1, <2>2, <2>3, <2>5, <2>6, InsertCounts
  <2>8. draws' = Extended(draws, n, b)
    <3>1. Lengthened(draws, Lo + n, b) = Extended(draws, n, b)
      BY <2>2, <2>3, DrawsExtend, Zenon
    <3>2. draws' = Lengthened(draws, filling, b)  BY <1>4, Zenon DEF Lengthened
    <3>3. Lo + n = filling  BY <2>2
    <3> QED BY <3>1, <3>2, <3>3
  <2>9. Walk(draws', n + 1) /\ draws'[Lo + n] = b /\ Cut(draws', n) = draws
    BY <2>2, <2>3, <2>8, WalkIsLonger, Zenon
  <2>10. PlacesOf(c') = Challenge!Drawn(draws', n + 1)
    <3>1. Challenge!Drawn(draws', n + 1) = OneMore(Challenge!Drawn(draws', n), Lo + n, b)
      BY <2>2, <2>9, DrawnBegins, Zenon
    <3>2. Challenge!Drawn(draws', n) = Challenge!Drawn(draws, n)
      BY <2>2, <2>9, WalkIsShorter, Zenon
    <3> QED BY <2>2, <2>3, <2>7, <3>1, <3>2, Zenon
  <2>11. Cardinality(MinusOf(c')) = Cardinality(SetBits(drawn, n + 1))
    <3>1. Cardinality(SetBits(drawn, n + 1)) = Cardinality(SetBits(drawn, n)) + (IF drawn[n] = 1 THEN 1 ELSE 0)
      BY <2>2, BitsCount
    <3>2. Cardinality(MinusOf(c')) = Cardinality(MinusOf(c)) + (IF sign = -1 THEN 1 ELSE 0)  BY <2>7
    <3>3. Cardinality(MinusOf(c)) = Cardinality(SetBits(drawn, n))  BY <2>3
    <3>4. (IF sign = -1 THEN 1 ELSE 0) = (IF drawn[n] = 1 THEN 1 ELSE 0)  BY <2>5
    <3> QED BY <3>1, <3>2, <3>3, <3>4
  <2>12. filling' \in Lo .. N /\ \A j \in PlacesOf(c') : j < filling'  BY <1>4, <2>2, <2>7, Zenon
  <2>13. signs' \in Bits /\ drawn' \in Bits
         /\ \A k \in 0 .. SIGNS - 1 : k + (n + 1) < SIGNS => signs'[k] = drawn'[k + (n + 1)]
    BY <1>4, <2>3, <2>4, Zenon
  <2>14. Cardinality(PlacesOf(c')) = n + 1  BY <2>3, <2>7, Zenon
  <2>15. Cardinality(MinusOf(c')) = Cardinality(SetBits(drawn', n + 1))  BY <1>4, <2>11, Zenon
  <2>16. filling' - Lo = n + 1 /\ c' \in Ternaries  BY <2>2, <2>7
  <2> QED BY <1>2, <2>9, <2>10, <2>12, <2>13, <2>14, <2>15, <2>16, Zenon
          DEF ChallengeInv, PlacesOf, MinusOf, SetBits, Walk
<1> QED BY <1>3, <1>4, PlaceIsTaken, Zenon


(* The sequences of draws that give the places are those that WalksCount   *)
(* counts, when all are drawn.                                             *)
LEMMA ChallengeConcludes ==
  ASSUME Challenge!SizesAssumption, ChallengeInv
  PROVE  Challenge!HasWeight /\ Challenge!AllPlacesAlike /\ Challenge!SignsSpent /\ Challenge!EachByteOnce
<1>1. N \in Nat /\ TAU \in Nat /\ Lo \in Nat /\ N = Lo + TAU /\ TAU > 0  BY ChallengeSizes
<1> DEFINE n == filling - Lo
<1>2. /\ filling \in Lo .. N /\ c \in Ternaries
      /\ uses = [k \in 0 .. RATE - 1 |-> IF k < pos THEN 1 ELSE 0]
      /\ Walk(draws, n) /\ PlacesOf(c) = Challenge!Drawn(draws, n)
      /\ Cardinality(PlacesOf(c)) = n /\ \A j \in PlacesOf(c) : j < filling
      /\ Cardinality(MinusOf(c)) = Cardinality(SetBits(drawn, n))
  BY Zenon DEF ChallengeInv
<1>3. filling - (N - TAU) = n  BY DEF Lo
<1>4. Challenge!Places = PlacesOf(c)  BY Zenon DEF Challenge!Places, PlacesOf
<1>5. \A S : Challenge!Cardinality(S) = Cardinality(S)
  BY Zenon DEF Challenge!Cardinality, Cardinality
<1> HIDE DEF n
<1>6. Challenge!HasWeight
  <2>1. \A j \in PlacesOf(c) : c[j] \in {1, -1}  BY <1>2 DEF PlacesOf, Ternaries
  <2> QED BY <1>2, <1>3, <1>4, <1>5, <2>1, Zenon DEF Challenge!HasWeight
<1>7. Challenge!SignsSpent
  <2>1. {j \in PlacesOf(c) : c[j] = -1} = MinusOf(c)  BY DEF PlacesOf, MinusOf
  <2>2. SetBits(drawn, n) = {k \in 0 .. n - 1 : drawn[k] = 1}  BY Zenon DEF SetBits
  <2> QED BY <1>2, <1>3, <1>4, <1>5, <2>1, <2>2, Zenon DEF Challenge!SignsSpent
<1>8. Challenge!EachByteOnce  BY <1>2, Zenon DEF Challenge!EachByteOnce
<1>9. ASSUME filling = N
      PROVE  /\ draws \in Challenge!Draws
             /\ Cardinality({d \in Challenge!Draws : Challenge!Drawn(d, TAU) = PlacesOf(c)}) = Challenge!Orders
  <2>1. n = TAU  BY <1>1, <1>9 DEF n
  <2>2. Challenge!Filling = Lo .. Lo + TAU - 1  BY <1>1 DEF Challenge!Filling, Lo
  <2>3. \A d : d \in Challenge!Draws <=> Walk(d, TAU)
    <3>1. \A d \in [Lo .. Lo + TAU - 1 -> 0 .. N - 1] : \A j \in Lo .. Lo + TAU - 1 :
            ~ Challenge!Beyond(d[j], j) <=> d[j] <= j
      BY <1>1 DEF Challenge!Beyond
    <3> QED BY <2>2, <3>1, Zenon DEF Challenge!Draws, Walk
  <2>4. {d \in Challenge!Draws : Challenge!Drawn(d, TAU) = PlacesOf(c)} = Walks(TAU, PlacesOf(c))
    BY <2>3, Zenon DEF Walks, Walk
  <2>5. PICK f : IsFactorial(f) /\ Challenge!Orders = f[TAU]  BY PermutationsAre
  <2>6. TAU \in 0 .. TAU  BY <1>1
  <2>7. PlacesOf(c) \in SUBSET (0 .. Lo + TAU - 1)  BY <1>1 DEF PlacesOf
  <2>8. IsFiniteSet(PlacesOf(c))
    <3>1. 0 \in Int /\ Lo + TAU - 1 \in Int  BY <1>1
    <3>2. IsFiniteSet(0 .. Lo + TAU - 1)  BY <3>1, FS_Interval
    <3> QED BY <2>7, <3>2, FS_Subset
  <2>9. Cardinality(PlacesOf(c)) = TAU  BY <1>2, <2>1
  <2>10. Cardinality(Walks(TAU, PlacesOf(c))) = f[TAU]
    BY <2>5, <2>6, <2>7, <2>8, <2>9, WalksCount, Zenon
  <2> QED BY <1>2, <2>1, <2>3, <2>4, <2>5, <2>10, Zenon
<1>10. Challenge!AllPlacesAlike
  BY <1>2, <1>3, <1>4, <1>5, <1>9, Zenon DEF Challenge!AllPlacesAlike
<1> QED BY <1>6, <1>7, <1>8, <1>10

(* All of it together: weight and signs, places as likely as any others,   *)
(* and bytes used once (ref/poly.c:503-519).                               *)
ChallengeIsUniform ==
  /\ Challenge!HasWeight /\ Challenge!AllPlacesAlike
  /\ Challenge!SignsSpent /\ Challenge!EachByteOnce

(* The challenge of ML-DSA has TAU places, every set of TAU places comes   *)
(* from TAU! of the sequences of places that are accepted, each sign is    *)
(* used for one place and no byte of SHAKE for two, for every N and TAU    *)
(* (ref/poly.c:489-520).                                                   *)
THEOREM ChallengesAreUniform ==
  ASSUME Challenge!SizesAssumption
  PROVE  Challenge!Spec => []ChallengeIsUniform
<1>1. Challenge!Init => ChallengeInv  BY ChallengeBegins
<1>2. ChallengeInv /\ [Challenge!Place]_Challenge!vars => ChallengeInv'  BY ChallengeSteps
<1>3. ChallengeInv => ChallengeIsUniform  BY ChallengeConcludes DEF ChallengeIsUniform
<1> QED BY <1>1, <1>2, <1>3, PTL DEF Challenge!Spec
=============================================================================
