--------------------------- MODULE MlDsaRounding ---------------------------
(***************************************************************************)
(* One coefficient on its way through an ML-DSA signature: the reductions  *)
(* (reduce.c) and the splitting into high and low bits (rounding.c), with  *)
(* their vector forms (avx2/rounding.c, one lane), and what sign.c does    *)
(* with them: the signer splits w, rejects what grew too large and tells   *)
(* the verifier in a hint bit how to find the high bits again.             *)
(***************************************************************************)
EXTENDS Integers

CONSTANTS
  Divisor,        \* GAMMA2 = (Q-1)/Divisor: 88 for mode 2, 32 for modes 3 and 5
  Beta,           \* TAU * ETA, the largest coefficient of c*s2
  Coefficients,   \* the values of w explored
  Secrets,        \* those of c*s2
  Errors          \* those of c*t0

Q == 8380417
D == 13
GAMMA2 == (Q - 1) \div Divisor

ASSUME DivisorAssumption == Divisor \in {32, 88}
ASSUME BetaAssumption == Beta \in 0 .. 256
ASSUME CoefficientsAssumption == Coefficients \subseteq 0 .. Q - 1
ASSUME SecretsAssumption == Secrets \subseteq -Beta .. Beta
ASSUME ErrorsAssumption == Errors \subseteq Int
-----------------------------------------------------------------------------
(* reduce.c; >> is a division that rounds down. *)
reduce32(a) == a - ((a + 4194304) \div 8388608) * Q
caddq(a) == IF a < 0 THEN a + Q ELSE a
(* rounding.c; what a function returns and what it stores in *a0. *)
power2roundNoMinus(a) ==
  LET a1 == (a + 4096) \div 8192 IN [a1 |-> a1, a0 |-> a - a1 * 8192]

power2round(a) ==
  LET a1 == (a + 4095) \div 8192 IN [a1 |-> a1, a0 |-> a - a1 * 8192]

HighBits(a) ==
  IF Divisor = 32 THEN ((((a + 127) \div 128) * 1025 + 2097152) \div 4194304) % 16
  ELSE LET a1 == (((a + 127) \div 128) * 11275 + 8388608) \div 16777216
       IN  IF a1 > 43 THEN 0 ELSE a1

decompose(a) ==
  LET a0 == a - HighBits(a) * 2 * GAMMA2
  IN  [a1 |-> HighBits(a), a0 |-> IF a0 > (Q - 1) \div 2 THEN a0 - Q ELSE a0]

(* Mistake: the one value on the lower edge that needs a hint gets none. *)
make_hintSymmetric(a0, a1) == IF a0 > GAMMA2 \/ a0 < -GAMMA2 THEN 1 ELSE 0

make_hint(a0, a1) ==
  IF a0 > GAMMA2 \/ a0 < -GAMMA2 \/ (a0 = -GAMMA2 /\ a1 # 0) THEN 1 ELSE 0

Levels == (Q - 1) \div (2 * GAMMA2)     \* the high bits are 0 .. Levels-1: 44 or 16

use_hint(a, hint) ==
  LET d == decompose(a)
      step == IF hint = 0 THEN 0 ELSE IF d.a0 > 0 THEN 1 ELSE Levels - 1
  IN  (d.a1 + step) % Levels

(* avx2/rounding.c, one of the eight lanes.  _mm256_mulhi_epu16 and        *)
(* _mm256_mulhrs_epi16 on operands that are not negative.                  *)
mulhi(x, y) == (x * y) \div 65536
mulhrs(x, y) == (x * y + 16384) \div 32768

power2round_avx(a) ==
  LET f1 == a + 4095 IN [a1 |-> f1 \div 8192, a0 |-> a - (f1 - (f1 % 8192))]

HighBits_avx(a) ==
  LET f == (a + 127) \div 128
  IN  IF Divisor = 32 THEN mulhrs(mulhi(f, 1025), 512) % 16
      ELSE LET f1 == mulhrs(mulhi(f, 11275), 128) IN IF 43 - f1 < 0 THEN 0 ELSE f1

decompose_avx(a) ==
  LET f0 == a - HighBits_avx(a) * 2 * GAMMA2
  IN  [a1 |-> HighBits_avx(a), a0 |-> IF f0 > Q \div 2 THEN f0 - Q ELSE f0]

(* Mistake: _mm256_cmpgt_epi32 against low instead of _mm256_cmpeq_epi32. *)
make_hint_avxAll(a0, a1) == IF a0 > GAMMA2 \/ a0 <= -GAMMA2 THEN 1 ELSE 0

(* The sign of -1 by a1: nothing is left of it when a1 is 0. *)
make_hint_avx(a0, a1) ==
  LET g0 == (IF a0 < 0 THEN -a0 ELSE a0) > GAMMA2
      g1 == a0 = -GAMMA2 /\ a1 # 0
  IN  IF g0 \/ g1 THEN 1 ELSE 0

(* The hint is turned round where a0 is negative; -1 and Levels wrap. *)
use_hint_avx(a, hint) ==
  LET d == decompose_avx(a)
      g == d.a1 + (IF d.a0 < 0 THEN -hint ELSE hint)
  IN  IF Divisor = 32 THEN g % 16
      ELSE LET h == IF g < 0 THEN 43 ELSE g IN IF h > 43 THEN 0 ELSE h

(* poly.c: what poly_chknorm rejects, of one coefficient. *)
chknorm(a, bound) == (IF a < 0 THEN -a ELSE a) >= bound
-----------------------------------------------------------------------------
VARIABLES
  stage,          \* "commit", "respond", "recover", "rejected" or "done"
  w,              \* the coefficient of w = A*y, in 0 .. Q-1
  w1, w0,         \* what the signer keeps of it, w0 as it changes
  sent,           \* the coefficient the verifier computes from the signature
  hint,           \* the coefficient of h
  recovered       \* the high bits as the verifier finds them

vars == <<stage, w, w1, w0, sent, hint, recovered>>

Init ==
  /\ stage = "commit"
  /\ w = 0 /\ w1 = 0 /\ w0 = 0 /\ sent = 0 /\ hint = 0 /\ recovered = 0

(* polyveck_caddq, polyveck_decompose: the high bits go into the challenge. *)
Commit ==
  /\ stage = "commit"
  /\ \E a \in Coefficients :
       /\ w' = a
       /\ w1' = decompose(a).a1
       /\ w0' = decompose(a).a0
  /\ stage' = "respond"
  /\ UNCHANGED <<sent, hint, recovered>>

(* polyveck_sub, polyveck_reduce and the two norms that restart the loop,  *)
(* then polyveck_add and polyveck_make_hint.  A verifier finds A*z - c*t1  *)
(* in the signature, which is w - cs2 + ct0.                               *)
Respond(cs2, ct0) ==
  LET low == reduce32(w0 - cs2)
  IN  /\ stage = "respond"
      /\ IF chknorm(low, GAMMA2 - Beta) \/ chknorm(reduce32(ct0), GAMMA2)
         THEN stage' = "rejected" /\ UNCHANGED <<w0, sent, hint>>
         ELSE /\ w0' = low + reduce32(ct0)
              /\ hint' = make_hint(w0', w1)
              /\ sent' = (w - cs2 + ct0) % Q
              /\ stage' = "recover"
      /\ UNCHANGED <<w, w1, recovered>>

(* crypto_sign_verify_internal: polyveck_use_hint. *)
Recover ==
  /\ stage = "recover"
  /\ recovered' = use_hint(sent, hint)
  /\ stage' = "done"
  /\ UNCHANGED <<w, w1, w0, sent, hint>>

Next == Commit \/ (\E cs2 \in Secrets, ct0 \in Errors : Respond(cs2, ct0)) \/ Recover

Spec == Init /\ [][Next]_vars
-----------------------------------------------------------------------------
(* One hint bit brings the verifier from w - cs2 + ct0 to the very high    *)
(* bits that went into the challenge, for every coefficient the two norm   *)
(* checks let through (sign.c:146-168, rounding.c:68-102).                 *)
HintRecovers == stage = "done" => recovered = w1

(* The two parts say which value was split: what rounding.c promises, and  *)
(* what makes t1*2^D + t0 the public vector (rounding.c:6-54).             *)
SplitsExactly ==
  LET d == decompose(w)
      p == power2round(w)
  IN  /\ (d.a1 * 2 * GAMMA2 + d.a0) % Q = w
      /\ -GAMMA2 <= d.a0 /\ d.a0 <= GAMMA2
      /\ d.a0 = -GAMMA2 => d.a1 = 0
      /\ p.a1 * 8192 + p.a0 = w
      /\ -4096 < p.a0 /\ p.a0 <= 4096 /\ 0 <= p.a1 /\ p.a1 < 1024

(* The vector code takes the same decisions as the reference, for every    *)
(* coefficient and hint a signer can send (avx2/rounding.c).               *)
LanesAgree ==
  /\ power2round_avx(w) = power2round(w)
  /\ decompose_avx(w) = decompose(w)
  /\ stage \in {"recover", "done"} =>
       /\ make_hint_avx(w0, w1) = hint
       /\ use_hint_avx(sent, hint) = use_hint(sent, hint)

=============================================================================
