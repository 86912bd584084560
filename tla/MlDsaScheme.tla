---------------------------- MODULE MlDsaScheme ----------------------------
(***************************************************************************)
(* ML-DSA, sign.c of dilithium/ref and of dilithium/avx2, on small         *)
(* parameters: keys, the signing loop of both builds fed with the same y,  *)
(* and both verifiers on what was signed or on any other signature.        *)
(* Polynomials have N coefficients, vectors L or K polynomials.  ntt,      *)
(* pointwise_montgomery and invntt_tomont stand here as the product they   *)
(* compute; a hash is the value it is of, and the challenge one polynomial *)
(* chosen by it with one coefficient that is not 0 (TAU = 1).              *)
(***************************************************************************)
EXTENDS Integers, Sequences, FiniteSetsExt

CONSTANTS
  N, K, L, Q, D, ETA, GAMMA1, GAMMA2, OMEGA,
  Matrices, Secrets1, Secrets2,   \* the A, s1 and s2 of the keys explored
  Messages,                       \* the mu: a context and a message
  Junk                            \* a byte of the caller's signature buffer

BETA == ETA      \* TAU * ETA

SizesAssumption == N \in Nat \ {0} /\ K \in Nat \ {0} /\ L \in Nat \ {0} /\ OMEGA \in Nat
ModulusAssumption ==
  Q \in Nat /\ (Q - 1) % (2 * GAMMA2) = 0 /\ GAMMA1 - BETA <= (Q - 1) \div 8 /\ GAMMA2 <= (Q - 1) \div 8

Coeffs == 0 .. N - 1
Cols == 0 .. L - 1
Rows == 0 .. K - 1
Places == 0 .. OMEGA + K - 1
-----------------------------------------------------------------------------
(* poly.c and polyvec.c *)
Polynomials(values) == [Coeffs -> values]

poly_reduce(a) == [i \in Coeffs |-> ((a[i] + (Q - 1) \div 2) % Q) - (Q - 1) \div 2]
poly_caddq(a) == [i \in Coeffs |-> a[i] % Q]
poly_add(a, b) == [i \in Coeffs |-> a[i] + b[i]]
poly_sub(a, b) == [i \in Coeffs |-> a[i] - b[i]]
poly_shiftl(a) == [i \in Coeffs |-> a[i] * 2^D]

(* The product modulo X^N + 1, reduced. *)
Product(a, b) ==
  poly_reduce([k \in Coeffs |->
    MapThenSumSet(LAMBDA i : IF i <= k THEN a[i] * b[k - i] ELSE -(a[i] * b[k - i + N]), Coeffs)])

(* Row i of the matrix times a vector of length L. *)
RowTimes(mat, i, v) ==
  poly_reduce([k \in Coeffs |-> MapThenSumSet(LAMBDA j : Product(mat[i][j], v[j])[k], Cols)])

Large(x, bound) == x >= bound \/ -x >= bound
poly_chknorm(a, bound) == bound > (Q - 1) \div 8 \/ \E i \in Coeffs : Large(a[i], bound)

(* rounding.c, which MlDsaRounding compares with these divisions. *)
power2round(a) == LET a1 == (a + 2^(D - 1) - 1) \div 2^D IN [a1 |-> a1, a0 |-> a - a1 * 2^D]
Levels == (Q - 1) \div (2 * GAMMA2)
decompose(a) ==
  LET a1 == (a + GAMMA2 - 1) \div (2 * GAMMA2)
  IN  IF a1 = Levels THEN [a1 |-> 0, a0 |-> a - Q] ELSE [a1 |-> a1, a0 |-> a - a1 * 2 * GAMMA2]
make_hint(a0, a1) == a0 > GAMMA2 \/ a0 < -GAMMA2 \/ (a0 = -GAMMA2 /\ a1 # 0)
use_hint(a, hint) ==
  LET d == decompose(a)
  IN  IF ~hint THEN d.a1 ELSE IF d.a0 > 0 THEN (d.a1 + 1) % Levels ELSE (d.a1 - 1) % Levels
(* The vector form steps up where the low part is 0. *)
use_hint_avx(a, hint) ==
  LET d == decompose(a)
  IN  IF ~hint THEN d.a1 ELSE IF d.a0 < 0 THEN (d.a1 - 1) % Levels ELSE (d.a1 + 1) % Levels

(* H(mu, w1) and the polynomial sampled from it: any fixed choice does. *)
CTilde(mu, w1) == [mu |-> mu, w1 |-> w1]
poly_challenge(c) ==
  LET sum == MapThenSumSet(LAMBDA i : MapThenSumSet(LAMBDA k : (i + 2 * k + 1) * c.w1[i][k], Coeffs), Rows)
      at == (sum + (sum \div 3) + (IF c.mu = CHOOSE m \in Messages : TRUE THEN 0 ELSE 1)) % (2 * N)
  IN  [i \in Coeffs |-> IF at = i THEN 1 ELSE IF at = i + N THEN -1 ELSE 0]
-----------------------------------------------------------------------------
(* packing.c: the places of the hints, zeros, and the counts. *)
Ones(h) == {q \in Rows \X Coeffs : h[q[1]][q[2]]}
Before(h, q) == Cardinality({o \in Ones(h) : o[1] < q[1] \/ (o[1] = q[1] /\ o[2] < q[2])})
UpTo(h, i) == Cardinality({o \in Ones(h) : o[1] <= i})
PackHints(h) ==
  [p \in Places |->
     IF p >= OMEGA THEN UpTo(h, p - OMEGA)
     ELSE LET at == {q \in Ones(h) : Before(h, q) = p}
          IN  IF at = {} THEN 0 ELSE (CHOOSE q \in at : TRUE)[2]]

Start(bytes, i) == IF i = 0 THEN 0 ELSE bytes[OMEGA + i - 1]
CountsFit(bytes) == \A i \in Rows : Start(bytes, i) <= bytes[OMEGA + i] /\ bytes[OMEGA + i] <= OMEGA
Listed(bytes, i) == Start(bytes, i) .. bytes[OMEGA + i] - 1
Ordered(bytes) == \A i \in Rows : \A j \in Listed(bytes, i) : j > Start(bytes, i) => bytes[j] > bytes[j - 1]
RestIsZero(bytes) == \A j \in bytes[OMEGA + K - 1] .. OMEGA - 1 : bytes[j] = 0
UnpackHints(bytes) == [i \in Rows |-> [k \in Coeffs |-> \E j \in Listed(bytes, i) : bytes[j] = k]]
-----------------------------------------------------------------------------
(* crypto_sign_keypair *)
T(mat, s1, s2, i) == poly_caddq(poly_add(RowTimes(mat, i, s1), s2[i]))
Keypair(mat, s1, s2) ==
  [mat |-> mat, s1 |-> s1, s2 |-> s2,
   t1 |-> [i \in Rows |-> [k \in Coeffs |-> power2round(T(mat, s1, s2, i)[k]).a1]],
   t0 |-> [i \in Rows |-> [k \in Coeffs |-> power2round(T(mat, s1, s2, i)[k]).a0]]]

(* Row i of A*z - c*2^D*t1, as the verifiers find it. *)
RowSent(key, sig, i) ==
  poly_caddq(poly_sub(RowTimes(key.mat, i, sig.z),
                      Product(poly_challenge(sig.c), poly_shiftl(key.t1[i]))))

(* Mistake: the reference, too, relies on the unpacking for short z. *)
verify_unmeasured(key, mu, sig) ==
  /\ CountsFit(sig.hint) /\ Ordered(sig.hint) /\ RestIsZero(sig.hint)
  /\ LET h == UnpackHints(sig.hint)
     IN  sig.c = CTilde(mu, [i \in Rows |-> [k \in Coeffs |-> use_hint(RowSent(key, sig, i)[k], h[i][k])]])

(* crypto_sign_verify_internal, the reference *)
verify(key, mu, sig) ==
  /\ CountsFit(sig.hint) /\ Ordered(sig.hint) /\ RestIsZero(sig.hint)
  /\ \A j \in Cols : ~poly_chknorm(sig.z[j], GAMMA1 - BETA)
  /\ LET h == UnpackHints(sig.hint)
     IN  sig.c = CTilde(mu, [i \in Rows |-> [k \in Coeffs |-> use_hint(RowSent(key, sig, i)[k], h[i][k])]])

(* The same of avx2: the hints are read row by row, and z is not measured. *)
verify_avx(key, mu, sig) ==
  /\ CountsFit(sig.hint) /\ Ordered(sig.hint) /\ RestIsZero(sig.hint)
  /\ LET h == UnpackHints(sig.hint)
     IN  sig.c = CTilde(mu, [i \in Rows |-> [k \in Coeffs |-> use_hint_avx(RowSent(key, sig, i)[k], h[i][k])]])
-----------------------------------------------------------------------------
VARIABLES
  key, mu,
  pc,              \* of the reference signer, or "received"
  y, w1, w0, z,    \* its vectors
  sig,             \* the signature it wrote, or one received
  avx,             \* where the AVX2 signer is
  i, pos,          \* its row and the hints stored
  low,             \* tmpv.w0
  hint             \* its bytes of the signature from `hint` on

vars == <<key, mu, pc, y, w1, w0, z, sig, avx, i, pos, low, hint>>
avxVars == <<avx, i, pos, low, hint>>

Zero == [k \in Coeffs |-> 0]
ZeroRows == [r \in Rows |-> Zero]
ZeroCols == [j \in Cols |-> Zero]
c == CTilde(mu, w1)
cp == poly_challenge(c)
Blank == [c |-> CTilde(mu, ZeroRows), z |-> ZeroCols, hint |-> [p \in Places |-> 0]]

Init ==
  /\ \E mat \in Matrices, s1 \in Secrets1, s2 \in Secrets2 : key = Keypair(mat, s1, s2)
  /\ mu \in Messages
  /\ pc = "rej" /\ avx = "rej"
  /\ y = ZeroCols /\ w1 = ZeroRows /\ w0 = ZeroRows /\ z = ZeroCols /\ sig = Blank
  /\ i = 0 /\ pos = 0 /\ low = ZeroRows
  /\ hint = [p \in Places |-> Junk]

(* polyvecl_uniform_gamma1 and the commitment, the same in both builds. *)
Commit ==
  /\ pc = "rej" /\ avx = "rej"
  /\ y' \in [Cols -> Polynomials(-(GAMMA1 - 1) .. GAMMA1)]
  /\ LET w(r) == poly_caddq(RowTimes(key.mat, r, y'))
     IN  /\ w1' = [r \in Rows |-> [k \in Coeffs |-> decompose(w(r)[k]).a1]]
         /\ w0' = [r \in Rows |-> [k \in Coeffs |-> decompose(w(r)[k]).a0]]
  /\ pc' = "z" /\ avx' = "z" /\ low' = w0'
  /\ UNCHANGED <<key, mu, z, sig, i, pos, hint>>

Response == [j \in Cols |-> poly_reduce(poly_add(Product(cp, key.s1[j]), y[j]))]

Respond ==
  /\ pc = "z" /\ z' = Response
  /\ pc' = IF \E j \in Cols : poly_chknorm(z'[j], GAMMA1 - BETA) THEN "rejected" ELSE "low"
  /\ UNCHANGED <<key, mu, y, w1, w0, sig>> /\ UNCHANGED avxVars

LowBits ==
  /\ pc = "low"
  /\ w0' = [r \in Rows |-> poly_reduce(poly_sub(w0[r], Product(cp, key.s2[r])))]
  /\ pc' = IF \E r \in Rows : poly_chknorm(w0'[r], GAMMA2 - BETA) THEN "rejected" ELSE "hints"
  /\ UNCHANGED <<key, mu, y, w1, z, sig>> /\ UNCHANGED avxVars

CT0(r) == poly_reduce(Product(cp, key.t0[r]))
Hints(rows) == [r \in Rows |-> [k \in Coeffs |-> make_hint(rows[r][k], w1[r][k])]]

LargeError ==
  /\ pc = "hints" /\ \E r \in Rows : poly_chknorm(CT0(r), GAMMA2)
  /\ pc' = "rejected"
  /\ UNCHANGED <<key, mu, y, w1, w0, z, sig>> /\ UNCHANGED avxVars

Write ==
  /\ pc = "hints" /\ \A r \in Rows : ~poly_chknorm(CT0(r), GAMMA2)
  /\ w0' = [r \in Rows |-> poly_add(w0[r], CT0(r))]
  /\ IF Cardinality(Ones(Hints(w0'))) > OMEGA THEN pc' = "rejected" /\ UNCHANGED sig
     ELSE pc' = "written" /\ sig' = [c |-> c, z |-> z, hint |-> PackHints(Hints(w0'))]
  /\ UNCHANGED <<key, mu, y, w1, z>> /\ UNCHANGED avxVars
-----------------------------------------------------------------------------
(* The AVX2 signer, once the reference has ended its attempt. *)
RefEnded == pc \in {"rejected", "written"}
refVars == <<key, mu, pc, y, w1, w0, z, sig>>

AvxRespond ==
  /\ RefEnded /\ avx = "z"
  /\ IF \E j \in Cols : poly_chknorm(Response[j], GAMMA1 - BETA)
     THEN avx' = "rejected" /\ UNCHANGED <<i, pos, hint>>
     ELSE /\ avx' = "row" /\ i' = 0 /\ pos' = 0
          /\ hint' = [p \in Places |-> IF p < OMEGA THEN 0 ELSE hint[p]]
  /\ UNCHANGED low /\ UNCHANGED refVars

(* poly_make_hint: the places of the ones in hintbuf, and how many. *)
Hintbuf(a0) == {k \in Coeffs : make_hint(a0[k], w1[i][k])}

AvxRow ==
  LET l0 == poly_reduce(poly_sub(low[i], Product(cp, key.s2[i])))
      l1 == poly_add(l0, CT0(i))
      places == Hintbuf(l1)
      n == Cardinality(places)
      At(p) == CHOOSE k \in places : Cardinality({o \in places : o < k}) = p - pos
  IN  /\ RefEnded /\ avx = "row"
      /\ IF poly_chknorm(l0, GAMMA2 - BETA)
         THEN avx' = "rejected" /\ low' = [low EXCEPT ![i] = l0] /\ UNCHANGED <<i, pos, hint>>
         ELSE IF poly_chknorm(CT0(i), GAMMA2)
         THEN avx' = "rejected" /\ low' = [low EXCEPT ![i] = l0] /\ UNCHANGED <<i, pos, hint>>
         ELSE /\ low' = [low EXCEPT ![i] = l1]
              /\ IF pos + n > OMEGA
                 THEN avx' = "rejected" /\ UNCHANGED <<i, pos, hint>>
                 ELSE /\ hint' = [p \in Places |-> IF p = OMEGA + i THEN pos + n
                                                   ELSE IF pos <= p /\ p < pos + n THEN At(p) ELSE hint[p]]
                      /\ pos' = pos + n /\ i' = i + 1
                      /\ avx' = IF i = K - 1 THEN "written" ELSE "row"
      /\ UNCHANGED refVars

(* goto rej, in both *)
Again ==
  /\ pc = "rejected" /\ avx = "rejected"
  /\ pc' = "rej" /\ avx' = "rej"
  /\ y' = ZeroCols /\ w1' = ZeroRows /\ w0' = ZeroRows /\ z' = ZeroCols /\ low' = ZeroRows /\ i' = 0 /\ pos' = 0
  /\ UNCHANGED <<key, mu, sig, hint>>
-----------------------------------------------------------------------------
(* Somebody's signature, as unpacking finds it. *)
Receive ==
  /\ pc = "rej" /\ avx = "rej" /\ hint = [p \in Places |-> Junk]
  /\ \E v \in [Cols -> Polynomials(-(GAMMA1 - 1) .. GAMMA1)], u \in [Rows -> Polynomials(0 .. Levels - 1)],
        b \in {f \in [Places -> 0 .. OMEGA + 1] : \A p \in Places : p < OMEGA => f[p] \in Coeffs} :
        sig' = [c |-> CTilde(mu, u), z |-> v, hint |-> b]
  /\ pc' = "received"
  /\ UNCHANGED <<key, mu, y, w1, w0, z>> /\ UNCHANGED avxVars

Next ==
  \/ Commit \/ Respond \/ LowBits \/ LargeError \/ Write \/ AvxRespond \/ AvxRow \/ Again
  \/ Receive
Spec == Init /\ [][Next]_vars
-----------------------------------------------------------------------------
(* A signature verifies, with both verifiers: the high bits of w survive   *)
(* what the verifier cannot subtract (sign.c:160-183 and 330-344).         *)
AcceptsWhatWasSigned ==
  pc = "written" => verify(key, mu, sig) /\ verify_avx(key, mu, sig)

(* Both signers reject the same attempts and write the same bytes, though  *)
(* one makes its checks vector by vector and the other row by row, storing *)
(* hints before the last row is checked (avx2/sign.c:278).                 *)
SignersAgree ==
  avx \in {"rejected", "written"} =>
    avx = pc /\ (avx = "written" => hint = sig.hint)

(* The z of a signature could come from every other s1: for each there is  *)
(* a y that sampling can give (sign.c:161).                                *)
EveryKeyExplainsZ ==
  pc = "written" =>
    \A s \in Secrets1, j \in Cols :
       LET d == poly_sub(z[j], Product(cp, s[j]))
       IN  \A k \in Coeffs : d[k] \in -(GAMMA1 - 1) .. GAMMA1

Short(s) == \A j \in Cols : ~poly_chknorm(s.z[j], GAMMA1 - BETA)
(* A hint where the low part is 0; no signer makes one. *)
HintAtZero(s) ==
  CountsFit(s.hint) /\ \E r \in Rows, k \in Coeffs :
    UnpackHints(s.hint)[r][k] /\ decompose(RowSent(key, s, r)[k]).a0 = 0

(* The verifiers do NOT agree on whatever is received.  Without a hint at  *)
(* a low part of 0 the AVX2 one accepts what the reference accepts and, as *)
(* it does not measure z, the same signatures with a z that is not short;  *)
(* with such a hint no signature is accepted by both (ref/sign.c:314,      *)
(* avx2/sign.c:405, rounding.c:187).  However the hints are encoded there  *)
(* is no other difference.                                                 *)
VerifiersDiffer ==
  pc = "received" =>
    IF HintAtZero(sig) THEN ~(verify(key, mu, sig) /\ verify_avx(key, mu, sig))
    ELSE verify(key, mu, sig) <=> Short(sig) /\ verify_avx(key, mu, sig)

=============================================================================
