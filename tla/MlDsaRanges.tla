----------------------------- MODULE MlDsaRanges -----------------------------
(***************************************************************************)
(* How large the coefficients of ML-DSA get (sign.c, polyvec.c, poly.c,    *)
(* ntt.c, reduce.c, and the AVX2 code).  Nothing is reduced that need not  *)
(* be: additions, the transform and the inverse transform let coefficients *)
(* grow towards the 31 bits they have, and later functions assume ranges.  *)
(* Each of the three functions is a list of calls on vectors; of a vector  *)
(* the model keeps the least and the greatest value its coefficients can   *)
(* have, and the state before a call is the one at which it must fit.      *)
(***************************************************************************)
EXTENDS Integers, Sequences

Q == 8380417
D == 13
MaxInt == 2147483647
Params(mode) ==
  CASE mode = 2 -> [L |-> 4, ETA |-> 2, ETABITS |-> 3, BETA |-> 78, GAMMA1 |-> 2 ^ 17, GAMMA2 |-> (Q - 1) \div 88]
    [] mode = 3 -> [L |-> 5, ETA |-> 4, ETABITS |-> 4, BETA |-> 196, GAMMA1 |-> 2 ^ 19, GAMMA2 |-> (Q - 1) \div 32]
    [] mode = 5 -> [L |-> 7, ETA |-> 2, ETABITS |-> 3, BETA |-> 120, GAMMA1 |-> 2 ^ 19, GAMMA2 |-> (Q - 1) \div 32]

VARIABLES
  mode, build,   \* "ref" or "avx2"
  call, pc,      \* the function and the next of its calls
  level,         \* of a transform, or the term of a sum
  range,         \* of each vector
  entry          \* how large the coefficients were when the transform began

vars == <<mode, build, call, pc, level, range, entry>>
M == Params(mode)

(* ---- ranges ---- *)
Between(lo, hi) == [lo |-> lo, hi |-> hi]
Within(m) == Between(-m, m)
Largest(r) == IF -r.lo > r.hi THEN -r.lo ELSE r.hi
InMask(B, r) == Between(IF r.lo > 1 - B THEN r.lo ELSE 1 - B, IF r.hi < B - 1 THEN r.hi ELSE B - 1)

(* At least x * y / 2^32. *)
High(x, y) == ((x \div 65536) + 1) * ((y \div 65536) + 1)

(* A product as large as 2^31 * Q is divided by 2^32 after t * Q with      *)
(* |t| <= 2^31 is taken from it.                                           *)
ReducibleHigh == (Q - 1) \div 2
montgomery_reduce(high) == high + (Q - 1) \div 2

(* r = a - t*Q with a within 2^22 of t * 2^23 *)
reduce32(r) ==
  Between(((r.lo + 4194304) \div 8388608) * 8191 - 4194304, ((r.hi + 4194304) \div 8388608) * 8191 + 4194303)
caddq(r) == IF r.lo >= 0 THEN r ELSE Between(IF r.lo + Q < 0 THEN r.lo + Q ELSE 0, IF r.hi > Q - 1 THEN r.hi ELSE Q - 1)

MaxZeta == 4108315     \* of zetas[] and of the vectors' table
MontSquaredBy256 == 41978

(* ---- the three functions ---- *)
Call(f, to, a, b) == << [f |-> f, to |-> to, a |-> a, b |-> b] >>
On(f, v) == Call(f, v, v, v)

(* Mistake: the sum is not reduced before the inverse transform. *)
TimesUnreduced(w, z) ==
  IF build = "ref" THEN Call("sum", w, "A", z) ELSE Call("sum64", w, "A", z)

(* The AVX2 code adds the terms of a sum in 64 bits and reduces them once. *)
Times(w, z) ==
  IF build = "ref" THEN Call("sum", w, "A", z) \o On("reduce", w) ELSE Call("sum64", w, "A", z)

crypto_sign_keypair ==
  On("ntt", "s1") \o Times("t1", "s1") \o On("invntt", "t1")
  \o Call("add", "t1", "t1", "s2") \o On("caddq", "t1") \o On("power2round", "t1")

Prepared == On("ntt", "s1") \o On("ntt", "s2") \o On("ntt", "t0")
crypto_sign_signature_internal ==
  Prepared
  \o On("sample", "y") \o Call("copy", "z", "y", "y") \o On("ntt", "z") \o Times("w1", "z") \o On("invntt", "w1")
  \o On("caddq", "w1") \o Call("decompose", "w0", "w1", "w1")
  \o On("challenge", "c") \o On("ntt", "c")
  \o Call("pointwise", "z", "c", "s1") \o On("invntt", "z") \o Call("add", "z", "z", "y")
  \o On("reduce", "z") \o On("chknorm1", "z")
  \o Call("pointwise", "h", "c", "s2") \o On("invntt", "h") \o Call("sub", "w0", "w0", "h")
  \o On("reduce", "w0") \o On("chknorm2", "w0")
  \o Call("pointwise", "h", "c", "t0") \o On("invntt", "h")
  \o On("reduce", "h") \o On("chknorm3", "h") \o Call("add", "w0", "w0", "h")

(* The AVX2 verifier leaves it to the encoding of z how large it is. *)
crypto_sign_verify_internal ==
  (IF build = "ref" THEN On("chknorm1", "z") ELSE <<>>)
  \o On("ntt", "z") \o Call(IF build = "ref" THEN "sum" ELSE "sum64", "w1", "A", "z") \o On("ntt", "c")
  \o On("shiftl", "t1") \o On("ntt", "t1") \o Call("pointwise", "t1", "c", "t1")
  \o Call("sub", "w1", "w1", "t1") \o On("reduce", "w1") \o On("invntt", "w1")
  \o On("caddq", "w1") \o On("use_hint", "w1")

Program ==
  CASE call = "keypair" -> crypto_sign_keypair
    [] call = "sign" -> crypto_sign_signature_internal
    [] call = "verify" -> crypto_sign_verify_internal
Running == pc <= Len(Program)
Op == Program[pc]
A == range[Op.a]
B == range[Op.b]

(* A fresh key has short secrets; in a secret key or a signature there may *)
(* be any bytes.                                                           *)
Eta == IF call = "keypair" THEN Within(M.ETA) ELSE Between(M.ETA - 2 ^ M.ETABITS + 1, M.ETA)
Gamma1 == Between(1 - M.GAMMA1, M.GAMMA1)
Init ==
  /\ mode \in {2, 3, 5} /\ build \in {"ref", "avx2"} /\ call \in {"keypair", "sign", "verify"}
  /\ pc = 1 /\ level = 0 /\ entry = 0
  /\ range = [v \in {"A", "s1", "s2", "t0", "t1", "y", "z", "w1", "w0", "h", "c"} |->
       CASE v = "A" -> Between(0, Q - 1)
         [] v \in {"s1", "s2"} -> Eta
         [] v = "t0" -> Between(1 - 2 ^ (D - 1), 2 ^ (D - 1))
         [] v = "t1" -> Between(0, 1023)
         [] v = "z" -> Gamma1
         [] v = "c" -> Within(1)
         [] OTHER -> Within(0)]

Put(r) == range' = [range EXCEPT ![Op.to] = r]
Step(r) == Put(r) /\ pc' = pc + 1 /\ level' = 0 /\ UNCHANGED <<mode, build, call, entry>>
Repeat(r) == Put(r) /\ level' = level + 1 /\ UNCHANGED <<mode, build, call, pc>>
Is(fs) == Running /\ Op.f \in fs
-----------------------------------------------------------------------------
(* One level: each coefficient is added a product, or it is taken away.    *)
ntt ==
  /\ Is({"ntt"}) /\ level < 8
  /\ Repeat(Within(Largest(A) + montgomery_reduce(High(MaxZeta, Largest(A)))))
  /\ entry' = IF level = 0 THEN Largest(A) ELSE entry

(* One level: the sum of two coefficients, and their difference times zeta.*)
invntt_tomont ==
  /\ Is({"invntt"}) /\ level < 8
  /\ LET product == montgomery_reduce(High(MaxZeta, 2 * Largest(A)))
     IN  Repeat(Within(IF product > 2 * Largest(A) THEN product ELSE 2 * Largest(A)))
  /\ entry' = IF level = 0 THEN Largest(A) ELSE entry
invntt_end == Is({"invntt"}) /\ level = 8 /\ Step(Within(montgomery_reduce(High(MontSquaredBy256, Largest(A)))))
ntt_end == Is({"ntt"}) /\ level = 8 /\ Step(A)

Product == montgomery_reduce(High(Largest(A), Largest(B)))
poly_pointwise_montgomery == Is({"pointwise"}) /\ Step(Within(Product))

(* polyvecl_pointwise_acc_montgomery: one term. *)
Sum(r) == Within(IF level = 0 THEN Product ELSE Largest(r) + Product)
pointwise_acc_montgomery ==
  /\ Is({"sum"})
  /\ IF level < M.L THEN Repeat(Sum(range[Op.to])) /\ UNCHANGED entry ELSE Step(range[Op.to])
pointwise_acc_avx == Is({"sum64"}) /\ Step(Within(montgomery_reduce(M.L * High(Largest(A), Largest(B)))))

poly_add == Is({"add"}) /\ Step(Between(A.lo + B.lo, A.hi + B.hi))
poly_sub == Is({"sub"}) /\ Step(Between(A.lo - B.hi, A.hi - B.lo))
poly_reduce == Is({"reduce"}) /\ Step(reduce32(A))
poly_caddq == Is({"caddq"}) /\ Step(caddq(A))
poly_shiftl == Is({"shiftl"}) /\ Step(Between(A.lo * 2 ^ D, A.hi * 2 ^ D))

Levels == (Q - 1) \div (2 * M.GAMMA2)
poly_decompose ==
  /\ Is({"decompose"}) /\ pc' = pc + 1
  /\ range' = [range EXCEPT !["w1"] = Between(0, Levels - 1), !["w0"] = Within(M.GAMMA2)]
  /\ UNCHANGED <<mode, build, call, level, entry>>
poly_power2round == Is({"power2round"}) /\ Step(Between(0, 1023))
poly_use_hint == Is({"use_hint"}) /\ Step(Between(0, Levels - 1))

(* What passes the check is smaller than the bound; what does not makes    *)
(* the signer begin again, and the verifier give up.                       *)
Bound == CASE Op.f = "chknorm1" -> M.GAMMA1 - M.BETA [] Op.f = "chknorm2" -> M.GAMMA2 - M.BETA [] OTHER -> M.GAMMA2
Checks == {"chknorm1", "chknorm2", "chknorm3"}
poly_chknorm == Is(Checks) /\ Step(InMask(Bound, A))
rej ==
  /\ Is(Checks) /\ Largest(A) >= Bound
  /\ pc' = (IF call = "sign" THEN Len(Prepared) ELSE Len(Program)) + 1
  /\ UNCHANGED <<mode, build, call, level, range, entry>>

Fill == \/ Is({"sample"}) /\ Step(Gamma1)
        \/ Is({"challenge"}) /\ Step(Within(1))
        \/ Is({"copy"}) /\ Step(A)

Next ==
  \/ ntt \/ ntt_end \/ invntt_tomont \/ invntt_end
  \/ poly_pointwise_montgomery \/ pointwise_acc_montgomery \/ pointwise_acc_avx
  \/ poly_add \/ poly_sub \/ poly_reduce \/ poly_caddq \/ poly_shiftl
  \/ poly_decompose \/ poly_power2round \/ poly_use_hint \/ poly_chknorm \/ rej \/ Fill

Spec == Init /\ [][Next]_vars
-----------------------------------------------------------------------------
Standard(r) == r.lo >= 0 /\ r.hi < Q

(* No call of either build gets coefficients it cannot take: no sum leaves *)
(* its 32 bits, no product the range of Montgomery reduction, and what is  *)
(* rounded is the standard representative, whatever bytes a secret key, a  *)
(* public key or a signature has (reduce.c:5-51, rounding.c:7, 27).        *)
OperandsFit ==
  Running =>
    CASE Op.f = "ntt" -> Largest(A) <= MaxInt - montgomery_reduce(High(MaxZeta, Largest(A)))
      [] Op.f = "invntt" -> level < 8 => Largest(A) <= MaxInt \div 2
      [] Op.f = "pointwise" -> High(Largest(A), Largest(B)) <= ReducibleHigh
      [] Op.f = "sum" -> /\ High(Largest(A), Largest(B)) <= ReducibleHigh
                         /\ level > 0 => Largest(range[Op.to]) <= MaxInt - Product
      [] Op.f = "sum64" -> M.L * High(Largest(A), Largest(B)) <= ReducibleHigh
      [] Op.f \in {"add", "sub"} -> Largest(A) <= MaxInt - Largest(B)
      [] Op.f = "reduce" -> A.hi <= MaxInt - 4194304
      [] Op.f = "caddq" -> A.lo > -Q /\ A.hi < Q
      [] Op.f = "shiftl" -> A.lo >= 0 /\ A.hi <= MaxInt \div 2 ^ D
      [] Op.f \in {"decompose", "power2round", "use_hint"} -> Standard(A)
      [] Op.f \in Checks -> Largest(A) <= 6283009
      [] OTHER -> TRUE

(* The transforms get and give what their comments say: the inverse takes  *)
(* and gives coefficients below Q, and the forward one adds at most 16*Q   *)
(* (ntt.c:72-77, polyvec.c:76).                                            *)
TransformsAsDocumented ==
  Running =>
    /\ Op.f = "invntt" /\ level = 0 => Largest(A) < Q
    /\ Op.f = "invntt" /\ level = 8 => montgomery_reduce(High(MontSquaredBy256, Largest(A))) < Q
    /\ Op.f = "ntt" /\ level = 8 => Largest(A) - entry <= 16 * Q
=============================================================================
