--------------------------- MODULE MlDsaSampling ---------------------------
(***************************************************************************)
(* Rejection sampling of polynomials: poly_uniform (three bytes to a       *)
(* candidate) and poly_uniform_eta (two candidates to a byte), the         *)
(* reference (ref/poly.c) and the AVX2 build, which takes LANES candidates *)
(* at a time from the first blocks (avx2/rejsample.c) and in the 4x forms  *)
(* samples several polynomials side by side (avx2/poly.c).                 *)
(* A byte is its place in the output of SHAKE, a coefficient the candidate *)
(* it came from; which candidates are accepted is chosen at the start.     *)
(***************************************************************************)
EXTENDS Integers, FiniteSets, Sequences

CONSTANTS
  N,                  \* coefficients
  Rates, Blocks,      \* by kind: bytes of a block, blocks squeezed first
  LANES,              \* 8 in the code
  Builds,             \* of "ref", "avx2" and "x4"
  Polys,              \* polynomials of the 4x forms: 4 in the code
  Patterns            \* sets of candidates, by number, that are rejected

Kinds == {"uniform", "eta"}
SizesAssumption ==
  /\ N \in Nat \ {0} /\ Polys \in Nat \ {0}
  /\ Rates \in [Kinds -> SUBSET (Nat \ {0})] /\ Blocks \in [Kinds -> Nat \ {0}]
  /\ LANES \in Nat \ {0} /\ LANES <= N /\ LANES % 2 = 0
BuildsAssumption == Builds \subseteq {"ref", "avx2", "x4"}
PatternsAssumption == \A s \in Patterns : s \subseteq Nat /\ IsFiniteSet(s)

VARIABLES
  kind, build, rate,
  bad,               \* per polynomial: the candidates that are rejected
  pc, p,             \* where it is, and with which polynomial
  squeezed,          \* bytes squeezed so far, of each polynomial
  buf, buflen,       \* the bytes in the buffer of each polynomial
  a, ctr,            \* the coefficients of each polynomial and their number
  pos, step,         \* in the buffer, and in a vector of candidates
  stores             \* history: the places in a the vector code wrote

vars == <<kind, build, rate, bad, pc, p, squeezed, buf, buflen, a, ctr, pos, step, stores>>

Lanes == 0 .. (IF build = "x4" THEN Polys - 1 ELSE 0)

(* Candidates by the bytes they are made of: 24 bits, or a half of a byte. *)
Uniform(b, at) == <<b[at], b[at + 1], b[at + 2]>>
Eta(b, at, half) == <<b[at], half, 0>>
InOrder(k) == IF kind = "uniform" THEN <<3 * k, 3 * k + 1, 3 * k + 2>> ELSE <<k \div 2, k % 2, 0>>
Accepted(l, candidate) == \A k \in bad[l] : candidate # InOrder(k)

Bytes(from, n) == [i \in 0 .. n - 1 |-> from + i]
None == <<>>

Init ==
  /\ kind \in Kinds /\ build \in Builds /\ rate \in Rates[kind]
  /\ kind = "uniform" /\ build # "ref" => rate % 3 = 0
  /\ bad \in [Lanes -> Patterns]
  /\ pc = "vector" /\ p = 0 /\ pos = 0 /\ step = 0
  /\ squeezed = Blocks[kind] * rate /\ buf = Bytes(0, squeezed) /\ buflen = squeezed
  /\ a = [l \in Lanes |-> [i \in 0 .. N - 1 |-> None]]
  /\ ctr = [l \in Lanes |-> 0]
  /\ stores = {}

Vectorised == build # "ref" /\ squeezed = Blocks[kind] * rate

(* What storeu writes: the accepted candidates in order, as idxlut lists   *)
(* them, and where there are fewer than LANES the first one again.         *)
Select(l, cs) ==
  LET chosen == {k \in 0 .. LANES - 1 : Accepted(l, cs[k])}
      nth(m) == CHOOSE k \in chosen : Cardinality({o \in chosen : o < k}) = m
  IN  [n |-> Cardinality(chosen),
       lane |-> [m \in 0 .. LANES - 1 |-> IF m < Cardinality(chosen) THEN cs[nth(m)] ELSE cs[0]]]

Store(l, cs) ==
  LET s == Select(l, cs)
  IN  /\ a' = [a EXCEPT ![l] = [i \in 0 .. N - 1 |->
                 IF ctr[l] <= i /\ i < ctr[l] + LANES THEN s.lane[i - ctr[l]] ELSE a[l][i]]]
      /\ ctr' = [ctr EXCEPT ![l] = @ + s.n]
      /\ stores' = stores \cup {ctr[l] + LANES - 1}

(* rej_uniform_avx: 24 bytes at a time, while a whole vector has room.     *)
VectorUniform ==
  /\ pc = "vector" /\ Vectorised /\ kind = "uniform"
  /\ pos <= buflen - 3 * LANES /\ ctr[p] <= N - LANES
  /\ Store(p, [k \in 0 .. LANES - 1 |-> Uniform(buf, pos + 3 * k)])
  /\ pos' = pos + 3 * LANES
  /\ UNCHANGED <<kind, build, rate, bad, pc, p, squeezed, buf, buflen, step>>

(* rej_eta_avx: 16 bytes are loaded and used in four steps.                *)
EtaLanes(from) == [k \in 0 .. LANES - 1 |-> Eta(buf, from + k \div 2, k % 2)]
MoreEta == ctr[p] <= N - LANES /\ (step > 0 \/ pos <= buflen - 2 * LANES)
(* Mistake: a vector that is begun counts as used up. *)
VectorEtaWhole ==
  /\ pc = "vector" /\ Vectorised /\ kind = "eta" /\ MoreEta
  /\ Store(p, EtaLanes(pos + step * (LANES \div 2)))
  /\ step' = (step + 1) % 4
  /\ pos' = IF step = 3 \/ ctr'[p] > N - LANES THEN pos + 2 * LANES ELSE pos
  /\ UNCHANGED <<kind, build, rate, bad, pc, p, squeezed, buf, buflen>>
VectorEta ==
  /\ pc = "vector" /\ Vectorised /\ kind = "eta" /\ MoreEta
  /\ Store(p, EtaLanes(pos))
  /\ step' = (step + 1) % 4
  /\ pos' = pos + LANES \div 2
  /\ UNCHANGED <<kind, build, rate, bad, pc, p, squeezed, buf, buflen>>

VectorEnd ==
  /\ pc = "vector"
  /\ \/ ~Vectorised
     \/ kind = "uniform" /\ (pos > buflen - 3 * LANES \/ ctr[p] > N - LANES)
     \/ kind = "eta" /\ ~MoreEta
  /\ pc' = "scalar" /\ step' = 0
  /\ UNCHANGED <<kind, build, rate, bad, p, squeezed, buf, buflen, a, ctr, pos, stores>>

(* A coefficient if the candidate is accepted and there is room. *)
Keep(l, cs) ==
  LET first == Len(cs) > 0 /\ Accepted(l, cs[1])
      second == Len(cs) > 1 /\ Accepted(l, cs[2]) /\ ctr[l] + (IF first THEN 1 ELSE 0) < N
      at == ctr[l] + (IF first THEN 1 ELSE 0)
  IN  /\ a' = [a EXCEPT ![l] = [i \in 0 .. N - 1 |->
                 IF first /\ i = ctr[l] THEN cs[1] ELSE IF second /\ i = at THEN cs[2] ELSE a[l][i]]]
      /\ ctr' = [ctr EXCEPT ![l] = at + (IF second THEN 1 ELSE 0)]

(* rej_uniform and the end of rej_uniform_avx *)
ScalarUniform ==
  /\ pc = "scalar" /\ kind = "uniform" /\ ctr[p] < N /\ pos + 3 <= buflen
  /\ Keep(p, <<Uniform(buf, pos)>>) /\ pos' = pos + 3
  /\ UNCHANGED <<kind, build, rate, bad, pc, p, squeezed, buf, buflen, step, stores>>

(* rej_eta and the end of rej_eta_avx *)
ScalarEta ==
  /\ pc = "scalar" /\ kind = "eta" /\ ctr[p] < N /\ pos < buflen
  /\ Keep(p, <<Eta(buf, pos, 0), Eta(buf, pos, 1)>>) /\ pos' = pos + 1
  /\ UNCHANGED <<kind, build, rate, bad, pc, p, squeezed, buf, buflen, step, stores>>

Exhausted == ctr[p] = N \/ (kind = "uniform" /\ pos + 3 > buflen) \/ (kind = "eta" /\ pos >= buflen)

NextPoly ==
  /\ pc = "scalar" /\ Exhausted /\ p + 1 \in Lanes
  /\ p' = p + 1 /\ pos' = 0 /\ pc' = "vector"
  /\ UNCHANGED <<kind, build, rate, bad, squeezed, buf, buflen, a, ctr, step, stores>>

(* Bytes that make no candidate go first; the vector code relies on there  *)
(* being none.                                                             *)
Left == IF kind = "uniform" /\ build = "ref" THEN buflen % 3 ELSE 0

Squeeze ==
  /\ pc = "scalar" /\ Exhausted /\ p + 1 \notin Lanes /\ \E l \in Lanes : ctr[l] < N
  /\ buf' = [i \in 0 .. Left + rate - 1 |-> IF i < Left THEN buf[buflen - Left + i] ELSE squeezed + i - Left]
  /\ buflen' = rate + Left /\ squeezed' = squeezed + rate
  /\ p' = 0 /\ pos' = 0 /\ pc' = "vector"
  /\ UNCHANGED <<kind, build, rate, bad, a, ctr, step, stores>>

Finish ==
  /\ pc = "scalar" /\ Exhausted /\ p + 1 \notin Lanes /\ \A l \in Lanes : ctr[l] = N
  /\ pc' = "done"
  /\ UNCHANGED <<kind, build, rate, bad, p, squeezed, buf, buflen, a, ctr, pos, step, stores>>

Next ==
  \/ VectorUniform \/ VectorEta \/ VectorEnd \/ ScalarUniform \/ ScalarEta
  \/ NextPoly \/ Squeeze \/ Finish
Spec == Init /\ [][Next]_vars
-----------------------------------------------------------------------------
(* The k-th candidate, from 0, that is accepted.                           *)
Nth(l, k) ==
  InOrder(CHOOSE c \in 0 .. N + Cardinality(bad[l]) - 1 :
            c \notin bad[l] /\ Cardinality((0 .. c - 1) \ bad[l]) = k)

(* Whatever is rejected, a polynomial consists of the first N candidates   *)
(* of the stream that are accepted: no byte is left out or used twice      *)
(* between vectors, the scalar end, and further blocks; every build gives  *)
(* the same polynomial (ref/poly.c:359, avx2/rejsample.c:324).             *)
FirstAccepted ==
  pc = "done" => \A l \in Lanes, k \in 0 .. N - 1 : a[l][k] = Nth(l, k)

(* The vector code stores LANES coefficients even where fewer are          *)
(* accepted, and never beyond the polynomial (avx2/rejsample.c:291).       *)
StoresInBounds == \A s \in stores : s < N
=============================================================================
