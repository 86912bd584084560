--------------------------- MODULE MlDsaChallenge ---------------------------
(***************************************************************************)
(* poly_challenge: the polynomial with TAU coefficients 1 or -1 and the    *)
(* rest 0 that the signer multiplies the key with (ref/poly.c and          *)
(* avx2/poly.c). The first bytes of SHAKE are the signs; each later byte   *)
(* is a place, taken if it is not beyond the coefficient to be filled.     *)
(***************************************************************************)
EXTENDS Integers, FiniteSets

CONSTANTS
  N, TAU,        \* coefficients, and those that are not zero
  RATE,          \* bytes of a block of SHAKE
  SIGNBYTES,     \* bytes of signs: 8 in the code
  SIGNS,         \* their bits: 64 in the code
  BYTE           \* values of a byte: 256 in the code

SizesAssumption ==
  /\ N \in Nat \ {0} /\ TAU \in 1 .. N /\ SIGNS \in Nat /\ TAU <= SIGNS
  /\ RATE \in Nat /\ SIGNBYTES \in 1 .. RATE /\ BYTE \in Nat /\ N <= BYTE

VARIABLES
  i,             \* the coefficient to be filled
  c,             \* the coefficients
  signs,         \* the bits that are left, the lowest first
  pos,           \* the next byte of the block
  uses,          \* history: how often each byte of the block was used
  draws,         \* history: the places that were taken
  drawn          \* history: the signs at the start

vars == <<i, c, signs, pos, uses, draws, drawn>>

Init ==
  /\ i = N - TAU /\ c = [j \in 0 .. N - 1 |-> 0]
  /\ signs \in [0 .. SIGNS - 1 -> {0, 1}] /\ drawn = signs
  /\ pos = SIGNBYTES
  /\ uses = [k \in 0 .. RATE - 1 |-> IF k < SIGNBYTES THEN 1 ELSE 0]
  /\ draws = [j \in {} |-> 0]

(* signs >>= 1 *)
Shift(s) == [k \in 0 .. SIGNS - 1 |-> IF k + 1 < SIGNS THEN s[k + 1] ELSE 0]

(* Mistake: the coefficient cannot stay where it is. *)
BeyondOrAt(b, at) == b >= at
Beyond(b, at) == b > at

(* c[i] = c[b] and then c[b] = 1 or -1: with b = i the second one stays.   *)
Insert(b, sign) == [[c EXCEPT ![i] = c[b]] EXCEPT ![b] = sign]

(* The place in the block, a new one if this one is used up. *)
Byte == IF pos >= RATE THEN 0 ELSE pos

Place ==
  \E b \in 0 .. BYTE - 1 :
    /\ i < N
    /\ pos' = Byte + 1
    /\ uses' = [k \in 0 .. RATE - 1 |->
                 (IF pos >= RATE THEN 0 ELSE uses[k]) + (IF k = Byte THEN 1 ELSE 0)]
    /\ IF Beyond(b, i)
       THEN UNCHANGED <<i, c, signs, draws>>
       ELSE /\ c' = Insert(b, 1 - 2 * signs[0]) /\ signs' = Shift(signs)
            /\ i' = i + 1
            /\ draws' = [j \in DOMAIN draws \cup {i} |-> IF j = i THEN b ELSE draws[j]]
    /\ UNCHANGED drawn

Spec == Init /\ [][Place]_vars
-----------------------------------------------------------------------------
Places == {j \in 0 .. N - 1 : c[j] # 0}
Filling == N - TAU .. N - 1

(* The places after n draws by Floyd's method of drawing a set, from the   *)
(* draws alone.                                                            *)
Drawn(d, n) ==
  LET set[k \in 0 .. TAU] ==
        IF k = 0 THEN {}
        ELSE LET at == N - TAU + k - 1
             IN  set[k - 1] \cup {IF d[at] \in set[k - 1] THEN at ELSE d[at]}
  IN  set[n]
Draws == {d \in [Filling -> 0 .. N - 1] : \A j \in Filling : ~Beyond(d[j], j)}
Orders == LET factorial[n \in 0 .. TAU] == IF n = 0 THEN 1 ELSE n * factorial[n - 1]
                IN  factorial[TAU]

(* At every coefficient exactly as many are set as have been drawn, all of *)
(* them before it and each 1 or -1: in the end the weight is TAU, whatever *)
(* places coincide (ref/poly.c:517).                                       *)
HasWeight ==
  /\ Cardinality(Places) = i - (N - TAU)
  /\ \A j \in Places : j < i /\ c[j] \in {1, -1}

(* The places are those that Floyd's method draws, so each set of TAU     *)
(* places is drawn as often as any other: by TAU! of the sequences of      *)
(* places that are accepted (ref/poly.c:515).                              *)
AllPlacesAlike ==
  /\ Places = Drawn(draws, i - (N - TAU))
  /\ i = N => /\ draws \in Draws
              /\ Cardinality({d \in Draws : Drawn(d, TAU) = Places}) = Orders

(* Each sign is used for one place: the coefficients -1 are as many as the *)
(* bits that were set, among as many bits as places (ref/poly.c:519).      *)
SignsSpent ==
  Cardinality({j \in Places : c[j] = -1}) =
    Cardinality({k \in 0 .. i - (N - TAU) - 1 : drawn[k] = 1})

(* No byte of SHAKE is used twice, as a sign or as a place, and none that  *)
(* follows the signs is left out (ref/poly.c:503-515).                     *)
EachByteOnce == \A k \in 0 .. RATE - 1 : uses[k] = IF k < pos THEN 1 ELSE 0
=============================================================================
