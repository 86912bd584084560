--------------------------- MODULE MlDsaRejection ---------------------------
(***************************************************************************)
(* The signing loop of ML-DSA and its nonce, in both builds (sign.c): each *)
(* attempt samples L polynomials y from rhoprime and L numbers of 16 bits, *)
(* and is given up or not by what it finds.  The loop has no bound; a y is *)
(* determined by its number, and so is the outcome of an attempt.          *)
(***************************************************************************)
EXTENDS Integers, FiniteSets

CONSTANTS
  Width,     \* 2^16: the values of a uint16_t
  Wide,      \* 2^64, likewise
  Vectors    \* the L of the parameter sets

WidthsAssumption == Width \in Nat \ {0} /\ Wide \in Nat \ {0} /\ Wide % Width = 0
VectorsAssumption == Vectors \subseteq 1 .. Width

VARIABLES
  L,
  accepted,        \* first numbers of the attempts that are not given up: two, one or none
  pc,
  nonce,           \* uint16_t of the reference
  nonceAvx,        \* uint64_t of avx2
  polys,           \* the numbers of the polynomials of this attempt, reference
  polysAvx,        \* and avx2
  used, attempts   \* history: the numbers so far, and how many attempts

vars == <<L, accepted, pc, nonce, nonceAvx, polys, polysAvx, used, attempts>>

Init ==
  /\ L \in Vectors /\ accepted \in {{a, b} : a, b \in 0 .. Width - 1} \cup {{}}
  /\ pc = "rej" /\ nonce = 0 /\ nonceAvx = 0
  /\ polys = {} /\ polysAvx = {} /\ used = {} /\ attempts = 0

(* Mistake: the nonce is not multiplied. *)
uniform_gamma1Overlapping(n) == {(n + i) % Width : i \in 0 .. L - 1}
(* polyvecl_uniform_gamma1: L*nonce + i is an int, poly_uniform_gamma1     *)
(* takes 16 bits of it.                                                    *)
uniform_gamma1(n) == {(L * n + i) % Width : i \in 0 .. L - 1}

First(n) == (L * n) % Width

Sample ==
  /\ pc = "rej" /\ pc' = "check"
  /\ polys' = uniform_gamma1(nonce) /\ nonce' = (nonce + 1) % Width
  /\ polysAvx' = {(nonceAvx + i) % Width : i \in 0 .. L - 1} /\ nonceAvx' = (nonceAvx + L) % Wide
  /\ used' = used \cup polys'
  /\ attempts' = IF attempts > Width THEN attempts ELSE attempts + 1
  /\ UNCHANGED <<L, accepted>>

(* The number the attempt began with decides, whichever checks they are.   *)
Attempted == (nonce - 1) % Width
GiveUp ==
  /\ pc = "check" /\ First(Attempted) \notin accepted /\ pc' = "rej"
  /\ UNCHANGED <<L, accepted, nonce, nonceAvx, polys, polysAvx, used, attempts>>
Write ==
  /\ pc = "check" /\ First(Attempted) \in accepted /\ pc' = "done"
  /\ UNCHANGED <<L, accepted, nonce, nonceAvx, polys, polysAvx, used, attempts>>

Next == Sample \/ GiveUp \/ Write
Spec == Init /\ [][Next]_vars
-----------------------------------------------------------------------------
(* While the 16 bits last, no polynomial y is used by two attempts of one  *)
(* signature (polyvec.c:46).                                               *)
FreshWhileTheyLast ==
  L * attempts <= Width => Cardinality(used) = L * attempts

(* Both builds sample the same y, also after 16 bits have wrapped around,  *)
(* though one counts attempts and the other polynomials (avx2/sign.c:204). *)
SameY == polysAvx = polys

NoncesAreFresh == FreshWhileTheyLast /\ SameY
=============================================================================
