----------------------------- MODULE MlDsaHints -----------------------------
(***************************************************************************)
(* The hints in an ML-DSA signature: pack_sig lists the places of the ones *)
(* of each polynomial and counts them, unpack_sig reads that list back     *)
(* from bytes that anybody may have written (packing.c).  A polynomial of  *)
(* hints is the set of the places of its ones.                             *)
(***************************************************************************)
EXTENDS Integers, FiniteSets

CONSTANTS N, K, OMEGA
SizesAssumption == N \in Nat \ {0} /\ K \in Nat \ {0} /\ OMEGA \in Nat \ {0} /\ OMEGA < N

Byte == 0 .. N - 1              \* N is 256: a place fits a byte exactly
Polys == 0 .. K - 1
Places == 0 .. OMEGA + K - 1    \* POLYVECH_PACKEDBYTES of them

VARIABLES
  route,          \* "sign": hints to bytes and back; "verify": bytes to hints and back
  phase,          \* "pack", "unpack", "done" or "rejected"
  i, j, k,        \* the variables of both functions
  sig,            \* the bytes
  h,              \* the polynomials
  first           \* history: the hints or bytes the route began with

vars == <<route, phase, i, j, k, sig, h, first>>

Ones(hints) == {q \in Polys \X Byte : q[2] \in hints[q[1]]}

(* sign.c: with more than OMEGA ones the signer starts again. *)
FewEnough(hints) == Cardinality(Ones(hints)) <= OMEGA

Empty == [p \in Polys |-> {}]
Zeros == [b \in Places |-> 0]

Init ==
  /\ i = 0 /\ j = 0 /\ k = 0
  /\ \/ /\ route = "sign" /\ phase = "pack"
        /\ h \in [Polys -> SUBSET Byte] /\ FewEnough(h)
        /\ sig = Zeros /\ first = h
     \/ /\ route = "verify" /\ phase = "unpack"
        /\ sig \in [Places -> Byte]
        /\ h = Empty /\ first = sig

(* pack_sig: one turn of the inner loop; the last one writes the count.    *)
PackCoefficient ==
  LET one == j \in h[i]
      next == IF one THEN k + 1 ELSE k
      listed == IF one THEN [sig EXCEPT ![k] = j] ELSE sig
  IN  /\ phase = "pack" /\ i < K
      /\ k' = next
      /\ IF j < N - 1 THEN j' = j + 1 /\ sig' = listed /\ UNCHANGED i
         ELSE j' = 0 /\ i' = i + 1 /\ sig' = [listed EXCEPT ![OMEGA + i] = next]
      /\ UNCHANGED <<route, phase, h, first>>

PackEnd ==
  /\ phase = "pack" /\ i = K
  /\ i' = 0 /\ j' = 0 /\ k' = 0
  /\ IF route = "sign" THEN phase' = "unpack" ELSE phase' = "done"
  /\ UNCHANGED <<route, sig, h, first>>

Reject ==
  /\ phase' = "rejected"
  /\ UNCHANGED <<route, i, j, k, sig, first>>

(* unpack_sig, at the head of the outer loop, where j = k: the polynomial  *)
(* is cleared and its count checked.                                       *)
UnpackCount ==
  /\ phase = "unpack" /\ i < K /\ j = k
  /\ h' = [h EXCEPT ![i] = {}]
  /\ sig[OMEGA + i] < k \/ sig[OMEGA + i] > OMEGA
  /\ Reject

(* Mistake: a place may be listed twice. *)
OutOfOrderStrictly == j > k /\ sig[j] < sig[j - 1]

(* Places are ordered, so that each set of hints has one encoding. *)
OutOfOrder == j > k /\ sig[j] <= sig[j - 1]

CountFits == sig[OMEGA + i] >= k /\ sig[OMEGA + i] <= OMEGA
Cleared == IF j = k THEN [h EXCEPT ![i] = {}] ELSE h

(* One turn of the inner loop. *)
UnpackPlace ==
  /\ phase = "unpack" /\ i < K /\ CountFits /\ j < sig[OMEGA + i]
  /\ IF OutOfOrder THEN h' = Cleared /\ Reject
     ELSE /\ h' = [Cleared EXCEPT ![i] = @ \cup {sig[j]}]
          /\ j' = j + 1
          /\ UNCHANGED <<route, phase, i, k, sig, first>>

UnpackNext ==
  /\ phase = "unpack" /\ i < K /\ CountFits /\ j >= sig[OMEGA + i]
  /\ h' = Cleared
  /\ k' = sig[OMEGA + i] /\ j' = sig[OMEGA + i]
  /\ i' = i + 1
  /\ UNCHANGED <<route, phase, sig, first>>

RestIsZero == \A b \in k .. OMEGA - 1 : sig[b] = 0

(* The last loop; a verified signature is packed again, to compare.        *)
UnpackEnd ==
  /\ phase = "unpack" /\ i = K
  /\ IF ~RestIsZero THEN UNCHANGED h /\ Reject
     ELSE /\ IF route = "verify" THEN phase' = "pack" /\ sig' = Zeros ELSE phase' = "done" /\ UNCHANGED sig
          /\ i' = 0 /\ j' = 0 /\ k' = 0
          /\ UNCHANGED <<route, h, first>>

Next == PackCoefficient \/ PackEnd \/ UnpackCount \/ UnpackPlace \/ UnpackNext \/ UnpackEnd
Spec == Init /\ [][Next]_vars
-----------------------------------------------------------------------------
(* The list never runs into the counts behind it (packing.c:178): the      *)
(* signer has counted the ones before.                                     *)
ListStaysShort == phase = "pack" /\ i < K /\ j \in h[i] => k < OMEGA

(* What is packed is accepted and gives the hints back (packing.c:170-236). *)
AcceptsWhatItPacks ==
  route = "sign" => phase # "rejected" /\ (phase = "done" => h = first)

(* Bytes that are accepted are the bytes that pack_sig writes for these    *)
(* hints: a signature cannot be written in a second way (packing.c:226,    *)
(* 235: "for strong unforgeability").                                      *)
OneEncoding == route = "verify" /\ phase = "done" => sig = first

HintsAreExact == ListStaysShort /\ AcceptsWhatItPacks /\ OneEncoding
=============================================================================
