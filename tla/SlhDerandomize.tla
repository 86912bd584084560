--------------------------- MODULE SlhDerandomize ---------------------------
(***************************************************************************)
(* slh_dsa_derandomize, src/slh_dsa/utils.c: secret key and message are    *)
(* folded into 64 bytes with exclusive or, and the 64 bytes are mixed ten  *)
(* times in place.  Everything is linear and every bit of a byte is        *)
(* treated alike, so a byte is the set of input bytes, by index in         *)
(* `combined`, whose exclusive or it is.                                   *)
(***************************************************************************)
EXTENDS Integers, FiniteSets

CONSTANTS
  Lengths,     \* lengths of the message
  Changes      \* sets of input bytes that two calls may differ in

LengthsAssumption == Lengths \subseteq Nat
ChangesAssumption == \A S \in Changes : S \subseteq Nat /\ IsFiniteSet(S)

CRYPTO_SECRETKEYBYTES == 64
Index == 0 .. 63
Xor(x, y) == (x \ y) \cup (y \ x)
Unset == -1           \* no input byte: what the caller's memory held before

VARIABLES
  mlen, pc,
  combined,      \* the bytes of the block: how many, and whether they are there
  buffer, i, j,
  seed

vars == <<mlen, pc, combined, buffer, i, j, seed>>
combined_len == mlen + CRYPTO_SECRETKEYBYTES

Init ==
  /\ mlen \in Lengths /\ pc = "alloc" /\ combined = "none"
  /\ buffer = [k \in Index |-> {}] /\ i = 0 /\ j = 0
  /\ seed = [k \in Index |-> {Unset}]

Alloc ==
  /\ pc = "alloc" /\ pc' = "fold" /\ combined' = "filled"
  /\ UNCHANGED <<mlen, buffer, i, j, seed>>

(* malloc gives NULL: the seed is zero. *)
NoMemory ==
  /\ pc = "alloc" /\ pc' = "done" /\ seed' = [k \in Index |-> {}]
  /\ UNCHANGED <<mlen, combined, buffer, i, j>>

(* Mistake: one block only. *)
FoldFirstBlock ==
  /\ pc = "fold" /\ i < 64
  /\ buffer' = [buffer EXCEPT ![i % 64] = Xor(@, {i})]
  /\ i' = (IF i + 1 = 64 THEN 0 ELSE i + 1)
  /\ pc' = IF i + 1 = 64 THEN "mix" ELSE "fold"
  /\ UNCHANGED <<mlen, combined, j, seed>>
Fold ==
  /\ pc = "fold"
  /\ buffer' = [buffer EXCEPT ![i % 64] = Xor(@, {i})]
  /\ i' = (IF i + 1 = combined_len THEN 0 ELSE i + 1)
  /\ pc' = IF i + 1 = combined_len THEN "mix" ELSE "fold"
  /\ UNCHANGED <<mlen, combined, j, seed>>

(* What was written before is read again where the index wraps around. *)
Mix ==
  /\ pc = "mix"
  /\ buffer' = [buffer EXCEPT ![j] = Xor(Xor(buffer[(j + 1) % 64], buffer[(j + 7) % 64]), buffer[(j + 13) % 64])]
  /\ j' = (j + 1) % 64
  /\ i' = (IF j = 63 THEN i + 1 ELSE i)
  /\ pc' = IF j = 63 /\ i = 9 THEN "copy" ELSE "mix"
  /\ UNCHANGED <<mlen, combined, seed>>

Copy ==
  /\ pc = "copy" /\ pc' = "done" /\ seed' = buffer /\ combined' = "wiped"
  /\ UNCHANGED <<mlen, buffer, i, j>>

slh_dsa_derandomize == Alloc \/ NoMemory \/ Fold \/ Mix \/ Copy
Next == slh_dsa_derandomize
Spec == Init /\ [][Next]_vars
-----------------------------------------------------------------------------
Seeded == pc = "done" /\ combined # "none"
Odd(x, S) == Cardinality(x \cap S) % 2 = 1
Column(c) == {b \in 0 .. combined_len - 1 : b % 64 = c}

(* Two calls whose inputs differ in the bytes S get the same seed exactly  *)
(* if the differences cancel in each column of 64 but the first, which the *)
(* first step of the mixing drops.  So no other byte can be changed by     *)
(* itself without changing the seed, although each pass reads what it has  *)
(* just written (utils.c:107-114).                                         *)
ColumnsDecideTheSeed ==
  Seeded => \A S \in Changes :
    (\E k \in Index : Odd(seed[k], S)) <=> (\E c \in Index \ {0} : Odd(Column(c), S))

(* The block with the secret key is wiped before it is given back, and     *)
(* only where there was no memory for it is the seed zero whatever key and *)
(* message are (utils.c:122-126).                                          *)
KeyCopyIsWiped == Seeded => combined = "wiped"
ConstantWithoutMemory == pc = "done" => (combined = "none" <=> \A k \in Index : seed[k] = {})

SeedIsTheColumns == ColumnsDecideTheSeed /\ KeyCopyIsWiped /\ ConstantWithoutMemory
=============================================================================
