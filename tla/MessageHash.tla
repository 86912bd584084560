---------------------------- MODULE MessageHash ----------------------------
(***************************************************************************)
(* gen_message_random and hash_message of SPHINCS+: the message goes into  *)
(* the hash once, behind the key or the public key, and what comes out is  *)
(* cut into the FORS message, the number of the tree and the number of the *)
(* leaf.  With SHA-2 the first block is filled by hand and gen_message_-   *)
(* random is HMAC.  Bytes are tokens; a hash remembers what it absorbed.   *)
(***************************************************************************)
EXTENDS Sequences, SphincsParams

CONSTANT Around        \* how far the length of the message may be from the edge of a block

AroundAssumption == Around \in Nat

Sets == {haraka_128f, haraka_192s, haraka_256f, sha2_128s, sha2_192f, sha2_256s,
         shake_128s, shake_192f, shake_256s}
Bytes(kind, from, count) == [i \in 1 .. count |-> <<kind, from + i - 1, 0>>]
Pad(byte, count) == [i \in 1 .. count |-> <<"pad", byte, 0>>]
Masked(kind, byte, count) == [i \in 1 .. count |-> <<kind, i - 1, byte>>]

SHAX_BLOCK_BYTES(p) == IF p.N >= 24 THEN 128 ELSE 64
SHAX_OUTPUT_BYTES(p) == IF p.N >= 24 THEN 64 ELSE 32
INBLOCKS(p) == (p.N + p.PK_BYTES + SHAX_BLOCK_BYTES(p) - 1) \div SHAX_BLOCK_BYTES(p)
Lengths(p) == LET edge == SHAX_BLOCK_BYTES(p) * INBLOCKS(p) - p.N - p.PK_BYTES
                  edgeR == SHAX_BLOCK_BYTES(p) - p.N
              IN  { l \in 0 .. 300 : \E e \in {0, edge, edgeR, edge + SHAX_BLOCK_BYTES(p)} : l >= e - Around /\ l <= e + Around }
TREE_BITS(p) == p.TREE_HEIGHT * (p.D - 1)
TREE_BYTES(p) == (TREE_BITS(p) + 7) \div 8
LEAF_BYTES(p) == (p.TREE_HEIGHT + 7) \div 8
-----------------------------------------------------------------------------
VARIABLES
  p, op, mlen,     \* the parameter set, the function, the length of the message
  pc,
  state,           \* what the hash that is under way has absorbed
  buf,             \* the buffer for the first blocks
  hashes,          \* the finished hashes: function and message
  fors, tree, leaf_idx   \* the parts of the digest; of numbers, the bits they have

vars == <<p, op, mlen, pc, state, buf, hashes, fors, tree, leaf_idx>>
given == <<p, op, mlen>>
parts == <<fors, tree, leaf_idx>>
Sha2 == p.offsets.family = "sha2"

Init ==
  /\ p \in Sets /\ op \in {"gen_message_random", "hash_message"} /\ mlen \in Lengths(p)
  /\ pc = "start" /\ state = <<>> /\ buf = <<>> /\ hashes = <<>>
  /\ fors = <<>> /\ tree = <<>> /\ leaf_idx = <<>>

Finish(name, message) == hashes' = Append(hashes, [name |-> name, message |-> message])

(* ---- SHAKE and Haraka: one incremental hash ---- *)
gen_message_random_sponge ==
  /\ op = "gen_message_random" /\ ~Sha2 /\ pc = "start"
  /\ Finish("sponge", Bytes("sk_prf", 0, p.N) \o Bytes("optrand", 0, p.N) \o Bytes("m", 0, mlen))
  /\ pc' = "done"
  /\ UNCHANGED <<given, state, buf, parts>>

(* Haraka takes the root only: its constants depend on the public seed. *)
hash_message_sponge ==
  /\ op = "hash_message" /\ ~Sha2 /\ pc = "start"
  /\ Finish("sponge", Bytes("R", 0, p.N)
                      \o (IF p.offsets.family = "haraka" THEN Bytes("pk", p.N, p.N) ELSE Bytes("pk", 0, p.PK_BYTES))
                      \o Bytes("m", 0, mlen))
  /\ pc' = "split"
  /\ UNCHANGED <<given, state, buf, parts>>

(* ---- SHA-2 ---- *)
InnerKey ==
  /\ op = "gen_message_random" /\ Sha2 /\ pc = "start" /\ pc' = "message"
  /\ state' = Masked("sk_prf", 54, p.N) \o Pad(54, SHAX_BLOCK_BYTES(p) - p.N)
  /\ buf' = Bytes("optrand", 0, p.N)
  /\ UNCHANGED <<given, hashes, parts>>

PublicKey ==
  /\ op = "hash_message" /\ Sha2 /\ pc = "start" /\ pc' = "message"
  /\ buf' = Bytes("R", 0, p.N) \o Bytes("pk", 0, p.PK_BYTES)
  /\ UNCHANGED <<given, state, hashes, parts>>

Room == (IF op = "hash_message" THEN INBLOCKS(p) ELSE 1) * SHAX_BLOCK_BYTES(p) - Len(buf)

(* The message fills the block; the hash goes on with the rest of it. *)
FillBlock ==
  /\ pc = "message" /\ mlen >= Room
  /\ Finish("shaX", state \o buf \o Bytes("m", 0, Room) \o Bytes("m", Room, mlen - Room))
  /\ state' = <<>> /\ buf' = <<>> /\ pc' = IF op = "hash_message" THEN "mgf" ELSE "outer"
  /\ UNCHANGED <<given, parts>>

(* The message does not fill the block: all of it is hashed from there. *)
ShortMessage ==
  /\ pc = "message" /\ mlen < Room
  /\ Finish("shaX", state \o buf \o Bytes("m", 0, mlen))
  /\ state' = <<>> /\ buf' = <<>> /\ pc' = IF op = "hash_message" THEN "mgf" ELSE "outer"
  /\ UNCHANGED <<given, parts>>

OuterKey ==
  /\ pc = "outer" /\ pc' = "done"
  /\ Finish("shaX", Masked("sk_prf", 92, p.N) \o Pad(92, SHAX_BLOCK_BYTES(p) - p.N)
                    \o Bytes("digest", 0, SHAX_OUTPUT_BYTES(p)))
  /\ UNCHANGED <<given, state, buf, parts>>

mgf1_X ==
  /\ pc = "mgf" /\ pc' = "split"
  /\ Finish("mgf1_X", Bytes("R", 0, p.N) \o Bytes("pk", 0, p.N) \o Bytes("digest", 0, SHAX_OUTPUT_BYTES(p)))
  /\ UNCHANGED <<given, state, buf, parts>>

gen_message_random_sha2 ==
  InnerKey \/ (op = "gen_message_random" /\ (FillBlock \/ ShortMessage)) \/ OuterKey

(* ---- the parts of the digest, for all three ---- *)
(* Bits of a number in a big-endian field, the lowest first; bit j of the  *)
(* digest is the highest bit of byte 0 for j = 0.                          *)
bytes_to_ull(from, count) == [j \in 1 .. 8 * count |-> 8 * (from + count) - j]
Mask(bits, count) == SubSeq(bits, 1, count)

Split ==
  /\ pc = "split" /\ pc' = "done"
  /\ fors' = [j \in 1 .. 8 * p.FORS_MSG_BYTES |-> j - 1]
  /\ tree' = (IF p.D = 1 THEN <<>> ELSE Mask(bytes_to_ull(p.FORS_MSG_BYTES, TREE_BYTES(p)), TREE_BITS(p)))
  /\ leaf_idx' = Mask(bytes_to_ull(p.FORS_MSG_BYTES + TREE_BYTES(p), LEAF_BYTES(p)), p.TREE_HEIGHT)
  /\ UNCHANGED <<given, state, buf, hashes>>

hash_message_sha2 ==
  PublicKey \/ (op = "hash_message" /\ (FillBlock \/ ShortMessage)) \/ mgf1_X \/ (Sha2 /\ Split)

Family(f) == p.offsets.family = f
gen_message_random_shake == Family("shake") /\ gen_message_random_sponge
gen_message_random_haraka == Family("haraka") /\ gen_message_random_sponge
hash_message_shake == Family("shake") /\ (hash_message_sponge \/ Split)
hash_message_haraka == Family("haraka") /\ (hash_message_sponge \/ Split)

Next ==
  \/ gen_message_random_shake \/ gen_message_random_haraka \/ gen_message_random_sha2
  \/ hash_message_shake \/ hash_message_haraka \/ hash_message_sha2
Spec == Init /\ [][Next]_vars
-----------------------------------------------------------------------------
HMAC == << [name |-> "shaX", message |-> Masked("sk_prf", 54, p.N) \o Pad(54, SHAX_BLOCK_BYTES(p) - p.N)
                                         \o Bytes("optrand", 0, p.N) \o Bytes("m", 0, mlen)],
           [name |-> "shaX", message |-> Masked("sk_prf", 92, p.N) \o Pad(92, SHAX_BLOCK_BYTES(p) - p.N)
                                         \o Bytes("digest", 0, SHAX_OUTPUT_BYTES(p))] >>
Public == IF p.offsets.family = "haraka" THEN Bytes("pk", p.N, p.N) ELSE Bytes("pk", 0, p.PK_BYTES)

(* The message is hashed whole and once, behind the key (HMAC or prefix)   *)
(* or behind R and the public key, wherever a block ends in it; it is the  *)
(* same for the signer and the verifier (hash_sha2.c:90, 153).             *)
WholeMessageOnce ==
  /\ pc = "done" /\ op = "gen_message_random" /\ Sha2 => hashes = HMAC
  /\ pc \in {"mgf", "outer", "split", "done"} =>
       Head(hashes).message = IF op = "hash_message" THEN Bytes("R", 0, p.N) \o Public \o Bytes("m", 0, mlen)
                           ELSE IF Sha2 THEN HMAC[1].message
                           ELSE Bytes("sk_prf", 0, p.N) \o Bytes("optrand", 0, p.N) \o Bytes("m", 0, mlen)

Elements(s) == { s[i] : i \in 1 .. Len(s) }
(* The tree and the leaf together have a bit of the digest for each level  *)
(* of the hypertree, none of them twice and none that FORS signs: so each  *)
(* of the 2^h leaves is as likely as any other (hash_sha2.c:184).          *)
EveryLeafReached ==
  (pc = "done" /\ op = "hash_message") =>
    /\ Len(tree) + Len(leaf_idx) = p.FULL_HEIGHT
    /\ \A i, j \in 1 .. Len(tree) : i # j => tree[i] # tree[j]
    /\ Elements(tree) \cap Elements(leaf_idx) = {}
    /\ (Elements(tree) \cup Elements(leaf_idx)) \cap Elements(fors) = {}
=============================================================================
