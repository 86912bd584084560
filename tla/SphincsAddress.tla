---------------------------- MODULE SphincsAddress ----------------------------
(***************************************************************************)
(* sphincsplus/ref/address.c as it is: the fields of an address written    *)
(* into an array of 32 bytes at the offsets of the parameter set.          *)
(***************************************************************************)
EXTENDS SphincsParams, Sequences

CONSTANT Sets               \* the parameter sets looked at
SetsAssumption == Sets \subseteq ParameterSets

VARIABLES p, in, out, call

Width == 32
Blank == [i \in 0 .. Width - 1 |-> 0]

(* memcpy of the bytes into addr, from off on *)
Put(addr, off, bytes) ==
  [i \in 0 .. Width - 1 |-> IF i \in off .. off + Len(bytes) - 1 THEN bytes[i - off + 1] ELSE addr[i]]

u32_to_bytes(x) == <<(x \div 2 ^ 24) % 256, (x \div 2 ^ 16) % 256, (x \div 2 ^ 8) % 256, x % 256>>

(* A number of 64 bits is given as its bytes, the greatest first. *)
ull_to_bytes(outlen, x) == SubSeq(x, Len(x) - outlen + 1, Len(x))

(* Mistake: no key pair. *)
copy_keypair_addrTreeOnly(q, to, from) == [i \in 0 .. Width - 1 |-> IF i < q.tree + 8 THEN from[i] ELSE to[i]]

set_layer_addr(q, addr, layer) == Put(addr, q.layer, <<layer % 256>>)
set_tree_addr(q, addr, tree) == Put(addr, q.tree, ull_to_bytes(8, tree))
set_type(q, addr, type) == Put(addr, q.type, <<type % 256>>)
set_keypair_addr(q, addr, keypair) == Put(addr, q.keypair, u32_to_bytes(keypair))
set_chain_addr(q, addr, chain) == Put(addr, q.chain, <<chain % 256>>)
set_hash_addr(q, addr, hash) == Put(addr, q.hash, <<hash % 256>>)
set_tree_height(q, addr, height) == Put(addr, q.height, <<height % 256>>)
set_tree_index(q, addr, index) == Put(addr, q.index, u32_to_bytes(index))
copy_subtree_addr(q, to, from) == [i \in 0 .. Width - 1 |-> IF i < q.tree + 8 THEN from[i] ELSE to[i]]
copy_keypair_addr(q, to, from) ==
  [i \in 0 .. Width - 1 |-> IF i < q.tree + 8 \/ i \in q.keypair .. q.keypair + 3 THEN from[i] ELSE to[i]]

Word(addr, off) == (((addr[off] * 256) + addr[off + 1]) * 256 + addr[off + 2]) * 256 + addr[off + 3]
Fields(q, addr) ==
  [layer |-> addr[q.layer], tree |-> [i \in 1 .. 8 |-> addr[q.tree + i - 1]], type |-> addr[q.type],
   keypair |-> Word(addr, q.keypair), height |-> addr[q.height], index |-> Word(addr, q.index)]

F == INSTANCE AddressFields WITH in <- Fields(p.offsets, in), out <- Fields(p.offsets, out)

Init == p \in Sets /\ in = Blank /\ out = Blank /\ call = "set"

Set(a) == call' = "set" /\ in' = a /\ UNCHANGED <<p, out>>
Copy(f, a) == call' = f /\ out' = a /\ UNCHANGED <<p, in>>

Next ==
  \/ \E x \in F!Layers(p) : Set(set_layer_addr(p.offsets, in, x))
  \/ \E x \in F!Trees(p) : Set(set_tree_addr(p.offsets, in, x))
  \/ \E x \in F!Types : Set(set_type(p.offsets, in, x))
  \/ \E x \in F!Keypairs(p) : Set(set_keypair_addr(p.offsets, in, x))
  \/ \E x \in F!Chains(p) : Set(set_chain_addr(p.offsets, in, x))
  \/ \E x \in F!Hashes(p) : Set(set_hash_addr(p.offsets, in, x))
  \/ \E x \in F!Heights(p) : Set(set_tree_height(p.offsets, in, x))
  \/ \E x \in F!Indices(p) : Set(set_tree_index(p.offsets, in, x))
  \/ Copy("subtree", copy_subtree_addr(p.offsets, out, in))
  \/ Copy("keypair", copy_keypair_addr(p.offsets, out, in))

Spec == Init /\ [][Next]_<<p, in, out, call>>
-----------------------------------------------------------------------------
(* The bytes the hash functions take of an address (22 for SHA2, all for   *)
(* the others) hold every field, and bytes of no field stay zero, so       *)
(* addresses that differ in a field are hashed as different bytes          *)
(* (sha2_offsets.h:9-16, thash_sha2_simple.c:34).                          *)
Hashed(q) == IF q.family = "sha2" THEN 22 ELSE 32
HashSeesEveryField ==
  LET q == p.offsets
      held == {q.layer} \cup q.tree .. q.tree + 7 \cup {q.type} \cup q.keypair .. q.keypair + 3
              \cup {q.height} \cup q.index .. q.index + 3
  IN  /\ \A addr \in {in, out}, i \in 0 .. Width - 1 :
           /\ addr[i] \in 0 .. 255
           /\ i >= Hashed(q) \/ i \notin held => addr[i] = 0
      /\ Fields(q, in) # F!Blank => \E i \in 0 .. Hashed(q) - 1 : in[i] # 0

(* The checksum of a chain of lengths fits the digits it is given, and     *)
(* needs them all (the headers' "floor(log(len_1 * (w - 1)) / log(w)) + 1"). *)
ChecksumFits ==
  /\ p.WOTS_LEN1 * (p.WOTS_W - 1) < p.WOTS_W ^ p.WOTS_LEN2
  /\ p.WOTS_LEN1 * (p.WOTS_W - 1) >= p.WOTS_W ^ (p.WOTS_LEN2 - 1)

(* The trees of a key are one whole hypertree whose trees can be numbered  *)
(* in 64 bits; the set the library is built with has the sizes that        *)
(* slh_dsa.h tells its callers (slh_dsa.h:14-16, api.h:11-14).             *)
SizesAgree ==
  /\ p.TREE_HEIGHT * p.D = p.FULL_HEIGHT /\ p.TREE_HEIGHT * (p.D - 1) <= 64
  /\ p.WOTS_LEN <= 256 /\ p.D <= 256
  /\ p = shake_128s => p.PK_BYTES = 32 /\ p.SK_BYTES = 64 /\ p.BYTES = 7856
=============================================================================
