---------------------------- MODULE AddressFields ----------------------------
(***************************************************************************)
(* Two addresses, the functions of Addresses called on them in any order:  *)
(* the abstract form of SphincsAddress, where an address is an array of    *)
(* bytes.                                                                  *)
(***************************************************************************)
EXTENDS Addresses

(* The least and the greatest value the scheme gives each field. *)
Layers(p) == {0, p.D - 1}
LastTree(p) ==
  LET bits == p.TREE_HEIGHT * (p.D - 1)
      width(i) == IF bits >= 8 * (9 - i) THEN 8 ELSE IF bits <= 8 * (8 - i) THEN 0 ELSE bits - (8 * (8 - i))
  IN  [i \in 1 .. 8 |-> 2 ^ width(i) - 1]
Trees(p) == {NoTree, LastTree(p)}
Types == {TypeWOTS, TypeFORSPRF}
Keypairs(p) == {0, 2 ^ p.TREE_HEIGHT - 1}
Chains(p) == {0, p.WOTS_LEN - 1}
Hashes(p) == {0, p.WOTS_W - 2}
Heights(p) == {0, p.FORS_HEIGHT}
Indices(p) == {0, p.FORS_TREES * 2 ^ p.FORS_HEIGHT - 1}

VARIABLES p, in, out, call   \* the parameter set, two addresses and what was last done to them

Init == p \in ParameterSets /\ in = Blank /\ out = Blank /\ call = "set"

Set(a) == call' = "set" /\ in' = a /\ UNCHANGED <<p, out>>
Copy(f, a) == call' = f /\ out' = a /\ UNCHANGED <<p, in>>

Next ==
  \/ \E x \in Layers(p) : Set(set_layer_addr(in, x))
  \/ \E x \in Trees(p) : Set(set_tree_addr(in, x))
  \/ \E x \in Types : Set(set_type(in, x))
  \/ \E x \in Keypairs(p) : Set(set_keypair_addr(in, x))
  \/ \E x \in Chains(p) : Set(set_chain_addr(in, x))
  \/ \E x \in Hashes(p) : Set(set_hash_addr(in, x))
  \/ \E x \in Heights(p) : Set(set_tree_height(in, x))
  \/ \E x \in Indices(p) : Set(set_tree_index(in, x))
  \/ Copy("subtree", copy_subtree_addr(out, in))
  \/ Copy("keypair", copy_keypair_addr(out, in))

Spec == Init /\ [][Next]_<<p, in, out, call>>
=============================================================================
