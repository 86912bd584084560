----------------------------- MODULE Addresses -----------------------------
(***************************************************************************)
(* What the functions of sphincsplus/ref/address.c promise: an address is  *)
(* a record of fields, and setting one leaves the others alone.  Two pairs *)
(* of fields share their bytes: the chain and the height of a node, and    *)
(* the last byte of the index of a node and the place in a chain.          *)
(***************************************************************************)
EXTENDS SphincsParams

TypeWOTS == 0
TypeWOTSPK == 1
TypeHASHTREE == 2
TypeFORSTREE == 3
TypeFORSPK == 4
TypeWOTSPRF == 5
TypeFORSPRF == 6

NoTree == <<0, 0, 0, 0, 0, 0, 0, 0>>
Blank == [layer |-> 0, tree |-> NoTree, type |-> 0, keypair |-> 0, height |-> 0, index |-> 0]

set_layer_addr(addr, layer) == [addr EXCEPT !.layer = layer]
set_tree_addr(addr, tree) == [addr EXCEPT !.tree = tree]
set_type(addr, type) == [addr EXCEPT !.type = type]
set_keypair_addr(addr, keypair) == [addr EXCEPT !.keypair = keypair]
set_chain_addr(addr, chain) == [addr EXCEPT !.height = chain]
set_hash_addr(addr, hash) == [addr EXCEPT !.index = (@ - (@ % 256)) + hash]
set_tree_height(addr, height) == [addr EXCEPT !.height = height]
set_tree_index(addr, index) == [addr EXCEPT !.index = index]
copy_subtree_addr(out, in) == [out EXCEPT !.layer = in.layer, !.tree = in.tree]
copy_keypair_addr(out, in) == [copy_subtree_addr(out, in) EXCEPT !.keypair = in.keypair]
=============================================================================
