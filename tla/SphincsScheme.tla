---------------------------- MODULE SphincsScheme ----------------------------
(***************************************************************************)
(* Key generation, signing and verification of SPHINCS+ with their         *)
(* addresses: sign.c, fors.c, merkle.c, wots.c and wotsx1.c of             *)
(* sphincsplus/ref, and the forms of fors.c, merkle.c and wots.c that      *)
(* build 2, 4 or 8 nodes at a time (shake-a64, shake-avx2, sha2-avx2).     *)
(*                                                                         *)
(* A hash is the term of what it hashes and of its address, so two values  *)
(* are equal when they are computed in the same way.  What a message is    *)
(* hashed to is chosen, and so are the lengths of the chains that a root   *)
(* is turned into (SphincsWots, MessageHash); how the nodes of a tree are  *)
(* found and put on the path is SphincsTrees.                              *)
(***************************************************************************)
EXTENDS Addresses, Sequences, FiniteSets

CONSTANTS
  D, TREE_HEIGHT,             \* layers of trees, and how high each one is
  FORS_TREES, FORS_HEIGHT,
  W, LEN,                     \* length and number of the chains of a one-time signature
  Lengths,                    \* lengths of chains, with their checksums
  Digests                     \* what messages are hashed to

Layers == 0 .. D - 1
Leaves(height) == 0 .. 2 ^ height - 1
Builds == {"ref", "x2", "x4", "x8"}
Lanes(b) == CASE b = "ref" -> 1 [] b = "x2" -> 2 [] b = "x4" -> 4 [] b = "x8" -> 8

SizesAssumption ==
  /\ D \in Nat \ {0} /\ TREE_HEIGHT \in Nat \ {0} /\ FORS_TREES \in Nat \ {0} /\ FORS_HEIGHT \in Nat \ {0}
  /\ W \in 2 .. 256 /\ LEN \in Nat \ {0}
LengthsAssumption ==
  \* a checksum: no lengths are all at least as great as some others
  /\ Lengths \subseteq [0 .. LEN - 1 -> 0 .. W - 1]
  /\ \A l, m \in Lengths : (\A c \in 0 .. LEN - 1 : l[c] <= m[c]) => l = m
DigestsAssumption ==
  Digests \subseteq [tree : 0 .. 2 ^ (TREE_HEIGHT * (D - 1)) - 1, idx_leaf : Leaves(TREE_HEIGHT),
                     indices : [0 .. FORS_TREES - 1 -> Leaves(FORS_HEIGHT)]]

VARIABLES
  build, pc,
  pk,                         \* the public key: its seed and the root
  digest,                     \* of the message, and of what the verifier is given
  lengths, others,            \* per layer: the lengths for what was signed, and for anything else
  signed,                     \* per layer: what the signer signed
  i, tree, idx_leaf,          \* of the loops of signer and verifier
  wots_addr, tree_addr, root, \* in the loops
  sig, change, verdict        \* the signature, what is changed in it, the answer

vars == <<build, pc, pk, digest, lengths, others, signed, i, tree, idx_leaf,
          wots_addr, tree_addr, root, sig, change, verdict>>
fixed == <<build, lengths, others>>

Term(f, addr, in) == [f |-> f, addr |-> addr, in |-> in]
prf_addr(addr) == Term("prf", addr, <<>>)
thash(in, addr) == Term("thash", addr, in)
Junk == Term("junk", Blank, <<>>)
PubSeed == Term("seed", Blank, <<>>)
Tree(t) == <<0, 0, 0, 0, 0, 0, 0, t>>
-----------------------------------------------------------------------------
(* Merkle trees: of n lanes the one that makes a node has its own copy of  *)
(* the address; at the top the nodes are in the last lanes.                *)
LaneOf(b, height, h, k) ==
  IF 2 ^ (height - h) >= Lanes(b) THEN k % Lanes(b) ELSE Lanes(b) - 2 ^ (height - h) + k

NodeAddr(addr, h, k, offset) == set_tree_index(set_tree_height(addr, h), k + offset \div 2 ^ h)

(* Node k of height h over leaves, a function; addrs is one of the lanes.  *)
Node(b, height, leaf, addrs, offset, top, at) ==
  LET node[h \in 0 .. height] ==
        [k \in 0 .. 2 ^ (height - h) - 1 |->
          IF h = 0 THEN leaf[k]
          ELSE thash(<<node[h - 1][2 * k], node[h - 1][2 * k + 1]>>,
                     NodeAddr(addrs[LaneOf(b, height, h, k)], h, k, offset))]
  IN  node[top][at]

treehash(b, height, leaf, addrs, idx, offset) ==
  [root |-> Node(b, height, leaf, addrs, offset, height, 0),
   path |-> [h \in 0 .. height - 1 |->
              LET k == idx \div 2 ^ h
              IN  Node(b, height, leaf, addrs, offset, h, IF k % 2 = 0 THEN k + 1 ELSE k - 1)]]

compute_root(leaf, idx, offset, path, height, addr) ==
  LET node[h \in 0 .. height] ==
        IF h = 0 THEN leaf
        ELSE LET a == NodeAddr(addr, h, idx \div 2 ^ h, offset)
             IN  IF (idx \div 2 ^ (h - 1)) % 2 = 1 THEN thash(<<path[h - 1], node[h - 1]>>, a)
                 ELSE thash(<<node[h - 1], path[h - 1]>>, a)
  IN  node[height]
-----------------------------------------------------------------------------
(* Few-time signatures. *)
idx_offset(t) == t * 2 ^ FORS_HEIGHT

(* Mistake: the height that the last tree left in the address stays. *)
AtLeafHigh(addr, t, k) ==
  set_tree_index(IF t = 0 THEN addr ELSE set_tree_height(addr, FORS_HEIGHT), k + idx_offset(t))
(* The address of a selected leaf: tree by tree, the same variable.        *)
AtLeaf(addr, t, k) ==
  LET left == IF t = 0 THEN addr ELSE set_tree_height(addr, FORS_HEIGHT)
  IN  set_tree_index(set_tree_height(left, 0), k + idx_offset(t))

fors_gen_leaf(addr, t, k) ==
  LET a == set_tree_index(addr, k + idx_offset(t))
  IN  thash(<<prf_addr(set_type(a, TypeFORSPRF))>>, set_type(a, TypeFORSTREE))

fors_pk_addr(fors_addr) == set_type(copy_keypair_addr(Blank, fors_addr), TypeFORSPK)

TreeLanes(b, fors_addr) ==
  [lane \in 0 .. Lanes(b) - 1 |-> set_type(copy_keypair_addr(Blank, fors_addr), TypeFORSTREE)]

fors_sign(b, indices, fors_addr) ==
  LET lanes == TreeLanes(b, fors_addr)
      leaf_addr == copy_keypair_addr(Blank, fors_addr)
      hashed(t) ==
        treehash(b, FORS_HEIGHT, [k \in Leaves(FORS_HEIGHT) |-> fors_gen_leaf(leaf_addr, t, k)],
                 lanes, indices[t], idx_offset(t))
      all == [t \in 0 .. FORS_TREES - 1 |-> hashed(t)]
  IN  [sig |-> [t \in 0 .. FORS_TREES - 1 |->
                 [sk |-> prf_addr(set_type(AtLeaf(lanes[0], t, indices[t]), TypeFORSPRF)),
                  path |-> all[t].path]],
       pk |-> thash([t \in 1 .. FORS_TREES |-> all[t - 1].root], fors_pk_addr(fors_addr))]

fors_pk_from_sig(s, indices, fors_addr) ==
  LET addr == set_type(copy_keypair_addr(Blank, fors_addr), TypeFORSTREE)
      found(t) ==
        compute_root(thash(<<s[t].sk>>, AtLeaf(addr, t, indices[t])), indices[t], idx_offset(t),
                     s[t].path, FORS_HEIGHT, addr)
  IN  thash([t \in 1 .. FORS_TREES |-> found(t - 1)], fors_pk_addr(fors_addr))
-----------------------------------------------------------------------------
(* One-time signatures: the value at place k of chain c. *)
ChainValue(leaf_addr, c, k) ==
  LET a == set_hash_addr(set_chain_addr(leaf_addr, c), 0)
      value[s \in 0 .. W - 1] ==
        IF s = 0 THEN prf_addr(set_type(a, TypeWOTSPRF))
        ELSE thash(<<value[s - 1]>>, set_hash_addr(set_type(a, TypeWOTS), s - 1))
  IN  value[k]

wots_gen_leaf(leaf_addr, pk_addr, k) ==
  thash([c \in 1 .. LEN |-> ChainValue(set_keypair_addr(leaf_addr, k), c - 1, W - 1)],
        set_keypair_addr(pk_addr, k))

gen_chain(v, start, addr) ==
  LET value[s \in start .. W - 1] ==
        IF s = start THEN v ELSE thash(<<value[s - 1]>>, set_hash_addr(addr, s - 1))
  IN  value[W - 1]

wots_pk_from_sig(s, steps, addr) ==
  [c \in 1 .. LEN |-> gen_chain(s[c - 1], steps[c - 1], set_chain_addr(addr, c - 1))]

(* The tree of a layer; with several lanes the lane of idx is the one      *)
(* whose values are copied to the signature.                               *)
merkle_sign(b, steps, wots, trees, idx) ==
  LET leaf_addr == copy_subtree_addr(Blank, wots)
      pk_addr == set_type(copy_subtree_addr(Blank, wots), TypeWOTSPK)
      addr == IF b = "ref" THEN set_type(trees, TypeHASHTREE)
              ELSE copy_subtree_addr(set_type(Blank, TypeHASHTREE), trees)
      hashed == treehash(b, TREE_HEIGHT, [k \in Leaves(TREE_HEIGHT) |-> wots_gen_leaf(leaf_addr, pk_addr, k)],
                         [lane \in 0 .. Lanes(b) - 1 |-> addr], idx, 0)
      slot == idx % Lanes(b)
      first == idx - slot
  IN  [wots |-> [c \in 0 .. LEN - 1 |-> ChainValue(set_keypair_addr(leaf_addr, first + slot), c, steps[c])],
       path |-> hashed.path, root |-> hashed.root]
-----------------------------------------------------------------------------
NoSig == [fors |-> [t \in 0 .. FORS_TREES - 1 |-> [sk |-> Junk, path |-> [h \in 0 .. FORS_HEIGHT - 1 |-> Junk]]],
          layers |-> [l \in Layers |-> [wots |-> [c \in 0 .. LEN - 1 |-> Junk],
                                        path |-> [h \in 0 .. TREE_HEIGHT - 1 |-> Junk]]]]
NoChange == <<"none", 0, 0>>

Init ==
  /\ build \in Builds /\ pc = "keypair"
  /\ lengths \in [Layers -> Lengths] /\ others \in [Layers -> Lengths]
  /\ \A l \in Layers : others[l] # lengths[l]
  /\ digest \in Digests /\ pk = <<Junk, Junk>> /\ signed = [l \in Layers |-> Junk]
  /\ i = 0 /\ tree = 0 /\ idx_leaf = 0
  /\ wots_addr = Blank /\ tree_addr = Blank /\ root = Junk
  /\ sig = NoSig /\ change = NoChange /\ verdict = "none"

(* crypto_sign_seed_keypair: the root of the topmost tree. *)
KeyPair ==
  LET top == set_layer_addr(Blank, D - 1)
  IN  /\ pc = "keypair" /\ pc' = "sign"
      /\ pk' = <<PubSeed, merkle_sign(build, lengths[D - 1], top, top, 0).root>>
      /\ UNCHANGED <<fixed, digest, signed, i, tree, idx_leaf, wots_addr, tree_addr, root, sig, change, verdict>>

(* The addresses and indices with which signer and verifier begin.         *)
Begin ==
  /\ tree' = digest.tree /\ idx_leaf' = digest.idx_leaf /\ i' = 0
  /\ wots_addr' = set_keypair_addr(set_tree_addr(set_type(Blank, TypeWOTS), Tree(digest.tree)), digest.idx_leaf)
  /\ tree_addr' = set_type(Blank, TypeHASHTREE)

SignFors ==
  LET s == fors_sign(build, digest.indices, wots_addr')
  IN  /\ pc = "sign" /\ pc' = "sign_layer" /\ Begin
      /\ sig' = [sig EXCEPT !.fors = s.sig] /\ root' = s.pk
      /\ UNCHANGED <<fixed, pk, digest, signed, change, verdict>>

(* The addresses of a layer. *)
LayerAddresses ==
  /\ tree_addr' = set_tree_addr(set_layer_addr(tree_addr, i), Tree(tree))
  /\ wots_addr' = set_keypair_addr(copy_subtree_addr(wots_addr, tree_addr'), idx_leaf)

(* The indices of the next layer. *)
Upwards ==
  /\ i' = i + 1 /\ idx_leaf' = tree % 2 ^ TREE_HEIGHT /\ tree' = tree \div 2 ^ TREE_HEIGHT

SignLayer ==
  LET s == merkle_sign(build, lengths[i], wots_addr', tree_addr', idx_leaf)
  IN  /\ pc = "sign_layer" /\ i < D /\ UNCHANGED pc /\ LayerAddresses /\ Upwards
      /\ signed' = [signed EXCEPT ![i] = root] /\ root' = s.root
      /\ sig' = [sig EXCEPT !.layers[i] = [wots |-> s.wots, path |-> s.path]]
      /\ UNCHANGED <<fixed, pk, digest, change, verdict>>

Signed ==
  /\ pc = "sign_layer" /\ i = D /\ pc' = "signed"
  /\ UNCHANGED <<fixed, pk, digest, signed, i, tree, idx_leaf, wots_addr, tree_addr, root, sig, change, verdict>>

(* What reaches the verifier: the same, or one part of it another.         *)
Deliver ==
  /\ pc = "signed" /\ pc' = "verify"
  /\ \/ change' = NoChange /\ UNCHANGED <<sig, digest>>
     \/ \E d \in Digests \ {digest} : change' = <<"digest", 0, 0>> /\ digest' = d /\ UNCHANGED sig
     \/ \E t \in 0 .. FORS_TREES - 1 :
          \/ change' = <<"sk", t, 0>> /\ sig' = [sig EXCEPT !.fors[t].sk = Junk] /\ UNCHANGED digest
          \/ \E h \in 0 .. FORS_HEIGHT - 1 :
               change' = <<"fors path", t, h>> /\ sig' = [sig EXCEPT !.fors[t].path[h] = Junk] /\ UNCHANGED digest
     \/ \E l \in Layers :
          \/ \E c \in 0 .. LEN - 1 :
               change' = <<"wots", l, c>> /\ sig' = [sig EXCEPT !.layers[l].wots[c] = Junk] /\ UNCHANGED digest
          \/ \E h \in 0 .. TREE_HEIGHT - 1 :
               change' = <<"path", l, h>> /\ sig' = [sig EXCEPT !.layers[l].path[h] = Junk] /\ UNCHANGED digest
  /\ UNCHANGED <<fixed, pk, signed, i, tree, idx_leaf, wots_addr, tree_addr, root, verdict>>

(* chain_lengths *)
Steps(v) == IF v = signed[i] THEN lengths[i] ELSE others[i]

VerifyFors ==
  /\ pc = "verify" /\ pc' = "verify_layer" /\ Begin
  /\ root' = fors_pk_from_sig(sig.fors, digest.indices, wots_addr')
  /\ UNCHANGED <<fixed, pk, digest, signed, sig, change, verdict>>

VerifyLayer ==
  LET pk_addr == copy_keypair_addr(set_type(Blank, TypeWOTSPK), wots_addr')
      wots_pk == wots_pk_from_sig(sig.layers[i].wots, Steps(root), wots_addr')
  IN  /\ pc = "verify_layer" /\ i < D /\ UNCHANGED pc /\ LayerAddresses /\ Upwards
      /\ root' = compute_root(thash(wots_pk, pk_addr), idx_leaf, 0, sig.layers[i].path, TREE_HEIGHT, tree_addr')
      /\ UNCHANGED <<fixed, pk, digest, signed, sig, change, verdict>>

Compare ==
  /\ pc = "verify_layer" /\ i = D /\ pc' = "done"
  /\ verdict' = IF root = pk[2] THEN "accepted" ELSE "rejected"
  /\ UNCHANGED <<fixed, pk, digest, signed, i, tree, idx_leaf, wots_addr, tree_addr, root, sig, change>>

Next == KeyPair \/ SignFors \/ SignLayer \/ Signed \/ Deliver \/ VerifyFors \/ VerifyLayer \/ Compare
Spec == Init /\ [][Next]_vars
-----------------------------------------------------------------------------
(* What was signed is accepted: signer and verifier use the same address   *)
(* for every hash, in every layer (sign.c:140-153, 206-232).               *)
AcceptsWhatWasSigned == pc = "done" /\ change = NoChange => verdict = "accepted"

(* And with any one part of it changed it is not: every part of the        *)
(* signature and of the digest counts (sign.c:235).                        *)
RejectsChanges == pc = "done" /\ change # NoChange => verdict = "rejected"

(* No two different hashes have the same address, over a whole signature   *)
(* and the key: what the type of an address and the offset of the trees    *)
(* are for (fors.c:92-104, wotsx1.c:47-52).                                *)
Parts(hashes) == UNION {{v.in[k] : k \in DOMAIN v.in} : v \in hashes}
Depth == W + TREE_HEIGHT + FORS_HEIGHT + 2   \* more than one hash lies within another
NoAddressTwice ==
  pc = "signed" =>
    LET roots == {pk[2]} \cup {signed[l] : l \in Layers} \cup {sig.fors[t].sk : t \in 0 .. FORS_TREES - 1}
        within[n \in 0 .. Depth] == IF n = 0 THEN roots ELSE Parts(within[n - 1])
        all == UNION {within[n] : n \in 0 .. Depth}
    IN  within[Depth] = {} /\ Cardinality({v.addr : v \in all}) = Cardinality(all)

(* Every build makes the signature of the reference (merkle.c, fors.c).    *)
BuildsAgree ==
  /\ pc = "sign_layer" /\ i = 0 => sig.fors = fors_sign("ref", digest.indices, wots_addr).sig
  /\ pc = "sign_layer" /\ i > 0 =>
       LET s == merkle_sign("ref", lengths[i - 1], wots_addr, tree_addr, wots_addr.keypair)
       IN  sig.layers[i - 1] = [wots |-> s.wots, path |-> s.path] /\ root = s.root

=============================================================================
