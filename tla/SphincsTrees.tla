----------------------------- MODULE SphincsTrees -----------------------------
(***************************************************************************)
(* Merkle trees of SPHINCS+: the tree is built once, left to right, and    *)
(* its root and the path of one leaf come out (treehashx1 and its versions *)
(* for 2, 4 and 8 nodes at a time; the older treehash); the verifier gets  *)
(* from leaf and path to the root (compute_root).                          *)
(*                                                                         *)
(* A node is its height and index.  A hash of two children that lie under  *)
(* the node its address names gives that node, any other hash Garbage.     *)
(***************************************************************************)
EXTENDS Integers

CONSTANTS MaxHeight, Trees    \* how high the trees get; which trees of a row are looked at
SizesAssumption == MaxHeight \in Nat /\ MaxHeight >= 3 /\ Trees \subseteq Nat

Node(height, index) == [height |-> height, index |-> index]
Garbage == Node(-1, -1)

thash(left, right, addr) ==
  IF /\ left.height = addr.height - 1 /\ left.index = 2 * addr.index
     /\ right.height = addr.height - 1 /\ right.index = left.index + 1
  THEN addr ELSE Garbage

NoLeaf == 2 ^ 30 - 1          \* ~0: the path of no leaf is wanted; all ones, however far it is shifted
Lanes(b) == CASE b \in {"treehash", "x1"} -> 1 [] b = "x2" -> 2 [] b = "x4" -> 4 [] b = "x8" -> 8
LogLanes(b) == CASE b \in {"treehash", "x1"} -> 0 [] b = "x2" -> 1 [] b = "x4" -> 2 [] b = "x8" -> 3

VARIABLES
  build, tree_height, leaf_idx, idx_offset,   \* the call
  phase,        \* "leaf", "rise", "check" (the path is being followed), "done"
  idx, h,       \* the loops
  current,      \* the node of each lane
  stack,        \* the left nodes that wait, by height
  left_adj, prev_left_adj,
  heights, offset,  \* of treehash: the heights on its stack, and how many there are
  root, auth_path

call == <<build, tree_height, leaf_idx, idx_offset>>
vars == <<build, tree_height, leaf_idx, idx_offset, phase, idx, h, current, stack, left_adj, prev_left_adj,
          heights, offset, root, auth_path>>

Init ==
  /\ build \in {"treehash", "x1", "x2", "x4", "x8"}
  /\ tree_height \in 1 .. MaxHeight /\ tree_height >= LogLanes(build)
  /\ leaf_idx \in 0 .. 2 ^ tree_height - 1 \cup {NoLeaf}
  /\ idx_offset \in {t * 2 ^ tree_height : t \in Trees}
  /\ phase = "leaf" /\ idx = 0 /\ h = 0
  /\ current = [lane \in 0 .. 7 |-> Garbage]
  /\ stack = [s \in 0 .. MaxHeight |-> [lane \in 0 .. 7 |-> Garbage]]   \* uninitialised
  /\ left_adj = 0 /\ prev_left_adj = 0
  /\ heights = [s \in 0 .. MaxHeight |-> -1] /\ offset = 0
  /\ root = Garbage /\ auth_path = [s \in 0 .. MaxHeight - 1 |-> Garbage]

internal_idx == idx \div 2 ^ h
internal_leaf == leaf_idx \div 2 ^ h

(* gen_leaf fills every lane with the next leaf. *)
Leaf(n) ==
  /\ phase = "leaf" /\ phase' = "rise" /\ h' = 0
  /\ current' = [lane \in 0 .. 7 |-> IF lane < n THEN Node(0, (n * idx) + idx_offset + lane) ELSE Garbage]
  /\ UNCHANGED <<call, idx, stack, left_adj, prev_left_adj, heights, offset, root, auth_path>>

Return(n) ==
  /\ phase = "rise" /\ h = tree_height
  /\ root' = current[n - 1]
  /\ IF leaf_idx = NoLeaf THEN phase' = "done" ELSE phase' = "check"
  /\ h' = 0 /\ idx' = leaf_idx
  /\ current' = [current EXCEPT ![0] = Node(0, leaf_idx + idx_offset)]
  /\ UNCHANGED <<call, stack, left_adj, prev_left_adj, heights, offset, auth_path>>

(* A left child waits on the stack. *)
Wait ==
  /\ stack' = [stack EXCEPT ![h] = current]
  /\ idx' = idx + 1 /\ phase' = "leaf"
  /\ UNCHANGED <<h, current>>

Level1 ==
  /\ phase = "rise" /\ h < tree_height
  /\ auth_path' = IF internal_idx \div 2 = internal_leaf \div 2 /\ internal_idx # internal_leaf
                  THEN [auth_path EXCEPT ![h] = current[0]] ELSE auth_path
  /\ IF internal_idx % 2 = 0 /\ idx < 2 ^ tree_height - 1 THEN Wait
     ELSE /\ current' = [current EXCEPT ![0] =
               thash(stack[h][0], current[0], Node(h + 1, (internal_idx \div 2) + (idx_offset \div 2 ^ (h + 1))))]
          /\ h' = h + 1
          /\ UNCHANGED <<idx, phase, stack>>
  /\ UNCHANGED <<call, left_adj, prev_left_adj, heights, offset, root>>

(* Mistake: the lane of the neighbour is not adjusted at the top. *)
NeighbourUnadjusted(n, adj) == IF internal_leaf % 2 = 0 THEN (internal_leaf % n) + 1 ELSE (internal_leaf % n) - 1

(* Where the neighbour of the node above the leaf is: (internal_leaf & (n - 1)) ^ 1, adjusted. *)
Neighbour(n, adj) ==
  (IF internal_leaf % 2 = 0 THEN (internal_leaf % n) + 1 ELSE (internal_leaf % n) - 1) + adj

(* One level of n nodes; at the top the nodes that are left are in the last lanes. *)
Level(n, log) ==
  /\ phase = "rise" /\ h < tree_height
  /\ IF h >= tree_height - log
     THEN prev_left_adj' = left_adj /\ left_adj' = n - 2 ^ (tree_height - h - 1)
     ELSE UNCHANGED <<left_adj, prev_left_adj>>
  /\ auth_path' = IF internal_idx = internal_leaf \div n
                  THEN [auth_path EXCEPT ![h] = current[Neighbour(n, prev_left_adj')]] ELSE auth_path
  /\ IF internal_idx % 2 = 0 /\ idx < 2 ^ (tree_height - log) - 1 THEN Wait
     ELSE /\ current' = [lane \in 0 .. 7 |->
               LET from == IF lane < n \div 2 THEN stack[h] ELSE current
                   first == IF lane < n \div 2 THEN 2 * lane ELSE (2 * lane) - n
                   even == internal_idx - (internal_idx % 2)
               IN  IF lane >= n THEN Garbage
                   ELSE thash(from[first], from[first + 1],
                          Node(h + 1, ((n \div 2) * even) + ((lane - left_adj') + (idx_offset \div 2 ^ (h + 1)))))]
          /\ h' = h + 1
          /\ UNCHANGED <<idx, phase, stack>>
  /\ UNCHANGED <<call, heights, offset, root>>

treehashx1 == build = "x1" /\ (Leaf(1) \/ Level1 \/ Return(1))
treehashx2 == build = "x2" /\ (Leaf(2) \/ Level(2, 1) \/ Return(2))
treehashx4 == build = "x4" /\ (Leaf(4) \/ Level(4, 2) \/ Return(4))
treehashx8 == build = "x8" /\ (Leaf(8) \/ Level(8, 3) \/ Return(8))

(* The older version keeps whole subtrees on its stack, with their heights. *)
Push ==
  /\ phase = "leaf" /\ idx < 2 ^ tree_height
  /\ stack' = [stack EXCEPT ![offset][0] = Node(0, idx + idx_offset)]
  /\ heights' = [heights EXCEPT ![offset] = 0]
  /\ offset' = offset + 1
  /\ auth_path' = IF leaf_idx \div 2 = idx \div 2 /\ leaf_idx # idx
                  THEN [auth_path EXCEPT ![0] = stack'[offset][0]] ELSE auth_path
  /\ phase' = "rise"
  /\ UNCHANGED <<call, idx, h, current, left_adj, prev_left_adj, root>>

Join ==
  LET top == heights[offset - 1] + 1
      tree_idx == idx \div 2 ^ top
      leaf == leaf_idx \div 2 ^ top
  IN  /\ phase = "rise" /\ offset >= 2 /\ heights[offset - 1] = heights[offset - 2]
      /\ stack' = [stack EXCEPT ![offset - 2][0] =
           thash(@, stack[offset - 1][0], Node(top, tree_idx + (idx_offset \div 2 ^ top)))]
      /\ offset' = offset - 1
      /\ heights' = [heights EXCEPT ![offset - 2] = top]
      /\ auth_path' = IF leaf \div 2 = tree_idx \div 2 /\ leaf # tree_idx
                      THEN [auth_path EXCEPT ![top] = stack'[offset - 2][0]] ELSE auth_path
      /\ UNCHANGED <<call, phase, idx, h, current, left_adj, prev_left_adj, root>>

NextLeaf ==
  /\ phase = "rise" /\ ~(offset >= 2 /\ heights[offset - 1] = heights[offset - 2])
  /\ IF idx < 2 ^ tree_height - 1 THEN phase' = "leaf" /\ idx' = idx + 1 /\ UNCHANGED <<root, current>>
     ELSE /\ root' = stack[0][0]
          /\ IF leaf_idx = NoLeaf THEN phase' = "done" ELSE phase' = "check"
          /\ idx' = leaf_idx
          /\ current' = [current EXCEPT ![0] = Node(0, leaf_idx + idx_offset)]
  /\ UNCHANGED <<call, h, stack, left_adj, prev_left_adj, heights, offset, auth_path>>

treehash == build = "treehash" /\ (Push \/ Join \/ NextLeaf)

(* compute_root: one level, idx being leaf_idx and current[0] the node.    *)
compute_root ==
  LET i == idx \div 2 ^ h
      addr == Node(h + 1, (i \div 2) + (idx_offset \div 2 ^ (h + 1)))
  IN  /\ phase = "check" /\ h < tree_height
      /\ current' = [current EXCEPT ![0] = IF i % 2 = 1 THEN thash(auth_path[h], @, addr) ELSE thash(@, auth_path[h], addr)]
      /\ h' = h + 1
      /\ IF h + 1 = tree_height THEN phase' = "done" ELSE UNCHANGED phase
      /\ UNCHANGED <<call, idx, stack, left_adj, prev_left_adj, heights, offset, root, auth_path>>

Next == treehashx1 \/ treehashx2 \/ treehashx4 \/ treehashx8 \/ treehash \/ compute_root
Spec == Init /\ [][Next]_vars
-----------------------------------------------------------------------------
(* The stack has a place for each node that waits, and one place only: a   *)
(* node that was put there is used before another one comes to its place   *)
(* (utilsx1.c:36, utilsx4.c:49).                                           *)
StackHasRoom ==
  /\ phase = "rise" => /\ h <= tree_height
                       /\ build # "treehash" /\ h < tree_height - LogLanes(build) /\ internal_idx % 2 = 1
                          => stack[h][0] = Node(h, (internal_idx - 1) * Lanes(build) + (idx_offset \div 2 ^ h))
  /\ offset \in 0 .. tree_height + 1

(* The root is the root of this tree, whatever was in the memory of the    *)
(* stack before (utilsx4.c:89: "the other 3 nodes will be garbage").       *)
RootIsTheRoot == phase \in {"check", "done"} => root = Node(tree_height, idx_offset \div 2 ^ tree_height)

(* The path has the neighbour of every node above the leaf and nothing     *)
(* else; with no leaf it is left alone (utilsx1.c:64, merkle.c:58).        *)
PathIsTheNeighbours ==
  phase \in {"check", "done"} => \A s \in 0 .. tree_height - 1 :
    LET above == leaf_idx \div 2 ^ s
        other == IF above % 2 = 0 THEN above + 1 ELSE above - 1
    IN  auth_path[s] = IF leaf_idx = NoLeaf THEN Garbage ELSE Node(s, other + (idx_offset \div 2 ^ s))

(* The verifier gets from leaf and path to the same root. *)
VerifierFindsRoot == phase = "done" /\ leaf_idx # NoLeaf => current[0] = root

=============================================================================
