---------------------------- MODULE SphincsProofs ----------------------------
(***************************************************************************)
(* The trees of SPHINCS+ and its signatures.  A Merkle tree gives its root *)
(* and the path of a leaf, in any number of lanes (SphincsTrees); of       *)
(* signatures with any number of layers what was signed is accepted, what  *)
(* was changed is not, and no two of their hashes have the same address    *)
(* (SphincsScheme).                                                        *)
(*                                                                         *)
(* Before them, what the proofs need to know of numbers: remainders,       *)
(* powers of two, and induction for a set of numbers.                      *)
(***************************************************************************)
EXTENDS Integers, SequenceTheorems, FiniteSetTheorems, WellFoundedInduction, TLAPS

(* A remainder is a position inside the buffer. *)
LEMMA RemainderInRange ==
  ASSUME NEW n \in Nat \ {0}, NEW a \in Nat
  PROVE  a % n \in 0 .. n - 1
  OBVIOUS

(* A position inside the buffer is its own remainder. *)
LEMMA RemainderOfSmall ==
  ASSUME NEW n \in Nat \ {0}, NEW a \in 0 .. n - 1
  PROVE  a % n = a
  OBVIOUS

(* Quotient and remainder make up the number. *)
LEMMA QuotientRemainder ==
  ASSUME NEW n \in Nat \ {0}, NEW a \in Nat
  PROVE  a \div n \in Nat /\ a = n * (a \div n) + (a % n)
  OBVIOUS

(* And they are the only ones that do. *)
LEMMA RemainderUnique ==
  ASSUME NEW n \in Nat \ {0}, NEW q \in Int, NEW r \in 0 .. n - 1
  PROVE  (n * q + r) % n = r
  OBVIOUS

(* A move that stays before the end of the buffer. *)
LEMMA MoveInside ==
  ASSUME NEW n \in Nat \ {0}, NEW a \in Nat, NEW j \in Nat, (a % n) + j < n
  PROVE  (a + j) % n = (a % n) + j
<1> DEFINE q == a \div n
           r == (a % n) + j
<1>1. q \in Nat /\ a = n * q + (a % n)
  BY QuotientRemainder
<1>2. a % n \in 0 .. n - 1
  BY RemainderInRange
<1>3. r \in 0 .. n - 1
  BY <1>2
<1>4. a + j = n * q + r
  BY <1>1, <1>2
<1>5. (n * q + r) % n = r
  BY <1>1, <1>3, RemainderUnique
<1>6. QED
  BY <1>4, <1>5

(* A move up to the end of the buffer goes back to its beginning. *)
LEMMA MoveToEnd ==
  ASSUME NEW n \in Nat \ {0}, NEW a \in Nat, NEW j \in Nat, (a % n) + j = n
  PROVE  (a + j) % n = 0
<1> DEFINE q == a \div n
<1>1. q \in Nat /\ a = n * q + (a % n)
  BY QuotientRemainder
<1>2. a % n \in 0 .. n - 1
  BY RemainderInRange
<1>3. n * (q + 1) = n * q + n
  BY <1>1
<1>4. a + j = n * (q + 1) + 0
  BY <1>1, <1>2, <1>3
<1>5. (n * (q + 1) + 0) % n = 0
  BY <1>1, RemainderUnique
<1>6. QED
  BY <1>4, <1>5

(* Any numbers have a least one: the well-founded order of the library,    *)
(* with a set in place of a predicate.                                     *)
LEMMA Least ==
  ASSUME NEW T, T \subseteq Nat, T # {}
  PROVE  \E x \in T : \A y \in T : x <= y
<1> DEFINE R == OpToRel(<, Nat)
<1>1. IsWellFoundedOn(R, Nat)  BY NatLessThanWellFounded
<1>2. \A x, y \in Nat : x < y => <<x, y>> \in R  BY DEF OpToRel
<1> HIDE DEF R
<1>3. PICK x \in T : \A y \in T : ~ (<<y, x>> \in R)  BY <1>1, WFMin
<1>4. \A y \in T : x <= y
  <2> TAKE y \in T
  <2>1. x \in Nat /\ y \in Nat  OBVIOUS
  <2>2. ~ (y < x)  BY <1>2, <1>3, <2>1
  <2> QED BY <2>1, <2>2
<1> QED BY <1>4

(* What holds of 0 and, with every number, of the next one holds of all    *)
(* numbers; T is the set of those it holds of.                             *)
LEMMA Induction ==
  ASSUME NEW T, 0 \in T, \A n \in Nat : n \in T => n + 1 \in T
  PROVE  Nat \subseteq T
<1> SUFFICES ASSUME Nat \ T # {}
             PROVE  FALSE
  OBVIOUS
<1>1. PICK x \in Nat \ T : \A y \in Nat \ T : x <= y  BY Least
<1>2. x # 0 /\ x - 1 \in Nat  BY <1>1
<1>3. x - 1 \in T  BY <1>1, <1>2
<1>4. (x - 1) + 1 = x  BY <1>1
<1> QED BY <1>1, <1>2, <1>3, <1>4

------------------------------------------------------------------------------
(* Merkle trees. Their sizes are powers of two, which the provers do not    *)
(* compute with; of the library's theorem about the subsets of a set two    *)
(* facts are needed here.                                                   *)
LEMMA PowerDoubles ==
  ASSUME NEW n \in Nat
  PROVE  2 ^ n \in Nat \ {0} /\ 2 ^ (n + 1) = 2 * 2 ^ n
<1> DEFINE S == 1 .. n
           x == n + 1
           With == {B \cup {x} : B \in SUBSET S}
<1>1. IsFiniteSet(S) /\ Cardinality(S) = n /\ IsFiniteSet(S \cup {x}) /\ Cardinality(S \cup {x}) = n + 1
  <2>1. IsFiniteSet(S) /\ Cardinality(S) = n
    BY FS_Interval
  <2>2. x \notin S  OBVIOUS
  <2> QED BY <2>1, <2>2, FS_AddElement
<1>2. /\ IsFiniteSet(SUBSET S) /\ Cardinality(SUBSET S) = 2 ^ n
      /\ Cardinality(SUBSET (S \cup {x})) = 2 ^ (n + 1)
  BY <1>1, FS_SUBSET
<1>3. x \notin S  OBVIOUS
<1> HIDE DEF S, x
<1>4. SUBSET (S \cup {x}) = (SUBSET S) \cup With
  <2>1. ASSUME NEW B \in SUBSET (S \cup {x}) PROVE B \in (SUBSET S) \cup With
    <3>1. CASE x \in B
      <4>1. B = (B \ {x}) \cup {x} /\ B \ {x} \in SUBSET S  BY <3>1
      <4> QED BY <4>1
    <3>2. CASE x \notin B  BY <3>2
    <3> QED BY <3>1, <3>2
  <2>2. ASSUME NEW B \in (SUBSET S) \cup With PROVE B \in SUBSET (S \cup {x})
    OBVIOUS
  <2> QED BY <2>1, <2>2
<1>5. (SUBSET S) \cap With = {}  BY <1>3
<1>6. ExistsBijection(SUBSET S, With)
  <2> DEFINE f == [B \in SUBSET S |-> B \cup {x}]
  <2>1. f \in [SUBSET S -> With]  BY Zenon
  <2>2. ASSUME NEW B \in SUBSET S, NEW C \in SUBSET S, f[B] = f[C] PROVE B = C
    <3>1. B \cup {x} = C \cup {x} /\ x \notin B /\ x \notin C  BY <2>2, <1>3
    <3> QED BY <3>1
  <2>3. f \in Injection(SUBSET S, With)  BY <2>1, <2>2, Zenon DEF Injection, IsInjective
  <2>4. f \in Surjection(SUBSET S, With)  BY <2>1, Zenon DEF Surjection
  <2>5. f \in Bijection(SUBSET S, With)  BY <2>3, <2>4, Zenon DEF Bijection
  <2> QED BY <2>5, Zenon DEF ExistsBijection
<1>7. IsFiniteSet(With) /\ Cardinality(With) = Cardinality(SUBSET S)
  BY <1>2, <1>6, FS_Bijection, Zenon
<1>8. Cardinality((SUBSET S) \cup With) = Cardinality(SUBSET S) + Cardinality(With)
  <2> DEFINE A == SUBSET S
             B == With
  <2>1. IsFiniteSet(A) /\ IsFiniteSet(B) /\ A \cap B = {}  BY <1>2, <1>5, <1>7
  <2> HIDE DEF A, B, With
  <2>2. Cardinality(A \cup B) = Cardinality(A) + Cardinality(B) - Cardinality(A \cap B)
    BY <2>1, FS_Union
  <2>3. Cardinality(A \cap B) = 0  BY <2>1, FS_EmptySet
  <2>4. Cardinality(A) \in Nat /\ Cardinality(B) \in Nat  BY <2>1, FS_CardinalityType
  <2>5. Cardinality(A \cup B) = Cardinality(A) + Cardinality(B)  BY <2>2, <2>3, <2>4
  <2> QED BY <2>5 DEF A, B
<1>9. Cardinality(SUBSET S) \in Nat  BY <1>2, FS_CardinalityType
<1>10. Cardinality(SUBSET S) # 0
  <2>1. {} \in SUBSET S  OBVIOUS
  <2> QED BY <1>2, <2>1, FS_EmptySet, Zenon
<1> HIDE DEF With
<1>11. 2 ^ (n + 1) = 2 ^ n + 2 ^ n /\ 2 ^ n \in Nat /\ 2 ^ n # 0
  <2>1. 2 ^ (n + 1) = Cardinality((SUBSET S) \cup With)  BY <1>2, <1>4
  <2> QED BY <2>1, <1>2, <1>7, <1>8, <1>9, <1>10, Zenon
<1> QED BY <1>11

LEMMA PowerOfSum ==
  ASSUME NEW m \in Nat, NEW n \in Nat
  PROVE  2 ^ (m + n) = 2 ^ m * 2 ^ n
<1> DEFINE T == {c \in Nat : 2 ^ (m + c) = 2 ^ m * 2 ^ c}
<1>1. 0 \in T
  <2>1. 2 ^ 0 = 1  OBVIOUS
  <2>2. m + 0 = m /\ 2 ^ m \in Nat  BY PowerDoubles
  <2> QED BY <2>1, <2>2
<1>2. ASSUME NEW c \in Nat, c \in T PROVE c + 1 \in T
  <2>1. m + (c + 1) = (m + c) + 1 /\ m + c \in Nat  OBVIOUS
  <2>2. 2 ^ (m + (c + 1)) = 2 * 2 ^ (m + c)  BY <2>1, PowerDoubles
  <2>3. 2 ^ (c + 1) = 2 * 2 ^ c /\ 2 ^ c \in Nat /\ 2 ^ m \in Nat  BY PowerDoubles
  <2>4. 2 ^ (m + c) = 2 ^ m * 2 ^ c  BY <1>2
  <2>5. \A a, b \in Nat : 2 * (a * b) = a * (2 * b)  OBVIOUS
  <2> QED BY <2>2, <2>3, <2>4, <2>5
<1> HIDE DEF T
<1>3. Nat \subseteq T  BY <1>1, <1>2, Induction
<1> QED BY <1>3 DEF T

(* Halving, a number of times. *)
LEMMA QuotientIs ==
  ASSUME NEW n \in Nat \ {0}, NEW a \in Nat, NEW q \in Nat, NEW r \in 0 .. n - 1, a = n * q + r
  PROVE  a \div n = q
<1>1. n * q \in Nat  OBVIOUS
<1>2. a \div n \in Nat /\ a = n * (a \div n) + (a % n) /\ a % n \in 0 .. n - 1  BY QuotientRemainder, RemainderInRange
<1>3. a % n = r  BY RemainderUnique, <1>1
<1>4. n * q = n * (a \div n)  BY <1>1, <1>2, <1>3
<1> QED BY <1>2, <1>4

LEMMA DivideTwice ==
  ASSUME NEW n \in Nat \ {0}, NEW c \in Nat \ {0}, NEW a \in Nat
  PROVE  a \div (n * c) = (a \div n) \div c
<1> DEFINE q == a \div n
           o == q \div c
           r == n * (q % c) + (a % n)
<1>1. q \in Nat /\ a = n * q + (a % n) /\ a % n \in 0 .. n - 1  BY QuotientRemainder, RemainderInRange
<1>2. o \in Nat /\ q = c * o + (q % c) /\ q % c \in 0 .. c - 1  BY <1>1, QuotientRemainder, RemainderInRange
<1> DEFINE x == a % n
           y == q % c
<1>3. x \in 0 .. n - 1 /\ y \in 0 .. c - 1  BY <1>1, <1>2
<1>3a. a = n * q + x /\ q = c * o + y /\ r = n * y + x  BY <1>1, <1>2
<1> HIDE DEF x, y, o, q, r
<1>4. a = (n * c) * o + r
  <2>1. n * q = n * (c * o) + n * y  BY <1>1, <1>2, <1>3, <1>3a
  <2>2. n * (c * o) = (n * c) * o  BY <1>2
  <2>3. n * (c * o) \in Nat /\ n * y \in Nat /\ n * q \in Nat  BY <1>1, <1>2, <1>3
  <2> QED BY <1>3, <1>3a, <2>1, <2>2, <2>3
<1>5. r \in 0 .. (n * c) - 1
  <2>1. y + 1 <= c /\ y + 1 \in Nat BY <1>3
  <2>2. n * (y + 1) <= n * c
    <3>1. PICK d \in Nat : c = (y + 1) + d
      <4>1. c - (y + 1) \in Nat /\ c = (y + 1) + (c - (y + 1))  BY <2>1
      <4> QED BY <4>1
    <3>2. n * c = n * (y + 1) + n * d  BY <3>1, <2>1
    <3>3. n * d \in Nat /\ n * (y + 1) \in Nat  BY <2>1
    <3> QED BY <3>2, <3>3
  <2>3. n * (y + 1) = n * y + n /\ n * y \in Nat /\ n * c \in Nat  BY <1>3
  <2> QED BY <1>3, <1>3a, <2>2, <2>3
<1>6. n * c \in Nat \ {0}
  <2>1. PICK d \in Nat : c = d + 1
    <3>1. c - 1 \in Nat /\ c = (c - 1) + 1  OBVIOUS
    <3> QED BY <3>1
  <2>2. n * c = n * d + n /\ n * d \in Nat  BY <2>1
  <2> QED BY <2>2
<1>7. a \div (n * c) = o  BY <1>2, <1>4, <1>5, <1>6, QuotientIs
<1> QED BY <1>7 DEF o, q

LEMMA HalveOnce ==
  ASSUME NEW a \in Nat, NEW n \in Nat
  PROVE  a \div 2 ^ n \in Nat /\ a \div 2 ^ (n + 1) = (a \div 2 ^ n) \div 2
<1>1. 2 ^ n \in Nat \ {0} /\ 2 ^ (n + 1) = 2 * 2 ^ n  BY PowerDoubles
<1>2. 2 * 2 ^ n = 2 ^ n * 2  BY <1>1
<1>3. a \div (2 ^ n * 2) = (a \div 2 ^ n) \div 2  BY <1>1, DivideTwice
<1>4. a \div 2 ^ n \in Nat  BY <1>1, QuotientRemainder
<1> QED BY <1>1, <1>2, <1>3, <1>4

LEMMA HalveNot == ASSUME NEW a \in Nat PROVE a \div 2 ^ 0 = a
<1>1. 2 ^ 0 = 1  OBVIOUS
<1> QED BY <1>1

(* A quotient by a power is taken in two steps, and a power is an even multiple of a smaller one. *)
Splits(a, m, n) == a \div 2 ^ (m + n) = (a \div 2 ^ m) \div 2 ^ n
Grows(m, n) == \E c \in Nat \ {0} : 2 ^ n = (2 * c) * 2 ^ m

LEMMA HalveAgain ==
  ASSUME NEW a \in Nat, NEW m \in Nat, NEW n \in Nat
  PROVE  Splits(a, m, n)
<1>1. 2 ^ (m + n) = 2 ^ m * 2 ^ n /\ 2 ^ m \in Nat \ {0} /\ 2 ^ n \in Nat \ {0}
  BY PowerDoubles, PowerOfSum
<1>2. a \div (2 ^ m * 2 ^ n) = (a \div 2 ^ m) \div 2 ^ n  BY <1>1, DivideTwice
<1> QED BY <1>1, <1>2, Zenon DEF Splits

(* Powers grow. *)
LEMMA PowerGrows ==
  ASSUME NEW m \in Nat, NEW n \in Nat, m < n
  PROVE  Grows(m, n)
<1>1. PICK d \in Nat : n = m + (d + 1)
  <2>1. n - m - 1 \in Nat /\ n = m + ((n - m - 1) + 1)  OBVIOUS
  <2> QED BY <2>1
<1>2. d + 1 \in Nat /\ n - m - 1 = d  BY <1>1
<1>3. 2 ^ n = 2 ^ m * 2 ^ (d + 1)  BY <1>1, <1>2, PowerOfSum
<1>4. 2 ^ (d + 1) = 2 * 2 ^ d /\ 2 ^ d \in Nat \ {0} /\ 2 ^ m \in Nat  BY PowerDoubles
<1>5. \A x, y \in Nat : x * (2 * y) = (2 * y) * x  OBVIOUS
<1>6. 2 ^ n = (2 * 2 ^ d) * 2 ^ m  BY <1>3, <1>4, <1>5
<1> QED BY <1>4, <1>6 DEF Grows

LEMMA PowerLess ==
  ASSUME NEW m \in Nat, NEW n \in Nat, m < n
  PROVE  2 * 2 ^ m <= 2 ^ n /\ 2 ^ m < 2 ^ n
<1>0. Grows(m, n)  BY PowerGrows
<1>1. PICK c \in Nat \ {0} : 2 ^ n = (2 * c) * 2 ^ m  BY <1>0 DEF Grows
<1>2. 2 ^ m \in Nat \ {0} /\ 2 ^ n \in Nat  BY PowerDoubles
<1>3. PICK d \in Nat : c = d + 1
  <2>1. c - 1 \in Nat /\ c = (c - 1) + 1  OBVIOUS
  <2> QED BY <2>1
<1> DEFINE x == 2 ^ m
<1>4. x \in Nat \ {0} BY <1>2
<1>5. 2 ^ n = (2 * (d + 1)) * x  BY <1>1, <1>3
<1> HIDE DEF x
<1>6. (2 * (d + 1)) * x = 2 * (d * x) + 2 * x /\ d * x \in Nat  BY <1>4
<1>7. 2 * x <= 2 ^ n /\ x < 2 ^ n  BY <1>2, <1>4, <1>5, <1>6
<1> QED BY <1>7 DEF x

CONSTANTS MaxTreeHeight, RowOfTrees
VARIABLES builder, tree_height, leaf_idx, idx_offset, doing, idx, level, current, waiting,
          left_adj, prev_left_adj, heights, depth, top_node, auth_path

Treehash == INSTANCE SphincsTrees WITH
  MaxHeight <- MaxTreeHeight, Trees <- RowOfTrees, build <- builder, phase <- doing, h <- level,
  stack <- waiting, offset <- depth, root <- top_node

(* Below the height of the tree at which ~0 would be the index of a leaf. *)
TreeSizes == Treehash!SizesAssumption /\ MaxTreeHeight <= 27

(* A call: how many leaves at a time, the height of the tree, the first   *)
(* leaf of the tree and the leaf whose path is wanted.                     *)
TheCall == [n |-> Treehash!Lanes(builder), g |-> Treehash!LogLanes(builder), T |-> tree_height,
            off |-> idx_offset, leaf |-> leaf_idx]
IsCall(c) ==
  /\ c.g \in 0 .. 3 /\ c.n = 2 ^ c.g /\ c.n \in {1, 2, 4, 8}
  /\ c.T \in 1 .. 27 /\ c.g <= c.T
  /\ c.leaf \in 0 .. 2 ^ c.T - 1 \cup {Treehash!NoLeaf}
  /\ \E t \in Nat : c.off = t * 2 ^ c.T

(* Up to this level all lanes are full, and the left nodes wait. *)
Low(c) == c.T - c.g
Base(c, s) == c.off \div 2 ^ s
(* Node u, from the left, of the tree's level s. *)
At(c, s, u) == Treehash!Node(s, u + Base(c, s))
(* The lanes that are empty at level s. *)
Adj(c, s) == IF s <= Low(c) THEN 0 ELSE c.n - 2 ^ (c.T - s)
Sibling(x) == IF x % 2 = 0 THEN x + 1 ELSE x - 1

(* The lanes hold the nodes from n * q on. *)
Climbed(c, s, q, cur) ==
  \A l \in Adj(c, s) .. c.n - 1 : cur[l] = At(c, s, (c.n * q) + (l - Adj(c, s)))
(* When x leaves, or groups of leaves, are done a left node waits wherever *)
(* x has a bit.                                                            *)
Waits(c, x, w) ==
  \A s \in Nat : s < Low(c) /\ (x \div 2 ^ s) % 2 = 1 =>
    \A l \in 0 .. c.n - 1 : w[s][l] = At(c, s, (c.n * ((x \div 2 ^ s) - 1)) + l)
(* From x one gets up to level s. *)
Reaches(c, s, x) == IF s <= Low(c) THEN \E q \in Nat : x + 1 = (q + 1) * 2 ^ s ELSE x + 1 = 2 ^ Low(c)
(* Which row of lanes has the neighbour of level s, and how much is done    *)
(* when that row comes.                                                    *)
Which(c, s) == IF c.n = 1 THEN Sibling(c.leaf \div 2 ^ s) ELSE (c.leaf \div 2 ^ s) \div c.n
Needed(c, s) == IF s <= Low(c) THEN (Which(c, s) + 1) * 2 ^ s ELSE 2 ^ Low(c)
PathOf(c, s, path) == path[s] = At(c, s, Sibling(c.leaf \div 2 ^ s))
PathUpTo(c, x, r, path) ==
  \A s \in 0 .. c.T - 1 :
    IF c.leaf = Treehash!NoLeaf THEN path[s] = Treehash!Garbage
    ELSE Needed(c, s) <= (IF s < r THEN x + 1 ELSE x) => PathOf(c, s, path)

LEMMA CallNumbers ==
  ASSUME NEW c, IsCall(c)
  PROVE  /\ c.T \in Nat \ {0} /\ c.T <= 27 /\ c.g \in Nat /\ c.g <= 3 /\ c.n \in Nat \ {0}
         /\ Low(c) \in Nat /\ Low(c) + c.g = c.T
         /\ 2 ^ Low(c) \in Nat \ {0} /\ 2 ^ c.T = 2 ^ Low(c) * c.n
<1>1. c.T \in 1 .. 27 /\ c.g \in 0 .. 3 /\ c.g <= c.T /\ c.n = 2 ^ c.g /\ c.n \in {1, 2, 4, 8}
  BY DEF IsCall
<1> DEFINE b == Low(c)
<1>2. b \in Nat /\ b + c.g = c.T  BY <1>1 DEF Low
<1>3. c.g \in Nat  BY <1>1
<1> HIDE DEF b
<1>4. 2 ^ b \in Nat \ {0} /\ 2 ^ (b + c.g) = 2 ^ b * 2 ^ c.g  BY <1>2, <1>3, PowerDoubles, PowerOfSum
<1>5. 2 ^ c.T = 2 ^ b * c.n  BY <1>1, <1>2, <1>4
<1>6. c.T \in Nat \ {0} /\ c.T <= 27 /\ c.g <= 3 /\ c.n \in Nat \ {0}  BY <1>1
<1> QED BY <1>2, <1>3, <1>4, <1>5, <1>6 DEF b

(* The tree begins at an even place of every level below its root. *)
LEMMA BaseHalves ==
  ASSUME NEW c, IsCall(c), NEW s \in Nat, s < c.T
  PROVE  Base(c, s) \in Nat /\ Base(c, s + 1) \in Nat /\ Base(c, s) = 2 * Base(c, s + 1)
<1>1. PICK t \in Nat : c.off = t * 2 ^ c.T  BY DEF IsCall
<1>2. c.T \in Nat  BY CallNumbers
<1>3. PICK e \in Nat \ {0} : 2 ^ c.T = (2 * e) * 2 ^ s
  <2>1. Grows(s, c.T)  BY <1>2, PowerGrows
  <2> QED BY <2>1 DEF Grows
<1>4. 2 ^ s \in Nat \ {0}  BY PowerDoubles
<1> DEFINE x == 2 ^ s
<1>5. c.off = x * (2 * (t * e))
  <2>1. c.off = t * ((2 * e) * x) /\ x \in Nat  BY <1>1, <1>3, <1>4
  <2> HIDE DEF x
  <2>2. t * ((2 * e) * x) = x * (2 * (t * e))  BY <2>1
  <2> QED BY <2>1, <2>2
<1>6. x \in Nat \ {0} BY <1>4
<1>7. c.off \div x = 2 * (t * e)
  <2> HIDE DEF x
  <2>1. 2 * (t * e) \in Nat /\ c.off \in Nat  BY <1>5, <1>6
  <2>2. 0 \in 0 .. x - 1 /\ c.off = x * (2 * (t * e)) + 0  BY <1>5, <1>6, <2>1
  <2> QED BY <1>6, <2>1, <2>2, QuotientIs
<1>8. c.off \in Nat /\ t * e \in Nat
  <2> HIDE DEF x
  <2>1. t * e \in Nat  OBVIOUS
  <2> QED BY <1>5, <1>6, <2>1
<1>9. c.off \div 2 ^ (s + 1) = (c.off \div 2 ^ s) \div 2  BY <1>8, HalveOnce
<1>10. (2 * (t * e)) \div 2 = t * e  BY <1>8
<1> QED BY <1>7, <1>8, <1>9, <1>10 DEF Base

(* Two nodes under one. *)
LEMMA NodesJoin ==
  ASSUME NEW c, IsCall(c), NEW s \in Nat, s < c.T, NEW u \in Nat, NEW half \in Nat, u = 2 * half
  PROVE  Treehash!thash(At(c, s, u), At(c, s, u + 1), Treehash!Node(s + 1, half + Base(c, s + 1))) = At(c, s + 1, half)
<1>1. Base(c, s) \in Nat /\ Base(c, s + 1) \in Nat /\ Base(c, s) = 2 * Base(c, s + 1)  BY BaseHalves
<1> DEFINE b == Base(c, s + 1)
           a == Base(c, s)
<1>2. b \in Nat /\ a = 2 * b /\ a \in Nat BY <1>1
<1> HIDE DEF a, b
<1>3. Treehash!thash(Treehash!Node(s, u + a), Treehash!Node(s, (u + 1) + a), Treehash!Node(s + 1, half + b))
      = Treehash!Node(s + 1, half + b)
  BY <1>2 DEF Treehash!thash, Treehash!Node
<1> QED BY <1>3 DEF At, a, b

(* At the top the lanes that are left are in the last places. *)
LastLanes(c, s) ==
  \E e \in Nat \ {0} : /\ e = 2 ^ (c.T - s - 1) /\ 2 * e = 2 ^ (c.T - s) /\ 2 * e <= c.n
                       /\ Adj(c, s + 1) = c.n - e /\ Adj(c, s) = c.n - (2 * e)

LEMMA AdjAtTop ==
  ASSUME NEW c, IsCall(c), NEW s \in Nat, Low(c) <= s, s < c.T
  PROVE  LastLanes(c, s)
<1>0. c.T \in Nat /\ c.g \in Nat /\ c.n = 2 ^ c.g /\ Low(c) \in Nat /\ Low(c) + c.g = c.T /\ c.n \in Nat
  BY CallNumbers DEF IsCall
<1> DEFINE d == c.T - s - 1
           e == 2 ^ d
<1>1. d \in Nat /\ d + 1 = c.T - s /\ c.T - (s + 1) = d  BY <1>0
<1>2. e \in Nat \ {0} /\ 2 ^ (d + 1) = 2 * e  BY <1>1, PowerDoubles
<1>3. 2 * e <= c.n
  <2>1. d + 1 <= c.g  BY <1>0, <1>1
  <2>2. CASE d + 1 = c.g  BY <1>0, <1>2, <2>2
  <2>3. CASE d + 1 < c.g
    <3>1. d + 1 \in Nat  BY <1>1
    <3>2. 2 ^ (d + 1) < 2 ^ c.g  BY <1>0, <2>3, <3>1, PowerLess
    <3> QED BY <1>0, <1>2, <3>2
  <2> QED BY <1>0, <1>1, <2>1, <2>2, <2>3
<1>4. Adj(c, s + 1) = c.n - e
  <2>1. ~ (s + 1 <= Low(c))  BY <1>0
  <2> QED BY <1>1, <2>1 DEF Adj
<1>5. Adj(c, s) = c.n - (2 * e)
  <2>1. CASE s = Low(c)
    <3>1. d + 1 = c.g  BY <1>0, <1>1, <2>1
    <3>2. 2 * e = c.n  BY <1>0, <1>2, <3>1
    <3> QED BY <1>0, <1>2, <2>1, <3>2 DEF Adj
  <2>2. CASE s > Low(c)
    <3>1. ~ (s <= Low(c))  BY <1>0, <2>2
    <3> QED BY <1>1, <1>2, <3>1 DEF Adj
  <2> QED BY <1>0, <2>1, <2>2
<1>6. 2 * e = 2 ^ (c.T - s) /\ e = 2 ^ (c.T - s - 1)  BY <1>1, <1>2
<1> HIDE DEF e, d
<1> QED BY <1>2, <1>3, <1>4, <1>5, <1>6 DEF LastLanes

LEMMA ReachesIs ==
  ASSUME NEW c, IsCall(c), NEW s \in Nat, s <= c.T, NEW x \in Nat, x < 2 ^ Low(c), Reaches(c, s, x)
  PROVE  /\ x \div 2 ^ s \in Nat
         /\ s <= Low(c) => x + 1 = ((x \div 2 ^ s) + 1) * 2 ^ s
         /\ s >= Low(c) => x \div 2 ^ s = 0 /\ x + 1 = 2 ^ Low(c)
         /\ s < Low(c) /\ x + 1 = 2 ^ Low(c) => (x \div 2 ^ s) % 2 = 1
<1>0. Low(c) \in Nat /\ 2 ^ Low(c) \in Nat \ {0} /\ 2 ^ s \in Nat \ {0}  BY CallNumbers, PowerDoubles
<1> DEFINE y == 2 ^ s
           z == 2 ^ Low(c)
<1>1. y \in Nat \ {0} /\ z \in Nat \ {0}  BY <1>0
<1>2. CASE s <= Low(c)
  <2>1. PICK q \in Nat : x + 1 = (q + 1) * y  BY <1>2 DEF Reaches
  <2>2. x \div y = q
    <3> HIDE DEF y
    <3>1. (q + 1) * y = y * q + y /\ y * q \in Nat  BY <1>1
    <3>2. x = y * q + (y - 1) /\ y - 1 \in 0 .. y - 1  BY <1>1, <2>1, <3>1
    <3> QED BY <1>1, <3>2, QuotientIs
  <2>3. CASE s = Low(c)
    <3>1. q = 0 /\ x + 1 = z
      <4>1. y = z  BY <2>3
      <4> HIDE DEF y, z
      <4>2. x + 1 <= z /\ x + 1 = (q + 1) * z  BY <1>1, <2>1, <4>1 DEF z
      <4>3. q = 0
        <5> SUFFICES ASSUME q # 0 PROVE FALSE  OBVIOUS
        <5>1. PICK r \in Nat : q = r + 1
          <6>1. q - 1 \in Nat /\ q = (q - 1) + 1  OBVIOUS
          <6> QED BY <6>1
        <5>2. (q + 1) * z = r * z + 2 * z /\ r * z \in Nat  BY <5>1, <1>1
        <5> QED BY <4>2, <5>2, <1>1
      <4> QED BY <4>2, <4>3, <1>1
    <3> QED BY <2>1, <2>2, <2>3, <3>1
  <2>4. CASE s < Low(c)
    <3>1. ASSUME x + 1 = z PROVE q % 2 = 1
      <4>0. Grows(s, Low(c))  BY <1>0, <2>4, PowerGrows
      <4>1. PICK e \in Nat \ {0} : z = (2 * e) * y  BY <4>0 DEF Grows
      <4> HIDE DEF y, z
      <4>2. (q + 1) * y = (2 * e) * y  BY <2>1, <3>1, <4>1
      <4>3. q + 1 = 2 * e  BY <4>2, <1>1
      <4>4. q = 2 * (e - 1) + 1 /\ e - 1 \in Nat  BY <4>3
      <4> QED BY <4>4
    <3> QED BY <2>1, <2>2, <2>4, <3>1, <1>0
  <2> QED BY <1>2, <2>3, <2>4, <1>0
<1>3. CASE s > Low(c)
  <2>1. x + 1 = z  BY <1>0, <1>3 DEF Reaches
  <2>2. z < y  BY <1>0, <1>3, PowerLess
  <2>3. x \div y = 0
    <3> HIDE DEF y, z
    <3>1. x = y * 0 + x /\ x \in 0 .. y - 1  BY <1>1, <2>1, <2>2
    <3> QED BY <1>1, <3>1, QuotientIs
  <2> QED BY <1>0, <1>3, <2>1, <2>3
<1> QED BY <1>0, <1>2, <1>3

LEMMA OneLane ==
  ASSUME NEW c, IsCall(c), c.n = 1
  PROVE  c.g = 0 /\ Low(c) = c.T
<1>1. c.g \in Nat /\ 2 ^ c.g = 1 /\ Low(c) \in Nat /\ Low(c) + c.g = c.T /\ c.T \in Nat
  BY CallNumbers DEF IsCall
<1>2. c.g = 0
  <2> SUFFICES ASSUME c.g # 0 PROVE FALSE  OBVIOUS
  <2>1. 0 < c.g /\ 0 \in Nat  BY <1>1
  <2>2. 2 ^ 0 < 2 ^ c.g  BY <1>1, <2>1, PowerLess
  <2>3. 2 ^ 0 = 1  OBVIOUS
  <2> QED BY <1>1, <2>2, <2>3
<1> QED BY <1>1, <1>2

LEMMA ReachesHigher ==
  ASSUME NEW c, IsCall(c), NEW s \in Nat, s < c.T, NEW x \in Nat, x < 2 ^ Low(c), Reaches(c, s, x),
         (x \div 2 ^ s) % 2 = 1 \/ x + 1 = 2 ^ Low(c)
  PROVE  /\ Reaches(c, s + 1, x)
         /\ x \div 2 ^ (s + 1) = (x \div 2 ^ s) \div 2
         /\ x \div 2 ^ s \in Nat
         /\ s < Low(c) => (x \div 2 ^ s) % 2 = 1
<1>0. Low(c) \in Nat /\ c.T \in Nat  BY CallNumbers
<1> DEFINE q == x \div 2 ^ s
<1>1. x \div 2 ^ (s + 1) = q \div 2 /\ q \in Nat  BY HalveOnce
<1>2. /\ s <= Low(c) => x + 1 = (q + 1) * 2 ^ s
      /\ s >= Low(c) => x + 1 = 2 ^ Low(c)
      /\ s < Low(c) /\ x + 1 = 2 ^ Low(c) => q % 2 = 1
  <2>1. s <= c.T BY <1>0
  <2> QED BY <2>1, ReachesIs
<1>3. CASE s < Low(c)
  <2>1. q % 2 = 1  BY <1>2, <1>3
  <2>2. 2 ^ (s + 1) = 2 * 2 ^ s /\ 2 ^ s \in Nat \ {0}  BY PowerDoubles
  <2>3. x + 1 = (q + 1) * 2 ^ s  BY <1>0, <1>2, <1>3
  <2> DEFINE y == 2 ^ s
             half == q \div 2
  <2> HIDE DEF q
  <2>4. half \in Nat /\ q = (2 * half) + 1  BY <1>1, <2>1
  <2> HIDE DEF half
  <2>5. x + 1 = (half + 1) * 2 ^ (s + 1)
    <3>1. y \in Nat  BY <2>2
    <3>2. x + 1 = (q + 1) * y /\ 2 ^ (s + 1) = 2 * y  BY <2>2, <2>3
    <3> HIDE DEF y
    <3>3. (q + 1) * y = (half + 1) * (2 * y)  BY <3>1, <2>4
    <3> QED BY <3>2, <3>3
  <2>6. Reaches(c, s + 1, x)
    <3>1. s + 1 <= Low(c)  BY <1>0, <1>3
    <3> QED BY <3>1, <2>4, <2>5 DEF Reaches
  <2> QED BY <1>1, <2>1, <2>6 DEF q
<1>4. CASE ~ (s < Low(c))
  <2>1. ~ (s + 1 <= Low(c)) /\ s >= Low(c)  BY <1>0, <1>4
  <2>2. Reaches(c, s + 1, x)  BY <2>1, <1>2 DEF Reaches
  <2> QED BY <1>1, <1>4, <2>2
<1> QED BY <1>3, <1>4

(* One node with the node that waits. *)
LEMMA OneJoins ==
  ASSUME NEW c, IsCall(c), c.n = 1, NEW s \in Nat, s < c.T, NEW x \in Nat, x < 2 ^ Low(c), Reaches(c, s, x),
         NEW cur, NEW w, Climbed(c, s, x \div 2 ^ s, cur), Waits(c, x, w),
         (x \div 2 ^ s) % 2 = 1 \/ x + 1 = 2 ^ Low(c)
  PROVE  Treehash!thash(w[s][0], cur[0],
             Treehash!Node(s + 1, ((x \div 2 ^ s) \div 2) + (c.off \div 2 ^ (s + 1))))
           = At(c, s + 1, x \div 2 ^ (s + 1))
<1>0. Low(c) \in Nat /\ c.T \in Nat /\ c.g \in Nat /\ Low(c) + c.g = c.T  BY CallNumbers
<1>1. s < Low(c) /\ Adj(c, s) = 0
  <2>1. Low(c) = c.T  BY OneLane
  <2>2. s < Low(c)  BY <2>1
  <2> QED BY <1>0, <2>2 DEF Adj
<1> DEFINE q == x \div 2 ^ s
           half == q \div 2
<1>2. q \in Nat /\ q % 2 = 1 /\ x \div 2 ^ (s + 1) = half  BY <1>1, ReachesHigher
<1>3. w[s][0] = At(c, s, (c.n * (q - 1)) + 0)
  <2>1. 0 \in 0 .. c.n - 1  OBVIOUS
  <2> QED BY <1>1, <1>2, <2>1 DEF Waits
<1>4. cur[0] = At(c, s, (c.n * q) + 0)
  <2>1. 0 \in Adj(c, s) .. c.n - 1 /\ 0 - Adj(c, s) = 0  BY <1>1
  <2> QED BY <2>1 DEF Climbed
<1> HIDE DEF q
<1>5. half \in Nat /\ q - 1 = 2 * half /\ (c.n * (q - 1)) + 0 = 2 * half /\ (c.n * q) + 0 = (2 * half) + 1  BY <1>2
<1> HIDE DEF half
<1>6. 2 * half \in Nat  BY <1>5
<1>7. Treehash!thash(At(c, s, 2 * half), At(c, s, (2 * half) + 1), Treehash!Node(s + 1, half + Base(c, s + 1)))
      = At(c, s + 1, half)
  BY <1>5, <1>6, NodesJoin
<1> QED BY <1>2, <1>3, <1>4, <1>5, <1>7 DEF Base, half, q

(* Every lane with its neighbour; half of them come from the nodes that    *)
(* wait.                                                                   *)
LanesMeet(c, s, x, cur, w, l, from, first) ==
  /\ IsCall(c) /\ c.n # 1 /\ s \in Nat /\ s < c.T /\ x \in Nat /\ x < 2 ^ Low(c) /\ Reaches(c, s, x)
  /\ Climbed(c, s, x \div 2 ^ s, cur) /\ Waits(c, x, w)
  /\ (x \div 2 ^ s) % 2 = 1 \/ x + 1 = 2 ^ Low(c)
  /\ l \in Adj(c, s + 1) .. c.n - 1
  /\ from = IF l < c.n \div 2 THEN w[s] ELSE cur
  /\ first = IF l < c.n \div 2 THEN 2 * l ELSE (2 * l) - c.n
LEMMA LaneJoins ==
  ASSUME NEW c, NEW s, NEW x, NEW cur, NEW w, NEW l, NEW from, NEW first, LanesMeet(c, s, x, cur, w, l, from, first)
  PROVE  Treehash!thash(from[first], from[first + 1],
             Treehash!Node(s + 1, ((c.n \div 2) * ((x \div 2 ^ s) - ((x \div 2 ^ s) % 2)))
                                    + ((l - Adj(c, s + 1)) + (c.off \div 2 ^ (s + 1)))))
           = At(c, s + 1, (c.n * (x \div 2 ^ (s + 1))) + (l - Adj(c, s + 1)))
<1> USE DEF LanesMeet
<1>0. Low(c) \in Nat /\ c.T \in Nat /\ c.g \in Nat /\ Low(c) + c.g = c.T /\ c.n \in {2, 4, 8}
  BY CallNumbers DEF IsCall
<1> DEFINE q == x \div 2 ^ s
           half == q \div 2
           a == Adj(c, s + 1)
           b == Base(c, s + 1)
           m == (c.n * half) + (l - a)
<1>1. q \in Nat /\ (s < Low(c) => q % 2 = 1) /\ x \div 2 ^ (s + 1) = half  BY ReachesHigher
<1>2. b \in Nat  BY BaseHalves
<1>3. a \in Nat /\ (s < Low(c) => a = 0 /\ Adj(c, s) = 0)
  <2>1. CASE s < Low(c)
    <3>1. s + 1 <= Low(c) /\ s <= Low(c)  BY <1>0, <2>1
    <3> QED BY <3>1 DEF Adj
  <2>2. CASE ~ (s < Low(c))
    <3>1. Low(c) <= s  BY <1>0, <2>2
    <3>2. PICK e \in Nat \ {0} : 2 * e <= c.n /\ a = c.n - e  BY <3>1, AdjAtTop DEF LastLanes
    <3> HIDE DEF a
    <3>3. a \in Nat  BY <1>0, <3>2
    <3> QED BY <2>2, <3>3
  <2> QED BY <2>1, <2>2
<1>4. l \in a .. c.n - 1 /\ l \in Nat
  <2>1. l \in a .. c.n - 1  OBVIOUS
  <2> HIDE DEF a
  <2> QED BY <1>0, <1>3, <2>1
<1> HIDE DEF q, a, b
<1>5. m \in Nat /\ half \in Nat
  <2>1. half \in Nat  BY <1>1
  <2> HIDE DEF half
  <2> QED BY <1>0, <1>3, <1>4, <2>1
<1>6. from[first] = At(c, s, 2 * m) /\ from[first + 1] = At(c, s, (2 * m) + 1)
  <2>1. CASE s < Low(c)
    <3>1. q % 2 = 1 /\ q = (2 * half) + 1 /\ a = 0 /\ Adj(c, s) = 0  BY <1>1, <1>3, <2>1
    <3> HIDE DEF half
    <3>2. CASE l < c.n \div 2
      <4>1. from = w[s] /\ first = 2 * l  BY <3>2
      <4>2. first \in 0 .. c.n - 1 /\ first + 1 \in 0 .. c.n - 1  BY <1>0, <1>4, <3>2, <4>1
      <4>3. /\ w[s][first] = At(c, s, (c.n * (q - 1)) + first)
            /\ w[s][first + 1] = At(c, s, (c.n * (q - 1)) + (first + 1))
        BY <2>1, <3>1, <4>2 DEF Waits, q
      <4>4. (c.n * (q - 1)) + first = 2 * m /\ (c.n * (q - 1)) + (first + 1) = (2 * m) + 1
        BY <1>0, <1>4, <1>5, <3>1, <4>1
      <4> QED BY <4>1, <4>3, <4>4
    <3>3. CASE ~ (l < c.n \div 2)
      <4>1. from = cur /\ first = (2 * l) - c.n  BY <3>3
      <4>2. first \in 0 .. c.n - 1 /\ first + 1 \in 0 .. c.n - 1  BY <1>0, <1>4, <3>3, <4>1
      <4>3. /\ cur[first] = At(c, s, (c.n * q) + (first - 0))
            /\ cur[first + 1] = At(c, s, (c.n * q) + ((first + 1) - 0))
        BY <3>1, <4>2 DEF Climbed, q
      <4>4. (c.n * q) + (first - 0) = 2 * m /\ (c.n * q) + ((first + 1) - 0) = (2 * m) + 1
        BY <1>0, <1>4, <1>5, <3>1, <4>1
      <4> QED BY <4>1, <4>3, <4>4
    <3> QED BY <3>2, <3>3
  <2>2. CASE ~ (s < Low(c))
    <3>1. Low(c) <= s  BY <1>0, <2>2
    <3>2. PICK e \in Nat \ {0} : 2 * e <= c.n /\ a = c.n - e /\ Adj(c, s) = c.n - (2 * e)
      BY <3>1, AdjAtTop DEF a, LastLanes
    <3>3. q = 0
      <4>1. s <= c.T  BY <1>0
      <4> QED BY <3>1, <4>1, ReachesIs DEF q
    <3>4. half = 0  BY <3>3
    <3> HIDE DEF half
    <3>5. ~ (l < c.n \div 2) /\ m = l - a  BY <1>0, <1>4, <3>2, <3>4
    <3>6. from = cur /\ first = (2 * l) - c.n  BY <3>5
    <3> DEFINE d == Adj(c, s)
    <3>7. /\ first \in d .. c.n - 1 /\ first + 1 \in d .. c.n - 1
          /\ first - d = 2 * m /\ (first + 1) - d = (2 * m) + 1
      <4>1. d = c.n - (2 * e)  BY <3>2
      <4> HIDE DEF d
      <4> QED BY <1>0, <1>4, <3>2, <3>5, <3>6, <4>1
    <3>8. /\ cur[first] = At(c, s, (c.n * q) + (first - d))
          /\ cur[first + 1] = At(c, s, (c.n * q) + ((first + 1) - d))
      BY <3>7 DEF Climbed, q
    <3>9. (c.n * q) + (2 * m) = 2 * m /\ (c.n * q) + ((2 * m) + 1) = (2 * m) + 1  BY <1>0, <1>5, <3>3
    <3> QED BY <3>6, <3>7, <3>8, <3>9
  <2> QED BY <2>1, <2>2
<1>7. ((c.n \div 2) * (q - (q % 2))) + ((l - a) + b) = m + b
  <2>1. q - (q % 2) = 2 * half  BY <1>1
  <2> HIDE DEF half
  <2> QED BY <1>0, <1>2, <1>3, <1>4, <1>5, <2>1
<1> HIDE DEF m, half
<1>8. Treehash!thash(At(c, s, 2 * m), At(c, s, (2 * m) + 1), Treehash!Node(s + 1, m + Base(c, s + 1))) = At(c, s + 1, m)
  <2>1. 2 * m \in Nat  BY <1>5
  <2> QED BY <1>5, <2>1, NodesJoin
<1> QED BY <1>1, <1>6, <1>7, <1>8 DEF m, a, b, q, Base

(* With x a left node of level s is done. *)
EndsLeft(x, s, q) == x \in Nat /\ s \in Nat /\ q \in Nat /\ x + 1 = (q + 1) * 2 ^ s /\ q % 2 = 0

(* The next number has the bits of this one above s, none below. *)
LEMMA CarryBits ==
  ASSUME NEW x, NEW s, NEW q, EndsLeft(x, s, q), NEW t \in Nat
  PROVE  /\ t < s => ((x + 1) \div 2 ^ t) % 2 = 0
         /\ t = s => (x + 1) \div 2 ^ t = q + 1
         /\ t > s => (x + 1) \div 2 ^ t = x \div 2 ^ t
<1>0. x \in Nat /\ s \in Nat /\ q \in Nat /\ x + 1 = (q + 1) * 2 ^ s /\ q % 2 = 0  BY DEF EndsLeft
<1> USE <1>0
<1> DEFINE y == 2 ^ s
<1>1. y \in Nat \ {0}  BY PowerDoubles
<1>2. x + 1 = (q + 1) * y  OBVIOUS
<1>3. (x + 1) \div y = q + 1 /\ x \div y = q
  <2> HIDE DEF y
  <2>1. y * (q + 1) = (q + 1) * y /\ y * q \in Nat /\ (q + 1) * y = y * q + y  BY <1>1
  <2>2. x + 1 = y * (q + 1) + 0 /\ 0 \in 0 .. y - 1  BY <1>1, <1>2, <2>1
  <2>3. x = y * q + (y - 1) /\ y - 1 \in 0 .. y - 1  BY <1>1, <1>2, <2>1
  <2>4. (x + 1) \div y = q + 1
    <3>1. x + 1 \in Nat /\ q + 1 \in Nat OBVIOUS
    <3> QED BY <1>1, <2>2, <3>1, QuotientIs
  <2> QED BY <1>1, <2>3, <2>4, QuotientIs
<1>4. ASSUME t < s PROVE ((x + 1) \div 2 ^ t) % 2 = 0
  <2>0. Grows(t, s)  BY <1>4, PowerGrows
  <2>1. PICK e \in Nat \ {0} : y = (2 * e) * 2 ^ t  BY <2>0 DEF Grows
  <2> DEFINE z == 2 ^ t
  <2>2. z \in Nat \ {0}  BY PowerDoubles
  <2>3. y = (2 * e) * z  BY <2>1
  <2> HIDE DEF y, z
  <2> DEFINE o == (q + 1) * e
  <2>4. o \in Nat  OBVIOUS
  <2>5. x + 1 = z * (2 * o) + 0
    <3>1. (q + 1) * ((2 * e) * z) = z * (2 * ((q + 1) * e))  BY <2>2
    <3>2. z * (2 * o) \in Nat  BY <2>2, <2>4
    <3> QED BY <1>2, <2>3, <3>1, <3>2
  <2> HIDE DEF o
  <2>6. (x + 1) \div z = 2 * o
    <3>1. x + 1 \in Nat /\ 2 * o \in Nat /\ 0 \in 0 .. z - 1  BY <2>2, <2>4
    <3> QED BY <2>2, <2>5, <3>1, QuotientIs
  <2>7. (2 * o) % 2 = 0  BY <2>4
  <2> QED BY <2>6, <2>7 DEF z
<1>5. ASSUME t > s PROVE (x + 1) \div 2 ^ t = x \div 2 ^ t
  <2>1. PICK d \in Nat : t = s + (1 + d)
    <3>1. t - s - 1 \in Nat /\ t = s + (1 + (t - s - 1))  BY <1>5
    <3> QED BY <3>1
  <2>2. ASSUME NEW a \in Nat PROVE a \div 2 ^ t = (a \div 2 ^ s) \div 2 ^ (1 + d)
    <3>1. 1 + d \in Nat  OBVIOUS
    <3>2. Splits(a, s, 1 + d)  BY <3>1, HalveAgain
    <3>3. a \div 2 ^ (s + (1 + d)) = (a \div 2 ^ s) \div 2 ^ (1 + d)  BY <3>2 DEF Splits
    <3> QED BY <2>1, <3>3, Zenon
  <2>3. ASSUME NEW a \in Nat PROVE a \div 2 ^ (1 + d) = (a \div 2) \div 2 ^ d
    <3>1. 2 ^ 1 = 2 /\ 1 \in Nat  OBVIOUS
    <3>2. Splits(a, 1, d)  BY <3>1, HalveAgain
    <3>3. a \div 2 ^ (1 + d) = (a \div 2 ^ 1) \div 2 ^ d  BY <3>2 DEF Splits
    <3> QED BY <3>1, <3>3, Zenon
  <2>4. (q + 1) \div 2 = q \div 2  OBVIOUS
  <2>5. x + 1 \in Nat /\ q + 1 \in Nat  OBVIOUS
  <2>6. (x + 1) \div 2 ^ t = (q + 1) \div 2 ^ (1 + d) /\ x \div 2 ^ t = q \div 2 ^ (1 + d)
    BY <1>3, <2>2, <2>5, Zenon
  <2>7. (q + 1) \div 2 ^ (1 + d) = q \div 2 ^ (1 + d)  BY <2>3, <2>4, <2>5, Zenon
  <2> QED BY <2>6, <2>7, Zenon
<1> QED BY <1>3, <1>4, <1>5

(* A left node is put down to wait. *)
LEMMA NextWaits ==
  ASSUME NEW c, IsCall(c), NEW s \in Nat, s < Low(c), NEW x \in Nat, x < 2 ^ Low(c), Reaches(c, s, x),
         (x \div 2 ^ s) % 2 = 0, NEW cur, NEW w, NEW v, Climbed(c, s, x \div 2 ^ s, cur), Waits(c, x, w),
         v[s] = cur, \A t \in Nat : t < Low(c) /\ t # s => v[t] = w[t]
  PROVE  Waits(c, x + 1, v)
<1> DEFINE q == x \div 2 ^ s
<1>0. Low(c) \in Nat /\ c.T \in Nat /\ s <= c.T /\ c.n \in Nat  BY CallNumbers
<1>1. q \in Nat /\ x + 1 = (q + 1) * 2 ^ s  BY <1>0, ReachesIs
<1>2. ASSUME NEW t \in Nat, t < Low(c), ((x + 1) \div 2 ^ t) % 2 = 1, NEW l \in 0 .. c.n - 1
      PROVE  v[t][l] = At(c, t, (c.n * (((x + 1) \div 2 ^ t) - 1)) + l)
  <2>1. /\ t < s => ((x + 1) \div 2 ^ t) % 2 = 0
        /\ t = s => (x + 1) \div 2 ^ t = q + 1
        /\ t > s => (x + 1) \div 2 ^ t = x \div 2 ^ t
    <3> HIDE DEF q
    <3>1. q % 2 = 0  BY DEF q
    <3>2. EndsLeft(x, s, q)  BY <1>1, <3>1 DEF EndsLeft
    <3> QED BY <3>2, CarryBits
  <2>2. ~ (t < s)  BY <1>2, <2>1
  <2>3. CASE t = s
    <3>1. Adj(c, s) = 0  BY <1>0 DEF Adj
    <3>2. cur[l] = At(c, s, (c.n * q) + (l - 0))  BY <3>1 DEF Climbed
    <3> HIDE DEF q
    <3>3. (q + 1) - 1 = q /\ l - 0 = l  BY <1>1
    <3> QED BY <2>1, <2>3, <3>2, <3>3
  <2>4. CASE t > s
    <3>1. v[t] = w[t]  BY <1>2, <2>4
    <3>2. w[t][l] = At(c, t, (c.n * ((x \div 2 ^ t) - 1)) + l)  BY <1>2, <2>1, <2>4 DEF Waits
    <3> QED BY <2>1, <2>4, <3>1, <3>2
  <2> QED BY <2>2, <2>3, <2>4
<1> QED BY <1>2 DEF Waits

(***************************************************************************)
(* The path of the leaf.                                                   *)
(***************************************************************************)
LEMMA QuotientBelow ==
  ASSUME NEW a \in Nat, NEW m \in Nat, NEW k \in Nat, a < 2 ^ (m + k)
  PROVE  a \div 2 ^ m \in Nat /\ a \div 2 ^ m < 2 ^ k
<1> DEFINE y == 2 ^ m
           z == 2 ^ k
           q == a \div y
<1>1. 2 ^ (m + k) = y * z /\ y \in Nat \ {0} /\ z \in Nat \ {0}  BY PowerDoubles, PowerOfSum
<1> HIDE DEF y, z
<1>2. q \in Nat /\ a = y * q + (a % y) /\ a % y \in 0 .. y - 1  BY <1>1, QuotientRemainder, RemainderInRange
<1> DEFINE r == a % y
<1>3. r \in Nat /\ a = y * q + r  BY <1>1, <1>2
<1> HIDE DEF q, r
<1>4. q < z
  <2> SUFFICES ASSUME ~ (q < z) PROVE FALSE  OBVIOUS
  <2>1. PICK d \in Nat : q = z + d
    <3>1. q - z \in Nat /\ q = z + (q - z)  BY <1>1, <1>2
    <3> QED BY <3>1
  <2>2. y * q = y * z + y * d /\ y * d \in Nat /\ y * z \in Nat  BY <1>1, <2>1
  <2> QED BY <1>1, <1>3, <2>2
<1> QED BY <1>2, <1>4 DEF q, y, z

LEMMA SiblingIs ==
  ASSUME NEW a \in Nat
  PROVE  /\ Sibling(a) \in Nat
         /\ \A b \in Nat : b \div 2 = a \div 2 /\ b # a <=> b = Sibling(a)
         /\ \A k \in Nat : a < 2 * k => Sibling(a) < 2 * k
<1> DEFINE h == a \div 2
<1>1. h \in Nat /\ (a = 2 * h \/ a = (2 * h) + 1)  OBVIOUS
<1>2. Sibling(a) = IF a = 2 * h THEN (2 * h) + 1 ELSE 2 * h  BY DEF Sibling
<1> HIDE DEF h
<1>3. ASSUME NEW b \in Nat PROVE b \div 2 = h <=> b = 2 * h \/ b = (2 * h) + 1  BY <1>1
<1> QED BY <1>1, <1>2, <1>3 DEF h

(* A leaf and the nodes above it. *)
LEMMA LeafNumbers ==
  ASSUME NEW c, IsCall(c), c.leaf # Treehash!NoLeaf, NEW s \in Nat, s <= c.T
  PROVE  /\ c.leaf \in Nat /\ c.leaf \div 2 ^ s \in Nat /\ c.leaf \div 2 ^ s < 2 ^ (c.T - s)
<1>1. c.leaf \in 0 .. 2 ^ c.T - 1  BY DEF IsCall
<1>2. c.T \in Nat /\ c.T - s \in Nat /\ s + (c.T - s) = c.T  BY CallNumbers
<1>3. 2 ^ c.T \in Nat \ {0}  BY <1>2, PowerDoubles
<1>4. c.leaf \in Nat /\ c.leaf < 2 ^ (s + (c.T - s))
  <2>1. c.leaf \in Nat /\ c.leaf < 2 ^ c.T  BY <1>1, <1>3
  <2> QED BY <1>2, <2>1
<1> QED BY <1>2, <1>4, QuotientBelow

LEMMA WhichIs ==
  ASSUME NEW c, IsCall(c), c.leaf # Treehash!NoLeaf, NEW s \in Nat, s < c.T
  PROVE  /\ Which(c, s) \in Nat
         /\ s <= Low(c) => Which(c, s) < 2 ^ (Low(c) - s)
         /\ s >= Low(c) => Which(c, s) = 0
<1> DEFINE L == c.leaf \div 2 ^ s
<1>0. Low(c) \in Nat /\ c.T \in Nat /\ c.g \in Nat /\ Low(c) + c.g = c.T /\ c.n \in Nat \ {0} /\ c.n = 2 ^ c.g
  BY CallNumbers DEF IsCall
<1>1. L \in Nat /\ L < 2 ^ (c.T - s) /\ c.leaf \in Nat  BY <1>0, LeafNumbers
<1>2. CASE c.n = 1
  <2>1. Low(c) = c.T  BY <1>2, OneLane
  <2> DEFINE d == c.T - s - 1
  <2>2. d \in Nat /\ d + 1 = c.T - s  BY <1>0
  <2>3. 2 ^ (c.T - s) = 2 * 2 ^ d /\ 2 ^ d \in Nat  BY <2>2, PowerDoubles
  <2> HIDE DEF L, d
  <2>4. Sibling(L) \in Nat /\ Sibling(L) < 2 ^ (c.T - s)
    <3> DEFINE k == 2 ^ d
    <3>1. k \in Nat /\ 2 ^ (c.T - s) = 2 * k  BY <2>3
    <3> HIDE DEF k
    <3>2. L < 2 * k  BY <1>1, <3>1
    <3>3. Sibling(L) \in Nat /\ Sibling(L) < 2 * k  BY <1>1, <3>1, <3>2, SiblingIs
    <3> QED BY <3>1, <3>3
  <2> QED BY <1>0, <1>2, <2>1, <2>4 DEF Which, L
<1>3. CASE c.n # 1
  <2>1. Which(c, s) = L \div 2 ^ c.g  BY <1>0, <1>3 DEF Which
  <2> HIDE DEF L
  <2>2. Which(c, s) \in Nat
    <3>1. L \div c.n \in Nat  BY <1>0, <1>1, QuotientRemainder
    <3> QED BY <1>0, <2>1, <3>1
  <2>3. ASSUME s <= Low(c) PROVE Which(c, s) < 2 ^ (Low(c) - s)
    <3>1. Low(c) - s \in Nat /\ c.T - s = c.g + (Low(c) - s)  BY <1>0, <2>3
    <3>2. L < 2 ^ (c.g + (Low(c) - s))  BY <1>1, <3>1
    <3>3. L \div 2 ^ c.g < 2 ^ (Low(c) - s)  BY <1>0, <1>1, <3>1, <3>2, QuotientBelow
    <3> QED BY <2>1, <3>3
  <2>4. ASSUME s >= Low(c) PROVE Which(c, s) = 0
    <3>1. L < c.n
      <4>1. c.T - s \in Nat /\ c.T - s <= c.g  BY <1>0, <2>4
      <4>2. CASE c.T - s = c.g  BY <1>0, <1>1, <4>2
      <4>3. CASE c.T - s < c.g
        <5>1. 2 ^ (c.T - s) < 2 ^ c.g /\ 2 ^ (c.T - s) \in Nat  BY <1>0, <4>1, <4>3, PowerLess, PowerDoubles
        <5> QED BY <1>0, <1>1, <5>1
      <4> QED BY <1>0, <4>1, <4>2, <4>3
    <3>2. L \div c.n = 0
      <4>1. L = c.n * 0 + L /\ L \in 0 .. c.n - 1  BY <1>0, <1>1, <3>1
      <4> QED BY <1>0, <1>1, <4>1, QuotientIs
    <3> QED BY <1>0, <2>1, <3>2
  <2> QED BY <2>2, <2>3, <2>4
<1> QED BY <1>2, <1>3

(* At the end of the loop every node of the path has come. *)
LEMMA NeededIsDone ==
  ASSUME NEW c, IsCall(c), c.leaf # Treehash!NoLeaf, NEW s \in Nat, s < c.T
  PROVE  Needed(c, s) <= 2 ^ Low(c)
<1>0. Low(c) \in Nat /\ 2 ^ Low(c) \in Nat  BY CallNumbers
<1>1. CASE s <= Low(c)
  <2> DEFINE d == Low(c) - s
  <2>1. d \in Nat /\ s + d = Low(c)  BY <1>0, <1>1
  <2>2. 2 ^ (s + d) = 2 ^ s * 2 ^ d /\ 2 ^ s \in Nat /\ 2 ^ d \in Nat  BY <2>1, PowerOfSum, PowerDoubles
  <2> DEFINE y == 2 ^ s
             z == 2 ^ d
             k == Which(c, s)
  <2>3. k \in Nat /\ k < z  BY <1>1, WhichIs
  <2>4. y \in Nat /\ z \in Nat /\ 2 ^ Low(c) = y * z  BY <2>1, <2>2
  <2>5. Needed(c, s) = (k + 1) * y  BY <1>1 DEF Needed
  <2> HIDE DEF y, z, k, d
  <2>6. PICK e \in Nat : z = (k + 1) + e
    <3>1. z - (k + 1) \in Nat /\ z = (k + 1) + (z - (k + 1))  BY <2>3, <2>4
    <3> QED BY <3>1
  <2>7. y * z = (k + 1) * y + e * y /\ e * y \in Nat /\ (k + 1) * y \in Nat  BY <2>3, <2>4, <2>6
  <2> QED BY <2>4, <2>5, <2>7
<1>2. CASE ~ (s <= Low(c))  BY <1>0, <1>2 DEF Needed
<1> QED BY <1>1, <1>2

LEMMA PathWhole ==
  ASSUME NEW c, IsCall(c), NEW x \in Nat, x + 1 = 2 ^ Low(c), NEW r \in Nat, r >= c.T, NEW path, PathUpTo(c, x, r, path)
  PROVE  \A s \in 0 .. c.T - 1 : IF c.leaf = Treehash!NoLeaf THEN path[s] = Treehash!Garbage ELSE PathOf(c, s, path)
<1>1. c.T \in Nat  BY CallNumbers
<1>2. ASSUME NEW s \in 0 .. c.T - 1, c.leaf # Treehash!NoLeaf
      PROVE  PathOf(c, s, path)
  <2>1. s \in Nat /\ s < c.T /\ s < r  BY <1>1
  <2>2. Needed(c, s) <= x + 1  BY <1>2, <2>1, NeededIsDone
  <2> QED BY <1>2, <2>1, <2>2 DEF PathUpTo
<1> QED BY <1>2 DEF PathUpTo

(* Level s is done. *)
LEMMA PathLevel ==
  ASSUME NEW c, IsCall(c), NEW s \in Nat, s < c.T, NEW x \in Nat, x < 2 ^ Low(c), Reaches(c, s, x),
         NEW path, NEW new, PathUpTo(c, x, s, path),
         \A t \in 0 .. c.T - 1 : t # s => new[t] = path[t],
         IF c.leaf # Treehash!NoLeaf /\ x \div 2 ^ s = Which(c, s) THEN PathOf(c, s, new) ELSE new[s] = path[s]
  PROVE  PathUpTo(c, x, s + 1, new)
<1>0. Low(c) \in Nat /\ c.T \in Nat /\ s <= c.T /\ 2 ^ Low(c) \in Nat  BY CallNumbers
<1>1. ASSUME NEW t \in 0 .. c.T - 1
      PROVE  IF c.leaf = Treehash!NoLeaf THEN new[t] = Treehash!Garbage
             ELSE Needed(c, t) <= (IF t < s + 1 THEN x + 1 ELSE x) => PathOf(c, t, new)
  <2>1. IF c.leaf = Treehash!NoLeaf THEN path[t] = Treehash!Garbage
        ELSE Needed(c, t) <= (IF t < s THEN x + 1 ELSE x) => PathOf(c, t, path)
    BY DEF PathUpTo
  <2>2. CASE t # s
    <3>1. new[t] = path[t] /\ (t < s + 1 <=> t < s)  BY <2>2
    <3> QED BY <2>1, <3>1 DEF PathOf
  <2>3. CASE t = s
    <3>1. CASE c.leaf = Treehash!NoLeaf  BY <2>1, <2>3, <3>1
    <3>2. CASE c.leaf # Treehash!NoLeaf /\ x \div 2 ^ s = Which(c, s)  BY <2>3, <3>2
    <3>3. CASE c.leaf # Treehash!NoLeaf /\ x \div 2 ^ s # Which(c, s)
      <4>1. Needed(c, s) # x + 1
        <5> DEFINE q == x \div 2 ^ s
                   y == 2 ^ s
                   k == Which(c, s)
        <5>1. /\ q \in Nat
              /\ s <= Low(c) => x + 1 = (q + 1) * 2 ^ s
              /\ s >= Low(c) => q = 0 /\ x + 1 = 2 ^ Low(c)
          BY <1>0, ReachesIs
        <5>2. k \in Nat /\ y \in Nat \ {0} /\ (s >= Low(c) => k = 0)  BY <3>3, WhichIs, PowerDoubles
        <5>3. CASE s <= Low(c)
          <6>1. x + 1 = (q + 1) * y /\ Needed(c, s) = (k + 1) * y  BY <5>1, <5>3 DEF Needed
          <6>2. q # k  BY <3>3
          <6> HIDE DEF q, y, k
          <6>3. (q + 1) * y # (k + 1) * y  BY <5>1, <5>2, <6>2
          <6> QED BY <6>1, <6>3
        <5>4. CASE ~ (s <= Low(c))
          <6>1. s >= Low(c)  BY <1>0, <5>4
          <6> QED BY <5>1, <5>2, <6>1, <3>3
        <5> QED BY <5>3, <5>4
      <4>2. PathOf(c, s, path) => PathOf(c, s, new)  BY <3>3 DEF PathOf
      <4>3. Needed(c, s) \in Nat
        <5>1. Which(c, s) \in Nat /\ 2 ^ s \in Nat  BY <3>3, WhichIs, PowerDoubles
        <5> DEFINE k == Which(c, s)
                   y == 2 ^ s
        <5>2. k \in Nat /\ y \in Nat  BY <5>1
        <5>3. Needed(c, s) = IF s <= Low(c) THEN (k + 1) * y ELSE 2 ^ Low(c)  BY DEF Needed
        <5> HIDE DEF k, y
        <5>4. (k + 1) * y \in Nat  BY <5>2
        <5> QED BY <1>0, <5>3, <5>4
      <4>4. Needed(c, s) <= x + 1 => Needed(c, s) <= x  BY <4>1, <4>3
      <4>5. ~ (s < s) /\ s < s + 1  OBVIOUS
      <4> QED BY <2>1, <2>3, <3>3, <4>2, <4>4, <4>5
    <3> QED BY <3>1, <3>2, <3>3
  <2> QED BY <2>2, <2>3
<1> QED BY <1>1 DEF PathUpTo

(* The next leaf, or group of leaves. *)
LEMMA PathNext ==
  ASSUME NEW c, IsCall(c), NEW x, NEW s, NEW q, EndsLeft(x, s, q), x + 1 < 2 ^ Low(c),
         NEW path, PathUpTo(c, x, s + 1, path)
  PROVE  PathUpTo(c, x + 1, 0, path)
<1>0. /\ Low(c) \in Nat /\ c.T \in Nat /\ 2 ^ Low(c) \in Nat
      /\ x \in Nat /\ s \in Nat /\ q \in Nat /\ x + 1 = (q + 1) * 2 ^ s /\ q % 2 = 0
  BY CallNumbers DEF EndsLeft
<1>1. ASSUME NEW t \in 0 .. c.T - 1
      PROVE  IF c.leaf = Treehash!NoLeaf THEN path[t] = Treehash!Garbage
             ELSE Needed(c, t) <= (IF t < 0 THEN (x + 1) + 1 ELSE x + 1) => PathOf(c, t, path)
  <2>1. IF c.leaf = Treehash!NoLeaf THEN path[t] = Treehash!Garbage
        ELSE Needed(c, t) <= (IF t < s + 1 THEN x + 1 ELSE x) => PathOf(c, t, path)
    BY DEF PathUpTo
  <2>2. t \in Nat /\ ~ (t < 0) /\ t < c.T  BY <1>0
  <2>3. CASE t < s + 1  BY <2>1, <2>2, <2>3
  <2>4. CASE ~ (t < s + 1) /\ c.leaf # Treehash!NoLeaf
    <3>1. s < t  BY <1>0, <2>2, <2>4
    <3>2. Which(c, t) \in Nat  BY <2>2, <2>4, WhichIs
    <3>3. Needed(c, t) \in Nat /\ Needed(c, t) # x + 1
      <4>1. CASE t <= Low(c)
        <5>0. Grows(s, t)  BY <1>0, <2>2, <3>1, PowerGrows
        <5>1. PICK e \in Nat \ {0} : 2 ^ t = (2 * e) * 2 ^ s  BY <5>0 DEF Grows
        <5> DEFINE y == 2 ^ s
                   k == Which(c, t)
        <5>2. Needed(c, t) = (k + 1) * ((2 * e) * y)  BY <4>1, <5>1 DEF Needed
        <5>3. k \in Nat /\ y \in Nat \ {0} /\ x + 1 = (q + 1) * y  BY <1>0, <3>2, PowerDoubles
        <5> HIDE DEF y, k
        <5> DEFINE o == (k + 1) * e
        <5>4. o \in Nat /\ (k + 1) * ((2 * e) * y) = (2 * o) * y  BY <5>3
        <5> HIDE DEF o
        <5>5. 2 * o # q + 1  BY <1>0, <5>4
        <5>6. (2 * o) * y # (q + 1) * y /\ (2 * o) * y \in Nat  BY <1>0, <5>3, <5>4, <5>5
        <5> QED BY <5>2, <5>3, <5>4, <5>6
      <4>2. CASE ~ (t <= Low(c))  BY <1>0, <4>2 DEF Needed
      <4> QED BY <4>1, <4>2
    <3>4. Needed(c, t) <= x + 1 => Needed(c, t) <= x  BY <1>0, <3>3
    <3> QED BY <2>1, <2>2, <2>4, <3>4
  <2>5. CASE c.leaf = Treehash!NoLeaf  BY <2>1, <2>5
  <2> QED BY <2>3, <2>4, <2>5
<1> QED BY <1>1 DEF PathUpTo

(* ~0 is above no node of the tree, however far it is shifted. *)
LEMMA NoLeafNever ==
  ASSUME NEW c, IsCall(c), NEW s \in Nat, s < c.T, NEW x \in Nat, x < 2 ^ Low(c), Reaches(c, s, x)
  PROVE  /\ c.n = 1 => (Treehash!NoLeaf \div 2 ^ s) \div 2 # (x \div 2 ^ s) \div 2
         /\ c.n # 1 => (Treehash!NoLeaf \div 2 ^ s) \div c.n # x \div 2 ^ s
<1>0. /\ Low(c) \in Nat /\ c.T \in Nat /\ c.T <= 27 /\ c.g \in Nat /\ c.g <= 3 /\ c.n \in Nat \ {0} /\ s <= c.T
      /\ c.n = 2 ^ c.g /\ 2 ^ Low(c) \in Nat /\ 2 ^ c.T = 2 ^ Low(c) * c.n
  BY CallNumbers DEF IsCall
<1> DEFINE q == x \div 2 ^ s
           y == 2 ^ s
           ones == Treehash!NoLeaf
           b == 2 ^ 27
           z == 2 ^ Low(c)
           a == ones \div y
<1>1. /\ q \in Nat
      /\ s <= Low(c) => x + 1 = (q + 1) * y
      /\ s >= Low(c) => q = 0 /\ x + 1 = z
  BY <1>0, ReachesIs
<1>2. y \in Nat \ {0} /\ b \in Nat \ {0} /\ z \in Nat
  <2>1. 27 \in Nat  OBVIOUS
  <2> QED BY <1>0, <2>1, PowerDoubles
<1>3. ones \in Nat /\ ones + 1 = 8 * b
  <2>1. 2 ^ 28 = 2 * 2 ^ 27 /\ 2 ^ 29 = 2 * 2 ^ 28 /\ 2 ^ 30 = 2 * 2 ^ 29
    <3>1. 27 \in Nat /\ 28 \in Nat /\ 29 \in Nat /\ 27 + 1 = 28 /\ 28 + 1 = 29 /\ 29 + 1 = 30  OBVIOUS
    <3> QED BY <3>1, PowerDoubles
  <2>2. ones = 2 ^ 30 - 1  BY DEF Treehash!NoLeaf
  <2> QED BY <1>2, <2>1, <2>2
<1>4. 2 ^ c.T <= b /\ y < b /\ 2 ^ c.T \in Nat
  <2>1. 27 \in Nat /\ s < 27  BY <1>0
  <2>2. c.T < 27 => 2 ^ c.T < 2 ^ 27  BY <1>0, <2>1, PowerLess
  <2>3. y < b  BY <2>1, PowerLess
  <2>4. 2 ^ c.T \in Nat  BY <1>0, PowerDoubles
  <2>5. 2 ^ c.T <= b
    <3>1. CASE c.T = 27  BY <1>2, <3>1
    <3>2. CASE c.T < 27  BY <1>2, <2>2, <2>4, <3>2
    <3> QED BY <1>0, <3>1, <3>2
  <2> QED BY <2>3, <2>4, <2>5
<1>5. a \in Nat /\ ones < (a + 1) * y
  <2>0. /\ a \in Nat /\ ones = y * (a) + (ones % y) /\ ones % y \in 0 .. y - 1
    BY <1>2, <1>3, QuotientRemainder, RemainderInRange
  <2> DEFINE r == ones % y
  <2>1. r \in Nat /\ r < y /\ ones = y * a + r  BY <1>2, <2>0
  <2> HIDE DEF r, a, y, ones
  <2>2. (a + 1) * y = y * a + y  BY <1>2, <2>0
  <2>3. y * a \in Nat  BY <1>2, <2>0
  <2> QED BY <1>2, <2>0, <2>1, <2>2, <2>3
<1>6. (x + 1) <= z  BY <1>2
<1> HIDE DEF q, a, y, ones, b, z
<1>7. ASSUME c.n = 1, a \div 2 = q \div 2 PROVE FALSE
  <2>1. a <= q + 1  BY <1>1, <1>5, <1>7
  <2>2. Low(c) = c.T  BY <1>7, OneLane
  <2>3. x + 1 = (q + 1) * y /\ z <= b  BY <1>0, <1>1, <1>4, <2>2 DEF z
  <2>4. PICK d \in Nat : q + 1 = a + d
    <3>1. (q + 1) - a \in Nat /\ q + 1 = a + ((q + 1) - a)  BY <1>1, <1>5, <2>1
    <3> QED BY <3>1
  <2>5. (a + 1) * y + d * y = (q + 1) * y + y /\ d * y \in Nat
    <3>1. ((a + d) + 1) * y = (a + 1) * y + d * y  BY <1>2, <1>5
    <3>2. ((a + d) + 1) * y = ((q + 1) + 1) * y  BY <2>4
    <3>3. ((q + 1) + 1) * y = (q + 1) * y + y  BY <1>1, <1>2
    <3> QED BY <1>2, <3>1, <3>2, <3>3
  <2>6. (a + 1) * y \in Int  BY <1>2, <1>5
  <2> QED BY <1>2, <1>3, <1>4, <1>5, <1>6, <2>3, <2>5, <2>6
<1>8. ASSUME c.n # 1, a \div c.n = q PROVE FALSE
  <2>1. c.n \in {2, 4, 8}  BY <1>8 DEF IsCall
  <2>2. a + 1 <= (q + 1) * c.n  BY <1>1, <1>5, <1>8, <2>1
  <2>3. PICK d \in Nat : (q + 1) * c.n = (a + 1) + d
    <3>1. ((q + 1) * c.n) - (a + 1) \in Nat /\ (q + 1) * c.n = (a + 1) + (((q + 1) * c.n) - (a + 1))
      BY <1>1, <1>5, <2>1, <2>2
    <3> QED BY <3>1
  <2>4. ones < ((q + 1) * c.n) * y
    <3>1. ((a + 1) + d) * y = (a + 1) * y + d * y /\ d * y \in Nat /\ (a + 1) * y \in Nat  BY <1>2, <1>5
    <3>2. ((q + 1) * c.n) * y = ((a + 1) + d) * y  BY <2>3
    <3> QED BY <1>3, <1>5, <3>1, <3>2
  <2>5. ((q + 1) * c.n) * y = ((q + 1) * y) * c.n  BY <1>1, <1>2, <2>1
  <2>6. CASE s <= Low(c)
    <3>1. ones < (x + 1) * c.n  BY <1>1, <2>4, <2>5, <2>6
    <3>2. (x + 1) * c.n <= z * c.n  BY <1>2, <1>6, <2>1
    <3>3. z * c.n <= b  BY <1>0, <1>4 DEF z
    <3>4. (x + 1) * c.n \in Nat /\ z * c.n \in Nat  BY <1>2, <2>1
    <3> QED BY <1>2, <1>3, <3>1, <3>2, <3>3, <3>4
  <2>7. CASE ~ (s <= Low(c))
    <3>1. q = 0  BY <1>0, <1>1, <2>7
    <3>2. ones < c.n * y  BY <1>2, <2>1, <2>4, <3>1
    <3>3. y + 1 <= b  BY <1>2, <1>4
    <3> QED BY <1>2, <1>3, <2>1, <3>2, <3>3
  <2> QED BY <2>6, <2>7
<1> QED BY <1>7, <1>8 DEF q, a, y, ones

(* What the code compares finds the neighbour, and only when it is there. *)
LEMMA PathTaken ==
  ASSUME NEW c, IsCall(c), NEW s \in Nat, s < c.T, NEW x \in Nat, x < 2 ^ Low(c), Reaches(c, s, x)
  PROVE  /\ c.n = 1 => ((x \div 2 ^ s) \div 2 = (c.leaf \div 2 ^ s) \div 2 /\ x \div 2 ^ s # c.leaf \div 2 ^ s
                          <=> c.leaf # Treehash!NoLeaf /\ x \div 2 ^ s = Which(c, s))
         /\ c.n # 1 => (x \div 2 ^ s = (c.leaf \div 2 ^ s) \div c.n
                          <=> c.leaf # Treehash!NoLeaf /\ x \div 2 ^ s = Which(c, s))
<1> DEFINE q == x \div 2 ^ s
           L == c.leaf \div 2 ^ s
<1>0. q \in Nat /\ s <= c.T  BY HalveOnce, CallNumbers
<1>1. CASE c.leaf = Treehash!NoLeaf
  <2>1. (c.n = 1 => L \div 2 # q \div 2) /\ (c.n # 1 => L \div c.n # q)  BY <1>1, NoLeafNever
  <2> HIDE DEF q, L
  <2>2. /\ c.n = 1 => ~ (q \div 2 = L \div 2 /\ q # L)
        /\ c.n # 1 => ~ (q = L \div c.n)
    BY <2>1, Zenon
  <2> QED BY <1>1, <2>2 DEF q, L
<1>2. CASE c.leaf # Treehash!NoLeaf
  <2>1. L \in Nat  BY <1>0, <1>2, LeafNumbers
  <2>2. Which(c, s) = IF c.n = 1 THEN Sibling(L) ELSE L \div c.n  BY DEF Which
  <2> HIDE DEF q, L
  <2>3. q \div 2 = L \div 2 /\ q # L <=> q = Sibling(L)  BY <1>0, <2>1, SiblingIs
  <2>4. /\ c.n = 1 => (q \div 2 = L \div 2 /\ q # L <=> q = Which(c, s))
        /\ c.n # 1 => (q = L \div c.n <=> q = Which(c, s))
    BY <2>2, <2>3
  <2> QED BY <1>2, <2>4 DEF q, L
<1> QED BY <1>1, <1>2

(* The lane where the code looks for the neighbour is where it is. *)
LEMMA NeighbourLane ==
  ASSUME NEW c, IsCall(c), c.n # 1, c.leaf # Treehash!NoLeaf, NEW s \in Nat, s < c.T, NEW x \in Nat, x < 2 ^ Low(c),
         Reaches(c, s, x), NEW cur, Climbed(c, s, x \div 2 ^ s, cur), x \div 2 ^ s = Which(c, s)
  PROVE  cur[(IF (c.leaf \div 2 ^ s) % 2 = 0 THEN ((c.leaf \div 2 ^ s) % c.n) + 1
              ELSE ((c.leaf \div 2 ^ s) % c.n) - 1) + Adj(c, s)]
           = At(c, s, Sibling(c.leaf \div 2 ^ s))
<1>0. Low(c) \in Nat /\ c.T \in Nat /\ s <= c.T /\ c.n \in {2, 4, 8}  BY CallNumbers DEF IsCall
<1> DEFINE q == x \div 2 ^ s
           L == c.leaf \div 2 ^ s
           a == Adj(c, s)
           l == (IF L % 2 = 0 THEN (L % c.n) + 1 ELSE (L % c.n) - 1) + a
<1>1. L \in Nat /\ L < 2 ^ (c.T - s)  BY <1>0, LeafNumbers
<1>2. q = L \div c.n  BY DEF Which
<1>3. \A u \in a .. c.n - 1 : cur[u] = At(c, s, (c.n * q) + (u - a))  BY DEF Climbed
<1> DEFINE r == L % c.n
<1>a. L = (c.n * q) + r /\ r \in 0 .. c.n - 1 /\ L % 2 = r % 2 /\ q \in Nat
  <2> HIDE DEF L, q
  <2>1. CASE c.n = 2  BY <1>1, <1>2, <2>1
  <2>2. CASE c.n = 4  BY <1>1, <1>2, <2>2
  <2>3. CASE c.n = 8  BY <1>1, <1>2, <2>3
  <2> QED BY <1>0, <2>1, <2>2, <2>3
<1>b. l = Sibling(r) + a /\ Sibling(r) \in Int /\ Sibling(L) = (c.n * q) + Sibling(r)
  <2>1. r \in Int /\ L = (c.n * q) + r  BY <1>0, <1>a
  <2>2. Sibling(r) = IF r % 2 = 0 THEN r + 1 ELSE r - 1  BY DEF Sibling
  <2>3. Sibling(L) = IF r % 2 = 0 THEN L + 1 ELSE L - 1  BY <1>a DEF Sibling
  <2>4. l = (IF r % 2 = 0 THEN r + 1 ELSE r - 1) + a  BY <1>a
  <2>5. c.n * q \in Int  BY <1>0, <1>a
  <2> HIDE DEF l, r, L, q, a
  <2> DEFINE m == c.n * q
  <2>6. m \in Int /\ L = m + r  BY <2>1, <2>5
  <2> HIDE DEF m
  <2>7. CASE r % 2 = 0  BY <2>1, <2>2, <2>3, <2>4, <2>6, <2>7 DEF m
  <2>8. CASE r % 2 # 0  BY <2>1, <2>2, <2>3, <2>4, <2>6, <2>8 DEF m
  <2> QED BY <2>7, <2>8
<1>c. \A k \in Nat : r < 2 * k => Sibling(r) \in 0 .. (2 * k) - 1
  <2>1. r \in Nat  BY <1>0, <1>a
  <2> HIDE DEF r
  <2> QED BY <2>1, SiblingIs
<1>4. l \in a .. c.n - 1 /\ (c.n * q) + (l - a) = Sibling(L)
  <2>2. CASE s <= Low(c)
    <3>1. a = 0  BY <2>2 DEF Adj
    <3> HIDE DEF q, a, L, r, l
    <3>2. PICK k \in Nat : c.n = 2 * k
      <4>1. 1 \in Nat /\ 2 \in Nat /\ 4 \in Nat /\ (c.n = 2 * 1 \/ c.n = 2 * 2 \/ c.n = 2 * 4)  BY <1>0
      <4> QED BY <4>1
    <3>3. Sibling(r) \in 0 .. c.n - 1
      <4>1. r < 2 * k  BY <1>0, <1>a, <3>2
      <4> QED BY <1>c, <3>2, <4>1
    <3> DEFINE m == c.n * q
    <3>4. m \in Int  BY <1>0, <1>a
    <3>5. l = Sibling(r) /\ Sibling(L) = m + Sibling(r)  BY <1>b, <3>1, <3>3
    <3> HIDE DEF m
    <3>6. l \in a .. c.n - 1 /\ m + (l - a) = Sibling(L)  BY <1>0, <3>1, <3>3, <3>4, <3>5
    <3> QED BY <3>6 DEF m
  <2>3. CASE ~ (s <= Low(c))
    <3>1. Low(c) <= s  BY <1>0, <2>3
    <3>2. PICK e \in Nat \ {0} : 2 * e = 2 ^ (c.T - s) /\ 2 * e <= c.n /\ a = c.n - (2 * e)
      BY <3>1, AdjAtTop DEF LastLanes
    <3>3. L < 2 * e  BY <1>1, <3>2
    <3>4. q = 0  BY <3>1, <1>0, ReachesIs
    <3> HIDE DEF q, a, L, r, l
    <3>5. r = L  BY <1>0, <1>1, <1>a, <3>4
    <3>6. Sibling(r) \in 0 .. (2 * e) - 1
      <4>1. e \in Nat /\ r < 2 * e  BY <3>3, <3>5
      <4> QED BY <1>c, <4>1
    <3>7. c.n * q = 0  BY <1>0, <3>4
    <3> QED BY <1>0, <1>b, <3>2, <3>6, <3>7
  <2> QED BY <2>2, <2>3
<1>5. cur[l] = At(c, s, Sibling(L))  BY <1>3, <1>4
<1> QED BY <1>5

(***************************************************************************)
(* The loops of the four versions with lanes.                              *)
(***************************************************************************)
OnLeaf(c, x, w, path) == x \in Nat /\ x < 2 ^ Low(c) /\ Waits(c, x, w) /\ PathUpTo(c, x, 0, path)
OnRise(c, x, s, cur, w, path) ==
  /\ x \in Nat /\ x < 2 ^ Low(c) /\ s \in Nat /\ s <= c.T /\ Reaches(c, s, x)
  /\ Climbed(c, s, x \div 2 ^ s, cur) /\ Waits(c, x, w) /\ PathUpTo(c, x, s, path)
(* What a level may do to the path. *)
PathStep(c, x, s, path, new) ==
  /\ \A t \in 0 .. c.T - 1 : t # s => new[t] = path[t]
  /\ IF c.leaf # Treehash!NoLeaf /\ x \div 2 ^ s = Which(c, s) THEN PathOf(c, s, new) ELSE new[s] = path[s]
PathDone(c, path) ==
  \A s \in 0 .. c.T - 1 : IF c.leaf = Treehash!NoLeaf THEN path[s] = Treehash!Garbage ELSE PathOf(c, s, path)
Root(c) == Treehash!Node(c.T, c.off \div 2 ^ c.T)

LEMMA OffsetNumber == ASSUME NEW c, IsCall(c) PROVE c.off \in Nat
<1>1. c.T \in Nat  BY CallNumbers
<1>2. PICK t \in Nat : c.off = t * 2 ^ c.T  BY DEF IsCall
<1>3. 2 ^ c.T \in Nat  BY <1>1, PowerDoubles
<1> DEFINE y == 2 ^ c.T
<1>4. y \in Nat /\ c.off = t * y  BY <1>2, <1>3
<1> HIDE DEF y
<1>5. t * y \in Nat  BY <1>4
<1> QED BY <1>4, <1>5

(* The leaves of a tree, and its root. *)
LEMMA TreeEnds ==
  ASSUME NEW c, IsCall(c)
  PROVE  /\ \A u \in Nat : At(c, 0, u) = Treehash!Node(0, u + c.off)
         /\ At(c, c.T, 0) = Root(c)
         /\ Adj(c, 0) = 0 /\ Adj(c, c.T) = c.n - 1
<1>1. c.off \in Nat /\ c.T \in Nat /\ Low(c) \in Nat /\ c.n \in Nat /\ Low(c) + c.g = c.T /\ c.g \in Nat
  BY OffsetNumber, CallNumbers
<1>2. Base(c, 0) = c.off  BY <1>1, HalveNot DEF Base
<1>3. \A u \in Nat : At(c, 0, u) = Treehash!Node(0, u + c.off)  BY <1>2 DEF At
<1>4. At(c, c.T, 0) = Root(c)
  <2>1. c.off \div 2 ^ c.T \in Nat  BY <1>1, HalveOnce
  <2> QED BY <2>1 DEF At, Root, Base
<1>5. Adj(c, 0) = 0  BY <1>1 DEF Adj
<1>6. Adj(c, c.T) = c.n - 1
  <2>1. CASE c.n = 1
    <3>1. c.T <= Low(c)  BY <1>1, <2>1, OneLane
    <3> QED BY <2>1, <3>1 DEF Adj
  <2>2. CASE c.n # 1
    <3>1. c.g # 0
      <4>1. c.n = 2 ^ c.g /\ 2 ^ 0 = 1  BY DEF IsCall
      <4> QED BY <2>2, <4>1
    <3>2. ~ (c.T <= Low(c)) /\ c.T - c.T = 0 /\ 2 ^ 0 = 1  BY <1>1, <3>1
    <3> QED BY <3>2 DEF Adj
  <2> QED BY <2>1, <2>2
<1> QED BY <1>3, <1>4, <1>5, <1>6

LEMMA LeafIsDone ==
  ASSUME NEW c, IsCall(c), NEW x, NEW w, NEW path, OnLeaf(c, x, w, path), NEW cur,
         \A l \in 0 .. c.n - 1 : cur[l] = Treehash!Node(0, ((c.n * x) + c.off) + l)
  PROVE  OnRise(c, x, 0, cur, w, path)
<1>0. /\ x \in Nat /\ x < 2 ^ Low(c) /\ Waits(c, x, w) /\ PathUpTo(c, x, 0, path)
      /\ c.off \in Nat /\ c.T \in Nat /\ Low(c) \in Nat /\ c.n \in Nat
  BY OffsetNumber, CallNumbers DEF OnLeaf
<1>1. x \div 2 ^ 0 = x /\ 2 ^ 0 = 1  BY <1>0, HalveNot
<1>2. Reaches(c, 0, x)
  <2>1. x + 1 = (x + 1) * 2 ^ 0  BY <1>0, <1>1
  <2> QED BY <1>0, <2>1 DEF Reaches
<1>3. ASSUME NEW l \in Adj(c, 0) .. c.n - 1
      PROVE  cur[l] = At(c, 0, (c.n * (x \div 2 ^ 0)) + (l - Adj(c, 0)))
  <2>1. Adj(c, 0) = 0  BY TreeEnds
  <2>2. l \in 0 .. c.n - 1 /\ l \in Nat /\ l - Adj(c, 0) = l  BY <1>0, <2>1
  <2>3. cur[l] = Treehash!Node(0, ((c.n * x) + c.off) + l)  BY <2>2
  <2> DEFINE m == c.n * x
  <2>4. m \in Nat  BY <1>0
  <2> HIDE DEF m
  <2>5. (m + c.off) + l = (m + l) + c.off /\ m + l \in Nat  BY <1>0, <2>2, <2>4
  <2>6. At(c, 0, m + l) = Treehash!Node(0, (m + l) + c.off)  BY <2>5, TreeEnds
  <2> QED BY <1>1, <2>2, <2>3, <2>5, <2>6 DEF m
<1>4. Climbed(c, 0, x \div 2 ^ 0, cur)  BY <1>3 DEF Climbed
<1> QED BY <1>0, <1>2, <1>4 DEF OnRise

LEMMA LevelRises ==
  ASSUME NEW c, IsCall(c), NEW x, NEW s, NEW cur, NEW w, NEW path, OnRise(c, x, s, cur, w, path), s < c.T,
         (x \div 2 ^ s) % 2 = 1 \/ x + 1 = 2 ^ Low(c), NEW new, PathStep(c, x, s, path, new), NEW next,
         \A l \in Adj(c, s + 1) .. c.n - 1 :
           next[l] = At(c, s + 1, (c.n * (x \div 2 ^ (s + 1))) + (l - Adj(c, s + 1)))
  PROVE  OnRise(c, x, s + 1, next, w, new)
<1>1. /\ x \in Nat /\ x < 2 ^ Low(c) /\ s \in Nat /\ s <= c.T /\ Reaches(c, s, x)
      /\ Climbed(c, s, x \div 2 ^ s, cur) /\ Waits(c, x, w) /\ PathUpTo(c, x, s, path) /\ c.T \in Nat
  BY CallNumbers DEF OnRise
<1>2. Reaches(c, s + 1, x)  BY <1>1, ReachesHigher
<1>3. Climbed(c, s + 1, x \div 2 ^ (s + 1), next)  BY DEF Climbed
<1>4. PathUpTo(c, x, s + 1, new)
  <2>1. /\ \A t \in 0 .. c.T - 1 : t # s => new[t] = path[t]
        /\ IF c.leaf # Treehash!NoLeaf /\ x \div 2 ^ s = Which(c, s) THEN PathOf(c, s, new) ELSE new[s] = path[s]
    BY Zenon DEF PathStep
  <2> QED BY <1>1, <2>1, PathLevel
<1>5. s + 1 \in Nat /\ s + 1 <= c.T  BY <1>1
<1> QED BY <1>1, <1>2, <1>3, <1>4, <1>5 DEF OnRise

LEMMA LevelWaits ==
  ASSUME NEW c, IsCall(c), NEW x, NEW s, NEW cur, NEW w, NEW path, OnRise(c, x, s, cur, w, path), s < c.T,
         (x \div 2 ^ s) % 2 = 0, x < 2 ^ Low(c) - 1, NEW new, PathStep(c, x, s, path, new), NEW v, v[s] = cur,
         \A t \in Nat : t < Low(c) /\ t # s => v[t] = w[t]
  PROVE  OnLeaf(c, x + 1, v, new) /\ s < Low(c)
<1>1. /\ x \in Nat /\ x < 2 ^ Low(c) /\ s \in Nat /\ s <= c.T /\ Reaches(c, s, x)
      /\ Climbed(c, s, x \div 2 ^ s, cur) /\ Waits(c, x, w) /\ PathUpTo(c, x, s, path) /\ c.T \in Nat
      /\ Low(c) \in Nat /\ 2 ^ Low(c) \in Nat
  BY CallNumbers DEF OnRise
<1> DEFINE q == x \div 2 ^ s
           z == 2 ^ Low(c)
<1>2. /\ q \in Nat
      /\ s <= Low(c) => x + 1 = (q + 1) * 2 ^ s
      /\ s >= Low(c) => x + 1 = z
  BY <1>1, ReachesIs
<1>3. x < z - 1 /\ z \in Nat  BY <1>1
<1> HIDE DEF z, q
<1>4. x + 1 < z  BY <1>1, <1>3
<1>5. s < Low(c)  BY <1>1, <1>2, <1>4
<1>6. EndsLeft(x, s, q)
  <2>1. q % 2 = 0  BY DEF q
  <2> QED BY <1>1, <1>2, <1>5, <2>1 DEF EndsLeft
<1>7. PathUpTo(c, x, s + 1, new)
  <2>1. /\ \A t \in 0 .. c.T - 1 : t # s => new[t] = path[t]
        /\ IF c.leaf # Treehash!NoLeaf /\ x \div 2 ^ s = Which(c, s) THEN PathOf(c, s, new) ELSE new[s] = path[s]
    BY Zenon DEF PathStep
  <2> QED BY <1>1, <2>1, PathLevel
<1>8. PathUpTo(c, x + 1, 0, new)
  <2>1. x + 1 < 2 ^ Low(c)  BY <1>4 DEF z
  <2> QED BY <1>6, <1>7, <2>1, PathNext
<1>9. Waits(c, x + 1, v)
  <2>1. (x \div 2 ^ s) % 2 = 0  OBVIOUS
  <2> QED BY <1>1, <1>5, <2>1, NextWaits
<1>10. x + 1 \in Nat /\ x + 1 < 2 ^ Low(c)  BY <1>1, <1>4 DEF z
<1> QED BY <1>5, <1>8, <1>9, <1>10 DEF OnLeaf

(* What the code of a level puts on the path. *)
LEMMA CodePath ==
  ASSUME NEW c, IsCall(c), NEW x, NEW s, NEW cur, NEW w, NEW path, OnRise(c, x, s, cur, w, path), s < c.T,
         NEW new, NEW node, NEW D, DOMAIN path = D, s \in D, 0 .. c.T - 1 \subseteq D,
         \/ /\ c.n = 1 /\ node = cur[0]
            /\ new = IF /\ (x \div 2 ^ s) \div 2 = (c.leaf \div 2 ^ s) \div 2
                        /\ x \div 2 ^ s # c.leaf \div 2 ^ s
                     THEN [path EXCEPT ![s] = node] ELSE path
         \/ /\ c.n # 1
            /\ node = cur[(IF (c.leaf \div 2 ^ s) % 2 = 0 THEN ((c.leaf \div 2 ^ s) % c.n) + 1
                           ELSE ((c.leaf \div 2 ^ s) % c.n) - 1) + Adj(c, s)]
            /\ new = IF x \div 2 ^ s = (c.leaf \div 2 ^ s) \div c.n
                     THEN [path EXCEPT ![s] = node] ELSE path
  PROVE  PathStep(c, x, s, path, new)
<1>1. /\ x \in Nat /\ x < 2 ^ Low(c) /\ s \in Nat /\ Reaches(c, s, x) /\ Climbed(c, s, x \div 2 ^ s, cur)
  BY DEF OnRise
<1> DEFINE Found == c.leaf # Treehash!NoLeaf /\ x \div 2 ^ s = Which(c, s)
<1>2. new = IF Found THEN [path EXCEPT ![s] = node] ELSE path
  <2>1. CASE c.n = 1
    <3>1. new = IF /\ (x \div 2 ^ s) \div 2 = (c.leaf \div 2 ^ s) \div 2
                   /\ x \div 2 ^ s # c.leaf \div 2 ^ s
                THEN [path EXCEPT ![s] = node] ELSE path  BY <2>1, Zenon
    <3>2. (x \div 2 ^ s) \div 2 = (c.leaf \div 2 ^ s) \div 2 /\ x \div 2 ^ s # c.leaf \div 2 ^ s <=> Found
      BY <1>1, <2>1, PathTaken
    <3> HIDE DEF Found
    <3> QED BY <3>1, <3>2, Zenon
  <2>2. CASE c.n # 1
    <3>1. new = IF x \div 2 ^ s = (c.leaf \div 2 ^ s) \div c.n THEN [path EXCEPT ![s] = node] ELSE path
      BY <2>2, Zenon
    <3>2. x \div 2 ^ s = (c.leaf \div 2 ^ s) \div c.n <=> Found  BY <1>1, <2>2, PathTaken
    <3> HIDE DEF Found
    <3> QED BY <3>1, <3>2, Zenon
  <2> QED BY <2>1, <2>2
<1>3. ASSUME Found PROVE node = At(c, s, Sibling(c.leaf \div 2 ^ s))
  <2>1. CASE c.n = 1
    <3>1. node = cur[0]  BY <2>1
    <3>2. Which(c, s) = Sibling(c.leaf \div 2 ^ s)  BY <2>1 DEF Which
    <3>3. Low(c) = c.T /\ c.T \in Nat  BY <2>1, OneLane, CallNumbers
    <3>4. Adj(c, s) = 0  BY <1>1, <3>3 DEF Adj
    <3>5. cur[0] = At(c, s, (c.n * (x \div 2 ^ s)) + (0 - 0))
      <4>1. 0 \in Adj(c, s) .. c.n - 1  BY <2>1, <3>4
      <4> QED BY <1>1, <3>4, <4>1 DEF Climbed
    <3>6. (c.n * (x \div 2 ^ s)) + (0 - 0) = x \div 2 ^ s
      <4>1. x \div 2 ^ s \in Nat  BY <1>1, HalveOnce
      <4> DEFINE q == x \div 2 ^ s
      <4>2. q \in Nat  BY <4>1
      <4> HIDE DEF q
      <4>3. (c.n * q) + (0 - 0) = q  BY <2>1, <4>2
      <4> QED BY <4>3 DEF q
    <3> QED BY <1>3, <3>1, <3>2, <3>5, <3>6
  <2>2. CASE c.n # 1
    <3>1. node = cur[(IF (c.leaf \div 2 ^ s) % 2 = 0 THEN ((c.leaf \div 2 ^ s) % c.n) + 1
                      ELSE ((c.leaf \div 2 ^ s) % c.n) - 1) + Adj(c, s)]  BY <2>2, Zenon
    <3>2. c.leaf # Treehash!NoLeaf /\ x \div 2 ^ s = Which(c, s)  BY <1>3
    <3>3. cur[(IF (c.leaf \div 2 ^ s) % 2 = 0 THEN ((c.leaf \div 2 ^ s) % c.n) + 1
               ELSE ((c.leaf \div 2 ^ s) % c.n) - 1) + Adj(c, s)] = At(c, s, Sibling(c.leaf \div 2 ^ s))
      BY <1>1, <2>2, <3>2, NeighbourLane
    <3> QED BY <3>1, <3>3, Zenon
  <2> QED BY <2>1, <2>2
<1>4. \A t \in 0 .. c.T - 1 : t # s => new[t] = path[t]
  <2> HIDE DEF Found
  <2> QED BY <1>2
<1>5. IF Found THEN PathOf(c, s, new) ELSE new[s] = path[s]
  <2>1. CASE Found
    <3>1. new = [path EXCEPT ![s] = node]  BY <1>2, <2>1
    <3>2. new[s] = node  BY <3>1
    <3>3. new[s] = At(c, s, Sibling(c.leaf \div 2 ^ s))  BY <1>3, <2>1, <3>2
    <3>4. PathOf(c, s, new)  BY <3>3, Zenon DEF PathOf
    <3> QED BY <2>1, <3>4
  <2>2. CASE ~ Found
    <3>1. new = path  BY <1>2, <2>2
    <3> QED BY <2>2, <3>1
  <2> QED BY <2>1, <2>2
<1> QED BY <1>4, <1>5, Zenon DEF PathStep

LEMMA ReturnsTheRoot ==
  ASSUME NEW c, IsCall(c), NEW x, NEW cur, NEW w, NEW path, OnRise(c, x, c.T, cur, w, path)
  PROVE  cur[c.n - 1] = Root(c) /\ PathDone(c, path)
<1>0. /\ x \in Nat /\ x < 2 ^ Low(c) /\ Reaches(c, c.T, x) /\ Climbed(c, c.T, x \div 2 ^ c.T, cur)
      /\ PathUpTo(c, x, c.T, path) /\ c.T \in Nat /\ Low(c) \in Nat /\ Low(c) + c.g = c.T /\ c.g \in Nat
      /\ c.n \in Nat \ {0} /\ c.T <= c.T /\ c.T >= Low(c)
  BY CallNumbers DEF OnRise
<1>1. x \div 2 ^ c.T = 0 /\ x + 1 = 2 ^ Low(c)  BY <1>0, ReachesIs
<1>2. cur[c.n - 1] = At(c, c.T, (c.n * 0) + ((c.n - 1) - (c.n - 1)))
  <2>1. Adj(c, c.T) = c.n - 1  BY TreeEnds
  <2>2. c.n - 1 \in Adj(c, c.T) .. c.n - 1  BY <1>0, <2>1
  <2> QED BY <1>0, <1>1, <2>1, <2>2 DEF Climbed
<1>3. (c.n * 0) + ((c.n - 1) - (c.n - 1)) = 0  BY <1>0
<1>4. cur[c.n - 1] = Root(c)  BY <1>2, <1>3, TreeEnds
<1>5. PathDone(c, path)
  <2>1. \A s \in 0 .. c.T - 1 : IF c.leaf = Treehash!NoLeaf THEN path[s] = Treehash!Garbage ELSE PathOf(c, s, path)
    BY <1>0, <1>1, PathWhole
  <2> QED BY <2>1, Zenon DEF PathDone
<1> QED BY <1>4, <1>5

(* The verifier climbs one level. *)
LEMMA VerifierClimbs ==
  ASSUME NEW c, IsCall(c), c.leaf # Treehash!NoLeaf, NEW s \in Nat, s < c.T, NEW path, PathDone(c, path)
  PROVE  LET u == c.leaf \div 2 ^ s
             node == At(c, s, u)
             addr == Treehash!Node(s + 1, (u \div 2) + (c.off \div 2 ^ (s + 1)))
         IN  (IF u % 2 = 1 THEN Treehash!thash(path[s], node, addr) ELSE Treehash!thash(node, path[s], addr))
               = At(c, s + 1, c.leaf \div 2 ^ (s + 1))
<1> DEFINE u == c.leaf \div 2 ^ s
           half == u \div 2
<1>1. c.T \in Nat /\ s <= c.T /\ s \in 0 .. c.T - 1  BY CallNumbers
<1>2. u \in Nat /\ c.leaf \in Nat /\ c.leaf \div 2 ^ (s + 1) = half  BY <1>1, LeafNumbers, HalveOnce
<1>3. path[s] = At(c, s, Sibling(u))  BY <1>1 DEF PathDone, PathOf
<1> HIDE DEF u
<1>4. half \in Nat /\ 2 * half \in Nat /\ (u = 2 * half \/ u = (2 * half) + 1)  BY <1>2
<1> HIDE DEF half
<1>5. Treehash!thash(At(c, s, 2 * half), At(c, s, (2 * half) + 1), Treehash!Node(s + 1, half + Base(c, s + 1)))
      = At(c, s + 1, half)
  BY <1>4, NodesJoin
<1>6. CASE u = 2 * half
  <2>1. u % 2 = 0 /\ Sibling(u) = (2 * half) + 1  BY <1>4, <1>6 DEF Sibling
  <2> QED BY <1>2, <1>3, <1>5, <1>6, <2>1 DEF Base, u, half
<1>7. CASE u = (2 * half) + 1
  <2>1. u % 2 = 1 /\ Sibling(u) = 2 * half  BY <1>4, <1>7 DEF Sibling
  <2> QED BY <1>2, <1>3, <1>5, <1>7, <2>1 DEF Base, u, half
<1> QED BY <1>4, <1>6, <1>7

(***************************************************************************)
(* The older version.  f[u] leaves lie left of the subtree that is in      *)
(* place u of its stack; n leaves have been done, and the first e subtrees *)
(* get smaller from place to place.                                        *)
(***************************************************************************)
Heap(c, d, hs, w, f) ==
  \A u \in 0 .. d - 1 :
    /\ hs[u] \in Nat /\ hs[u] + u <= c.T
    /\ f[u] \in Nat /\ f[u + 1] = f[u] + 2 ^ hs[u]
    /\ \E m \in Nat : f[u] = m * 2 ^ hs[u] /\ w[u] = At(c, hs[u], m)
Pile(c, n, d, hs, w, f, e) ==
  /\ n \in Nat /\ d \in Nat /\ e \in Nat /\ e <= d
  /\ f[0] = 0 /\ f[d] = n /\ Heap(c, d, hs, w, f)
  /\ \A u \in 1 .. d - 1 : hs[u] <= hs[u - 1]
  /\ \A u \in 1 .. e - 1 : hs[u] < hs[u - 1]
  /\ \A u \in 0 .. e - 1 : hs[u] + u < c.T

(* A subtree smaller than the one before it is a left child. *)
LEMMA LeftChild ==
  ASSUME NEW c, NEW n, NEW d, NEW hs, NEW w, NEW f, NEW e, Pile(c, n, d, hs, w, f, e),
         NEW u \in 0 .. d - 1, u # 0 => hs[u] < hs[u - 1]
  PROVE  \E m \in Nat : f[u] = (2 * m) * 2 ^ hs[u]
<1>0. d \in Nat /\ hs[u] \in Nat  BY DEF Pile, Heap
<1> DEFINE y == 2 ^ hs[u]
<1>1. y \in Nat  BY <1>0, PowerDoubles
<1>2. CASE u = 0
  <2>1. f[u] = 0  BY <1>2 DEF Pile, Heap
  <2> HIDE DEF y
  <2>2. 0 = (2 * 0) * y /\ 0 \in Nat  BY <1>1
  <2> QED BY <2>1, <2>2 DEF y
<1>3. CASE u # 0
  <2> DEFINE k == u - 1
  <2>1. k \in 0 .. d - 1 /\ k + 1 = u  BY <1>0, <1>3
  <2>2. /\ hs[k] \in Nat /\ f[k + 1] = f[k] + 2 ^ hs[k]
        /\ \E m \in Nat : f[k] = m * 2 ^ hs[k]
    <3> HIDE DEF k
    <3> QED BY <2>1 DEF Pile, Heap
  <2>3. hs[u] < hs[k]  BY <1>3
  <2>4. PICK m \in Nat : f[k] = m * 2 ^ hs[k]  BY <2>2
  <2>5. PICK b \in Nat \ {0} : 2 ^ hs[k] = (2 * b) * 2 ^ hs[u]
    <3> HIDE DEF k
    <3>1. hs[u] \in Nat /\ hs[k] \in Nat  BY <1>0, <2>2
    <3>2. Grows(hs[u], hs[k])  BY <3>1, <2>3, PowerGrows
    <3> QED BY <3>2 DEF Grows
  <2> DEFINE o == (m + 1) * b
             z == 2 ^ hs[k]
  <2>6. o \in Nat /\ z = (2 * b) * y  BY <2>5
  <2>7. f[u] = m * z + z  BY <2>1, <2>2, <2>4
  <2>8. f[u] = (2 * o) * y
    <3> HIDE DEF y, z
    <3> QED BY <1>1, <2>6, <2>7
  <2> QED BY <2>6, <2>8
<1> QED BY <1>2, <1>3

(* There is room for another subtree. *)
LEMMA PileRoom ==
  ASSUME NEW c, IsCall(c), NEW x, NEW d, NEW hs, NEW w, NEW f, Pile(c, x, d, hs, w, f, d)
  PROVE  d <= c.T
<1>0. d \in Nat /\ c.T \in Nat \ {0}  BY CallNumbers DEF Pile, Heap
<1>1. CASE d = 0  BY <1>0, <1>1
<1>2. CASE d # 0
  <2>1. d - 1 \in 0 .. d - 1  BY <1>0, <1>2
  <2>2. hs[d - 1] + (d - 1) < c.T /\ hs[d - 1] \in Nat  BY <2>1 DEF Pile, Heap
  <2> QED BY <1>0, <2>2
<1> QED BY <1>1, <1>2

(* A leaf goes onto the stack. *)
LEMMA PilePush ==
  ASSUME NEW c, IsCall(c), NEW x, NEW d, NEW hs, NEW w, NEW f, Pile(c, x, d, hs, w, f, d),
         NEW hs2, NEW w2, \A u \in 0 .. d - 1 : hs2[u] = hs[u] /\ w2[u] = w[u],
         hs2[d] = 0, w2[d] = Treehash!Node(0, x + c.off)
  PROVE  \E g : Pile(c, x + 1, d + 1, hs2, w2, g, d)
<1>0. x \in Nat /\ d \in Nat /\ c.T \in Nat \ {0} /\ f[0] = 0 /\ f[d] = x  BY CallNumbers DEF Pile, Heap
<1>1. \A u \in 0 .. d - 1 :
       /\ hs[u] \in Nat /\ hs[u] + u <= c.T
       /\ f[u] \in Nat /\ f[u + 1] = f[u] + 2 ^ hs[u]
       /\ \E m \in Nat : f[u] = m * 2 ^ hs[u] /\ w[u] = At(c, hs[u], m)
  BY DEF Pile, Heap
<1>2. /\ \A u \in 1 .. d - 1 : hs[u] < hs[u - 1]
      /\ \A u \in 0 .. d - 1 : hs[u] + u < c.T
  BY DEF Pile, Heap
<1>3. d <= c.T  BY PileRoom
<1> DEFINE g == [u \in 0 .. d + 1 |-> IF u = d + 1 THEN x + 1 ELSE f[u]]
<1>4. g[0] = 0 /\ g[d + 1] = x + 1 /\ \A u \in 0 .. d : g[u] = f[u]  BY <1>0
<1> HIDE DEF g
<1>5. ASSUME NEW u \in 0 .. d
      PROVE  /\ hs2[u] \in Nat /\ hs2[u] + u <= c.T
             /\ g[u] \in Nat /\ g[u + 1] = g[u] + 2 ^ hs2[u]
             /\ \E m \in Nat : g[u] = m * 2 ^ hs2[u] /\ w2[u] = At(c, hs2[u], m)
  <2>1. CASE u = d
    <3>1. hs2[u] = 0 /\ g[u] = x /\ g[u + 1] = x + 1 /\ 2 ^ 0 = 1  BY <1>0, <1>4, <2>1
    <3>2. x = x * 1  BY <1>0
    <3>3. w2[u] = At(c, 0, x)  BY <1>0, <2>1, TreeEnds
    <3>4. \E m \in Nat : g[u] = m * 2 ^ hs2[u] /\ w2[u] = At(c, hs2[u], m)  BY <1>0, <3>1, <3>2, <3>3
    <3>5. hs2[u] \in Nat /\ hs2[u] + u <= c.T /\ g[u] \in Nat /\ g[u + 1] = g[u] + 2 ^ hs2[u]
      <4>1. hs2[u] \in Nat /\ hs2[u] + u <= c.T  BY <1>0, <1>3, <2>1, <3>1
      <4>2. 2 ^ hs2[u] = 1  BY <3>1
      <4> QED BY <1>0, <3>1, <4>1, <4>2
    <3> QED BY <3>4, <3>5
  <2>2. CASE u # d
    <3>1. u \in 0 .. d - 1 /\ u + 1 \in 0 .. d  BY <1>0, <2>2
    <3>2. hs2[u] = hs[u] /\ w2[u] = w[u] /\ g[u] = f[u] /\ g[u + 1] = f[u + 1]  BY <1>4, <3>1
    <3> QED BY <1>1, <3>1, <3>2
  <2> QED BY <2>1, <2>2
<1>6. ASSUME NEW u \in 1 .. d - 1 PROVE hs2[u] < hs2[u - 1]
  <2>1. u \in 0 .. d - 1 /\ u - 1 \in 0 .. d - 1  BY <1>0
  <2> QED BY <1>2, <2>1
<1>7. ASSUME NEW u \in 1 .. d PROVE hs2[u] <= hs2[u - 1]
  <2>1. u \in 0 .. d /\ u - 1 \in 0 .. d  BY <1>0
  <2>2. hs2[u] \in Nat /\ hs2[u - 1] \in Nat  BY <1>5, <2>1
  <2>3. CASE u = d  BY <2>2, <2>3
  <2>4. CASE u # d
    <3>1. u \in 1 .. d - 1  BY <1>0, <2>4
    <3> QED BY <1>6, <2>2, <3>1
  <2> QED BY <2>3, <2>4
<1>8. \A u \in 0 .. d - 1 : hs2[u] + u < c.T  BY <1>2
<1>9. Pile(c, x + 1, d + 1, hs2, w2, g, d)
  <2>1. x + 1 \in Nat /\ d + 1 \in Nat /\ d <= d + 1 /\ (d + 1) - 1 = d  BY <1>0
  <2> QED BY <1>0, <1>4, <1>5, <1>6, <1>7, <1>8, <2>1 DEF Pile, Heap
<1> QED BY <1>3, <1>9

(* How far one gets from x: the height of the last subtree. *)
LEMMA PileReaches ==
  ASSUME NEW c, IsCall(c), c.n = 1, NEW x \in Nat, NEW d, NEW hs, NEW w, NEW f, NEW e,
         Pile(c, x + 1, d, hs, w, f, e), d # 0
  PROVE  /\ hs[d - 1] \in Nat /\ hs[d - 1] <= c.T
         /\ Reaches(c, hs[d - 1], x)
         /\ \E m \in Nat : /\ x + 1 = (m + 1) * 2 ^ hs[d - 1] /\ f[d - 1] = m * 2 ^ hs[d - 1]
                           /\ w[d - 1] = At(c, hs[d - 1], m)
<1>0. d \in Nat /\ c.T \in Nat /\ Low(c) = c.T /\ f[d] = x + 1  BY CallNumbers, OneLane DEF Pile, Heap
<1> DEFINE k == d - 1
<1>1. k \in 0 .. d - 1 /\ k + 1 = d /\ k \in Nat BY <1>0
<1> HIDE DEF k
<1>2. /\ hs[k] \in Nat /\ hs[k] + k <= c.T /\ f[k + 1] = f[k] + 2 ^ hs[k]
      /\ \E m \in Nat : f[k] = m * 2 ^ hs[k] /\ w[k] = At(c, hs[k], m)
  BY <1>1 DEF Pile, Heap
<1>3. PICK m \in Nat : f[k] = m * 2 ^ hs[k] /\ w[k] = At(c, hs[k], m)  BY <1>2
<1>4. x + 1 = (m + 1) * 2 ^ hs[k]
  <2> DEFINE y == 2 ^ hs[k]
  <2>1. y \in Nat /\ x + 1 = m * y + y  BY <1>0, <1>1, <1>2, <1>3, PowerDoubles
  <2> HIDE DEF y
  <2>2. x + 1 = (m + 1) * y  BY <2>1
  <2> QED BY <2>2 DEF y
<1>5. hs[k] <= c.T  BY <1>0, <1>1, <1>2
<1>6. Reaches(c, hs[k], x)  BY <1>0, <1>4, <1>5 DEF Reaches
<1> QED BY <1>2, <1>3, <1>4, <1>5, <1>6 DEF k

(* The last two, of one height, become one. *)
TopsMeet(c, x, d, hs, w, f, t, hs2, w2) ==
  /\ IsCall(c) /\ c.n = 1 /\ x \in Nat /\ x < 2 ^ Low(c)
  /\ Pile(c, x + 1, d, hs, w, f, d - 1) /\ d >= 2 /\ hs[d - 1] = hs[d - 2] /\ t = hs[d - 1] + 1
  /\ \A u \in 0 .. d - 3 : hs2[u] = hs[u] /\ w2[u] = w[u]
  /\ hs2[d - 2] = t
  /\ w2[d - 2] = Treehash!thash(w[d - 2], w[d - 1], Treehash!Node(t, (x \div 2 ^ t) + (c.off \div 2 ^ t)))
LEMMA PileJoin ==
  ASSUME NEW c, NEW x, NEW d, NEW hs, NEW w, NEW f, NEW t, NEW hs2, NEW w2,
         TopsMeet(c, x, d, hs, w, f, t, hs2, w2)
  PROVE  /\ t \in Nat /\ t <= c.T /\ Reaches(c, t, x)
         /\ w2[d - 2] = At(c, t, x \div 2 ^ t)
         /\ \E g : Pile(c, x + 1, d - 1, hs2, w2, g, d - 2)
<1> USE DEF TopsMeet
<1>0. /\ d \in Nat /\ c.T \in Nat /\ Low(c) = c.T /\ f[0] = 0 /\ f[d] = x + 1 /\ d - 2 \in 0 .. d - 1
      /\ d - 1 \in 0 .. d - 1 /\ (d - 2) + 1 = d - 1 /\ (d - 1) + 1 = d /\ d - 2 \in Nat
  BY CallNumbers, OneLane DEF Pile, Heap
<1> DEFINE h == hs[d - 1]
<1>1. \A u \in 0 .. d - 1 :
       /\ hs[u] \in Nat /\ hs[u] + u <= c.T
       /\ f[u] \in Nat /\ f[u + 1] = f[u] + 2 ^ hs[u]
       /\ \E m \in Nat : f[u] = m * 2 ^ hs[u] /\ w[u] = At(c, hs[u], m)
  BY DEF Pile, Heap
<1>2. /\ \A u \in 1 .. d - 1 : hs[u] <= hs[u - 1]
      /\ \A u \in 1 .. d - 2 : hs[u] < hs[u - 1]
      /\ \A u \in 0 .. d - 2 : hs[u] + u < c.T
  <2>1. (d - 1) - 1 = d - 2  BY <1>0
  <2> QED BY <2>1 DEF Pile, Heap
<1>3. h \in Nat /\ t = h + 1 /\ h < c.T /\ t <= c.T /\ t \in Nat
  <2>1. h \in Nat  BY <1>0, <1>1
  <2>2. hs[d - 2] + (d - 2) < c.T  BY <1>0, <1>2
  <2> HIDE DEF h
  <2>3. h + (d - 2) < c.T  BY <2>2 DEF h
  <2> QED BY <1>0, <2>1, <2>3 DEF h
<1>4. PICK m \in Nat : f[d - 2] = (2 * m) * 2 ^ h
  <2>1. d - 2 # 0 => hs[d - 2] < hs[(d - 2) - 1]
    <3>1. d - 2 # 0 => d - 2 \in 1 .. d - 2  BY <1>0
    <3> QED BY <1>2, <3>1
  <2>2. \E m \in Nat : f[d - 2] = (2 * m) * 2 ^ hs[d - 2]  BY <1>0, <2>1, LeftChild
  <2> QED BY <2>2
<1> DEFINE y == 2 ^ h
<1>5. y \in Nat \ {0} /\ 2 ^ t = 2 * y  BY <1>3, PowerDoubles
<1>6. f[d - 2] = (2 * m) * y /\ f[d - 1] = f[d - 2] + y /\ x + 1 = f[d - 1] + y
  <2>1. f[(d - 2) + 1] = f[d - 2] + 2 ^ hs[d - 2] /\ f[(d - 1) + 1] = f[d - 1] + 2 ^ hs[d - 1]  BY <1>0, <1>1
  <2> QED BY <1>0, <1>4, <2>1
<1>7. f[d - 1] = ((2 * m) + 1) * y /\ f[d - 2] = m * 2 ^ t /\ x + 1 = (m + 1) * 2 ^ t
  <2> HIDE DEF y, h
  <2>1. ((2 * m) + 1) * y = (2 * m) * y + y /\ (2 * m) * y = m * (2 * y) /\ (m + 1) * (2 * y) = m * (2 * y) + 2 * y
        /\ m * (2 * y) \in Nat
    BY <1>5
  <2> QED BY <1>5, <1>6, <2>1
<1>8. Reaches(c, t, x)  BY <1>0, <1>3, <1>7 DEF Reaches
<1>9. x \div 2 ^ t = m
  <2>1. x \div 2 ^ t \in Nat /\ x + 1 = ((x \div 2 ^ t) + 1) * 2 ^ t  BY <1>0, <1>3, <1>8, ReachesIs
  <2> DEFINE z == 2 ^ t
             q == x \div z
  <2>2. z \in Nat \ {0}  BY <1>3, PowerDoubles
  <2>3. q \in Nat /\ (q + 1) * z = (m + 1) * z  BY <1>7, <2>1
  <2> HIDE DEF z, q
  <2>4. q + 1 = m + 1  BY <2>2, <2>3
  <2>5. q = m  BY <2>3, <2>4
  <2> QED BY <2>5 DEF q, z
<1>10. w[d - 2] = At(c, h, 2 * m) /\ w[d - 1] = At(c, h, (2 * m) + 1)
  <2>1. PICK a \in Nat : f[d - 2] = a * 2 ^ hs[d - 2] /\ w[d - 2] = At(c, hs[d - 2], a)  BY <1>0, <1>1
  <2>2. PICK b \in Nat : f[d - 1] = b * 2 ^ hs[d - 1] /\ w[d - 1] = At(c, hs[d - 1], b)  BY <1>0, <1>1
  <2>3. a * y = (2 * m) * y /\ b * y = ((2 * m) + 1) * y  BY <1>6, <1>7, <2>1, <2>2
  <2> HIDE DEF y, h
  <2>4. a = 2 * m /\ b = (2 * m) + 1  BY <1>5, <2>3
  <2> QED BY <2>1, <2>2, <2>4 DEF h
<1>11. w2[d - 2] = At(c, t, m)
  <2>1. Treehash!thash(At(c, h, 2 * m), At(c, h, (2 * m) + 1), Treehash!Node(h + 1, m + Base(c, h + 1)))
       = At(c, h + 1, m)
    <3> HIDE DEF h
    <3>1. 2 * m \in Nat  OBVIOUS
    <3> QED BY <1>3, <3>1, NodesJoin
  <2> HIDE DEF h
  <2> QED BY <1>3, <1>9, <1>10, <2>1 DEF Base
<1> DEFINE g == [u \in 0 .. d - 1 |-> IF u = d - 1 THEN x + 1 ELSE f[u]]
<1>12. g[0] = 0 /\ g[d - 1] = x + 1 /\ \A u \in 0 .. d - 2 : g[u] = f[u]  BY <1>0, SMTT(60)
<1> HIDE DEF g, h, y
<1>13. ASSUME NEW u \in 0 .. d - 2
      PROVE  /\ hs2[u] \in Nat /\ hs2[u] + u <= c.T
             /\ g[u] \in Nat /\ g[u + 1] = g[u] + 2 ^ hs2[u]
             /\ \E n \in Nat : g[u] = n * 2 ^ hs2[u] /\ w2[u] = At(c, hs2[u], n)
  <2>0. u \in 0 .. d - 1 /\ g[u] = f[u] /\ f[u] \in Nat  BY <1>0, <1>1, <1>12
  <2>1. CASE u = d - 2
    <3>1. hs2[u] = t /\ g[u] = m * 2 ^ t /\ w2[u] = At(c, t, m) /\ g[u + 1] = x + 1
      BY <1>0, <1>7, <1>11, <1>12, <2>1
    <3>2. t + u <= c.T
      <4>1. h + (d - 2) < c.T  BY <1>0, <1>2 DEF h
      <4> QED BY <1>0, <1>3, <2>1, <4>1
    <3>3. x + 1 = m * 2 ^ t + 2 ^ t
      <4> DEFINE z == 2 ^ t
      <4>1. z \in Nat /\ x + 1 = (m + 1) * z  BY <1>3, <1>7, PowerDoubles
      <4> HIDE DEF z
      <4>2. (m + 1) * z = m * z + z  BY <4>1
      <4> QED BY <4>1, <4>2 DEF z
    <3> QED BY <1>3, <2>0, <3>1, <3>2, <3>3
  <2>2. CASE u # d - 2
    <3>1. u \in 0 .. d - 3 /\ u + 1 \in 0 .. d - 2  BY <1>0, <2>2
    <3>2. hs2[u] = hs[u] /\ w2[u] = w[u] /\ g[u + 1] = f[u + 1]  BY <1>12, <3>1
    <3> QED BY <1>1, <2>0, <3>2
  <2> QED BY <2>1, <2>2
<1>14. ASSUME NEW u \in 1 .. d - 3 PROVE hs2[u] < hs2[u - 1]
  <2>1. u \in 0 .. d - 3 /\ u - 1 \in 0 .. d - 3 /\ u \in 1 .. d - 2  BY <1>0
  <2> QED BY <1>2, <2>1
<1>15. ASSUME NEW u \in 1 .. d - 2 PROVE hs2[u] <= hs2[u - 1]
  <2>1. u \in 0 .. d - 2 /\ u - 1 \in 0 .. d - 3 /\ u - 1 \in 0 .. d - 2  BY <1>0
  <2>2. hs2[u] \in Nat /\ hs2[u - 1] \in Nat /\ hs2[u - 1] = hs[u - 1] /\ hs[u] < hs[u - 1]  BY <1>2, <1>13, <2>1
  <2>3. CASE u = d - 2
    <3>1. hs2[u] = h + 1 /\ hs[u] = h  BY <1>3, <2>3 DEF h
    <3> QED BY <1>3, <2>2, <3>1
  <2>4. CASE u # d - 2
    <3>1. u \in 1 .. d - 3  BY <1>0, <2>4
    <3> QED BY <1>14, <2>2, <3>1
  <2> QED BY <2>3, <2>4
<1>16. ASSUME NEW u \in 0 .. d - 3 PROVE hs2[u] + u < c.T
  <2>1. u \in 0 .. d - 2  BY <1>0
  <2> QED BY <1>2, <2>1
<1>17. Pile(c, x + 1, d - 1, hs2, w2, g, d - 2)
  <2>1. x + 1 \in Nat /\ d - 1 \in Nat /\ d - 2 <= d - 1 /\ (d - 1) - 1 = d - 2 /\ (d - 2) - 1 = d - 3  BY <1>0
  <2> QED BY <1>0, <1>12, <1>13, <1>14, <1>15, <1>16, <2>1 DEF Pile, Heap
<1> QED BY <1>3, <1>8, <1>9, <1>11, <1>17

(* The last subtree is smaller than the one before: on to the next leaf. *)
LEMMA PileSettles ==
  ASSUME NEW c, IsCall(c), c.n = 1, NEW x \in Nat, NEW d, NEW hs, NEW w, NEW f,
         Pile(c, x + 1, d, hs, w, f, d - 1), d # 0, ~ (d >= 2 /\ hs[d - 1] = hs[d - 2])
  PROVE  /\ \E m \in Nat : EndsLeft(x, hs[d - 1], 2 * m)
         /\ x + 1 < 2 ^ Low(c) => Pile(c, x + 1, d, hs, w, f, d)
         /\ x + 1 = 2 ^ Low(c) => d = 1 /\ w[0] = Root(c) /\ hs[0] = c.T
<1>0. /\ d \in Nat /\ c.T \in Nat /\ Low(c) = c.T /\ f[0] = 0 /\ f[d] = x + 1 /\ d - 1 \in 0 .. d - 1 /\ d - 1 \in Nat
      /\ (d - 1) + 1 = d
  <2>1. d \in Nat /\ f[0] = 0 /\ f[d] = x + 1  BY DEF Pile, Heap
  <2>2. c.T \in Nat /\ Low(c) = c.T  BY CallNumbers, OneLane
  <2> QED BY <2>1, <2>2
<1> DEFINE h == hs[d - 1]
<1>1. /\ h \in Nat /\ h <= c.T /\ h + (d - 1) <= c.T
      /\ \E m \in Nat : /\ x + 1 = (m + 1) * 2 ^ h /\ f[d - 1] = m * 2 ^ h /\ w[d - 1] = At(c, h, m)
  <2>1. hs[d - 1] + (d - 1) <= c.T  BY <1>0 DEF Pile, Heap
  <2> QED BY <1>0, <2>1, PileReaches
<1>2. PICK a \in Nat : x + 1 = (a + 1) * 2 ^ h /\ f[d - 1] = a * 2 ^ h /\ w[d - 1] = At(c, h, a)  BY <1>1
<1>3. d - 1 # 0 => hs[d - 1] < hs[d - 2]
  <2> SUFFICES ASSUME d - 1 # 0 PROVE hs[d - 1] < hs[d - 2]  OBVIOUS
  <2>1. d - 1 \in 1 .. d - 1 /\ (d - 1) - 1 = d - 2 /\ d >= 2 /\ d - 2 \in 0 .. d - 1  BY <1>0
  <2>2. hs[d - 1] <= hs[d - 2] /\ hs[d - 2] \in Nat  BY <2>1 DEF Pile, Heap
  <2> QED BY <1>1, <2>1, <2>2
<1>4. PICK m \in Nat : f[d - 1] = (2 * m) * 2 ^ h
  <2>1. d - 1 # 0 => hs[d - 1] < hs[(d - 1) - 1]  BY <1>0, <1>3
  <2> QED BY <1>0, <2>1, LeftChild
<1> DEFINE y == 2 ^ h
<1>5. y \in Nat \ {0}  BY <1>1, PowerDoubles
<1>6. a = 2 * m
  <2>1. a * y = (2 * m) * y  BY <1>2, <1>4
  <2> HIDE DEF y
  <2> QED BY <1>5, <2>1
<1>7. EndsLeft(x, h, 2 * m)
  <2>1. x + 1 = ((2 * m) + 1) * 2 ^ h /\ 2 * m \in Nat /\ (2 * m) % 2 = 0  BY <1>2, <1>6
  <2> QED BY <1>1, <2>1 DEF EndsLeft
<1> HIDE DEF h, y
<1>8. ASSUME x + 1 = 2 ^ Low(c) PROVE d = 1 /\ w[0] = Root(c) /\ hs[0] = c.T
  <2>1. h = c.T
    <3> SUFFICES ASSUME h # c.T PROVE FALSE  OBVIOUS
    <3>1. h < c.T  BY <1>0, <1>1
    <3>2. PICK e \in Nat \ {0} : 2 ^ c.T = (2 * e) * 2 ^ h
      <4>1. c.T \in Nat /\ h \in Nat  BY <1>0, <1>1
      <4>2. Grows(h, c.T)  BY <3>1, <4>1, PowerGrows
      <4> QED BY <4>2 DEF Grows
    <3>3. (2 * e) * y = ((2 * m) + 1) * y  BY <1>0, <1>2, <1>6, <1>8, <3>2 DEF y
    <3>4. 2 * e = (2 * m) + 1  BY <1>5, <3>3
    <3> QED BY <3>4
  <2>2. d = 1  BY <1>0, <1>1, <2>1
  <2>3. a = 0
    <3>1. a * y = 0  BY <1>0, <1>2, <2>2 DEF y
    <3> QED BY <1>5, <3>1
  <2>4. w[0] = At(c, c.T, 0)  BY <1>2, <2>1, <2>2, <2>3
  <2> QED BY <2>1, <2>2, <2>4, TreeEnds DEF h
<1>9. ASSUME x + 1 < 2 ^ Low(c) PROVE Pile(c, x + 1, d, hs, w, f, d)
  <2>1. h + (d - 1) < c.T
    <3>1. CASE d = 1
      <4>1. h # c.T
        <5> SUFFICES ASSUME h = c.T PROVE FALSE  OBVIOUS
        <5> DEFINE z == 2 ^ c.T
        <5>1. x + 1 = (a + 1) * z /\ z \in Nat /\ x + 1 < z  BY <1>0, <1>2, <1>9, PowerDoubles
        <5> HIDE DEF z
        <5>2. (a + 1) * z = a * z + z /\ a * z \in Nat  BY <5>1
        <5> QED BY <5>1, <5>2
      <4> QED BY <1>0, <1>1, <3>1, <4>1
    <3>2. CASE d # 1
      <4>1. d - 2 \in 0 .. (d - 1) - 1 /\ d - 1 # 0 /\ d - 2 \in 0 .. d - 1  BY <1>0, <3>2
      <4>2. hs[d - 2] + (d - 2) < c.T /\ hs[d - 2] \in Nat  BY <4>1 DEF Pile, Heap
      <4>3. h < hs[d - 2]  BY <1>3, <4>1 DEF h
      <4> QED BY <1>0, <1>1, <4>2, <4>3
    <3> QED BY <3>1, <3>2
  <2>2. ASSUME NEW u \in 1 .. d - 1 PROVE hs[u] < hs[u - 1]
    <3>1. CASE u = d - 1
      <4>1. d - 1 # 0 /\ u - 1 = d - 2  BY <1>0, <3>1
      <4> QED BY <1>3, <3>1, <4>1
    <3>2. CASE u # d - 1
      <4>1. u \in 1 .. (d - 1) - 1  BY <1>0, <3>2
      <4> QED BY <4>1 DEF Pile, Heap
    <3> QED BY <3>1, <3>2
  <2>3. ASSUME NEW u \in 0 .. d - 1 PROVE hs[u] + u < c.T
    <3>1. CASE u = d - 1  BY <2>1, <3>1 DEF h
    <3>2. CASE u # d - 1
      <4>1. u \in 0 .. (d - 1) - 1  BY <1>0, <3>2
      <4> QED BY <4>1 DEF Pile, Heap
    <3> QED BY <3>1, <3>2
  <2>4. Heap(c, d, hs, w, f) /\ x + 1 \in Nat /\ \A u \in 1 .. d - 1 : hs[u] <= hs[u - 1]  BY DEF Pile
  <2> QED BY <1>0, <2>2, <2>3, <2>4 DEF Pile
<1> QED BY <1>7, <1>8, <1>9 DEF h

(***************************************************************************)
(* The invariant of a call.                                                *)
(***************************************************************************)
Builders == {"treehash", "x1", "x2", "x4", "x8"}
Tops(w) == [u \in 0 .. MaxTreeHeight |-> w[u][0]]
CallTypes ==
  /\ builder \in Builders /\ doing \in {"leaf", "rise", "check", "done"}
  /\ IsCall(TheCall) /\ MaxTreeHeight \in Nat /\ tree_height <= MaxTreeHeight
  /\ DOMAIN current = 0 .. 7 /\ DOMAIN heights = 0 .. MaxTreeHeight /\ DOMAIN auth_path = 0 .. MaxTreeHeight - 1
  /\ DOMAIN waiting = 0 .. MaxTreeHeight /\ \A u \in 0 .. MaxTreeHeight : DOMAIN waiting[u] = 0 .. 7
LanesClimb == builder # "treehash" =>
  /\ depth = 0
  /\ doing = "leaf" => OnLeaf(TheCall, idx, waiting, auth_path) /\ left_adj = 0 /\ prev_left_adj = 0
  /\ doing = "rise" => /\ OnRise(TheCall, idx, level, current, waiting, auth_path)
                       /\ left_adj = Adj(TheCall, level) /\ (level <= Low(TheCall) => prev_left_adj = 0)
OldStack == builder = "treehash" =>
  /\ depth \in 0 .. tree_height + 1
  /\ doing \in {"leaf", "rise"} => level = 0 /\ idx \in Nat /\ idx < 2 ^ Low(TheCall)
  /\ doing = "leaf" => /\ PathUpTo(TheCall, idx, 0, auth_path)
                       /\ \E f : Pile(TheCall, idx, depth, heights, Tops(waiting), f, depth)
  /\ doing = "rise" => /\ depth # 0 /\ PathUpTo(TheCall, idx, heights[depth - 1] + 1, auth_path)
                       /\ \E f : Pile(TheCall, idx + 1, depth, heights, Tops(waiting), f, depth - 1)
Verifies ==
  /\ doing \in {"check", "done"} => top_node = Root(TheCall) /\ PathDone(TheCall, auth_path)
  /\ doing = "check" => /\ leaf_idx # Treehash!NoLeaf /\ idx = leaf_idx /\ level \in Nat /\ level < tree_height
                        /\ current[0] = At(TheCall, level, leaf_idx \div 2 ^ level)
  /\ doing = "done" /\ leaf_idx # Treehash!NoLeaf => current[0] = Root(TheCall)
TreeInv == CallTypes /\ LanesClimb /\ OldStack /\ Verifies

LEMMA CallOf ==
  ASSUME builder \in Builders
  PROVE  /\ TheCall.T = tree_height /\ TheCall.off = idx_offset /\ TheCall.leaf = leaf_idx
         /\ TheCall.n = Treehash!Lanes(builder) /\ TheCall.g = Treehash!LogLanes(builder)
         /\ builder \in {"treehash", "x1"} => TheCall.n = 1 /\ TheCall.g = 0
         /\ builder = "x2" => TheCall.n = 2 /\ TheCall.g = 1
         /\ builder = "x4" => TheCall.n = 4 /\ TheCall.g = 2
         /\ builder = "x8" => TheCall.n = 8 /\ TheCall.g = 3
<1>1. /\ TheCall.T = tree_height /\ TheCall.off = idx_offset /\ TheCall.leaf = leaf_idx
      /\ TheCall.n = Treehash!Lanes(builder) /\ TheCall.g = Treehash!LogLanes(builder)
  BY DEF TheCall
<1>2. CASE builder \in {"treehash", "x1"}  BY <1>1, <1>2 DEF Treehash!Lanes, Treehash!LogLanes
<1>3. CASE builder = "x2"  BY <1>1, <1>3 DEF Treehash!Lanes, Treehash!LogLanes
<1>4. CASE builder = "x4"  BY <1>1, <1>4 DEF Treehash!Lanes, Treehash!LogLanes
<1>5. CASE builder = "x8"  BY <1>1, <1>5 DEF Treehash!Lanes, Treehash!LogLanes
<1> QED BY <1>2, <1>3, <1>4, <1>5 DEF Builders

LEMMA NothingDone ==
  ASSUME NEW c, IsCall(c), NEW w, NEW path, \A s \in 0 .. c.T - 1 : path[s] = Treehash!Garbage
  PROVE  OnLeaf(c, 0, w, path)
<1>0. Low(c) \in Nat /\ 2 ^ Low(c) \in Nat \ {0} /\ c.T \in Nat  BY CallNumbers
<1>1. Waits(c, 0, w)
  <2>1. ASSUME NEW s \in Nat PROVE (0 \div 2 ^ s) % 2 # 1
    <3> DEFINE y == 2 ^ s
    <3>1. y \in Nat \ {0}  BY PowerDoubles
    <3> HIDE DEF y
    <3>2. 0 \div y = 0
      <4>1. 0 = y * 0 + 0 /\ 0 \in 0 .. y - 1 /\ 0 \in Nat  BY <3>1
      <4> QED BY <3>1, <4>1, QuotientIs
    <3>3. (0 \div y) % 2 # 1  BY <3>2
    <3> QED BY <3>3 DEF y
  <2> QED BY <2>1 DEF Waits
<1>2. ASSUME NEW s \in 0 .. c.T - 1, c.leaf # Treehash!NoLeaf PROVE ~ (Needed(c, s) <= 0)
  <2>1. s \in Nat /\ s < c.T  BY <1>0
  <2>2. Which(c, s) \in Nat /\ 2 ^ s \in Nat \ {0}  BY <1>2, <2>1, WhichIs, PowerDoubles
  <2> DEFINE k == Which(c, s)
             y == 2 ^ s
  <2>3. k \in Nat /\ y \in Nat \ {0}  BY <2>2
  <2>4. Needed(c, s) = IF s <= Low(c) THEN (k + 1) * y ELSE 2 ^ Low(c)  BY DEF Needed
  <2> HIDE DEF k, y
  <2>5. (k + 1) * y = k * y + y /\ k * y \in Nat  BY <2>3
  <2> QED BY <1>0, <2>3, <2>4, <2>5
<1>3. PathUpTo(c, 0, 0, path)
  <2>1. \A s \in 0 .. c.T - 1 : ~ (s < 0)  BY <1>0
  <2> QED BY <1>2, <2>1 DEF PathUpTo
<1> QED BY <1>0, <1>1, <1>3 DEF OnLeaf

LEMMA CallStarts == ASSUME TreeSizes, Treehash!Init PROVE TreeInv
<1>0. MaxTreeHeight \in Nat /\ MaxTreeHeight <= 27 /\ RowOfTrees \subseteq Nat
  BY DEF TreeSizes, Treehash!SizesAssumption
<1>1. /\ builder \in Builders /\ doing = "leaf"
      /\ tree_height \in 1 .. MaxTreeHeight /\ tree_height >= Treehash!LogLanes(builder)
      /\ leaf_idx \in 0 .. 2 ^ tree_height - 1 \cup {Treehash!NoLeaf}
      /\ idx_offset \in {t * 2 ^ tree_height : t \in RowOfTrees}
      /\ idx = 0 /\ level = 0 /\ left_adj = 0 /\ prev_left_adj = 0 /\ depth = 0
  BY DEF Treehash!Init, Builders
<1>2. /\ current = [lane \in 0 .. 7 |-> Treehash!Garbage]
      /\ waiting = [s \in 0 .. MaxTreeHeight |-> [lane \in 0 .. 7 |-> Treehash!Garbage]]
      /\ heights = [s \in 0 .. MaxTreeHeight |-> -1]
      /\ auth_path = [s \in 0 .. MaxTreeHeight - 1 |-> Treehash!Garbage]
  BY DEF Treehash!Init
<1>3. IsCall(TheCall)
  <2>1. /\ TheCall.T = tree_height /\ TheCall.off = idx_offset /\ TheCall.leaf = leaf_idx
        /\ TheCall.g = Treehash!LogLanes(builder)
    BY <1>1, CallOf
  <2>2. TheCall.g \in 0 .. 3 /\ TheCall.n = 2 ^ TheCall.g /\ TheCall.n \in {1, 2, 4, 8}
    <3>1. 2 ^ 0 = 1 /\ 2 ^ 1 = 2 /\ 2 ^ 2 = 4 /\ 2 ^ 3 = 8  OBVIOUS
    <3>2. CASE builder \in {"treehash", "x1"}
      <4>1. TheCall.n = 1 /\ TheCall.g = 0  BY <1>1, <3>2, CallOf
      <4> QED BY <3>1, <4>1
    <3>3. CASE builder = "x2"
      <4>1. TheCall.n = 2 /\ TheCall.g = 1  BY <1>1, <3>3, CallOf
      <4> QED BY <3>1, <4>1
    <3>4. CASE builder = "x4"
      <4>1. TheCall.n = 4 /\ TheCall.g = 2  BY <1>1, <3>4, CallOf
      <4> QED BY <3>1, <4>1
    <3>5. CASE builder = "x8"
      <4>1. TheCall.n = 8 /\ TheCall.g = 3  BY <1>1, <3>5, CallOf
      <4> QED BY <3>1, <4>1
    <3> QED BY <1>1, <3>2, <3>3, <3>4, <3>5 DEF Builders
  <2>3. TheCall.T \in 1 .. 27 /\ TheCall.g <= TheCall.T  BY <1>0, <1>1, <2>1, <2>2
  <2>4. TheCall.leaf \in 0 .. 2 ^ TheCall.T - 1 \cup {Treehash!NoLeaf}  BY <1>1, <2>1
  <2>5. \E t \in Nat : TheCall.off = t * 2 ^ TheCall.T  BY <1>0, <1>1, <2>1
  <2> QED BY <2>2, <2>3, <2>4, <2>5 DEF IsCall
<1>4. CallTypes
  <2>1. tree_height <= MaxTreeHeight  BY <1>0, <1>1
  <2> QED BY <1>0, <1>1, <1>2, <1>3, <2>1 DEF CallTypes
<1>5. OnLeaf(TheCall, idx, waiting, auth_path)
  <2>1. TheCall.T = tree_height  BY <1>1, CallOf
  <2>2. \A s \in 0 .. TheCall.T - 1 : auth_path[s] = Treehash!Garbage  BY <1>0, <1>1, <1>2, <2>1, SMTT(60)
  <2> QED BY <1>1, <1>3, <2>2, NothingDone
<1>6. LanesClimb  BY <1>1, <1>5 DEF LanesClimb
<1>7. OldStack
  <2>1. Pile(TheCall, 0, 0, heights, Tops(waiting), [u \in 0 .. 0 |-> 0], 0)  BY DEF Pile, Heap
  <2>2. 0 \in 0 .. tree_height + 1  BY <1>1
  <2> QED BY <1>1, <1>5, <2>1, <2>2 DEF OldStack, OnLeaf
<1>8. Verifies  BY <1>1 DEF Verifies
<1> QED BY <1>4, <1>6, <1>7, <1>8 DEF TreeInv

(* The call stays the same. *)
LEMMA CallStays == ASSUME UNCHANGED Treehash!call PROVE UNCHANGED TheCall
  BY DEF Treehash!call, TheCall

LEMMA LeafKeeps ==
  ASSUME TreeInv, builder # "treehash", Treehash!Leaf(TheCall.n)
  PROVE  TreeInv'
<1>0. UNCHANGED TheCall /\ UNCHANGED <<builder, tree_height, leaf_idx, idx_offset>>
  BY CallStays DEF Treehash!Leaf, Treehash!call
<1> DEFINE c == TheCall
<1>1. IsCall(c) /\ c.off = idx_offset /\ c.n \in {1, 2, 4, 8}  BY CallOf DEF TreeInv, CallTypes, IsCall
<1>2. /\ doing = "leaf" /\ doing' = "rise" /\ level' = 0
      /\ current' = [lane \in 0 .. 7 |-> IF lane < c.n THEN Treehash!Node(0, (c.n * idx) + idx_offset + lane)
                                         ELSE Treehash!Garbage]
      /\ UNCHANGED <<idx, waiting, left_adj, prev_left_adj, heights, depth, top_node, auth_path>>
  BY DEF Treehash!Leaf
<1>3. OnLeaf(c, idx, waiting, auth_path) /\ left_adj = 0 /\ prev_left_adj = 0 /\ depth = 0
  BY <1>2 DEF TreeInv, LanesClimb
<1>4. \A l \in 0 .. c.n - 1 : current'[l] = Treehash!Node(0, ((c.n * idx) + c.off) + l)
  <2> HIDE DEF c
  <2>1. \A l \in 0 .. c.n - 1 : l \in 0 .. 7 /\ l < c.n  BY <1>1
  <2> QED BY <1>1, <1>2, <2>1
<1>5. OnRise(c, idx, 0, current', waiting, auth_path)
  <2> HIDE DEF c
  <2> QED BY <1>1, <1>3, <1>4, LeafIsDone
<1>6. CallTypes'  BY <1>0, <1>2 DEF TreeInv, CallTypes
<1>7. LanesClimb'
  <2>1. Adj(c, 0) = 0  BY <1>1, TreeEnds
  <2> QED BY <1>0, <1>2, <1>3, <1>5, <2>1 DEF LanesClimb
<1>8. OldStack' /\ Verifies'  BY <1>0, <1>2 DEF OldStack, Verifies
<1> QED BY <1>6, <1>7, <1>8 DEF TreeInv

(* Where the verifier begins. *)
LEMMA LeafOfPath ==
  ASSUME NEW c, IsCall(c), c.leaf # Treehash!NoLeaf
  PROVE  Treehash!Node(0, c.leaf + c.off) = At(c, 0, c.leaf \div 2 ^ 0) /\ 0 < c.T
<1>1. 0 <= c.T /\ 0 < c.T  BY CallNumbers
<1>2. c.leaf \in Nat  BY <1>1, LeafNumbers
<1>3. c.leaf \div 2 ^ 0 = c.leaf  BY <1>2, HalveNot
<1> QED BY <1>1, <1>2, <1>3, TreeEnds

LEMMA ReturnKeeps ==
  ASSUME TreeInv, builder # "treehash", Treehash!Return(TheCall.n)
  PROVE  TreeInv'
<1>0. UNCHANGED TheCall /\ UNCHANGED <<builder, tree_height, leaf_idx, idx_offset>>
  BY CallStays DEF Treehash!Return, Treehash!call
<1> DEFINE c == TheCall
<1>1. /\ IsCall(c) /\ c.off = idx_offset /\ c.T = tree_height /\ c.leaf = leaf_idx /\ c.n \in {1, 2, 4, 8}
      /\ DOMAIN current = 0 .. 7
  BY CallOf DEF TreeInv, CallTypes, IsCall
<1>2. /\ doing = "rise" /\ level = tree_height
      /\ top_node' = current[c.n - 1]
      /\ doing' = IF leaf_idx = Treehash!NoLeaf THEN "done" ELSE "check"
      /\ level' = 0 /\ idx' = leaf_idx
      /\ current' = [current EXCEPT ![0] = Treehash!Node(0, leaf_idx + idx_offset)]
      /\ UNCHANGED <<waiting, left_adj, prev_left_adj, heights, depth, auth_path>>
  BY DEF Treehash!Return
<1>3. OnRise(c, idx, c.T, current, waiting, auth_path) /\ depth = 0
  BY <1>1, <1>2 DEF TreeInv, LanesClimb
<1>4. current[c.n - 1] = Root(c) /\ PathDone(c, auth_path)
  <2> HIDE DEF c
  <2> QED BY <1>1, <1>3, ReturnsTheRoot
<1>5. CallTypes'
  <2>1. doing' \in {"done", "check"}  BY <1>2
  <2>2. DOMAIN current' = 0 .. 7  BY <1>1, <1>2
  <2> QED BY <1>0, <1>2, <2>1, <2>2 DEF TreeInv, CallTypes
<1>6. LanesClimb' /\ OldStack'
  <2>1. doing' # "leaf" /\ doing' # "rise"  BY <1>2
  <2> QED BY <1>0, <1>2, <1>3, <2>1 DEF LanesClimb, OldStack, TreeInv
<1>7. ASSUME leaf_idx # Treehash!NoLeaf PROVE current'[0] = At(c, 0, leaf_idx \div 2 ^ 0) /\ 0 < tree_height
  <2>1. current'[0] = Treehash!Node(0, leaf_idx + idx_offset)  BY <1>1, <1>2
  <2> HIDE DEF c
  <2> QED BY <1>1, <1>7, <2>1, LeafOfPath
<1>8. Verifies'
  <2>1. top_node' = Root(TheCall') /\ PathDone(TheCall', auth_path')  BY <1>0, <1>2, <1>4
  <2>2. doing' = "check" => /\ leaf_idx' # Treehash!NoLeaf /\ idx' = leaf_idx' /\ level' \in Nat /\ level' < tree_height'
                            /\ current'[0] = At(TheCall', level', leaf_idx' \div 2 ^ level')
    BY <1>0, <1>2, <1>7
  <2>3. doing' = "done" => leaf_idx' = Treehash!NoLeaf  BY <1>0, <1>2
  <2> QED BY <2>1, <2>2, <2>3 DEF Verifies
<1> QED BY <1>5, <1>6, <1>8 DEF TreeInv

(* compute_root *)
LEMMA VerifierKeeps ==
  ASSUME TreeInv, Treehash!compute_root
  PROVE  TreeInv'
<1>0. UNCHANGED TheCall /\ UNCHANGED <<builder, tree_height, leaf_idx, idx_offset>>
  BY CallStays DEF Treehash!compute_root, Treehash!call
<1> DEFINE c == TheCall
           u == idx \div 2 ^ level
           addr == Treehash!Node(level + 1, (u \div 2) + (idx_offset \div 2 ^ (level + 1)))
<1>1. /\ IsCall(c) /\ c.off = idx_offset /\ c.T = tree_height /\ c.leaf = leaf_idx /\ DOMAIN current = 0 .. 7
  BY CallOf DEF TreeInv, CallTypes
<1>2. /\ doing = "check" /\ level < tree_height
      /\ current' = [current EXCEPT ![0] = IF u % 2 = 1 THEN Treehash!thash(auth_path[level], current[0], addr)
                                           ELSE Treehash!thash(current[0], auth_path[level], addr)]
      /\ level' = level + 1
      /\ doing' = IF level + 1 = tree_height THEN "done" ELSE doing
      /\ UNCHANGED <<idx, waiting, left_adj, prev_left_adj, heights, depth, top_node, auth_path>>
  BY DEF Treehash!compute_root
<1>3. /\ top_node = Root(c) /\ PathDone(c, auth_path)
      /\ leaf_idx # Treehash!NoLeaf /\ idx = leaf_idx /\ level \in Nat
      /\ current[0] = At(c, level, c.leaf \div 2 ^ level)
  BY <1>1, <1>2 DEF TreeInv, Verifies
<1>4. current'[0] = At(c, level + 1, c.leaf \div 2 ^ (level + 1))
  <2>1. current'[0] = IF u % 2 = 1 THEN Treehash!thash(auth_path[level], current[0], addr)
                      ELSE Treehash!thash(current[0], auth_path[level], addr)
    <3> HIDE DEF u, addr
    <3> QED BY <1>1, <1>2
  <2>2. LET k == c.leaf \div 2 ^ level
            node == At(c, level, k)
            onto == Treehash!Node(level + 1, (k \div 2) + (c.off \div 2 ^ (level + 1)))
        IN  (IF k % 2 = 1 THEN Treehash!thash(auth_path[level], node, onto) ELSE Treehash!thash(node, auth_path[level], onto))
              = At(c, level + 1, c.leaf \div 2 ^ (level + 1))
    <3> HIDE DEF c
    <3>1. c.leaf # Treehash!NoLeaf /\ level < c.T  BY <1>1, <1>2, <1>3
    <3> QED BY <1>1, <1>3, <3>1, VerifierClimbs
  <2> QED BY <1>1, <1>3, <2>1, <2>2
<1>5. CallTypes'
  <2>1. doing' \in {"done", "check"}  BY <1>2
  <2>2. DOMAIN current' = 0 .. 7
    <3> HIDE DEF u, addr
    <3> QED BY <1>1, <1>2
  <2> QED BY <1>0, <1>2, <2>1, <2>2 DEF TreeInv, CallTypes
<1>6. LanesClimb' /\ OldStack'
  <2>1. doing' # "leaf" /\ doing' # "rise"  BY <1>2
  <2> QED BY <1>0, <1>2, <2>1 DEF LanesClimb, OldStack, TreeInv
<1>7. Verifies'
  <2>1. top_node' = Root(TheCall') /\ PathDone(TheCall', auth_path')  BY <1>0, <1>2, <1>3
  <2>2. CASE level + 1 = tree_height
    <3>1. c.leaf \div 2 ^ c.T = 0
      <4> HIDE DEF c
      <4>1. c.T <= c.T /\ c.T \in Nat /\ c.T - c.T = 0 /\ 2 ^ 0 = 1  BY <1>1, CallNumbers
      <4>2. c.leaf \div 2 ^ c.T \in Nat /\ c.leaf \div 2 ^ c.T < 2 ^ (c.T - c.T)
        <5>1. c.leaf # Treehash!NoLeaf  BY <1>1, <1>3
        <5> QED BY <1>1, <4>1, <5>1, LeafNumbers
      <4>3. c.leaf \div 2 ^ c.T < 1  BY <4>1, <4>2
      <4> QED BY <4>2, <4>3
    <3>2. current'[0] = Root(c)
      <4> HIDE DEF c
      <4> QED BY <1>1, <1>4, <2>2, <3>1, TreeEnds
    <3>3. doing' = "done"  BY <1>2, <2>2
    <3> QED BY <1>0, <2>1, <3>2, <3>3 DEF Verifies
  <2>3. CASE level + 1 # tree_height
    <3>1. doing' = "check" /\ level' = level + 1 /\ level + 1 \in Nat /\ level + 1 < tree_height
      <4> HIDE DEF c
      <4>1. c.T \in Nat  BY <1>1, CallNumbers
      <4> QED BY <1>1, <1>2, <1>3, <2>3, <4>1
    <3>2. current'[0] = At(TheCall', level', leaf_idx' \div 2 ^ level')  BY <1>0, <1>1, <1>4, <3>1
    <3> QED BY <1>0, <1>2, <1>3, <2>1, <3>1, <3>2 DEF Verifies
  <2> QED BY <2>2, <2>3
<1> QED BY <1>5, <1>6, <1>7 DEF TreeInv

(* One level of one node. *)
LEMMA Level1Keeps ==
  ASSUME TreeInv, builder = "x1", Treehash!Level1
  PROVE  TreeInv'
<1>0. UNCHANGED TheCall /\ UNCHANGED <<builder, tree_height, leaf_idx, idx_offset>>
  BY CallStays DEF Treehash!Level1, Treehash!call
<1> DEFINE c == TheCall
           q == idx \div 2 ^ level
           L == leaf_idx \div 2 ^ level
           Waiting == q % 2 = 0 /\ idx < 2 ^ tree_height - 1
<1>1. /\ IsCall(c) /\ c.off = idx_offset /\ c.T = tree_height /\ c.leaf = leaf_idx /\ c.n = 1
      /\ MaxTreeHeight \in Nat /\ tree_height <= MaxTreeHeight
      /\ DOMAIN current = 0 .. 7 /\ DOMAIN auth_path = 0 .. MaxTreeHeight - 1
      /\ DOMAIN waiting = 0 .. MaxTreeHeight /\ \A k \in 0 .. MaxTreeHeight : DOMAIN waiting[k] = 0 .. 7
  BY CallOf DEF TreeInv, CallTypes
<1>2. /\ doing = "rise" /\ level < tree_height
      /\ auth_path' = IF q \div 2 = L \div 2 /\ q # L THEN [auth_path EXCEPT ![level] = current[0]] ELSE auth_path
      /\ UNCHANGED <<left_adj, prev_left_adj, heights, depth, top_node>>
  BY DEF Treehash!Level1, Treehash!internal_idx, Treehash!internal_leaf
<1>3. /\ OnRise(c, idx, level, current, waiting, auth_path) /\ left_adj = Adj(c, level)
      /\ (level <= Low(c) => prev_left_adj = 0) /\ depth = 0
  BY <1>1, <1>2 DEF TreeInv, LanesClimb
<1>4. Low(c) = c.T /\ c.T \in Nat /\ level \in Nat /\ idx \in Nat /\ idx < 2 ^ c.T
  <2> HIDE DEF c
  <2> QED BY <1>1, <1>3, OneLane, CallNumbers DEF OnRise
<1>5. Adj(c, level) = 0 /\ Adj(c, level + 1) = 0  BY <1>1, <1>2, <1>4 DEF Adj
<1>6. left_adj = 0 /\ prev_left_adj = 0  BY <1>1, <1>2, <1>3, <1>4, <1>5
<1>7. PathStep(c, idx, level, auth_path, auth_path')
  <2>1. level \in 0 .. MaxTreeHeight - 1 /\ 0 .. c.T - 1 \subseteq 0 .. MaxTreeHeight - 1
    BY <1>1, <1>2, <1>4
  <2>2. auth_path' = IF /\ (idx \div 2 ^ level) \div 2 = (c.leaf \div 2 ^ level) \div 2
                        /\ idx \div 2 ^ level # c.leaf \div 2 ^ level
                     THEN [auth_path EXCEPT ![level] = current[0]] ELSE auth_path
    BY <1>1, <1>2, Zenon
  <2> HIDE DEF c
  <2>3. level < c.T  BY <1>1, <1>2
  <2> QED BY <1>1, <1>3, <2>1, <2>2, <2>3, CodePath
<1>8. DOMAIN auth_path' = 0 .. MaxTreeHeight - 1
  <2> HIDE DEF q, L
  <2> QED BY <1>1, <1>2
<1>9. CASE Waiting
  <2>1. /\ waiting' = [waiting EXCEPT ![level] = current] /\ idx' = idx + 1 /\ doing' = "leaf"
        /\ UNCHANGED <<level, current>>
    BY <1>9 DEF Treehash!Level1, Treehash!Wait, Treehash!internal_idx
  <2>2. waiting'[level] = current /\ \A t \in Nat : t < Low(c) /\ t # level => waiting'[t] = waiting[t]
    <3>1. level \in DOMAIN waiting /\ \A t \in Nat : t < Low(c) => t \in DOMAIN waiting  BY <1>1, <1>2, <1>4
    <3> QED BY <2>1, <3>1
  <2>3. OnLeaf(c, idx + 1, waiting', auth_path')
    <3>1. (idx \div 2 ^ level) % 2 = 0 /\ idx < 2 ^ Low(c) - 1  BY <1>1, <1>4, <1>9
    <3> HIDE DEF c
    <3>2. level < c.T  BY <1>1, <1>2
    <3> QED BY <1>1, <1>3, <1>7, <2>2, <3>1, <3>2, LevelWaits
  <2>4. CallTypes'
    <3>1. DOMAIN waiting' = 0 .. MaxTreeHeight /\ \A k \in 0 .. MaxTreeHeight : DOMAIN waiting'[k] = 0 .. 7
      BY <1>1, <2>1
    <3> QED BY <1>0, <1>2, <1>8, <2>1, <3>1 DEF TreeInv, CallTypes
  <2>5. LanesClimb'  BY <1>0, <1>2, <1>3, <1>6, <2>1, <2>3 DEF LanesClimb
  <2>6. OldStack' /\ Verifies'  BY <1>0, <1>1, <2>1 DEF OldStack, Verifies
  <2> QED BY <2>4, <2>5, <2>6 DEF TreeInv
<1>10. CASE ~ Waiting
  <2>1. /\ current' = [current EXCEPT ![0] = Treehash!thash(waiting[level][0], current[0],
                          Treehash!Node(level + 1, (q \div 2) + (idx_offset \div 2 ^ (level + 1))))]
        /\ level' = level + 1 /\ UNCHANGED <<idx, doing, waiting>>
    BY <1>10 DEF Treehash!Level1, Treehash!internal_idx
  <2>2. q % 2 = 1 \/ idx + 1 = 2 ^ Low(c)
    <3>1. q \in Nat  BY <1>4, HalveOnce
    <3> DEFINE z == 2 ^ tree_height
    <3>2. z \in Nat /\ idx < z  BY <1>1, <1>4, PowerDoubles
    <3>3. ~ (q % 2 = 0 /\ idx < z - 1) /\ 2 ^ Low(c) = z  BY <1>1, <1>4, <1>10
    <3> HIDE DEF z, q
    <3> QED BY <1>4, <3>1, <3>2, <3>3
  <2>3. Treehash!thash(waiting[level][0], current[0],
           Treehash!Node(level + 1, ((idx \div 2 ^ level) \div 2) + (c.off \div 2 ^ (level + 1))))
        = At(c, level + 1, idx \div 2 ^ (level + 1))
    <3> HIDE DEF c
    <3>1. level < c.T  BY <1>1, <1>2
    <3> QED BY <1>1, <1>3, <2>2, <3>1, OneJoins DEF OnRise
  <2>4. current'[0] = At(c, level + 1, idx \div 2 ^ (level + 1))
    <3>1. current'[0] = Treehash!thash(waiting[level][0], current[0],
                          Treehash!Node(level + 1, (q \div 2) + (idx_offset \div 2 ^ (level + 1))))
      <4> HIDE DEF q
      <4> QED BY <1>1, <2>1
    <3> QED BY <1>1, <2>3, <3>1
  <2>5. \A l \in Adj(c, level + 1) .. c.n - 1 :
          current'[l] = At(c, level + 1, (c.n * (idx \div 2 ^ (level + 1))) + (l - Adj(c, level + 1)))
    <3> DEFINE o == idx \div 2 ^ (level + 1)
    <3>1. o \in Nat
      <4>1. level + 1 \in Nat  BY <1>4
      <4> QED BY <1>4, <4>1, HalveOnce
    <3> HIDE DEF o
    <3>2. current'[0] = At(c, level + 1, o)  BY <2>4 DEF o
    <3>3. \A l \in 0 .. c.n - 1 : l = 0 /\ (c.n * o) + (l - 0) = o  BY <1>1, <3>1
    <3>4. \A l \in 0 .. c.n - 1 : current'[l] = At(c, level + 1, (c.n * o) + (l - 0))  BY <3>2, <3>3
    <3> QED BY <1>5, <3>4 DEF o
  <2>6. OnRise(c, idx, level + 1, current', waiting, auth_path')
    <3> HIDE DEF c
    <3>1. level < c.T  BY <1>1, <1>2
    <3> QED BY <1>1, <1>3, <1>7, <2>2, <2>5, <3>1, LevelRises
  <2>7. CallTypes'
    <3>1. DOMAIN current' = 0 .. 7
      <4> HIDE DEF q
      <4> QED BY <1>1, <2>1
    <3> QED BY <1>0, <1>2, <1>8, <2>1, <3>1 DEF TreeInv, CallTypes
  <2>8. LanesClimb'
    <3>1. left_adj' = Adj(TheCall', level') /\ prev_left_adj' = 0  BY <1>0, <1>2, <1>5, <1>6, <2>1
    <3>2. OnRise(TheCall', idx', level', current', waiting', auth_path')  BY <1>0, <2>1, <2>6
    <3>3. doing' = "rise" /\ depth' = 0  BY <1>2, <1>3, <2>1
    <3> QED BY <3>1, <3>2, <3>3 DEF LanesClimb
  <2>9. OldStack' /\ Verifies'  BY <1>0, <1>1, <1>2, <2>1 DEF OldStack, Verifies
  <2> QED BY <2>7, <2>8, <2>9 DEF TreeInv
<1> QED BY <1>9, <1>10

(* One level of two, four or eight nodes. *)
LEMMA LevelKeeps ==
  ASSUME TreeInv, builder \in {"x2", "x4", "x8"}, NEW n, NEW log, n = TheCall.n, log = TheCall.g, Treehash!Level(n, log)
  PROVE  TreeInv'
<1>0. UNCHANGED TheCall /\ UNCHANGED <<builder, tree_height, leaf_idx, idx_offset>>
  BY CallStays DEF Treehash!Level, Treehash!call
<1> DEFINE c == TheCall
           q == idx \div 2 ^ level
           L == leaf_idx \div 2 ^ level
           Waiting == q % 2 = 0 /\ idx < 2 ^ (tree_height - log) - 1
<1>1. /\ IsCall(c) /\ c.off = idx_offset /\ c.T = tree_height /\ c.leaf = leaf_idx /\ c.n = n /\ c.g = log
      /\ n \in {2, 4, 8} /\ builder # "treehash"
      /\ MaxTreeHeight \in Nat /\ tree_height <= MaxTreeHeight
      /\ DOMAIN current = 0 .. 7 /\ DOMAIN auth_path = 0 .. MaxTreeHeight - 1
      /\ DOMAIN waiting = 0 .. MaxTreeHeight /\ \A k \in 0 .. MaxTreeHeight : DOMAIN waiting[k] = 0 .. 7
  BY CallOf DEF TreeInv, CallTypes
<1>2. /\ doing = "rise" /\ level < tree_height
      /\ IF level >= tree_height - log
         THEN prev_left_adj' = left_adj /\ left_adj' = n - 2 ^ (tree_height - level - 1)
         ELSE UNCHANGED <<left_adj, prev_left_adj>>
      /\ auth_path' = IF q = L \div n
                      THEN [auth_path EXCEPT ![level] =
                              current[(IF L % 2 = 0 THEN (L % n) + 1 ELSE (L % n) - 1) + prev_left_adj']]
                      ELSE auth_path
      /\ UNCHANGED <<heights, depth, top_node>>
  BY DEF Treehash!Level, Treehash!internal_idx, Treehash!internal_leaf, Treehash!Neighbour
<1>3. /\ OnRise(c, idx, level, current, waiting, auth_path) /\ left_adj = Adj(c, level)
      /\ (level <= Low(c) => prev_left_adj = 0) /\ depth = 0
  BY <1>1, <1>2 DEF TreeInv, LanesClimb
<1>4. /\ Low(c) = c.T - log /\ Low(c) \in Nat /\ c.T \in Nat /\ level \in Nat /\ idx \in Nat /\ idx < 2 ^ Low(c)
      /\ Reaches(c, level, idx) /\ Climbed(c, level, q, current) /\ Waits(c, idx, waiting)
  <2> HIDE DEF c
  <2> QED BY <1>1, <1>3, CallNumbers DEF OnRise, Low
<1>5. prev_left_adj' = Adj(c, level) /\ left_adj' = Adj(c, level + 1) /\ (level <= Low(c) => Adj(c, level) = 0)
  <2> HIDE DEF c
  <2>1. level <= Low(c) => Adj(c, level) = 0  BY DEF Adj
  <2>2. CASE level >= Low(c)
    <3>1. level < c.T  BY <1>1, <1>2
    <3>2. PICK e \in Nat \ {0} : e = 2 ^ (c.T - level - 1) /\ Adj(c, level + 1) = c.n - e
      <4>1. Low(c) <= level /\ level \in Nat /\ IsCall(c)  BY <1>1, <1>4, <2>2
      <4>2. LastLanes(c, level)  BY <3>1, <4>1, AdjAtTop
      <4> QED BY <4>2 DEF LastLanes
    <3>3. prev_left_adj' = left_adj /\ left_adj' = n - 2 ^ (tree_height - level - 1)  BY <1>1, <1>2, <1>4, <2>2
    <3> QED BY <1>1, <1>3, <2>1, <3>2, <3>3
  <2>3. CASE ~ (level >= Low(c))
    <3>1. level + 1 <= Low(c) /\ level <= Low(c)  BY <1>4, <2>3
    <3>2. Adj(c, level + 1) = 0 /\ Adj(c, level) = 0  BY <3>1 DEF Adj
    <3>3. UNCHANGED <<left_adj, prev_left_adj>>  BY <1>1, <1>2, <1>4, <2>3, SMTT(60)
    <3> QED BY <1>3, <2>1, <3>1, <3>2, <3>3
  <2> QED BY <2>2, <2>3
<1>6. PathStep(c, idx, level, auth_path, auth_path')
  <2>1. level \in 0 .. MaxTreeHeight - 1 /\ 0 .. c.T - 1 \subseteq 0 .. MaxTreeHeight - 1 /\ c.n # 1
    <3> HIDE DEF c, q, L
    <3>1. level < tree_height /\ c.T = tree_height /\ tree_height <= MaxTreeHeight /\ c.n = n /\ n # 1
      BY <1>1, <1>2
    <3>2. MaxTreeHeight \in Nat /\ level \in Nat /\ c.T \in Nat  BY <1>1, <1>4
    <3> QED BY <3>1, <3>2
  <2> DEFINE node == current[(IF (c.leaf \div 2 ^ level) % 2 = 0 THEN ((c.leaf \div 2 ^ level) % c.n) + 1
                              ELSE ((c.leaf \div 2 ^ level) % c.n) - 1) + Adj(c, level)]
  <2>2. auth_path' = IF idx \div 2 ^ level = (c.leaf \div 2 ^ level) \div c.n
                     THEN [auth_path EXCEPT ![level] = node] ELSE auth_path
    BY <1>1, <1>2, <1>5, Zenon
  <2>3. node = current[(IF (c.leaf \div 2 ^ level) % 2 = 0 THEN ((c.leaf \div 2 ^ level) % c.n) + 1
                              ELSE ((c.leaf \div 2 ^ level) % c.n) - 1) + Adj(c, level)]
    OBVIOUS
  <2> HIDE DEF c, node
  <2>4. level < c.T  BY <1>1, <1>2
  <2> QED BY <1>1, <1>3, <2>1, <2>2, <2>3, <2>4, CodePath
<1>7. DOMAIN auth_path' = 0 .. MaxTreeHeight - 1
  <2> HIDE DEF q, L
  <2> QED BY <1>1, <1>2
<1>8. CASE Waiting
  <2>1. /\ waiting' = [waiting EXCEPT ![level] = current] /\ idx' = idx + 1 /\ doing' = "leaf"
        /\ UNCHANGED <<level, current>>
    BY <1>8 DEF Treehash!Level, Treehash!Wait, Treehash!internal_idx
  <2>2. waiting'[level] = current /\ \A t \in Nat : t < Low(c) /\ t # level => waiting'[t] = waiting[t]
    <3>1. Low(c) <= c.T
      <4> HIDE DEF c
      <4> QED BY <1>1, CallNumbers
    <3>2. level \in DOMAIN waiting /\ \A t \in Nat : t < Low(c) => t \in DOMAIN waiting
      <4> HIDE DEF c
      <4> QED BY <1>1, <1>2, <1>4, <3>1
    <3> HIDE DEF c
    <3> QED BY <2>1, <3>2
  <2>3. OnLeaf(c, idx + 1, waiting', auth_path') /\ level < Low(c)
    <3>1. (idx \div 2 ^ level) % 2 = 0 /\ idx < 2 ^ Low(c) - 1  BY <1>1, <1>4, <1>8
    <3> HIDE DEF c
    <3>2. level < c.T  BY <1>1, <1>2
    <3> QED BY <1>1, <1>3, <1>6, <2>2, <3>1, <3>2, LevelWaits
  <2>4. CallTypes'
    <3>1. DOMAIN waiting' = 0 .. MaxTreeHeight /\ \A k \in 0 .. MaxTreeHeight : DOMAIN waiting'[k] = 0 .. 7
      BY <1>1, <2>1
    <3> QED BY <1>0, <1>2, <1>7, <2>1, <3>1 DEF TreeInv, CallTypes
  <2>5. prev_left_adj' = 0 /\ left_adj' = 0
    <3> HIDE DEF c
    <3>1. level + 1 <= Low(c) /\ level <= Low(c)  BY <1>4, <2>3
    <3> QED BY <1>5, <3>1 DEF Adj
  <2>6. LanesClimb'  BY <1>0, <1>2, <1>3, <2>1, <2>3, <2>5 DEF LanesClimb
  <2>7. OldStack' /\ Verifies'
    <3>1. builder' # "treehash" /\ doing' = "leaf"  BY <1>0, <1>1, <2>1, SMTT(60)
    <3> QED BY <3>1 DEF OldStack, Verifies
  <2> QED BY <2>4, <2>6, <2>7 DEF TreeInv
<1>9. CASE ~ Waiting
  <2>1. /\ current' = [lane \in 0 .. 7 |->
             LET from == IF lane < n \div 2 THEN waiting[level] ELSE current
                 first == IF lane < n \div 2 THEN 2 * lane ELSE (2 * lane) - n
                 even == q - (q % 2)
             IN  IF lane >= n THEN Treehash!Garbage
                 ELSE Treehash!thash(from[first], from[first + 1],
                        Treehash!Node(level + 1, ((n \div 2) * even)
                                        + ((lane - left_adj') + (idx_offset \div 2 ^ (level + 1)))))]
        /\ level' = level + 1 /\ UNCHANGED <<idx, doing, waiting>>
    BY <1>9 DEF Treehash!Level, Treehash!internal_idx
  <2>2. q % 2 = 1 \/ idx + 1 = 2 ^ Low(c)
    <3>1. q \in Nat  BY <1>4, HalveOnce
    <3> DEFINE z == 2 ^ (tree_height - log)
    <3>2. 2 ^ Low(c) = z /\ z \in Nat /\ idx < z  BY <1>1, <1>4, PowerDoubles
    <3>3. ~ (q % 2 = 0 /\ idx < z - 1)  BY <1>9
    <3> HIDE DEF z, q, c
    <3> QED BY <1>4, <3>1, <3>2, <3>3
  <2>3. ASSUME NEW l \in Adj(c, level + 1) .. c.n - 1
        PROVE  current'[l] = At(c, level + 1, (c.n * (idx \div 2 ^ (level + 1))) + (l - Adj(c, level + 1)))
    <3> DEFINE from == IF l < c.n \div 2 THEN waiting[level] ELSE current
               first == IF l < c.n \div 2 THEN 2 * l ELSE (2 * l) - c.n
    <3>1. level < c.T /\ c.n # 1  BY <1>1, <1>2
    <3>2. from = IF l < c.n \div 2 THEN waiting[level] ELSE current  OBVIOUS
    <3>3. first = IF l < c.n \div 2 THEN 2 * l ELSE (2 * l) - c.n  OBVIOUS
    <3>4. Adj(c, level + 1) \in Nat
      <4> HIDE DEF c
      <4>1. CASE level >= Low(c)
        <5>0. Low(c) <= level /\ level \in Nat /\ IsCall(c) /\ level < c.T  BY <1>1, <1>4, <3>1, <4>1
        <5>3. LastLanes(c, level)  BY <5>0, AdjAtTop
        <5>1. PICK e \in Nat \ {0} : 2 * e <= c.n /\ Adj(c, level + 1) = c.n - e  BY <5>3 DEF LastLanes
        <5>2. c.n \in Nat  BY <1>1
        <5> QED BY <5>1, <5>2
      <4>2. CASE ~ (level >= Low(c))
        <5>1. level + 1 <= Low(c)  BY <1>4, <4>2
        <5> QED BY <5>1 DEF Adj
      <4> QED BY <4>1, <4>2
    <3>5. l \in 0 .. 7 /\ ~ (l >= n)
      <4> DEFINE a == Adj(c, level + 1)
      <4>1. l \in a .. c.n - 1  OBVIOUS
      <4>2. a \in Nat /\ n \in {2, 4, 8} /\ c.n = n  BY <1>1, <3>4, SMTT(60)
      <4> HIDE DEF a, c
      <4> QED BY <4>1, <4>2
    <3>6. current'[l] = Treehash!thash(from[first], from[first + 1],
             Treehash!Node(level + 1, ((c.n \div 2) * (q - (q % 2)))
                                        + ((l - Adj(c, level + 1)) + (c.off \div 2 ^ (level + 1)))))
      BY <1>1, <1>5, <2>1, <3>5
    <3> HIDE DEF from, first, c
    <3>7. Treehash!thash(from[first], from[first + 1],
             Treehash!Node(level + 1, ((c.n \div 2) * ((idx \div 2 ^ level) - ((idx \div 2 ^ level) % 2)))
                                        + ((l - Adj(c, level + 1)) + (c.off \div 2 ^ (level + 1)))))
          = At(c, level + 1, (c.n * (idx \div 2 ^ (level + 1))) + (l - Adj(c, level + 1)))
      <4>1. /\ IsCall(c) /\ level \in Nat /\ idx \in Nat /\ idx < 2 ^ Low(c)
            /\ Reaches(c, level, idx) /\ Climbed(c, level, idx \div 2 ^ level, current) /\ Waits(c, idx, waiting)
        BY <1>1, <1>4
      <4>2. (idx \div 2 ^ level) % 2 = 1 \/ idx + 1 = 2 ^ Low(c)  BY <2>2
      <4>3. l \in Adj(c, level + 1) .. c.n - 1  OBVIOUS
      <4> HIDE DEF q
      <4>4. LanesMeet(c, level, idx, current, waiting, l, from, first)
        BY <3>1, <3>2, <3>3, <4>1, <4>2, <4>3, Zenon DEF LanesMeet
      <4> QED BY <4>4, LaneJoins
    <3> QED BY <3>6, <3>7
  <2>4. OnRise(c, idx, level + 1, current', waiting, auth_path')
    <3>1. level < c.T /\ IsCall(c) /\ OnRise(c, idx, level, current, waiting, auth_path)  BY <1>1, <1>2, <1>3
    <3>2. (idx \div 2 ^ level) % 2 = 1 \/ idx + 1 = 2 ^ Low(c)
      <4> HIDE DEF c, L
      <4> QED BY <2>2, SMTT(60)
    <3> HIDE DEF c, q, L
    <3> QED BY <1>6, <2>3, <3>1, <3>2, LevelRises
  <2>5. CallTypes'
    <3>1. DOMAIN current' = 0 .. 7  BY <2>1
    <3> QED BY <1>0, <1>2, <1>7, <2>1, <3>1 DEF TreeInv, CallTypes
  <2>6. LanesClimb'
    <3>1. left_adj' = Adj(TheCall', level')  BY <1>0, <1>5, <2>1
    <3>2. level' <= Low(TheCall') => prev_left_adj' = 0
      <4>1. level + 1 <= Low(c) => level <= Low(c)
        <5> DEFINE b == Low(c)
        <5>1. b \in Nat /\ level \in Nat  BY <1>4
        <5> HIDE DEF b
        <5>2. level + 1 <= b => level <= b  BY <5>1
        <5> QED BY <5>2 DEF b
      <4> QED BY <1>0, <1>5, <2>1, <4>1
    <3>3. OnRise(TheCall', idx', level', current', waiting', auth_path')
      <4>1. TheCall' = c /\ idx' = idx /\ level' = level + 1 /\ waiting' = waiting  BY <1>0, <2>1
      <4> HIDE DEF c
      <4> QED BY <2>4, <4>1
    <3>4. doing' = "rise" /\ depth' = 0
      <4>1. doing = "rise" /\ UNCHANGED <<doing, depth>> /\ depth = 0  BY <1>2, <1>3, <2>1, Zenon
      <4> QED BY <4>1, Zenon
    <3> QED BY <3>1, <3>2, <3>3, <3>4 DEF LanesClimb
  <2>7. OldStack' /\ Verifies'
    <3>1. builder' # "treehash" /\ doing' = "rise"  BY <1>0, <1>1, <1>2, <2>1
    <3> QED BY <3>1 DEF OldStack, Verifies
  <2> QED BY <2>5, <2>6, <2>7 DEF TreeInv
<1> QED BY <1>8, <1>9

(***************************************************************************)
(* The older version.                                                      *)
(***************************************************************************)
LEMMA NoLeafIsLarge == Treehash!NoLeaf \in Nat /\ 2 ^ 27 \in Nat /\ Treehash!NoLeaf + 1 = 8 * 2 ^ 27
<1>1. 27 \in Nat /\ 28 \in Nat /\ 29 \in Nat /\ 27 + 1 = 28 /\ 28 + 1 = 29 /\ 29 + 1 = 30  OBVIOUS
<1>2. 2 ^ 28 = 2 * 2 ^ 27 /\ 2 ^ 29 = 2 * 2 ^ 28 /\ 2 ^ 30 = 2 * 2 ^ 29 /\ 2 ^ 27 \in Nat \ {0}
  BY <1>1, PowerDoubles
<1>3. Treehash!NoLeaf = 2 ^ 30 - 1  BY DEF Treehash!NoLeaf
<1> DEFINE b == 2 ^ 27
           z == 2 ^ 30
<1>4. b \in Nat \ {0} /\ z = 2 * (2 * (2 * b)) /\ Treehash!NoLeaf = z - 1  BY <1>2, <1>3
<1> HIDE DEF b, z
<1>5. Treehash!NoLeaf \in Nat /\ Treehash!NoLeaf + 1 = 8 * b /\ b \in Nat  BY <1>4
<1> QED BY <1>5 DEF b

(* The root has no neighbour, and with no leaf no path is looked for. *)
LEMMA NoNeighbourOfTheRoot ==
  ASSUME NEW c, IsCall(c)
  PROVE  ~ ((c.leaf \div 2 ^ c.T) \div 2 = 0 /\ c.leaf \div 2 ^ c.T # 0)
<1>1. c.T \in Nat /\ c.T <= 27  BY CallNumbers
<1>2. CASE c.leaf # Treehash!NoLeaf
  <2>1. c.T <= c.T /\ c.T - c.T = 0 /\ 2 ^ 0 = 1  BY <1>1
  <2>2. c.leaf \div 2 ^ c.T \in Nat /\ c.leaf \div 2 ^ c.T < 2 ^ (c.T - c.T)  BY <1>1, <1>2, <2>1, LeafNumbers
  <2>3. c.leaf \div 2 ^ c.T < 1  BY <2>1, <2>2
  <2> QED BY <2>2, <2>3
<1>3. CASE c.leaf = Treehash!NoLeaf
  <2> DEFINE ones == Treehash!NoLeaf
             y == 2 ^ c.T
             b == 2 ^ 27
             a == ones \div y
  <2>1. ones \in Nat /\ b \in Nat /\ ones + 1 = 8 * b /\ y \in Nat \ {0}  BY <1>1, NoLeafIsLarge, PowerDoubles
  <2>2. y <= b
    <3>1. 27 \in Nat  OBVIOUS
    <3>2. c.T < 27 => 2 ^ c.T < 2 ^ 27  BY <1>1, <3>1, PowerLess
    <3>3. CASE c.T = 27  BY <2>1, <3>3
    <3>4. CASE c.T # 27
      <4>1. c.T < 27  BY <1>1, <3>4
      <4>2. y < b  BY <3>2, <4>1
      <4> HIDE DEF y, b
      <4> QED BY <2>1, <4>2
    <3> QED BY <3>3, <3>4
  <2>3. a \in Nat /\ ones = y * a + (ones % y) /\ ones % y \in 0 .. y - 1  BY <2>1, QuotientRemainder, RemainderInRange
  <2> DEFINE r == ones % y
  <2>4. a \in Nat /\ ones = y * a + r /\ r \in Nat /\ r < y  BY <2>1, <2>3
  <2> HIDE DEF ones, y, b, a, r
  <2>5. a \div 2 # 0
    <3> SUFFICES ASSUME a \div 2 = 0 PROVE FALSE  OBVIOUS
    <3>1. a = 0 \/ a = 1  BY <2>4
    <3>2. y * a <= y  BY <2>1, <3>1
    <3>3. y * a \in Nat  BY <2>1, <2>4
    <3>4. b # 0  BY <2>1, <2>2
    <3> QED BY <2>1, <2>2, <2>4, <3>2, <3>3, <3>4
  <2> QED BY <1>3, <2>5 DEF ones, y, a
<1> QED BY <1>2, <1>3

(* What treehash puts on the path when it has done a subtree. *)
SubtreeOnPath(c, s, x, path, D, node, new) ==
  /\ IsCall(c) /\ c.n = 1 /\ s \in Nat /\ s <= c.T /\ x \in Nat /\ x < 2 ^ Low(c) /\ Reaches(c, s, x)
  /\ PathUpTo(c, x, s, path) /\ DOMAIN path = D /\ 0 .. c.T - 1 \subseteq D
  /\ node = At(c, s, x \div 2 ^ s)
  /\ new = IF /\ (c.leaf \div 2 ^ s) \div 2 = (x \div 2 ^ s) \div 2
              /\ c.leaf \div 2 ^ s # x \div 2 ^ s
           THEN [path EXCEPT ![s] = node] ELSE path
LEMMA OldPath ==
  ASSUME NEW c, NEW s, NEW x, NEW path, NEW D, NEW node, NEW new, SubtreeOnPath(c, s, x, path, D, node, new)
  PROVE  PathUpTo(c, x, s + 1, new) /\ DOMAIN new = D
<1> USE DEF SubtreeOnPath
<1>0. c.T \in Nat \ {0} /\ Low(c) = c.T /\ Low(c) \in Nat  BY CallNumbers, OneLane
<1>1. CASE s < c.T
  <2>1. (x \div 2 ^ s) \div 2 = (c.leaf \div 2 ^ s) \div 2 /\ x \div 2 ^ s # c.leaf \div 2 ^ s
          <=> c.leaf # Treehash!NoLeaf /\ x \div 2 ^ s = Which(c, s)
    BY <1>1, PathTaken
  <2> DEFINE Found == c.leaf # Treehash!NoLeaf /\ x \div 2 ^ s = Which(c, s)
  <2>2. (c.leaf \div 2 ^ s) \div 2 = (x \div 2 ^ s) \div 2 /\ c.leaf \div 2 ^ s # x \div 2 ^ s <=> Found
    BY <2>1, Zenon
  <2>3. new = IF Found THEN [path EXCEPT ![s] = node] ELSE path
    <3> HIDE DEF Found
    <3> QED BY <2>2, Zenon
  <2>4. s \in D  BY <1>0, <1>1
  <2>5. Found => node = At(c, s, Sibling(c.leaf \div 2 ^ s))  BY DEF Which
  <2>6. IF Found THEN PathOf(c, s, new) ELSE new[s] = path[s]
    <3>1. CASE Found
      <4> HIDE DEF Found
      <4>1. new[s] = node  BY <2>3, <2>4, <3>1
      <4> QED BY <2>5, <3>1, <4>1 DEF PathOf
    <3>2. CASE ~ Found
      <4> HIDE DEF Found
      <4> QED BY <2>3, <3>2
    <3> QED BY <3>1, <3>2
  <2>7. (\A t \in 0 .. c.T - 1 : t # s => new[t] = path[t]) /\ DOMAIN new = D
    <3> HIDE DEF Found
    <3> QED BY <2>3, <2>4
  <2>8. PathUpTo(c, x, s + 1, new)
    <3>1. IF c.leaf # Treehash!NoLeaf /\ x \div 2 ^ s = Which(c, s) THEN PathOf(c, s, new) ELSE new[s] = path[s]
      BY <2>6
    <3> HIDE DEF Found
    <3> QED BY <1>1, <2>7, <3>1, PathLevel
  <2> QED BY <2>7, <2>8
<1>2. CASE s = c.T
  <2>1. x \div 2 ^ c.T = 0  BY <1>0, <1>2, ReachesIs
  <2>2. ~ ((c.leaf \div 2 ^ c.T) \div 2 = 0 /\ c.leaf \div 2 ^ c.T # 0)  BY NoNeighbourOfTheRoot
  <2>3. 0 \div 2 = 0  OBVIOUS
  <2>4. new = path  BY <1>2, <2>1, <2>2, <2>3, Zenon
  <2>5. \A t \in 0 .. c.T - 1 : t < s /\ t < s + 1  BY <1>0, <1>2
  <2> QED BY <2>4, <2>5 DEF PathUpTo
<1> QED BY <1>0, <1>1, <1>2

LEMMA PushKeeps ==
  ASSUME TreeInv, builder = "treehash", Treehash!Push
  PROVE  TreeInv'
<1>0. UNCHANGED TheCall /\ UNCHANGED <<builder, tree_height, leaf_idx, idx_offset>>
  BY CallStays DEF Treehash!Push, Treehash!call
<1> DEFINE c == TheCall
<1>1. /\ IsCall(c) /\ c.off = idx_offset /\ c.T = tree_height /\ c.leaf = leaf_idx /\ c.n = 1
      /\ MaxTreeHeight \in Nat /\ tree_height <= MaxTreeHeight
      /\ DOMAIN heights = 0 .. MaxTreeHeight /\ DOMAIN auth_path = 0 .. MaxTreeHeight - 1
      /\ DOMAIN waiting = 0 .. MaxTreeHeight /\ \A k \in 0 .. MaxTreeHeight : DOMAIN waiting[k] = 0 .. 7
  BY CallOf DEF TreeInv, CallTypes
<1>2. /\ doing = "leaf" /\ doing' = "rise"
      /\ waiting' = [waiting EXCEPT ![depth][0] = Treehash!Node(0, idx + idx_offset)]
      /\ heights' = [heights EXCEPT ![depth] = 0] /\ depth' = depth + 1
      /\ auth_path' = IF leaf_idx \div 2 = idx \div 2 /\ leaf_idx # idx
                      THEN [auth_path EXCEPT ![0] = waiting'[depth][0]] ELSE auth_path
      /\ UNCHANGED <<idx, level, current, left_adj, prev_left_adj, top_node>>
  BY DEF Treehash!Push
<1>3. depth \in Nat /\ level = 0 /\ idx \in Nat /\ idx < 2 ^ Low(c) /\ PathUpTo(c, idx, 0, auth_path)
  BY <1>1, <1>2 DEF TreeInv, OldStack
<1>4. PICK f : Pile(c, idx, depth, heights, Tops(waiting), f, depth)  BY <1>1, <1>2 DEF TreeInv, OldStack
<1>5. depth \in Nat /\ depth <= c.T /\ c.T \in Nat \ {0} /\ Low(c) = c.T /\ c.off \in Nat
  <2> HIDE DEF c
  <2> QED BY <1>1, <1>3, <1>4, PileRoom, CallNumbers, OneLane, OffsetNumber
<1>6. depth \in 0 .. MaxTreeHeight /\ depth + 1 \in 0 .. tree_height + 1
  <2> HIDE DEF c
  <2> QED BY <1>1, <1>5
<1>7. /\ DOMAIN waiting' = 0 .. MaxTreeHeight /\ \A k \in 0 .. MaxTreeHeight : DOMAIN waiting'[k] = 0 .. 7
      /\ waiting'[depth][0] = Treehash!Node(0, idx + idx_offset)
      /\ \A u \in 0 .. MaxTreeHeight : u # depth => waiting'[u] = waiting[u]
  BY <1>1, <1>2, <1>6
<1>8. /\ DOMAIN heights' = 0 .. MaxTreeHeight /\ heights'[depth] = 0
      /\ \A u \in 0 .. MaxTreeHeight : u # depth => heights'[u] = heights[u]
  BY <1>1, <1>2, <1>6
<1>9. PICK g : Pile(c, idx + 1, depth + 1, heights', Tops(waiting'), g, depth)
  <2>1. Tops(waiting')[depth] = Treehash!Node(0, idx + c.off) /\ heights'[depth] = 0
    BY <1>1, <1>6, <1>7, <1>8 DEF Tops
  <2>2. ASSUME NEW u \in 0 .. depth - 1
        PROVE  heights'[u] = heights[u] /\ Tops(waiting')[u] = Tops(waiting)[u]
    <3>1. u \in 0 .. MaxTreeHeight /\ u # depth
      <4> HIDE DEF c
      <4> QED BY <1>1, <1>5, <1>6
    <3> QED BY <1>7, <1>8, <3>1 DEF Tops
  <2> HIDE DEF c
  <2> QED BY <1>1, <1>4, <2>1, <2>2, PilePush
<1>10. PathUpTo(c, idx, 1, auth_path') /\ DOMAIN auth_path' = 0 .. MaxTreeHeight - 1
  <2>1. Reaches(c, 0, idx)
    <3> HIDE DEF c
    <3>1. idx + 1 = (idx + 1) * 2 ^ 0 /\ 0 <= Low(c)
      <4>1. 2 ^ 0 = 1  OBVIOUS
      <4> QED BY <1>3, <1>5, <4>1
    <3> QED BY <1>3, <3>1 DEF Reaches
  <2>2. leaf_idx \in Nat
    <3> HIDE DEF c
    <3>1. CASE c.leaf = Treehash!NoLeaf  BY <1>1, <3>1, NoLeafIsLarge
    <3>2. CASE c.leaf # Treehash!NoLeaf
      <4>1. 0 <= c.T  BY <1>5
      <4> QED BY <1>1, <3>2, <4>1, LeafNumbers
    <3> QED BY <3>1, <3>2
  <2>3. idx \div 2 ^ 0 = idx /\ leaf_idx \div 2 ^ 0 = leaf_idx  BY <1>3, <2>2, HalveNot
  <2>4. waiting'[depth][0] = At(c, 0, idx \div 2 ^ 0)
    <3> HIDE DEF c
    <3> QED BY <1>1, <1>3, <1>7, <2>3, TreeEnds
  <2>5. auth_path' = IF /\ (c.leaf \div 2 ^ 0) \div 2 = (idx \div 2 ^ 0) \div 2
                        /\ c.leaf \div 2 ^ 0 # idx \div 2 ^ 0
                     THEN [auth_path EXCEPT ![0] = waiting'[depth][0]] ELSE auth_path
    <3> DEFINE a == idx \div 2 ^ 0
               l == c.leaf \div 2 ^ 0
    <3>1. a = idx /\ l = leaf_idx  BY <1>1, <2>3
    <3> HIDE DEF c, a, l
    <3>2. auth_path' = IF l \div 2 = a \div 2 /\ l # a THEN [auth_path EXCEPT ![0] = waiting'[depth][0]] ELSE auth_path
      BY <1>2, <3>1
    <3> QED BY <3>2 DEF a, l
  <2>6. 0 .. c.T - 1 \subseteq 0 .. MaxTreeHeight - 1 /\ 0 <= c.T /\ 0 \in Nat /\ 0 + 1 = 1
    <3> HIDE DEF c
    <3> QED BY <1>1, <1>5
  <2> HIDE DEF c
  <2>7. PathUpTo(c, idx, 0 + 1, auth_path') /\ DOMAIN auth_path' = 0 .. MaxTreeHeight - 1
    <3>1. SubtreeOnPath(c, 0, idx, auth_path, 0 .. MaxTreeHeight - 1, waiting'[depth][0], auth_path')
      BY <1>1, <1>3, <2>1, <2>4, <2>5, <2>6, Zenon DEF SubtreeOnPath
    <3> QED BY <3>1, OldPath
  <2> QED BY <2>6, <2>7
<1>11. CallTypes'
  <2>1. doing' \in {"leaf", "rise", "check", "done"} /\ current' = current  BY <1>2
  <2> QED BY <1>0, <1>7, <1>8, <1>10, <2>1 DEF TreeInv, CallTypes
<1>12. LanesClimb'  BY <1>0, <1>1 DEF LanesClimb
<1>13. OldStack'
  <2>1. depth' # 0 /\ depth' - 1 = depth /\ depth' = depth + 1 /\ heights'[depth' - 1] + 1 = 1
    BY <1>2, <1>5, <1>8
  <2>2. PathUpTo(TheCall', idx', heights'[depth' - 1] + 1, auth_path')  BY <1>0, <1>2, <1>10, <2>1
  <2>3. Pile(TheCall', idx' + 1, depth', heights', Tops(waiting'), g, depth' - 1)  BY <1>0, <1>2, <1>9, <2>1
  <2>4. depth' \in 0 .. tree_height' + 1 /\ level' = 0 /\ idx' \in Nat /\ idx' < 2 ^ Low(TheCall')
    BY <1>0, <1>2, <1>3, <1>6
  <2>5. (\E e : Pile(TheCall', idx' + 1, depth', heights', Tops(waiting'), e, depth' - 1)) /\ doing' = "rise"
    BY <1>2, <2>3
  <2> QED BY <2>1, <2>2, <2>4, <2>5 DEF OldStack
<1>14. Verifies'  BY <1>2 DEF Verifies
<1> QED BY <1>11, <1>12, <1>13, <1>14 DEF TreeInv

LEMMA JoinKeeps ==
  ASSUME TreeInv, builder = "treehash", Treehash!Join
  PROVE  TreeInv'
<1>0. UNCHANGED TheCall /\ UNCHANGED <<builder, tree_height, leaf_idx, idx_offset>>
  BY CallStays DEF Treehash!Join, Treehash!call
<1> DEFINE c == TheCall
           top == heights[depth - 1] + 1
           at == depth - 2
           node == Treehash!thash(waiting[depth - 2][0], waiting[depth - 1][0],
                     Treehash!Node(top, (idx \div 2 ^ top) + (idx_offset \div 2 ^ top)))
<1>1. /\ IsCall(c) /\ c.off = idx_offset /\ c.T = tree_height /\ c.leaf = leaf_idx /\ c.n = 1
      /\ MaxTreeHeight \in Nat /\ tree_height <= MaxTreeHeight
      /\ DOMAIN heights = 0 .. MaxTreeHeight /\ DOMAIN auth_path = 0 .. MaxTreeHeight - 1
      /\ DOMAIN waiting = 0 .. MaxTreeHeight /\ \A k \in 0 .. MaxTreeHeight : DOMAIN waiting[k] = 0 .. 7
  BY CallOf DEF TreeInv, CallTypes
<1>2. /\ doing = "rise" /\ doing' = "rise" /\ depth >= 2 /\ heights[depth - 1] = heights[depth - 2]
      /\ waiting' = [waiting EXCEPT ![at][0] = node]
      /\ heights' = [heights EXCEPT ![at] = top] /\ depth' = depth - 1
      /\ auth_path' = IF (leaf_idx \div 2 ^ top) \div 2 = (idx \div 2 ^ top) \div 2
                           /\ leaf_idx \div 2 ^ top # idx \div 2 ^ top
                      THEN [auth_path EXCEPT ![top] = waiting'[at][0]] ELSE auth_path
      /\ UNCHANGED <<idx, level, current, left_adj, prev_left_adj, top_node>>
  BY DEF Treehash!Join
<1> HIDE DEF node
<1>3. /\ depth \in 0 .. tree_height + 1 /\ level = 0 /\ idx \in Nat /\ idx < 2 ^ Low(c)
      /\ PathUpTo(c, idx, top, auth_path)
  BY <1>1, <1>2 DEF TreeInv, OldStack
<1>4. PICK f : Pile(c, idx + 1, depth, heights, Tops(waiting), f, depth - 1)  BY <1>1, <1>2 DEF TreeInv, OldStack
<1>5. c.T \in Nat \ {0} /\ Low(c) = c.T /\ depth \in Nat /\ depth >= 2
  <2> HIDE DEF c
  <2>1. IsCall(c) /\ c.n = 1  BY <1>1
  <2>2. c.T \in Nat \ {0} /\ Low(c) = c.T  BY <2>1, CallNumbers, OneLane
  <2>3. depth \in Nat /\ depth >= 2
    <3>1. depth \in 0 .. tree_height + 1 /\ depth >= 2 /\ tree_height = c.T  BY <1>1, <1>2, <1>3
    <3> QED BY <2>2, <3>1
  <2> QED BY <2>2, <2>3
<1>6. /\ at \in 0 .. MaxTreeHeight /\ depth - 1 \in 0 .. MaxTreeHeight /\ depth - 1 \in 0 .. tree_height + 1
      /\ (depth - 1) - 1 = at /\ depth - 1 # 0
  <2> HIDE DEF c
  <2> QED BY <1>1, <1>3, <1>5
<1> HIDE DEF top
<1>7. /\ DOMAIN waiting' = 0 .. MaxTreeHeight /\ \A k \in 0 .. MaxTreeHeight : DOMAIN waiting'[k] = 0 .. 7
      /\ waiting'[at][0] = node
      /\ \A u \in 0 .. MaxTreeHeight : u # at => waiting'[u] = waiting[u]
  BY <1>1, <1>2, <1>6
<1>8. /\ DOMAIN heights' = 0 .. MaxTreeHeight /\ heights'[at] = top
      /\ \A u \in 0 .. MaxTreeHeight : u # at => heights'[u] = heights[u]
  BY <1>1, <1>2, <1>6
<1>9. /\ top \in Nat /\ top <= c.T /\ Reaches(c, top, idx)
      /\ waiting'[at][0] = At(c, top, idx \div 2 ^ top)
      /\ \E g : Pile(c, idx + 1, depth - 1, heights', Tops(waiting'), g, depth - 2)
  <2>1. Tops(waiting')[at] = node /\ heights'[at] = top  BY <1>6, <1>7, <1>8 DEF Tops
  <2>2. node = Treehash!thash(Tops(waiting)[depth - 2], Tops(waiting)[depth - 1],
                 Treehash!Node(top, (idx \div 2 ^ top) + (c.off \div 2 ^ top)))
    BY <1>1, <1>6 DEF Tops, node
  <2>3. ASSUME NEW u \in 0 .. depth - 3
        PROVE  heights'[u] = heights[u] /\ Tops(waiting')[u] = Tops(waiting)[u]
    <3>1. u \in 0 .. MaxTreeHeight /\ u # at
      <4> HIDE DEF c
      <4> QED BY <1>1, <1>5, <1>6
    <3> QED BY <1>7, <1>8, <3>1 DEF Tops
  <2>4. top = heights[depth - 1] + 1  BY DEF top
  <2> HIDE DEF c
  <2>5. /\ top \in Nat /\ top <= c.T /\ Reaches(c, top, idx)
        /\ Tops(waiting')[depth - 2] = At(c, top, idx \div 2 ^ top)
        /\ \E g : Pile(c, idx + 1, depth - 1, heights', Tops(waiting'), g, depth - 2)
    <3>1. TopsMeet(c, idx, depth, heights, Tops(waiting), f, top, heights', Tops(waiting'))
      <4>1. heights[depth - 1] = heights[depth - 2]  BY <1>2
      <4> QED BY <1>1, <1>3, <1>4, <1>5, <2>1, <2>2, <2>3, <2>4, <4>1, Zenon DEF TopsMeet
    <3> QED BY <3>1, PileJoin
  <2> QED BY <1>7, <2>1, <2>5
<1>10. PathUpTo(c, idx, top + 1, auth_path') /\ DOMAIN auth_path' = 0 .. MaxTreeHeight - 1
  <2>1. 0 .. c.T - 1 \subseteq 0 .. MaxTreeHeight - 1
    <3> HIDE DEF c
    <3> QED BY <1>1, <1>5
  <2>2. auth_path' = IF /\ (c.leaf \div 2 ^ top) \div 2 = (idx \div 2 ^ top) \div 2
                        /\ c.leaf \div 2 ^ top # idx \div 2 ^ top
                     THEN [auth_path EXCEPT ![top] = waiting'[at][0]] ELSE auth_path
    <3>1. auth_path' = IF (leaf_idx \div 2 ^ top) \div 2 = (idx \div 2 ^ top) \div 2
                            /\ leaf_idx \div 2 ^ top # idx \div 2 ^ top
                       THEN [auth_path EXCEPT ![top] = waiting'[at][0]] ELSE auth_path
      BY <1>2
    <3>2. leaf_idx = c.leaf  BY <1>1
    <3> HIDE DEF c, at
    <3> QED BY <3>1, <3>2
  <2> HIDE DEF c
  <2>3. SubtreeOnPath(c, top, idx, auth_path, 0 .. MaxTreeHeight - 1, waiting'[at][0], auth_path')
    BY <1>1, <1>3, <1>9, <2>1, <2>2, Zenon DEF SubtreeOnPath
  <2> QED BY <2>3, OldPath
<1>11. CallTypes'
  <2>1. doing' \in {"leaf", "rise", "check", "done"} /\ current' = current  BY <1>2
  <2> QED BY <1>0, <1>7, <1>8, <1>10, <2>1 DEF TreeInv, CallTypes
<1>12. LanesClimb'  BY <1>0, <1>1 DEF LanesClimb
<1>13. OldStack'
  <2>1. depth' # 0 /\ depth' - 1 = at /\ depth' = depth - 1 /\ heights'[depth' - 1] = top
    BY <1>2, <1>6, <1>8
  <2>2. PathUpTo(TheCall', idx', heights'[depth' - 1] + 1, auth_path')  BY <1>0, <1>2, <1>10, <2>1
  <2>3. \E e : Pile(TheCall', idx' + 1, depth', heights', Tops(waiting'), e, depth' - 1)
    BY <1>0, <1>2, <1>9, <2>1
  <2>4. depth' \in 0 .. tree_height' + 1 /\ level' = 0 /\ idx' \in Nat /\ idx' < 2 ^ Low(TheCall')
    BY <1>0, <1>2, <1>3, <1>6
  <2>5. doing' = "rise"  BY <1>2
  <2> QED BY <2>1, <2>2, <2>3, <2>4, <2>5 DEF OldStack
<1>14. Verifies'  BY <1>2 DEF Verifies
<1> QED BY <1>11, <1>12, <1>13, <1>14 DEF TreeInv

LEMMA NextLeafKeeps ==
  ASSUME TreeInv, builder = "treehash", Treehash!NextLeaf
  PROVE  TreeInv'
<1>0. UNCHANGED TheCall /\ UNCHANGED <<builder, tree_height, leaf_idx, idx_offset>>
  BY CallStays DEF Treehash!NextLeaf, Treehash!call
<1> DEFINE c == TheCall
           more == idx < 2 ^ tree_height - 1
           full == 2 ^ tree_height
<1>1. /\ IsCall(c) /\ c.off = idx_offset /\ c.T = tree_height /\ c.leaf = leaf_idx /\ c.n = 1
      /\ DOMAIN current = 0 .. 7 /\ MaxTreeHeight \in Nat
  BY CallOf DEF TreeInv, CallTypes
<1>2. /\ doing = "rise" /\ ~ (depth >= 2 /\ heights[depth - 1] = heights[depth - 2])
      /\ IF more THEN doing' = "leaf" /\ idx' = idx + 1 /\ UNCHANGED <<top_node, current>>
         ELSE /\ top_node' = waiting[0][0]
              /\ doing' = IF leaf_idx = Treehash!NoLeaf THEN "done" ELSE "check"
              /\ idx' = leaf_idx
              /\ current' = [current EXCEPT ![0] = Treehash!Node(0, leaf_idx + idx_offset)]
      /\ UNCHANGED <<level, waiting, left_adj, prev_left_adj, heights, depth, auth_path>>
  BY DEF Treehash!NextLeaf
<1>3. /\ depth \in 0 .. tree_height + 1 /\ depth # 0 /\ level = 0 /\ idx \in Nat /\ idx < 2 ^ Low(c)
      /\ PathUpTo(c, idx, heights[depth - 1] + 1, auth_path)
  BY <1>1, <1>2 DEF TreeInv, OldStack
<1>4. PICK f : Pile(c, idx + 1, depth, heights, Tops(waiting), f, depth - 1)  BY <1>1, <1>2 DEF TreeInv, OldStack
<1>5. c.T \in Nat \ {0} /\ Low(c) = c.T /\ full \in Nat \ {0}
  <2> HIDE DEF c
  <2>1. IsCall(c) /\ c.n = 1  BY <1>1
  <2>2. c.T \in Nat \ {0} /\ 2 ^ Low(c) \in Nat \ {0} /\ Low(c) = c.T  BY <2>1, CallNumbers, OneLane
  <2> QED BY <1>1, <2>2
<1>6. /\ \E m \in Nat : EndsLeft(idx, heights[depth - 1], 2 * m)
      /\ idx + 1 < 2 ^ Low(c) => Pile(c, idx + 1, depth, heights, Tops(waiting), f, depth)
      /\ idx + 1 = 2 ^ Low(c) => depth = 1 /\ Tops(waiting)[0] = Root(c) /\ heights[0] = c.T
  <2> HIDE DEF c
  <2> QED BY <1>1, <1>2, <1>3, <1>4, PileSettles
<1>7. 2 ^ Low(c) = full /\ (more <=> idx + 1 < full) /\ (~ more <=> idx + 1 = full)
  <2>1. 2 ^ Low(c) = full /\ (more <=> idx < full - 1)  BY <1>1, <1>5
  <2> HIDE DEF c, full, more
  <2> QED BY <1>3, <1>5, <2>1
<1>8. LanesClimb'  BY <1>0, <1>1 DEF LanesClimb
<1>9. CASE more
  <2>1. doing' = "leaf" /\ idx' = idx + 1 /\ current' = current /\ top_node' = top_node  BY <1>2, <1>9
  <2>2. idx + 1 < 2 ^ Low(c)  BY <1>7, <1>9
  <2>3. PathUpTo(c, idx + 1, 0, auth_path)
    <3>1. PICK m \in Nat : EndsLeft(idx, heights[depth - 1], 2 * m)  BY <1>6
    <3> HIDE DEF c, more, full
    <3> QED BY <1>1, <1>3, <2>2, <3>1, PathNext
  <2>4. CallTypes'  BY <1>0, <1>2, <2>1 DEF TreeInv, CallTypes
  <2>5. OldStack'
    <3>1. Pile(TheCall', idx', depth', heights', Tops(waiting'), f, depth')  BY <1>0, <1>2, <1>6, <2>1, <2>2
    <3>2. PathUpTo(TheCall', idx', 0, auth_path')  BY <1>0, <1>2, <2>1, <2>3
    <3>3. depth' \in 0 .. tree_height' + 1 /\ level' = 0 /\ idx' \in Nat /\ idx' < 2 ^ Low(TheCall')
      <4>1. idx + 1 \in Nat  BY <1>3
      <4> QED BY <1>0, <1>2, <1>3, <2>1, <2>2, <4>1
    <3>4. \E e : Pile(TheCall', idx', depth', heights', Tops(waiting'), e, depth')  BY <3>1
    <3> QED BY <2>1, <3>2, <3>3, <3>4 DEF OldStack
  <2>6. Verifies'  BY <2>1 DEF Verifies
  <2> QED BY <1>8, <2>4, <2>5, <2>6 DEF TreeInv
<1>10. CASE ~ more
  <2>1. /\ top_node' = waiting[0][0] /\ doing' = IF leaf_idx = Treehash!NoLeaf THEN "done" ELSE "check"
        /\ idx' = leaf_idx /\ current' = [current EXCEPT ![0] = Treehash!Node(0, leaf_idx + idx_offset)]
    BY <1>2, <1>10
  <2>2. idx + 1 = 2 ^ Low(c) /\ depth = 1 /\ Tops(waiting)[0] = Root(c) /\ heights[0] = c.T  BY <1>6, <1>7, <1>10
  <2>3. top_node' = Root(c)
    <3>1. 0 \in 0 .. MaxTreeHeight  BY <1>1
    <3> QED BY <2>1, <2>2, <3>1 DEF Tops
  <2>4. PathDone(c, auth_path)
    <3>1. PathUpTo(c, idx, c.T + 1, auth_path)  BY <1>3, <2>2
    <3> HIDE DEF c
    <3>2. c.T + 1 \in Nat /\ c.T + 1 >= c.T  BY <1>5
    <3> QED BY <1>1, <1>3, <2>2, <3>1, <3>2, PathWhole DEF PathDone
  <2>5. ASSUME leaf_idx # Treehash!NoLeaf PROVE current'[0] = At(c, 0, leaf_idx \div 2 ^ 0) /\ 0 < tree_height
    <3>1. current'[0] = Treehash!Node(0, leaf_idx + idx_offset)  BY <1>1, <2>1
    <3> HIDE DEF c
    <3> QED BY <1>1, <2>5, <3>1, LeafOfPath
  <2>6. CallTypes'
    <3>1. doing' \in {"done", "check"}  BY <2>1
    <3>2. DOMAIN current' = 0 .. 7  BY <1>1, <2>1
    <3> QED BY <1>0, <1>2, <3>1, <3>2 DEF TreeInv, CallTypes
  <2>7. OldStack'
    <3>1. doing' # "leaf" /\ doing' # "rise"  BY <2>1
    <3>2. depth' \in 0 .. tree_height' + 1  BY <1>0, <1>2, <1>3
    <3> QED BY <3>1, <3>2 DEF OldStack
  <2>8. Verifies'
    <3>1. top_node' = Root(TheCall') /\ PathDone(TheCall', auth_path')  BY <1>0, <1>2, <2>3, <2>4
    <3>2. doing' = "check" => /\ leaf_idx' # Treehash!NoLeaf /\ idx' = leaf_idx' /\ level' \in Nat /\ level' < tree_height'
                              /\ current'[0] = At(TheCall', level', leaf_idx' \div 2 ^ level')
      BY <1>0, <1>2, <1>3, <2>1, <2>5
    <3>3. doing' = "done" => leaf_idx' = Treehash!NoLeaf  BY <1>0, <2>1
    <3> QED BY <3>1, <3>2, <3>3 DEF Verifies
  <2> QED BY <1>8, <2>6, <2>7, <2>8 DEF TreeInv
<1> QED BY <1>9, <1>10

(***************************************************************************)
(* The invariant and what it says of the trees.                            *)
(***************************************************************************)
LEMMA TreeStays == ASSUME TreeInv, UNCHANGED Treehash!vars PROVE TreeInv'
<1>1. UNCHANGED <<builder, tree_height, leaf_idx, idx_offset, doing, idx, level, current, waiting, left_adj,
                  prev_left_adj, heights, depth, top_node, auth_path>>
  BY DEF Treehash!vars
<1>2. UNCHANGED TheCall  BY <1>1 DEF TheCall
<1>3. CallTypes'  BY <1>1, <1>2 DEF TreeInv, CallTypes
<1>4. LanesClimb'  BY <1>1, <1>2 DEF TreeInv, LanesClimb
<1>5. OldStack'  BY <1>1, <1>2 DEF TreeInv, OldStack
<1>6. Verifies'  BY <1>1, <1>2 DEF TreeInv, Verifies
<1> QED BY <1>3, <1>4, <1>5, <1>6 DEF TreeInv

LEMMA TreeStep == ASSUME TreeInv, [Treehash!Next]_(Treehash!vars) PROVE TreeInv'
<1>1. CASE Treehash!treehashx1
  <2>1. builder = "x1" /\ (Treehash!Leaf(1) \/ Treehash!Level1 \/ Treehash!Return(1))
    BY <1>1 DEF Treehash!treehashx1
  <2>2. TheCall.n = 1 /\ builder # "treehash"  BY <2>1, CallOf DEF Builders
  <2> QED BY <2>1, <2>2, LeafKeeps, Level1Keeps, ReturnKeeps
<1>2. CASE Treehash!treehashx2
  <2>1. builder = "x2" /\ (Treehash!Leaf(2) \/ Treehash!Level(2, 1) \/ Treehash!Return(2))
    BY <1>2 DEF Treehash!treehashx2
  <2>2. TheCall.n = 2 /\ TheCall.g = 1 /\ builder # "treehash"  BY <2>1, CallOf DEF Builders
  <2> QED BY <2>1, <2>2, LeafKeeps, LevelKeeps, ReturnKeeps
<1>3. CASE Treehash!treehashx4
  <2>1. builder = "x4" /\ (Treehash!Leaf(4) \/ Treehash!Level(4, 2) \/ Treehash!Return(4))
    BY <1>3 DEF Treehash!treehashx4
  <2>2. TheCall.n = 4 /\ TheCall.g = 2 /\ builder # "treehash"  BY <2>1, CallOf DEF Builders
  <2> QED BY <2>1, <2>2, LeafKeeps, LevelKeeps, ReturnKeeps
<1>4. CASE Treehash!treehashx8
  <2>1. builder = "x8" /\ (Treehash!Leaf(8) \/ Treehash!Level(8, 3) \/ Treehash!Return(8))
    BY <1>4 DEF Treehash!treehashx8
  <2>2. TheCall.n = 8 /\ TheCall.g = 3 /\ builder # "treehash"  BY <2>1, CallOf DEF Builders
  <2> QED BY <2>1, <2>2, LeafKeeps, LevelKeeps, ReturnKeeps
<1>5. CASE Treehash!treehash
  BY <1>5, PushKeeps, JoinKeeps, NextLeafKeeps DEF Treehash!treehash
<1>6. CASE Treehash!compute_root  BY <1>6, VerifierKeeps
<1>7. CASE UNCHANGED Treehash!vars  BY <1>7, TreeStays
<1> QED BY <1>1, <1>2, <1>3, <1>4, <1>5, <1>6, <1>7 DEF Treehash!Next

(* What the run checks follows from the invariant. *)
LEMMA TreeGives ==
  ASSUME TreeInv
  PROVE  /\ Treehash!StackHasRoom /\ Treehash!RootIsTheRoot
         /\ Treehash!PathIsTheNeighbours /\ Treehash!VerifierFindsRoot
<1> DEFINE c == TheCall
<1>1. /\ IsCall(c) /\ c.off = idx_offset /\ c.T = tree_height /\ c.leaf = leaf_idx
      /\ c.n = Treehash!Lanes(builder) /\ c.g = Treehash!LogLanes(builder)
  BY CallOf DEF TreeInv, CallTypes
<1>2. Treehash!StackHasRoom
  <2>1. depth \in 0 .. tree_height + 1
    <3>1. CASE builder = "treehash"  BY <3>1 DEF TreeInv, OldStack
    <3>2. CASE builder # "treehash"
      <4>1. depth = 0 /\ c.T \in Nat
        <5>1. c.T \in Nat
          <6> HIDE DEF c
          <6> QED BY <1>1, CallNumbers
        <5> QED BY <3>2, <5>1 DEF TreeInv, LanesClimb
      <4> HIDE DEF c
      <4> QED BY <1>1, <4>1
    <3> QED BY <3>1, <3>2
  <2>2. ASSUME doing = "rise" PROVE level <= tree_height
    <3>1. CASE builder = "treehash"
      <4>1. level = 0  BY <2>2, <3>1 DEF TreeInv, OldStack
      <4> HIDE DEF c
      <4>2. c.T \in Nat  BY <1>1, CallNumbers
      <4> QED BY <1>1, <4>1, <4>2
    <3>2. CASE builder # "treehash"
      <4>1. OnRise(c, idx, level, current, waiting, auth_path)  BY <2>2, <3>2 DEF TreeInv, LanesClimb
      <4> HIDE DEF c
      <4> QED BY <1>1, <4>1 DEF OnRise
    <3> QED BY <3>1, <3>2
  <2>3. ASSUME doing = "rise", builder # "treehash", level < tree_height - Treehash!LogLanes(builder),
               (idx \div 2 ^ level) % 2 = 1
        PROVE  waiting[level][0] = Treehash!Node(level, ((idx \div 2 ^ level) - 1) * Treehash!Lanes(builder)
                                                          + (idx_offset \div 2 ^ level))
    <3> DEFINE q == idx \div 2 ^ level
               b == idx_offset \div 2 ^ level
    <3>1. OnRise(c, idx, level, current, waiting, auth_path)  BY <2>3 DEF TreeInv, LanesClimb
    <3> HIDE DEF c
    <3>2. Waits(c, idx, waiting) /\ level \in Nat /\ idx \in Nat  BY <3>1 DEF OnRise
    <3>3. Low(c) \in Nat /\ c.T \in Nat /\ c.g \in Nat /\ Low(c) + c.g = c.T /\ c.n \in Nat \ {0}  BY <1>1, CallNumbers
    <3>4. level < Low(c)  BY <1>1, <2>3, <3>2, <3>3
    <3>5. waiting[level][0] = At(c, level, (c.n * (q - 1)) + 0)
      <4>1. 0 \in 0 .. c.n - 1  BY <3>3
      <4> QED BY <2>3, <3>2, <3>4, <4>1 DEF Waits
    <3>6. q \in Nat /\ Base(c, level) = b  BY <1>1, <3>2, HalveOnce DEF Base
    <3>7. At(c, level, (c.n * (q - 1)) + 0) = Treehash!Node(level, ((c.n * (q - 1)) + 0) + b)  BY <3>6 DEF At
    <3> HIDE DEF q
    <3>8. (c.n * (q - 1)) + 0 = (q - 1) * c.n  BY <3>3, <3>6
    <3> QED BY <1>1, <3>5, <3>7, <3>8 DEF q
  <2> QED BY <2>1, <2>2, <2>3 DEF Treehash!StackHasRoom, Treehash!internal_idx
<1>3. ASSUME doing \in {"check", "done"}
      PROVE  top_node = Treehash!Node(tree_height, idx_offset \div 2 ^ tree_height) /\ PathDone(c, auth_path)
  BY <1>1, <1>3 DEF TreeInv, Verifies, Root
<1>4. Treehash!RootIsTheRoot  BY <1>3 DEF Treehash!RootIsTheRoot
<1>5. Treehash!PathIsTheNeighbours
  <2> SUFFICES ASSUME doing \in {"check", "done"}, NEW s \in 0 .. tree_height - 1
               PROVE  auth_path[s] =
                        IF leaf_idx = Treehash!NoLeaf THEN Treehash!Garbage
                        ELSE Treehash!Node(s, (IF (leaf_idx \div 2 ^ s) % 2 = 0 THEN (leaf_idx \div 2 ^ s) + 1
                                               ELSE (leaf_idx \div 2 ^ s) - 1) + (idx_offset \div 2 ^ s))
    BY DEF Treehash!PathIsTheNeighbours
  <2>1. PathDone(c, auth_path)  BY <1>3
  <2>2. s \in 0 .. c.T - 1  BY <1>1
  <2> HIDE DEF c
  <2>3. IF c.leaf = Treehash!NoLeaf THEN auth_path[s] = Treehash!Garbage ELSE PathOf(c, s, auth_path)
    BY <2>1, <2>2, Zenon DEF PathDone
  <2>4. CASE leaf_idx = Treehash!NoLeaf  BY <1>1, <2>3, <2>4
  <2>5. CASE leaf_idx # Treehash!NoLeaf
    <3>1. auth_path[s] = At(c, s, Sibling(leaf_idx \div 2 ^ s))  BY <1>1, <2>3, <2>5 DEF PathOf
    <3> DEFINE above == leaf_idx \div 2 ^ s
               b == idx_offset \div 2 ^ s
    <3>2. Base(c, s) = b  BY <1>1 DEF Base
    <3> HIDE DEF above, b
    <3>3. At(c, s, Sibling(above)) = Treehash!Node(s, (IF above % 2 = 0 THEN above + 1 ELSE above - 1) + b)
      BY <3>2 DEF At, Sibling
    <3> QED BY <2>5, <3>1, <3>3 DEF above, b
  <2> QED BY <2>4, <2>5
<1>6. Treehash!VerifierFindsRoot
  <2> SUFFICES ASSUME doing = "done", leaf_idx # Treehash!NoLeaf PROVE current[0] = top_node
    BY DEF Treehash!VerifierFindsRoot
  <2>1. current[0] = Root(c) /\ top_node = Root(c)  BY DEF TreeInv, Verifies
  <2> QED BY <2>1
<1> QED BY <1>2, <1>4, <1>5, <1>6

(* Every version of treehash leaves the root of its tree and the path of   *)
(* the leaf, with no node of the stack overwritten or read before it is     *)
(* written, and compute_root gets from leaf and path to the same root:      *)
(* for trees of every height up to 27, every leaf and every place in a row  *)
(* (utils.c:84, utilsx1.c:36, utilsx4.c:49).                                *)
THEOREM TreesAreBuilt ==
  TreeSizes => (Treehash!Spec => [](/\ Treehash!StackHasRoom /\ Treehash!RootIsTheRoot
                                    /\ Treehash!PathIsTheNeighbours /\ Treehash!VerifierFindsRoot))
<1> SUFFICES ASSUME TreeSizes
             PROVE  Treehash!Spec => [](/\ Treehash!StackHasRoom /\ Treehash!RootIsTheRoot
                                        /\ Treehash!PathIsTheNeighbours /\ Treehash!VerifierFindsRoot)
  OBVIOUS
<1>1. Treehash!Init => TreeInv  BY CallStarts
<1>2. TreeInv /\ [Treehash!Next]_(Treehash!vars) => TreeInv'  BY TreeStep
<1>3. TreeInv => /\ Treehash!StackHasRoom /\ Treehash!RootIsTheRoot
                 /\ Treehash!PathIsTheNeighbours /\ Treehash!VerifierFindsRoot
  BY TreeGives
<1> QED BY <1>1, <1>2, <1>3, PTL DEF Treehash!Spec

(***************************************************************************)
(* Signatures.                                                             *)
(***************************************************************************)
CONSTANTS D, TREE_HEIGHT, FORS_TREES, FORS_HEIGHT, WotsW, WotsLEN, ChainLengths, Digests
VARIABLES turn, tier, turns_of, pk, digest, others, signed, tree, idx_leaf, wots_addr, tree_addr, root, sig, change, verdict

Scheme == INSTANCE SphincsScheme WITH W <- WotsW, LEN <- WotsLEN, Lengths <- ChainLengths,
  build <- builder, pc <- turn, lengths <- turns_of, i <- tier

SchemeSizes == Scheme!SizesAssumption /\ Scheme!LengthsAssumption /\ Scheme!DigestsAssumption

(* One step of each of the functions that the scheme defines by recursion: *)
(* the rows of a tree, the way from a leaf to the root, a chain from its   *)
(* beginning and from any place, the parts of what was hashed.             *)
Step(kind, x, s, before) ==
  IF kind = "tree" THEN
    [k \in 0 .. 2 ^ (x.height - s) - 1 |->
       IF s = 0 THEN x.leaf[k]
       ELSE Scheme!thash(<<before[2 * k], before[2 * k + 1]>>, Scheme!NodeAddr(x.addr, s, k, x.offset))]
  ELSE IF kind = "way" THEN
    IF s = 0 THEN x.leaf
    ELSE IF (x.place \div 2 ^ (s - 1)) % 2 = 1
         THEN Scheme!thash(<<x.path[s - 1], before>>, Scheme!NodeAddr(x.addr, s, x.place \div 2 ^ s, x.offset))
         ELSE Scheme!thash(<<before, x.path[s - 1]>>, Scheme!NodeAddr(x.addr, s, x.place \div 2 ^ s, x.offset))
  ELSE IF kind = "chain" THEN
    IF s = 0 THEN Scheme!prf_addr(Scheme!set_type(x, Scheme!TypeWOTSPRF))
    ELSE Scheme!thash(<<before>>, Scheme!set_hash_addr(Scheme!set_type(x, Scheme!TypeWOTS), s - 1))
  ELSE IF kind = "climb" THEN
    IF s = x.from THEN x.value ELSE Scheme!thash(<<before>>, Scheme!set_hash_addr(x.addr, s - 1))
  ELSE IF s = 0 THEN x ELSE Scheme!Parts(before)

Follows(f, kind, x, a, n) == f = [s \in a .. n |-> Step(kind, x, s, f[s - 1])]
Starts(kind, x, a) == \A y, z : Step(kind, x, a, y) = Step(kind, x, a, z)
Chosen(kind, x, a, n) == CHOOSE f : Follows(f, kind, x, a, n)

LEMMA Recursion ==
  ASSUME NEW kind, NEW x, NEW a \in Nat, NEW n \in Nat, a <= n, Starts(kind, x, a)
  PROVE  \E f : Follows(f, kind, x, a, n)
<1> DEFINE T == {m \in Nat : \E f : f = [s \in a .. a + m |-> Step(kind, x, s, f[s - 1])]}
<1>1. 0 \in T
  <2> DEFINE f == [s \in a .. a + 0 |-> Step(kind, x, s, 0)]
  <2>1. \A s \in a .. a + 0 : s = a  OBVIOUS
  <2>2. \A s \in a .. a + 0 : Step(kind, x, s, 0) = Step(kind, x, s, f[s - 1])  BY <2>1, Zenon DEF Starts
  <2>3. f = [s \in a .. a + 0 |-> Step(kind, x, s, f[s - 1])]  BY <2>2, Zenon
  <2> HIDE DEF f
  <2> QED BY <2>3
<1>2. ASSUME NEW m \in Nat, m \in T PROVE m + 1 \in T
  <2>1. PICK f : f = [s \in a .. a + m |-> Step(kind, x, s, f[s - 1])]  BY <1>2
  <2> DEFINE g == [s \in a .. a + (m + 1) |-> IF s = a + (m + 1) THEN Step(kind, x, s, f[s - 1]) ELSE f[s]]
  <2>2. ASSUME NEW s \in a .. a + (m + 1)
        PROVE  (IF s = a + (m + 1) THEN Step(kind, x, s, f[s - 1]) ELSE f[s]) = Step(kind, x, s, g[s - 1])
    <3>1. s # a + (m + 1) => s \in a .. a + m  OBVIOUS
    <3>2. s # a + (m + 1) => f[s] = Step(kind, x, s, f[s - 1])  BY <2>1, <3>1, Zenon
    <3>3. s # a => s - 1 \in a .. a + (m + 1) /\ s - 1 # a + (m + 1)  OBVIOUS
    <3>4. s # a => g[s - 1] = f[s - 1]  BY <3>3
    <3>5. s = a => Step(kind, x, s, f[s - 1]) = Step(kind, x, s, g[s - 1])  BY Zenon DEF Starts
    <3> QED BY <3>2, <3>4, <3>5, Zenon
  <2>3. g = [s \in a .. a + (m + 1) |-> Step(kind, x, s, g[s - 1])]  BY <2>2, Zenon
  <2> HIDE DEF g
  <2> QED BY <2>3
<1> HIDE DEF T
<1>3. Nat \subseteq T  BY <1>1, <1>2, Induction
<1>4. n - a \in Nat /\ a + (n - a) = n  OBVIOUS
<1>5. n - a \in T  BY <1>3, <1>4
<1>6. \E f : f = [s \in a .. n |-> Step(kind, x, s, f[s - 1])]  BY <1>4, <1>5, Zenon DEF T
<1> QED BY <1>6, Zenon DEF Follows

(* Which row a place is in, and how far to the right. *)
LEMMA NodeBelow ==
  ASSUME NEW n \in Nat, NEW x \in Nat, x < 2 ^ n, NEW s \in Nat, s <= n
  PROVE  x \div 2 ^ s \in Nat /\ x \div 2 ^ s < 2 ^ (n - s)
<1> DEFINE y == 2 ^ s
           z == 2 ^ (n - s)
           q == x \div y
<1>1. n - s \in Nat /\ s + (n - s) = n  OBVIOUS
<1>2. 2 ^ n = y * z /\ y \in Nat \ {0} /\ z \in Nat \ {0}
  <2>1. 2 ^ (s + (n - s)) = y * z  BY <1>1, PowerOfSum
  <2> QED BY <1>1, <2>1, PowerDoubles
<1> HIDE DEF y, z
<1>3. q \in Nat /\ x = y * q + (x % y) /\ x % y \in Nat  BY <1>2
<1> HIDE DEF q
<1>4. q < z
  <2> SUFFICES ASSUME q >= z PROVE FALSE  BY <1>2, <1>3
  <2>1. PICK e \in Nat : q = z + e
    <3>1. q - z \in Nat /\ q = z + (q - z)  BY <1>2, <1>3
    <3> QED BY <3>1
  <2>2. y * q = y * z + y * e /\ y * e \in Nat  BY <1>2, <2>1
  <2> QED BY <1>2, <1>3, <2>2
<1> QED BY <1>3, <1>4 DEF q, y, z

LEMMA SiblingBelow ==
  ASSUME NEW n \in Nat, NEW x \in Nat, x < 2 ^ (n + 1)
  PROVE  Sibling(x) \in Nat /\ Sibling(x) < 2 ^ (n + 1)
<1> DEFINE z == 2 ^ n
<1>1. z \in Nat /\ 2 ^ (n + 1) = 2 * z  BY PowerDoubles
<1> HIDE DEF z
<1>2. x < 2 * z  BY <1>1
<1>3. CASE x % 2 = 0
  <2>1. x + 1 < 2 * z  BY <1>1, <1>2, <1>3
  <2> QED BY <1>1, <1>3, <2>1 DEF Sibling
<1>4. CASE x % 2 # 0
  <2>1. x - 1 \in Nat /\ x - 1 < 2 * z  BY <1>1, <1>2, <1>4
  <2> QED BY <1>1, <1>4, <2>1 DEF Sibling
<1> QED BY <1>3, <1>4


LEMMA RecursionOnce ==
  ASSUME NEW kind, NEW x, NEW a \in Nat, NEW n \in Nat, a <= n, Starts(kind, x, a),
         NEW f, Follows(f, kind, x, a, n), NEW g, Follows(g, kind, x, a, n)
  PROVE  f = g
<1> DEFINE T == {m \in Nat : a + m <= n => f[a + m] = g[a + m]}
<1>0. ASSUME NEW s \in a .. n PROVE f[s] = Step(kind, x, s, f[s - 1]) /\ g[s] = Step(kind, x, s, g[s - 1])
  BY Zenon DEF Follows
<1>1. 0 \in T
  <2>1. f[a] = Step(kind, x, a, f[a - 1]) /\ g[a] = Step(kind, x, a, g[a - 1])  BY <1>0
  <2>2. f[a] = g[a]  BY <2>1, Zenon DEF Starts
  <2>3. a + 0 = a  OBVIOUS
  <2> QED BY <2>2, <2>3
<1>2. ASSUME NEW m \in Nat, m \in T PROVE m + 1 \in T
  <2> SUFFICES ASSUME a + (m + 1) <= n PROVE f[a + (m + 1)] = g[a + (m + 1)]  OBVIOUS
  <2>1. a + (m + 1) \in a .. n /\ (a + (m + 1)) - 1 = a + m /\ a + m <= n  OBVIOUS
  <2>2. f[a + m] = g[a + m]  BY <1>2, <2>1
  <2> DEFINE s == a + (m + 1)
  <2>3. s \in a .. n /\ f[s - 1] = g[s - 1]  BY <2>1, <2>2
  <2> HIDE DEF s
  <2>4. f[s] = g[s]  BY <1>0, <2>3, Zenon
  <2> QED BY <2>4 DEF s
<1> HIDE DEF T
<1>3. Nat \subseteq T  BY <1>1, <1>2, Induction
<1>4. ASSUME NEW s \in a .. n PROVE f[s] = g[s]
  <2>1. s - a \in Nat /\ a + (s - a) = s /\ s <= n  OBVIOUS
  <2>2. s - a \in T  BY <1>3, <2>1
  <2> QED BY <2>1, <2>2 DEF T
<1>5. f = [s \in a .. n |-> f[s]] /\ g = [s \in a .. n |-> g[s]]
  <2>1. \A s \in a .. n : f[s] = Step(kind, x, s, f[s - 1])  BY <1>0
  <2>2. f = [s \in a .. n |-> Step(kind, x, s, f[s - 1])]  BY Zenon DEF Follows
  <2>3. \A s \in a .. n : g[s] = Step(kind, x, s, g[s - 1])  BY <1>0
  <2>4. g = [s \in a .. n |-> Step(kind, x, s, g[s - 1])]  BY Zenon DEF Follows
  <2>5. f = [s \in a .. n |-> f[s]]  BY <2>1, <2>2, Zenon
  <2> QED BY <2>3, <2>4, <2>5, Zenon
<1> QED BY <1>4, <1>5, Zenon

LEMMA ChosenFollows ==
  ASSUME NEW kind, NEW x, NEW a \in Nat, NEW n \in Nat, a <= n, Starts(kind, x, a)
  PROVE  Follows(Chosen(kind, x, a, n), kind, x, a, n)
<1>1. \E f : Follows(f, kind, x, a, n)  BY Recursion
<1> QED BY <1>1, Zenon DEF Chosen

LEMMA ChosenStep ==
  ASSUME NEW kind, NEW x, NEW a \in Nat, NEW n \in Nat, a <= n, Starts(kind, x, a), NEW s \in a .. n
  PROVE  Chosen(kind, x, a, n)[s] = Step(kind, x, s, Chosen(kind, x, a, n)[s - 1])
<1>1. Follows(Chosen(kind, x, a, n), kind, x, a, n)  BY ChosenFollows
<1> DEFINE f == Chosen(kind, x, a, n)
<1>2. Follows(f, kind, x, a, n)  BY <1>1
<1> HIDE DEF f
<1>3. f[s] = Step(kind, x, s, f[s - 1])  BY <1>2, Zenon DEF Follows
<1> QED BY <1>3 DEF f

LEMMA KindsStart ==
  ASSUME NEW x
  PROVE  /\ Starts("tree", x, 0) /\ Starts("way", x, 0) /\ Starts("chain", x, 0)
         /\ Starts("climb", x, x.from) /\ Starts("within", x, 0)
<1>1. Starts("tree", x, 0)  BY DEF Starts, Step
<1>2. Starts("way", x, 0)  BY DEF Starts, Step
<1>3. Starts("chain", x, 0)  BY DEF Starts, Step
<1>4. Starts("climb", x, x.from)  BY DEF Starts, Step
<1>5. Starts("within", x, 0)  BY DEF Starts, Step
<1> QED BY <1>1, <1>2, <1>3, <1>4, <1>5

(* The rows of a tree, from the leaves to the root. *)
TreeWith(height, leaf, addr, offset) == [height |-> height, leaf |-> leaf, addr |-> addr, offset |-> offset]
Rows(height, leaf, addr, offset) == Chosen("tree", TreeWith(height, leaf, addr, offset), 0, height)

LEMMA RowZero ==
  ASSUME NEW height \in Nat, NEW leaf, NEW addr, NEW offset, NEW k \in 0 .. 2 ^ height - 1
  PROVE  Rows(height, leaf, addr, offset)[0][k] = leaf[k]
<1> DEFINE x == TreeWith(height, leaf, addr, offset)
           f == Rows(height, leaf, addr, offset)
<1>1. 0 \in 0 .. height /\ height - 0 = height  OBVIOUS
<1>2. f[0] = Step("tree", x, 0, f[0 - 1])
  <2>1. Starts("tree", x, 0) /\ 0 \in Nat /\ 0 <= height  BY KindsStart
  <2>2. f = Chosen("tree", x, 0, height)  BY DEF Rows
  <2> HIDE DEF f, x
  <2> QED BY <1>1, <2>1, <2>2, ChosenStep, Zenon
<1>3. x.height = height /\ x.leaf = leaf  BY DEF TreeWith
<1> HIDE DEF x, f
<1>4. Step("tree", x, 0, f[0 - 1]) = [l \in 0 .. 2 ^ (x.height - 0) - 1 |-> x.leaf[l]]  BY Zenon DEF Step
<1>5. f[0] = [l \in 0 .. 2 ^ height - 1 |-> leaf[l]]  BY <1>1, <1>2, <1>3, <1>4, Zenon
<1>6. f[0][k] = leaf[k]  BY <1>5, Zenon
<1> QED BY <1>6 DEF f

Joined(rows, h, k, addr, offset) ==
  Scheme!thash(<<rows[h - 1][2 * k], rows[h - 1][2 * k + 1]>>, Scheme!NodeAddr(addr, h, k, offset))

LEMMA RowAbove ==
  ASSUME NEW height \in Nat, NEW leaf, NEW addr, NEW offset, NEW h \in 1 .. height,
         NEW k \in 0 .. 2 ^ (height - h) - 1
  PROVE  Rows(height, leaf, addr, offset)[h][k] = Joined(Rows(height, leaf, addr, offset), h, k, addr, offset)
<1> DEFINE x == TreeWith(height, leaf, addr, offset)
           f == Rows(height, leaf, addr, offset)
<1>1. h \in 0 .. height /\ h # 0  OBVIOUS
<1>2. f[h] = Step("tree", x, h, f[h - 1])
  <2>1. Starts("tree", x, 0) /\ 0 \in Nat /\ 0 <= height  BY KindsStart
  <2>2. f = Chosen("tree", x, 0, height)  BY DEF Rows
  <2> HIDE DEF f, x
  <2> QED BY <1>1, <2>1, <2>2, ChosenStep, Zenon
<1>3. x.height = height /\ x.addr = addr /\ x.offset = offset  BY DEF TreeWith
<1> HIDE DEF x, f
<1>4. Step("tree", x, h, f[h - 1])
        = [l \in 0 .. 2 ^ (x.height - h) - 1 |->
             Scheme!thash(<<f[h - 1][2 * l], f[h - 1][2 * l + 1]>>, Scheme!NodeAddr(x.addr, h, l, x.offset))]
  BY <1>1, Zenon DEF Step
<1>5. f[h][k] = Scheme!thash(<<f[h - 1][2 * k], f[h - 1][2 * k + 1]>>, Scheme!NodeAddr(addr, h, k, offset))
  BY <1>2, <1>3, <1>4, Zenon
<1>6. f[h][k] = Joined(f, h, k, addr, offset)  BY <1>5, Zenon DEF Joined
<1> QED BY <1>6 DEF f

(* Which lane makes a node does not matter when all have the same address. *)
LEMMA NodeIsInItsRow ==
  ASSUME NEW b \in Scheme!Builds, NEW height \in Nat, NEW leaf, NEW addr, NEW addrs, NEW offset,
         addrs = [lane \in 0 .. Scheme!Lanes(b) - 1 |-> addr],
         NEW top \in 0 .. height, NEW at
  PROVE  Scheme!Node(b, height, leaf, addrs, offset, top, at) = Rows(height, leaf, addr, offset)[top][at]
<1> DEFINE x == TreeWith(height, leaf, addr, offset)
           Is(node) == node = [h \in 0 .. height |->
             [k \in 0 .. 2 ^ (height - h) - 1 |->
               IF h = 0 THEN leaf[k]
               ELSE Scheme!thash(<<node[h - 1][2 * k], node[h - 1][2 * k + 1]>>,
                                 Scheme!NodeAddr(addrs[Scheme!LaneOf(b, height, h, k)], h, k, offset))]]
           node == CHOOSE f : Is(f)
<1>1. Scheme!Node(b, height, leaf, addrs, offset, top, at) = node[top][at]  BY Zenon DEF Scheme!Node
<1>2. ASSUME NEW h \in 0 .. height, NEW k \in 0 .. 2 ^ (height - h) - 1
      PROVE  addrs[Scheme!LaneOf(b, height, h, k)] = addr
  <2> DEFINE n == Scheme!Lanes(b)
             w == 2 ^ (height - h)
  <2>1. n \in Nat \ {0}  BY DEF Scheme!Builds, Scheme!Lanes
  <2>2. w \in Nat \ {0}  BY PowerDoubles
  <2>3. k \in 0 .. w - 1  OBVIOUS
  <2>4. Scheme!LaneOf(b, height, h, k) = IF w >= n THEN k % n ELSE n - w + k  BY Zenon DEF Scheme!LaneOf
  <2> HIDE DEF n, w
  <2>5. Scheme!LaneOf(b, height, h, k) \in 0 .. n - 1
    <3>1. k \in Nat /\ k % n \in 0 .. n - 1  BY <2>1, <2>2, <2>3, RemainderInRange
    <3>2. w < n => n - w + k \in 0 .. n - 1  BY <2>1, <2>2, <2>3
    <3> QED BY <2>1, <2>2, <2>4, <3>1, <3>2
  <2> QED BY <2>5, Zenon DEF n
<1>3. ASSUME NEW f PROVE Is(f) <=> Follows(f, "tree", x, 0, height)
  <2> DEFINE mine(h) == [k \in 0 .. 2 ^ (height - h) - 1 |->
               IF h = 0 THEN leaf[k]
               ELSE Scheme!thash(<<f[h - 1][2 * k], f[h - 1][2 * k + 1]>>,
                                 Scheme!NodeAddr(addrs[Scheme!LaneOf(b, height, h, k)], h, k, offset))]
  <2>1. ASSUME NEW h \in 0 .. height PROVE mine(h) = Step("tree", x, h, f[h - 1])
    <3>1. Step("tree", x, h, f[h - 1])
            = [k \in 0 .. 2 ^ (x.height - h) - 1 |->
                 IF h = 0 THEN x.leaf[k]
                 ELSE Scheme!thash(<<f[h - 1][2 * k], f[h - 1][2 * k + 1]>>, Scheme!NodeAddr(x.addr, h, k, x.offset))]
      BY Zenon DEF Step
    <3>2. x.height = height /\ x.leaf = leaf /\ x.addr = addr /\ x.offset = offset  BY DEF TreeWith
    <3> HIDE DEF x
    <3>3. \A k \in 0 .. 2 ^ (height - h) - 1 : addrs[Scheme!LaneOf(b, height, h, k)] = addr  BY <1>2
    <3> QED BY <3>1, <3>2, <3>3, Zenon
  <2>2. Is(f) <=> f = [h \in 0 .. height |-> mine(h)]  BY Zenon
  <2> HIDE DEF mine, Is, x
  <2>3. [h \in 0 .. height |-> mine(h)] = [h \in 0 .. height |-> Step("tree", x, h, f[h - 1])]  BY <2>1, Zenon
  <2> QED BY <2>2, <2>3, Zenon DEF Follows
<1> DEFINE r == Rows(height, leaf, addr, offset)
<1>4. Follows(r, "tree", x, 0, height)  BY ChosenFollows, KindsStart DEF Rows
<1> HIDE DEF Is, x, r
<1>5. Is(r)  BY <1>3, <1>4
<1>6. Is(node)  BY <1>5, Zenon
<1>7. Follows(node, "tree", x, 0, height)  BY <1>3, <1>6
<1>8. node = r  BY <1>4, <1>7, KindsStart, RecursionOnce
<1> QED BY <1>1, <1>8, Zenon DEF r

(* Two hashes are the same when they hash the same with the same address. *)
LEMMA SameHash ==
  ASSUME NEW x, NEW y, NEW a, NEW c
  PROVE  /\ Scheme!thash(x, a) = Scheme!thash(y, c) <=> x = y /\ a = c
         /\ Scheme!prf_addr(a) = Scheme!prf_addr(c) <=> a = c
         /\ Scheme!thash(x, a) # Scheme!prf_addr(c)
         /\ Scheme!thash(x, a) # Scheme!Junk /\ Scheme!prf_addr(a) # Scheme!Junk
         /\ Scheme!thash(x, a).addr = a /\ Scheme!prf_addr(a).addr = a
<1>1. Scheme!thash(x, a) = Scheme!thash(y, c) <=> x = y /\ a = c  BY DEF Scheme!thash, Scheme!Term
<1>2. Scheme!prf_addr(a) = Scheme!prf_addr(c) <=> a = c  BY DEF Scheme!prf_addr, Scheme!Term
<1>3. Scheme!thash(x, a) # Scheme!prf_addr(c)  BY DEF Scheme!thash, Scheme!prf_addr, Scheme!Term
<1>4. Scheme!thash(x, a) # Scheme!Junk /\ Scheme!prf_addr(a) # Scheme!Junk
  BY DEF Scheme!thash, Scheme!prf_addr, Scheme!Term, Scheme!Junk
<1>5. Scheme!thash(x, a).addr = a /\ Scheme!prf_addr(a).addr = a  BY DEF Scheme!thash, Scheme!prf_addr, Scheme!Term
<1> QED BY <1>1, <1>2, <1>3, <1>4, <1>5

LEMMA SamePair ==
  ASSUME NEW x, NEW y, NEW u, NEW v, NEW a, NEW c
  PROVE  Scheme!thash(<<x, y>>, a) = Scheme!thash(<<u, v>>, c) <=> x = u /\ y = v /\ a = c
<1>1. <<x, y>> = <<u, v>> <=> x = u /\ y = v  OBVIOUS
<1> QED BY <1>1, SameHash

(* The way from a leaf to the root, row by row. *)
WayOf(leaf, place, offset, path, addr) ==
  [leaf |-> leaf, place |-> place, offset |-> offset, path |-> path, addr |-> addr]
Way(leaf, place, offset, path, height, addr) ==
  Chosen("way", WayOf(leaf, place, offset, path, addr), 0, height)

LEMMA ComputeRootIsTheWay ==
  ASSUME NEW leaf, NEW place, NEW offset, NEW path, NEW height \in Nat, NEW addr
  PROVE  Scheme!compute_root(leaf, place, offset, path, height, addr) = Way(leaf, place, offset, path, height, addr)[height]
<1> DEFINE x == WayOf(leaf, place, offset, path, addr)
           mine(f, h) == IF h = 0 THEN leaf
             ELSE LET a == Scheme!NodeAddr(addr, h, place \div 2 ^ h, offset)
                  IN  IF (place \div 2 ^ (h - 1)) % 2 = 1 THEN Scheme!thash(<<path[h - 1], f[h - 1]>>, a)
                      ELSE Scheme!thash(<<f[h - 1], path[h - 1]>>, a)
           Is(f) == f = [h \in 0 .. height |-> mine(f, h)]
           node == CHOOSE f : Is(f)
<1>1. Scheme!compute_root(leaf, place, offset, path, height, addr) = node[height]  BY Zenon DEF Scheme!compute_root
<1>2. ASSUME NEW f PROVE Is(f) <=> Follows(f, "way", x, 0, height)
  <2>1. ASSUME NEW h \in 0 .. height PROVE mine(f, h) = Step("way", x, h, f[h - 1])
    <3>1. x.leaf = leaf /\ x.place = place /\ x.offset = offset /\ x.path = path /\ x.addr = addr  BY DEF WayOf
    <3> HIDE DEF x
    <3>2. "way" # "tree"  OBVIOUS
    <3>3. Step("way", x, h, f[h - 1]) =
            IF h = 0 THEN x.leaf
            ELSE IF (x.place \div 2 ^ (h - 1)) % 2 = 1
                 THEN Scheme!thash(<<x.path[h - 1], f[h - 1]>>, Scheme!NodeAddr(x.addr, h, x.place \div 2 ^ h, x.offset))
                 ELSE Scheme!thash(<<f[h - 1], x.path[h - 1]>>, Scheme!NodeAddr(x.addr, h, x.place \div 2 ^ h, x.offset))
      BY <3>2, Zenon DEF Step
    <3> QED BY <3>1, <3>3, Zenon
  <2> HIDE DEF mine, x
  <2>2. [h \in 0 .. height |-> mine(f, h)] = [h \in 0 .. height |-> Step("way", x, h, f[h - 1])]  BY <2>1, Zenon
  <2> QED BY <2>2, Zenon DEF Follows
<1> DEFINE r == Way(leaf, place, offset, path, height, addr)
<1>3. Starts("way", x, 0)  BY KindsStart
<1>4. Follows(r, "way", x, 0, height)  BY <1>3, ChosenFollows DEF Way
<1> HIDE DEF Is, x, r
<1>5. Is(r)  BY <1>2, <1>4
<1>6. Is(node)  BY <1>5, Zenon
<1>7. Follows(node, "way", x, 0, height)  BY <1>2, <1>6
<1>8. node = r  BY <1>3, <1>4, <1>7, RecursionOnce
<1> QED BY <1>1, <1>8, Zenon DEF r

IsTheWay(w, leaf, place, offset, path, height, addr) ==
  /\ w[0] = leaf
  /\ \A h \in 1 .. height :
       w[h] = IF (place \div 2 ^ (h - 1)) % 2 = 1
              THEN Scheme!thash(<<path[h - 1], w[h - 1]>>, Scheme!NodeAddr(addr, h, place \div 2 ^ h, offset))
              ELSE Scheme!thash(<<w[h - 1], path[h - 1]>>, Scheme!NodeAddr(addr, h, place \div 2 ^ h, offset))

LEMMA WaySteps ==
  ASSUME NEW leaf, NEW place, NEW offset, NEW path, NEW height \in Nat, NEW addr
  PROVE  IsTheWay(Way(leaf, place, offset, path, height, addr), leaf, place, offset, path, height, addr)
<1> DEFINE x == WayOf(leaf, place, offset, path, addr)
           w == Way(leaf, place, offset, path, height, addr)
<1>1. Starts("way", x, 0) /\ 0 \in Nat /\ 0 <= height  BY KindsStart
<1>2. w = Chosen("way", x, 0, height)  BY DEF Way
<1>3. x.leaf = leaf /\ x.place = place /\ x.offset = offset /\ x.path = path /\ x.addr = addr  BY DEF WayOf
<1> HIDE DEF x, w
<1>4. ASSUME NEW h \in 0 .. height PROVE w[h] = Step("way", x, h, w[h - 1])
  BY <1>1, <1>2, ChosenStep, Zenon
<1>5. "way" # "tree"  OBVIOUS
<1>6. w[0] = leaf
  <2>1. 0 \in 0 .. height  OBVIOUS
  <2>2. w[0] = Step("way", x, 0, w[0 - 1])  BY <1>4, <2>1
  <2> QED BY <1>3, <1>5, <2>2, Zenon DEF Step
<1>7. ASSUME NEW h \in 1 .. height
      PROVE  w[h] = IF (place \div 2 ^ (h - 1)) % 2 = 1
                     THEN Scheme!thash(<<path[h - 1], w[h - 1]>>, Scheme!NodeAddr(addr, h, place \div 2 ^ h, offset))
                     ELSE Scheme!thash(<<w[h - 1], path[h - 1]>>, Scheme!NodeAddr(addr, h, place \div 2 ^ h, offset))
  <2>1. h \in 0 .. height /\ h # 0  OBVIOUS
  <2>2. w[h] = Step("way", x, h, w[h - 1])  BY <1>4, <2>1
  <2> QED BY <1>3, <1>5, <2>1, <2>2, Zenon DEF Step
<1>8. IsTheWay(w, leaf, place, offset, path, height, addr)  BY <1>6, <1>7, Zenon DEF IsTheWay
<1> QED BY <1>8 DEF w

(* A path leads to the root of a tree when leaf and path are that tree's, and then only. *)
PathIsRight(rows, place, path, s) == \A h \in 0 .. s - 1 : path[h] = rows[h][Sibling(place \div 2 ^ h)]
WayIsRight(rows, leafs, leaf, place, path, s) == leaf = leafs[place] /\ PathIsRight(rows, place, path, s)

LEMMA WayFindsTheRow ==
  ASSUME NEW height \in Nat, NEW leafs, NEW addr, NEW offset, NEW place \in Nat, place < 2 ^ height,
         NEW leaf, NEW path, NEW rows, rows = Rows(height, leafs, addr, offset),
         NEW w, IsTheWay(w, leaf, place, offset, path, height, addr),
         NEW s \in 0 .. height
  PROVE  w[s] = rows[s][place \div 2 ^ s] <=> WayIsRight(rows, leafs, leaf, place, path, s)
<1> DEFINE T == {m \in Nat : m <= height =>
                   (w[m] = rows[m][place \div 2 ^ m] <=> WayIsRight(rows, leafs, leaf, place, path, m))}
<1>1. 0 \in T
  <2>1. place \div 2 ^ 0 = place  BY HalveNot
  <2>2. place \in 0 .. 2 ^ height - 1  BY PowerDoubles
  <2>3. rows[0][place] = leafs[place]  BY <2>2, RowZero
  <2>4. w[0] = leaf  BY DEF IsTheWay
  <2>5. PathIsRight(rows, place, path, 0)  BY DEF PathIsRight
  <2> QED BY <2>1, <2>3, <2>4, <2>5 DEF WayIsRight
<1>1a. \A h \in 1 .. height :
       w[h] = IF (place \div 2 ^ (h - 1)) % 2 = 1
              THEN Scheme!thash(<<path[h - 1], w[h - 1]>>, Scheme!NodeAddr(addr, h, place \div 2 ^ h, offset))
              ELSE Scheme!thash(<<w[h - 1], path[h - 1]>>, Scheme!NodeAddr(addr, h, place \div 2 ^ h, offset))
  BY Zenon DEF IsTheWay
<1>1b. \A h \in 1 .. height : \A k \in 0 .. 2 ^ (height - h) - 1 : rows[h][k] = Joined(rows, h, k, addr, offset)
  BY RowAbove
<1>2. ASSUME NEW m \in Nat, m \in T PROVE m + 1 \in T
  <2> SUFFICES ASSUME m + 1 <= height
               PROVE  w[m + 1] = rows[m + 1][place \div 2 ^ (m + 1)] <=> WayIsRight(rows, leafs, leaf, place, path, m + 1)
    OBVIOUS
  <2> DEFINE q == place \div 2 ^ m
             t == place \div 2 ^ (m + 1)
             n == m + 1
             a == Scheme!NodeAddr(addr, n, t, offset)
             Before == WayIsRight(rows, leafs, leaf, place, path, m)
             Beyond == WayIsRight(rows, leafs, leaf, place, path, n)
  <2>1. q \in Nat /\ t = q \div 2  BY HalveOnce
  <2>2. t \in Nat /\ t < 2 ^ (height - n)  BY NodeBelow
  <2>3. n \in 1 .. height /\ n - 1 = m /\ n \in Nat  OBVIOUS
  <2>4. t \in 0 .. 2 ^ (height - n) - 1
    <3>1. 2 ^ (height - n) \in Nat  BY <2>3, PowerDoubles
    <3> QED BY <2>2, <3>1
  <2>5. w[m] = rows[m][q] <=> Before  BY <1>2
  <2>6. rows[n][t] = Joined(rows, n, t, addr, offset)  BY <1>1b, <2>3, <2>4, Zenon
  <2>7. w[n] = IF q % 2 = 1 THEN Scheme!thash(<<path[m], w[m]>>, a) ELSE Scheme!thash(<<w[m], path[m]>>, a)
    <3>1. w[n] = IF (place \div 2 ^ (n - 1)) % 2 = 1
                 THEN Scheme!thash(<<path[n - 1], w[n - 1]>>, Scheme!NodeAddr(addr, n, place \div 2 ^ n, offset))
                 ELSE Scheme!thash(<<w[n - 1], path[n - 1]>>, Scheme!NodeAddr(addr, n, place \div 2 ^ n, offset))
      BY <1>1a, <2>3, Zenon
    <3> QED BY <2>3, <3>1, Zenon
  <2>8. Beyond <=> Before /\ path[m] = rows[m][Sibling(q)]
    <3>1. \A h : h \in 0 .. n - 1 <=> h \in 0 .. m - 1 \/ h = m  OBVIOUS
    <3> QED BY <3>1, Zenon DEF WayIsRight, PathIsRight
  <2>9. rows[n][t] = Scheme!thash(<<rows[m][2 * t], rows[m][2 * t + 1]>>, a)  BY <2>3, <2>6, Zenon DEF Joined
  <2> HIDE DEF q, t, n, a, Before, Beyond
  <2>10. CASE q % 2 = 1
    <3>1. 2 * t = q - 1 /\ 2 * t + 1 = q /\ Sibling(q) = q - 1  BY <2>1, <2>10 DEF Sibling
    <3>2. w[n] = Scheme!thash(<<path[m], w[m]>>, a)  BY <2>7, <2>10
    <3>3. rows[n][t] = Scheme!thash(<<rows[m][q - 1], rows[m][q]>>, a)  BY <2>9, <3>1
    <3>4. w[n] = rows[n][t] <=> path[m] = rows[m][q - 1] /\ w[m] = rows[m][q]  BY <3>2, <3>3, SamePair
    <3>5. w[n] = rows[n][t] <=> Beyond  BY <2>5, <2>8, <3>1, <3>4
    <3> QED BY <3>5 DEF n, t, Beyond
  <2>11. CASE q % 2 = 0
    <3>1. 2 * t = q /\ 2 * t + 1 = q + 1 /\ Sibling(q) = q + 1  BY <2>1, <2>11 DEF Sibling
    <3>2. w[n] = Scheme!thash(<<w[m], path[m]>>, a)  BY <2>7, <2>11
    <3>3. rows[n][t] = Scheme!thash(<<rows[m][q], rows[m][q + 1]>>, a)  BY <2>9, <3>1
    <3>4. w[n] = rows[n][t] <=> w[m] = rows[m][q] /\ path[m] = rows[m][q + 1]  BY <3>2, <3>3, SamePair
    <3>5. w[n] = rows[n][t] <=> Beyond  BY <2>5, <2>8, <3>1, <3>4
    <3> QED BY <3>5 DEF n, t, Beyond
  <2>12. q % 2 = 1 \/ q % 2 = 0  BY <2>1
  <2> QED BY <2>10, <2>11, <2>12
<1> HIDE DEF T
<1>3. Nat \subseteq T  BY <1>1, <1>2, Induction
<1>4. s \in Nat /\ s <= height  OBVIOUS
<1> QED BY <1>3, <1>4 DEF T

LEMMA ComputeRootFinds ==
  ASSUME NEW height \in Nat, NEW leafs, NEW addr, NEW offset, NEW place \in Nat, place < 2 ^ height,
         NEW leaf, NEW path, NEW rows, rows = Rows(height, leafs, addr, offset)
  PROVE  Scheme!compute_root(leaf, place, offset, path, height, addr) = rows[height][0]
           <=> WayIsRight(rows, leafs, leaf, place, path, height)
<1> DEFINE w == Way(leaf, place, offset, path, height, addr)
<1>1. Scheme!compute_root(leaf, place, offset, path, height, addr) = w[height]  BY ComputeRootIsTheWay
<1>2. place \div 2 ^ height = 0
  <2>1. place \div 2 ^ height \in Nat /\ place \div 2 ^ height < 2 ^ (height - height)  BY NodeBelow
  <2>2. height - height = 0 /\ 2 ^ 0 = 1  OBVIOUS
  <2>3. place \div 2 ^ height < 1  BY <2>1, <2>2
  <2> QED BY <2>1, <2>3
<1>3. height \in 0 .. height  OBVIOUS
<1>4. w[height] = rows[height][place \div 2 ^ height] <=> WayIsRight(rows, leafs, leaf, place, path, height)
  BY <1>3, WaySteps, WayFindsTheRow
<1> QED BY <1>1, <1>2, <1>4

(* The address of what is found. *)
LEMMA ComputeRootAddress ==
  ASSUME NEW height \in Nat \ {0}, NEW leaf, NEW place, NEW offset, NEW path, NEW addr
  PROVE  /\ Scheme!compute_root(leaf, place, offset, path, height, addr).addr
              = Scheme!NodeAddr(addr, height, place \div 2 ^ height, offset)
         /\ Scheme!compute_root(leaf, place, offset, path, height, addr) # Scheme!Junk
<1> DEFINE w == Way(leaf, place, offset, path, height, addr)
           a == Scheme!NodeAddr(addr, height, place \div 2 ^ height, offset)
<1>1. Scheme!compute_root(leaf, place, offset, path, height, addr) = w[height]  BY ComputeRootIsTheWay
<1>2. height \in 1 .. height /\ height \in Nat  OBVIOUS
<1>3. \E x : w[height] = Scheme!thash(x, a)
  <2>1. IsTheWay(w, leaf, place, offset, path, height, addr)  BY <1>2, WaySteps
  <2> HIDE DEF w
  <2> QED BY <1>2, <2>1, Zenon DEF IsTheWay
<1>4. PICK x : w[height] = Scheme!thash(x, a)  BY <1>3
<1> HIDE DEF w, a
<1>5. w[height].addr = a /\ w[height] # Scheme!Junk  BY <1>4, SameHash
<1> QED BY <1>1, <1>5 DEF a

(* Addresses. *)
Adrs(l, t, type, pair, h, x) == [layer |-> l, tree |-> t, type |-> type, keypair |-> pair, height |-> h, index |-> x]

LEMMA AddressesDiffer ==
  ASSUME NEW l, NEW t, NEW y, NEW k, NEW h, NEW x, NEW l2, NEW t2, NEW y2, NEW k2, NEW h2, NEW x2
  PROVE  Adrs(l, t, y, k, h, x) = Adrs(l2, t2, y2, k2, h2, x2)
           <=> l = l2 /\ t = t2 /\ y = y2 /\ k = k2 /\ h = h2 /\ x = x2
BY DEF Adrs

SetFields(l, t, y, k, h, x, v) ==
  /\ Scheme!set_layer_addr(Adrs(l, t, y, k, h, x), v) = Adrs(v, t, y, k, h, x)
  /\ Scheme!set_tree_addr(Adrs(l, t, y, k, h, x), v) = Adrs(l, v, y, k, h, x)
  /\ Scheme!set_type(Adrs(l, t, y, k, h, x), v) = Adrs(l, t, v, k, h, x)
  /\ Scheme!set_keypair_addr(Adrs(l, t, y, k, h, x), v) = Adrs(l, t, y, v, h, x)
  /\ Scheme!set_chain_addr(Adrs(l, t, y, k, h, x), v) = Adrs(l, t, y, k, v, x)
  /\ Scheme!set_tree_height(Adrs(l, t, y, k, h, x), v) = Adrs(l, t, y, k, v, x)
  /\ Scheme!set_tree_index(Adrs(l, t, y, k, h, x), v) = Adrs(l, t, y, k, h, v)

LEMMA FieldsAreSet ==
  ASSUME NEW l, NEW t, NEW y, NEW k, NEW h, NEW x, NEW v
  PROVE  SetFields(l, t, y, k, h, x, v)
<1>1. Scheme!set_layer_addr(Adrs(l, t, y, k, h, x), v) = Adrs(v, t, y, k, h, x)  BY DEF Adrs, Scheme!set_layer_addr
<1>2. Scheme!set_tree_addr(Adrs(l, t, y, k, h, x), v) = Adrs(l, v, y, k, h, x)  BY DEF Adrs, Scheme!set_tree_addr
<1>3. Scheme!set_type(Adrs(l, t, y, k, h, x), v) = Adrs(l, t, v, k, h, x)  BY DEF Adrs, Scheme!set_type
<1>4. Scheme!set_keypair_addr(Adrs(l, t, y, k, h, x), v) = Adrs(l, t, y, v, h, x)  BY DEF Adrs, Scheme!set_keypair_addr
<1>5. Scheme!set_chain_addr(Adrs(l, t, y, k, h, x), v) = Adrs(l, t, y, k, v, x)  BY DEF Adrs, Scheme!set_chain_addr
<1>6. Scheme!set_tree_height(Adrs(l, t, y, k, h, x), v) = Adrs(l, t, y, k, v, x)  BY DEF Adrs, Scheme!set_tree_height
<1>7. Scheme!set_tree_index(Adrs(l, t, y, k, h, x), v) = Adrs(l, t, y, k, h, v)  BY DEF Adrs, Scheme!set_tree_index
<1> QED BY <1>1, <1>2, <1>3, <1>4, <1>5, <1>6, <1>7 DEF SetFields

LEMMA HashIsSet ==
  ASSUME NEW l, NEW t, NEW y, NEW k, NEW h, NEW v \in Nat
  PROVE  Scheme!set_hash_addr(Adrs(l, t, y, k, h, 0), v) = Adrs(l, t, y, k, h, v)
<1>1. (0 - (0 % 256)) + v = v
  <2>1. 0 % 256 = 0  OBVIOUS
  <2> QED BY <2>1
<1>2. Scheme!set_hash_addr(Adrs(l, t, y, k, h, 0), v) = Adrs(l, t, y, k, h, (0 - (0 % 256)) + v)
  BY DEF Adrs, Scheme!set_hash_addr
<1> QED BY <1>1, <1>2

LEMMA FieldsAreCopied ==
  ASSUME NEW l, NEW t, NEW y, NEW k, NEW h, NEW x, NEW l2, NEW t2, NEW y2, NEW k2, NEW h2, NEW x2
  PROVE  /\ Scheme!copy_subtree_addr(Adrs(l, t, y, k, h, x), Adrs(l2, t2, y2, k2, h2, x2)) = Adrs(l2, t2, y, k, h, x)
         /\ Scheme!copy_keypair_addr(Adrs(l, t, y, k, h, x), Adrs(l2, t2, y2, k2, h2, x2)) = Adrs(l2, t2, y, k2, h, x)
<1> DEFINE a == Adrs(l, t, y, k, h, x)
           f == Adrs(l2, t2, y2, k2, h2, x2)
<1>1. f.layer = l2 /\ f.tree = t2 /\ f.keypair = k2  BY DEF Adrs
<1>2. [[a EXCEPT !.layer = l2] EXCEPT !.tree = t2] = Adrs(l2, t2, y, k, h, x)
  <2>1. [a EXCEPT !.layer = l2] = Adrs(l2, t, y, k, h, x)  BY DEF Adrs
  <2>2. [Adrs(l2, t, y, k, h, x) EXCEPT !.tree = t2] = Adrs(l2, t2, y, k, h, x)  BY DEF Adrs
  <2> QED BY <2>1, <2>2
<1>3. [Adrs(l2, t2, y, k, h, x) EXCEPT !.keypair = k2] = Adrs(l2, t2, y, k2, h, x)  BY DEF Adrs
<1> HIDE DEF a, f
<1>4. [a EXCEPT !.layer = l2, !.tree = t2] = [[a EXCEPT !.layer = l2] EXCEPT !.tree = t2]  OBVIOUS
<1>5. [a EXCEPT !.layer = l2, !.tree = t2] = Adrs(l2, t2, y, k, h, x)  BY <1>2, <1>4
<1>6. Scheme!copy_subtree_addr(a, f) = Adrs(l2, t2, y, k, h, x)  BY <1>1, <1>5 DEF Scheme!copy_subtree_addr
<1>7. Scheme!copy_keypair_addr(a, f) = Adrs(l2, t2, y, k2, h, x)
  <2>1. Scheme!copy_keypair_addr(a, f) = [Scheme!copy_subtree_addr(a, f) EXCEPT !.keypair = f.keypair]
    BY Zenon DEF Scheme!copy_keypair_addr
  <2> QED BY <1>1, <1>3, <1>6, <2>1, Zenon
<1> QED BY <1>6, <1>7 DEF a, f

LEMMA BlankIsAt == Scheme!Blank = Adrs(0, Scheme!NoTree, 0, 0, 0, 0)
BY DEF Adrs, Scheme!Blank

LEMMA NodeAddressIs ==
  ASSUME NEW l, NEW t, NEW y, NEW k, NEW g, NEW x, NEW h, NEW place, NEW offset
  PROVE  Scheme!NodeAddr(Adrs(l, t, y, k, g, x), h, place, offset) = Adrs(l, t, y, k, h, place + offset \div 2 ^ h)
BY FieldsAreSet DEF SetFields, Scheme!NodeAddr

LEMMA TypesAre ==
  /\ Scheme!TypeWOTS = 0 /\ Scheme!TypeWOTSPK = 1 /\ Scheme!TypeHASHTREE = 2 /\ Scheme!TypeFORSTREE = 3
  /\ Scheme!TypeFORSPK = 4 /\ Scheme!TypeWOTSPRF = 5 /\ Scheme!TypeFORSPRF = 6
BY DEF Scheme!TypeWOTS, Scheme!TypeWOTSPK, Scheme!TypeHASHTREE, Scheme!TypeFORSTREE, Scheme!TypeFORSPK,
       Scheme!TypeWOTSPRF, Scheme!TypeFORSPRF

(* One-time signatures: the values of a chain of a key pair. *)
Chain(l, t, k, c, s) == Scheme!ChainValue(Adrs(l, t, 0, k, 0, 0), c, s)
IsTheChain(value, l, t, k, c) ==
  /\ value[0] = Scheme!prf_addr(Adrs(l, t, 5, k, c, 0))
  /\ \A s \in 1 .. WotsW - 1 : value[s] = Scheme!thash(<<value[s - 1]>>, Adrs(l, t, 0, k, c, s - 1))

LEMMA ChainExists ==
  ASSUME WotsW \in Nat \ {0}, NEW l, NEW t, NEW k, NEW c
  PROVE  \E value : /\ IsTheChain(value, l, t, k, c)
                    /\ \A s : Chain(l, t, k, c, s) = value[s]
<1> DEFINE a == Adrs(l, t, 0, k, c, 0)
           leaf == Adrs(l, t, 0, k, 0, 0)
           n == WotsW - 1
           r == Chosen("chain", a, 0, n)
           b == Scheme!set_hash_addr(Scheme!set_chain_addr(leaf, c), 0)
           mine(f, s) == IF s = 0 THEN Scheme!prf_addr(Scheme!set_type(b, Scheme!TypeWOTSPRF))
                         ELSE Scheme!thash(<<f[s - 1]>>, Scheme!set_hash_addr(Scheme!set_type(b, Scheme!TypeWOTS), s - 1))
           Is(f) == f = [s \in 0 .. n |-> mine(f, s)]
           value == CHOOSE f : Is(f)
<1>1. n \in Nat /\ 0 <= n  OBVIOUS
<1>2. b = a
  <2>1. Scheme!set_chain_addr(leaf, c) = Adrs(l, t, 0, k, c, 0)  BY FieldsAreSet DEF SetFields
  <2> QED BY <2>1, HashIsSet
<1>3. \A s : Chain(l, t, k, c, s) = value[s]
  BY Zenon DEF Chain, Scheme!ChainValue
<1>4. "chain" # "tree" /\ "chain" # "way"  OBVIOUS
<1> HIDE DEF n
<1>5. ASSUME NEW f PROVE Is(f) <=> Follows(f, "chain", a, 0, n)
  <2>1. ASSUME NEW s \in 0 .. n PROVE mine(f, s) = Step("chain", a, s, f[s - 1])
    <3> HIDE DEF a, b
    <3>1. Step("chain", a, s, f[s - 1]) =
            IF s = 0 THEN Scheme!prf_addr(Scheme!set_type(a, Scheme!TypeWOTSPRF))
            ELSE Scheme!thash(<<f[s - 1]>>, Scheme!set_hash_addr(Scheme!set_type(a, Scheme!TypeWOTS), s - 1))
      BY <1>4, Zenon DEF Step
    <3> QED BY <1>2, <3>1, Zenon
  <2> HIDE DEF mine, a
  <2>2. [s \in 0 .. n |-> mine(f, s)] = [s \in 0 .. n |-> Step("chain", a, s, f[s - 1])]  BY <2>1, Zenon
  <2> QED BY <2>2, Zenon DEF Follows
<1>6. Starts("chain", a, 0)  BY KindsStart
<1>7. Follows(r, "chain", a, 0, n)  BY <1>1, <1>6, ChosenFollows
<1> HIDE DEF Is, r
<1>8. Is(r)  BY <1>5, <1>7
<1>9. Is(value)  BY <1>8, Zenon
<1>10. Follows(value, "chain", a, 0, n)  BY <1>5, <1>9
<1>11. ASSUME NEW s \in 0 .. n PROVE value[s] = Step("chain", a, s, value[s - 1])
  <2> HIDE DEF value, a
  <2> QED BY <1>10, Zenon DEF Follows
<1> HIDE DEF value
<1>12. value[0] = Scheme!prf_addr(Adrs(l, t, 5, k, c, 0))
  <2>1. 0 \in 0 .. n  BY <1>1
  <2>2. value[0] = Step("chain", a, 0, value[0 - 1])  BY <1>11, <2>1
  <2>3. Scheme!set_type(a, Scheme!TypeWOTSPRF) = Adrs(l, t, 5, k, c, 0)  BY FieldsAreSet, TypesAre DEF SetFields
  <2> HIDE DEF a
  <2>4. Step("chain", a, 0, value[0 - 1]) = Scheme!prf_addr(Scheme!set_type(a, Scheme!TypeWOTSPRF))
    BY <1>4, Zenon DEF Step
  <2> QED BY <2>2, <2>3, <2>4, Zenon
<1>13. ASSUME NEW s \in 1 .. WotsW - 1 PROVE value[s] = Scheme!thash(<<value[s - 1]>>, Adrs(l, t, 0, k, c, s - 1))
  <2>1. s \in 0 .. n /\ s # 0 /\ s - 1 \in Nat  BY DEF n
  <2>2. value[s] = Step("chain", a, s, value[s - 1])  BY <1>11, <2>1
  <2>3. Scheme!set_type(a, Scheme!TypeWOTS) = Adrs(l, t, 0, k, c, 0)  BY FieldsAreSet, TypesAre DEF SetFields
  <2>4. Scheme!set_hash_addr(Scheme!set_type(a, Scheme!TypeWOTS), s - 1) = Adrs(l, t, 0, k, c, s - 1)
    BY <2>1, <2>3, HashIsSet
  <2> HIDE DEF a
  <2>5. Step("chain", a, s, value[s - 1])
          = Scheme!thash(<<value[s - 1]>>, Scheme!set_hash_addr(Scheme!set_type(a, Scheme!TypeWOTS), s - 1))
    BY <1>4, <2>1, Zenon DEF Step
  <2> QED BY <2>2, <2>4, <2>5, Zenon
<1>14. IsTheChain(value, l, t, k, c)  BY <1>12, <1>13 DEF IsTheChain
<1> QED BY <1>3, <1>14

(* Where a value is in which chain can be told from it. *)
PlaceOf(v, l, t, k, c, s) ==
  IF s = 0 THEN v = Scheme!prf_addr(Adrs(l, t, 5, k, c, 0))
  ELSE \E x : v = Scheme!thash(x, Adrs(l, t, 0, k, c, s - 1))

LEMMA ChainPlaces ==
  ASSUME WotsW \in Nat \ {0}, NEW l, NEW t, NEW k, NEW c, NEW s \in 0 .. WotsW - 1
  PROVE  PlaceOf(Chain(l, t, k, c, s), l, t, k, c, s)
<1>1. PICK value : IsTheChain(value, l, t, k, c) /\ Chain(l, t, k, c, s) = value[s]  BY ChainExists
<1>2. CASE s = 0  BY <1>1, <1>2, Zenon DEF IsTheChain, PlaceOf
<1>3. CASE s # 0
  <2>1. s \in 1 .. WotsW - 1  BY <1>3
  <2> QED BY <1>1, <1>3, <2>1, Zenon DEF IsTheChain, PlaceOf
<1> QED BY <1>2, <1>3

SamePlace(l, t, k, c, s, l2, t2, k2, c2, s2) == l = l2 /\ t = t2 /\ k = k2 /\ c = c2 /\ s = s2

LEMMA ChainsDiffer ==
  ASSUME WotsW \in Nat \ {0}, NEW l, NEW t, NEW k, NEW c, NEW s \in 0 .. WotsW - 1,
         NEW l2, NEW t2, NEW k2, NEW c2, NEW s2 \in 0 .. WotsW - 1,
         Chain(l, t, k, c, s) = Chain(l2, t2, k2, c2, s2)
  PROVE  SamePlace(l, t, k, c, s, l2, t2, k2, c2, s2)
<1> DEFINE v == Chain(l, t, k, c, s)
<1>1. PlaceOf(v, l, t, k, c, s) /\ PlaceOf(v, l2, t2, k2, c2, s2)  BY ChainPlaces
<1> HIDE DEF v
<1>2. CASE s = 0 /\ s2 = 0
  <2>1. Adrs(l, t, 5, k, c, 0) = Adrs(l2, t2, 5, k2, c2, 0)
    <3>1. v = Scheme!prf_addr(Adrs(l, t, 5, k, c, 0)) /\ v = Scheme!prf_addr(Adrs(l2, t2, 5, k2, c2, 0))
      BY <1>1, <1>2 DEF PlaceOf
    <3> QED BY <3>1, SameHash
  <2> QED BY <1>2, <2>1, AddressesDiffer DEF SamePlace
<1>3. CASE s # 0 /\ s2 # 0
  <2>1. PICK x, y : v = Scheme!thash(x, Adrs(l, t, 0, k, c, s - 1)) /\ v = Scheme!thash(y, Adrs(l2, t2, 0, k2, c2, s2 - 1))
    BY <1>1, <1>3 DEF PlaceOf
  <2>2. Adrs(l, t, 0, k, c, s - 1) = Adrs(l2, t2, 0, k2, c2, s2 - 1)  BY <2>1, SameHash
  <2>3. l = l2 /\ t = t2 /\ k = k2 /\ c = c2 /\ s - 1 = s2 - 1  BY <2>2, AddressesDiffer
  <2>4. s = s2  BY <2>3
  <2> QED BY <2>3, <2>4 DEF SamePlace
<1>4. CASE s = 0 /\ s2 # 0
  <2>1. PICK y : v = Scheme!prf_addr(Adrs(l, t, 5, k, c, 0)) /\ v = Scheme!thash(y, Adrs(l2, t2, 0, k2, c2, s2 - 1))
    BY <1>1, <1>4 DEF PlaceOf
  <2> QED BY <2>1, SameHash
<1>5. CASE s # 0 /\ s2 = 0
  <2>1. PICK y : v = Scheme!prf_addr(Adrs(l2, t2, 5, k2, c2, 0)) /\ v = Scheme!thash(y, Adrs(l, t, 0, k, c, s - 1))
    BY <1>1, <1>5 DEF PlaceOf
  <2> QED BY <2>1, SameHash
<1> QED BY <1>2, <1>3, <1>4, <1>5

LEMMA ChainIsNotJunk ==
  ASSUME WotsW \in Nat \ {0}, NEW l, NEW t, NEW k, NEW c, NEW s \in 0 .. WotsW - 1
  PROVE  Chain(l, t, k, c, s) # Scheme!Junk
<1> DEFINE v == Chain(l, t, k, c, s)
<1>1. PlaceOf(v, l, t, k, c, s)  BY ChainPlaces
<1> HIDE DEF v
<1>2. v # Scheme!Junk  BY <1>1, SameHash DEF PlaceOf
<1> QED BY <1>2 DEF v

(* From any place of a chain to its end. *)
IsTheClimb(g, v, o, addr) ==
  /\ g[o] = v
  /\ \A s \in o + 1 .. WotsW - 1 : g[s] = Scheme!thash(<<g[s - 1]>>, Scheme!set_hash_addr(addr, s - 1))

LEMMA ClimbExists ==
  ASSUME WotsW \in Nat \ {0}, NEW v, NEW o \in 0 .. WotsW - 1, NEW addr
  PROVE  \E g : IsTheClimb(g, v, o, addr) /\ Scheme!gen_chain(v, o, addr) = g[WotsW - 1]
<1> DEFINE x == [from |-> o, value |-> v, addr |-> addr]
           n == WotsW - 1
           r == Chosen("climb", x, o, n)
           mine(f, s) == IF s = o THEN v ELSE Scheme!thash(<<f[s - 1]>>, Scheme!set_hash_addr(addr, s - 1))
           Is(f) == f = [s \in o .. n |-> mine(f, s)]
           value == CHOOSE f : Is(f)
<1>1. o \in Nat /\ n \in Nat /\ o <= n  OBVIOUS
<1>2. Scheme!gen_chain(v, o, addr) = value[n]  BY Zenon DEF Scheme!gen_chain
<1>3. x.from = o /\ x.value = v /\ x.addr = addr  OBVIOUS
<1>4. "climb" # "tree" /\ "climb" # "way" /\ "climb" # "chain"  OBVIOUS
<1> HIDE DEF n, x
<1>5. ASSUME NEW f PROVE Is(f) <=> Follows(f, "climb", x, o, n)
  <2>1. ASSUME NEW s \in o .. n PROVE mine(f, s) = Step("climb", x, s, f[s - 1])
    BY <1>3, <1>4, Zenon DEF Step
  <2> HIDE DEF mine
  <2>2. [s \in o .. n |-> mine(f, s)] = [s \in o .. n |-> Step("climb", x, s, f[s - 1])]  BY <2>1, Zenon
  <2> QED BY <2>2, Zenon DEF Follows
<1>6. Starts("climb", x, o)  BY <1>3, KindsStart
<1>7. Follows(r, "climb", x, o, n)  BY <1>1, <1>6, ChosenFollows
<1> HIDE DEF Is, r
<1>8. Is(r)  BY <1>5, <1>7
<1>9. Is(value)  BY <1>8, Zenon
<1>10. Follows(value, "climb", x, o, n)  BY <1>5, <1>9
<1> HIDE DEF value
<1>11. ASSUME NEW s \in o .. n PROVE value[s] = Step("climb", x, s, value[s - 1])
  BY <1>10, Zenon DEF Follows
<1>12. value[o] = v
  <2>1. o \in o .. n  BY <1>1
  <2>2. value[o] = Step("climb", x, o, value[o - 1])  BY <1>11, <2>1
  <2> QED BY <1>3, <1>4, <2>2, Zenon DEF Step
<1>13. ASSUME NEW s \in o + 1 .. WotsW - 1
       PROVE  value[s] = Scheme!thash(<<value[s - 1]>>, Scheme!set_hash_addr(addr, s - 1))
  <2>1. s \in o .. n /\ s # o  BY <1>1 DEF n
  <2>2. value[s] = Step("climb", x, s, value[s - 1])  BY <1>11, <2>1
  <2> QED BY <1>3, <1>4, <2>1, <2>2, Zenon DEF Step
<1>14. IsTheClimb(value, v, o, addr)  BY <1>12, <1>13, Zenon DEF IsTheClimb
<1> QED BY <1>2, <1>14, Zenon DEF n

LEMMA SameSingle ==
  ASSUME NEW x, NEW y, NEW a
  PROVE  Scheme!thash(<<x>>, a) = Scheme!thash(<<y>>, a) <=> x = y
<1>1. <<x>> = <<y>> <=> x = y  OBVIOUS
<1> QED BY <1>1, SameHash

LEMMA ClimbFinds ==
  ASSUME WotsW \in Nat \ {0}, NEW l, NEW t, NEW k, NEW c, NEW o \in 0 .. WotsW - 1, NEW v
  PROVE  Scheme!gen_chain(v, o, Adrs(l, t, 0, k, c, 0)) = Chain(l, t, k, c, WotsW - 1) <=> v = Chain(l, t, k, c, o)
<1> DEFINE a == Adrs(l, t, 0, k, c, 0)
           n == WotsW - 1
<1>1. PICK g : IsTheClimb(g, v, o, a) /\ Scheme!gen_chain(v, o, a) = g[n]  BY ClimbExists
<1>2. PICK value : IsTheChain(value, l, t, k, c) /\ \A s : Chain(l, t, k, c, s) = value[s]  BY ChainExists
<1>3. g[o] = v  BY <1>1, Zenon DEF IsTheClimb
<1>4. ASSUME NEW s \in o + 1 .. n PROVE g[s] = Scheme!thash(<<g[s - 1]>>, Adrs(l, t, 0, k, c, s - 1))
  <2>1. g[s] = Scheme!thash(<<g[s - 1]>>, Scheme!set_hash_addr(a, s - 1))  BY <1>1, Zenon DEF IsTheClimb
  <2>2. s - 1 \in Nat  OBVIOUS
  <2> QED BY <2>1, <2>2, HashIsSet
<1>5. ASSUME NEW s \in o + 1 .. n PROVE value[s] = Scheme!thash(<<value[s - 1]>>, Adrs(l, t, 0, k, c, s - 1))
  <2>1. s \in 1 .. WotsW - 1  OBVIOUS
  <2> QED BY <1>2, <2>1, Zenon DEF IsTheChain
<1> DEFINE T == {m \in Nat : o + m <= n => (g[o + m] = value[o + m] <=> v = value[o])}
<1> HIDE DEF n
<1>6. 0 \in T
  <2>1. o + 0 = o  OBVIOUS
  <2> QED BY <1>3, <2>1
<1>7. ASSUME NEW m \in Nat, m \in T PROVE m + 1 \in T
  <2> SUFFICES ASSUME o + (m + 1) <= n PROVE g[o + (m + 1)] = value[o + (m + 1)] <=> v = value[o]  OBVIOUS
  <2> DEFINE s == o + (m + 1)
             b == Adrs(l, t, 0, k, c, s - 1)
  <2>1. n \in Nat /\ o \in Nat  BY DEF n
  <2>2. s \in o + 1 .. n /\ s - 1 = o + m /\ o + m <= n  BY <2>1
  <2>3. g[s - 1] = value[s - 1] <=> v = value[o]  BY <1>7, <2>2
  <2> HIDE DEF s
  <2>4. g[s] = Scheme!thash(<<g[s - 1]>>, b) /\ value[s] = Scheme!thash(<<value[s - 1]>>, b)  BY <1>4, <1>5, <2>2
  <2> HIDE DEF b
  <2>5. g[s] = value[s] <=> g[s - 1] = value[s - 1]  BY <2>4, SameSingle
  <2> QED BY <2>3, <2>5 DEF s
<1> HIDE DEF T
<1>8. Nat \subseteq T  BY <1>6, <1>7, Induction
<1>9. n - o \in Nat /\ o + (n - o) = n /\ n <= n  BY DEF n
<1>10. n - o \in T  BY <1>8, <1>9
<1>11. g[n] = value[n] <=> v = value[o]  BY <1>9, <1>10 DEF T
<1> QED BY <1>1, <1>2, <1>11 DEF n

(* The leaf of a key pair, and how the verifier comes to it. *)
Leaf(l, t, k) == Scheme!thash([c \in 1 .. WotsLEN |-> Chain(l, t, k, c - 1, WotsW - 1)], Adrs(l, t, 1, k, 0, 0))
ChainsAreRight(wots, l, t, k, turns) == \A c \in 0 .. WotsLEN - 1 : wots[c] = Chain(l, t, k, c, turns[c])
LeafFound(wots, l, t, k, turns) ==
  Scheme!thash(Scheme!wots_pk_from_sig(wots, turns, Adrs(l, t, 0, k, 0, 0)), Adrs(l, t, 1, k, 0, 0))

LEMMA LeafIsFound ==
  ASSUME WotsW \in Nat \ {0}, WotsLEN \in Nat, NEW l, NEW t, NEW k,
         NEW turns \in [0 .. WotsLEN - 1 -> 0 .. WotsW - 1], NEW wots
  PROVE  LeafFound(wots, l, t, k, turns) = Leaf(l, t, k) <=> ChainsAreRight(wots, l, t, k, turns)
<1> DEFINE w == WotsW - 1
           ends(c) == Scheme!gen_chain(wots[c - 1], turns[c - 1], Adrs(l, t, 0, k, c - 1, 0))
           mine == [c \in 1 .. WotsLEN |-> ends(c)]
           key == [c \in 1 .. WotsLEN |-> Chain(l, t, k, c - 1, w)]
<1>1. Scheme!wots_pk_from_sig(wots, turns, Adrs(l, t, 0, k, 0, 0)) = mine
  <2>1. ASSUME NEW c \in 1 .. WotsLEN
        PROVE  Scheme!set_chain_addr(Adrs(l, t, 0, k, 0, 0), c - 1) = Adrs(l, t, 0, k, c - 1, 0)
    BY FieldsAreSet DEF SetFields
  <2> QED BY <2>1, Zenon DEF Scheme!wots_pk_from_sig
<1>2. ASSUME NEW c \in 1 .. WotsLEN
      PROVE  ends(c) = Chain(l, t, k, c - 1, w) <=> wots[c - 1] = Chain(l, t, k, c - 1, turns[c - 1])
  <2>1. c - 1 \in 0 .. WotsLEN - 1  OBVIOUS
  <2>2. turns[c - 1] \in 0 .. WotsW - 1  BY <2>1, Zenon
  <2> DEFINE o == turns[c - 1]
             d == c - 1
             v == wots[c - 1]
  <2>3. o \in 0 .. WotsW - 1  BY <2>2
  <2> HIDE DEF o, d, v
  <2>4. Scheme!gen_chain(v, o, Adrs(l, t, 0, k, d, 0)) = Chain(l, t, k, d, WotsW - 1) <=> v = Chain(l, t, k, d, o)
    BY <2>3, ClimbFinds
  <2> QED BY <2>4 DEF o, d, v
<1> HIDE DEF w, ends
<1>3. mine = key <=> \A c \in 1 .. WotsLEN : ends(c) = Chain(l, t, k, c - 1, w)
  <2>1. ASSUME mine = key, NEW c \in 1 .. WotsLEN PROVE ends(c) = Chain(l, t, k, c - 1, w)
    <3>1. mine[c] = ends(c) /\ key[c] = Chain(l, t, k, c - 1, w)  BY Zenon
    <3> QED BY <2>1, <3>1, Zenon
  <2>2. ASSUME \A c \in 1 .. WotsLEN : ends(c) = Chain(l, t, k, c - 1, w) PROVE mine = key
    BY <2>2, Zenon
  <2> QED BY <2>1, <2>2
<1> HIDE DEF mine, key
<1>4. LeafFound(wots, l, t, k, turns) = Leaf(l, t, k) <=> mine = key
  <2>1. LeafFound(wots, l, t, k, turns) = Scheme!thash(mine, Adrs(l, t, 1, k, 0, 0))  BY <1>1, Zenon DEF LeafFound
  <2>2. Leaf(l, t, k) = Scheme!thash(key, Adrs(l, t, 1, k, 0, 0))  BY Zenon DEF Leaf, key, w
  <2> QED BY <2>1, <2>2, SameHash
<1>5. (\A c \in 1 .. WotsLEN : wots[c - 1] = Chain(l, t, k, c - 1, turns[c - 1])) <=> ChainsAreRight(wots, l, t, k, turns)
  <2>1. ASSUME \A c \in 1 .. WotsLEN : wots[c - 1] = Chain(l, t, k, c - 1, turns[c - 1]), NEW c \in 0 .. WotsLEN - 1
        PROVE  wots[c] = Chain(l, t, k, c, turns[c])
    <3>1. c + 1 \in 1 .. WotsLEN /\ (c + 1) - 1 = c  OBVIOUS
    <3> QED BY <2>1, <3>1
  <2>2. ASSUME NEW c \in 1 .. WotsLEN PROVE c - 1 \in 0 .. WotsLEN - 1  OBVIOUS
  <2> QED BY <2>1, <2>2, Zenon DEF ChainsAreRight
<1> QED BY <1>2, <1>3, <1>4, <1>5

(* What treehash gives in every build. *)
HashedTree(height, leaf, addr, place, offset) ==
  [root |-> Rows(height, leaf, addr, offset)[height][0],
   path |-> [h \in 0 .. height - 1 |-> Rows(height, leaf, addr, offset)[h][Sibling(place \div 2 ^ h)]]]

LEMMA TreehashIs ==
  ASSUME NEW b \in Scheme!Builds, NEW height \in Nat, NEW leaf, NEW addr, NEW addrs, NEW place, NEW offset,
         addrs = [lane \in 0 .. Scheme!Lanes(b) - 1 |-> addr]
  PROVE  Scheme!treehash(b, height, leaf, addrs, place, offset) = HashedTree(height, leaf, addr, place, offset)
<1> DEFINE r == Rows(height, leaf, addr, offset)
<1>1. Scheme!Node(b, height, leaf, addrs, offset, height, 0) = r[height][0]
  <2>1. height \in 0 .. height  OBVIOUS
  <2> QED BY <2>1, NodeIsInItsRow
<1>2. ASSUME NEW h \in 0 .. height - 1, NEW at PROVE Scheme!Node(b, height, leaf, addrs, offset, h, at) = r[h][at]
  <2>1. h \in 0 .. height  OBVIOUS
  <2> QED BY <2>1, NodeIsInItsRow
<1> DEFINE their == [h \in 0 .. height - 1 |->
              LET k == place \div 2 ^ h
              IN  Scheme!Node(b, height, leaf, addrs, offset, h, IF k % 2 = 0 THEN k + 1 ELSE k - 1)]
<1> HIDE DEF r
<1>3. their = [h \in 0 .. height - 1 |-> r[h][Sibling(place \div 2 ^ h)]]
  BY <1>2, Zenon DEF Sibling
<1>4. Scheme!treehash(b, height, leaf, addrs, place, offset)
        = [root |-> Scheme!Node(b, height, leaf, addrs, offset, height, 0), path |-> their]
  BY Zenon DEF Scheme!treehash
<1> HIDE DEF their
<1> QED BY <1>1, <1>3, <1>4, Zenon DEF HashedTree, r

LEMMA GenLeafIs ==
  ASSUME NEW l, NEW t, NEW k
  PROVE  Scheme!wots_gen_leaf(Adrs(l, t, 0, 0, 0, 0), Adrs(l, t, 1, 0, 0, 0), k) = Leaf(l, t, k)
<1>1. Scheme!set_keypair_addr(Adrs(l, t, 0, 0, 0, 0), k) = Adrs(l, t, 0, k, 0, 0)  BY FieldsAreSet DEF SetFields
<1>2. Scheme!set_keypair_addr(Adrs(l, t, 1, 0, 0, 0), k) = Adrs(l, t, 1, k, 0, 0)  BY FieldsAreSet DEF SetFields
<1>3. Scheme!wots_gen_leaf(Adrs(l, t, 0, 0, 0, 0), Adrs(l, t, 1, 0, 0, 0), k)
        = Scheme!thash([c \in 1 .. WotsLEN |->
            Scheme!ChainValue(Scheme!set_keypair_addr(Adrs(l, t, 0, 0, 0, 0), k), c - 1, WotsW - 1)],
            Scheme!set_keypair_addr(Adrs(l, t, 1, 0, 0, 0), k))
  BY Zenon DEF Scheme!wots_gen_leaf
<1> QED BY <1>1, <1>2, <1>3, Zenon DEF Leaf, Chain

(* A layer's tree, and what the signer puts in the signature for it. *)
LayerLeafs(l, t) == [k \in Scheme!Leaves(TREE_HEIGHT) |-> Leaf(l, t, k)]
LayerRows(l, t) == Rows(TREE_HEIGHT, LayerLeafs(l, t), Adrs(l, t, 2, 0, 0, 0), 0)
LayerRoot(l, t) == LayerRows(l, t)[TREE_HEIGHT][0]
LayerWots(l, t, k, turns) == [c \in 0 .. WotsLEN - 1 |-> Chain(l, t, k, c, turns[c])]
LayerPath(l, t, k) == [h \in 0 .. TREE_HEIGHT - 1 |-> LayerRows(l, t)[h][Sibling(k \div 2 ^ h)]]
LayerSigned(l, t, k, turns) ==
  [wots |-> LayerWots(l, t, k, turns), path |-> LayerPath(l, t, k), root |-> LayerRoot(l, t)]

LEMMA MerkleSignIs ==
  ASSUME SchemeSizes, NEW b \in Scheme!Builds, NEW turns, NEW l, NEW t, NEW x, NEW y, NEW k \in Scheme!Leaves(TREE_HEIGHT)
  PROVE  Scheme!merkle_sign(b, turns, Adrs(l, t, 0, x, 0, 0), Adrs(l, t, y, 0, 0, 0), k) = LayerSigned(l, t, k, turns)
<1> DEFINE wots == Adrs(l, t, 0, x, 0, 0)
           trees == Adrs(l, t, y, 0, 0, 0)
           leaf_addr == Scheme!copy_subtree_addr(Scheme!Blank, wots)
           pk_addr == Scheme!set_type(Scheme!copy_subtree_addr(Scheme!Blank, wots), Scheme!TypeWOTSPK)
           addr == IF b = "ref" THEN Scheme!set_type(trees, Scheme!TypeHASHTREE)
                   ELSE Scheme!copy_subtree_addr(Scheme!set_type(Scheme!Blank, Scheme!TypeHASHTREE), trees)
           leafs == [n \in Scheme!Leaves(TREE_HEIGHT) |-> Scheme!wots_gen_leaf(leaf_addr, pk_addr, n)]
           addrs == [lane \in 0 .. Scheme!Lanes(b) - 1 |-> addr]
           hashed == Scheme!treehash(b, TREE_HEIGHT, leafs, addrs, k, 0)
           slot == k % Scheme!Lanes(b)
           first == k - slot
           signs == [c \in 0 .. WotsLEN - 1 |->
                      Scheme!ChainValue(Scheme!set_keypair_addr(leaf_addr, first + slot), c, turns[c])]
<1>1. Scheme!merkle_sign(b, turns, wots, trees, k) = [wots |-> signs, path |-> hashed.path, root |-> hashed.root]
  BY Zenon DEF Scheme!merkle_sign
<1>2. leaf_addr = Adrs(l, t, 0, 0, 0, 0)  BY BlankIsAt, FieldsAreCopied
<1>3. pk_addr = Adrs(l, t, 1, 0, 0, 0)
  <2>1. Scheme!set_type(Adrs(l, t, 0, 0, 0, 0), 1) = Adrs(l, t, 1, 0, 0, 0)  BY FieldsAreSet DEF SetFields
  <2> QED BY <1>2, <2>1, TypesAre
<1>4. addr = Adrs(l, t, 2, 0, 0, 0)
  <2>1. Scheme!set_type(trees, 2) = Adrs(l, t, 2, 0, 0, 0)  BY FieldsAreSet DEF SetFields
  <2>2. Scheme!set_type(Scheme!Blank, 2) = Adrs(0, Scheme!NoTree, 2, 0, 0, 0)  BY BlankIsAt, FieldsAreSet DEF SetFields
  <2>3. Scheme!copy_subtree_addr(Adrs(0, Scheme!NoTree, 2, 0, 0, 0), trees) = Adrs(l, t, 2, 0, 0, 0)  BY FieldsAreCopied
  <2> HIDE DEF trees
  <2> QED BY <2>1, <2>2, <2>3, TypesAre
<1>5. leafs = LayerLeafs(l, t)
  <2>1. ASSUME NEW n PROVE Scheme!wots_gen_leaf(leaf_addr, pk_addr, n) = Leaf(l, t, n)
    <3> HIDE DEF leaf_addr, pk_addr
    <3> QED BY <1>2, <1>3, GenLeafIs
  <2> HIDE DEF leaf_addr, pk_addr
  <2> QED BY <2>1, Zenon DEF LayerLeafs
<1>6. first + slot = k
  <2>1. k \in Nat
    <3>1. 2 ^ TREE_HEIGHT \in Nat  BY PowerDoubles DEF SchemeSizes, Scheme!SizesAssumption
    <3> QED BY <3>1 DEF Scheme!Leaves
  <2>2. Scheme!Lanes(b) \in Nat \ {0}  BY DEF Scheme!Builds, Scheme!Lanes
  <2>3. slot \in Nat  BY <2>1, <2>2
  <2> HIDE DEF slot
  <2> QED BY <2>1, <2>3
<1>7. signs = LayerWots(l, t, k, turns)
  <2>1. Scheme!set_keypair_addr(Adrs(l, t, 0, 0, 0, 0), k) = Adrs(l, t, 0, k, 0, 0)  BY FieldsAreSet DEF SetFields
  <2> HIDE DEF leaf_addr, first, slot
  <2>2. Scheme!set_keypair_addr(leaf_addr, first + slot) = Adrs(l, t, 0, k, 0, 0)  BY <1>2, <1>6, <2>1, Zenon
  <2> QED BY <2>2, Zenon DEF LayerWots, Chain
<1>8. hashed = HashedTree(TREE_HEIGHT, leafs, addr, k, 0)
  <2>1. TREE_HEIGHT \in Nat  BY DEF SchemeSizes, Scheme!SizesAssumption
  <2> HIDE DEF leafs, addr
  <2> QED BY <2>1, TreehashIs
<1> HIDE DEF hashed, signs, leafs, addr, addrs
<1>9. hashed.root = LayerRoot(l, t)  BY <1>4, <1>5, <1>8 DEF HashedTree, LayerRoot, LayerRows
<1>10. hashed.path = LayerPath(l, t, k)  BY <1>4, <1>5, <1>8 DEF HashedTree, LayerPath, LayerRows
<1> QED BY <1>1, <1>7, <1>9, <1>10, Zenon DEF LayerSigned

(* Where a root comes from can be told from it. *)
LEMMA LayerRootAddress ==
  ASSUME SchemeSizes, NEW l, NEW t
  PROVE  \E x, h, n : LayerRoot(l, t) = Scheme!thash(x, Adrs(l, t, 2, 0, h, n))
<1>1. TREE_HEIGHT \in Nat \ {0}  BY DEF SchemeSizes, Scheme!SizesAssumption
<1>2. TREE_HEIGHT \in Nat /\ TREE_HEIGHT \in 1 .. TREE_HEIGHT /\ TREE_HEIGHT - TREE_HEIGHT = 0  BY <1>1
<1>3. 0 \in 0 .. 2 ^ (TREE_HEIGHT - TREE_HEIGHT) - 1
  <2>1. 2 ^ 0 = 1  OBVIOUS
  <2> QED BY <1>2, <2>1
<1> DEFINE a == Adrs(l, t, 2, 0, 0, 0)
           leafs == LayerLeafs(l, t)
           r == Rows(TREE_HEIGHT, leafs, a, 0)
           H == TREE_HEIGHT
           x == <<r[H - 1][2 * 0], r[H - 1][2 * 0 + 1]>>
<1>4. r[H][0] = Joined(r, H, 0, a, 0)
  <2> HIDE DEF a, leafs
  <2>1. \A h \in 1 .. TREE_HEIGHT : \A k \in 0 .. 2 ^ (TREE_HEIGHT - h) - 1 : r[h][k] = Joined(r, h, k, a, 0)
    BY <1>2, RowAbove
  <2> QED BY <1>2, <1>3, <2>1, Zenon
<1>5. Joined(r, H, 0, a, 0) = Scheme!thash(x, Scheme!NodeAddr(a, H, 0, 0))  BY Zenon DEF Joined
<1>6. Scheme!NodeAddr(a, H, 0, 0) = Adrs(l, t, 2, 0, H, 0 + 0 \div 2 ^ H)  BY NodeAddressIs
<1>7. LayerRoot(l, t) = r[H][0]  BY DEF LayerRoot, LayerRows
<1> HIDE DEF r, a, x, H
<1>8. LayerRoot(l, t) = Scheme!thash(x, Adrs(l, t, 2, 0, H, 0 + 0 \div 2 ^ H))  BY <1>4, <1>5, <1>6, <1>7
<1> QED BY <1>8

(* What the verifier makes of a layer. *)
LayerVerified(l, t, k, s, turns) ==
  Scheme!compute_root(LeafFound(s.wots, l, t, k, turns), k, 0, s.path, TREE_HEIGHT, Adrs(l, t, 2, 0, 0, 0))
LayerIsRight(l, t, k, s, turns) ==
  /\ ChainsAreRight(s.wots, l, t, k, turns)
  /\ PathIsRight(LayerRows(l, t), k, s.path, TREE_HEIGHT)

LEMMA LayerIsVerified ==
  ASSUME SchemeSizes, NEW l, NEW t, NEW k \in Scheme!Leaves(TREE_HEIGHT), NEW s,
         NEW turns \in [0 .. WotsLEN - 1 -> 0 .. WotsW - 1], NEW l2, NEW t2
  PROVE  LayerVerified(l, t, k, s, turns) = LayerRoot(l2, t2) <=> l = l2 /\ t = t2 /\ LayerIsRight(l, t, k, s, turns)
<1>1. TREE_HEIGHT \in Nat \ {0} /\ WotsW \in Nat \ {0} /\ WotsLEN \in Nat  BY DEF SchemeSizes, Scheme!SizesAssumption
<1>2. k \in Nat /\ k < 2 ^ TREE_HEIGHT
  <2>1. 2 ^ TREE_HEIGHT \in Nat  BY <1>1, PowerDoubles
  <2> QED BY <2>1 DEF Scheme!Leaves
<1> DEFINE found == LeafFound(s.wots, l, t, k, turns)
           rows == LayerRows(l, t)
           a == Adrs(l, t, 2, 0, 0, 0)
           leafs == LayerLeafs(l, t)
           v == LayerVerified(l, t, k, s, turns)
<1>3. v = LayerRoot(l, t) <=> WayIsRight(rows, leafs, found, k, s.path, TREE_HEIGHT)
  <2>1. TREE_HEIGHT \in Nat  BY <1>1
  <2>2. rows = Rows(TREE_HEIGHT, leafs, a, 0)  BY DEF LayerRows
  <2>3. v = Scheme!compute_root(found, k, 0, s.path, TREE_HEIGHT, a)  BY DEF LayerVerified
  <2>4. LayerRoot(l, t) = rows[TREE_HEIGHT][0]  BY DEF LayerRoot
  <2> HIDE DEF found, rows, a, leafs, v
  <2>5. Scheme!compute_root(found, k, 0, s.path, TREE_HEIGHT, a) = rows[TREE_HEIGHT][0]
          <=> WayIsRight(rows, leafs, found, k, s.path, TREE_HEIGHT)
    BY <1>2, <2>1, <2>2, ComputeRootFinds
  <2> QED BY <2>3, <2>4, <2>5
<1>4. leafs[k] = Leaf(l, t, k)  BY Zenon DEF LayerLeafs
<1>5. found = Leaf(l, t, k) <=> ChainsAreRight(s.wots, l, t, k, turns)  BY <1>1, LeafIsFound
<1>6. WayIsRight(rows, leafs, found, k, s.path, TREE_HEIGHT) <=> LayerIsRight(l, t, k, s, turns)
  <2> HIDE DEF found, leafs
  <2> QED BY <1>4, <1>5, Zenon DEF WayIsRight, LayerIsRight
<1>7. v = LayerRoot(l2, t2) => l = l2 /\ t = t2
  <2>1. v.addr = Scheme!NodeAddr(a, TREE_HEIGHT, k \div 2 ^ TREE_HEIGHT, 0)
    BY <1>1, ComputeRootAddress DEF LayerVerified
  <2>2. Scheme!NodeAddr(a, TREE_HEIGHT, k \div 2 ^ TREE_HEIGHT, 0)
          = Adrs(l, t, 2, 0, TREE_HEIGHT, (k \div 2 ^ TREE_HEIGHT) + 0 \div 2 ^ TREE_HEIGHT)
    BY NodeAddressIs
  <2>3. PICK x, h, n : LayerRoot(l2, t2) = Scheme!thash(x, Adrs(l2, t2, 2, 0, h, n))  BY LayerRootAddress
  <2>4. LayerRoot(l2, t2).addr = Adrs(l2, t2, 2, 0, h, n)  BY <2>3, SameHash
  <2> HIDE DEF v, a
  <2>5. v = LayerRoot(l2, t2) =>
          Adrs(l2, t2, 2, 0, h, n) = Adrs(l, t, 2, 0, TREE_HEIGHT, (k \div 2 ^ TREE_HEIGHT) + 0 \div 2 ^ TREE_HEIGHT)
    BY <2>1, <2>2, <2>4, Zenon
  <2> QED BY <2>5, AddressesDiffer
<1> HIDE DEF v
<1> QED BY <1>3, <1>6, <1>7 DEF v

(* Few-time signatures: the trees of a key pair of the lowest layer. *)
ForsSecret(t, k, n) == Scheme!prf_addr(Adrs(0, t, 6, k, 0, n))
ForsLeaf(t, k, n) == Scheme!thash(<<ForsSecret(t, k, n)>>, Adrs(0, t, 3, k, 0, n))
ForsLeafs(t, k, x) == [n \in Scheme!Leaves(FORS_HEIGHT) |-> ForsLeaf(t, k, n + Scheme!idx_offset(x))]
ForsRows(t, k, x) == Rows(FORS_HEIGHT, ForsLeafs(t, k, x), Adrs(0, t, 3, k, 0, 0), Scheme!idx_offset(x))
ForsKey(t, k) ==
  Scheme!thash([x \in 1 .. FORS_TREES |-> ForsRows(t, k, x - 1)[FORS_HEIGHT][0]], Adrs(0, t, 4, k, 0, 0))
ForsPath(t, k, x, place) == [h \in 0 .. FORS_HEIGHT - 1 |-> ForsRows(t, k, x)[h][Sibling(place \div 2 ^ h)]]
ForsPart(t, k, x, place) ==
  [sk |-> ForsSecret(t, k, place + Scheme!idx_offset(x)), path |-> ForsPath(t, k, x, place)]
ForsSigned(t, k, indices) == [x \in 0 .. FORS_TREES - 1 |-> ForsPart(t, k, x, indices[x])]
ForsPartIsRight(t, k, x, place, part) ==
  /\ part.sk = ForsSecret(t, k, place + Scheme!idx_offset(x))
  /\ PathIsRight(ForsRows(t, k, x), place, part.path, FORS_HEIGHT)

LEMMA ForsAddresses ==
  ASSUME NEW t, NEW k, NEW x, NEW n
  PROVE  /\ Scheme!copy_keypair_addr(Scheme!Blank, Adrs(0, t, 0, k, 0, 0)) = Adrs(0, t, 0, k, 0, 0)
         /\ Scheme!set_type(Adrs(0, t, 0, k, 0, 0), Scheme!TypeFORSTREE) = Adrs(0, t, 3, k, 0, 0)
         /\ Scheme!fors_pk_addr(Adrs(0, t, 0, k, 0, 0)) = Adrs(0, t, 4, k, 0, 0)
         /\ Scheme!AtLeaf(Adrs(0, t, 3, k, 0, 0), x, n) = Adrs(0, t, 3, k, 0, n + Scheme!idx_offset(x))
         /\ Scheme!fors_gen_leaf(Adrs(0, t, 0, k, 0, 0), x, n) = ForsLeaf(t, k, n + Scheme!idx_offset(x))
<1>1. Scheme!copy_keypair_addr(Scheme!Blank, Adrs(0, t, 0, k, 0, 0)) = Adrs(0, t, 0, k, 0, 0)
  BY BlankIsAt, FieldsAreCopied
<1>2. Scheme!set_type(Adrs(0, t, 0, k, 0, 0), Scheme!TypeFORSTREE) = Adrs(0, t, 3, k, 0, 0)
  BY TypesAre, FieldsAreSet DEF SetFields
<1>3. Scheme!fors_pk_addr(Adrs(0, t, 0, k, 0, 0)) = Adrs(0, t, 4, k, 0, 0)
  <2>1. Scheme!set_type(Adrs(0, t, 0, k, 0, 0), Scheme!TypeFORSPK) = Adrs(0, t, 4, k, 0, 0)
    BY TypesAre, FieldsAreSet DEF SetFields
  <2> QED BY <1>1, <2>1, Zenon DEF Scheme!fors_pk_addr
<1>4. Scheme!AtLeaf(Adrs(0, t, 3, k, 0, 0), x, n) = Adrs(0, t, 3, k, 0, n + Scheme!idx_offset(x))
  <2> DEFINE a == Adrs(0, t, 3, k, 0, 0)
             high == IF x = 0 THEN a ELSE Scheme!set_tree_height(a, FORS_HEIGHT)
             m == n + Scheme!idx_offset(x)
  <2>1. Scheme!set_tree_height(a, FORS_HEIGHT) = Adrs(0, t, 3, k, FORS_HEIGHT, 0)  BY FieldsAreSet DEF SetFields
  <2>2. Scheme!set_tree_height(a, 0) = a  BY FieldsAreSet DEF SetFields
  <2>3. Scheme!set_tree_height(Adrs(0, t, 3, k, FORS_HEIGHT, 0), 0) = a  BY FieldsAreSet DEF SetFields
  <2>4. Scheme!AtLeaf(a, x, n) = Scheme!set_tree_index(Scheme!set_tree_height(high, 0), m)
    BY Zenon DEF Scheme!AtLeaf
  <2>5. Scheme!set_tree_height(high, 0) = a
    <3> HIDE DEF a
    <3> QED BY <2>1, <2>2, <2>3, Zenon
  <2> HIDE DEF m
  <2>6. Scheme!set_tree_index(a, m) = Adrs(0, t, 3, k, 0, m)  BY FieldsAreSet DEF SetFields
  <2> QED BY <2>4, <2>5, <2>6 DEF m
<1>5. Scheme!fors_gen_leaf(Adrs(0, t, 0, k, 0, 0), x, n) = ForsLeaf(t, k, n + Scheme!idx_offset(x))
  <2> DEFINE m == n + Scheme!idx_offset(x)
             a == Scheme!set_tree_index(Adrs(0, t, 0, k, 0, 0), m)
  <2>1. Scheme!fors_gen_leaf(Adrs(0, t, 0, k, 0, 0), x, n)
          = Scheme!thash(<<Scheme!prf_addr(Scheme!set_type(a, Scheme!TypeFORSPRF))>>, Scheme!set_type(a, Scheme!TypeFORSTREE))
    BY Zenon DEF Scheme!fors_gen_leaf
  <2> HIDE DEF m
  <2>2. a = Adrs(0, t, 0, k, 0, m)  BY FieldsAreSet DEF SetFields
  <2>3. Scheme!set_type(Adrs(0, t, 0, k, 0, m), 6) = Adrs(0, t, 6, k, 0, m)  BY FieldsAreSet DEF SetFields
  <2>4. Scheme!set_type(Adrs(0, t, 0, k, 0, m), 3) = Adrs(0, t, 3, k, 0, m)  BY FieldsAreSet DEF SetFields
  <2> HIDE DEF a
  <2>5. Scheme!fors_gen_leaf(Adrs(0, t, 0, k, 0, 0), x, n) = ForsLeaf(t, k, m)
    BY <2>1, <2>2, <2>3, <2>4, TypesAre, Zenon DEF ForsLeaf, ForsSecret
  <2> QED BY <2>5 DEF m
<1> QED BY <1>1, <1>2, <1>3, <1>4, <1>5

LEMMA ForsSignIs ==
  ASSUME SchemeSizes, NEW b \in Scheme!Builds, NEW indices, NEW t, NEW k
  PROVE  Scheme!fors_sign(b, indices, Adrs(0, t, 0, k, 0, 0)) = [sig |-> ForsSigned(t, k, indices), pk |-> ForsKey(t, k)]
<1> DEFINE fors_addr == Adrs(0, t, 0, k, 0, 0)
           addr == Adrs(0, t, 3, k, 0, 0)
           lanes == Scheme!TreeLanes(b, fors_addr)
           leaf_addr == Scheme!copy_keypair_addr(Scheme!Blank, fors_addr)
           leafs(x) == [n \in Scheme!Leaves(FORS_HEIGHT) |-> Scheme!fors_gen_leaf(leaf_addr, x, n)]
           hashed(x) == Scheme!treehash(b, FORS_HEIGHT, leafs(x), lanes, indices[x], Scheme!idx_offset(x))
           all == [x \in 0 .. FORS_TREES - 1 |-> hashed(x)]
           parts == [x \in 0 .. FORS_TREES - 1 |->
                 [sk |-> Scheme!prf_addr(Scheme!set_type(Scheme!AtLeaf(lanes[0], x, indices[x]), Scheme!TypeFORSPRF)),
                  path |-> all[x].path]]
           roots == [x \in 1 .. FORS_TREES |-> all[x - 1].root]
<1>1. Scheme!fors_sign(b, indices, fors_addr)
        = [sig |-> parts, pk |-> Scheme!thash(roots, Scheme!fors_pk_addr(fors_addr))]
  BY Zenon DEF Scheme!fors_sign
<1>2. FORS_HEIGHT \in Nat /\ FORS_TREES \in Nat  BY DEF SchemeSizes, Scheme!SizesAssumption
<1>3. lanes = [lane \in 0 .. Scheme!Lanes(b) - 1 |-> addr]
  <2>1. Scheme!set_type(Scheme!copy_keypair_addr(Scheme!Blank, fors_addr), Scheme!TypeFORSTREE) = addr
    BY ForsAddresses
  <2> HIDE DEF fors_addr, addr
  <2> QED BY <2>1, Zenon DEF Scheme!TreeLanes
<1>4. lanes[0] = addr
  <2>1. 0 \in 0 .. Scheme!Lanes(b) - 1  BY DEF Scheme!Builds, Scheme!Lanes
  <2> HIDE DEF lanes, addr
  <2> QED BY <1>3, <2>1, Zenon
<1>5. ASSUME NEW x PROVE leafs(x) = ForsLeafs(t, k, x)
  <2>1. \A n : Scheme!fors_gen_leaf(leaf_addr, x, n) = ForsLeaf(t, k, n + Scheme!idx_offset(x))
    BY ForsAddresses
  <2> HIDE DEF leaf_addr
  <2> QED BY <2>1, Zenon DEF ForsLeafs
<1> HIDE DEF lanes, leafs
<1>6. ASSUME NEW x
      PROVE  hashed(x) = HashedTree(FORS_HEIGHT, ForsLeafs(t, k, x), addr, indices[x], Scheme!idx_offset(x))
  <2>1. hashed(x) = HashedTree(FORS_HEIGHT, leafs(x), addr, indices[x], Scheme!idx_offset(x))
    BY <1>2, <1>3, TreehashIs
  <2> HIDE DEF hashed
  <2> QED BY <1>5, <2>1
<1>7. ASSUME NEW x
      PROVE  hashed(x).root = ForsRows(t, k, x)[FORS_HEIGHT][0] /\ hashed(x).path = ForsPath(t, k, x, indices[x])
  <2> HIDE DEF hashed
  <2> QED BY <1>6 DEF HashedTree, ForsRows, ForsPath
<1> HIDE DEF hashed
<1>8. roots = [x \in 1 .. FORS_TREES |-> ForsRows(t, k, x - 1)[FORS_HEIGHT][0]]
  <2>1. ASSUME NEW x \in 1 .. FORS_TREES PROVE all[x - 1].root = ForsRows(t, k, x - 1)[FORS_HEIGHT][0]
    <3>1. x - 1 \in 0 .. FORS_TREES - 1  BY <1>2
    <3>2. all[x - 1] = hashed(x - 1)  BY <3>1, Zenon
    <3> QED BY <1>7, <3>2
  <2> HIDE DEF all
  <2> QED BY <2>1, Zenon
<1>9. parts = ForsSigned(t, k, indices)
  <2>1. ASSUME NEW x \in 0 .. FORS_TREES - 1 PROVE all[x].path = ForsPath(t, k, x, indices[x])
    <3>1. all[x] = hashed(x)  BY Zenon
    <3> QED BY <1>7, <3>1
  <2>2. ASSUME NEW x
        PROVE  Scheme!prf_addr(Scheme!set_type(Scheme!AtLeaf(lanes[0], x, indices[x]), Scheme!TypeFORSPRF))
                 = ForsSecret(t, k, indices[x] + Scheme!idx_offset(x))
    <3> DEFINE n == indices[x]
               m == n + Scheme!idx_offset(x)
    <3> HIDE DEF n
    <3>1. Scheme!AtLeaf(addr, x, n) = Adrs(0, t, 3, k, 0, m)  BY ForsAddresses
    <3> HIDE DEF m, addr
    <3>2. Scheme!set_type(Adrs(0, t, 3, k, 0, m), Scheme!TypeFORSPRF) = Adrs(0, t, 6, k, 0, m)
      BY TypesAre, FieldsAreSet DEF SetFields
    <3>3. Scheme!prf_addr(Scheme!set_type(Scheme!AtLeaf(lanes[0], x, n), Scheme!TypeFORSPRF)) = ForsSecret(t, k, m)
      BY <1>4, <3>1, <3>2, Zenon DEF ForsSecret
    <3> QED BY <3>3 DEF n, m
  <2> HIDE DEF all
  <2> QED BY <2>1, <2>2, Zenon DEF ForsSigned, ForsPart
<1> HIDE DEF parts, roots, all
<1>10. Scheme!fors_pk_addr(fors_addr) = Adrs(0, t, 4, k, 0, 0)  BY ForsAddresses
<1>11. Scheme!thash(roots, Scheme!fors_pk_addr(fors_addr)) = ForsKey(t, k)
  <2> HIDE DEF fors_addr
  <2> QED BY <1>8, <1>10, Zenon DEF ForsKey
<1> QED BY <1>1, <1>9, <1>11, Zenon

(* What the verifier makes of the few-time signatures. *)
ForsVerified(s, indices, t, k, t2, k2) ==
  Scheme!fors_pk_from_sig(s, indices, Adrs(0, t, 0, k, 0, 0)) = ForsKey(t2, k2)
    <=> t = t2 /\ k = k2 /\ \A x \in 0 .. FORS_TREES - 1 : ForsPartIsRight(t, k, x, indices[x], s[x])

LEMMA ForsIsVerified ==
  ASSUME SchemeSizes, NEW s, NEW indices \in [0 .. FORS_TREES - 1 -> Scheme!Leaves(FORS_HEIGHT)],
         NEW t, NEW k, NEW t2, NEW k2
  PROVE  ForsVerified(s, indices, t, k, t2, k2)
<1> DEFINE fors_addr == Adrs(0, t, 0, k, 0, 0)
           addr == Adrs(0, t, 3, k, 0, 0)
           its == Scheme!set_type(Scheme!copy_keypair_addr(Scheme!Blank, fors_addr), Scheme!TypeFORSTREE)
           leaf(x) == Scheme!thash(<<s[x].sk>>, Scheme!AtLeaf(its, x, indices[x]))
           found(x) == Scheme!compute_root(leaf(x), indices[x], Scheme!idx_offset(x), s[x].path, FORS_HEIGHT, its)
           mine == [x \in 1 .. FORS_TREES |-> found(x - 1)]
           key(x) == ForsRows(t, k, x)[FORS_HEIGHT][0]
           roots == [x \in 1 .. FORS_TREES |-> key(x - 1)]
           v == Scheme!fors_pk_from_sig(s, indices, fors_addr)
<1>1. v = Scheme!thash(mine, Scheme!fors_pk_addr(fors_addr))  BY Zenon DEF Scheme!fors_pk_from_sig
<1>2. FORS_HEIGHT \in Nat /\ FORS_TREES \in Nat  BY DEF SchemeSizes, Scheme!SizesAssumption
<1>3. its = addr  BY ForsAddresses
<1>4. Scheme!fors_pk_addr(fors_addr) = Adrs(0, t, 4, k, 0, 0)  BY ForsAddresses
<1>5. v = Scheme!thash(mine, Adrs(0, t, 4, k, 0, 0))
  <2> HIDE DEF v, mine, fors_addr
  <2> QED BY <1>1, <1>4
<1>6. ForsKey(t, k) = Scheme!thash(roots, Adrs(0, t, 4, k, 0, 0))  BY Zenon DEF ForsKey
<1>7. \E z : ForsKey(t2, k2) = Scheme!thash(z, Adrs(0, t2, 4, k2, 0, 0))  BY Zenon DEF ForsKey
<1> HIDE DEF its, fors_addr
<1>8. ASSUME NEW x \in 0 .. FORS_TREES - 1
      PROVE  found(x) = key(x) <=> ForsPartIsRight(t, k, x, indices[x], s[x])
  <2> DEFINE n == indices[x]
             m == n + Scheme!idx_offset(x)
             o == Scheme!idx_offset(x)
             rows == ForsRows(t, k, x)
             leafs == ForsLeafs(t, k, x)
             l == leaf(x)
             path == s[x].path
  <2>1. n \in Scheme!Leaves(FORS_HEIGHT)  BY Zenon
  <2>2. 2 ^ FORS_HEIGHT \in Nat  BY <1>2, PowerDoubles
  <2> HIDE DEF n
  <2>3. n \in Nat /\ n < 2 ^ FORS_HEIGHT  BY <2>1, <2>2 DEF Scheme!Leaves
  <2>4. rows = Rows(FORS_HEIGHT, leafs, addr, o)  BY DEF ForsRows
  <2>5. l = Scheme!thash(<<s[x].sk>>, Adrs(0, t, 3, k, 0, m))
    <3>1. Scheme!AtLeaf(addr, x, n) = Adrs(0, t, 3, k, 0, m)  BY ForsAddresses
    <3> HIDE DEF addr, m
    <3> QED BY <1>3, <3>1, Zenon DEF n
  <2>6. leafs[n] = Scheme!thash(<<ForsSecret(t, k, m)>>, Adrs(0, t, 3, k, 0, m))
    BY <2>1, Zenon DEF ForsLeafs, ForsLeaf
  <2>7. found(x) = Scheme!compute_root(l, n, o, path, FORS_HEIGHT, addr)  BY <1>3, Zenon DEF n
  <2> HIDE DEF found, o, rows, leafs, l, path, addr, m
  <2>8. Scheme!compute_root(l, n, o, path, FORS_HEIGHT, addr) = rows[FORS_HEIGHT][0]
          <=> WayIsRight(rows, leafs, l, n, path, FORS_HEIGHT)
    BY <1>2, <2>3, <2>4, ComputeRootFinds
  <2>9. l = leafs[n] <=> s[x].sk = ForsSecret(t, k, m)  BY <2>5, <2>6, SameSingle
  <2>10. ForsPartIsRight(t, k, x, n, s[x]) <=> s[x].sk = ForsSecret(t, k, m) /\ PathIsRight(rows, n, path, FORS_HEIGHT)
    BY Zenon DEF ForsPartIsRight, rows, path, m
  <2>11. key(x) = rows[FORS_HEIGHT][0]  BY Zenon DEF rows
  <2> QED BY <2>7, <2>8, <2>9, <2>10, <2>11, Zenon DEF WayIsRight, n
<1> HIDE DEF found, key
<1>9. mine = roots <=> \A x \in 0 .. FORS_TREES - 1 : found(x) = key(x)
  <2>1. ASSUME mine = roots, NEW x \in 0 .. FORS_TREES - 1 PROVE found(x) = key(x)
    <3>1. x + 1 \in 1 .. FORS_TREES /\ (x + 1) - 1 = x  BY <1>2
    <3>2. mine[x + 1] = found((x + 1) - 1) /\ roots[x + 1] = key((x + 1) - 1)  BY <3>1, Zenon
    <3> HIDE DEF mine, roots
    <3> QED BY <2>1, <3>1, <3>2
  <2>2. ASSUME \A x \in 0 .. FORS_TREES - 1 : found(x) = key(x) PROVE mine = roots
    <3>1. \A x \in 1 .. FORS_TREES : x - 1 \in 0 .. FORS_TREES - 1  BY <1>2
    <3>2. \A x \in 1 .. FORS_TREES : found(x - 1) = key(x - 1)  BY <2>2, <3>1, Zenon
    <3> QED BY <3>2, Zenon
  <2> QED BY <2>1, <2>2
<1> HIDE DEF v, mine, roots
<1>10. v = ForsKey(t, k) <=> mine = roots  BY <1>5, <1>6, SameHash
<1>11. v = ForsKey(t2, k2) => t = t2 /\ k = k2
  <2>1. PICK z : ForsKey(t2, k2) = Scheme!thash(z, Adrs(0, t2, 4, k2, 0, 0))  BY <1>7
  <2>2. v = ForsKey(t2, k2) => Adrs(0, t, 4, k, 0, 0) = Adrs(0, t2, 4, k2, 0, 0)  BY <1>5, <2>1, SameHash
  <2> QED BY <2>2, AddressesDiffer
<1>12. v = ForsKey(t2, k2)
         <=> t = t2 /\ k = k2 /\ \A x \in 0 .. FORS_TREES - 1 : ForsPartIsRight(t, k, x, indices[x], s[x])
  BY <1>8, <1>9, <1>10, <1>11
<1> QED BY <1>12, Zenon DEF ForsVerified, v, fors_addr

(* The trees and leaves on the way of a digest up the layers. *)
TreeAt(d, l) == d.tree \div 2 ^ (TREE_HEIGHT * l)
LeafAt(d, l) == IF l = 0 THEN d.idx_leaf ELSE TreeAt(d, l - 1) % 2 ^ TREE_HEIGHT
NumberAt(d, l) == Scheme!Tree(TreeAt(d, l))
RootAt(d, l) == IF l = 0 THEN ForsKey(NumberAt(d, 0), LeafAt(d, 0)) ELSE LayerRoot(l - 1, NumberAt(d, l - 1))
LayerPart(d, l) ==
  [wots |-> LayerWots(l, NumberAt(d, l), LeafAt(d, l), turns_of[l]), path |-> LayerPath(l, NumberAt(d, l), LeafAt(d, l))]
ForsPartOf(d) == ForsSigned(NumberAt(d, 0), LeafAt(d, 0), d.indices)

LEMMA DigestTypes ==
  ASSUME SchemeSizes, NEW d \in Digests
  PROVE  /\ d.tree \in Nat /\ d.tree < 2 ^ (TREE_HEIGHT * (D - 1)) /\ d.idx_leaf \in Scheme!Leaves(TREE_HEIGHT)
         /\ d.indices \in [0 .. FORS_TREES - 1 -> Scheme!Leaves(FORS_HEIGHT)]
         /\ d = [tree |-> d.tree, idx_leaf |-> d.idx_leaf, indices |-> d.indices]
         /\ TREE_HEIGHT * (D - 1) \in Nat
<1>1. TREE_HEIGHT \in Nat \ {0} /\ D \in Nat \ {0}  BY DEF SchemeSizes, Scheme!SizesAssumption
<1>2. TREE_HEIGHT * (D - 1) \in Nat
  <2>1. D - 1 \in Nat  BY <1>1
  <2> QED BY <1>1, <2>1
<1> DEFINE n == 2 ^ (TREE_HEIGHT * (D - 1))
<1>3. n \in Nat  BY <1>2, PowerDoubles
<1>4. d \in [tree : 0 .. n - 1, idx_leaf : Scheme!Leaves(TREE_HEIGHT),
             indices : [0 .. FORS_TREES - 1 -> Scheme!Leaves(FORS_HEIGHT)]]
  BY DEF SchemeSizes, Scheme!DigestsAssumption
<1> HIDE DEF n
<1>5. d.tree \in 0 .. n - 1 /\ d.idx_leaf \in Scheme!Leaves(TREE_HEIGHT)
      /\ d.indices \in [0 .. FORS_TREES - 1 -> Scheme!Leaves(FORS_HEIGHT)]
  BY <1>4
<1>6. d = [tree |-> d.tree, idx_leaf |-> d.idx_leaf, indices |-> d.indices]  BY <1>4
<1>7. d.tree \in Nat /\ d.tree < n  BY <1>3, <1>5
<1> QED BY <1>2, <1>5, <1>6, <1>7 DEF n

LEMMA TreesUpwards ==
  ASSUME SchemeSizes, NEW d \in Digests, NEW l \in Nat
  PROVE  /\ TreeAt(d, l) \in Nat
         /\ TreeAt(d, l + 1) = TreeAt(d, l) \div 2 ^ TREE_HEIGHT
         /\ LeafAt(d, l + 1) = TreeAt(d, l) % 2 ^ TREE_HEIGHT
         /\ LeafAt(d, l) \in Scheme!Leaves(TREE_HEIGHT)
<1>1. TREE_HEIGHT \in Nat  BY DEF SchemeSizes, Scheme!SizesAssumption
<1>2. d.tree \in Nat /\ d.idx_leaf \in Scheme!Leaves(TREE_HEIGHT)  BY DigestTypes
<1>3. ASSUME NEW m \in Nat
      PROVE  TREE_HEIGHT * m \in Nat /\ TREE_HEIGHT * (m + 1) = TREE_HEIGHT * m + TREE_HEIGHT
  BY <1>1
<1>4. ASSUME NEW m \in Nat PROVE TreeAt(d, m) \in Nat
  <2>1. TREE_HEIGHT * m \in Nat  BY <1>3
  <2> DEFINE e == TREE_HEIGHT * m
  <2> HIDE DEF e
  <2>2. e \in Nat => d.tree \div 2 ^ e \in Nat  BY <1>2, HalveOnce
  <2> QED BY <2>1, <2>2 DEF TreeAt, e
<1>5. TreeAt(d, l + 1) = TreeAt(d, l) \div 2 ^ TREE_HEIGHT
  <2> DEFINE e == TREE_HEIGHT * l
  <2>1. e \in Nat /\ TREE_HEIGHT * (l + 1) = e + TREE_HEIGHT  BY <1>3
  <2> HIDE DEF e
  <2>2. Splits(d.tree, e, TREE_HEIGHT)  BY <1>1, <1>2, <2>1, HalveAgain
  <2>3. d.tree \div 2 ^ (e + TREE_HEIGHT) = (d.tree \div 2 ^ e) \div 2 ^ TREE_HEIGHT  BY <2>2 DEF Splits
  <2> QED BY <2>1, <2>3, Zenon DEF TreeAt, e
<1>6. ASSUME NEW m \in Nat PROVE LeafAt(d, m + 1) = TreeAt(d, m) % 2 ^ TREE_HEIGHT
  <2>1. m + 1 # 0 /\ (m + 1) - 1 = m  OBVIOUS
  <2> QED BY <2>1, Zenon DEF LeafAt
<1>7. ASSUME NEW m \in Nat PROVE TreeAt(d, m) % 2 ^ TREE_HEIGHT \in Scheme!Leaves(TREE_HEIGHT)
  <2>1. 2 ^ TREE_HEIGHT \in Nat \ {0}  BY <1>1, PowerDoubles
  <2>2. TreeAt(d, m) \in Nat  BY <1>4
  <2> DEFINE n == 2 ^ TREE_HEIGHT
             x == TreeAt(d, m)
  <2> HIDE DEF n, x
  <2>3. n \in Nat \ {0} /\ x \in Nat => x % n \in 0 .. n - 1  BY RemainderInRange
  <2> QED BY <2>1, <2>2, <2>3 DEF n, x, Scheme!Leaves
<1>8. LeafAt(d, l) \in Scheme!Leaves(TREE_HEIGHT)
  <2>1. CASE l = 0  BY <1>2, <2>1 DEF LeafAt
  <2>2. CASE l # 0
    <3>1. l - 1 \in Nat /\ l = (l - 1) + 1  BY <2>2
    <3>2. LeafAt(d, l) = TreeAt(d, l - 1) % 2 ^ TREE_HEIGHT  BY <2>2, Zenon DEF LeafAt
    <3> QED BY <1>7, <3>1, <3>2
  <2> QED BY <2>1, <2>2
<1> QED BY <1>4, <1>5, <1>6, <1>8

LEMMA TreesBeginAndEnd ==
  ASSUME SchemeSizes, NEW d \in Digests
  PROVE  TreeAt(d, 0) = d.tree /\ TreeAt(d, D - 1) = 0 /\ LeafAt(d, 0) = d.idx_leaf
<1>1. TREE_HEIGHT \in Nat /\ D \in Nat \ {0}  BY DEF SchemeSizes, Scheme!SizesAssumption
<1> DEFINE e == TREE_HEIGHT * (D - 1)
<1>2. d.tree \in Nat /\ d.tree < 2 ^ e /\ e \in Nat  BY DigestTypes
<1>3. TreeAt(d, 0) = d.tree
  <2>1. TREE_HEIGHT * 0 = 0  BY <1>1
  <2>2. d.tree \div 2 ^ 0 = d.tree  BY <1>2, HalveNot
  <2> QED BY <2>1, <2>2 DEF TreeAt
<1> HIDE DEF e
<1>4. d.tree \div 2 ^ e = 0
  <2> DEFINE n == 2 ^ e
  <2>1. n \in Nat \ {0}  BY <1>2, PowerDoubles
  <2>2. d.tree < n  BY <1>2
  <2> HIDE DEF n
  <2>3. d.tree \in 0 .. n - 1 /\ d.tree = n * 0 + d.tree  BY <1>2, <2>1, <2>2
  <2>4. d.tree \div n = 0  BY <1>2, <2>1, <2>3, QuotientIs
  <2> QED BY <2>4 DEF n
<1>5. TreeAt(d, D - 1) = 0  BY <1>4 DEF TreeAt, e
<1>6. LeafAt(d, 0) = d.idx_leaf  BY DEF LeafAt
<1> QED BY <1>3, <1>5, <1>6

(* The loop over the layers, of signer and verifier. *)
AddressesAt(d, l) ==
  /\ wots_addr = Adrs(l, NumberAt(d, l), 0, LeafAt(d, l), 0, 0)
  /\ tree_addr = Adrs(l, NumberAt(d, l), 2, 0, 0, 0)
Loop(d) ==
  /\ tier \in 0 .. D /\ tree = TreeAt(d, tier) /\ idx_leaf = LeafAt(d, tier)
  /\ tier = 0 => wots_addr = Adrs(0, NumberAt(d, 0), 0, LeafAt(d, 0), 0, 0) /\ tree_addr = Adrs(0, Scheme!NoTree, 2, 0, 0, 0)
  /\ tier # 0 => AddressesAt(d, tier - 1)

LEMMA LoopBegins ==
  ASSUME SchemeSizes, digest \in Digests, Scheme!Begin
  PROVE  /\ tier' = 0 /\ tree' = TreeAt(digest, 0) /\ idx_leaf' = LeafAt(digest, 0)
         /\ wots_addr' = Adrs(0, NumberAt(digest, 0), 0, LeafAt(digest, 0), 0, 0)
         /\ tree_addr' = Adrs(0, Scheme!NoTree, 2, 0, 0, 0)
<1>1. TreeAt(digest, 0) = digest.tree /\ LeafAt(digest, 0) = digest.idx_leaf  BY TreesBeginAndEnd
<1>2. Scheme!set_type(Scheme!Blank, Scheme!TypeWOTS) = Adrs(0, Scheme!NoTree, 0, 0, 0, 0)
  BY TypesAre, BlankIsAt, FieldsAreSet DEF SetFields
<1>3. Scheme!set_tree_addr(Adrs(0, Scheme!NoTree, 0, 0, 0, 0), NumberAt(digest, 0)) = Adrs(0, NumberAt(digest, 0), 0, 0, 0, 0)
  BY FieldsAreSet DEF SetFields
<1>4. Scheme!set_keypair_addr(Adrs(0, NumberAt(digest, 0), 0, 0, 0, 0), digest.idx_leaf)
        = Adrs(0, NumberAt(digest, 0), 0, digest.idx_leaf, 0, 0)
  BY FieldsAreSet DEF SetFields
<1>5. Scheme!set_type(Scheme!Blank, Scheme!TypeHASHTREE) = Adrs(0, Scheme!NoTree, 2, 0, 0, 0)
  BY TypesAre, BlankIsAt, FieldsAreSet DEF SetFields
<1>6. NumberAt(digest, 0) = Scheme!Tree(digest.tree)  BY <1>1 DEF NumberAt
<1>7. tier' = 0 /\ tree' = digest.tree /\ idx_leaf' = digest.idx_leaf
      /\ wots_addr' = Scheme!set_keypair_addr(Scheme!set_tree_addr(Scheme!set_type(Scheme!Blank, Scheme!TypeWOTS),
                                                Scheme!Tree(digest.tree)), digest.idx_leaf)
      /\ tree_addr' = Scheme!set_type(Scheme!Blank, Scheme!TypeHASHTREE)
  BY Zenon DEF Scheme!Begin
<1> QED BY <1>1, <1>2, <1>3, <1>4, <1>5, <1>6, <1>7, Zenon

LEMMA LoopGoesOn ==
  ASSUME SchemeSizes, NEW d \in Digests, Loop(d), tier < D, Scheme!LayerAddresses, Scheme!Upwards
  PROVE  /\ tier' = tier + 1 /\ tier' \in 0 .. D /\ tier' # 0 /\ tier' - 1 = tier
         /\ tree' = TreeAt(d, tier') /\ idx_leaf' = LeafAt(d, tier')
         /\ wots_addr' = Adrs(tier, NumberAt(d, tier), 0, LeafAt(d, tier), 0, 0)
         /\ tree_addr' = Adrs(tier, NumberAt(d, tier), 2, 0, 0, 0)
<1>1. tier \in Nat /\ tier \in 0 .. D /\ D \in Nat  BY DEF SchemeSizes, Scheme!SizesAssumption, Loop
<1>2. tier' = tier + 1 /\ idx_leaf' = tree % 2 ^ TREE_HEIGHT /\ tree' = tree \div 2 ^ TREE_HEIGHT  BY DEF Scheme!Upwards
<1>3. tree' = TreeAt(d, tier') /\ idx_leaf' = LeafAt(d, tier')
  <2>1. tree = TreeAt(d, tier)  BY DEF Loop
  <2>2. TreeAt(d, tier + 1) = TreeAt(d, tier) \div 2 ^ TREE_HEIGHT /\ LeafAt(d, tier + 1) = TreeAt(d, tier) % 2 ^ TREE_HEIGHT
    BY <1>1, TreesUpwards
  <2> QED BY <1>2, <2>1, <2>2, Zenon
<1>4. \E l, t, k, m, u :
        wots_addr = Adrs(l, t, 0, k, 0, 0) /\ tree_addr = Adrs(m, u, 2, 0, 0, 0)
  <2>1. CASE tier = 0  BY <2>1, Zenon DEF Loop
  <2>2. CASE tier # 0  BY <2>2, Zenon DEF Loop, AddressesAt
  <2> QED BY <2>1, <2>2
<1>5. PICK l, t, k, m, u : wots_addr = Adrs(l, t, 0, k, 0, 0) /\ tree_addr = Adrs(m, u, 2, 0, 0, 0)  BY <1>4
<1>6. Scheme!Tree(tree) = NumberAt(d, tier) /\ idx_leaf = LeafAt(d, tier)  BY DEF Loop, NumberAt
<1> DEFINE n == NumberAt(d, tier)
<1>7. tree_addr' = Adrs(tier, n, 2, 0, 0, 0)
  <2>1. Scheme!set_layer_addr(Adrs(m, u, 2, 0, 0, 0), tier) = Adrs(tier, u, 2, 0, 0, 0)  BY FieldsAreSet DEF SetFields
  <2>2. Scheme!set_tree_addr(Adrs(tier, u, 2, 0, 0, 0), n) = Adrs(tier, n, 2, 0, 0, 0)  BY FieldsAreSet DEF SetFields
  <2>3. tree_addr' = Scheme!set_tree_addr(Scheme!set_layer_addr(tree_addr, tier), Scheme!Tree(tree))
    BY DEF Scheme!LayerAddresses
  <2> QED BY <1>5, <1>6, <2>1, <2>2, <2>3, Zenon
<1>8. wots_addr' = Adrs(tier, n, 0, LeafAt(d, tier), 0, 0)
  <2>1. Scheme!copy_subtree_addr(Adrs(l, t, 0, k, 0, 0), Adrs(tier, n, 2, 0, 0, 0)) = Adrs(tier, n, 0, k, 0, 0)
    BY FieldsAreCopied
  <2>2. Scheme!set_keypair_addr(Adrs(tier, n, 0, k, 0, 0), LeafAt(d, tier)) = Adrs(tier, n, 0, LeafAt(d, tier), 0, 0)
    BY FieldsAreSet DEF SetFields
  <2>3. wots_addr' = Scheme!set_keypair_addr(Scheme!copy_subtree_addr(wots_addr, tree_addr'), idx_leaf)
    BY DEF Scheme!LayerAddresses
  <2> QED BY <1>5, <1>6, <1>7, <2>1, <2>2, <2>3, Zenon
<1>9. tier + 1 \in 0 .. D /\ tier + 1 # 0 /\ (tier + 1) - 1 = tier  BY <1>1
<1> QED BY <1>2, <1>3, <1>7, <1>8, <1>9

(* No node of a tree is junk. *)
LEMMA RowsHoldHashes ==
  ASSUME NEW height \in Nat, NEW leafs, NEW addr, NEW offset, NEW h \in 0 .. height, NEW n \in Nat, n < 2 ^ (height - h),
         \A m \in 0 .. 2 ^ height - 1 : leafs[m] # Scheme!Junk
  PROVE  Rows(height, leafs, addr, offset)[h][n] # Scheme!Junk
<1> DEFINE rows == Rows(height, leafs, addr, offset)
<1>0. \A l \in 1 .. height : \A k \in 0 .. 2 ^ (height - l) - 1 : rows[l][k] = Joined(rows, l, k, addr, offset)
  BY RowAbove
<1>1. CASE h = 0
  <2>1. height - h = height  BY <1>1
  <2>2. n \in 0 .. 2 ^ height - 1  BY <2>1, PowerDoubles
  <2>3. rows[0][n] = leafs[n]  BY <2>2, RowZero
  <2> HIDE DEF rows
  <2>4. rows[h][n] # Scheme!Junk  BY <1>1, <2>2, <2>3
  <2> QED BY <2>4 DEF rows
<1>2. CASE h # 0
  <2>1. h \in 1 .. height /\ height - h \in Nat  BY <1>2
  <2>2. 2 ^ (height - h) \in Nat  BY <2>1, PowerDoubles
  <2>3. n \in 0 .. 2 ^ (height - h) - 1  BY <2>2
  <2> HIDE DEF rows
  <2>4. rows[h][n] = Joined(rows, h, n, addr, offset)  BY <1>0, <2>1, <2>3, Zenon
  <2>5. Joined(rows, h, n, addr, offset) # Scheme!Junk  BY SameHash DEF Joined
  <2> QED BY <2>4, <2>5 DEF rows
<1> QED BY <1>1, <1>2

LEMMA SiblingInRow ==
  ASSUME NEW height \in Nat, NEW k \in Scheme!Leaves(height), NEW h \in 0 .. height - 1
  PROVE  Sibling(k \div 2 ^ h) \in Nat /\ Sibling(k \div 2 ^ h) < 2 ^ (height - h)
<1>1. 2 ^ height \in Nat  BY PowerDoubles
<1>2. k \in Nat /\ k < 2 ^ height  BY <1>1 DEF Scheme!Leaves
<1>3. h \in Nat /\ h <= height /\ (height - h) - 1 \in Nat /\ ((height - h) - 1) + 1 = height - h  OBVIOUS
<1> DEFINE n == (height - h) - 1
           x == k \div 2 ^ h
<1>4. x \in Nat /\ x < 2 ^ (height - h)  BY <1>2, <1>3, NodeBelow
<1>5. n \in Nat /\ n + 1 = height - h  BY <1>3
<1> HIDE DEF n, x
<1>6. x \in Nat /\ x < 2 ^ (n + 1)  BY <1>4, <1>5
<1>7. Sibling(x) \in Nat /\ Sibling(x) < 2 ^ (n + 1)  BY <1>5, <1>6, SiblingBelow
<1> QED BY <1>5, <1>7 DEF x

LEMMA PathsAreHashes ==
  ASSUME SchemeSizes, NEW t, NEW k, NEW l, NEW x
  PROVE  /\ \A n \in Scheme!Leaves(TREE_HEIGHT), h \in 0 .. TREE_HEIGHT - 1 :
              LayerRows(l, t)[h][Sibling(n \div 2 ^ h)] # Scheme!Junk
         /\ \A n \in Scheme!Leaves(FORS_HEIGHT), h \in 0 .. FORS_HEIGHT - 1 :
              ForsRows(t, k, x)[h][Sibling(n \div 2 ^ h)] # Scheme!Junk
<1>1. TREE_HEIGHT \in Nat /\ FORS_HEIGHT \in Nat  BY DEF SchemeSizes, Scheme!SizesAssumption
<1>2. ASSUME NEW n \in Scheme!Leaves(TREE_HEIGHT), NEW h \in 0 .. TREE_HEIGHT - 1
      PROVE  LayerRows(l, t)[h][Sibling(n \div 2 ^ h)] # Scheme!Junk
  <2>1. ASSUME NEW m \in 0 .. 2 ^ TREE_HEIGHT - 1 PROVE LayerLeafs(l, t)[m] # Scheme!Junk
    <3>1. LayerLeafs(l, t)[m] = Leaf(l, t, m)  BY Zenon DEF LayerLeafs, Scheme!Leaves
    <3>2. Leaf(l, t, m) # Scheme!Junk  BY SameHash DEF Leaf
    <3> QED BY <3>1, <3>2
  <2> DEFINE q == Sibling(n \div 2 ^ h)
  <2>2. q \in Nat /\ q < 2 ^ (TREE_HEIGHT - h) /\ h \in 0 .. TREE_HEIGHT  BY <1>1, SiblingInRow
  <2> HIDE DEF q
  <2> QED BY <1>1, <2>1, <2>2, RowsHoldHashes DEF LayerRows, q
<1>3. ASSUME NEW n \in Scheme!Leaves(FORS_HEIGHT), NEW h \in 0 .. FORS_HEIGHT - 1
      PROVE  ForsRows(t, k, x)[h][Sibling(n \div 2 ^ h)] # Scheme!Junk
  <2>1. ASSUME NEW m \in 0 .. 2 ^ FORS_HEIGHT - 1 PROVE ForsLeafs(t, k, x)[m] # Scheme!Junk
    <3>1. ForsLeafs(t, k, x)[m] = ForsLeaf(t, k, m + Scheme!idx_offset(x))  BY Zenon DEF ForsLeafs, Scheme!Leaves
    <3>2. ForsLeaf(t, k, m + Scheme!idx_offset(x)) # Scheme!Junk  BY SameHash DEF ForsLeaf
    <3> QED BY <3>1, <3>2
  <2> DEFINE q == Sibling(n \div 2 ^ h)
  <2>2. q \in Nat /\ q < 2 ^ (FORS_HEIGHT - h) /\ h \in 0 .. FORS_HEIGHT  BY <1>1, SiblingInRow
  <2> HIDE DEF q
  <2> QED BY <1>1, <2>1, <2>2, RowsHoldHashes DEF ForsRows, q
<1> QED BY <1>2, <1>3

(* What has been changed keeps a layer from giving the root that was signed. *)
ForsKinds == {"digest", "sk", "fors path"}
LayerKinds == {"wots", "path"}
Broken(n) == change[1] \in ForsKinds \/ (change[1] \in LayerKinds /\ change[2] < n)
AboutLayer(l) == change[1] \in LayerKinds /\ change[2] = l

ForsMatches(d) ==
  /\ NumberAt(digest, 0) = NumberAt(d, 0) /\ LeafAt(digest, 0) = LeafAt(d, 0)
  /\ \A x \in 0 .. FORS_TREES - 1 :
       ForsPartIsRight(NumberAt(digest, 0), LeafAt(digest, 0), x, digest.indices[x], sig.fors[x])
LayersMatch(d) ==
  \A l \in Scheme!Layers :
    /\ ~AboutLayer(l) => sig.layers[l] = LayerPart(d, l)
    /\ AboutLayer(l) => \/ \E c \in 0 .. WotsLEN - 1 : sig.layers[l].wots[c] = Scheme!Junk
                        \/ \E h \in 0 .. TREE_HEIGHT - 1 : sig.layers[l].path[h] = Scheme!Junk
Changed == change = Scheme!NoChange \/ change[1] \in ForsKinds \/ (change[1] \in LayerKinds /\ change[2] \in Scheme!Layers)
Delivered(d) ==
  /\ Changed /\ (change[1] # "digest" => digest = d)
  /\ ForsMatches(d) <=> change[1] \notin ForsKinds
  /\ LayersMatch(d)

LEMMA LayerPartIsRight ==
  ASSUME SchemeSizes, NEW d \in Digests, NEW l \in Scheme!Layers, NEW s, s = LayerPart(d, l)
  PROVE  LayerIsRight(l, NumberAt(d, l), LeafAt(d, l), s, turns_of[l])
<1>1. s.wots = LayerWots(l, NumberAt(d, l), LeafAt(d, l), turns_of[l])
      /\ s.path = LayerPath(l, NumberAt(d, l), LeafAt(d, l))
  BY DEF LayerPart
<1>2. ChainsAreRight(s.wots, l, NumberAt(d, l), LeafAt(d, l), turns_of[l])
  BY <1>1, Zenon DEF ChainsAreRight, LayerWots
<1>3. PathIsRight(LayerRows(l, NumberAt(d, l)), LeafAt(d, l), s.path, TREE_HEIGHT)
  BY <1>1, Zenon DEF PathIsRight, LayerPath
<1> QED BY <1>2, <1>3 DEF LayerIsRight

LEMMA OtherLengthsAreWrong ==
  ASSUME SchemeSizes, NEW l, NEW t, NEW k, NEW t2, NEW k2, NEW turns \in ChainLengths, NEW others2 \in ChainLengths,
         turns # others2, NEW wots, wots = LayerWots(l, t, k, turns)
  PROVE  ~ChainsAreRight(wots, l, t2, k2, others2)
<1> SUFFICES ASSUME ChainsAreRight(wots, l, t2, k2, others2) PROVE FALSE  OBVIOUS
<1>1. turns \in [0 .. WotsLEN - 1 -> 0 .. WotsW - 1] /\ others2 \in [0 .. WotsLEN - 1 -> 0 .. WotsW - 1]
      /\ WotsW \in Nat \ {0}
  BY DEF SchemeSizes, Scheme!LengthsAssumption, Scheme!SizesAssumption
<1>2. ASSUME NEW c \in 0 .. WotsLEN - 1 PROVE turns[c] = others2[c]
  <2> DEFINE a == turns[c]
             b == others2[c]
  <2>1. Chain(l, t, k, c, a) = Chain(l, t2, k2, c, b)  BY Zenon DEF ChainsAreRight, LayerWots
  <2>2. a \in 0 .. WotsW - 1 /\ b \in 0 .. WotsW - 1  BY <1>1, Zenon
  <2> HIDE DEF a, b
  <2>3. SamePlace(l, t, k, c, a, l, t2, k2, c, b)  BY <1>1, <2>1, <2>2, ChainsDiffer
  <2> QED BY <2>3 DEF SamePlace, a, b
<1>3. turns = [c \in 0 .. WotsLEN - 1 |-> turns[c]] /\ others2 = [c \in 0 .. WotsLEN - 1 |-> others2[c]]  BY <1>1
<1>4. turns = others2  BY <1>2, <1>3, Zenon
<1> QED BY <1>4

LEMMA BrokenLayerIsWrong ==
  ASSUME SchemeSizes, NEW l, NEW t, NEW k \in Scheme!Leaves(TREE_HEIGHT), NEW turns \in ChainLengths, NEW s,
         \/ \E c \in 0 .. WotsLEN - 1 : s.wots[c] = Scheme!Junk
         \/ \E h \in 0 .. TREE_HEIGHT - 1 : s.path[h] = Scheme!Junk
  PROVE  ~LayerIsRight(l, t, k, s, turns)
<1> SUFFICES ASSUME LayerIsRight(l, t, k, s, turns) PROVE FALSE  OBVIOUS
<1>1. turns \in [0 .. WotsLEN - 1 -> 0 .. WotsW - 1] /\ WotsW \in Nat \ {0}
  BY DEF SchemeSizes, Scheme!LengthsAssumption, Scheme!SizesAssumption
<1>2. ASSUME NEW c \in 0 .. WotsLEN - 1, s.wots[c] = Scheme!Junk PROVE FALSE
  <2> DEFINE a == turns[c]
  <2>1. s.wots[c] = Chain(l, t, k, c, a)  BY Zenon DEF LayerIsRight, ChainsAreRight
  <2>2. a \in 0 .. WotsW - 1  BY <1>1, Zenon
  <2> HIDE DEF a
  <2>3. Chain(l, t, k, c, a) # Scheme!Junk  BY <1>1, <2>2, ChainIsNotJunk
  <2> QED BY <1>2, <2>1, <2>3
<1>3. ASSUME NEW h \in 0 .. TREE_HEIGHT - 1, s.path[h] = Scheme!Junk PROVE FALSE
  <2>1. s.path[h] = LayerRows(l, t)[h][Sibling(k \div 2 ^ h)]  BY Zenon DEF LayerIsRight, PathIsRight
  <2>2. LayerRows(l, t)[h][Sibling(k \div 2 ^ h)] # Scheme!Junk  BY PathsAreHashes
  <2> QED BY <1>3, <2>1, <2>2
<1> QED BY <1>2, <1>3

(* The scheme's invariant. *)
SchemeBasics ==
  /\ builder \in Scheme!Builds /\ digest \in Digests
  /\ turns_of \in [Scheme!Layers -> ChainLengths] /\ others \in [Scheme!Layers -> ChainLengths]
  /\ \A l \in Scheme!Layers : others[l] # turns_of[l]
  /\ turn \in {"keypair", "sign", "sign_layer", "signed", "verify", "verify_layer", "done"}
  /\ turn # "keypair" => pk[2] = LayerRoot(D - 1, Scheme!Tree(0))
Shapes ==
  /\ sig = [fors |-> sig.fors, layers |-> sig.layers]
  /\ sig.layers = [l \in Scheme!Layers |-> sig.layers[l]]
  /\ signed = [l \in Scheme!Layers |-> signed[l]]
SigningHolds ==
  /\ Loop(digest) /\ root = RootAt(digest, tier) /\ sig.fors = ForsPartOf(digest)
  /\ \A l \in Scheme!Layers : l < tier => sig.layers[l] = LayerPart(digest, l) /\ signed[l] = RootAt(digest, l)
Signing ==
  /\ turn \in {"keypair", "sign", "sign_layer", "signed"} => change = Scheme!NoChange
  /\ turn \in {"sign_layer", "signed"} => SigningHolds
  /\ turn = "signed" => tier = D
WasSigned(d) == \A l \in Scheme!Layers : signed[l] = RootAt(d, l)
VerifyingHolds(d) ==
  /\ WasSigned(d) /\ Delivered(d)
  /\ turn = "verify_layer" => Loop(digest) /\ (root = RootAt(d, tier) <=> ~Broken(tier))
  /\ turn = "done" => verdict \in {"accepted", "rejected"} /\ (verdict = "accepted" <=> ~Broken(D))
Verifying == turn \in {"verify", "verify_layer", "done"} => \E d \in Digests : VerifyingHolds(d)
SchemeInv == SchemeBasics /\ Shapes /\ Signing /\ Verifying

LEMMA SchemeBegins == ASSUME SchemeSizes, Scheme!Init PROVE SchemeInv
<1>1. SchemeBasics  BY DEF Scheme!Init, SchemeBasics
<1>2. Shapes
  <2>1. sig = Scheme!NoSig /\ signed = [l \in Scheme!Layers |-> Scheme!Junk]  BY DEF Scheme!Init
  <2>2. sig = [fors |-> sig.fors, layers |-> sig.layers]  BY <2>1 DEF Scheme!NoSig
  <2>3. sig.layers = [l \in Scheme!Layers |-> sig.layers[l]]
    <3>1. \E v : sig.layers = [l \in Scheme!Layers |-> v]
      <4>1. sig.layers = [l \in Scheme!Layers |-> [wots |-> [c \in 0 .. WotsLEN - 1 |-> Scheme!Junk],
                                                  path |-> [h \in 0 .. TREE_HEIGHT - 1 |-> Scheme!Junk]]]
        BY <2>1 DEF Scheme!NoSig
      <4> QED BY <4>1, Zenon
    <3>2. PICK v : sig.layers = [l \in Scheme!Layers |-> v]  BY <3>1
    <3> DEFINE f == sig.layers
    <3>3. f = [l \in Scheme!Layers |-> v]  BY <3>2
    <3> HIDE DEF f
    <3>4. f = [l \in Scheme!Layers |-> f[l]]  BY <3>3
    <3> QED BY <3>4, Zenon DEF f
  <2>4. signed = [l \in Scheme!Layers |-> signed[l]]  BY <2>1
  <2> QED BY <2>2, <2>3, <2>4 DEF Shapes
<1>3. Signing  BY DEF Scheme!Init, Signing
<1>4. Verifying  BY DEF Scheme!Init, Verifying
<1> QED BY <1>1, <1>2, <1>3, <1>4 DEF SchemeInv

LEMMA SchemeMakesKey == ASSUME SchemeSizes, SchemeInv, Scheme!KeyPair PROVE SchemeInv'
<1> DEFINE top == Scheme!set_layer_addr(Scheme!Blank, D - 1)
<1>1. turn = "keypair" /\ turn' = "sign"
      /\ pk' = <<Scheme!PubSeed, Scheme!merkle_sign(builder, turns_of[D - 1], top, top, 0).root>>
      /\ UNCHANGED <<builder, turns_of, others, digest, signed, tier, tree, idx_leaf, wots_addr, tree_addr, root, sig, change, verdict>>
  BY Zenon DEF Scheme!KeyPair, Scheme!fixed
<1>2. top = Adrs(D - 1, Scheme!Tree(0), 0, 0, 0, 0)
  <2>1. Scheme!Tree(0) = Scheme!NoTree  BY DEF Scheme!Tree, Scheme!NoTree
  <2>2. Scheme!set_layer_addr(Adrs(0, Scheme!NoTree, 0, 0, 0, 0), D - 1) = Adrs(D - 1, Scheme!NoTree, 0, 0, 0, 0)
    BY FieldsAreSet DEF SetFields
  <2> QED BY <2>1, <2>2, BlankIsAt
<1>3. 0 \in Scheme!Leaves(TREE_HEIGHT)
  <2>1. 2 ^ TREE_HEIGHT \in Nat \ {0}  BY PowerDoubles DEF SchemeSizes, Scheme!SizesAssumption
  <2> QED BY <2>1 DEF Scheme!Leaves
<1> HIDE DEF top
<1>4. builder \in Scheme!Builds  BY DEF SchemeInv, SchemeBasics
<1> DEFINE turns == turns_of[D - 1]
<1>5. Scheme!merkle_sign(builder, turns, top, top, 0) = LayerSigned(D - 1, Scheme!Tree(0), 0, turns)
  <2> HIDE DEF turns
  <2> QED BY <1>2, <1>3, <1>4, MerkleSignIs
<1> HIDE DEF turns
<1>6. pk'[2] = LayerRoot(D - 1, Scheme!Tree(0))
  <2>1. pk' = <<Scheme!PubSeed, Scheme!merkle_sign(builder, turns, top, top, 0).root>>  BY <1>1 DEF turns
  <2>2. Scheme!merkle_sign(builder, turns, top, top, 0).root = LayerRoot(D - 1, Scheme!Tree(0))
    BY <1>5 DEF LayerSigned
  <2> QED BY <2>1, <2>2
<1>7. SchemeBasics'  BY <1>1, <1>6 DEF SchemeInv, SchemeBasics
<1>8. Shapes'  BY <1>1 DEF SchemeInv, Shapes
<1>9. Signing'  BY <1>1 DEF SchemeInv, Signing
<1>10. Verifying'  BY <1>1 DEF Verifying
<1> QED BY <1>7, <1>8, <1>9, <1>10 DEF SchemeInv

LEMMA SchemeSignsFors == ASSUME SchemeSizes, SchemeInv, Scheme!SignFors PROVE SchemeInv'
<1> DEFINE n == NumberAt(digest, 0)
           k == LeafAt(digest, 0)
           s == Scheme!fors_sign(builder, digest.indices, wots_addr')
<1>1. turn = "sign" /\ turn' = "sign_layer" /\ Scheme!Begin /\ sig' = [sig EXCEPT !.fors = s.sig] /\ root' = s.pk
      /\ UNCHANGED <<builder, turns_of, others, pk, digest, signed, change, verdict>>
  BY Zenon DEF Scheme!SignFors, Scheme!fixed
<1>2. builder \in Scheme!Builds /\ digest \in Digests  BY DEF SchemeInv, SchemeBasics
<1>3. tier' = 0 /\ tree' = TreeAt(digest, 0) /\ idx_leaf' = LeafAt(digest, 0)
      /\ wots_addr' = Adrs(0, n, 0, k, 0, 0) /\ tree_addr' = Adrs(0, Scheme!NoTree, 2, 0, 0, 0)
  BY <1>1, <1>2, LoopBegins
<1>4. s = [sig |-> ForsSigned(n, k, digest.indices), pk |-> ForsKey(n, k)]
  <2> HIDE DEF n, k
  <2> QED BY <1>2, <1>3, ForsSignIs
<1> HIDE DEF s
<1>5. s.sig = ForsPartOf(digest) /\ s.pk = RootAt(digest, 0)  BY <1>4 DEF ForsPartOf, RootAt
<1>6. sig = [fors |-> sig.fors, layers |-> sig.layers]  BY DEF SchemeInv, Shapes
<1>7. sig' = [fors |-> s.sig, layers |-> sig.layers]
  <2> DEFINE x == sig.layers
             y == sig.fors
             z == s.sig
  <2>1. sig' = [sig EXCEPT !.fors = z] /\ sig = [fors |-> y, layers |-> x]  BY <1>1, <1>6
  <2> HIDE DEF x, y, z
  <2>2. [[fors |-> y, layers |-> x] EXCEPT !.fors = z] = [fors |-> z, layers |-> x]  OBVIOUS
  <2> QED BY <2>1, <2>2 DEF x, z
<1>8. sig'.fors = s.sig /\ sig'.layers = sig.layers  BY <1>7
<1>9. SchemeBasics'  BY <1>1 DEF SchemeInv, SchemeBasics
<1>10. Shapes'
  <2>1. sig' = [fors |-> sig'.fors, layers |-> sig'.layers]  BY <1>7, <1>8
  <2>2. sig.layers = [l \in Scheme!Layers |-> sig.layers[l]] /\ signed = [l \in Scheme!Layers |-> signed[l]]
    BY DEF SchemeInv, Shapes
  <2>3. sig'.layers = [l \in Scheme!Layers |-> sig'.layers[l]]  BY <1>8, <2>2
  <2>4. signed' = [l \in Scheme!Layers |-> signed'[l]]  BY <1>1, <2>2
  <2> QED BY <2>1, <2>3, <2>4 DEF Shapes
<1>11. Loop(digest)'
  <2>1. 0 \in 0 .. D  BY DEF SchemeSizes, Scheme!SizesAssumption
  <2>2. digest' = digest  BY <1>1
  <2> QED BY <1>3, <2>1, <2>2 DEF Loop, TreeAt, LeafAt, NumberAt
<1>12. SigningHolds'
  <2>1. \A l \in Scheme!Layers : ~(l < 0)
    <3>1. D \in Nat  BY DEF SchemeSizes, Scheme!SizesAssumption
    <3> QED BY <3>1 DEF Scheme!Layers
  <2>2. root' = RootAt(digest', tier')  BY <1>1, <1>3, <1>5
  <2>3. sig'.fors = ForsPartOf(digest')  BY <1>1, <1>5, <1>8
  <2> QED BY <1>3, <1>11, <2>1, <2>2, <2>3 DEF SigningHolds, RootAt, ForsPartOf, NumberAt, LeafAt, TreeAt
<1>13. Signing'
  <2>1. change = Scheme!NoChange  BY <1>1 DEF SchemeInv, Signing
  <2> QED BY <1>1, <1>12, <2>1 DEF Signing
<1>14. Verifying'  BY <1>1 DEF Verifying
<1> QED BY <1>9, <1>10, <1>13, <1>14 DEF SchemeInv

LEMMA SchemeSignsLayer == ASSUME SchemeSizes, SchemeInv, Scheme!SignLayer PROVE SchemeInv'
<1> DEFINE n == NumberAt(digest, tier)
           k == LeafAt(digest, tier)
           turns == turns_of[tier]
           s == Scheme!merkle_sign(builder, turns, wots_addr', tree_addr', idx_leaf)
           part == [wots |-> s.wots, path |-> s.path]
<1>1. turn = "sign_layer" /\ tier < D /\ turn' = turn /\ Scheme!LayerAddresses /\ Scheme!Upwards
      /\ signed' = [signed EXCEPT ![tier] = root] /\ root' = s.root
      /\ sig' = [sig EXCEPT !.layers[tier] = part]
      /\ UNCHANGED <<builder, turns_of, others, pk, digest, change, verdict>>
  BY Zenon DEF Scheme!SignLayer, Scheme!fixed
<1>2. builder \in Scheme!Builds /\ digest \in Digests  BY DEF SchemeInv, SchemeBasics
<1>3. SigningHolds  BY <1>1 DEF SchemeInv, Signing
<1>4. tier \in Nat /\ tier \in Scheme!Layers /\ D \in Nat
  <2>1. tier \in 0 .. D /\ D \in Nat  BY <1>3 DEF SigningHolds, Loop, SchemeSizes, Scheme!SizesAssumption
  <2> QED BY <1>1, <2>1 DEF Scheme!Layers
<1>5. /\ tier' = tier + 1 /\ tier' \in 0 .. D /\ tier' # 0 /\ tier' - 1 = tier
      /\ tree' = TreeAt(digest, tier') /\ idx_leaf' = LeafAt(digest, tier')
      /\ wots_addr' = Adrs(tier, n, 0, k, 0, 0) /\ tree_addr' = Adrs(tier, n, 2, 0, 0, 0)
  BY <1>1, <1>2, <1>3, LoopGoesOn DEF SigningHolds
<1>6. idx_leaf = k /\ k \in Scheme!Leaves(TREE_HEIGHT)
  <2>1. LeafAt(digest, tier) \in Scheme!Leaves(TREE_HEIGHT)  BY <1>2, <1>4, TreesUpwards
  <2> QED BY <1>3, <2>1 DEF SigningHolds, Loop
<1>7. s = LayerSigned(tier, n, k, turns)
  <2> HIDE DEF n, k, turns
  <2> QED BY <1>2, <1>5, <1>6, MerkleSignIs
<1> HIDE DEF s
<1>8. part = LayerPart(digest, tier)  BY <1>7 DEF LayerSigned, LayerPart
<1>9. s.root = RootAt(digest, tier')
  <2>1. s.root = LayerRoot(tier, n)  BY <1>7 DEF LayerSigned
  <2>2. RootAt(digest, tier') = LayerRoot(tier' - 1, NumberAt(digest, tier' - 1))  BY <1>5, Zenon DEF RootAt
  <2> QED BY <1>5, <2>1, <2>2, Zenon
<1> HIDE DEF part
<1>10. sig = [fors |-> sig.fors, layers |-> sig.layers] /\ sig.layers = [l \in Scheme!Layers |-> sig.layers[l]]
       /\ signed = [l \in Scheme!Layers |-> signed[l]]
  BY DEF SchemeInv, Shapes
<1>11. sig' = [fors |-> sig.fors, layers |-> [sig.layers EXCEPT ![tier] = part]]
  <2> DEFINE x == sig.layers
             y == sig.fors
  <2>1. sig' = [sig EXCEPT !.layers = [x EXCEPT ![tier] = part]] /\ sig = [fors |-> y, layers |-> x]  BY <1>1, <1>10
  <2> DEFINE z == [x EXCEPT ![tier] = part]
  <2> HIDE DEF x, y, z
  <2>2. [[fors |-> y, layers |-> x] EXCEPT !.layers = z] = [fors |-> y, layers |-> z]  OBVIOUS
  <2> QED BY <2>1, <2>2 DEF x, y, z
<1>12. sig'.fors = sig.fors /\ sig'.layers = [sig.layers EXCEPT ![tier] = part]  BY <1>11
<1> DEFINE f == sig.layers
<1>13. /\ sig'.layers = [l \in Scheme!Layers |-> sig'.layers[l]] /\ sig'.layers[tier] = part
       /\ \A l \in Scheme!Layers : l # tier => sig'.layers[l] = f[l]
  <2>1. f = [l \in Scheme!Layers |-> f[l]]  BY <1>10, Zenon
  <2> DEFINE g == [f EXCEPT ![tier] = part]
  <2> HIDE DEF f
  <2>2. g = [l \in Scheme!Layers |-> g[l]] /\ g[tier] = part /\ \A l \in Scheme!Layers : l # tier => g[l] = f[l]
    BY <1>4, <2>1
  <2>3. sig'.layers = g  BY <1>12 DEF f
  <2> HIDE DEF g
  <2> QED BY <2>2, <2>3, Zenon
<1>14. /\ signed' = [l \in Scheme!Layers |-> signed'[l]] /\ signed'[tier] = root
       /\ \A l \in Scheme!Layers : l # tier => signed'[l] = signed[l]
  BY <1>1, <1>4, <1>10
<1>15. SchemeBasics'  BY <1>1 DEF SchemeInv, SchemeBasics
<1>16. Shapes'
  <2>1. sig' = [fors |-> sig'.fors, layers |-> sig'.layers]  BY <1>11, <1>12
  <2> QED BY <2>1, <1>13, <1>14 DEF Shapes
<1>17. Loop(digest)'
  <2>1. digest' = digest  BY <1>1
  <2> QED BY <1>5, <2>1 DEF Loop, TreeAt, LeafAt, NumberAt, AddressesAt
<1>18. \A l \in Scheme!Layers : l < tier' => sig'.layers[l] = LayerPart(digest, l) /\ signed'[l] = RootAt(digest, l)
  <2>1. ASSUME NEW l \in Scheme!Layers, l < tier' PROVE sig'.layers[l] = LayerPart(digest, l) /\ signed'[l] = RootAt(digest, l)
    <3>1. l < tier \/ l = tier  BY <1>4, <1>5, <2>1 DEF Scheme!Layers
    <3>2. CASE l = tier
      <4>1. root = RootAt(digest, tier)  BY <1>3 DEF SigningHolds
      <4> QED BY <1>8, <1>13, <1>14, <3>2, <4>1
    <3>3. CASE l < tier
      <4>1. l # tier  BY <1>4, <3>3 DEF Scheme!Layers
      <4>2. sig.layers[l] = LayerPart(digest, l) /\ signed[l] = RootAt(digest, l)  BY <1>3, <3>3 DEF SigningHolds
      <4> QED BY <1>13, <1>14, <4>1, <4>2
    <3> QED BY <3>1, <3>2, <3>3
  <2> QED BY <2>1
<1>19. SigningHolds'
  <2>1. sig.fors = ForsPartOf(digest)  BY <1>3 DEF SigningHolds
  <2>2. root' = RootAt(digest', tier') /\ sig'.fors = ForsPartOf(digest')  BY <1>1, <1>9, <1>12, <2>1
  <2>3. \A l \in Scheme!Layers : LayerPart(digest, l)' = LayerPart(digest, l) /\ RootAt(digest, l)' = RootAt(digest, l)
    BY <1>1 DEF LayerPart, RootAt, NumberAt, LeafAt, TreeAt
  <2>4. RootAt(digest, tier)' = RootAt(digest', tier') /\ ForsPartOf(digest)' = ForsPartOf(digest')
    BY DEF RootAt, ForsPartOf, NumberAt, LeafAt, TreeAt
  <2>5. \A l \in Scheme!Layers : l < tier' => sig'.layers[l] = LayerPart(digest, l)' /\ signed'[l] = RootAt(digest, l)'
    BY <1>18, <2>3
  <2>6. root' = RootAt(digest, tier)' /\ sig'.fors = ForsPartOf(digest)'  BY <2>2, <2>4
  <2> QED BY <1>17, <2>5, <2>6 DEF SigningHolds
<1>20. Signing'
  <2>1. change = Scheme!NoChange  BY <1>1 DEF SchemeInv, Signing
  <2> QED BY <1>1, <1>19, <2>1 DEF Signing
<1>21. Verifying'  BY <1>1 DEF Verifying
<1> QED BY <1>15, <1>16, <1>20, <1>21 DEF SchemeInv

LEMMA SchemeHasSigned == ASSUME SchemeSizes, SchemeInv, Scheme!Signed PROVE SchemeInv'
<1>1. /\ turn = "sign_layer" /\ tier = D /\ turn' = "signed"
      /\ UNCHANGED <<builder, turns_of, others, pk, digest, signed, tier, tree, idx_leaf, wots_addr, tree_addr, root, sig, change, verdict>>
  BY Zenon DEF Scheme!Signed, Scheme!fixed
<1>2. SchemeBasics'  BY <1>1 DEF SchemeInv, SchemeBasics
<1>3. Shapes'  BY <1>1 DEF SchemeInv, Shapes
<1>4. SigningHolds'
  <2>1. SigningHolds  BY <1>1 DEF SchemeInv, Signing
  <2> QED BY <1>1, <2>1 DEF SigningHolds, Loop, AddressesAt, LayerPart, RootAt, ForsPartOf, NumberAt, LeafAt, TreeAt
<1>5. Signing'
  <2>1. change = Scheme!NoChange  BY <1>1 DEF SchemeInv, Signing
  <2> QED BY <1>1, <1>4, <2>1 DEF Signing
<1>6. Verifying'  BY <1>1 DEF Verifying
<1> QED BY <1>2, <1>3, <1>5, <1>6 DEF SchemeInv

(* What was signed and is delivered whole, or with one part of it changed. *)
LEMMA PartsAsSigned ==
  ASSUME SchemeSizes, NEW d \in Digests, NEW s, s = ForsPartOf(d), NEW x \in 0 .. FORS_TREES - 1
  PROVE  s[x].sk = ForsSecret(NumberAt(d, 0), LeafAt(d, 0), d.indices[x] + Scheme!idx_offset(x))
         /\ ForsPartIsRight(NumberAt(d, 0), LeafAt(d, 0), x, d.indices[x], s[x])
<1> DEFINE t == NumberAt(d, 0)
           k == LeafAt(d, 0)
           n == d.indices[x]
<1>1. s[x] = ForsPart(t, k, x, n)  BY Zenon DEF ForsPartOf, ForsSigned
<1> HIDE DEF t, k, n
<1>2. s[x].sk = ForsSecret(t, k, n + Scheme!idx_offset(x)) /\ s[x].path = ForsPath(t, k, x, n)  BY <1>1 DEF ForsPart
<1>3. PathIsRight(ForsRows(t, k, x), n, s[x].path, FORS_HEIGHT)  BY <1>2, Zenon DEF PathIsRight, ForsPath
<1>4. ForsPartIsRight(t, k, x, n, s[x])  BY <1>2, <1>3 DEF ForsPartIsRight
<1> QED BY <1>2, <1>4 DEF t, k, n

LEMMA OtherDigestDoesNotMatch ==
  ASSUME SchemeSizes, NEW d \in Digests, NEW e \in Digests, e # d, NEW s, s = ForsPartOf(d),
         NumberAt(e, 0) = NumberAt(d, 0), LeafAt(e, 0) = LeafAt(d, 0)
  PROVE  ~ \A x \in 0 .. FORS_TREES - 1 : ForsPartIsRight(NumberAt(e, 0), LeafAt(e, 0), x, e.indices[x], s[x])
<1> SUFFICES ASSUME \A x \in 0 .. FORS_TREES - 1 : ForsPartIsRight(NumberAt(e, 0), LeafAt(e, 0), x, e.indices[x], s[x])
             PROVE  FALSE
  OBVIOUS
<1>1. FORS_HEIGHT \in Nat  BY DEF SchemeSizes, Scheme!SizesAssumption
<1>2. 2 ^ FORS_HEIGHT \in Nat  BY <1>1, PowerDoubles
<1>3. TreeAt(d, 0) = d.tree /\ LeafAt(d, 0) = d.idx_leaf /\ TreeAt(e, 0) = e.tree /\ LeafAt(e, 0) = e.idx_leaf
  BY TreesBeginAndEnd
<1>4. d.tree = e.tree /\ d.idx_leaf = e.idx_leaf
  <2>1. Scheme!Tree(d.tree) = Scheme!Tree(e.tree)  BY <1>3 DEF NumberAt
  <2>2. Scheme!Tree(d.tree)[8] = d.tree /\ Scheme!Tree(e.tree)[8] = e.tree  BY DEF Scheme!Tree
  <2>3. d.tree = e.tree  BY <2>1, <2>2, Zenon
  <2> QED BY <1>3, <2>3
<1> DEFINE t == NumberAt(d, 0)
           k == LeafAt(d, 0)
<1>5. d.indices \in [0 .. FORS_TREES - 1 -> Scheme!Leaves(FORS_HEIGHT)]
      /\ e.indices \in [0 .. FORS_TREES - 1 -> Scheme!Leaves(FORS_HEIGHT)]
  BY DigestTypes
<1>6. ASSUME NEW x \in 0 .. FORS_TREES - 1 PROVE d.indices[x] = e.indices[x]
  <2> DEFINE a == d.indices[x]
             b == e.indices[x]
             o == Scheme!idx_offset(x)
  <2>1. a \in Scheme!Leaves(FORS_HEIGHT) /\ b \in Scheme!Leaves(FORS_HEIGHT)  BY <1>5, Zenon
  <2>2. a \in Nat /\ b \in Nat
    <3> HIDE DEF a, b
    <3> QED BY <1>2, <2>1 DEF Scheme!Leaves
  <2>3. o \in Nat  BY <1>2 DEF Scheme!idx_offset
  <2>4. s[x].sk = ForsSecret(t, k, a + o)  BY PartsAsSigned
  <2>5. s[x].sk = ForsSecret(t, k, b + o)  BY Zenon DEF ForsPartIsRight
  <2> HIDE DEF a, b, o
  <2>6. Adrs(0, t, 6, k, 0, a + o) = Adrs(0, t, 6, k, 0, b + o)  BY <2>4, <2>5, SameHash DEF ForsSecret
  <2>7. a + o = b + o  BY <2>6, AddressesDiffer
  <2> QED BY <2>2, <2>3, <2>7 DEF a, b
<1>7. d.indices = e.indices
  <2> DEFINE f == d.indices
             g == e.indices
  <2>1. f \in [0 .. FORS_TREES - 1 -> Scheme!Leaves(FORS_HEIGHT)] /\ g \in [0 .. FORS_TREES - 1 -> Scheme!Leaves(FORS_HEIGHT)]
    BY <1>5
  <2>2. \A x \in 0 .. FORS_TREES - 1 : f[x] = g[x]  BY <1>6
  <2> HIDE DEF f, g
  <2>3. f = [x \in 0 .. FORS_TREES - 1 |-> f[x]] /\ g = [x \in 0 .. FORS_TREES - 1 |-> g[x]]  BY <2>1
  <2>4. f = g  BY <2>2, <2>3, Zenon
  <2> QED BY <2>4 DEF f, g
<1>8. d = [tree |-> d.tree, idx_leaf |-> d.idx_leaf, indices |-> d.indices]
      /\ e = [tree |-> e.tree, idx_leaf |-> e.idx_leaf, indices |-> e.indices]
  BY DigestTypes
<1>9. d = e  BY <1>4, <1>7, <1>8, Zenon
<1> QED BY <1>9

(* Junk in place of one part. *)
OnePartJunk(new) ==
  \E t \in 0 .. FORS_TREES - 1 :
    \/ new[t].sk = Scheme!Junk
    \/ \E h \in 0 .. FORS_HEIGHT - 1 : new[t].path[h] = Scheme!Junk

LEMMA JunkDoesNotMatch ==
  ASSUME SchemeSizes, NEW d \in Digests, NEW s, OnePartJunk(s)
  PROVE  ~ \A x \in 0 .. FORS_TREES - 1 : ForsPartIsRight(NumberAt(d, 0), LeafAt(d, 0), x, d.indices[x], s[x])
<1>1. PICK x \in 0 .. FORS_TREES - 1 :
        \/ s[x].sk = Scheme!Junk
        \/ \E h \in 0 .. FORS_HEIGHT - 1 : s[x].path[h] = Scheme!Junk
  BY DEF OnePartJunk
<1> DEFINE t == NumberAt(d, 0)
           k == LeafAt(d, 0)
           n == d.indices[x]
<1>2. n \in Scheme!Leaves(FORS_HEIGHT)
  <2>1. d.indices \in [0 .. FORS_TREES - 1 -> Scheme!Leaves(FORS_HEIGHT)]  BY DigestTypes
  <2> QED BY <2>1, Zenon
<1> HIDE DEF t, k, n
<1>3. ~ForsPartIsRight(t, k, x, n, s[x])
  <2>1. CASE s[x].sk = Scheme!Junk
    <3>1. ForsSecret(t, k, n + Scheme!idx_offset(x)) # Scheme!Junk  BY SameHash DEF ForsSecret
    <3> QED BY <2>1, <3>1 DEF ForsPartIsRight
  <2>2. ASSUME NEW h \in 0 .. FORS_HEIGHT - 1, s[x].path[h] = Scheme!Junk PROVE ~ForsPartIsRight(t, k, x, n, s[x])
    <3>1. ForsRows(t, k, x)[h][Sibling(n \div 2 ^ h)] # Scheme!Junk  BY <1>2, PathsAreHashes
    <3>2. PathIsRight(ForsRows(t, k, x), n, s[x].path, FORS_HEIGHT)
            => s[x].path[h] = ForsRows(t, k, x)[h][Sibling(n \div 2 ^ h)]
      BY Zenon DEF PathIsRight
    <3> QED BY <2>2, <3>1, <3>2 DEF ForsPartIsRight
  <2> QED BY <1>1, <2>1, <2>2
<1> QED BY <1>3 DEF t, k, n

(* One part of a signature replaced. *)
LEMMA OneForsPartReplaced ==
  ASSUME NEW s, s = [fors |-> s.fors, layers |-> s.layers], NEW S, s.fors = [x \in S |-> s.fors[x]], NEW t \in S,
         s.fors[t] = [sk |-> s.fors[t].sk, path |-> s.fors[t].path], NEW v
  PROVE  /\ [s EXCEPT !.fors[t].sk = v] = [fors |-> [s EXCEPT !.fors[t].sk = v].fors, layers |-> s.layers]
         /\ [s EXCEPT !.fors[t].sk = v].fors[t].sk = v
<1> DEFINE f == s.fors
           g == s.layers
           one == f[t]
           q == [one EXCEPT !.sk = v]
           e == [f EXCEPT ![t] = q]
<1>1. s = [fors |-> f, layers |-> g] /\ f = [x \in S |-> f[x]] /\ one = [sk |-> one.sk, path |-> one.path]  OBVIOUS
<1>2. [s EXCEPT !.fors[t].sk = v] = [s EXCEPT !.fors = e]  OBVIOUS
<1>3. q.sk = v
  <2> HIDE DEF one
  <2>1. [[sk |-> one.sk, path |-> one.path] EXCEPT !.sk = v] = [sk |-> v, path |-> one.path]  OBVIOUS
  <2> QED BY <1>1, <2>1
<1> HIDE DEF one, q
<1>4. e[t] = q
  <2> HIDE DEF f
  <2> QED BY <1>1
<1> HIDE DEF e, f, g
<1>5. [s EXCEPT !.fors = e] = [fors |-> e, layers |-> g]
  <2>1. [[fors |-> f, layers |-> g] EXCEPT !.fors = e] = [fors |-> e, layers |-> g]  OBVIOUS
  <2> QED BY <1>1, <2>1
<1>6. [s EXCEPT !.fors[t].sk = v] = [fors |-> e, layers |-> g]  BY <1>2, <1>5
<1>7. [s EXCEPT !.fors[t].sk = v].fors = e  BY <1>6
<1>8. [s EXCEPT !.fors[t].sk = v].fors[t].sk = v  BY <1>3, <1>4, <1>7, Zenon
<1>9. [s EXCEPT !.fors[t].sk = v] = [fors |-> [s EXCEPT !.fors[t].sk = v].fors, layers |-> g]  BY <1>6, <1>7, Zenon
<1> QED BY <1>8, <1>9, Zenon DEF g

LEMMA OneForsNodeReplaced ==
  ASSUME NEW s, s = [fors |-> s.fors, layers |-> s.layers], NEW S, s.fors = [x \in S |-> s.fors[x]], NEW t \in S,
         s.fors[t] = [sk |-> s.fors[t].sk, path |-> s.fors[t].path],
         NEW H, s.fors[t].path = [x \in H |-> s.fors[t].path[x]], NEW h \in H, NEW v
  PROVE  /\ [s EXCEPT !.fors[t].path[h] = v] = [fors |-> [s EXCEPT !.fors[t].path[h] = v].fors, layers |-> s.layers]
         /\ [s EXCEPT !.fors[t].path[h] = v].fors[t].path[h] = v
<1> DEFINE f == s.fors
           g == s.layers
           one == f[t]
           r == one.path
           w == [r EXCEPT ![h] = v]
           q == [one EXCEPT !.path = w]
           e == [f EXCEPT ![t] = q]
<1>1. s = [fors |-> f, layers |-> g] /\ f = [x \in S |-> f[x]] /\ one = [sk |-> one.sk, path |-> r]
      /\ r = [x \in H |-> r[x]]
  OBVIOUS
<1>2. [s EXCEPT !.fors[t].path[h] = v] = [s EXCEPT !.fors = e]  OBVIOUS
<1>2a. w[h] = v
  <2> HIDE DEF r
  <2> QED BY <1>1
<1> HIDE DEF w
<1>3. q.path = w
  <2> HIDE DEF one, r
  <2>1. [[sk |-> one.sk, path |-> r] EXCEPT !.path = w] = [sk |-> one.sk, path |-> w]  OBVIOUS
  <2> QED BY <1>1, <2>1
<1> HIDE DEF one, q, r
<1>4. e[t] = q
  <2> HIDE DEF f
  <2> QED BY <1>1
<1> HIDE DEF e, f, g
<1>5. [s EXCEPT !.fors = e] = [fors |-> e, layers |-> g]
  <2>1. [[fors |-> f, layers |-> g] EXCEPT !.fors = e] = [fors |-> e, layers |-> g]  OBVIOUS
  <2> QED BY <1>1, <2>1
<1>6. [s EXCEPT !.fors[t].path[h] = v] = [fors |-> e, layers |-> g]  BY <1>2, <1>5
<1>7. [s EXCEPT !.fors[t].path[h] = v].fors = e  BY <1>6
<1>8. [s EXCEPT !.fors[t].path[h] = v].fors[t].path[h] = v  BY <1>2a, <1>3, <1>4, <1>7, Zenon
<1>9. [s EXCEPT !.fors[t].path[h] = v] = [fors |-> [s EXCEPT !.fors[t].path[h] = v].fors, layers |-> g]  BY <1>6, <1>7, Zenon
<1> QED BY <1>8, <1>9, Zenon DEF g

OnlyLayer(new, s, l, S) ==
  /\ new = [fors |-> s.fors, layers |-> new.layers]
  /\ new.layers = [x \in S |-> new.layers[x]]
  /\ \A x \in S : x # l => new.layers[x] = s.layers[x]

LEMMA OneChainReplaced ==
  ASSUME NEW s, s = [fors |-> s.fors, layers |-> s.layers], NEW S, s.layers = [x \in S |-> s.layers[x]], NEW l \in S,
         s.layers[l] = [wots |-> s.layers[l].wots, path |-> s.layers[l].path],
         NEW H, s.layers[l].wots = [x \in H |-> s.layers[l].wots[x]], NEW h \in H, NEW v
  PROVE  OnlyLayer([s EXCEPT !.layers[l].wots[h] = v], s, l, S) /\ [s EXCEPT !.layers[l].wots[h] = v].layers[l].wots[h] = v
<1> DEFINE f == s.layers
           g == s.fors
           one == f[l]
           r == one.wots
           w == [r EXCEPT ![h] = v]
           q == [one EXCEPT !.wots = w]
           e == [f EXCEPT ![l] = q]
           new == [s EXCEPT !.layers[l].wots[h] = v]
<1>1. s = [fors |-> g, layers |-> f] /\ f = [x \in S |-> f[x]] /\ one = [wots |-> r, path |-> one.path]
      /\ r = [x \in H |-> r[x]]
  OBVIOUS
<1>2. new = [s EXCEPT !.layers = e]  OBVIOUS
<1>3. w[h] = v
  <2> HIDE DEF r
  <2> QED BY <1>1
<1> HIDE DEF w
<1>4. q.wots = w
  <2> HIDE DEF one, r
  <2>1. [[wots |-> r, path |-> one.path] EXCEPT !.wots = w] = [wots |-> w, path |-> one.path]  OBVIOUS
  <2> QED BY <1>1, <2>1
<1> HIDE DEF one, q, r
<1>5. e[l] = q /\ e = [x \in S |-> e[x]] /\ \A x \in S : x # l => e[x] = f[x]
  <2> HIDE DEF f
  <2> QED BY <1>1
<1> HIDE DEF e, f, g, new
<1>6. [s EXCEPT !.layers = e] = [fors |-> g, layers |-> e]
  <2>1. [[fors |-> g, layers |-> f] EXCEPT !.layers = e] = [fors |-> g, layers |-> e]  OBVIOUS
  <2> QED BY <1>1, <2>1
<1>7. new = [fors |-> g, layers |-> e] /\ new.layers = e  BY <1>2, <1>6
<1>8. new.layers[l].wots[h] = v  BY <1>3, <1>4, <1>5, <1>7, Zenon
<1>9. OnlyLayer(new, s, l, S)  BY <1>5, <1>7, Zenon DEF OnlyLayer, f, g
<1> QED BY <1>8, <1>9 DEF new

LEMMA OneNodeReplaced ==
  ASSUME NEW s, s = [fors |-> s.fors, layers |-> s.layers], NEW S, s.layers = [x \in S |-> s.layers[x]], NEW l \in S,
         s.layers[l] = [wots |-> s.layers[l].wots, path |-> s.layers[l].path],
         NEW H, s.layers[l].path = [x \in H |-> s.layers[l].path[x]], NEW h \in H, NEW v
  PROVE  OnlyLayer([s EXCEPT !.layers[l].path[h] = v], s, l, S) /\ [s EXCEPT !.layers[l].path[h] = v].layers[l].path[h] = v
<1> DEFINE f == s.layers
           g == s.fors
           one == f[l]
           r == one.path
           w == [r EXCEPT ![h] = v]
           q == [one EXCEPT !.path = w]
           e == [f EXCEPT ![l] = q]
           new == [s EXCEPT !.layers[l].path[h] = v]
<1>1. s = [fors |-> g, layers |-> f] /\ f = [x \in S |-> f[x]] /\ one = [wots |-> one.wots, path |-> r]
      /\ r = [x \in H |-> r[x]]
  OBVIOUS
<1>2. new = [s EXCEPT !.layers = e]  OBVIOUS
<1>3. w[h] = v
  <2> HIDE DEF r
  <2> QED BY <1>1
<1> HIDE DEF w
<1>4. q.path = w
  <2> HIDE DEF one, r
  <2>1. [[wots |-> one.wots, path |-> r] EXCEPT !.path = w] = [wots |-> one.wots, path |-> w]  OBVIOUS
  <2> QED BY <1>1, <2>1
<1> HIDE DEF one, q, r
<1>5. e[l] = q /\ e = [x \in S |-> e[x]] /\ \A x \in S : x # l => e[x] = f[x]
  <2> HIDE DEF f
  <2> QED BY <1>1
<1> HIDE DEF e, f, g, new
<1>6. [s EXCEPT !.layers = e] = [fors |-> g, layers |-> e]
  <2>1. [[fors |-> g, layers |-> f] EXCEPT !.layers = e] = [fors |-> g, layers |-> e]  OBVIOUS
  <2> QED BY <1>1, <2>1
<1>7. new = [fors |-> g, layers |-> e] /\ new.layers = e  BY <1>2, <1>6
<1>8. new.layers[l].path[h] = v  BY <1>3, <1>4, <1>5, <1>7, Zenon
<1>9. OnlyLayer(new, s, l, S)  BY <1>5, <1>7, Zenon DEF OnlyLayer, f, g
<1> QED BY <1>8, <1>9 DEF new

LEMMA SchemeDelivers == ASSUME SchemeSizes, SchemeInv, Scheme!Deliver PROVE SchemeInv'
<1> DEFINE J == Scheme!Junk
<1>1. /\ turn = "signed" /\ turn' = "verify"
      /\ UNCHANGED <<builder, turns_of, others, pk, signed, tier, tree, idx_leaf, wots_addr, tree_addr, root, verdict>>
  BY Zenon DEF Scheme!Deliver, Scheme!fixed
<1>2. digest \in Digests /\ SigningHolds /\ tier = D /\ change = Scheme!NoChange
  BY <1>1 DEF SchemeInv, SchemeBasics, Signing
<1>3. PICK d \in Digests : d = digest  BY <1>2
<1>4. D \in Nat  BY DEF SchemeSizes, Scheme!SizesAssumption
<1>5. /\ sig.fors = ForsPartOf(d)
      /\ \A l \in Scheme!Layers : sig.layers[l] = LayerPart(d, l) /\ signed[l] = RootAt(d, l)
  <2>1. \A l \in Scheme!Layers : l < tier  BY <1>2, <1>4 DEF Scheme!Layers
  <2> QED BY <1>2, <1>3, <2>1 DEF SigningHolds
<1>6. sig = [fors |-> sig.fors, layers |-> sig.layers] /\ sig.layers = [l \in Scheme!Layers |-> sig.layers[l]]
      /\ signed = [l \in Scheme!Layers |-> signed[l]]
  BY DEF SchemeInv, Shapes
<1> DEFINE S == 0 .. FORS_TREES - 1
           H == 0 .. FORS_HEIGHT - 1
           C == 0 .. WotsLEN - 1
           K == 0 .. TREE_HEIGHT - 1
           L == Scheme!Layers
           Fine == sig' = [fors |-> sig'.fors, layers |-> sig'.layers] /\ sig'.layers = [l \in L |-> sig'.layers[l]]
           Matches == \A x \in S : ForsPartIsRight(NumberAt(digest', 0), LeafAt(digest', 0), x, digest'.indices[x], sig'.fors[x])
<1>7. sig.fors = [x \in S |-> sig.fors[x]]
      /\ \A x \in S : /\ sig.fors[x] = [sk |-> sig.fors[x].sk, path |-> sig.fors[x].path]
                      /\ sig.fors[x].path = [h \in H |-> sig.fors[x].path[h]]
  <2> DEFINE n == NumberAt(d, 0)
             k == LeafAt(d, 0)
             f == sig.fors
             part(x) == ForsPart(n, k, x, d.indices[x])
  <2>1. f = [x \in S |-> part(x)]  BY <1>5 DEF ForsPartOf, ForsSigned
  <2>2. ASSUME NEW x PROVE part(x) = [sk |-> part(x).sk, path |-> part(x).path]
                           /\ part(x).path = [h \in H |-> part(x).path[h]]
    <3> DEFINE m == d.indices[x]
    <3> HIDE DEF m, n, k
    <3>1. ForsPart(n, k, x, m).path = ForsPath(n, k, x, m)  BY DEF ForsPart
    <3>2. ForsPath(n, k, x, m) = [h \in H |-> ForsPath(n, k, x, m)[h]]  BY DEF ForsPath
    <3>3. ForsPart(n, k, x, m) = [sk |-> ForsPart(n, k, x, m).sk, path |-> ForsPart(n, k, x, m).path]  BY DEF ForsPart
    <3> QED BY <3>1, <3>2, <3>3 DEF m
  <2> HIDE DEF f, part, S
  <2>3. f = [x \in S |-> f[x]]  BY <2>1
  <2>4. \A x \in S : f[x] = part(x)  BY <2>1
  <2>5. \A x \in S : f[x] = [sk |-> f[x].sk, path |-> f[x].path] /\ f[x].path = [h \in H |-> f[x].path[h]]
    BY <2>2, <2>4, Zenon
  <2> QED BY <2>3, <2>5, Zenon DEF f
<1>8. ASSUME NEW l \in L
      PROVE  /\ sig.layers[l] = [wots |-> sig.layers[l].wots, path |-> sig.layers[l].path]
             /\ sig.layers[l].wots = [c \in C |-> sig.layers[l].wots[c]]
             /\ sig.layers[l].path = [h \in K |-> sig.layers[l].path[h]]
  <2> DEFINE n == NumberAt(d, l)
             k == LeafAt(d, l)
             m == turns_of[l]
             w == LayerWots(l, n, k, m)
             e == LayerPath(l, n, k)
             x == sig.layers[l]
  <2>1. x = [wots |-> w, path |-> e]  BY <1>5 DEF LayerPart
  <2> HIDE DEF n, k, m
  <2>2. w = [c \in C |-> w[c]] /\ e = [h \in K |-> e[h]]  BY DEF LayerWots, LayerPath
  <2> HIDE DEF w, e, x
  <2>3. x.wots = w /\ x.path = e  BY <2>1
  <2>4. x = [wots |-> x.wots, path |-> x.path] /\ x.wots = [c \in C |-> x.wots[c]] /\ x.path = [h \in K |-> x.path[h]]
    BY <2>1, <2>2, <2>3, Zenon
  <2> QED BY <2>4 DEF x
<1> DEFINE Right ==
             /\ digest' \in Digests /\ Fine
             /\ change' = Scheme!NoChange \/ change'[1] \in ForsKinds \/ (change'[1] \in LayerKinds /\ change'[2] \in L)
             /\ change'[1] # "digest" => digest' = d
             /\ (NumberAt(digest', 0) = NumberAt(d, 0) /\ LeafAt(digest', 0) = LeafAt(d, 0) /\ Matches)
                  <=> change'[1] \notin ForsKinds
             /\ \A l \in L :
                  /\ ~(change'[1] \in LayerKinds /\ change'[2] = l) => sig'.layers[l] = LayerPart(d, l)
                  /\ change'[1] \in LayerKinds /\ change'[2] = l =>
                       \/ \E c \in C : sig'.layers[l].wots[c] = J
                       \/ \E h \in K : sig'.layers[l].path[h] = J
<1>9. ASSUME change' = Scheme!NoChange, sig' = sig, digest' = digest PROVE Right
  <2>1. change'[1] = "none"  BY <1>9 DEF Scheme!NoChange
  <2>2. change'[1] \notin ForsKinds /\ change'[1] \notin LayerKinds /\ change'[1] # "digest"
    BY <2>1 DEF ForsKinds, LayerKinds
  <2>3. Matches
    <3>1. \A x \in S : ForsPartIsRight(NumberAt(d, 0), LeafAt(d, 0), x, d.indices[x], sig.fors[x])
      BY <1>5, PartsAsSigned
    <3> QED BY <1>3, <1>9, <3>1, Zenon
  <2>4. Fine  BY <1>6, <1>9
  <2> HIDE DEF Fine, Matches
  <2> QED BY <1>2, <1>3, <1>5, <1>9, <2>2, <2>3, <2>4
<1>10. ASSUME NEW e \in Digests \ {digest}, change' = <<"digest", 0, 0>>, digest' = e, sig' = sig PROVE Right
  <2>1. change'[1] = "digest"  BY <1>10
  <2>2. change'[1] \in ForsKinds /\ change'[1] \notin LayerKinds  BY <2>1 DEF ForsKinds, LayerKinds
  <2>3. ~(NumberAt(digest', 0) = NumberAt(d, 0) /\ LeafAt(digest', 0) = LeafAt(d, 0) /\ Matches)
    <3>1. e # d /\ e \in Digests /\ d \in Digests  BY <1>3, <1>10
    <3>2. NumberAt(e, 0) = NumberAt(d, 0) /\ LeafAt(e, 0) = LeafAt(d, 0) =>
            ~ \A x \in S : ForsPartIsRight(NumberAt(e, 0), LeafAt(e, 0), x, e.indices[x], sig.fors[x])
      BY <1>5, <3>1, OtherDigestDoesNotMatch
    <3> QED BY <1>10, <3>2, Zenon
  <2>4. Fine  BY <1>6, <1>10
  <2> HIDE DEF Fine, Matches
  <2> QED BY <1>5, <1>10, <2>1, <2>2, <2>3, <2>4
<1>11. ASSUME change'[1] \in {"sk", "fors path"}, digest' = digest,
              sig' = [fors |-> sig'.fors, layers |-> sig.layers], OnePartJunk(sig'.fors)
       PROVE  Right
  <2>1. change'[1] \in ForsKinds /\ change'[1] \notin LayerKinds /\ change'[1] # "digest"
    BY <1>11 DEF ForsKinds, LayerKinds
  <2>2. sig'.layers = sig.layers
    <3> DEFINE f == sig'.fors
               g == sig.layers
    <3>1. sig' = [fors |-> f, layers |-> g]  BY <1>11
    <3> HIDE DEF f, g
    <3>2. sig'.layers = g  BY <3>1
    <3> QED BY <3>2 DEF g
  <2>3. Fine
    <3>1. sig' = [fors |-> sig'.fors, layers |-> sig'.layers]  BY <1>11, <2>2
    <3>2. sig'.layers = [l \in L |-> sig'.layers[l]]  BY <1>6, <2>2
    <3> QED BY <3>1, <3>2
  <2>4. ~Matches
    <3>1. ~ \A x \in S : ForsPartIsRight(NumberAt(d, 0), LeafAt(d, 0), x, d.indices[x], sig'.fors[x])
      BY <1>11, JunkDoesNotMatch
    <3> QED BY <1>3, <1>11, <3>1, Zenon
  <2> HIDE DEF Fine, Matches
  <2> QED BY <1>2, <1>3, <1>5, <1>11, <2>1, <2>2, <2>3, <2>4
<1>12. ASSUME NEW l \in L, change'[1] \in LayerKinds, change'[2] = l, digest' = digest, OnlyLayer(sig', sig, l, L),
              (\E c \in C : sig'.layers[l].wots[c] = J) \/ (\E h \in K : sig'.layers[l].path[h] = J)
       PROVE  Right
  <2>1. change'[1] \notin ForsKinds /\ change'[1] # "digest"  BY <1>12 DEF ForsKinds, LayerKinds
  <2>2. sig'.fors = sig.fors
    <3> DEFINE f == sig.fors
               g == sig'.layers
    <3>1. sig' = [fors |-> f, layers |-> g]  BY <1>12 DEF OnlyLayer
    <3> HIDE DEF f, g
    <3>2. sig'.fors = f  BY <3>1
    <3> QED BY <3>2 DEF f
  <2>3. Fine
    <3>1. sig' = [fors |-> sig'.fors, layers |-> sig'.layers]  BY <1>12, <2>2 DEF OnlyLayer
    <3>2. sig'.layers = [x \in L |-> sig'.layers[x]]  BY <1>12, Zenon DEF OnlyLayer
    <3> QED BY <3>1, <3>2
  <2>4. Matches
    <3>1. \A x \in S : ForsPartIsRight(NumberAt(d, 0), LeafAt(d, 0), x, d.indices[x], sig.fors[x])
      BY <1>5, PartsAsSigned
    <3> QED BY <1>3, <1>12, <2>2, <3>1, Zenon
  <2>5. \A x \in L : x # l => sig'.layers[x] = LayerPart(d, x)  BY <1>5, <1>12, Zenon DEF OnlyLayer
  <2> HIDE DEF Fine, Matches, L, C, K
  <2> QED BY <1>2, <1>3, <1>12, <2>1, <2>3, <2>4, <2>5
<1>13. ASSUME NEW t \in S, change' = <<"sk", t, 0>>, sig' = [sig EXCEPT !.fors[t].sk = J], digest' = digest PROVE Right
  <2>1. sig' = [fors |-> sig'.fors, layers |-> sig.layers] /\ sig'.fors[t].sk = J
    <3> HIDE DEF S, J
    <3> QED BY <1>6, <1>7, <1>13, OneForsPartReplaced, Zenon
  <2>2. OnePartJunk(sig'.fors)  BY <2>1, Zenon DEF OnePartJunk
  <2>3. change'[1] \in {"sk", "fors path"}  BY <1>13
  <2> HIDE DEF Right
  <2> QED BY <1>11, <1>13, <2>1, <2>2, <2>3
<1>14. ASSUME NEW t \in S, NEW h \in H, change' = <<"fors path", t, h>>,
              sig' = [sig EXCEPT !.fors[t].path[h] = J], digest' = digest
       PROVE  Right
  <2>1. sig' = [fors |-> sig'.fors, layers |-> sig.layers] /\ sig'.fors[t].path[h] = J
    <3> HIDE DEF S, J, H
    <3>1. sig.fors[t] = [sk |-> sig.fors[t].sk, path |-> sig.fors[t].path]
          /\ sig.fors[t].path = [x \in H |-> sig.fors[t].path[x]]
      BY <1>7, Zenon
    <3> QED BY <1>6, <1>7, <1>14, <3>1, OneForsNodeReplaced, Zenon
  <2>2. OnePartJunk(sig'.fors)  BY <2>1, Zenon DEF OnePartJunk
  <2>3. change'[1] \in {"sk", "fors path"}  BY <1>14
  <2> HIDE DEF Right
  <2> QED BY <1>11, <1>14, <2>1, <2>2, <2>3
<1>15. ASSUME NEW l \in L, NEW c \in C, change' = <<"wots", l, c>>,
              sig' = [sig EXCEPT !.layers[l].wots[c] = J], digest' = digest
       PROVE  Right
  <2>1. OnlyLayer(sig', sig, l, L) /\ sig'.layers[l].wots[c] = J
    <3> HIDE DEF L, J, C
    <3>1. sig.layers[l] = [wots |-> sig.layers[l].wots, path |-> sig.layers[l].path]
          /\ sig.layers[l].wots = [x \in C |-> sig.layers[l].wots[x]]
      BY <1>8, Zenon
    <3>2. sig.layers = [x \in L |-> sig.layers[x]]  BY <1>6, Zenon DEF L
    <3> QED BY <1>6, <1>15, <3>1, <3>2, OneChainReplaced, Zenon
  <2>2. change'[1] \in LayerKinds /\ change'[2] = l  BY <1>15 DEF LayerKinds
  <2> HIDE DEF Right, L, C, K, J
  <2> QED BY <1>12, <1>15, <2>1, <2>2, Zenon
<1>16. ASSUME NEW l \in L, NEW h \in K, change' = <<"path", l, h>>,
              sig' = [sig EXCEPT !.layers[l].path[h] = J], digest' = digest
       PROVE  Right
  <2>1. OnlyLayer(sig', sig, l, L) /\ sig'.layers[l].path[h] = J
    <3> HIDE DEF L, J, K
    <3>1. sig.layers[l] = [wots |-> sig.layers[l].wots, path |-> sig.layers[l].path]
          /\ sig.layers[l].path = [x \in K |-> sig.layers[l].path[x]]
      BY <1>8, Zenon
    <3>2. sig.layers = [x \in L |-> sig.layers[x]]  BY <1>6, Zenon DEF L
    <3> QED BY <1>6, <1>16, <3>1, <3>2, OneNodeReplaced, Zenon
  <2>2. change'[1] \in LayerKinds /\ change'[2] = l  BY <1>16 DEF LayerKinds
  <2> HIDE DEF Right, L, C, K, J
  <2> QED BY <1>12, <1>16, <2>1, <2>2, Zenon
<1>17. Right
  <2>1. \/ change' = Scheme!NoChange /\ UNCHANGED <<sig, digest>>
        \/ \E e \in Digests \ {digest} : change' = <<"digest", 0, 0>> /\ digest' = e /\ UNCHANGED sig
        \/ \E t \in S :
             \/ change' = <<"sk", t, 0>> /\ sig' = [sig EXCEPT !.fors[t].sk = J] /\ UNCHANGED digest
             \/ \E h \in H :
                  change' = <<"fors path", t, h>> /\ sig' = [sig EXCEPT !.fors[t].path[h] = J] /\ UNCHANGED digest
        \/ \E l \in L :
             \/ \E c \in C :
                  change' = <<"wots", l, c>> /\ sig' = [sig EXCEPT !.layers[l].wots[c] = J] /\ UNCHANGED digest
             \/ \E h \in K :
                  change' = <<"path", l, h>> /\ sig' = [sig EXCEPT !.layers[l].path[h] = J] /\ UNCHANGED digest
    BY Zenon DEF Scheme!Deliver
  <2> HIDE DEF Right, L, C, K, J, S, H
  <2>2. change' = Scheme!NoChange /\ UNCHANGED <<sig, digest>> => Right  BY <1>9
  <2> QED BY <1>10, <1>13, <1>14, <1>15, <1>16, <2>1, <2>2, Zenon
<1>18. SchemeBasics'  BY <1>1, <1>17 DEF SchemeInv, SchemeBasics
<1>19. Shapes'
  <2>1. signed' = [l \in L |-> signed'[l]]  BY <1>1, <1>6
  <2> QED BY <1>17, <2>1, Zenon DEF Shapes
<1>20. Signing'  BY <1>1 DEF Signing
<1>21. WasSigned(d)'
  <2>1. \A l \in L : signed'[l] = RootAt(d, l)  BY <1>1, <1>5
  <2> QED BY <2>1, Zenon DEF WasSigned, RootAt, NumberAt, LeafAt, TreeAt
<1>22. Delivered(d)'
  <2>1. \A l \in L : LayerPart(d, l)' = LayerPart(d, l)  BY <1>1 DEF LayerPart, NumberAt, LeafAt, TreeAt
  <2>2. Changed'  BY <1>17, Zenon DEF Changed
  <2>3. LayersMatch(d)'  BY <1>17, <2>1, Zenon DEF LayersMatch, AboutLayer
  <2>4. ForsMatches(d)' <=> change'[1] \notin ForsKinds
    BY <1>17, Zenon DEF ForsMatches, NumberAt, LeafAt, TreeAt
  <2>5. change'[1] # "digest" => digest' = d  BY <1>17, Zenon
  <2> HIDE DEF Right
  <2> QED BY <2>2, <2>3, <2>4, <2>5, Zenon DEF Delivered
<1>23. VerifyingHolds(d)'
  <2>1. turn' # "verify_layer" /\ turn' # "done"  BY <1>1
  <2> QED BY <1>21, <1>22, <2>1, Zenon DEF VerifyingHolds
<1>24. Verifying'  BY <1>3, <1>23, Zenon DEF Verifying
<1> QED BY <1>18, <1>19, <1>20, <1>24 DEF SchemeInv

LEMMA ChangedLayerIsOne ==
  ASSUME Changed, change[1] \in LayerKinds
  PROVE  change[1] \notin ForsKinds /\ change[2] \in Scheme!Layers
<1>1. change[1] = "wots" \/ change[1] = "path"  BY DEF LayerKinds
<1>2. change[1] \notin ForsKinds  BY <1>1 DEF ForsKinds
<1>3. change # Scheme!NoChange
  <2>1. Scheme!NoChange[1] = "none"  BY DEF Scheme!NoChange
  <2>2. Scheme!NoChange[1] # "wots" /\ Scheme!NoChange[1] # "path"  BY <2>1
  <2> QED BY <1>1, <2>2
<1> QED BY <1>2, <1>3 DEF Changed

LEMMA SchemeVerifiesFors == ASSUME SchemeSizes, SchemeInv, Scheme!VerifyFors PROVE SchemeInv'
<1>1. /\ turn = "verify" /\ turn' = "verify_layer" /\ Scheme!Begin
      /\ root' = Scheme!fors_pk_from_sig(sig.fors, digest.indices, wots_addr')
      /\ UNCHANGED <<builder, turns_of, others, pk, digest, signed, sig, change, verdict>>
  BY Zenon DEF Scheme!VerifyFors, Scheme!fixed
<1>2. digest \in Digests  BY DEF SchemeInv, SchemeBasics
<1>3. PICK d \in Digests : VerifyingHolds(d)  BY <1>1 DEF SchemeInv, Verifying
<1>4. WasSigned(d) /\ Delivered(d)  BY <1>3 DEF VerifyingHolds
<1> DEFINE n == NumberAt(digest, 0)
           k == LeafAt(digest, 0)
<1>5. tier' = 0 /\ tree' = TreeAt(digest, 0) /\ idx_leaf' = LeafAt(digest, 0)
      /\ wots_addr' = Adrs(0, n, 0, k, 0, 0) /\ tree_addr' = Adrs(0, Scheme!NoTree, 2, 0, 0, 0)
  BY <1>1, <1>2, LoopBegins
<1>6. root' = RootAt(d, 0) <=> change[1] \notin ForsKinds
  <2> DEFINE n2 == NumberAt(d, 0)
             k2 == LeafAt(d, 0)
             s == sig.fors
             e == digest.indices
  <2>1. e \in [0 .. FORS_TREES - 1 -> Scheme!Leaves(FORS_HEIGHT)]  BY <1>2, DigestTypes
  <2>2. root' = Scheme!fors_pk_from_sig(s, e, Adrs(0, n, 0, k, 0, 0))  BY <1>1, <1>5
  <2>3. RootAt(d, 0) = ForsKey(n2, k2)  BY DEF RootAt
  <2>4. ForsMatches(d) <=> n = n2 /\ k = k2 /\ \A x \in 0 .. FORS_TREES - 1 : ForsPartIsRight(n, k, x, e[x], s[x])
    BY Zenon DEF ForsMatches
  <2> HIDE DEF n, k, n2, k2, s, e
  <2>5. ForsVerified(s, e, n, k, n2, k2)  BY <2>1, ForsIsVerified
  <2>6. ForsMatches(d) <=> change[1] \notin ForsKinds  BY <1>4 DEF Delivered
  <2> QED BY <2>2, <2>3, <2>4, <2>5, <2>6, Zenon DEF ForsVerified
<1>7. ~(change[1] \in LayerKinds /\ change[2] < 0)
  <2>1. D \in Nat  BY DEF SchemeSizes, Scheme!SizesAssumption
  <2> SUFFICES ASSUME change[1] \in LayerKinds, change[2] < 0 PROVE FALSE  OBVIOUS
  <2>2. change[2] \in Scheme!Layers  BY <1>4, ChangedLayerIsOne DEF Delivered
  <2> QED BY <2>1, <2>2 DEF Scheme!Layers
<1>8. (root' = RootAt(d, 0)) <=> ~(change[1] \in ForsKinds \/ (change[1] \in LayerKinds /\ change[2] < 0))
  BY <1>6, <1>7
<1>9. SchemeBasics'  BY <1>1 DEF SchemeInv, SchemeBasics
<1>10. Shapes'  BY <1>1 DEF SchemeInv, Shapes
<1>11. Signing'  BY <1>1 DEF Signing
<1>12. Loop(digest)'
  <2>1. 0 \in 0 .. D  BY DEF SchemeSizes, Scheme!SizesAssumption
  <2> QED BY <1>1, <1>5, <2>1 DEF Loop, TreeAt, LeafAt, NumberAt
<1>13. (root = RootAt(d, tier) <=> ~Broken(tier))'
  <2>1. RootAt(d, tier)' = RootAt(d, 0)  BY <1>5 DEF RootAt, NumberAt, LeafAt, TreeAt
  <2>2. Broken(tier)' <=> change[1] \in ForsKinds \/ (change[1] \in LayerKinds /\ change[2] < 0)
    BY <1>1, <1>5 DEF Broken
  <2> QED BY <1>8, <2>1, <2>2, Zenon
<1>14. WasSigned(d)'  BY <1>1, <1>4 DEF WasSigned, RootAt, NumberAt, LeafAt, TreeAt
<1>15. Delivered(d)'
  BY <1>1, <1>4 DEF Delivered, Changed, ForsMatches, LayersMatch, AboutLayer, LayerPart, NumberAt, LeafAt, TreeAt
<1>16. VerifyingHolds(d)'
  <2>1. turn' # "done"  BY <1>1
  <2> QED BY <1>12, <1>13, <1>14, <1>15, <2>1, Zenon DEF VerifyingHolds
<1>17. Verifying'  BY <1>3, <1>16, Zenon DEF Verifying
<1> QED BY <1>9, <1>10, <1>11, <1>17 DEF SchemeInv

(* A layer gives the root that was signed when nothing was changed so far, in it or below. *)
LEMMA LayerGivesRoot ==
  ASSUME SchemeSizes, NEW d \in Digests, digest \in Digests, NEW l \in Scheme!Layers, WasSigned(d), Delivered(d),
         turns_of \in [Scheme!Layers -> ChainLengths], others \in [Scheme!Layers -> ChainLengths],
         \A m \in Scheme!Layers : others[m] # turns_of[m],
         NEW before, before = RootAt(d, l) <=> ~Broken(l),
         NEW turns, turns = (IF before = signed[l] THEN turns_of[l] ELSE others[l])
  PROVE  LayerVerified(l, NumberAt(digest, l), LeafAt(digest, l), sig.layers[l], turns) = LayerRoot(l, NumberAt(d, l))
           <=> ~Broken(l + 1)
<1> DEFINE n == NumberAt(digest, l)
           k == LeafAt(digest, l)
           s == sig.layers[l]
           Good == n = NumberAt(d, l) /\ LayerIsRight(l, n, k, s, turns)
<1>1. D \in Nat /\ l \in Nat /\ l < D  BY DEF SchemeSizes, Scheme!SizesAssumption, Scheme!Layers
<1>2. k \in Scheme!Leaves(TREE_HEIGHT)  BY <1>1, TreesUpwards
<1>3. turns_of[l] \in ChainLengths /\ others[l] \in ChainLengths /\ others[l] # turns_of[l] /\ signed[l] = RootAt(d, l)
  BY DEF WasSigned
<1>4. turns \in ChainLengths  BY <1>3
<1>5. turns \in [0 .. WotsLEN - 1 -> 0 .. WotsW - 1]  BY <1>4 DEF SchemeSizes, Scheme!LengthsAssumption
<1>6. LayerVerified(l, n, k, s, turns) = LayerRoot(l, NumberAt(d, l)) <=> Good
  <2> DEFINE m == NumberAt(d, l)
  <2> HIDE DEF n, k, s, m
  <2>1. LayerVerified(l, n, k, s, turns) = LayerRoot(l, m) <=> l = l /\ n = m /\ LayerIsRight(l, n, k, s, turns)
    BY <1>2, <1>5, LayerIsVerified
  <2> QED BY <2>1, Zenon DEF m
<1>7. Broken(l + 1) <=> Broken(l) \/ AboutLayer(l)
  <2>1. ASSUME change[1] \in LayerKinds PROVE change[2] < l + 1 <=> change[2] < l \/ change[2] = l
    <3>1. change[2] \in Scheme!Layers  BY <2>1, ChangedLayerIsOne DEF Delivered
    <3>2. change[2] \in Nat  BY <1>1, <3>1 DEF Scheme!Layers
    <3> QED BY <1>1, <3>2
  <2> QED BY <2>1, Zenon DEF Broken, AboutLayer
<1>8. CASE AboutLayer(l)
  <2>1. \/ \E c \in 0 .. WotsLEN - 1 : s.wots[c] = Scheme!Junk
        \/ \E h \in 0 .. TREE_HEIGHT - 1 : s.path[h] = Scheme!Junk
    BY <1>8, Zenon DEF Delivered, LayersMatch
  <2> HIDE DEF n, k, s
  <2>2. ~LayerIsRight(l, n, k, s, turns)  BY <1>2, <1>4, <2>1, BrokenLayerIsWrong
  <2>3. ~Good  BY <2>2
  <2> QED BY <1>6, <1>7, <1>8, <2>3 DEF n, k, s
<1>9. CASE ~AboutLayer(l) /\ Broken(l)
  <2>1. turns = others[l]  BY <1>3, <1>9
  <2>2. s = LayerPart(d, l)  BY <1>9, Zenon DEF Delivered, LayersMatch
  <2>3. s.wots = LayerWots(l, NumberAt(d, l), LeafAt(d, l), turns_of[l])  BY <2>2 DEF LayerPart
  <2> HIDE DEF n, k, s
  <2>4. ~ChainsAreRight(s.wots, l, n, k, others[l])
    <3> DEFINE a == turns_of[l]
               b == others[l]
               w == s.wots
               m == NumberAt(d, l)
               q == LeafAt(d, l)
    <3>1. a \in ChainLengths /\ b \in ChainLengths /\ a # b /\ w = LayerWots(l, m, q, a)  BY <1>3, <2>3
    <3> HIDE DEF a, b, w, m, q
    <3>2. ~ChainsAreRight(w, l, n, k, b)  BY <3>1, OtherLengthsAreWrong
    <3> QED BY <3>2 DEF w, b
  <2>5. ~Good  BY <2>1, <2>4 DEF LayerIsRight
  <2> QED BY <1>6, <1>7, <1>9, <2>5 DEF n, k, s
<1>10. CASE ~AboutLayer(l) /\ ~Broken(l)
  <2>1. turns = turns_of[l]  BY <1>3, <1>10
  <2>2. s = LayerPart(d, l)  BY <1>10, Zenon DEF Delivered, LayersMatch
  <2>3. digest = d
    <3>1. change[1] # "digest"  BY <1>10 DEF Broken, ForsKinds
    <3> QED BY <3>1 DEF Delivered
  <2>4. LayerIsRight(l, NumberAt(d, l), LeafAt(d, l), s, turns_of[l])  BY <2>2, LayerPartIsRight
  <2>5. Good  BY <2>1, <2>3, <2>4
  <2> QED BY <1>6, <1>7, <1>10, <2>5
<1> QED BY <1>8, <1>9, <1>10

LEMMA SchemeVerifiesLayer == ASSUME SchemeSizes, SchemeInv, Scheme!VerifyLayer PROVE SchemeInv'
<1> DEFINE n == NumberAt(digest, tier)
           k == LeafAt(digest, tier)
           pk_addr == Scheme!copy_keypair_addr(Scheme!set_type(Scheme!Blank, Scheme!TypeWOTSPK), wots_addr')
           turns == Scheme!Steps(root)
           s == sig.layers[tier]
           wots_pk == Scheme!wots_pk_from_sig(s.wots, turns, wots_addr')
<1>1. /\ turn = "verify_layer" /\ tier < D /\ turn' = turn /\ Scheme!LayerAddresses /\ Scheme!Upwards
      /\ root' = Scheme!compute_root(Scheme!thash(wots_pk, pk_addr), idx_leaf, 0, s.path, TREE_HEIGHT, tree_addr')
      /\ UNCHANGED <<builder, turns_of, others, pk, digest, signed, sig, change, verdict>>
  BY Zenon DEF Scheme!VerifyLayer, Scheme!fixed
<1>2. digest \in Digests  BY DEF SchemeInv, SchemeBasics
<1>3. PICK d \in Digests : VerifyingHolds(d)  BY <1>1 DEF SchemeInv, Verifying
<1>4. WasSigned(d) /\ Delivered(d) /\ Loop(digest) /\ (root = RootAt(d, tier) <=> ~Broken(tier))
  BY <1>1, <1>3 DEF VerifyingHolds
<1>5. tier \in Scheme!Layers
  <2>1. tier \in 0 .. D /\ D \in Nat  BY <1>4 DEF Loop, SchemeSizes, Scheme!SizesAssumption
  <2> QED BY <1>1, <2>1 DEF Scheme!Layers
<1>6. /\ tier' = tier + 1 /\ tier' \in 0 .. D /\ tier' # 0 /\ tier' - 1 = tier
      /\ tree' = TreeAt(digest, tier') /\ idx_leaf' = LeafAt(digest, tier')
      /\ wots_addr' = Adrs(tier, n, 0, k, 0, 0) /\ tree_addr' = Adrs(tier, n, 2, 0, 0, 0)
  BY <1>1, <1>2, <1>4, LoopGoesOn
<1>7. pk_addr = Adrs(tier, n, 1, k, 0, 0)
  <2>1. Scheme!set_type(Scheme!Blank, Scheme!TypeWOTSPK) = Adrs(0, Scheme!NoTree, 1, 0, 0, 0)
    BY TypesAre, BlankIsAt, FieldsAreSet DEF SetFields
  <2>2. Scheme!copy_keypair_addr(Adrs(0, Scheme!NoTree, 1, 0, 0, 0), Adrs(tier, n, 0, k, 0, 0)) = Adrs(tier, n, 1, k, 0, 0)
    BY FieldsAreCopied
  <2> QED BY <1>6, <2>1, <2>2, Zenon
<1>8. idx_leaf = k  BY <1>4 DEF Loop
<1>9. root' = LayerVerified(tier, n, k, s, turns)
  <2> HIDE DEF n, k, s, turns, pk_addr
  <2> QED BY <1>1, <1>6, <1>7, <1>8, Zenon DEF LayerVerified, LeafFound
<1>10. turns = IF root = signed[tier] THEN turns_of[tier] ELSE others[tier]  BY DEF Scheme!Steps
<1> HIDE DEF turns
<1>11. root' = LayerRoot(tier, NumberAt(d, tier)) <=> ~Broken(tier + 1)
  <2>1. /\ turns_of \in [Scheme!Layers -> ChainLengths] /\ others \in [Scheme!Layers -> ChainLengths]
        /\ \A m \in Scheme!Layers : others[m] # turns_of[m]
    BY DEF SchemeInv, SchemeBasics
  <2>2. LayerVerified(tier, n, k, s, turns) = LayerRoot(tier, NumberAt(d, tier)) <=> ~Broken(tier + 1)
    <3> DEFINE l == tier
               before == root
    <3>1. l \in Scheme!Layers /\ (before = RootAt(d, l) <=> ~Broken(l))
          /\ turns = (IF before = signed[l] THEN turns_of[l] ELSE others[l])
      BY <1>4, <1>5, <1>10
    <3>2. LayerVerified(l, NumberAt(digest, l), LeafAt(digest, l), sig.layers[l], turns) = LayerRoot(l, NumberAt(d, l))
            <=> ~Broken(l + 1)
      <4> HIDE DEF l, before
      <4> QED BY <1>2, <1>4, <2>1, <3>1, LayerGivesRoot
    <3> QED BY <3>2
  <2> QED BY <1>9, <2>2
<1>12. SchemeBasics'  BY <1>1 DEF SchemeInv, SchemeBasics
<1>13. Shapes'  BY <1>1 DEF SchemeInv, Shapes
<1>14. Signing'  BY <1>1 DEF Signing
<1>15. Loop(digest)'  BY <1>1, <1>6 DEF Loop, TreeAt, LeafAt, NumberAt, AddressesAt
<1>16. (root = RootAt(d, tier) <=> ~Broken(tier))'
  <2>1. RootAt(d, tier') = LayerRoot(tier' - 1, NumberAt(d, tier' - 1))  BY <1>6, Zenon DEF RootAt
  <2>2. RootAt(d, tier') = LayerRoot(tier, NumberAt(d, tier))  BY <1>6, <2>1, Zenon
  <2>3. RootAt(d, tier)' = RootAt(d, tier')  BY DEF RootAt, NumberAt, LeafAt, TreeAt
  <2>4. Broken(tier)' <=> Broken(tier + 1)  BY <1>1, <1>6 DEF Broken
  <2> QED BY <1>11, <2>2, <2>3, <2>4, Zenon
<1>17. WasSigned(d)'  BY <1>1, <1>4 DEF WasSigned, RootAt, NumberAt, LeafAt, TreeAt
<1>18. Delivered(d)'
  BY <1>1, <1>4 DEF Delivered, Changed, ForsMatches, LayersMatch, AboutLayer, LayerPart, NumberAt, LeafAt, TreeAt
<1>19. VerifyingHolds(d)'
  <2>1. turn' # "done"  BY <1>1
  <2> QED BY <1>15, <1>16, <1>17, <1>18, <2>1, Zenon DEF VerifyingHolds
<1>20. Verifying'  BY <1>3, <1>19, Zenon DEF Verifying
<1> QED BY <1>12, <1>13, <1>14, <1>20 DEF SchemeInv

LEMMA SchemeCompares == ASSUME SchemeSizes, SchemeInv, Scheme!Compare PROVE SchemeInv'
<1>1. /\ turn = "verify_layer" /\ tier = D /\ turn' = "done"
      /\ verdict' = IF root = pk[2] THEN "accepted" ELSE "rejected"
      /\ UNCHANGED <<builder, turns_of, others, pk, digest, signed, tier, tree, idx_leaf, wots_addr, tree_addr, root, sig, change>>
  BY Zenon DEF Scheme!Compare, Scheme!fixed
<1>2. PICK d \in Digests : VerifyingHolds(d)  BY <1>1 DEF SchemeInv, Verifying
<1>3. WasSigned(d) /\ Delivered(d) /\ (root = RootAt(d, D) <=> ~Broken(D))
  BY <1>1, <1>2 DEF VerifyingHolds
<1>4. pk[2] = RootAt(d, D)
  <2>1. pk[2] = LayerRoot(D - 1, Scheme!Tree(0))  BY <1>1 DEF SchemeInv, SchemeBasics
  <2>2. D # 0  BY DEF SchemeSizes, Scheme!SizesAssumption
  <2>3. NumberAt(d, D - 1) = Scheme!Tree(0)  BY TreesBeginAndEnd DEF NumberAt
  <2> QED BY <2>1, <2>2, <2>3, Zenon DEF RootAt
<1>5. verdict' \in {"accepted", "rejected"} /\ (verdict' = "accepted" <=> ~Broken(D))
  BY <1>1, <1>3, <1>4
<1>6. SchemeBasics'  BY <1>1 DEF SchemeInv, SchemeBasics
<1>7. Shapes'  BY <1>1 DEF SchemeInv, Shapes
<1>8. Signing'  BY <1>1 DEF Signing
<1>9. WasSigned(d)'  BY <1>1, <1>3 DEF WasSigned, RootAt, NumberAt, LeafAt, TreeAt
<1>10. Delivered(d)'
  BY <1>1, <1>3 DEF Delivered, Changed, ForsMatches, LayersMatch, AboutLayer, LayerPart, NumberAt, LeafAt, TreeAt
<1>11. VerifyingHolds(d)'
  <2>1. turn' # "verify_layer"  BY <1>1
  <2>2. Broken(D)' <=> Broken(D)  BY <1>1 DEF Broken
  <2> QED BY <1>5, <1>9, <1>10, <2>1, <2>2, Zenon DEF VerifyingHolds
<1>12. Verifying'  BY <1>2, <1>11, Zenon DEF Verifying
<1> QED BY <1>6, <1>7, <1>8, <1>12 DEF SchemeInv

LEMMA SchemeRests == ASSUME SchemeInv, UNCHANGED Scheme!vars PROVE SchemeInv'
<1>1. UNCHANGED <<builder, turns_of, others, turn, pk, digest, signed, tier, tree, idx_leaf, wots_addr, tree_addr, root, sig, change, verdict>>
  BY DEF Scheme!vars
<1>2. SchemeBasics'  BY <1>1 DEF SchemeInv, SchemeBasics
<1>3. Shapes'  BY <1>1 DEF SchemeInv, Shapes
<1>4. Signing'
  BY <1>1 DEF SchemeInv, Signing, SigningHolds, Loop, AddressesAt, LayerPart, RootAt, ForsPartOf, NumberAt, LeafAt, TreeAt
<1>5. Verifying'
  <2> SUFFICES ASSUME turn \in {"verify", "verify_layer", "done"} PROVE Verifying'  BY <1>1 DEF Verifying
  <2>1. PICK d \in Digests : VerifyingHolds(d)  BY DEF SchemeInv, Verifying
  <2>2. WasSigned(d)'  BY <1>1, <2>1 DEF VerifyingHolds, WasSigned, RootAt, NumberAt, LeafAt, TreeAt
  <2>3. Delivered(d)'
    BY <1>1, <2>1 DEF VerifyingHolds, Delivered, Changed, ForsMatches, LayersMatch, AboutLayer, LayerPart, NumberAt,
                      LeafAt, TreeAt
  <2>4. (turn = "verify_layer" => Loop(digest) /\ (root = RootAt(d, tier) <=> ~Broken(tier)))'
    BY <1>1, <2>1 DEF VerifyingHolds, Loop, AddressesAt, RootAt, Broken, NumberAt, LeafAt, TreeAt
  <2>5. (turn = "done" => verdict \in {"accepted", "rejected"} /\ (verdict = "accepted" <=> ~Broken(D)))'
    BY <1>1, <2>1 DEF VerifyingHolds, Broken
  <2>6. VerifyingHolds(d)'  BY <2>2, <2>3, <2>4, <2>5, Zenon DEF VerifyingHolds
  <2> QED BY <2>6, Zenon DEF Verifying
<1> QED BY <1>2, <1>3, <1>4, <1>5 DEF SchemeInv


LEMMA SchemeStep == ASSUME SchemeSizes, SchemeInv, [Scheme!Next]_(Scheme!vars) PROVE SchemeInv'
<1>1. CASE Scheme!KeyPair  BY <1>1, SchemeMakesKey
<1>2. CASE Scheme!SignFors  BY <1>2, SchemeSignsFors
<1>3. CASE Scheme!SignLayer  BY <1>3, SchemeSignsLayer
<1>4. CASE Scheme!Signed  BY <1>4, SchemeHasSigned
<1>5. CASE Scheme!Deliver  BY <1>5, SchemeDelivers
<1>6. CASE Scheme!VerifyFors  BY <1>6, SchemeVerifiesFors
<1>7. CASE Scheme!VerifyLayer  BY <1>7, SchemeVerifiesLayer
<1>8. CASE Scheme!Compare  BY <1>8, SchemeCompares
<1>9. CASE UNCHANGED Scheme!vars  BY <1>9, SchemeRests
<1> QED BY <1>1, <1>2, <1>3, <1>4, <1>5, <1>6, <1>7, <1>8, <1>9, Zenon DEF Scheme!Next

(* What the invariant says of a verdict, and of what the builds made.      *)
LEMMA VerdictIsRight ==
  ASSUME SchemeSizes, SchemeInv
  PROVE  Scheme!AcceptsWhatWasSigned /\ Scheme!RejectsChanges
<1> SUFFICES ASSUME turn = "done"
             PROVE  /\ change = Scheme!NoChange => verdict = "accepted"
                    /\ change # Scheme!NoChange => verdict = "rejected"
  BY DEF Scheme!AcceptsWhatWasSigned, Scheme!RejectsChanges
<1>1. PICK d \in Digests : VerifyingHolds(d)  BY DEF SchemeInv, Verifying
<1>2. /\ verdict \in {"accepted", "rejected"} /\ (verdict = "accepted" <=> ~Broken(D))
      /\ Changed
  BY <1>1 DEF VerifyingHolds, Delivered
<1>3. change = Scheme!NoChange => ~Broken(D)
  BY DEF Scheme!NoChange, Broken, ForsKinds, LayerKinds
<1>4. change # Scheme!NoChange => Broken(D)
  <2> SUFFICES ASSUME change # Scheme!NoChange PROVE Broken(D)  OBVIOUS
  <2>1. CASE change[1] \in ForsKinds  BY <2>1 DEF Broken
  <2>2. CASE change[1] \in LayerKinds /\ change[2] \in Scheme!Layers
    <3>1. D \in Nat  BY DEF SchemeSizes, Scheme!SizesAssumption
    <3>2. change[2] < D  BY <2>2, <3>1 DEF Scheme!Layers
    <3> QED BY <2>2, <3>2 DEF Broken
  <2> QED BY <1>2, <2>1, <2>2 DEF Changed
<1> QED BY <1>2, <1>3, <1>4

LEMMA BuildsMakeTheSame == ASSUME SchemeSizes, SchemeInv PROVE Scheme!BuildsAgree
<1>0. "ref" \in Scheme!Builds  BY DEF Scheme!Builds
<1>1. ASSUME turn = "sign_layer", tier = 0 PROVE sig.fors = Scheme!fors_sign("ref", digest.indices, wots_addr).sig
  <2>1. SigningHolds  BY <1>1 DEF SchemeInv, Signing
  <2> DEFINE n == NumberAt(digest, 0)
             k == LeafAt(digest, 0)
             e == digest.indices
  <2>2. wots_addr = Adrs(0, n, 0, k, 0, 0)  BY <1>1, <2>1 DEF SigningHolds, Loop
  <2>3. sig.fors = ForsSigned(n, k, e)  BY <2>1 DEF SigningHolds, ForsPartOf
  <2> HIDE DEF n, k, e
  <2>4. Scheme!fors_sign("ref", e, Adrs(0, n, 0, k, 0, 0)) = [sig |-> ForsSigned(n, k, e), pk |-> ForsKey(n, k)]
    BY <1>0, ForsSignIs
  <2>5. Scheme!fors_sign("ref", e, wots_addr).sig = ForsSigned(n, k, e)  BY <2>2, <2>4
  <2> QED BY <2>3, <2>5 DEF e
<1>2. ASSUME turn = "sign_layer", tier > 0
      PROVE  LET s == Scheme!merkle_sign("ref", turns_of[tier - 1], wots_addr, tree_addr, wots_addr.keypair)
             IN  sig.layers[tier - 1] = [wots |-> s.wots, path |-> s.path] /\ root = s.root
  <2>1. SigningHolds  BY <1>2 DEF SchemeInv, Signing
  <2>2. tier \in 0 .. D /\ D \in Nat /\ tier # 0
    BY <1>2, <2>1 DEF SigningHolds, Loop, SchemeSizes, Scheme!SizesAssumption
  <2> DEFINE l == tier - 1
             n == NumberAt(digest, l)
             k == LeafAt(digest, l)
             turns == turns_of[l]
             s == Scheme!merkle_sign("ref", turns, wots_addr, tree_addr, wots_addr.keypair)
  <2>3. l \in Scheme!Layers /\ l < tier /\ l \in Nat  BY <2>2 DEF Scheme!Layers
  <2>4. wots_addr = Adrs(l, n, 0, k, 0, 0) /\ tree_addr = Adrs(l, n, 2, 0, 0, 0)
    BY <2>1, <2>2 DEF SigningHolds, Loop, AddressesAt
  <2>5. sig.layers[l] = LayerPart(digest, l)  BY <2>1, <2>3 DEF SigningHolds
  <2>6. root = LayerRoot(l, n)
    <3>1. root = RootAt(digest, tier)  BY <2>1 DEF SigningHolds
    <3> QED BY <2>2, <3>1, Zenon DEF RootAt
  <2>7. k \in Scheme!Leaves(TREE_HEIGHT)
    <3>1. digest \in Digests  BY DEF SchemeInv, SchemeBasics
    <3> QED BY <2>3, <3>1, TreesUpwards
  <2>8. LayerPart(digest, l) = [wots |-> LayerWots(l, n, k, turns), path |-> LayerPath(l, n, k)]
    BY DEF LayerPart
  <2>9. wots_addr.keypair = k  BY <2>4 DEF Adrs
  <2>10. s = LayerSigned(l, n, k, turns)
    <3> HIDE DEF l, n, k, turns
    <3>1. Scheme!merkle_sign("ref", turns, Adrs(l, n, 0, k, 0, 0), Adrs(l, n, 2, 0, 0, 0), k) = LayerSigned(l, n, k, turns)
      BY <1>0, <2>7, MerkleSignIs
    <3> QED BY <2>4, <2>9, <3>1, Zenon
  <2> HIDE DEF s, l, n, k, turns
  <2>11. s.wots = LayerWots(l, n, k, turns) /\ s.path = LayerPath(l, n, k) /\ s.root = LayerRoot(l, n)
    BY <2>10 DEF LayerSigned
  <2>12. sig.layers[l] = [wots |-> s.wots, path |-> s.path] /\ root = s.root  BY <2>5, <2>6, <2>8, <2>11
  <2> QED BY <2>12, Zenon DEF s, l, turns
<1> QED BY <1>1, <1>2, Zenon DEF Scheme!BuildsAgree


(* What is hashed, by how many hashes lie within it: the values of chains, *)
(* the nodes of the layers' trees, the secrets and the nodes of the trees  *)
(* of few-time signatures, and their keys.                                 *)
IsChainValue(v, r) == r \in 0 .. WotsW - 1 /\ \E l, t, k, c : v = Chain(l, t, k, c, r)
IsNode(v, r) ==
  \E h \in 0 .. TREE_HEIGHT : \E n \in Nat : \E l, t :
    n < 2 ^ (TREE_HEIGHT - h) /\ r = WotsW + h /\ v = LayerRows(l, t)[h][n]
IsSecret(v, r) == r = 0 /\ \E t, k, n : v = ForsSecret(t, k, n)
IsForsNode(v, r) ==
  \E h \in 0 .. FORS_HEIGHT : \E n, x \in Nat : \E t, k :
    n < 2 ^ (FORS_HEIGHT - h) /\ r = h + 1 /\ v = ForsRows(t, k, x)[h][n]
IsForsKey(v, r) == r = FORS_HEIGHT + 2 /\ \E t, k : v = ForsKey(t, k)
Ranked(v, r) == IsChainValue(v, r) \/ IsNode(v, r) \/ IsSecret(v, r) \/ IsForsNode(v, r) \/ IsForsKey(v, r)

LEMMA FieldsOfHash ==
  ASSUME NEW x, NEW a
  PROVE  /\ Scheme!thash(x, a).in = x /\ Scheme!thash(x, a).addr = a
         /\ Scheme!prf_addr(a).in = <<>> /\ Scheme!prf_addr(a).addr = a
BY DEF Scheme!thash, Scheme!prf_addr, Scheme!Term

(* How each of them is hashed. *)
ChainMade(v, l, t, k, c, s) ==
  IF s = 0 THEN v = Scheme!prf_addr(Adrs(l, t, 5, k, c, 0))
  ELSE v = Scheme!thash(<<Chain(l, t, k, c, s - 1)>>, Adrs(l, t, 0, k, c, s - 1))

LEMMA ChainIsMade ==
  ASSUME WotsW \in Nat \ {0}, NEW l, NEW t, NEW k, NEW c, NEW s \in 0 .. WotsW - 1
  PROVE  ChainMade(Chain(l, t, k, c, s), l, t, k, c, s)
<1>1. PICK value : IsTheChain(value, l, t, k, c) /\ \A z : Chain(l, t, k, c, z) = value[z]  BY ChainExists
<1>2. CASE s = 0  BY <1>1, <1>2, Zenon DEF IsTheChain, ChainMade
<1>3. CASE s # 0
  <2>1. s \in 1 .. WotsW - 1  BY <1>3
  <2> QED BY <1>1, <1>3, <2>1, Zenon DEF IsTheChain, ChainMade
<1> QED BY <1>2, <1>3

NodeMade(v, l, t, h, n) ==
  IF h = 0 THEN v = Leaf(l, t, n)
  ELSE v = Scheme!thash(<<LayerRows(l, t)[h - 1][2 * n], LayerRows(l, t)[h - 1][2 * n + 1]>>, Adrs(l, t, 2, 0, h, n))

LEMMA NodeIsMade ==
  ASSUME SchemeSizes, NEW l, NEW t, NEW h \in 0 .. TREE_HEIGHT, NEW n \in Nat, n < 2 ^ (TREE_HEIGHT - h)
  PROVE  NodeMade(LayerRows(l, t)[h][n], l, t, h, n)
<1> DEFINE a == Adrs(l, t, 2, 0, 0, 0)
           leafs == LayerLeafs(l, t)
           H == TREE_HEIGHT
           rows == LayerRows(l, t)
           w == 2 ^ (H - h)
<1>1. H \in Nat /\ h \in Nat /\ H - h \in Nat  BY DEF SchemeSizes, Scheme!SizesAssumption
<1>2. rows = Rows(H, leafs, a, 0)  BY DEF LayerRows
<1>3. w \in Nat /\ n \in 0 .. w - 1
  <2>1. w \in Nat  BY <1>1, PowerDoubles
  <2> HIDE DEF w
  <2>2. n < w  BY DEF w
  <2> QED BY <2>1, <2>2
<1>4. CASE h = 0
  <2>1. H - h = H  BY <1>1, <1>4
  <2>2. n \in 0 .. 2 ^ H - 1  BY <1>3, <2>1
  <2>3. leafs[n] = Leaf(l, t, n)  BY <2>2, Zenon DEF LayerLeafs, Scheme!Leaves
  <2>4. rows[0][n] = leafs[n]
    <3> HIDE DEF leafs, a, H, rows
    <3> QED BY <1>1, <1>2, <2>2, RowZero
  <2> QED BY <1>4, <2>3, <2>4, Zenon DEF NodeMade
<1>5. CASE h # 0
  <2>1. h \in 1 .. H  BY <1>1, <1>5
  <2>2. rows[h][n] = Joined(rows, h, n, a, 0)
    <3> HIDE DEF leafs, a, H, rows
    <3> QED BY <1>1, <1>2, <1>3, <2>1, RowAbove DEF w
  <2>3. Scheme!NodeAddr(a, h, n, 0) = Adrs(l, t, 2, 0, h, n)
    <3>1. 2 ^ h \in Nat \ {0}  BY <1>1, PowerDoubles
    <3> DEFINE y == 2 ^ h
    <3> HIDE DEF y
    <3>2. n + 0 \div y = n  BY <3>1 DEF y
    <3>3. Scheme!NodeAddr(a, h, n, 0) = Adrs(l, t, 2, 0, h, n + 0 \div y)  BY NodeAddressIs DEF y
    <3> QED BY <3>2, <3>3, Zenon
  <2> QED BY <1>5, <2>2, <2>3, Zenon DEF NodeMade, Joined
<1> QED BY <1>4, <1>5

(* How far a row of the tree is to the right of its address's beginning.   *)
ForsPlace(x, h, n) == n + x * 2 ^ (FORS_HEIGHT - h)
ForsNodeMade(v, t, k, x, h, n) ==
  IF h = 0 THEN v = ForsLeaf(t, k, ForsPlace(x, h, n))
  ELSE v = Scheme!thash(<<ForsRows(t, k, x)[h - 1][2 * n], ForsRows(t, k, x)[h - 1][2 * n + 1]>>,
                        Adrs(0, t, 3, k, h, ForsPlace(x, h, n)))

LEMMA ForsNodeIsMade ==
  ASSUME SchemeSizes, NEW t, NEW k, NEW x \in Nat, NEW h \in 0 .. FORS_HEIGHT, NEW n \in Nat, n < 2 ^ (FORS_HEIGHT - h)
  PROVE  ForsNodeMade(ForsRows(t, k, x)[h][n], t, k, x, h, n)
<1> DEFINE a == Adrs(0, t, 3, k, 0, 0)
           leafs == ForsLeafs(t, k, x)
           H == FORS_HEIGHT
           rows == ForsRows(t, k, x)
           w == 2 ^ (H - h)
           o == Scheme!idx_offset(x)
<1>1. H \in Nat /\ h \in Nat /\ H - h \in Nat  BY DEF SchemeSizes, Scheme!SizesAssumption
<1>2. rows = Rows(H, leafs, a, o)  BY DEF ForsRows
<1>3. w \in Nat \ {0} /\ n \in 0 .. w - 1
  <2>1. w \in Nat \ {0}  BY <1>1, PowerDoubles
  <2> HIDE DEF w
  <2>2. n < w  BY DEF w
  <2> QED BY <2>1, <2>2
<1>4. CASE h = 0
  <2>1. H - h = H  BY <1>1, <1>4
  <2>2. n \in 0 .. 2 ^ H - 1  BY <1>3, <2>1
  <2>3. leafs[n] = ForsLeaf(t, k, n + o)  BY <2>2, Zenon DEF ForsLeafs, Scheme!Leaves
  <2>4. rows[0][n] = leafs[n]
    <3> HIDE DEF leafs, a, H, rows, o
    <3> QED BY <1>1, <1>2, <2>2, RowZero
  <2>5. n + o = ForsPlace(x, h, n)  BY <2>1, Zenon DEF ForsPlace, Scheme!idx_offset
  <2> HIDE DEF o, leafs, rows
  <2> QED BY <1>4, <2>3, <2>4, <2>5, Zenon DEF ForsNodeMade, rows
<1>5. CASE h # 0
  <2>1. h \in 1 .. H  BY <1>1, <1>5
  <2>2. rows[h][n] = Joined(rows, h, n, a, o)
    <3> HIDE DEF leafs, a, H, rows, o
    <3> QED BY <1>1, <1>2, <1>3, <2>1, RowAbove DEF w
  <2>3. o \div 2 ^ h = x * w
    <3> DEFINE y == 2 ^ h
    <3>1. y \in Nat \ {0}  BY <1>1, PowerDoubles
    <3>2. 2 ^ (h + (H - h)) = y * w  BY <1>1, PowerOfSum
    <3>3. h + (H - h) = H  BY <1>1
    <3>4. o = x * (y * w)  BY <3>2, <3>3, Zenon DEF Scheme!idx_offset
    <3> HIDE DEF y, w, o
    <3>5. x * (y * w) = (x * w) * y /\ x * w \in Nat  BY <1>3, <3>1
    <3> DEFINE q == x * w
    <3> HIDE DEF q
    <3>6. o = q * y /\ q \in Nat  BY <3>4, <3>5 DEF q
    <3>7. o \div y = q  BY <3>1, <3>6
    <3> QED BY <3>7 DEF q, y
  <2>4. Scheme!NodeAddr(a, h, n, o) = Adrs(0, t, 3, k, h, ForsPlace(x, h, n))
    <3>1. Scheme!NodeAddr(a, h, n, o) = Adrs(0, t, 3, k, h, n + o \div 2 ^ h)  BY NodeAddressIs
    <3> QED BY <2>3, <3>1, Zenon DEF ForsPlace
  <2> HIDE DEF o
  <2> QED BY <1>5, <2>2, <2>4, Zenon DEF ForsNodeMade, Joined
<1> QED BY <1>4, <1>5


(* A value can be told from its address. *)
ChainAddress(l, t, k, c, s) == IF s = 0 THEN Adrs(l, t, 5, k, c, 0) ELSE Adrs(l, t, 0, k, c, s - 1)
NodeAddress(l, t, h, n) == IF h = 0 THEN Adrs(l, t, 1, n, 0, 0) ELSE Adrs(l, t, 2, 0, h, n)

LEMMA WhereValuesAre ==
  ASSUME SchemeSizes
  PROVE  /\ \A s \in 0 .. WotsW - 1 : \A l, t, k, c : Chain(l, t, k, c, s).addr = ChainAddress(l, t, k, c, s)
         /\ \A h \in 0 .. TREE_HEIGHT : \A n \in Nat : \A l, t :
              n < 2 ^ (TREE_HEIGHT - h) => LayerRows(l, t)[h][n].addr = NodeAddress(l, t, h, n)
         /\ \A t, k, n : ForsSecret(t, k, n).addr = Adrs(0, t, 6, k, 0, n)
         /\ \A h \in 0 .. FORS_HEIGHT : \A n, x \in Nat : \A t, k :
              n < 2 ^ (FORS_HEIGHT - h) => ForsRows(t, k, x)[h][n].addr = Adrs(0, t, 3, k, h, ForsPlace(x, h, n))
         /\ \A t, k : ForsKey(t, k).addr = Adrs(0, t, 4, k, 0, 0)
<1>1. ASSUME NEW s \in 0 .. WotsW - 1, NEW l, NEW t, NEW k, NEW c
      PROVE  Chain(l, t, k, c, s).addr = ChainAddress(l, t, k, c, s)
  <2>1. ChainMade(Chain(l, t, k, c, s), l, t, k, c, s)
    BY ChainIsMade DEF SchemeSizes, Scheme!SizesAssumption
  <2> QED BY <2>1, FieldsOfHash DEF ChainMade, ChainAddress
<1>2. ASSUME NEW h \in 0 .. TREE_HEIGHT, NEW n \in Nat, NEW l, NEW t, n < 2 ^ (TREE_HEIGHT - h)
      PROVE  LayerRows(l, t)[h][n].addr = NodeAddress(l, t, h, n)
  <2>1. NodeMade(LayerRows(l, t)[h][n], l, t, h, n)  BY <1>2, NodeIsMade
  <2>2. Leaf(l, t, n).addr = Adrs(l, t, 1, n, 0, 0)  BY FieldsOfHash DEF Leaf
  <2> QED BY <2>1, <2>2, FieldsOfHash DEF NodeMade, NodeAddress
<1>3. ASSUME NEW t, NEW k, NEW n PROVE ForsSecret(t, k, n).addr = Adrs(0, t, 6, k, 0, n)
  BY FieldsOfHash, Zenon DEF ForsSecret
<1>4. ASSUME NEW h \in 0 .. FORS_HEIGHT, NEW n \in Nat, NEW x \in Nat, NEW t, NEW k, n < 2 ^ (FORS_HEIGHT - h)
      PROVE  ForsRows(t, k, x)[h][n].addr = Adrs(0, t, 3, k, h, ForsPlace(x, h, n))
  <2>1. ForsNodeMade(ForsRows(t, k, x)[h][n], t, k, x, h, n)  BY <1>4, ForsNodeIsMade
  <2> DEFINE place == ForsPlace(x, h, n)
  <2>2. ForsLeaf(t, k, place).addr = Adrs(0, t, 3, k, 0, place)  BY FieldsOfHash DEF ForsLeaf
  <2> HIDE DEF place
  <2>3. ForsNodeMade(ForsRows(t, k, x)[h][n], t, k, x, h, n)
          <=> IF h = 0 THEN ForsRows(t, k, x)[h][n] = ForsLeaf(t, k, place)
              ELSE ForsRows(t, k, x)[h][n] =
                     Scheme!thash(<<ForsRows(t, k, x)[h - 1][2 * n], ForsRows(t, k, x)[h - 1][2 * n + 1]>>,
                                  Adrs(0, t, 3, k, h, place))
    BY DEF ForsNodeMade, place
  <2>4. ForsRows(t, k, x)[h][n].addr = Adrs(0, t, 3, k, h, place)  BY <2>1, <2>2, <2>3, FieldsOfHash
  <2> QED BY <2>4 DEF place
<1>5. ASSUME NEW t, NEW k PROVE ForsKey(t, k).addr = Adrs(0, t, 4, k, 0, 0)  BY FieldsOfHash, Zenon DEF ForsKey
<1> QED BY <1>1, <1>2, <1>3, <1>4, <1>5

LEMMA KindsHaveTypes ==
  ASSUME SchemeSizes, NEW v, NEW r
  PROVE  /\ IsChainValue(v, r) => v.addr.type \in {0, 5}
         /\ IsNode(v, r) => v.addr.type \in {1, 2}
         /\ IsSecret(v, r) => v.addr.type = 6
         /\ IsForsNode(v, r) => v.addr.type = 3
         /\ IsForsKey(v, r) => v.addr.type = 4
<1>1. ASSUME NEW l, NEW t, NEW y, NEW k, NEW h, NEW n PROVE Adrs(l, t, y, k, h, n).type = y  BY DEF Adrs
<1>2. IsChainValue(v, r) => v.addr.type \in {0, 5}
  <2> SUFFICES ASSUME IsChainValue(v, r) PROVE v.addr.type \in {0, 5}  OBVIOUS
  <2>1. PICK l, t, k, c : r \in 0 .. WotsW - 1 /\ v = Chain(l, t, k, c, r)  BY Zenon DEF IsChainValue
  <2>2. v.addr = ChainAddress(l, t, k, c, r)  BY <2>1, WhereValuesAre
  <2> QED BY <1>1, <2>2 DEF ChainAddress
<1>3. IsNode(v, r) => v.addr.type \in {1, 2}
  <2> SUFFICES ASSUME IsNode(v, r) PROVE v.addr.type \in {1, 2}  OBVIOUS
  <2>0. PICK h \in 0 .. TREE_HEIGHT, n \in Nat : \E l, t : n < 2 ^ (TREE_HEIGHT - h) /\ v = LayerRows(l, t)[h][n]
    BY Zenon DEF IsNode
  <2>1. PICK l, t : n < 2 ^ (TREE_HEIGHT - h) /\ v = LayerRows(l, t)[h][n]  BY <2>0
  <2>2. v.addr = NodeAddress(l, t, h, n)  BY <2>1, WhereValuesAre
  <2> QED BY <1>1, <2>2 DEF NodeAddress
<1>4. IsSecret(v, r) => v.addr.type = 6
  <2> SUFFICES ASSUME IsSecret(v, r) PROVE v.addr.type = 6  OBVIOUS
  <2>1. PICK t, k, n : v = ForsSecret(t, k, n)  BY Zenon DEF IsSecret
  <2>2. v.addr = Adrs(0, t, 6, k, 0, n)  BY <2>1, WhereValuesAre
  <2> QED BY <1>1, <2>2
<1>5. IsForsNode(v, r) => v.addr.type = 3
  <2> SUFFICES ASSUME IsForsNode(v, r) PROVE v.addr.type = 3  OBVIOUS
  <2>0. PICK h \in 0 .. FORS_HEIGHT, n \in Nat, x \in Nat :
          \E t, k : n < 2 ^ (FORS_HEIGHT - h) /\ v = ForsRows(t, k, x)[h][n]
    BY Zenon DEF IsForsNode
  <2>1. PICK t, k : n < 2 ^ (FORS_HEIGHT - h) /\ v = ForsRows(t, k, x)[h][n]  BY <2>0
  <2>2. v.addr = Adrs(0, t, 3, k, h, ForsPlace(x, h, n))  BY <2>1, WhereValuesAre
  <2> QED BY <1>1, <2>2
<1>6. IsForsKey(v, r) => v.addr.type = 4
  <2> SUFFICES ASSUME IsForsKey(v, r) PROVE v.addr.type = 4  OBVIOUS
  <2>1. PICK t, k : v = ForsKey(t, k)  BY Zenon DEF IsForsKey
  <2>2. v.addr = Adrs(0, t, 4, k, 0, 0)  BY <2>1, WhereValuesAre
  <2> QED BY <1>1, <2>2
<1> QED BY <1>2, <1>3, <1>4, <1>5, <1>6

LEMMA ForsPlacesDiffer ==
  ASSUME SchemeSizes, NEW h \in 0 .. FORS_HEIGHT, NEW n \in Nat, NEW m \in Nat, NEW x \in Nat, NEW y \in Nat,
         n < 2 ^ (FORS_HEIGHT - h), m < 2 ^ (FORS_HEIGHT - h), ForsPlace(x, h, n) = ForsPlace(y, h, m)
  PROVE  x = y /\ n = m
<1> DEFINE w == 2 ^ (FORS_HEIGHT - h)
           a == ForsPlace(x, h, n)
<1>1. w \in Nat \ {0}
  <2>1. FORS_HEIGHT - h \in Nat  BY DEF SchemeSizes, Scheme!SizesAssumption
  <2> QED BY <2>1, PowerDoubles
<1>2. a = n + x * w /\ a = m + y * w  BY DEF ForsPlace
<1>3. n < w /\ m < w  OBVIOUS
<1> HIDE DEF w, a
<1>4. a = w * x + n /\ a = w * y + m /\ a \in Nat /\ n \in 0 .. w - 1 /\ m \in 0 .. w - 1
  <2>1. x * w = w * x /\ y * w = w * y /\ x * w \in Nat  BY <1>1
  <2> QED BY <1>1, <1>2, <1>3, <2>1
<1>5. a \div w = x /\ a \div w = y  BY <1>1, <1>4, QuotientIs
<1>6. x = y  BY <1>5
<1>7. n = m
  <2>1. w * x \in Nat  BY <1>1
  <2> QED BY <1>4, <1>6, <2>1
<1> QED BY <1>6, <1>7

LEMMA OneOfAKind ==
  ASSUME SchemeSizes, NEW v, NEW r, NEW u, NEW q, v.addr = u.addr
  PROVE  /\ IsChainValue(v, r) /\ IsChainValue(u, q) => v = u
         /\ IsNode(v, r) /\ IsNode(u, q) => v = u
         /\ IsSecret(v, r) /\ IsSecret(u, q) => v = u
         /\ IsForsNode(v, r) /\ IsForsNode(u, q) => v = u
         /\ IsForsKey(v, r) /\ IsForsKey(u, q) => v = u
<1>1. ASSUME IsChainValue(v, r), IsChainValue(u, q) PROVE v = u
  <2>1. PICK l, t, k, c : r \in 0 .. WotsW - 1 /\ v = Chain(l, t, k, c, r)  BY <1>1, Zenon DEF IsChainValue
  <2>2. PICK l2, t2, k2, c2 : q \in 0 .. WotsW - 1 /\ u = Chain(l2, t2, k2, c2, q)  BY <1>1, Zenon DEF IsChainValue
  <2>3. ChainAddress(l, t, k, c, r) = ChainAddress(l2, t2, k2, c2, q)
    <3>1. v.addr = ChainAddress(l, t, k, c, r)  BY <2>1, WhereValuesAre
    <3>2. u.addr = ChainAddress(l2, t2, k2, c2, q)  BY <2>2, WhereValuesAre
    <3> QED BY <3>1, <3>2
  <2>4. l = l2 /\ t = t2 /\ k = k2 /\ c = c2 /\ (r = 0 <=> q = 0) /\ (r # 0 => r - 1 = q - 1)
    BY <2>3, AddressesDiffer DEF ChainAddress
  <2>5. r = q  BY <2>1, <2>2, <2>4
  <2> QED BY <2>1, <2>2, <2>4, <2>5
<1>2. ASSUME IsNode(v, r), IsNode(u, q) PROVE v = u
  <2>0. PICK h \in 0 .. TREE_HEIGHT, n \in Nat : \E l, t : n < 2 ^ (TREE_HEIGHT - h) /\ v = LayerRows(l, t)[h][n]
    BY <1>2, Zenon DEF IsNode
  <2>1. PICK l, t : n < 2 ^ (TREE_HEIGHT - h) /\ v = LayerRows(l, t)[h][n]  BY <2>0
  <2>8. PICK h2 \in 0 .. TREE_HEIGHT, n2 \in Nat : \E l3, t3 : n2 < 2 ^ (TREE_HEIGHT - h2) /\ u = LayerRows(l3, t3)[h2][n2]
    BY <1>2, Zenon DEF IsNode
  <2>2. PICK l2, t2 : n2 < 2 ^ (TREE_HEIGHT - h2) /\ u = LayerRows(l2, t2)[h2][n2]  BY <2>8
  <2>3. NodeAddress(l, t, h, n) = NodeAddress(l2, t2, h2, n2)
    <3>1. v.addr = NodeAddress(l, t, h, n)  BY <2>1, WhereValuesAre
    <3>2. u.addr = NodeAddress(l2, t2, h2, n2)  BY <2>2, WhereValuesAre
    <3> QED BY <3>1, <3>2
  <2>4. l = l2 /\ t = t2 /\ h = h2 /\ n = n2
    BY <2>3, AddressesDiffer DEF NodeAddress
  <2> QED BY <2>1, <2>2, <2>4
<1>3. ASSUME IsSecret(v, r), IsSecret(u, q) PROVE v = u
  <2>1. PICK t, k, n : v = ForsSecret(t, k, n)  BY <1>3, Zenon DEF IsSecret
  <2>2. PICK t2, k2, n2 : u = ForsSecret(t2, k2, n2)  BY <1>3, Zenon DEF IsSecret
  <2>3. Adrs(0, t, 6, k, 0, n) = Adrs(0, t2, 6, k2, 0, n2)  BY <2>1, <2>2, WhereValuesAre
  <2> QED BY <2>1, <2>2, <2>3, AddressesDiffer
<1>4. ASSUME IsForsNode(v, r), IsForsNode(u, q) PROVE v = u
  <2>0. PICK h \in 0 .. FORS_HEIGHT, n \in Nat, x \in Nat :
          \E t, k : n < 2 ^ (FORS_HEIGHT - h) /\ v = ForsRows(t, k, x)[h][n]
    BY <1>4, Zenon DEF IsForsNode
  <2>1. PICK t, k : n < 2 ^ (FORS_HEIGHT - h) /\ v = ForsRows(t, k, x)[h][n]  BY <2>0
  <2>8. PICK h2 \in 0 .. FORS_HEIGHT, n2 \in Nat, x2 \in Nat :
          \E t3, k3 : n2 < 2 ^ (FORS_HEIGHT - h2) /\ u = ForsRows(t3, k3, x2)[h2][n2]
    BY <1>4, Zenon DEF IsForsNode
  <2>2. PICK t2, k2 : n2 < 2 ^ (FORS_HEIGHT - h2) /\ u = ForsRows(t2, k2, x2)[h2][n2]  BY <2>8
  <2>3. Adrs(0, t, 3, k, h, ForsPlace(x, h, n)) = Adrs(0, t2, 3, k2, h2, ForsPlace(x2, h2, n2))
    <3>1. v.addr = Adrs(0, t, 3, k, h, ForsPlace(x, h, n))  BY <2>1, WhereValuesAre
    <3>2. u.addr = Adrs(0, t2, 3, k2, h2, ForsPlace(x2, h2, n2))  BY <2>2, WhereValuesAre
    <3> QED BY <3>1, <3>2
  <2>4. t = t2 /\ k = k2 /\ h = h2 /\ ForsPlace(x, h, n) = ForsPlace(x2, h2, n2)  BY <2>3, AddressesDiffer
  <2>5. x = x2 /\ n = n2  BY <2>1, <2>2, <2>4, ForsPlacesDiffer
  <2> QED BY <2>1, <2>2, <2>4, <2>5
<1>5. ASSUME IsForsKey(v, r), IsForsKey(u, q) PROVE v = u
  <2>1. PICK t, k : v = ForsKey(t, k)  BY <1>5, Zenon DEF IsForsKey
  <2>2. PICK t2, k2 : u = ForsKey(t2, k2)  BY <1>5, Zenon DEF IsForsKey
  <2>3. Adrs(0, t, 4, k, 0, 0) = Adrs(0, t2, 4, k2, 0, 0)  BY <2>1, <2>2, WhereValuesAre
  <2> QED BY <2>1, <2>2, <2>3, AddressesDiffer
<1> QED BY <1>1, <1>2, <1>3, <1>4, <1>5

LEMMA AddressesTellValues ==
  ASSUME SchemeSizes, NEW v, NEW r, Ranked(v, r), NEW u, NEW q, Ranked(u, q), v.addr = u.addr
  PROVE  v = u
<1> DEFINE y == v.addr.type
<1>1. y = u.addr.type  OBVIOUS
<1>2. /\ IsChainValue(v, r) => y \in {0, 5}
      /\ IsNode(v, r) => y \in {1, 2}
      /\ IsSecret(v, r) => y = 6
      /\ IsForsNode(v, r) => y = 3
      /\ IsForsKey(v, r) => y = 4
  BY KindsHaveTypes
<1>3. /\ IsChainValue(u, q) => y \in {0, 5}
      /\ IsNode(u, q) => y \in {1, 2}
      /\ IsSecret(u, q) => y = 6
      /\ IsForsNode(u, q) => y = 3
      /\ IsForsKey(u, q) => y = 4
  BY <1>1, KindsHaveTypes
<1>4. /\ IsChainValue(v, r) /\ IsChainValue(u, q) => v = u
      /\ IsNode(v, r) /\ IsNode(u, q) => v = u
      /\ IsSecret(v, r) /\ IsSecret(u, q) => v = u
      /\ IsForsNode(v, r) /\ IsForsNode(u, q) => v = u
      /\ IsForsKey(v, r) /\ IsForsKey(u, q) => v = u
  BY OneOfAKind
<1> HIDE DEF y
<1> QED BY <1>2, <1>3, <1>4 DEF Ranked


(* What lies within a value, one hash down. *)
PartsRanked(v, r) == IsFiniteSet(DOMAIN v.in) /\ \A e \in DOMAIN v.in : r # 0 /\ Ranked(v.in[e], r - 1)

LEMMA FewParts ==
  ASSUME NEW v, NEW r
  PROVE  /\ v.in = <<>> => PartsRanked(v, r)
         /\ \A x : v.in = <<x>> /\ r # 0 /\ Ranked(x, r - 1) => PartsRanked(v, r)
         /\ \A x, y : v.in = <<x, y>> /\ r # 0 /\ Ranked(x, r - 1) /\ Ranked(y, r - 1) => PartsRanked(v, r)
         /\ \A n \in Nat : DOMAIN v.in = 1 .. n /\ r # 0 /\ (\A e \in 1 .. n : Ranked(v.in[e], r - 1)) => PartsRanked(v, r)
<1>1. v.in = <<>> => PartsRanked(v, r)
  <2> SUFFICES ASSUME v.in = <<>> PROVE PartsRanked(v, r)  OBVIOUS
  <2>1. DOMAIN v.in = {}  OBVIOUS
  <2> QED BY <2>1, FS_EmptySet DEF PartsRanked
<1>2. ASSUME NEW n \in Nat, DOMAIN v.in = 1 .. n, r # 0, \A e \in 1 .. n : Ranked(v.in[e], r - 1)
      PROVE  PartsRanked(v, r)
  <2>1. IsFiniteSet(1 .. n)  BY FS_Interval
  <2> QED BY <1>2, <2>1, Zenon DEF PartsRanked
<1>3. ASSUME NEW x, v.in = <<x>>, r # 0, Ranked(x, r - 1) PROVE PartsRanked(v, r)
  <2>1. DOMAIN v.in = 1 .. 1 /\ \A e \in 1 .. 1 : v.in[e] = x  BY <1>3
  <2> QED BY <1>2, <1>3, <2>1
<1>4. ASSUME NEW x, NEW y, v.in = <<x, y>>, r # 0, Ranked(x, r - 1), Ranked(y, r - 1) PROVE PartsRanked(v, r)
  <2>1. DOMAIN v.in = 1 .. 2 /\ \A e \in 1 .. 2 : v.in[e] = x \/ v.in[e] = y  BY <1>4
  <2>2. \A e \in 1 .. 2 : Ranked(v.in[e], r - 1)  BY <1>4, <2>1, Zenon
  <2> QED BY <1>2, <1>4, <2>1, <2>2
<1> QED BY <1>1, <1>2, <1>3, <1>4, Zenon

LEMMA PartsAreRanked ==
  ASSUME SchemeSizes, NEW v, NEW r, Ranked(v, r)
  PROVE  r \in Nat /\ PartsRanked(v, r)
<1>0. /\ WotsW \in Nat \ {0} /\ WotsLEN \in Nat /\ TREE_HEIGHT \in Nat /\ FORS_HEIGHT \in Nat /\ FORS_TREES \in Nat
      /\ WotsW - 1 \in 0 .. WotsW - 1 /\ 2 ^ 0 = 1
  BY DEF SchemeSizes, Scheme!SizesAssumption
<1>1. CASE IsChainValue(v, r)
  <2>1. PICK l, t, k, c : r \in 0 .. WotsW - 1 /\ v = Chain(l, t, k, c, r)  BY <1>1, Zenon DEF IsChainValue
  <2>2. ChainMade(v, l, t, k, c, r)  BY <1>0, <2>1, ChainIsMade
  <2>3. CASE r = 0
    <3>1. v.in = <<>>  BY <2>2, <2>3, FieldsOfHash DEF ChainMade
    <3> QED BY <2>3, <3>1, FewParts
  <2>4. CASE r # 0
    <3> DEFINE x == Chain(l, t, k, c, r - 1)
    <3>1. v.in = <<x>>  BY <2>2, <2>4, FieldsOfHash DEF ChainMade
    <3>2. r - 1 \in 0 .. WotsW - 1  BY <1>0, <2>1, <2>4
    <3>3. Ranked(x, r - 1)  BY <3>2, Zenon DEF Ranked, IsChainValue
    <3> HIDE DEF x
    <3>4. PartsRanked(v, r)  BY <2>4, <3>1, <3>3, FewParts, Zenon
    <3> QED BY <2>1, <3>4
  <2> QED BY <2>3, <2>4
<1>2. CASE IsNode(v, r)
  <2>0. PICK h \in 0 .. TREE_HEIGHT, n \in Nat :
          \E l, t : n < 2 ^ (TREE_HEIGHT - h) /\ r = WotsW + h /\ v = LayerRows(l, t)[h][n]
    BY <1>2, Zenon DEF IsNode
  <2>1. PICK l, t : n < 2 ^ (TREE_HEIGHT - h) /\ r = WotsW + h /\ v = LayerRows(l, t)[h][n]  BY <2>0
  <2>2. NodeMade(v, l, t, h, n)  BY <2>1, NodeIsMade
  <2>3. r \in Nat /\ r # 0 /\ r - 1 \in Nat  BY <1>0, <2>1
  <2>4. CASE h = 0
    <3> DEFINE x == [c \in 1 .. WotsLEN |-> Chain(l, t, n, c - 1, WotsW - 1)]
    <3>1. v.in = x  BY <2>2, <2>4, FieldsOfHash DEF NodeMade, Leaf
    <3>2. r - 1 = WotsW - 1  BY <1>0, <2>1, <2>4
    <3>3. \A c : Ranked(Chain(l, t, n, c, WotsW - 1), WotsW - 1)  BY <1>0, Zenon DEF Ranked, IsChainValue
    <3>4. DOMAIN x = 1 .. WotsLEN /\ \A e \in 1 .. WotsLEN : Ranked(x[e], r - 1)  BY <3>2, <3>3, Zenon
    <3> HIDE DEF x
    <3>5. DOMAIN v.in = 1 .. WotsLEN /\ \A e \in 1 .. WotsLEN : Ranked(v.in[e], r - 1)  BY <3>1, <3>4, Zenon
    <3> QED BY <1>0, <2>3, <3>5, FewParts
  <2>5. CASE h # 0
    <3> DEFINE g == h - 1
               x == LayerRows(l, t)[g][2 * n]
               y == LayerRows(l, t)[g][2 * n + 1]
    <3>1. v.in = <<x, y>>  BY <2>2, <2>5, FieldsOfHash DEF NodeMade
    <3>2. g \in 0 .. TREE_HEIGHT /\ r - 1 = WotsW + g  BY <1>0, <2>1, <2>5
    <3>3. 2 * n \in Nat /\ 2 * n + 1 \in Nat /\ 2 * n < 2 ^ (TREE_HEIGHT - g) /\ 2 * n + 1 < 2 ^ (TREE_HEIGHT - g)
      <4> DEFINE w == 2 ^ (TREE_HEIGHT - h)
                 u == 2 ^ (TREE_HEIGHT - g)
      <4>1. TREE_HEIGHT - h \in Nat /\ TREE_HEIGHT - g = (TREE_HEIGHT - h) + 1  BY <1>0
      <4>2. w \in Nat /\ u = 2 * w  BY <4>1, PowerDoubles
      <4>3. n < w  BY <2>1
      <4> HIDE DEF w, u
      <4>4. 2 * n \in Nat /\ 2 * n + 1 \in Nat /\ 2 * n < u /\ 2 * n + 1 < u  BY <4>2, <4>3
      <4> QED BY <4>4 DEF u
    <3>4. IsNode(x, r - 1) /\ IsNode(y, r - 1)  BY <3>2, <3>3, Zenon DEF IsNode
    <3>5. Ranked(x, r - 1) /\ Ranked(y, r - 1)  BY <3>4 DEF Ranked
    <3> HIDE DEF x, y
    <3>6. PartsRanked(v, r)  BY <2>3, <3>1, <3>5, FewParts, Zenon
    <3> QED BY <2>3, <3>6
  <2> QED BY <2>4, <2>5
<1>3. CASE IsSecret(v, r)
  <2>1. PICK t, k, n : r = 0 /\ v = ForsSecret(t, k, n)  BY <1>3, Zenon DEF IsSecret
  <2>2. v.in = <<>>  BY <2>1, FieldsOfHash DEF ForsSecret
  <2> QED BY <2>1, <2>2, FewParts
<1>4. CASE IsForsNode(v, r)
  <2>0. PICK h \in 0 .. FORS_HEIGHT, n \in Nat, x \in Nat :
          \E t, k : n < 2 ^ (FORS_HEIGHT - h) /\ r = h + 1 /\ v = ForsRows(t, k, x)[h][n]
    BY <1>4, Zenon DEF IsForsNode
  <2>1. PICK t, k : n < 2 ^ (FORS_HEIGHT - h) /\ r = h + 1 /\ v = ForsRows(t, k, x)[h][n]  BY <2>0
  <2>2. ForsNodeMade(v, t, k, x, h, n)  BY <2>1, ForsNodeIsMade
  <2>3. r \in Nat /\ r # 0 /\ r - 1 = h  BY <1>0, <2>1
  <2>4. CASE h = 0
    <3> DEFINE place == ForsPlace(x, h, n)
               y == ForsSecret(t, k, place)
    <3>1. v = ForsLeaf(t, k, place)  BY <2>2, <2>4 DEF ForsNodeMade
    <3>2. v.in = <<y>>
      <4> HIDE DEF place
      <4> QED BY <3>1, FieldsOfHash DEF ForsLeaf
    <3>3. Ranked(y, r - 1)  BY <2>3, <2>4, Zenon DEF Ranked, IsSecret
    <3> HIDE DEF y, place
    <3>4. PartsRanked(v, r)  BY <2>3, <3>2, <3>3, FewParts, Zenon
    <3> QED BY <2>3, <3>4
  <2>5. CASE h # 0
    <3> DEFINE g == h - 1
               a == ForsRows(t, k, x)[g][2 * n]
               b == ForsRows(t, k, x)[g][2 * n + 1]
               place == ForsPlace(x, h, n)
    <3>1. v.in = <<a, b>>
      <4>1. v = Scheme!thash(<<a, b>>, Adrs(0, t, 3, k, h, place))  BY <2>2, <2>5, Zenon DEF ForsNodeMade
      <4> HIDE DEF place, a, b
      <4> QED BY <4>1, FieldsOfHash
    <3>2. g \in 0 .. FORS_HEIGHT /\ r - 1 = g + 1  BY <1>0, <2>1, <2>5
    <3>3. 2 * n \in Nat /\ 2 * n + 1 \in Nat /\ 2 * n < 2 ^ (FORS_HEIGHT - g) /\ 2 * n + 1 < 2 ^ (FORS_HEIGHT - g)
      <4> DEFINE w == 2 ^ (FORS_HEIGHT - h)
                 u == 2 ^ (FORS_HEIGHT - g)
      <4>1. FORS_HEIGHT - h \in Nat /\ FORS_HEIGHT - g = (FORS_HEIGHT - h) + 1  BY <1>0
      <4>2. w \in Nat /\ u = 2 * w  BY <4>1, PowerDoubles
      <4>3. n < w  BY <2>1
      <4> HIDE DEF w, u
      <4>4. 2 * n \in Nat /\ 2 * n + 1 \in Nat /\ 2 * n < u /\ 2 * n + 1 < u  BY <4>2, <4>3
      <4> QED BY <4>4 DEF u
    <3>4. IsForsNode(a, r - 1) /\ IsForsNode(b, r - 1)  BY <3>2, <3>3, Zenon DEF IsForsNode
    <3>5. Ranked(a, r - 1) /\ Ranked(b, r - 1)  BY <3>4 DEF Ranked
    <3> HIDE DEF a, b
    <3>6. PartsRanked(v, r)  BY <2>3, <3>1, <3>5, FewParts, Zenon
    <3> QED BY <2>3, <3>6
  <2> QED BY <2>4, <2>5
<1>5. CASE IsForsKey(v, r)
  <2>1. PICK t, k : r = FORS_HEIGHT + 2 /\ v = ForsKey(t, k)  BY <1>5, Zenon DEF IsForsKey
  <2> DEFINE x == [c \in 1 .. FORS_TREES |-> ForsRows(t, k, c - 1)[FORS_HEIGHT][0]]
  <2>2. v.in = x  BY <2>1, FieldsOfHash DEF ForsKey
  <2>3. r \in Nat /\ r # 0 /\ r - 1 = FORS_HEIGHT + 1  BY <1>0, <2>1
  <2>4. ASSUME NEW c \in 1 .. FORS_TREES PROVE Ranked(ForsRows(t, k, c - 1)[FORS_HEIGHT][0], r - 1)
    <3>1. c - 1 \in Nat /\ FORS_HEIGHT \in 0 .. FORS_HEIGHT /\ 0 \in Nat  BY <1>0
    <3>2. 0 < 2 ^ (FORS_HEIGHT - FORS_HEIGHT)
      <4>1. FORS_HEIGHT - FORS_HEIGHT = 0  BY <1>0
      <4> QED BY <1>0, <4>1
    <3> QED BY <2>3, <3>1, <3>2, Zenon DEF Ranked, IsForsNode
  <2>5. DOMAIN x = 1 .. FORS_TREES /\ \A e \in 1 .. FORS_TREES : Ranked(x[e], r - 1)  BY <2>4, Zenon
  <2> HIDE DEF x
  <2>6. DOMAIN v.in = 1 .. FORS_TREES /\ \A e \in 1 .. FORS_TREES : Ranked(v.in[e], r - 1)  BY <2>2, <2>5, Zenon
  <2> QED BY <1>0, <2>3, <2>6, FewParts
<1> QED BY <1>1, <1>2, <1>3, <1>4, <1>5 DEF Ranked


(* Of finitely many values there are finitely many parts and addresses.    *)
LEMMA ImageIsFinite ==
  ASSUME NEW S, IsFiniteSet(S), NEW f
  PROVE  /\ IsFiniteSet({f[x] : x \in S})
         /\ (\A x, y \in S : f[x] = f[y] => x = y) => Cardinality({f[x] : x \in S}) = Cardinality(S)
<1> DEFINE T == {f[x] : x \in S}
           g == [x \in S |-> f[x]]
<1>1. \A x \in S : g[x] = f[x]  OBVIOUS
<1>2. g \in [S -> T] /\ DOMAIN g = S  OBVIOUS
<1>3. \A t \in T : \E x \in S : f[x] = t  OBVIOUS
<1> HIDE DEF g, T
<1>4. \A t \in T : \E x \in S : g[x] = t  BY <1>1, <1>3, Zenon
<1>5. g \in Surjection(S, T)  BY <1>2, <1>4, Zenon DEF Surjection
<1>6. IsFiniteSet(T) /\ (Cardinality(T) = Cardinality(S) <=> g \in Injection(S, T))  BY <1>5, FS_Surjection
<1>7. ASSUME \A x, y \in S : f[x] = f[y] => x = y PROVE Cardinality(T) = Cardinality(S)
  <2>1. IsInjective(g)  BY <1>1, <1>2, <1>7, Zenon DEF IsInjective
  <2>2. g \in Injection(S, T)  BY <1>2, <2>1, Zenon DEF Injection
  <2> QED BY <1>6, <2>2
<1> QED BY <1>6, <1>7 DEF T

(* A set of values that have so many hashes above them in what was signed. *)
Level(S, n) == IsFiniteSet(S) /\ \A v \in S : \E r \in Nat : r + n < Scheme!Depth /\ Ranked(v, r)

LEMMA OneLevelDown ==
  ASSUME SchemeSizes, NEW S, NEW n \in Nat, Level(S, n)
  PROVE  Level(Scheme!Parts(S), n + 1)
<1> DEFINE of(v) == {v.in[k] : k \in DOMAIN v.in}
           all == {of(v) : v \in S}
           D0 == Scheme!Depth
<1>0. D0 \in Nat  BY DEF Scheme!Depth, SchemeSizes, Scheme!SizesAssumption
<1>1. Scheme!Parts(S) = UNION all  BY Zenon DEF Scheme!Parts
<1>2. ASSUME NEW v \in S PROVE \E r \in Nat : r + n < D0 /\ PartsRanked(v, r)
  <2>1. PICK r \in Nat : r + n < D0 /\ Ranked(v, r)  BY Zenon DEF Level
  <2>2. PartsRanked(v, r)  BY <2>1, PartsAreRanked
  <2> QED BY <2>1, <2>2
<1> HIDE DEF D0
<1>3. ASSUME NEW v \in S PROVE IsFiniteSet(of(v))
  <2>1. IsFiniteSet(DOMAIN v.in)  BY <1>2, Zenon DEF PartsRanked
  <2> DEFINE s == DOMAIN v.in
             f == v.in
  <2>2. IsFiniteSet(s)  BY <2>1
  <2> HIDE DEF s, f
  <2>3. IsFiniteSet({f[x] : x \in s})  BY <2>2, ImageIsFinite
  <2> QED BY <2>3 DEF s, f
<1>4. IsFiniteSet(UNION all)
  <2> DEFINE g == [v \in S |-> of(v)]
  <2>1. all = {g[v] : v \in S}  OBVIOUS
  <2> HIDE DEF g
  <2>2. IsFiniteSet({g[v] : v \in S})  BY ImageIsFinite DEF Level
  <2>3. \A T \in all : IsFiniteSet(T)  BY <1>3, Zenon
  <2> HIDE DEF all
  <2> QED BY <2>1, <2>2, <2>3, FS_UNION
<1>5. ASSUME NEW u \in UNION all PROVE \E r \in Nat : r + (n + 1) < D0 /\ Ranked(u, r)
  <2>1. PICK v \in S : u \in of(v)  OBVIOUS
  <2>2. PICK k \in DOMAIN v.in : u = v.in[k]  BY <2>1, Zenon
  <2>3. PICK r \in Nat : r + n < D0 /\ PartsRanked(v, r)  BY <1>2
  <2>4. r # 0 /\ Ranked(u, r - 1)  BY <2>2, <2>3, Zenon DEF PartsRanked
  <2>5. r - 1 \in Nat /\ (r - 1) + (n + 1) < D0  BY <1>0, <2>3, <2>4
  <2> QED BY <2>4, <2>5
<1> HIDE DEF all
<1> QED BY <1>1, <1>4, <1>5 DEF Level, D0

LEMMA AllLevels ==
  ASSUME SchemeSizes, NEW roots, Level(roots, 0), NEW f, Follows(f, "within", roots, 0, Scheme!Depth)
  PROVE  \A n \in 0 .. Scheme!Depth : Level(f[n], n)
<1> DEFINE N0 == Scheme!Depth
           T == {m \in Nat : m <= N0 => Level(f[m], m)}
<1>0. N0 \in Nat  BY DEF Scheme!Depth, SchemeSizes, Scheme!SizesAssumption
<1>1. ASSUME NEW s \in 0 .. N0 PROVE f[s] = IF s = 0 THEN roots ELSE Scheme!Parts(f[s - 1])
  <2>1. f[s] = Step("within", roots, s, f[s - 1])
    <3> HIDE DEF N0
    <3> QED BY Zenon DEF Follows, N0
  <2>2. "within" # "tree" /\ "within" # "way" /\ "within" # "chain" /\ "within" # "climb"  OBVIOUS
  <2> QED BY <2>1, <2>2, Zenon DEF Step
<1> HIDE DEF N0
<1>2. 0 \in T
  <2>1. 0 \in 0 .. N0  BY <1>0
  <2>2. f[0] = roots  BY <1>1, <2>1
  <2> QED BY <2>2
<1>3. ASSUME NEW m \in Nat, m \in T PROVE m + 1 \in T
  <2> SUFFICES ASSUME m + 1 <= N0 PROVE Level(f[m + 1], m + 1)  OBVIOUS
  <2>1. m + 1 \in 0 .. N0 /\ m + 1 # 0 /\ (m + 1) - 1 = m /\ m <= N0  BY <1>0
  <2>2. f[m + 1] = Scheme!Parts(f[m])  BY <1>1, <2>1
  <2>3. Level(f[m], m)  BY <1>3, <2>1
  <2> QED BY <2>2, <2>3, OneLevelDown
<1> HIDE DEF T
<1>4. Nat \subseteq T  BY <1>2, <1>3, Induction
<1>5. ASSUME NEW n \in 0 .. N0 PROVE Level(f[n], n)
  <2>1. n \in Nat /\ n <= N0  OBVIOUS
  <2> QED BY <1>4, <2>1 DEF T
<1> QED BY <1>5 DEF N0

LEMMA RootsAreRanked ==
  ASSUME SchemeSizes, SchemeInv, turn = "signed"
  PROVE  Level({pk[2]} \cup {signed[l] : l \in Scheme!Layers} \cup {sig.fors[t].sk : t \in 0 .. FORS_TREES - 1}, 0)
<1>0. /\ WotsW \in Nat \ {0} /\ TREE_HEIGHT \in Nat /\ FORS_HEIGHT \in Nat \ {0} /\ FORS_TREES \in Nat \ {0}
      /\ D \in Nat \ {0} /\ 2 ^ 0 = 1
  BY DEF SchemeSizes, Scheme!SizesAssumption
<1> DEFINE Below(v) == \E r \in Nat : r + 0 < Scheme!Depth /\ Ranked(v, r)
<1>1. SigningHolds /\ tier = D  BY DEF SchemeInv, Signing
<1>2. ASSUME NEW l, NEW t PROVE Below(LayerRoot(l, t))
  <2> DEFINE r == WotsW + TREE_HEIGHT
  <2>1. TREE_HEIGHT \in 0 .. TREE_HEIGHT /\ 0 \in Nat /\ 0 < 2 ^ (TREE_HEIGHT - TREE_HEIGHT)
    <3>1. TREE_HEIGHT - TREE_HEIGHT = 0  BY <1>0
    <3> QED BY <1>0, <3>1
  <2>2. Ranked(LayerRoot(l, t), r)  BY <2>1, Zenon DEF Ranked, IsNode, LayerRoot
  <2>3. r \in Nat /\ r + 0 < Scheme!Depth  BY <1>0 DEF Scheme!Depth
  <2> HIDE DEF r
  <2> QED BY <2>2, <2>3
<1>3. ASSUME NEW t, NEW k PROVE Below(ForsKey(t, k))
  <2> DEFINE r == FORS_HEIGHT + 2
  <2>1. Ranked(ForsKey(t, k), r)  BY Zenon DEF Ranked, IsForsKey
  <2>2. r \in Nat /\ r + 0 < Scheme!Depth  BY <1>0 DEF Scheme!Depth
  <2> HIDE DEF r
  <2> QED BY <2>1, <2>2
<1>4. ASSUME NEW t, NEW k, NEW n PROVE Below(ForsSecret(t, k, n))
  <2>1. Ranked(ForsSecret(t, k, n), 0)  BY Zenon DEF Ranked, IsSecret
  <2>2. 0 \in Nat /\ 0 + 0 < Scheme!Depth  BY <1>0 DEF Scheme!Depth
  <2> QED BY <2>1, <2>2
<1> HIDE DEF Below
<1>5. Below(pk[2])
  <2>1. pk[2] = LayerRoot(D - 1, Scheme!Tree(0))  BY DEF SchemeInv, SchemeBasics
  <2> QED BY <1>2, <2>1
<1>6. ASSUME NEW l \in Scheme!Layers PROVE Below(signed[l])
  <2>1. l < tier  BY <1>0, <1>1 DEF Scheme!Layers
  <2>2. signed[l] = RootAt(digest, l)  BY <1>1, <2>1 DEF SigningHolds
  <2>3. CASE l = 0  BY <1>3, <2>2, <2>3, Zenon DEF RootAt
  <2>4. CASE l # 0  BY <1>2, <2>2, <2>4, Zenon DEF RootAt
  <2> QED BY <2>3, <2>4
<1>7. ASSUME NEW t \in 0 .. FORS_TREES - 1 PROVE Below(sig.fors[t].sk)
  <2>1. sig.fors = ForsPartOf(digest)  BY <1>1 DEF SigningHolds
  <2>2. sig.fors[t] = ForsPart(NumberAt(digest, 0), LeafAt(digest, 0), t, digest.indices[t])
    BY <2>1, Zenon DEF ForsPartOf, ForsSigned
  <2>3. \E u, k, n : sig.fors[t].sk = ForsSecret(u, k, n)
    <3>1. sig.fors[t].sk = ForsSecret(NumberAt(digest, 0), LeafAt(digest, 0), digest.indices[t] + Scheme!idx_offset(t))
      BY <2>2 DEF ForsPart
    <3> QED BY <3>1, Zenon
  <2> QED BY <1>4, <2>3
<1> DEFINE A == {pk[2]}
           B == {signed[l] : l \in Scheme!Layers}
           S == {sig.fors[t].sk : t \in 0 .. FORS_TREES - 1}
<1>8. IsFiniteSet(A)  BY FS_Singleton
<1>9. IsFiniteSet(B)
  <2>1. IsFiniteSet(Scheme!Layers)  BY <1>0, FS_Interval DEF Scheme!Layers
  <2> DEFINE f == signed
             L == Scheme!Layers
  <2>2. IsFiniteSet(L)  BY <2>1
  <2> HIDE DEF f, L
  <2>3. IsFiniteSet({f[l] : l \in L})  BY <2>2, ImageIsFinite
  <2> QED BY <2>3 DEF f, L
<1>10. IsFiniteSet(S)
  <2> DEFINE I == 0 .. FORS_TREES - 1
             f == [t \in I |-> sig.fors[t].sk]
  <2>1. IsFiniteSet(I)  BY <1>0, FS_Interval
  <2>2. S = {f[t] : t \in I}  OBVIOUS
  <2> HIDE DEF f, I
  <2>3. IsFiniteSet({f[t] : t \in I})  BY <2>1, ImageIsFinite
  <2> QED BY <2>2, <2>3
<1>11. \A v \in A \cup B \cup S : Below(v)  BY <1>5, <1>6, <1>7
<1> HIDE DEF A, B, S
<1>12. IsFiniteSet(A \cup B)  BY <1>8, <1>9, FS_Union
<1>13. IsFiniteSet((A \cup B) \cup S)  BY <1>10, <1>12, FS_Union
<1>14. Level((A \cup B) \cup S, 0)  BY <1>11, <1>13, Zenon DEF Level, Below
<1> QED BY <1>14 DEF A, B, S


LEMMA SchemeCounts == ASSUME NEW S PROVE Scheme!Cardinality(S) = Cardinality(S)
BY Zenon DEF Scheme!Cardinality, Cardinality

LEMMA AddressesAreUsedOnce == ASSUME SchemeSizes, SchemeInv PROVE Scheme!NoAddressTwice
<1> SUFFICES ASSUME turn = "signed" PROVE Scheme!NoAddressTwice
  BY Zenon DEF Scheme!NoAddressTwice
<1> DEFINE N0 == Scheme!Depth
           roots == {pk[2]} \cup {signed[l] : l \in Scheme!Layers} \cup {sig.fors[t].sk : t \in 0 .. FORS_TREES - 1}
           mine(f, n) == IF n = 0 THEN roots ELSE Scheme!Parts(f[n - 1])
           Is(f) == f = [n \in 0 .. N0 |-> mine(f, n)]
           within == CHOOSE f : Is(f)
           all == UNION {within[n] : n \in 0 .. N0}
<1>1. Level(roots, 0)  BY RootsAreRanked
<1>2. N0 \in Nat /\ 0 <= N0
  <2>1. N0 \in Nat  BY DEF Scheme!Depth, SchemeSizes, Scheme!SizesAssumption
  <2> HIDE DEF N0
  <2> QED BY <2>1
<1>3. Scheme!NoAddressTwice <=> within[N0] = {} /\ Scheme!Cardinality({v.addr : v \in all}) = Scheme!Cardinality(all)
  BY Zenon DEF Scheme!NoAddressTwice
<1> HIDE DEF roots, N0
<1>4. ASSUME NEW f PROVE Is(f) <=> Follows(f, "within", roots, 0, N0)
  <2>1. ASSUME NEW n \in 0 .. N0 PROVE mine(f, n) = Step("within", roots, n, f[n - 1])
    <3>1. "within" # "tree" /\ "within" # "way" /\ "within" # "chain" /\ "within" # "climb"  OBVIOUS
    <3> QED BY <3>1, Zenon DEF Step
  <2> HIDE DEF mine
  <2>2. [n \in 0 .. N0 |-> mine(f, n)] = [n \in 0 .. N0 |-> Step("within", roots, n, f[n - 1])]  BY <2>1, Zenon
  <2> QED BY <2>2, Zenon DEF Follows
<1> DEFINE c == Chosen("within", roots, 0, N0)
<1>5. Follows(c, "within", roots, 0, N0)
  <2>1. Starts("within", roots, 0)  BY KindsStart
  <2> QED BY <1>2, <2>1, ChosenFollows
<1> HIDE DEF Is, c
<1>6. Is(c)  BY <1>4, <1>5
<1>7. Is(within)  BY <1>6, Zenon
<1>8. Follows(within, "within", roots, 0, N0)  BY <1>4, <1>7
<1> HIDE DEF within
<1>9. \A n \in 0 .. N0 : Level(within[n], n)
  <2>1. Follows(within, "within", roots, 0, Scheme!Depth)  BY <1>8 DEF N0
  <2>2. \A n \in 0 .. Scheme!Depth : Level(within[n], n)  BY <1>1, <2>1, AllLevels
  <2> QED BY <2>2 DEF N0
<1>10. within[N0] = {}
  <2> SUFFICES ASSUME NEW v \in within[N0] PROVE FALSE  OBVIOUS
  <2>1. N0 \in 0 .. N0  BY <1>2
  <2>2. Level(within[N0], N0)  BY <1>9, <2>1
  <2>3. PICK r \in Nat : r + N0 < N0  BY <2>2, Zenon DEF Level, N0
  <2> QED BY <1>2, <2>3
<1>11. IsFiniteSet(all)
  <2> DEFINE I == 0 .. N0
             sets == {within[n] : n \in I}
  <2>1. IsFiniteSet(I)  BY <1>2, FS_Interval
  <2>2. \A T \in sets : IsFiniteSet(T)  BY <1>9, Zenon DEF Level
  <2> HIDE DEF I
  <2>3. IsFiniteSet(sets)  BY <2>1, ImageIsFinite
  <2> HIDE DEF sets
  <2>4. IsFiniteSet(UNION sets)  BY <2>2, <2>3, FS_UNION
  <2> QED BY <2>4 DEF sets, I
<1>12. \A v \in all : \E r : Ranked(v, r)  BY <1>9, Zenon DEF Level
<1> HIDE DEF all
<1>13. \A v, u \in all : v.addr = u.addr => v = u
  <2> SUFFICES ASSUME NEW v \in all, NEW u \in all, v.addr = u.addr PROVE v = u  OBVIOUS
  <2>1. PICK r : Ranked(v, r)  BY <1>12
  <2>2. PICK q : Ranked(u, q)  BY <1>12
  <2> QED BY <2>1, <2>2, AddressesTellValues
<1>14. Cardinality({v.addr : v \in all}) = Cardinality(all)
  <2> DEFINE f == [v \in all |-> v.addr]
  <2>1. {v.addr : v \in all} = {f[v] : v \in all}  OBVIOUS
  <2>2. \A v, u \in all : f[v] = f[u] => v = u  BY <1>13
  <2> HIDE DEF f
  <2>3. Cardinality({f[v] : v \in all}) = Cardinality(all)  BY <1>11, <2>2, ImageIsFinite
  <2> QED BY <2>1, <2>3
<1> QED BY <1>3, <1>10, <1>14, SchemeCounts

(* What was signed is accepted and nothing that differs from it in a part, *)
(* no two hashes of a key and a signature have the same address, and all   *)
(* builds sign alike: for every number and height of the layers and of the *)
(* few-time trees, every length and number of chains, all checksums and    *)
(* everything that messages are hashed to (sign.c:140-153, 206-240,        *)
(* merkle.c:19, fors.c:48, wots.c:32, wotsx1.c:18).                        *)
THEOREM SignaturesAreRight ==
  SchemeSizes => (Scheme!Spec => [](/\ Scheme!AcceptsWhatWasSigned /\ Scheme!RejectsChanges
                                    /\ Scheme!NoAddressTwice /\ Scheme!BuildsAgree))
<1> SUFFICES ASSUME SchemeSizes
             PROVE  Scheme!Spec => [](/\ Scheme!AcceptsWhatWasSigned /\ Scheme!RejectsChanges
                                      /\ Scheme!NoAddressTwice /\ Scheme!BuildsAgree)
  OBVIOUS
<1>1. Scheme!Init => SchemeInv  BY SchemeBegins
<1>2. SchemeInv /\ [Scheme!Next]_(Scheme!vars) => SchemeInv'  BY SchemeStep
<1>3. SchemeInv => /\ Scheme!AcceptsWhatWasSigned /\ Scheme!RejectsChanges
                   /\ Scheme!NoAddressTwice /\ Scheme!BuildsAgree
  BY VerdictIsRight, AddressesAreUsedOnce, BuildsMakeTheSame
<1> QED BY <1>1, <1>2, <1>3, PTL DEF Scheme!Spec
==============================================================================
