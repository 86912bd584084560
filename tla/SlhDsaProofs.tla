---------------------------- MODULE SlhDsaProofs ----------------------------
(***************************************************************************)
(* The copy loop of SLH-DSA's source serves every request as one read of   *)
(* the cyclic stream, for every size of buffer and of request; the seed of *)
(* a signature comes from no source but from the key and the message       *)
(* (SlhDerandomize); the addresses, arrays of bytes, implement records of  *)
(* fields, for every parameter set (SphincsAddress); the vector builds     *)
(* run up the chains of a one-time signature to the key that the reference *)
(* code has (SphincsWots); sponges give one stream (Sponge).  Its trees and *)
(* signatures are in SphincsProofs.                                        *)
(*                                                                         *)
(* The inductive invariant LoopInv adds to the checked invariants where    *)
(* the stream has got to, (start + copied) modulo the size.  The local     *)
(* `remaining` follows the offset (RemainingIsCurrent), so a chunk stays   *)
(* before the end of the buffer or reaches it exactly.                     *)
(***************************************************************************)
EXTENDS SlhRandomSource, SphincsProofs

LoopInv ==
  /\ TypeOK
  /\ g_random_data <=> g_random_data_size # 0
  /\ g_random_data_size = 0 => g_random_data_offset = 0
  /\ RemainingIsCurrent
  /\ pc = "loop" => /\ outlen \in RequestSizes
                    /\ start < g_random_data_size
                    /\ g_random_data_offset = (start + copied) % g_random_data_size
  /\ FilledSoFar

LEMMA LoopInvInit == Init => LoopInv
<1> SUFFICES ASSUME Init
             PROVE  LoopInv
  OBVIOUS
<1>1. outlen \in RequestSizes \cup {0} /\ copied \in 0 .. outlen
  BY DEF Init
<1>2. out \in [0 .. outlen - 1 -> Bytes]
  BY DEF Init, SystemBytes
<1>3. g_random_data \in BOOLEAN
  BY DEF Init
<1>4. /\ g_random_data_size \in BufferSizes \cup {0} /\ g_random_data_offset \in Nat
      /\ pc \in {"idle", "loop"} /\ start \in Nat /\ remaining \in Nat
  BY DEF Init
<1>5. TypeOK
  BY <1>1, <1>2, <1>3, <1>4 DEF TypeOK
<1>6. RemainingIsCurrent /\ FilledSoFar /\ pc # "loop"
  BY DEF Init, RemainingIsCurrent, FilledSoFar
<1>7. g_random_data <=> g_random_data_size # 0
  BY DEF Init
<1>8. g_random_data_offset = 0
  BY DEF Init
<1>9. QED
  BY <1>5, <1>6, <1>7, <1>8 DEF LoopInv

(* The offset after n bytes more, in either branch: the position n bytes   *)
(* further on in the stream, and inside the buffer.                        *)
LEMMA OffsetFollowsStream ==
  ASSUME NEW size \in Nat \ {0}, NEW a \in Nat, NEW n \in Nat, (a % size) + n <= size
  PROVE  /\ ((a % size) + n) % size = (a + n) % size
         /\ (a + n) % size \in 0 .. size - 1
<1>1. a % size \in 0 .. size - 1
  BY RemainderInRange
<1>2. (a + n) % size \in 0 .. size - 1
  BY RemainderInRange
<1>3. CASE (a % size) + n < size
  <2>1. (a + n) % size = (a % size) + n
    BY <1>3, MoveInside
  <2>2. (a % size) + n \in 0 .. size - 1
    BY <1>1, <1>3
  <2>3. QED
    BY <1>2, <2>1, <2>2, RemainderOfSmall
<1>4. CASE (a % size) + n = size
  <2>1. (a + n) % size = 0
    BY <1>4, MoveToEnd
  <2>2. size % size = 0
    <3>1. 0 % size = 0
      BY RemainderOfSmall
    <3>2. (0 + size) % size = 0
      BY <3>1, MoveToEnd
    <3>3. QED
      BY <3>2
  <2>3. QED
    BY <1>2, <1>4, <2>1, <2>2
<1>5. QED
  BY <1>1, <1>3, <1>4

(* What one iteration copies: at least a byte, and never past the end of   *)
(* the buffer or of the request.                                           *)
LEMMA ChunkBounds ==
  ASSUME LoopInv, pc = "loop", copied < outlen
  PROVE  /\ g_random_data_size \in Nat \ {0}
         /\ g_random_data_offset \in 0 .. g_random_data_size - 1
         /\ ToCopy \in Nat \ {0}
         /\ copied \in Nat /\ copied + ToCopy <= outlen
         /\ g_random_data_offset + ToCopy <= g_random_data_size
  BY SizesAssumption DEF LoopInv, TypeOK, RemainingIsCurrent, ToCopy

(* The bytes of one chunk are those of the stream. *)
LEMMA ChunkIsCyclic ==
  ASSUME LoopInv, pc = "loop", copied < outlen,
         NEW k \in copied .. copied + ToCopy - 1
  PROVE  g_random_data_offset + (k - copied) = (start + k) % g_random_data_size
<1> DEFINE n == g_random_data_size
           a == start + copied
           j == k - copied
<1>1. n \in Nat \ {0} /\ a \in Nat /\ j \in Nat /\ j < ToCopy
  BY ChunkBounds, SMTT(40) DEF LoopInv, TypeOK
<1>2. a % n = g_random_data_offset
  BY DEF LoopInv
<1>3. (a % n) + j < n
  BY <1>1, <1>2, ChunkBounds
<1>4. (a + j) % n = (a % n) + j
  BY <1>1, <1>3, MoveInside
<1>5. a + j = start + k
  BY <1>1, ChunkBounds DEF LoopInv, TypeOK
<1>6. QED
  BY <1>2, <1>4, <1>5

LEMMA LoopInvNext == LoopInv /\ [Next]_vars => LoopInv'
<1> SUFFICES ASSUME LoopInv, [Next]_vars
             PROVE  LoopInv'
  OBVIOUS
<1> USE SizesAssumption
<1>1. ASSUME NEW n \in BufferSizes, slh_dsa_init_random_source(n)
      PROVE  LoopInv'
  BY <1>1 DEF slh_dsa_init_random_source, LoopInv, TypeOK, RemainingIsCurrent, FilledSoFar, request
<1>2. CASE slh_dsa_restore_original_random
  BY <1>2 DEF slh_dsa_restore_original_random, LoopInv, TypeOK, RemainingIsCurrent, FilledSoFar,
              request
<1>3. ASSUME NEW len \in RequestSizes, RequestSystem(len)
      PROVE  LoopInv'
  BY <1>3 DEF RequestSystem, LoopInv, TypeOK, RemainingIsCurrent, FilledSoFar, source, request
<1>4. ASSUME NEW len \in RequestSizes, RequestFits(len)
      PROVE  LoopInv'
  <2>1. g_random_data_size \in Nat \ {0} /\ g_random_data_offset + len \in Nat
    BY <1>4 DEF RequestFits, NoSource, LoopInv, TypeOK
  <2>2. g_random_data_offset' \in 0 .. g_random_data_size - 1
    BY <1>4, <2>1, RemainderInRange DEF RequestFits
  <2>3. QED
    BY <1>4, <2>1, <2>2 DEF RequestFits, LoopInv, TypeOK, RemainingIsCurrent, FilledSoFar, request
<1>5. ASSUME NEW len \in RequestSizes, StartRequest(len)
      PROVE  LoopInv'
  <2>1. g_random_data_size \in Nat \ {0} /\ g_random_data_offset \in 0 .. g_random_data_size - 1
    BY <1>5 DEF StartRequest, NoSource, LoopInv, TypeOK, RemainingIsCurrent
  <2>2. /\ remaining' = g_random_data_size' - g_random_data_offset'
        /\ remaining' \in Nat
        /\ start' = g_random_data_offset'
        /\ g_random_data_size' = g_random_data_size
    BY <1>5, <2>1 DEF StartRequest, SubSize, source
  <2>3. TypeOK' /\ FilledSoFar'
    BY <1>5, <2>2 DEF StartRequest, LoopInv, TypeOK, FilledSoFar, source, Bytes, Unset
  <2>4. g_random_data_offset' = (start' + copied') % g_random_data_size'
    BY <1>5, <2>1, <2>2, RemainderOfSmall DEF StartRequest, source
  <2>5. QED
    BY <1>5, <2>1, <2>2, <2>3, <2>4 DEF StartRequest, LoopInv, RemainingIsCurrent, source
<1>6. CASE CopyChunk
  <2>1. pc = "loop" /\ copied < outlen
    BY <1>6 DEF CopyChunk
  <2>2. ToCopy \in Nat \ {0} /\ copied \in Nat /\ copied + ToCopy <= outlen
    BY <2>1, ChunkBounds
  <2>3. /\ g_random_data_offset' = (start + (copied + ToCopy)) % g_random_data_size
        /\ g_random_data_offset' \in 0 .. g_random_data_size - 1
    <3>1. g_random_data_size \in Nat \ {0} /\ start + copied \in Nat
      BY <2>1, <2>2, ChunkBounds DEF LoopInv, TypeOK
    <3>2. (start + copied) % g_random_data_size = g_random_data_offset
      BY <2>1 DEF LoopInv
    <3>3. (start + copied) + ToCopy = start + (copied + ToCopy)
      BY <2>2, <3>1 DEF LoopInv, TypeOK
    <3>4. (g_random_data_offset + ToCopy) % g_random_data_size
            = ((start + copied) + ToCopy) % g_random_data_size
          /\ ((start + copied) + ToCopy) % g_random_data_size \in 0 .. g_random_data_size - 1
      BY <2>1, <2>2, <3>1, <3>2, ChunkBounds, OffsetFollowsStream
    <3>5. QED
      BY <1>6, <3>3, <3>4 DEF CopyChunk
  <2>4. /\ remaining' = g_random_data_size' - g_random_data_offset'
        /\ remaining' \in Nat
    BY <1>6, <2>1, <2>3, ChunkBounds DEF CopyChunk, SubSize
  <2>5. TypeOK'
    <3>1. out' \in [0 .. outlen' - 1 -> Bytes]
      BY <1>6, <2>1, <2>2, ChunkBounds DEF CopyChunk, CopyInto, LoopInv, TypeOK, Bytes
    <3>2. QED
      BY <1>6, <2>2, <2>3, <2>4, <3>1 DEF CopyChunk, LoopInv, TypeOK
  <2>6. FilledSoFar'
    <3> SUFFICES ASSUME NEW k \in 0 .. copied' - 1
                 PROVE  out'[k] = (start + k) % g_random_data_size
      BY <1>6 DEF FilledSoFar, CopyChunk
    <3>1. k \in DOMAIN out
      BY <1>6, <2>2 DEF CopyChunk, LoopInv, TypeOK
    <3>2. CASE k \in copied .. copied + ToCopy - 1
      BY <1>6, <2>1, <3>1, <3>2, ChunkIsCyclic DEF CopyChunk, CopyInto
    <3>3. CASE k \notin copied .. copied + ToCopy - 1
      <4>1. k \in 0 .. copied - 1
        BY <1>6, <2>2, <3>3 DEF CopyChunk
      <4>2. out'[k] = out[k]
        BY <1>6, <3>1, <3>3 DEF CopyChunk, CopyInto
      <4>3. QED
        BY <2>1, <4>1, <4>2 DEF LoopInv, FilledSoFar
    <3>4. QED
      BY <3>2, <3>3
  <2>7. g_random_data_size \in Nat \ {0}
    BY <2>1, ChunkBounds
  <2>8. RemainingIsCurrent'
    BY <1>6, <2>3, <2>4, <2>7 DEF CopyChunk, RemainingIsCurrent
  <2>9. QED
    BY <1>6, <2>3, <2>5, <2>6, <2>7, <2>8 DEF CopyChunk, LoopInv
<1>7. CASE EndRequest
  BY <1>7 DEF EndRequest, LoopInv, TypeOK, RemainingIsCurrent, FilledSoFar, source, request
<1>8. CASE UNCHANGED vars
  BY <1>8 DEF vars, LoopInv, TypeOK, RemainingIsCurrent, FilledSoFar, source, request
<1>9. QED
  BY <1>1, <1>2, <1>3, <1>4, <1>5, <1>6, <1>7, <1>8 DEF Next

(* What holds in the copy loop is kept by every step of it. *)
THEOREM LoopInvariance == Spec => []LoopInv
  BY LoopInvInit, LoopInvNext, PTL DEF Spec

(* The variables of the source and of a request keep their types.          *)
THEOREM TypeCorrect == Spec => []TypeOK
<1>1. LoopInv => TypeOK
  BY DEF LoopInv
<1>2. QED
  BY <1>1, LoopInvariance, PTL

(* The local `remaining` always agrees with the file-scope variables.      *)
THEOREM RemainingStaysCurrent == Spec => []RemainingIsCurrent
<1>1. LoopInv => RemainingIsCurrent
  BY DEF LoopInv
<1>2. QED
  BY <1>1, LoopInvariance, PTL

(* The source implements CyclicSource: a request that fits and one that is *)
(* cut into chunks both return the next bytes of the cyclic repetition of  *)
(* the buffer and move the position past them.                             *)
THEOREM ImplementsCyclicSource == Spec => CyclicSpec
<1>1. Init => Cyclic!Init
  BY DEF Init, Cyclic!Init, SystemBytes, Cyclic!SystemBytes, OsByte, ZeroByte,
         Cyclic!OsByte, Cyclic!ZeroByte
<1>2. LoopInv /\ [Next]_vars => [Cyclic!Next]_(Cyclic!vars)
  <2> SUFFICES ASSUME LoopInv, [Next]_vars
               PROVE  [Cyclic!Next]_(Cyclic!vars)
    OBVIOUS
  <2> USE SizesAssumption
  <2>1. ASSUME NEW n \in BufferSizes, slh_dsa_init_random_source(n)
        PROVE  Cyclic!Next
    <3>1. Cyclic!Install(n)
      BY <2>1 DEF slh_dsa_init_random_source, Cyclic!Install, request
    <3>2. QED
      BY <3>1 DEF Cyclic!Next
  <2>2. CASE slh_dsa_restore_original_random
    <3>1. Cyclic!Withdraw
      BY <2>2 DEF slh_dsa_restore_original_random, Cyclic!Withdraw, request
    <3>2. QED
      BY <3>1 DEF Cyclic!Next
  <2>3. ASSUME NEW len \in RequestSizes, RequestSystem(len)
        PROVE  Cyclic!Next
    <3>1. Cyclic!ServeSystem(len)
      BY <2>3 DEF RequestSystem, NoSource, LoopInv, Cyclic!ServeSystem, SystemBytes,
                  Cyclic!SystemBytes, OsByte, ZeroByte, Cyclic!OsByte, Cyclic!ZeroByte,
                  source, request
    <3>2. QED
      BY <3>1 DEF Cyclic!Next
  <2>4. ASSUME NEW len \in RequestSizes, RequestFits(len)
        PROVE  Cyclic!Next
    <3>1. /\ g_random_data_size \in Nat \ {0}
          /\ g_random_data_offset \in 0 .. g_random_data_size - 1
      BY <2>4 DEF RequestFits, NoSource, LoopInv, TypeOK, RemainingIsCurrent
    <3>2. \A k \in 0 .. len - 1 :
            g_random_data_offset + k = (g_random_data_offset + k) % g_random_data_size
      <4> TAKE k \in 0 .. len - 1
      <4>1. g_random_data_offset + len <= g_random_data_size
        BY <2>4, <3>1 DEF RequestFits, SubSize
      <4>2. g_random_data_offset + k \in 0 .. g_random_data_size - 1
        BY <3>1, <4>1
      <4>3. QED
        BY <3>1, <4>2, RemainderOfSmall
    <3>3. delivered' = Cyclic!Cycle(g_random_data_offset, g_random_data_size, len)
      BY <2>4, <3>2 DEF RequestFits, Cyclic!Cycle
    <3>4. Cyclic!Serve(len)
      BY <2>4, <3>1, <3>3 DEF RequestFits, Cyclic!Serve, request
    <3>5. QED
      BY <3>4 DEF Cyclic!Next
  <2>5. ASSUME NEW len \in RequestSizes, StartRequest(len)
        PROVE  UNCHANGED Cyclic!vars
    BY <2>5 DEF StartRequest, Cyclic!vars, source
  <2>6. CASE CopyChunk
    BY <2>6 DEF CopyChunk, Cyclic!vars
  <2>7. CASE EndRequest
    <3>1. outlen = copied /\ outlen \in RequestSizes
      BY <2>7 DEF EndRequest, LoopInv, TypeOK
    <3>2. out = Cyclic!Cycle(start, g_random_data_size, outlen)
      BY <2>7, <3>1 DEF EndRequest, LoopInv, TypeOK, FilledSoFar, Cyclic!Cycle
    <3>3. Cyclic!Serve(outlen)
      BY <2>7, <3>1, <3>2 DEF EndRequest, LoopInv, RemainingIsCurrent, Cyclic!Serve, source, request
    <3>4. QED
      BY <3>1, <3>3 DEF Cyclic!Next
  <2>8. CASE UNCHANGED vars
    BY <2>8 DEF vars, Cyclic!vars, source, request
  <2>9. QED
    BY <2>1, <2>2, <2>3, <2>4, <2>5, <2>6, <2>7, <2>8 DEF Next
<1>3. QED
  BY <1>1, <1>2, LoopInvariance, PTL DEF Spec, CyclicSpec, Cyclic!Spec

-----------------------------------------------------------------------------
(* The seed that stands in for the source (SlhDerandomize).                *)
CONSTANTS Lengths, Changes
VARIABLES mlen, combined, buffer, i, j, seed

Derandomize == INSTANCE SlhDerandomize

Index == 0 .. 63
InputBytes == 0 .. Derandomize!combined_len - 1

(* Three bytes of the buffer in one. *)
Xor3(x, y, z) == Derandomize!Xor(Derandomize!Xor(x, y), z)

Folded(n) == \A k \in Index : buffer[k] = {b \in 0 .. n - 1 : b % 64 = k}
AllAreFolded == mlen \in Nat /\ Folded(Derandomize!combined_len)

(* What the step before has written can be undone. *)
LastStep ==
  buffer[(j + 63) % 64] = Xor3(buffer[j], buffer[(j + 6) % 64], buffer[(j + 12) % 64])

(* What two inputs differ in is in the buffer as long as it is in a column *)
(* that the first step has not dropped.                                    *)
Differs(S) == \E c \in Index \ {0} : Derandomize!Odd(Derandomize!Column(c), S)
Seen(S) == \E k \in Index : Derandomize!Odd(buffer[k], S)
ColumnsKept == \A S : S \subseteq Nat /\ IsFiniteSet(S) => (Seen(S) <=> Differs(S))

MixTypes ==
  /\ buffer \in [Index -> SUBSET InputBytes]
  /\ i \in Nat /\ j \in Index /\ mlen \in Nat

Folding == buffer \in [Index -> SUBSET InputBytes] /\ i \in InputBytes /\ j = 0 /\ Folded(i)
Mixing ==
  /\ MixTypes
  /\ i = 0 /\ j = 0 => AllAreFolded
  /\ ~(i = 0 /\ j = 0) => LastStep /\ ColumnsKept

SeedInv ==
  /\ mlen \in Nat
  /\ pc \in {"alloc", "fold", "mix", "copy", "done"}
  /\ pc = "alloc" => combined = "none" /\ i = 0 /\ j = 0 /\ buffer = [k \in Index |-> {}]
  /\ pc = "fold" => Folding
  /\ pc = "mix" => Mixing
  /\ pc = "copy" => ColumnsKept
  /\ Derandomize!SeedIsTheColumns

(* The exclusive or of sets, and how many elements it has. *)
LEMMA OddOrEven ==
  ASSUME NEW a \in Nat, NEW b \in Nat, NEW c \in Nat
  PROVE  ((a - c) + (b - c)) % 2 = (a + b) % 2
<1>1. (a - c) + (b - c) + 2 * c = a + b OBVIOUS
<1> QED BY <1>1

LEMMA XorParity ==
  ASSUME NEW x, NEW y, IsFiniteSet(x), IsFiniteSet(y)
  PROVE  /\ IsFiniteSet(Derandomize!Xor(x, y))
         /\ Cardinality(Derandomize!Xor(x, y)) % 2 = (Cardinality(x) + Cardinality(y)) % 2
<1> DEFINE p == x \ y
           q == y \ x
           c == x \cap y
<1>1. /\ IsFiniteSet(p) /\ Cardinality(p) = Cardinality(x) - Cardinality(c)
      /\ IsFiniteSet(q) /\ Cardinality(q) = Cardinality(y) - Cardinality(y \cap x)
  BY FS_Difference
<1>2. y \cap x = c OBVIOUS
<1>3. IsFiniteSet(c) BY FS_Intersection
<1>4. Cardinality(x) \in Nat /\ Cardinality(y) \in Nat /\ Cardinality(c) \in Nat BY <1>3, FS_CardinalityType
<1>5. p \cap q = {} OBVIOUS
<1>6. Derandomize!Xor(x, y) = p \cup q BY DEF Derandomize!Xor
<1> HIDE DEF p, q, c
<1>7. Cardinality({}) = 0 BY FS_EmptySet
<1>8. /\ IsFiniteSet(p \cup q)
      /\ Cardinality(p \cup q) = Cardinality(p) + Cardinality(q) - Cardinality(p \cap q)
  BY <1>1, FS_Union
<1>9. Cardinality(p \cup q) = (Cardinality(x) - Cardinality(c)) + (Cardinality(y) - Cardinality(c))
  <2>1. Cardinality(q) = Cardinality(y) - Cardinality(c) BY <1>1, <1>2
  <2>2. Cardinality(p \cap q) = 0 BY <1>5, <1>7
  <2>3. Cardinality(p) \in Nat /\ Cardinality(q) \in Nat BY <1>1, FS_CardinalityType
  <2>4. Cardinality(p \cup q) = Cardinality(p) + Cardinality(q) BY <1>8, <2>2, <2>3
  <2> QED BY <1>1, <2>1, <2>4
<1> QED BY <1>4, <1>6, <1>8, <1>9, OddOrEven

LEMMA OddIs ==
  ASSUME NEW x, NEW S, NEW common, x \cap S = common
  PROVE  Derandomize!Odd(x, S) <=> Cardinality(common) % 2 = 1
<1>1. Derandomize!Cardinality(common) = Cardinality(common)
  BY Zenon DEF Derandomize!Cardinality, Cardinality
<1> QED BY <1>1, Zenon DEF Derandomize!Odd

(* Whether the number of elements is odd goes along with the exclusive or. *)
LEMMA OddXor ==
  ASSUME NEW x, NEW y, NEW S, IsFiniteSet(S)
  PROVE  Derandomize!Odd(Derandomize!Xor(x, y), S) <=> ~(Derandomize!Odd(x, S) <=> Derandomize!Odd(y, S))
<1> DEFINE a == x \cap S
           b == y \cap S
<1>1. IsFiniteSet(a) /\ IsFiniteSet(b) BY FS_Subset
<1>2. Derandomize!Xor(x, y) \cap S = Derandomize!Xor(a, b) BY DEF Derandomize!Xor
<1>6. (Derandomize!Odd(x, S) <=> Cardinality(a) % 2 = 1) /\ (Derandomize!Odd(y, S) <=> Cardinality(b) % 2 = 1)
  BY OddIs
<1>7. Derandomize!Odd(Derandomize!Xor(x, y), S) <=> Cardinality(Derandomize!Xor(a, b)) % 2 = 1
  BY <1>2, OddIs
<1> HIDE DEF a, b
<1>3. /\ IsFiniteSet(Derandomize!Xor(a, b))
      /\ Cardinality(Derandomize!Xor(a, b)) % 2 = (Cardinality(a) + Cardinality(b)) % 2
  BY <1>1, XorParity
<1>4. Cardinality(a) \in Nat /\ Cardinality(b) \in Nat BY <1>1, FS_CardinalityType
<1>5. (Cardinality(a) + Cardinality(b)) % 2 = 1 <=> ~(Cardinality(a) % 2 = 1 <=> Cardinality(b) % 2 = 1)
  BY <1>4
<1> QED BY <1>3, <1>5, <1>6, <1>7

LEMMA OddXor3 ==
  ASSUME NEW x, NEW y, NEW z, NEW S, IsFiniteSet(S)
  PROVE  Derandomize!Odd(Xor3(x, y, z), S) <=>
           (Derandomize!Odd(x, S) <=> (Derandomize!Odd(y, S) <=> Derandomize!Odd(z, S)))
<1>1. Derandomize!Odd(Derandomize!Xor(x, y), S) <=> ~(Derandomize!Odd(x, S) <=> Derandomize!Odd(y, S))
  BY OddXor
<1>2. Derandomize!Odd(Xor3(x, y, z), S) <=>
        ~(Derandomize!Odd(Derandomize!Xor(x, y), S) <=> Derandomize!Odd(z, S))
  BY OddXor DEF Xor3
<1> QED BY <1>1, <1>2

(* Nothing is claimed until the seed is there. *)
LEMMA NotYetSeeded ==
  ASSUME pc # "done" PROVE Derandomize!SeedIsTheColumns
  BY DEF Derandomize!SeedIsTheColumns, Derandomize!ColumnsDecideTheSeed, Derandomize!KeyCopyIsWiped,
         Derandomize!ConstantWithoutMemory, Derandomize!Seeded

LEMMA NotYetSeededNext ==
  ASSUME pc' # "done" PROVE Derandomize!SeedIsTheColumns'
  BY DEF Derandomize!SeedIsTheColumns, Derandomize!ColumnsDecideTheSeed, Derandomize!KeyCopyIsWiped,
         Derandomize!ConstantWithoutMemory, Derandomize!Seeded

LEMMA Length ==
  ASSUME mlen \in Nat
  PROVE  /\ Derandomize!combined_len = mlen + 64 /\ InputBytes = 0 .. mlen + 63
         /\ 0 \in InputBytes
  BY DEF Derandomize!combined_len, Derandomize!CRYPTO_SECRETKEYBYTES, InputBytes

LEMMA SeedInit ==
  ASSUME Derandomize!LengthsAssumption
  PROVE  Derandomize!Init => SeedInv
<1> SUFFICES ASSUME Derandomize!Init PROVE SeedInv
  OBVIOUS
<1>1. /\ mlen \in Nat /\ pc = "alloc" /\ combined = "none" /\ i = 0 /\ j = 0
      /\ buffer = [k \in Index |-> {}]
  BY DEF Derandomize!Init, Derandomize!LengthsAssumption, Derandomize!Index, Index
<1> QED BY <1>1, NotYetSeeded DEF SeedInv

LEMMA SeedAlloc == SeedInv /\ (Derandomize!Alloc \/ Derandomize!NoMemory) => SeedInv'
<1> SUFFICES ASSUME SeedInv, Derandomize!Alloc \/ Derandomize!NoMemory PROVE SeedInv'
  OBVIOUS
<1>1. /\ pc = "alloc" /\ mlen \in Nat /\ combined = "none" /\ i = 0 /\ j = 0
      /\ buffer = [k \in Index |-> {}]
      /\ UNCHANGED <<mlen, buffer, i, j>>
  BY DEF SeedInv, Derandomize!Alloc, Derandomize!NoMemory
<1>2. CASE Derandomize!Alloc
  <2>1. pc' = "fold" BY <1>2 DEF Derandomize!Alloc
  <2>2. Folding'
    <3>1. InputBytes' = InputBytes BY <1>1 DEF InputBytes, Derandomize!combined_len
    <3>2. \A k \in Index : buffer'[k] = {b \in 0 .. 0 - 1 : b % 64 = k} BY <1>1
    <3>3. buffer' \in [Index -> SUBSET InputBytes] BY <1>1
    <3> QED BY <1>1, <3>1, <3>2, <3>3, Length DEF Folding, Folded
  <2> QED BY <1>1, <2>1, <2>2, NotYetSeededNext DEF SeedInv
<1>3. CASE Derandomize!NoMemory
  <2>1. pc' = "done" /\ combined' = "none" /\ seed' = [k \in Index |-> {}]
    BY <1>1, <1>3 DEF Derandomize!NoMemory, Derandomize!Index, Index
  <2>2. Derandomize!SeedIsTheColumns'
    BY <2>1 DEF Derandomize!SeedIsTheColumns, Derandomize!ColumnsDecideTheSeed, Derandomize!KeyCopyIsWiped,
                Derandomize!ConstantWithoutMemory, Derandomize!Seeded, Derandomize!Index, Index
  <2> QED BY <1>1, <2>1, <2>2 DEF SeedInv
<1> QED BY <1>2, <1>3

(* After the last byte each place of the buffer holds its column. *)
LEMMA AllFolded ==
  ASSUME AllAreFolded, NEW k \in Index PROVE buffer[k] = Derandomize!Column(k)
BY DEF AllAreFolded, Folded, Derandomize!Column

LEMMA SeedFold == SeedInv /\ Derandomize!Fold => SeedInv'
<1> SUFFICES ASSUME SeedInv, Derandomize!Fold PROVE SeedInv'
  OBVIOUS
<1> DEFINE T == mlen + 64
<1>1. /\ pc = "fold" /\ UNCHANGED <<mlen, combined, j, seed>>
      /\ buffer' = [buffer EXCEPT ![i % 64] = Derandomize!Xor(buffer[i % 64], {i})]
      /\ i' = (IF i + 1 = Derandomize!combined_len THEN 0 ELSE i + 1)
      /\ pc' = IF i + 1 = Derandomize!combined_len THEN "mix" ELSE "fold"
  BY DEF Derandomize!Fold
<1>2. mlen \in Nat /\ Folding BY <1>1 DEF SeedInv
<1>3. /\ Derandomize!combined_len = T /\ Derandomize!combined_len' = T
      /\ InputBytes = 0 .. T - 1 /\ InputBytes' = 0 .. T - 1
      /\ T \in Nat /\ i \in Nat /\ i < T /\ j = 0
  <2>1. Derandomize!combined_len' = Derandomize!combined_len /\ InputBytes' = InputBytes
    BY <1>1 DEF Derandomize!combined_len, InputBytes
  <2>2. InputBytes = 0 .. T - 1 BY <1>2, Length
  <2> QED BY <1>2, <2>1, <2>2, Length DEF Folding
<1> HIDE DEF T
<1>4. i % 64 \in Index BY <1>3 DEF Index
<1>5. \A k \in Index : buffer'[k] = {b \in 0 .. i : b % 64 = k}
  <2> SUFFICES ASSUME NEW k \in Index PROVE buffer'[k] = {b \in 0 .. i : b % 64 = k}  OBVIOUS
  <2>1. buffer[k] = {b \in 0 .. i - 1 : b % 64 = k} BY <1>2 DEF Folding, Folded
  <2>2. buffer \in [Index -> SUBSET InputBytes] BY <1>2 DEF Folding
  <2>3. \A b : b \in 0 .. i <=> b \in 0 .. i - 1 \/ b = i BY <1>3
  <2>4. ~(i \in 0 .. i - 1) BY <1>3
  <2>5. CASE k = i % 64
    <3>1. buffer'[k] = Derandomize!Xor(buffer[k], {i}) BY <1>1, <1>4, <2>2, <2>5
    <3> QED BY <2>1, <2>3, <2>4, <2>5, <3>1 DEF Derandomize!Xor
  <2>6. CASE k # i % 64
    <3>1. buffer'[k] = buffer[k] BY <1>1, <2>2, <2>6
    <3> QED BY <2>1, <2>3, <2>6, <3>1
  <2> QED BY <2>5, <2>6
<1>6. buffer' \in [Index -> SUBSET (0 .. T - 1)]
  <2>1. \A k \in Index : buffer'[k] \subseteq 0 .. T - 1
    <3>1. 0 .. i \subseteq 0 .. T - 1 BY <1>3
    <3> QED BY <1>5, <3>1
  <2>2. buffer' = [k \in Index |-> buffer'[k]] BY <1>1, <1>2 DEF Folding
  <2> QED BY <2>1, <2>2
<1>7. CASE i + 1 = T
  <2>1. pc' = "mix" /\ i' = 0 /\ j' = 0 BY <1>1, <1>3, <1>7
  <2>2. AllAreFolded'
    <3>1. T - 1 = i BY <1>3, <1>7
    <3> QED BY <1>1, <1>2, <1>3, <1>5, <3>1 DEF AllAreFolded, Folded
  <2>4. MixTypes'
    <3>1. buffer' \in [Index -> SUBSET InputBytes'] BY <1>3, <1>6
    <3>2. i' \in Nat /\ j' \in Index /\ mlen' \in Nat BY <1>1, <1>2, <2>1 DEF Index
    <3> QED BY <3>1, <3>2 DEF MixTypes
  <2>5. Mixing' BY <2>1, <2>2, <2>4 DEF Mixing
  <2> QED BY <1>1, <1>2, <2>1, <2>5, NotYetSeededNext DEF SeedInv
<1>8. CASE i + 1 # T
  <2>1. pc' = "fold" /\ i' = i + 1 BY <1>1, <1>3, <1>8
  <2>2. i' \in 0 .. T - 1 /\ (i + 1) - 1 = i BY <1>3, <1>8, <2>1
  <2>3. Folded(i)' BY <1>5, <2>1, <2>2 DEF Folded
  <2>4. Folding' BY <1>1, <1>3, <1>6, <2>2, <2>3 DEF Folding
  <2> QED BY <1>1, <1>2, <2>1, <2>4, NotYetSeededNext DEF SeedInv
<1> QED BY <1>7, <1>8

(* Where a mixing step reads, and where the step before it read and wrote. *)
LEMMA Around ==
  ASSUME NEW x \in Index
  PROVE  /\ (x + 1) % 64 \in Index \ {x} /\ (x + 7) % 64 \in Index \ {x}
         /\ (x + 13) % 64 \in Index \ {x} /\ (x + 63) % 64 \in Index \ {x}
         /\ (x + 6) % 64 \in Index /\ (x + 12) % 64 \in Index
         /\ (x + 6) % 64 # x /\ (x + 12) % 64 # x
         /\ (((x + 1) % 64) + 63) % 64 = x
         /\ (((x + 1) % 64) + 6) % 64 = (x + 7) % 64
         /\ (((x + 1) % 64) + 12) % 64 = (x + 13) % 64
         /\ (x + 1) % 64 = 0 => x = 63
  BY SMTT(60) DEF Index

(* What is odd in the one place that is to be overwritten is odd in some   *)
(* other, since the step before has made one of it.                        *)
LEMMA AlsoElsewhere ==
  ASSUME LastStep, j \in Index, NEW S, IsFiniteSet(S), Derandomize!Odd(buffer[j], S)
  PROVE  \E k \in Index : k # j /\ Derandomize!Odd(buffer[k], S)
<1> SUFFICES ASSUME \A k \in Index : k # j => ~Derandomize!Odd(buffer[k], S) PROVE FALSE
  OBVIOUS
<1>1. /\ (j + 63) % 64 \in Index \ {j} /\ (j + 6) % 64 \in Index \ {j} /\ (j + 12) % 64 \in Index \ {j}
  BY Around
<1>2. /\ ~Derandomize!Odd(buffer[(j + 63) % 64], S) /\ ~Derandomize!Odd(buffer[(j + 6) % 64], S)
      /\ ~Derandomize!Odd(buffer[(j + 12) % 64], S)
  BY <1>1
<1>3. Derandomize!Odd(Xor3(buffer[j], buffer[(j + 6) % 64], buffer[(j + 12) % 64]), S)
  BY <1>2, OddXor3
<1> QED BY <1>2, <1>3 DEF LastStep

LEMMA SeedMix == SeedInv /\ Derandomize!Mix => SeedInv'
<1> SUFFICES ASSUME SeedInv, Derandomize!Mix PROVE SeedInv'
  OBVIOUS
<1> DEFINE new == Xor3(buffer[(j + 1) % 64], buffer[(j + 7) % 64], buffer[(j + 13) % 64])
<1>1. /\ pc = "mix" /\ UNCHANGED <<mlen, combined, seed>>
      /\ buffer' = [buffer EXCEPT ![j] = new]
      /\ j' = (j + 1) % 64
      /\ i' = (IF j = 63 THEN i + 1 ELSE i)
      /\ pc' = IF j = 63 /\ i = 9 THEN "copy" ELSE "mix"
  BY DEF Derandomize!Mix, Xor3
<1>2. Mixing BY <1>1 DEF SeedInv
<1>3. MixTypes BY <1>2 DEF Mixing
<1>4. /\ buffer \in [Index -> SUBSET InputBytes] /\ i \in Nat /\ j \in Index /\ mlen \in Nat
  BY <1>3 DEF MixTypes
<1>5. InputBytes' = InputBytes BY <1>1 DEF InputBytes, Derandomize!combined_len
<1>6. /\ (j + 1) % 64 \in Index \ {j} /\ (j + 7) % 64 \in Index \ {j} /\ (j + 13) % 64 \in Index \ {j}
  BY <1>4, Around
<1>7. new \subseteq InputBytes
  <2>1. /\ buffer[(j + 1) % 64] \subseteq InputBytes /\ buffer[(j + 7) % 64] \subseteq InputBytes
        /\ buffer[(j + 13) % 64] \subseteq InputBytes
    BY <1>4, <1>6
  <2> QED BY <2>1 DEF Xor3, Derandomize!Xor
<1>8. \A S : IsFiniteSet(S) =>
        (Derandomize!Odd(new, S) <=>
           (Derandomize!Odd(buffer[(j + 1) % 64], S) <=>
              (Derandomize!Odd(buffer[(j + 7) % 64], S) <=> Derandomize!Odd(buffer[(j + 13) % 64], S))))
  BY OddXor3
<1> HIDE DEF new
<1>9. buffer'[j] = new /\ \A k \in Index : k # j => buffer'[k] = buffer[k] BY <1>1, <1>4
<1>10. MixTypes'
  <2>1. buffer' \in [Index -> SUBSET InputBytes'] BY <1>1, <1>4, <1>5, <1>7
  <2>2. i' \in Nat /\ mlen' \in Nat BY <1>1, <1>4
  <2>3. j' \in Index BY <1>1, <1>6
  <2> QED BY <2>1, <2>2, <2>3 DEF MixTypes
<1>11. \A S : Differs(S)' <=> Differs(S)
  BY <1>1 DEF Differs, Derandomize!Column, Derandomize!combined_len
<1>12. ColumnsKept'
  <2> SUFFICES ASSUME NEW S, S \subseteq Nat, IsFiniteSet(S)
               PROVE  (\E k \in Index : Derandomize!Odd(buffer'[k], S)) <=> Differs(S)
    BY <1>11 DEF ColumnsKept, Seen, Derandomize!Odd
  <2>1. \A k \in Index : k # j => (Derandomize!Odd(buffer'[k], S) <=> Derandomize!Odd(buffer[k], S))
    BY <1>9
  <2>2. Derandomize!Odd(buffer'[j], S) => \E k \in Index : k # j /\ Derandomize!Odd(buffer[k], S)
    <3>1. Derandomize!Odd(buffer'[j], S) <=>
            (Derandomize!Odd(buffer[(j + 1) % 64], S) <=>
               (Derandomize!Odd(buffer[(j + 7) % 64], S) <=> Derandomize!Odd(buffer[(j + 13) % 64], S)))
      BY <1>8, <1>9
    <3> QED BY <1>6, <3>1
  <2>3. (\E k \in Index : Derandomize!Odd(buffer'[k], S)) <=>
          (\E k \in Index : k # j /\ Derandomize!Odd(buffer[k], S))
    BY <2>1, <2>2
  <2>4. CASE i = 0 /\ j = 0
    <3>1. \A k \in Index : buffer[k] = Derandomize!Column(k)
      BY <1>2, <2>4, AllFolded DEF Mixing
    <3> QED BY <2>3, <2>4, <3>1 DEF Differs
  <2>5. CASE ~(i = 0 /\ j = 0)
    <3>1. LastStep /\ (Seen(S) <=> Differs(S)) BY <1>2, <2>5 DEF Mixing, ColumnsKept
    <3>2. Seen(S) <=> \E k \in Index : k # j /\ Derandomize!Odd(buffer[k], S)
      BY <1>4, <3>1, AlsoElsewhere DEF Seen
    <3> QED BY <2>3, <3>1, <3>2
  <2> QED BY <2>4, <2>5
<1>13. LastStep'
  <2>1. /\ (j' + 63) % 64 = j /\ j' = (j + 1) % 64 /\ (j' + 6) % 64 = (j + 7) % 64
        /\ (j' + 12) % 64 = (j + 13) % 64
    BY <1>1, <1>4, Around
  <2>2. buffer'[j] = Xor3(buffer'[(j + 1) % 64], buffer'[(j + 7) % 64], buffer'[(j + 13) % 64])
    BY <1>6, <1>9 DEF new
  <2>3. buffer'[(j' + 63) % 64] = Xor3(buffer'[j'], buffer'[(j' + 6) % 64], buffer'[(j' + 12) % 64])
    BY <2>1, <2>2
  <2> QED BY <2>3 DEF LastStep, Xor3, Derandomize!Xor
<1>14. ~(i' = 0 /\ j' = 0) BY <1>1, <1>4, Around
<1>15. Mixing' BY <1>10, <1>12, <1>13, <1>14 DEF Mixing
<1> QED BY <1>1, <1>4, <1>12, <1>15, NotYetSeededNext DEF SeedInv

LEMMA SeedCopy ==
  ASSUME Derandomize!ChangesAssumption
  PROVE  SeedInv /\ Derandomize!Copy => SeedInv'
<1> SUFFICES ASSUME SeedInv, Derandomize!Copy PROVE SeedInv'
  OBVIOUS
<1>1. /\ pc = "copy" /\ pc' = "done" /\ seed' = buffer /\ combined' = "wiped"
      /\ UNCHANGED <<mlen, buffer, i, j>>
  BY DEF Derandomize!Copy
<1>2. mlen \in Nat /\ ColumnsKept BY <1>1 DEF SeedInv
<1>3. \A S : S \subseteq Nat /\ IsFiniteSet(S) =>
        ((\E k \in Index : Derandomize!Odd(seed'[k], S)) <=> Differs(S))
  BY <1>1, <1>2 DEF ColumnsKept, Seen
<1>4. Derandomize!ColumnsDecideTheSeed'
  <2>1. \A c : Derandomize!Column(c)' = Derandomize!Column(c)
    BY <1>1 DEF Derandomize!Column, Derandomize!combined_len
  <2>2. Derandomize!Index = Index BY DEF Derandomize!Index, Index
  <2>3. ASSUME NEW S \in Changes
        PROVE  (\E k \in Index : Derandomize!Odd(seed'[k], S)) <=>
                 (\E c \in Index \ {0} : Derandomize!Odd(Derandomize!Column(c), S))
    BY <1>3, Zenon DEF Derandomize!ChangesAssumption, Differs, Derandomize!IsFiniteSet, IsFiniteSet
  <2>4. ASSUME NEW S \in Changes
        PROVE  (\E k \in Index : Derandomize!Odd(seed'[k], S)) <=>
                 (\E c \in Index \ {0} : Derandomize!Odd(Derandomize!Column(c)', S))
    <3>1. \A c : Derandomize!Odd(Derandomize!Column(c)', S) <=> Derandomize!Odd(Derandomize!Column(c), S)
      BY <2>1, Zenon DEF Derandomize!Odd
    <3> QED BY <2>3, <3>1, Zenon
  <2> QED BY <2>2, <2>4, Zenon DEF Derandomize!ColumnsDecideTheSeed, Derandomize!Odd
<1>5. \E k \in Index : seed'[k] # {}
  <2>1. {1} \subseteq Nat /\ IsFiniteSet({1}) /\ Cardinality({1}) % 2 = 1 /\ Cardinality({}) % 2 # 1
    <3>1. IsFiniteSet({1}) /\ Cardinality({1}) = 1 BY FS_Singleton, Zenon
    <3>2. Cardinality({}) = 0 BY FS_EmptySet, Zenon
    <3> QED BY <3>1, <3>2
  <2>2. Differs({1})
    <3>1. 1 \in Derandomize!Column(1) BY <1>2, Length DEF Derandomize!Column
    <3>2. Derandomize!Column(1) \cap {1} = {1} BY <3>1
    <3>3. Derandomize!Odd(Derandomize!Column(1), {1}) BY <2>1, <3>2, OddIs
    <3> QED BY <3>3 DEF Differs, Index
  <2>3. PICK k \in Index : Derandomize!Odd(seed'[k], {1}) BY <1>3, <2>1, <2>2
  <2>4. {} \cap {1} = {} OBVIOUS
  <2> QED BY <2>1, <2>3, <2>4, OddIs
<1>6. (Derandomize!KeyCopyIsWiped /\ Derandomize!ConstantWithoutMemory)'
  BY <1>1, <1>5 DEF Derandomize!KeyCopyIsWiped, Derandomize!ConstantWithoutMemory, Derandomize!Index, Index
<1>7. Derandomize!SeedIsTheColumns' BY <1>4, <1>6 DEF Derandomize!SeedIsTheColumns
<1> QED BY <1>1, <1>2, <1>7 DEF SeedInv

(* For a message of any length and any two calls: the seeds differ exactly *)
(* if the inputs do in a column that the first step of the mixing does not *)
(* drop, so each later step can be undone although it reads what has just  *)
(* been written; the seed is constant exactly if there was no memory; the  *)
(* copy of the key is wiped (slh_dsa/utils.c:97-126).                      *)
THEOREM SeedFollowsTheColumns ==
  ASSUME Derandomize!LengthsAssumption, Derandomize!ChangesAssumption
  PROVE  Derandomize!Spec => []Derandomize!SeedIsTheColumns
<1>1. Derandomize!Init => SeedInv BY SeedInit
<1>2. SeedInv /\ UNCHANGED Derandomize!vars => SeedInv'
  <2> SUFFICES ASSUME SeedInv, UNCHANGED Derandomize!vars PROVE SeedInv'
    OBVIOUS
  <2>1. UNCHANGED <<mlen, pc, combined, buffer, i, j, seed>> BY DEF Derandomize!vars
  <2>2. InputBytes' = InputBytes /\ Derandomize!combined_len' = Derandomize!combined_len
    BY <2>1 DEF InputBytes, Derandomize!combined_len
  <2>3. ColumnsKept => ColumnsKept'
    BY <2>1, <2>2 DEF ColumnsKept, Seen, Differs, Derandomize!Odd, Derandomize!Column
  <2>4. (AllAreFolded => AllAreFolded') /\ (LastStep => LastStep')
    BY <2>1, <2>2 DEF AllAreFolded, Folded, LastStep, Xor3, Derandomize!Xor
  <2>5. (Folding => Folding') /\ (MixTypes => MixTypes')
    BY <2>1, <2>2 DEF Folding, Folded, MixTypes
  <2>6. Mixing => Mixing' BY <2>1, <2>3, <2>4, <2>5 DEF Mixing
  <2>7. Derandomize!SeedIsTheColumns => Derandomize!SeedIsTheColumns'
    BY <2>1, <2>2 DEF Derandomize!SeedIsTheColumns, Derandomize!ColumnsDecideTheSeed,
      Derandomize!KeyCopyIsWiped, Derandomize!ConstantWithoutMemory, Derandomize!Seeded,
      Derandomize!Column, Derandomize!Odd, Derandomize!Index
  <2> QED BY <2>1, <2>3, <2>5, <2>6, <2>7 DEF SeedInv
<1>3. SeedInv /\ [Derandomize!Next]_(Derandomize!vars) => SeedInv'
  BY <1>2, SeedAlloc, SeedFold, SeedMix, SeedCopy DEF Derandomize!Next, Derandomize!slh_dsa_derandomize
<1>4. SeedInv => Derandomize!SeedIsTheColumns BY DEF SeedInv
<1> QED BY <1>1, <1>3, <1>4, PTL DEF Derandomize!Spec
-----------------------------------------------------------------------------
(* The addresses.  The functions of address.c on bytes do what Addresses   *)
(* promises, for every parameter set and every value that fits a field:    *)
(* the offsets place the fields beside each other in the bytes that are    *)
(* hashed (Placed), a number written into its bytes is read back from them *)
(* (WordBytes), and what is written leaves the other fields alone (Beside, *)
(* Outside).  The second address is called `to` here.                      *)
CONSTANT Sets
VARIABLES p, in, to, call

Address == INSTANCE SphincsAddress WITH out <- to

(* The fields lie one behind the other, without touching, in the bytes     *)
(* that are hashed.                                                        *)
Placed(q) ==
  /\ q.layer \in Nat /\ q.tree \in Nat /\ q.type \in Nat /\ q.keypair \in Nat
  /\ q.height \in Nat /\ q.index \in Nat
  /\ q.layer < q.tree /\ q.tree + 7 < q.type /\ q.type < q.keypair /\ q.keypair + 3 < q.height
  /\ q.height < q.index /\ q.index + 3 < Address!Hashed(q)
  /\ Address!Hashed(q) \in {22, 32}
  /\ q.chain = q.height /\ q.hash = q.index + 3

Held(q) ==
  {q.layer} \cup q.tree .. q.tree + 7 \cup {q.type} \cup q.keypair .. q.keypair + 3
    \cup {q.height} \cup q.index .. q.index + 3

Legal(q, addr) ==
  /\ addr \in [0 .. 31 -> 0 .. 255]
  /\ \A b \in 0 .. 31 : b \notin Held(q) => addr[b] = 0

(* What every parameter set is. *)
Sizes(n, height, d, forsHeight, forsTrees) ==
  \/ n = 16 /\ height = 66 /\ d = 22 /\ forsHeight = 6 /\ forsTrees = 33
  \/ n = 16 /\ height = 63 /\ d = 7 /\ forsHeight = 12 /\ forsTrees = 14
  \/ n = 24 /\ height = 66 /\ d = 22 /\ forsHeight = 8 /\ forsTrees = 33
  \/ n = 24 /\ height = 63 /\ d = 7 /\ forsHeight = 14 /\ forsTrees = 17
  \/ n = 32 /\ height = 68 /\ d = 17 /\ forsHeight = 9 /\ forsTrees = 35
  \/ n = 32 /\ height = 64 /\ d = 8 /\ forsHeight = 14 /\ forsTrees = 22

Fits(s) ==
  /\ Placed(s.offsets)
  /\ s.D \in 1 .. 256 /\ s.WOTS_W = 16 /\ s.WOTS_LEN \in 1 .. 256
  /\ s.TREE_HEIGHT \in {3, 4, 8, 9} /\ s.FORS_HEIGHT \in {6, 8, 9, 12, 14} /\ s.FORS_TREES \in 1 .. 35
  /\ s.TREE_HEIGHT * (s.D - 1) \in 0 .. 64
  /\ s.TREE_HEIGHT * s.D = s.FULL_HEIGHT

LEMMA OffsetsPlaced ==
  Placed(Address!sha2_offsets) /\ Placed(Address!shake_offsets) /\ Placed(Address!haraka_offsets)
BY DEF Placed, Address!sha2_offsets, Address!shake_offsets, Address!haraka_offsets,
       Address!LayoutOf, Address!Hashed

LEMMA HeaderFits ==
  ASSUME NEW n, NEW height, NEW d, NEW forsHeight, NEW forsTrees, NEW offs,
         Sizes(n, height, d, forsHeight, forsTrees), Placed(offs),
         NEW s, s = Address!Header(n, height, d, forsHeight, forsTrees, 16, offs)
  PROVE  /\ Fits(s)
         /\ s.WOTS_LEN1 \in {32, 48, 64} /\ s.WOTS_LEN2 = 3
<1>1. /\ s.offsets = offs /\ s.D = d /\ s.WOTS_W = 16 /\ s.FORS_HEIGHT = forsHeight /\ s.FORS_TREES = forsTrees
      /\ s.FULL_HEIGHT = height /\ s.TREE_HEIGHT = height \div d
      /\ s.WOTS_LEN1 = (8 * n) \div 4 /\ s.WOTS_LEN2 = Address!LEN2(n, 16)
      /\ s.WOTS_LEN = (8 * n) \div 4 + Address!LEN2(n, 16)
  BY DEF Address!Header, Address!LOGW
<1>2. n \in {16, 24, 32} /\ Address!LEN2(n, 16) = 3  BY DEF Sizes, Address!LEN2
<1>3. (8 * n) \div 4 \in {32, 48, 64}  BY <1>2
<1>4. /\ d \in 1 .. 256 /\ height \div d \in {3, 4, 8, 9} /\ forsHeight \in {6, 8, 9, 12, 14}
      /\ forsTrees \in 1 .. 35
      /\ (height \div d) * d = height /\ (height \div d) * (d - 1) \in 0 .. 64
  BY DEF Sizes
<1>5. s.TREE_HEIGHT * s.D = s.FULL_HEIGHT /\ s.TREE_HEIGHT * (s.D - 1) \in 0 .. 64
  BY <1>1, <1>4, Zenon
<1>6. s.WOTS_LEN \in 1 .. 256 /\ s.WOTS_LEN1 \in {32, 48, 64} /\ s.WOTS_LEN2 = 3
  BY <1>1, <1>2, <1>3
<1> QED BY <1>1, <1>4, <1>5, <1>6 DEF Fits

LEMMA SetIsHeader ==
  ASSUME NEW s \in Address!ParameterSets
  PROVE  \E n, height, d, forsHeight, forsTrees, offs :
           /\ Sizes(n, height, d, forsHeight, forsTrees) /\ Placed(offs)
           /\ s = Address!Header(n, height, d, forsHeight, forsTrees, 16, offs)
<1> DEFINE Made(offs) ==
      \/ s = Address!Header(16, 66, 22, 6, 33, 16, offs)
      \/ s = Address!Header(16, 63, 7, 12, 14, 16, offs)
      \/ s = Address!Header(24, 66, 22, 8, 33, 16, offs)
      \/ s = Address!Header(24, 63, 7, 14, 17, 16, offs)
      \/ s = Address!Header(32, 68, 17, 9, 35, 16, offs)
      \/ s = Address!Header(32, 64, 8, 14, 22, 16, offs)
<1>1. Made(Address!haraka_offsets) \/ Made(Address!sha2_offsets) \/ Made(Address!shake_offsets)
  BY DEF Address!ParameterSets,
       Address!haraka_128f, Address!haraka_128s, Address!haraka_192f,
       Address!haraka_192s, Address!haraka_256f, Address!haraka_256s,
       Address!sha2_128f, Address!sha2_128s, Address!sha2_192f,
       Address!sha2_192s, Address!sha2_256f, Address!sha2_256s,
       Address!shake_128f, Address!shake_128s, Address!shake_192f,
       Address!shake_192s, Address!shake_256f, Address!shake_256s
<1>2. \A offs : Made(offs) => \E n, height, d, forsHeight, forsTrees :
        /\ Sizes(n, height, d, forsHeight, forsTrees)
        /\ s = Address!Header(n, height, d, forsHeight, forsTrees, 16, offs)
  BY DEF Sizes
<1> HIDE DEF Made
<1> QED BY <1>1, <1>2, OffsetsPlaced

LEMMA SetsFit ==
  ASSUME NEW s \in Address!ParameterSets
  PROVE  Fits(s) /\ s.WOTS_LEN1 \in {32, 48, 64} /\ s.WOTS_LEN2 = 3
BY SetIsHeader, HeaderFits
(* What is put where, byte by byte. *)
LEMMA PutAs ==
  ASSUME NEW addr, NEW off, NEW bytes
  PROVE  Address!Put(addr, off, bytes) =
           [b \in 0 .. 31 |-> IF b \in off .. off + Len(bytes) - 1 THEN bytes[b - off + 1] ELSE addr[b]]
<1>1. 0 .. Address!Width - 1 = 0 .. 31  BY DEF Address!Width
<1> QED BY <1>1, Zenon DEF Address!Put

LEMMA PutByte ==
  ASSUME NEW addr, NEW off \in Nat, NEW x
  PROVE  Address!Put(addr, off, <<x>>) = [b \in 0 .. 31 |-> IF b = off THEN x ELSE addr[b]]
<1>1. Len(<<x>>) = 1 /\ <<x>>[1] = x  OBVIOUS
<1>2. \A b \in 0 .. 31 : b \in off .. off + 1 - 1 <=> b = off  OBVIOUS
<1> QED BY <1>1, <1>2 DEF Address!Put, Address!Width

WordByte(x, k) ==
  IF k = 0 THEN (x \div 16777216) % 256 ELSE IF k = 1 THEN (x \div 65536) % 256
  ELSE IF k = 2 THEN (x \div 256) % 256 ELSE x % 256

HasWord(new, addr, off, x) ==
  new = [b \in 0 .. 31 |-> IF b \in off .. off + 3 THEN WordByte(x, b - off) ELSE addr[b]]
HasTree(new, addr, off, x) ==
  new = [b \in 0 .. 31 |-> IF b \in off .. off + 7 THEN x[b - off + 1] ELSE addr[b]]

LEMMA PutWord ==
  ASSUME NEW addr, NEW off \in Nat, NEW x \in Nat
  PROVE  HasWord(Address!Put(addr, off, Address!u32_to_bytes(x)), addr, off, x)
<1> DEFINE w == Address!u32_to_bytes(x)
<1>1. 2 ^ 24 = 16777216 /\ 2 ^ 16 = 65536 /\ 2 ^ 8 = 256  BY SMT
<1>2. w = <<(x \div 16777216) % 256, (x \div 65536) % 256, (x \div 256) % 256, x % 256>>
  BY <1>1, SMT DEF Address!u32_to_bytes
<1> HIDE DEF w
<1>3. Len(w) = 4 /\ \A k \in 0 .. 3 : w[k + 1] = WordByte(x, k)  BY <1>2, SMT DEF WordByte
<1>4. \A b \in 0 .. 31 : b \in off .. off + 4 - 1 <=> b \in off .. off + 3  OBVIOUS
<1>5. \A b \in 0 .. 31 : b \in off .. off + 3 => w[b - off + 1] = WordByte(x, b - off)  BY <1>3
<1>6. Address!Put(addr, off, w) =
        [b \in 0 .. 31 |-> IF b \in off .. off + 3 THEN WordByte(x, b - off) ELSE addr[b]]
  BY <1>3, <1>4, <1>5 DEF Address!Put, Address!Width
<1> QED BY <1>6, Zenon DEF HasWord, w

LEMMA PutTree ==
  ASSUME NEW addr, NEW off \in Nat, NEW x \in [1 .. 8 -> 0 .. 255]
  PROVE  HasTree(Address!Put(addr, off, Address!ull_to_bytes(8, x)), addr, off, x)
<1>1. x \in Seq(0 .. 255) /\ Len(x) = 8
  <2> DEFINE S == 0 .. 255
  <2> HIDE DEF S
  <2>1. x \in [1 .. 8 -> S] /\ 8 \in Nat  BY DEF S
  <2>2. [1 .. 8 -> S] \in {[1 .. n -> S] : n \in Nat}  BY <2>1
  <2>3. x \in UNION {[1 .. n -> S] : n \in Nat}  BY <2>1, <2>2
  <2>4. x \in Seq(S)  BY <2>3, SeqDef
  <2>5. Len(x) = 8
    <3>1. Len(x) \in Nat /\ DOMAIN x = 1 .. Len(x) /\ DOMAIN x = 1 .. 8  BY <2>1, <2>4, LenProperties
    <3> QED BY <3>1
  <2> QED BY <2>4, <2>5 DEF S
<1>2. Address!ull_to_bytes(8, x) = x  BY <1>1 DEF Address!ull_to_bytes
<1>3. \A b \in 0 .. 31 : b \in off .. off + 8 - 1 <=> b \in off .. off + 7  OBVIOUS
<1>4. Address!Put(addr, off, x) = [b \in 0 .. 31 |-> IF b \in off .. off + 8 - 1 THEN x[b - off + 1] ELSE addr[b]]
  <2>1. Address!Put(addr, off, x) =
          [b \in 0 .. 31 |-> IF b \in off .. off + Len(x) - 1 THEN x[b - off + 1] ELSE addr[b]]
    BY PutAs
  <2> QED BY <1>1, <2>1, Zenon
<1>5. Address!Put(addr, off, x) =
        [b \in 0 .. 31 |-> IF b \in off .. off + 7 THEN x[b - off + 1] ELSE addr[b]]
  BY <1>3, <1>4
<1> QED BY <1>2, <1>5, Zenon DEF HasTree

Is32(x) == x \in Nat /\ x < 16777216 * 256

LEMMA WordBytes ==
  ASSUME NEW x, Is32(x)
  PROVE  /\ \A k \in 0 .. 3 : WordByte(x, k) \in 0 .. 255
         /\ ((WordByte(x, 0) * 256 + WordByte(x, 1)) * 256 + WordByte(x, 2)) * 256 + WordByte(x, 3) = x
<1> DEFINE x1 == x \div 256
           x2 == x1 \div 256
           x3 == x2 \div 256
<1>1. x \in Nat /\ x1 \in Nat /\ x2 \in Nat /\ x3 \in 0 .. 255  BY SMT DEF Is32
<1>2. x = (256 * x1) + (x % 256) /\ x1 = (256 * x2) + (x1 % 256) /\ x2 = (256 * x3) + (x2 % 256) /\ x3 % 256 = x3
      /\ x % 256 \in 0 .. 255 /\ x1 % 256 \in 0 .. 255 /\ x2 % 256 \in 0 .. 255
  BY <1>1, SMT
<1>3. x \div 65536 = x2 /\ x \div 16777216 = x3  BY <1>1, SMT
<1>4. WordByte(x, 0) = x3 /\ WordByte(x, 1) = x2 % 256 /\ WordByte(x, 2) = x1 % 256 /\ WordByte(x, 3) = x % 256
  BY <1>2, <1>3, SMT DEF WordByte
<1> HIDE DEF x1, x2, x3
<1>5. \A k \in 0 .. 3 : k = 0 \/ k = 1 \/ k = 2 \/ k = 3  BY SMT
<1>6. \A k \in 0 .. 3 : WordByte(x, k) \in 0 .. 255
  <2>1. x3 \in 0 .. 255 /\ x2 % 256 \in 0 .. 255 /\ x1 % 256 \in 0 .. 255 /\ x % 256 \in 0 .. 255  BY <1>1, <1>2
  <2>2. /\ WordByte(x, 0) \in 0 .. 255 /\ WordByte(x, 1) \in 0 .. 255
        /\ WordByte(x, 2) \in 0 .. 255 /\ WordByte(x, 3) \in 0 .. 255
    BY <1>4, <2>1
  <2> QED BY <1>5, <2>2
<1>7. ((x3 * 256 + (x2 % 256)) * 256 + (x1 % 256)) * 256 + (x % 256) = x  BY <1>1, <1>2, SMT
<1> QED BY <1>4, <1>6, <1>7, SMT

(* The fields of an address, one after the other. *)
Record(layer, place, type, keypair, height, index) ==
  [layer |-> layer, tree |-> place, type |-> type, keypair |-> keypair, height |-> height, index |-> index]
TreeOf(q, addr) == [k \in 1 .. 8 |-> addr[q.tree + k - 1]]
KeypairOf(q, addr) == Address!Word(addr, q.keypair)
IndexOf(q, addr) == Address!Word(addr, q.index)

LEMMA FieldsAre ==
  ASSUME NEW q, NEW addr
  PROVE  Address!Fields(q, addr) =
           Record(addr[q.layer], TreeOf(q, addr), addr[q.type], KeypairOf(q, addr), addr[q.height], IndexOf(q, addr))
BY DEF Address!Fields, Record, TreeOf, KeypairOf, IndexOf

(* A word with another last byte. *)
WithLast(index, x) == (index - (index % 256)) + x

LEMMA RecordSet ==
  ASSUME NEW layer, NEW place, NEW type, NEW keypair, NEW height, NEW index, NEW x,
         NEW r, r = Record(layer, place, type, keypair, height, index)
  PROVE  /\ Address!F!set_layer_addr(r, x) = Record(x, place, type, keypair, height, index)
         /\ Address!F!set_tree_addr(r, x) = Record(layer, x, type, keypair, height, index)
         /\ Address!F!set_type(r, x) = Record(layer, place, x, keypair, height, index)
         /\ Address!F!set_keypair_addr(r, x) = Record(layer, place, type, x, height, index)
         /\ Address!F!set_chain_addr(r, x) = Record(layer, place, type, keypair, x, index)
         /\ Address!F!set_hash_addr(r, x) = Record(layer, place, type, keypair, height, WithLast(index, x))
         /\ Address!F!set_tree_height(r, x) = Record(layer, place, type, keypair, x, index)
         /\ Address!F!set_tree_index(r, x) = Record(layer, place, type, keypair, height, x)
<1>1. Address!F!set_layer_addr(r, x) = Record(x, place, type, keypair, height, index)
  BY DEF Record, Address!F!set_layer_addr
<1>2. Address!F!set_tree_addr(r, x) = Record(layer, x, type, keypair, height, index)
  BY DEF Record, Address!F!set_tree_addr
<1>3. Address!F!set_type(r, x) = Record(layer, place, x, keypair, height, index)
  BY DEF Record, Address!F!set_type
<1>4. Address!F!set_keypair_addr(r, x) = Record(layer, place, type, x, height, index)
  BY DEF Record, Address!F!set_keypair_addr
<1>5. Address!F!set_chain_addr(r, x) = Record(layer, place, type, keypair, x, index)
  BY DEF Record, Address!F!set_chain_addr
<1>6. Address!F!set_hash_addr(r, x) = Record(layer, place, type, keypair, height, WithLast(index, x))
  BY DEF Record, WithLast, Address!F!set_hash_addr
<1>7. Address!F!set_tree_height(r, x) = Record(layer, place, type, keypair, x, index)
  BY DEF Record, Address!F!set_tree_height
<1>8. Address!F!set_tree_index(r, x) = Record(layer, place, type, keypair, height, x)
  BY DEF Record, Address!F!set_tree_index
<1> QED BY <1>1, <1>2, <1>3, <1>4, <1>5, <1>6, <1>7, <1>8

LEMMA RecordCopy ==
  ASSUME NEW layer, NEW place, NEW type, NEW keypair, NEW height, NEW index,
         NEW r, r = Record(layer, place, type, keypair, height, index),
         NEW layer2, NEW place2, NEW type2, NEW keypair2, NEW height2, NEW index2,
         NEW r2, r2 = Record(layer2, place2, type2, keypair2, height2, index2)
  PROVE  /\ Address!F!copy_subtree_addr(r, r2) = Record(layer2, place2, type, keypair, height, index)
         /\ Address!F!copy_keypair_addr(r, r2) = Record(layer2, place2, type, keypair2, height, index)
<1>1. Address!F!copy_subtree_addr(r, r2) = Record(layer2, place2, type, keypair, height, index)
  <2>1. r2.layer = layer2 /\ r2.tree = place2  BY DEF Record
  <2>2. Address!F!copy_subtree_addr(r, r2) = [[r EXCEPT !.layer = r2.layer] EXCEPT !.tree = r2.tree]
    BY Zenon DEF Address!F!copy_subtree_addr
  <2>3. [r EXCEPT !.layer = layer2] = Record(layer2, place, type, keypair, height, index)  BY DEF Record
  <2>4. [Record(layer2, place, type, keypair, height, index) EXCEPT !.tree = place2] =
          Record(layer2, place2, type, keypair, height, index)
    BY DEF Record
  <2> QED BY <2>1, <2>2, <2>3, <2>4, Zenon
<1>2. Address!F!copy_keypair_addr(r, r2) = Record(layer2, place2, type, keypair2, height, index)
  <2>1. r2.keypair = keypair2  BY DEF Record
  <2>2. [Record(layer2, place2, type, keypair, height, index) EXCEPT !.keypair = keypair2] =
          Record(layer2, place2, type, keypair2, height, index)
    BY DEF Record
  <2> QED BY <1>1, <2>1, <2>2, Zenon DEF Address!F!copy_keypair_addr
<1> QED BY <1>1, <1>2

(* Fields outside lo .. hi are what they were. *)
Outside(new, addr, lo, hi) == \A b \in 0 .. 31 : b < lo \/ b > hi => new[b] = addr[b]

LEMMA Elsewhere ==
  ASSUME NEW q, Placed(q), NEW addr, NEW new, NEW lo \in Nat, NEW hi \in Nat, Outside(new, addr, lo, hi)
  PROVE  /\ q.layer < lo \/ q.layer > hi => new[q.layer] = addr[q.layer]
         /\ q.tree + 7 < lo \/ q.tree > hi => TreeOf(q, new) = TreeOf(q, addr)
         /\ q.type < lo \/ q.type > hi => new[q.type] = addr[q.type]
         /\ q.keypair + 3 < lo \/ q.keypair > hi => KeypairOf(q, new) = KeypairOf(q, addr)
         /\ q.height < lo \/ q.height > hi => new[q.height] = addr[q.height]
         /\ q.index + 3 < lo \/ q.index > hi => IndexOf(q, new) = IndexOf(q, addr)
<1>1. /\ q.layer \in Nat /\ q.tree \in Nat /\ q.type \in Nat /\ q.keypair \in Nat
      /\ q.height \in Nat /\ q.index \in Nat /\ q.index + 3 < 32
      /\ q.layer < q.tree /\ q.tree + 7 < q.type /\ q.type < q.keypair /\ q.keypair + 3 < q.height
      /\ q.height < q.index
  BY DEF Placed
<1>2. /\ q.layer < lo \/ q.layer > hi => new[q.layer] = addr[q.layer]
      /\ q.type < lo \/ q.type > hi => new[q.type] = addr[q.type]
      /\ q.height < lo \/ q.height > hi => new[q.height] = addr[q.height]
  BY <1>1 DEF Outside
<1>3. q.tree + 7 < lo \/ q.tree > hi => TreeOf(q, new) = TreeOf(q, addr)
  <2> HAVE q.tree + 7 < lo \/ q.tree > hi
  <2>1. \A k \in 1 .. 8 : new[q.tree + k - 1] = addr[q.tree + k - 1]
    <3> TAKE k \in 1 .. 8
    <3>1. q.tree + k - 1 \in 0 .. 31 /\ (q.tree + k - 1 < lo \/ q.tree + k - 1 > hi)  BY <1>1
    <3> QED BY <3>1 DEF Outside
  <2> QED BY <2>1 DEF TreeOf
<1>4. ASSUME NEW o \in Nat, o + 3 < 32, o + 3 < lo \/ o > hi
      PROVE  Address!Word(new, o) = Address!Word(addr, o)
  <2>2. new[o] = addr[o] /\ new[o + 1] = addr[o + 1] /\ new[o + 2] = addr[o + 2] /\ new[o + 3] = addr[o + 3]
    <3>1. \A b \in o .. o + 3 : new[b] = addr[b]  BY <1>4 DEF Outside
    <3> QED BY <3>1
  <2> QED BY <2>2, Zenon DEF Address!Word
<1> QED BY <1>1, <1>2, <1>3, <1>4 DEF KeypairOf, IndexOf

(* A write to one field leaves the others. *)
LEMMA Beside ==
  ASSUME NEW q, Placed(q), NEW addr, NEW new
  PROVE  /\ Outside(new, addr, q.layer, q.layer) =>
             /\ TreeOf(q, new) = TreeOf(q, addr) /\ new[q.type] = addr[q.type] /\ KeypairOf(q, new) = KeypairOf(q, addr)
             /\ new[q.height] = addr[q.height] /\ IndexOf(q, new) = IndexOf(q, addr)
         /\ Outside(new, addr, q.tree, q.tree + 7) =>
             /\ new[q.layer] = addr[q.layer] /\ new[q.type] = addr[q.type] /\ KeypairOf(q, new) = KeypairOf(q, addr)
             /\ new[q.height] = addr[q.height] /\ IndexOf(q, new) = IndexOf(q, addr)
         /\ Outside(new, addr, q.type, q.type) =>
             /\ new[q.layer] = addr[q.layer] /\ TreeOf(q, new) = TreeOf(q, addr) /\ KeypairOf(q, new) = KeypairOf(q, addr)
             /\ new[q.height] = addr[q.height] /\ IndexOf(q, new) = IndexOf(q, addr)
         /\ Outside(new, addr, q.keypair, q.keypair + 3) =>
             /\ new[q.layer] = addr[q.layer] /\ TreeOf(q, new) = TreeOf(q, addr) /\ new[q.type] = addr[q.type]
             /\ new[q.height] = addr[q.height] /\ IndexOf(q, new) = IndexOf(q, addr)
         /\ Outside(new, addr, q.height, q.height) =>
             /\ new[q.layer] = addr[q.layer] /\ TreeOf(q, new) = TreeOf(q, addr) /\ new[q.type] = addr[q.type]
             /\ KeypairOf(q, new) = KeypairOf(q, addr) /\ IndexOf(q, new) = IndexOf(q, addr)
         /\ Outside(new, addr, q.index, q.index + 3) =>
             /\ new[q.layer] = addr[q.layer] /\ TreeOf(q, new) = TreeOf(q, addr) /\ new[q.type] = addr[q.type]
             /\ KeypairOf(q, new) = KeypairOf(q, addr) /\ new[q.height] = addr[q.height]
<1>1. /\ q.layer \in Nat /\ q.tree \in Nat /\ q.type \in Nat /\ q.keypair \in Nat
      /\ q.height \in Nat /\ q.index \in Nat
      /\ q.layer < q.tree /\ q.tree + 7 < q.type /\ q.type < q.keypair /\ q.keypair + 3 < q.height
      /\ q.height < q.index
  BY DEF Placed
<1>2. ASSUME Outside(new, addr, q.layer, q.layer)
      PROVE  /\ TreeOf(q, new) = TreeOf(q, addr) /\ new[q.type] = addr[q.type] /\ KeypairOf(q, new) = KeypairOf(q, addr)
             /\ new[q.height] = addr[q.height] /\ IndexOf(q, new) = IndexOf(q, addr)
  <2>1. q.layer \in Nat /\ q.layer \in Nat  BY <1>1
  <2>2. q.tree > q.layer /\ q.type > q.layer /\ q.keypair > q.layer /\ q.height > q.layer /\ q.index > q.layer
    BY <1>1
  <2> QED BY <1>2, <2>1, <2>2, Elsewhere
<1>3. ASSUME Outside(new, addr, q.tree, q.tree + 7)
      PROVE  /\ new[q.layer] = addr[q.layer] /\ new[q.type] = addr[q.type] /\ KeypairOf(q, new) = KeypairOf(q, addr)
             /\ new[q.height] = addr[q.height] /\ IndexOf(q, new) = IndexOf(q, addr)
  <2>1. q.tree \in Nat /\ q.tree + 7 \in Nat  BY <1>1
  <2>2. q.layer < q.tree /\ q.type > q.tree + 7 /\ q.keypair > q.tree + 7 /\ q.height > q.tree + 7 /\ q.index > q.tree + 7
    BY <1>1
  <2> QED BY <1>3, <2>1, <2>2, Elsewhere
<1>4. ASSUME Outside(new, addr, q.type, q.type)
      PROVE  /\ new[q.layer] = addr[q.layer] /\ TreeOf(q, new) = TreeOf(q, addr) /\ KeypairOf(q, new) = KeypairOf(q, addr)
             /\ new[q.height] = addr[q.height] /\ IndexOf(q, new) = IndexOf(q, addr)
  <2>1. q.type \in Nat /\ q.type \in Nat  BY <1>1
  <2>2. q.layer < q.type /\ q.tree + 7 < q.type /\ q.keypair > q.type /\ q.height > q.type /\ q.index > q.type
    BY <1>1
  <2> QED BY <1>4, <2>1, <2>2, Elsewhere
<1>5. ASSUME Outside(new, addr, q.keypair, q.keypair + 3)
      PROVE  /\ new[q.layer] = addr[q.layer] /\ TreeOf(q, new) = TreeOf(q, addr) /\ new[q.type] = addr[q.type]
             /\ new[q.height] = addr[q.height] /\ IndexOf(q, new) = IndexOf(q, addr)
  <2>1. q.keypair \in Nat /\ q.keypair + 3 \in Nat  BY <1>1
  <2>2. q.layer < q.keypair /\ q.tree + 7 < q.keypair /\ q.type < q.keypair /\ q.height > q.keypair + 3 /\ q.index > q.keypair + 3
    BY <1>1
  <2> QED BY <1>5, <2>1, <2>2, Elsewhere, ZenonT(40)
<1>6. ASSUME Outside(new, addr, q.height, q.height)
      PROVE  /\ new[q.layer] = addr[q.layer] /\ TreeOf(q, new) = TreeOf(q, addr) /\ new[q.type] = addr[q.type]
             /\ KeypairOf(q, new) = KeypairOf(q, addr) /\ IndexOf(q, new) = IndexOf(q, addr)
  <2>1. q.height \in Nat /\ q.height \in Nat  BY <1>1
  <2>2. q.layer < q.height /\ q.tree + 7 < q.height /\ q.type < q.height /\ q.keypair + 3 < q.height /\ q.index > q.height
    BY <1>1
  <2> QED BY <1>6, <2>1, <2>2, Elsewhere
<1>7. ASSUME Outside(new, addr, q.index, q.index + 3)
      PROVE  /\ new[q.layer] = addr[q.layer] /\ TreeOf(q, new) = TreeOf(q, addr) /\ new[q.type] = addr[q.type]
             /\ KeypairOf(q, new) = KeypairOf(q, addr) /\ new[q.height] = addr[q.height]
  <2>1. q.index \in Nat /\ q.index + 3 \in Nat  BY <1>1
  <2>2. q.layer < q.index /\ q.tree + 7 < q.index /\ q.type < q.index /\ q.keypair + 3 < q.index /\ q.height < q.index
    BY <1>1
  <2> QED BY <1>7, <2>1, <2>2, Elsewhere
<1> QED BY <1>2, <1>3, <1>4, <1>5, <1>6, <1>7
LEMMA SetByte ==
  ASSUME NEW q, Placed(q), NEW addr, Legal(q, addr), NEW x \in 0 .. 255, NEW o \in Nat \cap Held(q),
         NEW new, new = Address!Put(addr, o, <<x % 256>>)
  PROVE  /\ Legal(q, new) /\ new[o] = x
         /\ Outside(new, addr, o, o)
<1>1. x % 256 = x  OBVIOUS
<1>2. new = [b \in 0 .. 31 |-> IF b = o THEN x ELSE addr[b]]  BY <1>1, PutByte
<1>3. o \in 0 .. 31  BY DEF Held, Placed
<1>4. new = [b \in 0 .. 31 |-> new[b]]  BY <1>2
<1>5. \A b \in 0 .. 31 : new[b] = addr[b] \/ (b \in Held(q) /\ new[b] \in 0 .. 255)  BY <1>2
<1>6. Legal(q, new)  BY <1>2, <1>5 DEF Legal
<1> QED BY <1>2, <1>3, <1>6 DEF Outside

LEMMA SetWord ==
  ASSUME NEW q, Placed(q), NEW addr, Legal(q, addr), NEW x, Is32(x),
         NEW o \in Nat, o + 3 < 32, o .. o + 3 \subseteq Held(q),
         NEW new, new = Address!Put(addr, o, Address!u32_to_bytes(x))
  PROVE  /\ Legal(q, new) /\ Address!Word(new, o) = x
         /\ Outside(new, addr, o, o + 3)
<1>1. x \in Nat  BY DEF Is32
<1>2. new = [b \in 0 .. 31 |-> IF b \in o .. o + 3 THEN WordByte(x, b - o) ELSE addr[b]]
  <2>1. HasWord(new, addr, o, x)  BY <1>1, PutWord
  <2> QED BY <2>1 DEF HasWord
<1>3. /\ \A k \in 0 .. 3 : WordByte(x, k) \in 0 .. 255
      /\ ((WordByte(x, 0) * 256 + WordByte(x, 1)) * 256 + WordByte(x, 2)) * 256 + WordByte(x, 3) = x
  BY WordBytes, Zenon
<1>4. \A b \in o .. o + 3 : b - o \in 0 .. 3  OBVIOUS
<1>5. ASSUME NEW b \in 0 .. 31
      PROVE  new[b] = addr[b] \/ (b \in Held(q) /\ new[b] \in 0 .. 255)
  <2>1. CASE b \in o .. o + 3
    <3>1. new[b] = WordByte(x, b - o)  BY <1>2, <2>1, Zenon
    <3>2. WordByte(x, b - o) \in 0 .. 255  BY <1>3, <1>4, <2>1, Zenon
    <3>3. b \in Held(q)  BY <2>1, Zenon
    <3> QED BY <3>1, <3>2, <3>3, Zenon
  <2>2. CASE b \notin o .. o + 3  BY <1>2, <2>2, SMT
  <2> QED BY <2>1, <2>2
<1>6. Legal(q, new)
  <2>1. addr \in [0 .. 31 -> 0 .. 255] /\ \A b \in 0 .. 31 : b \notin Held(q) => addr[b] = 0  BY Zenon DEF Legal
  <2>2. \A b \in 0 .. 31 : addr[b] \in 0 .. 255  BY <2>1, Zenon
  <2>3. \A b \in 0 .. 31 : new[b] \in 0 .. 255 /\ (b \notin Held(q) => new[b] = 0)  BY <1>5, <2>1, <2>2, Zenon
  <2>4. new = [b \in 0 .. 31 |-> new[b]]  BY <1>2
  <2>5. new \in [0 .. 31 -> 0 .. 255]  BY <2>3, <2>4, Zenon
  <2> QED BY <2>3, <2>5, Zenon DEF Legal
<1>7. \A k \in 0 .. 3 : new[o + k] = WordByte(x, k)
  <2> TAKE k \in 0 .. 3
  <2>1. o + k \in 0 .. 31 /\ o + k \in o .. o + 3 /\ (o + k) - o = k  OBVIOUS
  <2> QED BY <1>2, <2>1
<1>8. new[o] = WordByte(x, 0) /\ new[o + 1] = WordByte(x, 1) /\ new[o + 2] = WordByte(x, 2) /\ new[o + 3] = WordByte(x, 3)
  BY <1>7
<1>9. Address!Word(new, o) = x  BY <1>3, <1>8, SMT DEF Address!Word
<1>10. Outside(new, addr, o, o + 3)  BY <1>2 DEF Outside
<1> QED BY <1>6, <1>9, <1>10

(* Every setter, on any legal address and any value that fits the field.   *)
Becomes(q, new, fields) == Legal(q, new) /\ Address!Fields(q, new) = fields

LEMMA SetTree ==
  ASSUME NEW q, Placed(q), NEW addr, Legal(q, addr), NEW x \in [1 .. 8 -> 0 .. 255],
         NEW new, new = Address!set_tree_addr(q, addr, x)
  PROVE  /\ Legal(q, new) /\ TreeOf(q, new) = x
         /\ Outside(new, addr, q.tree, q.tree + 7)
<1>1. q.tree \in Nat /\ q.tree + 7 < 32 /\ q.tree .. q.tree + 7 \subseteq Held(q)  BY DEF Placed, Held
<1>2. new = [b \in 0 .. 31 |-> IF b \in q.tree .. q.tree + 7 THEN x[b - q.tree + 1] ELSE addr[b]]
  <2>1. new = Address!Put(addr, q.tree, Address!ull_to_bytes(8, x))  BY Zenon DEF Address!set_tree_addr
  <2>2. HasTree(new, addr, q.tree, x)  BY <1>1, <2>1, PutTree
  <2> QED BY <2>2 DEF HasTree
<1> DEFINE o == q.tree
<1>o. o \in Nat /\ o + 7 < 32 /\ o .. o + 7 \subseteq Held(q)
      /\ new = [b \in 0 .. 31 |-> IF b \in o .. o + 7 THEN x[b - o + 1] ELSE addr[b]]
  BY <1>1, <1>2
<1>3. \A b \in q.tree .. q.tree + 7 : b - q.tree + 1 \in 1 .. 8  BY <1>1
<1>4. \A b \in 0 .. 31 : new[b] = addr[b] \/ (b \in Held(q) /\ new[b] \in 0 .. 255)
  BY <1>1, <1>2, <1>3, ZenonT(40)
<1>5. Legal(q, new)
  <2>1. \A b \in 0 .. 31 : addr[b] \in 0 .. 255 /\ (b \notin Held(q) => addr[b] = 0)  BY Zenon DEF Legal
  <2>3. \A b \in 0 .. 31 : new[b] \in 0 .. 255 /\ (b \notin Held(q) => new[b] = 0)  BY <1>4, <2>1, Zenon
  <2>2. new = [b \in 0 .. 31 |-> new[b]]  BY <1>2
  <2>4. new \in [0 .. 31 -> 0 .. 255]  BY <2>2, <2>3, Zenon
  <2> QED BY <2>3, <2>4, Zenon DEF Legal
<1>b. /\ \A b \in 0 .. 31 : b \in o .. o + 7 => new[b] = x[b - o + 1]
      /\ \A b \in 0 .. 31 : b \notin o .. o + 7 => new[b] = addr[b]
  <2> HIDE DEF o
  <2>1. ASSUME NEW b \in 0 .. 31
        PROVE  new[b] = IF b \in o .. o + 7 THEN x[b - o + 1] ELSE addr[b]
    BY <1>o, Zenon
  <2>2. ASSUME NEW b \in 0 .. 31, b \in o .. o + 7  PROVE new[b] = x[b - o + 1]  BY <2>1, <2>2, Zenon
  <2>3. ASSUME NEW b \in 0 .. 31, b \notin o .. o + 7  PROVE new[b] = addr[b]  BY <2>1, <2>3, Zenon
  <2> QED BY <2>2, <2>3, Zenon
<1> HIDE DEF o
<1>6. \A k \in 1 .. 8 : new[o + k - 1] = x[k]
  <2> TAKE k \in 1 .. 8
  <2>1. o + k - 1 \in 0 .. 31 /\ o + k - 1 \in o .. o + 7 /\ (o + k - 1) - o + 1 = k
    BY <1>o
  <2>2. new[o + k - 1] = x[(o + k - 1) - o + 1]  BY <1>b, <2>1, Zenon
  <2> QED BY <2>1, <2>2, Zenon
<1>7. TreeOf(q, new) = x  BY <1>6 DEF TreeOf, o
<1>8. Outside(new, addr, q.tree, q.tree + 7)
  <2>1. \A b \in 0 .. 31 : b < o \/ b > o + 7 => b \notin o .. o + 7  BY <1>o
  <2> QED BY <1>b, <2>1, Zenon DEF Outside, o
<1> QED BY <1>5, <1>7, <1>8

IsByte(x) == x \in 0 .. 255

LEMMA LegalByte ==
  ASSUME NEW q, NEW addr, Legal(q, addr), NEW b, b \in 0 .. 31
  PROVE  IsByte(addr[b])
<1>1. addr \in [0 .. 31 -> 0 .. 255]  BY Zenon DEF Legal
<1> QED BY <1>1 DEF IsByte

AreBytes(a, b, c, d) == IsByte(a) /\ IsByte(b) /\ IsByte(c) /\ IsByte(d)
FourBytes(a, b, c, d) == ((a * 256 + b) * 256 + c) * 256 + d

LEMMA LastByte ==
  ASSUME NEW a, NEW b, NEW c, NEW d, NEW x, AreBytes(a, b, c, d)
  PROVE  WithLast(FourBytes(a, b, c, d), x) = FourBytes(a, b, c, x)
<1> DEFINE high == (a * 256 + b) * 256 + c
<1>1. high \in Nat /\ d \in 0 .. 255  BY DEF AreBytes, IsByte
<1>2. FourBytes(a, b, c, d) = high * 256 + d /\ FourBytes(a, b, c, x) = high * 256 + x
  BY SMT DEF FourBytes
<1> HIDE DEF high
<1>3. (high * 256 + d) - ((high * 256 + d) % 256) = high * 256  BY <1>1
<1>4. WithLast(high * 256 + d, x) = high * 256 + x  BY <1>3, SMT DEF WithLast
<1> QED BY <1>2, <1>4

LEMMA WordIs ==
  ASSUME NEW addr, NEW o
  PROVE  Address!Word(addr, o) = FourBytes(addr[o], addr[o + 1], addr[o + 2], addr[o + 3])
BY SMT DEF Address!Word, FourBytes

LEMMA SetsTheField ==
  ASSUME NEW q, Placed(q), NEW addr, Legal(q, addr), NEW x, NEW new,
         NEW fields, fields = Address!Fields(q, addr)
  PROVE  /\ x \in 0 .. 255 /\ new = Address!set_layer_addr(q, addr, x) => Becomes(q, new, Address!F!set_layer_addr(fields, x))
         /\ x \in 0 .. 255 /\ new = Address!set_type(q, addr, x) => Becomes(q, new, Address!F!set_type(fields, x))
         /\ x \in 0 .. 255 /\ new = Address!set_chain_addr(q, addr, x) => Becomes(q, new, Address!F!set_chain_addr(fields, x))
         /\ x \in 0 .. 255 /\ new = Address!set_tree_height(q, addr, x) => Becomes(q, new, Address!F!set_tree_height(fields, x))
         /\ x \in 0 .. 255 /\ new = Address!set_hash_addr(q, addr, x) => Becomes(q, new, Address!F!set_hash_addr(fields, x))
         /\ Is32(x) /\ new = Address!set_keypair_addr(q, addr, x) => Becomes(q, new, Address!F!set_keypair_addr(fields, x))
         /\ Is32(x) /\ new = Address!set_tree_index(q, addr, x) => Becomes(q, new, Address!F!set_tree_index(fields, x))
         /\ x \in [1 .. 8 -> 0 .. 255] /\ new = Address!set_tree_addr(q, addr, x) => Becomes(q, new, Address!F!set_tree_addr(fields, x))
<1> DEFINE r == Record(addr[q.layer], TreeOf(q, addr), addr[q.type], KeypairOf(q, addr), addr[q.height], IndexOf(q, addr))
<1>1. fields = r /\ Address!Fields(q, new) =
        Record(new[q.layer], TreeOf(q, new), new[q.type], KeypairOf(q, new), new[q.height], IndexOf(q, new))
  BY FieldsAre
<1>2. /\ q.layer \in Nat /\ q.tree \in Nat /\ q.type \in Nat /\ q.keypair \in Nat
      /\ q.height \in Nat /\ q.index \in Nat /\ q.index + 3 < 32
      /\ q.layer < q.tree /\ q.tree + 7 < q.type /\ q.type < q.keypair /\ q.keypair + 3 < q.height
      /\ q.height < q.index /\ q.chain = q.height /\ q.hash = q.index + 3
  BY DEF Placed
<1>3. /\ q.layer \in Nat \cap Held(q) /\ q.type \in Nat \cap Held(q) /\ q.height \in Nat \cap Held(q)
      /\ q.index + 3 \in Nat \cap Held(q)
      /\ q.keypair .. q.keypair + 3 \subseteq Held(q) /\ q.index .. q.index + 3 \subseteq Held(q)
      /\ q.keypair + 3 < 32
  BY <1>2 DEF Held
<1>4. /\ Address!F!set_layer_addr(r, x) =
           Record(x, TreeOf(q, addr), addr[q.type], KeypairOf(q, addr), addr[q.height], IndexOf(q, addr))
      /\ Address!F!set_tree_addr(r, x) =
           Record(addr[q.layer], x, addr[q.type], KeypairOf(q, addr), addr[q.height], IndexOf(q, addr))
      /\ Address!F!set_type(r, x) =
           Record(addr[q.layer], TreeOf(q, addr), x, KeypairOf(q, addr), addr[q.height], IndexOf(q, addr))
      /\ Address!F!set_keypair_addr(r, x) =
           Record(addr[q.layer], TreeOf(q, addr), addr[q.type], x, addr[q.height], IndexOf(q, addr))
      /\ Address!F!set_chain_addr(r, x) =
           Record(addr[q.layer], TreeOf(q, addr), addr[q.type], KeypairOf(q, addr), x, IndexOf(q, addr))
      /\ Address!F!set_hash_addr(r, x) =
           Record(addr[q.layer], TreeOf(q, addr), addr[q.type], KeypairOf(q, addr), addr[q.height],
                  WithLast(IndexOf(q, addr), x))
      /\ Address!F!set_tree_height(r, x) =
           Record(addr[q.layer], TreeOf(q, addr), addr[q.type], KeypairOf(q, addr), x, IndexOf(q, addr))
      /\ Address!F!set_tree_index(r, x) =
           Record(addr[q.layer], TreeOf(q, addr), addr[q.type], KeypairOf(q, addr), addr[q.height], x)
  BY RecordSet
<1> HIDE DEF r
<1>5. ASSUME x \in 0 .. 255, new = Address!set_layer_addr(q, addr, x)
      PROVE  Becomes(q, new, Address!F!set_layer_addr(fields, x))
  <2>1. new = Address!Put(addr, q.layer, <<x % 256>>)  BY <1>2, <1>5 DEF Address!set_layer_addr
  <2>2. Legal(q, new) /\ new[q.layer] = x /\ Outside(new, addr, q.layer, q.layer)
    BY <1>3, <1>5, <2>1, SetByte
  <2>3. TreeOf(q, new) = TreeOf(q, addr) /\ new[q.type] = addr[q.type] /\ KeypairOf(q, new) = KeypairOf(q, addr) /\ new[q.height] = addr[q.height] /\ IndexOf(q, new) = IndexOf(q, addr)
    BY <2>2, Beside
  <2> QED BY <1>1, <1>4, <2>2, <2>3, Zenon DEF Becomes
<1>6. ASSUME x \in 0 .. 255, new = Address!set_type(q, addr, x)
      PROVE  Becomes(q, new, Address!F!set_type(fields, x))
  <2>1. new = Address!Put(addr, q.type, <<x % 256>>)  BY <1>2, <1>6 DEF Address!set_type
  <2>2. Legal(q, new) /\ new[q.type] = x /\ Outside(new, addr, q.type, q.type)
    BY <1>3, <1>6, <2>1, SetByte
  <2>3. new[q.layer] = addr[q.layer] /\ TreeOf(q, new) = TreeOf(q, addr) /\ KeypairOf(q, new) = KeypairOf(q, addr) /\ new[q.height] = addr[q.height] /\ IndexOf(q, new) = IndexOf(q, addr)
    BY <2>2, Beside
  <2> QED BY <1>1, <1>4, <2>2, <2>3, Zenon DEF Becomes
<1>7. ASSUME x \in 0 .. 255, new = Address!set_chain_addr(q, addr, x)
      PROVE  Becomes(q, new, Address!F!set_chain_addr(fields, x))
  <2>1. new = Address!Put(addr, q.height, <<x % 256>>)  BY <1>2, <1>7 DEF Address!set_chain_addr
  <2>2. Legal(q, new) /\ new[q.height] = x /\ Outside(new, addr, q.height, q.height)
    BY <1>3, <1>7, <2>1, SetByte
  <2>3. new[q.layer] = addr[q.layer] /\ TreeOf(q, new) = TreeOf(q, addr) /\ new[q.type] = addr[q.type] /\ KeypairOf(q, new) = KeypairOf(q, addr) /\ IndexOf(q, new) = IndexOf(q, addr)
    BY <2>2, Beside
  <2> QED BY <1>1, <1>4, <2>2, <2>3, Zenon DEF Becomes
<1>8. ASSUME x \in 0 .. 255, new = Address!set_tree_height(q, addr, x)
      PROVE  Becomes(q, new, Address!F!set_tree_height(fields, x))
  <2>1. new = Address!Put(addr, q.height, <<x % 256>>)  BY <1>2, <1>8 DEF Address!set_tree_height
  <2>2. Legal(q, new) /\ new[q.height] = x /\ Outside(new, addr, q.height, q.height)
    BY <1>3, <1>8, <2>1, SetByte
  <2>3. new[q.layer] = addr[q.layer] /\ TreeOf(q, new) = TreeOf(q, addr) /\ new[q.type] = addr[q.type] /\ KeypairOf(q, new) = KeypairOf(q, addr) /\ IndexOf(q, new) = IndexOf(q, addr)
    BY <2>2, Beside
  <2> QED BY <1>1, <1>4, <2>2, <2>3, Zenon DEF Becomes
<1>9. ASSUME x \in 0 .. 255, new = Address!set_hash_addr(q, addr, x)
      PROVE  Becomes(q, new, Address!F!set_hash_addr(fields, x))
  <2>1. new = Address!Put(addr, q.index + 3, <<x % 256>>)  BY <1>2, <1>9 DEF Address!set_hash_addr
  <2>2. Legal(q, new) /\ new[q.index + 3] = x /\ Outside(new, addr, q.index + 3, q.index + 3)
    <3> DEFINE o == q.index + 3
    <3>1. o \in Nat \cap Held(q) /\ new = Address!Put(addr, o, <<x % 256>>)  BY <1>3, <2>1
    <3> HIDE DEF o
    <3>2. Legal(q, new) /\ new[o] = x /\ Outside(new, addr, o, o)  BY <1>9, <3>1, SetByte
    <3> QED BY <3>2 DEF o
  <2>3. new[q.layer] = addr[q.layer] /\ TreeOf(q, new) = TreeOf(q, addr) /\ new[q.type] = addr[q.type] /\ KeypairOf(q, new) = KeypairOf(q, addr) /\ new[q.height] = addr[q.height]
    <3>1. Outside(new, addr, q.index, q.index + 3)  BY <1>2, <2>2 DEF Outside
    <3> QED BY <3>1, Beside
  <2>4. IndexOf(q, new) = WithLast(IndexOf(q, addr), x)
    <3>1. new[q.index] = addr[q.index] /\ new[q.index + 1] = addr[q.index + 1] /\ new[q.index + 2] = addr[q.index + 2]
      BY <1>2, <2>2 DEF Outside
    <3>2. q.index \in 0 .. 31 /\ q.index + 1 \in 0 .. 31 /\ q.index + 2 \in 0 .. 31 /\ q.index + 3 \in 0 .. 31  BY <1>2
    <3>3. IsByte(addr[q.index])  BY <3>2, LegalByte, Zenon
    <3>4. IsByte(addr[q.index + 1])  BY <3>2, LegalByte, Zenon
    <3>5. IsByte(addr[q.index + 2])  BY <3>2, LegalByte, Zenon
    <3>6. IsByte(addr[q.index + 3])  BY <3>2, LegalByte, Zenon
    <3>7. IndexOf(q, new) = FourBytes(addr[q.index], addr[q.index + 1], addr[q.index + 2], x)
      BY <2>2, <3>1, WordIs, Zenon DEF IndexOf
    <3>8. IndexOf(q, addr) = FourBytes(addr[q.index], addr[q.index + 1], addr[q.index + 2], addr[q.index + 3])
      BY WordIs, Zenon DEF IndexOf
    <3>9. AreBytes(addr[q.index], addr[q.index + 1], addr[q.index + 2], addr[q.index + 3])
      BY <3>3, <3>4, <3>5, <3>6, Zenon DEF AreBytes
    <3>10. WithLast(FourBytes(addr[q.index], addr[q.index + 1], addr[q.index + 2], addr[q.index + 3]), x)
             = FourBytes(addr[q.index], addr[q.index + 1], addr[q.index + 2], x)
      BY <3>9, LastByte
    <3> QED BY <3>7, <3>8, <3>10
  <2> QED BY <1>1, <1>4, <2>2, <2>3, <2>4, Zenon DEF Becomes
<1>10. ASSUME Is32(x), new = Address!set_keypair_addr(q, addr, x)
      PROVE  Becomes(q, new, Address!F!set_keypair_addr(fields, x))
  <2>1. new = Address!Put(addr, q.keypair, Address!u32_to_bytes(x))  BY <1>10, Zenon DEF Address!set_keypair_addr
  <2>2. Legal(q, new) /\ Address!Word(new, q.keypair) = x /\ Outside(new, addr, q.keypair, q.keypair + 3)
    BY <1>2, <1>3, <1>10, <2>1, SetWord
  <2>3. new[q.layer] = addr[q.layer] /\ TreeOf(q, new) = TreeOf(q, addr) /\ new[q.type] = addr[q.type] /\ new[q.height] = addr[q.height] /\ IndexOf(q, new) = IndexOf(q, addr)
    BY <2>2, Beside
  <2>4. KeypairOf(q, new) = x  BY <2>2 DEF KeypairOf
  <2> QED BY <1>1, <1>4, <2>2, <2>3, <2>4, Zenon DEF Becomes
<1>11. ASSUME Is32(x), new = Address!set_tree_index(q, addr, x)
      PROVE  Becomes(q, new, Address!F!set_tree_index(fields, x))
  <2>1. new = Address!Put(addr, q.index, Address!u32_to_bytes(x))  BY <1>11, Zenon DEF Address!set_tree_index
  <2>2. Legal(q, new) /\ Address!Word(new, q.index) = x /\ Outside(new, addr, q.index, q.index + 3)
    BY <1>2, <1>3, <1>11, <2>1, SetWord
  <2>3. new[q.layer] = addr[q.layer] /\ TreeOf(q, new) = TreeOf(q, addr) /\ new[q.type] = addr[q.type] /\ KeypairOf(q, new) = KeypairOf(q, addr) /\ new[q.height] = addr[q.height]
    BY <2>2, Beside
  <2>4. IndexOf(q, new) = x  BY <2>2 DEF IndexOf
  <2> QED BY <1>1, <1>4, <2>2, <2>3, <2>4, Zenon DEF Becomes
<1>12. ASSUME x \in [1 .. 8 -> 0 .. 255], new = Address!set_tree_addr(q, addr, x)
      PROVE  Becomes(q, new, Address!F!set_tree_addr(fields, x))
  <2>1. Legal(q, new) /\ TreeOf(q, new) = x /\ Outside(new, addr, q.tree, q.tree + 7)
    BY <1>12, SetTree
  <2>2. new[q.layer] = addr[q.layer] /\ new[q.type] = addr[q.type] /\ KeypairOf(q, new) = KeypairOf(q, addr) /\ new[q.height] = addr[q.height] /\ IndexOf(q, new) = IndexOf(q, addr)
    BY <2>1, Beside
  <2> QED BY <1>1, <1>4, <2>1, <2>2, Zenon DEF Becomes
<1> QED BY <1>5, <1>6, <1>7, <1>8, <1>9, <1>10, <1>11, <1>12
LEMMA CopiesTheFields ==
  ASSUME NEW q, Placed(q), NEW addr, Legal(q, addr), NEW from, Legal(q, from), NEW new,
         NEW fields, fields = Address!Fields(q, addr), NEW origin, origin = Address!Fields(q, from)
  PROVE  /\ new = Address!copy_subtree_addr(q, addr, from) =>
              Becomes(q, new, Address!F!copy_subtree_addr(fields, origin))
         /\ new = Address!copy_keypair_addr(q, addr, from) =>
              Becomes(q, new, Address!F!copy_keypair_addr(fields, origin))
<1>1. /\ Address!F!copy_subtree_addr(fields, origin) =
           Record(from[q.layer], TreeOf(q, from), addr[q.type], KeypairOf(q, addr), addr[q.height], IndexOf(q, addr))
      /\ Address!F!copy_keypair_addr(fields, origin) =
           Record(from[q.layer], TreeOf(q, from), addr[q.type], KeypairOf(q, from), addr[q.height], IndexOf(q, addr))
  BY FieldsAre, RecordCopy
<1>2. Address!Fields(q, new) =
        Record(new[q.layer], TreeOf(q, new), new[q.type], KeypairOf(q, new), new[q.height], IndexOf(q, new))
  BY FieldsAre
<1>3. /\ q.layer \in Nat /\ q.tree \in Nat /\ q.type \in Nat /\ q.keypair \in Nat
      /\ q.height \in Nat /\ q.index \in Nat /\ q.index + 3 < 32
      /\ q.layer < q.tree /\ q.tree + 7 < q.type /\ q.type < q.keypair /\ q.keypair + 3 < q.height
      /\ q.height < q.index
  BY DEF Placed
<1>4. 0 .. Address!Width - 1 = 0 .. 31  BY DEF Address!Width
<1>5. ASSUME new = [b \in 0 .. 31 |-> new[b]], \A b \in 0 .. 31 : new[b] = from[b] \/ new[b] = addr[b]
      PROVE  Legal(q, new)
  <2>1. \A b \in 0 .. 31 : new[b] \in 0 .. 255 /\ (b \notin Held(q) => new[b] = 0)
    BY <1>5 DEF Legal
  <2> QED BY <1>5, <2>1 DEF Legal
<1>6. ASSUME \A b \in 0 .. 31 : b < q.tree + 8 => new[b] = from[b]
      PROVE  new[q.layer] = from[q.layer] /\ TreeOf(q, new) = TreeOf(q, from)
  <2>1. \A k \in 1 .. 8 : new[q.tree + k - 1] = from[q.tree + k - 1]
    <3> TAKE k \in 1 .. 8
    <3>1. q.tree + k - 1 \in 0 .. 31 /\ q.tree + k - 1 < q.tree + 8  BY <1>3
    <3> QED BY <1>6, <3>1
  <2>2. q.layer \in 0 .. 31 /\ q.layer < q.tree + 8  BY <1>3
  <2> QED BY <1>6, <2>1, <2>2 DEF TreeOf
<1>7. ASSUME \A b \in 0 .. 31 : b >= q.keypair + 4 => new[b] = addr[b], new[q.type] = addr[q.type]
      PROVE  new[q.type] = addr[q.type] /\ new[q.height] = addr[q.height] /\ IndexOf(q, new) = IndexOf(q, addr)
  <2>1. q.height \in 0 .. 31 /\ q.height >= q.keypair + 4  BY <1>3
  <2>2. /\ q.index \in 0 .. 31 /\ q.index >= q.keypair + 4
        /\ q.index + 1 \in 0 .. 31 /\ q.index + 1 >= q.keypair + 4
        /\ q.index + 2 \in 0 .. 31 /\ q.index + 2 >= q.keypair + 4
        /\ q.index + 3 \in 0 .. 31 /\ q.index + 3 >= q.keypair + 4
    BY <1>3
  <2>3. new[q.index] = addr[q.index] /\ new[q.index + 1] = addr[q.index + 1] /\ new[q.index + 2] = addr[q.index + 2]
        /\ new[q.index + 3] = addr[q.index + 3]
    BY <1>7, <2>2, Zenon
  <2> QED BY <1>7, <2>1, <2>3, WordIs, Zenon DEF IndexOf
<1>8. q.type \in 0 .. 31 /\ ~ (q.type < q.tree + 8) /\ q.type \notin q.keypair .. q.keypair + 3  BY <1>3
<1>9. \A k \in 0 .. 3 : q.keypair + k \in 0 .. 31 /\ ~ (q.keypair + k < q.tree + 8) /\ q.keypair + k \in q.keypair .. q.keypair + 3
  BY <1>3
<1>10. ASSUME new = Address!copy_subtree_addr(q, addr, from)
       PROVE  Becomes(q, new, Address!F!copy_subtree_addr(fields, origin))
  <2>1. new = [b \in 0 .. 31 |-> IF b < q.tree + 8 THEN from[b] ELSE addr[b]]
    BY <1>4, <1>10, Zenon DEF Address!copy_subtree_addr
  <2>2. Legal(q, new)  BY <1>5, <2>1
  <2>3. new[q.layer] = from[q.layer] /\ TreeOf(q, new) = TreeOf(q, from)  BY <1>6, <2>1
  <2>4. new[q.type] = addr[q.type]  BY <1>8, <2>1
  <2>5. \A b \in 0 .. 31 : b >= q.keypair + 4 => new[b] = addr[b]  BY <1>3, <2>1
  <2>6. new[q.height] = addr[q.height] /\ IndexOf(q, new) = IndexOf(q, addr)  BY <1>7, <2>4, <2>5
  <2>7. KeypairOf(q, new) = KeypairOf(q, addr)
    <3>1. new[q.keypair] = addr[q.keypair] /\ new[q.keypair + 1] = addr[q.keypair + 1]
          /\ new[q.keypair + 2] = addr[q.keypair + 2] /\ new[q.keypair + 3] = addr[q.keypair + 3]
      BY <1>3, <1>9, <2>1
    <3> QED BY <3>1, SMT DEF KeypairOf, Address!Word
  <2> QED BY <1>1, <1>2, <2>2, <2>3, <2>4, <2>6, <2>7, Zenon DEF Becomes
<1>11. ASSUME new = Address!copy_keypair_addr(q, addr, from)
       PROVE  Becomes(q, new, Address!F!copy_keypair_addr(fields, origin))
  <2>1. new = [b \in 0 .. 31 |-> IF b < q.tree + 8 \/ b \in q.keypair .. q.keypair + 3 THEN from[b] ELSE addr[b]]
    BY <1>4, <1>11, Zenon DEF Address!copy_keypair_addr
  <2>2. Legal(q, new)  BY <1>5, <2>1
  <2>3. new[q.layer] = from[q.layer] /\ TreeOf(q, new) = TreeOf(q, from)  BY <1>6, <2>1
  <2>4. new[q.type] = addr[q.type]  BY <1>8, <2>1
  <2>5. \A b \in 0 .. 31 : b >= q.keypair + 4 => new[b] = addr[b]  BY <1>3, <2>1
  <2>6. new[q.height] = addr[q.height] /\ IndexOf(q, new) = IndexOf(q, addr)  BY <1>7, <2>4, <2>5
  <2>7. KeypairOf(q, new) = KeypairOf(q, from)
    <3>1. new[q.keypair] = from[q.keypair] /\ new[q.keypair + 1] = from[q.keypair + 1]
          /\ new[q.keypair + 2] = from[q.keypair + 2] /\ new[q.keypair + 3] = from[q.keypair + 3]
      BY <1>3, <1>9, <2>1
    <3> QED BY <3>1, Zenon DEF KeypairOf, Address!Word
  <2> QED BY <1>1, <1>2, <2>2, <2>3, <2>4, <2>6, <2>7, Zenon DEF Becomes
<1> QED BY <1>10, <1>11

LEMMA SameSets == Address!F!ParameterSets = Address!ParameterSets
<1>1. \A n, height, d, forsHeight, forsTrees, w, offs :
        Address!F!Header(n, height, d, forsHeight, forsTrees, w, offs) =
        Address!Header(n, height, d, forsHeight, forsTrees, w, offs)
  BY DEF Address!F!Header, Address!Header, Address!F!LOGW, Address!LOGW, Address!F!LEN2, Address!LEN2
<1>2. Address!F!haraka_offsets = Address!haraka_offsets /\ Address!F!sha2_offsets = Address!sha2_offsets
      /\ Address!F!shake_offsets = Address!shake_offsets
  BY DEF Address!F!haraka_offsets, Address!haraka_offsets, Address!F!sha2_offsets, Address!sha2_offsets,
         Address!F!shake_offsets, Address!shake_offsets, Address!F!LayoutOf, Address!LayoutOf
<1>3. /\ Address!F!haraka_128f = Address!haraka_128f /\ Address!F!haraka_128s = Address!haraka_128s
      /\ Address!F!haraka_192f = Address!haraka_192f /\ Address!F!haraka_192s = Address!haraka_192s
      /\ Address!F!haraka_256f = Address!haraka_256f /\ Address!F!haraka_256s = Address!haraka_256s
  BY <1>1, <1>2, Zenon
  DEF Address!F!haraka_128f, Address!haraka_128f, Address!F!haraka_128s, Address!haraka_128s,
      Address!F!haraka_192f, Address!haraka_192f, Address!F!haraka_192s, Address!haraka_192s,
      Address!F!haraka_256f, Address!haraka_256f, Address!F!haraka_256s, Address!haraka_256s
<1>4. /\ Address!F!sha2_128f = Address!sha2_128f /\ Address!F!sha2_128s = Address!sha2_128s
      /\ Address!F!sha2_192f = Address!sha2_192f /\ Address!F!sha2_192s = Address!sha2_192s
      /\ Address!F!sha2_256f = Address!sha2_256f /\ Address!F!sha2_256s = Address!sha2_256s
  BY <1>1, <1>2, Zenon
  DEF Address!F!sha2_128f, Address!sha2_128f, Address!F!sha2_128s, Address!sha2_128s,
      Address!F!sha2_192f, Address!sha2_192f, Address!F!sha2_192s, Address!sha2_192s,
      Address!F!sha2_256f, Address!sha2_256f, Address!F!sha2_256s, Address!sha2_256s
<1>5. /\ Address!F!shake_128f = Address!shake_128f /\ Address!F!shake_128s = Address!shake_128s
      /\ Address!F!shake_192f = Address!shake_192f /\ Address!F!shake_192s = Address!shake_192s
      /\ Address!F!shake_256f = Address!shake_256f /\ Address!F!shake_256s = Address!shake_256s
  BY <1>1, <1>2, Zenon
  DEF Address!F!shake_128f, Address!shake_128f, Address!F!shake_128s, Address!shake_128s,
      Address!F!shake_192f, Address!shake_192f, Address!F!shake_192s, Address!shake_192s,
      Address!F!shake_256f, Address!shake_256f, Address!F!shake_256s, Address!shake_256s
<1> QED BY <1>3, <1>4, <1>5, Zenon DEF Address!F!ParameterSets, Address!ParameterSets

Power(k) == 2 ^ k

LEMMA PowersFit ==
  /\ \A k \in {3, 4, 8, 9} : Power(k) \in {8, 16, 256, 512}
  /\ \A k \in {6, 8, 9, 12, 14} : Power(k) \in {64, 256, 512, 4096, 16384}
  /\ \A k \in 0 .. 8 : Power(k) \in 1 .. 256
<1>1. /\ Power(0) = 1 /\ Power(1) = 2 /\ Power(2) = 4 /\ Power(3) = 8 /\ Power(4) = 16 /\ Power(5) = 32
      /\ Power(6) = 64 /\ Power(7) = 128 /\ Power(8) = 256 /\ Power(9) = 512 /\ Power(12) = 4096
      /\ Power(14) = 16384
  BY SMT DEF Power
<1>2. \A k \in 0 .. 8 : k = 0 \/ k = 1 \/ k = 2 \/ k = 3 \/ k = 4 \/ k = 5 \/ k = 6 \/ k = 7 \/ k = 8  BY SMT
<1>3. \A k \in {3, 4, 8, 9} : Power(k) \in {8, 16, 256, 512}  BY <1>1, SMT
<1>4. \A k \in {6, 8, 9, 12, 14} : Power(k) \in {64, 256, 512, 4096, 16384}  BY <1>1, SMT
<1>5. \A k \in 0 .. 8 : Power(k) \in 1 .. 256  BY <1>1, <1>2, SMT
<1> QED BY <1>3, <1>4, <1>5

LEMMA LeavesFit ==
  ASSUME NEW trees \in 1 .. 35, NEW leaves \in {64, 256, 512, 4096, 16384}
  PROVE  Is32(trees * leaves - 1)
<1>1. /\ trees * 64 - 1 \in Nat /\ trees * 64 - 1 < 16777216
      /\ trees * 256 - 1 \in Nat /\ trees * 256 - 1 < 16777216
      /\ trees * 512 - 1 \in Nat /\ trees * 512 - 1 < 16777216
      /\ trees * 4096 - 1 \in Nat /\ trees * 4096 - 1 < 16777216
      /\ trees * 16384 - 1 \in Nat /\ trees * 16384 - 1 < 16777216
  BY SMT
<1>2. trees * leaves - 1 \in Nat /\ trees * leaves - 1 < 16777216
  BY <1>1, SMT
<1>3. \A x \in Nat : x < 16777216 => Is32(x)  BY SMT DEF Is32
<1> QED BY <1>2, <1>3, SMT

LEMMA ValuesFit ==
  ASSUME NEW s, Fits(s)
  PROVE  /\ \A x \in Address!F!Layers(s) : x \in 0 .. 255
         /\ \A x \in Address!F!Trees(s) : x \in [1 .. 8 -> 0 .. 255]
         /\ \A x \in Address!F!Types : x \in 0 .. 255
         /\ \A x \in Address!F!Keypairs(s) : Is32(x)
         /\ \A x \in Address!F!Chains(s) : x \in 0 .. 255
         /\ \A x \in Address!F!Hashes(s) : x \in 0 .. 255
         /\ \A x \in Address!F!Heights(s) : x \in 0 .. 255
         /\ \A x \in Address!F!Indices(s) : Is32(x)
<1>1. /\ \A x \in Address!F!Layers(s) : x \in 0 .. 255
      /\ \A x \in Address!F!Chains(s) : x \in 0 .. 255
      /\ \A x \in Address!F!Hashes(s) : x \in 0 .. 255
      /\ \A x \in Address!F!Heights(s) : x \in 0 .. 255
      /\ \A x \in Address!F!Types : x \in 0 .. 255
  BY DEF Fits, Address!F!Layers, Address!F!Chains, Address!F!Hashes, Address!F!Heights,
         Address!F!Types, Address!F!TypeWOTS, Address!F!TypeFORSPRF
<1>2. \A x \in Address!F!Keypairs(s) : Is32(x)
  <2>1. Power(s.TREE_HEIGHT) \in {8, 16, 256, 512}  BY PowersFit DEF Fits
  <2>2. Address!F!Keypairs(s) = {0, Power(s.TREE_HEIGHT) - 1}  BY DEF Address!F!Keypairs, Power
  <2> QED BY <2>1, <2>2 DEF Is32
<1>3. \A x \in Address!F!Indices(s) : Is32(x)
  <2>1. Power(s.FORS_HEIGHT) \in {64, 256, 512, 4096, 16384} /\ s.FORS_TREES \in 1 .. 35
    BY PowersFit, SMT DEF Fits
  <2>2. Address!F!Indices(s) = {0, s.FORS_TREES * Power(s.FORS_HEIGHT) - 1}  BY SMT DEF Address!F!Indices, Power
  <2>3. Is32(s.FORS_TREES * Power(s.FORS_HEIGHT) - 1)  BY <2>1, LeavesFit, SMT
  <2>4. Is32(0)  BY SMT DEF Is32
  <2> QED BY <2>2, <2>3, <2>4, Zenon
<1>4. Address!F!NoTree \in [1 .. 8 -> 0 .. 255]
  <2>1. Address!F!NoTree = [k \in 1 .. 8 |-> 0]  BY DEF Address!F!NoTree
  <2> QED BY <2>1
<1>5. Address!F!LastTree(s) \in [1 .. 8 -> 0 .. 255]
  <2> DEFINE bits == s.TREE_HEIGHT * (s.D - 1)
             width(k) == IF bits >= 8 * (9 - k) THEN 8 ELSE IF bits <= 8 * (8 - k) THEN 0 ELSE bits - (8 * (8 - k))
  <2>1. bits \in 0 .. 64  BY DEF Fits
  <2>2. Address!F!LastTree(s) = [k \in 1 .. 8 |-> Power(width(k)) - 1]  BY Zenon DEF Address!F!LastTree, Power
  <2> HIDE DEF bits
  <2>3. \A k \in 1 .. 8 : width(k) \in 0 .. 8  BY <2>1
  <2> HIDE DEF width
  <2>4. \A k \in 1 .. 8 : Power(width(k)) \in 1 .. 256  BY <2>3, PowersFit, SMT
  <2>5. \A k \in 1 .. 8 : Power(width(k)) - 1 \in 0 .. 255  BY <2>4
  <2> QED BY <2>2, <2>5, Zenon
<1>6. \A x \in Address!F!Trees(s) : x \in [1 .. 8 -> 0 .. 255]  BY <1>4, <1>5, Zenon DEF Address!F!Trees
<1> QED BY <1>1, <1>2, <1>3, <1>6

(* The two addresses are always legal: the offsets keep every field in its  *)
(* place, so nothing is written elsewhere.                                  *)
AddressInv == p \in Address!ParameterSets /\ Legal(p.offsets, in) /\ Legal(p.offsets, to)

LEMMA BlankIsLegal ==
  ASSUME NEW q, Placed(q)
  PROVE  Becomes(q, Address!Blank, Address!F!Blank)
<1>1. Address!Blank = [b \in 0 .. 31 |-> 0]  BY DEF Address!Blank, Address!Width
<1>2. Legal(q, Address!Blank)  BY <1>1 DEF Legal
<1>3. /\ q.layer \in 0 .. 31 /\ q.type \in 0 .. 31 /\ q.height \in 0 .. 31
      /\ \A k \in 1 .. 8 : q.tree + k - 1 \in 0 .. 31
      /\ \A k \in 0 .. 3 : q.keypair + k \in 0 .. 31 /\ q.index + k \in 0 .. 31
      /\ q.keypair \in 0 .. 31 /\ q.index \in 0 .. 31
  BY DEF Placed
<1>4. Address!Blank[q.layer] = 0 /\ Address!Blank[q.type] = 0 /\ Address!Blank[q.height] = 0  BY <1>1, <1>3
<1>5. TreeOf(q, Address!Blank) = Address!F!NoTree
  <2>1. TreeOf(q, Address!Blank) = [k \in 1 .. 8 |-> 0]  BY <1>1, <1>3 DEF TreeOf
  <2>2. Address!F!NoTree = [k \in 1 .. 8 |-> 0]  BY DEF Address!F!NoTree
  <2> QED BY <2>1, <2>2
<1>6. KeypairOf(q, Address!Blank) = 0 /\ IndexOf(q, Address!Blank) = 0
  BY <1>1, <1>3 DEF KeypairOf, IndexOf, Address!Word
<1>7. Address!Fields(q, Address!Blank) = Record(0, Address!F!NoTree, 0, 0, 0, 0)
  BY <1>4, <1>5, <1>6, FieldsAre, Zenon
<1> QED BY <1>2, <1>7, Zenon DEF Becomes, Record, Address!F!Blank

LEMMA AddressStarts ==
  ASSUME Address!SetsAssumption, Address!Init
  PROVE  AddressInv /\ Address!F!Init
<1>1. p \in Address!ParameterSets /\ in = Address!Blank /\ to = Address!Blank /\ call = "set"
  BY DEF Address!SetsAssumption, Address!Init
<1>2. Placed(p.offsets)  BY <1>1, SetsFit DEF Fits
<1>3. Becomes(p.offsets, in, Address!F!Blank) /\ Becomes(p.offsets, to, Address!F!Blank)
  BY <1>1, <1>2, BlankIsLegal
<1> QED BY <1>1, <1>3, SameSets, Zenon DEF AddressInv, Becomes, Address!F!Init

(* One call: what becomes of the bytes, and what of the fields. *)
LEMMA SetMoves ==
  ASSUME NEW new, NEW fields, Address!Set(new), AddressInv, Becomes(p.offsets, new, fields)
  PROVE  AddressInv' /\ Address!F!Set(fields)
<1>1. p' = p /\ in' = new /\ to' = to /\ call' = "set"  BY DEF Address!Set
<1>2. Address!Fields(p.offsets, in)' = Address!Fields(p.offsets, new)
      /\ Address!Fields(p.offsets, to)' = Address!Fields(p.offsets, to)
  BY <1>1 DEF Address!Fields, Address!Word
<1>3. Legal(p.offsets, in)' <=> Legal(p.offsets, new)  BY <1>1, Zenon DEF Legal, Held
<1>4. Legal(p.offsets, to)' <=> Legal(p.offsets, to)  BY <1>1, Zenon DEF Legal, Held
<1> QED BY <1>1, <1>2, <1>3, <1>4, Zenon DEF AddressInv, Becomes, Address!F!Set

LEMMA CopyMoves ==
  ASSUME NEW f, NEW new, NEW fields, Address!Copy(f, new), AddressInv, Becomes(p.offsets, new, fields)
  PROVE  AddressInv' /\ Address!F!Copy(f, fields)
<1>1. p' = p /\ to' = new /\ in' = in /\ call' = f  BY DEF Address!Copy
<1>2. Address!Fields(p.offsets, to)' = Address!Fields(p.offsets, new)
      /\ Address!Fields(p.offsets, in)' = Address!Fields(p.offsets, in)
  BY <1>1 DEF Address!Fields, Address!Word
<1>3. Legal(p.offsets, to)' <=> Legal(p.offsets, new)  BY <1>1, Zenon DEF Legal, Held
<1>4. Legal(p.offsets, in)' <=> Legal(p.offsets, in)  BY <1>1, Zenon DEF Legal, Held
<1> QED BY <1>1, <1>2, <1>3, <1>4, Zenon DEF AddressInv, Becomes, Address!F!Copy

LEMMA AddressStep ==
  ASSUME AddressInv, Address!Next
  PROVE  AddressInv' /\ Address!F!Next
<1>1. Placed(p.offsets) /\ Fits(p) /\ Legal(p.offsets, in) /\ Legal(p.offsets, to)
  BY SetsFit DEF AddressInv, Fits
<1>2. CASE \E x \in Address!F!Layers(p) : Address!Set(Address!set_layer_addr(p.offsets, in, x))
  <2> PICK x \in Address!F!Layers(p) : Address!Set(Address!set_layer_addr(p.offsets, in, x))  BY <1>2
  <2>1. Becomes(p.offsets, Address!set_layer_addr(p.offsets, in, x),
                Address!F!set_layer_addr(Address!Fields(p.offsets, in), x))
    BY <1>1, ValuesFit, SetsTheField
  <2>2. AddressInv' /\ Address!F!Set(Address!F!set_layer_addr(Address!Fields(p.offsets, in), x))
    BY <2>1, SetMoves
  <2> QED BY <2>2, Zenon DEF Address!F!Next
<1>3. CASE \E x \in Address!F!Trees(p) : Address!Set(Address!set_tree_addr(p.offsets, in, x))
  <2> PICK x \in Address!F!Trees(p) : Address!Set(Address!set_tree_addr(p.offsets, in, x))  BY <1>3
  <2>1. Becomes(p.offsets, Address!set_tree_addr(p.offsets, in, x),
                Address!F!set_tree_addr(Address!Fields(p.offsets, in), x))
    BY <1>1, ValuesFit, SetsTheField
  <2>2. AddressInv' /\ Address!F!Set(Address!F!set_tree_addr(Address!Fields(p.offsets, in), x))
    BY <2>1, SetMoves
  <2> QED BY <2>2, Zenon DEF Address!F!Next
<1>4. CASE \E x \in Address!F!Types : Address!Set(Address!set_type(p.offsets, in, x))
  <2> PICK x \in Address!F!Types : Address!Set(Address!set_type(p.offsets, in, x))  BY <1>4
  <2>1. Becomes(p.offsets, Address!set_type(p.offsets, in, x),
                Address!F!set_type(Address!Fields(p.offsets, in), x))
    BY <1>1, ValuesFit, SetsTheField
  <2>2. AddressInv' /\ Address!F!Set(Address!F!set_type(Address!Fields(p.offsets, in), x))
    BY <2>1, SetMoves
  <2> QED BY <2>2, Zenon DEF Address!F!Next
<1>5. CASE \E x \in Address!F!Keypairs(p) : Address!Set(Address!set_keypair_addr(p.offsets, in, x))
  <2> PICK x \in Address!F!Keypairs(p) : Address!Set(Address!set_keypair_addr(p.offsets, in, x))  BY <1>5
  <2>1. Becomes(p.offsets, Address!set_keypair_addr(p.offsets, in, x),
                Address!F!set_keypair_addr(Address!Fields(p.offsets, in), x))
    BY <1>1, ValuesFit, SetsTheField
  <2>2. AddressInv' /\ Address!F!Set(Address!F!set_keypair_addr(Address!Fields(p.offsets, in), x))
    BY <2>1, SetMoves
  <2> QED BY <2>2, Zenon DEF Address!F!Next
<1>6. CASE \E x \in Address!F!Chains(p) : Address!Set(Address!set_chain_addr(p.offsets, in, x))
  <2> PICK x \in Address!F!Chains(p) : Address!Set(Address!set_chain_addr(p.offsets, in, x))  BY <1>6
  <2>1. Becomes(p.offsets, Address!set_chain_addr(p.offsets, in, x),
                Address!F!set_chain_addr(Address!Fields(p.offsets, in), x))
    BY <1>1, ValuesFit, SetsTheField
  <2>2. AddressInv' /\ Address!F!Set(Address!F!set_chain_addr(Address!Fields(p.offsets, in), x))
    BY <2>1, SetMoves
  <2> QED BY <2>2, Zenon DEF Address!F!Next
<1>7. CASE \E x \in Address!F!Hashes(p) : Address!Set(Address!set_hash_addr(p.offsets, in, x))
  <2> PICK x \in Address!F!Hashes(p) : Address!Set(Address!set_hash_addr(p.offsets, in, x))  BY <1>7
  <2>1. Becomes(p.offsets, Address!set_hash_addr(p.offsets, in, x),
                Address!F!set_hash_addr(Address!Fields(p.offsets, in), x))
    BY <1>1, ValuesFit, SetsTheField
  <2>2. AddressInv' /\ Address!F!Set(Address!F!set_hash_addr(Address!Fields(p.offsets, in), x))
    BY <2>1, SetMoves
  <2> QED BY <2>2, Zenon DEF Address!F!Next
<1>8. CASE \E x \in Address!F!Heights(p) : Address!Set(Address!set_tree_height(p.offsets, in, x))
  <2> PICK x \in Address!F!Heights(p) : Address!Set(Address!set_tree_height(p.offsets, in, x))  BY <1>8
  <2>1. Becomes(p.offsets, Address!set_tree_height(p.offsets, in, x),
                Address!F!set_tree_height(Address!Fields(p.offsets, in), x))
    BY <1>1, ValuesFit, SetsTheField
  <2>2. AddressInv' /\ Address!F!Set(Address!F!set_tree_height(Address!Fields(p.offsets, in), x))
    BY <2>1, SetMoves
  <2> QED BY <2>2, Zenon DEF Address!F!Next
<1>9. CASE \E x \in Address!F!Indices(p) : Address!Set(Address!set_tree_index(p.offsets, in, x))
  <2> PICK x \in Address!F!Indices(p) : Address!Set(Address!set_tree_index(p.offsets, in, x))  BY <1>9
  <2>1. Becomes(p.offsets, Address!set_tree_index(p.offsets, in, x),
                Address!F!set_tree_index(Address!Fields(p.offsets, in), x))
    BY <1>1, ValuesFit, SetsTheField
  <2>2. AddressInv' /\ Address!F!Set(Address!F!set_tree_index(Address!Fields(p.offsets, in), x))
    BY <2>1, SetMoves
  <2> QED BY <2>2, Zenon DEF Address!F!Next
<1>10. CASE Address!Copy("subtree", Address!copy_subtree_addr(p.offsets, to, in))
  <2>1. Becomes(p.offsets, Address!copy_subtree_addr(p.offsets, to, in),
                Address!F!copy_subtree_addr(Address!Fields(p.offsets, to), Address!Fields(p.offsets, in)))
    BY <1>1, CopiesTheFields
  <2>2. AddressInv' /\ Address!F!Copy("subtree", Address!F!copy_subtree_addr(
          Address!Fields(p.offsets, to), Address!Fields(p.offsets, in)))
    BY <1>10, <2>1, CopyMoves
  <2> QED BY <2>2, Zenon DEF Address!F!Next
<1>11. CASE Address!Copy("keypair", Address!copy_keypair_addr(p.offsets, to, in))
  <2>1. Becomes(p.offsets, Address!copy_keypair_addr(p.offsets, to, in),
                Address!F!copy_keypair_addr(Address!Fields(p.offsets, to), Address!Fields(p.offsets, in)))
    BY <1>1, CopiesTheFields
  <2>2. AddressInv' /\ Address!F!Copy("keypair", Address!F!copy_keypair_addr(
          Address!Fields(p.offsets, to), Address!Fields(p.offsets, in)))
    BY <1>11, <2>1, CopyMoves
  <2> QED BY <2>2, Zenon DEF Address!F!Next
<1> QED BY <1>2, <1>3, <1>4, <1>5, <1>6, <1>7, <1>8, <1>9, <1>10, <1>11, Zenon DEF Address!Next

LEMMA AddressStutters ==
  ASSUME AddressInv, UNCHANGED <<p, in, to, call>>
  PROVE  AddressInv' /\ UNCHANGED <<p, Address!Fields(p.offsets, in), Address!Fields(p.offsets, to), call>>
<1>1. p' = p /\ in' = in /\ to' = to /\ call' = call  OBVIOUS
<1>2. Address!Fields(p.offsets, to)' = Address!Fields(p.offsets, to)
      /\ Address!Fields(p.offsets, in)' = Address!Fields(p.offsets, in)
  BY <1>1 DEF Address!Fields, Address!Word
<1>3. (Legal(p.offsets, to)' <=> Legal(p.offsets, to)) /\ (Legal(p.offsets, in)' <=> Legal(p.offsets, in))
  BY <1>1, Zenon DEF Legal, Held
<1> QED BY <1>1, <1>2, <1>3, Zenon DEF AddressInv

LEMMA AboveNone ==
  ASSUME NEW h \in {22, 32}, NEW held \in SUBSET (0 .. h - 1)
  PROVE  \A b \in 0 .. 31 : b >= h => b \notin held
OBVIOUS

(* What holds in every legal state. *)
LEMMA HashesSee ==
  ASSUME AddressInv
  PROVE  Address!HashSeesEveryField
<1> DEFINE q == p.offsets
<1>1. Placed(q) /\ Legal(q, in) /\ Legal(q, to)  BY SetsFit DEF AddressInv, Fits
<1> HIDE DEF q
<1>2. Held(q) \subseteq 0 .. Address!Hashed(q) - 1 /\ Address!Hashed(q) \in {22, 32}
  BY <1>1 DEF Held, Placed
<1>3. \A addr \in {in, to}, b \in 0 .. 31 :
        addr[b] \in 0 .. 255 /\ (b >= Address!Hashed(q) \/ b \notin Held(q) => addr[b] = 0)
  <2>1. \A addr \in {in, to}, b \in 0 .. 31 : addr[b] \in 0 .. 255 /\ (b \notin Held(q) => addr[b] = 0)
    BY <1>1, Zenon DEF Legal
  <2>2. \A b \in 0 .. 31 : b >= Address!Hashed(q) => b \notin Held(q)
    BY <1>2, AboveNone
  <2> QED BY <2>1, <2>2, Zenon
<1>4. ASSUME \A b \in 0 .. Address!Hashed(q) - 1 : in[b] = 0
      PROVE  Address!Fields(q, in) = Address!F!Blank
  <2>1. \A b \in 0 .. 31 : in[b] = 0  BY <1>2, <1>3, <1>4
  <2>2. in = Address!Blank
    <3>1. in = [b \in 0 .. 31 |-> in[b]]  BY <1>1 DEF Legal
    <3>2. in = [b \in 0 .. 31 |-> 0]  BY <2>1, <3>1, Zenon
    <3>3. Address!Width - 1 = 31  BY DEF Address!Width
    <3> QED BY <3>2, <3>3, Zenon DEF Address!Blank
  <2> QED BY <1>1, <2>2, BlankIsLegal, Zenon DEF Becomes
<1>5. 0 .. Address!Width - 1 = 0 .. 31  BY DEF Address!Width
<1>6. Address!Fields(q, in) # Address!F!Blank => \E b \in 0 .. Address!Hashed(q) - 1 : in[b] # 0  BY <1>4, Zenon
<1>7. \A addr \in {in, to}, b \in 0 .. Address!Width - 1 :
        addr[b] \in 0 .. 255 /\ (b >= Address!Hashed(q) \/ b \notin Held(q) => addr[b] = 0)
  BY <1>3, <1>5, Zenon
<1> QED BY <1>6, <1>7, Zenon DEF Address!HashSeesEveryField, Held, q

LEMMA SetsAreSound ==
  ASSUME AddressInv
  PROVE  Address!ChecksumFits /\ Address!SizesAgree
<1>1. Fits(p) /\ p.WOTS_LEN1 \in {32, 48, 64} /\ p.WOTS_LEN2 = 3  BY SetsFit DEF AddressInv
<1>2. Address!ChecksumFits
  <2>1. p.WOTS_W = 16 /\ p.WOTS_LEN2 - 1 = 2  BY <1>1 DEF Fits
  <2>2. 16 ^ 3 = 4096 /\ 16 ^ 2 = 256  BY SMT
  <2>3. p.WOTS_W ^ p.WOTS_LEN2 = 4096 /\ p.WOTS_W ^ (p.WOTS_LEN2 - 1) = 256 /\ p.WOTS_W - 1 = 15
    BY <1>1, <2>1, <2>2, SMT
  <2>4. p.WOTS_LEN1 * (p.WOTS_W - 1) < 4096 /\ p.WOTS_LEN1 * (p.WOTS_W - 1) >= 256
    BY <1>1, <2>3, SMT
  <2> QED BY <2>3, <2>4, SMT DEF Address!ChecksumFits
<1>3. p = Address!shake_128s => p.PK_BYTES = 32 /\ p.SK_BYTES = 64 /\ p.BYTES = 7856
  <2> HAVE p = Address!shake_128s
  <2>1. Address!LOGW(16) = 4 /\ Address!LEN2(16, 16) = 3  BY DEF Address!LOGW, Address!LEN2
  <2>2. (8 * 16) \div 4 = 32  BY SMT
  <2>3. p.PK_BYTES = 2 * 16 /\ p.SK_BYTES = 4 * 16
        /\ p.BYTES = 16 + ((12 + 1) * 14 * 16) + (7 * ((8 * 16) \div 4 + 3) * 16) + (63 * 16)
    BY <2>1 DEF Address!shake_128s, Address!Header
  <2> QED BY <2>2, <2>3, SMT
<1> QED BY <1>1, <1>2, <1>3, SMT DEF Address!SizesAgree, Fits

(* The bytes behave as the fields of AddressFields, and in every state the *)
(* hash functions take every field of both addresses, the checksums fit    *)
(* their digits and the sizes of the parameter set agree.                  *)
AddressesHoldTheFields ==
  /\ Address!F!Spec
  /\ [](Address!HashSeesEveryField /\ Address!ChecksumFits /\ Address!SizesAgree)

(* Every order of calls of address.c, on any of the parameter sets, does   *)
(* to the bytes what the same calls do to the record of fields: no setter  *)
(* or copy disturbs a field it is not about (address.c, sha2_offsets.h,    *)
(* shake_offsets.h).                                                       *)
THEOREM AddressesImplementTheFields ==
  ASSUME Address!SetsAssumption
  PROVE  Address!Spec => AddressesHoldTheFields
<1>1. Address!Init => AddressInv /\ Address!F!Init  BY AddressStarts
<1>2. AddressInv /\ [Address!Next]_<<p, in, to, call>> => AddressInv'
  BY AddressStep, AddressStutters
<1>3. AddressInv /\ [Address!Next]_<<p, in, to, call>> =>
        [Address!F!Next]_<<p, Address!Fields(p.offsets, in), Address!Fields(p.offsets, to), call>>
  BY AddressStep, AddressStutters
<1>4. AddressInv => Address!HashSeesEveryField /\ Address!ChecksumFits /\ Address!SizesAgree
  BY HashesSee, SetsAreSound
<1> QED BY <1>1, <1>2, <1>3, <1>4, PTL DEF Address!Spec, Address!F!Spec, AddressesHoldTheFields

-----------------------------------------------------------------------------
(***************************************************************************)
(* One-time signatures.  The numbers that every parameter set has are      *)
(* those of WotsSizes: digits of four bits and a checksum of three digits, *)
(* which is large enough for messages of up to 136 bytes.                  *)
(*                                                                         *)
(* First the digits: each is half a byte, and when no digit of a message   *)
(* is larger than that of another one its checksum is larger, so that some *)
(* digit of the checksum is larger.  Then the counting sort, which is a    *)
(* bijection, longest chains first.  Then the loop, with the invariant     *)
(* WotsInv: going by the order of the sort, where the chains stand that    *)
(* are before the group, in a lane that is watched, in one that was        *)
(* dropped, and behind the group.                                          *)
(***************************************************************************)
CONSTANTS N, LOGW, LEN2, Messages
VARIABLES msg, build, lengths, steps, idxs, phase, group, watching, climbed, bufs, chains, values

Wots == INSTANCE SphincsWots WITH start <- lengths, i <- group, k <- climbed, out <- values

WotsSizes == Wots!SizesAssumption /\ LOGW = 4 /\ LEN2 = 3 /\ N <= 136

LEMMA WotsNumbers ==
  ASSUME WotsSizes
  PROVE  /\ N \in 1 .. 136
         /\ Wots!W = 16 /\ Wots!LEN1 = 2 * N /\ Wots!LEN = 2 * N + 3
         /\ Wots!Chains = 0 .. 2 * N + 2
<1>1. N \in 1 .. 136 /\ LOGW = 4 /\ LEN2 = 3  BY DEF WotsSizes, Wots!SizesAssumption
<1>2. Wots!W = 16
  <2>1. Wots!W = 2 ^ 4  BY <1>1, Zenon DEF Wots!W
  <2> QED BY <2>1, SMT
<1>3. Wots!LEN1 = 2 * N  BY <1>1 DEF Wots!LEN1
<1>4. Wots!LEN = 2 * N + 3  BY <1>1, <1>3 DEF Wots!LEN
<1>5. Wots!Chains = 0 .. 2 * N + 2  BY <1>1, <1>4 DEF Wots!Chains
<1> QED BY <1>1, <1>2, <1>3, <1>4, <1>5

(* The two digits of a byte, the greater one first.                        *)
Nibble(bytes, o) == IF o % 2 = 0 THEN bytes[o \div 2] \div 16 ELSE bytes[o \div 2] % 16

LEMMA DigitsAreNibbles ==
  ASSUME WotsSizes, NEW n \in Nat, NEW bytes, \A o \in 0 .. n - 1 : bytes[o \div 2] \in 0 .. 255
  PROVE  Wots!base_w(n, bytes) = [o \in 0 .. n - 1 |-> Nibble(bytes, o)]
<1>1. LOGW = 4 /\ Wots!W = 16  BY WotsNumbers DEF WotsSizes
<1>2. 2 ^ 4 = 16 /\ 2 ^ 0 = 1  BY SMT
<1>3. ASSUME NEW o \in 0 .. n - 1
      PROVE  (bytes[(o * LOGW) \div 8] \div 2 ^ (8 - LOGW - ((o * LOGW) % 8))) % Wots!W = Nibble(bytes, o)
  <2>1. (o * LOGW) \div 8 = o \div 2 /\ (o % 2 = 0 \/ o % 2 = 1)  BY <1>1
  <2> DEFINE e == 8 - LOGW - ((o * LOGW) % 8)
             byte == bytes[o \div 2]
  <2>2. byte \in 0 .. 255  OBVIOUS
  <2>3. CASE o % 2 = 0
    <3>1. e = 4  BY <1>1, <2>3
    <3>2. 2 ^ e = 16  BY <1>2, <3>1, Zenon
    <3> HIDE DEF e, byte
    <3>3. (byte \div 16) % 16 = byte \div 16  BY <2>2
    <3> QED BY <1>1, <2>1, <2>3, <3>2, <3>3, Zenon DEF e, byte, Nibble
  <2>4. CASE o % 2 = 1
    <3>1. e = 0  BY <1>1, <2>4
    <3>2. 2 ^ e = 1  BY <1>2, <3>1, Zenon
    <3> HIDE DEF e, byte
    <3>3. (byte \div 1) % 16 = byte % 16 /\ 1 # 0  BY <2>2
    <3> QED BY <1>1, <2>1, <2>4, <3>2, <3>3, Zenon DEF e, byte, Nibble
  <2> QED BY <2>1, <2>3, <2>4
<1> QED BY <1>3, Zenon DEF Wots!base_w

(* The checksum of some digits, and the digits it is written in.           *)
SumStep(digits, f, n) == [c \in 0 .. n |-> IF c = 0 THEN 0 ELSE f[c - 1] + (15 - digits[c - 1])]
HasThreeDigits(x) == x \in Nat /\ x < 4096
Total(f) == f[2 * N]
IsSum(digits, f) == f = SumStep(digits, f, 2 * N)
CheckDigit(csum, o) == IF o = 0 THEN csum \div 256 ELSE IF o = 1 THEN (csum \div 16) % 16 ELSE csum % 16

LEMMA SumExists ==
  ASSUME NEW digits, NEW n \in Nat
  PROVE  \E f : f = SumStep(digits, f, n)
<1> DEFINE T == {m \in Nat : \E f : f = SumStep(digits, f, m)}
<1>1. 0 \in T
  <2>1. [c \in 0 .. 0 |-> 0] = SumStep(digits, [c \in 0 .. 0 |-> 0], 0)  BY DEF SumStep
  <2> QED BY <2>1
<1>2. ASSUME NEW m \in Nat, m \in T
      PROVE  m + 1 \in T
  <2>1. PICK f : f = SumStep(digits, f, m)  BY <1>2
  <2> DEFINE g == [c \in 0 .. m + 1 |-> IF c = m + 1 THEN f[m] + (15 - digits[m]) ELSE f[c]]
  <2>2. \A c \in 0 .. m : f[c] = IF c = 0 THEN 0 ELSE f[c - 1] + (15 - digits[c - 1])  BY <2>1 DEF SumStep
  <2>3. \A c \in 0 .. m + 1 : g[c] = IF c = 0 THEN 0 ELSE g[c - 1] + (15 - digits[c - 1])
    <3> TAKE c \in 0 .. m + 1
    <3>1. CASE c = m + 1
      <4>1. c - 1 = m /\ c - 1 \in 0 .. m + 1 /\ c - 1 # m + 1 /\ c # 0  BY <3>1
      <4> QED BY <3>1, <4>1
    <3>2. CASE c # m + 1
      <4>1. c \in 0 .. m /\ c - 1 # m + 1 /\ (c # 0 => c - 1 \in 0 .. m + 1)  BY <3>2
      <4> QED BY <2>2, <3>2, <4>1
    <3> QED BY <3>1, <3>2
  <2>4. g = SumStep(digits, g, m + 1)  BY <2>3 DEF SumStep
  <2> QED BY <2>4
<1> HIDE DEF T
<1>3. Nat \subseteq T  BY <1>1, <1>2, Induction
<1> QED BY <1>3 DEF T

LEMMA ChecksumIs ==
  ASSUME WotsSizes, NEW digits
  PROVE  \E f : /\ IsSum(digits, f)
                /\ HasThreeDigits(Total(f)) =>
                     Wots!wots_checksum(digits) = [o \in 0 .. 2 |-> CheckDigit(Total(f), o)]
<1> DEFINE Sum == CHOOSE f : f = [c \in 0 .. Wots!LEN1 |->
                     IF c = 0 THEN 0 ELSE f[c - 1] + (Wots!W - 1 - digits[c - 1])]
<1>1. N \in 1 .. 136 /\ Wots!W = 16 /\ Wots!LEN1 = 2 * N /\ LOGW = 4 /\ LEN2 = 3
  BY WotsNumbers DEF WotsSizes
<1>2. \A f : [c \in 0 .. Wots!LEN1 |-> IF c = 0 THEN 0 ELSE f[c - 1] + (Wots!W - 1 - digits[c - 1])]
               = SumStep(digits, f, 2 * N)
  <2>1. Wots!W - 1 = 15  BY <1>1
  <2> QED BY <1>1, <2>1, Zenon DEF SumStep
<1>3. IsSum(digits, Sum)
  <2>1. \E f : f = SumStep(digits, f, 2 * N)  BY <1>1, SumExists
  <2> QED BY <1>2, <2>1 DEF IsSum
<1>4. ASSUME HasThreeDigits(Total(Sum))
      PROVE  Wots!wots_checksum(digits) = [o \in 0 .. 2 |-> CheckDigit(Total(Sum), o)]
  <2> DEFINE pad == (8 - ((LEN2 * LOGW) % 8)) % 8
             total == Total(Sum)
             x == total * 16
             bytes == Wots!ull_to_bytes(2, x)
  <2>1. pad = 4 /\ ((LEN2 * LOGW) + 7) \div 8 = 2  BY <1>1
  <2>2. 2 ^ pad = 16
    <3>1. 2 ^ 4 = 16  BY SMT
    <3> QED BY <2>1, <3>1, Zenon
  <2>3. Wots!wots_checksum(digits) = Wots!base_w(3, bytes)
    BY <1>1, <2>1, <2>2, Zenon DEF Wots!wots_checksum, Total
  <2>4. (total \in Nat /\ total < 4096)  BY <1>4 DEF HasThreeDigits
  <2> HIDE DEF Sum, pad, total
  <2>5. x \in Nat /\ x < 65536 /\ x \div 256 \in 0 .. 255 /\ x \div 1 = x
        /\ x \div 256 = total \div 16 /\ x % 256 = (total % 16) * 16
    BY <2>4
  <2> HIDE DEF x
  <2>6. bytes[0] = (x \div 256) % 256 /\ bytes[1] = x % 256
    <3>1. 256 ^ 1 = 256 /\ 256 ^ 0 = 1  BY SMT
    <3>2. 2 - 1 - 0 = 1 /\ 2 - 1 - 1 = 0 /\ 0 \in 0 .. 2 - 1 /\ 1 \in 0 .. 2 - 1  BY SMT
    <3>3. 256 ^ (2 - 1 - 0) = 256 /\ 256 ^ (2 - 1 - 1) = 1  BY <3>1, <3>2, Zenon
    <3>4. bytes = [b \in 0 .. 2 - 1 |-> (x \div 256 ^ (2 - 1 - b)) % 256]  BY Zenon DEF Wots!ull_to_bytes
    <3>5. bytes[0] = (x \div 256 ^ (2 - 1 - 0)) % 256 /\ bytes[1] = (x \div 256 ^ (2 - 1 - 1)) % 256
      BY <3>2, <3>4, SMT
    <3>6. bytes[0] = (x \div 256) % 256 /\ bytes[1] = (x \div 1) % 256  BY <3>3, <3>5
    <3> QED BY <2>5, <3>6
  <2> HIDE DEF bytes
  <2>7. bytes[0] = total \div 16 /\ bytes[1] = (total % 16) * 16 /\ bytes[0] \in 0 .. 255 /\ bytes[1] \in 0 .. 255
    <3>1. total \div 16 \in 0 .. 255 /\ (total % 16) * 16 \in 0 .. 255  BY <2>4
    <3>2. \A y \in 0 .. 255 : y % 256 = y  OBVIOUS
    <3>3. (x \div 256) % 256 = x \div 256  BY <2>5, <3>2
    <3>4. bytes[0] = total \div 16  BY <2>5, <2>6, <3>3
    <3>5. bytes[1] = (total % 16) * 16  BY <2>5, <2>6
    <3> QED BY <3>1, <3>4, <3>5
  <2>8. Wots!base_w(3, bytes) = [o \in 0 .. 2 |-> Nibble(bytes, o)]
    <3>1. \A o \in 0 .. 3 - 1 : o \div 2 = 0 \/ o \div 2 = 1  OBVIOUS
    <3>2. \A o \in 0 .. 3 - 1 : bytes[o \div 2] \in 0 .. 255  BY <2>7, <3>1
    <3>3. Wots!base_w(3, bytes) = [o \in 0 .. 3 - 1 |-> Nibble(bytes, o)]  BY <3>2, DigitsAreNibbles
    <3> QED BY <3>3
  <2>9. \A o \in 0 .. 2 : Nibble(bytes, o) = CheckDigit(total, o)
    <3>1. Nibble(bytes, 0) = bytes[0] \div 16 /\ Nibble(bytes, 1) = bytes[0] % 16 /\ Nibble(bytes, 2) = bytes[1] \div 16
      BY DEF Nibble
    <3>2. CheckDigit(total, 0) = total \div 256 /\ CheckDigit(total, 1) = (total \div 16) % 16
          /\ CheckDigit(total, 2) = total % 16
      BY DEF CheckDigit
    <3>3. (total \div 16) \div 16 = total \div 256 /\ ((total % 16) * 16) \div 16 = total % 16  BY <2>4
    <3>4. \A o \in 0 .. 2 : o = 0 \/ o = 1 \/ o = 2  OBVIOUS
    <3> QED BY <2>7, <3>1, <3>2, <3>3, <3>4
  <2> QED BY <2>3, <2>8, <2>9 DEF total
<1> HIDE DEF Sum
<1> QED BY <1>3, <1>4

Digits(m) == [o \in 0 .. 2 * N - 1 |-> Nibble(m, o)]
DigitFunctions == [0 .. 2 * N - 1 -> 0 .. 15]

(* Smaller digits have a larger checksum. *)
LEMMA SumsCompare ==
  ASSUME N \in 1 .. 136, NEW d \in DigitFunctions, NEW e \in DigitFunctions,
         \A c \in 0 .. 2 * N - 1 : d[c] <= e[c],
         NEW f, IsSum(d, f), NEW g, IsSum(e, g)
  PROVE  /\ HasThreeDigits(Total(f)) /\ HasThreeDigits(Total(g))
         /\ (\E c \in 0 .. 2 * N - 1 : d[c] < e[c]) => Total(g) < Total(f)
<1> DEFINE Good(n) == /\ f[n] \in 0 .. 15 * n /\ g[n] \in 0 .. 15 * n /\ g[n] <= f[n]
                      /\ (\E c \in 0 .. n - 1 : d[c] < e[c]) => g[n] < f[n]
           T == {n \in Nat : n <= 2 * N => Good(n)}
<1>1. \A c \in 0 .. 2 * N : /\ f[c] = IF c = 0 THEN 0 ELSE f[c - 1] + (15 - d[c - 1])
                            /\ g[c] = IF c = 0 THEN 0 ELSE g[c - 1] + (15 - e[c - 1])
  <2>1. \A c \in 0 .. 2 * N : f[c] = IF c = 0 THEN 0 ELSE f[c - 1] + (15 - d[c - 1])
    BY DEF IsSum, SumStep
  <2>2. \A c \in 0 .. 2 * N : g[c] = IF c = 0 THEN 0 ELSE g[c - 1] + (15 - e[c - 1])
    BY DEF IsSum, SumStep
  <2> QED BY <2>1, <2>2
<1>2. 0 \in T
  <2>1. f[0] = 0 /\ g[0] = 0  BY <1>1
  <2>2. ~ \E c \in 0 .. 0 - 1 : d[c] < e[c]  OBVIOUS
  <2> QED BY <2>1, <2>2
<1>3. ASSUME NEW n \in Nat, n \in T
      PROVE  n + 1 \in T
  <2> SUFFICES ASSUME n + 1 <= 2 * N
               PROVE  Good(n + 1)
    OBVIOUS
  <2>1. n \in 0 .. 2 * N - 1 /\ n + 1 \in 0 .. 2 * N /\ (n + 1) - 1 = n /\ n + 1 # 0  OBVIOUS
  <2>2. Good(n)  BY <1>3, <2>1
  <2>3. f[n + 1] = f[n] + (15 - d[n]) /\ g[n + 1] = g[n] + (15 - e[n])  BY <1>1, <2>1
  <2>4. d[n] \in 0 .. 15 /\ e[n] \in 0 .. 15 /\ d[n] <= e[n]  BY <2>1 DEF DigitFunctions
  <2>5. f[n + 1] \in 0 .. 15 * (n + 1) /\ g[n + 1] \in 0 .. 15 * (n + 1) /\ g[n + 1] <= f[n + 1]
    BY <2>2, <2>3, <2>4
  <2>6. ASSUME NEW c \in 0 .. n, d[c] < e[c]
        PROVE  g[n + 1] < f[n + 1]
    <3>1. CASE c = n  BY <2>2, <2>3, <2>4, <2>6, <3>1
    <3>2. CASE c # n
      <4>1. c \in 0 .. n - 1  BY <3>2
      <4>2. g[n] < f[n]  BY <2>2, <2>6, <4>1
      <4> QED BY <2>2, <2>3, <2>4, <4>2
    <3> QED BY <3>1, <3>2
  <2> QED BY <2>5, <2>6
<1> HIDE DEF T
<1>4. Nat \subseteq T  BY <1>2, <1>3, Induction
<1>5. Good(2 * N)
  <2>1. 2 * N \in Nat /\ 2 * N <= 2 * N  OBVIOUS
  <2> QED BY <1>4, <2>1 DEF T
<1>6. \A x \in 0 .. 15 * (2 * N) : HasThreeDigits(x)  BY DEF HasThreeDigits
<1> QED BY <1>5, <1>6, Zenon DEF Total

LEMMA DigitsFit ==
  ASSUME N \in 1 .. 136, NEW m \in [0 .. N - 1 -> 0 .. 255]
  PROVE  /\ Digits(m) \in DigitFunctions
         /\ \A o \in 0 .. 2 * N - 1 : m[o \div 2] \in 0 .. 255
<1>1. \A o \in 0 .. 2 * N - 1 : o \div 2 \in 0 .. N - 1  OBVIOUS
<1>2. \A o \in 0 .. 2 * N - 1 : m[o \div 2] \in 0 .. 255
  <2>1. \A b \in 0 .. N - 1 : m[b] \in 0 .. 255  BY Zenon
  <2> QED BY <1>1, <2>1, Zenon
<1>3. \A x \in 0 .. 255 : x \div 16 \in 0 .. 15 /\ x % 16 \in 0 .. 15  OBVIOUS
<1>4. \A o \in 0 .. 2 * N - 1 : Nibble(m, o) \in 0 .. 15  BY <1>2, <1>3 DEF Nibble
<1> QED BY <1>2, <1>4 DEF Digits, DigitFunctions

(* The lengths of the chains: the digits of m, then those of its checksum. *)
LengthsBy(m, f) == [c \in 0 .. 2 * N + 2 |-> IF c < 2 * N THEN Nibble(m, c) ELSE CheckDigit(Total(f), c - 2 * N)]

LEMMA LengthsAre ==
  ASSUME WotsSizes, NEW m \in Messages
  PROVE  \E f : IsSum(Digits(m), f) /\ HasThreeDigits(Total(f)) /\ Wots!chain_lengths(m) = LengthsBy(m, f)
<1>1. N \in 1 .. 136 /\ Wots!LEN1 = 2 * N /\ Wots!Chains = 0 .. 2 * N + 2 /\ m \in [0 .. N - 1 -> 0 .. 255]
  BY WotsNumbers DEF WotsSizes, Wots!SizesAssumption
<1>2. Digits(m) \in DigitFunctions /\ \A o \in 0 .. 2 * N - 1 : m[o \div 2] \in 0 .. 255  BY <1>1, DigitsFit
<1>3. Wots!base_w(2 * N, m) = Digits(m)
  <2>1. 2 * N \in Nat  BY <1>1
  <2> QED BY <1>2, <2>1, DigitsAreNibbles, Zenon DEF Digits
<1>4. PICK f : IsSum(Digits(m), f) /\ (HasThreeDigits(Total(f)) =>
                  Wots!wots_checksum(Digits(m)) = [o \in 0 .. 2 |-> CheckDigit(Total(f), o)])
  BY ChecksumIs
<1>5. HasThreeDigits(Total(f))
  <2>1. \A c \in 0 .. 2 * N - 1 : Digits(m)[c] <= Digits(m)[c]  BY <1>2 DEF DigitFunctions
  <2> QED BY <1>1, <1>2, <1>4, <2>1, SumsCompare, Zenon
<1>6. Wots!wots_checksum(Digits(m)) = [o \in 0 .. 2 |-> CheckDigit(Total(f), o)]  BY <1>4, <1>5
<1>7. Wots!chain_lengths(m) =
        [c \in 0 .. 2 * N + 2 |-> IF c < 2 * N THEN Digits(m)[c] ELSE Wots!wots_checksum(Digits(m))[c - 2 * N]]
  BY <1>1, <1>3, Zenon DEF Wots!chain_lengths
<1>8. \A c \in 0 .. 2 * N + 2 : /\ c < 2 * N => Digits(m)[c] = Nibble(m, c)
                                /\ ~ (c < 2 * N) => Wots!wots_checksum(Digits(m))[c - 2 * N] = CheckDigit(Total(f), c - 2 * N)
  <2>1. \A c \in 0 .. 2 * N + 2 : (c < 2 * N => c \in 0 .. 2 * N - 1) /\ (~ (c < 2 * N) => c - 2 * N \in 0 .. 2)  BY <1>1
  <2> QED BY <1>6, <2>1 DEF Digits
<1>9. Wots!chain_lengths(m) = LengthsBy(m, f)  BY <1>7, <1>8 DEF LengthsBy
<1> QED BY <1>4, <1>5, <1>9

LEMMA LengthsFit ==
  ASSUME WotsSizes, NEW m \in Messages
  PROVE  Wots!chain_lengths(m) \in [Wots!Chains -> 0 .. 15]
<1>1. N \in 1 .. 136 /\ Wots!Chains = 0 .. 2 * N + 2 /\ m \in [0 .. N - 1 -> 0 .. 255]
  BY WotsNumbers DEF WotsSizes, Wots!SizesAssumption
<1>2. PICK f : IsSum(Digits(m), f) /\ HasThreeDigits(Total(f)) /\ Wots!chain_lengths(m) = LengthsBy(m, f)
  BY LengthsAre
<1>3. \A c \in 0 .. 2 * N - 1 : Nibble(m, c) \in 0 .. 15
  <2>1. Digits(m) \in DigitFunctions  BY <1>1, DigitsFit
  <2> QED BY <2>1 DEF Digits, DigitFunctions
<1>4. \A o \in 0 .. 2 : CheckDigit(Total(f), o) \in 0 .. 15
  <2> DEFINE total == Total(f)
  <2>1. (total \in Nat /\ total < 4096)  BY <1>2 DEF HasThreeDigits
  <2> HIDE DEF total
  <2>2. total \div 256 \in 0 .. 15 /\ (total \div 16) % 16 \in 0 .. 15 /\ total % 16 \in 0 .. 15  BY <2>1
  <2> QED BY <2>2 DEF CheckDigit, total
<1>5. \A c \in 0 .. 2 * N + 2 : (c < 2 * N => c \in 0 .. 2 * N - 1) /\ (~ (c < 2 * N) => c - 2 * N \in 0 .. 2)  BY <1>1
<1>6. \A c \in 0 .. 2 * N + 2 : (IF c < 2 * N THEN Nibble(m, c) ELSE CheckDigit(Total(f), c - 2 * N)) \in 0 .. 15
  BY <1>3, <1>4, <1>5, Zenon
<1>7. LengthsBy(m, f) \in [0 .. 2 * N + 2 -> 0 .. 15]  BY <1>6, Zenon DEF LengthsBy
<1> QED BY <1>1, <1>2, <1>7, Zenon

(* No message has chains that are as long as those of another one. *)
LEMMA LengthsDiffer ==
  ASSUME WotsSizes, NEW m \in Messages, NEW other \in Messages \ {m}
  PROVE  \E c \in Wots!Chains : Wots!chain_lengths(other)[c] < Wots!chain_lengths(m)[c]
<1> DEFINE l == Wots!chain_lengths(m)
           r == Wots!chain_lengths(other)
<1>1. N \in 1 .. 136 /\ Wots!Chains = 0 .. 2 * N + 2 /\ m \in [0 .. N - 1 -> 0 .. 255] /\ other \in [0 .. N - 1 -> 0 .. 255]
  BY WotsNumbers DEF WotsSizes, Wots!SizesAssumption
<1>2. PICK f : IsSum(Digits(m), f) /\ HasThreeDigits(Total(f)) /\ l = LengthsBy(m, f)  BY LengthsAre
<1>3. PICK g : IsSum(Digits(other), g) /\ HasThreeDigits(Total(g)) /\ r = LengthsBy(other, g)  BY LengthsAre
<1>4. l \in [0 .. 2 * N + 2 -> 0 .. 15] /\ r \in [0 .. 2 * N + 2 -> 0 .. 15]  BY <1>1, LengthsFit
<1>5. Digits(m) \in DigitFunctions /\ Digits(other) \in DigitFunctions  BY <1>1, DigitsFit
<1> SUFFICES ASSUME \A c \in 0 .. 2 * N + 2 : l[c] <= r[c]
             PROVE  FALSE
  <2>1. \A c \in 0 .. 2 * N + 2 : l[c] \in 0 .. 15 /\ r[c] \in 0 .. 15  BY <1>4, Zenon
  <2>2. \A x, y \in 0 .. 15 : ~ (y < x) => x <= y  OBVIOUS
  <2> QED BY <1>1, <2>1, <2>2, Zenon
<1>6. \A c \in 0 .. 2 * N - 1 : l[c] = Digits(m)[c] /\ r[c] = Digits(other)[c]
  BY <1>1, <1>2, <1>3 DEF LengthsBy, Digits
<1>7. \A c \in 0 .. 2 * N - 1 : Digits(m)[c] <= Digits(other)[c]  BY <1>1, <1>6
<1>8. \E c \in 0 .. 2 * N - 1 : Digits(m)[c] < Digits(other)[c]
  <2>1. PICK b \in 0 .. N - 1 : m[b] # other[b]  BY <1>1
  <2>2. 2 * b \in 0 .. 2 * N - 1 /\ 2 * b + 1 \in 0 .. 2 * N - 1
        /\ (2 * b) \div 2 = b /\ (2 * b + 1) \div 2 = b /\ (2 * b) % 2 = 0 /\ (2 * b + 1) % 2 = 1
    BY <1>1
  <2>3. /\ Digits(m)[2 * b] = m[b] \div 16 /\ Digits(m)[2 * b + 1] = m[b] % 16
        /\ Digits(other)[2 * b] = other[b] \div 16 /\ Digits(other)[2 * b + 1] = other[b] % 16
    BY <2>2 DEF Digits, Nibble
  <2>5. m[b] \in 0 .. 255 /\ other[b] \in 0 .. 255  BY <1>1
  <2>4. m[b] \div 16 # other[b] \div 16 \/ m[b] % 16 # other[b] % 16
    <3> DEFINE x == m[b]
               y == other[b]
    <3>1. x \in 0 .. 255 /\ y \in 0 .. 255 /\ x # y  BY <2>1, <2>5
    <3> HIDE DEF x, y
    <3>2. x \div 16 # y \div 16 \/ x % 16 # y % 16  BY <3>1
    <3> QED BY <3>2 DEF x, y
  <2>6. Digits(m)[2 * b] # Digits(other)[2 * b] \/ Digits(m)[2 * b + 1] # Digits(other)[2 * b + 1]
    BY <2>3, <2>4, Zenon
  <2>7. \A c \in 0 .. 2 * N - 1 : Digits(m)[c] \in Int /\ Digits(other)[c] \in Int  BY <1>5 DEF DigitFunctions
  <2> QED BY <1>7, <2>2, <2>6, <2>7
<1>9. Total(g) < Total(f)  BY <1>1, <1>2, <1>3, <1>5, <1>7, <1>8, SumsCompare, Zenon
<1>10. Total(f) <= Total(g)
  <2> DEFINE x == Total(f)
             y == Total(g)
  <2>1. \A o \in 0 .. 2 : 2 * N + o \in 0 .. 2 * N + 2 /\ ~ (2 * N + o < 2 * N) /\ (2 * N + o) - (2 * N) = o  BY <1>1
  <2>2. \A o \in 0 .. 2 : CheckDigit(x, o) <= CheckDigit(y, o)
    <3> TAKE o \in 0 .. 2
    <3>1. l[2 * N + o] = CheckDigit(x, o) /\ r[2 * N + o] = CheckDigit(y, o)
      BY <1>2, <1>3, <2>1 DEF LengthsBy
    <3> QED BY <2>1, <3>1
  <2>3. HasThreeDigits(x) /\ HasThreeDigits(y)  BY <1>2, <1>3, Zenon
  <2> HIDE DEF x, y
  <2>4. x \div 256 <= y \div 256 /\ (x \div 16) % 16 <= (y \div 16) % 16 /\ x % 16 <= y % 16
    BY <2>2 DEF CheckDigit
  <2>5. \A v : HasThreeDigits(v) => v = ((v \div 256) * 256 + ((v \div 16) % 16) * 16) + (v % 16)  BY DEF HasThreeDigits
  <2>6. x = ((x \div 256) * 256 + ((x \div 16) % 16) * 16) + (x % 16)  BY <2>3, <2>5, Zenon
  <2>7. y = ((y \div 256) * 256 + ((y \div 16) % 16) * 16) + (y % 16)  BY <2>3, <2>5, Zenon
  <2>8. /\ x \div 256 \in Int /\ y \div 256 \in Int /\ (x \div 16) % 16 \in Int /\ (y \div 16) % 16 \in Int
        /\ x % 16 \in Int /\ y % 16 \in Int
    BY <2>3 DEF HasThreeDigits
  <2>9. x <= y  BY <2>3, <2>4, <2>6, <2>7, <2>8 DEF HasThreeDigits
  <2> QED BY <2>9 DEF x, y
<1> HIDE DEF l, r
<1>11. Total(g) \in Int /\ Total(f) \in Int  BY <1>2, <1>3 DEF HasThreeDigits
<1> QED BY <1>9, <1>10, <1>11

(* The chains that a chain waits for: those with more steps, and with as   *)
(* many steps the ones before it. Its place is how many they are.          *)
StepCounts == [Wots!Chains -> 0 .. 15]
Ahead(s, c) == {d \in Wots!Chains : s[d] > s[c] \/ (d < c /\ s[d] = s[c])}

LEMMA ChainsAreMany ==
  ASSUME WotsSizes
  PROVE  /\ IsFiniteSet(Wots!Chains) /\ Cardinality(Wots!Chains) = Wots!LEN
         /\ Wots!Chains = 0 .. Wots!LEN - 1 /\ Wots!LEN \in Nat /\ Wots!LEN >= 5
<1>1. Wots!LEN \in Nat /\ Wots!LEN >= 5
  <2>1. N \in 1 .. 136 /\ Wots!LEN = 2 * N + 3  BY WotsNumbers
  <2>2. 2 * N + 3 \in Nat /\ 2 * N + 3 >= 5  BY <2>1
  <2> QED BY <2>1, <2>2, Zenon
<1>2. Wots!Chains = 0 .. Wots!LEN - 1  BY DEF Wots!Chains
<1>3. 0 \in Int /\ Wots!LEN - 1 \in Int /\ ~ (0 > Wots!LEN - 1) /\ (Wots!LEN - 1) - 0 + 1 = Wots!LEN  BY <1>1
<1>4. IsFiniteSet(0 .. Wots!LEN - 1) /\ Cardinality(0 .. Wots!LEN - 1) = Wots!LEN  BY <1>3, FS_Interval
<1> QED BY <1>1, <1>2, <1>4

LEMMA PlaceCounts ==
  ASSUME WotsSizes, NEW s \in StepCounts, NEW c \in Wots!Chains
  PROVE  /\ IsFiniteSet(Ahead(s, c)) /\ Cardinality(Ahead(s, c)) \in Nat
         /\ Wots!Place(s, c) = Cardinality(Ahead(s, c))
<1> DEFINE A == {d \in Wots!Chains : s[d] > s[c]}
           B == {d \in Wots!Chains : d < c /\ s[d] = s[c]}
<1>1. A \subseteq Wots!Chains /\ B \subseteq Wots!Chains /\ Ahead(s, c) = A \cup B  BY DEF Ahead
<1>2. A \cap B = {}
  <2>1. \A d \in Wots!Chains : s[d] \in Int  BY DEF StepCounts
  <2> QED BY <2>1
<1>3. Wots!Place(s, c) = Cardinality(A) + Cardinality(B)  BY Zenon DEF Wots!Place, Wots!Cardinality, Cardinality
<1> HIDE DEF A, B
<1>4. IsFiniteSet(A) /\ IsFiniteSet(B)  BY <1>1, ChainsAreMany, FS_Subset
<1>5. IsFiniteSet(A \cup B) /\ Cardinality(A \cup B) = Cardinality(A) + Cardinality(B) - Cardinality(A \cap B)
  BY <1>4, FS_Union
<1>6. Cardinality(A \cap B) = 0  BY <1>2, FS_EmptySet
<1>7. Cardinality(A) \in Nat /\ Cardinality(B) \in Nat  BY <1>4, FS_CardinalityType
<1> QED BY <1>1, <1>3, <1>5, <1>6, <1>7

LEMMA PlaceOrders ==
  ASSUME WotsSizes, NEW s \in StepCounts, NEW c \in Wots!Chains, NEW d \in Wots!Chains, c \in Ahead(s, d)
  PROVE  Wots!Place(s, c) < Wots!Place(s, d)
<1>1. \A x \in Wots!Chains : s[x] \in Int /\ x \in Int  BY ChainsAreMany DEF StepCounts
<1>2. c \notin Ahead(s, c)  BY <1>1 DEF Ahead
<1>3. Ahead(s, c) \cup {c} \subseteq Ahead(s, d)
  <2>1. \A x \in Ahead(s, c) : x \in Ahead(s, d)  BY <1>1 DEF Ahead
  <2> QED BY <2>1
<1>4. IsFiniteSet(Ahead(s, c)) /\ IsFiniteSet(Ahead(s, d))  BY PlaceCounts
<1>5. Cardinality(Ahead(s, c) \cup {c}) = Cardinality(Ahead(s, c)) + 1  BY <1>2, <1>4, FS_AddElement
<1>6. Cardinality(Ahead(s, c) \cup {c}) <= Cardinality(Ahead(s, d))  BY <1>3, <1>4, FS_Subset
<1> QED BY <1>5, <1>6, PlaceCounts

LEMMA PlaceFits ==
  ASSUME WotsSizes, NEW s \in StepCounts, NEW c \in Wots!Chains
  PROVE  Wots!Place(s, c) \in Wots!Chains
<1>1. c \notin Ahead(s, c)
  <2>1. \A x \in Wots!Chains : s[x] \in Int /\ x \in Int  BY ChainsAreMany DEF StepCounts
  <2> QED BY <2>1 DEF Ahead
<1>2. Ahead(s, c) \cup {c} \subseteq Wots!Chains  BY DEF Ahead
<1>3. IsFiniteSet(Ahead(s, c))  BY PlaceCounts
<1>4. Cardinality(Ahead(s, c) \cup {c}) = Cardinality(Ahead(s, c)) + 1  BY <1>1, <1>3, FS_AddElement
<1>5. Cardinality(Ahead(s, c) \cup {c}) <= Wots!LEN
  <2>1. IsFiniteSet(Wots!Chains) /\ Cardinality(Wots!Chains) = Wots!LEN  BY ChainsAreMany
  <2>2. Cardinality(Ahead(s, c) \cup {c}) <= Cardinality(Wots!Chains)  BY <1>2, <2>1, FS_Subset
  <2> QED BY <2>1, <2>2
<1>6. Wots!Place(s, c) = Cardinality(Ahead(s, c)) /\ Cardinality(Ahead(s, c)) \in Nat  BY PlaceCounts
<1>7. Wots!Chains = 0 .. Wots!LEN - 1 /\ Wots!LEN \in Nat  BY ChainsAreMany
<1> QED BY <1>4, <1>5, <1>6, <1>7

LEMMA PlacesDiffer ==
  ASSUME WotsSizes, NEW s \in StepCounts, NEW c \in Wots!Chains, NEW d \in Wots!Chains,
         Wots!Place(s, c) = Wots!Place(s, d)
  PROVE  c = d
<1> SUFFICES ASSUME c # d
             PROVE  FALSE
  OBVIOUS
<1>1. s[c] \in Int /\ s[d] \in Int /\ c \in Int /\ d \in Int  BY ChainsAreMany, SMTT(40) DEF StepCounts
<1>2. c \in Ahead(s, d) \/ d \in Ahead(s, c)  BY <1>1 DEF Ahead
<1>3. Wots!Place(s, c) \in Int /\ Wots!Place(s, d) \in Int  BY PlaceFits, ChainsAreMany
<1>4. CASE c \in Ahead(s, d)
  <2>1. Wots!Place(s, c) < Wots!Place(s, d)  BY <1>4, PlaceOrders
  <2> QED BY <1>3, <2>1
<1>5. CASE d \in Ahead(s, c)
  <2>1. Wots!Place(s, d) < Wots!Place(s, c)  BY <1>5, PlaceOrders
  <2> QED BY <1>3, <2>1
<1> QED BY <1>2, <1>4, <1>5

(* The sort leaves each chain in a place of its own, longest first.        *)
LEMMA SortIsRight ==
  ASSUME WotsSizes, NEW s \in StepCounts, NEW ix,
         ix = [n \in Wots!Chains |-> CHOOSE c \in Wots!Chains : Wots!Place(s, c) = n]
  PROVE  /\ ix \in [Wots!Chains -> Wots!Chains]
         /\ \A n \in Wots!Chains : Wots!Place(s, ix[n]) = n
         /\ \A c \in Wots!Chains : ix[Wots!Place(s, c)] = c
         /\ \A n, o \in Wots!Chains : n <= o => s[ix[o]] <= s[ix[n]]
<1> DEFINE place == [c \in Wots!Chains |-> Wots!Place(s, c)]
<1>1. place \in [Wots!Chains -> Wots!Chains]  BY PlaceFits
<1>2. place \in Injection(Wots!Chains, Wots!Chains)
  <2>1. \A a, b \in Wots!Chains : place[a] = place[b] => a = b  BY PlacesDiffer
  <2> QED BY <1>1, <2>1 DEF Injection, IsInjective
<1>3. place \in Surjection(Wots!Chains, Wots!Chains)
  <2> HIDE DEF place
  <2>1. IsFiniteSet(Wots!Chains)  BY ChainsAreMany
  <2> QED BY <1>2, <2>1, FS_Injection
<1>4. \A n \in Wots!Chains : \E c \in Wots!Chains : Wots!Place(s, c) = n
  BY <1>3 DEF Surjection
<1>5. \A n \in Wots!Chains : ix[n] \in Wots!Chains /\ Wots!Place(s, ix[n]) = n
  <2> TAKE n \in Wots!Chains
  <2>1. ix[n] = CHOOSE c \in Wots!Chains : Wots!Place(s, c) = n  OBVIOUS
  <2>2. \E c \in Wots!Chains : Wots!Place(s, c) = n  BY <1>4
  <2> QED BY <2>1, <2>2, Zenon
<1>6. ix \in [Wots!Chains -> Wots!Chains]  BY <1>5
<1>7. ASSUME NEW c \in Wots!Chains
      PROVE  ix[Wots!Place(s, c)] = c
  <2>1. Wots!Place(s, c) \in Wots!Chains  BY PlaceFits
  <2>2. Wots!Place(s, ix[Wots!Place(s, c)]) = Wots!Place(s, c) /\ ix[Wots!Place(s, c)] \in Wots!Chains  BY <1>5, <2>1, Zenon
  <2> QED BY <2>2, PlacesDiffer, Zenon
<1>8. ASSUME NEW n \in Wots!Chains, NEW o \in Wots!Chains, n <= o
      PROVE  s[ix[o]] <= s[ix[n]]
  <2> DEFINE a == ix[n]
             b == ix[o]
  <2>1. a \in Wots!Chains /\ b \in Wots!Chains /\ Wots!Place(s, a) = n /\ Wots!Place(s, b) = o  BY <1>5, Zenon
  <2>2. n \in Int /\ o \in Int  BY ChainsAreMany
  <2> HIDE DEF a, b
  <2>3. s[a] \in Int /\ s[b] \in Int  BY <2>1 DEF StepCounts
  <2>4. ~ (s[b] > s[a])
    <3> SUFFICES ASSUME s[b] > s[a]
                 PROVE  FALSE
      OBVIOUS
    <3>1. b \in Ahead(s, a)  BY <2>1 DEF Ahead
    <3>2. Wots!Place(s, b) < Wots!Place(s, a)  BY <2>1, <3>1, PlaceOrders
    <3> QED BY <1>8, <2>1, <2>2, <3>2
  <2> QED BY <2>3, <2>4 DEF a, b
<1> QED BY <1>5, <1>6, <1>7, <1>8

(* What the order of the chains is once the tables are filled.             *)
Tables ==
  /\ msg \in Messages /\ build \in {"x2", "x4", "x8"}
  /\ lengths = Wots!chain_lengths(msg)
  /\ steps = [c \in Wots!Chains |-> 15 - lengths[c]]
  /\ idxs = [n \in Wots!Chains |-> CHOOSE c \in Wots!Chains : Wots!Place(steps, c) = n]

Spot(c, place) == [chain |-> c, place |-> place]

(* The chain that is the n-th in the order is at this height above its     *)
(* start.                                                                  *)
Stands(n, height) == values[idxs[n]] = Spot(idxs[n], lengths[idxs[n]] + height)

LanesHoldTheGroup ==
  phase = "climb" => /\ watching < Wots!Lanes(build) /\ group + watching < Wots!LEN
                     /\ \A lane \in 0 .. watching : bufs[lane] = idxs[group + lane] /\ chains[lane] = idxs[group + lane]
                     /\ climbed <= steps[idxs[group + watching]]
DoneAreAtTheTop ==
  \A n \in Wots!Chains : n < group => Stands(n, steps[idxs[n]])
DroppedAreAtTheTop ==
  phase = "climb" => \A n \in Wots!Chains :
    group + watching < n /\ n < group + Wots!Lanes(build) => Stands(n, steps[idxs[n]])
WatchedClimb ==
  phase = "climb" => \A n \in Wots!Chains : group <= n /\ n <= group + watching => Stands(n, climbed)
OthersWait ==
  \A n \in Wots!Chains : group + (IF phase = "climb" THEN Wots!Lanes(build) ELSE 0) <= n => Stands(n, 0)

WotsInv ==
  /\ Tables
  /\ phase \in {"group", "climb", "done"} /\ group \in Nat /\ watching \in Nat /\ climbed \in Nat
  /\ bufs \in [0 .. 7 -> Int] /\ chains \in [0 .. 7 -> Int]
  /\ values = [c \in Wots!Chains |-> values[c]]
  /\ phase = "done" => group >= Wots!LEN
  /\ LanesHoldTheGroup /\ DoneAreAtTheTop /\ DroppedAreAtTheTop /\ WatchedClimb /\ OthersWait

LEMMA TablesAre ==
  ASSUME WotsSizes, Tables
  PROVE  /\ lengths \in [Wots!Chains -> 0 .. 15] /\ steps \in StepCounts
         /\ \A c \in Wots!Chains : steps[c] = 15 - lengths[c]
         /\ idxs \in [Wots!Chains -> Wots!Chains]
         /\ \A n \in Wots!Chains : Wots!Place(steps, idxs[n]) = n
         /\ \A c \in Wots!Chains : Wots!Place(steps, c) \in Wots!Chains /\ idxs[Wots!Place(steps, c)] = c
         /\ \A n, o \in Wots!Chains : n <= o => steps[idxs[o]] <= steps[idxs[n]]
<1>1. lengths \in [Wots!Chains -> 0 .. 15]
  <2>1. msg \in Messages /\ lengths = Wots!chain_lengths(msg)  BY Zenon DEF Tables
  <2> QED BY <2>1, LengthsFit
<1>2. steps = [c \in Wots!Chains |-> 15 - lengths[c]]  BY Zenon DEF Tables
<1>3. \A c \in Wots!Chains : steps[c] = 15 - lengths[c]  BY <1>2, Zenon
<1>4. \A x \in 0 .. 15 : 15 - x \in 0 .. 15  OBVIOUS
<1>5. \A c \in Wots!Chains : 15 - lengths[c] \in 0 .. 15  BY <1>1, <1>4
<1>6. steps \in StepCounts  BY <1>2, <1>5, Zenon DEF StepCounts
<1>7. idxs = [n \in Wots!Chains |-> CHOOSE c \in Wots!Chains : Wots!Place(steps, c) = n]  BY Zenon DEF Tables
<1>8. /\ idxs \in [Wots!Chains -> Wots!Chains]
      /\ \A n \in Wots!Chains : Wots!Place(steps, idxs[n]) = n
      /\ \A c \in Wots!Chains : idxs[Wots!Place(steps, c)] = c
      /\ \A n, o \in Wots!Chains : n <= o => steps[idxs[o]] <= steps[idxs[n]]
  BY <1>6, <1>7, SortIsRight
<1> QED BY <1>1, <1>3, <1>6, <1>8, PlaceFits

LEMMA LanesAre ==
  ASSUME NEW b \in {"x2", "x4", "x8"}
  PROVE  /\ Wots!Lanes(b) \in 1 .. 8
         /\ b = "x2" => Wots!Lanes(b) = 2
         /\ b = "x4" => Wots!Lanes(b) = 4
         /\ b = "x8" => Wots!Lanes(b) = 8
  BY DEF Wots!Lanes

LEMMA WotsInit ==
  ASSUME WotsSizes, Wots!Init
  PROVE  WotsInv
<1>1. Tables
  <2>1. Wots!W - 1 = 15  BY WotsNumbers
  <2> QED BY <2>1, Zenon DEF Wots!Init, Tables
<1>2. /\ phase = "group" /\ group = 0 /\ watching = 0 /\ climbed = 0
      /\ bufs = [lane \in 0 .. 7 |-> -1] /\ chains = [lane \in 0 .. 7 |-> 0]
      /\ values = Wots!Signature(msg)
  BY DEF Wots!Init
<1>3. values = [c \in Wots!Chains |-> Spot(c, lengths[c])]
  <2>1. lengths = Wots!chain_lengths(msg)  BY <1>1, Zenon DEF Tables
  <2> QED BY <1>2, <2>1, Zenon DEF Wots!Signature, Spot
<1>4. values = [c \in Wots!Chains |-> values[c]]  BY <1>3
<1>5. \A n \in Wots!Chains : Stands(n, 0)
  <2> TAKE n \in Wots!Chains
  <2>1. idxs[n] \in Wots!Chains /\ lengths[idxs[n]] \in Int
    <3>1. idxs \in [Wots!Chains -> Wots!Chains] /\ lengths \in [Wots!Chains -> 0 .. 15]  BY <1>1, TablesAre
    <3> QED BY <3>1
  <2>2. values[idxs[n]] = Spot(idxs[n], lengths[idxs[n]])  BY <1>3, <2>1, Zenon
  <2>3. lengths[idxs[n]] + 0 = lengths[idxs[n]]  BY <2>1
  <2> QED BY <2>2, <2>3, Zenon DEF Stands
<1>6. DoneAreAtTheTop
  <2>1. \A n \in Wots!Chains : ~ (n < group)  BY <1>2, ChainsAreMany
  <2> QED BY <2>1, Zenon DEF DoneAreAtTheTop
<1>7. bufs \in [0 .. 7 -> Int] /\ chains \in [0 .. 7 -> Int]  BY <1>2
<1> QED BY <1>1, <1>2, <1>4, <1>5, <1>6, <1>7
        DEF WotsInv, LanesHoldTheGroup, DroppedAreAtTheTop, WatchedClimb, OthersWait

LEMMA TablesStay ==
  ASSUME WotsSizes, Tables, UNCHANGED <<msg, build, lengths, steps, idxs>>
  PROVE  Tables' /\ lengths' = lengths /\ steps' = steps /\ idxs' = idxs /\ build' = build /\ msg' = msg
<1>1. msg' = msg /\ build' = build /\ lengths' = lengths /\ steps' = steps /\ idxs' = idxs  OBVIOUS
<1>2. Tables'
  <2>1. msg' \in Messages /\ build' \in {"x2", "x4", "x8"}  BY <1>1, Zenon DEF Tables
  <2>2. lengths' = Wots!chain_lengths(msg')  BY <1>1, Zenon DEF Tables
  <2>3. steps' = [c \in Wots!Chains |-> 15 - lengths'[c]]  BY <1>1, Zenon DEF Tables
  <2>4. idxs' = [n \in Wots!Chains |-> CHOOSE c \in Wots!Chains : Wots!Place(steps', c) = n]
    <3>1. idxs = [n \in Wots!Chains |-> CHOOSE c \in Wots!Chains : Wots!Place(steps, c) = n]  BY Zenon DEF Tables
    <3> QED BY <1>1, <3>1
  <2> QED BY <2>1, <2>2, <2>3, <2>4, Zenon DEF Tables
<1> QED BY <1>1, <1>2

LEMMA GroupSizes ==
  ASSUME NEW size \in Nat, NEW g \in Nat, NEW lanes \in 1 .. 8, g < size,
         NEW last, g + lanes - 1 < size => last = lanes - 1,
         ~ (g + lanes - 1 < size) => last = size - 1 - g
  PROVE  /\ last \in 0 .. lanes - 1 /\ g + last < size
         /\ \A n \in 0 .. size - 1 : (g + last < n => g + lanes <= n) /\ ~ (g + last < n /\ n < g + lanes) /\ (g + lanes <= n => g <= n)
         /\ \A lane \in 0 .. last : lane \in 0 .. 7 /\ g + lane \in 0 .. size - 1
  OBVIOUS

LEMMA OneLess ==
  ASSUME NEW size \in Nat, NEW g \in Nat, NEW lanes \in 1 .. 8, NEW last \in Nat,
         last < lanes, last # 0, g + last < size
  PROVE  /\ last - 1 \in Nat /\ last - 1 < lanes /\ g + (last - 1) < size
         /\ \A lane \in 0 .. last - 1 : lane \in 0 .. last /\ lane # last /\ lane \in 0 .. 7
  OBVIOUS

LEMMA GroupKeeps ==
  ASSUME WotsSizes, WotsInv, NEW lanes, lanes = Wots!Lanes(build), Wots!Group(lanes)
  PROVE  WotsInv'
<1> DEFINE last == IF group + lanes - 1 < Wots!LEN THEN lanes - 1 ELSE Wots!LEN - 1 - group
<1>1. /\ phase = "group" /\ group < Wots!LEN /\ watching' = last /\ climbed' = 0 /\ phase' = "climb"
      /\ bufs' = [lane \in 0 .. 7 |-> IF lane <= watching' THEN idxs[group + lane] ELSE -1]
      /\ chains' = [lane \in 0 .. 7 |-> IF lane <= watching' THEN idxs[group + lane] ELSE chains[lane]]
      /\ group' = group /\ values' = values
      /\ UNCHANGED <<msg, build, lengths, steps, idxs>>
  BY Zenon DEF Wots!Group
<1>2. Tables /\ group \in Nat /\ chains \in [0 .. 7 -> Int]  BY Zenon DEF WotsInv
<1>3. Tables' /\ lengths' = lengths /\ steps' = steps /\ idxs' = idxs /\ build' = build
  BY <1>1, <1>2, TablesStay
<1>4. lanes \in 1 .. 8
  <2>1. build \in {"x2", "x4", "x8"}  BY <1>2, Zenon DEF Tables
  <2> QED BY <2>1, LanesAre
<1>5. Wots!LEN \in Nat /\ Wots!Chains = 0 .. Wots!LEN - 1  BY ChainsAreMany
<1>6. /\ last \in 0 .. lanes - 1 /\ group + last < Wots!LEN
      /\ \A n \in Wots!Chains : (group + last < n => group + lanes <= n) /\ ~ (group + last < n /\ n < group + lanes) /\ (group + lanes <= n => group <= n)
      /\ \A lane \in 0 .. last : lane \in 0 .. 7 /\ group + lane \in Wots!Chains
  <2> HIDE DEF last
  <2>1. /\ group + lanes - 1 < Wots!LEN => last = lanes - 1
        /\ ~ (group + lanes - 1 < Wots!LEN) => last = Wots!LEN - 1 - group
    BY Zenon DEF last
  <2>2. group < Wots!LEN  BY <1>1
  <2>3. /\ last \in 0 .. lanes - 1 /\ group + last < Wots!LEN
        /\ \A n \in 0 .. Wots!LEN - 1 : (group + last < n => group + lanes <= n)
                                      /\ ~ (group + last < n /\ n < group + lanes)
                                      /\ (group + lanes <= n => group <= n)
        /\ \A lane \in 0 .. last : lane \in 0 .. 7 /\ group + lane \in 0 .. Wots!LEN - 1
    <3>1. group \in Nat /\ Wots!LEN \in Nat  BY <1>2, <1>5
    <3> QED BY <1>4, <2>1, <2>2, <3>1, GroupSizes, Zenon
  <2> QED BY <1>5, <2>3, Zenon
<1>7. idxs \in [Wots!Chains -> Wots!Chains] /\ steps \in StepCounts  BY <1>2, TablesAre
<1> HIDE DEF last
<1>8. \A lane \in 0 .. last : lane \in 0 .. 7 /\ group + lane \in Wots!Chains  BY <1>6, Zenon
<1>9. \A lane \in 0 .. 7 : lane <= last => group + lane \in Wots!Chains  BY <1>2, <1>4, <1>5, <1>6, SMTT(40)
<1>10. bufs' \in [0 .. 7 -> Int] /\ chains' \in [0 .. 7 -> Int]
  <2>1. \A c \in Wots!Chains : c \in Int  BY <1>5
  <2>2. \A lane \in 0 .. 7 : lane <= last => idxs[group + lane] \in Int  BY <1>7, <1>9, <2>1
  <2>3. -1 \in Int  OBVIOUS
  <2>4. \A lane \in 0 .. 7 : /\ (IF lane <= last THEN idxs[group + lane] ELSE -1) \in Int
                             /\ (IF lane <= last THEN idxs[group + lane] ELSE chains[lane]) \in Int
    BY <1>2, <2>2, <2>3
  <2> QED BY <1>1, <2>4
<1>11. \A lane \in 0 .. last : bufs'[lane] = idxs[group + lane] /\ chains'[lane] = idxs[group + lane]
  <2>1. \A lane \in 0 .. last : lane <= last  OBVIOUS
  <2> QED BY <1>1, <1>8, <2>1
<1>12. LanesHoldTheGroup'
  <2>1. 0 <= steps[idxs[group + last]]
    <3>1. group + last \in Wots!Chains  BY <1>2, <1>5, <1>6
    <3>2. steps[idxs[group + last]] \in 0 .. 15  BY <1>7, <3>1 DEF StepCounts
    <3> QED BY <3>2
  <2>2. last < lanes  BY <1>4, <1>6
  <2>3. lanes = Wots!Lanes(build')  BY <1>3
  <2> QED BY <1>1, <1>3, <1>6, <1>11, <2>1, <2>2, <2>3, Zenon DEF LanesHoldTheGroup
<1>13. \A n \in Wots!Chains : \A h : Stands(n, h)' = (values[idxs[n]] = Spot(idxs[n], lengths[idxs[n]] + h'))
  BY <1>1, <1>3, Zenon DEF Stands
<1>14. DoneAreAtTheTop'
  <2>1. \A n \in Wots!Chains : n < group => values[idxs[n]] = Spot(idxs[n], lengths[idxs[n]] + steps[idxs[n]])
    BY Zenon DEF WotsInv, DoneAreAtTheTop, Stands
  <2> QED BY <1>1, <1>3, <2>1, Zenon DEF DoneAreAtTheTop, Stands
<1>15. \A n \in Wots!Chains : group <= n => values[idxs[n]] = Spot(idxs[n], lengths[idxs[n]] + 0)
  <2>1. \A n \in Wots!Chains : group + 0 <= n => values[idxs[n]] = Spot(idxs[n], lengths[idxs[n]] + 0)
    <3>1. OthersWait  BY Zenon DEF WotsInv
    <3>2. phase # "climb"  BY <1>1
    <3> QED BY <3>1, <3>2, Zenon DEF OthersWait, Stands
  <2>2. group + 0 = group  BY <1>2
  <2> QED BY <2>1, <2>2
<1>16. WatchedClimb'  BY <1>1, <1>3, <1>15, Zenon DEF WatchedClimb, Stands
<1>17. OthersWait'
  <2>1. \A n \in Wots!Chains : group + lanes <= n => group <= n  BY <1>6, Zenon
  <2>2. lanes = Wots!Lanes(build')  BY <1>3
  <2> QED BY <1>1, <1>3, <1>15, <2>1, <2>2, Zenon DEF OthersWait, Stands
<1>18. DroppedAreAtTheTop'
  <2>1. \A n \in Wots!Chains : ~ (group + last < n /\ n < group + lanes)  BY <1>6, Zenon
  <2>2. lanes = Wots!Lanes(build')  BY <1>3
  <2> QED BY <1>1, <2>1, <2>2, Zenon DEF DroppedAreAtTheTop
<1>19. watching' \in Nat /\ climbed' \in Nat  BY <1>1, <1>4, <1>6
<1>20. values' = [c \in Wots!Chains |-> values'[c]]  BY <1>1, Zenon DEF WotsInv
<1>21. phase' \in {"group", "climb", "done"} /\ (phase' = "done" => group' >= Wots!LEN) /\ group' \in Nat
  BY <1>1, <1>2
<1> QED BY <1>3, <1>10, <1>12, <1>14, <1>16, <1>17, <1>18, <1>19, <1>20, <1>21, Zenon DEF WotsInv

LEMMA DropKeeps ==
  ASSUME WotsSizes, WotsInv, NEW lanes, lanes = Wots!Lanes(build), Wots!Drop(lanes)
  PROVE  WotsInv'
<1>1. /\ phase = "climb" /\ climbed = steps[idxs[group + watching]]
      /\ bufs' = [bufs EXCEPT ![watching] = -1]
      /\ climbed' = climbed /\ chains' = chains /\ values' = values
      /\ UNCHANGED <<msg, build, lengths, steps, idxs>>
      /\ \/ watching = 0 /\ phase' = "group" /\ group' = group + lanes /\ watching' = watching
         \/ watching # 0 /\ watching' = watching - 1 /\ phase' = phase /\ group' = group
  BY Zenon DEF Wots!Drop, Wots!LastIsDone
<1>2. /\ Tables /\ group \in Nat /\ watching \in Nat /\ climbed \in Nat
      /\ bufs \in [0 .. 7 -> Int] /\ chains \in [0 .. 7 -> Int]
  BY Zenon DEF WotsInv
<1>3. Tables' /\ lengths' = lengths /\ steps' = steps /\ idxs' = idxs /\ build' = build
  BY <1>1, <1>2, TablesStay
<1>4. lanes \in 1 .. 8
  <2>1. build \in {"x2", "x4", "x8"}  BY <1>2, Zenon DEF Tables
  <2> QED BY <2>1, LanesAre
<1>5. Wots!LEN \in Nat /\ Wots!Chains = 0 .. Wots!LEN - 1  BY ChainsAreMany
<1>6. /\ watching < lanes /\ group + watching < Wots!LEN
      /\ \A lane \in 0 .. watching : bufs[lane] = idxs[group + lane] /\ chains[lane] = idxs[group + lane]
  BY <1>1, Zenon DEF WotsInv, LanesHoldTheGroup
<1>7. /\ idxs \in [Wots!Chains -> Wots!Chains] /\ steps \in StepCounts
      /\ \A n, o \in Wots!Chains : n <= o => steps[idxs[o]] <= steps[idxs[n]]
  BY <1>2, TablesAre
<1>8. /\ \A n \in Wots!Chains : n < group => values[idxs[n]] = Spot(idxs[n], lengths[idxs[n]] + steps[idxs[n]])
      /\ \A n \in Wots!Chains : group + watching < n /\ n < group + lanes =>
           values[idxs[n]] = Spot(idxs[n], lengths[idxs[n]] + steps[idxs[n]])
      /\ \A n \in Wots!Chains : group <= n /\ n <= group + watching => values[idxs[n]] = Spot(idxs[n], lengths[idxs[n]] + climbed)
      /\ \A n \in Wots!Chains : group + lanes <= n => values[idxs[n]] = Spot(idxs[n], lengths[idxs[n]] + 0)
  BY <1>1, Zenon DEF WotsInv, DoneAreAtTheTop, DroppedAreAtTheTop, WatchedClimb, OthersWait, Stands
<1>9. \A n \in Wots!Chains : group + watching <= n /\ n < group + lanes =>
        values[idxs[n]] = Spot(idxs[n], lengths[idxs[n]] + steps[idxs[n]])
  <2> SUFFICES ASSUME NEW n \in Wots!Chains, group + watching <= n, n < group + lanes
               PROVE  values[idxs[n]] = Spot(idxs[n], lengths[idxs[n]] + steps[idxs[n]])
    OBVIOUS
  <2>1. n = group + watching \/ group + watching < n  BY <1>2, <1>5
  <2>2. CASE n = group + watching
    <3>1. group <= n /\ n <= group + watching  BY <1>2, <1>5, <2>2
    <3> QED BY <1>1, <1>8, <2>2, <3>1, Zenon
  <2>3. CASE group + watching < n  BY <1>8, <2>3, Zenon
  <2> QED BY <2>1, <2>2, <2>3
<1>10. bufs' \in [0 .. 7 -> Int]
  <2>1. -1 \in Int  OBVIOUS
  <2> QED BY <1>1, <1>2, <2>1
<1>11. values' = [c \in Wots!Chains |-> values'[c]]  BY <1>1, Zenon DEF WotsInv
<1>12. CASE watching = 0
  <2>1. phase' = "group" /\ group' = group + lanes /\ watching' = watching  BY <1>1, <1>12
  <2>2. phase' # "climb"  BY <2>1
  <2>3. \A n \in Wots!Chains : n < group + lanes => values[idxs[n]] = Spot(idxs[n], lengths[idxs[n]] + steps[idxs[n]])
    <3> SUFFICES ASSUME NEW n \in Wots!Chains, n < group + lanes
                 PROVE  values[idxs[n]] = Spot(idxs[n], lengths[idxs[n]] + steps[idxs[n]])
      OBVIOUS
    <3>1. n < group \/ group + watching <= n  BY <1>2, <1>5, <1>12
    <3> QED BY <1>8, <1>9, <3>1, Zenon
  <2>4. DoneAreAtTheTop'  BY <1>1, <1>3, <2>1, <2>3, Zenon DEF DoneAreAtTheTop, Stands
  <2>5. OthersWait'
    <3>1. (group + lanes) + 0 = group + lanes  BY <1>2, <1>4
    <3>2. \A n \in Wots!Chains : (group + lanes) + 0 <= n => values[idxs[n]] = Spot(idxs[n], lengths[idxs[n]] + 0)
      BY <1>8, <3>1, Zenon
    <3> QED BY <1>1, <1>3, <2>1, <2>2, <3>2, Zenon DEF OthersWait, Stands
  <2>6. LanesHoldTheGroup' /\ DroppedAreAtTheTop' /\ WatchedClimb'
    BY <2>2, Zenon DEF LanesHoldTheGroup, DroppedAreAtTheTop, WatchedClimb
  <2>7. group' \in Nat /\ phase' \in {"group", "climb", "done"} /\ (phase' = "done" => group' >= Wots!LEN)
    BY <1>2, <1>4, <2>1
  <2> QED BY <1>1, <1>2, <1>3, <1>10, <1>11, <2>1, <2>4, <2>5, <2>6, <2>7, Zenon DEF WotsInv
<1>13. CASE watching # 0
  <2>1. phase' = "climb" /\ group' = group /\ watching' = watching - 1  BY <1>1, <1>13
  <2>2. /\ watching - 1 \in Nat /\ watching - 1 < lanes /\ group + (watching - 1) < Wots!LEN
        /\ \A lane \in 0 .. watching - 1 : lane \in 0 .. watching /\ lane # watching /\ lane \in 0 .. 7
    BY <1>2, <1>4, <1>5, <1>6, <1>13, OneLess
  <2>3. \A lane \in 0 .. watching - 1 : bufs'[lane] = idxs[group + lane] /\ chains'[lane] = idxs[group + lane]
    BY <1>1, <1>2, <1>6, <2>2
  <2>4. climbed <= steps[idxs[group + (watching - 1)]]
    <3>1. /\ group + (watching - 1) \in Wots!Chains /\ group + watching \in Wots!Chains
          /\ group + (watching - 1) <= group + watching
      BY <1>2, <1>5, <1>6, <2>2
    <3> QED BY <1>1, <1>7, <3>1, Zenon
  <2>5. LanesHoldTheGroup'
    <3>1. lanes = Wots!Lanes(build')  BY <1>3
    <3> QED BY <1>1, <1>3, <2>1, <2>2, <2>3, <2>4, <3>1, Zenon DEF LanesHoldTheGroup
  <2>6. DoneAreAtTheTop'  BY <1>1, <1>3, <1>8, <2>1, Zenon DEF DoneAreAtTheTop, Stands
  <2>7. \A n \in Wots!Chains : group + (watching - 1) < n => group + watching <= n  BY <1>2, <1>5
  <2>8. \A n \in Wots!Chains : n <= group + (watching - 1) => n <= group + watching  BY <1>2, <1>5
  <2>9. DroppedAreAtTheTop'
    <3>1. lanes = Wots!Lanes(build')  BY <1>3
    <3> QED BY <1>1, <1>3, <1>9, <2>1, <2>7, <3>1, Zenon DEF DroppedAreAtTheTop, Stands
  <2>10. WatchedClimb'  BY <1>1, <1>3, <1>8, <2>1, <2>8, Zenon DEF WatchedClimb, Stands
  <2>11. OthersWait'
    <3>1. lanes = Wots!Lanes(build')  BY <1>3
    <3> QED BY <1>1, <1>3, <1>8, <2>1, <3>1, Zenon DEF OthersWait, Stands
  <2>12. phase' \in {"group", "climb", "done"} /\ (phase' = "done" => group' >= Wots!LEN)  BY <2>1
  <2> QED BY <1>1, <1>2, <1>3, <1>10, <1>11, <2>1, <2>2, <2>5, <2>6, <2>9, <2>10, <2>11, <2>12, Zenon DEF WotsInv
<1> QED BY <1>12, <1>13

LEMMA HashMovesUp ==
  ASSUME NEW c, NEW x
  PROVE  Wots!thash(Spot(c, x), c, x) = Spot(c, x + 1)
<1>1. Spot(c, x).chain = c /\ Spot(c, x).place = x  BY DEF Spot
<1>2. Wots!thash(Spot(c, x), c, x) = [Spot(c, x) EXCEPT !.place = Spot(c, x).place + 1]  BY <1>1, Zenon DEF Wots!thash
<1>3. [Spot(c, x) EXCEPT !.place = Spot(c, x).place + 1] = Spot(c, x + 1)  BY <1>1 DEF Spot
<1> QED BY <1>2, <1>3

LEMMA ClimbKeeps ==
  ASSUME WotsSizes, WotsInv, Wots!Climb
  PROVE  WotsInv'
<1> DEFINE Holder(c) == CHOOSE lane \in 0 .. watching : bufs[lane] = c
<1>1. /\ phase = "climb" /\ climbed # steps[idxs[group + watching]] /\ climbed' = climbed + 1
      /\ phase' = phase /\ group' = group /\ watching' = watching /\ bufs' = bufs /\ chains' = chains
      /\ UNCHANGED <<msg, build, lengths, steps, idxs>>
      /\ values' = [c \in Wots!Chains |->
            IF \E lane \in 0 .. watching : bufs[lane] = c
            THEN Wots!thash(values[c], chains[Holder(c)], climbed + lengths[idxs[group + Holder(c)]])
            ELSE values[c]]
  BY Zenon DEF Wots!Climb, Wots!LastIsDone, Wots!HashAddress
<1>2. /\ Tables /\ group \in Nat /\ watching \in Nat /\ climbed \in Nat
      /\ bufs \in [0 .. 7 -> Int] /\ chains \in [0 .. 7 -> Int]
  BY Zenon DEF WotsInv
<1>3. Tables' /\ lengths' = lengths /\ steps' = steps /\ idxs' = idxs /\ build' = build
  BY <1>1, <1>2, TablesStay
<1>5. Wots!LEN \in Nat /\ Wots!Chains = 0 .. Wots!LEN - 1  BY ChainsAreMany
<1>6. /\ watching < Wots!Lanes(build) /\ group + watching < Wots!LEN
      /\ \A lane \in 0 .. watching : bufs[lane] = idxs[group + lane] /\ chains[lane] = idxs[group + lane]
      /\ climbed <= steps[idxs[group + watching]]
  BY <1>1, Zenon DEF WotsInv, LanesHoldTheGroup
<1>7. /\ idxs \in [Wots!Chains -> Wots!Chains] /\ steps \in StepCounts /\ lengths \in [Wots!Chains -> 0 .. 15]
      /\ \A n \in Wots!Chains : Wots!Place(steps, idxs[n]) = n
  BY <1>2, TablesAre
<1>8. /\ \A n \in Wots!Chains : n < group => values[idxs[n]] = Spot(idxs[n], lengths[idxs[n]] + steps[idxs[n]])
      /\ \A n \in Wots!Chains : group + watching < n /\ n < group + Wots!Lanes(build) =>
           values[idxs[n]] = Spot(idxs[n], lengths[idxs[n]] + steps[idxs[n]])
      /\ \A n \in Wots!Chains : group <= n /\ n <= group + watching => values[idxs[n]] = Spot(idxs[n], lengths[idxs[n]] + climbed)
      /\ \A n \in Wots!Chains : group + Wots!Lanes(build) <= n => values[idxs[n]] = Spot(idxs[n], lengths[idxs[n]] + 0)
  BY <1>1, Zenon DEF WotsInv, DoneAreAtTheTop, DroppedAreAtTheTop, WatchedClimb, OthersWait, Stands
<1>9. \A lane \in 0 .. watching : group + lane \in Wots!Chains /\ group <= group + lane /\ group + lane <= group + watching
  BY <1>2, <1>5, <1>6
<1>10. \A n \in Wots!Chains : \A lane \in 0 .. watching : bufs[lane] = idxs[n] => group + lane = n
  <2> SUFFICES ASSUME NEW n \in Wots!Chains, NEW lane \in 0 .. watching, bufs[lane] = idxs[n]
               PROVE  group + lane = n
    BY Zenon
  <2>1. idxs[group + lane] = idxs[n] /\ group + lane \in Wots!Chains  BY <1>6, <1>9, Zenon
  <2> QED BY <1>7, <2>1, Zenon
<1>11. ASSUME NEW n \in Wots!Chains, ~ (group <= n /\ n <= group + watching)
       PROVE  values'[idxs[n]] = values[idxs[n]]
  <2>1. idxs[n] \in Wots!Chains  BY <1>7
  <2>2. ~ \E lane \in 0 .. watching : bufs[lane] = idxs[n]  BY <1>9, <1>10, <1>11, Zenon
  <2> QED BY <1>1, <2>1, <2>2, Zenon
<1>12. ASSUME NEW n \in Wots!Chains, group <= n, n <= group + watching
       PROVE  values'[idxs[n]] = Spot(idxs[n], lengths[idxs[n]] + (climbed + 1))
  <2> DEFINE c == idxs[n]
             lane == Holder(c)
  <2>1. c \in Wots!Chains /\ lengths[c] \in Int  BY <1>7
  <2>2. \E l \in 0 .. watching : bufs[l] = c
    <3>1. n - group \in 0 .. watching /\ group + (n - group) = n  BY <1>2, <1>5, <1>12
    <3>2. bufs[n - group] = c  BY <1>6, <3>1
    <3> QED BY <3>1, <3>2
  <2>3. lane \in 0 .. watching /\ bufs[lane] = c  BY <2>2, Zenon
  <2>4. values'[c] = Wots!thash(values[c], chains[lane], climbed + lengths[idxs[group + lane]])
    BY <1>1, <2>1, <2>2, Zenon
  <2> HIDE DEF lane
  <2>5. group + lane = n  BY <1>10, <2>3, Zenon
  <2>6. chains[lane] = c /\ idxs[group + lane] = c  BY <1>6, <2>3, <2>5, Zenon
  <2>7. values[c] = Spot(c, lengths[c] + climbed)  BY <1>8, <1>12, Zenon
  <2>8. values'[c] = Wots!thash(Spot(c, lengths[c] + climbed), c, climbed + lengths[c])  BY <2>4, <2>6, <2>7, Zenon
  <2> HIDE DEF c
  <2>9. climbed + lengths[c] = lengths[c] + climbed /\ (lengths[c] + climbed) + 1 = lengths[c] + (climbed + 1)
    BY <1>2, <2>1
  <2>10. values'[c] = Spot(c, (lengths[c] + climbed) + 1)  BY <2>8, <2>9, HashMovesUp, Zenon
  <2>11. values'[c] = Spot(c, lengths[c] + (climbed + 1))  BY <2>9, <2>10, Zenon
  <2> QED BY <2>11 DEF c
<1> HIDE DEF Holder
<1>13. LanesHoldTheGroup'
  <2>1. climbed + 1 <= steps[idxs[group + watching]]
    <3>1. group + watching \in Wots!Chains  BY <1>2, <1>5, <1>6
    <3>2. steps[idxs[group + watching]] \in 0 .. 15  BY <1>7, <3>1 DEF StepCounts
    <3> QED BY <1>1, <1>2, <1>6, <3>2
  <2> QED BY <1>1, <1>3, <1>6, <2>1, Zenon DEF LanesHoldTheGroup
<1>14. \A n \in Wots!Chains : n \in Int  BY <1>5
<1>15. DoneAreAtTheTop'
  <2>1. \A n \in Wots!Chains : n < group => ~ (group <= n /\ n <= group + watching)  BY <1>2, <1>14
  <2> QED BY <1>1, <1>3, <1>8, <1>11, <2>1, Zenon DEF DoneAreAtTheTop, Stands
<1>16. DroppedAreAtTheTop'
  <2>1. \A n \in Wots!Chains : group + watching < n => ~ (group <= n /\ n <= group + watching)  BY <1>2, <1>14
  <2> QED BY <1>1, <1>3, <1>8, <1>11, <2>1, Zenon DEF DroppedAreAtTheTop, Stands
<1>17. WatchedClimb'  BY <1>1, <1>3, <1>12, Zenon DEF WatchedClimb, Stands
<1>18. OthersWait'
  <2>1. \A n \in Wots!Chains : group + Wots!Lanes(build) <= n => ~ (group <= n /\ n <= group + watching)
    <3>1. Wots!Lanes(build) \in Int
      <4>1. build \in {"x2", "x4", "x8"}  BY <1>2, Zenon DEF Tables
      <4> QED BY <4>1, LanesAre
    <3> QED BY <1>2, <1>6, <1>14, <3>1
  <2> QED BY <1>1, <1>3, <1>8, <1>11, <2>1, Zenon DEF OthersWait, Stands
<1>19. values' = [c \in Wots!Chains |-> values'[c]]  BY <1>1
<1>20. climbed' \in Nat /\ (phase' = "done" => group' >= Wots!LEN) /\ phase' \in {"group", "climb", "done"}  BY <1>1, <1>2
<1> QED BY <1>1, <1>2, <1>3, <1>13, <1>15, <1>16, <1>17, <1>18, <1>19, <1>20, Zenon DEF WotsInv

LEMMA FinishKeeps ==
  ASSUME WotsSizes, WotsInv, Wots!Finish
  PROVE  WotsInv'
<1>1. /\ phase = "group" /\ group >= Wots!LEN /\ phase' = "done"
      /\ group' = group /\ watching' = watching /\ climbed' = climbed /\ bufs' = bufs /\ chains' = chains /\ values' = values
      /\ UNCHANGED <<msg, build, lengths, steps, idxs>>
  BY Zenon DEF Wots!Finish
<1>2. Tables  BY Zenon DEF WotsInv
<1>3. Tables' /\ lengths' = lengths /\ steps' = steps /\ idxs' = idxs /\ build' = build  BY <1>1, <1>2, TablesStay
<1>4. phase # "climb" /\ phase' # "climb"  BY <1>1
<1>5. LanesHoldTheGroup' /\ DroppedAreAtTheTop' /\ WatchedClimb'
  BY <1>4, Zenon DEF LanesHoldTheGroup, DroppedAreAtTheTop, WatchedClimb
<1>6. DoneAreAtTheTop'  BY <1>1, <1>3, Zenon DEF WotsInv, DoneAreAtTheTop, Stands
<1>7. OthersWait'  BY <1>1, <1>3, <1>4, Zenon DEF WotsInv, OthersWait, Stands
<1> QED BY <1>1, <1>3, <1>5, <1>6, <1>7, Zenon DEF WotsInv

LEMMA WotsStays ==
  ASSUME WotsSizes, WotsInv, UNCHANGED Wots!vars
  PROVE  WotsInv'
<1>1. /\ phase' = phase /\ group' = group /\ watching' = watching /\ climbed' = climbed /\ bufs' = bufs /\ chains' = chains /\ values' = values
      /\ UNCHANGED <<msg, build, lengths, steps, idxs>>
  BY Zenon DEF Wots!vars
<1>2. Tables  BY Zenon DEF WotsInv
<1>3. Tables' /\ lengths' = lengths /\ steps' = steps /\ idxs' = idxs /\ build' = build  BY <1>1, <1>2, TablesStay
<1>4. LanesHoldTheGroup'  BY <1>1, <1>3, Zenon DEF WotsInv, LanesHoldTheGroup
<1>5. DroppedAreAtTheTop' /\ DoneAreAtTheTop'  BY <1>1, <1>3, Zenon DEF WotsInv, DroppedAreAtTheTop, DoneAreAtTheTop, Stands
<1>6. WatchedClimb'  BY <1>1, <1>3, Zenon DEF WotsInv, WatchedClimb, Stands
<1>7. OthersWait'  BY <1>1, <1>3, Zenon DEF WotsInv, OthersWait, Stands
<1> QED BY <1>1, <1>3, <1>4, <1>5, <1>6, <1>7, Zenon DEF WotsInv

LEMMA WotsSteps ==
  ASSUME WotsSizes, WotsInv, [Wots!Next]_(Wots!vars)
  PROVE  WotsInv'
<1>1. CASE UNCHANGED Wots!vars  BY <1>1, WotsStays
<1>2. CASE Wots!Next
  <2>1. PICK lanes \in {2, 4, 8} : /\ lanes = Wots!Lanes(build)
                                   /\ Wots!Group(lanes) \/ Wots!Drop(lanes) \/ Wots!Climb \/ Wots!Finish
    <3>1. CASE Wots!gen_chains_x2  BY <3>1, LanesAre, Zenon DEF Wots!gen_chains_x2
    <3>2. CASE Wots!gen_chains_x4  BY <3>2, LanesAre, Zenon DEF Wots!gen_chains_x4
    <3>3. CASE Wots!gen_chains_x8  BY <3>3, LanesAre, Zenon DEF Wots!gen_chains_x8
    <3> QED BY <1>2, <3>1, <3>2, <3>3 DEF Wots!Next
  <2> QED BY <2>1, GroupKeeps, DropKeeps, ClimbKeeps, FinishKeeps
<1> QED BY <1>1, <1>2

(* The function that gen_chain defines by recursion, and what it is: every *)
(* step of the reference code goes one place up.                           *)
Climbing(c, from, n, f) ==
  [x \in from .. from + n |-> IF x = from THEN Spot(c, from) ELSE Wots!thash(f[x - 1], c, x - 1)]

LEMMA ChainClimbs ==
  ASSUME NEW c, NEW from \in Nat, NEW n \in Nat
  PROVE  Wots!gen_chain(Spot(c, from), c, from, n) = Spot(c, from + n)
<1> DEFINE f == CHOOSE f : f = Climbing(c, from, n, f)
           g == [x \in from .. from + n |-> Spot(c, x)]
           T == {m \in Nat : m <= n => f[from + m] = Spot(c, from + m)}
<1>1. Wots!gen_chain(Spot(c, from), c, from, n) = f[from + n]  BY Zenon DEF Wots!gen_chain, Climbing
<1>2. g = Climbing(c, from, n, g)
  <2>1. \A x \in from .. from + n :
          Spot(c, x) = IF x = from THEN Spot(c, from) ELSE Wots!thash(g[x - 1], c, x - 1)
    <3> TAKE x \in from .. from + n
    <3>1. CASE x = from  BY <3>1
    <3>2. CASE x # from
      <4>1. x - 1 \in from .. from + n /\ (x - 1) + 1 = x  BY <3>2
      <4>2. g[x - 1] = Spot(c, x - 1)  BY <4>1
      <4>3. Wots!thash(g[x - 1], c, x - 1) = Spot(c, x)  BY <4>1, <4>2, HashMovesUp, Zenon
      <4> QED BY <3>2, <4>3
    <3> QED BY <3>1, <3>2
  <2> QED BY <2>1, Zenon DEF Climbing
<1>3. f = Climbing(c, from, n, f)
  <2> HIDE DEF g
  <2>1. \E h : h = Climbing(c, from, n, h)  BY <1>2
  <2> QED BY <2>1
<1> HIDE DEF f, g
<1>4. \A x \in from .. from + n : f[x] = IF x = from THEN Spot(c, from) ELSE Wots!thash(f[x - 1], c, x - 1)
  BY <1>3, Zenon DEF Climbing
<1>5. 0 \in T
  <2>1. from + 0 = from /\ from \in from .. from + n  BY SMT
  <2>2. f[from + 0] = Spot(c, from + 0)  BY <1>4, <2>1, Zenon
  <2> QED BY <2>2
<1>6. ASSUME NEW m \in Nat, m \in T
      PROVE  m + 1 \in T
  <2> SUFFICES ASSUME m + 1 <= n
               PROVE  f[from + (m + 1)] = Spot(c, from + (m + 1))
    OBVIOUS
  <2>1. /\ from + (m + 1) \in from .. from + n /\ from + (m + 1) # from
        /\ (from + (m + 1)) - 1 = from + m /\ (from + m) + 1 = from + (m + 1) /\ m <= n
    OBVIOUS
  <2>2. f[from + m] = Spot(c, from + m)  BY <1>6, <2>1
  <2>3. f[from + (m + 1)] = Wots!thash(f[from + m], c, from + m)  BY <1>4, <2>1, Zenon
  <2> QED BY <2>1, <2>2, <2>3, HashMovesUp, Zenon
<1> HIDE DEF T
<1>7. Nat \subseteq T  BY <1>5, <1>6, Induction
<1>8. f[from + n] = Spot(c, from + n)
  <2>1. n \in T /\ n <= n  BY <1>7
  <2> QED BY <2>1 DEF T
<1> QED BY <1>1, <1>8

(* The three properties that the run checks: nothing is read past the end  *)
(* of an array and no chain climbs past its top; when the last chain is    *)
(* done the values are those that one chain after the other gives, and the *)
(* signer's; and no other message could be signed with the published       *)
(* values, since one of its chains would have to be run backwards.         *)
ChainsGiveTheKey == Wots!InBounds /\ Wots!SameKey /\ Wots!NoOtherMessage

LEMMA WotsBounds ==
  ASSUME WotsSizes, WotsInv
  PROVE  Wots!InBounds
<1>1. Tables /\ group \in Nat /\ watching \in Nat /\ climbed \in Nat  BY Zenon DEF WotsInv
<1>2. Wots!LEN \in Nat /\ Wots!Chains = 0 .. Wots!LEN - 1  BY ChainsAreMany
<1>3. /\ idxs \in [Wots!Chains -> Wots!Chains] /\ steps \in StepCounts /\ lengths \in [Wots!Chains -> 0 .. 15]
      /\ \A c \in Wots!Chains : Wots!Place(steps, c) \in Wots!Chains /\ idxs[Wots!Place(steps, c)] = c
      /\ \A n, o \in Wots!Chains : n <= o => steps[idxs[o]] <= steps[idxs[n]]
      /\ \A c \in Wots!Chains : steps[c] = 15 - lengths[c]
  BY <1>1, TablesAre
<1>4. phase = "climb" =>
        /\ watching < Wots!Lanes(build) /\ group + watching < Wots!LEN
        /\ climbed <= steps[idxs[group + watching]]
  BY Zenon DEF WotsInv, LanesHoldTheGroup
<1>5. phase = "climb" => \A lane \in 0 .. watching : climbed <= steps[idxs[group + lane]]
  <2> SUFFICES ASSUME phase = "climb", NEW lane \in 0 .. watching
               PROVE  climbed <= steps[idxs[group + lane]]
    OBVIOUS
  <2>1. group + lane \in Wots!Chains /\ group + watching \in Wots!Chains /\ group + lane <= group + watching
    BY <1>1, <1>2, <1>4
  <2>2. steps[idxs[group + watching]] <= steps[idxs[group + lane]]  BY <1>3, <2>1, Zenon
  <2>3. steps[idxs[group + watching]] \in 0 .. 15 /\ steps[idxs[group + lane]] \in 0 .. 15  BY <1>3, <2>1 DEF StepCounts
  <2> QED BY <1>1, <1>4, <2>2, <2>3
<1>6. ASSUME NEW n \in Wots!Chains
      PROVE  \E h \in 0 .. steps[idxs[n]] : Stands(n, h)
  <2>1. steps[idxs[n]] \in 0 .. 15  BY <1>3 DEF StepCounts
  <2>2. 0 \in 0 .. steps[idxs[n]] /\ steps[idxs[n]] \in 0 .. steps[idxs[n]]  BY <2>1
  <2>3. CASE n < group
    <3>1. Stands(n, steps[idxs[n]])  BY <2>3, Zenon DEF WotsInv, DoneAreAtTheTop
    <3> QED BY <2>2, <3>1
  <2>4. CASE ~ (n < group) /\ phase # "climb"
    <3>1. group + 0 <= n  BY <1>1, <1>2, <2>4
    <3>2. Stands(n, 0)  BY <2>4, <3>1, Zenon DEF WotsInv, OthersWait
    <3> QED BY <2>2, <3>2
  <2>5. CASE ~ (n < group) /\ phase = "climb"
    <3>1. CASE n <= group + watching
      <4>1. group <= n  BY <1>1, <1>2, <2>5
      <4>2. Stands(n, climbed)  BY <2>5, <3>1, <4>1, Zenon DEF WotsInv, WatchedClimb
      <4>3. n - group \in 0 .. watching /\ group + (n - group) = n  BY <1>1, <1>2, <3>1, <4>1
      <4>4. climbed <= steps[idxs[n]]  BY <1>5, <2>5, <4>3
      <4>5. climbed \in 0 .. steps[idxs[n]]  BY <1>1, <2>1, <4>4
      <4> QED BY <4>2, <4>5
    <3>2. CASE ~ (n <= group + watching) /\ n < group + Wots!Lanes(build)
      <4>1. group + watching < n  BY <1>1, <1>2, <3>2
      <4>2. Stands(n, steps[idxs[n]])  BY <2>5, <3>2, <4>1, Zenon DEF WotsInv, DroppedAreAtTheTop
      <4> QED BY <2>2, <4>2
    <3>3. CASE ~ (n < group + Wots!Lanes(build))
      <4>1. Wots!Lanes(build) \in Int
        <5>1. build \in {"x2", "x4", "x8"}  BY <1>1, Zenon DEF Tables
        <5> QED BY <5>1, LanesAre
      <4>2. group + Wots!Lanes(build) <= n  BY <1>1, <1>2, <3>3, <4>1
      <4>3. Stands(n, 0)  BY <2>5, <4>2, Zenon DEF WotsInv, OthersWait
      <4> QED BY <2>2, <4>3
    <3> QED BY <3>1, <3>2, <3>3
  <2> QED BY <2>3, <2>4, <2>5
<1>7. ASSUME NEW c \in Wots!Chains
      PROVE  values[c].chain = c /\ values[c].place \in lengths[c] .. Wots!W - 1
  <2> DEFINE n == Wots!Place(steps, c)
  <2>1. n \in Wots!Chains /\ idxs[n] = c  BY <1>3, Zenon
  <2>2. PICK h \in 0 .. steps[c] : values[c] = Spot(c, lengths[c] + h)
    <3> HIDE DEF n
    <3>1. PICK h \in 0 .. steps[idxs[n]] : Stands(n, h)  BY <1>6, <2>1
    <3> QED BY <2>1, <3>1 DEF Stands
  <2>3. values[c].chain = c /\ values[c].place = lengths[c] + h  BY <2>2 DEF Spot
  <2>4. lengths[c] \in 0 .. 15 /\ steps[c] = 15 - lengths[c]  BY <1>3
  <2>5. Wots!W - 1 = 15  BY WotsNumbers
  <2>6. lengths[c] + h \in lengths[c] .. 15  BY <2>4
  <2> QED BY <2>3, <2>5, <2>6
<1>8. phase = "climb" => watching >= 0  BY <1>1
<1> QED BY <1>4, <1>5, <1>7, <1>8, Zenon DEF Wots!InBounds

LEMMA WotsKey ==
  ASSUME WotsSizes, WotsInv
  PROVE  Wots!SameKey
<1> SUFFICES ASSUME phase = "done"
             PROVE  /\ values = Wots!wots_pk_from_sig(Wots!Signature(msg), msg)
                    /\ \A c \in Wots!Chains : values[c] = Spot(c, 15)
  <2>1. Wots!W - 1 = 15  BY WotsNumbers
  <2> QED BY <2>1, Zenon DEF Wots!SameKey, Spot
<1>1. Tables /\ group \in Nat  BY Zenon DEF WotsInv
<1>2. Wots!LEN \in Nat /\ Wots!Chains = 0 .. Wots!LEN - 1  BY ChainsAreMany
<1>3. /\ lengths \in [Wots!Chains -> 0 .. 15]
      /\ \A c \in Wots!Chains : Wots!Place(steps, c) \in Wots!Chains /\ idxs[Wots!Place(steps, c)] = c
      /\ \A c \in Wots!Chains : steps[c] = 15 - lengths[c]
  BY <1>1, TablesAre
<1>4. ASSUME NEW c \in Wots!Chains
      PROVE  values[c] = Spot(c, 15)
  <2> DEFINE n == Wots!Place(steps, c)
  <2>1. n \in Wots!Chains /\ idxs[n] = c  BY <1>3, Zenon
  <2> HIDE DEF n
  <2>2. group >= Wots!LEN  BY Zenon DEF WotsInv
  <2>3. n < group  BY <1>1, <1>2, <2>1, <2>2
  <2>4. Stands(n, steps[idxs[n]])  BY <2>1, <2>3, Zenon DEF WotsInv, DoneAreAtTheTop
  <2>5. values[c] = Spot(c, lengths[c] + steps[c])  BY <2>1, <2>4, Zenon DEF Stands
  <2>6. lengths[c] + steps[c] = 15
    <3>1. lengths[c] \in 0 .. 15 /\ steps[c] = 15 - lengths[c]  BY <1>3
    <3> QED BY <3>1
  <2> QED BY <2>5, <2>6
<1>5. ASSUME NEW c \in Wots!Chains
      PROVE  Wots!gen_chain(Wots!Signature(msg)[c], c, lengths[c], Wots!W - 1 - lengths[c]) = Spot(c, 15)
  <2>1. lengths = Wots!chain_lengths(msg)  BY <1>1, Zenon DEF Tables
  <2>2. Wots!Signature(msg)[c] = Spot(c, lengths[c])  BY <2>1, Zenon DEF Wots!Signature, Spot
  <2>3. Wots!W = 16  BY WotsNumbers
  <2>4. Wots!W - 1 - lengths[c] \in Nat /\ lengths[c] \in Nat /\ lengths[c] + (Wots!W - 1 - lengths[c]) = 15
    <3>1. lengths[c] \in 0 .. 15  BY <1>3
    <3> QED BY <2>3, <3>1
  <2>5. Wots!gen_chain(Spot(c, lengths[c]), c, lengths[c], Wots!W - 1 - lengths[c])
          = Spot(c, lengths[c] + (Wots!W - 1 - lengths[c]))
    BY <2>4, ChainClimbs
  <2> QED BY <2>2, <2>4, <2>5, Zenon
<1>6. values = [c \in Wots!Chains |-> Spot(c, 15)]
  <2>1. values = [c \in Wots!Chains |-> values[c]]  BY Zenon DEF WotsInv
  <2> QED BY <1>4, <2>1, Zenon
<1>7. Wots!wots_pk_from_sig(Wots!Signature(msg), msg) = [c \in Wots!Chains |-> Spot(c, 15)]
  <2>1. lengths = Wots!chain_lengths(msg)  BY <1>1, Zenon DEF Tables
  <2> QED BY <1>5, <2>1, Zenon DEF Wots!wots_pk_from_sig
<1> QED BY <1>4, <1>6, <1>7

LEMMA WotsOthers ==
  ASSUME WotsSizes, WotsInv
  PROVE  Wots!NoOtherMessage
<1>1. msg \in Messages /\ lengths = Wots!chain_lengths(msg)  BY Zenon DEF WotsInv, Tables
<1>2. \A m \in Messages \ {msg} : \E c \in Wots!Chains : Wots!chain_lengths(m)[c] < lengths[c]
  BY <1>1, LengthsDiffer, Zenon
<1> QED BY <1>2, Zenon DEF Wots!NoOtherMessage

(* gen_chains with 2, 4 or 8 lanes (shake-a64/wots.c, shake-avx2/wots.c,   *)
(* sha2-avx2/wots.c) gives the public key that ref/wots.c gives, for every *)
(* size of message up to 136 bytes, every message and every order of its   *)
(* chains, and the checksum keeps the signature from being one of another  *)
(* message (ref/wots.c:66-84).                                             *)
THEOREM ManyLanesGiveTheKey ==
  WotsSizes => (Wots!Spec => []ChainsGiveTheKey)
<1> SUFFICES ASSUME WotsSizes
             PROVE  Wots!Spec => []ChainsGiveTheKey
  OBVIOUS
<1>1. Wots!Init => WotsInv  BY WotsInit
<1>2. WotsInv /\ [Wots!Next]_(Wots!vars) => WotsInv'  BY WotsSteps
<1>3. WotsInv => ChainsGiveTheKey  BY WotsBounds, WotsKey, WotsOthers DEF ChainsGiveTheKey
<1> QED BY <1>1, <1>2, <1>3, PTL DEF Wots!Spec

-----------------------------------------------------------------------------
(***************************************************************************)
(* The sponge. Its invariant says what every state holds: the blocks that  *)
(* the message has, with or without its padding, and what was squeezed;    *)
(* and how the counter, which counts up or down, stands for that.          *)
(***************************************************************************)
CONSTANTS WordSize, Rate128, Rate256, MaxAbsorbed, MaxSqueezed
VARIABLES whose, rate, stage, states, pos, left, ask, fed, output

Sponge == INSTANCE Sponge WITH
  W <- WordSize, SHAKE128_RATE <- Rate128, SHAKE256_RATE <- Rate256, MaxIn <- MaxAbsorbed,
  MaxOut <- MaxSqueezed, build <- whose, r <- rate, pc <- stage, s <- states, out <- output

(* The byte of a message that lies at place x of block b. *)
Place(b, x) == ((b - 1) * rate) + x + 1

(* The first f bytes of message k in blocks; and the whole message of f    *)
(* bytes, the last of its blocks being block m + 1.  Both go on with empty *)
(* blocks.                                                                 *)
Message(k, f) ==
  [b \in Nat |-> [x \in 0 .. rate - 1 |-> IF Place(b, x) <= f THEN {<<k, Place(b, x)>>} ELSE {}]]
Ended(k, f, m) ==
  [b \in Nat |-> [x \in 0 .. rate - 1 |->
     (IF Place(b, x) <= f THEN {<<k, Place(b, x)>>} ELSE IF Place(b, x) = f + 1 THEN {Sponge!p} ELSE {})
     \cup (IF b = m + 1 /\ x = rate - 1 THEN {Sponge!top} ELSE {})]]

(* What blocks hold: a whole one of message k, the first y bytes of block  *)
(* m + 1, the same with the padding behind them, and nothing.              *)
Full(k, b) == [x \in 0 .. rate - 1 |-> {<<k, Place(b, x)>>}]
Part(k, m, y) == [x \in 0 .. rate - 1 |-> IF x < y THEN {<<k, m * rate + x + 1>>} ELSE {}]
Last(k, m, y) ==
  [x \in 0 .. rate - 1 |->
     (IF x < y THEN {<<k, m * rate + x + 1>>} ELSE IF x = y THEN {Sponge!p} ELSE {})
     \cup (IF x = rate - 1 THEN {Sponge!top} ELSE {})]
Empty == [x \in 0 .. rate - 1 |-> {}]

(* The state after m of the blocks g; the first n bytes of the stream that *)
(* a message with m whole blocks has.                                      *)
After(g, m) == [past |-> [b \in 1 .. m |-> g[b]], block |-> g[m + 1]]
Stream(m, n) == [c \in 1 .. n |-> <<(m + 1) + ((c - 1) \div rate), (c - 1) % rate, {}>>]

Filled(m) ==
  /\ fed = m * rate + pos
  /\ states = [k \in Sponge!Instances(whose) |-> After(Message(k, fed), m)]
  /\ output = [k \in Sponge!Instances(whose) |-> <<>>]
Squeezed(m, x, q, n) ==
  /\ fed = m * rate + x
  /\ states = [k \in Sponge!Instances(whose) |-> After(Ended(k, fed, m), m + q)]
  /\ output = [k \in Sponge!Instances(whose) |-> Stream(m, n)]
(* What the counter says of the n bytes taken from q blocks. *)
Counted(q, n) ==
  IF whose = "dilithium" THEN n + rate = q * rate + pos ELSE n + pos = q * rate

Feeding == {"new", "absorb", "absorbing", "once"}
Giving == {"squeeze", "blocks", "squeezing"}

SpongeSizes ==
  /\ whose \in {"dilithium", "sphincs", "dilithium x4", "sphincs x4", "sphincs x2"}
  /\ rate \in Nat /\ rate >= 2
  /\ stage \in Feeding \cup Giving \cup {"done"}
  /\ fed \in Nat /\ left \in Nat /\ ask \in Nat \cup {Sponge!None}
PosInBlock ==
  /\ stage \in Feeding => pos \in 0 .. rate - 1
  /\ stage \in {"new", "once"} => pos = 0
  /\ stage = "new" => fed = 0
  /\ stage \in Giving => pos \in (IF whose = "dilithium" THEN 1 .. rate ELSE 0 .. rate - 1)
  /\ stage = "blocks" => pos = (IF whose = "dilithium" THEN rate ELSE 0)
  /\ stage = "squeezing" => whose \in {"dilithium", "sphincs"}
  /\ stage = "squeezing" /\ whose # "dilithium" /\ left > 0 => pos = 0
  /\ stage = "squeeze" /\ whose = "dilithium x4" => pos = 0
LeftInBlocks ==
  stage = "blocks" /\ whose # "dilithium" /\ ask = Sponge!None => \E q \in Nat : left = q * rate
BytesAreRight ==
  /\ stage \in Feeding => \E m \in Nat : Filled(m)
  /\ stage \notin Feeding =>
       \E m, q, n \in Nat, x \in 0 .. rate - 1 : Squeezed(m, x, q, n) /\ (stage \in Giving => Counted(q, n))
SpongeInv == SpongeSizes /\ PosInBlock /\ LeftInBlocks /\ BytesAreRight

RateIs == rate \in Nat /\ rate >= 2

(* Rows of a table, one behind the other. *)
LEMMA RowsBefore ==
  ASSUME RateIs, NEW b \in Nat, NEW m \in Nat, b < m
  PROVE  b * rate + rate <= m * rate
<1> DEFINE d == m - (b + 1)
<1>1. d \in Nat /\ m = (b + 1) + d  OBVIOUS
<1> HIDE DEF d
<1>2. m * rate = (b + 1) * rate + d * rate  BY <1>1 DEF RateIs
<1>3. (b + 1) * rate = b * rate + rate  BY DEF RateIs
<1>4. d * rate \in Nat /\ b * rate \in Nat  BY <1>1 DEF RateIs
<1> QED BY <1>2, <1>3, <1>4 DEF RateIs

LEMMA PlacesOfBlocks ==
  ASSUME RateIs, NEW m \in Nat, NEW b \in Nat, NEW x \in 0 .. rate - 1
  PROVE  /\ b \in 1 .. m => Place(b, x) <= m * rate
         /\ b = m + 1 => Place(b, x) = m * rate + x + 1
         /\ b > m + 1 => Place(b, x) > (m * rate + rate) + x
         /\ m * rate \in Nat /\ Place(b, x) \in Int
<1>1. m * rate \in Nat /\ (m + 1) * rate = m * rate + rate  BY DEF RateIs
<1>2. Place(b, x) \in Int  BY DEF Place, RateIs
<1>3. ASSUME b \in 1 .. m
      PROVE  Place(b, x) <= m * rate
  <2>1. b - 1 \in Nat /\ b - 1 < m  BY <1>3
  <2>2. (b - 1) * rate + rate <= m * rate /\ (b - 1) * rate \in Nat
    BY <2>1, RowsBefore DEF RateIs
  <2> QED BY <2>2, <1>1 DEF Place, RateIs
<1>4. ASSUME b = m + 1
      PROVE  Place(b, x) = m * rate + x + 1
  <2>1. b - 1 = m  BY <1>4
  <2> QED BY <2>1, <1>1 DEF Place, RateIs
<1>5. ASSUME b > m + 1
      PROVE  Place(b, x) > (m * rate + rate) + x
  <2>1. b - 1 \in Nat /\ m < b - 1  BY <1>5
  <2>2. m * rate + rate <= (b - 1) * rate /\ (b - 1) * rate \in Nat
    BY <2>1, RowsBefore DEF RateIs
  <2> QED BY <2>2, <1>1 DEF Place, RateIs
<1> QED BY <1>1, <1>2, <1>3, <1>4, <1>5

(* The block that is being filled; those before it are full. *)
LEMMA MessageBlocks ==
  ASSUME RateIs, NEW k, NEW m \in Nat, NEW y \in 0 .. rate, NEW f, f = m * rate + y
  PROVE  /\ Message(k, f)[m + 1] = Part(k, m, y)
         /\ \A b \in 1 .. m : Message(k, f)[b] = Full(k, b)
<1>1. m * rate \in Nat /\ f \in Nat  BY DEF RateIs
<1>2. ASSUME NEW b \in Nat
      PROVE  Message(k, f)[b]
               = [x \in 0 .. rate - 1 |-> IF Place(b, x) <= f THEN {<<k, Place(b, x)>>} ELSE {}]
  BY DEF Message
<1>3. Message(k, f)[m + 1] = Part(k, m, y)
  <2>1. ASSUME NEW x \in 0 .. rate - 1
        PROVE  Place(m + 1, x) = m * rate + x + 1 /\ (Place(m + 1, x) <= f <=> x < y)
    <3>1. Place(m + 1, x) = m * rate + x + 1  BY PlacesOfBlocks
    <3> QED BY <3>1, <1>1 DEF RateIs
  <2>2. [x \in 0 .. rate - 1 |-> IF Place(m + 1, x) <= f THEN {<<k, Place(m + 1, x)>>} ELSE {}]
          = Part(k, m, y)
    BY <2>1 DEF Part
  <2>3. m + 1 \in Nat  OBVIOUS
  <2> QED BY <1>2, <2>2, <2>3
<1>4. ASSUME NEW b \in 1 .. m
      PROVE  Message(k, f)[b] = Full(k, b)
  <2>1. ASSUME NEW x \in 0 .. rate - 1
        PROVE  Place(b, x) <= f
    <3>1. Place(b, x) <= m * rate /\ Place(b, x) \in Int  BY PlacesOfBlocks
    <3> QED BY <3>1, <1>1 DEF RateIs
  <2>2. b \in Nat  OBVIOUS
  <2>3. Message(k, f)[b]
          = [x \in 0 .. rate - 1 |-> IF Place(b, x) <= f THEN {<<k, Place(b, x)>>} ELSE {}]
    BY <1>2, <2>2, Zenon
  <2>4. [x \in 0 .. rate - 1 |-> IF Place(b, x) <= f THEN {<<k, Place(b, x)>>} ELSE {}] = Full(k, b)
    BY <2>1, Zenon DEF Full
  <2> QED BY <2>3, <2>4, Zenon
<1> QED BY <1>3, <1>4

(* The blocks of the whole message: full ones, the padded one, empty ones. *)
Whole(g, k, m, y) ==
  /\ g[m + 1] = Last(k, m, y)
  /\ \A b \in 1 .. m : g[b] = Full(k, b)
  /\ \A b \in Nat : b > m + 1 => g[b] = Empty
LEMMA EndedBlocks ==
  ASSUME RateIs, NEW k, NEW m \in Nat, NEW y \in 0 .. rate - 1, NEW f, f = m * rate + y
  PROVE  Whole(Ended(k, f, m), k, m, y)
<1> DEFINE Byte(b, x) ==
             (IF Place(b, x) <= f THEN {<<k, Place(b, x)>>} ELSE IF Place(b, x) = f + 1 THEN {Sponge!p} ELSE {})
             \cup (IF b = m + 1 /\ x = rate - 1 THEN {Sponge!top} ELSE {})
<1>1. m * rate \in Nat /\ f \in Nat  BY DEF RateIs
<1>2. ASSUME NEW b \in Nat
      PROVE  Ended(k, f, m)[b] = [x \in 0 .. rate - 1 |-> Byte(b, x)]
  BY DEF Ended
<1>3. ASSUME NEW x \in 0 .. rate - 1
      PROVE  Byte(m + 1, x) = (IF x < y THEN {<<k, m * rate + x + 1>>} ELSE IF x = y THEN {Sponge!p} ELSE {})
                                \cup (IF x = rate - 1 THEN {Sponge!top} ELSE {})
  <2>1. Place(m + 1, x) = m * rate + x + 1  BY PlacesOfBlocks
  <2>2. (Place(m + 1, x) <= f <=> x < y) /\ (Place(m + 1, x) = f + 1 <=> x = y)  BY <2>1, <1>1 DEF RateIs
  <2> QED BY <2>1, <2>2
<1>4. ASSUME NEW b \in 1 .. m, NEW x \in 0 .. rate - 1
      PROVE  Byte(b, x) = {<<k, Place(b, x)>>}
  <2>1. Place(b, x) <= m * rate /\ Place(b, x) \in Int  BY PlacesOfBlocks
  <2>2. Place(b, x) <= f  BY <2>1, <1>1 DEF RateIs
  <2>3. b # m + 1  OBVIOUS
  <2> QED BY <2>2, <2>3
<1>5. ASSUME NEW b \in Nat, b > m + 1, NEW x \in 0 .. rate - 1
      PROVE  Byte(b, x) = {}
  <2>1. Place(b, x) > (m * rate + rate) + x /\ Place(b, x) \in Int  BY <1>5, PlacesOfBlocks
  <2>2. ~(Place(b, x) <= f) /\ Place(b, x) # f + 1  BY <2>1, <1>1 DEF RateIs
  <2>3. b # m + 1  BY <1>5
  <2> QED BY <2>2, <2>3
<1> HIDE DEF Byte
<1>6. Ended(k, f, m)[m + 1] = Last(k, m, y)
  <2>1. m + 1 \in Nat  OBVIOUS
  <2>2. Ended(k, f, m)[m + 1] = [x \in 0 .. rate - 1 |-> Byte(m + 1, x)]  BY <1>2, <2>1, Zenon
  <2> QED BY <1>3, <2>2 DEF Last
<1>7. ASSUME NEW b \in 1 .. m
      PROVE  Ended(k, f, m)[b] = Full(k, b)
  <2>1. b \in Nat  OBVIOUS
  <2>2. Ended(k, f, m)[b] = [x \in 0 .. rate - 1 |-> Byte(b, x)]  BY <1>2, <2>1, Zenon
  <2> QED BY <1>4, <2>2 DEF Full
<1>8. ASSUME NEW b \in Nat, b > m + 1
      PROVE  Ended(k, f, m)[b] = Empty
  <2>1. Ended(k, f, m)[b] = [x \in 0 .. rate - 1 |-> Byte(b, x)]  BY <1>2, Zenon
  <2>2. \A x \in 0 .. rate - 1 : Byte(b, x) = {}  BY <1>5, <1>8, Zenon
  <2> QED BY <2>1, <2>2 DEF Empty
<1> QED BY <1>6, <1>7, <1>8 DEF Whole

(* The first elements of an endless list. *)
LEMMA FirstOnes ==
  ASSUME NEW g, NEW n \in Nat
  PROVE  /\ [c \in 1 .. n |-> g[c]] \in Seq({g[d] : d \in Nat})
         /\ Len([c \in 1 .. n |-> g[c]]) = n
         /\ DOMAIN [c \in 1 .. n |-> g[c]] = 1 .. n
         /\ \A c \in 1 .. n : [d \in 1 .. n |-> g[d]][c] = g[c]
<1> DEFINE S == {g[d] : d \in Nat}
           t == [c \in 1 .. n |-> g[c]]
<1>1. t \in [1 .. n -> S]  OBVIOUS
<1>2. t \in Seq(S)
  <2>1. Seq(S) = UNION {[1 .. k -> S] : k \in Nat}  BY SeqDef, Zenon
  <2> HIDE DEF S, t
  <2> QED BY <1>1, <2>1
<1>3. Len(t) \in Nat /\ DOMAIN t = 1 .. Len(t)
  <2> HIDE DEF S, t
  <2> QED BY <1>2, LenProperties, Zenon
<1>4. DOMAIN t = 1 .. n  OBVIOUS
<1>5. Len(t) = n
  <2> HIDE DEF S, t
  <2> DEFINE l == Len(t)
  <2>1. l \in Nat /\ 1 .. l = 1 .. n  BY <1>3, <1>4, Zenon
  <2> HIDE DEF l
  <2>2. ~(l > n)
    <3>1. l > n => l \in 1 .. l /\ l \notin 1 .. n  BY <2>1
    <3> QED BY <2>1, <3>1
  <2>3. ~(n > l)
    <3>1. n > l => n \in 1 .. n /\ n \notin 1 .. l  BY <2>1
    <3> QED BY <2>1, <3>1
  <2>4. l = n  BY <2>1, <2>2, <2>3
  <2> QED BY <2>4 DEF l
<1> QED BY <1>2, <1>4, <1>5

LEMMA AppendNext ==
  ASSUME NEW g, NEW n \in Nat
  PROVE  Append([c \in 1 .. n |-> g[c]], g[n + 1]) = [c \in 1 .. n + 1 |-> g[c]]
<1> DEFINE S == {g[d] : d \in Nat}
           t == [c \in 1 .. n |-> g[c]]
           u == [c \in 1 .. n + 1 |-> g[c]]
<1>1. t \in Seq(S) /\ Len(t) = n /\ \A c \in 1 .. n : t[c] = g[c]  BY FirstOnes, Zenon
<1>2. u \in Seq(S) /\ Len(u) = n + 1 /\ \A c \in 1 .. n + 1 : u[c] = g[c]
  <2>1. n + 1 \in Nat  OBVIOUS
  <2> QED BY <2>1, FirstOnes, Zenon
<1>3. g[n + 1] \in S  BY n + 1 \in Nat
<1> HIDE DEF S, t, u
<1>4. Append(t, g[n + 1]) \in Seq(S) /\ Len(Append(t, g[n + 1])) = n + 1
  BY <1>1, <1>3
<1>5. \A c \in 1 .. n + 1 : Append(t, g[n + 1])[c] = g[c]
  <2> TAKE c \in 1 .. n + 1
  <2>1. CASE c = n + 1  BY <1>1, <1>3, <2>1
  <2>2. CASE c # n + 1
    <3>1. c \in 1 .. n  BY <2>2
    <3> QED BY <1>1, <1>3, <3>1
  <2> QED BY <2>1, <2>2
<1>6. Append(t, g[n + 1]) = u
  BY <1>2, <1>4, <1>5, SeqEqual
<1> QED BY <1>6 DEF t, u

LEMMA ConcatNext ==
  ASSUME NEW g, NEW n \in Nat, NEW m \in Nat
  PROVE  [c \in 1 .. n |-> g[c]] \o [c \in 1 .. m |-> g[n + c]] = [c \in 1 .. n + m |-> g[c]]
<1> DEFINE S == {g[d] : d \in Nat}
           h == [c \in Nat |-> g[n + c]]
           t == [c \in 1 .. n |-> g[c]]
           v == [c \in 1 .. m |-> g[n + c]]
           u == [c \in 1 .. n + m |-> g[c]]
<1>1. t \in Seq(S) /\ Len(t) = n /\ \A c \in 1 .. n : t[c] = g[c]  BY FirstOnes, Zenon
<1>2. u \in Seq(S) /\ Len(u) = n + m /\ \A c \in 1 .. n + m : u[c] = g[c]
  <2>1. n + m \in Nat  OBVIOUS
  <2> QED BY <2>1, FirstOnes, Zenon
<1>3. v \in Seq(S) /\ Len(v) = m /\ \A c \in 1 .. m : v[c] = g[n + c]
  <2>1. v = [c \in 1 .. m |-> h[c]]  OBVIOUS
  <2>2. \A c \in 1 .. m : h[c] = g[n + c]  OBVIOUS
  <2>3. {h[d] : d \in Nat} \subseteq S  OBVIOUS
  <2> HIDE DEF S, h, v
  <2>4. /\ [c \in 1 .. m |-> h[c]] \in Seq({h[d] : d \in Nat}) /\ Len([c \in 1 .. m |-> h[c]]) = m
        /\ \A c \in 1 .. m : [d \in 1 .. m |-> h[d]][c] = h[c]
    BY FirstOnes, Zenon
  <2>5. [c \in 1 .. m |-> h[c]] \in Seq(S)  BY <2>3, <2>4, SeqMonotonic, Zenon
  <2> QED BY <2>1, <2>2, <2>4, <2>5, Zenon
<1> HIDE DEF S, h, t, u, v
<1>4. /\ t \o v \in Seq(S) /\ Len(t \o v) = n + m
      /\ \A c \in 1 .. n + m : (t \o v)[c] = IF c <= n THEN t[c] ELSE v[c - n]
  BY <1>1, <1>3, ConcatProperties
<1>5. \A c \in 1 .. n + m : (t \o v)[c] = g[c]
  <2> TAKE c \in 1 .. n + m
  <2>1. CASE c <= n
    <3>1. c \in 1 .. n  BY <2>1
    <3> QED BY <1>1, <1>4, <2>1, <3>1
  <2>2. CASE ~(c <= n)
    <3>1. c - n \in 1 .. m /\ n + (c - n) = c  BY <2>2
    <3>2. v[c - n] = g[c]  BY <1>3, <3>1
    <3> QED BY <1>4, <2>2, <3>2
  <2> QED BY <2>1, <2>2
<1>6. t \o v = u
  BY <1>2, <1>4, <1>5, SeqEqual
<1> QED BY <1>6 DEF t, u, v

LEMMA FirstOfFirst ==
  ASSUME NEW g, NEW n \in Nat, NEW m \in Nat, n <= m
  PROVE  SubSeq([c \in 1 .. m |-> g[c]], 1, n) = [c \in 1 .. n |-> g[c]]
<1> DEFINE S == {g[d] : d \in Nat}
           t == [c \in 1 .. m |-> g[c]]
           u == [c \in 1 .. n |-> g[c]]
<1>1. t \in Seq(S) /\ Len(t) = m /\ \A c \in 1 .. m : t[c] = g[c]  BY FirstOnes, Zenon
<1>2. u \in Seq(S) /\ Len(u) = n /\ \A c \in 1 .. n : u[c] = g[c]  BY FirstOnes, Zenon
<1> HIDE DEF t, u
<1>3. \A c \in 1 .. n : t[c] \in S  BY <1>1
<1> HIDE DEF S
<1>4. /\ SubSeq(t, 1, n) \in Seq(S) /\ Len(SubSeq(t, 1, n)) = n
      /\ \A c \in 1 .. n : SubSeq(t, 1, n)[c] = t[c]
  <2>1. /\ SubSeq(t, 1, n) \in Seq(S) /\ Len(SubSeq(t, 1, n)) = IF 1 <= n THEN (n - 1) + 1 ELSE 0
        /\ \A c \in 1 .. (n - 1) + 1 : SubSeq(t, 1, n)[c] = t[(1 + c) - 1]
    BY <1>3, SubSeqProperties
  <2> QED BY <2>1
<1>5. \A c \in 1 .. n : SubSeq(t, 1, n)[c] = g[c]
  BY <1>1, <1>4
<1>6. SubSeq(t, 1, n) = u
  BY <1>2, <1>4, <1>5, SeqEqual
<1> QED BY <1>6 DEF t, u

(* The permutation goes on to the next block, where that is empty yet. *)
LEMMA PermuteAfter ==
  ASSUME NEW g, NEW m \in Nat, DOMAIN g[m + 1] = 0 .. rate - 1, g[m + 2] = Empty
  PROVE  Sponge!Permute(After(g, m)) = After(g, m + 1)
<1>1. After(g, m).past = [b \in 1 .. m |-> g[b]] /\ After(g, m).block = g[m + 1]
  BY Zenon DEF After
<1>2. Sponge!Permute(After(g, m))
        = [past |-> Append([b \in 1 .. m |-> g[b]], g[m + 1]), block |-> Empty]
  BY <1>1, Zenon DEF Sponge!Permute, Empty
<1>3. Append([b \in 1 .. m |-> g[b]], g[m + 1]) = [b \in 1 .. m + 1 |-> g[b]]
  BY AppendNext, Zenon
<1>4. (m + 1) + 1 = m + 2  OBVIOUS
<1> QED BY <1>2, <1>3, <1>4, Zenon DEF After

LEMMA PartEmpty ==
  ASSUME NEW k, NEW m
  PROVE  Part(k, m, 0) = Empty
<1>1. \A x \in 0 .. rate - 1 : ~(x < 0)  OBVIOUS
<1> QED BY <1>1 DEF Part, Empty

LEMMA ZeroIsAfter ==
  ASSUME RateIs, NEW k
  PROVE  Sponge!Zero = After(Message(k, 0), 0)
<1>1. 0 = 0 * rate + 0 /\ 0 + 1 = 1 /\ 0 \in 0 .. rate  BY DEF RateIs
<1>2. Message(k, 0)[0 + 1] = Part(k, 0, 0)  BY <1>1, MessageBlocks
<1>3. Part(k, 0, 0) = Empty  BY PartEmpty
<1> DEFINE g == Message(k, 0)
<1> HIDE DEF g
<1>4. [b \in 1 .. 0 |-> g[b]] = <<>>
  <2>1. [b \in 1 .. 0 |-> g[b]] \in Seq({g[d] : d \in Nat}) /\ Len([b \in 1 .. 0 |-> g[b]]) = 0
    BY FirstOnes
  <2> QED BY <2>1, EmptySeq
<1> QED BY <1>2, <1>3, <1>4, Zenon DEF Sponge!Zero, After, Empty, g

(* A block with bytes laid into it, from place y on. *)
Laid(g, y, bytes) ==
  [x \in DOMAIN g |->
     IF x >= y /\ x < y + Len(bytes) THEN Sponge!Flip(g[x], {bytes[(x - y) + 1]}) ELSE g[x]]

LEMMA IntoIs ==
  ASSUME NEW a, NEW g, NEW y, NEW bytes
  PROVE  Sponge!Into([past |-> a, block |-> g], y, bytes) = [past |-> a, block |-> Laid(g, y, bytes)]
<1> DEFINE t == [past |-> a, block |-> g]
<1>1. t.block = g  OBVIOUS
<1>2. Sponge!Into(t, y, bytes) = [t EXCEPT !.block = Laid(g, y, bytes)]
  <2> HIDE DEF t
  <2> QED BY <1>1, Zenon DEF Sponge!Into, Laid
<1>3. [t EXCEPT !.block = Laid(g, y, bytes)] = [past |-> a, block |-> Laid(g, y, bytes)]  OBVIOUS
<1> QED BY <1>2, <1>3

(* The n bytes of message k behind the first f. *)
NextBytes(k, f, n, bytes) == Len(bytes) = n /\ \A c \in 1 .. n : bytes[c] = <<k, f + c>>

(* Bytes of the message go where the message has them. *)
LEMMA IntoMessage ==
  ASSUME RateIs, NEW k, NEW m \in Nat, NEW y \in 0 .. rate - 1, NEW n \in Nat, y + n <= rate,
         NEW f, f = m * rate + y, NEW bytes, NextBytes(k, f, n, bytes)
  PROVE  Sponge!Into(After(Message(k, f), m), y, bytes) = After(Message(k, f + n), m)
<1> DEFINE z == m * rate
           old == Message(k, f)
           new == Message(k, f + n)
<1>0. Len(bytes) = n /\ \A c \in 1 .. n : bytes[c] = <<k, f + c>>  BY DEF NextBytes
<1>1. z \in Nat /\ f = z + y /\ f + n = z + (y + n) /\ y + n \in 0 .. rate  BY DEF RateIs
<1>2. old[m + 1] = Part(k, m, y) /\ \A b \in 1 .. m : old[b] = Full(k, b)
  <2>1. y \in 0 .. rate  BY DEF RateIs
  <2> QED BY <2>1, MessageBlocks
<1>3. new[m + 1] = Part(k, m, y + n) /\ \A b \in 1 .. m : new[b] = Full(k, b)
  BY <1>1, MessageBlocks
<1> HIDE DEF z, old, new
<1>4. Laid(Part(k, m, y), y, bytes) = Part(k, m, y + n)
  <2> DEFINE put == Laid(Part(k, m, y), y, bytes)
  <2>1. ASSUME NEW x \in 0 .. rate - 1
        PROVE  put[x] = IF x < y + n THEN {<<k, z + x + 1>>} ELSE {}
    <3>1. Part(k, m, y)[x] = IF x < y THEN {<<k, z + x + 1>>} ELSE {}  BY DEF Part, z
    <3>2. put[x] = IF x >= y /\ x < y + n THEN Sponge!Flip(Part(k, m, y)[x], {bytes[(x - y) + 1]})
                   ELSE Part(k, m, y)[x]
      <4>1. x \in DOMAIN Part(k, m, y)  BY DEF Part
      <4> QED BY <1>0, <4>1 DEF Laid
    <3> HIDE DEF put
    <3>3. CASE x >= y /\ x < y + n
      <4>1. (x - y) + 1 \in 1 .. n /\ f + ((x - y) + 1) = z + x + 1  BY <1>1, <3>3 DEF RateIs
      <4>2. bytes[(x - y) + 1] = <<k, z + x + 1>>  BY <1>0, <4>1
      <4>3. ~(x < y)  BY <3>3
      <4>4. Part(k, m, y)[x] = {}  BY <3>1, <4>3
      <4> QED BY <3>2, <3>3, <4>2, <4>4 DEF Sponge!Flip
    <3>4. CASE ~(x >= y /\ x < y + n)
      <4>1. x < y <=> x < y + n  BY <3>4
      <4> QED BY <3>1, <3>2, <3>4, <4>1
    <3> QED BY <3>3, <3>4
  <2>2. put = [x \in 0 .. rate - 1 |-> put[x]]
    <3>1. DOMAIN Part(k, m, y) = 0 .. rate - 1  BY DEF Part
    <3> QED BY <3>1, Zenon DEF Laid
  <2> HIDE DEF put
  <2>3. put = Part(k, m, y + n)  BY <2>1, <2>2 DEF Part, z
  <2> QED BY <2>3 DEF put
<1>5. [b \in 1 .. m |-> old[b]] = [b \in 1 .. m |-> new[b]]
  BY <1>2, <1>3
<1>6. Sponge!Into(After(old, m), y, bytes) = After(new, m)
  <2> DEFINE a == [b \in 1 .. m |-> old[b]]
  <2>1. After(old, m) = [past |-> a, block |-> Part(k, m, y)]  BY <1>2, Zenon DEF After
  <2>2. After(new, m) = [past |-> a, block |-> Part(k, m, y + n)]  BY <1>3, <1>5, Zenon DEF After
  <2> HIDE DEF a
  <2>3. Sponge!Into([past |-> a, block |-> Part(k, m, y)], y, bytes)
          = [past |-> a, block |-> Laid(Part(k, m, y), y, bytes)]
    BY IntoIs
  <2> QED BY <1>4, <2>1, <2>2, <2>3, Zenon
<1> QED BY <1>6 DEF old, new

(* The bytes that a call reads. *)
LEMMA BytesRead ==
  ASSUME NEW k, NEW n \in Nat
  PROVE  NextBytes(k, fed, n, Sponge!Read(k, n))
<1> DEFINE g == [c \in Nat |-> <<k, fed + c>>]
<1>1. Sponge!Read(k, n) = [c \in 1 .. n |-> g[c]]  BY DEF Sponge!Read
<1>2. \A c \in 1 .. n : g[c] = <<k, fed + c>>  OBVIOUS
<1> HIDE DEF g
<1> QED BY <1>1, <1>2, FirstOnes DEF NextBytes

(* A block that is full is permuted, and nothing is in the next one. *)
LEMMA PermuteMessage ==
  ASSUME RateIs, NEW k, NEW m \in Nat, NEW f, f = m * rate + rate
  PROVE  Sponge!Permute(After(Message(k, f), m)) = After(Message(k, f), m + 1)
<1>1. rate \in 0 .. rate /\ 0 \in 0 .. rate /\ f = (m + 1) * rate + 0 /\ m + 1 \in Nat /\ (m + 1) + 1 = m + 2
  BY DEF RateIs
<1>2. Message(k, f)[m + 1] = Part(k, m, rate)
  BY <1>1, MessageBlocks
<1>3. Message(k, f)[(m + 1) + 1] = Part(k, m + 1, 0)
  BY <1>1, MessageBlocks
<1>4. DOMAIN Message(k, f)[m + 1] = 0 .. rate - 1  BY <1>2 DEF Part
<1>5. Message(k, f)[m + 2] = Empty  BY <1>1, <1>3, PartEmpty
<1> QED BY <1>4, <1>5, PermuteAfter

LEMMA XorAt ==
  ASSUME RateIs, NEW a, NEW g, DOMAIN g = 0 .. rate - 1, NEW y \in 0 .. rate - 1, NEW e
  PROVE  Sponge!Xor([past |-> a, block |-> g], y, e)
           = [past |-> a, block |-> [x \in 0 .. rate - 1 |-> IF x = y THEN Sponge!Flip(g[x], {e}) ELSE g[x]]]
<1> DEFINE t == [past |-> a, block |-> g]
           put == [x \in DOMAIN t.block |->
                     IF x >= y /\ x < y + Len(<<e>>) THEN Sponge!Flip(t.block[x], {<<e>>[(x - y) + 1]})
                     ELSE t.block[x]]
           new == [x \in 0 .. rate - 1 |-> IF x = y THEN Sponge!Flip(g[x], {e}) ELSE g[x]]
<1>1. Sponge!Xor(t, y, e) = [t EXCEPT !.block = put]  BY Zenon DEF Sponge!Xor, Sponge!Into
<1>2. put = new
  <2>1. t.block = g  OBVIOUS
  <2>2. ASSUME NEW x \in 0 .. rate - 1
        PROVE  /\ x >= y /\ x < y + Len(<<e>>) <=> x = y
               /\ x = y => <<e>>[(x - y) + 1] = e
    BY DEF RateIs
  <2> HIDE DEF t
  <2> QED BY <2>1, <2>2
<1> HIDE DEF put, new
<1>3. [t EXCEPT !.block = put] = [past |-> a, block |-> put]  OBVIOUS
<1> QED BY <1>1, <1>2, <1>3 DEF new

(* The byte behind the message and the last byte of the block end it.      *)
LEMMA PaddingEnds ==
  ASSUME RateIs, NEW k, NEW m \in Nat, NEW y \in 0 .. rate - 1, NEW f, f = m * rate + y
  PROVE  Sponge!Xor(Sponge!Xor(After(Message(k, f), m), y, Sponge!p), rate - 1, Sponge!top) = After(Ended(k, f, m), m)
<1> DEFINE a == [b \in 1 .. m |-> Message(k, f)[b]]
           g == Part(k, m, y)
           h == [x \in 0 .. rate - 1 |-> IF x = y THEN Sponge!Flip(g[x], {Sponge!p}) ELSE g[x]]
           l == [x \in 0 .. rate - 1 |-> IF x = rate - 1 THEN Sponge!Flip(h[x], {Sponge!top}) ELSE h[x]]
<1>1. /\ Message(k, f)[m + 1] = Part(k, m, y) /\ \A b \in 1 .. m : Message(k, f)[b] = Full(k, b)
  <2>1. y \in 0 .. rate  BY DEF RateIs
  <2> QED BY <2>1, MessageBlocks
<1>2. Ended(k, f, m)[m + 1] = Last(k, m, y) /\ \A b \in 1 .. m : Ended(k, f, m)[b] = Full(k, b)
  <2>1. Whole(Ended(k, f, m), k, m, y)  BY EndedBlocks
  <2> QED BY <2>1, Zenon DEF Whole
<1>3. After(Message(k, f), m) = [past |-> a, block |-> g]  BY <1>1, Zenon DEF After
<1>4. DOMAIN g = 0 .. rate - 1 /\ DOMAIN h = 0 .. rate - 1  BY DEF Part
<1>a. DOMAIN h = 0 .. rate - 1  BY <1>4
<1>5. Sponge!Xor([past |-> a, block |-> g], y, Sponge!p) = [past |-> a, block |-> h]
  <2> HIDE DEF a, g
  <2> QED BY <1>4, XorAt, ZenonT(60)
<1>6. rate - 1 \in 0 .. rate - 1  BY DEF RateIs
<1>7. Sponge!Xor([past |-> a, block |-> h], rate - 1, Sponge!top) = [past |-> a, block |-> l]
  <2>1. ASSUME NEW z \in 0 .. rate - 1
        PROVE  Sponge!Xor([past |-> a, block |-> h], z, Sponge!top)
                 = [past |-> a, block |-> [x \in 0 .. rate - 1 |->
                                             IF x = z THEN Sponge!Flip(h[x], {Sponge!top}) ELSE h[x]]]
    <3> HIDE DEF a, g, h, l
    <3> QED BY <1>a, XorAt, ZenonT(60)
  <2> HIDE DEF a, h
  <2> QED BY <1>6, <2>1 DEF l
<1>8. l = Last(k, m, y)
  <2>1. ASSUME NEW x \in 0 .. rate - 1
        PROVE  l[x] = (IF x < y THEN {<<k, m * rate + x + 1>>} ELSE IF x = y THEN {Sponge!p} ELSE {})
                      \cup (IF x = rate - 1 THEN {Sponge!top} ELSE {})
    <3>1. g[x] = IF x < y THEN {<<k, m * rate + x + 1>>} ELSE {}  BY DEF Part
    <3> HIDE DEF g
    <3>2. h[x] = IF x < y THEN {<<k, m * rate + x + 1>>} ELSE IF x = y THEN {Sponge!p} ELSE {}
      <4>1. h[x] = IF x = y THEN Sponge!Flip(g[x], {Sponge!p}) ELSE g[x]  OBVIOUS
      <4> HIDE DEF h
      <4>2. CASE x = y  BY <3>1, <4>1, <4>2 DEF Sponge!Flip, RateIs
      <4>3. CASE x # y  BY <3>1, <4>1, <4>3
      <4> QED BY <4>2, <4>3
    <3>3. l[x] = IF x = rate - 1 THEN Sponge!Flip(h[x], {Sponge!top}) ELSE h[x]  OBVIOUS
    <3> HIDE DEF h, l
    <3>4. Sponge!top # Sponge!p /\ Sponge!top # <<k, m * rate + x + 1>>  BY DEF Sponge!top, Sponge!p
    <3>5. Sponge!top \notin h[x]  BY <3>2, <3>4
    <3>6. Sponge!Flip(h[x], {Sponge!top}) = h[x] \cup {Sponge!top}  BY <3>5, Zenon DEF Sponge!Flip
    <3> QED BY <3>2, <3>3, <3>6
  <2> HIDE DEF h
  <2> QED BY <2>1 DEF Last
<1>9. a = [b \in 1 .. m |-> Ended(k, f, m)[b]]  BY <1>1, <1>2
<1> HIDE DEF a, g, h, l
<1> QED BY <1>2, <1>3, <1>5, <1>7, <1>8, <1>9, Zenon DEF After

LEMMA OnceEnds ==
  ASSUME RateIs, NEW k, NEW m \in Nat, fed = m * rate, NEW n \in 0 .. rate - 1
  PROVE  Sponge!keccak_absorb_once(After(Message(k, fed), m), Sponge!Read(k, n)) = After(Ended(k, fed + n, m), m)
<1>1. /\ n \in Nat /\ fed = m * rate + 0 /\ 0 \in 0 .. rate - 1 /\ 0 + n <= rate
      /\ m * rate \in Nat /\ fed + n = m * rate + n
  BY DEF RateIs
<1>2. NextBytes(k, fed, n, Sponge!Read(k, n)) /\ Len(Sponge!Read(k, n)) = n
  BY <1>1, BytesRead DEF NextBytes
<1>3. Sponge!Into(After(Message(k, fed), m), 0, Sponge!Read(k, n)) = After(Message(k, fed + n), m)
  BY <1>1, <1>2, IntoMessage
<1>4. Sponge!Xor(Sponge!Xor(After(Message(k, fed + n), m), n, Sponge!p), rate - 1, Sponge!top)
        = After(Ended(k, fed + n, m), m)
  BY <1>1, PaddingEnds
<1> QED BY <1>2, <1>3, <1>4, Zenon DEF Sponge!keccak_absorb_once

(* Words first and then single bytes: the same bytes. *)
LEMMA WordsEnd ==
  ASSUME RateIs, WordSize \in Nat \ {0}, NEW k, NEW m \in Nat, fed = m * rate, NEW n \in 0 .. rate - 1
  PROVE  Sponge!keccakx4_absorb_once(After(Message(k, fed), m), Sponge!Read(k, n)) = After(Ended(k, fed + n, m), m)
<1> DEFINE bytes == Sponge!Read(k, n)
           words == WordSize * (n \div WordSize)
           rest == n - words
           gathered == [x \in 1 .. WordSize |-> IF words + x <= n THEN bytes[words + x] ELSE Sponge!Junk]
           t == After(Message(k, fed), m)
           whole == Sponge!Into(t, 0, SubSeq(bytes, 1, words))
           all == IF rest > 0 THEN Sponge!Into(whole, words, SubSeq(gathered, 1, rest)) ELSE whole
<1>1. /\ n \in Nat /\ fed = m * rate + 0 /\ 0 \in 0 .. rate - 1
      /\ m * rate \in Nat /\ fed + n = m * rate + n /\ fed \in Nat
  BY DEF RateIs
<1>2. words \in 0 .. n /\ rest \in 0 .. WordSize - 1 /\ words + rest = n
  <2>1. n \div WordSize \in Nat /\ n = WordSize * (n \div WordSize) + (n % WordSize)
    BY <1>1, QuotientRemainder
  <2>2. n % WordSize \in 0 .. WordSize - 1  BY <1>1, RemainderInRange
  <2>3. WordSize * (n \div WordSize) \in Nat  BY <2>1
  <2> QED BY <2>1, <2>2, <2>3
<1>3. Len(bytes) = n /\ \A c \in 1 .. n : bytes[c] = <<k, fed + c>>
  BY <1>1, BytesRead DEF NextBytes
<1>4. Sponge!keccakx4_absorb_once(t, bytes)
        = Sponge!Xor(Sponge!Xor(all, words + rest, Sponge!p), rate - 1, Sponge!top)
  BY <1>3, Zenon DEF Sponge!keccakx4_absorb_once
<1> HIDE DEF words, rest
<1>5. SubSeq(bytes, 1, words) = Sponge!Read(k, words)
  <2> DEFINE g == [c \in Nat |-> <<k, fed + c>>]
  <2>1. bytes = [c \in 1 .. n |-> g[c]]  BY DEF Sponge!Read
  <2>2. Sponge!Read(k, words) = [c \in 1 .. words |-> g[c]]  BY <1>2 DEF Sponge!Read
  <2>3. words \in Nat /\ words <= n  BY <1>1, <1>2
  <2> HIDE DEF g, bytes
  <2>4. SubSeq([c \in 1 .. n |-> g[c]], 1, words) = [c \in 1 .. words |-> g[c]]
    BY <1>1, <2>3, FirstOfFirst
  <2> QED BY <2>1, <2>2, <2>4
<1> HIDE DEF bytes
<1>6. whole = After(Message(k, fed + words), m)
  <2>1. words \in Nat /\ 0 + words <= rate  BY <1>2 DEF RateIs
  <2>2. NextBytes(k, fed, words, Sponge!Read(k, words))
    BY <2>1, BytesRead
  <2>3. Sponge!Into(After(Message(k, fed), m), 0, Sponge!Read(k, words)) = After(Message(k, fed + words), m)
    BY <1>1, <2>1, <2>2, IntoMessage
  <2> QED BY <1>5, <2>3
<1> HIDE DEF t, whole
<1>7. all = After(Message(k, fed + n), m)
  <2>1. CASE rest > 0
    <3> DEFINE tail == SubSeq(gathered, 1, rest)
    <3>1. Len(tail) = rest /\ \A c \in 1 .. rest : tail[c] = <<k, (fed + words) + c>>
      <4>1. ASSUME NEW c \in 1 .. rest
            PROVE  gathered[c] = <<k, (fed + words) + c>>
        <5>1. c \in 1 .. WordSize /\ words + c \in 1 .. n /\ fed + (words + c) = (fed + words) + c
          BY <1>1, <1>2
        <5>2. gathered[c] = bytes[words + c]  BY <5>1
        <5> HIDE DEF gathered
        <5> QED BY <1>3, <5>1, <5>2
      <4> HIDE DEF gathered
      <4> DEFINE S == {gathered[c] : c \in 1 .. rest}
      <4>2. \A c \in 1 .. rest : gathered[c] \in S  OBVIOUS
      <4> HIDE DEF S
      <4>3. /\ Len(SubSeq(gathered, 1, rest)) = IF 1 <= rest THEN (rest - 1) + 1 ELSE 0
            /\ \A c \in 1 .. (rest - 1) + 1 : SubSeq(gathered, 1, rest)[c] = gathered[(1 + c) - 1]
        BY <1>2, <4>2, SubSeqProperties
      <4>4. Len(tail) = rest /\ \A c \in 1 .. rest : tail[c] = gathered[c]
        BY <1>2, <2>1, <4>3
      <4> HIDE DEF tail
      <4> QED BY <4>1, <4>4
    <3> DEFINE from == fed + words
    <3>2. /\ words \in 0 .. rate - 1 /\ rest \in Nat /\ words + rest <= rate
          /\ from = m * rate + words /\ from + rest = fed + n
      BY <1>1, <1>2, <2>1 DEF RateIs
    <3>3. NextBytes(k, from, rest, tail)  BY <3>1 DEF NextBytes
    <3> HIDE DEF from, tail
    <3>4. Sponge!Into(After(Message(k, from), m), words, tail) = After(Message(k, from + rest), m)
      BY <3>2, <3>3, IntoMessage
    <3>5. all = Sponge!Into(After(Message(k, from), m), words, tail)
      BY <1>6, <2>1, Zenon DEF from, tail
    <3> QED BY <3>2, <3>4, <3>5, Zenon
  <2>2. CASE ~(rest > 0)
    <3>1. words = n  BY <1>2, <2>2
    <3> QED BY <1>6, <2>2, <3>1
  <2> QED BY <2>1, <2>2
<1>8. Sponge!Xor(Sponge!Xor(After(Message(k, fed + n), m), n, Sponge!p), rate - 1, Sponge!top)
        = After(Ended(k, fed + n, m), m)
  BY <1>1, PaddingEnds
<1> HIDE DEF all
<1>9. Sponge!keccakx4_absorb_once(t, bytes) = After(Ended(k, fed + n, m), m)
  BY <1>2, <1>4, <1>7, <1>8, Zenon
<1> QED BY <1>9 DEF t, bytes

(* A buffer of its own, xored onto an empty block. *)
LEMMA BufferEnds ==
  ASSUME RateIs, NEW k, NEW m \in Nat, fed = m * rate, NEW n \in 0 .. rate - 1
  PROVE  Sponge!keccak_absorbSphincs(After(Message(k, fed), m), Sponge!Read(k, n)) = After(Ended(k, fed + n, m), m)
<1> DEFINE bytes == Sponge!Read(k, n)
           a == [b \in 1 .. m |-> Message(k, fed)[b]]
           l == Laid(Laid(Laid(Empty, 0, bytes), Len(bytes), <<Sponge!p>>), rate - 1, <<Sponge!top>>)
<1>1. fed = m * rate + 0 /\ 0 \in 0 .. rate /\ fed + n = m * rate + n  BY DEF RateIs
<1>2. Message(k, fed)[m + 1] = Empty  BY <1>1, MessageBlocks, PartEmpty
<1>3. After(Message(k, fed), m) = [past |-> a, block |-> Empty]  BY <1>2, Zenon DEF After
<1>4. ASSUME NEW c
      PROVE  Sponge!keccak_absorb_once([past |-> c, block |-> Empty], bytes) = [past |-> c, block |-> l]
  <2> DEFINE g == Laid(Empty, 0, bytes)
             h == Laid(g, Len(bytes), <<Sponge!p>>)
  <2> HIDE DEF bytes
  <2>1. Sponge!Into([past |-> c, block |-> Empty], 0, bytes) = [past |-> c, block |-> g]
    BY IntoIs, Zenon
  <2> HIDE DEF g
  <2>2. Sponge!Xor([past |-> c, block |-> g], Len(bytes), Sponge!p) = [past |-> c, block |-> h]
    BY IntoIs, Zenon DEF Sponge!Xor
  <2> HIDE DEF h
  <2>3. Sponge!Xor([past |-> c, block |-> h], rate - 1, Sponge!top)
          = [past |-> c, block |-> Laid(h, rate - 1, <<Sponge!top>>)]
    BY IntoIs, Zenon DEF Sponge!Xor
  <2>4. Laid(h, rate - 1, <<Sponge!top>>) = l  BY Zenon DEF g, h
  <2> HIDE DEF l
  <2> QED BY <2>1, <2>2, <2>3, <2>4, Zenon DEF Sponge!keccak_absorb_once
<1> HIDE DEF a, l
<1>5. [past |-> a, block |-> l] = After(Ended(k, fed + n, m), m)
  BY <1>3, <1>4, OnceEnds, Zenon
<1>6. l = Ended(k, fed + n, m)[m + 1]
  <2>1. [past |-> a, block |-> l].block = l  OBVIOUS
  <2>2. After(Ended(k, fed + n, m), m).block = Ended(k, fed + n, m)[m + 1]  BY DEF After
  <2> QED BY <1>5, <2>1, <2>2, Zenon
<1>7. l = [x \in 0 .. rate - 1 |-> l[x]]
  <2>1. Whole(Ended(k, fed + n, m), k, m, n)  BY <1>1, EndedBlocks
  <2>2. l = Last(k, m, n)  BY <1>6, <2>1, Zenon DEF Whole
  <2> QED BY <2>2 DEF Last
<1>8. Sponge!Xor(Sponge!Xor(Sponge!Into(Sponge!Zero, 0, bytes), Len(bytes), Sponge!p), rate - 1, Sponge!top).block = l
  <2>1. Sponge!Zero = [past |-> <<>>, block |-> Empty]  BY Zenon DEF Sponge!Zero, Empty
  <2>2. Sponge!keccak_absorb_once(Sponge!Zero, bytes) = [past |-> <<>>, block |-> l]  BY <1>4, <2>1, Zenon
  <2>3. [past |-> <<>>, block |-> l].block = l  OBVIOUS
  <2> QED BY <2>2, <2>3, Zenon DEF Sponge!keccak_absorb_once
<1> DEFINE t == After(Message(k, fed), m)
           put == [x \in DOMAIN t.block |-> Sponge!Flip(t.block[x], l[x])]
<1>9. Sponge!keccak_absorbSphincs(t, bytes) = [t EXCEPT !.block = put]
  <2> HIDE DEF t, bytes
  <2> QED BY <1>8, Zenon DEF Sponge!keccak_absorbSphincs
<1>10. put = l
  <2>1. t.block = Empty  BY <1>3
  <2> HIDE DEF t
  <2>2. put = [x \in 0 .. rate - 1 |-> l[x]]
    <3>1. DOMAIN t.block = 0 .. rate - 1 /\ \A x \in 0 .. rate - 1 : t.block[x] = {}  BY <2>1 DEF Empty
    <3>2. \A x \in 0 .. rate - 1 : Sponge!Flip(t.block[x], l[x]) = l[x]  BY <3>1 DEF Sponge!Flip
    <3> QED BY <3>1, <3>2
  <2> QED BY <1>7, <2>2, Zenon
<1> HIDE DEF put
<1>11. [t EXCEPT !.block = put] = [past |-> a, block |-> put]  BY <1>3
<1> HIDE DEF t
<1> QED BY <1>5, <1>9, <1>10, <1>11, Zenon DEF t, bytes

(* However the last block is put together, it is the end of the message.   *)
LEMMA LastBlockEnds ==
  ASSUME RateIs, WordSize \in Nat \ {0}, NEW k, NEW m \in Nat, fed = m * rate, NEW n \in 0 .. rate - 1,
         whose \in {"dilithium", "sphincs", "dilithium x4", "sphincs x4", "sphincs x2"}
  PROVE  Sponge!LastBlock(After(Message(k, fed), m), Sponge!Read(k, n)) = After(Ended(k, fed + n, m), m)
<1> DEFINE t == After(Message(k, fed), m)
           bytes == Sponge!Read(k, n)
           end == After(Ended(k, fed + n, m), m)
<1>1. Sponge!keccak_absorb_once(t, bytes) = end  BY OnceEnds
<1>2. Sponge!keccakx4_absorb_once(t, bytes) = end  BY WordsEnd
<1>3. Sponge!keccak_absorbSphincs(t, bytes) = end  BY BufferEnds
<1> HIDE DEF t, bytes, end
<1>4. Sponge!LastBlock(t, bytes) = end
  BY <1>1, <1>2, <1>3 DEF Sponge!LastBlock, Sponge!keccak_absorb4x, Sponge!keccak_absorb2x
<1> QED BY <1>4 DEF t, bytes, end

(* Squeezing: the next state, and what the caller gets of it. *)
LEMMA NextBlockIsEmpty ==
  ASSUME RateIs, NEW k, NEW m \in Nat, NEW y \in 0 .. rate - 1, NEW f, f = m * rate + y, NEW q \in Nat
  PROVE  Sponge!Permute(After(Ended(k, f, m), m + q)) = After(Ended(k, f, m), m + (q + 1))
<1> DEFINE g == Ended(k, f, m)
<1>1. Whole(g, k, m, y)  BY EndedBlocks
<1> HIDE DEF g
<1>2. DOMAIN g[(m + q) + 1] = 0 .. rate - 1
  <2>1. CASE q = 0
    <3>1. (m + q) + 1 = m + 1  BY <2>1
    <3> QED BY <1>1, <3>1 DEF Last, Whole
  <2>2. CASE q # 0
    <3>1. (m + q) + 1 \in Nat /\ (m + q) + 1 > m + 1  BY <2>2
    <3>2. g[(m + q) + 1] = Empty  BY <1>1, <3>1, Zenon DEF Whole
    <3> QED BY <3>2 DEF Empty
  <2> QED BY <2>1, <2>2
<1>3. g[(m + q) + 2] = Empty
  <2>1. (m + q) + 2 \in Nat /\ (m + q) + 2 > m + 1  OBVIOUS
  <2> QED BY <1>1, <2>1, Zenon DEF Whole
<1>4. m + q \in Nat /\ (m + q) + 1 = m + (q + 1)  OBVIOUS
<1>5. Sponge!Permute(After(g, m + q)) = After(g, (m + q) + 1)
  BY <1>2, <1>3, <1>4, PermuteAfter
<1> QED BY <1>4, <1>5 DEF g

LEMMA QuotientUnique ==
  ASSUME RateIs, NEW q \in Nat, NEW y \in 0 .. rate - 1, NEW a, a = q * rate + y
  PROVE  a \div rate = q /\ a % rate = y
<1>1. rate \in Nat \ {0} /\ a \in Nat /\ q * rate \in Nat  BY DEF RateIs
<1> DEFINE d == a \div rate
           e == a % rate
<1>2. d \in Nat /\ a = rate * d + e  BY <1>1, QuotientRemainder
<1>3. e \in 0 .. rate - 1  BY <1>1, RemainderInRange
<1> HIDE DEF d, e
<1>4. rate * d = d * rate  BY <1>1, <1>2
<1>5. ~(d < q)
  <2>1. SUFFICES ASSUME d < q
                 PROVE  FALSE
    OBVIOUS
  <2>2. d * rate + rate <= q * rate  BY <1>2, <2>1, RowsBefore
  <2>3. d * rate \in Nat  BY <1>1, <1>2
  <2> QED BY <1>1, <1>2, <1>3, <1>4, <2>2, <2>3 DEF RateIs
<1>6. ~(q < d)
  <2>1. SUFFICES ASSUME q < d
                 PROVE  FALSE
    OBVIOUS
  <2>2. q * rate + rate <= d * rate  BY <1>2, <2>1, RowsBefore
  <2>3. d * rate \in Nat  BY <1>1, <1>2
  <2> QED BY <1>1, <1>2, <1>3, <1>4, <2>2, <2>3 DEF RateIs
<1>7. d = q  BY <1>2, <1>5, <1>6
<1>8. e = y
  <2>1. rate * q = q * rate  BY <1>1
  <2> QED BY <1>1, <1>2, <1>3, <1>7, <2>1
<1> QED BY <1>7, <1>8 DEF d, e

(* What the caller gets of the block that is squeezed next. *)
Taken(k, m, q, at, c) ==
  [x \in 1 .. c |-> Sponge!Byte(After(Ended(k, fed, m), m + (q + 1)), (at + x) - 1)]

GoesOn(k, m, q, at, c, n) == Stream(m, n) \o Taken(k, m, q, at, c) = Stream(m, n + c)

LEMMA StreamGoesOn ==
  ASSUME RateIs, NEW k, NEW m \in Nat, NEW y \in 0 .. rate - 1, fed = m * rate + y, NEW q \in Nat,
         NEW at \in Nat, NEW l \in Nat, at + l <= rate, NEW n, n = q * rate + at
  PROVE  GoesOn(k, m, q, at, l, n)
<1> DEFINE t == After(Ended(k, fed, m), m + (q + 1))
           g == [d \in Nat |-> <<(m + 1) + ((d - 1) \div rate), (d - 1) % rate, {}>>]
<1>1. q * rate \in Nat /\ n \in Nat /\ n + l \in Nat  BY DEF RateIs
<1>2. Len(t.past) = m + (q + 1) /\ t.block = Empty
  <2>1. t.past = [c_ \in 1 .. m + (q + 1) |-> Ended(k, fed, m)[c_]]  BY DEF After
  <2>2. m + (q + 1) \in Nat  OBVIOUS
  <2>3. Len(t.past) = m + (q + 1)
    <3> HIDE DEF t
    <3> QED BY <2>1, <2>2, FirstOnes
  <2>4. t.block = Ended(k, fed, m)[(m + (q + 1)) + 1]  BY DEF After
  <2>5. (m + (q + 1)) + 1 \in Nat /\ (m + (q + 1)) + 1 > m + 1  OBVIOUS
  <2>6. Whole(Ended(k, fed, m), k, m, y)  BY EndedBlocks
  <2>7. Ended(k, fed, m)[(m + (q + 1)) + 1] = Empty  BY <2>5, <2>6, Zenon DEF Whole
  <2> HIDE DEF t
  <2> QED BY <2>3, <2>4, <2>7
<1> HIDE DEF t
<1>3. ASSUME NEW x \in 1 .. l
      PROVE  Sponge!Byte(t, (at + x) - 1) = g[n + x]
  <2>1. (at + x) - 1 \in 0 .. rate - 1 /\ n + x \in Nat  BY <1>1 DEF RateIs
  <2>2. Sponge!Byte(t, (at + x) - 1) = <<m + (q + 1), (at + x) - 1, {}>>
    <3>1. t.block[(at + x) - 1] = {}  BY <1>2, <2>1 DEF Empty
    <3> QED BY <1>2, <3>1, Zenon DEF Sponge!Byte
  <2>3. (n + x) - 1 = q * rate + ((at + x) - 1)  BY <1>1
  <2>4. ((n + x) - 1) \div rate = q /\ ((n + x) - 1) % rate = (at + x) - 1
    BY <2>1, <2>3, QuotientUnique
  <2>5. g[n + x] = <<(m + 1) + (((n + x) - 1) \div rate), ((n + x) - 1) % rate, {}>>  BY <2>1, Zenon
  <2>6. (m + 1) + q = m + (q + 1)  OBVIOUS
  <2> HIDE DEF g
  <2> QED BY <2>2, <2>4, <2>5, <2>6, Zenon
<1>4. Stream(m, n) = [d \in 1 .. n |-> g[d]] /\ Stream(m, n + l) = [d \in 1 .. n + l |-> g[d]]
  <2>1. \A d \in 1 .. n : d \in Nat  BY <1>1
  <2>2. \A d \in 1 .. n + l : d \in Nat  BY <1>1
  <2> QED BY <2>1, <2>2 DEF Stream
<1> HIDE DEF g
<1>5. [x \in 1 .. l |-> Sponge!Byte(t, (at + x) - 1)] = [x \in 1 .. l |-> g[n + x]]  BY <1>3, Zenon
<1>6. [d \in 1 .. n |-> g[d]] \o [x \in 1 .. l |-> g[n + x]] = [d \in 1 .. n + l |-> g[d]]
  <2>1. \A n_ \in Nat, m_ \in Nat :
          [c \in 1 .. n_ |-> g[c]] \o [c \in 1 .. m_ |-> g[n_ + c]] = [c \in 1 .. n_ + m_ |-> g[c]]
    BY ConcatNext, Zenon
  <2> QED BY <1>1, <2>1
<1> QED BY <1>4, <1>5, <1>6, Zenon DEF t, Taken, GoesOn

-----------------------------------------------------------------------------
LEMMA FilledNext ==
  ASSUME NEW m, NEW f, rate' = rate, whose' = whose, fed' = f, f = m * rate + pos',
         states' = [k \in Sponge!Instances(whose) |-> After(Message(k, f), m)],
         output' = [k \in Sponge!Instances(whose) |-> <<>>]
  PROVE  Filled(m)'
<1>1. ASSUME NEW k
      PROVE  Message(k, fed)' = Message(k, f)
  BY DEF Message, Place
<1>2. ASSUME NEW k
      PROVE  After(Message(k, fed), m)' = After(Message(k, f), m)
  BY <1>1, Zenon DEF After
<1>3. Sponge!Instances(whose)' = Sponge!Instances(whose)  BY Zenon DEF Sponge!Instances
<1>4. [k \in Sponge!Instances(whose) |-> After(Message(k, fed), m)]'
        = [k \in Sponge!Instances(whose) |-> After(Message(k, f), m)]
  BY <1>2, <1>3, Zenon
<1>5. [k \in Sponge!Instances(whose) |-> <<>>]' = [k \in Sponge!Instances(whose) |-> <<>>]
  BY <1>3, Zenon
<1>6. fed' = m * rate' + pos'  OBVIOUS
<1> QED BY <1>4, <1>5, <1>6, Zenon DEF Filled

LEMMA SqueezedNext ==
  ASSUME NEW m, NEW y, NEW q, NEW n, NEW f, rate' = rate, whose' = whose, fed' = f, f = m * rate + y,
         states' = [k \in Sponge!Instances(whose) |-> After(Ended(k, f, m), m + q)],
         output' = [k \in Sponge!Instances(whose) |-> Stream(m, n)]
  PROVE  Squeezed(m, y, q, n)'
<1>1. ASSUME NEW k
      PROVE  Ended(k, fed, m)' = Ended(k, f, m)
  BY DEF Ended, Place
<1>2. ASSUME NEW k
      PROVE  After(Ended(k, fed, m), m + q)' = After(Ended(k, f, m), m + q)
  BY <1>1, Zenon DEF After
<1>3. Sponge!Instances(whose)' = Sponge!Instances(whose)  BY Zenon DEF Sponge!Instances
<1>4. [k \in Sponge!Instances(whose) |-> After(Ended(k, fed, m), m + q)]'
        = [k \in Sponge!Instances(whose) |-> After(Ended(k, f, m), m + q)]
  BY <1>2, <1>3, Zenon
<1>5. Stream(m, n)' = Stream(m, n)  BY DEF Stream
<1>6. [k \in Sponge!Instances(whose) |-> Stream(m, n)]' = [k \in Sponge!Instances(whose) |-> Stream(m, n)]
  BY <1>3, <1>5, Zenon
<1>7. fed' = m * rate' + y  OBVIOUS
<1> QED BY <1>4, <1>6, <1>7, Zenon DEF Squeezed

LEMMA FilledKept ==
  ASSUME NEW m, Filled(m), UNCHANGED <<whose, rate, states, pos, fed, output>>
  PROVE  Filled(m)'
BY FilledNext, Zenon DEF Filled

LEMMA SqueezedKept ==
  ASSUME NEW m, NEW y, NEW q, NEW n, Squeezed(m, y, q, n), UNCHANGED <<whose, rate, states, fed, output>>
  PROVE  Squeezed(m, y, q, n)'
<1>1. /\ rate' = rate /\ whose' = whose /\ fed' = fed /\ fed = m * rate + y
      /\ states' = [k \in Sponge!Instances(whose) |-> After(Ended(k, fed, m), m + q)]
      /\ output' = [k \in Sponge!Instances(whose) |-> Stream(m, n)]
  BY Zenon DEF Squeezed
<1> QED BY <1>1, SqueezedNext

(* The parts of the invariant that are about bytes. *)
LEMMA BytesOfFeeding ==
  ASSUME NEW m \in Nat, Filled(m)', stage' \in Feeding
  PROVE  BytesAreRight'
BY Zenon DEF BytesAreRight, Feeding

LEMMA BytesOfGiving ==
  ASSUME RateIs, rate' = rate, NEW m \in Nat, NEW y \in 0 .. rate - 1, NEW q \in Nat, NEW n \in Nat,
         Squeezed(m, y, q, n)', stage' \notin Feeding, stage' \in Giving => Counted(q, n)'
  PROVE  BytesAreRight'
<1>1. y \in 0 .. rate' - 1  OBVIOUS
<1> QED BY <1>1, Zenon DEF BytesAreRight, Feeding, Giving

LEMMA InvRate == SpongeInv => RateIs
  BY DEF SpongeInv, SpongeSizes, RateIs

(* ---- The beginning, and absorbing. ---- *)
LEMMA SpongeStarts ==
  ASSUME Sponge!RatesAssumption, Sponge!Init
  PROVE  SpongeInv
<1>0. /\ whose \in {"dilithium", "sphincs", "dilithium x4", "sphincs x4", "sphincs x2"}
      /\ stage = "new" /\ pos = 0 /\ left = 0 /\ ask = Sponge!None /\ fed = 0
  BY Zenon DEF Sponge!Init
<1>1. rate \in Nat /\ rate >= 2
  <2>1. rate \in {Rate128, Rate256}  BY Zenon DEF Sponge!Init
  <2> QED BY <2>1 DEF Sponge!RatesAssumption
<1>2. SpongeSizes  BY <1>0, <1>1 DEF SpongeSizes, Feeding
<1>3. PosInBlock
  <2>1. stage = "new" /\ pos = 0 /\ fed = 0  BY <1>0
  <2>2. 0 \in 0 .. rate - 1  BY <1>1
  <2>3. pos \in 0 .. rate - 1  BY <2>1, <2>2, Zenon
  <2>4. stage \notin Giving  BY <2>1 DEF Giving
  <2> QED BY <2>1, <2>3, <2>4, Zenon DEF PosInBlock
<1>4. LeftInBlocks  BY <1>0 DEF LeftInBlocks
<1>5. Filled(0)
  <2>1. fed = 0 * rate + pos /\ fed = 0  
    <3>1. 0 * rate + 0 = 0  BY <1>1
    <3>2. pos = 0 /\ fed = 0  BY <1>0
    <3> QED BY <3>1, <3>2, Zenon
  <2>2. \A k \in Sponge!Instances(whose) : Sponge!Zero = After(Message(k, 0), 0)
    BY <1>1, ZeroIsAfter DEF RateIs
  <2>3. /\ states = [k \in Sponge!Instances(whose) |-> Sponge!Zero]
        /\ output = [k \in Sponge!Instances(whose) |-> <<>>]
    BY Zenon DEF Sponge!Init
  <2>4. states = [k \in Sponge!Instances(whose) |-> After(Message(k, fed), 0)]  BY <2>1, <2>2, <2>3
  <2> QED BY <2>1, <2>3, <2>4, Zenon DEF Filled
<1>6. BytesAreRight
  <2>1. stage \in Feeding /\ 0 \in Nat  BY <1>0 DEF Feeding
  <2> QED BY <1>5, <2>1, Zenon DEF BytesAreRight
<1> QED BY <1>2, <1>3, <1>4, <1>6 DEF SpongeInv

(* A call of a function that absorbs begins. *)
BeginsToFeed ==
  \/ Sponge!shake_init \/ Sponge!shake256_inc_init
  \/ \E n \in 0 .. MaxAbsorbed : Sponge!Absorb(n) /\ whose \in {"dilithium", "sphincs"}
  \/ \E n \in 0 .. MaxAbsorbed, l \in Nat \cup {Sponge!None} : Sponge!Once(n, l)

LEMMA FeedingBegins ==
  ASSUME Sponge!RatesAssumption, SpongeInv, BeginsToFeed
  PROVE  SpongeInv'
<1> DEFINE Kept == UNCHANGED <<whose, rate, states, pos, fed, output>>
<1>1. /\ Kept
      /\ \/ stage = "new" /\ stage' = "absorb" /\ UNCHANGED <<left, ask>>
         \/ \E n \in 0 .. MaxAbsorbed : stage = "absorb" /\ stage' = "absorbing" /\ left' = n /\ UNCHANGED ask
         \/ \E n \in 0 .. MaxAbsorbed, l \in Nat \cup {Sponge!None} :
               stage = "new" /\ stage' = "once" /\ left' = n /\ ask' = l
  <2>1. CASE Sponge!shake_init  BY <2>1, Zenon DEF Sponge!shake_init, Sponge!call
  <2>2. CASE Sponge!shake256_inc_init  BY <2>2, Zenon DEF Sponge!shake256_inc_init, Sponge!call
  <2>3. CASE \E n \in 0 .. MaxAbsorbed : Sponge!Absorb(n) /\ whose \in {"dilithium", "sphincs"}
    BY <2>3, Zenon DEF Sponge!Absorb, Sponge!call
  <2>4. CASE \E n \in 0 .. MaxAbsorbed, l \in Nat \cup {Sponge!None} : Sponge!Once(n, l)
    BY <2>4, Zenon DEF Sponge!Once
  <2> QED BY <2>1, <2>2, <2>3, <2>4, Zenon DEF BeginsToFeed
<1>2. left' \in Nat /\ ask' \in Nat \cup {Sponge!None}
  <2>1. MaxAbsorbed \in Nat  BY DEF Sponge!RatesAssumption
  <2>2. \A n \in 0 .. MaxAbsorbed : n \in Nat  BY <2>1
  <2>3. left \in Nat /\ ask \in Nat \cup {Sponge!None}  BY Zenon DEF SpongeInv, SpongeSizes
  <2> HIDE DEF Kept
  <2> QED BY <1>1, <2>2, <2>3, Zenon
<1>3. /\ stage \in {"new", "absorb"} /\ stage' \in {"absorb", "absorbing", "once"} /\ (stage' = "once" => stage = "new")
      /\ whose' = whose /\ rate' = rate /\ pos' = pos /\ fed' = fed
  BY <1>1, Zenon
<1> HIDE DEF Kept
<1>4. SpongeSizes' /\ PosInBlock'
  <2>1. SpongeSizes'  BY <1>2, <1>3 DEF SpongeInv, SpongeSizes, Feeding
  <2>2. PosInBlock'  BY <1>3 DEF SpongeInv, PosInBlock, Feeding, Giving
  <2> QED BY <2>1, <2>2
<1>5. LeftInBlocks'  BY <1>3 DEF LeftInBlocks
<1>6. stage \in Feeding /\ stage' \in Feeding  BY <1>3 DEF Feeding
<1>7. PICK m \in Nat : Filled(m)  BY <1>6, Zenon DEF SpongeInv, BytesAreRight
<1>8. Filled(m)'  BY <1>1, <1>7, FilledKept, Zenon DEF Kept
<1>9. BytesAreRight'  BY <1>6, <1>8, BytesOfFeeding, Zenon
<1> QED BY <1>4, <1>5, <1>9, Zenon DEF SpongeInv

(* A block is filled and permuted. *)
LEMMA BlockFills ==
  ASSUME SpongeInv, NEW m \in Nat, Filled(m), pos \in 0 .. rate - 1,
         states' = [k \in DOMAIN states |-> Sponge!Permute(Sponge!Into(states[k], pos, Sponge!Read(k, rate - pos)))],
         pos' = 0, fed' = fed + (rate - pos), UNCHANGED <<whose, rate, output>>
  PROVE  Filled(m + 1)'
<1> DEFINE K == Sponge!Instances(whose)
           n == rate - pos
           f == fed + n
<1>1. RateIs  BY InvRate
<1>2. fed = m * rate + pos /\ f = m * rate + rate /\ n \in Nat /\ pos + n <= rate /\ m * rate \in Nat
  <2>1. fed = m * rate + pos  BY Zenon DEF Filled
  <2>2. m * rate \in Nat  BY <1>1 DEF RateIs
  <2> QED BY <1>1, <2>1, <2>2 DEF RateIs
<1>3. f = (m + 1) * rate + pos'  BY <1>1, <1>2 DEF RateIs
<1>4. ASSUME NEW k \in K
      PROVE  Sponge!Permute(Sponge!Into(After(Message(k, fed), m), pos, Sponge!Read(k, n)))
               = After(Message(k, f), m + 1)
  <2>1. NextBytes(k, fed, n, Sponge!Read(k, n))  BY <1>2, BytesRead
  <2> HIDE DEF n
  <2>2. Sponge!Into(After(Message(k, fed), m), pos, Sponge!Read(k, n)) = After(Message(k, fed + n), m)
    BY <1>1, <1>2, <2>1, IntoMessage
  <2> HIDE DEF f
  <2>3. Sponge!Permute(After(Message(k, f), m)) = After(Message(k, f), m + 1)
    BY <1>1, <1>2, PermuteMessage
  <2> QED BY <2>2, <2>3, Zenon DEF f
<1>5. states = [k \in K |-> After(Message(k, fed), m)] /\ output = [k \in K |-> <<>>]  BY Zenon DEF Filled
<1> HIDE DEF K, f
<1>6. states' = [k \in K |-> After(Message(k, f), m + 1)]
  <2>1. states' = [k \in K |-> Sponge!Permute(Sponge!Into(states[k], pos, Sponge!Read(k, n)))]
    BY <1>5, Zenon
  <2>2. \A k \in K : states[k] = After(Message(k, fed), m)  BY <1>5, Zenon
  <2> HIDE DEF n
  <2> QED BY <1>4, <2>1, <2>2, Zenon
<1>7. fed' = f  BY DEF f
<1>8. output' = [k \in K |-> <<>>]  BY <1>5
<1> QED BY <1>3, <1>6, <1>7, <1>8, FilledNext, Zenon DEF K

LEMMA AbsorbBlockStep ==
  ASSUME SpongeInv, Sponge!AbsorbBlock
  PROVE  SpongeInv'
<1>1. RateIs  BY InvRate
<1>2. /\ stage = "absorbing" /\ stage' = "absorbing" /\ pos + left >= rate
      /\ states' = [k \in DOMAIN states |->
                      Sponge!Permute(Sponge!Into(states[k], pos, Sponge!Read(k, rate - pos)))]
      /\ pos' = 0 /\ left' = left - (rate - pos) /\ fed' = fed + (rate - pos)
      /\ UNCHANGED <<whose, rate, ask, output>>
  BY Zenon DEF Sponge!AbsorbBlock, Sponge!call
<1>3. pos \in 0 .. rate - 1 /\ left \in Nat /\ fed \in Nat
  BY <1>2, Zenon DEF SpongeInv, PosInBlock, SpongeSizes, Feeding
<1>4. SpongeSizes'
  <2>1. pos + left >= rate /\ left' = left - (rate - pos) /\ fed' = fed + (rate - pos)  BY <1>2
  <2>2. left' \in Nat /\ fed' \in Nat  BY <1>1, <1>3, <2>1 DEF RateIs
  <2>3. whose' = whose /\ rate' = rate /\ ask' = ask /\ stage' \in Feeding  BY <1>2 DEF Feeding
  <2> QED BY <2>2, <2>3, Zenon DEF SpongeInv, SpongeSizes
<1>5. PosInBlock'
  <2>1. stage' = "absorbing" /\ pos' = 0 /\ rate' = rate  BY <1>2
  <2> QED BY <1>1, <2>1 DEF PosInBlock, Feeding, Giving, RateIs
<1>6. LeftInBlocks'  BY <1>2 DEF LeftInBlocks
<1>7. stage \in Feeding /\ stage' \in Feeding  BY <1>2 DEF Feeding
<1>8. PICK m \in Nat : Filled(m)  BY <1>7, Zenon DEF SpongeInv, BytesAreRight
<1>9. Filled(m + 1)'  BY <1>2, <1>3, <1>8, BlockFills
<1>10. m + 1 \in Nat  OBVIOUS
<1>11. BytesAreRight'  BY <1>7, <1>9, <1>10, BytesOfFeeding, Zenon
<1> QED BY <1>4, <1>5, <1>6, <1>11 DEF SpongeInv

LEMMA OnceBlockStep ==
  ASSUME SpongeInv, Sponge!OnceBlock
  PROVE  SpongeInv'
<1>1. RateIs  BY InvRate
<1>2. pos = 0 /\ stage = "once"  BY DEF SpongeInv, PosInBlock, Sponge!OnceBlock
<1>3. rate - 0 = rate  BY <1>1 DEF RateIs
<1>4. /\ stage = "once" /\ stage' = "once" /\ left >= rate
      /\ states' = [k \in DOMAIN states |->
                      Sponge!Permute(Sponge!Into(states[k], pos, Sponge!Read(k, rate - pos)))]
      /\ pos' = 0 /\ left' = left - rate /\ fed' = fed + (rate - pos)
      /\ UNCHANGED <<whose, rate, ask, output>>
  BY <1>2, <1>3, Zenon DEF Sponge!OnceBlock, Sponge!call
<1>5. SpongeSizes'
  <2>1. left >= rate /\ left' = left - rate /\ fed' = fed + (rate - pos)  BY <1>4
  <2>2. left \in Nat /\ fed \in Nat  BY Zenon DEF SpongeInv, SpongeSizes
  <2>3. left' \in Nat /\ fed' \in Nat  BY <1>1, <1>2, <2>1, <2>2 DEF RateIs
  <2>4. whose' = whose /\ rate' = rate /\ ask' = ask /\ stage' \in Feeding  BY <1>4 DEF Feeding
  <2> QED BY <2>3, <2>4, Zenon DEF SpongeInv, SpongeSizes
<1>6. PosInBlock'
  <2>1. stage' = "once" /\ stage = "once" /\ pos' = 0 /\ rate' = rate  BY <1>4
  <2> QED BY <1>1, <2>1 DEF PosInBlock, Feeding, Giving, RateIs
<1>7. LeftInBlocks'  BY <1>4 DEF LeftInBlocks
<1>8. stage \in Feeding /\ stage' \in Feeding  BY <1>4 DEF Feeding
<1>9. PICK m \in Nat : Filled(m)  BY <1>8, Zenon DEF SpongeInv, BytesAreRight
<1>10. pos \in 0 .. rate - 1  BY <1>1, <1>2 DEF RateIs
<1>11. Filled(m + 1)'  BY <1>4, <1>9, <1>10, BlockFills
<1>12. m + 1 \in Nat  OBVIOUS
<1>13. BytesAreRight'  BY <1>8, <1>11, <1>12, BytesOfFeeding, Zenon
<1> QED BY <1>5, <1>6, <1>7, <1>13 DEF SpongeInv

LEMMA AbsorbRestStep ==
  ASSUME SpongeInv, Sponge!AbsorbRest
  PROVE  SpongeInv'
<1>1. RateIs  BY InvRate
<1>2. /\ stage = "absorbing" /\ stage' = "absorb" /\ pos + left < rate
      /\ states' = [k \in DOMAIN states |-> Sponge!Into(states[k], pos, Sponge!Read(k, left))]
      /\ pos' = pos + left /\ left' = 0 /\ fed' = fed + left
      /\ UNCHANGED <<whose, rate, ask, output>>
  BY Zenon DEF Sponge!AbsorbRest, Sponge!call
<1>3. pos \in 0 .. rate - 1 /\ left \in Nat /\ fed \in Nat
  BY <1>2, Zenon DEF SpongeInv, PosInBlock, SpongeSizes, Feeding
<1>4. SpongeSizes'
  <2>1. left' = 0 /\ fed' = fed + left  BY <1>2
  <2>2. left' \in Nat /\ fed' \in Nat  BY <1>3, <2>1
  <2>3. whose' = whose /\ rate' = rate /\ ask' = ask /\ stage' \in Feeding  BY <1>2 DEF Feeding
  <2> QED BY <2>2, <2>3, Zenon DEF SpongeInv, SpongeSizes
<1>5. PosInBlock'
  <2>1. stage' = "absorb" /\ pos' = pos + left /\ rate' = rate /\ pos + left < rate  BY <1>2
  <2> QED BY <1>1, <1>3, <2>1 DEF PosInBlock, Feeding, Giving, RateIs
<1>6. LeftInBlocks'  BY <1>2 DEF LeftInBlocks
<1>7. stage \in Feeding /\ stage' \in Feeding  BY <1>2 DEF Feeding
<1>8. PICK m \in Nat : Filled(m)  BY <1>7, Zenon DEF SpongeInv, BytesAreRight
<1> DEFINE K == Sponge!Instances(whose)
           f == fed + left
<1>9. /\ fed = m * rate + pos /\ states = [k \in K |-> After(Message(k, fed), m)] /\ output = [k \in K |-> <<>>]
  BY <1>8, Zenon DEF Filled
<1>10. f = m * rate + pos' /\ pos + left <= rate
  <2>1. m * rate \in Nat  BY <1>1 DEF RateIs
  <2> QED BY <1>1, <1>2, <1>3, <1>9, <2>1 DEF RateIs
<1>11. ASSUME NEW k \in K
       PROVE  Sponge!Into(After(Message(k, fed), m), pos, Sponge!Read(k, left)) = After(Message(k, f), m)
  <2>1. NextBytes(k, fed, left, Sponge!Read(k, left))  BY <1>3, BytesRead
  <2> QED BY <1>1, <1>3, <1>9, <1>10, <2>1, IntoMessage
<1> HIDE DEF K
<1>12. states' = [k \in K |-> After(Message(k, f), m)]
  <2>1. states' = [k \in K |-> Sponge!Into(states[k], pos, Sponge!Read(k, left))]  BY <1>2, <1>9, Zenon
  <2>2. \A k \in K : states[k] = After(Message(k, fed), m)  BY <1>9, Zenon
  <2> HIDE DEF f
  <2> QED BY <1>11, <2>1, <2>2, Zenon
<1>13. Filled(m)'
  <2>1. fed' = f /\ rate' = rate /\ whose' = whose /\ output' = [k \in K |-> <<>>]  BY <1>2, <1>9
  <2> HIDE DEF f
  <2> QED BY <1>10, <1>12, <2>1, FilledNext, Zenon DEF K
<1>14. BytesAreRight'  BY <1>7, <1>13, BytesOfFeeding, Zenon
<1> QED BY <1>4, <1>5, <1>6, <1>14 DEF SpongeInv

(* ---- The end of the message. ---- *)
LEMMA PosAtEnd ==
  ASSUME RateIs, rate' = rate, whose' = whose, pos' = IF whose = "dilithium" THEN rate ELSE 0,
         stage' \in {"squeeze", "blocks"}
  PROVE  PosInBlock'
<1>1. rate \in 1 .. rate /\ 0 \in 0 .. rate - 1  BY DEF RateIs
<1>2. stage' \in Giving /\ stage' \notin Feeding /\ stage' \notin {"new", "once"} /\ stage' # "new" /\ stage' # "squeezing"
  BY DEF Giving, Feeding
<1>3. CASE whose = "dilithium"
  <2>1. pos' = rate' /\ pos' \in 1 .. rate' /\ whose' = "dilithium"  BY <1>1, <1>3
  <2>2. whose' # "dilithium x4"  BY <2>1
  <2> QED BY <1>2, <2>1, <2>2, Zenon DEF PosInBlock
<1>4. CASE whose # "dilithium"
  <2>1. pos' = 0 /\ pos' \in 0 .. rate' - 1 /\ whose' # "dilithium"  BY <1>1, <1>4
  <2> QED BY <1>2, <2>1, Zenon DEF PosInBlock
<1> QED BY <1>3, <1>4

LEMMA EndOfMessage ==
  ASSUME SpongeInv, NEW m \in Nat, NEW y \in 0 .. rate - 1, NEW f, f = m * rate + y, fed' = f,
         states' = [k \in Sponge!Instances(whose) |-> After(Ended(k, f, m), m)],
         output = [k \in Sponge!Instances(whose) |-> <<>>], UNCHANGED <<whose, rate, output>>,
         stage' \in Giving, pos' = IF whose = "dilithium" THEN rate ELSE 0
  PROVE  BytesAreRight'
<1>1. RateIs  BY InvRate
<1>2. Stream(m, 0) = <<>>
  <2> DEFINE g == [c \in Nat |-> <<(m + 1) + ((c - 1) \div rate), (c - 1) % rate, {}>>]
  <2>1. Stream(m, 0) = [c \in 1 .. 0 |-> g[c]]  BY DEF Stream
  <2> HIDE DEF g
  <2>2. [c \in 1 .. 0 |-> g[c]] \in Seq({g[d] : d \in Nat}) /\ Len([c \in 1 .. 0 |-> g[c]]) = 0
    BY FirstOnes
  <2> QED BY <2>1, <2>2, EmptySeq
<1>3. m + 0 = m  OBVIOUS
<1>4. Squeezed(m, y, 0, 0)'
  <2>1. output' = [k \in Sponge!Instances(whose) |-> Stream(m, 0)]  BY <1>2, Zenon
  <2>2. states' = [k \in Sponge!Instances(whose) |-> After(Ended(k, f, m), m + 0)]  BY <1>3, Zenon
  <2>3. whose' = whose /\ rate' = rate  OBVIOUS
  <2> QED BY <2>1, <2>2, <2>3, SqueezedNext
<1>5. Counted(0, 0)'
  <2>1. 0 * rate + rate = 0 + rate /\ 0 + 0 = 0 * rate  BY <1>1 DEF RateIs
  <2>2. whose' = whose /\ rate' = rate  OBVIOUS
  <2> QED BY <2>1, <2>2, Zenon DEF Counted
<1>6. stage' \notin Feeding  BY DEF Feeding, Giving
<1>7. 0 \in Nat /\ rate' = rate  OBVIOUS
<1> QED BY <1>1, <1>4, <1>5, <1>6, <1>7, BytesOfGiving

Finalizes ==
  /\ stage = "absorb" /\ stage' = "squeeze" /\ whose \in {"dilithium", "sphincs"}
  /\ states' = [k \in DOMAIN states |-> Sponge!keccak_finalize(states[k])]
  /\ pos' = (IF whose = "dilithium" THEN rate ELSE 0)
  /\ UNCHANGED <<whose, rate, ask, left, fed, output>>

LEMMA FinalizeStep ==
  ASSUME SpongeInv, Finalizes
  PROVE  SpongeInv'
<1>1. RateIs  BY InvRate
<1>2. /\ stage = "absorb" /\ stage' = "squeeze" /\ whose \in {"dilithium", "sphincs"}
      /\ pos' = (IF whose = "dilithium" THEN rate ELSE 0)
      /\ whose' = whose /\ rate' = rate /\ ask' = ask /\ left' = left /\ fed' = fed
  BY Zenon DEF Finalizes
<1>3. pos \in 0 .. rate - 1 /\ stage \in Feeding  BY <1>2, Zenon DEF SpongeInv, PosInBlock, Feeding
<1>4. stage' \in Giving  BY <1>2 DEF Giving
<1>5. SpongeSizes'  BY <1>2, <1>4, Zenon DEF SpongeInv, SpongeSizes
<1>6. PosInBlock'
  <2>1. stage' \in {"squeeze", "blocks"}  BY <1>2
  <2> QED BY <1>1, <1>2, <2>1, PosAtEnd
<1>7. LeftInBlocks'  BY <1>2 DEF LeftInBlocks
<1>8. PICK m \in Nat : Filled(m)  BY <1>3, Zenon DEF SpongeInv, BytesAreRight
<1> DEFINE K == Sponge!Instances(whose)
<1>9. fed = m * rate + pos /\ states = [k \in K |-> After(Message(k, fed), m)] /\ output = [k \in K |-> <<>>]
  BY <1>8, Zenon DEF Filled
<1>10. ASSUME NEW k \in K
       PROVE  Sponge!keccak_finalize(After(Message(k, fed), m)) = After(Ended(k, fed, m), m)
  <2>1. Sponge!Xor(Sponge!Xor(After(Message(k, fed), m), pos, Sponge!p), rate - 1, Sponge!top)
          = After(Ended(k, fed, m), m)
    BY <1>1, <1>3, <1>9, PaddingEnds
  <2> QED BY <2>1, Zenon DEF Sponge!keccak_finalize
<1> HIDE DEF K
<1>11. states' = [k \in K |-> After(Ended(k, fed, m), m)]
  <2>1. states' = [k \in K |-> Sponge!keccak_finalize(states[k])]  BY <1>9, Zenon DEF Finalizes
  <2>2. \A k \in K : states[k] = After(Message(k, fed), m)  BY <1>9, Zenon
  <2> QED BY <1>10, <2>1, <2>2, Zenon
<1>12. BytesAreRight'
  <2>1. UNCHANGED <<whose, rate, output>>  BY Zenon DEF Finalizes
  <2>2. fed' = fed /\ pos' = IF whose = "dilithium" THEN rate ELSE 0  BY <1>2
  <2>3. states' = [k \in Sponge!Instances(whose) |-> After(Ended(k, fed, m), m)]  BY <1>11 DEF K
  <2>4. output = [k \in Sponge!Instances(whose) |-> <<>>]  BY <1>9 DEF K
  <2>5. fed = m * rate + pos  BY <1>9
  <2> QED BY <1>3, <1>4, <2>1, <2>2, <2>3, <2>4, <2>5, EndOfMessage
<1> QED BY <1>5, <1>6, <1>7, <1>12, Zenon DEF SpongeInv

LEMMA OnceRestStep ==
  ASSUME Sponge!RatesAssumption, SpongeInv, Sponge!OnceRest
  PROVE  SpongeInv'
<1>1. RateIs  BY InvRate
<1>2. /\ stage = "once" /\ left < rate
      /\ states' = [k \in DOMAIN states |-> Sponge!LastBlock(states[k], Sponge!Read(k, left))]
      /\ pos' = (IF whose = "dilithium" THEN rate ELSE pos)
      /\ \/ ask = Sponge!None /\ stage' = "squeeze" /\ left' = 0
         \/ ask # Sponge!None /\ stage' = "blocks" /\ left' = ask
      /\ fed' = fed + left /\ whose' = whose /\ rate' = rate /\ ask' = ask /\ output' = output
  BY Zenon DEF Sponge!OnceRest, Sponge!call
<1>3. /\ pos = 0 /\ left \in 0 .. rate - 1 /\ fed \in Nat /\ ask \in Nat \cup {Sponge!None}
      /\ whose \in {"dilithium", "sphincs", "dilithium x4", "sphincs x4", "sphincs x2"}
  <2>1. pos = 0  BY <1>2, Zenon DEF SpongeInv, PosInBlock
  <2>2. /\ fed \in Nat /\ ask \in Nat \cup {Sponge!None}
        /\ whose \in {"dilithium", "sphincs", "dilithium x4", "sphincs x4", "sphincs x2"}
    BY Zenon DEF SpongeInv, SpongeSizes
  <2>3. left < rate /\ left \in Nat  BY <1>2, Zenon DEF SpongeInv, SpongeSizes
  <2>4. left \in 0 .. rate - 1  BY <1>1, <2>3 DEF RateIs
  <2> QED BY <2>1, <2>2, <2>4, Zenon
<1>4. stage' \in Giving /\ pos' = (IF whose = "dilithium" THEN rate ELSE 0)
  BY <1>2, <1>3, Zenon DEF Giving
<1>5. SpongeSizes'
  <2>1. left' \in Nat
    <3>1. 0 \in Nat  OBVIOUS
    <3> QED BY <1>2, <1>3, <3>1, Zenon
  <2>2. fed' = fed + left  BY <1>2
  <2>3. fed' \in Nat
    <3>1. fed \in Nat /\ left \in 0 .. rate - 1  BY <1>3, Zenon
    <3> QED BY <2>2, <3>1
  <2>4. whose' = whose /\ rate' = rate /\ ask' = ask  BY <1>2
  <2> QED BY <1>4, <2>1, <2>3, <2>4, Zenon DEF SpongeInv, SpongeSizes
<1>6. PosInBlock'
  <2>1. rate' = rate /\ whose' = whose /\ stage' \in {"squeeze", "blocks"}  BY <1>2
  <2> QED BY <1>1, <1>4, <2>1, PosAtEnd
<1>7. LeftInBlocks'
  <2>1. ask' = ask /\ ~(stage' = "blocks" /\ ask = Sponge!None)  BY <1>2
  <2> QED BY <2>1, Zenon DEF LeftInBlocks
<1>8. PICK m \in Nat : Filled(m)
  <2>1. stage \in Feeding  BY <1>2 DEF Feeding
  <2> QED BY <2>1, Zenon DEF SpongeInv, BytesAreRight
<1> DEFINE K == Sponge!Instances(whose)
           f == fed + left
<1>9. fed = m * rate + pos /\ states = [k \in K |-> After(Message(k, fed), m)] /\ output = [k \in K |-> <<>>]
  BY <1>8, Zenon DEF Filled
<1>10. fed = m * rate /\ f = m * rate + left
  <2>1. fed = m * rate + 0  BY <1>3, <1>9, Zenon
  <2>2. m * rate \in Nat  BY <1>1 DEF RateIs
  <2> QED BY <2>1, <2>2
<1>11. ASSUME NEW k \in K
       PROVE  Sponge!LastBlock(After(Message(k, fed), m), Sponge!Read(k, left)) = After(Ended(k, f, m), m)
  <2>1. WordSize \in Nat \ {0}  BY Zenon DEF Sponge!RatesAssumption
  <2> QED BY <1>1, <1>3, <1>10, <2>1, LastBlockEnds
<1> HIDE DEF K, f
<1>12. states' = [k \in K |-> After(Ended(k, f, m), m)]
  <2>1. states' = [k \in K |-> Sponge!LastBlock(states[k], Sponge!Read(k, left))]  BY <1>2, <1>9, Zenon
  <2>2. \A k \in K : states[k] = After(Message(k, fed), m)  BY <1>9, Zenon
  <2> QED BY <1>11, <2>1, <2>2, Zenon
<1>13. BytesAreRight'
  <2>1. UNCHANGED <<whose, rate, output>>  BY <1>2, Zenon
  <2>2. fed' = f  BY <1>2 DEF f
  <2>3. states' = [k \in Sponge!Instances(whose) |-> After(Ended(k, f, m), m)]  BY <1>12 DEF K
  <2>4. output = [k \in Sponge!Instances(whose) |-> <<>>]  BY <1>9 DEF K
  <2>5. f = m * rate + left  BY <1>10
  <2> QED BY <1>3, <1>4, <2>1, <2>2, <2>3, <2>4, <2>5, EndOfMessage
<1> QED BY <1>5, <1>6, <1>7, <1>13, Zenon DEF SpongeInv

(* ---- Squeezing. ---- *)
LEMMA GivingIs ==
  ASSUME SpongeInv, stage \in Giving
  PROVE  /\ \E m, q, n \in Nat, y \in 0 .. rate - 1 : Squeezed(m, y, q, n) /\ Counted(q, n)
         /\ pos \in Nat /\ left \in Nat
<1>1. stage \notin Feeding  BY DEF Feeding, Giving
<1>2. \E m, q, n \in Nat, y \in 0 .. rate - 1 : Squeezed(m, y, q, n) /\ Counted(q, n)
  BY <1>1, Zenon DEF SpongeInv, BytesAreRight
<1>3. RateIs  BY InvRate
<1>4. pos \in Nat
  <2>1. pos \in (IF whose = "dilithium" THEN 1 .. rate ELSE 0 .. rate - 1)  BY Zenon DEF SpongeInv, PosInBlock
  <2> QED BY <1>3, <2>1 DEF RateIs
<1> QED BY <1>2, <1>4, Zenon DEF SpongeInv, SpongeSizes

LEMMA NothingGiven ==
  ASSUME SpongeInv, stage \in Giving, stage' \notin Feeding, UNCHANGED <<whose, rate, states, pos, fed, output>>
  PROVE  BytesAreRight'
<1>1. RateIs  BY InvRate
<1>2. PICK m \in Nat, q \in Nat, n \in Nat, y \in 0 .. rate - 1 : Squeezed(m, y, q, n) /\ Counted(q, n)
  BY GivingIs
<1>3. whose' = whose /\ rate' = rate /\ pos' = pos  BY Zenon
<1>4. Squeezed(m, y, q, n)'
  <2>1. UNCHANGED <<whose, rate, states, fed, output>>  BY Zenon
  <2> QED BY <1>2, <2>1, SqueezedKept
<1>5. Counted(q, n)'  BY <1>2, <1>3, Zenon DEF Counted
<1> QED BY <1>1, <1>3, <1>4, <1>5, BytesOfGiving

LEMMA PermutedIs ==
  ASSUME RateIs, NEW m \in Nat, NEW y \in 0 .. rate - 1, NEW q \in Nat, NEW n, Squeezed(m, y, q, n)
  PROVE  Sponge!Permuted = [k \in Sponge!Instances(whose) |-> After(Ended(k, fed, m), m + (q + 1))]
<1> DEFINE K == Sponge!Instances(whose)
<1>1. fed = m * rate + y /\ states = [k \in K |-> After(Ended(k, fed, m), m + q)]
  BY Zenon DEF Squeezed
<1>2. \A k \in K : Sponge!Permute(After(Ended(k, fed, m), m + q)) = After(Ended(k, fed, m), m + (q + 1))
  BY <1>1, NextBlockIsEmpty
<1> HIDE DEF K
<1>3. Sponge!Permuted = [k \in K |-> Sponge!Permute(states[k])]  BY <1>1, Zenon DEF Sponge!Permuted
<1>4. \A k \in K : states[k] = After(Ended(k, fed, m), m + q)  BY <1>1, Zenon
<1>5. Sponge!Permuted = [k \in K |-> After(Ended(k, fed, m), m + (q + 1))]  BY <1>2, <1>3, <1>4, Zenon
<1> QED BY <1>5 DEF K

LEMMA GiveBytes ==
  ASSUME RateIs, NEW m \in Nat, NEW y \in 0 .. rate - 1, NEW q \in Nat, NEW n, NEW t, fed = m * rate + y,
         NEW at \in Nat, NEW c \in Nat, at + c <= rate, n = q * rate + at,
         t = [k \in Sponge!Instances(whose) |-> After(Ended(k, fed, m), m + (q + 1))],
         output = [k \in Sponge!Instances(whose) |-> Stream(m, n)],
         Sponge!Give(t, at, c), UNCHANGED <<whose, rate, fed>>
  PROVE  Squeezed(m, y, q + 1, n + c)'
<1> DEFINE K == Sponge!Instances(whose)
           given(k) == Taken(k, m, q, at, c)
<1>1. \A k : Stream(m, n) \o Taken(k, m, q, at, c) = Stream(m, n + c)
  <2> HIDE DEF K, given
  <2>1. ASSUME NEW k
        PROVE  GoesOn(k, m, q, at, c, n)
    BY StreamGoesOn
  <2> QED BY <2>1, Zenon DEF GoesOn
<1> HIDE DEF K
<1>2. output' = [k \in K |-> Stream(m, n) \o given(k)]
  <2>1. states' = t /\ output' = [k \in DOMAIN output |-> output[k] \o [x \in 1 .. c |-> Sponge!Byte(t[k], (at + x) - 1)]]
    BY DEF Sponge!Give
  <2>2. DOMAIN output = K /\ \A k \in K : output[k] = Stream(m, n) /\ t[k] = After(Ended(k, fed, m), m + (q + 1))
    BY Zenon DEF K
  <2>3. \A k \in K : [x \in 1 .. c |-> Sponge!Byte(t[k], (at + x) - 1)] = given(k)
    BY <2>2, Zenon DEF Taken
  <2> HIDE DEF given
  <2> QED BY <2>1, <2>2, <2>3, Zenon
<1> HIDE DEF given
<1>3. output' = [k \in K |-> Stream(m, n + c)]  BY <1>1, <1>2, Zenon DEF given
<1>4. states' = [k \in K |-> After(Ended(k, fed, m), m + (q + 1))]
  BY Zenon DEF Sponge!Give, K
<1>5. rate' = rate /\ whose' = whose /\ fed' = fed  BY Zenon
<1> QED BY <1>3, <1>4, <1>5, SqueezedNext, Zenon DEF K

(* A call of a function that squeezes begins or ends: nothing is given. *)
BeginsToGive ==
  \/ \E n \in 0 .. MaxSqueezed : Sponge!shake_squeezeblocks(n) \/ Sponge!shake_squeeze(n)
  \/ Sponge!ShakeRest \/ Sponge!Return

LEMMA GivingBegins ==
  ASSUME Sponge!RatesAssumption, SpongeInv, BeginsToGive
  PROVE  SpongeInv'
<1>1. RateIs  BY InvRate
<1>2. MaxSqueezed \in Nat  BY DEF Sponge!RatesAssumption
<1>3. /\ UNCHANGED <<whose, rate, states, pos, fed, output>> /\ ask' = ask
      /\ \/ /\ whose \in {"dilithium", "dilithium x4"} /\ stage = "squeeze" /\ stage' = "blocks"
            /\ (whose = "dilithium" => pos = rate)
            /\ \E n \in 0 .. MaxSqueezed : left' = n * rate
         \/ /\ whose = "dilithium" /\ stage = "squeeze" /\ stage' = "squeezing"
            /\ \E n \in 0 .. MaxSqueezed : left' = n
         \/ whose = "dilithium" /\ stage = "blocks" /\ stage' = "squeezing" /\ left' = left
         \/ stage = "squeezing" /\ left = 0 /\ stage' \in {"squeeze", "done"} /\ left' = left
  <2>1. CASE \E n \in 0 .. MaxSqueezed : Sponge!shake_squeezeblocks(n)
    BY <2>1, Zenon DEF Sponge!shake_squeezeblocks, Sponge!call
  <2>2. CASE \E n \in 0 .. MaxSqueezed : Sponge!shake_squeeze(n)
    BY <2>2, Zenon DEF Sponge!shake_squeeze, Sponge!call
  <2>3. CASE Sponge!ShakeRest  BY <2>3, Zenon DEF Sponge!ShakeRest, Sponge!call
  <2>4. CASE Sponge!Return  BY <2>4, Zenon DEF Sponge!Return, Sponge!Returned, Sponge!call
  <2> QED BY <2>1, <2>2, <2>3, <2>4, Zenon DEF BeginsToGive
<1>4. left' \in Nat
  <2>1. \A n \in 0 .. MaxSqueezed : n \in Nat /\ n * rate \in Nat  BY <1>1, <1>2 DEF RateIs
  <2>2. left \in Nat  BY Zenon DEF SpongeInv, SpongeSizes
  <2> QED BY <1>3, <2>1, <2>2, Zenon
<1>5. /\ whose' = whose /\ rate' = rate /\ pos' = pos /\ fed' = fed
      /\ stage \in Giving /\ stage' \in Giving \cup {"done"} /\ stage' \notin Feeding
  <2>1. stage \in {"squeeze", "blocks", "squeezing"} /\ stage' \in {"squeeze", "blocks", "squeezing", "done"}
    BY <1>3, Zenon
  <2> QED BY <1>3, <2>1 DEF Giving, Feeding
<1>6. SpongeSizes'
  <2>1. stage' \in Feeding \cup Giving \cup {"done"}  BY <1>5, Zenon
  <2> QED BY <1>3, <1>4, <1>5, <2>1, Zenon DEF SpongeInv, SpongeSizes
<1>7. PosInBlock'
  <2>1. PosInBlock /\ pos \in (IF whose = "dilithium" THEN 1 .. rate ELSE 0 .. rate - 1)
    BY <1>5, Zenon DEF SpongeInv, PosInBlock
  <2>2. stage' \notin {"new", "once"} /\ stage' # "new"  BY <1>5 DEF Feeding
  <2>3. stage' = "blocks" => pos = (IF whose = "dilithium" THEN rate ELSE 0)
    BY <1>3, <2>1 DEF PosInBlock
  <2>4. stage' = "squeezing" => whose = "dilithium"  BY <1>3
  <2>5. stage' = "squeeze" /\ whose = "dilithium x4" => pos = 0
    BY <1>3, <2>1 DEF PosInBlock
  <2> QED BY <1>5, <2>1, <2>2, <2>3, <2>4, <2>5, Zenon DEF PosInBlock
<1>8. LeftInBlocks'
  <2>1. CASE stage' = "blocks"
    <3>1. \E n \in 0 .. MaxSqueezed : left' = n * rate  BY <1>3, <2>1
    <3>2. \A n \in 0 .. MaxSqueezed : n \in Nat  BY <1>2
    <3> QED BY <1>5, <3>1, <3>2, Zenon DEF LeftInBlocks
  <2> QED BY <2>1, Zenon DEF LeftInBlocks
<1>9. BytesAreRight'  BY <1>3, <1>5, NothingGiven
<1> QED BY <1>6, <1>7, <1>8, <1>9, Zenon DEF SpongeInv

LEMMA SqueezeBlocksStep ==
  ASSUME SpongeInv, Sponge!keccak_squeezeblocks
  PROVE  SpongeInv'
<1>1. RateIs  BY InvRate
<1>2. /\ stage = "blocks" /\ stage' = "blocks" /\ left >= rate /\ Sponge!Give(Sponge!Permuted, 0, rate)
      /\ left' = left - rate /\ whose' = whose /\ rate' = rate /\ ask' = ask /\ pos' = pos /\ fed' = fed
  BY Zenon DEF Sponge!keccak_squeezeblocks, Sponge!call
<1>3. stage \in Giving /\ stage' \in Giving /\ stage' \notin Feeding  BY <1>2 DEF Giving, Feeding
<1>4. PICK m \in Nat, q \in Nat, n \in Nat, y \in 0 .. rate - 1 : Squeezed(m, y, q, n) /\ Counted(q, n)
  BY <1>3, GivingIs
<1>5. pos = (IF whose = "dilithium" THEN rate ELSE 0) /\ left \in Nat
  BY <1>2, Zenon DEF SpongeInv, PosInBlock, SpongeSizes
<1>6. n = q * rate + 0 /\ rate \in Nat /\ q * rate \in Nat /\ n + rate = (q + 1) * rate
  <2>1. q * rate \in Nat /\ (q + 1) * rate = q * rate + rate  BY <1>1 DEF RateIs
  <2>2. CASE whose = "dilithium"
    <3>1. n + rate = q * rate + rate  BY <1>4, <1>5, <2>2, Zenon DEF Counted
    <3> QED BY <1>1, <2>1, <3>1 DEF RateIs
  <2>3. CASE whose # "dilithium"
    <3>1. n + 0 = q * rate  BY <1>4, <1>5, <2>3, Zenon DEF Counted
    <3> QED BY <1>1, <2>1, <3>1 DEF RateIs
  <2> QED BY <2>2, <2>3
<1>7. Squeezed(m, y, q + 1, n + rate)'
  <2>1. Sponge!Permuted = [k \in Sponge!Instances(whose) |-> After(Ended(k, fed, m), m + (q + 1))]
    BY <1>1, <1>4, PermutedIs
  <2>2. output = [k \in Sponge!Instances(whose) |-> Stream(m, n)] /\ fed = m * rate + y
    BY <1>4, Zenon DEF Squeezed
  <2>3. 0 + rate <= rate /\ 0 \in Nat  BY <1>1 DEF RateIs
  <2>4. UNCHANGED <<whose, rate, fed>>  BY <1>2
  <2> QED BY <1>1, <1>2, <1>6, <2>1, <2>2, <2>3, <2>4, GiveBytes
<1>8. Counted(q + 1, n + rate)'
  <2>1. CASE whose = "dilithium"
    <3>1. (n + rate) + rate = (q + 1) * rate + rate  BY <1>6
    <3>2. whose' = "dilithium" /\ rate' = rate /\ pos' = rate  BY <1>2, <1>5, <2>1
    <3> QED BY <3>1, <3>2, Zenon DEF Counted
  <2>2. CASE whose # "dilithium"
    <3>1. (n + rate) + 0 = (q + 1) * rate  BY <1>6
    <3>2. whose' # "dilithium" /\ rate' = rate /\ pos' = 0  BY <1>2, <1>5, <2>2
    <3> QED BY <3>1, <3>2, Zenon DEF Counted
  <2> QED BY <2>1, <2>2
<1>9. BytesAreRight'
  <2>1. q + 1 \in Nat /\ n + rate \in Nat  BY <1>6
  <2> QED BY <1>1, <1>2, <1>3, <1>7, <1>8, <2>1, BytesOfGiving
<1>10. SpongeSizes'
  <2>1. left' \in Nat  BY <1>1, <1>2, <1>5 DEF RateIs
  <2> QED BY <1>2, <1>3, <2>1, Zenon DEF SpongeInv, SpongeSizes
<1>11. PosInBlock'  BY <1>2 DEF SpongeInv, PosInBlock, Giving, Feeding
<1>12. LeftInBlocks'
  <2>1. SUFFICES ASSUME whose' # "dilithium", ask' = Sponge!None
                 PROVE  \E l \in Nat : left' = l * rate'
    BY Zenon DEF LeftInBlocks
  <2>2. PICK l \in Nat : left = l * rate  BY <1>2, <2>1, Zenon DEF SpongeInv, LeftInBlocks
  <2>3. l # 0
    <3>1. SUFFICES ASSUME l = 0
                   PROVE  FALSE
      OBVIOUS
    <3>2. left = 0 * rate  BY <2>2, <3>1
    <3>3. 0 * rate = 0 /\ left >= rate /\ rate > 0  BY <1>1, <1>2 DEF RateIs
    <3>4. left = 0 /\ rate \in Nat  BY <1>1, <3>2, <3>3 DEF RateIs
    <3> QED BY <3>3, <3>4
  <2>4. l - 1 \in Nat /\ (l - 1) * rate = l * rate - rate  BY <1>1, <2>3 DEF RateIs
  <2>5. left' = (l - 1) * rate'  BY <1>2, <2>2, <2>4
  <2> QED BY <2>4, <2>5
<1> QED BY <1>9, <1>10, <1>11, <1>12, Zenon DEF SpongeInv

LEMMA OneShotStep ==
  ASSUME SpongeInv, Sponge!OneShot
  PROVE  SpongeInv'
<1>1. RateIs  BY InvRate
<1>2. /\ whose # "dilithium" /\ stage = "blocks" /\ left < rate /\ stage' = Sponge!Returned /\ left' = 0
      /\ whose' = whose /\ rate' = rate /\ ask' = ask /\ pos' = pos /\ fed' = fed
      /\ \/ left > 0 /\ Sponge!Give(Sponge!Permuted, 0, left)
         \/ ~(left > 0) /\ states' = states /\ output' = output
  BY Zenon DEF Sponge!OneShot, Sponge!call
<1>3. pos = 0 /\ left \in Nat /\ stage \in Giving
  <2>1. pos = (IF whose = "dilithium" THEN rate ELSE 0) /\ left \in Nat
    BY <1>2, Zenon DEF SpongeInv, PosInBlock, SpongeSizes
  <2> QED BY <1>2, <2>1 DEF Giving
<1>4. stage' \in {"squeeze", "done"} /\ (ask # Sponge!None => stage' = "done")
  BY <1>2, Zenon DEF Sponge!Returned
<1>5. left > 0 => stage' = "done"
  <2>1. SUFFICES ASSUME ask = Sponge!None
                 PROVE  ~(left > 0)
    BY <1>4
  <2>2. PICK l \in Nat : left = l * rate  BY <1>2, <2>1, Zenon DEF SpongeInv, LeftInBlocks
  <2>3. l = 0
    <3>1. SUFFICES ASSUME l # 0
                   PROVE  FALSE
      OBVIOUS
    <3>2. 0 * rate + rate <= l * rate  BY <1>1, <3>1, RowsBefore
    <3>3. 0 * rate = 0 /\ left < rate /\ rate \in Nat  BY <1>1, <1>2 DEF RateIs
    <3> QED BY <1>3, <2>2, <3>2, <3>3
  <2>4. 0 * rate = 0  BY <1>1 DEF RateIs
  <2> QED BY <2>2, <2>3, <2>4
<1>6. stage' \notin Feeding /\ stage' \in Giving \cup {"done"}  BY <1>4 DEF Feeding, Giving
<1>7. SpongeSizes'
  <2>1. left' \in Nat  BY <1>2
  <2>2. stage' \in Feeding \cup Giving \cup {"done"}  BY <1>6, Zenon
  <2> QED BY <1>2, <2>1, <2>2, Zenon DEF SpongeInv, SpongeSizes
<1>8. PosInBlock'
  <2>1. pos' = 0 /\ 0 \in 0 .. rate' - 1 /\ whose' # "dilithium"  BY <1>1, <1>2, <1>3 DEF RateIs
  <2>2. stage' \notin {"new", "once"} /\ stage' # "new" /\ stage' # "blocks" /\ stage' # "squeezing"  BY <1>4
  <2> QED BY <1>6, <2>1, <2>2, Zenon DEF PosInBlock
<1>9. LeftInBlocks'  BY <1>4 DEF LeftInBlocks
<1>10. BytesAreRight'
  <2>1. CASE left > 0
    <3>1. PICK m \in Nat, q \in Nat, n \in Nat, y \in 0 .. rate - 1 : Squeezed(m, y, q, n) /\ Counted(q, n)
      BY <1>3, GivingIs
    <3>2. n + 0 = q * rate  BY <1>2, <1>3, <3>1, Zenon DEF Counted
    <3>3. q * rate \in Nat  BY <1>1 DEF RateIs
    <3>4. n = q * rate + 0  BY <3>2, <3>3
    <3>5. PICK c \in Nat : c = left  BY <1>3
    <3>6. Squeezed(m, y, q + 1, n + c)'
      <4>1. Sponge!Permuted = [k \in Sponge!Instances(whose) |-> After(Ended(k, fed, m), m + (q + 1))]
        BY <1>1, <3>1, PermutedIs
      <4>2. output = [k \in Sponge!Instances(whose) |-> Stream(m, n)] /\ fed = m * rate + y
        BY <3>1, Zenon DEF Squeezed
      <4>3. 0 + c <= rate /\ 0 \in Nat  BY <1>1, <1>2, <1>3, <3>5 DEF RateIs
      <4>4. UNCHANGED <<whose, rate, fed>> /\ Sponge!Give(Sponge!Permuted, 0, c)  BY <1>2, <2>1, <3>5
      <4> QED BY <1>1, <3>4, <4>1, <4>2, <4>3, <4>4, GiveBytes
    <3>7. q + 1 \in Nat /\ n + c \in Nat  OBVIOUS
    <3>8. stage' \notin Giving /\ rate' = rate  BY <1>2, <1>5, <2>1 DEF Giving
    <3> QED BY <1>1, <1>6, <3>6, <3>7, <3>8, BytesOfGiving
  <2>2. CASE ~(left > 0)
    <3>1. UNCHANGED <<whose, rate, states, pos, fed, output>>  BY <1>2, <2>2
    <3> QED BY <1>3, <1>6, <3>1, NothingGiven
  <2> QED BY <2>1, <2>2
<1> QED BY <1>7, <1>8, <1>9, <1>10, Zenon DEF SpongeInv

(* A state of one message that squeezes takes some bytes of a block. *)
LEMMA StaysSqueezing ==
  ASSUME SpongeInv, BytesAreRight', stage' = "squeezing", fed' = fed, left' \in Nat,
         pos' \in (IF whose = "dilithium" THEN 1 .. rate ELSE 0 .. rate - 1),
         whose \in {"dilithium", "sphincs"}, whose # "dilithium" /\ left' > 0 => pos' = 0,
         UNCHANGED <<whose, rate, ask>>
  PROVE  SpongeInv'
<1>1. whose' = whose /\ rate' = rate /\ ask' = ask  BY Zenon
<1>2. stage' \in Giving /\ stage' \notin Feeding /\ stage' \notin {"new", "once"} /\ stage' # "blocks" /\ stage' # "squeeze"
      /\ stage' # "new"
  BY DEF Giving, Feeding
<1>3. SpongeSizes'  BY <1>1, <1>2, Zenon DEF SpongeInv, SpongeSizes
<1>4. PosInBlock'  BY <1>1, <1>2, Zenon DEF PosInBlock
<1>5. LeftInBlocks'  BY <1>2, Zenon DEF LeftInBlocks
<1> QED BY <1>3, <1>4, <1>5, Zenon DEF SpongeInv

LEMMA TakesBytes ==
  ASSUME SpongeInv, NEW m \in Nat, NEW q \in Nat, NEW n \in Nat, NEW y \in 0 .. rate - 1,
         Squeezed(m, y, q + 1, n)', stage' = "squeezing",
         IF whose = "dilithium" THEN n + rate = (q + 1) * rate + pos' ELSE n + pos' = (q + 1) * rate,
         UNCHANGED <<whose, rate>>
  PROVE  BytesAreRight'
<1>1. RateIs  BY InvRate
<1>2. whose' = whose /\ rate' = rate  BY Zenon
<1>3. stage' \notin Feeding  BY DEF Feeding
<1>4. Counted(q + 1, n)'  BY <1>2, Zenon DEF Counted
<1>5. q + 1 \in Nat  OBVIOUS
<1> QED BY <1>1, <1>2, <1>3, <1>4, <1>5, BytesOfGiving

LEMMA LeastIs ==
  ASSUME NEW a \in Nat, NEW b \in Nat
  PROVE  /\ Sponge!Least(a, b) \in Nat /\ Sponge!Least(a, b) <= a /\ Sponge!Least(a, b) <= b
         /\ Sponge!Least(a, b) = a \/ Sponge!Least(a, b) = b
BY DEF Sponge!Least

LEMMA SqueezeStep ==
  ASSUME SpongeInv, Sponge!keccak_squeeze
  PROVE  SpongeInv'
<1>1. RateIs  BY InvRate
<1> DEFINE at == IF pos = rate THEN 0 ELSE pos
           c == Sponge!Least(left, rate - at)
<1>2. /\ whose = "dilithium" /\ stage = "squeezing" /\ stage' = "squeezing" /\ left > 0
      /\ Sponge!Give(IF pos = rate THEN Sponge!Permuted ELSE states, at, c)
      /\ pos' = at + c /\ left' = left - c /\ whose' = whose /\ rate' = rate /\ ask' = ask /\ fed' = fed
  BY Zenon DEF Sponge!keccak_squeeze, Sponge!call
<1>3. pos \in 1 .. rate /\ left \in Nat /\ stage \in Giving
  <2>1. stage \in Giving  BY <1>2 DEF Giving
  <2>2. pos \in (IF whose = "dilithium" THEN 1 .. rate ELSE 0 .. rate - 1) /\ left \in Nat
    BY <2>1, Zenon DEF SpongeInv, PosInBlock, SpongeSizes
  <2> QED BY <1>2, <2>1, <2>2
<1>4. PICK m \in Nat, q \in Nat, n \in Nat, y \in 0 .. rate - 1 : Squeezed(m, y, q, n) /\ Counted(q, n)
  BY <1>3, GivingIs
<1>5. n + rate = q * rate + pos /\ q * rate \in Nat
  <2>1. n + rate = q * rate + pos  BY <1>2, <1>4, Zenon DEF Counted
  <2> QED BY <1>1, <2>1 DEF RateIs
<1>6. at \in 0 .. rate - 1  BY <1>1, <1>3 DEF RateIs
<1>7. c \in Nat /\ c <= left /\ c <= rate - at /\ c > 0
  <2> HIDE DEF at
  <2>1. rate - at \in Nat /\ rate - at > 0  BY <1>1, <1>6 DEF RateIs
  <2>2. left > 0  BY <1>2, Zenon
  <2>3. PICK a \in Nat, b \in Nat : a = left /\ b = rate - at  BY <1>3, <2>1
  <2>4. c = Sponge!Least(a, b)  BY <2>3
  <2> HIDE DEF c
  <2> QED BY <2>1, <2>2, <2>3, <2>4, LeastIs
<1> HIDE DEF c
<1>8. PICK d \in Nat : d = c  BY <1>7
<1>9. \E l \in Nat : n = l * rate + at /\ Squeezed(m, y, l + 1, n + d)'
  <2>1. fed = m * rate + y /\ states = [k \in Sponge!Instances(whose) |-> After(Ended(k, fed, m), m + q)]
        /\ output = [k \in Sponge!Instances(whose) |-> Stream(m, n)]
    BY <1>4, Zenon DEF Squeezed
  <2>2. UNCHANGED <<whose, rate, fed>>  BY <1>2
  <2>3. CASE pos = rate
    <3>1. at = 0 /\ Sponge!Give(Sponge!Permuted, 0, d)  BY <1>2, <1>8, <2>3
    <3>2. n = q * rate + 0  BY <1>1, <1>5, <2>3 DEF RateIs
    <3>3. Sponge!Permuted = [k \in Sponge!Instances(whose) |-> After(Ended(k, fed, m), m + (q + 1))]
      BY <1>1, <1>4, PermutedIs
    <3>4. 0 + d <= rate /\ 0 \in Nat  BY <1>1, <1>7, <1>8, <3>1 DEF RateIs
    <3>5. Squeezed(m, y, q + 1, n + d)'  BY <1>1, <2>1, <2>2, <3>1, <3>2, <3>3, <3>4, GiveBytes
    <3> QED BY <3>1, <3>2, <3>5
  <2>4. CASE pos # rate
    <3>1. at = pos /\ Sponge!Give(states, at, d)  BY <1>2, <1>8, <2>4
    <3>2. q # 0
      <4>1. SUFFICES ASSUME q = 0
                     PROVE  FALSE
        OBVIOUS
      <4>2. n + rate = 0 * rate + pos /\ 0 * rate = 0  BY <1>1, <1>5, <4>1 DEF RateIs
      <4> QED BY <1>1, <1>3, <2>4, <4>2 DEF RateIs
    <3>3. PICK l \in Nat : q = l + 1
      <4>1. q - 1 \in Nat /\ q = (q - 1) + 1  BY <3>2
      <4> QED BY <4>1
    <3>4. n = l * rate + at
      <4>1. q * rate = l * rate + rate /\ l * rate \in Nat  BY <1>1, <3>3 DEF RateIs
      <4> QED BY <1>1, <1>3, <1>5, <3>1, <4>1 DEF RateIs
    <3>5. states = [k \in Sponge!Instances(whose) |-> After(Ended(k, fed, m), m + (l + 1))]  BY <2>1, <3>3
    <3>6. at + d <= rate  BY <1>1, <1>6, <1>7, <1>8 DEF RateIs
    <3>7. PICK a \in Nat : a = at  BY <1>6
    <3> HIDE DEF at
    <3>8. Squeezed(m, y, l + 1, n + d)'
      <4>1. n = l * rate + a /\ a + d <= rate /\ Sponge!Give(states, a, d)  BY <3>1, <3>4, <3>6, <3>7
      <4> QED BY <1>1, <2>1, <2>2, <3>5, <4>1, GiveBytes
    <3> QED BY <3>4, <3>8
  <2> QED BY <2>3, <2>4
<1>10. PICK l \in Nat : n = l * rate + at /\ Squeezed(m, y, l + 1, n + d)'  BY <1>9
<1>11. l * rate \in Nat /\ (l + 1) * rate = l * rate + rate  BY <1>1 DEF RateIs
<1> HIDE DEF at
<1>12. pos' = at + d /\ left' = left - d  BY <1>2, <1>8
<1>13. pos' \in 1 .. rate /\ left' \in Nat  BY <1>1, <1>3, <1>6, <1>7, <1>8, <1>12 DEF RateIs
<1>14. (n + d) + rate = (l + 1) * rate + pos'  BY <1>1, <1>6, <1>8, <1>10, <1>11, <1>12 DEF RateIs
<1>15. n + d \in Nat /\ UNCHANGED <<whose, rate, ask>> /\ whose \in {"dilithium", "sphincs"}  BY <1>2
<1>16. /\ pos' \in (IF whose = "dilithium" THEN 1 .. rate ELSE 0 .. rate - 1)
       /\ (whose # "dilithium" /\ left' > 0 => pos' = 0)
       /\ IF whose = "dilithium" THEN (n + d) + rate = (l + 1) * rate + pos'
                                 ELSE (n + d) + pos' = (l + 1) * rate
  BY <1>2, <1>13, <1>14, Zenon
<1>17. BytesAreRight'
  <2>1. UNCHANGED <<whose, rate>>  BY <1>2
  <2> QED BY <1>2, <1>10, <1>15, <1>16, <2>1, TakesBytes
<1> QED BY <1>2, <1>13, <1>15, <1>16, <1>17, StaysSqueezing

LEMMA NoBytes == \A g : [x \in 1 .. 0 |-> g[x]] = <<>>
<1> SUFFICES ASSUME NEW g
             PROVE  [x \in 1 .. 0 |-> g[x]] = <<>>
  OBVIOUS
<1> DEFINE none == [x \in 1 .. 0 |-> g[x]]
<1>1. none \in Seq({g[x] : x \in Nat}) /\ Len(none) = 0  BY FirstOnes
<1> QED BY <1>1, EmptySeq

LEMMA GivesNothing ==
  ASSUME NEW m \in Nat, NEW n \in Nat, NEW at, output = [k \in Sponge!Instances(whose) |-> Stream(m, n)],
         Sponge!Give(states, at, 0)
  PROVE  states' = states /\ output' = output
<1> DEFINE g == [c \in Nat |-> <<(m + 1) + ((c - 1) \div rate), (c - 1) % rate, {}>>]
           K == Sponge!Instances(whose)
<1>1. Stream(m, n) \in Seq({g[c] : c \in Nat})
  <2>1. \A c \in 1 .. n : c \in Nat  OBVIOUS
  <2>2. Stream(m, n) = [c \in 1 .. n |-> g[c]]  BY <2>1, Zenon DEF Stream
  <2> HIDE DEF g
  <2> QED BY <2>2, FirstOnes
<1>2. Stream(m, n) \o <<>> = Stream(m, n)  BY <1>1, ConcatEmptySeq, Zenon
<1>3. states' = states
      /\ output' = [k \in DOMAIN output |-> output[k] \o [x \in 1 .. 0 |-> Sponge!Byte(states[k], (at + x) - 1)]]
  BY DEF Sponge!Give
<1> HIDE DEF K
<1>4. DOMAIN output = K /\ \A k \in K : output[k] = Stream(m, n)  BY Zenon DEF K
<1>5. ASSUME NEW k
      PROVE  [x \in 1 .. 0 |-> Sponge!Byte(states[k], (at + x) - 1)] = <<>>
  <2> DEFINE h == [x \in 1 .. 0 |-> Sponge!Byte(states[k], (at + x) - 1)]
  <2>1. h = [x \in 1 .. 0 |-> h[x]]  BY Zenon
  <2>2. [x \in 1 .. 0 |-> h[x]] = <<>>  BY NoBytes, Zenon
  <2> HIDE DEF h
  <2>3. h = <<>>  BY <2>1, <2>2, Zenon
  <2> QED BY <2>3 DEF h
<1>6. output' = [k \in K |-> Stream(m, n)]
  <2>1. output' = [k \in K |-> output[k] \o <<>>]  BY <1>3, <1>4, <1>5, Zenon
  <2> QED BY <1>2, <1>4, <2>1, Zenon
<1> QED BY <1>3, <1>6, Zenon DEF K

LEMMA IncSqueezeBegins ==
  ASSUME Sponge!RatesAssumption, SpongeInv, NEW wanted \in 0 .. MaxSqueezed, Sponge!shake256_inc_squeeze(wanted)
  PROVE  SpongeInv'
<1>1. RateIs  BY InvRate
<1> DEFINE c == Sponge!Least(wanted, pos)
<1>2. /\ whose = "sphincs" /\ stage = "squeeze" /\ stage' = "squeezing" /\ Sponge!Give(states, rate - pos, c)
      /\ pos' = pos - c /\ left' = wanted - c /\ whose' = whose /\ rate' = rate /\ ask' = ask /\ fed' = fed
  BY Zenon DEF Sponge!shake256_inc_squeeze, Sponge!call
<1>3. pos \in 0 .. rate - 1 /\ stage \in Giving
  <2>1. stage \in Giving  BY <1>2 DEF Giving
  <2>2. pos \in (IF whose = "dilithium" THEN 1 .. rate ELSE 0 .. rate - 1)
    BY <2>1, Zenon DEF SpongeInv, PosInBlock
  <2> QED BY <1>2, <2>1, <2>2
<1>4. PICK m \in Nat, q \in Nat, n \in Nat, y \in 0 .. rate - 1 : Squeezed(m, y, q, n) /\ Counted(q, n)
  BY <1>3, GivingIs
<1>5. n + pos = q * rate /\ q * rate \in Nat
  <2>1. whose # "dilithium"  BY <1>2
  <2>2. n + pos = q * rate  BY <1>4, <2>1, Zenon DEF Counted
  <2> QED BY <1>1, <2>2 DEF RateIs
<1>6. c \in Nat /\ c <= wanted /\ c <= pos /\ (c = wanted \/ c = pos) /\ wanted \in Nat /\ pos \in Nat
  <2>1. wanted \in Nat /\ pos \in Nat  BY <1>1, <1>3 DEF Sponge!RatesAssumption, RateIs
  <2>2. PICK a \in Nat, b \in Nat : a = wanted /\ b = pos  BY <2>1
  <2>3. c = Sponge!Least(a, b)  BY <2>2
  <2> HIDE DEF c
  <2> QED BY <2>1, <2>2, <2>3, LeastIs
<1> HIDE DEF c
<1>7. PICK d \in Nat : d = c  BY <1>6
<1>8. pos' = pos - d /\ left' = wanted - d  BY <1>2, <1>7
<1>9. /\ left' \in Nat /\ pos' \in 0 .. rate - 1 /\ (left' > 0 => pos' = 0)
  BY <1>1, <1>3, <1>6, <1>7, <1>8 DEF RateIs
<1>10. BytesAreRight'
  <2>1. output = [k \in Sponge!Instances(whose) |-> Stream(m, n)] /\ fed = m * rate + y
        /\ states = [k \in Sponge!Instances(whose) |-> After(Ended(k, fed, m), m + q)]
    BY <1>4, Zenon DEF Squeezed
  <2>2. CASE d = 0
    <3>1. Sponge!Give(states, rate - pos, 0)  BY <1>2, <1>7, <2>2
    <3>2. states' = states /\ output' = output  BY <2>1, <3>1, GivesNothing
    <3>3. pos' = pos  BY <1>6, <1>8, <2>2
    <3>4. UNCHANGED <<whose, rate, states, pos, fed, output>> /\ stage' \notin Feeding
      BY <1>2, <3>2, <3>3 DEF Feeding
    <3> QED BY <1>3, <3>4, NothingGiven
  <2>3. CASE d # 0
    <3>1. q # 0
      <4>1. SUFFICES ASSUME q = 0
                     PROVE  FALSE
        OBVIOUS
      <4>2. n + pos = 0 * rate /\ 0 * rate = 0  BY <1>1, <1>5, <4>1 DEF RateIs
      <4> QED BY <1>6, <1>7, <2>3, <4>2
    <3>2. PICK l \in Nat : q = l + 1
      <4>1. q - 1 \in Nat /\ q = (q - 1) + 1  BY <3>1
      <4> QED BY <4>1
    <3>3. PICK a \in Nat : a = rate - pos
      <4>1. rate - pos \in Nat  BY <1>1, <1>3 DEF RateIs
      <4> QED BY <4>1
    <3>4. n = l * rate + a /\ a + d <= rate
      <4>1. q * rate = l * rate + rate /\ l * rate \in Nat  BY <1>1, <3>2 DEF RateIs
      <4>2. n = l * rate + a  BY <1>1, <1>5, <1>6, <3>3, <4>1 DEF RateIs
      <4>3. a + d <= rate  BY <1>1, <1>6, <1>7, <3>3 DEF RateIs
      <4> QED BY <4>2, <4>3
    <3>5. Sponge!Give(states, a, d) /\ UNCHANGED <<whose, rate, fed>>  BY <1>2, <1>7, <3>3
    <3>6. states = [k \in Sponge!Instances(whose) |-> After(Ended(k, fed, m), m + (l + 1))]  BY <2>1, <3>2
    <3>7. Squeezed(m, y, l + 1, n + d)'  BY <1>1, <2>1, <3>4, <3>5, <3>6, GiveBytes
    <3>8. (n + d) + pos' = (l + 1) * rate
      <4>1. (n + d) + pos' = n + pos  BY <1>6, <1>8
      <4> QED BY <1>5, <3>2, <4>1
    <3>9. n + d \in Nat /\ UNCHANGED <<whose, rate>> /\ whose # "dilithium"  BY <1>2
    <3>10. IF whose = "dilithium" THEN (n + d) + rate = (l + 1) * rate + pos'
                                  ELSE (n + d) + pos' = (l + 1) * rate
      BY <3>8, <3>9, Zenon
    <3> QED BY <1>2, <3>7, <3>9, <3>10, TakesBytes
  <2> QED BY <2>2, <2>3
<1>11. /\ UNCHANGED <<whose, rate, ask>> /\ whose \in {"dilithium", "sphincs"}
       /\ pos' \in (IF whose = "dilithium" THEN 1 .. rate ELSE 0 .. rate - 1)
  BY <1>2, <1>9
<1>12. whose # "dilithium" /\ left' > 0 => pos' = 0  BY <1>9
<1> QED BY <1>2, <1>9, <1>10, <1>11, <1>12, StaysSqueezing

LEMMA IncSqueezeStep ==
  ASSUME SpongeInv, Sponge!keccak_inc_squeeze
  PROVE  SpongeInv'
<1>1. RateIs  BY InvRate
<1> DEFINE c == Sponge!Least(left, rate)
<1>2. /\ whose = "sphincs" /\ stage = "squeezing" /\ stage' = "squeezing" /\ left > 0
      /\ Sponge!Give(Sponge!Permuted, 0, c)
      /\ pos' = rate - c /\ left' = left - c /\ whose' = whose /\ rate' = rate /\ ask' = ask /\ fed' = fed
  BY Zenon DEF Sponge!keccak_inc_squeeze, Sponge!call
<1>3. whose # "dilithium" /\ stage \in Giving  BY <1>2 DEF Giving
<1>4. pos = 0 /\ left \in Nat  BY <1>2, <1>3, Zenon DEF SpongeInv, PosInBlock, SpongeSizes
<1>5. PICK m \in Nat, q \in Nat, n \in Nat, y \in 0 .. rate - 1 : Squeezed(m, y, q, n) /\ Counted(q, n)
  BY <1>3, GivingIs
<1>6. n = q * rate + 0 /\ q * rate \in Nat
  <2>1. n + 0 = q * rate  BY <1>3, <1>4, <1>5, Zenon DEF Counted
  <2> QED BY <1>1, <2>1 DEF RateIs
<1>7. c \in Nat /\ c <= left /\ c <= rate /\ (c = left \/ c = rate) /\ rate \in Nat /\ rate >= 2
  <2>1. rate \in Nat /\ rate >= 2  BY <1>1 DEF RateIs
  <2>2. PICK a \in Nat, b \in Nat : a = left /\ b = rate  BY <1>4, <2>1
  <2>3. c = Sponge!Least(a, b)  BY <2>2
  <2> HIDE DEF c
  <2> QED BY <2>1, <2>2, <2>3, LeastIs
<1> HIDE DEF c
<1>8. PICK d \in Nat : d = c  BY <1>7
<1>9. pos' = rate - d /\ left' = left - d /\ left > 0  BY <1>2, <1>8
<1>10. left' \in Nat /\ pos' \in 0 .. rate - 1 /\ (left' > 0 => pos' = 0)  BY <1>4, <1>7, <1>8, <1>9
<1>11. Squeezed(m, y, q + 1, n + d)'
  <2>1. Sponge!Permuted = [k \in Sponge!Instances(whose) |-> After(Ended(k, fed, m), m + (q + 1))]
    BY <1>1, <1>5, PermutedIs
  <2>2. output = [k \in Sponge!Instances(whose) |-> Stream(m, n)] /\ fed = m * rate + y
    BY <1>5, Zenon DEF Squeezed
  <2>3. 0 + d <= rate /\ 0 \in Nat  BY <1>7, <1>8
  <2>4. UNCHANGED <<whose, rate, fed>> /\ Sponge!Give(Sponge!Permuted, 0, d)  BY <1>2, <1>8
  <2> QED BY <1>1, <1>6, <2>1, <2>2, <2>3, <2>4, GiveBytes
<1>12. (n + d) + pos' = (q + 1) * rate
  <2>1. (q + 1) * rate = q * rate + rate  BY <1>7
  <2> QED BY <1>6, <1>7, <1>9, <2>1
<1>13. BytesAreRight'
  <2>1. n + d \in Nat /\ UNCHANGED <<whose, rate>>  BY <1>2
  <2>2. IF whose = "dilithium" THEN (n + d) + rate = (q + 1) * rate + pos' ELSE (n + d) + pos' = (q + 1) * rate
    BY <1>3, <1>12, Zenon
  <2> QED BY <1>2, <1>11, <2>1, <2>2, TakesBytes
<1>14. /\ UNCHANGED <<whose, rate, ask>> /\ whose \in {"dilithium", "sphincs"}
       /\ pos' \in (IF whose = "dilithium" THEN 1 .. rate ELSE 0 .. rate - 1)
  BY <1>2, <1>10
<1>15. whose # "dilithium" /\ left' > 0 => pos' = 0  BY <1>10
<1> QED BY <1>2, <1>10, <1>13, <1>14, <1>15, StaysSqueezing

(* ---- Every step. ---- *)
LEMMA SpongeStutters ==
  ASSUME SpongeInv, UNCHANGED (Sponge!vars)
  PROVE  SpongeInv'
<1>1. /\ whose' = whose /\ rate' = rate /\ stage' = stage /\ states' = states /\ pos' = pos /\ left' = left
      /\ ask' = ask /\ fed' = fed /\ output' = output
  BY Zenon DEF Sponge!vars
<1>2. SpongeSizes' /\ PosInBlock' /\ LeftInBlocks'
  <2>1. SpongeSizes'  BY <1>1, Zenon DEF SpongeInv, SpongeSizes
  <2>2. PosInBlock'  BY <1>1, Zenon DEF SpongeInv, PosInBlock
  <2>3. LeftInBlocks'  BY <1>1, Zenon DEF SpongeInv, LeftInBlocks
  <2> QED BY <2>1, <2>2, <2>3
<1>3. UNCHANGED <<whose, rate, states, pos, fed, output>>  BY <1>1
<1>4. BytesAreRight'
  <2>1. CASE stage \in Feeding
    <3>1. PICK m \in Nat : Filled(m)  BY <2>1, Zenon DEF SpongeInv, BytesAreRight
    <3>2. Filled(m)'  BY <1>3, <3>1, FilledKept
    <3>3. stage' \in Feeding  BY <1>1, <2>1
    <3> QED BY <3>2, <3>3, BytesOfFeeding
  <2>2. CASE stage \in Giving
    <3>1. stage' \notin Feeding  BY <1>1, <2>2 DEF Feeding, Giving
    <3> QED BY <1>3, <2>2, <3>1, NothingGiven
  <2>3. CASE stage \notin Feeding /\ stage \notin Giving
    <3>1. PICK m \in Nat, q \in Nat, n \in Nat, y \in 0 .. rate - 1 : Squeezed(m, y, q, n)
      BY <2>3, Zenon DEF SpongeInv, BytesAreRight
    <3>2. UNCHANGED <<whose, rate, states, fed, output>>  BY <1>1
    <3>3. Squeezed(m, y, q, n)'  BY <3>1, <3>2, SqueezedKept
    <3>4. stage' \notin Feeding /\ stage' \notin Giving /\ rate' = rate  BY <1>1, <2>3
    <3>5. RateIs  BY InvRate
    <3> QED BY <3>3, <3>4, <3>5, BytesOfGiving
  <2> QED BY <2>1, <2>2, <2>3
<1> QED BY <1>2, <1>4, Zenon DEF SpongeInv

(* Every function that absorbs at once begins alike. *)
LEMMA OnceBegins ==
  ASSUME Sponge!RatesAssumption, NEW n \in 0 .. MaxAbsorbed,
         \/ Sponge!shake_absorb_once(n) \/ Sponge!shakex4_absorb_once(n)
         \/ \E m \in 0 .. MaxSqueezed :
              \/ Sponge!shake128(m, n) \/ Sponge!shake256(m, n)
              \/ Sponge!shake128x4(m, n) \/ Sponge!shake256x4(m, n)
              \/ Sponge!shake256Sphincs(m, n) \/ Sponge!shake128x4Sphincs(m, n)
              \/ Sponge!shake256x4Sphincs(m, n) \/ Sponge!shake128x2(m, n) \/ Sponge!shake256x2(m, n)
  PROVE  BeginsToFeed
<1>1. \A m \in 0 .. MaxSqueezed : m \in Nat
  <2>1. MaxSqueezed \in Nat  BY DEF Sponge!RatesAssumption
  <2> QED BY <2>1
<1>2. \E l \in Nat \cup {Sponge!None} : Sponge!Once(n, l)
  <2>1. CASE Sponge!shake_absorb_once(n) \/ Sponge!shakex4_absorb_once(n)
    BY <2>1, Zenon DEF Sponge!shake_absorb_once, Sponge!shakex4_absorb_once
  <2>2. CASE \E m \in 0 .. MaxSqueezed :
               \/ Sponge!shake128(m, n) \/ Sponge!shake256(m, n)
               \/ Sponge!shake128x4(m, n) \/ Sponge!shake256x4(m, n)
               \/ Sponge!shake256Sphincs(m, n) \/ Sponge!shake128x4Sphincs(m, n)
               \/ Sponge!shake256x4Sphincs(m, n) \/ Sponge!shake128x2(m, n) \/ Sponge!shake256x2(m, n)
    <3>1. PICK m \in 0 .. MaxSqueezed : Sponge!Once(n, m)
      BY <2>2, Zenon DEF Sponge!shake128, Sponge!shake256, Sponge!shake128x4, Sponge!shake256x4,
         Sponge!shake256Sphincs, Sponge!shake128x4Sphincs, Sponge!shake256x4Sphincs,
         Sponge!shake128x2, Sponge!shake256x2
    <3> QED BY <1>1, <3>1, Zenon
  <2> QED BY <2>1, <2>2, Zenon
<1> QED BY <1>2, Zenon DEF BeginsToFeed

LEMMA SpongeSteps ==
  ASSUME Sponge!RatesAssumption, SpongeInv, [Sponge!Next]_(Sponge!vars)
  PROVE  SpongeInv'
<1>1. CASE Sponge!shake_init \/ Sponge!shake256_inc_init
  BY <1>1, FeedingBegins, Zenon DEF BeginsToFeed
<1>2. ASSUME NEW n \in 0 .. MaxAbsorbed, Sponge!shake_absorb(n) \/ Sponge!shake256_inc_absorb(n)
      PROVE  SpongeInv'
  <2>1. Sponge!Absorb(n) /\ whose \in {"dilithium", "sphincs"}
    BY <1>2, Zenon DEF Sponge!shake_absorb, Sponge!shake256_inc_absorb
  <2> QED BY <2>1, FeedingBegins, Zenon DEF BeginsToFeed
<1>3. ASSUME NEW n \in 0 .. MaxAbsorbed,
             \/ Sponge!shake_absorb_once(n) \/ Sponge!shakex4_absorb_once(n)
             \/ \E m \in 0 .. MaxSqueezed :
                  \/ Sponge!shake128(m, n) \/ Sponge!shake256(m, n)
                  \/ Sponge!shake128x4(m, n) \/ Sponge!shake256x4(m, n)
                  \/ Sponge!shake256Sphincs(m, n) \/ Sponge!shake128x4Sphincs(m, n)
                  \/ Sponge!shake256x4Sphincs(m, n) \/ Sponge!shake128x2(m, n) \/ Sponge!shake256x2(m, n)
      PROVE  SpongeInv'
  <2>1. BeginsToFeed  BY <1>3, OnceBegins, Zenon
  <2> QED BY <2>1, FeedingBegins
<1>4. CASE Sponge!keccak_absorb \/ Sponge!keccak_inc_absorb
  BY <1>4, AbsorbBlockStep, AbsorbRestStep, Zenon DEF Sponge!keccak_absorb, Sponge!keccak_inc_absorb
<1>5. CASE Sponge!shake_finalize \/ Sponge!shake256_inc_finalize
  <2>1. CASE Sponge!shake_finalize
    <3>1. Finalizes  BY <2>1, Zenon DEF Sponge!shake_finalize, Finalizes, Sponge!call
    <3> QED BY <3>1, FinalizeStep
  <2>2. CASE Sponge!shake256_inc_finalize
    <3>1. whose # "dilithium"  BY <2>2 DEF Sponge!shake256_inc_finalize
    <3>2. Finalizes  BY <2>2, <3>1, Zenon DEF Sponge!shake256_inc_finalize, Finalizes, Sponge!call
    <3> QED BY <3>2, FinalizeStep
  <2> QED BY <1>5, <2>1, <2>2
<1>6. CASE Sponge!OnceBlock  BY <1>6, OnceBlockStep
<1>7. CASE Sponge!OnceRest  BY <1>7, OnceRestStep
<1>8. ASSUME NEW n \in 0 .. MaxSqueezed, Sponge!shake_squeezeblocks(n) \/ Sponge!shake_squeeze(n)
      PROVE  SpongeInv'
  BY <1>8, GivingBegins, Zenon DEF BeginsToGive
<1>9. ASSUME NEW n \in 0 .. MaxSqueezed, Sponge!shake256_inc_squeeze(n)
      PROVE  SpongeInv'
  BY <1>9, IncSqueezeBegins
<1>10. CASE Sponge!keccak_squeezeblocks  BY <1>10, SqueezeBlocksStep
<1>11. CASE Sponge!ShakeRest \/ Sponge!Return  BY <1>11, GivingBegins, Zenon DEF BeginsToGive
<1>12. CASE Sponge!OneShot  BY <1>12, OneShotStep
<1>13. CASE Sponge!keccak_squeeze  BY <1>13, SqueezeStep
<1>14. CASE Sponge!keccak_inc_squeeze  BY <1>14, IncSqueezeStep
<1>15. CASE UNCHANGED (Sponge!vars)  BY <1>15, SpongeStutters
<1> QED BY <1>1, <1>2, <1>3, <1>4, <1>5, <1>6, <1>7, <1>8, <1>9, <1>10, <1>11, <1>12, <1>13, <1>14, <1>15,
           Zenon DEF Sponge!Next

(* ---- What the invariant says of the properties. ---- *)
LEMMA BlocksAre ==
  ASSUME RateIs, NEW m \in Nat, NEW y \in 0 .. rate - 1, fed = m * rate + y
  PROVE  Sponge!Blocks = m + 1
<1>1. fed \div rate = m  BY QuotientUnique
<1> QED BY <1>1 DEF Sponge!Blocks

LEMMA PaddedIs ==
  ASSUME RateIs, NEW m \in Nat, NEW y \in 0 .. rate - 1, fed = m * rate + y, NEW k
  PROVE  Sponge!Padded(k) = [b \in 1 .. m + 1 |-> Ended(k, fed, m)[b]]
<1>1. Sponge!Blocks = m + 1  BY BlocksAre
<1> DEFINE row(b) == [x \in 0 .. rate - 1 |->
     (IF Place(b, x) <= fed THEN {<<k, Place(b, x)>>} ELSE IF Place(b, x) = fed + 1 THEN {Sponge!p} ELSE {})
     \cup (IF b = m + 1 /\ x = rate - 1 THEN {Sponge!top} ELSE {})]
<1>2. Sponge!Padded(k) = [b \in 1 .. m + 1 |-> row(b)]
  BY <1>1 DEF Sponge!Padded, Place
<1>3. \A b \in Nat : Ended(k, fed, m)[b] = row(b)  BY DEF Ended
<1>4. \A b \in 1 .. m + 1 : b \in Nat  OBVIOUS
<1> HIDE DEF row
<1> QED BY <1>2, <1>3, <1>4, Zenon

LEMMA SpongeAbsorbs == SpongeInv => Sponge!AbsorbsPaddedMessage
<1> SUFFICES ASSUME SpongeInv, stage \in {"squeeze", "blocks", "squeezing", "done"}, NEW k \in DOMAIN states
             PROVE  SubSeq(IF Len(states[k].past) < Sponge!Blocks
                           THEN Append(states[k].past, states[k].block) ELSE states[k].past, 1, Sponge!Blocks)
                      = Sponge!Padded(k)
  BY Zenon DEF Sponge!AbsorbsPaddedMessage
<1>1. RateIs  BY InvRate
<1>2. stage \notin Feeding  BY DEF Feeding
<1>3. PICK m \in Nat, q \in Nat, n \in Nat, y \in 0 .. rate - 1 : Squeezed(m, y, q, n)
  BY <1>2, Zenon DEF SpongeInv, BytesAreRight
<1>4. fed = m * rate + y /\ states = [x \in Sponge!Instances(whose) |-> After(Ended(x, fed, m), m + q)]
  BY <1>3, Zenon DEF Squeezed
<1> DEFINE g == Ended(k, fed, m)
           t == [b \in 1 .. m + q |-> g[b]]
<1>5. Sponge!Blocks = m + 1 /\ Sponge!Padded(k) = [b \in 1 .. m + 1 |-> g[b]]
  BY <1>1, <1>4, BlocksAre, PaddedIs
<1>6. states[k].past = t /\ states[k].block = g[(m + q) + 1]
  <2>1. states[k] = After(Ended(k, fed, m), m + q)  BY <1>4, Zenon
  <2> QED BY <2>1 DEF After
<1> HIDE DEF g
<1>7. m + q \in Nat /\ m + 1 \in Nat  OBVIOUS
<1>8. Len(t) = m + q  BY <1>7, FirstOnes
<1>9. CASE q = 0
  <2>1. m + q = m  BY <1>9
  <2>2. Append(t, g[(m + q) + 1]) = [b \in 1 .. m + 1 |-> g[b]]  BY <2>1, AppendNext
  <2>3. SubSeq([b \in 1 .. m + 1 |-> g[b]], 1, m + 1) = [b \in 1 .. m + 1 |-> g[b]]
    <3>1. m + 1 <= m + 1  OBVIOUS
    <3> QED BY <1>7, <3>1, FirstOfFirst
  <2>4. Len(t) < Sponge!Blocks  BY <1>5, <1>8, <2>1
  <2> HIDE DEF t
  <2> QED BY <1>5, <1>6, <2>2, <2>3, <2>4
<1>10. CASE q # 0
  <2>1. m + 1 <= m + q  BY <1>10
  <2>2. ~(Len(t) < Sponge!Blocks)  BY <1>5, <1>8, <2>1
  <2>3. SubSeq(t, 1, m + 1) = [b \in 1 .. m + 1 |-> g[b]]  BY <1>7, <2>1, FirstOfFirst
  <2> HIDE DEF t
  <2> QED BY <1>5, <1>6, <2>2, <2>3
<1> QED BY <1>9, <1>10

LEMMA SpongeGives == SpongeInv => Sponge!OutputIsTheStream
<1> SUFFICES ASSUME SpongeInv, NEW k \in DOMAIN states, NEW e \in 1 .. Len(output[k])
             PROVE  output[k][e] = <<Sponge!Blocks + ((e - 1) \div rate), (e - 1) % rate, {}>>
  BY Zenon DEF Sponge!OutputIsTheStream
<1>1. RateIs  BY InvRate
<1>2. CASE stage \in Feeding
  <2>1. PICK m \in Nat : Filled(m)  BY <1>2, Zenon DEF SpongeInv, BytesAreRight
  <2>2. DOMAIN states = Sponge!Instances(whose) /\ output = [x \in Sponge!Instances(whose) |-> <<>>]
    BY <2>1, Zenon DEF Filled
  <2>3. output[k] = <<>>  BY <2>2, Zenon
  <2>4. Len(<<>>) = 0  BY EmptySeq
  <2> QED BY <2>3, <2>4
<1>3. CASE stage \notin Feeding
  <2>1. PICK m \in Nat, q \in Nat, n \in Nat, y \in 0 .. rate - 1 : Squeezed(m, y, q, n)
    BY <1>3, Zenon DEF SpongeInv, BytesAreRight
  <2>2. /\ fed = m * rate + y /\ DOMAIN states = Sponge!Instances(whose)
        /\ output = [x \in Sponge!Instances(whose) |-> Stream(m, n)]
    BY <2>1, Zenon DEF Squeezed
  <2>3. output[k] = Stream(m, n)  BY <2>2, Zenon
  <2>4. Sponge!Blocks = m + 1  BY <1>1, <2>2, BlocksAre
  <2> DEFINE g == [d \in Nat |-> <<(m + 1) + ((d - 1) \div rate), (d - 1) % rate, {}>>]
  <2>5. Stream(m, n) = [d \in 1 .. n |-> g[d]]
    <3>1. \A d \in 1 .. n : d \in Nat  OBVIOUS
    <3> QED BY <3>1, Zenon DEF Stream
  <2>6. \A d \in Nat : g[d] = <<(m + 1) + ((d - 1) \div rate), (d - 1) % rate, {}>>  BY Zenon
  <2> HIDE DEF g
  <2>7. Len(output[k]) = n  BY <2>3, <2>5, FirstOnes
  <2>8. e \in 1 .. n /\ e \in Nat  BY <2>7
  <2>9. output[k][e] = g[e]  BY <2>3, <2>5, <2>8, Zenon
  <2> QED BY <2>4, <2>6, <2>8, <2>9, Zenon
<1> QED BY <1>2, <1>3

LEMMA SpongeHasRoom == SpongeInv => Sponge!RoomForPadding
<1> SUFFICES ASSUME SpongeInv, stage = "absorb"
             PROVE  pos < rate
  BY Zenon DEF Sponge!RoomForPadding
<1>1. stage \in Feeding  BY DEF Feeding
<1>2. pos \in 0 .. rate - 1  BY <1>1, Zenon DEF SpongeInv, PosInBlock
<1>3. RateIs  BY InvRate
<1> QED BY <1>2, <1>3 DEF RateIs

SpongeIsRight == Sponge!AbsorbsPaddedMessage /\ Sponge!OutputIsTheStream /\ Sponge!RoomForPadding

(* A message that is cut into pieces, also where a piece ends on the last  *)
(* byte of a block, is absorbed with its padding once, and the output, in  *)
(* pieces, in blocks or at once, is the one stream it has, in each whose,  *)
(* for one, two or four messages of any length and for any two rates       *)
(* (fips202.c:379, 419, 499; fips202x4.c:42).                              *)
THEOREM SpongeGivesOneStream ==
  Sponge!RatesAssumption => (Sponge!Spec => []SpongeIsRight)
<1> SUFFICES ASSUME Sponge!RatesAssumption
             PROVE  Sponge!Spec => []SpongeIsRight
  OBVIOUS
<1>1. Sponge!Init => SpongeInv  BY SpongeStarts
<1>2. SpongeInv /\ [Sponge!Next]_(Sponge!vars) => SpongeInv'  BY SpongeSteps
<1>3. SpongeInv => SpongeIsRight  BY SpongeAbsorbs, SpongeGives, SpongeHasRoom DEF SpongeIsRight
<1> QED BY <1>1, <1>2, <1>3, PTL DEF Sponge!Spec
==============================================================================
