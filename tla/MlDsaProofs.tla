---------------------------- MODULE MlDsaProofs ----------------------------
(***************************************************************************)
(* Proofs about key generation, signing and verifying of ML-DSA: the copy  *)
(* loop of its random-data source serves every request as one read of the  *)
(* cyclic stream (MlRandomSource); hints come back from their bytes, fit   *)
(* them and have one encoding only (MlDsaHints); only what was signed is   *)
(* opened, wherever the message lies (SignedMessage, which the wrappers of *)
(* SPHINCS+ share); and both builds' signers count the same nonces, none   *)
(* twice in an attempt (MlDsaRejection).                                   *)
(***************************************************************************)
EXTENDS MlRandomSource, FiniteSetTheorems, SequenceTheorems, TLAPS

(* Positions in a buffer that is read cyclically, and numbers that wrap    *)
(* around: what a move does to a remainder.                                *)

(* A remainder is a position inside the buffer. *)
LEMMA RemainderInRange ==
  ASSUME NEW n \in Nat \ {0}, NEW a \in Nat
  PROVE  a % n \in 0 .. n - 1
  OBVIOUS

(* A position inside the buffer is its own remainder. *)
LEMMA RemainderOfSmall ==
  ASSUME NEW n \in Nat \ {0}, NEW a \in 0 .. n - 1
  PROVE  a % n = a
  OBVIOUS

(* Quotient and remainder make up the number. *)
LEMMA QuotientRemainder ==
  ASSUME NEW n \in Nat \ {0}, NEW a \in Nat
  PROVE  a \div n \in Nat /\ a = n * (a \div n) + (a % n)
  OBVIOUS

(* And they are the only ones that do. *)
LEMMA RemainderUnique ==
  ASSUME NEW n \in Nat \ {0}, NEW q \in Int, NEW r \in 0 .. n - 1
  PROVE  (n * q + r) % n = r
  OBVIOUS

(* A move that stays before the end of the buffer. *)
LEMMA MoveInside ==
  ASSUME NEW n \in Nat \ {0}, NEW a \in Nat, NEW j \in Nat, (a % n) + j < n
  PROVE  (a + j) % n = (a % n) + j
<1> DEFINE q == a \div n
           r == (a % n) + j
<1>1. q \in Nat /\ a = n * q + (a % n)
  BY QuotientRemainder
<1>2. a % n \in 0 .. n - 1
  BY RemainderInRange
<1>3. r \in 0 .. n - 1
  BY <1>2
<1>4. a + j = n * q + r
  BY <1>1, <1>2
<1>5. (n * q + r) % n = r
  BY <1>1, <1>3, RemainderUnique
<1>6. QED
  BY <1>4, <1>5

(* A move up to the end of the buffer goes back to its beginning. *)
LEMMA MoveToEnd ==
  ASSUME NEW n \in Nat \ {0}, NEW a \in Nat, NEW j \in Nat, (a % n) + j = n
  PROVE  (a + j) % n = 0
<1> DEFINE q == a \div n
<1>1. q \in Nat /\ a = n * q + (a % n)
  BY QuotientRemainder
<1>2. a % n \in 0 .. n - 1
  BY RemainderInRange
<1>3. n * (q + 1) = n * q + n
  BY <1>1
<1>4. a + j = n * (q + 1) + 0
  BY <1>1, <1>2, <1>3
<1>5. (n * (q + 1) + 0) % n = 0
  BY <1>1, RemainderUnique
<1>6. QED
  BY <1>4, <1>5

(* Whole rounds do not count. *)
LEMMA WholeRounds ==
  ASSUME NEW n \in Nat \ {0}, NEW q \in Nat, NEW a \in Nat
  PROVE  (n * q + a) % n = a % n
<1> DEFINE p == a \div n
           r == a % n
<1>1. p \in Nat /\ a = n * p + r /\ r \in 0 .. n - 1
  BY QuotientRemainder, RemainderInRange
<1> HIDE DEF p, r
<1>2. n * (q + p) = n * q + n * p
  BY <1>1
<1>3. n * q + a = n * (q + p) + r
  BY <1>1, <1>2
<1>4. (n * (q + p) + r) % n = r
  BY <1>1, RemainderUnique
<1> QED
  BY <1>3, <1>4 DEF r

(* Equal remainders stay equal. *)
LEMMA SameMove ==
  ASSUME NEW n \in Nat \ {0}, NEW a \in Nat, NEW b \in Nat, NEW j \in Nat, a % n = b % n
  PROVE  (a + j) % n = (b + j) % n
<1>1. ASSUME NEW c \in Nat PROVE (c + j) % n = ((c % n) + j) % n
  <2> DEFINE q == c \div n
             r == c % n
  <2>1. q \in Nat /\ c = n * q + r /\ r \in Nat
    BY QuotientRemainder, RemainderInRange
  <2> HIDE DEF q, r
  <2>2. r + j \in Nat /\ c + j = n * q + (r + j)
    BY <2>1
  <2>3. (n * q + (r + j)) % n = (r + j) % n
    BY <2>1, <2>2, WholeRounds
  <2> QED
    BY <2>2, <2>3 DEF r
<1> QED
  BY <1>1

(* A counter of more bits, cut off to fewer. *)
LEMMA CutTwice ==
  ASSUME NEW n \in Nat \ {0}, NEW w \in Nat \ {0}, w % n = 0, NEW a \in Nat
  PROVE  (a % w) % n = a % n
<1> DEFINE q == a \div w
           r == a % w
           m == w \div n
<1>1. q \in Nat /\ a = w * q + r /\ r \in Nat
  BY QuotientRemainder, RemainderInRange
<1>2. m \in Nat /\ w = n * m
  <2>1. m \in Nat /\ w = n * m + (w % n)
    BY QuotientRemainder
  <2> HIDE DEF m
  <2> QED
    BY <2>1
<1> HIDE DEF q, r, m
<1>3. w * q = n * (m * q) /\ m * q \in Nat
  BY <1>1, <1>2
<1>4. a = n * (m * q) + r
  BY <1>1, <1>3
<1>5. (n * (m * q) + r) % n = r % n
  BY <1>1, <1>3, WholeRounds
<1> QED
  BY <1>4, <1>5 DEF r

(* A multiple of a number that wraps around. *)
LEMMA MultipleOfRemainder ==
  ASSUME NEW n \in Nat \ {0}, NEW a \in Nat, NEW c \in Nat
  PROVE  (c * (a % n)) % n = (c * a) % n
<1> DEFINE q == a \div n
           r == a % n
<1>1. q \in Nat /\ a = n * q + r /\ r \in Nat
  BY QuotientRemainder, RemainderInRange
<1> HIDE DEF q, r
<1>2. c * a = n * (c * q) + c * r /\ c * q \in Nat /\ c * r \in Nat
  <2>1. c * a = c * (n * q) + c * r
    BY <1>1
  <2>2. c * (n * q) = n * (c * q)
    BY <1>1
  <2>3. c * q \in Nat /\ c * r \in Nat
    BY <1>1
  <2> QED
    BY <2>1, <2>2, <2>3
<1>3. (n * (c * q) + c * r) % n = (c * r) % n
  BY <1>2, WholeRounds
<1> QED
  BY <1>2, <1>3 DEF r


-----------------------------------------------------------------------------
(* The random-data source. The inductive invariant LoopInv adds to the     *)
(* invariants of MlRandomSource that the pointer and the size are set      *)
(* together, and that inside the loop the read offset is where the stream  *)
(* has got to, (start + total_copied) modulo the size; a chunk then either *)
(* stays before the end of the buffer (MoveInside) or reaches it exactly   *)
(* (MoveToEnd).                                                            *)
LoopInv ==
  /\ TypeOK
  /\ g_random_data <=> g_random_data_size # 0
  /\ OffsetInRange
  /\ pc = "loop" => /\ g_random_data_size # 0
                    /\ outlen \in RequestSizes
                    /\ start < g_random_data_size
                    /\ g_random_data_offset = (start + total_copied) % g_random_data_size
  /\ FilledSoFar

LEMMA LoopInvInit == Init => LoopInv
<1> SUFFICES ASSUME Init
             PROVE  LoopInv
  OBVIOUS
<1>1. outlen \in RequestSizes \cup {0} /\ total_copied \in 0 .. outlen
  BY DEF Init
<1>2. out \in [0 .. outlen - 1 -> Bytes]
  BY DEF Init, SystemBytes
<1>3. g_random_data \in BOOLEAN
  BY DEF Init
<1>4. /\ g_random_data_size \in BufferSizes \cup {0} /\ g_random_data_offset \in Nat
      /\ pc \in {"idle", "loop"} /\ start \in Nat
  BY DEF Init
<1>5. TypeOK
  BY <1>1, <1>2, <1>3, <1>4 DEF TypeOK
<1>6. OffsetInRange /\ FilledSoFar /\ pc # "loop"
  BY DEF Init, OffsetInRange, FilledSoFar
<1>7. g_random_data <=> g_random_data_size # 0
  BY DEF Init
<1>8. QED
  BY <1>5, <1>6, <1>7 DEF LoopInv

(* What one iteration copies: at least a byte, and never past the end of   *)
(* the buffer or of the request.                                           *)
LEMMA ChunkBounds ==
  ASSUME LoopInv, pc = "loop", total_copied < outlen
  PROVE  /\ g_random_data_size \in Nat \ {0}
         /\ g_random_data_offset \in 0 .. g_random_data_size - 1
         /\ ChunkSize \in Nat \ {0}
         /\ total_copied + ChunkSize <= outlen
         /\ g_random_data_offset + ChunkSize <= g_random_data_size
  BY SizesAssumption DEF LoopInv, TypeOK, OffsetInRange, ChunkSize, SubSize

(* The bytes of one chunk are those of the stream. *)
LEMMA ChunkIsCyclic ==
  ASSUME LoopInv, pc = "loop", total_copied < outlen,
         NEW k \in total_copied .. total_copied + ChunkSize - 1
  PROVE  g_random_data_offset + (k - total_copied) = (start + k) % g_random_data_size
<1> DEFINE n == g_random_data_size
           a == start + total_copied
           j == k - total_copied
<1>1. n \in Nat \ {0} /\ a \in Nat /\ j \in Nat /\ j < ChunkSize
  BY ChunkBounds, SizesAssumption DEF LoopInv, TypeOK
<1>2. a % n = g_random_data_offset
  BY DEF LoopInv
<1>3. (a % n) + j < n
  BY <1>1, <1>2, ChunkBounds
<1>4. (a + j) % n = (a % n) + j
  BY <1>1, <1>3, MoveInside
<1>5. a + j = start + k
  BY <1>1, SizesAssumption DEF LoopInv, TypeOK
<1>6. QED
  BY <1>2, <1>4, <1>5

(* After the chunk the offset is where the stream has got to. *)
LEMMA OffsetFollowsStream ==
  ASSUME LoopInv, pc = "loop", total_copied < outlen
  PROVE  /\ OffsetAfter(ChunkSize) = (start + (total_copied + ChunkSize)) % g_random_data_size
         /\ OffsetAfter(ChunkSize) \in 0 .. g_random_data_size - 1
<1> DEFINE n == g_random_data_size
           a == start + total_copied
           j == ChunkSize
<1>1. n \in Nat \ {0} /\ a \in Nat /\ j \in Nat
  BY ChunkBounds, SizesAssumption DEF LoopInv, TypeOK
<1>2. a % n = g_random_data_offset
  BY DEF LoopInv
<1>3. (a % n) + j <= n
  BY <1>2, ChunkBounds
<1>4. (a % n) + j < n => (a + j) % n = (a % n) + j
  BY <1>1, MoveInside
<1>5. (a % n) + j = n => (a + j) % n = 0
  BY <1>1, MoveToEnd
<1>6. a + j = start + (total_copied + ChunkSize)
  BY <1>1, SizesAssumption DEF LoopInv, TypeOK
<1>7. OffsetAfter(ChunkSize) = IF (a % n) + j >= n THEN 0 ELSE (a % n) + j
  BY <1>2 DEF OffsetAfter
<1>8. a % n \in 0 .. n - 1
  BY <1>1, RemainderInRange
<1>9. CASE (a % n) + j < n
  BY <1>1, <1>4, <1>6, <1>7, <1>8, <1>9
<1>10. CASE (a % n) + j = n
  BY <1>1, <1>5, <1>6, <1>7, <1>8, <1>10
<1>11. QED
  BY <1>1, <1>3, <1>8, <1>9, <1>10

LEMMA LoopInvNext == LoopInv /\ [Next]_vars => LoopInv'
<1> SUFFICES ASSUME LoopInv, [Next]_vars
             PROVE  LoopInv'
  OBVIOUS
<1> USE SizesAssumption
<1>1. ASSUME NEW n \in BufferSizes, ml_dsa_init_random_source(n)
      PROVE  LoopInv'
  BY <1>1 DEF ml_dsa_init_random_source, LoopInv, TypeOK, OffsetInRange, FilledSoFar, request
<1>2. CASE ml_dsa_restore_original_random
  BY <1>2 DEF ml_dsa_restore_original_random, LoopInv, TypeOK, OffsetInRange, FilledSoFar, request
<1>3. CASE RequestNothing
  BY <1>3 DEF RequestNothing, LoopInv, TypeOK, OffsetInRange, FilledSoFar, source, request
<1>4. ASSUME NEW len \in RequestSizes, RequestSystem(len)
      PROVE  LoopInv'
  BY <1>4 DEF RequestSystem, LoopInv, TypeOK, OffsetInRange, FilledSoFar, source, request
<1>5. ASSUME NEW len \in RequestSizes, StartRequest(len)
      PROVE  LoopInv'
  <2>1. TypeOK' /\ OffsetInRange' /\ FilledSoFar'
    BY <1>5 DEF StartRequest, NoSource, LoopInv, TypeOK, OffsetInRange, FilledSoFar, source, Bytes, Unset
  <2>2. g_random_data_size \in Nat \ {0} /\ start' \in 0 .. g_random_data_size - 1
    BY <1>5 DEF StartRequest, NoSource, LoopInv, TypeOK, OffsetInRange, source
  <2>3. start' = (start' + total_copied') % g_random_data_size'
    BY <1>5, <2>2, RemainderOfSmall DEF StartRequest, source
  <2>4. QED
    BY <1>5, <2>1, <2>2, <2>3 DEF StartRequest, NoSource, LoopInv, source
<1>6. CASE CopyChunk
  <2>1. pc = "loop" /\ total_copied < outlen
    BY <1>6 DEF CopyChunk
  <2>2. ChunkSize \in Nat \ {0} /\ total_copied + ChunkSize <= outlen
    BY <2>1, ChunkBounds
  <2>3. OffsetAfter(ChunkSize) \in 0 .. g_random_data_size - 1
    BY <2>1, OffsetFollowsStream
  <2>4. TypeOK'
    <3>1. out' \in [0 .. outlen' - 1 -> Bytes]
      BY <1>6, <2>2 DEF CopyChunk, LoopInv, TypeOK, Bytes
    <3>2. QED
      BY <1>6, <2>2, <2>3, <3>1 DEF CopyChunk, LoopInv, TypeOK
  <2>5. OffsetInRange' /\ (g_random_data' <=> g_random_data_size' # 0)
    BY <1>6, <2>1, <2>3 DEF CopyChunk, LoopInv, OffsetInRange, TypeOK
  <2>6. g_random_data_offset' = (start' + total_copied') % g_random_data_size'
    BY <1>6, <2>1, OffsetFollowsStream DEF CopyChunk
  <2>7. FilledSoFar'
    <3> SUFFICES ASSUME NEW k \in 0 .. total_copied' - 1
                 PROVE  out'[k] = (start + k) % g_random_data_size
      BY <1>6 DEF FilledSoFar, CopyChunk
    <3>1. k \in 0 .. outlen - 1 /\ total_copied \in Nat
      BY <1>6, <2>2 DEF CopyChunk, LoopInv, TypeOK
    <3>2. CASE k \in total_copied .. total_copied + ChunkSize - 1
      BY <1>6, <2>1, <3>1, <3>2, ChunkIsCyclic DEF CopyChunk
    <3>3. CASE k \notin total_copied .. total_copied + ChunkSize - 1
      <4>1. k \in 0 .. total_copied - 1
        BY <1>6, <2>2, <3>1, <3>3 DEF CopyChunk
      <4>2. out'[k] = out[k]
        BY <1>6, <3>1, <3>3 DEF CopyChunk
      <4>3. QED
        BY <2>1, <4>1, <4>2 DEF LoopInv, FilledSoFar
    <3>4. QED
      BY <3>2, <3>3
  <2>8. QED
    BY <1>6, <2>4, <2>5, <2>6, <2>7 DEF CopyChunk, LoopInv
<1>7. CASE EndRequest
  BY <1>7 DEF EndRequest, LoopInv, TypeOK, OffsetInRange, FilledSoFar, source, request
<1>8. CASE UNCHANGED vars
  BY <1>8 DEF vars, LoopInv, TypeOK, OffsetInRange, FilledSoFar, source, request
<1>9. QED
  BY <1>1, <1>2, <1>3, <1>4, <1>5, <1>6, <1>7, <1>8 DEF Next

(* What holds in the copy loop is kept by every step of it. *)
THEOREM LoopInvariance == Spec => []LoopInv
  BY LoopInvInit, LoopInvNext, PTL DEF Spec

(* The variables of the source and of a request keep their types.          *)
THEOREM TypeCorrect == Spec => []TypeOK
<1>1. LoopInv => TypeOK
  BY DEF LoopInv
<1>2. QED
  BY <1>1, LoopInvariance, PTL

(* The offset never leaves the buffer, so the unsigned `size - offset` of  *)
(* utils.c:75 never wraps around and no copy reads past the end.           *)
THEOREM OffsetStaysInRange == Spec => []OffsetInRange
<1>1. LoopInv => OffsetInRange
  BY DEF LoopInv
<1>2. QED
  BY <1>1, LoopInvariance, PTL

(* The source implements CyclicSource: however a request is cut into       *)
(* chunks and however often it wraps around, it returns the next bytes of  *)
(* the cyclic repetition of the buffer and moves the position past them.   *)
THEOREM ImplementsCyclicSource == Spec => CyclicSpec
<1>1. Init => Cyclic!Init
  BY DEF Init, Cyclic!Init, SystemBytes, Cyclic!SystemBytes, OsByte, ZeroByte,
         Cyclic!OsByte, Cyclic!ZeroByte
<1>2. LoopInv /\ [Next]_vars => [Cyclic!Next]_(Cyclic!vars)
  <2> SUFFICES ASSUME LoopInv, [Next]_vars
               PROVE  [Cyclic!Next]_(Cyclic!vars)
    OBVIOUS
  <2> USE SizesAssumption
  <2>1. ASSUME NEW n \in BufferSizes, ml_dsa_init_random_source(n)
        PROVE  Cyclic!Next
    <3>1. Cyclic!Install(n)
      BY <2>1 DEF ml_dsa_init_random_source, Cyclic!Install, request
    <3>2. QED
      BY <3>1 DEF Cyclic!Next
  <2>2. CASE ml_dsa_restore_original_random
    <3>1. Cyclic!Withdraw
      BY <2>2 DEF ml_dsa_restore_original_random, Cyclic!Withdraw, request
    <3>2. QED
      BY <3>1 DEF Cyclic!Next
  <2>3. CASE RequestNothing
    <3>1. CASE g_random_data_size = 0
      <4>1. Cyclic!ServeSystem(0)
        BY <2>3, <3>1 DEF RequestNothing, Cyclic!ServeSystem, SystemBytes, Cyclic!SystemBytes,
                          OsByte, ZeroByte, Cyclic!OsByte, Cyclic!ZeroByte, source, request
      <4>2. QED
        BY <2>3, <4>1 DEF RequestNothing, Cyclic!Next
    <3>2. CASE g_random_data_size # 0
      <4>1. delivered' = Cyclic!Cycle(g_random_data_offset, g_random_data_size, 0)
        BY <2>3 DEF RequestNothing, SystemBytes, Cyclic!Cycle
      <4>2. g_random_data_offset = (g_random_data_offset + 0) % g_random_data_size
        BY <3>2, RemainderOfSmall DEF LoopInv, TypeOK, OffsetInRange
      <4>3. Cyclic!Serve(0)
        BY <2>3, <3>2, <4>1, <4>2 DEF RequestNothing, Cyclic!Serve, source, request
      <4>4. QED
        BY <2>3, <4>3 DEF RequestNothing, Cyclic!Next
    <3>3. QED
      BY <3>1, <3>2
  <2>4. ASSUME NEW len \in RequestSizes, RequestSystem(len)
        PROVE  Cyclic!Next
    <3>1. Cyclic!ServeSystem(len)
      BY <2>4 DEF RequestSystem, NoSource, LoopInv, Cyclic!ServeSystem, SystemBytes,
                  Cyclic!SystemBytes, OsByte, ZeroByte, Cyclic!OsByte, Cyclic!ZeroByte,
                  source, request
    <3>2. QED
      BY <3>1 DEF Cyclic!Next
  <2>5. ASSUME NEW len \in RequestSizes, StartRequest(len)
        PROVE  UNCHANGED Cyclic!vars
    BY <2>5 DEF StartRequest, Cyclic!vars, source
  <2>6. CASE CopyChunk
    BY <2>6 DEF CopyChunk, Cyclic!vars
  <2>7. CASE EndRequest
    <3>1. outlen = total_copied /\ outlen \in RequestSizes \cup {0}
      BY <2>7 DEF EndRequest, LoopInv, TypeOK
    <3>2. out = Cyclic!Cycle(start, g_random_data_size, outlen)
      BY <2>7, <3>1 DEF EndRequest, LoopInv, TypeOK, FilledSoFar, Cyclic!Cycle
    <3>3. Cyclic!Serve(outlen)
      BY <2>7, <3>1, <3>2 DEF EndRequest, LoopInv, Cyclic!Serve, source, request
    <3>4. QED
      BY <2>7, <3>3 DEF EndRequest, LoopInv, Cyclic!Next
  <2>8. CASE UNCHANGED vars
    BY <2>8 DEF vars, Cyclic!vars, source, request
  <2>9. QED
    BY <2>1, <2>2, <2>3, <2>4, <2>5, <2>6, <2>7, <2>8 DEF Next
<1>3. QED
  BY <1>1, <1>2, LoopInvariance, PTL DEF Spec, CyclicSpec, Cyclic!Spec

-----------------------------------------------------------------------------
(* Hints, for every size. *)
CONSTANTS N, K, OMEGA
VARIABLES route, phase, i, j, k, sig, h, first

Hints == INSTANCE MlDsaHints

(* Where the list of polynomial p begins, going by the counts in s. *)
Start(s, p) == IF p = 0 THEN 0 ELSE s[OMEGA + p - 1]

Rising(s, a, b) == \A x, y \in Nat : a <= x /\ x < y /\ y < b => s[x] < s[y]

Listed(s, a, b) == {s[x] : x \in a .. b - 1}

(* s lists the hints of polynomial p as it should. *)
Lists(s, hints, p) ==
  /\ Start(s, p) <= s[OMEGA + p] /\ s[OMEGA + p] <= OMEGA
  /\ Rising(s, Start(s, p), s[OMEGA + p])
  /\ hints[p] = Listed(s, Start(s, p), s[OMEGA + p])

Unpacking ==
  /\ sig = first /\ k = Start(first, i) /\ k <= j
  /\ i = K => j = k
  /\ \A p \in 0 .. i - 1 : Lists(first, h, p)
  /\ j > k => /\ i < K /\ first[OMEGA + i] <= OMEGA /\ j <= first[OMEGA + i]
              /\ Rising(first, k, j)
              /\ h[i] = Listed(first, k, j)

Packing ==
  /\ \A p \in Hints!Polys : Lists(first, h, p)
  /\ \A b \in Start(first, K) .. OMEGA - 1 : first[b] = 0
  /\ sig \in [Hints!Places -> Hints!Byte]
  /\ Start(first, i) <= k
  /\ i = K => k = Start(first, K)
  /\ i < K => /\ j < N /\ k <= first[OMEGA + i]
              /\ \A x \in Start(first, i) .. k - 1 : first[x] < j
              /\ \A x \in k .. first[OMEGA + i] - 1 : j <= first[x]
  /\ \A b \in 0 .. k - 1 : sig[b] = first[b]
  /\ \A b \in k .. OMEGA - 1 : sig[b] = 0
  /\ \A p \in 0 .. i - 1 : sig[OMEGA + p] = first[OMEGA + p]

IInv ==
  route = "verify" =>
    /\ first \in [Hints!Places -> Hints!Byte] /\ i \in 0 .. K /\ j \in Nat /\ k \in 0 .. OMEGA
    /\ h \in [Hints!Polys -> SUBSET Hints!Byte]
    /\ phase = "unpack" => Unpacking
    /\ phase = "pack" => Packing
    /\ phase = "done" => sig = first

LEMMA Sizes ==
  ASSUME Hints!SizesAssumption
  PROVE  N \in Nat /\ N > 0 /\ K \in Nat /\ K > 0 /\ OMEGA \in Nat /\ OMEGA > 0
  BY DEF Hints!SizesAssumption

LEMMA InitIInv ==
  ASSUME Hints!SizesAssumption
  PROVE  Hints!Init => IInv
<1> SUFFICES ASSUME Hints!Init, route = "verify" PROVE IInv
  BY DEF IInv
<1>1. /\ i = 0 /\ j = 0 /\ k = 0 /\ phase = "unpack"
      /\ sig \in [Hints!Places -> Hints!Byte] /\ h = Hints!Empty /\ first = sig
  BY DEF Hints!Init
<1>2. Hints!Empty \in [Hints!Polys -> SUBSET Hints!Byte] BY DEF Hints!Empty
<1> QED BY <1>1, <1>2, Sizes DEF IInv, Unpacking, Start

LEMMA StartOf ==
  ASSUME Hints!SizesAssumption, NEW s \in [Hints!Places -> Hints!Byte], NEW p \in 0 .. K
  PROVE  /\ Start(s, p) \in Nat
         /\ p < K => /\ p + 1 \in 0 .. K /\ Start(s, p + 1) = s[OMEGA + p]
                     /\ OMEGA + p \in Hints!Places /\ s[OMEGA + p] \in Nat
<1>1. p < K => OMEGA + p \in Hints!Places BY Sizes DEF Hints!Places
<1>2. p > 0 => OMEGA + p - 1 \in Hints!Places BY Sizes DEF Hints!Places
<1>3. \A b \in Hints!Places : s[b] \in Nat BY Sizes DEF Hints!Byte
<1>4. p < K => p + 1 \in 0 .. K /\ OMEGA + (p + 1) - 1 = OMEGA + p /\ p + 1 # 0 BY Sizes
<1> QED BY <1>1, <1>2, <1>3, <1>4, Sizes DEF Start

LEMMA UnpackPlaceIInv ==
  ASSUME Hints!SizesAssumption
  PROVE  IInv /\ Hints!UnpackPlace => IInv'
<1> SUFFICES ASSUME IInv, Hints!UnpackPlace, route' = "verify" PROVE IInv'
  BY DEF IInv
<1>1. route = "verify" /\ phase = "unpack" BY DEF Hints!UnpackPlace, Hints!Reject
<1>2. /\ first \in [Hints!Places -> Hints!Byte] /\ i \in 0 .. K /\ j \in Nat /\ k \in 0 .. OMEGA
      /\ h \in [Hints!Polys -> SUBSET Hints!Byte] /\ Unpacking
  BY <1>1 DEF IInv
<1>3. /\ i < K /\ i \in Hints!Polys /\ k <= first[OMEGA + i] /\ first[OMEGA + i] <= OMEGA
      /\ j < first[OMEGA + i] /\ first[OMEGA + i] \in Nat /\ sig = first
  <2>1. i < K /\ sig = first /\ sig[OMEGA + i] >= k /\ sig[OMEGA + i] <= OMEGA /\ j < sig[OMEGA + i]
    BY <1>2 DEF Hints!UnpackPlace, Hints!CountFits, Unpacking
  <2>2. first[OMEGA + i] \in Nat BY <1>2, <2>1, StartOf
  <2> QED BY <1>2, <2>1, <2>2, Sizes DEF Hints!Polys
<1>4. Hints!Cleared \in [Hints!Polys -> SUBSET Hints!Byte] /\ \A p \in 0 .. i - 1 : Hints!Cleared[p] = h[p]
  BY <1>2, <1>3, Sizes DEF Hints!Cleared, Hints!Polys
<1>5. j \in Hints!Places /\ first[j] \in Hints!Byte /\ (\A b \in Hints!Places : first[b] \in Nat)
  <2>1. \A b \in Hints!Places : first[b] \in Hints!Byte BY <1>2, Zenon
  <2>2. \A x \in Hints!Byte : x \in Nat BY Sizes DEF Hints!Byte
  <2>3. j \in Nat /\ j < first[OMEGA + i] /\ first[OMEGA + i] \in Nat /\ first[OMEGA + i] <= OMEGA
    BY <1>2, <1>3, Zenon
  <2>4. \A x \in Nat : j < x /\ x <= OMEGA => j \in 0 .. OMEGA + K - 1 BY <2>3, Sizes
  <2>5. j \in Hints!Places BY <2>3, <2>4, Zenon DEF Hints!Places
  <2> QED BY <2>1, <2>2, <2>5, Zenon
<1>6. CASE Hints!OutOfOrder
  BY <1>1, <1>2, <1>4, <1>6 DEF Hints!UnpackPlace, Hints!Reject, IInv
<1>7. CASE ~Hints!OutOfOrder
  <2>1. /\ h' = [Hints!Cleared EXCEPT ![i] = @ \cup {first[j]}]
        /\ j' = j + 1 /\ i' = i /\ k' = k /\ sig' = sig /\ first' = first
        /\ phase' = "unpack" /\ route' = "verify"
    BY <1>1, <1>3, <1>7 DEF Hints!UnpackPlace
  <2>2. h' \in [Hints!Polys -> SUBSET Hints!Byte] BY <1>3, <1>4, <1>5, <2>1
  <2>3. \A p \in 0 .. i - 1 : h'[p] = h[p]
    BY <1>2, <1>3, <1>4, <2>1, Sizes DEF Hints!Polys
  <2>4. \A p \in 0 .. i - 1 : Lists(first, h', p)
    BY <1>2, <2>3 DEF Unpacking, Lists
  <2>5. k <= j BY <1>2 DEF Unpacking
  <2>6. Rising(first, k, j + 1)
    <3> SUFFICES ASSUME NEW x \in Nat, NEW y \in Nat, k <= x, x < y, y < j + 1
                 PROVE  first[x] < first[y]
      BY DEF Rising
    <3>1. CASE y < j BY <1>2, <3>1 DEF Unpacking, Rising
    <3>2. CASE y = j
      <4>1. j > k /\ j - 1 \in Nat BY <1>2, <3>2
      <4>2. first[j - 1] < first[j] /\ j - 1 \in Hints!Places /\ x \in Hints!Places
        BY <1>2, <1>3, <1>5, <1>7, <3>2, <4>1, Sizes DEF Hints!OutOfOrder, Hints!Places
      <4>3. CASE x = j - 1 BY <3>2, <4>2, <4>3
      <4>4. CASE x < j - 1
        <5>1. first[x] < first[j - 1] BY <1>2, <4>1, <4>4 DEF Unpacking, Rising
        <5> QED BY <1>5, <3>2, <4>2, <5>1
      <4> QED BY <1>2, <3>2, <4>3, <4>4
    <3> QED BY <1>2, <3>1, <3>2
  <2>7. h'[i] = Listed(first, k, j + 1)
    <3>1. h'[i] = Hints!Cleared[i] \cup {first[j]} BY <1>3, <1>4, <2>1
    <3>2. Hints!Cleared[i] = Listed(first, k, j)
      <4>1. CASE j = k
        BY <1>2, <1>3, <4>1, Sizes DEF Hints!Cleared, Listed
      <4>2. CASE j > k
        BY <1>2, <4>2 DEF Hints!Cleared, Unpacking
      <4> QED BY <1>2, <2>5, <4>1, <4>2
    <3>3. Listed(first, k, j + 1) = Listed(first, k, j) \cup {first[j]}
      BY <1>2, <2>5 DEF Listed
    <3> QED BY <3>1, <3>2, <3>3
  <2>8. Unpacking'
    <3>1. sig = first /\ k = Start(first, i) BY <1>2 DEF Unpacking
    <3>2. Start(first', i') = Start(first, i) BY <2>1
    <3>3. \A p \in 0 .. i' - 1 : Lists(first', h', p) BY <2>1, <2>4
    <3>4. Rising(first', k', j') /\ h'[i'] = Listed(first', k', j') BY <2>1, <2>6, <2>7
    <3>5. i' < K /\ first'[OMEGA + i'] <= OMEGA /\ j' <= first'[OMEGA + i']
      BY <1>2, <1>3, <2>1
    <3>6. sig' = first' /\ k' = Start(first', i') /\ k' <= j' /\ i' # K
      BY <1>2, <1>3, <2>1, <2>5, <3>1, <3>2, Sizes
    <3> QED BY <3>3, <3>4, <3>5, <3>6 DEF Unpacking
  <2>9. j' \in Nat /\ phase' # "pack" /\ phase' # "done" BY <1>2, <2>1
  <2> QED BY <1>2, <2>1, <2>2, <2>8, <2>9 DEF IInv
<1> QED BY <1>6, <1>7

LEMMA UnpackNextIInv ==
  ASSUME Hints!SizesAssumption
  PROVE  IInv /\ Hints!UnpackNext => IInv'
<1> SUFFICES ASSUME IInv, Hints!UnpackNext, route' = "verify" PROVE IInv'
  BY DEF IInv
<1>1. route = "verify" /\ phase = "unpack" BY DEF Hints!UnpackNext
<1>2. /\ first \in [Hints!Places -> Hints!Byte] /\ i \in 0 .. K /\ j \in Nat /\ k \in 0 .. OMEGA
      /\ h \in [Hints!Polys -> SUBSET Hints!Byte] /\ Unpacking
  BY <1>1 DEF IInv
<1> DEFINE c == first[OMEGA + i]
<1>3. /\ i < K /\ i \in Hints!Polys /\ k <= c /\ c <= OMEGA
      /\ j >= c /\ c \in Nat /\ sig = first
      /\ h' = Hints!Cleared /\ k' = c /\ j' = c /\ i' = i + 1 /\ sig' = first /\ first' = first
      /\ phase' = "unpack"
  <2>1. i < K /\ sig = first /\ sig[OMEGA + i] >= k /\ sig[OMEGA + i] <= OMEGA /\ j >= sig[OMEGA + i]
    BY <1>2 DEF Hints!UnpackNext, Hints!CountFits, Unpacking
  <2>2. c \in Nat BY <1>2, <2>1, StartOf
  <2>3. i \in Hints!Polys BY <1>2, <2>1, Sizes DEF Hints!Polys
  <2> QED BY <1>1, <1>2, <2>1, <2>2, <2>3 DEF Hints!UnpackNext
<1>4. Hints!Cleared \in [Hints!Polys -> SUBSET Hints!Byte] /\ \A p \in 0 .. i - 1 : Hints!Cleared[p] = h[p]
  BY <1>2, <1>3, Sizes DEF Hints!Cleared, Hints!Polys
<1>5. Lists(first, Hints!Cleared, i)
  <2>1. k = Start(first, i) BY <1>2 DEF Unpacking
  <2>2. CASE j = k
    <3>1. c = k BY <1>2, <1>3, <2>2
    <3>2. Hints!Cleared[i] = {} BY <1>2, <1>3, <2>2 DEF Hints!Cleared
    <3>3. Listed(first, k, c) = {} BY <1>2, <3>1 DEF Listed
    <3>4. Rising(first, k, c) BY <1>2, <3>1 DEF Rising
    <3> QED BY <1>3, <2>1, <3>2, <3>3, <3>4 DEF Lists
  <2>3. CASE j > k
    <3>1. j = c BY <1>2, <1>3, <2>3 DEF Unpacking
    <3>2. Hints!Cleared[i] = h[i] BY <2>3, <1>2 DEF Hints!Cleared
    <3> QED BY <1>2, <1>3, <2>1, <2>3, <3>1, <3>2 DEF Lists, Unpacking
  <2> QED BY <1>2, <2>2, <2>3 DEF Unpacking
<1>6. \A p \in 0 .. (i + 1) - 1 : Lists(first, Hints!Cleared, p)
  <2>1. \A p \in 0 .. i - 1 : Lists(first, Hints!Cleared, p)
    BY <1>2, <1>4 DEF Unpacking, Lists
  <2>2. \A p \in 0 .. (i + 1) - 1 : p = i \/ p \in 0 .. i - 1 BY <1>2
  <2> QED BY <1>5, <2>1, <2>2
<1>7. i + 1 \in 0 .. K /\ Start(first, i + 1) = c BY <1>2, <1>3, StartOf
<1>8. Unpacking' BY <1>3, <1>6, <1>7 DEF Unpacking, Start
<1> QED BY <1>1, <1>2, <1>3, <1>4, <1>7, <1>8 DEF IInv

LEMMA UnpackEndIInv ==
  ASSUME Hints!SizesAssumption
  PROVE  IInv /\ Hints!UnpackEnd => IInv'
<1> SUFFICES ASSUME IInv, Hints!UnpackEnd, route' = "verify" PROVE IInv'
  BY DEF IInv
<1>1. route = "verify" /\ phase = "unpack" /\ i = K BY DEF Hints!UnpackEnd, Hints!Reject
<1>2. /\ first \in [Hints!Places -> Hints!Byte] /\ i \in 0 .. K /\ j \in Nat /\ k \in 0 .. OMEGA
      /\ h \in [Hints!Polys -> SUBSET Hints!Byte] /\ Unpacking
  BY <1>1 DEF IInv
<1>3. CASE ~Hints!RestIsZero
  BY <1>1, <1>2, <1>3 DEF Hints!UnpackEnd, Hints!Reject, IInv
<1>4. CASE Hints!RestIsZero
  <2>1. /\ phase' = "pack" /\ sig' = Hints!Zeros /\ i' = 0 /\ j' = 0 /\ k' = 0
        /\ h' = h /\ first' = first
    BY <1>1, <1>4 DEF Hints!UnpackEnd
  <2>2. Hints!Zeros \in [Hints!Places -> Hints!Byte] /\ \A b \in Hints!Places : Hints!Zeros[b] = 0
    BY Sizes DEF Hints!Zeros, Hints!Byte
  <2>3. \A p \in Hints!Polys : Lists(first, h, p)
    BY <1>1, <1>2 DEF Unpacking, Hints!Polys
  <2>4. \A b \in Start(first, K) .. OMEGA - 1 : first[b] = 0
    BY <1>1, <1>2, <1>4 DEF Unpacking, Hints!RestIsZero
  <2>5. 0 \in Hints!Polys /\ Start(first, 0) = 0 /\ first[OMEGA + 0] \in Nat
    <3>1. 0 \in 0 .. K /\ 0 < K /\ 0 \in Hints!Polys BY Sizes DEF Hints!Polys
    <3>2. first[OMEGA + 0] \in Nat BY <1>2, <3>1, StartOf, Zenon
    <3> QED BY <3>1, <3>2 DEF Start
  <2>6. \A x \in 0 .. first[OMEGA + 0] - 1 : 0 <= first[x]
    <3>1. first[OMEGA + 0] <= OMEGA BY <2>3, <2>5 DEF Lists
    <3> QED BY <1>2, <2>5, <3>1, Sizes DEF Hints!Places, Hints!Byte
  <2>7. \A b \in 0 .. OMEGA - 1 : b \in Hints!Places BY Sizes DEF Hints!Places
  <2>8. Packing'
    BY <2>1, <2>2, <2>3, <2>4, <2>5, <2>6, <2>7, Sizes DEF Packing
  <2>9. 0 \in 0 .. K /\ 0 \in Nat /\ 0 \in 0 .. OMEGA BY Sizes
  <2> QED BY <1>2, <2>1, <2>8, <2>9 DEF IInv
<1> QED BY <1>3, <1>4

(* What one turn of the loop of pack_sig adds: the next place, if it is    *)
(* one of the polynomial's, is the next byte of the list it came from.     *)
LEMMA NextPlace ==
  ASSUME Hints!SizesAssumption,
         NEW s \in [Hints!Places -> Hints!Byte], NEW p \in Hints!Polys, NEW n \in Nat, NEW c \in Nat,
         Lists(s, h, p), Start(s, p) \in Nat, s[OMEGA + p] \in Nat,
         Start(s, p) <= n, n <= s[OMEGA + p],
         \A x \in Start(s, p) .. n - 1 : s[x] < c,
         \A x \in n .. s[OMEGA + p] - 1 : c <= s[x]
  PROVE  /\ c \in h[p] => n < s[OMEGA + p] /\ s[n] = c
         /\ LET m == IF c \in h[p] THEN n + 1 ELSE n
            IN  /\ m <= s[OMEGA + p]
                /\ \A x \in Start(s, p) .. m - 1 : s[x] < c + 1
                /\ \A x \in m .. s[OMEGA + p] - 1 : c + 1 <= s[x]
<1> DEFINE e == s[OMEGA + p]
           a == Start(s, p)
<1>1. e <= OMEGA /\ Rising(s, a, e) /\ h[p] = Listed(s, a, e) BY DEF Lists
<1>2. \A x \in a .. e - 1 : x \in Hints!Places /\ x \in Nat /\ s[x] \in Nat
  <2>1. a \in Nat /\ e \in Nat OBVIOUS
  <2> SUFFICES ASSUME NEW x \in a .. e - 1 PROVE x \in Hints!Places /\ x \in Nat /\ s[x] \in Nat
    OBVIOUS
  <2> HIDE DEF a, e
  <2>2. x \in Nat /\ x < OMEGA BY <1>1, <2>1, Sizes
  <2>3. x \in Hints!Places BY <2>2, Sizes DEF Hints!Places
  <2>4. s[x] \in Hints!Byte BY <2>3
  <2> QED BY <2>2, <2>3, <2>4 DEF Hints!Byte
<1>3. ASSUME c \in h[p] PROVE n < e /\ s[n] = c
  <2>1. PICK x \in a .. e - 1 : s[x] = c BY <1>1, <1>3 DEF Listed
  <2>2. n <= x BY <1>2, <2>1
  <2>3. n < e /\ n \in a .. e - 1 BY <2>1, <2>2
  <2>4. n < x => s[n] < s[x] BY <1>1, <1>2, <2>1, <2>3 DEF Rising
  <2>5. c <= s[n] BY <2>3
  <2> QED BY <1>2, <2>1, <2>2, <2>3, <2>4, <2>5
<1>4. CASE c \in h[p]
  <2>1. n < e /\ s[n] = c BY <1>3, <1>4
  <2>2. \A x \in a .. (n + 1) - 1 : s[x] < c + 1
    <3> SUFFICES ASSUME NEW x \in a .. (n + 1) - 1 PROVE s[x] < c + 1  OBVIOUS
    <3>1. x = n \/ x \in a .. n - 1 OBVIOUS
    <3>2. x \in a .. e - 1 BY <2>1
    <3> QED BY <1>2, <2>1, <3>1, <3>2
  <2>3. \A x \in n + 1 .. e - 1 : c + 1 <= s[x]
    <3> SUFFICES ASSUME NEW x \in n + 1 .. e - 1 PROVE c + 1 <= s[x]  OBVIOUS
    <3>1. n \in a .. e - 1 /\ x \in a .. e - 1 /\ n < x BY <2>1
    <3>2. s[n] < s[x] BY <1>1, <1>2, <3>1 DEF Rising
    <3> QED BY <1>2, <2>1, <3>1, <3>2
  <2> QED BY <1>4, <2>1, <2>2, <2>3
<1>5. CASE c \notin h[p]
  <2>1. \A x \in a .. e - 1 : s[x] # c BY <1>1, <1>5 DEF Listed
  <2>2. \A x \in a .. n - 1 : s[x] < c + 1
    <3> SUFFICES ASSUME NEW x \in a .. n - 1 PROVE s[x] < c + 1  OBVIOUS
    <3>1. x \in a .. e - 1 OBVIOUS
    <3> QED BY <1>2, <3>1
  <2>3. \A x \in n .. e - 1 : c + 1 <= s[x]
    <3> SUFFICES ASSUME NEW x \in n .. e - 1 PROVE c + 1 <= s[x]  OBVIOUS
    <3>1. x \in a .. e - 1 OBVIOUS
    <3> QED BY <1>2, <2>1, <3>1
  <2> QED BY <1>5, <2>2, <2>3
<1> QED BY <1>4, <1>5

LEMMA PackCoefficientIInv ==
  ASSUME Hints!SizesAssumption
  PROVE  IInv /\ Hints!PackCoefficient => IInv'
<1> SUFFICES ASSUME IInv, Hints!PackCoefficient, route' = "verify" PROVE IInv'
  BY DEF IInv
<1>1. route = "verify" /\ phase = "pack" /\ i < K BY DEF Hints!PackCoefficient
<1>2. /\ first \in [Hints!Places -> Hints!Byte] /\ i \in 0 .. K /\ j \in Nat /\ k \in 0 .. OMEGA
      /\ h \in [Hints!Polys -> SUBSET Hints!Byte] /\ Packing
  BY <1>1 DEF IInv
<1> DEFINE c == first[OMEGA + i]
           next == IF j \in h[i] THEN k + 1 ELSE k
           listed == IF j \in h[i] THEN [sig EXCEPT ![k] = j] ELSE sig
<1>3. /\ i \in Hints!Polys /\ Start(first, i) \in Nat /\ c \in Nat /\ c <= OMEGA
      /\ OMEGA + i \in Hints!Places /\ i + 1 \in 0 .. K /\ Start(first, i + 1) = c
      /\ Lists(first, h, i)
  <2>1. i \in Hints!Polys BY <1>1, <1>2, Sizes DEF Hints!Polys
  <2>2. Lists(first, h, i) BY <1>2, <2>1 DEF Packing
  <2> QED BY <1>1, <1>2, <2>1, <2>2, StartOf DEF Lists
<1>4. /\ j < N /\ k <= c /\ Start(first, i) <= k
      /\ \A x \in Start(first, i) .. k - 1 : first[x] < j
      /\ \A x \in k .. c - 1 : j <= first[x]
  BY <1>1, <1>2 DEF Packing
<1>5. /\ j \in h[i] => k < c /\ first[k] = j
      /\ next <= c
      /\ \A x \in Start(first, i) .. next - 1 : first[x] < j + 1
      /\ \A x \in next .. c - 1 : j + 1 <= first[x]
  <2>1. k \in Nat BY <1>2, Sizes
  <2> QED BY <1>2, <1>3, <1>4, <2>1, NextPlace
<1> HIDE DEF c
<1>6. /\ next \in 0 .. OMEGA /\ k <= next /\ listed \in [Hints!Places -> Hints!Byte]
      /\ \A b \in 0 .. next - 1 : listed[b] = first[b]
      /\ \A b \in next .. OMEGA - 1 : listed[b] = 0
      /\ \A p \in Hints!Polys : listed[OMEGA + p] = sig[OMEGA + p]
  <2>1. /\ sig \in [Hints!Places -> Hints!Byte] /\ (\A b \in 0 .. k - 1 : sig[b] = first[b])
        /\ \A b \in k .. OMEGA - 1 : sig[b] = 0
    BY <1>2 DEF Packing
  <2>2. CASE j \notin h[i] BY <1>2, <2>1, <2>2, Sizes
  <2>3. CASE j \in h[i]
    <3>1. k < OMEGA /\ k \in Nat /\ first[k] = j BY <1>2, <1>3, <1>5, <2>3, Sizes
    <3>2. k \in Hints!Places /\ j \in Hints!Byte BY <1>2, <1>4, <3>1, Sizes DEF Hints!Places, Hints!Byte
    <3>3. listed = [sig EXCEPT ![k] = j] /\ next = k + 1 BY <2>3
    <3> HIDE DEF listed, next
    <3>4. listed \in [Hints!Places -> Hints!Byte] BY <2>1, <3>2, <3>3
    <3>5. \A b \in Hints!Places : listed[b] = IF b = k THEN j ELSE sig[b] BY <2>1, <3>2, <3>3
    <3>6. \A p \in Hints!Polys : OMEGA + p \in Hints!Places /\ OMEGA + p # k
      BY <3>1, Sizes DEF Hints!Places, Hints!Polys
    <3>7. \A b \in 0 .. OMEGA - 1 : b \in Hints!Places BY Sizes DEF Hints!Places
    <3>8. \A b \in 0 .. next - 1 : listed[b] = first[b]
      BY <2>1, <3>1, <3>3, <3>5, <3>7, Sizes
    <3>9. \A b \in next .. OMEGA - 1 : listed[b] = 0
      BY <2>1, <3>1, <3>3, <3>5, <3>7, Sizes
    <3> QED BY <3>1, <3>3, <3>4, <3>5, <3>6, <3>8, <3>9, Sizes
  <2> QED BY <2>2, <2>3
<1>7. /\ k' = next /\ phase' = "pack" /\ h' = h /\ first' = first
      /\ IF j < N - 1 THEN j' = j + 1 /\ sig' = listed /\ i' = i
         ELSE j' = 0 /\ i' = i + 1 /\ sig' = [listed EXCEPT ![OMEGA + i] = next]
  BY <1>1 DEF Hints!PackCoefficient
<1> HIDE DEF next, listed
<1>8. /\ \A p \in Hints!Polys : Lists(first, h, p)
      /\ \A b \in Start(first, K) .. OMEGA - 1 : first[b] = 0
      /\ \A p \in 0 .. i - 1 : sig[OMEGA + p] = first[OMEGA + p]
  BY <1>2 DEF Packing
<1>9. \A p \in 0 .. i - 1 : p \in Hints!Polys BY <1>1, <1>2, Sizes DEF Hints!Polys
<1>10. CASE j < N - 1
  <2>1. j' = j + 1 /\ sig' = listed /\ i' = i BY <1>7, <1>10
  <2>2. Start(first, i) <= next /\ i # K BY <1>1, <1>2, <1>3, <1>4, <1>6, Sizes
  <2>3. \A p \in 0 .. i - 1 : listed[OMEGA + p] = first[OMEGA + p] BY <1>6, <1>8, <1>9
  <2>4. j + 1 < N /\ j + 1 \in Nat BY <1>2, <1>10, Sizes
  <2>5. Packing' BY <1>5, <1>6, <1>7, <1>8, <2>1, <2>2, <2>3, <2>4 DEF Packing, c
  <2> QED BY <1>2, <1>6, <1>7, <2>1, <2>4, <2>5 DEF IInv
<1>11. CASE j >= N - 1
  <2>1. j' = 0 /\ i' = i + 1 /\ sig' = [listed EXCEPT ![OMEGA + i] = next]
    BY <1>2, <1>7, <1>11, Sizes
  <2>2. next = c
    <3>1. j + 1 = N BY <1>2, <1>4, <1>11, Sizes
    <3>2. SUFFICES ASSUME next < c PROVE FALSE BY <1>3, <1>5, <1>6, Sizes
    <3>3. next \in next .. c - 1 /\ next \in Hints!Places BY <1>3, <1>6, <3>2, Sizes DEF Hints!Places
    <3>4. N <= first[next] BY <1>5, <3>1, <3>3
    <3> QED BY <1>2, <3>3, <3>4, Sizes DEF Hints!Byte
  <2>3. c \in Hints!Byte BY <1>2, <1>3 DEF c
  <2>4. /\ sig' \in [Hints!Places -> Hints!Byte] /\ sig'[OMEGA + i] = c
        /\ \A b \in Hints!Places : b # OMEGA + i => sig'[b] = listed[b]
    BY <1>3, <1>6, <2>1, <2>2, <2>3
  <2>5. \A b \in 0 .. OMEGA - 1 : b \in Hints!Places /\ b # OMEGA + i
    BY <1>2, Sizes DEF Hints!Places
  <2>6. \A b \in 0 .. next - 1 : sig'[b] = first[b]
    BY <1>6, <2>4, <2>5, Sizes
  <2>7. \A b \in next .. OMEGA - 1 : sig'[b] = 0
    BY <1>6, <2>4, <2>5, Sizes
  <2>8. \A p \in 0 .. (i + 1) - 1 : sig'[OMEGA + p] = first[OMEGA + p]
    <3> SUFFICES ASSUME NEW p \in 0 .. (i + 1) - 1 PROVE sig'[OMEGA + p] = first[OMEGA + p]
      OBVIOUS
    <3>1. CASE p = i BY <2>4, <3>1 DEF c
    <3>2. CASE p # i
      <4>1. p \in 0 .. i - 1 /\ OMEGA + p # OMEGA + i BY <1>2, <3>2, Sizes
      <4>2. OMEGA + p \in Hints!Places BY <1>9, <4>1, Sizes DEF Hints!Places, Hints!Polys
      <4> QED BY <1>6, <1>8, <1>9, <2>4, <4>1, <4>2
    <3> QED BY <3>1, <3>2
  <2>9. Start(first, i + 1) = c /\ i + 1 \in 0 .. K BY <1>3
  <2>10. ASSUME i + 1 < K
         PROVE  /\ first[OMEGA + (i + 1)] \in Nat /\ c <= first[OMEGA + (i + 1)]
                /\ \A x \in c .. first[OMEGA + (i + 1)] - 1 : 0 <= first[x]
    <3>1. i + 1 \in Hints!Polys BY <1>2, <2>10, Sizes DEF Hints!Polys
    <3>2. first[OMEGA + (i + 1)] \in Nat BY <1>2, <2>9, <2>10, StartOf
    <3>3. c <= first[OMEGA + (i + 1)] /\ first[OMEGA + (i + 1)] <= OMEGA
      BY <1>8, <2>9, <3>1 DEF Lists
    <3>4. \A x \in 0 .. OMEGA - 1 : 0 <= first[x] BY <1>2, <2>5, Sizes DEF Hints!Byte
    <3> QED BY <1>3, <3>2, <3>3, <3>4, Sizes
  <2>11. Packing'
    <3>1. \A x \in c .. c - 1 : first[x] < 0 BY <1>3
    <3>2. Start(first', i') = c /\ k' = c /\ h' = h /\ first' = first /\ i' = i + 1 /\ j' = 0
      BY <1>7, <2>1, <2>2, <2>9
    <3>3. i' = K => c = Start(first, K) BY <2>9, <3>2
    <3>4. i' < K => /\ j' < N /\ k' <= first'[OMEGA + i']
                    /\ \A x \in Start(first', i') .. k' - 1 : first'[x] < j'
                    /\ \A x \in k' .. first'[OMEGA + i'] - 1 : j' <= first'[x]
      BY <2>10, <3>1, <3>2, Sizes
    <3>5. \A p \in 0 .. i' - 1 : sig'[OMEGA + p] = first'[OMEGA + p] BY <2>8, <3>2
    <3>6. Start(first', i') <= k' BY <1>3, <3>2
    <3> QED BY <1>8, <2>2, <2>4, <2>6, <2>7, <3>2, <3>3, <3>4, <3>5, <3>6 DEF Packing
  <2> QED BY <1>2, <1>6, <1>7, <2>1, <2>9, <2>11 DEF IInv
<1> QED BY <1>2, <1>10, <1>11, Sizes

LEMMA PackEndIInv ==
  ASSUME Hints!SizesAssumption
  PROVE  IInv /\ Hints!PackEnd => IInv'
<1> SUFFICES ASSUME IInv, Hints!PackEnd, route' = "verify" PROVE IInv'
  BY DEF IInv
<1>1. /\ route = "verify" /\ phase = "pack" /\ i = K /\ phase' = "done"
      /\ i' = 0 /\ j' = 0 /\ k' = 0 /\ sig' = sig /\ h' = h /\ first' = first
  BY DEF Hints!PackEnd
<1>2. /\ first \in [Hints!Places -> Hints!Byte] /\ h \in [Hints!Polys -> SUBSET Hints!Byte] /\ Packing /\ k \in 0 .. OMEGA
  BY <1>1 DEF IInv
<1>3. /\ sig \in [Hints!Places -> Hints!Byte] /\ k = Start(first, K)
      /\ \A b \in k .. OMEGA - 1 : first[b] = 0
      /\ \A b \in 0 .. k - 1 : sig[b] = first[b]
      /\ \A b \in k .. OMEGA - 1 : sig[b] = 0
      /\ \A p \in 0 .. K - 1 : sig[OMEGA + p] = first[OMEGA + p]
  BY <1>1, <1>2 DEF Packing
<1>4. ASSUME NEW b \in Hints!Places PROVE sig[b] = first[b]
  <2>1. b \in Nat /\ b < OMEGA + K BY Sizes DEF Hints!Places
  <2>2. CASE b < OMEGA
    <3>1. b \in 0 .. k - 1 \/ b \in k .. OMEGA - 1 BY <1>2, <2>1, <2>2, Sizes
    <3> QED BY <1>3, <3>1
  <2>3. CASE b >= OMEGA
    <3>1. b - OMEGA \in 0 .. K - 1 /\ b = OMEGA + (b - OMEGA) BY <2>1, <2>3, Sizes
    <3>2. sig[OMEGA + (b - OMEGA)] = first[OMEGA + (b - OMEGA)] BY <1>3, <3>1
    <3> QED BY <3>1, <3>2
  <2> QED BY <2>1, <2>2, <2>3, Sizes
<1>5. sig = first BY <1>2, <1>3, <1>4
<1>6. 0 \in 0 .. K /\ 0 \in Nat /\ 0 \in 0 .. OMEGA BY Sizes
<1> QED BY <1>1, <1>2, <1>5, <1>6 DEF IInv

LEMMA UnpackCountIInv ==
  ASSUME Hints!SizesAssumption
  PROVE  IInv /\ Hints!UnpackCount => IInv'
<1> SUFFICES ASSUME IInv, Hints!UnpackCount, route' = "verify" PROVE IInv'
  BY DEF IInv
<1>1. /\ route = "verify" /\ phase = "unpack" /\ i < K /\ h' = [h EXCEPT ![i] = {}]
      /\ phase' = "rejected" /\ UNCHANGED <<i, j, k, sig, first>>
  BY DEF Hints!UnpackCount, Hints!Reject
<1>2. h' \in [Hints!Polys -> SUBSET Hints!Byte] BY <1>1 DEF IInv
<1> QED BY <1>1, <1>2 DEF IInv

(* What is known on the verifier's way is kept by every step. *)
THEOREM Inductive ==
  ASSUME Hints!SizesAssumption
  PROVE  Hints!Spec => []IInv
<1>1. Hints!Init => IInv BY InitIInv
<1>2. IInv /\ [Hints!Next]_(Hints!vars) => IInv'
  <2> SUFFICES ASSUME IInv, [Hints!Next]_(Hints!vars) PROVE IInv'  OBVIOUS
  <2>1. CASE Hints!Next
    BY <2>1, PackCoefficientIInv, PackEndIInv, UnpackCountIInv, UnpackPlaceIInv, UnpackNextIInv,
       UnpackEndIInv DEF Hints!Next
  <2>2. CASE UNCHANGED Hints!vars
    BY <2>2 DEF Hints!vars, IInv, Unpacking, Packing, Lists, Listed, Rising, Start
  <2> QED BY <2>1, <2>2
<1> QED BY <1>1, <1>2, PTL DEF Hints!Spec

(* Whatever the sizes, bytes that unpack_sig accepts are the bytes that    *)
(* pack_sig writes for the hints it found in them (packing.c:213-235).     *)
THEOREM HintsHaveOneEncoding ==
  ASSUME Hints!SizesAssumption
  PROVE  Hints!Spec => []Hints!OneEncoding
<1>1. IInv => Hints!OneEncoding BY DEF IInv, Hints!OneEncoding
<1> QED BY <1>1, Inductive, PTL

-----------------------------------------------------------------------------
(* The signer's way: hints to bytes and back. *)
OnesBefore(hints, p, c) == {q \in Hints!Ones(hints) : q[1] < p \/ (q[1] = p /\ q[2] < c)}

Writing ==
  /\ h = first /\ sig \in [Hints!Places -> Hints!Byte]
  /\ k = Cardinality(OnesBefore(h, i, j))
  /\ \A p \in 0 .. i - 1 : Lists(sig, h, p) /\ sig[OMEGA + p] <= k
  /\ \A b \in k .. OMEGA - 1 : sig[b] = 0
  /\ i = K => k = Start(sig, K)
  /\ i < K => /\ j < N /\ Start(sig, i) <= k
              /\ Rising(sig, Start(sig, i), k)
              /\ h[i] \cap (0 .. j - 1) = Listed(sig, Start(sig, i), k)

Reading ==
  /\ sig \in [Hints!Places -> Hints!Byte]
  /\ \A p \in Hints!Polys : Lists(sig, first, p)
  /\ \A b \in Start(sig, K) .. OMEGA - 1 : sig[b] = 0
  /\ k = Start(sig, i) /\ k <= j
  /\ i = K => j = k
  /\ \A p \in 0 .. i - 1 : h[p] = first[p]
  /\ i < K => j <= sig[OMEGA + i]
  /\ j > k => h[i] = Listed(sig, k, j)

SignInv ==
  route = "sign" =>
    /\ first \in [Hints!Polys -> SUBSET Hints!Byte] /\ h \in [Hints!Polys -> SUBSET Hints!Byte] /\ Hints!FewEnough(first)
    /\ i \in 0 .. K /\ j \in Nat /\ k \in 0 .. OMEGA
    /\ phase \in {"pack", "unpack", "done"}
    /\ phase = "pack" => Writing
    /\ phase = "unpack" => Reading
    /\ phase = "done" => h = first

LEMMA OnesAreFinite ==
  ASSUME Hints!SizesAssumption, NEW hints \in [Hints!Polys -> SUBSET Hints!Byte]
  PROVE  IsFiniteSet(Hints!Ones(hints)) /\ Cardinality(Hints!Ones(hints)) \in Nat
<1>1. IsFiniteSet(Hints!Polys) /\ IsFiniteSet(Hints!Byte)
  BY FS_Interval, Sizes DEF Hints!Polys, Hints!Byte
<1>2. IsFiniteSet(Hints!Polys \X Hints!Byte) BY <1>1, FS_Product
<1>3. Hints!Ones(hints) \in SUBSET (Hints!Polys \X Hints!Byte) BY DEF Hints!Ones
<1>4. IsFiniteSet(Hints!Ones(hints)) BY <1>2, <1>3, FS_Subset
<1> QED BY <1>4, FS_CardinalityType

LEMMA CountOnes ==
  ASSUME Hints!SizesAssumption, NEW hints \in [Hints!Polys -> SUBSET Hints!Byte], NEW p \in Hints!Polys, NEW c \in Hints!Byte
  PROVE  /\ Cardinality(OnesBefore(hints, p, c)) \in Nat
         /\ Cardinality(OnesBefore(hints, p, c + 1)) =
              Cardinality(OnesBefore(hints, p, c)) + (IF c \in hints[p] THEN 1 ELSE 0)
         /\ Cardinality(OnesBefore(hints, p, c + 1)) <= Cardinality(Hints!Ones(hints))
         /\ c = N - 1 => OnesBefore(hints, p + 1, 0) = OnesBefore(hints, p, c + 1)
<1> DEFINE old == OnesBefore(hints, p, c)
           new == OnesBefore(hints, p, c + 1)
<1>1. old \in SUBSET Hints!Ones(hints) /\ new \in SUBSET Hints!Ones(hints) BY DEF OnesBefore
<1>2. \A q \in Hints!Ones(hints) : q[1] \in Int /\ q[2] \in 0 .. N - 1 /\ q = <<q[1], q[2]>>
  BY DEF Hints!Ones, Hints!Polys, Hints!Byte
<1>3. p \in Int /\ c \in Int BY DEF Hints!Polys, Hints!Byte
<1>4. <<p, c>> \in Hints!Ones(hints) <=> c \in hints[p] BY DEF Hints!Ones
<1>5. new = IF c \in hints[p] THEN old \cup {<<p, c>>} ELSE old
  <2>1. ASSUME NEW q \in Hints!Ones(hints)
        PROVE  q \in new <=> q \in old \/ (q[1] = p /\ q[2] = c)
    BY <1>2, <1>3 DEF OnesBefore
  <2>2. ASSUME NEW q \in Hints!Ones(hints) PROVE q[1] = p /\ q[2] = c <=> q = <<p, c>>
    BY <1>2
  <2> HIDE DEF old, new
  <2>3. \A q \in Hints!Ones(hints) : q \in new <=> q \in old \/ q = <<p, c>> BY <2>1, <2>2
  <2> QED BY <1>1, <1>4, <2>3
<1>6. <<p, c>> \notin old BY <1>3 DEF OnesBefore
<1>7. c = N - 1 => OnesBefore(hints, p + 1, 0) = new
  <2> SUFFICES ASSUME c = N - 1, NEW q \in Hints!Ones(hints)
               PROVE  q[1] < p + 1 \/ (q[1] = p + 1 /\ q[2] < 0) <=> q[1] < p \/ (q[1] = p /\ q[2] < c + 1)
    BY DEF OnesBefore
  <2> QED BY <1>2, <1>3, Sizes
<1> HIDE DEF old, new
<1>8. IsFiniteSet(Hints!Ones(hints)) /\ Cardinality(Hints!Ones(hints)) \in Nat BY OnesAreFinite
<1>9. IsFiniteSet(old) /\ Cardinality(new) <= Cardinality(Hints!Ones(hints))
  BY <1>1, <1>8, FS_Subset
<1>10. Cardinality(old) \in Nat BY <1>9, FS_CardinalityType
<1>11. Cardinality(old \cup {<<p, c>>}) = Cardinality(old) + 1 BY <1>6, <1>9, FS_AddElement
<1>12. Cardinality(new) = Cardinality(old) + (IF c \in hints[p] THEN 1 ELSE 0)
  BY <1>5, <1>10, <1>11
<1> QED BY <1>7, <1>9, <1>10, <1>12 DEF old, new

LEMMA InitSignInv ==
  ASSUME Hints!SizesAssumption
  PROVE  Hints!Init => SignInv
<1> SUFFICES ASSUME Hints!Init, route = "sign" PROVE SignInv
  BY DEF SignInv
<1>1. /\ i = 0 /\ j = 0 /\ k = 0 /\ phase = "pack" /\ sig = Hints!Zeros /\ first = h
      /\ h \in [Hints!Polys -> SUBSET Hints!Byte] /\ Hints!FewEnough(h)
  BY DEF Hints!Init
<1>2. sig \in [Hints!Places -> Hints!Byte] /\ \A b \in 0 .. OMEGA - 1 : sig[b] = 0
  BY <1>1, Sizes DEF Hints!Zeros, Hints!Places, Hints!Byte
<1>3. OnesBefore(h, 0, 0) = {} BY Sizes DEF OnesBefore, Hints!Ones, Hints!Polys, Hints!Byte
<1>4. Cardinality(OnesBefore(h, 0, 0)) = 0 BY <1>3, FS_EmptySet
<1>5. /\ Start(sig, 0) = 0 /\ Rising(sig, 0, 0) /\ h[0] \cap (0 .. 0 - 1) = Listed(sig, 0, 0)
      /\ 0 .. 0 - 1 = {}
  BY DEF Start, Rising, Listed
<1>6. Writing BY <1>1, <1>2, <1>4, <1>5, Sizes DEF Writing
<1> QED BY <1>1, <1>6, Sizes DEF SignInv

LEMMA PackCoefficientSignInv ==
  ASSUME Hints!SizesAssumption
  PROVE  SignInv /\ Hints!PackCoefficient => SignInv'
<1> SUFFICES ASSUME SignInv, Hints!PackCoefficient, route' = "sign" PROVE SignInv'
  BY DEF SignInv
<1>1. route = "sign" /\ phase = "pack" /\ i < K BY DEF Hints!PackCoefficient
<1>2. /\ first \in [Hints!Polys -> SUBSET Hints!Byte] /\ h \in [Hints!Polys -> SUBSET Hints!Byte] /\ Hints!FewEnough(first)
      /\ i \in 0 .. K /\ j \in Nat /\ k \in 0 .. OMEGA /\ Writing
  BY <1>1 DEF SignInv
<1> DEFINE one == j \in h[i]
           next == IF one THEN k + 1 ELSE k
           listed == IF one THEN [sig EXCEPT ![k] = j] ELSE sig
           a == Start(sig, i)
<1>3. /\ h = first /\ sig \in [Hints!Places -> Hints!Byte] /\ k = Cardinality(OnesBefore(h, i, j))
      /\ \A p \in 0 .. i - 1 : Lists(sig, h, p) /\ sig[OMEGA + p] <= k
      /\ \A b \in k .. OMEGA - 1 : sig[b] = 0
      /\ j < N /\ a <= k /\ Rising(sig, a, k) /\ h[i] \cap (0 .. j - 1) = Listed(sig, a, k)
  BY <1>1, <1>2 DEF Writing
<1>4. i \in Hints!Polys /\ j \in Hints!Byte /\ OMEGA + i \in Hints!Places
  BY <1>1, <1>2, <1>3, Sizes DEF Hints!Polys, Hints!Byte, Hints!Places
<1>5. /\ a \in Nat /\ (\A p \in 0 .. i : Start(sig, p) \in Nat)
      /\ \A p \in 0 .. i - 1 : OMEGA + p \in Hints!Places /\ sig[OMEGA + p] \in Nat
  <2>1. \A p \in 0 .. i : p \in 0 .. K BY <1>2, Sizes
  <2>2. \A p \in 0 .. i - 1 : p \in 0 .. K /\ p < K BY <1>1, <1>2, Sizes
  <2> QED BY <1>2, <1>3, <2>1, <2>2, StartOf
<1>6. next = Cardinality(OnesBefore(h, i, j + 1)) /\ next <= OMEGA
  <2>1. /\ Cardinality(OnesBefore(h, i, j + 1)) = k + (IF one THEN 1 ELSE 0)
        /\ Cardinality(OnesBefore(h, i, j + 1)) <= Cardinality(Hints!Ones(h))
    BY <1>2, <1>3, <1>4, CountOnes
  <2>2. Cardinality(Hints!Ones(h)) <= OMEGA /\ Cardinality(Hints!Ones(h)) \in Nat
    BY <1>2, <1>3, OnesAreFinite DEF Hints!FewEnough, Hints!Cardinality, Cardinality
  <2> QED BY <1>2, <2>1, <2>2, Sizes
<1>7. one => k < OMEGA /\ k \in Hints!Places
  BY <1>2, <1>6, Sizes DEF Hints!Places
<1>8. /\ listed \in [Hints!Places -> Hints!Byte]
      /\ \A b \in Hints!Places : listed[b] = IF one /\ b = k THEN j ELSE sig[b]
  BY <1>3, <1>4, <1>7
<1>9. /\ k' = next /\ phase' = "pack" /\ h' = h /\ first' = first
      /\ IF j < N - 1 THEN j' = j + 1 /\ sig' = listed /\ i' = i
         ELSE j' = 0 /\ i' = i + 1 /\ sig' = [listed EXCEPT ![OMEGA + i] = next]
  BY <1>1 DEF Hints!PackCoefficient
<1>10. next \in 0 .. OMEGA /\ k <= next /\ next <= k + 1 /\ (next = k + 1 => one) /\ (next = k => ~one)
  BY <1>2, <1>6, Sizes
<1> HIDE DEF listed, next, one, a
<1> DEFINE Agrees(s) == /\ s \in [Hints!Places -> Hints!Byte]
                        /\ \A b \in 0 .. k - 1 : s[b] = sig[b]
                        /\ \A p \in 0 .. i - 1 : s[OMEGA + p] = sig[OMEGA + p]
                        /\ \A b \in next .. OMEGA - 1 : s[b] = 0
                        /\ one => s[k] = j
<1>11. ASSUME NEW s, Agrees(s)
       PROVE  /\ \A p \in 0 .. i - 1 : Lists(s, h, p)
              /\ Start(s, i) = a
              /\ Rising(s, a, next)
              /\ h[i] \cap (0 .. j) = Listed(s, a, next)
  <2>1. ASSUME NEW p \in 0 .. i PROVE Start(s, p) = Start(sig, p)
    <3>1. CASE p = 0 BY <3>1 DEF Start
    <3>2. CASE p > 0
      <4>1. p - 1 \in 0 .. i - 1 /\ OMEGA + (p - 1) = OMEGA + p - 1 BY <1>2, <3>2, Sizes
      <4> QED BY <1>11, <3>2, <4>1 DEF Start
    <3> QED BY <3>1, <3>2
  <2>2. ASSUME NEW p \in 0 .. i - 1 PROVE Lists(s, h, p)
    <3>1. /\ Start(s, p) = Start(sig, p) /\ s[OMEGA + p] = sig[OMEGA + p]
          /\ Lists(sig, h, p) /\ sig[OMEGA + p] <= k
      BY <1>2, <1>3, <1>11, <2>1
    <3>2. Start(sig, p) \in Nat /\ sig[OMEGA + p] \in Nat BY <1>2, <1>5
    <3>3. \A b \in Start(sig, p) .. sig[OMEGA + p] - 1 : s[b] = sig[b]
      BY <1>2, <1>11, <3>1, <3>2, Sizes
    <3> QED BY <3>1, <3>2, <3>3 DEF Lists, Rising, Listed
  <2>3. Start(s, i) = a BY <1>2, <2>1 DEF a
  <2>4. \A b \in a .. k - 1 : s[b] = sig[b] BY <1>2, <1>5, <1>11, Sizes
  <2>5. Rising(s, a, k) /\ Listed(s, a, k) = Listed(sig, a, k)
    BY <1>2, <1>3, <1>5, <2>4, Sizes DEF Rising, Listed
  <2>6. CASE ~one
    <3>1. next = k /\ j \notin h[i] BY <2>6 DEF next, one
    <3>2. h[i] \cap (0 .. j) = h[i] \cap (0 .. j - 1) BY <1>2, <3>1
    <3> QED BY <1>3, <2>2, <2>3, <2>5, <3>1, <3>2
  <2>7. CASE one
    <3>1. next = k + 1 /\ j \in h[i] /\ s[k] = j BY <1>11, <2>7 DEF next, one
    <3>2. h[i] \cap (0 .. j) = (h[i] \cap (0 .. j - 1)) \cup {j} BY <1>2, <3>1
    <3>3. Listed(s, a, k + 1) = Listed(s, a, k) \cup {s[k]}
      <4>1. a .. (k + 1) - 1 = (a .. k - 1) \cup {k} BY <1>2, <1>3, <1>5, Sizes
      <4> QED BY <4>1 DEF Listed
    <3>4. \A x \in Nat : a <= x /\ x < k => s[x] < j
      <4> SUFFICES ASSUME NEW x \in Nat, a <= x, x < k PROVE s[x] < j  OBVIOUS
      <4>1. x \in a .. k - 1 BY <1>2, <1>5, Sizes
      <4>2. s[x] \in Listed(s, a, k) BY <4>1 DEF Listed
      <4>3. s[x] \in 0 .. j - 1 BY <1>3, <2>5, <4>2
      <4> QED BY <1>2, <4>3
    <3>5. Rising(s, a, k + 1)
      <4> SUFFICES ASSUME NEW x \in Nat, NEW y \in Nat, a <= x, x < y, y < k + 1
                   PROVE  s[x] < s[y]
        BY DEF Rising
      <4>1. CASE y < k BY <2>5, <4>1 DEF Rising
      <4>2. CASE y = k BY <3>1, <3>4, <4>2
      <4> QED BY <1>2, <4>1, <4>2, Sizes
    <3> QED BY <1>3, <2>2, <2>3, <2>5, <3>1, <3>2, <3>3, <3>5
  <2> QED BY <2>6, <2>7
<1>12. Agrees(listed)
  <2>1. \A b \in 0 .. OMEGA - 1 : b \in Hints!Places BY Sizes DEF Hints!Places
  <2>2. \A b \in 0 .. k - 1 : listed[b] = sig[b] BY <1>2, <1>8, <2>1, Sizes
  <2>3. \A p \in 0 .. i - 1 : listed[OMEGA + p] = sig[OMEGA + p]
    <3> SUFFICES ASSUME NEW p \in 0 .. i - 1 PROVE listed[OMEGA + p] = sig[OMEGA + p]  OBVIOUS
    <3>1. OMEGA + p \in Hints!Places /\ (one => k < OMEGA) BY <1>5, <1>7
    <3> QED BY <1>2, <1>8, <3>1, Sizes
  <2>4. \A b \in next .. OMEGA - 1 : listed[b] = 0
    <3> SUFFICES ASSUME NEW b \in next .. OMEGA - 1 PROVE listed[b] = 0  OBVIOUS
    <3>1. b \in k .. OMEGA - 1 /\ (one => b # k)
      BY <1>2, <1>10, Sizes
    <3> QED BY <1>2, <1>3, <1>8, <2>1, <3>1, Sizes
  <2>5. one => listed[k] = j BY <1>7, <1>8
  <2> QED BY <1>8, <2>2, <2>3, <2>4, <2>5
<1>13. CASE j < N - 1
  <2>1. j' = j + 1 /\ sig' = listed /\ i' = i BY <1>9, <1>13
  <2>2. /\ \A p \in 0 .. i - 1 : Lists(listed, h, p) /\ listed[OMEGA + p] <= next
        /\ Start(listed, i) = a /\ Rising(listed, a, next)
        /\ h[i] \cap (0 .. j) = Listed(listed, a, next)
    <3>1. \A p \in 0 .. i - 1 : listed[OMEGA + p] <= next
      <4> SUFFICES ASSUME NEW p \in 0 .. i - 1 PROVE listed[OMEGA + p] <= next  OBVIOUS
      <4>1. listed[OMEGA + p] = sig[OMEGA + p] /\ sig[OMEGA + p] <= k /\ sig[OMEGA + p] \in Nat
        BY <1>3, <1>5, <1>12
      <4> QED BY <1>2, <1>10, <4>1, Sizes
    <3> QED BY <1>11, <1>12, <3>1
  <2>3. j + 1 < N /\ j + 1 \in Nat /\ (j + 1) - 1 = j /\ i # K /\ a <= next
    BY <1>1, <1>2, <1>3, <1>5, <1>10, <1>13, Sizes
  <2>4. listed \in [Hints!Places -> Hints!Byte] /\ \A b \in next .. OMEGA - 1 : listed[b] = 0 BY <1>12
  <2>5. Writing' BY <1>3, <1>6, <1>9, <2>1, <2>2, <2>3, <2>4 DEF Writing
  <2> QED BY <1>2, <1>9, <1>10, <2>1, <2>3, <2>5 DEF SignInv
<1>14. CASE j >= N - 1
  <2>1. j' = 0 /\ i' = i + 1 /\ sig' = [listed EXCEPT ![OMEGA + i] = next]
    BY <1>2, <1>9, <1>14, Sizes
  <2>2. j = N - 1 /\ 0 .. j = Hints!Byte
    <3>1. j = N - 1 BY <1>2, <1>3, <1>14, Sizes
    <3> QED BY <3>1 DEF Hints!Byte
  <2>3. next \in Hints!Byte /\ next \in Nat BY <1>10, Sizes DEF Hints!Byte, Hints!SizesAssumption
  <2>4. /\ sig' \in [Hints!Places -> Hints!Byte] /\ sig'[OMEGA + i] = next
        /\ \A b \in Hints!Places : b # OMEGA + i => sig'[b] = listed[b]
    BY <1>4, <1>8, <2>1, <2>3
  <2>5. \A b \in 0 .. OMEGA - 1 : b \in Hints!Places /\ b # OMEGA + i BY <1>2, Sizes DEF Hints!Places
  <2>6. Agrees(sig')
    <3>1. \A b \in 0 .. k - 1 : sig'[b] = sig[b] BY <1>2, <1>12, <2>4, <2>5, Sizes
    <3>2. \A p \in 0 .. i - 1 : sig'[OMEGA + p] = sig[OMEGA + p]
      BY <1>2, <1>5, <1>12, <2>4, Sizes
    <3>3. \A b \in next .. OMEGA - 1 : sig'[b] = 0 BY <1>10, <1>12, <2>4, <2>5, Sizes
    <3>4. one => sig'[k] = j BY <1>2, <1>7, <1>12, <2>4, <2>5, Sizes
    <3> QED BY <2>4, <3>1, <3>2, <3>3, <3>4
  <2>7. /\ \A p \in 0 .. i - 1 : Lists(sig', h, p)
        /\ Start(sig', i) = a /\ Rising(sig', a, next)
        /\ h[i] \cap (0 .. j) = Listed(sig', a, next)
    BY <1>11, <2>6
  <2>8. Lists(sig', h, i)
    <3>1. h[i] \cap (0 .. j) = h[i] BY <1>2, <1>4, <2>2
    <3>2. a <= next /\ next <= OMEGA BY <1>2, <1>3, <1>5, <1>10, Sizes
    <3> QED BY <2>4, <2>7, <3>1, <3>2 DEF Lists
  <2>9. \A p \in 0 .. (i + 1) - 1 : Lists(sig', h, p) /\ sig'[OMEGA + p] <= next
    <3> SUFFICES ASSUME NEW p \in 0 .. (i + 1) - 1
                 PROVE  Lists(sig', h, p) /\ sig'[OMEGA + p] <= next
      OBVIOUS
    <3>1. CASE p = i BY <2>3, <2>4, <2>8, <3>1
    <3>2. CASE p # i
      <4>1. p \in 0 .. i - 1 BY <1>2, <3>2
      <4>2. sig'[OMEGA + p] = sig[OMEGA + p] /\ sig[OMEGA + p] <= k /\ sig[OMEGA + p] \in Nat
        BY <1>3, <1>5, <2>6, <4>1
      <4> QED BY <1>2, <1>10, <2>7, <4>1, <4>2, Sizes
    <3> QED BY <3>1, <3>2
  <2>10. Start(sig', i + 1) = next /\ i + 1 \in 0 .. K
    BY <1>1, <1>2, <2>4, Sizes DEF Start
  <2>11. next = Cardinality(OnesBefore(h, i + 1, 0)) BY <1>2, <1>4, <1>6, <2>2, CountOnes
  <2>12. Rising(sig', next, next) /\ Listed(sig', next, next) = {} /\ 0 .. 0 - 1 = {}
    BY <2>3 DEF Rising, Listed
  <2>13. Writing'
    <3>1. /\ h' = first' /\ sig' \in [Hints!Places -> Hints!Byte] /\ k' = Cardinality(OnesBefore(h', i', j'))
          /\ \A p \in 0 .. i' - 1 : Lists(sig', h', p) /\ sig'[OMEGA + p] <= k'
          /\ \A b \in k' .. OMEGA - 1 : sig'[b] = 0
      BY <1>3, <1>9, <2>1, <2>4, <2>6, <2>9, <2>11, ZenonT(40)
    <3>2. Start(sig', i') = k' BY <1>9, <2>1, <2>10
    <3>3. /\ j' < N /\ Start(sig', i') <= k' /\ Rising(sig', Start(sig', i'), k')
          /\ h'[i'] \cap (0 .. j' - 1) = Listed(sig', Start(sig', i'), k')
      <4>1. j' < N /\ Start(sig', i') <= k' BY <1>9, <2>1, <2>3, <3>2, Sizes
      <4>2. Rising(sig', Start(sig', i'), k') BY <1>9, <2>12, <3>2
      <4>3. Listed(sig', Start(sig', i'), k') = {} /\ 0 .. j' - 1 = {} BY <1>9, <2>1, <2>12, <3>2
      <4> QED BY <4>1, <4>2, <4>3
    <3>4. i' = K => k' = Start(sig', K) BY <3>2
    <3> QED BY <3>1, <3>3, <3>4 DEF Writing
  <2> QED BY <1>2, <1>9, <1>10, <2>1, <2>10, <2>13 DEF SignInv
<1> QED BY <1>2, <1>13, <1>14, Sizes

LEMMA PackEndSignInv ==
  ASSUME Hints!SizesAssumption
  PROVE  SignInv /\ Hints!PackEnd => SignInv'
<1> SUFFICES ASSUME SignInv, Hints!PackEnd, route' = "sign" PROVE SignInv'
  BY DEF SignInv
<1>1. /\ route = "sign" /\ phase = "pack" /\ i = K /\ phase' = "unpack"
      /\ i' = 0 /\ j' = 0 /\ k' = 0 /\ sig' = sig /\ h' = h /\ first' = first
  BY DEF Hints!PackEnd
<1>2. /\ first \in [Hints!Polys -> SUBSET Hints!Byte] /\ h \in [Hints!Polys -> SUBSET Hints!Byte] /\ Hints!FewEnough(first)
      /\ Writing /\ k \in 0 .. OMEGA
  BY <1>1 DEF SignInv
<1>3. /\ h = first /\ sig \in [Hints!Places -> Hints!Byte] /\ k = Start(sig, K)
      /\ \A p \in Hints!Polys : Lists(sig, h, p)
      /\ \A b \in k .. OMEGA - 1 : sig[b] = 0
  BY <1>1, <1>2 DEF Writing, Hints!Polys
<1>4. sig[OMEGA + 0] \in Nat
  <2>1. 0 \in 0 .. K /\ 0 < K BY Sizes
  <2> QED BY <1>3, <2>1, StartOf
<1>5. Start(sig, 0) = 0 /\ \A p \in 0 .. 0 - 1 : h[p] = first[p] BY DEF Start
<1>6. Reading' BY <1>1, <1>3, <1>4, <1>5, Sizes DEF Reading
<1> QED BY <1>1, <1>2, <1>6, Sizes DEF SignInv

(* What the signer has packed is in order, wherever it is read. *)
LEMMA Ordered ==
  ASSUME Hints!SizesAssumption, Reading, first \in [Hints!Polys -> SUBSET Hints!Byte],
         i \in 0 .. K, i < K, j \in Nat, k \in 0 .. OMEGA
  PROVE  /\ i \in Hints!Polys /\ Hints!CountFits /\ sig[OMEGA + i] \in Nat
         /\ ~(sig[OMEGA + i] < k \/ sig[OMEGA + i] > OMEGA)
         /\ j < sig[OMEGA + i] => ~Hints!OutOfOrder /\ j \in Hints!Places
         /\ first[i] = Listed(sig, k, sig[OMEGA + i])
         /\ i + 1 \in 0 .. K /\ Start(sig, i + 1) = sig[OMEGA + i]
<1>1. i \in Hints!Polys BY Sizes DEF Hints!Polys
<1>2. /\ sig \in [Hints!Places -> Hints!Byte] /\ k = Start(sig, i) /\ k <= j /\ j <= sig[OMEGA + i]
      /\ Lists(sig, first, i)
  BY <1>1 DEF Reading
<1>3. sig[OMEGA + i] \in Nat /\ i + 1 \in 0 .. K /\ Start(sig, i + 1) = sig[OMEGA + i]
  BY <1>2, StartOf
<1>4. /\ k <= sig[OMEGA + i] /\ sig[OMEGA + i] <= OMEGA /\ Rising(sig, k, sig[OMEGA + i])
      /\ first[i] = Listed(sig, k, sig[OMEGA + i])
  BY <1>2 DEF Lists
<1>5. ASSUME j < sig[OMEGA + i] PROVE ~Hints!OutOfOrder /\ j \in Hints!Places
  <2>1. j \in Hints!Places BY <1>3, <1>4, <1>5, Sizes DEF Hints!Places
  <2>2. ASSUME j > k PROVE ~(sig[j] <= sig[j - 1])
    <3>1. j - 1 \in Nat /\ k <= j - 1 /\ j - 1 < j /\ j - 1 \in Hints!Places
      BY <2>1, <2>2, Sizes DEF Hints!Places
    <3>2. sig[j - 1] < sig[j] BY <1>4, <1>5, <3>1 DEF Rising
    <3>3. sig[j] \in Nat /\ sig[j - 1] \in Nat BY <1>2, <2>1, <3>1 DEF Hints!Byte
    <3> QED BY <3>2, <3>3
  <2> QED BY <2>1, <2>2 DEF Hints!OutOfOrder
<1>6. Hints!CountFits /\ ~(sig[OMEGA + i] < k \/ sig[OMEGA + i] > OMEGA)
  BY <1>3, <1>4, Sizes DEF Hints!CountFits
<1> QED BY <1>1, <1>3, <1>4, <1>5, <1>6

LEMMA UnpackCountSignInv ==
  ASSUME Hints!SizesAssumption
  PROVE  SignInv /\ Hints!UnpackCount => SignInv'
<1> SUFFICES ASSUME SignInv, Hints!UnpackCount, route' = "sign" PROVE FALSE
  BY DEF SignInv
<1>1. /\ route = "sign" /\ phase = "unpack" /\ i < K
      /\ sig[OMEGA + i] < k \/ sig[OMEGA + i] > OMEGA
  BY DEF Hints!UnpackCount, Hints!Reject
<1>2. /\ first \in [Hints!Polys -> SUBSET Hints!Byte] /\ Reading /\ i \in 0 .. K /\ j \in Nat /\ k \in 0 .. OMEGA
  BY <1>1 DEF SignInv
<1> QED BY <1>1, <1>2, Ordered

LEMMA UnpackPlaceSignInv ==
  ASSUME Hints!SizesAssumption
  PROVE  SignInv /\ Hints!UnpackPlace => SignInv'
<1> SUFFICES ASSUME SignInv, Hints!UnpackPlace, route' = "sign" PROVE SignInv'
  BY DEF SignInv
<1>1. route = "sign" /\ phase = "unpack" /\ i < K /\ j < sig[OMEGA + i]
  BY DEF Hints!UnpackPlace, Hints!Reject
<1>2. /\ first \in [Hints!Polys -> SUBSET Hints!Byte] /\ h \in [Hints!Polys -> SUBSET Hints!Byte] /\ Hints!FewEnough(first)
      /\ i \in 0 .. K /\ j \in Nat /\ k \in 0 .. OMEGA /\ Reading
  BY <1>1 DEF SignInv
<1>3. i \in Hints!Polys /\ sig[OMEGA + i] \in Nat /\ ~Hints!OutOfOrder /\ j \in Hints!Places
  BY <1>1, <1>2, Ordered
<1>4. /\ h' = [Hints!Cleared EXCEPT ![i] = @ \cup {sig[j]}]
      /\ j' = j + 1 /\ i' = i /\ k' = k /\ sig' = sig /\ first' = first /\ phase' = "unpack"
  BY <1>1, <1>3 DEF Hints!UnpackPlace
<1>5. /\ sig \in [Hints!Places -> Hints!Byte]
      /\ \A p \in Hints!Polys : Lists(sig, first, p)
      /\ \A b \in Start(sig, K) .. OMEGA - 1 : sig[b] = 0
      /\ k = Start(sig, i) /\ k <= j
      /\ \A p \in 0 .. i - 1 : h[p] = first[p]
      /\ j > k => h[i] = Listed(sig, k, j)
  BY <1>2 DEF Reading
<1>6. /\ Hints!Cleared \in [Hints!Polys -> SUBSET Hints!Byte] /\ Hints!Cleared[i] = Listed(sig, k, j)
      /\ \A p \in 0 .. i - 1 : Hints!Cleared[p] = h[p]
  <2>1. CASE j = k
    <3>1. Listed(sig, k, j) = {} BY <1>2, <2>1, Sizes DEF Listed
    <3>2. Hints!Cleared = [h EXCEPT ![i] = {}] BY <2>1 DEF Hints!Cleared
    <3>3. \A p \in 0 .. i - 1 : p \in Hints!Polys /\ p # i BY <1>2, <1>3, Sizes DEF Hints!Polys
    <3> QED BY <1>2, <1>3, <3>1, <3>2, <3>3
  <2>2. CASE j > k BY <1>2, <1>5, <2>2, Sizes DEF Hints!Cleared
  <2> QED BY <1>2, <1>5, <2>1, <2>2, Sizes
<1>7. sig[j] \in Hints!Byte BY <1>3, <1>5
<1>8. h' \in [Hints!Polys -> SUBSET Hints!Byte] /\ h'[i] = Listed(sig, k, j) \cup {sig[j]}
  BY <1>3, <1>4, <1>6, <1>7
<1>9. \A p \in 0 .. i - 1 : h'[p] = first[p]
  <2>1. \A p \in 0 .. i - 1 : p \in Hints!Polys /\ p # i BY <1>2, <1>3, Sizes DEF Hints!Polys
  <2> QED BY <1>4, <1>5, <1>6, <2>1
<1>10. Listed(sig, k, j + 1) = Listed(sig, k, j) \cup {sig[j]}
  <2>1. k .. (j + 1) - 1 = (k .. j - 1) \cup {j} BY <1>2, <1>5, Sizes
  <2> QED BY <2>1 DEF Listed
<1>11. j + 1 <= sig[OMEGA + i] /\ k <= j + 1 /\ j + 1 \in Nat /\ i # K
  BY <1>1, <1>2, <1>3, <1>5, Sizes
<1>12. Reading' BY <1>4, <1>5, <1>8, <1>9, <1>10, <1>11 DEF Reading
<1> QED BY <1>2, <1>4, <1>8, <1>11, <1>12 DEF SignInv

LEMMA UnpackNextSignInv ==
  ASSUME Hints!SizesAssumption
  PROVE  SignInv /\ Hints!UnpackNext => SignInv'
<1> SUFFICES ASSUME SignInv, Hints!UnpackNext, route' = "sign" PROVE SignInv'
  BY DEF SignInv
<1>1. /\ route = "sign" /\ phase = "unpack" /\ i < K /\ j >= sig[OMEGA + i]
      /\ h' = Hints!Cleared /\ k' = sig[OMEGA + i] /\ j' = sig[OMEGA + i] /\ i' = i + 1
      /\ phase' = "unpack" /\ sig' = sig /\ first' = first
  BY DEF Hints!UnpackNext
<1>2. /\ first \in [Hints!Polys -> SUBSET Hints!Byte] /\ h \in [Hints!Polys -> SUBSET Hints!Byte] /\ Hints!FewEnough(first)
      /\ i \in 0 .. K /\ j \in Nat /\ k \in 0 .. OMEGA /\ Reading
  BY <1>1 DEF SignInv
<1>3. /\ i \in Hints!Polys /\ sig[OMEGA + i] \in Nat /\ sig[OMEGA + i] <= OMEGA
      /\ first[i] = Listed(sig, k, sig[OMEGA + i])
      /\ i + 1 \in 0 .. K /\ Start(sig, i + 1) = sig[OMEGA + i]
  <2>1. Hints!CountFits /\ sig[OMEGA + i] \in Nat BY <1>1, <1>2, Ordered
  <2> QED BY <1>1, <1>2, <2>1, Ordered DEF Hints!CountFits
<1>4. /\ sig \in [Hints!Places -> Hints!Byte]
      /\ \A p \in Hints!Polys : Lists(sig, first, p)
      /\ \A b \in Start(sig, K) .. OMEGA - 1 : sig[b] = 0
      /\ k <= j /\ j <= sig[OMEGA + i]
      /\ \A p \in 0 .. i - 1 : h[p] = first[p]
      /\ j > k => h[i] = Listed(sig, k, j)
  BY <1>1, <1>2 DEF Reading
<1>5. j = sig[OMEGA + i] BY <1>1, <1>2, <1>3, <1>4
<1>6. /\ Hints!Cleared \in [Hints!Polys -> SUBSET Hints!Byte] /\ Hints!Cleared[i] = first[i]
      /\ \A p \in 0 .. i - 1 : Hints!Cleared[p] = h[p]
  <2>1. CASE j = k
    <3>1. Listed(sig, k, j) = {} BY <1>2, <2>1, Sizes DEF Listed
    <3>2. Hints!Cleared = [h EXCEPT ![i] = {}] BY <2>1 DEF Hints!Cleared
    <3>3. \A p \in 0 .. i - 1 : p \in Hints!Polys /\ p # i BY <1>2, <1>3, Sizes DEF Hints!Polys
    <3> QED BY <1>2, <1>3, <1>5, <3>1, <3>2, <3>3
  <2>2. CASE j > k BY <1>2, <1>3, <1>4, <1>5, <2>2, Sizes DEF Hints!Cleared
  <2> QED BY <1>2, <1>4, <2>1, <2>2, Sizes
<1>7. \A p \in 0 .. (i + 1) - 1 : h'[p] = first[p]
  <2> SUFFICES ASSUME NEW p \in 0 .. (i + 1) - 1 PROVE h'[p] = first[p]  OBVIOUS
  <2>1. p = i \/ p \in 0 .. i - 1 BY <1>2, Sizes
  <2> QED BY <1>1, <1>4, <1>6, <2>1
<1>8. \A q \in 0 .. K : q < K => sig[OMEGA + q] \in Nat /\ Start(sig, q) <= sig[OMEGA + q]
  <2> SUFFICES ASSUME NEW q \in 0 .. K, q < K
               PROVE  sig[OMEGA + q] \in Nat /\ Start(sig, q) <= sig[OMEGA + q]
    OBVIOUS
  <2>1. q \in Hints!Polys BY Sizes DEF Hints!Polys
  <2> QED BY <1>4, <2>1, StartOf DEF Lists
<1>9. Reading'
  <2>1. i' < K => j' <= sig'[OMEGA + i'] BY <1>1, <1>3, <1>8
  <2> QED BY <1>1, <1>3, <1>4, <1>7, <2>1 DEF Reading
<1> QED BY <1>1, <1>2, <1>3, <1>6, <1>9, Sizes DEF SignInv

LEMMA UnpackEndSignInv ==
  ASSUME Hints!SizesAssumption
  PROVE  SignInv /\ Hints!UnpackEnd => SignInv'
<1> SUFFICES ASSUME SignInv, Hints!UnpackEnd, route' = "sign" PROVE SignInv'
  BY DEF SignInv
<1>1. route = "sign" /\ phase = "unpack" /\ i = K BY DEF Hints!UnpackEnd, Hints!Reject
<1>2. /\ first \in [Hints!Polys -> SUBSET Hints!Byte] /\ h \in [Hints!Polys -> SUBSET Hints!Byte] /\ Hints!FewEnough(first)
      /\ i \in 0 .. K /\ j \in Nat /\ k \in 0 .. OMEGA /\ Reading
  BY <1>1 DEF SignInv
<1>3. Hints!RestIsZero BY <1>1, <1>2 DEF Reading, Hints!RestIsZero
<1>4. /\ phase' = "done" /\ i' = 0 /\ j' = 0 /\ k' = 0 /\ h' = h /\ first' = first
  BY <1>1, <1>3 DEF Hints!UnpackEnd
<1>5. \A p \in Hints!Polys : h[p] = first[p] BY <1>1, <1>2 DEF Reading, Hints!Polys
<1>6. h = first BY <1>2, <1>5
<1> QED BY <1>2, <1>4, <1>6, Sizes DEF SignInv

(* What is known on the signer's way is kept by every step. *)
THEOREM SignerInductive ==
  ASSUME Hints!SizesAssumption
  PROVE  Hints!Spec => []SignInv
<1>1. Hints!Init => SignInv BY InitSignInv
<1>2. SignInv /\ [Hints!Next]_(Hints!vars) => SignInv'
  <2> SUFFICES ASSUME SignInv, [Hints!Next]_(Hints!vars) PROVE SignInv'  OBVIOUS
  <2>1. CASE Hints!Next
    BY <2>1, PackCoefficientSignInv, PackEndSignInv, UnpackCountSignInv, UnpackPlaceSignInv,
       UnpackNextSignInv, UnpackEndSignInv DEF Hints!Next
  <2>2. CASE UNCHANGED Hints!vars
    BY <2>2 DEF Hints!vars, SignInv, Writing, Reading, Lists, Listed, Rising, Start, Hints!FewEnough
  <2> QED BY <2>1, <2>2
<1> QED BY <1>1, <1>2, PTL DEF Hints!Spec

(* On both ways the list leaves room for the counts: the signer's because  *)
(* no more than OMEGA ones are left to be listed, the verifier's because   *)
(* each count was checked.                                                 *)
LEMMA RoomForTheCounts ==
  ASSUME Hints!SizesAssumption, IInv, SignInv, route \in {"sign", "verify"}
  PROVE  Hints!ListStaysShort
<1> SUFFICES ASSUME phase = "pack", i < K, j \in h[i] PROVE k < OMEGA
  BY DEF Hints!ListStaysShort
<1>1. CASE route = "sign"
  <2>1. /\ first \in [Hints!Polys -> SUBSET Hints!Byte] /\ h = first /\ Hints!FewEnough(first) /\ j < N
        /\ i \in 0 .. K /\ j \in Nat /\ k \in 0 .. OMEGA /\ k = Cardinality(OnesBefore(h, i, j))
    BY <1>1 DEF SignInv, Writing
  <2>2. i \in Hints!Polys /\ j \in Hints!Byte BY <2>1, Sizes DEF Hints!Polys, Hints!Byte
  <2>3. k + 1 <= Cardinality(Hints!Ones(h)) BY <2>1, <2>2, CountOnes
  <2>4. Cardinality(Hints!Ones(h)) \in Nat /\ Cardinality(Hints!Ones(h)) <= OMEGA
    BY <2>1, OnesAreFinite DEF Hints!FewEnough, Hints!Cardinality, Cardinality
  <2> QED BY <2>1, <2>3, <2>4, Sizes
<1>2. CASE route = "verify"
  <2>1. /\ first \in [Hints!Places -> Hints!Byte] /\ i \in 0 .. K /\ j \in Nat /\ k \in 0 .. OMEGA
        /\ h \in [Hints!Polys -> SUBSET Hints!Byte] /\ Packing
    BY <1>2 DEF IInv
  <2>2. i \in Hints!Polys BY <2>1, Sizes DEF Hints!Polys
  <2>3. /\ Lists(first, h, i) /\ Start(first, i) <= k /\ k <= first[OMEGA + i]
        /\ \A x \in Start(first, i) .. k - 1 : first[x] < j
        /\ \A x \in k .. first[OMEGA + i] - 1 : j <= first[x]
    BY <2>1, <2>2 DEF Packing
  <2>4. Start(first, i) \in Nat /\ first[OMEGA + i] \in Nat /\ first[OMEGA + i] <= OMEGA /\ k \in Nat
    BY <2>1, <2>3, StartOf, Sizes DEF Lists
  <2>5. k < first[OMEGA + i] BY <2>1, <2>2, <2>3, <2>4, NextPlace
  <2> QED BY <2>1, <2>4, <2>5, Sizes
<1> QED BY <1>1, <1>2

(* Whatever the sizes: what the signer packs is read back as it was, the   *)
(* list of places never runs into the counts behind it, and bytes that are *)
(* accepted are the only encoding of their hints (packing.c:170-236).      *)
THEOREM HintsStayExact ==
  ASSUME Hints!SizesAssumption
  PROVE  Hints!Spec => []Hints!HintsAreExact
<1> DEFINE Route == route \in {"sign", "verify"}
<1>1. Hints!Init => Route BY DEF Hints!Init
<1>2. Route /\ [Hints!Next]_(Hints!vars) => Route'
  BY DEF Hints!Next, Hints!PackCoefficient, Hints!PackEnd, Hints!UnpackCount, Hints!UnpackPlace, Hints!UnpackNext, Hints!UnpackEnd, Hints!Reject, Hints!vars
<1>3. Hints!Spec => []Route BY <1>1, <1>2, PTL DEF Hints!Spec
<1>4. IInv /\ SignInv /\ Route => Hints!HintsAreExact
  <2> SUFFICES ASSUME IInv, SignInv, Route PROVE Hints!HintsAreExact  OBVIOUS
  <2>1. Hints!ListStaysShort BY RoomForTheCounts
  <2>2. Hints!AcceptsWhatItPacks BY DEF SignInv, Hints!AcceptsWhatItPacks
  <2>3. Hints!OneEncoding BY DEF IInv, Hints!OneEncoding
  <2> QED BY <2>1, <2>2, <2>3 DEF Hints!HintsAreExact
<1> QED BY <1>3, <1>4, Inductive, SignerInductive, PTL

-----------------------------------------------------------------------------
(* Signed messages. *)
CONSTANTS BYTES, MaxLength, MaxContext, Values
VARIABLES scheme, message, ctx, mem, at, mlen, smlen, n, ret, openctx

Signed == INSTANCE SignedMessage WITH m <- at, i <- n

Cells == 0 .. Signed!Size - 1

(* The bytes from a on are those of the message from its byte b on.        *)
MessageFrom(a, b) == \A x \in b .. Len(message) - 1 : mem[a + x].value = message[x + 1]

(* The signature starts as the one of the message, or with the byte that   *)
(* was changed.                                                            *)
FirstByte == mem[0] \in {Signed!Zero, Signed!Cell(-1, Signed!pre(ctx) \o message)}

Inputs ==
  /\ scheme \in {"dilithium", "sphincs"}
  /\ message \in Signed!Messages /\ ctx \in Signed!Contexts /\ openctx \in Signed!Contexts
  /\ scheme = "sphincs" => ctx = <<>> /\ openctx = <<>>
  /\ mem = [a \in Cells |-> mem[a]]
  /\ at \in {0, Signed!Apart}

Copying ==
  /\ mlen = Len(message) /\ n \in Nat /\ n <= mlen
  /\ scheme = "sphincs" => n = 0
  /\ \A x \in 0 .. mlen - 1 - n : mem[at + x].value = message[x + 1]
  /\ MessageFrom(BYTES, mlen - n)

HasSigned ==
  /\ mlen = Len(message) /\ smlen = BYTES + mlen
  /\ ~Signed!TooLong(ctx)
  /\ MessageFrom(BYTES, 0)
  /\ \A x \in 1 .. BYTES : mem[x - 1] = Signed!Cell(-x, Signed!pre(ctx) \o message)

Received == n = 0 /\ FirstByte /\ ~Signed!TooLong(ctx)

Giving ==
  /\ openctx = ctx /\ mlen = Len(message) /\ n \in Nat /\ n <= mlen
  /\ \A x \in 0 .. n - 1 : mem[at + x].value = message[x + 1]
  /\ MessageFrom(BYTES, n)

Wiping ==
  mlen = 0 /\ n \in Nat /\ n <= smlen /\ \A x \in 0 .. n - 1 : mem[at + x] = Signed!Zero

SignedInv ==
  /\ Inputs
  /\ pc \in {"copy", "failed", "signed", "open", "give", "wipe", "done"}
  /\ pc = "copy" => Copying
  /\ pc = "signed" => HasSigned
  /\ pc = "open" => Received
  /\ pc = "give" => Giving
  /\ pc = "wipe" => Wiping
  /\ pc \in {"open", "give", "wipe", "done"} => smlen \in 0 .. BYTES + MaxLength
  /\ Signed!OpensWhatWasSigned

LEMMA SignedSizes ==
  ASSUME Signed!SizesAssumption
  PROVE  /\ BYTES \in Nat /\ BYTES > 0 /\ MaxLength \in Nat /\ MaxContext \in Nat /\ Values \subseteq Nat
         /\ Signed!Apart = BYTES + MaxLength /\ Signed!Size = 2 * (BYTES + MaxLength)
  BY DEF Signed!SizesAssumption, Signed!Apart, Signed!Size

LEMMA IsSequence ==
  ASSUME NEW S, NEW l \in Nat, NEW f \in [1 .. l -> S]
  PROVE  f \in Seq(S) /\ Len(f) = l
<1>1. f \in Seq(S) BY SeqDef
<1>2. Len(f) \in Nat /\ DOMAIN f = 1 .. Len(f) BY <1>1, LenProperties
<1>3. 1 .. Len(f) = 1 .. l BY <1>2
<1>4. Len(f) = l
  <2>1. CASE l > 0
    <3>1. l \in 1 .. Len(f) /\ (Len(f) \in 1 .. l \/ Len(f) = 0) BY <1>2, <1>3, <2>1
    <3> QED BY <1>2, <2>1, <3>1
  <2>2. CASE l = 0
    <3>1. Len(f) > 0 => Len(f) \in 1 .. l BY <1>2, <1>3
    <3> QED BY <1>2, <2>2, <3>1
  <2> QED BY <2>1, <2>2
<1> QED BY <1>1, <1>4

LEMMA IsString ==
  ASSUME Signed!SizesAssumption, NEW l \in Nat, NEW s \in Signed!Strings(l)
  PROVE  s \in Seq(Values) /\ Len(s) \in 0 .. l /\ s \in [1 .. Len(s) -> Values]
<1>1. PICK c \in 0 .. l : s \in [1 .. c -> Values] BY DEF Signed!Strings
<1>2. s \in Seq(Values) /\ Len(s) = c BY <1>1, IsSequence
<1> QED BY <1>1, <1>2

LEMMA IsMessage ==
  ASSUME Signed!SizesAssumption, NEW s \in Signed!Messages
  PROVE  s \in Seq(Values) /\ Len(s) \in 0 .. MaxLength /\ s \in [1 .. Len(s) -> Values]
  BY SignedSizes, IsString DEF Signed!Messages

(* A context that is accepted is a string of the code's bytes. *)
LEMMA IsContext ==
  ASSUME Signed!SizesAssumption, NEW c \in Signed!Contexts, ~Signed!TooLong(c), scheme = "dilithium"
  PROVE  c \in Seq(Values) /\ Len(c) \in Nat
<1>1. CASE c \in Signed!Strings(MaxContext) BY <1>1, SignedSizes, IsString
<1>2. CASE c \notin Signed!Strings(MaxContext)
  <2> DEFINE v == CHOOSE x \in Values : TRUE
             d == [x \in 1 .. MaxContext + 1 |-> v]
  <2>1. c = d BY <1>2 DEF Signed!Contexts
  <2>2. d \in [1 .. MaxContext + 1 -> {v}] /\ MaxContext + 1 \in Nat BY SignedSizes
  <2> HIDE DEF v, d
  <2>3. Len(c) = MaxContext + 1 BY <2>1, <2>2, IsSequence
  <2>4. Len(c) > MaxContext BY <2>3, SignedSizes
  <2> QED BY <2>4 DEF Signed!TooLong
<1> QED BY <1>1, <1>2

(* The context and its length are put before the message, so that the      *)
(* bytes of the one cannot pass for bytes of the other.                    *)
LEMMA PrefixIsSeparate ==
  ASSUME NEW V, scheme = "dilithium",
         NEW c \in Seq(Nat \cup V), NEW d \in Seq(Nat \cup V),
         NEW s \in Seq(Nat \cup V), NEW t \in Seq(Nat \cup V),
         Signed!pre(c) \o s = Signed!pre(d) \o t
  PROVE  c = d /\ s = t
<1> DEFINE p == <<0, Len(c)>>
           q == <<0, Len(d)>>
           S == Nat \cup V
<1>1. Len(c) \in Nat /\ Len(d) \in Nat /\ Len(s) \in Nat /\ Len(t) \in Nat BY LenProperties
<1>2. /\ p \in Seq(S) /\ Len(p) = 2 /\ p[2] = Len(c)
      /\ q \in Seq(S) /\ Len(q) = 2 /\ q[2] = Len(d)
  BY <1>1
<1>3. Signed!pre(c) = p \o c /\ Signed!pre(d) = q \o d BY DEF Signed!pre
<1>0. c \in Seq(S) /\ d \in Seq(S) /\ s \in Seq(S) /\ t \in Seq(S) OBVIOUS
<1> HIDE DEF p, q, S
<1>4. /\ p \o c \in Seq(S) /\ Len(p \o c) = 2 + Len(c)
      /\ \A x \in 1 .. 2 + Len(c) : (p \o c)[x] = IF x <= 2 THEN p[x] ELSE c[x - 2]
  <2>1. p \in Seq(S) /\ Len(p) = 2 BY <1>2
  <2>2. /\ p \o c \in Seq(S) /\ Len(p \o c) = Len(p) + Len(c)
        /\ \A x \in 1 .. Len(p) + Len(c) :
             (p \o c)[x] = IF x <= Len(p) THEN p[x] ELSE c[x - Len(p)]
    BY <1>0, <2>1, ConcatProperties
  <2> QED BY <2>1, <2>2
<1>5. /\ q \o d \in Seq(S) /\ Len(q \o d) = 2 + Len(d)
      /\ \A x \in 1 .. 2 + Len(d) : (q \o d)[x] = IF x <= 2 THEN q[x] ELSE d[x - 2]
  <2>1. q \in Seq(S) /\ Len(q) = 2 BY <1>2
  <2>2. /\ q \o d \in Seq(S) /\ Len(q \o d) = Len(q) + Len(d)
        /\ \A x \in 1 .. Len(q) + Len(d) :
             (q \o d)[x] = IF x <= Len(q) THEN q[x] ELSE d[x - Len(q)]
    BY <1>0, <2>1, ConcatProperties
  <2> QED BY <2>1, <2>2
<1>6. \A x \in 1 .. 2 + Len(c) + Len(s) :
        ((p \o c) \o s)[x] = IF x <= 2 + Len(c) THEN (p \o c)[x] ELSE s[x - (2 + Len(c))]
  BY <1>0, <1>4, ConcatProperties
<1>7. \A x \in 1 .. 2 + Len(d) + Len(t) :
        ((q \o d) \o t)[x] = IF x <= 2 + Len(d) THEN (q \o d)[x] ELSE t[x - (2 + Len(d))]
  BY <1>0, <1>5, ConcatProperties
<1>8. (p \o c) \o s = (q \o d) \o t BY <1>3
<1>9. Len(c) = Len(d)
  <2>1. ((p \o c) \o s)[2] = Len(c) BY <1>1, <1>2, <1>4, <1>6
  <2>2. ((q \o d) \o t)[2] = Len(d) BY <1>1, <1>2, <1>5, <1>7
  <2> QED BY <1>8, <2>1, <2>2
<1>10. \A x \in 1 .. Len(c) : c[x] = d[x]
  <2> SUFFICES ASSUME NEW x \in 1 .. Len(c) PROVE c[x] = d[x]  OBVIOUS
  <2>1. x + 2 \in 1 .. 2 + Len(c) /\ x + 2 \in 1 .. 2 + Len(c) + Len(s) /\ (x + 2) - 2 = x /\ ~(x + 2 <= 2)
    BY <1>1
  <2>2. x + 2 \in 1 .. 2 + Len(d) + Len(t) BY <1>1, <1>9
  <2>3. ((p \o c) \o s)[x + 2] = c[x] BY <1>1, <1>4, <1>6, <2>1
  <2>4. ((q \o d) \o t)[x + 2] = d[x] BY <1>1, <1>5, <1>7, <1>9, <2>1, <2>2
  <2> QED BY <1>8, <2>3, <2>4
<1>11. c = d BY <1>0, <1>9, <1>10, SeqEqual
<1>12. (p \o c) \o s = (p \o c) \o t
  <2>1. q = p BY <1>11 DEF p, q
  <2> QED BY <1>8, <1>11, <2>1
<1>13. s = t BY <1>0, <1>4, <1>12, ConcatSimplifications
<1> QED BY <1>11, <1>13

(* Where the message is and where it goes; nothing is read that has been   *)
(* overwritten.                                                            *)
LEMMA Elsewhere ==
  ASSUME NEW B \in Nat, B > 0, NEW M \in Nat, NEW p \in Nat, p = 0 \/ p = B + M,
         NEW x \in Nat, x < M
  PROVE  /\ p + x \in 0 .. 2 * (B + M) - 1 /\ B + x \in 0 .. 2 * (B + M) - 1
         /\ \A y \in Nat : x < y /\ y < M => p + x # B + y
         /\ \A y \in Nat : x # y => B + x # B + y /\ p + x # p + y
  OBVIOUS

LEMMA Inside ==
  ASSUME Signed!SizesAssumption, Inputs, NEW x \in Nat, x < Len(message)
  PROVE  /\ at + x \in Cells /\ BYTES + x \in Cells
         /\ \A y \in Nat : x < y /\ y < Len(message) => at + x # BYTES + y
         /\ \A y \in Nat : x # y => BYTES + x # BYTES + y /\ at + x # at + y
<1>1. Len(message) \in 0 .. MaxLength BY IsMessage DEF Inputs
<1>2. at \in Nat /\ (at = 0 \/ at = BYTES + MaxLength) BY SignedSizes DEF Inputs
<1>3. Cells = 0 .. 2 * (BYTES + MaxLength) - 1 BY SignedSizes DEF Cells
<1>4. x < MaxLength /\ \A y \in Nat : y < Len(message) => y < MaxLength
  BY <1>1, SignedSizes
<1>5. /\ at + x \in 0 .. 2 * (BYTES + MaxLength) - 1 /\ BYTES + x \in 0 .. 2 * (BYTES + MaxLength) - 1
      /\ \A y \in Nat : x < y /\ y < MaxLength => at + x # BYTES + y
      /\ \A y \in Nat : x # y => BYTES + x # BYTES + y /\ at + x # at + y
  BY <1>2, <1>4, SignedSizes, Elsewhere, SMTT(40)
<1> QED BY <1>3, <1>4, <1>5

LEMMA MessageTypes ==
  ASSUME Signed!SizesAssumption, Inputs
  PROVE  /\ Len(message) \in Nat /\ Len(message) <= MaxLength
         /\ message \in Seq(Values) /\ message \in [1 .. Len(message) -> Values]
         /\ at \in Nat /\ mem = [a \in Cells |-> mem[a]]
<1>1. /\ message \in Seq(Values) /\ Len(message) \in 0 .. MaxLength
      /\ message \in [1 .. Len(message) -> Values]
  BY IsMessage DEF Inputs
<1>2. at \in Nat BY SignedSizes DEF Inputs
<1> QED BY <1>1, <1>2, SignedSizes DEF Inputs

LEMMA Written ==
  ASSUME NEW l \in Nat, NEW p \in Nat, NEW cells, Len(cells) = l, mem' = Signed!Put(p, cells)
  PROVE  /\ mem' = [a \in Cells |-> mem'[a]]
         /\ \A a \in Cells : mem'[a] = IF p <= a /\ a < p + l THEN cells[a - p + 1] ELSE mem[a]
<1>1. mem' = [a \in Cells |-> IF a \in p .. p + l - 1 THEN cells[a - p + 1] ELSE mem[a]]
  BY DEF Signed!Put, Cells
<1>2. \A a \in Cells : a \in p .. p + l - 1 <=> p <= a /\ a < p + l BY DEF Cells
<1>3. \A a \in Cells : mem'[a] = IF a \in p .. p + l - 1 THEN cells[a - p + 1] ELSE mem[a]
  BY <1>1
<1> QED BY <1>1, <1>2, <1>3

LEMMA SignatureLength ==
  ASSUME Signed!SizesAssumption, NEW of
  PROVE  /\ Len(Signed!Signature(of)) = BYTES
         /\ \A x \in 1 .. BYTES : Signed!Signature(of)[x] = Signed!Cell(-x, of)
<1> DEFINE s == Signed!Signature(of)
           V == {Signed!Cell(-x, of) : x \in 1 .. BYTES}
<1>1. s = [x \in 1 .. BYTES |-> Signed!Cell(-x, of)] BY DEF Signed!Signature
<1>2. s \in [1 .. BYTES -> V] BY <1>1
<1> HIDE DEF s, V
<1>3. Len(s) = BYTES BY <1>2, SignedSizes, IsSequence
<1> QED BY <1>1, <1>3 DEF s

(* Bytes of memory that hold the message one by one are the message. *)
LEMMA HoldsMessage ==
  ASSUME Signed!SizesAssumption, message \in [1 .. Len(message) -> Values], Len(message) \in Nat,
         NEW a \in Nat, \A x \in 0 .. Len(message) - 1 : mem[a + x].value = message[x + 1]
  PROVE  Signed!Bytes(a, Len(message)) = message
<1>1. \A x \in 1 .. Len(message) : mem[a + x - 1].value = message[x]
  <2> SUFFICES ASSUME NEW x \in 1 .. Len(message) PROVE mem[a + x - 1].value = message[x]
    OBVIOUS
  <2>1. x - 1 \in 0 .. Len(message) - 1 /\ (x - 1) + 1 = x /\ a + (x - 1) = a + x - 1 OBVIOUS
  <2> QED BY <2>1
<1>2. Signed!Bytes(a, Len(message)) = [x \in 1 .. Len(message) |-> message[x]]
  BY <1>1 DEF Signed!Bytes
<1> QED BY <1>2

LEMMA SignedInit ==
  ASSUME Signed!SizesAssumption
  PROVE  Signed!Init => SignedInv
<1> SUFFICES ASSUME Signed!Init PROVE SignedInv
  OBVIOUS
<1>1. /\ scheme \in {"dilithium", "sphincs"} /\ message \in Signed!Messages
      /\ ctx \in Signed!Contexts /\ openctx = ctx
      /\ scheme = "sphincs" => ctx = <<>>
      /\ at \in {0, Signed!Apart}
      /\ mlen = Len(message) /\ n = 0 /\ pc = "copy"
      /\ mem = [a \in Cells |-> IF a \in at .. at + Len(message) - 1
                                THEN Signed!Cell(message[a - at + 1], <<>>) ELSE Signed!Zero]
  BY DEF Signed!Init, Cells
<1>2. Inputs
  <2>1. mem = [a \in Cells |-> mem[a]] BY <1>1
  <2> QED BY <1>1, <2>1 DEF Inputs
<1>3. Len(message) \in Nat /\ at \in Nat BY <1>2, MessageTypes
<1>4. ASSUME NEW x \in 0 .. Len(message) - 1 PROVE mem[at + x].value = message[x + 1]
  <2>1. x \in Nat /\ x < Len(message) BY <1>3
  <2>2. at + x \in Cells BY <1>2, <2>1, Inside
  <2>3. at + x \in at .. at + Len(message) - 1 /\ (at + x) - at + 1 = x + 1 BY <1>3, <2>1
  <2>4. mem[at + x] = Signed!Cell(message[x + 1], <<>>) BY <1>1, <2>2, <2>3
  <2> QED BY <2>4 DEF Signed!Cell
<1>5. Copying
  <2>1. MessageFrom(BYTES, mlen - n) BY <1>1, <1>3 DEF MessageFrom
  <2>2. mlen - 1 - n = Len(message) - 1 /\ n <= mlen BY <1>1, <1>3
  <2> QED BY <1>1, <1>4, <2>1, <2>2 DEF Copying
<1>6. Signed!OpensWhatWasSigned
  BY <1>1 DEF Signed!OpensWhatWasSigned, Signed!SignsTheMessage, Signed!OnlyWhatWasSigned, Signed!NothingIsLeft
<1> QED BY <1>1, <1>2, <1>5, <1>6 DEF SignedInv

(* A step that changes bytes of memory only, if anything. *)
LEMMA SameInputs ==
  ASSUME Inputs, UNCHANGED <<scheme, message, ctx>>, at' \in {0, Signed!Apart},
         mem' = [a \in Cells |-> mem'[a]], openctx' \in Signed!Contexts,
         scheme = "sphincs" => openctx' = <<>>
  PROVE  Inputs'
<1>1. /\ Cells' = Cells /\ Signed!Messages' = Signed!Messages /\ Signed!Contexts' = Signed!Contexts
      /\ Signed!Apart' = Signed!Apart
  BY DEF Cells, Signed!Size, Signed!Messages, Signed!Contexts, Signed!Strings, Signed!Apart
<1> QED BY <1>1 DEF Inputs

LEMMA SignedCopyUp ==
  ASSUME Signed!SizesAssumption
  PROVE  SignedInv /\ Signed!CopyUp => SignedInv'
<1> SUFFICES ASSUME SignedInv, Signed!CopyUp PROVE SignedInv'
  OBVIOUS
<1> DEFINE y == mlen - 1 - n
<1>1. /\ pc = "copy" /\ pc' = "copy" /\ scheme = "dilithium" /\ n < mlen /\ n' = n + 1
      /\ mem' = [mem EXCEPT ![BYTES + mlen - 1 - n] = mem[at + mlen - 1 - n]]
      /\ UNCHANGED <<scheme, message, ctx, at, mlen, smlen, pc, ret, openctx>>
  BY DEF Signed!CopyUp, Signed!signing
<1>2. Inputs /\ Copying BY <1>1 DEF SignedInv
<1>3. Len(message) \in Nat /\ at \in Nat /\ mem = [a \in Cells |-> mem[a]] BY <1>2, MessageTypes
<1>4. /\ mlen = Len(message) /\ n \in Nat /\ n <= mlen
      /\ \A x \in 0 .. y : mem[at + x].value = message[x + 1]
      /\ MessageFrom(BYTES, mlen - n)
  BY <1>2 DEF Copying
<1>5. /\ y \in Nat /\ y < Len(message) /\ mlen - n = y + 1
      /\ mlen - (n + 1) = y /\ mlen - 1 - (n + 1) = y - 1
  BY <1>1, <1>3, <1>4
<1>6. BYTES + mlen - 1 - n = BYTES + y /\ at + mlen - 1 - n = at + y
  BY <1>3, <1>4, SignedSizes
<1> HIDE DEF y
<1>7. \A a \in Cells : mem'[a] = IF a = BYTES + y THEN mem[at + y] ELSE mem[a]
  BY <1>1, <1>3, <1>6
<1>8. mem' = [a \in Cells |-> mem'[a]] BY <1>1, <1>3
<1>9. ASSUME NEW x \in 0 .. y - 1 PROVE mem'[at + x].value = message[x + 1]
  <2>1. x \in Nat /\ x < y /\ x < Len(message) /\ x \in 0 .. y BY <1>3, <1>5
  <2>2. at + x \in Cells /\ at + x # BYTES + y BY <1>2, <1>5, <2>1, Inside
  <2> QED BY <1>4, <1>7, <2>1, <2>2
<1>10. ASSUME NEW x \in y .. Len(message) - 1 PROVE mem'[BYTES + x].value = message[x + 1]
  <2>1. x \in Nat /\ x < Len(message) BY <1>3, <1>5
  <2>2. BYTES + x \in Cells BY <1>2, <2>1, Inside
  <2>3. CASE x = y
    <3>1. y \in 0 .. y BY <1>5
    <3> QED BY <1>4, <1>7, <2>2, <2>3, <3>1
  <2>4. CASE x # y
    <3>1. BYTES + x # BYTES + y BY <1>2, <1>5, <2>1, <2>4, Inside
    <3>2. x \in mlen - n .. Len(message) - 1 BY <1>3, <1>5, <2>1, <2>4
    <3>3. mem[BYTES + x].value = message[x + 1] BY <1>4, <3>2 DEF MessageFrom
    <3> QED BY <1>7, <2>2, <3>1, <3>3
  <2> QED BY <2>3, <2>4
<1>11. Copying'
  <2>1. MessageFrom(BYTES, mlen - n)'
    <3>1. mlen' - n' = y /\ message' = message BY <1>1, <1>5
    <3> QED BY <1>10, <3>1 DEF MessageFrom
  <2>2. \A x \in 0 .. mlen' - 1 - n' : mem'[at' + x].value = message'[x + 1]
    <3>1. mlen' - 1 - n' = y - 1 /\ message' = message /\ at' = at BY <1>1, <1>5
    <3> QED BY <1>9, <3>1
  <2>3. mlen' = Len(message)' /\ n' \in Nat /\ n' <= mlen' BY <1>1, <1>3, <1>4
  <2> QED BY <1>1, <2>1, <2>2, <2>3 DEF Copying
<1>12. Inputs'
  <2>1. openctx' = openctx /\ at' = at BY <1>1
  <2>2. at' \in {0, Signed!Apart} /\ openctx' \in Signed!Contexts /\ (scheme = "sphincs" => openctx' = <<>>)
    BY <1>2, <2>1 DEF Inputs
  <2> QED BY <1>1, <1>2, <1>8, <2>2, SameInputs
<1>13. Signed!OpensWhatWasSigned'
  BY <1>1 DEF Signed!OpensWhatWasSigned, Signed!SignsTheMessage, Signed!OnlyWhatWasSigned, Signed!NothingIsLeft
<1> QED BY <1>1, <1>11, <1>12, <1>13 DEF SignedInv

LEMMA CellOf ==
  ASSUME NEW x, NEW of
  PROVE  Signed!Cell(x, of).of = of
  BY DEF Signed!Cell

(* What a signer leaves, with the signature in front of the message. *)
LEMMA BecomesSigned ==
  ASSUME Signed!SizesAssumption, Inputs, UNCHANGED <<scheme, message, ctx, at, openctx>>,
         mlen = Len(message), mlen' = mlen, smlen' = BYTES + mlen, pc' = "signed",
         ~Signed!TooLong(ctx), mem' = [a \in Cells |-> mem'[a]],
         \A x \in 1 .. BYTES : mem'[x - 1] = Signed!Cell(-x, Signed!pre(ctx) \o message),
         \A x \in 0 .. Len(message) - 1 : mem'[BYTES + x].value = message[x + 1]
  PROVE  SignedInv'
<1>1. Len(message) \in Nat /\ message \in [1 .. Len(message) -> Values] BY MessageTypes
<1>2. Inputs'
  <2>1. at' \in {0, Signed!Apart} /\ openctx' \in Signed!Contexts /\ (scheme = "sphincs" => openctx' = <<>>)
    BY DEF Inputs
  <2> QED BY <2>1, SameInputs
<1>3. Signed!TooLong(ctx)' <=> Signed!TooLong(ctx) BY DEF Signed!TooLong
<1>4. Signed!pre(ctx)' = Signed!pre(ctx) BY DEF Signed!pre
<1>5. MessageFrom(BYTES, 0)' BY DEF MessageFrom
<1>6. HasSigned'
  <2>1. mlen' = Len(message)' /\ smlen' = BYTES + mlen' OBVIOUS
  <2>2. \A x \in 1 .. BYTES : mem'[x - 1] = Signed!Cell(-x, (Signed!pre(ctx) \o message)')
    BY <1>4
  <2>3. \A x \in 1 .. BYTES : mem'[x - 1] = Signed!Cell(-x, Signed!pre(ctx) \o message)'
    BY <2>2 DEF Signed!Cell
  <2> QED BY <1>3, <1>5, <2>1, <2>3 DEF HasSigned
<1>7. Signed!Bytes(BYTES, mlen)' = message
  <2>1. \A x \in 1 .. Len(message) : mem'[BYTES + x - 1].value = message[x]
    <3> SUFFICES ASSUME NEW x \in 1 .. Len(message) PROVE mem'[BYTES + x - 1].value = message[x]
      OBVIOUS
    <3>1. x - 1 \in 0 .. Len(message) - 1 /\ (x - 1) + 1 = x /\ BYTES + (x - 1) = BYTES + x - 1
      BY <1>1, SignedSizes
    <3>2. mem'[BYTES + (x - 1)].value = message[(x - 1) + 1] BY <3>1
    <3> QED BY <3>1, <3>2
  <2>2. Signed!Bytes(BYTES, mlen)' = [x \in 1 .. Len(message) |-> mem'[BYTES + x - 1].value]
    BY DEF Signed!Bytes
  <2>3. Signed!Bytes(BYTES, mlen)' = [x \in 1 .. Len(message) |-> message[x]] BY <2>1, <2>2
  <2> QED BY <1>1, <2>3
<1>8. \A x \in 1 .. BYTES : mem'[x - 1].of = (Signed!pre(ctx) \o message)'
  <2>1. (Signed!pre(ctx) \o message)' = Signed!pre(ctx) \o message BY <1>4
  <2>2. ASSUME NEW x \in 1 .. BYTES PROVE mem'[x - 1].of = Signed!pre(ctx) \o message
    <3>1. mem'[x - 1] = Signed!Cell(-x, Signed!pre(ctx) \o message) OBVIOUS
    <3>2. Signed!Cell(-x, Signed!pre(ctx) \o message).of = Signed!pre(ctx) \o message BY CellOf
    <3> QED BY <3>1, <3>2
  <2> QED BY <2>1, <2>2
<1>9. Signed!OpensWhatWasSigned'
  BY <1>7, <1>8 DEF Signed!OpensWhatWasSigned, Signed!SignsTheMessage, Signed!OnlyWhatWasSigned, Signed!NothingIsLeft
<1> QED BY <1>2, <1>6, <1>9 DEF SignedInv

LEMMA SignedSignDilithium ==
  ASSUME Signed!SizesAssumption
  PROVE  SignedInv /\ Signed!SignDilithium => SignedInv'
<1> SUFFICES ASSUME SignedInv, Signed!SignDilithium PROVE SignedInv'
  OBVIOUS
<1>1. /\ pc = "copy" /\ scheme = "dilithium" /\ n = mlen
      /\ UNCHANGED <<scheme, message, ctx, at, mlen, openctx>>
  BY DEF Signed!SignDilithium, Signed!signing
<1>2. Inputs /\ Copying BY <1>1 DEF SignedInv
<1>3. /\ Len(message) \in Nat /\ at \in Nat /\ mem = [a \in Cells |-> mem[a]]
      /\ message \in [1 .. Len(message) -> Values]
  BY <1>2, MessageTypes
<1>4. mlen = Len(message) /\ \A x \in 0 .. Len(message) - 1 : mem[BYTES + x].value = message[x + 1]
  <2>1. mlen = Len(message) /\ MessageFrom(BYTES, mlen - n) BY <1>2 DEF Copying
  <2>2. mlen - n = 0 BY <1>1, <1>3, <2>1
  <2> QED BY <2>1, <2>2 DEF MessageFrom
<1>5. CASE Signed!TooLong(ctx)
  <2>1. pc' = "failed" /\ mem' = mem BY <1>5 DEF Signed!SignDilithium
  <2>2. Inputs'
    <3>1. at' \in {0, Signed!Apart} /\ openctx' \in Signed!Contexts /\ (scheme = "sphincs" => openctx' = <<>>)
      BY <1>1, <1>2 DEF Inputs
    <3> QED BY <1>1, <1>2, <1>3, <2>1, <3>1, SameInputs
  <2>3. Signed!OpensWhatWasSigned'
    BY <2>1 DEF Signed!OpensWhatWasSigned, Signed!SignsTheMessage, Signed!OnlyWhatWasSigned, Signed!NothingIsLeft
  <2> QED BY <2>1, <2>2, <2>3 DEF SignedInv
<1>6. CASE ~Signed!TooLong(ctx)
  <2> DEFINE of == Signed!pre(ctx) \o message
  <2>1. Signed!Bytes(BYTES, mlen) = message BY <1>3, <1>4, SignedSizes, HoldsMessage
  <2>2. mem' = Signed!Put(0, Signed!Signature(of)) /\ smlen' = BYTES + mlen /\ pc' = "signed"
    BY <1>6, <2>1 DEF Signed!SignDilithium
  <2> HIDE DEF of
  <2>3. /\ Len(Signed!Signature(of)) = BYTES
        /\ \A x \in 1 .. BYTES : Signed!Signature(of)[x] = Signed!Cell(-x, of)
    BY SignatureLength
  <2>4. /\ mem' = [a \in Cells |-> mem'[a]]
        /\ \A a \in Cells : mem'[a] = IF 0 <= a /\ a < 0 + BYTES THEN Signed!Signature(of)[a - 0 + 1] ELSE mem[a]
    BY <2>2, <2>3, SignedSizes, Written
  <2>5. ASSUME NEW x \in 1 .. BYTES PROVE mem'[x - 1] = Signed!Cell(-x, of)
    <3>1. x - 1 \in Cells /\ 0 <= x - 1 /\ x - 1 < 0 + BYTES /\ (x - 1) - 0 + 1 = x
      BY SignedSizes DEF Cells
    <3> QED BY <2>3, <2>4, <3>1
  <2>6. ASSUME NEW x \in 0 .. Len(message) - 1 PROVE mem'[BYTES + x].value = message[x + 1]
    <3>1. x \in Nat /\ x < Len(message) BY <1>3
    <3>2. BYTES + x \in Cells BY <1>2, <3>1, Inside
    <3>3. ~(BYTES + x < 0 + BYTES) BY <3>1, SignedSizes
    <3> QED BY <1>4, <2>4, <3>2, <3>3
  <2> QED BY <1>1, <1>2, <1>4, <1>6, <2>2, <2>4, <2>5, <2>6, BecomesSigned DEF of
<1> QED BY <1>5, <1>6

LEMMA SignedSignSphincs ==
  ASSUME Signed!SizesAssumption
  PROVE  SignedInv /\ Signed!SignSphincs => SignedInv'
<1> SUFFICES ASSUME SignedInv, Signed!SignSphincs PROVE SignedInv'
  OBVIOUS
<1>1. /\ pc = "copy" /\ scheme = "sphincs" /\ smlen' = BYTES + mlen /\ pc' = "signed"
      /\ UNCHANGED <<scheme, message, ctx, at, mlen, openctx>>
      /\ mem' = Signed!Put(0, Signed!Signature(Signed!Bytes(at, mlen))
                                \o [x \in 1 .. mlen |-> mem[at + x - 1]])
  BY DEF Signed!SignSphincs, Signed!signing
<1>2. Inputs /\ Copying BY <1>1 DEF SignedInv
<1>3. /\ Len(message) \in Nat /\ at \in Nat /\ mem = [a \in Cells |-> mem[a]]
      /\ message \in Seq(Values) /\ message \in [1 .. Len(message) -> Values]
  BY <1>2, MessageTypes
<1>4. mlen = Len(message) /\ \A x \in 0 .. Len(message) - 1 : mem[at + x].value = message[x + 1]
  <2>1. /\ mlen = Len(message) /\ n = 0
        /\ \A x \in 0 .. mlen - 1 - n : mem[at + x].value = message[x + 1]
    BY <1>1, <1>2 DEF Copying
  <2>2. mlen - 1 - n = Len(message) - 1 BY <1>3, <2>1
  <2> QED BY <2>1, <2>2
<1>5. Signed!Bytes(at, mlen) = message BY <1>3, <1>4, HoldsMessage
<1>6. ~Signed!TooLong(ctx) BY <1>1 DEF Signed!TooLong
<1>7. Signed!pre(ctx) \o message = message
  <2>1. Signed!pre(ctx) = <<>> BY <1>1 DEF Signed!pre
  <2> QED BY <1>3, <2>1, ConcatEmptySeq
<1> DEFINE s == Signed!Signature(message)
           t == [x \in 1 .. mlen |-> mem[at + x - 1]]
           V == {s[x] : x \in 1 .. BYTES} \cup {t[x] : x \in 1 .. mlen}
<1>8. /\ Len(s) = BYTES
      /\ \A x \in 1 .. BYTES : s[x] = Signed!Cell(-x, message)
  BY SignatureLength
<1>9. s \in Seq(V) /\ t \in Seq(V) /\ Len(t) = mlen
  <2>1. s \in [1 .. BYTES -> V] BY DEF Signed!Signature
  <2>2. t \in [1 .. mlen -> V] OBVIOUS
  <2> HIDE DEF s, t, V
  <2> QED BY <1>3, <1>4, <2>1, <2>2, SignedSizes, IsSequence
<1>10. \A x \in 0 .. mlen - 1 : t[x + 1] = mem[at + x]
  <2> SUFFICES ASSUME NEW x \in 0 .. mlen - 1 PROVE t[x + 1] = mem[at + x]  OBVIOUS
  <2>1. x + 1 \in 1 .. mlen /\ at + (x + 1) - 1 = at + x BY <1>3, <1>4
  <2>2. t[x + 1] = mem[at + (x + 1) - 1] BY <2>1
  <2> QED BY <2>1, <2>2
<1>11. mem' = Signed!Put(0, s \o t) BY <1>1, <1>5
<1> HIDE DEF s, t, V
<1>12. /\ Len(s \o t) = BYTES + mlen
       /\ \A x \in 1 .. BYTES + mlen : (s \o t)[x] = IF x <= BYTES THEN s[x] ELSE t[x - BYTES]
  BY <1>8, <1>9, ConcatProperties
<1>13. /\ mem' = [a \in Cells |-> mem'[a]]
       /\ \A a \in Cells : mem'[a] = IF 0 <= a /\ a < 0 + (BYTES + mlen) THEN (s \o t)[a - 0 + 1] ELSE mem[a]
  <2>1. BYTES + mlen \in Nat BY <1>3, <1>4, SignedSizes
  <2> QED BY <1>11, <1>12, <2>1, Written
<1>14. ASSUME NEW x \in 1 .. BYTES PROVE mem'[x - 1] = Signed!Cell(-x, message)
  <2>1. /\ x - 1 \in Cells /\ 0 <= x - 1 /\ x - 1 < 0 + (BYTES + mlen) /\ (x - 1) - 0 + 1 = x
        /\ x \in 1 .. BYTES + mlen /\ x <= BYTES
    BY <1>3, <1>4, SignedSizes DEF Cells
  <2> QED BY <1>8, <1>12, <1>13, <2>1
<1>15. ASSUME NEW x \in 0 .. Len(message) - 1 PROVE mem'[BYTES + x].value = message[x + 1]
  <2>1. x \in Nat /\ x < Len(message) BY <1>3
  <2>2. BYTES + x \in Cells BY <1>2, <2>1, Inside
  <2>3. /\ 0 <= BYTES + x /\ BYTES + x < 0 + (BYTES + mlen) /\ (BYTES + x) - 0 + 1 = BYTES + x + 1
        /\ BYTES + x + 1 \in 1 .. BYTES + mlen /\ ~(BYTES + x + 1 <= BYTES)
        /\ (BYTES + x + 1) - BYTES = x + 1 /\ x \in 0 .. mlen - 1
    <3>1. mlen \in Nat /\ x < mlen /\ x \in Nat BY <1>3, <1>4, <2>1
    <3>2. BYTES \in Nat BY SignedSizes
    <3> QED BY <3>1, <3>2
  <2>4. mem'[BYTES + x] = t[x + 1] BY <1>12, <1>13, <2>2, <2>3
  <2> QED BY <1>4, <1>10, <2>3, <2>4
<1> QED BY <1>1, <1>2, <1>4, <1>6, <1>7, <1>13, <1>14, <1>15, BecomesSigned

LEMMA SignedDeliver ==
  ASSUME Signed!SizesAssumption
  PROVE  SignedInv /\ Signed!Deliver => SignedInv'
<1> SUFFICES ASSUME SignedInv, Signed!Deliver PROVE SignedInv'
  OBVIOUS
<1>1. /\ pc = "signed" /\ pc' = "open" /\ n' = 0 /\ at' \in {0, Signed!Apart}
      /\ UNCHANGED <<scheme, message, ctx>>
  BY DEF Signed!Deliver, Signed!signing
<1>2. Inputs /\ HasSigned BY <1>1 DEF SignedInv
<1>3. Len(message) \in Nat /\ Len(message) <= MaxLength /\ mem = [a \in Cells |-> mem[a]]
  BY <1>2, MessageTypes
<1>4. smlen = BYTES + Len(message) /\ mem[0] = Signed!Cell(-1, Signed!pre(ctx) \o message)
  <2>1. 1 \in 1 .. BYTES /\ 1 - 1 = 0 BY SignedSizes
  <2> QED BY <1>2, <2>1 DEF HasSigned
<1>5. /\ mem' = [a \in Cells |-> mem'[a]] /\ mem'[0] \in {Signed!Zero, mem[0]}
      /\ smlen' \in 0 .. BYTES + MaxLength
      /\ openctx' \in Signed!Contexts /\ (scheme = "sphincs" => openctx' = <<>>)
  <2>1. smlen \in 0 .. BYTES + MaxLength BY <1>3, <1>4, SignedSizes
  <2>2. openctx \in Signed!Contexts /\ (scheme = "sphincs" => openctx = <<>>) BY <1>2 DEF Inputs
  <2>3. CASE UNCHANGED <<mem, smlen, openctx>> BY <1>3, <2>1, <2>2, <2>3
  <2>4. CASE \E l \in 0 .. smlen - 1 : smlen' = l /\ UNCHANGED <<mem, openctx>>
    <3>1. smlen' \in 0 .. BYTES + MaxLength BY <2>1, <2>4, SignedSizes
    <3> QED BY <1>3, <2>2, <2>4, <3>1
  <2>5. CASE \E a \in 0 .. smlen - 1 :
               mem' = [mem EXCEPT ![a] = Signed!Zero] /\ UNCHANGED <<smlen, openctx>>
    <3>1. PICK a \in 0 .. smlen - 1 : mem' = [mem EXCEPT ![a] = Signed!Zero] BY <2>5
    <3>2. 0 \in Cells BY SignedSizes DEF Cells
    <3>3. mem' = [b \in Cells |-> mem'[b]] /\ mem'[0] \in {Signed!Zero, mem[0]}
      BY <1>3, <3>1, <3>2
    <3> QED BY <2>1, <2>2, <2>5, <3>3
  <2>6. CASE \E other \in Signed!Messages, c \in Signed!Contexts :
               /\ scheme = "sphincs" => c = <<>>
               /\ mem' = Signed!Put(BYTES, [x \in 1 .. Len(other) |-> Signed!Cell(other[x], <<>>)])
               /\ smlen' = BYTES + Len(other) /\ openctx' = c
    <3>1. PICK other \in Signed!Messages, c \in Signed!Contexts :
               /\ scheme = "sphincs" => c = <<>>
               /\ mem' = Signed!Put(BYTES, [x \in 1 .. Len(other) |-> Signed!Cell(other[x], <<>>)])
               /\ smlen' = BYTES + Len(other) /\ openctx' = c
      BY <2>6
    <3> DEFINE l == Len(other)
               cells == [x \in 1 .. l |-> Signed!Cell(other[x], <<>>)]
               V == {cells[x] : x \in 1 .. l}
    <3>2. l \in Nat /\ l <= MaxLength BY IsMessage
    <3>3. cells \in [1 .. l -> V] OBVIOUS
    <3>4. mem' = Signed!Put(BYTES, cells) BY <3>1
    <3> HIDE DEF l, cells, V
    <3>5. Len(cells) = l BY <3>2, <3>3, IsSequence
    <3>6. /\ mem' = [a \in Cells |-> mem'[a]]
          /\ \A a \in Cells : mem'[a] = IF BYTES <= a /\ a < BYTES + l THEN cells[a - BYTES + 1] ELSE mem[a]
      BY <3>2, <3>4, <3>5, SignedSizes, Written
    <3>7. 0 \in Cells /\ ~(BYTES <= 0) BY SignedSizes DEF Cells
    <3>8. smlen' \in 0 .. BYTES + MaxLength BY <3>1, <3>2, SignedSizes DEF l
    <3> QED BY <3>1, <3>6, <3>7, <3>8
  <2> QED BY <2>3, <2>4, <2>5, <2>6 DEF Signed!Deliver
<1>6. Inputs' BY <1>1, <1>2, <1>5, SameInputs
<1>7. Received'
  <2>1. Signed!TooLong(ctx)' <=> Signed!TooLong(ctx) BY <1>1 DEF Signed!TooLong
  <2>2. ~Signed!TooLong(ctx) BY <1>2 DEF HasSigned
  <2>3. Signed!pre(ctx)' = Signed!pre(ctx) BY <1>1 DEF Signed!pre
  <2>4. Signed!Cell(-1, Signed!pre(ctx) \o message)' = Signed!Cell(-1, Signed!pre(ctx) \o message)
    BY <1>1, <2>3 DEF Signed!Cell
  <2>5. Signed!Zero' = Signed!Zero BY DEF Signed!Zero, Signed!Cell
  <2>6. FirstByte' BY <1>4, <1>5, <2>4, <2>5 DEF FirstByte
  <2> QED BY <1>1, <2>1, <2>2, <2>6 DEF Received
<1>8. Signed!OpensWhatWasSigned'
  BY <1>1 DEF Signed!OpensWhatWasSigned, Signed!SignsTheMessage, Signed!OnlyWhatWasSigned, Signed!NothingIsLeft
<1> QED BY <1>1, <1>5, <1>6, <1>7, <1>8 DEF SignedInv

(* What verifies is the message that was signed, with its context. *)
LEMMA VerifiedIsSigned ==
  ASSUME Signed!SizesAssumption, Inputs, Received, smlen \in 0 .. BYTES + MaxLength,
         smlen >= BYTES, Signed!Verified
  PROVE  openctx = ctx /\ Signed!Bytes(BYTES, smlen - BYTES) = message
<1> DEFINE l == smlen - BYTES
           found == Signed!Bytes(BYTES, l)
           V == {found[x] : x \in 1 .. l}
           S == Nat \cup V
<1>1. l \in Nat BY SignedSizes
<1>2. found \in [1 .. l -> S] BY DEF Signed!Bytes
<1>3. ~Signed!TooLong(openctx) /\ mem[0] = Signed!Cell(-1, Signed!pre(openctx) \o found)
  <2>1. 1 \in 1 .. BYTES /\ 1 - 1 = 0 BY SignedSizes
  <2> QED BY <2>1 DEF Signed!Verified
<1>4. Signed!pre(ctx) \o message = Signed!pre(openctx) \o found
  <2>1. mem[0] # Signed!Zero BY <1>3 DEF Signed!Zero, Signed!Cell
  <2>2. Signed!Cell(-1, Signed!pre(ctx) \o message) = Signed!Cell(-1, Signed!pre(openctx) \o found)
    BY <1>3, <2>1 DEF Received, FirstByte
  <2> HIDE DEF found
  <2>3. /\ Signed!Cell(-1, Signed!pre(ctx) \o message).of = Signed!pre(ctx) \o message
        /\ Signed!Cell(-1, Signed!pre(openctx) \o found).of = Signed!pre(openctx) \o found
    BY CellOf
  <2> QED BY <2>2, <2>3
<1>5. Nat \subseteq S OBVIOUS
<1> HIDE DEF found, l, V, S
<1>6. found \in Seq(S) BY <1>1, <1>2, IsSequence
<1>7. Values \subseteq S BY <1>5, SignedSizes
<1>8. message \in Seq(S)
  <2>1. message \in Seq(Values) BY MessageTypes
  <2> QED BY <1>7, <2>1, SeqMonotonic
<1>9. CASE scheme = "dilithium"
  <2>1. ctx \in Signed!Contexts /\ openctx \in Signed!Contexts /\ ~Signed!TooLong(ctx)
    BY DEF Inputs, Received
  <2>2. ctx \in Seq(Values) /\ openctx \in Seq(Values) BY <1>3, <1>9, <2>1, IsContext
  <2>3. ctx \in Seq(S) /\ openctx \in Seq(S) BY <1>7, <2>2, SeqMonotonic
  <2>4. ctx = openctx /\ message = found
    BY <1>4, <1>6, <1>8, <1>9, <2>3, PrefixIsSeparate DEF S
  <2> QED BY <2>4 DEF found, l
<1>10. CASE scheme = "sphincs"
  <2>1. ctx = <<>> /\ openctx = <<>> BY <1>10 DEF Inputs
  <2>2. Signed!pre(ctx) = <<>> /\ Signed!pre(openctx) = <<>> BY <1>10 DEF Signed!pre
  <2>3. <<>> \o message = message /\ <<>> \o found = found BY <1>6, <1>8, ConcatEmptySeq
  <2> QED BY <1>4, <2>1, <2>2, <2>3 DEF found, l
<1> QED BY <1>9, <1>10 DEF Inputs

LEMMA NextByte ==
  ASSUME NEW b \in Nat, NEW l \in Nat, NEW x \in 0 .. l - 1
  PROVE  x + 1 \in 1 .. l /\ b + (x + 1) - 1 = b + x
OBVIOUS

LEMMA SignedOpen ==
  ASSUME Signed!SizesAssumption
  PROVE  SignedInv /\ Signed!Open => SignedInv'
<1> SUFFICES ASSUME SignedInv, Signed!Open PROVE SignedInv'
  OBVIOUS
<1>1. /\ pc = "open" /\ UNCHANGED <<scheme, message, ctx, mem, at, smlen, n, ret, openctx>>
  BY DEF Signed!Open, Signed!signing
<1>2. Inputs /\ Received /\ smlen \in 0 .. BYTES + MaxLength BY <1>1 DEF SignedInv
<1>3. /\ Len(message) \in Nat /\ mem = [a \in Cells |-> mem[a]]
      /\ message \in Seq(Values) /\ message \in [1 .. Len(message) -> Values]
  BY <1>2, MessageTypes
<1>4. Inputs'
  <2>1. at' \in {0, Signed!Apart} /\ openctx' \in Signed!Contexts /\ (scheme = "sphincs" => openctx' = <<>>)
    BY <1>1, <1>2 DEF Inputs
  <2> QED BY <1>1, <1>2, <1>3, <2>1, SameInputs
<1>5. CASE smlen >= BYTES /\ Signed!Verified
  <2>1. pc' = "give" /\ mlen' = smlen - BYTES BY <1>5 DEF Signed!Open
  <2>2. openctx = ctx /\ Signed!Bytes(BYTES, smlen - BYTES) = message
    BY <1>2, <1>5, VerifiedIsSigned
  <2> DEFINE l == smlen - BYTES
  <2>3. l \in Nat BY <1>2, <1>5, SignedSizes
  <2>4. message = [x \in 1 .. l |-> mem[BYTES + x - 1].value] BY <2>2 DEF Signed!Bytes
  <2> HIDE DEF l
  <2>5. l = Len(message)
    <3>1. message \in [1 .. l -> {mem[BYTES + x - 1].value : x \in 1 .. l}] BY <2>4
    <3> QED BY <2>3, <3>1, IsSequence
  <2>6. MessageFrom(BYTES, 0)
    <3> SUFFICES ASSUME NEW x \in 0 .. Len(message) - 1 PROVE mem[BYTES + x].value = message[x + 1]
      BY DEF MessageFrom
    <3>0. x \in 0 .. l - 1 /\ BYTES \in Nat BY <2>5, SignedSizes, Zenon
    <3>1. x + 1 \in 1 .. l /\ BYTES + (x + 1) - 1 = BYTES + x BY <2>3, <3>0, NextByte, Zenon
    <3>2. message[x + 1] = mem[BYTES + (x + 1) - 1].value BY <2>4, <3>1
    <3> QED BY <3>1, <3>2
  <2>7. MessageFrom(BYTES, 0)' BY <1>1, <2>6 DEF MessageFrom
  <2>8. Giving'
    <3>1. n' = 0 BY <1>1, <1>2 DEF Received
    <3>2. mlen' = Len(message)' BY <1>1, <2>1, <2>5 DEF l
    <3>3. 0 .. n' - 1 = {} BY <3>1
    <3>4. openctx' = ctx' /\ MessageFrom(BYTES, n)' BY <1>1, <2>2, <2>7, <3>1 DEF MessageFrom
    <3>5. n' \in Nat /\ n' <= mlen' BY <1>1, <1>3, <3>1, <3>2
    <3> QED BY <3>2, <3>3, <3>4, <3>5 DEF Giving
  <2>9. Signed!OpensWhatWasSigned'
    BY <2>1 DEF Signed!OpensWhatWasSigned, Signed!SignsTheMessage, Signed!OnlyWhatWasSigned, Signed!NothingIsLeft
  <2> QED BY <1>1, <1>2, <1>4, <2>1, <2>8, <2>9 DEF SignedInv
<1>6. CASE ~(smlen >= BYTES /\ Signed!Verified)
  <2>1. pc' = "wipe" /\ mlen' = 0 BY <1>6 DEF Signed!Open
  <2>2. Wiping'
    <3>1. n' = 0 BY <1>1, <1>2 DEF Received
    <3>2. 0 .. n' - 1 = {} /\ n' \in Nat /\ n' <= smlen' BY <1>1, <1>2, <3>1
    <3> QED BY <2>1, <3>2 DEF Wiping
  <2>3. Signed!OpensWhatWasSigned'
    BY <2>1 DEF Signed!OpensWhatWasSigned, Signed!SignsTheMessage, Signed!OnlyWhatWasSigned, Signed!NothingIsLeft
  <2> QED BY <1>1, <1>2, <1>4, <2>1, <2>2, <2>3 DEF SignedInv
<1> QED BY <1>5, <1>6

LEMMA SignedGive ==
  ASSUME Signed!SizesAssumption
  PROVE  SignedInv /\ Signed!Give => SignedInv'
<1> SUFFICES ASSUME SignedInv, Signed!Give PROVE SignedInv'
  OBVIOUS
<1>1. /\ pc = "give" /\ UNCHANGED <<scheme, message, ctx, at, mlen, smlen, openctx>>
  BY DEF Signed!Give, Signed!signing
<1>2. Inputs /\ Giving /\ smlen \in 0 .. BYTES + MaxLength BY <1>1 DEF SignedInv
<1>3. /\ Len(message) \in Nat /\ at \in Nat /\ mem = [a \in Cells |-> mem[a]]
      /\ message \in [1 .. Len(message) -> Values]
  BY <1>2, MessageTypes
<1>4. /\ openctx = ctx /\ mlen = Len(message) /\ n \in Nat /\ n <= mlen
      /\ \A x \in 0 .. n - 1 : mem[at + x].value = message[x + 1]
      /\ \A x \in n .. Len(message) - 1 : mem[BYTES + x].value = message[x + 1]
  BY <1>2 DEF Giving, MessageFrom
<1>5. at' \in {0, Signed!Apart} /\ openctx' \in Signed!Contexts /\ (scheme = "sphincs" => openctx' = <<>>)
  BY <1>1, <1>2 DEF Inputs
<1>6. CASE n < mlen
  <2>1. mem' = [mem EXCEPT ![at + n] = mem[BYTES + n]] /\ n' = n + 1 /\ pc' = "give"
    BY <1>1, <1>6 DEF Signed!Give
  <2>2. mem' = [a \in Cells |-> mem'[a]] BY <1>3, <2>1
  <2>3. \A a \in Cells : mem'[a] = IF a = at + n THEN mem[BYTES + n] ELSE mem[a] BY <1>3, <2>1
  <2>4. Inputs' BY <1>1, <1>2, <1>5, <2>2, SameInputs
  <2>5. n < Len(message) /\ n \in n .. Len(message) - 1 BY <1>3, <1>4, <1>6
  <2>6. at + n \in Cells BY <1>2, <1>4, <2>5, Inside
  <2>7. mem[BYTES + n].value = message[n + 1] BY <1>4, <2>5
  <2>8. ASSUME NEW x \in 0 .. n PROVE mem'[at + x].value = message[x + 1]
    <3>1. CASE x = n BY <2>3, <2>6, <2>7, <3>1
    <3>2. CASE x # n
      <4>1. x \in Nat /\ x \in 0 .. n - 1 /\ x < Len(message) BY <1>3, <1>4, <2>5, <3>2
      <4>2. at + x \in Cells /\ at + x # at + n BY <1>2, <1>4, <3>2, <4>1, Inside
      <4> QED BY <1>4, <2>3, <4>1, <4>2
    <3> QED BY <3>1, <3>2
  <2>9. ASSUME NEW x \in n + 1 .. Len(message) - 1 PROVE mem'[BYTES + x].value = message[x + 1]
    <3>1. x \in Nat /\ n < x /\ x < Len(message) /\ x \in n .. Len(message) - 1 BY <1>3, <1>4
    <3>2. BYTES + x \in Cells BY <1>2, <3>1, Inside
    <3>3. at + n # BYTES + x BY <1>2, <1>4, <2>5, <3>1, Inside
    <3> QED BY <1>4, <2>3, <3>1, <3>2, <3>3
  <2>10. Giving'
    <3>1. \A x \in 0 .. (n + 1) - 1 : mem'[at + x].value = message[x + 1]
      <4>1. (n + 1) - 1 = n BY <1>4
      <4> QED BY <2>8, <4>1
    <3>2. n' \in Nat /\ n' <= mlen BY <1>3, <1>4, <1>6, <2>1
    <3>3. MessageFrom(BYTES, n)' BY <1>1, <2>1, <2>9 DEF MessageFrom
    <3> QED BY <1>1, <1>4, <2>1, <3>1, <3>2, <3>3 DEF Giving
  <2>11. Signed!OpensWhatWasSigned'
    BY <2>1 DEF Signed!OpensWhatWasSigned, Signed!SignsTheMessage, Signed!OnlyWhatWasSigned, Signed!NothingIsLeft
  <2> QED BY <1>1, <1>2, <2>1, <2>4, <2>10, <2>11 DEF SignedInv
<1>7. CASE ~(n < mlen)
  <2>1. pc' = "done" /\ ret' = 0 /\ mem' = mem /\ n' = n BY <1>7 DEF Signed!Give
  <2>2. Inputs' BY <1>1, <1>2, <1>3, <1>5, <2>1, SameInputs
  <2>3. n = Len(message) BY <1>3, <1>4, <1>7
  <2>4. Signed!Bytes(at, mlen) = message BY <1>3, <1>4, <2>3, HoldsMessage
  <2>5. Signed!Bytes(at, mlen)' = message' BY <1>1, <2>1, <2>4 DEF Signed!Bytes
  <2>6. Signed!OpensWhatWasSigned'
    BY <1>1, <1>4, <2>1, <2>5
    DEF Signed!OpensWhatWasSigned, Signed!SignsTheMessage, Signed!OnlyWhatWasSigned, Signed!NothingIsLeft
  <2> QED BY <1>1, <1>2, <2>1, <2>2, <2>6 DEF SignedInv
<1> QED BY <1>6, <1>7

LEMMA SignedWipe ==
  ASSUME Signed!SizesAssumption
  PROVE  SignedInv /\ Signed!Wipe => SignedInv'
<1> SUFFICES ASSUME SignedInv, Signed!Wipe PROVE SignedInv'
  OBVIOUS
<1>1. /\ pc = "wipe" /\ UNCHANGED <<scheme, message, ctx, at, mlen, smlen, openctx>>
  BY DEF Signed!Wipe, Signed!signing
<1>2. Inputs /\ Wiping /\ smlen \in 0 .. BYTES + MaxLength BY <1>1 DEF SignedInv
<1>3. at \in Nat /\ mem = [a \in Cells |-> mem[a]] BY <1>2, MessageTypes
<1>4. mlen = 0 /\ n \in Nat /\ n <= smlen /\ smlen \in Nat /\ smlen <= BYTES + MaxLength
  BY <1>2, SignedSizes DEF Wiping
<1>5. \A x \in 0 .. n - 1 : mem[at + x] = Signed!Zero BY <1>2 DEF Wiping
<1>6. at' \in {0, Signed!Apart} /\ openctx' \in Signed!Contexts /\ (scheme = "sphincs" => openctx' = <<>>)
  BY <1>1, <1>2 DEF Inputs
<1>7. CASE n < smlen
  <2>1. mem' = [mem EXCEPT ![at + n] = Signed!Zero] /\ n' = n + 1 /\ pc' = "wipe"
    BY <1>1, <1>7 DEF Signed!Wipe, Signed!ToWipe
  <2>2. mem' = [a \in Cells |-> mem'[a]] BY <1>3, <2>1
  <2>3. \A a \in Cells : mem'[a] = IF a = at + n THEN Signed!Zero ELSE mem[a] BY <1>3, <2>1
  <2>4. Inputs' BY <1>1, <1>2, <1>6, <2>2, SameInputs
  <2>5. ASSUME NEW x \in 0 .. n PROVE mem'[at + x] = Signed!Zero
    <3>1. at + x \in Cells
      <4>1. at <= BYTES + MaxLength BY <1>2, SignedSizes DEF Inputs
      <4>2. at + x \in 0 .. 2 * (BYTES + MaxLength) - 1 BY <1>3, <1>4, <1>7, <4>1, SignedSizes
      <4> QED BY <4>2, SignedSizes DEF Cells
    <3>2. CASE x = n BY <2>3, <3>1, <3>2
    <3>3. CASE x # n
      <4>1. x \in 0 .. n - 1 /\ at + x # at + n BY <1>3, <1>4, <3>3
      <4> QED BY <1>5, <2>3, <3>1, <4>1
    <3> QED BY <3>2, <3>3
  <2>6. Wiping'
    <3>1. Signed!Zero' = Signed!Zero BY DEF Signed!Zero, Signed!Cell
    <3>2. n + 1 \in Nat /\ n + 1 <= smlen /\ (n + 1) - 1 = n BY <1>4, <1>7
    <3>3. \A x \in 0 .. (n + 1) - 1 : mem'[at + x] = Signed!Zero BY <2>5, <3>2
    <3> QED BY <1>1, <1>4, <2>1, <3>1, <3>2, <3>3 DEF Wiping
  <2>7. Signed!OpensWhatWasSigned'
    BY <2>1 DEF Signed!OpensWhatWasSigned, Signed!SignsTheMessage, Signed!OnlyWhatWasSigned, Signed!NothingIsLeft
  <2> QED BY <1>1, <1>2, <2>1, <2>4, <2>6, <2>7 DEF SignedInv
<1>8. CASE ~(n < smlen)
  <2>1. pc' = "done" /\ ret' = -1 /\ mem' = mem /\ n' = n
    BY <1>8 DEF Signed!Wipe, Signed!ToWipe
  <2>2. Inputs' BY <1>1, <1>2, <1>3, <1>6, <2>1, SameInputs
  <2>3. n = smlen BY <1>4, <1>8
  <2>4. \A x \in 0 .. smlen - 1 : mem[at + x] = Signed!Zero BY <1>5, <2>3
  <2>5. Signed!Zero' = Signed!Zero BY DEF Signed!Zero, Signed!Cell
  <2>6. Signed!OpensWhatWasSigned'
    BY <1>1, <1>4, <2>1, <2>4, <2>5
    DEF Signed!OpensWhatWasSigned, Signed!SignsTheMessage, Signed!OnlyWhatWasSigned, Signed!NothingIsLeft
  <2> QED BY <1>1, <1>2, <2>1, <2>2, <2>6 DEF SignedInv
<1> QED BY <1>7, <1>8

LEMMA SignedSame == SignedInv /\ UNCHANGED Signed!vars => SignedInv'
<1> SUFFICES ASSUME SignedInv, UNCHANGED Signed!vars PROVE SignedInv'
  OBVIOUS
<1>1. UNCHANGED <<scheme, message, ctx, mem, at, mlen, smlen, pc, n, ret, openctx>> BY DEF Signed!vars
<1>2. Inputs => Inputs'
  BY <1>1 DEF Inputs, Cells, Signed!Size, Signed!Messages, Signed!Contexts, Signed!Strings, Signed!Apart
<1>3. (Copying => Copying') /\ (Giving => Giving') BY <1>1 DEF Copying, Giving, MessageFrom
<1>4. HasSigned => HasSigned'
  BY <1>1 DEF HasSigned, MessageFrom, Signed!TooLong, Signed!Cell, Signed!pre
<1>5. Received => Received'
  BY <1>1 DEF Received, FirstByte, Signed!TooLong, Signed!Zero, Signed!Cell, Signed!pre
<1>6. Wiping => Wiping' BY <1>1 DEF Wiping, Signed!Zero, Signed!Cell
<1>7. Signed!OpensWhatWasSigned => Signed!OpensWhatWasSigned'
  BY <1>1 DEF Signed!OpensWhatWasSigned, Signed!SignsTheMessage, Signed!OnlyWhatWasSigned,
    Signed!NothingIsLeft, Signed!Bytes, Signed!Zero, Signed!Cell, Signed!pre
<1> QED BY <1>1, <1>2, <1>3, <1>4, <1>5, <1>6, <1>7 DEF SignedInv

(* For messages, contexts and signatures of every length, crypto_sign puts *)
(* the message and its signature into the buffer even where the message    *)
(* was in it, and crypto_sign_open gives back what was signed, under the   *)
(* context it was signed for, or leaves no byte of it, also where the      *)
(* message goes on top of the signed message (dilithium/ref/sign.c:256-    *)
(* 271, 413-440; sphincsplus/ref/sign.c).                                  *)
THEOREM OnlySignedIsOpened ==
  ASSUME Signed!SizesAssumption
  PROVE  Signed!Spec => []Signed!OpensWhatWasSigned
<1>1. Signed!Init => SignedInv BY SignedInit
<1>2. SignedInv /\ [Signed!Next]_(Signed!vars) => SignedInv'
  BY SignedCopyUp, SignedSignDilithium, SignedSignSphincs, SignedDeliver, SignedOpen, SignedGive,
     SignedWipe, SignedSame DEF Signed!Next
<1>3. SignedInv => Signed!OpensWhatWasSigned BY DEF SignedInv
<1> QED BY <1>1, <1>2, <1>3, PTL DEF Signed!Spec

-----------------------------------------------------------------------------
(* The nonce of the signing loop. *)
CONSTANTS Width, Wide, Vectors
VARIABLES L, accepted, nonce, nonceAvx, polys, polysAvx, used, attempts

Rejection == INSTANCE MlDsaRejection

(* The two counters stand at the same polynomial, and until the numbers    *)
(* run out the polynomials so far are those up to it.                      *)
RejectionInv ==
  /\ L \in Vectors /\ attempts \in Nat
  /\ nonce \in 0 .. Width - 1 /\ nonceAvx \in Nat
  /\ nonceAvx % Width = (L * nonce) % Width
  /\ polysAvx = polys
  /\ L * attempts <= Width => nonce = attempts % Width /\ used = 0 .. L * attempts - 1

LEMMA RejectionSizes ==
  ASSUME Rejection!WidthsAssumption, Rejection!VectorsAssumption
  PROVE  /\ Width \in Nat \ {0} /\ Wide \in Nat \ {0} /\ Wide % Width = 0
         /\ \A l \in Vectors : l \in Nat \ {0}
  BY DEF Rejection!WidthsAssumption, Rejection!VectorsAssumption

LEMMA RejectionInit ==
  ASSUME Rejection!WidthsAssumption, Rejection!VectorsAssumption
  PROVE  Rejection!Init => RejectionInv
<1> SUFFICES ASSUME Rejection!Init PROVE RejectionInv
  OBVIOUS
<1>1. /\ L \in Vectors /\ nonce = 0 /\ nonceAvx = 0 /\ polysAvx = polys /\ used = {} /\ attempts = 0
  BY DEF Rejection!Init
<1>2. L * 0 = 0 /\ 0 % Width = 0 /\ 0 .. 0 - 1 = {} /\ 0 \in 0 .. Width - 1
  BY <1>1, RejectionSizes
<1> QED BY <1>1, <1>2 DEF RejectionInv

(* One attempt more. *)
LEMMA OneMore ==
  ASSUME NEW l \in Nat \ {0}, NEW x \in Nat
  PROVE  /\ l * (x + 1) = l * x + l /\ l * x \in Nat
         /\ x <= l * x
  OBVIOUS

LEMMA RejectionSample ==
  ASSUME Rejection!WidthsAssumption, Rejection!VectorsAssumption
  PROVE  RejectionInv /\ Rejection!Sample => RejectionInv'
<1> SUFFICES ASSUME RejectionInv, Rejection!Sample PROVE RejectionInv'
  OBVIOUS
<1>1. /\ polys' = {(L * nonce + x) % Width : x \in 0 .. L - 1}
      /\ polysAvx' = {(nonceAvx + x) % Width : x \in 0 .. L - 1}
      /\ nonce' = (nonce + 1) % Width /\ nonceAvx' = (nonceAvx + L) % Wide
      /\ used' = used \cup polys' /\ L' = L
      /\ attempts' = IF attempts > Width THEN attempts ELSE attempts + 1
  BY DEF Rejection!Sample, Rejection!uniform_gamma1
<1>2. /\ L \in Vectors /\ attempts \in Nat
      /\ nonce \in 0 .. Width - 1 /\ nonceAvx \in Nat
      /\ nonceAvx % Width = (L * nonce) % Width
      /\ L * attempts <= Width => nonce = attempts % Width /\ used = 0 .. L * attempts - 1
  BY DEF RejectionInv
<1>3. /\ Width \in Nat \ {0} /\ Wide \in Nat \ {0} /\ Wide % Width = 0
      /\ L \in Nat \ {0} /\ nonce \in Nat
  BY <1>2, RejectionSizes
<1>4. L * nonce \in Nat BY <1>3
<1>5. ASSUME NEW x \in Nat PROVE (nonceAvx + x) % Width = (L * nonce + x) % Width
  <2> DEFINE p == L * nonce
  <2>1. p \in Nat /\ nonceAvx % Width = p % Width BY <1>2, <1>4
  <2>2. nonceAvx \in Nat /\ Width \in Nat \ {0} BY <1>2, <1>3
  <2> HIDE DEF p
  <2>3. (nonceAvx + x) % Width = (p + x) % Width BY <2>1, <2>2, SameMove, ZenonT(40)
  <2> QED BY <2>3 DEF p
<1>6. polysAvx' = polys'
  <2>1. \A x \in 0 .. L - 1 : x \in Nat BY <1>3
  <2>2. \A x \in Nat : (nonceAvx + x) % Width = (L * nonce + x) % Width BY <1>5
  <2> QED BY <1>1, <2>1, <2>2
<1>7. nonce' \in 0 .. Width - 1 /\ nonceAvx' \in Nat /\ attempts' \in Nat
  <2>1. nonce + 1 \in Nat /\ nonceAvx + L \in Nat BY <1>2, <1>3
  <2>2. nonce' \in 0 .. Width - 1 /\ nonceAvx' \in 0 .. Wide - 1
    BY <1>1, <1>3, <2>1, RemainderInRange
  <2>3. attempts' \in Nat BY <1>1, <1>2
  <2> QED BY <2>2, <2>3
<1>8. nonceAvx' % Width = (L * nonce') % Width
  <2>1. nonceAvx + L \in Nat /\ nonce + 1 \in Nat BY <1>2, <1>3
  <2>2. nonceAvx' % Width = (nonceAvx + L) % Width BY <1>1, <1>3, <2>1, CutTwice
  <2>3. (nonceAvx + L) % Width = (L * nonce + L) % Width BY <1>3, <1>5
  <2>4. L * (nonce + 1) = L * nonce + L BY <1>3, OneMore
  <2>5. (L * nonce') % Width = (L * (nonce + 1)) % Width
    BY <1>1, <1>3, <2>1, MultipleOfRemainder
  <2> QED BY <2>2, <2>3, <2>4, <2>5
<1>9. ASSUME L * attempts' <= Width
      PROVE  nonce' = attempts' % Width /\ used' = 0 .. L * attempts' - 1
  <2>1. attempts' = attempts + 1
    <3>1. attempts' \in Nat /\ attempts' <= L * attempts' /\ L * attempts' \in Nat
      BY <1>3, <1>7, OneMore
    <3> DEFINE s == L * attempts'
    <3>2. s \in Nat /\ attempts' <= s /\ s <= Width BY <1>9, <3>1
    <3> HIDE DEF s
    <3>3. attempts' <= Width BY <1>3, <3>1, <3>2
    <3> QED BY <1>1, <1>2, <1>3, <3>3
  <2>2. L * attempts' = L * attempts + L /\ L * attempts \in Nat /\ attempts <= L * attempts
    BY <1>2, <1>3, <2>1, OneMore
  <2> DEFINE s == L * attempts
  <2>3. s \in Nat /\ s + L <= Width /\ attempts <= s BY <1>9, <2>2
  <2> HIDE DEF s
  <2>4. attempts \in 0 .. Width - 1 /\ s <= Width BY <1>2, <1>3, <2>3
  <2>5. nonce = attempts /\ used = 0 .. s - 1
    <3>1. attempts % Width = attempts BY <1>3, <2>4, RemainderOfSmall
    <3> QED BY <1>2, <2>4, <3>1 DEF s
  <2>6. \A x \in 0 .. L - 1 : (s + x) % Width = s + x
    <3> SUFFICES ASSUME NEW x \in 0 .. L - 1 PROVE (s + x) % Width = s + x  OBVIOUS
    <3>1. s + x \in 0 .. Width - 1 BY <1>3, <2>3
    <3> QED BY <1>3, <3>1, RemainderOfSmall
  <2>7. polys' = {s + x : x \in 0 .. L - 1}
    <3>1. polys' = {(s + x) % Width : x \in 0 .. L - 1} BY <1>1, <2>5 DEF s
    <3> QED BY <2>6, <3>1
  <2>8. used' = 0 .. (s + L) - 1
    <3>1. ASSUME NEW x \in s .. (s + L) - 1 PROVE x \in {s + y : y \in 0 .. L - 1}
      <4>1. x - s \in 0 .. L - 1 /\ x = s + (x - s) BY <1>3, <2>3
      <4> QED BY <4>1
    <3>2. {s + y : y \in 0 .. L - 1} \subseteq s .. (s + L) - 1 BY <1>3, <2>3
    <3>3. polys' = s .. (s + L) - 1 BY <2>7, <3>1, <3>2
    <3>4. 0 .. (s + L) - 1 = (0 .. s - 1) \cup (s .. (s + L) - 1) BY <1>3, <2>3
    <3> QED BY <1>1, <2>5, <3>3, <3>4
  <2>9. L * attempts' = s + L BY <2>2 DEF s
  <2> QED BY <1>1, <2>1, <2>5, <2>8, <2>9
<1> QED BY <1>1, <1>2, <1>6, <1>7, <1>8, <1>9 DEF RejectionInv

(* For 16 bits and 64, or whatever else the two counters have, and for     *)
(* every L: until L times the attempts pass what 16 bits hold no y is      *)
(* sampled twice, and even after that the two builds sample the same y     *)
(* (polyvec.c:46, avx2/sign.c:204).                                        *)
THEOREM NoncesStayFresh ==
  ASSUME Rejection!WidthsAssumption, Rejection!VectorsAssumption
  PROVE  Rejection!Spec => []Rejection!NoncesAreFresh
<1>1. Rejection!Init => RejectionInv BY RejectionInit
<1>2. RejectionInv /\ [Rejection!Next]_(Rejection!vars) => RejectionInv'
  <2> SUFFICES ASSUME RejectionInv, [Rejection!Next]_(Rejection!vars) PROVE RejectionInv'
    OBVIOUS
  <2>1. CASE Rejection!Sample BY <2>1, RejectionSample
  <2>2. CASE UNCHANGED <<L, nonce, nonceAvx, polys, polysAvx, used, attempts>>
    BY <2>2 DEF RejectionInv
  <2> QED BY <2>1, <2>2 DEF Rejection!Next, Rejection!GiveUp, Rejection!Write, Rejection!vars
<1>3. RejectionInv => Rejection!NoncesAreFresh
  <2> SUFFICES ASSUME RejectionInv PROVE Rejection!NoncesAreFresh  OBVIOUS
  <2>1. L \in Nat \ {0} /\ attempts \in Nat BY RejectionSizes DEF RejectionInv
  <2>2. L * attempts \in Nat BY <2>1, OneMore
  <2>3. ASSUME L * attempts <= Width PROVE Cardinality(used) = L * attempts
    <3> DEFINE s == L * attempts
    <3>1. used = 0 .. s - 1 BY <2>3 DEF RejectionInv
    <3>2. s \in Nat BY <2>2
    <3> HIDE DEF s
    <3>3. Cardinality(0 .. s - 1) = s
      <4>1. 0 \in Int /\ s - 1 \in Int BY <3>2
      <4>2. Cardinality(0 .. s - 1) = IF 0 > s - 1 THEN 0 ELSE (s - 1) - 0 + 1
        BY <4>1, FS_Interval
      <4> QED BY <3>2, <4>2
    <3> QED BY <3>1, <3>3 DEF s
  <2>4. Rejection!SameY BY DEF RejectionInv, Rejection!SameY
  <2>5. Rejection!Cardinality(used) = Cardinality(used) BY DEF Rejection!Cardinality, Cardinality
  <2> QED BY <2>3, <2>4, <2>5 DEF Rejection!NoncesAreFresh, Rejection!FreshWhileTheyLast
<1> QED BY <1>1, <1>2, <1>3, PTL DEF Rejection!Spec
=============================================================================
