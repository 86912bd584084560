--------------------------- MODULE MlRandomSource ---------------------------
(***************************************************************************)
(* The random-data source of ML-DSA (src/ml_dsa/utils.c): three file-scope *)
(* variables, the two functions that set and clear them, and the copy loop *)
(* that `randombytes` runs.  One iteration of the loop is one step.  The   *)
(* module is about one caller at a time; SigningThreads is about several.  *)
(***************************************************************************)
EXTENDS Integers

CONSTANTS
  BufferSizes,    \* values of random_data_size
  RequestSizes,   \* values of outlen
  SizeMod         \* 2^(width of size_t)

ASSUME SizesAssumption ==
  /\ BufferSizes \subseteq Nat \ {0}
  /\ RequestSizes \subseteq Nat

ASSUME SizeModAssumption ==
  /\ SizeMod \in Nat
  /\ \A n \in BufferSizes \cup RequestSizes : n < SizeMod

VARIABLES
  g_random_data,          \* TRUE when the pointer is not NULL
  g_random_data_size,
  g_random_data_offset,
  pc,                     \* "idle", or "loop" inside the while loop
  out,                    \* the caller's buffer, each byte by its origin
  outlen,
  total_copied,
  delivered,              \* what the last request returned
  start                   \* history: the offset when the request began

source == <<g_random_data, g_random_data_size, g_random_data_offset>>
request == <<out, outlen, total_copied, start>>
vars == <<source, pc, request, delivered>>

OsByte == -1
ZeroByte == -2
Unset == -3
Bytes == Nat \cup {OsByte, ZeroByte, Unset}

(* Subtraction on size_t. *)
SubSize(a, b) == IF a >= b THEN a - b ELSE a - b + SizeMod

SystemBytes(m, len) == [k \in 0 .. len - 1 |-> IF k < m THEN OsByte ELSE ZeroByte]

Init ==
  /\ g_random_data = FALSE
  /\ g_random_data_size = 0
  /\ g_random_data_offset = 0
  /\ pc = "idle"
  /\ out = SystemBytes(0, 0)
  /\ outlen = 0
  /\ total_copied = 0
  /\ delivered = SystemBytes(0, 0)
  /\ start = 0

(* Mistake: the offset of the last caller is kept. *)
InitKeepsOffset(n) ==
  /\ pc = "idle"
  /\ g_random_data' = TRUE
  /\ g_random_data_size' = n
  /\ UNCHANGED <<g_random_data_offset, pc, request, delivered>>

ml_dsa_init_random_source(n) ==
  /\ pc = "idle"
  /\ g_random_data' = TRUE
  /\ g_random_data_size' = n
  /\ g_random_data_offset' = 0
  /\ UNCHANGED <<pc, request, delivered>>

ml_dsa_restore_original_random ==
  /\ pc = "idle"
  /\ g_random_data' = FALSE
  /\ g_random_data_size' = 0
  /\ g_random_data_offset' = 0
  /\ UNCHANGED <<pc, request, delivered>>

NoSource == ~g_random_data \/ g_random_data_size = 0

(* Lines 43-45: nothing is asked for. *)
RequestNothing ==
  /\ pc = "idle"
  /\ 0 \in RequestSizes
  /\ delivered' = SystemBytes(0, 0)
  /\ UNCHANGED <<source, pc, request>>

(* Lines 48-66: fread gives m of the len bytes, none when fopen fails, and *)
(* the rest is set to zero.                                                *)
RequestSystem(len) ==
  /\ pc = "idle" /\ len # 0
  /\ NoSource
  /\ \E m \in 0 .. len : delivered' = SystemBytes(m, len)
  /\ UNCHANGED <<source, pc, request>>

(* Lines 43-69: the request is to be served from the installed buffer. *)
StartRequest(len) ==
  /\ pc = "idle" /\ len # 0
  /\ ~NoSource
  /\ pc' = "loop"
  /\ outlen' = len
  /\ out' = [k \in 0 .. len - 1 |-> Unset]
  /\ total_copied' = 0
  /\ start' = g_random_data_offset
  /\ UNCHANGED <<source, delivered>>

(* Lines 74-77. *)
ChunkSize ==
  LET wanted == outlen - total_copied
      remaining == SubSize(g_random_data_size, g_random_data_offset)
  IN  IF wanted > remaining THEN remaining ELSE wanted

(* Mistake: `>` for `>=`. *)
OffsetAfterLate(amount) ==
  LET moved == g_random_data_offset + amount
  IN  IF moved > g_random_data_size THEN 0 ELSE moved

(* Lines 83-89. *)
OffsetAfter(amount) ==
  LET moved == g_random_data_offset + amount
  IN  IF moved >= g_random_data_size THEN 0 ELSE moved

(* Lines 72-90: one iteration. *)
CopyChunk ==
  /\ pc = "loop"
  /\ total_copied < outlen
  /\ out' = [k \in 0 .. outlen - 1 |->
               IF k \in total_copied .. total_copied + ChunkSize - 1
               THEN g_random_data_offset + (k - total_copied)
               ELSE out[k]]
  /\ total_copied' = total_copied + ChunkSize
  /\ g_random_data_offset' = OffsetAfter(ChunkSize)
  /\ UNCHANGED <<g_random_data, g_random_data_size, pc, outlen, start, delivered>>

(* The loop condition fails and the function returns. *)
EndRequest ==
  /\ pc = "loop"
  /\ ~(total_copied < outlen)
  /\ pc' = "idle"
  /\ delivered' = out
  /\ UNCHANGED <<source, request>>

Next ==
  \/ \E n \in BufferSizes : ml_dsa_init_random_source(n)
  \/ ml_dsa_restore_original_random
  \/ RequestNothing
  \/ \E len \in RequestSizes : RequestSystem(len) \/ StartRequest(len)
  \/ CopyChunk
  \/ EndRequest

Spec == Init /\ [][Next]_vars

(* The loop is ordinary sequential code: once entered, it runs. *)
FairSpec == Spec /\ WF_vars(CopyChunk \/ EndRequest)
-----------------------------------------------------------------------------
TypeOK ==
  /\ g_random_data \in BOOLEAN
  /\ g_random_data_size \in BufferSizes \cup {0}
  /\ g_random_data_offset \in Nat
  /\ pc \in {"idle", "loop"}
  /\ outlen \in RequestSizes \cup {0}
  /\ total_copied \in 0 .. outlen
  /\ out \in [0 .. outlen - 1 -> Bytes]
  /\ start \in Nat

(* The read position stays inside the installed buffer, so `size - offset` *)
(* never wraps around and the copy never reads past the end of the buffer  *)
(* (utils.c:75-80).                                                        *)
OffsetInRange ==
  /\ g_random_data_size # 0 => g_random_data_offset < g_random_data_size
  /\ g_random_data_size = 0 => g_random_data_offset = 0

(* What the loop has copied so far is the cyclic repetition of the buffer  *)
(* from the offset the request began at, whatever number of times and      *)
(* wherever the copy wrapped around (utils.c:72-90).                       *)
FilledSoFar ==
  pc = "loop" =>
    \A k \in 0 .. total_copied - 1 : out[k] = (start + k) % g_random_data_size

(* The source does what CyclicSource promises: a request, however many     *)
(* chunks it takes, is one atomic read of the cyclic stream.               *)
Cyclic == INSTANCE CyclicSource WITH
  size <- g_random_data_size,
  position <- IF pc = "loop" THEN start ELSE g_random_data_offset

CyclicSpec == Cyclic!Spec

(* Every request returns: an iteration always copies at least one byte     *)
(* (utils.c:72-90).                                                        *)
RequestsEnd == pc = "loop" ~> pc = "idle"
=============================================================================
