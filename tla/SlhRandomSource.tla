-------------------------- MODULE SlhRandomSource --------------------------
(***************************************************************************)
(* The random-data source of SLH-DSA (src/slh_dsa/utils.c).  It differs    *)
(* from MlRandomSource in its loop: a request that fits is one copy, a     *)
(* longer one keeps `remaining` in a local variable and wraps the offset   *)
(* with `%`, and a short read of /dev/urandom discards what was read.      *)
(***************************************************************************)
EXTENDS Integers

CONSTANTS
  BufferSizes,    \* values of random_data_size
  RequestSizes,   \* values of outlen
  SizeMod         \* 2^(width of size_t)

ASSUME SizesAssumption ==
  /\ BufferSizes \subseteq Nat \ {0}
  /\ RequestSizes \subseteq Nat

ASSUME SizeModAssumption ==
  /\ SizeMod \in Nat
  /\ \A n \in BufferSizes \cup RequestSizes : n < SizeMod

VARIABLES
  g_random_data,          \* TRUE when the pointer is not NULL
  g_random_data_size,
  g_random_data_offset,
  pc,                     \* "idle", or "loop" inside the while loop
  out,                    \* the caller's buffer, each byte by its origin
  outlen,
  copied,                 \* the local `position`
  remaining,
  delivered,              \* what the last request returned
  start                   \* history: the offset when the request began

source == <<g_random_data, g_random_data_size, g_random_data_offset>>
request == <<out, outlen, copied, remaining, start>>
vars == <<source, pc, request, delivered>>

OsByte == -1
ZeroByte == -2
Unset == -3
Bytes == Nat \cup {OsByte, ZeroByte, Unset}

(* Subtraction on size_t. *)
SubSize(a, b) == IF a >= b THEN a - b ELSE a - b + SizeMod

SystemBytes(m, len) == [k \in 0 .. len - 1 |-> IF k < m THEN OsByte ELSE ZeroByte]

(* A copy of n bytes of the source, from its offset, to out + at. *)
CopyInto(at, n) ==
  [k \in DOMAIN out |->
     IF k \in at .. at + n - 1 THEN g_random_data_offset + (k - at) ELSE out[k]]

Init ==
  /\ g_random_data = FALSE
  /\ g_random_data_size = 0
  /\ g_random_data_offset = 0
  /\ pc = "idle"
  /\ out = SystemBytes(0, 0)
  /\ outlen = 0
  /\ copied = 0
  /\ remaining = 0
  /\ delivered = SystemBytes(0, 0)
  /\ start = 0

slh_dsa_init_random_source(n) ==
  /\ pc = "idle"
  /\ g_random_data' = TRUE
  /\ g_random_data_size' = n
  /\ g_random_data_offset' = 0
  /\ UNCHANGED <<pc, request, delivered>>

slh_dsa_restore_original_random ==
  /\ pc = "idle"
  /\ g_random_data' = FALSE
  /\ g_random_data_size' = 0
  /\ g_random_data_offset' = 0
  /\ UNCHANGED <<pc, request, delivered>>

NoSource == ~g_random_data \/ g_random_data_size = 0

(* Lines 54-70: all of the answer comes from fread or, when fopen or fread *)
(* fails, all of it is zero.                                               *)
RequestSystem(len) ==
  /\ pc = "idle"
  /\ NoSource
  /\ \E m \in {0, len} : delivered' = SystemBytes(m, len)
  /\ UNCHANGED <<source, pc, request>>

(* Mistake: the offset is not moved. *)
RequestFitsInPlace(len) ==
  /\ pc = "idle"
  /\ ~NoSource
  /\ len <= SubSize(g_random_data_size, g_random_data_offset)
  /\ delivered' = [k \in 0 .. len - 1 |-> g_random_data_offset + k]
  /\ UNCHANGED <<source, pc, request>>

(* Lines 73-75, 87-91: the request fits in what remains. *)
RequestFits(len) ==
  /\ pc = "idle"
  /\ ~NoSource
  /\ len <= SubSize(g_random_data_size, g_random_data_offset)
  /\ delivered' = [k \in 0 .. len - 1 |-> g_random_data_offset + k]
  /\ g_random_data_offset' = (g_random_data_offset + len) % g_random_data_size
  /\ UNCHANGED <<g_random_data, g_random_data_size, pc, request>>

(* Lines 73-77: it does not fit and the loop is entered. *)
StartRequest(len) ==
  /\ pc = "idle"
  /\ ~NoSource
  /\ len > SubSize(g_random_data_size, g_random_data_offset)
  /\ pc' = "loop"
  /\ outlen' = len
  /\ out' = [k \in 0 .. len - 1 |-> Unset]
  /\ copied' = 0
  /\ remaining' = SubSize(g_random_data_size, g_random_data_offset)
  /\ start' = g_random_data_offset
  /\ UNCHANGED <<source, delivered>>

(* Line 80. *)
ToCopy == IF outlen - copied < remaining THEN outlen - copied ELSE remaining

(* Mistake: the offset does not wrap around. *)
CopyChunkNoWrap ==
  /\ pc = "loop"
  /\ copied < outlen
  /\ out' = CopyInto(copied, ToCopy)
  /\ copied' = copied + ToCopy
  /\ g_random_data_offset' = g_random_data_offset + ToCopy
  /\ remaining' = SubSize(g_random_data_size, g_random_data_offset')
  /\ UNCHANGED <<g_random_data, g_random_data_size, pc, outlen, start, delivered>>

(* Lines 79-86: one iteration. *)
CopyChunk ==
  /\ pc = "loop"
  /\ copied < outlen
  /\ out' = CopyInto(copied, ToCopy)
  /\ copied' = copied + ToCopy
  /\ g_random_data_offset' = (g_random_data_offset + ToCopy) % g_random_data_size
  /\ remaining' = SubSize(g_random_data_size, g_random_data_offset')
  /\ UNCHANGED <<g_random_data, g_random_data_size, pc, outlen, start, delivered>>

(* The loop condition fails and the function returns. *)
EndRequest ==
  /\ pc = "loop"
  /\ ~(copied < outlen)
  /\ pc' = "idle"
  /\ delivered' = out
  /\ UNCHANGED <<source, request>>

Next ==
  \/ \E n \in BufferSizes : slh_dsa_init_random_source(n)
  \/ slh_dsa_restore_original_random
  \/ \E len \in RequestSizes : RequestSystem(len) \/ RequestFits(len) \/ StartRequest(len)
  \/ CopyChunk
  \/ EndRequest

Spec == Init /\ [][Next]_vars

(* The loop is ordinary sequential code: once entered, it runs. *)
FairSpec == Spec /\ WF_vars(CopyChunk \/ EndRequest)
-----------------------------------------------------------------------------
TypeOK ==
  /\ g_random_data \in BOOLEAN
  /\ g_random_data_size \in BufferSizes \cup {0}
  /\ g_random_data_offset \in Nat
  /\ pc \in {"idle", "loop"}
  /\ outlen \in RequestSizes \cup {0}
  /\ copied \in 0 .. outlen
  /\ remaining \in Nat
  /\ out \in [0 .. outlen - 1 -> Bytes]
  /\ start \in Nat

(* The local `remaining` never disagrees with the variables it was         *)
(* computed from, and the offset stays inside the buffer: the copy of      *)
(* line 81 never reads past the end of it.                                 *)
RemainingIsCurrent ==
  /\ g_random_data_size # 0 => g_random_data_offset < g_random_data_size
  /\ pc = "loop" => /\ g_random_data_size # 0
                    /\ remaining = g_random_data_size - g_random_data_offset

(* What the loop has copied so far is the cyclic repetition of the buffer  *)
(* from the offset the request began at (utils.c:79-86).                   *)
FilledSoFar ==
  pc = "loop" =>
    \A k \in 0 .. copied - 1 : out[k] = (start + k) % g_random_data_size

(* The source does what CyclicSource promises: a request, however many     *)
(* chunks it takes, is one atomic read of the cyclic stream.               *)
Cyclic == INSTANCE CyclicSource WITH
  size <- g_random_data_size,
  position <- IF pc = "loop" THEN start ELSE g_random_data_offset

CyclicSpec == Cyclic!Spec

(* Every request returns: an iteration always copies at least one byte     *)
(* (utils.c:79-86).                                                        *)
RequestsEnd == pc = "loop" ~> pc = "idle"
=============================================================================
