---------------------------- MODULE Sha2Padding ----------------------------
(***************************************************************************)
(* Which bytes the SHA-2 functions hash.  A hash starts empty or from a    *)
(* copy of the state that has absorbed the block of the public seed; it    *)
(* absorbs whole blocks and is finished with the rest of the message, the  *)
(* padding and the length.  sha2.c counts bytes and pads in a buffer of    *)
(* its own, the AVX2 versions count bits and pad in the context.           *)
(* Bytes of the message and of the seed are tokens, the others numbers.    *)
(***************************************************************************)
EXTENDS Integers, Sequences

CONSTANTS
  SPX_N,           \* bytes of the public seed
  Around           \* how far a length may be from a multiple of the block size

Builds == {"sha256", "sha512", "sha256x8", "sha512x4"}
Vector(b) == b \in {"sha256x8", "sha512x4"}
Block(b) == IF b \in {"sha512", "sha512x4"} THEN 128 ELSE 64
MaxRest(b) == Block(b) - Block(b) \div 8           \* 56, 112: the first rest with no room for the length
LengthBytes(b) == CASE b = "sha512" -> 9 [] OTHER -> 8   \* as many bytes of the length as are written

PaddingAssumption == SPX_N \in 1 .. 64 /\ Around \in 0 .. 16

Junk == -1
MessageByte(i) == 1000 + i
SeedByte(i) == 500 + i
Shr(x, n) == IF n > 30 THEN 0 ELSE x \div 2^n

Lengths(b) == { l \in 0 .. 2 * Block(b) + Around :
                  l % Block(b) <= Around \/ l % Block(b) >= MaxRest(b) - Around }
-----------------------------------------------------------------------------
VARIABLES
  build, len, seeded,  \* the function, the length of the message, whether the hash starts from the seed
  messages,            \* hashes that have been finished
  pc,                  \* "start", "absorbing", "done"
  taken,               \* bytes of the message that have been absorbed
  count,               \* bytes (sha2.c) or bits (AVX2) that have been absorbed
  absorbed,            \* the blocks the compression function has seen
  state_seeded         \* the seeded state in the context: its blocks and its count

vars == <<build, len, seeded, messages, pc, taken, count, absorbed, state_seeded>>

Empty == [blocks |-> <<>>, count |-> 0]
(* sha256_inc_blocks on the block of the public seed, one block *)
inc_blocks(state, block, b) == [blocks |-> Append(state.blocks, block), count |-> state.count + Block(b)]
(* The vector versions are given the words of this state and the length in bits. *)
SeedLength(b) == 8 * Block(b)

seed_state(b) ==
  inc_blocks(Empty, [p \in 1 .. Block(b) |-> IF p <= SPX_N THEN SeedByte(p - 1) ELSE 0], b)

Init ==
  /\ build \in Builds /\ seeded \in BOOLEAN /\ len \in Lengths(build)
  /\ messages = 0 /\ pc = "start" /\ taken = 0 /\ count = 0 /\ absorbed = <<>>
  /\ state_seeded = seed_state(build)

Begin(first, n) ==
  /\ pc = "start" /\ pc' = "absorbing" /\ taken' = 0
  /\ absorbed' = first /\ count' = n
  /\ UNCHANGED <<build, len, seeded, messages, state_seeded>>

(* sha256_inc_init, sha512_inc_init, sha256_init8x, sha512_init4x *)
inc_init == ~seeded /\ Begin(<<>>, 0)

(* memcpy(sha2_state, ctx->state_seeded, ..), sha256x8_seeded, sha512x4_seeded *)
Seeded == seeded /\ Begin(state_seeded.blocks, IF Vector(build) THEN SeedLength(build) ELSE state_seeded.count)

Message(from, n) == [p \in 1 .. n |-> MessageByte(from + p - 1)]
Cut(from, n, b) == [k \in 1 .. n |-> Message(from + (k - 1) * Block(b), Block(b))]

(* sha2.c takes as many whole blocks as the caller gives it (bound: two at a time). *)
AbsorbBlocks(n) ==
  /\ pc = "absorbing" /\ taken + n * Block(build) <= len
  /\ absorbed' = absorbed \o Cut(taken, n, build)
  /\ taken' = taken + n * Block(build)
  /\ count' = count + n * Block(build)
  /\ UNCHANGED <<build, len, seeded, messages, pc, state_seeded>>

(* The last blocks of a hash: rest bytes of the message, the first of them *)
(* at byte from, and the length in bits as the code writes it.             *)
Bits(p, last, bits) == Shr(bits, 8 * (last - p)) % 256
Padded(b, from, rest, n, bits) ==
  [p \in 1 .. n |-> CASE p > n - LengthBytes(b) -> Bits(p, n, bits)
                      [] p <= n - LengthBytes(b) /\ p <= rest -> MessageByte(from + p - 1)
                      [] p <= n - LengthBytes(b) /\ p = rest + 1 -> 128
                      [] OTHER -> 0]

Finished(blocks) ==
  /\ pc' = "done" /\ taken' = len
  /\ absorbed' = absorbed \o blocks
  /\ messages' = messages + 1
  /\ UNCHANGED <<build, len, seeded, state_seeded>>

(* The whole blocks that are left, then one or two blocks from the buffer. *)
inc_finalize ==
  LET b == build
      whole == (len - taken) \div Block(b)
      from == taken + whole * Block(b)
      rest == len - from
      bytes == count + len - taken
      last == Padded(b, from, rest, IF rest < MaxRest(b) THEN Block(b) ELSE 2 * Block(b), bytes * 8)
  IN  /\ pc = "absorbing" /\ ~Vector(b)
      /\ Finished(Cut(taken, whole, b) \o (IF Len(last) = Block(b) THEN << last >>
                    ELSE << SubSeq(last, 1, Block(b)), SubSeq(last, Block(b) + 1, 2 * Block(b)) >>))
      /\ count' = bytes

(* The vector versions fill msgblocks, use it as a block of its own if the *)
(* length has no room, clear it, and write the length.                     *)
Filled(from, rest, b) ==
  [p \in 1 .. Block(b) |-> IF p <= rest THEN MessageByte(from + p - 1) ELSE IF p = rest + 1 THEN 128 ELSE 0]
WithLength(block, bits, b) ==
  [p \in 1 .. Block(b) |-> IF p > Block(b) - 8 THEN Bits(p, Block(b), bits)
                           ELSE IF b = "sha512x4" /\ p > MaxRest(b) THEN 0 ELSE block[p]]

(* _sha256x8 with sha256_final8x; _sha512x4 *)
final_vector ==
  LET b == build
      from == taken + ((len - taken) \div Block(b)) * Block(b)
      rest == len - from
      bits == count + (from - taken + rest) * 8
      filled == Filled(from, rest, b)
  IN  /\ pc = "absorbing" /\ Vector(b)
      /\ Finished(Cut(taken, (len - taken) \div Block(b), b)
                  \o IF rest < MaxRest(b) THEN << WithLength(filled, bits, b) >>
                     ELSE << filled, WithLength([p \in 1 .. Block(b) |-> 0], bits, b) >>)
      /\ count' = bits

(* The same context serves the next hash (bound: two of them). *)
NextMessage ==
  /\ pc = "done" /\ messages < 2 /\ pc' = "start"
  /\ taken' = 0 /\ count' = 0 /\ absorbed' = <<>>
  /\ UNCHANGED <<build, len, seeded, messages, state_seeded>>

sha256_inc_init == build = "sha256" /\ inc_init
sha512_inc_init == build = "sha512" /\ inc_init
sha256_init8x == build = "sha256x8" /\ inc_init
sha512_init4x == build = "sha512x4" /\ inc_init
state_seeded_copied == ~Vector(build) /\ Seeded
sha256x8_seeded == build = "sha256x8" /\ Seeded
sha512x4_seeded == build = "sha512x4" /\ Seeded
sha256_inc_blocks == build = "sha256" /\ \E n \in 1 .. 2 : AbsorbBlocks(n)
sha512_inc_blocks == build = "sha512" /\ \E n \in 1 .. 2 : AbsorbBlocks(n)
sha256_inc_finalize == build = "sha256" /\ inc_finalize
sha512_inc_finalize == build = "sha512" /\ inc_finalize
_sha256x8 == build = "sha256x8" /\ final_vector
_sha512x4 == build = "sha512x4" /\ final_vector

Next ==
  \/ sha256_inc_init \/ sha512_inc_init \/ sha256_init8x \/ sha512_init4x
  \/ state_seeded_copied \/ sha256x8_seeded \/ sha512x4_seeded
  \/ sha256_inc_blocks \/ sha512_inc_blocks
  \/ sha256_inc_finalize \/ sha512_inc_finalize \/ _sha256x8 \/ _sha512x4
  \/ NextMessage
Spec == Init /\ [][Next]_vars
-----------------------------------------------------------------------------
(* The padded message of the standard: the block of the seed if there is   *)
(* one, the message, one bit, zeros and the length in bits in the last 8   *)
(* or 16 bytes.                                                            *)
StandardLength(b, total) ==
  LET L == IF Block(b) = 128 THEN 16 ELSE 8
  IN  ((total + 1 + L + Block(b) - 1) \div Block(b)) * Block(b)
Standard(b, withSeed, l) ==
  LET first == IF withSeed THEN Block(b) ELSE 0
      total == first + l
      n == StandardLength(b, total)
      byte(p) == CASE p < first -> (IF p < SPX_N THEN SeedByte(p) ELSE 0)
                   [] p >= first /\ p < total -> MessageByte(p - first)
                   [] p = total -> 128
                   [] p > total -> Shr(8 * total, 8 * (n - 1 - p)) % 256
  IN  [k \in 1 .. n \div Block(b) |-> [q \in 1 .. Block(b) |-> byte(((k - 1) * Block(b)) + q - 1)]]

(* A finished hash is the hash of the standard's padding of the seed block *)
(* and the message, whatever was absorbed in advance and however often the *)
(* seeded state was used before (sha2.c:517, sha256avx.c:48).              *)
HashesThePaddedMessage == pc = "done" => absorbed = Standard(build, seeded, len)
=============================================================================
