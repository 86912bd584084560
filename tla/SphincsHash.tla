---------------------------- MODULE SphincsHash ----------------------------
(***************************************************************************)
(* The tweakable hash and the secret values of SPHINCS+, thash and         *)
(* prf_addr, in every build: which bytes each lane hashes, and where the   *)
(* result goes.  Lanes share buffers, masks and, in the versions that fill *)
(* the Keccak state by hand, the padding; the output overwrites the input, *)
(* as the callers want it (wots.c, fors.c: out = in).                      *)
(*                                                                         *)
(* A byte is a token <<kind, owner, index>>.  A call of thash runs down    *)
(* the list of its steps, each for a group of lanes.                       *)
(***************************************************************************)
EXTENDS Integers, Sequences, SequencesExt

CONSTANTS Sizes, InBlocks      \* values of SPX_N and of inblocks

HashAssumption == Sizes \subseteq {16, 24, 32} /\ InBlocks \subseteq 1 .. 70

Builds == {"shake", "shakex2", "thash_a64", "shakex4", "sha2", "sha2x8", "haraka", "harakax4"}
Family(b) == CASE b \in {"shake", "shakex2", "thash_a64", "shakex4"} -> "shake" [] b \in {"sha2", "sha2x8"} -> "sha2" [] OTHER -> "haraka"
Lanes(b) == CASE b \in {"shakex2", "thash_a64"} -> 2 [] b \in {"shakex4", "harakax4"} -> 4 [] b = "sha2x8" -> 8 [] OTHER -> 1

Number(v) == <<"number", 0, v>>
Zero == Number(0)
Junk == <<"junk", 0, 0>>
Xor(a, b) == IF a = Zero THEN b ELSE IF b = Zero THEN a ELSE <<"xor", a, b>>
Bytes(kind, owner, count) == [i \in 1 .. count |-> <<kind, owner, i>>]
Zeros(count) == [i \in 1 .. count |-> Zero]
Put(mem, at, bytes) == SubSeq(mem, 1, at) \o bytes \o SubSeq(mem, at + Len(bytes) + 1, Len(mem))
PutAll(mem, group, at(_), bytes(_)) == FoldLeft(LAMBDA acc, k : Put(acc, at(k), bytes(k)), mem, group)

SPX_ADDR_BYTES == 32
SPX_SHA256_ADDR_BYTES == 22
Rate == 136                     \* SHAKE256_RATE
-----------------------------------------------------------------------------
VARIABLES
  build, robust, op, n, m,   \* the build, which of its two thash, thash or prf_addr, SPX_N, inblocks
  todo,                      \* the steps that are left
  buf, mask,                 \* the buffer and the bitmask (outbuf for haraka256), all lanes in one
  data,                      \* input and output of each lane
  log                        \* the hashes each lane has computed: function and message

vars == <<build, robust, op, n, m, todo, buf, mask, data, log>>
params == <<build, robust, op, n, m>>

(* Both lanes of the a64 thash are the same call. *)
Cell(k) == IF build = "thash_a64" THEN 0 ELSE k
Address(k, count) == Bytes("addr", Cell(k), count)
AddrBytes == IF Family(build) = "sha2" THEN SPX_SHA256_ADDR_BYTES ELSE SPX_ADDR_BYTES
ByHand == build \in {"shakex2", "thash_a64", "shakex4"} /\ m <= 2
F == Family(build) = "haraka" /\ m = 1        \* buf_tmp and outbuf instead of buf and bitmask
With512 == Family(build) = "sha2" /\ m > 1 /\ n >= 24      \* SPX_SHA512
Masked == robust /\ op = "thash"

(* Where a lane has its buffer, and what in it. *)
SeedBytes == IF Family(build) = "shake" \/ (Family(build) = "sha2" /\ Masked) THEN n ELSE 0
InAt == SeedBytes + AddrBytes
Stride == IF ByHand THEN 200 ELSE IF F THEN 64 ELSE InAt + m * n
MaskBytes == IF F THEN 32 ELSE m * n
HashedFrom == IF Family(build) = "sha2" THEN SeedBytes ELSE 0   \* the seed is already in the state

Step(name, group) == [op |-> name, lanes |-> group]
All(b) == [k \in 1 .. Lanes(b) |-> k - 1]
Low == <<0, 1, 2, 3>>
High == <<4, 5, 6, 7>>

thash_simple(b) == << Step("fill", All(b)), Step("hash", All(b)) >>
thash_robust(b) == << Step("fill", All(b)), Step("mask", All(b)), Step("xor", All(b)), Step("hash", All(b)) >>
thashx8_512_simple == << Step("fill", All("sha2x8")), Step("hash", Low), Step("hash", High) >>
thashx8_512_robust == << Step("fill", All("sha2x8")), Step("mask", Low), Step("xor", Low), Step("mask", High),
                         Step("xor", High), Step("hash", Low), Step("hash", High) >>
thashx4_F_robust == << Step("fill", All("harakax4")), Step("mask", All("harakax4")), Step("move", All("harakax4")),
                       Step("xor", All("harakax4")), Step("hash", All("harakax4")) >>

Steps(b, isRobust, o, size, blocks) ==
  CASE o = "thash" /\ b = "sha2x8" /\ size >= 24 /\ blocks > 1 -> IF isRobust THEN thashx8_512_robust ELSE thashx8_512_simple
    [] o = "thash" /\ b = "harakax4" /\ blocks = 1 /\ isRobust -> thashx4_F_robust
    [] OTHER -> IF isRobust /\ o = "thash" THEN thash_robust(b) ELSE thash_simple(b)

Init ==
  /\ build \in Builds /\ robust \in BOOLEAN /\ op \in {"thash", "prf_addr"} /\ n \in Sizes /\ m \in InBlocks
  /\ op = "prf_addr" => m = 1 /\ ~robust /\ build # "thash_a64"   \* one block, the secret seed
  /\ todo = Steps(build, robust, op, n, m)
  /\ buf = <<>> /\ mask = <<>>
  /\ data = [k \in 0 .. Lanes(build) - 1 |-> IF op = "thash" THEN Bytes("in", k, m * n) ELSE Bytes("sk", 0, n)]
  /\ log = [k \in 0 .. Lanes(build) - 1 |-> <<>>]

(* ---- SHAKE by hand: the whole state of a lane ---- *)
Words(w) == 8 * w
(* Domain separator, zeros and the last bit; the rest is zero as well. *)
ByHandPadding(state, at) ==
  LET zeroed == SubSeq(state, 1, at) \o Zeros(200 - at)
      ended == [zeroed EXCEPT ![Words(17)] = Xor(@, Number(128))]
  IN  [ended EXCEPT ![at + 1] = Xor(@, Number(31))]

(* Mistake: the word is set, not added to: with N = 32 and two blocks it ends the padding, too. *)
SeparatorSet(state, at) == [state EXCEPT ![at + 1] = Number(31), ![at + 8] = Zero]
(* state2[..] ^= 0x1f, after the input has been added *)
Separator(state, at) == [state EXCEPT ![at + 1] = Xor(@, Number(31))]

(* ---- the steps ---- *)
Filled(k) ==
  LET begin == SubSeq(Bytes("seed", 0, n), 1, SeedBytes) \o Address(k, AddrBytes)
      input == data[Cell(k)]
  IN  CASE ByHand /\ Masked -> ByHandPadding(begin \o Zeros(200 - InAt), InAt)
        [] ByHand /\ ~Masked -> LET full == begin \o input
                                IN  ByHandPadding(full \o Zeros(200 - Len(full)), Words((n \div 8) * (1 + m) + 4))
        [] F /\ ~Masked -> begin \o input \o Zeros(SPX_ADDR_BYTES - n)
        [] ~ByHand /\ ~F /\ ~Masked -> begin \o input
        [] ~ByHand /\ ~F /\ Masked -> begin \o Bytes("junk", 0, m * n)

Next1(name) == todo # <<>> /\ Head(todo).op = name /\ todo' = Tail(todo) /\ UNCHANGED params
Group == Head(todo).lanes
Rank(k) == k - Group[1]                       \* lane of the vector function

Fill ==
  /\ Next1("fill")
  /\ buf' = IF F /\ Masked
            THEN PutAll(Zeros(64 * Lanes(build)), Group, LAMBDA k : 32 * k, LAMBDA k : Address(k, 32))
            ELSE FlattenSeq([k \in 1 .. Lanes(build) |-> Filled(k - 1)])
  /\ UNCHANGED <<mask, data, log>>

MaskFunction == CASE Family(build) = "shake" -> "shake256"
                  [] Family(build) = "sha2" -> IF With512 THEN "mgf1_512" ELSE "mgf1_256"
                  [] OTHER -> IF F THEN "haraka256" ELSE "haraka_S"
HashFunction == CASE Family(build) = "shake" -> "shake256"
                  [] Family(build) = "sha2" -> IF With512 /\ op = "thash" THEN "sha512 seeded" ELSE "sha256 seeded"
                  [] OTHER -> IF F THEN "haraka512" ELSE "haraka_S"

(* What SHAKE absorbs: the message is padded, by the library or by hand. *)
Padded(message) ==
  LET total == ((Len(message) \div Rate) + 1) * Rate
      end == message \o <<Number(31)>> \o Zeros(total - Len(message) - 1)
  IN  [end EXCEPT ![total] = Xor(@, Number(128))]
Slice(from, count) == SubSeq(buf, from + 1, from + count)
Absorbed(k, from, count) ==
  IF ByHand THEN LET state == Slice(k * 200, 200)
                 IN  IF SubSeq(state, Rate + 1, 200) = Zeros(200 - Rate) THEN SubSeq(state, 1, Rate) ELSE <<>>
  ELSE IF Family(build) = "shake" THEN Padded(Slice(k * Stride + from, count))
  ELSE Slice(k * Stride + from, count)
Digest(k, number, count) == [i \in 1 .. count |-> <<"digest", <<Cell(k), number>>, i>>]
Logged(function, message(_)) ==
  [k \in DOMAIN log |-> IF \E j \in DOMAIN Group : Group[j] = k THEN Append(log[k], <<function, message(k)>>) ELSE log[k]]

Mask ==
  /\ Next1("mask")
  /\ mask' = FlattenSeq([j \in 1 .. Len(Group) |-> Digest(Group[j], Len(log[Group[j]]) + 1, MaskBytes)])
  /\ log' = Logged(MaskFunction, LAMBDA k : IF F THEN Slice(32 * k, 32) ELSE Absorbed(k, 0, InAt))
  /\ UNCHANGED <<buf, data>>

(* The addresses make room for the inputs, the last one first. *)
Move ==
  /\ Next1("move")
  /\ LET a == Put(buf, 192, Slice(96, 32))
         b == Put(a, 128, SubSeq(a, 65, 96))
         c == Put(b, 64, SubSeq(b, 33, 64))
     IN  buf' = Put(Put(c, 32, Zeros(32)), 96, Zeros(32))
  /\ UNCHANGED <<mask, data, log>>

Xored(k) == [i \in 1 .. m * n |-> Xor(data[Cell(k)][i], mask[Rank(k) * MaskBytes + i])]
XorInput ==
  /\ Next1("xor")
  /\ buf' = PutAll(buf, Group, LAMBDA k : k * Stride + InAt,
                   LAMBDA k : IF ByHand THEN SubSeq(Separator(Put(Slice(k * Stride, Stride), InAt, Xored(k)),
                                                              Words((n \div 8) * (1 + m) + 4)), InAt + 1, Stride)
                              ELSE Xored(k))
  /\ UNCHANGED <<mask, data, log>>

(* Every lane of the group is read before the first one is written. *)
Hash ==
  /\ Next1("hash")
  /\ log' = Logged(HashFunction, LAMBDA k : Absorbed(k, HashedFrom, Stride - HashedFrom))
  /\ data' = [c \in DOMAIN data |->
                IF \E j \in DOMAIN Group : Cell(Group[j]) = c
                THEN Put(data[c], 0, Digest(c, Len(log[c]) + 1, n)) ELSE data[c]]
  /\ UNCHANGED <<buf, mask>>

Thash(b, isRobust) == build = b /\ robust = isRobust /\ op = "thash" /\ (Fill \/ Mask \/ Move \/ XorInput \/ Hash)
Prf(b) == build = b /\ op = "prf_addr" /\ (Fill \/ Hash)

(* One for each file of the code. *)
thash_shake_simple == Thash("shake", FALSE)
thash_shake_robust == Thash("shake", TRUE)
thash_sha2_simple == Thash("sha2", FALSE)
thash_sha2_robust == Thash("sha2", TRUE)
thash_haraka_simple == Thash("haraka", FALSE)
thash_haraka_robust == Thash("haraka", TRUE)
thash_shake_simplex2 == Thash("shakex2", FALSE) \/ Thash("thash_a64", FALSE)
thash_shake_robustx2 == Thash("shakex2", TRUE) \/ Thash("thash_a64", TRUE)
thash_shake_simplex4 == Thash("shakex4", FALSE)
thash_shake_robustx4 == Thash("shakex4", TRUE)
thash_sha2_simplex8 == Thash("sha2x8", FALSE)
thash_sha2_robustx8 == Thash("sha2x8", TRUE)
thash_haraka_simplex4 == Thash("harakax4", FALSE)
thash_haraka_robustx4 == Thash("harakax4", TRUE)
prf_shake == Prf("shake")
prf_sha2 == Prf("sha2")
prf_haraka == Prf("haraka")
prf_shakex2 == Prf("shakex2")
prf_shakex4 == Prf("shakex4")
prf_sha2x8 == Prf("sha2x8")
prf_harakax4 == Prf("harakax4")

Next ==
  \/ thash_shake_simple \/ thash_shake_robust \/ thash_sha2_simple \/ thash_sha2_robust
  \/ thash_haraka_simple \/ thash_haraka_robust \/ thash_shake_simplex2 \/ thash_shake_robustx2
  \/ thash_shake_simplex4 \/ thash_shake_robustx4 \/ thash_sha2_simplex8 \/ thash_sha2_robustx8
  \/ thash_haraka_simplex4 \/ thash_haraka_robustx4
  \/ prf_shake \/ prf_sha2 \/ prf_haraka \/ prf_shakex2 \/ prf_shakex4 \/ prf_sha2x8 \/ prf_harakax4
Spec == Init /\ [][Next]_vars
-----------------------------------------------------------------------------
(* What the scheme defines for lane k: the mask, if there is one, and the  *)
(* hash, of the seed, the address and the (masked) input.                  *)
Message(input, k) ==
  LET seeded == Bytes("seed", 0, n) \o Address(k, 32) \o input
  IN  CASE Family(build) = "shake" -> Padded(seeded)
        [] Family(build) = "sha2" -> Address(k, 22) \o input
        [] OTHER -> Address(k, 32) \o input \o (IF F THEN Zeros(32 - n) ELSE <<>>)
MaskMessage(k) == CASE Family(build) = "shake" -> Padded(Bytes("seed", 0, n) \o Address(k, 32))
                    [] Family(build) = "sha2" -> Bytes("seed", 0, n) \o Address(k, 22)
                    [] OTHER -> Address(k, 32)
Input(k) == IF op = "prf_addr" THEN Bytes("sk", 0, n)
            ELSE IF Masked THEN [i \in 1 .. m * n |-> Xor(<<"in", Cell(k), i>>, <<"digest", <<Cell(k), 1>>, i>>)]
            ELSE Bytes("in", Cell(k), m * n)
Expected(k) == (IF Masked THEN << <<MaskFunction, MaskMessage(k)>> >> ELSE <<>>) \o << <<HashFunction, Message(Input(k), k)>> >>

(* In every build each lane computes the hashes of the scheme for its own  *)
(* address and its own input, padded as the standard says, and nothing     *)
(* else (thash_shake_robustx4.c:73, thash_haraka_robustx4.c:49).           *)
LanesHashTheScheme == todo = <<>> => \A k \in DOMAIN log : log[k] = Expected(k)

(* The result of each lane is in its own place, over its input, also when  *)
(* two groups of four follow one another (thash_sha2_robustx8.c:252).      *)
ResultsInPlace ==
  todo = <<>> => \A k \in DOMAIN data : Cell(k) = k => SubSeq(data[k], 1, n) = Digest(k, IF Masked THEN 2 ELSE 1, n)
=============================================================================
