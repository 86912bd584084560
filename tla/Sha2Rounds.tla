------------------------------ MODULE Sha2Rounds ------------------------------
(***************************************************************************)
(* The compression functions of SHA-256 and SHA-512: rounds that move the  *)
(* eight registers (sha2.c) and rounds that rename them (AVX2), and three  *)
(* ways to keep the schedule of message words.                             *)
(*                                                                         *)
(* Values are names: what round t leaves in the first and the fifth        *)
(* register is A(t) and E(t), word t of the schedule is t; a round or an   *)
(* expansion with other arguments than the standard's gives Garbage.  The  *)
(* constant of a round is its number, a sum is its set of terms.           *)
(***************************************************************************)
EXTENDS Integers, Sequences, SequencesExt

Garbage == [reg |-> "none", round |-> 0]
Reg(r, t) == [reg |-> r, round |-> t]
(* The state before the first round counts as the values of rounds 0, -1, -2 and -3. *)
Fresh == [i \in 0 .. 7 |-> IF i < 4 THEN Reg("A", -i) ELSE Reg("E", 4 - i)]
NoWord == -1

(* What one round computes, if its arguments are those of the standard.    *)
Arguments(s, t, w, k) ==
  /\ \A i \in 0 .. 3 : s[i] = Reg("A", t - i) /\ s[i + 4] = Reg("E", t - i)
  /\ w = t /\ k = t
T1plusT2(s, t, w, k) == IF Arguments(s, t, w, k) THEN Reg("A", t + 1) ELSE Garbage
dplusT1(s, t, w, k) == IF Arguments(s, t, w, k) THEN Reg("E", t + 1) ELSE Garbage

(* sigma1(w14) + w9 + sigma0(w1) + w0 *)
M(w0, w14, w9, w1) == IF w0 >= 0 /\ w14 = w0 + 14 /\ w9 = w0 + 9 /\ w1 = w0 + 1 THEN w0 + 16 ELSE NoWord

(* ---- vectors: word i of lane k is <<k, i>>; the first word is the lowest ---- *)
InTurn(a, b, from, unit) ==      \* units of words from a and b in turn
  [j \in 1 .. 2 * unit |-> IF j <= unit THEN a[from + j] ELSE b[from + j - unit]]
unpack(a, b, unit, high) ==          \* within each half of n words
  LET n == Len(a) \div 2
      Half(h) == LET start == (h * n) + (IF high THEN n \div 2 ELSE 0)
                 IN  [j \in 1 .. n |-> LET pair == (j - 1) \div (2 * unit)
                                       IN  InTurn(a, b, start + (pair * unit), unit)[((j - 1) % (2 * unit)) + 1]]
  IN  Half(0) \o Half(1)
unpacklo(a, b, unit) == unpack(a, b, unit, FALSE)
unpackhi(a, b, unit) == unpack(a, b, unit, TRUE)
permute2x128(a, b, high) == LET n == Len(a) \div 2 IN SubSeq(a, high * n + 1, high * n + n) \o SubSeq(b, high * n + 1, high * n + n)

transpose4(s) ==
  LET tmp == << unpacklo(s[1], s[2], 1), unpackhi(s[1], s[2], 1), unpacklo(s[3], s[4], 1), unpackhi(s[3], s[4], 1) >>
  IN  << permute2x128(tmp[1], tmp[3], 0), permute2x128(tmp[2], tmp[4], 0),
         permute2x128(tmp[1], tmp[3], 1), permute2x128(tmp[2], tmp[4], 1) >>

Unpacked(s, from, step, unit) ==     \* rows from and from + step, their low and high parts
  << unpacklo(s[from], s[from + step], unit), unpackhi(s[from], s[from + step], unit) >>
Rows(s) ==                           \* of transpose8 before the halves of 128 bits are exchanged
  LET tmp0 == Unpacked(s, 1, 1, 1) \o Unpacked(s, 3, 1, 1) \o Unpacked(s, 5, 1, 1) \o Unpacked(s, 7, 1, 1)
  IN  Unpacked(tmp0, 1, 2, 2) \o Unpacked(tmp0, 2, 2, 2) \o Unpacked(tmp0, 5, 2, 2) \o Unpacked(tmp0, 6, 2, 2)

transpose8(s) ==
  LET tmp1 == Rows(s)
      half(h) == << permute2x128(tmp1[1], tmp1[5], h), permute2x128(tmp1[2], tmp1[6], h),
                    permute2x128(tmp1[3], tmp1[7], h), permute2x128(tmp1[4], tmp1[8], h) >>
  IN  half(0) \o half(1)

(* A vector that holds the same word of every lane is that word. *)
Word(v) == IF \A k \in 1 .. Len(v) : v[k] = <<k, v[1][2]>> THEN v[1][2] ELSE NoWord
(* Words first .. first + n - 1 of lane k. *)
LoadVector(k, first, n) == [j \in 1 .. n |-> <<k, first + j - 1>>]
Loaded256 == [j \in 0 .. 15 |->
  Word(transpose8([k \in 1 .. 8 |-> LoadVector(k, 8 * (j \div 8), 8)])[(j % 8) + 1])]
Loaded512 == [j \in 0 .. 15 |->
  Word(transpose4([k \in 1 .. 4 |-> LoadVector(k, 4 * (j \div 4), 4)])[(j % 4) + 1])]
(* The eight registers of every lane are stored to the output of the lane. *)
Registers(n, first, m) == [j \in 1 .. m |-> [k \in 1 .. n |-> <<k, first + j - 1>>]]
Stored256 == transpose8(Registers(8, 0, 8))
Stored512 == LET low == transpose4(Registers(4, 0, 4))
                 high == transpose4(Registers(4, 4, 4))
             IN  [k \in 1 .. 4 |-> low[k] \o high[k]]
Stored(b) == CASE b = "sha256x8" -> Stored256 [] b = "sha512x4" -> Stored512 [] OTHER -> <<LoadVector(1, 0, 8)>>
-----------------------------------------------------------------------------
Builds == {"sha256", "sha512", "sha256x8", "sha512x4"}
Rounds(b) == IF b \in {"sha512", "sha512x4"} THEN 80 ELSE 64

VARIABLES
  build, blocks,   \* which function, how many blocks there are
  left,            \* blocks not yet absorbed
  t,               \* the next round
  s,               \* the registers
  w,               \* the words of the schedule that are kept
  state,           \* the state that is fed forward, as the number of blocks it has absorbed, or -1
  out              \* the output of each lane

vars == <<build, blocks, left, t, s, w, state, out>>

Load(b) == CASE b = "sha256x8" -> [j \in 0 .. 63 |-> IF j < 16 THEN Loaded256[j] ELSE NoWord]
             [] b = "sha512x4" -> Loaded512
             [] OTHER -> [j \in 0 .. 15 |-> j]

Init ==
  /\ build \in Builds /\ blocks \in 1 .. 2 /\ left = blocks
  /\ t = 0 /\ s = Fresh /\ w = Load(build) /\ state = 0 /\ out = <<>>

(* sha2.c: every register moves one place. *)
F(k, word) ==
  /\ s' = [i \in 0 .. 7 |-> CASE i = 0 -> T1plusT2(s, t, word, k) [] i = 4 -> dplusT1(s, t, word, k) [] OTHER -> s[i - 1]]
  /\ t' = t + 1

(* One word after the other, in place. *)
EXPAND(words) ==
  FoldLeft(LAMBDA v, i : [v EXCEPT ![i] = M(@, v[(i + 14) % 16], v[(i + 9) % 16], v[(i + 1) % 16])],
           words, [i \in 1 .. 16 |-> i - 1])

(* Sixteen rounds with the words as they are, and an expansion before the next sixteen. *)
Scalar ==
  /\ t < Rounds(build) /\ F(t, w[t % 16])
  /\ w' = IF t % 16 = 15 /\ t < Rounds(build) - 1 THEN EXPAND(w) ELSE w
  /\ UNCHANGED <<build, blocks, left, state, out>>

(* AVX2: the registers keep their values, their order among the arguments turns. *)
Renamed == [i \in 0 .. 7 |-> s[(i + (8 - (t % 8))) % 8]]
ROUND_AVX(k, word) ==
  /\ s' = [s EXCEPT ![(11 - (t % 8)) % 8] = dplusT1(Renamed, t, word, k),
                    ![(15 - (t % 8)) % 8] = T1plusT2(Renamed, t, word, k)]
  /\ t' = t + 1

(* All 64 words are kept. *)
Transform8x ==
  LET word == IF t < 16 THEN w[t] ELSE M(w[t - 16], w[t - 2], w[t - 7], w[t - 15])
  IN  /\ t < Rounds(build) /\ ROUND_AVX(t, word) /\ w' = [w EXCEPT ![t] = word]
      /\ UNCHANGED <<build, blocks, left, state, out>>

(* Mistake: the word 14 rounds ago is taken for the one 15 rounds ago. *)
NextW14(i) == M(w[(i + 16) % 16], w[(i + 14) % 16], w[(i + 9) % 16], w[(i + 2) % 16])

(* The last 16 are kept: w[M(i-2)], w[M(i-7)], w[M(i-15)], w[M(i-16)] *)
NextW(i) == M(w[(i + 16) % 16], w[(i + 14) % 16], w[(i + 9) % 16], w[(i + 1) % 16])

Transform4x ==
  LET word == IF t < 16 THEN w[t] ELSE NextW(t % 16)
  IN  /\ t < Rounds(build) /\ ROUND_AVX(t, word) /\ w' = [w EXCEPT ![t % 16] = word]
      /\ UNCHANGED <<build, blocks, left, state, out>>

(* The registers are added to the state place by place: what comes out is  *)
(* the next state if each place has the value of the last round it should. *)
InOrder == \A i \in 0 .. 3 : s[i] = Reg("A", t - i) /\ s[i + 4] = Reg("E", t - i)

FeedForward ==
  /\ t = Rounds(build)
  /\ left' = left - 1
  /\ state' = IF InOrder /\ state >= 0 THEN state + 1 ELSE -1
  /\ IF left' > 0
     THEN t' = 0 /\ s' = Fresh /\ w' = Load(build) /\ UNCHANGED out
     ELSE t' = t + 1 /\ out' = Stored(build) /\ UNCHANGED <<s, w>>
  /\ UNCHANGED <<build, blocks>>

crypto_hashblocks_sha256 == build = "sha256" /\ (Scalar \/ FeedForward)
crypto_hashblocks_sha512 == build = "sha512" /\ (Scalar \/ FeedForward)
sha256_transform8x == build = "sha256x8" /\ (Transform8x \/ FeedForward)
sha512_transform4x == build = "sha512x4" /\ (Transform4x \/ FeedForward)

Next == crypto_hashblocks_sha256 \/ crypto_hashblocks_sha512 \/ sha256_transform8x \/ sha512_transform4x
Spec == Init /\ [][Next]_vars
-----------------------------------------------------------------------------
(* Every round computes what the standard's round computes: its eight      *)
(* registers hold the values of the last four rounds, moved or renamed,    *)
(* and its word is the word of the schedule for this round (sha2.c:69,     *)
(* sha256avx.c:183, sha512x4.c:222).                                       *)
RoundsAreTheStandards ==
  /\ \A i \in 0 .. 7 : s[i] # Garbage
  /\ \A j \in DOMAIN w : j < 16 => w[j] # NoWord

(* The registers are fed forward in the order of the state, after the last *)
(* round and not before; each block of a message counts once.              *)
EveryBlockAbsorbed == state + left = blocks

(* No word of one message of a vector comes to another one.                *)
LanesSeparate == \A k \in 1 .. Len(out) : out[k] = LoadVector(k, 0, 8)
=============================================================================
