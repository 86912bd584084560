-------------------------------- MODULE Sponge --------------------------------
(***************************************************************************)
(* The SHAKE functions around the Keccak permutation: absorbing a message  *)
(* in pieces or at once, the padding, and squeezing in pieces, in blocks   *)
(* or at once; for one message (fips202.c of ML-DSA and of SPHINCS+) and   *)
(* for two or four messages of one length (fips202x2.c, fips202x4.c).      *)
(*                                                                         *)
(* The permutation is ideal: a state is the blocks that went into it, each *)
(* byte of a block being the set of what was xored there.  The bytes of    *)
(* message k are <<k, 1>>, <<k, 2>>, ...                                   *)
(***************************************************************************)
EXTENDS Integers, Sequences

CONSTANTS W,                 \* bytes in a word (8 in the code)
          SHAKE128_RATE, SHAKE256_RATE,
          MaxIn, MaxOut      \* bound the message and the output
RatesAssumption ==
  /\ W \in Nat \ {0} /\ {SHAKE128_RATE, SHAKE256_RATE, MaxIn, MaxOut} \subseteq Nat
  /\ SHAKE128_RATE % W = 0 /\ SHAKE256_RATE % W = 0
  /\ SHAKE256_RATE >= 2 /\ SHAKE128_RATE > SHAKE256_RATE

Flip(a, x) == (a \ x) \cup (x \ a)
p == <<"0x1F">>           \* what the code xors after the message, and into the last byte of the block
top == <<"0x80">>
Junk == <<"junk">>        \* a byte behind the end of a message
None == -1
Least(a, b) == IF a < b THEN a ELSE b

VARIABLES
  build, r,        \* whose functions, and the rate
  pc,              \* "new"; between the calls: "absorb", "squeeze", "done"; in a loop of a call: the others
  s, pos,          \* the state of each message, and the counter that goes with it
  left, ask,       \* what the call still has to read or write; the output of a call that gives all of it, or None
  fed, out         \* how much was absorbed; what was squeezed, for each message

vars == <<build, r, pc, s, pos, left, ask, fed, out>>
call == <<build, r, ask>>

Instances(b) == CASE b \in {"dilithium", "sphincs"} -> {0} [] b = "sphincs x2" -> {0, 1} [] OTHER -> 0 .. 3
Zero == [past |-> <<>>, block |-> [j \in 0 .. r - 1 |-> {}]]
Permute(t) == [past |-> Append(t.past, t.block), block |-> [j \in DOMAIN t.block |-> {}]]
Into(t, at, in) ==        \* the bytes in, from place at on
  [t EXCEPT !.block = [j \in DOMAIN @ |-> IF j >= at /\ j < at + Len(in) THEN Flip(@[j], {in[j - at + 1]}) ELSE @[j]]]
Xor(t, j, x) == Into(t, j, <<x>>)
(* The next n bytes of message k. *)
Read(k, n) == [i \in 1 .. n |-> <<k, fed + i>>]
(* What a byte that is squeezed shows. *)
Byte(t, j) == <<Len(t.past), j, t.block[j]>>

Init ==
  /\ build \in {"dilithium", "sphincs", "dilithium x4", "sphincs x4", "sphincs x2"}
  /\ r \in IF build = "sphincs" THEN {SHAKE256_RATE} ELSE {SHAKE128_RATE, SHAKE256_RATE}
  /\ pc = "new" /\ s = [k \in Instances(build) |-> Zero] /\ pos = 0
  /\ left = 0 /\ ask = None /\ fed = 0 /\ out = [k \in Instances(build) |-> <<>>]

(* ---- Absorbing in pieces: a whole block, or what is left of a piece. ---- *)
shake_init == build = "dilithium" /\ pc = "new" /\ pc' = "absorb" /\ UNCHANGED <<call, s, pos, left, fed, out>>
shake256_inc_init == build = "sphincs" /\ pc = "new" /\ pc' = "absorb" /\ UNCHANGED <<call, s, pos, left, fed, out>>

Absorb(n) ==
  /\ pc = "absorb" /\ pc' = "absorbing" /\ fed + n <= MaxIn /\ left' = n
  /\ UNCHANGED <<call, s, pos, fed, out>>
shake_absorb(n) == build = "dilithium" /\ Absorb(n)
shake256_inc_absorb(n) == build = "sphincs" /\ Absorb(n)

AbsorbBlock ==
  LET n == r - pos
  IN  /\ pc = "absorbing" /\ UNCHANGED pc /\ pos + left >= r
      /\ s' = [k \in DOMAIN s |-> Permute(Into(s[k], pos, Read(k, n)))]
      /\ pos' = 0 /\ left' = left - n /\ fed' = fed + n /\ UNCHANGED <<call, out>>
AbsorbRest ==
  /\ pc = "absorbing" /\ pc' = "absorb" /\ pos + left < r
  /\ s' = [k \in DOMAIN s |-> Into(s[k], pos, Read(k, left))]
  /\ pos' = pos + left /\ left' = 0 /\ fed' = fed + left /\ UNCHANGED <<call, out>>
keccak_absorb == build = "dilithium" /\ (AbsorbBlock \/ AbsorbRest)
keccak_inc_absorb == build = "sphincs" /\ (AbsorbBlock \/ AbsorbRest)

keccak_finalize(t) == Xor(Xor(t, pos, p), r - 1, top)
shake_finalize ==
  /\ build = "dilithium" /\ pc = "absorb" /\ pc' = "squeeze"
  /\ s' = [k \in DOMAIN s |-> keccak_finalize(s[k])] /\ pos' = r
  /\ UNCHANGED <<call, left, fed, out>>

(* The 26th word of the incremental state counts what was absorbed of the  *)
(* block, and later what is left to squeeze of it.                         *)
(* Mistake: the count of what was absorbed stays. *)
shake256_inc_finalizeCount ==
  /\ build = "sphincs" /\ pc = "absorb" /\ pc' = "squeeze"
  /\ s' = [k \in DOMAIN s |-> keccak_finalize(s[k])]
  /\ UNCHANGED <<call, pos, left, fed, out>>

shake256_inc_finalize ==
  /\ build = "sphincs" /\ pc = "absorb" /\ pc' = "squeeze"
  /\ s' = [k \in DOMAIN s |-> keccak_finalize(s[k])] /\ pos' = 0
  /\ UNCHANGED <<call, left, fed, out>>

(* ---- Absorbing at once: whole blocks, then the rest and its padding. ---- *)
Once(inlen, outlen) ==
  /\ pc = "new" /\ pc' = "once" /\ left' = inlen /\ ask' = outlen
  /\ UNCHANGED <<build, r, s, pos, fed, out>>
shake_absorb_once(n) == build = "dilithium" /\ Once(n, None)
shakex4_absorb_once(n) == build = "dilithium x4" /\ Once(n, None)
shake128(outlen, n) == build = "dilithium" /\ r = SHAKE128_RATE /\ Once(n, outlen)
shake256(outlen, n) == build = "dilithium" /\ r = SHAKE256_RATE /\ Once(n, outlen)
shake128x4(outlen, n) == build = "dilithium x4" /\ r = SHAKE128_RATE /\ Once(n, outlen)
shake256x4(outlen, n) == build = "dilithium x4" /\ r = SHAKE256_RATE /\ Once(n, outlen)
shake256Sphincs(outlen, n) == build = "sphincs" /\ Once(n, outlen)
shake128x4Sphincs(outlen, n) == build = "sphincs x4" /\ r = SHAKE128_RATE /\ Once(n, outlen)
shake256x4Sphincs(outlen, n) == build = "sphincs x4" /\ r = SHAKE256_RATE /\ Once(n, outlen)
shake128x2(outlen, n) == build = "sphincs x2" /\ r = SHAKE128_RATE /\ Once(n, outlen)
shake256x2(outlen, n) == build = "sphincs x2" /\ r = SHAKE256_RATE /\ Once(n, outlen)

OnceBlock ==
  /\ pc = "once" /\ UNCHANGED pc /\ left >= r
  /\ s' = [k \in DOMAIN s |-> Permute(Into(s[k], 0, Read(k, r)))]
  /\ left' = left - r /\ fed' = fed + r /\ UNCHANGED <<call, pos, out>>

keccak_absorb_once(t, in) == Xor(Xor(Into(t, 0, in), Len(in), p), r - 1, top)

(* Four messages: words are gathered eight bytes at a time, so the last    *)
(* one may reach behind the end of the message; a mask takes that away.    *)
keccakx4_absorb_once(t, in) ==
  LET words == W * (Len(in) \div W)   \* the bytes in whole words
      rest == Len(in) - words
      gathered == [k \in 1 .. W |-> IF words + k <= Len(in) THEN in[words + k] ELSE Junk]
      whole == Into(t, 0, SubSeq(in, 1, words))
  IN  Xor(Xor(IF rest > 0 THEN Into(whole, words, SubSeq(gathered, 1, rest)) ELSE whole, words + rest, p), r - 1, top)

(* SPHINCS+: the last block is put together in a buffer of zeros. *)
keccak_absorbSphincs(t, in) ==
  LET buffer == Xor(Xor(Into(Zero, 0, in), Len(in), p), r - 1, top).block
  IN  [t EXCEPT !.block = [j \in DOMAIN @ |-> Flip(@[j], buffer[j])]]
keccak_absorb4x(t, in) == keccak_absorbSphincs(t, in)
keccak_absorb2x(t, in) == keccak_absorbSphincs(t, in)

LastBlock(t, in) ==
  CASE build = "dilithium" -> keccak_absorb_once(t, in)
    [] build = "dilithium x4" -> keccakx4_absorb_once(t, in)
    [] build = "sphincs" -> keccak_absorbSphincs(t, in)
    [] build = "sphincs x4" -> keccak_absorb4x(t, in)
    [] build = "sphincs x2" -> keccak_absorb2x(t, in)

OnceRest ==
  /\ pc = "once" /\ left < r
  /\ s' = [k \in DOMAIN s |-> LastBlock(s[k], Read(k, left))]
  /\ pos' = IF build = "dilithium" THEN r ELSE pos
  /\ IF ask = None THEN pc' = "squeeze" /\ left' = 0 ELSE pc' = "blocks" /\ left' = ask
  /\ fed' = fed + left /\ UNCHANGED <<call, out>>

(* ---- Squeezing. The caller gets n bytes of the states t, from place from on. ---- *)
Give(t, from, n) ==
  /\ s' = t
  /\ out' = [k \in DOMAIN out |-> out[k] \o [i \in 1 .. n |-> Byte(t[k], from + i - 1)]]
Permuted == [k \in DOMAIN s |-> Permute(s[k])]
Returned == IF ask = None THEN "squeeze" ELSE "done"

(* Whole blocks; only when no block has been started. *)
shake_squeezeblocks(n) ==
  /\ build \in {"dilithium", "dilithium x4"} /\ pc = "squeeze" /\ pc' = "blocks" /\ Len(out[0]) + (n * r) <= MaxOut
  /\ build = "dilithium" => pos = r
  /\ left' = n * r /\ UNCHANGED <<call, s, pos, fed, out>>

keccak_squeezeblocks ==
  /\ pc = "blocks" /\ UNCHANGED pc /\ left >= r /\ Give(Permuted, 0, r)
  /\ left' = left - r /\ UNCHANGED <<call, pos, fed>>

(* The rest of the output: ML-DSA has a function for any length, the other *)
(* builds take some bytes of one more block, which they have in a buffer.  *)
ShakeRest ==
  /\ build = "dilithium" /\ pc = "blocks" /\ left < r /\ pc' = "squeezing"
  /\ UNCHANGED <<call, s, pos, left, fed, out>>
OneShot ==
  /\ build # "dilithium" /\ pc = "blocks" /\ left < r /\ pc' = Returned
  /\ IF left > 0 THEN Give(Permuted, 0, left) ELSE UNCHANGED <<s, out>>
  /\ left' = 0 /\ UNCHANGED <<call, pos, fed>>

shake_squeeze(n) ==
  /\ build = "dilithium" /\ pc = "squeeze" /\ pc' = "squeezing" /\ Len(out[0]) + n <= MaxOut
  /\ left' = n /\ UNCHANGED <<call, s, pos, fed, out>>

keccak_squeeze ==
  LET from == IF pos = r THEN 0 ELSE pos
      n == Least(left, r - from)
  IN  /\ build = "dilithium" /\ pc = "squeezing" /\ UNCHANGED pc /\ left > 0
      /\ Give(IF pos = r THEN Permuted ELSE s, from, n)
      /\ pos' = from + n /\ left' = left - n /\ UNCHANGED <<call, fed>>

(* First what is left of the last block. *)
shake256_inc_squeeze(outlen) ==
  LET n == Least(outlen, pos)
  IN  /\ build = "sphincs" /\ pc = "squeeze" /\ pc' = "squeezing" /\ Len(out[0]) + outlen <= MaxOut
      /\ Give(s, r - pos, n)
      /\ pos' = pos - n /\ left' = outlen - n /\ UNCHANGED <<call, fed>>

keccak_inc_squeeze ==
  LET n == Least(left, r)
  IN  /\ build = "sphincs" /\ pc = "squeezing" /\ UNCHANGED pc /\ left > 0
      /\ Give(Permuted, 0, n)
      /\ pos' = r - n /\ left' = left - n /\ UNCHANGED <<call, fed>>

Return ==
  /\ pc = "squeezing" /\ left = 0 /\ pc' = Returned
  /\ UNCHANGED <<call, s, pos, left, fed, out>>

Next ==
  \/ shake_init \/ shake256_inc_init
  \/ \E n \in 0 .. MaxIn :
       \/ shake_absorb(n) \/ shake256_inc_absorb(n) \/ shake_absorb_once(n) \/ shakex4_absorb_once(n)
       \/ \E m \in 0 .. MaxOut :
            \/ shake128(m, n) \/ shake256(m, n) \/ shake128x4(m, n) \/ shake256x4(m, n)
            \/ shake256Sphincs(m, n) \/ shake128x4Sphincs(m, n) \/ shake256x4Sphincs(m, n)
            \/ shake128x2(m, n) \/ shake256x2(m, n)
  \/ keccak_absorb \/ keccak_inc_absorb \/ shake_finalize \/ shake256_inc_finalize
  \/ OnceBlock \/ OnceRest
  \/ \E n \in 0 .. MaxOut : shake_squeezeblocks(n) \/ shake_squeeze(n) \/ shake256_inc_squeeze(n)
  \/ keccak_squeezeblocks \/ ShakeRest \/ OneShot \/ keccak_squeeze \/ keccak_inc_squeeze \/ Return

Spec == Init /\ [][Next]_vars
-----------------------------------------------------------------------------
(* Message k with its padding, in blocks: 0x1F behind the last byte, 0x80  *)
(* in the last byte of the block.                                          *)
Blocks == (fed \div r) + 1
Padded(k) ==
  [b \in 1 .. Blocks |-> [j \in 0 .. r - 1 |->
     LET i == ((b - 1) * r) + j + 1
     IN  (IF i <= fed THEN {<<k, i>>} ELSE IF i = fed + 1 THEN {p} ELSE {})
         \cup (IF b = Blocks /\ j = r - 1 THEN {top} ELSE {})]]

(* However a message is cut into pieces, also where a piece ends on the    *)
(* last byte of a block, the permutation gets its padded blocks, once      *)
(* each, and nothing of another message or of the bytes behind it          *)
(* (fips202.c:379, 419, 499; fips202x4.c:42).                              *)
AbsorbsPaddedMessage ==
  pc \in {"squeeze", "blocks", "squeezing", "done"} => \A k \in DOMAIN s :
    LET absorbed == IF Len(s[k].past) < Blocks THEN Append(s[k].past, s[k].block) ELSE s[k].past
    IN  SubSeq(absorbed, 1, Blocks) = Padded(k)

(* However the output is taken, in pieces, in blocks or at once, it is the *)
(* stream that the message has: no byte is left out or given twice.        *)
OutputIsTheStream ==
  \A k \in DOMAIN s : \A i \in 1 .. Len(out[k]) :
    out[k][i] = <<Blocks + ((i - 1) \div r), (i - 1) % r, {}>>

(* There is always room for the byte that ends the message: "we are        *)
(* guaranteed that s_inc[25] < r" (sphincsplus/ref/fips202.c:476).         *)
RoomForPadding == pc = "absorb" => pos < r
=============================================================================
