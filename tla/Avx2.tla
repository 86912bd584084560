-------------------------------- MODULE Avx2 --------------------------------
(***************************************************************************)
(* Machine words as wiring, and the vector instructions that the packing   *)
(* code of dilithium/avx2 uses on them.  A word is the set of the          *)
(* <<position, bit>> it holds, where a bit is any value that names an      *)
(* input bit: one run of a function on such words says what it does to     *)
(* every input.  A position that has no bit is 0; one that has several is  *)
(* their exclusive or.                                                     *)
(***************************************************************************)
EXTENDS Integers, Sequences

Shl(x, n) == {<<p[1] + n, p[2]>> : p \in x}
Shr(x, n) == {<<p[1] - n, p[2]>> : p \in {q \in x : q[1] >= n}}

(* x & (2^n - 1), or a conversion to an unsigned type of n bits. *)
Low(x, n) == {p \in x : p[1] < n}

(* Shifted by n to the right, or by -n to the left. *)
Shift(x, n) == IF n >= 0 THEN Shr(x, n) ELSE Shl(x, -n)

Xor(x, y) == (x \ y) \cup (y \ x)

(* The words of a sequence of words of the given width, end to end. *)
Join(words, width) == UNION {Shl(words[k], (k - 1) * width) : k \in DOMAIN words}

(* Word k, from 1, of a value cut into words of the given width. *)
Cut(x, k, width) == Low(Shr(x, (k - 1) * width), width)

(* An input word of its own: bit i of it is <<name, i>>. *)
Fresh(name, width) == {<<i, <<name, i>>>> : i \in 0 .. width - 1}
-----------------------------------------------------------------------------
(* Registers of 32 bytes, each a word.  In an operand that lists lanes or  *)
(* bytes the first is the lowest.                                          *)

Bytes == 0 .. 31

(* Byte b of a register whose k-th lane of n bytes is lane[k]. *)
FromLanes(lane, n) == [b \in Bytes |-> Cut(lane[b \div n], (b % n) + 1, 8)]
Lane(r, k, n) == UNION {Shl(r[k * n + b], 8 * b) : b \in 0 .. n - 1}

(* Lanes of n bytes rearranged: lane k of the result is lane from[k+1]. *)
Permute(r, from, n) == [b \in Bytes |-> r[from[(b \div n) + 1] * n + (b % n)]]

(* Within each half; -1 gives 0. *)
shuffle_epi8(r, from) ==
  [b \in Bytes |-> LET s == from[b + 1] IN IF s < 0 THEN {} ELSE r[(b \div 16) * 16 + s]]

srlv_epi32(r, n) == FromLanes([k \in 0 .. 7 |-> Shr(Lane(r, k, 4), n[(k % Len(n)) + 1])], 4)

(* Lanes of n bytes halved, those of a before those of b in each half of   *)
(* the register; the values are small enough for no saturation.            *)
packus(a, b, n) ==
  LET half == 16 \div n
      Source(k) == LET j == k % (2 * half)
                       lane == (k \div (2 * half)) * half + (j % half)
                   IN  IF j < half THEN Lane(a, lane, n) ELSE Lane(b, lane, n)
  IN  FromLanes([k \in 0 .. 64 \div n - 1 |-> Low(Source(k), 4 * n)], n \div 2)

(* Two neighbouring lanes of n bytes, the upper one times 2^shift, added.  *)
madd(r, shift, n) ==
  FromLanes([k \in 0 .. 16 \div n - 1 |->
               Lane(r, 2 * k, n) \cup Shl(Lane(r, 2 * k + 1, n), shift)], 2 * n)
=============================================================================
