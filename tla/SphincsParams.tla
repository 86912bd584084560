---------------------------- MODULE SphincsParams ----------------------------
(***************************************************************************)
(* The eighteen parameter sets of SPHINCS+ (sphincsplus/ref/params/): what *)
(* each header defines, the sizes that all of them derive in the same way, *)
(* and where the fields of an address lie.  The library is built with      *)
(* shake_128s.                                                             *)
(***************************************************************************)
EXTENDS Integers

LayoutOf(family, layer, tree, type, keypair, height, index) ==
  [family |-> family, layer |-> layer, tree |-> tree, type |-> type, keypair |-> keypair,
   chain |-> height, hash |-> index + 3, height |-> height, index |-> index]

shake_offsets == LayoutOf("shake", 3, 8, 19, 20, 27, 28)
haraka_offsets == LayoutOf("haraka", 3, 8, 19, 20, 27, 28)

sha2_offsets == LayoutOf("sha2", 0, 1, 9, 10, 17, 18)

(* The part that every header ends with. *)
LOGW(w) == IF w = 256 THEN 8 ELSE 4

LEN2(n, w) ==
  IF w = 256 THEN (IF n <= 1 THEN 1 ELSE 2)
  ELSE IF n <= 8 THEN 2 ELSE IF n <= 136 THEN 3 ELSE 4

Header(n, height, d, forsHeight, forsTrees, w, offsets) ==
  LET len1 == (8 * n) \div LOGW(w)
      len == len1 + LEN2(n, w)
      forsBytes == (forsHeight + 1) * forsTrees * n
  IN  [N |-> n, FULL_HEIGHT |-> height, D |-> d, FORS_HEIGHT |-> forsHeight, FORS_TREES |-> forsTrees,
       WOTS_W |-> w, WOTS_LOGW |-> LOGW(w), WOTS_LEN1 |-> len1, WOTS_LEN2 |-> LEN2(n, w),
       WOTS_LEN |-> len, WOTS_BYTES |-> len * n, TREE_HEIGHT |-> height \div d,
       FORS_MSG_BYTES |-> (forsHeight * forsTrees + 7) \div 8, FORS_BYTES |-> forsBytes,
       BYTES |-> n + forsBytes + (d * len * n) + (height * n),
       PK_BYTES |-> 2 * n, SK_BYTES |-> 4 * n, SEEDBYTES |-> 3 * n, offsets |-> offsets]

haraka_128f == Header(16, 66, 22,  6, 33, 16, haraka_offsets)
haraka_128s == Header(16, 63,  7, 12, 14, 16, haraka_offsets)
haraka_192f == Header(24, 66, 22,  8, 33, 16, haraka_offsets)
haraka_192s == Header(24, 63,  7, 14, 17, 16, haraka_offsets)
haraka_256f == Header(32, 68, 17,  9, 35, 16, haraka_offsets)
haraka_256s == Header(32, 64,  8, 14, 22, 16, haraka_offsets)
sha2_128f == Header(16, 66, 22,  6, 33, 16, sha2_offsets)
sha2_128s == Header(16, 63,  7, 12, 14, 16, sha2_offsets)
sha2_192f == Header(24, 66, 22,  8, 33, 16, sha2_offsets)
sha2_192s == Header(24, 63,  7, 14, 17, 16, sha2_offsets)
sha2_256f == Header(32, 68, 17,  9, 35, 16, sha2_offsets)
sha2_256s == Header(32, 64,  8, 14, 22, 16, sha2_offsets)
shake_128f == Header(16, 66, 22,  6, 33, 16, shake_offsets)
shake_128s == Header(16, 63,  7, 12, 14, 16, shake_offsets)
shake_192f == Header(24, 66, 22,  8, 33, 16, shake_offsets)
shake_192s == Header(24, 63,  7, 14, 17, 16, shake_offsets)
shake_256f == Header(32, 68, 17,  9, 35, 16, shake_offsets)
shake_256s == Header(32, 64,  8, 14, 22, 16, shake_offsets)

ParameterSets ==
  {haraka_128f, haraka_128s, haraka_192f, haraka_192s, haraka_256f, haraka_256s,
   sha2_128f, sha2_128s, sha2_192f, sha2_192s, sha2_256f, sha2_256s,
   shake_128f, shake_128s, shake_192f, shake_192s, shake_256f, shake_256s}
=============================================================================
