---------------------------- MODULE MlDsaPacking ----------------------------
(***************************************************************************)
(* The byte layout of ML-DSA keys and signatures (packing.c) and the bit   *)
(* packing of the polynomials in them (poly.c, avx2/poly.c).  A            *)
(* polynomial is one group of coefficients, the loop body of its packing   *)
(* function; a coefficient is a word of its own bits, as the code has it   *)
(* after it is taken from ETA, 2^(D-1) or GAMMA1.  The hints of a          *)
(* signature are in MlDsaHints.                                            *)
(***************************************************************************)
EXTENDS Avx2

CONSTANT Modes      \* the values of DILITHIUM_MODE explored
ModesAssumption == Modes \subseteq {2, 3, 5}

N == 256
K(m) == CASE m = 2 -> 4 [] m = 3 -> 6 [] m = 5 -> 8
L(m) == CASE m = 2 -> 4 [] m = 3 -> 5 [] m = 5 -> 7
OMEGA(m) == CASE m = 2 -> 80 [] m = 3 -> 55 [] m = 5 -> 75
CTILDEBYTES(m) == CASE m = 2 -> 32 [] m = 3 -> 48 [] m = 5 -> 64
POLYZ_PACKEDBYTES(m) == IF m = 2 THEN 576 ELSE 640
POLYETA_PACKEDBYTES(m) == IF m = 3 THEN 128 ELSE 96
POLYW1_PACKEDBYTES(m) == IF m = 2 THEN 192 ELSE 128
CRYPTO_PUBLICKEYBYTES(m) == 32 + K(m) * 320
CRYPTO_SECRETKEYBYTES(m) == 128 + (L(m) + K(m)) * POLYETA_PACKEDBYTES(m) + K(m) * 416
CRYPTO_BYTES(m) == CTILDEBYTES(m) + L(m) * POLYZ_PACKEDBYTES(m) + OMEGA(m) + K(m)
-----------------------------------------------------------------------------
(* What a byte or a coefficient is put together from: <<j, s>> is item j,  *)
(* from 0, shifted by s to the right.                                      *)
Wire(wires, items, width) ==
  [k \in DOMAIN wires |->
     Low(UNION {Shift(items[w[1] + 1], w[2]) : w \in wires[k]}, width)]

polyeta_pack(m, t) ==
  IF m = 3 THEN Wire(<<{<<0, 0>>, <<1, -4>>}>>, t, 8)
  ELSE Wire(<<{<<0, 0>>, <<1, -3>>, <<2, -6>>},
              {<<2, 2>>, <<3, -1>>, <<4, -4>>, <<5, -7>>},
              {<<5, 1>>, <<6, -2>>, <<7, -5>>}>>, t, 8)

polyeta_unpack(m, a) ==
  IF m = 3 THEN Wire(<<{<<0, 0>>}, {<<0, 4>>}>>, a, 4)
  ELSE Wire(<<{<<0, 0>>}, {<<0, 3>>}, {<<0, 6>>, <<1, -2>>}, {<<1, 1>>},
              {<<1, 4>>}, {<<1, 7>>, <<2, -1>>}, {<<2, 2>>}, {<<2, 5>>}>>, a, 3)

polyt1_pack(a) ==
  Wire(<<{<<0, 0>>}, {<<0, 8>>, <<1, -2>>}, {<<1, 6>>, <<2, -4>>},
         {<<2, 4>>, <<3, -6>>}, {<<3, 2>>}>>, a, 8)

polyt1_unpack(a) ==
  Wire(<<{<<0, 0>>, <<1, -8>>}, {<<1, 2>>, <<2, -6>>},
         {<<2, 4>>, <<3, -4>>}, {<<3, 6>>, <<4, -2>>}>>, a, 10)

(* Mistake: byte 8 does not get the last bit of coefficient 4. *)
polyt0_packLosesBit(t) ==
  Wire(<<{<<0, 0>>}, {<<0, 8>>, <<1, -5>>}, {<<1, 3>>}, {<<1, 11>>, <<2, -2>>},
         {<<2, 6>>, <<3, -7>>}, {<<3, 1>>}, {<<3, 9>>, <<4, -4>>}, {<<4, 4>>},
         {<<5, -1>>}, {<<5, 7>>, <<6, -6>>}, {<<6, 2>>},
         {<<6, 10>>, <<7, -3>>}, {<<7, 5>>}>>, t, 8)

polyt0_pack(t) ==
  Wire(<<{<<0, 0>>}, {<<0, 8>>, <<1, -5>>}, {<<1, 3>>}, {<<1, 11>>, <<2, -2>>},
         {<<2, 6>>, <<3, -7>>}, {<<3, 1>>}, {<<3, 9>>, <<4, -4>>}, {<<4, 4>>},
         {<<4, 12>>, <<5, -1>>}, {<<5, 7>>, <<6, -6>>}, {<<6, 2>>},
         {<<6, 10>>, <<7, -3>>}, {<<7, 5>>}>>, t, 8)

polyt0_unpack(a) ==
  Wire(<<{<<0, 0>>, <<1, -8>>}, {<<1, 5>>, <<2, -3>>, <<3, -11>>}, {<<3, 2>>, <<4, -6>>},
         {<<4, 7>>, <<5, -1>>, <<6, -9>>}, {<<6, 4>>, <<7, -4>>, <<8, -12>>},
         {<<8, 1>>, <<9, -7>>}, {<<9, 6>>, <<10, -2>>, <<11, -10>>},
         {<<11, 3>>, <<12, -5>>}>>, a, 13)

polyz_pack(m, t) ==
  IF m = 2 THEN Wire(<<{<<0, 0>>}, {<<0, 8>>}, {<<0, 16>>, <<1, -2>>}, {<<1, 6>>},
                       {<<1, 14>>, <<2, -4>>}, {<<2, 4>>}, {<<2, 12>>, <<3, -6>>},
                       {<<3, 2>>}, {<<3, 10>>}>>, t, 8)
  ELSE Wire(<<{<<0, 0>>}, {<<0, 8>>}, {<<0, 16>>, <<1, -4>>}, {<<1, 4>>}, {<<1, 12>>}>>, t, 8)

polyz_unpack(m, a) ==
  IF m = 2 THEN Wire(<<{<<0, 0>>, <<1, -8>>, <<2, -16>>}, {<<2, 2>>, <<3, -6>>, <<4, -14>>},
                       {<<4, 4>>, <<5, -4>>, <<6, -12>>}, {<<6, 6>>, <<7, -2>>, <<8, -10>>}>>, a, 18)
  ELSE Wire(<<{<<0, 0>>, <<1, -8>>, <<2, -16>>}, {<<2, 4>>, <<3, -4>>, <<4, -12>>}>>, a, 20)

polyw1_pack(m, a) ==
  IF m = 2 THEN Wire(<<{<<0, 0>>, <<1, -6>>}, {<<1, 2>>, <<2, -4>>}, {<<2, 4>>, <<3, -2>>}>>, a, 8)
  ELSE Wire(<<{<<0, 0>>, <<1, -4>>}>>, a, 8)

(* avx2/poly.c: these are the same statements as in the reference. *)
polyeta_pack_avx2(m, t) == polyeta_pack(m, t)
polyeta_unpack_avx2(m, a) == polyeta_unpack(m, a)
polyt1_pack_avx2(a) == polyt1_pack(a)
polyt1_unpack_avx2(a) == polyt1_unpack(a)
polyt0_pack_avx2(t) == polyt0_pack(t)
polyt0_unpack_avx2(a) == polyt0_unpack(a)
polyz_pack_avx2(m, t) == polyz_pack(m, t)

(* polyz_unpack loads 32 bytes, r, for eight coefficients of 18 or 20 bits. *)
polyz_unpack_avx2(m, r) ==
  LET f == Permute(r, <<0, 1, 1, 2>>, 8)
      g == IF m = 2
           THEN srlv_epi32(shuffle_epi8(f, <<0, 1, 2, -1, 2, 3, 4, -1, 4, 5, 6, -1, 6, 7, 8, -1,
                                            1, 2, 3, -1, 3, 4, 5, -1, 5, 6, 7, -1, 7, 8, 9, -1>>),
                           <<0, 2, 4, 6>>)
           ELSE srlv_epi32(shuffle_epi8(f, <<0, 1, 2, -1, 2, 3, 4, -1, 5, 6, 7, -1, 7, 8, 9, -1,
                                            2, 3, 4, -1, 4, 5, 6, -1, 7, 8, 9, -1, 9, 10, 11, -1>>),
                           <<0, 4>>)
  IN  [k \in 1 .. 8 |-> Low(Lane(g, k - 1, 4), IF m = 2 THEN 18 ELSE 20)]

(* Eight coefficients to a register; the bytes stored, 24 or 32 of them.   *)
polyw1_pack_avx2_88(a) ==
  LET v(k) == FromLanes([i \in 0 .. 7 |-> a[8 * k + i + 1]], 4)
      f == packus(packus(v(0), v(1), 4), packus(v(2), v(3), 4), 2)
      g == Permute(madd(madd(f, 6, 1), 12, 2), <<0, 4, 1, 5, 2, 6, 3, 7>>, 4)
      h == shuffle_epi8(g, <<0, 1, 2, 4, 5, 6, 8, 9, 10, 12, 13, 14, -1, -1, -1, -1,
                             0, 1, 2, 4, 5, 6, 8, 9, 10, 12, 13, 14, -1, -1, -1, -1>>)
      r == Permute(h, <<0, 1, 2, 4, 5, 6, 7, 7>>, 4)
  IN  [b \in 1 .. 24 |-> r[b - 1]]

polyw1_pack_avx2_32(a) ==
  LET v(k) == FromLanes([i \in 0 .. 7 |-> a[8 * k + i + 1]], 4)
      f(k) == madd(packus(packus(v(k), v(k + 1), 4), packus(v(k + 2), v(k + 3), 4), 2), 4, 1)
      g == Permute(packus(f(0), f(4), 2), <<0, 2, 1, 3>>, 8)
      h == shuffle_epi8(g, <<0, 1, 8, 9, 2, 3, 10, 11, 4, 5, 12, 13, 6, 7, 14, 15,
                             0, 1, 8, 9, 2, 3, 10, 11, 4, 5, 12, 13, 6, 7, 14, 15>>)
  IN  [b \in 1 .. 32 |-> h[b - 1]]
-----------------------------------------------------------------------------
(* The kinds of polynomial: the bits of a coefficient, and how many are in *)
(* a group.                                                                *)
Poly(m, kind) ==
  CASE kind = "eta" -> IF m = 3 THEN [width |-> 4, group |-> 2]
                       ELSE [width |-> 3, group |-> 8]
    [] kind = "t1"  -> [width |-> 10, group |-> 4]
    [] kind = "t0"  -> [width |-> 13, group |-> 8]
    [] kind = "z"   -> IF m = 2 THEN [width |-> 18, group |-> 4]
                       ELSE [width |-> 20, group |-> 2]
    [] kind = "w1"  -> IF m = 2 THEN [width |-> 6, group |-> 4]
                       ELSE [width |-> 4, group |-> 2]

Group(m, kind, name) ==
  [j \in 1 .. Poly(m, kind).group |-> Fresh(<<name, j>>, Poly(m, kind).width)]

PackGroup(build, m, kind, t) ==
  LET avx2 == build = "avx2"
  IN  CASE kind = "eta" -> IF avx2 THEN polyeta_pack_avx2(m, t) ELSE polyeta_pack(m, t)
        [] kind = "t1"  -> IF avx2 THEN polyt1_pack_avx2(t) ELSE polyt1_pack(t)
        [] kind = "t0"  -> IF avx2 THEN polyt0_pack_avx2(t) ELSE polyt0_pack(t)
        [] kind = "z"   -> IF avx2 THEN polyz_pack_avx2(m, t) ELSE polyz_pack(m, t)
        [] kind = "w1"  -> polyw1_pack(m, t)

UnpackGroup(build, m, kind, a) ==
  LET avx2 == build = "avx2"
  IN  CASE kind = "eta" -> IF avx2 THEN polyeta_unpack_avx2(m, a) ELSE polyeta_unpack(m, a)
        [] kind = "t1"  -> IF avx2 THEN polyt1_unpack_avx2(a) ELSE polyt1_unpack(a)
        [] kind = "t0"  -> IF avx2 THEN polyt0_unpack_avx2(a) ELSE polyt0_unpack(a)
        [] kind = "z"   -> polyz_unpack(m, a)

(* The fields of an object in the order its pack function writes them:     *)
(* <<name, length>>, and the kind of a polynomial.                         *)
Field(name, kind, length) == [name |-> name, kind |-> kind, length |-> length]
Vector(name, kind, count, length) == [i \in 1 .. count |-> Field(<<name, i>>, kind, length)]

pack_pk(m) == <<Field(<<"rho">>, "bytes", 32)>> \o Vector("t1", "t1", K(m), 320)

pack_sk(m) ==
  <<Field(<<"rho">>, "bytes", 32), Field(<<"key">>, "bytes", 32), Field(<<"tr">>, "bytes", 64)>>
  \o Vector("s1", "eta", L(m), POLYETA_PACKEDBYTES(m))
  \o Vector("s2", "eta", K(m), POLYETA_PACKEDBYTES(m))
  \o Vector("t0", "t0", K(m), 416)

pack_sig(m) ==
  <<Field(<<"c">>, "bytes", CTILDEBYTES(m))>> \o Vector("z", "z", L(m), POLYZ_PACKEDBYTES(m))
  \o <<Field(<<"h">>, "bytes", OMEGA(m) + K(m))>>

polyveck_pack_w1(m) == Vector("w1", "w1", K(m), POLYW1_PACKEDBYTES(m))

(* The unpack functions read the same fields, in the same order. *)
unpack_pk(m) == pack_pk(m)
unpack_sk(m) == pack_sk(m)
unpack_sig(m) == pack_sig(m)

PackFields(m, object) ==
  CASE object = "pk" -> pack_pk(m) [] object = "sk" -> pack_sk(m)
    [] object = "sig" -> pack_sig(m) [] object = "w1" -> polyveck_pack_w1(m)
UnpackFields(m, object) ==
  CASE object = "pk" -> unpack_pk(m) [] object = "sk" -> unpack_sk(m)
    [] object = "sig" -> unpack_sig(m) [] object = "w1" -> <<>>

Size(m, object) ==
  CASE object = "pk" -> CRYPTO_PUBLICKEYBYTES(m) [] object = "sk" -> CRYPTO_SECRETKEYBYTES(m)
    [] object = "sig" -> CRYPTO_BYTES(m) [] object = "w1" -> K(m) * POLYW1_PACKEDBYTES(m)
-----------------------------------------------------------------------------
VARIABLES
  mode, object,   \* what is packed
  packer, unpacker, \* the builds that pack and unpack it: "ref" or "avx2"
  phase,          \* "pack", "unpack" or "done"
  step,           \* the field at hand
  offset,         \* how far the pointer has been moved
  buffer,         \* what was written: the offsets of fields and their first group of bytes
  found           \* the last field an unpack function read

vars == <<mode, object, packer, unpacker, phase, step, offset, buffer, found>>

Init ==
  /\ mode \in Modes /\ object \in {"pk", "sk", "sig", "w1"}
  /\ packer \in {"ref", "avx2"} /\ unpacker \in {"ref", "avx2"}
  /\ phase = "pack" /\ step = 1 /\ offset = 0
  /\ buffer = [o \in {} |-> 0]
  /\ found = [field |-> Field(<<"none">>, "bytes", 0), value |-> <<"none">>]

Content(m, field) ==
  IF field.kind = "bytes" THEN field.name
  ELSE PackGroup(packer, m, field.kind, Group(m, field.kind, field.name))

Pack ==
  LET fields == PackFields(mode, object)
      field == fields[step]
  IN  /\ phase = "pack"
      /\ buffer' = [o \in DOMAIN buffer \cup {offset} |->
                      IF o = offset THEN [field |-> field, content |-> Content(mode, field)]
                      ELSE buffer[o]]
      /\ IF step < Len(fields) THEN step' = step + 1 /\ offset' = offset + field.length /\ UNCHANGED phase
         ELSE step' = 1 /\ offset' = 0 /\ phase' = IF object = "w1" THEN "done" ELSE "unpack"
      /\ UNCHANGED <<mode, object, packer, unpacker, found>>

(* What a function that expects this field at this offset makes of the     *)
(* bytes there.                                                            *)
ReadField(m, field, o) ==
  IF o \notin DOMAIN buffer \/ buffer[o].field.length # field.length THEN <<"other bytes">>
  ELSE IF field.kind = "bytes" THEN buffer[o].content
  ELSE UnpackGroup(unpacker, m, field.kind, buffer[o].content)

Unpack ==
  LET fields == UnpackFields(mode, object)
      field == fields[step]
  IN  /\ phase = "unpack"
      /\ found' = [field |-> field, value |-> ReadField(mode, field, offset)]
      /\ IF step < Len(fields) THEN step' = step + 1 /\ offset' = offset + field.length /\ UNCHANGED phase
         ELSE step' = 1 /\ offset' = 0 /\ phase' = "done"
      /\ UNCHANGED <<mode, object, packer, unpacker, buffer>>

Next == Pack \/ Unpack
Spec == Init /\ [][Next]_vars
-----------------------------------------------------------------------------
(* Every field of a key or signature comes back from the place it was put  *)
(* at, bit by bit, for every value of every coefficient (packing.c:8-237,  *)
(* poly.c:523-876).                                                        *)
ReadsBack ==
  found.value = IF found.field.kind = "bytes" THEN found.field.name
                ELSE Group(mode, found.field.kind, found.field.name)

(* The fields cover the array from its first byte to its last, none twice, *)
(* and the groups of a polynomial cover its bytes (params.h:47-78).        *)
FillsExactly ==
  /\ \A o, p \in DOMAIN buffer : o < p => o + buffer[o].field.length <= p
  /\ \A o \in DOMAIN buffer :
       LET f == buffer[o].field
       IN  /\ o + f.length \in DOMAIN buffer \cup {IF phase = "pack" THEN offset ELSE Size(mode, object)}
           /\ f.kind # "bytes" => f.length * 8 = N * Poly(mode, f.kind).width

(* The bytes of a polynomial are the bits of its coefficients in a row:    *)
(* none is lost and no two share a place, also in the bytes of w1 that are *)
(* hashed and never unpacked.                                              *)
PacksInARow ==
  \A o \in DOMAIN buffer :
    LET f == buffer[o].field
    IN  f.kind # "bytes" =>
          \A b \in DOMAIN buffer[o].content :
            buffer[o].content[b] =
              Cut(Join(Group(mode, f.kind, f.name), Poly(mode, f.kind).width), b, 8)

(* The vector code reads and writes the same bits as the reference:        *)
(* packed bytes are the bits of the coefficients in a row, which is what   *)
(* avx2/poly.c:1005-1128 stores for w1 and takes apart for z.              *)
VectorCodeAgrees ==
  LET zs == [j \in 1 .. 8 |-> Fresh(j, Poly(mode, "z").width)]
      rest == Fresh("next bytes", 256)
      bits == Join(zs, Poly(mode, "z").width)
      loaded == bits \cup Shl(rest, 8 * Poly(mode, "z").width)
      ws == [j \in 1 .. 64 |-> Fresh(j, Poly(mode, "w1").width)]
      w1 == IF mode = 2 THEN polyw1_pack_avx2_88(ws) ELSE polyw1_pack_avx2_32(ws)
  IN  (step = 1) =>
        /\ polyz_unpack_avx2(mode, FromLanes([k \in 0 .. 31 |-> Cut(loaded, k + 1, 8)], 1)) = zs
        /\ \A b \in DOMAIN w1 : w1[b] = Cut(Join(ws, Poly(mode, "w1").width), b, 8)
=============================================================================
