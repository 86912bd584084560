----------------------------- MODULE MlDsaMatrix -----------------------------
(***************************************************************************)
(* The matrix A of ML-DSA as the AVX2 build expands it (avx2/polyvec.c):   *)
(* polynomials are sampled four at a time, so that the end of one row and  *)
(* the beginning of the next come out of one call.  The signer keeps the   *)
(* whole matrix; key generation and verification keep two rows by turns    *)
(* (polyvec_matrix_expand_row, avx2/sign.c).                               *)
(***************************************************************************)
EXTENDS Integers, Sequences

VARIABLES
  K, L,
  rows,     \* "all": mat[K]; "two": rowbuf[2]
  i,        \* the row being expanded
  pc,       \* "sample", "unpack", "use" or "done"
  call, n,  \* the call of poly_uniform_4x, of poly_nttunpack
  mem       \* the polynomials: which nonce they are of and how often unpacked

vars == <<K, L, rows, i, pc, call, n, mem>>

(* polyvec_matrix_expand_row<i>: the columns of rowa, how many of rowb,    *)
(* and the nonces of the calls one after the other.                        *)
Row(from, to, b, nonces) == [from |-> from, to |-> to, b |-> b, nonces |-> nonces]
Expand44 == <<
  Row(0, 3, 0, <<0, 1, 2, 3>>), Row(0, 3, 0, <<256, 257, 258, 259>>),
  Row(0, 3, 0, <<512, 513, 514, 515>>), Row(0, 3, 0, <<768, 769, 770, 771>>)>>
Expand65 == <<
  Row(0, 4, 3, <<0, 1, 2, 3, 4, 256, 257, 258>>), Row(3, 4, 2, <<259, 260, 512, 513>>),
  Row(2, 4, 1, <<514, 515, 516, 768>>), Row(1, 4, 0, <<769, 770, 771, 772>>),
  Row(0, 4, 3, <<1024, 1025, 1026, 1027, 1028, 1280, 1281, 1282>>), Row(3, 4, 2, <<1283, 1284, 1536, 1537>>)>>
Expand87 == <<
  Row(0, 6, 1, <<0, 1, 2, 3, 4, 5, 6, 256>>), Row(1, 6, 2, <<257, 258, 259, 260, 261, 262, 512, 513>>),
  Row(2, 6, 3, <<514, 515, 516, 517, 518, 768, 769, 770>>), Row(3, 6, 0, <<771, 772, 773, 774>>),
  Row(0, 6, 1, <<1024, 1025, 1026, 1027, 1028, 1029, 1030, 1280>>),
  Row(1, 6, 2, <<1281, 1282, 1283, 1284, 1285, 1286, 1536, 1537>>),
  Row(2, 6, 3, <<1538, 1539, 1540, 1541, 1542, 1792, 1793, 1794>>), Row(3, 6, 0, <<1795, 1796, 1797, 1798>>)>>
Expand == IF L = 4 THEN Expand44 ELSE IF L = 5 THEN Expand65 ELSE Expand87
row == Expand[i + 1]

(* Where rowa and rowb are: the signer passes mat[i] and mat[i+1], past    *)
(* the last row a polyvecl of its own; the others change over.             *)
rowa == IF rows = "all" THEN i ELSE i % 2
rowb == IF rows = "all" THEN i + 1 ELSE 1 - (i % 2)

Outputs == row.to - row.from + 1 + row.b
Target(k) == IF k <= row.to - row.from THEN <<rowa, row.from + k>> ELSE <<rowb, k - (row.to - row.from + 1)>>

Never == [nonce |-> -1, unpacked |-> 0]
Init ==
  /\ \E p \in {<<4, 4>>, <<6, 5>>, <<8, 7>>} : K = p[1] /\ L = p[2]
  /\ rows \in {"all", "two"}
  /\ i = 0 /\ pc = "sample" /\ call = 0 /\ n = 0
  /\ mem = [s \in (0 .. 8) \X (0 .. 6) |-> Never]

(* poly_uniform_4x: four polynomials of the nonces that come next. *)
Sample ==
  /\ pc = "sample"
  /\ mem' = [s \in DOMAIN mem |->
               IF \E k \in 4 * call .. 4 * call + 3 : Target(k) = s
               THEN [nonce |-> row.nonces[(CHOOSE k \in 4 * call .. 4 * call + 3 : Target(k) = s) + 1], unpacked |-> 0]
               ELSE mem[s]]
  /\ IF 4 * (call + 1) < Outputs THEN call' = call + 1 /\ pc' = pc ELSE call' = 0 /\ pc' = "unpack"
  /\ UNCHANGED <<K, L, rows, i, n>>

(* poly_nttunpack: the order the vector code multiplies in.  What the last *)
(* row samples of no row is left out.                                      *)
Unpack ==
  /\ pc = "unpack"
  /\ mem' = [mem EXCEPT ![Target(n)].unpacked = @ + 1]
  /\ IF n + 1 < (IF i = K - 1 THEN row.to - row.from + 1 ELSE Outputs) THEN n' = n + 1 /\ pc' = pc ELSE n' = 0 /\ pc' = "use"
  /\ UNCHANGED <<K, L, rows, i, call>>

(* `row` is rowa, and polyvecl_pointwise_acc_montgomery of it. *)
Use ==
  /\ pc = "use"
  /\ IF i + 1 < K THEN i' = i + 1 /\ pc' = "sample" ELSE i' = i /\ pc' = "done"
  /\ UNCHANGED <<K, L, rows, call, n, mem>>

Next == Sample \/ Unpack \/ Use
Spec == Init /\ [][Next]_vars
-----------------------------------------------------------------------------
Right(slot, r, j) == mem[slot] = [nonce |-> 256 * r + j, unpacked |-> 1]

(* A row that is multiplied is the reference's (ref/polyvec.c:20): column  *)
(* j of row r is of nonce (r << 8) + j and in the order of the vector      *)
(* code, whichever call made it (avx2/sign.c:13).                          *)
RowIsTheMatrix ==
  pc = "use" => \A j \in 0 .. L - 1 : Right(<<rowa, j>>, i, j)

(* What a later row overwrites was only its own: with mat[K] every row is  *)
(* still there at the end (avx2/polyvec.c:65).                             *)
MatrixStays ==
  pc = "done" /\ rows = "all" => \A r \in 0 .. K - 1, j \in 0 .. L - 1 : Right(<<r, j>>, r, j)
=============================================================================
