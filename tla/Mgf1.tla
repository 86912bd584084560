-------------------------------- MODULE Mgf1 --------------------------------
(***************************************************************************)
(* The mask generation function of SHA-2: hash i of the seed and the       *)
(* number i, for as many bytes as are asked for.  The AVX2 versions write  *)
(* eight or four masks that follow one another in one buffer, and each     *)
(* version has its own way to come to the end.                             *)
(***************************************************************************)
EXTENDS Integers, Sequences

CONSTANT Outputs      \* lengths of a mask

Builds == {"mgf1_256", "mgf1_512", "mgf1x8", "mgf1x4_512"}
Lanes(b) == CASE b = "mgf1x8" -> 8 [] b = "mgf1x4_512" -> 4 [] OTHER -> 1
SPX_SHA_OUTPUT_BYTES(b) == IF b \in {"mgf1_512", "mgf1x4_512"} THEN 64 ELSE 32

OutputsAssumption == Outputs \subseteq 1 .. 1000

(* Byte p of hash i of lane j; what is not written is junk. *)
Byte(j, i, p) == <<j, i, p>>
Junk == <<-1, -1, -1>>
Cells(b, outlen) == 0 .. Lanes(b) * outlen + SPX_SHA_OUTPUT_BYTES(b) - 1   \* the masks and what lies behind
-----------------------------------------------------------------------------
VARIABLES
  build, outlen,
  i,              \* the number that is hashed
  outx,           \* the offset of the pointer into the buffer
  out,            \* the buffer
  running

vars == <<build, outlen, i, outx, out, running>>

Init ==
  /\ build \in Builds /\ outlen \in Outputs
  /\ i = 0 /\ outx = 0 /\ running = TRUE
  /\ out = [c \in Cells(build, outlen) |-> Junk]

H == SPX_SHA_OUTPUT_BYTES(build)

(* The first n bytes of hash i of each lane go to outx + j*outlen. *)
Write(n) ==
  out' = [c \in DOMAIN out |->
            LET lane == { j \in 0 .. Lanes(build) - 1 : c >= outx + j * outlen /\ c < outx + j * outlen + n }
            IN  IF lane = {} THEN out[c]
                ELSE LET j == CHOOSE l \in lane : \A k \in lane : k <= l   \* the last one written
                     IN  Byte(j, i, c - outx - j * outlen)]


(* A whole hash, as long as one fits. *)
FullBlock ==
  /\ running /\ (i + 1) * H <= outlen
  /\ Write(H) /\ outx' = outx + H /\ i' = i + 1
  /\ UNCHANGED <<build, outlen, running>>

(* What is left, from a buffer: nothing, if the mask is whole hashes. *)
LastPart ==
  /\ running /\ (i + 1) * H > outlen
  /\ (IF outlen > i * H \/ Lanes(build) > 1 THEN Write(outlen - i * H) ELSE UNCHANGED out)
  /\ running' = FALSE
  /\ UNCHANGED <<build, outlen, i, outx>>

(* mgf1x4_512 hashes to a buffer and copies the smaller of a hash and what is left. *)
Step ==
  LET remaining == outlen - outx
      this_step == IF H > remaining THEN remaining ELSE H
  IN  /\ running /\ remaining > 0
      /\ Write(this_step) /\ outx' = outx + this_step /\ i' = i + 1
      /\ running' = (remaining > this_step)
      /\ UNCHANGED <<build, outlen>>

mgf1_256 == build = "mgf1_256" /\ (FullBlock \/ LastPart)
mgf1_512 == build = "mgf1_512" /\ (FullBlock \/ LastPart)
mgf1x8 == build = "mgf1x8" /\ (FullBlock \/ LastPart)
mgf1x4_512 == build = "mgf1x4_512" /\ Step

Next == mgf1_256 \/ mgf1_512 \/ mgf1x8 \/ mgf1x4_512
Spec == Init /\ [][Next]_vars
-----------------------------------------------------------------------------
(* Each mask is the first bytes of the hashes 0, 1, 2, ..: no lane gets    *)
(* another lane's mask and no hash is used twice (sha2.c:634).             *)
MasksAreTheStream ==
  ~running => \A j \in 0 .. Lanes(build) - 1, p \in 0 .. outlen - 1 :
                out[j * outlen + p] = Byte(j, p \div H, p % H)

(* Nothing is written behind the last mask, where the caller's other       *)
(* variables are, although most hashes are written whole (sha256x8.c:148). *)
NothingBehind == \A c \in DOMAIN out : c >= Lanes(build) * outlen => out[c] = Junk
=============================================================================
