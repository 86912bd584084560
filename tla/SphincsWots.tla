----------------------------- MODULE SphincsWots -----------------------------
(***************************************************************************)
(* One-time signatures of SPHINCS+: how a message becomes the lengths of   *)
(* chains (sphincsplus/ref/wots.c), and how the builds that hash 2, 4 or 8 *)
(* things at a time run up the chains: longest first, dropping those that  *)
(* are done (gen_chains in shake-a64, shake-avx2 and sha2-avx2).           *)
(*                                                                         *)
(* A value on a chain is the number of the chain and the place on it; a    *)
(* hash with any other address than the one of that place gives Garbage.   *)
(***************************************************************************)
EXTENDS Integers, FiniteSets

CONSTANTS N, LOGW, LEN2, Messages
SizesAssumption ==
  /\ N \in Nat \ {0} /\ LOGW \in {1, 2, 4, 8} /\ LEN2 \in Nat \ {0}
  /\ Messages \subseteq [0 .. N - 1 -> 0 .. 255]

W == 2 ^ LOGW
LEN1 == (8 * N) \div LOGW
LEN == LEN1 + LEN2
Chains == 0 .. LEN - 1

(* The digits of input in base W, the greatest of each byte first. *)
base_w(out_len, input) ==
  [o \in 0 .. out_len - 1 |->
    LET bit == o * LOGW IN (input[bit \div 8] \div 2 ^ (8 - LOGW - (bit % 8))) % W]

ull_to_bytes(outlen, in) == [b \in 0 .. outlen - 1 |-> (in \div 256 ^ (outlen - 1 - b)) % 256]

wots_checksum(msg) ==
  LET csum[c \in 0 .. LEN1] == IF c = 0 THEN 0 ELSE csum[c - 1] + (W - 1 - msg[c - 1])
      pad == (8 - ((LEN2 * LOGW) % 8)) % 8
  IN  base_w(LEN2, ull_to_bytes(((LEN2 * LOGW) + 7) \div 8, csum[LEN1] * 2 ^ pad))

chain_lengths(msg) ==
  LET digits == base_w(LEN1, msg)
      check == wots_checksum(digits)
  IN  [c \in Chains |-> IF c < LEN1 THEN digits[c] ELSE check[c - LEN1]]

Garbage == [chain |-> -1, place |-> -1]
thash(v, chain, hash) ==
  IF v.chain = chain /\ v.place = hash THEN [v EXCEPT !.place = @ + 1] ELSE Garbage

(* ref/wots.c: one chain after the other. *)
gen_chain(v, chain, start, steps) ==
  LET Climb[k \in start .. start + steps] == IF k = start THEN v ELSE thash(Climb[k - 1], chain, k - 1)
  IN  Climb[start + steps]

wots_pk_from_sig(sig, msg) ==
  LET lengths == chain_lengths(msg)
  IN  [c \in Chains |-> gen_chain(sig[c], c, lengths[c], W - 1 - lengths[c])]

(* What a signer publishes (wotsx1.c). *)
Signature(msg) == [c \in Chains |-> [chain |-> c, place |-> chain_lengths(msg)[c]]]

VARIABLES
  msg, build,
  start, steps,           \* of each chain
  idxs,                   \* the chains, those with most steps first
  phase, i, watching, k,  \* of gen_chains; phase is "group", "climb" or "done"
  bufs,                   \* the chain in each lane, or -1 for the lane that is not used
  chains,                 \* the chain addresses of the lanes
  out

vars == <<msg, build, start, steps, idxs, phase, i, watching, k, bufs, chains, out>>

Lanes(b) == CASE b = "x2" -> 2 [] b = "x4" -> 4 [] b = "x8" -> 8

(* The counting sort by steps, as it comes out. *)
Place(s, c) == Cardinality({d \in Chains : s[d] > s[c]}) + Cardinality({d \in Chains : d < c /\ s[d] = s[c]})

Init ==
  /\ msg \in Messages /\ build \in {"x2", "x4", "x8"}
  /\ start = chain_lengths(msg)
  /\ steps = [c \in Chains |-> W - 1 - start[c]]
  /\ idxs = [n \in Chains |-> CHOOSE c \in Chains : Place(steps, c) = n]
  /\ out = Signature(msg)
  /\ phase = "group" /\ i = 0 /\ watching = 0 /\ k = 0
  /\ bufs = [lane \in 0 .. 7 |-> -1] /\ chains = [lane \in 0 .. 7 |-> 0]

(* The next chains take their lanes; lanes with no chain are not watched. *)
Group(n) ==
  /\ phase = "group" /\ i < LEN
  /\ watching' = IF i + n - 1 < LEN THEN n - 1 ELSE LEN - 1 - i
  /\ bufs' = [lane \in 0 .. 7 |-> IF lane <= watching' THEN idxs[i + lane] ELSE -1]
  /\ chains' = [lane \in 0 .. 7 |-> IF lane <= watching' THEN idxs[i + lane] ELSE chains[lane]]
  /\ k' = 0 /\ phase' = "climb"
  /\ UNCHANGED <<msg, build, start, steps, idxs, i, out>>

LastIsDone == k = steps[idxs[i + watching]]

(* The chain in the last lane watched is at its top. *)
Drop(n) ==
  /\ phase = "climb" /\ LastIsDone
  /\ bufs' = [bufs EXCEPT ![watching] = -1]
  /\ IF watching = 0 THEN phase' = "group" /\ i' = i + n /\ UNCHANGED watching
     ELSE watching' = watching - 1 /\ UNCHANGED <<phase, i>>
  /\ UNCHANGED <<msg, build, start, steps, idxs, k, chains, out>>

(* Mistake: every chain begins at the bottom. *)
HashAddressFromBottom(lane) == k

HashAddress(lane) == k + start[idxs[i + lane]]

Climb ==
  /\ phase = "climb" /\ ~LastIsDone
  /\ out' = [c \in Chains |->
       IF \E lane \in 0 .. watching : bufs[lane] = c
       THEN LET lane == CHOOSE lane \in 0 .. watching : bufs[lane] = c
            IN  thash(out[c], chains[lane], HashAddress(lane))
       ELSE out[c]]
  /\ k' = k + 1
  /\ UNCHANGED <<msg, build, start, steps, idxs, phase, i, watching, bufs, chains>>

Finish ==
  /\ phase = "group" /\ i >= LEN /\ phase' = "done"
  /\ UNCHANGED <<msg, build, start, steps, idxs, i, watching, k, bufs, chains, out>>

gen_chains_x2 == build = "x2" /\ (Group(2) \/ Drop(2) \/ Climb \/ Finish)
gen_chains_x4 == build = "x4" /\ (Group(4) \/ Drop(4) \/ Climb \/ Finish)
gen_chains_x8 == build = "x8" /\ (Group(8) \/ Drop(8) \/ Climb \/ Finish)

Next == gen_chains_x2 \/ gen_chains_x4 \/ gen_chains_x8
Spec == Init /\ [][Next]_vars
-----------------------------------------------------------------------------
(* Neither array is read past its end, and the chains climb no higher than *)
(* the top; a chain leaves its lane at its top and not before: the longest *)
(* ones are in the first lanes (shake-avx2/wots.c:72-94).                  *)
InBounds ==
  /\ phase = "climb" => watching >= 0 /\ i + watching < LEN /\ watching < Lanes(build)
  /\ \A c \in Chains : out[c].chain = c /\ out[c].place \in start[c] .. W - 1
  /\ phase = "climb" => \A lane \in 0 .. watching : k <= steps[idxs[i + lane]]

(* Many lanes give the public key that one chain after the other gives,    *)
(* and it is the one the signer has: every chain at its top.               *)
SameKey ==
  phase = "done" => out = wots_pk_from_sig(Signature(msg), msg)
                    /\ \A c \in Chains : out[c] = [chain |-> c, place |-> W - 1]

(* What makes the signature one of this message only: for any other        *)
(* message some chain would have to be run backwards (ref/wots.c:66-84).  *)
NoOtherMessage ==
  phase = "done" => \A m \in Messages \ {msg} : LET lengths == chain_lengths(m)
                                                IN  \E c \in Chains : lengths[c] < start[c]

=============================================================================
