---------------------------- MODULE SignedMessage ----------------------------
(***************************************************************************)
(* crypto_sign and crypto_sign_open: a signature followed by its message   *)
(* in one buffer, and the context string of ML-DSA (dilithium/ref/sign.c,  *)
(* sphincsplus/ref/sign.c).  Memory is one array; for ML-DSA the message   *)
(* may lie where the signed message goes, and for both where it comes      *)
(* from.  A byte of a signature names what was signed.                     *)
(***************************************************************************)
EXTENDS Integers, Sequences

CONSTANTS
  BYTES,              \* of a signature
  MaxLength,          \* of messages
  MaxContext,         \* of contexts: 255 in the code
  Values              \* of bytes of messages and contexts

SizesAssumption ==
  BYTES \in Nat \ {0} /\ MaxLength \in Nat /\ MaxContext \in Nat /\ Values \subseteq Nat

Strings(n) == UNION {[1 .. k -> Values] : k \in 0 .. n}
Messages == Strings(MaxLength)
\* Of those that are too long one is enough.
Contexts == Strings(MaxContext) \cup {[k \in 1 .. MaxContext + 1 |-> CHOOSE v \in Values : TRUE]}

Apart == BYTES + MaxLength                \* another buffer than the one at 0
Size == 2 * (BYTES + MaxLength)

Cell(value, of) == [value |-> value, of |-> of]
Zero == Cell(0, <<>>)

VARIABLES
  scheme, message, ctx,                   \* what is signed
  mem, m,                                 \* memory and where the message is in it
  mlen, smlen,
  pc, i, ret,
  openctx                                 \* the context that the receiver has

vars == <<scheme, message, ctx, mem, m, mlen, smlen, pc, i, ret, openctx>>
signing == <<scheme, message, ctx>>

Put(at, cells) ==
  [a \in 0 .. Size - 1 |-> IF a \in at .. at + Len(cells) - 1 THEN cells[a - at + 1] ELSE mem[a]]
Bytes(at, n) == [k \in 1 .. n |-> mem[at + k - 1].value]

(* pre = (0, ctxlen, ctx); SPHINCS+ has no context. *)
pre(c) == IF scheme = "sphincs" THEN <<>> ELSE <<0, Len(c)>> \o c

TooLong(c) == scheme = "dilithium" /\ Len(c) > MaxContext

Init ==
  /\ scheme \in {"dilithium", "sphincs"} /\ message \in Messages /\ ctx \in Contexts
  /\ scheme = "sphincs" => ctx = <<>>
  /\ m \in {0, Apart} /\ (scheme = "sphincs" => m = Apart)
  /\ mem = [a \in 0 .. Size - 1 |->
             IF a \in m .. m + Len(message) - 1 THEN Cell(message[a - m + 1], <<>>) ELSE Zero]
  /\ mlen = Len(message) /\ smlen = 0
  /\ pc = "copy" /\ i = 0 /\ ret = 0 /\ openctx = ctx

(* Mistake: from the front. *)
CopyUpForward ==
  /\ pc = "copy" /\ scheme = "dilithium" /\ i < mlen
  /\ mem' = [mem EXCEPT ![BYTES + i] = mem[m + i]]
  /\ i' = i + 1
  /\ UNCHANGED <<signing, m, mlen, smlen, pc, ret, openctx>>
(* crypto_sign of Dilithium: the message first, from the back. *)
CopyUp ==
  /\ pc = "copy" /\ scheme = "dilithium" /\ i < mlen
  /\ mem' = [mem EXCEPT ![BYTES + mlen - 1 - i] = mem[m + mlen - 1 - i]]
  /\ i' = i + 1
  /\ UNCHANGED <<signing, m, mlen, smlen, pc, ret, openctx>>

(* crypto_sign_signature into the beginning of sm. *)
Signature(of) == [k \in 1 .. BYTES |-> Cell(-k, of)]

(* *smlen is written by a call that succeeds only; mlen is added to        *)
(* whatever is in it, here 0.                                              *)
SignDilithium ==
  /\ pc = "copy" /\ scheme = "dilithium" /\ i = mlen /\ i' = 0
  /\ IF TooLong(ctx)
     THEN pc' = "failed" /\ ret' = -1 /\ smlen' = smlen + mlen /\ UNCHANGED mem
     ELSE /\ mem' = Put(0, Signature(pre(ctx) \o Bytes(BYTES, mlen)))
          /\ smlen' = BYTES + mlen /\ pc' = "signed" /\ UNCHANGED ret
  /\ UNCHANGED <<signing, m, mlen, openctx>>

(* crypto_sign of SPHINCS+: the signature first, then memmove.             *)
SignSphincs ==
  /\ pc = "copy" /\ scheme = "sphincs"
  /\ mem' = Put(0, Signature(Bytes(m, mlen)) \o [k \in 1 .. mlen |-> mem[m + k - 1]])
  /\ smlen' = BYTES + mlen /\ pc' = "signed"
  /\ UNCHANGED <<signing, m, mlen, i, ret, openctx>>

(* The signed message reaches the receiver, whole, cut off, with one byte  *)
(* or its message changed, who wants the message in place or elsewhere.    *)
Deliver ==
  /\ pc = "signed" /\ pc' = "open" /\ i' = 0 /\ m' \in {0, Apart}
  /\ \/ UNCHANGED <<mem, smlen, openctx>>
     \/ \E n \in 0 .. smlen - 1 : smlen' = n /\ UNCHANGED <<mem, openctx>>
     \/ \E a \in 0 .. smlen - 1 : mem' = [mem EXCEPT ![a] = Zero] /\ UNCHANGED <<smlen, openctx>>
     \/ \E other \in Messages, c \in Contexts :
          /\ scheme = "sphincs" => c = <<>>
          /\ mem' = Put(BYTES, [k \in 1 .. Len(other) |-> Cell(other[k], <<>>)])
          /\ smlen' = BYTES + Len(other) /\ openctx' = c
  /\ UNCHANGED <<signing, mlen, ret>>

Verified ==
  /\ ~TooLong(openctx)
  /\ \A k \in 1 .. BYTES : mem[k - 1] = Cell(-k, pre(openctx) \o Bytes(BYTES, smlen - BYTES))

Open ==
  /\ pc = "open"
  /\ IF smlen >= BYTES /\ Verified
     THEN pc' = "give" /\ mlen' = smlen - BYTES
     ELSE pc' = "wipe" /\ mlen' = 0
  /\ UNCHANGED <<signing, mem, m, smlen, i, ret, openctx>>

(* The message is moved to the front, byte by byte or with memmove.        *)
Give ==
  /\ pc = "give"
  /\ IF i < mlen
     THEN mem' = [mem EXCEPT ![m + i] = mem[BYTES + i]] /\ i' = i + 1 /\ UNCHANGED <<pc, ret>>
     ELSE pc' = "done" /\ ret' = 0 /\ UNCHANGED <<mem, i>>
  /\ UNCHANGED <<signing, m, mlen, smlen, openctx>>

ToWipe == smlen
Wipe ==
  /\ pc = "wipe"
  /\ IF i < ToWipe
     THEN mem' = [mem EXCEPT ![m + i] = Zero] /\ i' = i + 1 /\ UNCHANGED <<pc, ret>>
     ELSE pc' = "done" /\ ret' = -1 /\ UNCHANGED <<mem, i>>
  /\ UNCHANGED <<signing, m, mlen, smlen, openctx>>

Next == CopyUp \/ SignDilithium \/ SignSphincs \/ Deliver \/ Open \/ Give \/ Wipe
Spec == Init /\ [][Next]_vars
-----------------------------------------------------------------------------
(* The signed message has the message and a signature of it, even where    *)
(* they take the place of the message (dilithium/ref/sign.c:245: "can be   *)
(* equal to m").                                                           *)
SignsTheMessage ==
  pc = "signed" => /\ Bytes(BYTES, mlen) = message
                   /\ \A k \in 1 .. BYTES : mem[k - 1].of = pre(ctx) \o message

(* Nothing is given as opened that is not the message that was signed,     *)
(* and with its context: bytes do not pass from one to the other           *)
(* (dilithium/ref/sign.c:389-392).                                         *)
OnlyWhatWasSigned ==
  pc = "done" /\ ret = 0 => Bytes(m, mlen) = message /\ openctx = ctx

(* Of what is not accepted no byte is left in the buffer for the message,  *)
(* not even where it was (dilithium/ref/sign.c:438-440).                   *)
NothingIsLeft ==
  pc = "done" /\ ret = -1 => mlen = 0 /\ \A k \in 0 .. smlen - 1 : mem[m + k] = Zero

OpensWhatWasSigned == SignsTheMessage /\ OnlyWhatWasSigned /\ NothingIsLeft
=============================================================================
