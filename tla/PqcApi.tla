------------------------------- MODULE PqcApi -------------------------------
(***************************************************************************)
(* The C interface, src/bitcoinpqc.c: the structs a caller owns, the heap  *)
(* blocks the library allocates for them, and the error codes.  A call is  *)
(* one step.  The two signature schemes are symbolic: a key is the random  *)
(* data it came from, a signature the key and the message.                 *)
(***************************************************************************)
EXTENDS Integers

CONSTANTS
  Keypairs,       \* the bitcoin_pqc_keypair_t structs of the caller, zeroed at first
  Signatures,     \* its bitcoin_pqc_signature_t structs, zeroed at first
  Blocks,         \* what malloc can return, besides NULL
  Randoms,        \* contents of random_data
  Messages,
  Null,
  Reuse           \* TRUE when the caller also fills structs it has not freed

ASSUME NullAssumption == Null \notin Blocks
ASSUME ReuseAssumption == Reuse \in BOOLEAN

Secp == "secp256k1_schnorr"
MlDsa == "ml_dsa_44"
SlhDsa == "slh_dsa_shake_128s"
Unknown == "no such algorithm"      \* any other value of the C enum's type
Algorithms == {Secp, MlDsa, SlhDsa, Unknown}

PublicKeySize(a) ==
  CASE a = Secp -> 32 [] a = MlDsa -> 1312 [] a = SlhDsa -> 32 [] OTHER -> 0
SecretKeySize(a) ==
  CASE a = Secp -> 32 [] a = MlDsa -> 2560 [] a = SlhDsa -> 64 [] OTHER -> 0
SignatureSize(a) ==
  CASE a = Secp -> 64 [] a = MlDsa -> 2420 [] a = SlhDsa -> 7856 [] OTHER -> 0

VARIABLES
  keypair,        \* [algorithm, public_key, secret_key, public_key_size, secret_key_size]
  signature,      \* [algorithm, signature, signature_size]
  allocated,      \* the size each block is allocated with, 0 when it is free
  content,        \* what each block holds, allocated or not
  last,           \* the last call and its return value
  signed          \* history: the <<algorithm, random, message>> signed so far

heap == <<allocated, content>>
structs == <<keypair, signature>>
vars == <<structs, heap, last, signed>>

Blank == <<"blank">>
PublicKey(a, r) == <<"public key", a, r>>
SecretKey(a, r) == <<"secret key", a, r>>
Signature(a, r, m) == <<"signature", a, r, m>>

(* A zeroed struct; the enum gives 0 to secp256k1. *)
NoKeypair == [algorithm |-> Secp, public_key |-> Null, secret_key |-> Null,
              public_key_size |-> 0, secret_key_size |-> 0]
NoSignature == [algorithm |-> Secp, signature |-> Null, signature_size |-> 0]

Init ==
  /\ keypair = [k \in Keypairs |-> NoKeypair]
  /\ signature = [s \in Signatures |-> NoSignature]
  /\ content = [b \in Blocks |-> Blank]
  /\ allocated = [b \in Blocks |-> 0]
  /\ last = [call |-> "none", error |-> "OK"]
  /\ signed = {}

Return(call, error) == last' = [call |-> call, error |-> error]

(* malloc gives a free block, in which it leaves what was there, or NULL. *)
MallocResults == {b \in Blocks : allocated[b] = 0} \cup {Null}
Allocate(heapSizes, b, size) == IF b = Null THEN heapSizes ELSE [heapSizes EXCEPT ![b] = size]
Free(heapSizes, b) == Allocate(heapSizes, b, 0)

(* Lines 60-62, 152-154, 248-251: a pointer argument is NULL. *)
NullArgument ==
  /\ \E call \in {"keygen", "sign", "verify"} : Return(call, "BAD_ARG")
  /\ UNCHANGED <<structs, heap, signed>>

(* bitcoin_pqc_keygen, lines 64-74. *)
KeygenRejects(a, size) ==
  /\ size < 128 \/ PublicKeySize(a) = 0 \/ SecretKeySize(a) = 0
  /\ Return("keygen", "BAD_ARG")
  /\ UNCHANGED <<structs, heap, signed>>

KeygenAccepts(a, size) == size >= 128 /\ PublicKeySize(a) # 0 /\ SecretKeySize(a) # 0

(* Lines 77-78: the two blocks, and the sizes of the heap with them. *)
TwoBlocks == {p \in MallocResults \X MallocResults : p[1] = p[2] => p[1] = Null}
WithKeys(a, p) == Allocate(Allocate(allocated, p[1], PublicKeySize(a)), p[2], SecretKeySize(a))

(* Mistake: the block that malloc did give is not freed. *)
KeygenNoMemoryLeaks(a, size) ==
  /\ KeygenAccepts(a, size)
  /\ \E p \in TwoBlocks : Null \in {p[1], p[2]} /\ allocated' = WithKeys(a, p)
  /\ Return("keygen", "BAD_ARG")
  /\ UNCHANGED <<structs, content, signed>>

(* Lines 80-84: one malloc or both fail. *)
KeygenNoMemory(a, size) ==
  /\ KeygenAccepts(a, size)
  /\ \E p \in TwoBlocks :
       /\ Null \in {p[1], p[2]}
       /\ allocated' = Free(Free(WithKeys(a, p), p[1]), p[2])
  /\ Return("keygen", "BAD_ARG")
  /\ UNCHANGED <<structs, content, signed>>

(* Lines 88-92, 105-109: nothing has been written to the blocks. *)
KeygenFails(a, size) ==
  /\ KeygenAccepts(a, size) /\ a = Secp
  /\ \E p \in TwoBlocks :
       /\ Null \notin {p[1], p[2]}
       /\ allocated' = Free(Free(WithKeys(a, p), p[1]), p[2])
  /\ Return("keygen", "BAD_KEY")
  /\ UNCHANGED <<structs, content, signed>>

(* Lines 93-98, 111-118. *)
KeygenOk(k, a, r, size) ==
  /\ KeygenAccepts(a, size) /\ a # Secp
  /\ \E p \in TwoBlocks :
       /\ Null \notin {p[1], p[2]}
       /\ allocated' = WithKeys(a, p)
       /\ content' = [content EXCEPT ![p[1]] = PublicKey(a, r), ![p[2]] = SecretKey(a, r)]
       /\ keypair' = [keypair EXCEPT ![k] =
            [algorithm |-> a, public_key |-> p[1], secret_key |-> p[2],
             public_key_size |-> PublicKeySize(a), secret_key_size |-> SecretKeySize(a)]]
  /\ Return("keygen", "OK")
  /\ UNCHANGED <<signature, signed>>

Keygen(k, a, r, size) ==
  /\ Reuse \/ keypair[k] = NoKeypair
  /\ \/ KeygenRejects(a, size)
     \/ KeygenNoMemory(a, size)
     \/ KeygenFails(a, size)
     \/ KeygenOk(k, a, r, size)

(* A block is overwritten with zeros over the size the struct gives; only  *)
(* when that is all of the block is nothing left of what it held.          *)
Cleared(b, size) == IF size = allocated[b] THEN Blank ELSE content[b]

(* Mistake: the pointers are not set to NULL. *)
KeypairFreeKeepsPointers(k) ==
  LET kp == keypair[k]
  IN  /\ allocated' = Free(Free(allocated, kp.public_key), kp.secret_key)
      /\ content' = [b \in Blocks |-> IF b \in {kp.public_key, kp.secret_key} THEN Blank ELSE content[b]]
      /\ keypair' = [keypair EXCEPT ![k] = [NoKeypair EXCEPT !.public_key = kp.public_key,
                                                          !.secret_key = kp.secret_key]]
      /\ Return("free", "OK")
      /\ UNCHANGED <<signature, signed>>

(* Mistake: the sizes are reset first, and nothing is overwritten. *)
KeypairFreeResetsFirst(k) ==
  LET kp == keypair[k]
  IN  /\ allocated' = Free(Free(allocated, kp.public_key), kp.secret_key)
      /\ keypair' = [keypair EXCEPT ![k] = NoKeypair]
      /\ Return("free", "OK")
      /\ UNCHANGED <<signature, content, signed>>

(* bitcoin_pqc_keypair_free, lines 121-142. *)
KeypairFree(k) ==
  LET kp == keypair[k]
  IN  /\ allocated' = Free(Free(allocated, kp.public_key), kp.secret_key)
      /\ content' = [b \in Blocks |->
           CASE b = kp.public_key -> Cleared(b, kp.public_key_size)
             [] b = kp.secret_key -> Cleared(b, kp.secret_key_size)
             [] OTHER -> content[b]]
      /\ keypair' = [keypair EXCEPT ![k] = NoKeypair]
      /\ Return("free", "OK")
      /\ UNCHANGED <<signature, signed>>

(* bitcoin_pqc_sign, lines 152-222, with the secret key in block sk.  A    *)
(* NULL argument comes first, then the size of the key.                    *)
SignRejects(a, sk, size) ==
  /\ \/ sk = Null /\ Return("sign", "BAD_ARG")
     \/ sk # Null /\ size # SecretKeySize(a) /\ Return("sign", "BAD_KEY")
     \/ sk # Null /\ size = SecretKeySize(a) /\ SignatureSize(a) = 0 /\ Return("sign", "BAD_ARG")
  /\ UNCHANGED <<structs, heap, signed>>

SignAccepts(a, sk, size) ==
  sk # Null /\ size = SecretKeySize(a) /\ SignatureSize(a) # 0

(* Lines 174-178. *)
SignNoMemory(a, sk, size) ==
  /\ SignAccepts(a, sk, size)
  /\ Return("sign", "BAD_ARG")
  /\ UNCHANGED <<structs, heap, signed>>

(* Mistake: the block is not freed. *)
SignFailsLeaks(a, sk, size) ==
  /\ SignAccepts(a, sk, size) /\ a = Secp
  /\ \E sig \in MallocResults \ {Null} : allocated' = Allocate(allocated, sig, SignatureSize(a))
  /\ Return("sign", "BAD_SIGNATURE")
  /\ UNCHANGED <<structs, content, signed>>

(* Lines 184-189, 209-212: nothing has been written to the block. *)
SignFails(a, sk, size) ==
  /\ SignAccepts(a, sk, size) /\ a = Secp
  /\ \E sig \in MallocResults \ {Null} :
       allocated' = Free(Allocate(allocated, sig, SignatureSize(a)), sig)
  /\ Return("sign", "BAD_SIGNATURE")
  /\ UNCHANGED <<structs, content, signed>>

(* Lines 190-199, 214-221.  The secret key is whatever block sk holds: of  *)
(* this size it is the secret key of a key pair of this algorithm.         *)
SignOk(a, sk, size, m, s) ==
  /\ SignAccepts(a, sk, size) /\ a # Secp
  /\ \E sig \in MallocResults \ {Null}, r \in Randoms :
       /\ content[sk] = SecretKey(a, r)
       /\ allocated' = Allocate(allocated, sig, SignatureSize(a))
       /\ content' = [content EXCEPT ![sig] = Signature(a, r, m)]
       /\ signature' = [signature EXCEPT ![s] =
            [algorithm |-> a, signature |-> sig, signature_size |-> SignatureSize(a)]]
       /\ signed' = signed \cup {<<a, r, m>>}
  /\ Return("sign", "OK")
  /\ UNCHANGED keypair

Sign(a, sk, size, m, s) ==
  /\ Reuse \/ signature[s] = NoSignature
  /\ \/ SignRejects(a, sk, size)
     \/ SignNoMemory(a, sk, size)
     \/ SignFails(a, sk, size)
     \/ SignOk(a, sk, size, m, s)

(* Mistake: the pointer is not set to NULL. *)
SignatureFreeKeepsPointer(s) ==
  LET sig == signature[s]
  IN  /\ allocated' = Free(allocated, sig.signature)
      /\ content' = [b \in Blocks |-> IF b = sig.signature THEN Blank ELSE content[b]]
      /\ signature' = [signature EXCEPT ![s] = [NoSignature EXCEPT !.signature = sig.signature]]
      /\ Return("free", "OK")
      /\ UNCHANGED <<keypair, signed>>

(* bitcoin_pqc_signature_free, lines 224-237. *)
SignatureFree(s) ==
  LET sig == signature[s]
  IN  /\ allocated' = Free(allocated, sig.signature)
      /\ content' = [b \in Blocks |->
           IF b = sig.signature THEN Cleared(b, sig.signature_size) ELSE content[b]]
      /\ signature' = [signature EXCEPT ![s] = NoSignature]
      /\ Return("free", "OK")
      /\ UNCHANGED <<keypair, signed>>

(* The verdict of the scheme on the contents of two blocks. *)
Genuine(a, pk, m, sig) ==
  a # Secp /\ \E r \in Randoms : content[pk] = PublicKey(a, r) /\ content[sig] = Signature(a, r, m)

(* Mistake: the placeholder of secp256k1 leaves result at 0. *)
VerifyResultPlaceholderOk(a, pk, pkSize, m, sig, sigSize) ==
  CASE pk = Null \/ sig = Null -> "BAD_ARG"
    [] pk # Null /\ sig # Null /\ pkSize # PublicKeySize(a) -> "BAD_KEY"
    [] pk # Null /\ sig # Null /\ pkSize = PublicKeySize(a) /\ sigSize # SignatureSize(a) -> "BAD_SIGNATURE"
    [] OTHER -> IF a = Unknown THEN "NOT_IMPLEMENTED"
                ELSE IF a = Secp \/ Genuine(a, pk, m, sig) THEN "OK" ELSE "BAD_SIGNATURE"

(* bitcoin_pqc_verify, lines 248-298. *)
VerifyResult(a, pk, pkSize, m, sig, sigSize) ==
  CASE pk = Null \/ sig = Null -> "BAD_ARG"
    [] pk # Null /\ sig # Null /\ pkSize # PublicKeySize(a) -> "BAD_KEY"
    [] pk # Null /\ sig # Null /\ pkSize = PublicKeySize(a) /\ sigSize # SignatureSize(a) -> "BAD_SIGNATURE"
    [] OTHER -> IF a = Unknown THEN "NOT_IMPLEMENTED"
                ELSE IF Genuine(a, pk, m, sig) THEN "OK" ELSE "BAD_SIGNATURE"

Verify(a, pk, pkSize, m, sig, sigSize) ==
  /\ last' = [call |-> "verify", error |-> VerifyResult(a, pk, pkSize, m, sig, sigSize),
              public_key |-> pk, message |-> m]
  /\ UNCHANGED <<structs, heap, signed>>

(* The size a caller passes with a pointer: the one of the struct, one     *)
(* that secp256k1 accepts, or 0.                                           *)
Claims(size) == {size, 32, 64, 0}

Next ==
  \/ NullArgument
  \/ \E k \in Keypairs, a \in Algorithms, r \in Randoms, size \in {127, 128} : Keygen(k, a, r, size)
  \/ \E k \in Keypairs : KeypairFree(k)
  \/ \E k \in Keypairs, a \in Algorithms, m \in Messages, s \in Signatures :
       \E size \in Claims(keypair[k].secret_key_size) : Sign(a, keypair[k].secret_key, size, m, s)
  \/ \E s \in Signatures : SignatureFree(s)
  \/ \E k \in Keypairs, a \in Algorithms, m \in Messages, s \in Signatures :
       \E pkSize \in Claims(keypair[k].public_key_size), sigSize \in Claims(signature[s].signature_size) :
         Verify(a, keypair[k].public_key, pkSize, m, signature[s].signature, sigSize)

Spec == Init /\ [][Next]_vars
-----------------------------------------------------------------------------
Errors == {"OK", "BAD_ARG", "BAD_KEY", "BAD_SIGNATURE", "NOT_IMPLEMENTED"}

TypeOK ==
  /\ keypair \in [Keypairs ->
       [algorithm : Algorithms, public_key : Blocks \cup {Null},
        secret_key : Blocks \cup {Null}, public_key_size : Nat, secret_key_size : Nat]]
  /\ signature \in [Signatures ->
       [algorithm : Algorithms, signature : Blocks \cup {Null}, signature_size : Nat]]
  /\ allocated \in [Blocks -> Nat]
  /\ DOMAIN content = Blocks
  /\ last.error \in Errors
  /\ signed \subseteq Algorithms \X Randoms \X Messages

(* A struct is empty, or each of its pointers is to an allocated block of  *)
(* the size it says, holding what it says for the algorithm it says: what  *)
(* a caller passes on from a struct is always of one piece, and the memset *)
(* before a free covers the block exactly (bitcoinpqc.c:112-116, 125, 132, *)
(* 215-217, 228).                                                          *)
KeypairDescribesBlocks ==
  \A k \in Keypairs :
    LET kp == keypair[k]
    IN  \/ kp = NoKeypair
        \/ /\ kp.public_key # Null /\ kp.secret_key # Null
           /\ allocated[kp.public_key] = kp.public_key_size
           /\ allocated[kp.secret_key] = kp.secret_key_size
           /\ \E r \in Randoms : /\ content[kp.public_key] = PublicKey(kp.algorithm, r)
                                 /\ content[kp.secret_key] = SecretKey(kp.algorithm, r)

SignatureDescribesBlock ==
  \A s \in Signatures :
    LET sig == signature[s]
    IN  \/ sig = NoSignature
        \/ /\ sig.signature # Null
           /\ allocated[sig.signature] = sig.signature_size
           /\ \E r \in Randoms, m \in Messages :
                /\ content[sig.signature] = Signature(sig.algorithm, r, m)
                /\ <<sig.algorithm, r, m>> \in signed

DescribesBlocks == KeypairDescribesBlocks /\ SignatureDescribesBlock

(* The fields of all structs that point to block b. *)
Owners(b) ==
  {<<k, "public_key">> : k \in {j \in Keypairs : keypair[j].public_key = b}}
  \cup {<<k, "secret_key">> : k \in {j \in Keypairs : keypair[j].secret_key = b}}
  \cup {<<s, "signature">> : s \in {j \in Signatures : signature[j].signature = b}}

(* No block has two owners: freeing every struct, in any order and any     *)
(* number of times, frees no block twice (bitcoinpqc.c:121-142, 224-237).  *)
OneOwner == \A b \in Blocks : \A x, y \in Owners(b) : x = y

(* A caller that frees a struct before it fills it again never loses a     *)
(* block, whichever calls fail on the way (bitcoinpqc.c:80-84, 105-109,    *)
(* 209-212).                                                               *)
NoLeak == ~Reuse => \A b \in Blocks : allocated[b] # 0 => Owners(b) # {}

(* Freed memory holds no key and no signature (bitcoinpqc.c:125, 132, 228). *)
FreedIsBlank == \A b \in Blocks : allocated[b] = 0 => content[b] = Blank

(* A call that fails changes neither the caller's structs nor the heap.    *)
FailureChangesNothing == [][last'.error # "OK" => UNCHANGED <<structs, heap>>]_vars

(* What verifies under a key in a struct was signed with the secret key    *)
(* made along with it.                                                     *)
VerifiedWasSigned ==
  last.call = "verify" /\ last.error = "OK" =>
    \E a \in Algorithms, r \in Randoms :
      /\ content[last.public_key] = PublicKey(a, r)
      /\ <<a, r, last.message>> \in signed
=============================================================================
