---------------------------- MODULE RustBinding ----------------------------
(***************************************************************************)
(* The Rust binding, src/lib.rs, above the C interface (PqcApi).  A Vec of *)
(* Rust and a block of the C library come from one heap, so the memory of  *)
(* both is the heap of PqcApi.  The fields of a key and a signature are    *)
(* public: the caller, or what serde reads, may put any value of the       *)
(* bitmask Algorithm on any bytes, so a label is an argument of each call. *)
(* secp256k1 is external and symbolic, like the schemes of PqcApi.         *)
(***************************************************************************)
EXTENDS Integers, FiniteSets

CONSTANTS
  Blocks, Randoms, Null,
  Messages,       \* records: the first 32 bytes, head, and the rest, tail
  NotAScalar,     \* random data whose first 32 bytes are no secp256k1 key
  MaxSigned       \* bound: the different signatures made

ASSUME NullAssumption == Null \notin Blocks
ASSUME MessagesAssumption == \A m \in Messages : m = [head |-> m.head, tail |-> m.tail]
ASSUME MaxSignedAssumption == MaxSigned \in Nat
ASSUME NotAScalarAssumption == NotAScalar \subseteq Randoms

VARIABLES
  keypair, signature, allocated, content, last, signed,    \* PqcApi
  secret, public, sig,  \* the caller's SecretKey, PublicKey and Signature: where their bytes are
  pc,             \* where a call into C is: idle, keygen, copied, sign, signed
  result,         \* what the last call returned
  unwiped         \* history: the free blocks where a conversion from or to hex left a copy

C == INSTANCE PqcApi WITH Keypairs <- {"call"}, Signatures <- {"call"}, Reuse <- FALSE

cvars == <<keypair, signature, allocated, content, last, signed>>
values == <<secret, public, sig>>
vars == <<cvars, values, pc, result, unwiped>>

SECP256K1_SCHNORR == {"SECP256K1_SCHNORR"}
Algorithm == SUBSET {"SECP256K1_SCHNORR", "ML_DSA_44", "SLH_DSA_128S"}
(* The named algorithms, and one of the five other values. *)
Labels == { a \in Algorithm : Cardinality(a) = 1 } \cup { {"ML_DSA_44", "SLH_DSA_128S"} }

(* Mistake: the numbers of the bitmask are taken for those of the C enum. *)
intoByNumber(a) ==
  CASE a = SECP256K1_SCHNORR -> C!Secp
    [] a = {"ML_DSA_44"} -> C!SlhDsa
    [] OTHER -> C!MlDsa
into(a) ==
  CASE a = SECP256K1_SCHNORR -> C!Secp
    [] a = {"ML_DSA_44"} -> C!MlDsa
    [] OTHER -> C!SlhDsa
Panics(a) == Cardinality(a) # 1

(* The first 32 bytes of a message, which secp256k1 takes for the message. *)
Truncated(m) == [m EXCEPT !.tail = "none"]
Short(m) == m.head = "short"

Init ==
  /\ C!Init
  /\ secret = Null /\ public = Null /\ sig = Null
  /\ pc = "idle" /\ unwiped = {}
  /\ result = [op |-> "none", value |-> "Ok"]

Returns(op, value) == result' = [op |-> op, value |-> value] /\ pc' = "idle"
Fails(op, value) == pc = "idle" /\ Returns(op, value) /\ UNCHANGED <<cvars, values, unwiped>>
FromC(error) ==
  CASE error = "OK" -> "Ok"
    [] error = "BAD_ARG" -> "BadArgument" [] error = "BAD_KEY" -> "BadKey"
    [] error = "BAD_SIGNATURE" -> "BadSignature" [] OTHER -> "NotImplemented"

(* New vectors, from block to bytes; Rust aborts when there is no memory.  *)
Fresh == { b \in Blocks : allocated[b] = 0 }
Vecs(sizes, bytes) ==
  /\ allocated' = [b \in Blocks |-> IF b \in DOMAIN sizes THEN sizes[b] ELSE allocated[b]]
  /\ content' = [b \in Blocks |-> IF b \in DOMAIN bytes THEN bytes[b] ELSE content[b]]
  /\ unwiped' = unwiped \ DOMAIN bytes
Copies(of) == Vecs([b \in DOMAIN of |-> allocated[of[b]]], [b \in DOMAIN of |-> content[of[b]]])

(* ---- generate_keypair ---- *)
GenerateRejects(a, len) ==
  \/ len < (IF a = SECP256K1_SCHNORR THEN 32 ELSE 128) /\ Fails("generate_keypair", "InsufficientData")
  \/ a # SECP256K1_SCHNORR /\ len >= 128 /\ Panics(a) /\ Fails("generate_keypair", "panic")

GenerateSecp(r, len) ==
  /\ pc = "idle" /\ len >= 32 /\ secret = Null /\ public = Null
  /\ \/ r \in NotAScalar /\ Fails("generate_keypair", "BadKey")
     \/ /\ r \notin NotAScalar
        /\ \E p, q \in Fresh :
             /\ p # q /\ public' = p /\ secret' = q
             /\ Vecs([b \in {p, q} |-> 32],
                     [b \in {p, q} |-> IF b = p THEN C!PublicKey(C!Secp, r) ELSE C!SecretKey(C!Secp, r)])
        /\ result' = [op |-> "generate_keypair", value |-> "Ok", secp_data |-> len]
        /\ UNCHANGED <<keypair, signature, last, signed, sig, pc>>

(* When bitcoin_pqc_keygen fails the struct is still zero, and freeing it  *)
(* does nothing.                                                           *)
GenerateCalls(a, r, len) ==
  /\ pc = "idle" /\ a # SECP256K1_SCHNORR /\ ~Panics(a) /\ len >= 128
  /\ secret = Null /\ public = Null
  /\ C!Keygen("call", into(a), r, len)
  /\ IF last'.error = "OK" THEN pc' = "keygen" /\ UNCHANGED result
     ELSE Returns("generate_keypair", FromC(last'.error))
  /\ unwiped' = unwiped \ { b \in Blocks : allocated'[b] # 0 }
  /\ UNCHANGED values

GenerateCopies ==
  /\ pc = "keygen" /\ pc' = "copied"
  /\ \E p, q \in Fresh :
       /\ p # q /\ public' = p /\ secret' = q
       /\ Copies([b \in {p, q} |-> IF b = p THEN keypair["call"].public_key ELSE keypair["call"].secret_key])
  /\ UNCHANGED <<keypair, signature, last, signed, sig, result>>

(* Mistake: bitcoin_pqc_keypair_free is called on the error path only. *)
GenerateForgets ==
  pc = "copied" /\ Returns("generate_keypair", "Ok") /\ UNCHANGED <<cvars, values, unwiped>>
GenerateFrees ==
  /\ pc = "copied" /\ C!KeypairFree("call")
  /\ Returns("generate_keypair", "Ok") /\ UNCHANGED <<values, unwiped>>

generate_keypair(a, r, len) ==
  \/ GenerateRejects(a, len)
  \/ a = SECP256K1_SCHNORR /\ GenerateSecp(r, len)
  \/ GenerateCalls(a, r, len) \/ GenerateCopies \/ GenerateFrees

(* ---- sign, with the label a on the secret key ---- *)
SignRejects(a, m) ==
  \/ a = SECP256K1_SCHNORR /\ Short(m) /\ Fails("sign", "InsufficientData")
  \/ a = SECP256K1_SCHNORR /\ ~Short(m) /\ allocated[secret] # 32 /\ Fails("sign", "BadKey")
  \/ a # SECP256K1_SCHNORR /\ Panics(a) /\ Fails("sign", "panic")

SignSecp(m) ==
  /\ ~Short(m) /\ allocated[secret] = 32 /\ sig = Null
  /\ \E b \in Fresh, r \in Randoms :
       /\ content[secret] = C!SecretKey(C!Secp, r)
       /\ Vecs([x \in {b} |-> 64], [x \in {b} |-> C!Signature(C!Secp, r, Truncated(m))])
       /\ sig' = b
       /\ signed' = signed \cup {<<C!Secp, r, Truncated(m)>>}
  /\ Returns("sign", "Ok") /\ UNCHANGED <<keypair, signature, last, secret, public>>

SignCalls(a, m) ==
  /\ a # SECP256K1_SCHNORR /\ ~Panics(a) /\ sig = Null
  /\ C!Sign(into(a), secret, allocated[secret], m, "call")
  /\ IF last'.error = "OK" THEN pc' = "sign" /\ UNCHANGED result
     ELSE Returns("sign", FromC(last'.error))
  /\ unwiped' = unwiped \ { b \in Blocks : allocated'[b] # 0 }
  /\ UNCHANGED values

SignCopies ==
  /\ pc = "sign" /\ pc' = "signed"
  /\ \E b \in Fresh : Copies([x \in {b} |-> signature["call"].signature]) /\ sig' = b
  /\ UNCHANGED <<keypair, signature, last, signed, secret, public, result>>

SignFrees ==
  /\ pc = "signed" /\ C!SignatureFree("call")
  /\ Returns("sign", "Ok") /\ UNCHANGED <<values, unwiped>>

sign(a, m) ==
  \/ pc = "idle" /\ secret # Null /\ (SignRejects(a, m) \/ SignCalls(a, m) \/ (a = SECP256K1_SCHNORR /\ SignSecp(m)))
  \/ SignCopies \/ SignFrees

(* ---- verify, with the labels a and b on the key and the signature ---- *)
(* secp256k1 refuses bytes that are no point with BadKey; those of another *)
(* scheme may be a point or not.                                           *)
SecpVerdicts(m) ==
  LET foreign == IF content[public][2] = C!Secp THEN {} ELSE {"BadKey"}
  IN  IF Short(m) THEN {"InsufficientData"}
      ELSE IF allocated[public] # 32 THEN {"BadKey"}
      ELSE IF allocated[sig] # 64 THEN {"BadSignature"} \cup foreign
      ELSE IF \E r \in Randoms : /\ content[public] = C!PublicKey(C!Secp, r)
                                 /\ content[sig] = C!Signature(C!Secp, r, Truncated(m)) THEN {"Ok"}
      ELSE {"Secp256k1Error"} \cup foreign

verify_verdicts(a, b, m) ==
  IF a # b THEN {"AlgorithmMismatch"}
  ELSE IF a = SECP256K1_SCHNORR THEN SecpVerdicts(m)
  ELSE IF Panics(a) THEN {"panic"}
  ELSE IF allocated[public] # C!PublicKeySize(into(a)) THEN {"BadKey"}
  ELSE {FromC(C!VerifyResult(into(a), public, allocated[public], m, sig, allocated[sig]))}

(* History: a signature on this message, or on what secp256k1 takes of it, *)
(* was made with the secret key of this public key, as algorithm a says.   *)
Genuine(a, m) ==
  LET name == CASE a = SECP256K1_SCHNORR -> C!Secp [] a = {"ML_DSA_44"} -> C!MlDsa
                [] a = {"SLH_DSA_128S"} -> C!SlhDsa [] OTHER -> C!Unknown
      taken == IF a = SECP256K1_SCHNORR THEN Truncated(m) ELSE m
  IN  \E r \in Randoms : /\ content[public] = C!PublicKey(name, r)
                         /\ content[sig] = C!Signature(name, r, taken)
                         /\ <<name, r, taken>> \in signed

verify(a, b, m) ==
  /\ pc = "idle" /\ public # Null /\ sig # Null
  /\ \E v \in verify_verdicts(a, b, m) :
       result' = [op |-> "verify", value |-> v, genuine |-> a = b /\ Genuine(a, m)]
  /\ UNCHANGED <<cvars, values, pc, unwiped>>

(* ---- values ---- *)
(* The caller replaces its key by a copy of the bytes with another label.  *)
SameSize(a) == allocated[secret] = C!SecretKeySize(into(a))
try_from_slice(a) ==
  /\ pc = "idle" /\ secret # Null
  /\ \/ Panics(a) /\ Fails("try_from_slice", "panic")
     \/ ~Panics(a) /\ ~SameSize(a) /\ Fails("try_from_slice", "BadKey")
     \/ /\ ~Panics(a) /\ SameSize(a)
        /\ \E b \in Fresh :
             /\ Vecs([x \in {b, secret} |-> IF x = b THEN allocated[secret] ELSE 0],
                     [x \in {b, secret} |-> IF x = b THEN content[secret] ELSE C!Blank])
             /\ secret' = b
        /\ Returns("try_from_slice", "Ok") /\ UNCHANGED <<keypair, signature, last, signed, public, sig>>

(* A conversion from or to hex makes a copy of the key in a second block d *)
(* and drops it as it is.                                                  *)
LeavesCopy(op, value) ==
  /\ pc = "idle" /\ secret # Null
  /\ \E d \in Fresh :
       content' = [content EXCEPT ![d] = content[secret]] /\ unwiped' = unwiped \cup {d}
  /\ Returns(op, value) /\ UNCHANGED <<keypair, signature, allocated, last, signed, values>>

Decodes(op) ==
  /\ pc = "idle" /\ secret # Null
  /\ \E b, d \in Fresh :
       /\ b # d /\ secret' = b
       /\ allocated' = [allocated EXCEPT ![b] = allocated[secret], ![secret] = 0]
       /\ content' = [content EXCEPT ![b] = content[secret], ![d] = content[secret], ![secret] = C!Blank]
       /\ unwiped' = (unwiped \ {b}) \cup {d}
  /\ Returns(op, "Ok") /\ UNCHANGED <<keypair, signature, last, signed, public, sig>>

(* The Vec that hex::decode gives is borrowed by try_from_slice. *)
from_str(a) ==
  /\ pc = "idle" /\ secret # Null
  /\ \/ Panics(a) /\ LeavesCopy("from_str", "panic")
     \/ ~Panics(a) /\ ~SameSize(a) /\ LeavesCopy("from_str", "BadKey")
     \/ ~Panics(a) /\ SameSize(a) /\ Decodes("from_str")

(* serde's: the label must be one of the names, and may come after the     *)
(* bytes; no size is looked at.                                            *)
deserialize(a) ==
  IF Panics(a) THEN LeavesCopy("deserialize", "Err") ELSE Decodes("deserialize")

(* Mistake: the Vec is freed as it is. *)
DropSecretPlain ==
  /\ pc = "idle" /\ secret # Null /\ secret' = Null
  /\ allocated' = C!Free(allocated, secret)
  /\ Returns("drop", "Ok") /\ UNCHANGED <<keypair, signature, content, last, signed, public, sig, unwiped>>
DropSecret ==
  /\ pc = "idle" /\ secret # Null /\ secret' = Null
  /\ content' = [content EXCEPT ![secret] = C!Blank]
  /\ allocated' = C!Free(allocated, secret)
  /\ Returns("drop", "Ok") /\ UNCHANGED <<keypair, signature, last, signed, public, sig, unwiped>>

(* The bytes stay in the memory; they are not secret, and nothing here     *)
(* tells them from others.                                                 *)
Dropped(b) == allocated' = C!Free(allocated, b) /\ content' = [content EXCEPT ![b] = C!Blank]
DropPublic ==
  /\ pc = "idle" /\ public # Null /\ public' = Null /\ Dropped(public)
  /\ Returns("drop", "Ok") /\ UNCHANGED <<keypair, signature, last, signed, secret, sig, unwiped>>
DropSignature ==
  /\ pc = "idle" /\ sig # Null /\ sig' = Null /\ Dropped(sig)
  /\ Returns("drop", "Ok") /\ UNCHANGED <<keypair, signature, last, signed, secret, public, unwiped>>

(* A value with the label a is serialised.  The label goes first, and      *)
(* serde, external, may refuse it; hex_bytes::serialize then encodes the   *)
(* bytes to a String.  That of public bytes is no secret.                  *)
serialize(a) ==
  \/ Panics(a) /\ Fails("serialize", "panic")
  \/ ~Panics(a) /\ \E value \in {"Err", "Ok"} : Fails("serialize", value)
  \/ ~Panics(a) /\ LeavesCopy("serialize", "Ok")

(* Bounds: MaxSigned, Labels.                                              *)
Next ==
  \/ \E a \in Labels, r \in Randoms, len \in {31, 32, 128} : generate_keypair(a, r, len)
  \/ \E a \in Labels, m \in Messages : (pc = "idle" => Cardinality(signed) < MaxSigned) /\ sign(a, m)
  \/ \E a \in Labels, m \in Messages : verify(a, a, m) \/ verify(a, SECP256K1_SCHNORR, m)
  \/ \E a \in Labels : try_from_slice(a) \/ from_str(a) \/ deserialize(a) \/ serialize(a)
  \/ DropSecret \/ DropPublic \/ DropSignature
Spec == Init /\ [][Next]_vars
-----------------------------------------------------------------------------
(* Between calls every block belongs to one value of the caller, and C     *)
(* holds none, whichever way the calls before ended (lib.rs:442, 467).     *)
NothingLeaks == pc = "idle" => { b \in Blocks : allocated[b] # 0 } = {secret, public, sig} \ {Null}

(* The code does NOT wipe the copies it makes when the caller converts a   *)
(* secret key from or to hex: the Vec in from_str (lib.rs:257), the        *)
(* Strings of hex_bytes (lib.rs:29, 37).  They alone keep a key in freed   *)
(* memory: whatever else held one, in Rust or in C, is overwritten first   *)
(* (lib.rs:295), on every path of every call.                              *)
OnlyConversionsLeaveSecrets ==
  \A b \in Blocks : allocated[b] = 0 /\ content[b][1] = "secret key" => b \in unwiped

(* verify says yes exactly to what was signed, whatever the labels say;    *)
(* the numbers of the bitmask and of the C enum differ (lib.rs:132, 640).  *)
VerifiesWhatWasSigned ==
  result.op = "verify" => (result.value = "Ok" <=> result.genuine)

=============================================================================
