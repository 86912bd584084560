--------------------------- MODULE ScriptBindings ---------------------------
(***************************************************************************)
(* The Python and the Node.js binding.  Each turns the name of an          *)
(* algorithm into a number for the library it found: the C one, or a mock  *)
(* written in the language of the binding.  Python keeps the C struct with *)
(* the object until the object goes; Node frees it before it returns.      *)
(* What the C library does is that of PqcApi, by the number.               *)
(***************************************************************************)
EXTENDS Integers

CONSTANTS Pairs, Randoms, Messages


(* FN_DSA_512 is a name of Python only. *)
Names == {"SECP256K1_SCHNORR", "FN_DSA_512", "ML_DSA_44", "SLH_DSA_SHAKE_128S"}
NoBytes == [size |-> 0, is |-> <<"none">>]
NoObject == [name |-> "none", public_key |-> NoBytes, secret_key |-> NoBytes]

VARIABLES
  lang, library,     \* python or node; native, mock, or the one a test sets
  nativeAddon,       \* Node: the variable that setLibraryForTesting writes
  held,              \* for each key-pair object, whether a C struct behind it is to be freed
  object,            \* what the script sees of it
  sig,               \* the last signature: name and bytes
  signed,            \* history: number, bytes of the secret key, message
  result

vars == <<lang, library, nativeAddon, held, object, sig, signed, result>>
fixed == <<lang, library>>

(* class Algorithm in Python. *)
PythonNumber(name) ==
  CASE name = "SECP256K1_SCHNORR" -> 0 [] name = "FN_DSA_512" -> 1
    [] name = "ML_DSA_44" -> 2 [] OTHER -> 3
(* enum Algorithm in TypeScript; a number that has no name stands for FN_DSA_512. *)
NodeNumber(name) ==
  CASE name = "SECP256K1_SCHNORR" -> 0 [] name = "ML_DSA_44" -> 1
    [] name = "SLH_DSA_SHAKE_128S" -> 2 [] OTHER -> 99
Number(name) == IF lang = "python" THEN PythonNumber(name) ELSE NodeNumber(name)

Sizes(pk, sk, s) == [pk |-> pk, sk |-> sk, sig |-> s]
(* bitcoinpqc.c, and the enumeration of bitcoinpqc.h. *)
NativeSizes(n) ==
  CASE n = 0 -> Sizes(32, 32, 64) [] n = 1 -> Sizes(1312, 2560, 2420)
    [] n = 2 -> Sizes(32, 64, 7856) [] OTHER -> Sizes(0, 0, 0)
PythonMockSizes(n) ==
  CASE n = 0 -> Sizes(32, 32, 64) [] n = 1 -> Sizes(897, 1281, 666)
    [] n = 2 -> Sizes(1312, 2528, 2420) [] n = 3 -> Sizes(32, 64, 7856) [] OTHER -> Sizes(32, 64, 64)
NodeMockSizes(n) ==
  CASE n = 0 -> Sizes(32, 32, 64) [] n = 1 -> Sizes(1312, 2528, 2420)
    [] n = 2 -> Sizes(32, 64, 7856) [] OTHER -> Sizes(0, 0, 0)
SizesOf(n) ==
  IF library = "native" THEN NativeSizes(n)
  ELSE IF lang = "python" THEN PythonMockSizes(n) ELSE NodeMockSizes(n)

Init ==
  /\ lang \in {"python", "node"} /\ library \in {"native", "mock"}
  /\ nativeAddon = IF library = "native" THEN "native" ELSE "null"
  /\ held = [k \in Pairs |-> FALSE] /\ object = [k \in Pairs |-> NoObject]
  /\ sig = [name |-> "none", bytes |-> NoBytes] /\ signed = {}
  /\ result = [op |-> "none", value |-> "OK"]

Bytes(size, is) == [size |-> size, is |-> is]
Returns(op, value) == result' = [op |-> op, value |-> value]
Throws(op, value) == Returns(op, value) /\ UNCHANGED <<fixed, nativeAddon, held, object, sig, signed>>

(* ---- the library ---- *)
(* bitcoin_pqc_keygen with 128 bytes. *)
KeygenCode(n) ==
  IF library = "native"
  THEN CASE n \in {1, 2} -> "OK" [] n = 0 -> "BAD_KEY" [] OTHER -> "BAD_ARG"
  ELSE IF lang = "node" /\ n \notin 0 .. 3 THEN "BAD_ARG" ELSE "OK"

(* bitcoin_pqc_sign: the mock of Python looks at no key. *)
SignCode(n, sk) ==
  IF library = "mock" /\ lang = "python" THEN "OK"
  ELSE IF library = "mock" /\ n \notin 0 .. 3 THEN "BAD_ARG"
  ELSE IF sk.size # SizesOf(n).sk THEN "BAD_KEY"
  ELSE IF library = "mock" THEN "OK"
  ELSE CASE n = 0 -> "BAD_SIGNATURE" [] n \in {1, 2} -> "OK" [] OTHER -> "BAD_ARG"

SignatureBytes(n, sk, m) ==
  Bytes(SizesOf(n).sig, IF library = "native" THEN <<"signature", n, sk.is[3], m>> ELSE <<"digest", m>>)

(* bitcoin_pqc_verify: the mock of Node looks at sizes only. *)
VerifyCode(n, pk, m, s) ==
  IF library = "mock" /\ lang = "node" /\ n \notin 0 .. 3 THEN "BAD_ARG"
  ELSE IF pk.size # SizesOf(n).pk THEN "BAD_KEY"
  ELSE IF s.size # SizesOf(n).sig THEN "BAD_SIGNATURE"
  ELSE IF library = "native"
       THEN IF n \notin 0 .. 2 THEN "NOT_IMPLEMENTED"
            ELSE IF n # 0 /\ s.is = <<"signature", n, pk.is[3], m>> THEN "OK" ELSE "BAD_SIGNATURE"
  ELSE IF lang = "node" \/ s.is = <<"digest", m>> THEN "OK" ELSE "BAD_SIGNATURE"

(* ---- keygen, generateKeyPair ---- *)
KeyBytes(n, r) ==
  [pk |-> Bytes(SizesOf(n).pk, <<"public key", n, r>>), sk |-> Bytes(SizesOf(n).sk, <<"secret key", n, r>>)]

ShortData == Throws("keygen", "BAD_ARG")

KeygenFails(name) == KeygenCode(Number(name)) # "OK" /\ Throws("keygen", KeygenCode(Number(name)))

(* KeyPair.__init__ copies the bytes and keeps the struct. *)
KeygenPython(k, name, r) ==
  /\ lang = "python" /\ object[k] = NoObject /\ KeygenCode(Number(name)) = "OK"
  /\ held' = [held EXCEPT ![k] = TRUE]
  /\ object' = [object EXCEPT ![k] = [name |-> name, public_key |-> KeyBytes(Number(name), r).pk,
                                      secret_key |-> KeyBytes(Number(name), r).sk]]
  /\ Returns("keygen", "OK") /\ UNCHANGED <<fixed, nativeAddon, sig, signed>>

(* The addon copies, frees, and returns. *)
KeygenNode(k, name, r) ==
  /\ lang = "node" /\ object[k] = NoObject /\ KeygenCode(Number(name)) = "OK"
  /\ object' = [object EXCEPT ![k] = [name |-> name, public_key |-> KeyBytes(Number(name), r).pk,
                                      secret_key |-> KeyBytes(Number(name), r).sk]]
  /\ Returns("keygen", "OK") /\ UNCHANGED <<fixed, nativeAddon, held, sig, signed>>

(* The object goes, with its C struct if it has one. *)
Delete(k) ==
  /\ object[k] # NoObject /\ object' = [object EXCEPT ![k] = NoObject]
  /\ held' = [held EXCEPT ![k] = FALSE]
  /\ Returns("delete", "OK") /\ UNCHANGED <<fixed, nativeAddon, sig, signed>>

(* ---- sign and verify: Python takes a name beside the bytes, Node the one of the key ---- *)
CallerNames(k) == IF lang = "python" THEN Names ELSE {object[k].name}

Sign(k, name, m) ==
  /\ object[k] # NoObject /\ name \in CallerNames(k)
  /\ LET n == Number(name)
         sk == object[k].secret_key
     IN  IF SignCode(n, sk) # "OK" THEN Throws("sign", SignCode(n, sk))
         ELSE /\ sig' = [name |-> name, bytes |-> SignatureBytes(n, sk, m)]
              /\ signed' = signed \cup {<<n, sk.is, m>>}
              /\ Returns("sign", "OK") /\ UNCHANGED <<fixed, nativeAddon, held, object>>

(* Mistake: the name on the signature wins over the one for the key. *)
VerifyBySignature(k, name, m) ==
  /\ object[k] # NoObject /\ name \in CallerNames(k) /\ sig.name # "none"
  /\ result' = [op |-> "verify", value |-> VerifyCode(Number(sig.name), object[k].public_key, m, sig.bytes),
                key |-> k, name |-> name, message |-> m]
  /\ UNCHANGED <<fixed, nativeAddon, held, object, sig, signed>>
(* The label of the signature object is not looked at. *)
Verify(k, name, m) ==
  /\ object[k] # NoObject /\ name \in CallerNames(k) /\ sig.name # "none"
  /\ result' = [op |-> "verify", value |-> VerifyCode(Number(name), object[k].public_key, m, sig.bytes),
                key |-> k, name |-> name, message |-> m]
  /\ UNCHANGED <<fixed, nativeAddon, held, object, sig, signed>>

(* Node: the variable is written, not addonOrMock, which getLibrary reads. *)
setLibraryForTesting ==
  /\ lang = "node" /\ nativeAddon' = "test"
  /\ Returns("setLibraryForTesting", "OK") /\ UNCHANGED <<fixed, held, object, sig, signed>>

(* Bound: one signature is made. *)
Next ==
  \/ ShortData \/ setLibraryForTesting
  \/ \E name \in Names : KeygenFails(name)
  \/ \E k \in Pairs, name \in Names, r \in Randoms : KeygenPython(k, name, r) \/ KeygenNode(k, name, r)
  \/ \E k \in Pairs : Delete(k)
  \/ \E k \in Pairs, name \in Names, m \in Messages :
       (signed = {} /\ Sign(k, name, m)) \/ Verify(k, name, m)
Spec == Init /\ [][Next]_vars
-----------------------------------------------------------------------------
Verified == result.op = "verify" /\ object[result.key] # NoObject
Genuine ==
  LET n == Number(result.name)
  IN  \E r \in Randoms :
        /\ object[result.key].public_key.is = <<"public key", n, r>>
        /\ <<n, <<"secret key", n, r>>, result.message>> \in signed

(* Through either binding the C library verifies exactly what was signed   *)
(* with the other half of the key pair, although the names Python gives    *)
(* the algorithms are not those of C (bitcoinpqc.py:523, index.ts:155).    *)
NativeVerifiesWhatWasSigned ==
  library = "native" /\ Verified => (result.value = "OK" <=> Genuine)

(* A program that works with the C library works with a mock in its place: *)
(* what C accepts, a mock accepts (bitcoinpqc.py:279, library.ts:171).     *)
MockAcceptsTheGenuine ==
  library = "mock" /\ Verified /\ Genuine => result.value = "OK"

(* A C struct waits to be freed only while its Python object lives, and    *)
(* Node leaves none (bitcoinpqc.py:412, bitcoinpqc_addon.cc:108).          *)
StructsHaveObjects ==
  \A k \in Pairs : held[k] => lang = "python" /\ object[k] # NoObject

ScriptsVerifyWhatWasSigned ==
  NativeVerifiesWhatWasSigned /\ MockAcceptsTheGenuine /\ StructsHaveObjects

(* "Algorithm types from bitcoin_pqc_algorithm_t." (bitcoinpqc.py:83): the *)
(* number Python gives a name is the one C gives it.                       *)
PythonNamesAreTheC ==
  lang = "python" /\ library = "native" =>
    \A k \in Pairs : object[k].name = "ML_DSA_44" => object[k].public_key.size = 1312

=============================================================================
