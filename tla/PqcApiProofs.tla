---------------------------- MODULE PqcApiProofs ----------------------------
(***************************************************************************)
(* What holds of the C interface for any number of structs, blocks, seeds  *)
(* and messages, and whether or not the caller fills structs it has not    *)
(* freed.  The invariant says what each struct points to, that no two      *)
(* structs share a block, and that free memory is blank.  The last part is *)
(* what keeps the others: a block that malloc returns is blank, a block of *)
(* a struct is not, so a new block is no struct's yet.                     *)
(***************************************************************************)
EXTENDS PqcApi, TLAPS

(* No two structs point to the same block. *)
Separate ==
  /\ \A j, k \in Keypairs : j # k /\ keypair[j].public_key # Null =>
       keypair[j].public_key # keypair[k].public_key
  /\ \A j, k \in Keypairs : j # k /\ keypair[j].secret_key # Null =>
       keypair[j].secret_key # keypair[k].secret_key
  /\ \A s, u \in Signatures : s # u /\ signature[s].signature # Null =>
       signature[s].signature # signature[u].signature

Sound == TypeOK /\ DescribesBlocks /\ Separate /\ FreedIsBlank

(* What blocks hold can be told apart, and tells what it was made from. *)
LEMMA Contents ==
  ASSUME NEW a, NEW r, NEW m, NEW b, NEW q, NEW n
  PROVE  /\ PublicKey(a, r) # Blank /\ SecretKey(a, r) # Blank /\ Signature(a, r, m) # Blank
         /\ PublicKey(a, r) # SecretKey(b, q)
         /\ PublicKey(a, r) # Signature(b, q, n)
         /\ SecretKey(a, r) # Signature(b, q, n)
         /\ Signature(a, r, m) = Signature(b, q, n) => a = b /\ r = q /\ m = n
  BY DEF PublicKey, SecretKey, Signature, Blank

LEMMA Sizes ==
  ASSUME NEW a \in Algorithms
  PROVE  PublicKeySize(a) \in Nat /\ SecretKeySize(a) \in Nat /\ SignatureSize(a) \in Nat
  BY DEF PublicKeySize, SecretKeySize, SignatureSize

LEMMA SoundInit == Init => Sound
  BY NullAssumption
  DEF Init, Sound, TypeOK, DescribesBlocks, KeypairDescribesBlocks, SignatureDescribesBlock,
      Separate, FreedIsBlank, NoKeypair, NoSignature, Algorithms, Errors

(* The structs of a sound state: empty, or with two (one) allocated blocks. *)
LEMMA KeypairBlocks ==
  ASSUME Sound, NEW k \in Keypairs
  PROVE  \/ keypair[k].public_key = Null /\ keypair[k].secret_key = Null
         \/ /\ keypair[k].public_key \in Blocks /\ keypair[k].secret_key \in Blocks
            /\ keypair[k].public_key # keypair[k].secret_key
            /\ allocated[keypair[k].public_key] # 0
            /\ allocated[keypair[k].secret_key] # 0
            /\ allocated[keypair[k].public_key] = keypair[k].public_key_size
            /\ allocated[keypair[k].secret_key] = keypair[k].secret_key_size
            /\ \E a \in Algorithms, r \in Randoms :
                 /\ content[keypair[k].public_key] = PublicKey(a, r)
                 /\ content[keypair[k].secret_key] = SecretKey(a, r)
  <1>1. CASE keypair[k] = NoKeypair
    BY <1>1 DEF NoKeypair
  <1>2. CASE keypair[k] # NoKeypair
    <2> DEFINE kp == keypair[k]
    <2>1. /\ kp.public_key \in Blocks \cup {Null} /\ kp.secret_key \in Blocks \cup {Null}
          /\ kp.algorithm \in Algorithms
      BY DEF Sound, TypeOK
    <2>2. /\ kp.public_key # Null /\ kp.secret_key # Null
          /\ allocated[kp.public_key] = kp.public_key_size
          /\ allocated[kp.secret_key] = kp.secret_key_size
          /\ \E r \in Randoms : /\ content[kp.public_key] = PublicKey(kp.algorithm, r)
                                /\ content[kp.secret_key] = SecretKey(kp.algorithm, r)
      BY <1>2 DEF Sound, DescribesBlocks, KeypairDescribesBlocks
    <2>3. allocated[kp.public_key] # 0 /\ allocated[kp.secret_key] # 0
      BY <2>1, <2>2, Contents DEF Sound, FreedIsBlank
    <2>4. kp.public_key # kp.secret_key
      BY <2>2, Contents
    <2> QED  BY <2>1, <2>2, <2>3, <2>4
  <1> QED  BY <1>1, <1>2

LEMMA SignatureBlock ==
  ASSUME Sound, NEW s \in Signatures
  PROVE  \/ signature[s].signature = Null
         \/ /\ signature[s].signature \in Blocks
            /\ allocated[signature[s].signature] # 0
            /\ allocated[signature[s].signature] = signature[s].signature_size
            /\ \E a \in Algorithms, r \in Randoms, m \in Messages :
                 content[signature[s].signature] = Signature(a, r, m) /\ <<a, r, m>> \in signed
  <1>1. CASE signature[s] = NoSignature
    BY <1>1 DEF NoSignature
  <1>2. CASE signature[s] # NoSignature
    <2> DEFINE sig == signature[s]
    <2>1. sig.signature \in Blocks \cup {Null} /\ sig.algorithm \in Algorithms
      BY DEF Sound, TypeOK
    <2>2. /\ sig.signature # Null
          /\ allocated[sig.signature] = sig.signature_size
          /\ \E r \in Randoms, m \in Messages :
               /\ content[sig.signature] = Signature(sig.algorithm, r, m)
               /\ <<sig.algorithm, r, m>> \in signed
      BY <1>2 DEF Sound, DescribesBlocks, SignatureDescribesBlock
    <2>3. allocated[sig.signature] # 0
      BY <2>1, <2>2, Contents DEF Sound, FreedIsBlank
    <2> QED  BY <2>1, <2>2, <2>3
  <1> QED  BY <1>1, <1>2

(* No two fields of structs point to the same block. *)
LEMMA SoundOneOwner == Sound => OneOwner
  <1> SUFFICES ASSUME Sound, NEW b \in Blocks, NEW x \in Owners(b), NEW y \in Owners(b)
               PROVE  x = y
    BY DEF OneOwner
  <1>1. ASSUME NEW j \in Keypairs, NEW k \in Keypairs
        PROVE  ~(keypair[j].public_key = b /\ keypair[k].secret_key = b)
    BY KeypairBlocks, Contents, NullAssumption
  <1>2. ASSUME NEW j \in Keypairs, NEW s \in Signatures
        PROVE  /\ ~(keypair[j].public_key = b /\ signature[s].signature = b)
               /\ ~(keypair[j].secret_key = b /\ signature[s].signature = b)
    <2>1. \/ signature[s].signature = Null
          \/ \E a \in Algorithms, r \in Randoms, m \in Messages :
               content[signature[s].signature] = Signature(a, r, m)
      BY SignatureBlock
    <2>2. \/ keypair[j].public_key = Null /\ keypair[j].secret_key = Null
          \/ \E a \in Algorithms, r \in Randoms :
               /\ content[keypair[j].public_key] = PublicKey(a, r)
               /\ content[keypair[j].secret_key] = SecretKey(a, r)
      BY KeypairBlocks
    <2> QED  BY <2>1, <2>2, Contents, NullAssumption
  <1> QED
    BY <1>1, <1>2, NullAssumption DEF Sound, Separate, Owners
-----------------------------------------------------------------------------
(* The blocks that malloc gives are free, and the two of a key pair differ. *)
LEMMA NewBlocks ==
  ASSUME Sound, NEW p \in TwoBlocks, NEW a \in Algorithms
  PROVE  /\ p[1] \in Blocks \cup {Null} /\ p[2] \in Blocks \cup {Null}
         /\ p[1] # Null => allocated[p[1]] = 0 /\ content[p[1]] = Blank
         /\ p[2] # Null => allocated[p[2]] = 0 /\ content[p[2]] = Blank
         /\ p[1] = p[2] => p[1] = Null
  BY DEF TwoBlocks, MallocResults, Sound, FreedIsBlank

(* A call that frees what it got leaves the heap as it was. *)
LEMMA GivenBack ==
  ASSUME Sound, NEW p \in TwoBlocks, NEW a \in Algorithms
  PROVE  Free(Free(WithKeys(a, p), p[1]), p[2]) = allocated
  BY NewBlocks, Sizes, NullAssumption DEF Free, WithKeys, Allocate, Sound, TypeOK

LEMMA GivenBackOne ==
  ASSUME Sound, NEW b \in MallocResults \ {Null}, NEW a \in Algorithms
  PROVE  Free(Allocate(allocated, b, SignatureSize(a)), b) = allocated
  BY Sizes, NullAssumption DEF Free, Allocate, MallocResults, Sound, TypeOK

(* A call that changes neither structs nor heap. *)
LEMMA NothingChanges ==
  ASSUME Sound, UNCHANGED <<structs, heap, signed>>, last'.error \in Errors
  PROVE  Sound'
  BY DEF Sound, TypeOK, DescribesBlocks, KeypairDescribesBlocks, SignatureDescribesBlock,
         Separate, FreedIsBlank, structs, heap

(* A new block belongs to no struct. *)
LEMMA NewIsNobodys ==
  ASSUME Sound, NEW b \in Blocks, allocated[b] = 0
  PROVE  /\ \A j \in Keypairs : keypair[j].public_key # b /\ keypair[j].secret_key # b
         /\ \A s \in Signatures : signature[s].signature # b
  BY KeypairBlocks, SignatureBlock, NullAssumption

LEMMA KeygenOkSound ==
  ASSUME Sound, NEW k \in Keypairs, NEW a \in Algorithms, NEW r \in Randoms, NEW size,
         KeygenOk(k, a, r, size)
  PROVE  Sound'
  <1>1. a # Secp /\ KeygenAccepts(a, size)
    BY DEF KeygenOk
  <1>2. PICK p \in TwoBlocks :
          /\ Null \notin {p[1], p[2]}
          /\ allocated' = WithKeys(a, p)
          /\ content' = [content EXCEPT ![p[1]] = PublicKey(a, r), ![p[2]] = SecretKey(a, r)]
          /\ keypair' = [keypair EXCEPT ![k] =
               [algorithm |-> a, public_key |-> p[1], secret_key |-> p[2],
                public_key_size |-> PublicKeySize(a), secret_key_size |-> SecretKeySize(a)]]
    BY DEF KeygenOk
  <1>3. last'.error = "OK" /\ UNCHANGED <<signature, signed>>
    BY DEF KeygenOk, Return
  <1>4. /\ p[1] \in Blocks /\ p[2] \in Blocks /\ p[1] # p[2]
        /\ allocated[p[1]] = 0 /\ allocated[p[2]] = 0
    BY <1>2, NewBlocks
  <1>5. /\ PublicKeySize(a) \in Nat \ {0} /\ SecretKeySize(a) \in Nat \ {0}
    BY <1>1, Sizes DEF KeygenAccepts
  <1>6. allocated' = [allocated EXCEPT ![p[1]] = PublicKeySize(a), ![p[2]] = SecretKeySize(a)]
    BY <1>2 DEF WithKeys, Allocate
  <1>7. TypeOK'
    <2>1. keypair' \in [Keypairs ->
            [algorithm : Algorithms, public_key : Blocks \cup {Null},
             secret_key : Blocks \cup {Null}, public_key_size : Nat, secret_key_size : Nat]]
      BY <1>2, <1>4, <1>5 DEF Sound, TypeOK
    <2>2. allocated' \in [Blocks -> Nat]
      BY <1>5, <1>6 DEF Sound, TypeOK
    <2> QED  BY <1>2, <1>3, <2>1, <2>2 DEF Sound, TypeOK, Errors
  <1>8. \A b \in Blocks : b \notin {p[1], p[2]} =>
          allocated'[b] = allocated[b] /\ content'[b] = content[b]
    BY <1>2, <1>6 DEF Sound, TypeOK
  <1>9. /\ allocated'[p[1]] = PublicKeySize(a) /\ allocated'[p[2]] = SecretKeySize(a)
        /\ content'[p[1]] = PublicKey(a, r) /\ content'[p[2]] = SecretKey(a, r)
    BY <1>2, <1>4, <1>6 DEF Sound, TypeOK
  <1>10. /\ \A j \in Keypairs \ {k} : keypair'[j] = keypair[j]
         /\ keypair'[k].algorithm = a
         /\ keypair'[k].public_key = p[1] /\ keypair'[k].secret_key = p[2]
         /\ keypair'[k].public_key_size = PublicKeySize(a)
         /\ keypair'[k].secret_key_size = SecretKeySize(a)
    BY <1>2 DEF Sound, TypeOK
  <1>11. /\ \A j \in Keypairs : /\ keypair[j].public_key \notin {p[1], p[2]}
                               /\ keypair[j].secret_key \notin {p[1], p[2]}
         /\ \A s \in Signatures : signature[s].signature \notin {p[1], p[2]}
    BY <1>4, NewIsNobodys
  <1>12. KeypairDescribesBlocks'
    <2> SUFFICES ASSUME NEW j \in Keypairs, keypair'[j] # NoKeypair
                 PROVE  LET kp == keypair'[j]
                        IN  /\ kp.public_key # Null /\ kp.secret_key # Null
                            /\ allocated'[kp.public_key] = kp.public_key_size
                            /\ allocated'[kp.secret_key] = kp.secret_key_size
                            /\ \E q \in Randoms :
                                 /\ content'[kp.public_key] = PublicKey(kp.algorithm, q)
                                 /\ content'[kp.secret_key] = SecretKey(kp.algorithm, q)
      BY DEF KeypairDescribesBlocks
    <2>1. CASE j = k
      BY <1>2, <1>9, <1>10, <2>1
    <2>2. CASE j # k
      <3>1. keypair'[j] = keypair[j] /\ keypair[j] # NoKeypair
        BY <1>10, <2>2
      <3>2. keypair[j].public_key \in Blocks /\ keypair[j].secret_key \in Blocks
        BY <3>1 DEF Sound, DescribesBlocks, KeypairDescribesBlocks, TypeOK
      <3> QED  BY <1>8, <1>11, <3>1, <3>2 DEF Sound, DescribesBlocks, KeypairDescribesBlocks
    <2> QED  BY <2>1, <2>2
  <1>13. SignatureDescribesBlock'
    <2> SUFFICES ASSUME NEW s \in Signatures, signature[s] # NoSignature
                 PROVE  LET sig == signature[s]
                        IN  /\ sig.signature # Null
                            /\ allocated'[sig.signature] = sig.signature_size
                            /\ \E q \in Randoms, m \in Messages :
                                 /\ content'[sig.signature] = Signature(sig.algorithm, q, m)
                                 /\ <<sig.algorithm, q, m>> \in signed
      BY <1>3 DEF SignatureDescribesBlock
    <2>1. signature[s].signature \in Blocks
      BY DEF Sound, DescribesBlocks, SignatureDescribesBlock, TypeOK
    <2> QED  BY <1>8, <1>11, <2>1 DEF Sound, DescribesBlocks, SignatureDescribesBlock
  <1>14. Separate'
    BY <1>3, <1>10, <1>11 DEF Sound, Separate
  <1>15. FreedIsBlank'
    BY <1>5, <1>8, <1>9 DEF Sound, FreedIsBlank
  <1> QED
    BY <1>7, <1>12, <1>13, <1>14, <1>15 DEF Sound, DescribesBlocks

LEMMA KeygenSound ==
  ASSUME Sound, NEW k \in Keypairs, NEW a \in Algorithms, NEW r \in Randoms, NEW size,
         Keygen(k, a, r, size)
  PROVE  Sound'
  <1>1. CASE KeygenRejects(a, size)
    BY <1>1, NothingChanges DEF KeygenRejects, Return, Errors
  <1>2. CASE KeygenNoMemory(a, size)
    BY <1>2, GivenBack, NothingChanges DEF KeygenNoMemory, Return, Errors, heap
  <1>3. CASE KeygenFails(a, size)
    BY <1>3, GivenBack, NothingChanges DEF KeygenFails, Return, Errors, heap
  <1>4. CASE KeygenOk(k, a, r, size)
    BY <1>4, KeygenOkSound
  <1> QED  BY <1>1, <1>2, <1>3, <1>4 DEF Keygen
-----------------------------------------------------------------------------
(* The blocks of one struct belong to no other. *)
LEMMA KeypairsApart ==
  ASSUME Sound, NEW k \in Keypairs, NEW b \in {keypair[k].public_key, keypair[k].secret_key}, b # Null
  PROVE  /\ \A j \in Keypairs : j # k => keypair[j].public_key # b /\ keypair[j].secret_key # b
         /\ \A s \in Signatures : signature[s].signature # b
  <1>1. b \in Blocks
    BY KeypairBlocks
  <1>2. b = keypair[k].public_key => <<k, "public_key">> \in Owners(b)
    BY DEF Owners
  <1>3. b = keypair[k].secret_key => <<k, "secret_key">> \in Owners(b)
    BY DEF Owners
  <1>4. \A s \in Signatures : signature[s].signature = b => <<s, "signature">> \in Owners(b)
    BY DEF Owners
  <1>5. \A x, y \in Owners(b) : x = y
    BY <1>1, SoundOneOwner DEF OneOwner
  <1>6. PICK f \in {"public_key", "secret_key"} : <<k, f>> \in Owners(b)
    BY <1>2, <1>3
  <1>7. ASSUME NEW j \in Keypairs, j # k
        PROVE  keypair[j].public_key # b /\ keypair[j].secret_key # b
    <2>1. <<j, "public_key">> \notin Owners(b) /\ <<j, "secret_key">> \notin Owners(b)
      BY <1>5, <1>6, <1>7
    <2> QED  BY <2>1 DEF Owners
  <1>8. ASSUME NEW s \in Signatures
        PROVE  signature[s].signature # b
    <2>1. <<s, "signature">> # <<k, f>>
      BY <1>6
    <2> QED  BY <1>4, <1>5, <1>6, <2>1
  <1> QED  BY <1>7, <1>8

LEMMA KeypairFreeSound ==
  ASSUME Sound, NEW k \in Keypairs, KeypairFree(k)
  PROVE  Sound'
  <1> DEFINE pk == keypair[k].public_key
             sk == keypair[k].secret_key
  <1>1. /\ allocated' = Free(Free(allocated, pk), sk)
        /\ content' = [b \in Blocks |->
             CASE b = pk -> Cleared(b, keypair[k].public_key_size)
               [] b = sk -> Cleared(b, keypair[k].secret_key_size)
               [] OTHER -> content[b]]
        /\ keypair' = [keypair EXCEPT ![k] = NoKeypair]
        /\ last'.error = "OK" /\ UNCHANGED <<signature, signed>>
    BY DEF KeypairFree, Return
  <1>2. \/ pk = Null /\ sk = Null
        \/ /\ pk \in Blocks /\ sk \in Blocks /\ pk # sk
           /\ allocated[pk] = keypair[k].public_key_size
           /\ allocated[sk] = keypair[k].secret_key_size
    BY KeypairBlocks
  <1>3. \A b \in Blocks : b \notin {pk, sk} => allocated'[b] = allocated[b] /\ content'[b] = content[b]
    BY <1>1, <1>2, NullAssumption DEF Free, Allocate, Sound, TypeOK
  <1>4. \A b \in Blocks : b \in {pk, sk} => allocated'[b] = 0 /\ content'[b] = Blank
    BY <1>1, <1>2, NullAssumption DEF Free, Allocate, Cleared, Sound, TypeOK
  <1>5. keypair'[k] = NoKeypair /\ \A j \in Keypairs \ {k} : keypair'[j] = keypair[j]
    BY <1>1 DEF Sound, TypeOK
  <1>6. TypeOK'
    <2>1. keypair' \in [Keypairs ->
            [algorithm : Algorithms, public_key : Blocks \cup {Null},
             secret_key : Blocks \cup {Null}, public_key_size : Nat, secret_key_size : Nat]]
      BY <1>1 DEF Sound, TypeOK, NoKeypair, Algorithms
    <2>2. allocated' \in [Blocks -> Nat]
      BY <1>1, <1>2 DEF Free, Allocate, Sound, TypeOK
    <2> QED  BY <1>1, <2>1, <2>2 DEF Sound, TypeOK, Errors
  <1>7. /\ \A j \in Keypairs : j # k =>
             /\ keypair[j].public_key # Null => keypair[j].public_key \notin {pk, sk}
             /\ keypair[j].secret_key # Null => keypair[j].secret_key \notin {pk, sk}
        /\ \A s \in Signatures :
             signature[s].signature # Null => signature[s].signature \notin {pk, sk}
    BY KeypairsApart
  <1>8. KeypairDescribesBlocks'
    <2> SUFFICES ASSUME NEW j \in Keypairs, keypair'[j] # NoKeypair
                 PROVE  LET kp == keypair'[j]
                        IN  /\ kp.public_key # Null /\ kp.secret_key # Null
                            /\ allocated'[kp.public_key] = kp.public_key_size
                            /\ allocated'[kp.secret_key] = kp.secret_key_size
                            /\ \E q \in Randoms :
                                 /\ content'[kp.public_key] = PublicKey(kp.algorithm, q)
                                 /\ content'[kp.secret_key] = SecretKey(kp.algorithm, q)
      BY DEF KeypairDescribesBlocks
    <2>1. j # k /\ keypair'[j] = keypair[j] /\ keypair[j] # NoKeypair
      BY <1>5
    <2>2. /\ keypair[j].public_key \in Blocks /\ keypair[j].public_key # Null
          /\ keypair[j].secret_key \in Blocks /\ keypair[j].secret_key # Null
      BY <2>1 DEF Sound, DescribesBlocks, KeypairDescribesBlocks, TypeOK
    <2>3. keypair[j].public_key \notin {pk, sk} /\ keypair[j].secret_key \notin {pk, sk}
      <3>1. j # k
        BY <2>1
      <3> QED  BY <1>7, <2>2, <3>1
    <2> QED  BY <1>3, <2>1, <2>2, <2>3 DEF Sound, DescribesBlocks, KeypairDescribesBlocks
  <1>9. SignatureDescribesBlock'
    <2> SUFFICES ASSUME NEW s \in Signatures, signature[s] # NoSignature
                 PROVE  LET sig == signature[s]
                        IN  /\ sig.signature # Null
                            /\ allocated'[sig.signature] = sig.signature_size
                            /\ \E q \in Randoms, m \in Messages :
                                 /\ content'[sig.signature] = Signature(sig.algorithm, q, m)
                                 /\ <<sig.algorithm, q, m>> \in signed
      BY <1>1 DEF SignatureDescribesBlock
    <2>1. signature[s].signature \in Blocks /\ signature[s].signature # Null
      BY DEF Sound, DescribesBlocks, SignatureDescribesBlock, TypeOK
    <2>2. signature[s].signature \notin {pk, sk}
      BY <1>7, <2>1
    <2> QED  BY <1>3, <2>1, <2>2 DEF Sound, DescribesBlocks, SignatureDescribesBlock
  <1>10. Separate'
    BY <1>1, <1>5 DEF Sound, Separate, NoKeypair
  <1>11. FreedIsBlank'
    BY <1>3, <1>4 DEF Sound, FreedIsBlank
  <1> QED
    BY <1>6, <1>8, <1>9, <1>10, <1>11 DEF Sound, DescribesBlocks
-----------------------------------------------------------------------------
LEMMA SignatureApart ==
  ASSUME Sound, NEW s \in Signatures, signature[s].signature # Null, NEW j \in Keypairs
  PROVE  /\ keypair[j].public_key # signature[s].signature
         /\ keypair[j].secret_key # signature[s].signature
  BY KeypairsApart

LEMMA SignOkSound ==
  ASSUME Sound, NEW k \in Keypairs, NEW a \in Algorithms, NEW m \in Messages, NEW s \in Signatures,
         NEW sk, NEW size, SignOk(a, sk, size, m, s)
  PROVE  Sound'
  <1>1. a # Secp /\ SignAccepts(a, sk, size)
    BY DEF SignOk
  <1>2. PICK b \in MallocResults \ {Null}, r \in Randoms :
          /\ allocated' = Allocate(allocated, b, SignatureSize(a))
          /\ content' = [content EXCEPT ![b] = Signature(a, r, m)]
          /\ signature' = [signature EXCEPT ![s] =
               [algorithm |-> a, signature |-> b, signature_size |-> SignatureSize(a)]]
          /\ signed' = signed \cup {<<a, r, m>>}
    BY DEF SignOk
  <1>3. last'.error = "OK" /\ UNCHANGED keypair
    BY DEF SignOk, Return
  <1>4. b \in Blocks /\ allocated[b] = 0
    BY DEF MallocResults
  <1>5. SignatureSize(a) \in Nat \ {0}
    BY <1>1, Sizes DEF SignAccepts
  <1>6. allocated' = [allocated EXCEPT ![b] = SignatureSize(a)]
    BY <1>2 DEF Allocate
  <1>7. TypeOK'
    <2>1. signature' \in [Signatures ->
            [algorithm : Algorithms, signature : Blocks \cup {Null}, signature_size : Nat]]
      BY <1>2, <1>4, <1>5 DEF Sound, TypeOK
    <2>2. allocated' \in [Blocks -> Nat]
      BY <1>5, <1>6 DEF Sound, TypeOK
    <2>3. signed' \subseteq Algorithms \X Randoms \X Messages
      BY <1>2 DEF Sound, TypeOK
    <2>4. DOMAIN content' = Blocks
      BY <1>2 DEF Sound, TypeOK
    <2> QED  BY <1>3, <2>1, <2>2, <2>3, <2>4 DEF Sound, TypeOK, Errors
  <1>8. \A c \in Blocks : c # b => allocated'[c] = allocated[c] /\ content'[c] = content[c]
    BY <1>2, <1>6 DEF Sound, TypeOK
  <1>9. allocated'[b] = SignatureSize(a) /\ content'[b] = Signature(a, r, m)
    BY <1>2, <1>4, <1>6 DEF Sound, TypeOK
  <1>10. /\ \A u \in Signatures : u # s => signature'[u] = signature[u]
         /\ signature'[s].algorithm = a
         /\ signature'[s].signature = b
         /\ signature'[s].signature_size = SignatureSize(a)
    BY <1>2 DEF Sound, TypeOK
  <1>11. /\ \A j \in Keypairs : keypair[j].public_key # b /\ keypair[j].secret_key # b
         /\ \A u \in Signatures : signature[u].signature # b
    BY <1>4, NewIsNobodys
  <1>12. KeypairDescribesBlocks'
    <2> SUFFICES ASSUME NEW j \in Keypairs, keypair[j] # NoKeypair
                 PROVE  LET kp == keypair[j]
                        IN  /\ kp.public_key # Null /\ kp.secret_key # Null
                            /\ allocated'[kp.public_key] = kp.public_key_size
                            /\ allocated'[kp.secret_key] = kp.secret_key_size
                            /\ \E q \in Randoms :
                                 /\ content'[kp.public_key] = PublicKey(kp.algorithm, q)
                                 /\ content'[kp.secret_key] = SecretKey(kp.algorithm, q)
      BY <1>3 DEF KeypairDescribesBlocks
    <2>1. keypair[j].public_key \in Blocks /\ keypair[j].secret_key \in Blocks
      BY DEF Sound, DescribesBlocks, KeypairDescribesBlocks, TypeOK
    <2> QED  BY <1>8, <1>11, <2>1 DEF Sound, DescribesBlocks, KeypairDescribesBlocks
  <1>13. SignatureDescribesBlock'
    <2> SUFFICES ASSUME NEW u \in Signatures, signature'[u] # NoSignature
                 PROVE  LET sig == signature'[u]
                        IN  /\ sig.signature # Null
                            /\ allocated'[sig.signature] = sig.signature_size
                            /\ \E q \in Randoms, n \in Messages :
                                 /\ content'[sig.signature] = Signature(sig.algorithm, q, n)
                                 /\ <<sig.algorithm, q, n>> \in signed'
      BY DEF SignatureDescribesBlock
    <2>1. CASE u = s
      BY <1>2, <1>9, <1>10, <2>1
    <2>2. CASE u # s
      <3>1. signature'[u] = signature[u] /\ signature[u] # NoSignature
        BY <1>10, <2>2
      <3>2. signature[u].signature \in Blocks
        BY <3>1 DEF Sound, DescribesBlocks, SignatureDescribesBlock, TypeOK
      <3>3. PICK q \in Randoms, n \in Messages :
              /\ content[signature[u].signature] = Signature(signature[u].algorithm, q, n)
              /\ <<signature[u].algorithm, q, n>> \in signed
        BY <3>1 DEF Sound, DescribesBlocks, SignatureDescribesBlock
      <3>4. /\ signature[u].signature # Null
            /\ allocated[signature[u].signature] = signature[u].signature_size
        BY <3>1 DEF Sound, DescribesBlocks, SignatureDescribesBlock
      <3>5. /\ allocated'[signature[u].signature] = allocated[signature[u].signature]
            /\ content'[signature[u].signature] = content[signature[u].signature]
        BY <1>8, <1>11, <3>2
      <3>6. <<signature[u].algorithm, q, n>> \in signed'
        BY <1>2, <3>3
      <3> QED  BY <3>1, <3>3, <3>4, <3>5, <3>6
    <2> QED  BY <2>1, <2>2
  <1>14. Separate'
    BY <1>3, <1>10, <1>11 DEF Sound, Separate
  <1>15. FreedIsBlank'
    BY <1>5, <1>8, <1>9 DEF Sound, FreedIsBlank
  <1> QED
    BY <1>7, <1>12, <1>13, <1>14, <1>15 DEF Sound, DescribesBlocks

LEMMA SignSound ==
  ASSUME Sound, NEW k \in Keypairs, NEW a \in Algorithms, NEW m \in Messages, NEW s \in Signatures,
         NEW sk, NEW size, Sign(a, sk, size, m, s)
  PROVE  Sound'
  <1>1. CASE SignRejects(a, sk, size)
    BY <1>1, NothingChanges DEF SignRejects, Return, Errors
  <1>2. CASE SignNoMemory(a, sk, size)
    BY <1>2, NothingChanges DEF SignNoMemory, Return, Errors
  <1>3. CASE SignFails(a, sk, size)
    BY <1>3, GivenBackOne, NothingChanges DEF SignFails, Return, Errors, heap
  <1>4. CASE SignOk(a, sk, size, m, s)
    BY <1>4, SignOkSound
  <1> QED  BY <1>1, <1>2, <1>3, <1>4 DEF Sign

LEMMA SignatureFreeSound ==
  ASSUME Sound, NEW s \in Signatures, SignatureFree(s)
  PROVE  Sound'
  <1> DEFINE b == signature[s].signature
  <1>1. /\ allocated' = Free(allocated, b)
        /\ content' = [c \in Blocks |->
             IF c = b THEN Cleared(c, signature[s].signature_size) ELSE content[c]]
        /\ signature' = [signature EXCEPT ![s] = NoSignature]
        /\ last'.error = "OK" /\ UNCHANGED <<keypair, signed>>
    BY DEF SignatureFree, Return
  <1>2. \/ b = Null
        \/ b \in Blocks /\ allocated[b] = signature[s].signature_size
    <2>1. CASE b = Null
      BY <2>1
    <2>2. CASE b # Null
      BY <2>2, SignatureBlock
    <2> QED  BY <2>1, <2>2
  <1>3. \A c \in Blocks : c # b => allocated'[c] = allocated[c] /\ content'[c] = content[c]
    BY <1>1, <1>2, NullAssumption DEF Free, Allocate, Sound, TypeOK
  <1>4. \A c \in Blocks : c = b => allocated'[c] = 0 /\ content'[c] = Blank
    BY <1>1, <1>2, NullAssumption DEF Free, Allocate, Cleared, Sound, TypeOK
  <1>5. signature'[s] = NoSignature /\ \A u \in Signatures : u # s => signature'[u] = signature[u]
    BY <1>1 DEF Sound, TypeOK
  <1>6. TypeOK'
    <2>1. signature' \in [Signatures ->
            [algorithm : Algorithms, signature : Blocks \cup {Null}, signature_size : Nat]]
      BY <1>1 DEF Sound, TypeOK, NoSignature, Algorithms
    <2>2. allocated' \in [Blocks -> Nat]
      BY <1>1, <1>2 DEF Free, Allocate, Sound, TypeOK
    <2> QED  BY <1>1, <2>1, <2>2 DEF Sound, TypeOK, Errors
  <1>7. \A u \in Signatures : u # s /\ signature[u].signature # Null => signature[u].signature # b
    BY DEF Sound, Separate
  <1>8. KeypairDescribesBlocks'
    <2> SUFFICES ASSUME NEW j \in Keypairs, keypair[j] # NoKeypair
                 PROVE  LET kp == keypair[j]
                        IN  /\ kp.public_key # Null /\ kp.secret_key # Null
                            /\ allocated'[kp.public_key] = kp.public_key_size
                            /\ allocated'[kp.secret_key] = kp.secret_key_size
                            /\ \E q \in Randoms :
                                 /\ content'[kp.public_key] = PublicKey(kp.algorithm, q)
                                 /\ content'[kp.secret_key] = SecretKey(kp.algorithm, q)
      BY <1>1 DEF KeypairDescribesBlocks
    <2>1. /\ keypair[j].public_key \in Blocks /\ keypair[j].public_key # Null
          /\ keypair[j].secret_key \in Blocks /\ keypair[j].secret_key # Null
      BY DEF Sound, DescribesBlocks, KeypairDescribesBlocks, TypeOK
    <2>2. keypair[j].public_key # b /\ keypair[j].secret_key # b
      BY SignatureApart, <2>1
    <2> QED  BY <1>3, <2>1, <2>2 DEF Sound, DescribesBlocks, KeypairDescribesBlocks
  <1>9. SignatureDescribesBlock'
    <2> SUFFICES ASSUME NEW u \in Signatures, signature'[u] # NoSignature
                 PROVE  LET sig == signature'[u]
                        IN  /\ sig.signature # Null
                            /\ allocated'[sig.signature] = sig.signature_size
                            /\ \E q \in Randoms, n \in Messages :
                                 /\ content'[sig.signature] = Signature(sig.algorithm, q, n)
                                 /\ <<sig.algorithm, q, n>> \in signed
      BY <1>1 DEF SignatureDescribesBlock
    <2>1. u # s /\ signature'[u] = signature[u] /\ signature[u] # NoSignature
      BY <1>5
    <2>2. signature[u].signature \in Blocks /\ signature[u].signature # Null
      BY <2>1 DEF Sound, DescribesBlocks, SignatureDescribesBlock, TypeOK
    <2>3. signature[u].signature # b
      BY <1>7, <2>1, <2>2
    <2>4. PICK q \in Randoms, n \in Messages :
            /\ content[signature[u].signature] = Signature(signature[u].algorithm, q, n)
            /\ <<signature[u].algorithm, q, n>> \in signed
      BY <2>1 DEF Sound, DescribesBlocks, SignatureDescribesBlock
    <2>5. allocated[signature[u].signature] = signature[u].signature_size
      BY <2>1 DEF Sound, DescribesBlocks, SignatureDescribesBlock
    <2> QED  BY <1>3, <2>1, <2>2, <2>3, <2>4, <2>5
  <1>10. Separate'
    BY <1>1, <1>5 DEF Sound, Separate, NoSignature
  <1>11. FreedIsBlank'
    BY <1>3, <1>4 DEF Sound, FreedIsBlank
  <1> QED
    BY <1>6, <1>8, <1>9, <1>10, <1>11 DEF Sound, DescribesBlocks

LEMMA VerifySound ==
  ASSUME Sound, NEW a, NEW pk, NEW pkSize, NEW m, NEW sig, NEW sigSize,
         Verify(a, pk, pkSize, m, sig, sigSize)
  PROVE  Sound'
  <1>1. VerifyResult(a, pk, pkSize, m, sig, sigSize) \in Errors
    BY DEF VerifyResult, Errors
  <1> QED
    BY <1>1, NothingChanges DEF Verify

LEMMA SoundStep == Sound /\ [Next]_vars => Sound'
  <1> SUFFICES ASSUME Sound, [Next]_vars
               PROVE  Sound'
    OBVIOUS
  <1>1. CASE NullArgument
    BY <1>1, NothingChanges DEF NullArgument, Return, Errors
  <1>2. ASSUME NEW k \in Keypairs, NEW a \in Algorithms, NEW r \in Randoms, NEW size \in {127, 128},
               Keygen(k, a, r, size)
        PROVE  Sound'
    BY <1>2, KeygenSound
  <1>3. ASSUME NEW k \in Keypairs, KeypairFree(k)
        PROVE  Sound'
    BY <1>3, KeypairFreeSound
  <1>4. ASSUME NEW k \in Keypairs, NEW a \in Algorithms, NEW m \in Messages, NEW s \in Signatures,
               NEW size \in Claims(keypair[k].secret_key_size),
               Sign(a, keypair[k].secret_key, size, m, s)
        PROVE  Sound'
    BY <1>4, SignSound
  <1>5. ASSUME NEW s \in Signatures, SignatureFree(s)
        PROVE  Sound'
    BY <1>5, SignatureFreeSound
  <1>6. ASSUME NEW k \in Keypairs, NEW a \in Algorithms, NEW m \in Messages, NEW s \in Signatures,
               NEW pkSize \in Claims(keypair[k].public_key_size),
               NEW sigSize \in Claims(signature[s].signature_size),
               Verify(a, keypair[k].public_key, pkSize, m, signature[s].signature, sigSize)
        PROVE  Sound'
    BY <1>6, VerifySound
  <1>7. CASE UNCHANGED vars
    <2>1. UNCHANGED <<structs, heap, signed>> /\ last' = last
      BY <1>7 DEF vars
    <2>2. last'.error \in Errors
      BY <2>1 DEF Sound, TypeOK
    <2> QED  BY <2>1, <2>2, NothingChanges
  <1> QED
    BY <1>1, <1>2, <1>3, <1>4, <1>5, <1>6, <1>7 DEF Next

(* Each struct, error code and block size is always of its type            *)
(* (bitcoinpqc.c, every call).                                             *)
THEOREM TypesHold == Spec => []TypeOK
  <1>1. Sound => TypeOK
    BY DEF Sound
  <1> QED  BY SoundInit, SoundStep, <1>1, PTL DEF Spec

(* A struct never says of its blocks what is not true of them, whatever    *)
(* calls are made, in what order, and whichever of them fail               *)
(* (bitcoinpqc.c:112-116, 215-217).                                        *)
THEOREM StructsDescribeBlocks == Spec => []DescribesBlocks
  <1>1. Sound => DescribesBlocks
    BY DEF Sound
  <1> QED  BY SoundInit, SoundStep, <1>1, PTL DEF Spec

(* No block is ever freed twice: it never has two owners                   *)
(* (bitcoinpqc.c:121-142, 224-237).                                        *)
THEOREM NeverTwoOwners == Spec => []OneOwner
  <1> QED  BY SoundInit, SoundStep, SoundOneOwner, PTL DEF Spec

(* Nothing secret is left in memory the library has given back             *)
(* (bitcoinpqc.c:125, 132, 228).                                           *)
THEOREM FreedStaysBlank == Spec => []FreedIsBlank
  <1>1. Sound => FreedIsBlank
    BY DEF Sound
  <1> QED  BY SoundInit, SoundStep, <1>1, PTL DEF Spec
-----------------------------------------------------------------------------
(* The one call after which a verification has succeeded is that one. *)
LEMMA VerifiedStep == Sound /\ VerifiedWasSigned /\ [Next]_vars => VerifiedWasSigned'
  <1> SUFFICES ASSUME Sound, VerifiedWasSigned, [Next]_vars
               PROVE  VerifiedWasSigned'
    OBVIOUS
  <1>1. CASE NullArgument
    BY <1>1 DEF NullArgument, Return, VerifiedWasSigned
  <1>2. ASSUME NEW k \in Keypairs, NEW a \in Algorithms, NEW r \in Randoms, NEW size \in {127, 128},
               Keygen(k, a, r, size)
        PROVE  VerifiedWasSigned'
    BY <1>2 DEF Keygen, KeygenRejects, KeygenNoMemory, KeygenFails, KeygenOk, Return, VerifiedWasSigned
  <1>3. ASSUME NEW k \in Keypairs, KeypairFree(k)
        PROVE  VerifiedWasSigned'
    BY <1>3 DEF KeypairFree, Return, VerifiedWasSigned
  <1>4. ASSUME NEW k \in Keypairs, NEW a \in Algorithms, NEW m \in Messages, NEW s \in Signatures,
               NEW size, Sign(a, keypair[k].secret_key, size, m, s)
        PROVE  VerifiedWasSigned'
    BY <1>4 DEF Sign, SignRejects, SignNoMemory, SignFails, SignOk, Return, VerifiedWasSigned
  <1>5. ASSUME NEW s \in Signatures, SignatureFree(s)
        PROVE  VerifiedWasSigned'
    BY <1>5 DEF SignatureFree, Return, VerifiedWasSigned
  <1>6. ASSUME NEW k \in Keypairs, NEW a \in Algorithms, NEW m \in Messages, NEW s \in Signatures,
               NEW pkSize, NEW sigSize,
               Verify(a, keypair[k].public_key, pkSize, m, signature[s].signature, sigSize)
        PROVE  VerifiedWasSigned'
    <2> DEFINE pk == keypair[k].public_key
               sig == signature[s].signature
    <2> SUFFICES ASSUME last'.error = "OK"
                 PROVE  \E c \in Algorithms, r \in Randoms :
                          /\ content'[last'.public_key] = PublicKey(c, r)
                          /\ <<c, r, last'.message>> \in signed'
      BY DEF VerifiedWasSigned
    <2>1. /\ last'.error = VerifyResult(a, pk, pkSize, m, sig, sigSize)
          /\ last'.public_key = pk /\ last'.message = m
          /\ UNCHANGED <<content, signed>>
      BY <1>6 DEF Verify, heap
    <2>2. sig # Null /\ Genuine(a, pk, m, sig)
      BY <2>1 DEF VerifyResult
    <2>3. PICK r \in Randoms : content[pk] = PublicKey(a, r) /\ content[sig] = Signature(a, r, m)
      BY <2>2 DEF Genuine
    <2>4. <<a, r, m>> \in signed
      <3>1. PICK c \in Algorithms, q \in Randoms, n \in Messages :
              content[sig] = Signature(c, q, n) /\ <<c, q, n>> \in signed
        BY <2>2, SignatureBlock
      <3>2. c = a /\ q = r /\ n = m
        <4>1. Signature(c, q, n) = Signature(a, r, m)
          BY <2>3, <3>1
        <4> QED  BY <4>1, Contents
      <3>3. <<c, q, n>> = <<a, r, m>>
        BY <3>2
      <3> QED  BY <3>1, <3>3
    <2> QED  BY <2>1, <2>3, <2>4
  <1>7. CASE UNCHANGED vars
    BY <1>7 DEF vars, heap, VerifiedWasSigned
  <1> QED
    BY <1>1, <1>2, <1>3, <1>4, <1>5, <1>6, <1>7 DEF Next

(* What verifies under a key in a struct was signed with the secret key    *)
(* that goes with it (bitcoinpqc.c:270-298): no call mixes up the blocks   *)
(* of key pairs and signatures.                                            *)
THEOREM OnlySignedVerifies == Spec => []VerifiedWasSigned
  <1>1. Init => VerifiedWasSigned
    BY DEF Init, VerifiedWasSigned
  <1> QED  BY SoundInit, SoundStep, <1>1, VerifiedStep, PTL DEF Spec
-----------------------------------------------------------------------------
FailsCleanly == last'.error # "OK" => UNCHANGED <<structs, heap>>

LEMMA FailedCall ==
  ASSUME Sound, Next
  PROVE  FailsCleanly
  <1>1. CASE NullArgument
    BY <1>1 DEF NullArgument, FailsCleanly
  <1>2. ASSUME NEW k \in Keypairs, NEW a \in Algorithms, NEW r \in Randoms, NEW size \in {127, 128},
               Keygen(k, a, r, size)
        PROVE  FailsCleanly
    <2>1. CASE KeygenRejects(a, size)
      BY <2>1 DEF KeygenRejects, FailsCleanly
    <2>2. CASE KeygenNoMemory(a, size)
      BY <2>2, GivenBack DEF KeygenNoMemory, FailsCleanly, heap
    <2>3. CASE KeygenFails(a, size)
      BY <2>3, GivenBack DEF KeygenFails, FailsCleanly, heap
    <2> QED  BY <1>2, <2>1, <2>2, <2>3 DEF Keygen, KeygenOk, Return, FailsCleanly
  <1>3. ASSUME NEW k \in Keypairs, KeypairFree(k)
        PROVE  FailsCleanly
    BY <1>3 DEF KeypairFree, Return, FailsCleanly
  <1>4. ASSUME NEW k \in Keypairs, NEW a \in Algorithms, NEW m \in Messages, NEW s \in Signatures,
               NEW size \in Claims(keypair[k].secret_key_size), Sign(a, keypair[k].secret_key, size, m, s)
        PROVE  FailsCleanly
    <2> DEFINE sk == keypair[k].secret_key
    <2>1. CASE SignRejects(a, sk, size)
      BY <2>1 DEF SignRejects, FailsCleanly
    <2>2. CASE SignNoMemory(a, sk, size)
      BY <2>2 DEF SignNoMemory, FailsCleanly
    <2>3. CASE SignFails(a, sk, size)
      BY <2>3, GivenBackOne DEF SignFails, FailsCleanly, heap
    <2> QED  BY <1>4, <2>1, <2>2, <2>3 DEF Sign, SignOk, Return, FailsCleanly
  <1>5. ASSUME NEW s \in Signatures, SignatureFree(s)
        PROVE  FailsCleanly
    BY <1>5 DEF SignatureFree, Return, FailsCleanly
  <1>6. ASSUME NEW k \in Keypairs, NEW a \in Algorithms, NEW m \in Messages, NEW s \in Signatures,
               NEW pkSize \in Claims(keypair[k].public_key_size),
               NEW sigSize \in Claims(signature[s].signature_size),
               Verify(a, keypair[k].public_key, pkSize, m, signature[s].signature, sigSize)
        PROVE  FailsCleanly
    BY <1>6 DEF Verify, FailsCleanly
  <1> QED
    BY <1>1, <1>2, <1>3, <1>4, <1>5, <1>6 DEF Next

LEMMA FailedStep ==
  Sound /\ [Next]_vars => [last'.error # "OK" => UNCHANGED <<structs, heap>>]_vars
  BY FailedCall DEF FailsCleanly

(* A call that returns an error has changed nothing of the caller's, and   *)
(* has given back what it allocated (bitcoinpqc.c:80-84, 105-109,          *)
(* 209-212).                                                               *)
THEOREM FailuresChangeNothing == Spec => FailureChangesNothing
  <1> QED  BY SoundInit, SoundStep, FailedStep, PTL DEF Spec, FailureChangesNothing
-----------------------------------------------------------------------------
(* Some struct points to block b. *)
Owned(b) ==
  \/ \E k \in Keypairs : keypair[k].public_key = b \/ keypair[k].secret_key = b
  \/ \E s \in Signatures : signature[s].signature = b

AllOwned == \A b \in Blocks : allocated[b] # 0 => Owned(b)

LEMMA OwnedHasOwner ==
  ASSUME NEW b, Owned(b)
  PROVE  Owners(b) # {}
  BY DEF Owned, Owners

(* A key pair is made in an empty struct. *)
LEMMA KeygenOkOwned ==
  ASSUME Sound, AllOwned, NEW k \in Keypairs, keypair[k] = NoKeypair,
         NEW a \in Algorithms, NEW r \in Randoms, NEW size, KeygenOk(k, a, r, size)
  PROVE  AllOwned'
  <1>1. PICK p \in TwoBlocks :
          /\ Null \notin {p[1], p[2]}
          /\ allocated' = WithKeys(a, p)
          /\ keypair' = [keypair EXCEPT ![k] =
               [algorithm |-> a, public_key |-> p[1], secret_key |-> p[2],
                public_key_size |-> PublicKeySize(a), secret_key_size |-> SecretKeySize(a)]]
          /\ UNCHANGED signature
    BY DEF KeygenOk
  <1>2. keypair'[k].public_key = p[1] /\ keypair'[k].secret_key = p[2]
    BY <1>1 DEF Sound, TypeOK
  <1>3. \A j \in Keypairs : j # k => keypair'[j] = keypair[j]
    BY <1>1 DEF Sound, TypeOK
  <1>4. \A b \in Blocks : b \notin {p[1], p[2]} => allocated'[b] = allocated[b]
    BY <1>1 DEF WithKeys, Allocate, Sound, TypeOK
  <1> SUFFICES ASSUME NEW b \in Blocks, allocated'[b] # 0
               PROVE  Owned(b)'
    BY DEF AllOwned
  <1>5. CASE b \in {p[1], p[2]}
    BY <1>2, <1>5 DEF Owned
  <1>6. CASE b \notin {p[1], p[2]}
    <2>1. Owned(b)
      BY <1>4, <1>6 DEF AllOwned
    <2>2. CASE \E s \in Signatures : signature[s].signature = b
      BY <1>1, <2>2 DEF Owned
    <2>3. ASSUME NEW j \in Keypairs, keypair[j].public_key = b \/ keypair[j].secret_key = b
          PROVE  Owned(b)'
      <3>1. j # k
        BY <2>3, NullAssumption DEF NoKeypair
      <3>2. keypair'[j] = keypair[j]
        BY <1>3, <3>1
      <3> QED  BY <2>3, <3>2 DEF Owned
    <2> QED  BY <2>1, <2>2, <2>3 DEF Owned
  <1> QED  BY <1>5, <1>6

LEMMA KeypairFreeOwned ==
  ASSUME Sound, AllOwned, NEW k \in Keypairs, KeypairFree(k)
  PROVE  AllOwned'
  <1> DEFINE pk == keypair[k].public_key
             sk == keypair[k].secret_key
  <1>1. /\ allocated' = Free(Free(allocated, pk), sk)
        /\ keypair' = [keypair EXCEPT ![k] = NoKeypair]
        /\ UNCHANGED signature
    BY DEF KeypairFree
  <1>2. \A j \in Keypairs : j # k => keypair'[j] = keypair[j]
    BY <1>1 DEF Sound, TypeOK
  <1>3. \A b \in Blocks : IF b \in {pk, sk} THEN allocated'[b] = 0 ELSE allocated'[b] = allocated[b]
    BY <1>1, NullAssumption DEF Free, Allocate, Sound, TypeOK
  <1> SUFFICES ASSUME NEW b \in Blocks, allocated'[b] # 0
               PROVE  Owned(b)'
    BY DEF AllOwned
  <1>4. b \notin {pk, sk} /\ Owned(b)
    BY <1>3 DEF AllOwned
  <1>5. CASE \E s \in Signatures : signature[s].signature = b
    BY <1>1, <1>5 DEF Owned
  <1>6. ASSUME NEW j \in Keypairs, keypair[j].public_key = b \/ keypair[j].secret_key = b
        PROVE  Owned(b)'
    <2>1. j # k
      BY <1>4, <1>6
    <2>2. keypair'[j] = keypair[j]
      BY <1>2, <2>1
    <2> QED  BY <1>6, <2>2 DEF Owned
  <1> QED  BY <1>4, <1>5, <1>6 DEF Owned

(* A signature is made in an empty struct. *)
LEMMA SignOkOwned ==
  ASSUME Sound, AllOwned, NEW s \in Signatures, signature[s] = NoSignature,
         NEW a \in Algorithms, NEW m \in Messages, NEW sk, NEW size, SignOk(a, sk, size, m, s)
  PROVE  AllOwned'
  <1>1. PICK c \in MallocResults \ {Null} :
          /\ allocated' = Allocate(allocated, c, SignatureSize(a))
          /\ signature' = [signature EXCEPT ![s] =
               [algorithm |-> a, signature |-> c, signature_size |-> SignatureSize(a)]]
          /\ UNCHANGED keypair
    BY DEF SignOk
  <1>2. signature'[s].signature = c /\ \A u \in Signatures : u # s => signature'[u] = signature[u]
    BY <1>1 DEF Sound, TypeOK
  <1>3. \A b \in Blocks : b # c => allocated'[b] = allocated[b]
    BY <1>1 DEF Allocate, Sound, TypeOK
  <1> SUFFICES ASSUME NEW b \in Blocks, allocated'[b] # 0
               PROVE  Owned(b)'
    BY DEF AllOwned
  <1>4. CASE b = c
    BY <1>2, <1>4 DEF Owned
  <1>5. CASE b # c
    <2>1. Owned(b)
      BY <1>3, <1>5 DEF AllOwned
    <2>2. CASE \E k \in Keypairs : keypair[k].public_key = b \/ keypair[k].secret_key = b
      BY <1>1, <2>2 DEF Owned
    <2>3. ASSUME NEW u \in Signatures, signature[u].signature = b
          PROVE  Owned(b)'
      <3>1. u # s
        BY <2>3, NullAssumption DEF NoSignature
      <3> QED  BY <1>2, <2>3, <3>1 DEF Owned
    <2> QED  BY <2>1, <2>2, <2>3 DEF Owned
  <1> QED  BY <1>4, <1>5

LEMMA SignatureFreeOwned ==
  ASSUME Sound, AllOwned, NEW s \in Signatures, SignatureFree(s)
  PROVE  AllOwned'
  <1>1. /\ allocated' = Free(allocated, signature[s].signature)
        /\ signature' = [signature EXCEPT ![s] = NoSignature]
        /\ UNCHANGED keypair
    BY DEF SignatureFree
  <1>2. \A u \in Signatures : u # s => signature'[u] = signature[u]
    BY <1>1 DEF Sound, TypeOK
  <1>3. \A b \in Blocks : IF b = signature[s].signature THEN allocated'[b] = 0
                          ELSE allocated'[b] = allocated[b]
    BY <1>1, NullAssumption DEF Free, Allocate, Sound, TypeOK
  <1> SUFFICES ASSUME NEW b \in Blocks, allocated'[b] # 0
               PROVE  Owned(b)'
    BY DEF AllOwned
  <1>4. b # signature[s].signature /\ Owned(b)
    BY <1>3 DEF AllOwned
  <1>5. CASE \E k \in Keypairs : keypair[k].public_key = b \/ keypair[k].secret_key = b
    BY <1>1, <1>5 DEF Owned
  <1>6. ASSUME NEW u \in Signatures, signature[u].signature = b
        PROVE  Owned(b)'
    <2>1. u # s
      BY <1>4, <1>6
    <2> QED  BY <1>2, <1>6, <2>1 DEF Owned
  <1> QED  BY <1>4, <1>5, <1>6 DEF Owned

LEMMA OwnedStep == ~Reuse /\ Sound /\ AllOwned /\ [Next]_vars => AllOwned'
  <1> SUFFICES ASSUME ~Reuse, Sound, AllOwned, [Next]_vars
               PROVE  AllOwned'
    OBVIOUS
  <1>1. CASE UNCHANGED <<structs, heap>>
    BY <1>1 DEF structs, heap, AllOwned, Owned
  <1>2. CASE last'.error # "OK" /\ ~UNCHANGED vars
    BY <1>1, <1>2, FailedStep
  <1>3. CASE UNCHANGED vars
    BY <1>1, <1>3 DEF vars, structs, heap
  <1>4. ASSUME last'.error = "OK", NEW k \in Keypairs, NEW a \in Algorithms, NEW r \in Randoms,
               NEW size \in {127, 128}, Keygen(k, a, r, size)
        PROVE  AllOwned'
    <2>1. keypair[k] = NoKeypair /\ KeygenOk(k, a, r, size)
      BY <1>4 DEF Keygen, KeygenRejects, KeygenNoMemory, KeygenFails, Return
    <2> QED  BY <2>1, KeygenOkOwned
  <1>5. ASSUME NEW k \in Keypairs, KeypairFree(k)
        PROVE  AllOwned'
    BY <1>5, KeypairFreeOwned
  <1>6. ASSUME last'.error = "OK", NEW k \in Keypairs, NEW a \in Algorithms, NEW m \in Messages,
               NEW s \in Signatures, NEW size, Sign(a, keypair[k].secret_key, size, m, s)
        PROVE  AllOwned'
    <2>1. signature[s] = NoSignature /\ SignOk(a, keypair[k].secret_key, size, m, s)
      BY <1>6 DEF Sign, SignRejects, SignNoMemory, SignFails, Return
    <2> QED  BY <2>1, SignOkOwned
  <1>7. ASSUME NEW s \in Signatures, SignatureFree(s)
        PROVE  AllOwned'
    BY <1>7, SignatureFreeOwned
  <1>8. ASSUME NEW k \in Keypairs, NEW a \in Algorithms, NEW m \in Messages, NEW s \in Signatures,
               NEW pkSize, NEW sigSize,
               Verify(a, keypair[k].public_key, pkSize, m, signature[s].signature, sigSize)
        PROVE  AllOwned'
    BY <1>1, <1>8 DEF Verify
  <1>9. CASE NullArgument
    BY <1>1, <1>9 DEF NullArgument
  <1> QED
    BY <1>2, <1>3, <1>4, <1>5, <1>6, <1>7, <1>8, <1>9 DEF Next

(* A caller that frees each struct before filling it again loses no block  *)
(* (bitcoinpqc.c:80-84, 105-109, 209-212).                                 *)
THEOREM NothingLeaks == Spec => []NoLeak
  <1>1. Init => AllOwned
    BY DEF Init, AllOwned
  <1>2. AllOwned => NoLeak
    BY OwnedHasOwner DEF AllOwned, NoLeak
  <1>3. Reuse => NoLeak
    BY DEF NoLeak
  <1>4. CASE ~Reuse
    <2>1. Sound /\ AllOwned /\ [Next]_vars => AllOwned'
      BY <1>4, OwnedStep
    <2> QED  BY SoundInit, SoundStep, <1>1, <1>2, <2>1, PTL DEF Spec
  <1>5. CASE Reuse
    <2>1. NoLeak
      BY <1>3, <1>5
    <2> QED  BY <2>1, PTL
  <1> QED  BY <1>4, <1>5
=============================================================================
