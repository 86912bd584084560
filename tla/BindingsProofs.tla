--------------------------- MODULE BindingsProofs ---------------------------
(***************************************************************************)
(* What holds of the bindings for any number of blocks, any random data    *)
(* and any messages.                                                       *)
(*                                                                         *)
(* Of the Rust binding the invariant Sound says where a call into C is and *)
(* what each pointer of the caller and of the call's two structs points    *)
(* to.  Unlike in PqcApiProofs free memory may hold a secret key, left by  *)
(* a conversion, so that a new block is known to be nobody's by the sizes: *)
(* a block is allocated exactly when something points to it.               *)
(*                                                                         *)
(* Of those of Python and Node.js ScriptInv says that the key in an object *)
(* is one the library made and that a signature is kept with the key and   *)
(* message it was made from.                                               *)
(***************************************************************************)
EXTENDS MCBindings, FiniteSetTheorems, TLAPS

Named == {C!Secp, C!MlDsa, C!SlhDsa}
Taken == Messages \cup {Truncated(m) : m \in Messages}
Phases == {"idle", "keygen", "copied", "sign", "signed"}

HoldsPublic(b) ==
  b \in Blocks /\ \E a \in Named, r \in Randoms :
    content[b] = C!PublicKey(a, r) /\ allocated[b] = C!PublicKeySize(a)
HoldsSecret(b) ==
  b \in Blocks /\ \E a \in Named, r \in Randoms :
    content[b] = C!SecretKey(a, r) /\ allocated[b] = C!SecretKeySize(a)
HoldsSignature(b) ==
  b \in Blocks /\ \E a \in Named, r \in Randoms, m \in Taken :
    /\ content[b] = C!Signature(a, r, m) /\ allocated[b] = C!SignatureSize(a)
    /\ <<a, r, m>> \in signed

kp == keypair["call"]
sg == signature["call"]

Types ==
  /\ allocated \in [Blocks -> Nat] /\ content = [b \in Blocks |-> content[b]]
  /\ keypair = [k \in {"call"} |-> kp] /\ signature = [s \in {"call"} |-> sg]
  /\ unwiped \subseteq Blocks /\ pc \in Phases

ValuesHold ==
  /\ secret # Null => HoldsSecret(secret)
  /\ public # Null => HoldsPublic(public)
  /\ sig # Null => HoldsSignature(sig)

CallsHold ==
  /\ pc \notin {"keygen", "copied"} => kp = C!NoKeypair
  /\ pc \in {"keygen", "copied"} =>
       /\ HoldsPublic(kp.public_key) /\ HoldsSecret(kp.secret_key)
       /\ kp.public_key_size = allocated[kp.public_key] /\ kp.secret_key_size = allocated[kp.secret_key]
  /\ pc \notin {"sign", "signed"} => sg = C!NoSignature
  /\ pc \in {"sign", "signed"} =>
       HoldsSignature(sg.signature) /\ sg.signature_size = allocated[sg.signature]
  /\ pc = "keygen" => secret = Null /\ public = Null
  /\ pc = "sign" => sig = Null
  /\ pc = "copied" => secret # kp.secret_key /\ public # kp.public_key
  /\ pc = "signed" => sig # sg.signature

Pointers == {secret, public, sig, kp.public_key, kp.secret_key, sg.signature}
AllocatedIsOwned == \A b \in Blocks : allocated[b] # 0 <=> b \in Pointers

LongSigned == \A r \in Randoms, m \in Taken : <<C!Secp, r, m>> \in signed => ~Short(m)

Sound ==
  Types /\ ValuesHold /\ CallsHold /\ AllocatedIsOwned /\ OnlyConversionsLeaveSecrets /\ LongSigned
-----------------------------------------------------------------------------
LEMMA Sizes ==
  ASSUME NEW a \in Named
  PROVE  /\ C!PublicKeySize(a) \in Nat \ {0} /\ C!SecretKeySize(a) \in Nat \ {0}
         /\ C!SignatureSize(a) \in Nat \ {0}
  BY DEF Named, C!PublicKeySize, C!SecretKeySize, C!SignatureSize, C!Secp, C!MlDsa, C!SlhDsa

LEMMA Kinds ==
  ASSUME NEW a, NEW b, NEW r, NEW q, NEW m
  PROVE  /\ C!PublicKey(a, r) # C!SecretKey(b, q)
         /\ C!PublicKey(a, r) # C!Signature(b, q, m)
         /\ C!SecretKey(a, r) # C!Signature(b, q, m)
         /\ C!PublicKey(a, r)[1] # "secret key" /\ C!Signature(a, r, m)[1] # "secret key"
         /\ C!SecretKey(a, r)[1] = "secret key" /\ C!Blank[1] # "secret key"
  BY DEF C!PublicKey, C!SecretKey, C!Signature, C!Blank

LEMMA Kept ==
  ASSUME NEW b \in Blocks, allocated'[b] = allocated[b], content'[b] = content[b],
         signed \subseteq signed'
  PROVE  /\ HoldsPublic(b) => HoldsPublic(b)'
         /\ HoldsSecret(b) => HoldsSecret(b)'
         /\ HoldsSignature(b) => HoldsSignature(b)'
  BY DEF HoldsPublic, HoldsSecret, HoldsSignature

(* A pointer to what one kind of value holds is no pointer to another. *)
LEMMA Held ==
  ASSUME NEW b, Types
  PROVE  /\ HoldsPublic(b) => b \in Blocks /\ allocated[b] # 0
         /\ HoldsSecret(b) => b \in Blocks /\ allocated[b] # 0
         /\ HoldsSignature(b) => b \in Blocks /\ allocated[b] # 0
         /\ ~(HoldsPublic(b) /\ HoldsSecret(b))
         /\ ~(HoldsPublic(b) /\ HoldsSignature(b))
         /\ ~(HoldsSecret(b) /\ HoldsSignature(b))
  <1>1. HoldsPublic(b) => b \in Blocks /\ allocated[b] # 0
    BY Sizes DEF HoldsPublic
  <1>2. HoldsSecret(b) => b \in Blocks /\ allocated[b] # 0
    BY Sizes DEF HoldsSecret
  <1>3. HoldsSignature(b) => b \in Blocks /\ allocated[b] # 0
    BY Sizes DEF HoldsSignature
  <1>4. ASSUME HoldsPublic(b), HoldsSecret(b)
        PROVE  FALSE
    <2>1. PICK a \in Named, r \in Randoms : content[b] = C!PublicKey(a, r)
      BY <1>4 DEF HoldsPublic
    <2>2. PICK c \in Named, q \in Randoms : content[b] = C!SecretKey(c, q)
      BY <1>4 DEF HoldsSecret
    <2> QED  BY <2>1, <2>2, Kinds
  <1>5. ASSUME HoldsPublic(b), HoldsSignature(b)
        PROVE  FALSE
    <2>1. PICK a \in Named, r \in Randoms : content[b] = C!PublicKey(a, r)
      BY <1>5 DEF HoldsPublic
    <2>2. PICK c \in Named, q \in Randoms, m \in Taken : content[b] = C!Signature(c, q, m)
      BY <1>5 DEF HoldsSignature
    <2> QED  BY <2>1, <2>2, Kinds
  <1>6. ASSUME HoldsSecret(b), HoldsSignature(b)
        PROVE  FALSE
    <2>1. PICK a \in Named, r \in Randoms : content[b] = C!SecretKey(a, r)
      BY <1>6 DEF HoldsSecret
    <2>2. PICK c \in Named, q \in Randoms, m \in Taken : content[b] = C!Signature(c, q, m)
      BY <1>6 DEF HoldsSignature
    <2> QED  BY <2>1, <2>2, Kinds
  <1> QED  BY <1>1, <1>2, <1>3, <1>4, <1>5, <1>6

(* A step leaves what the blocks outside G hold. *)
Keeps(G) ==
  \A b : b \notin G =>
    /\ HoldsPublic(b) => HoldsPublic(b)'
    /\ HoldsSecret(b) => HoldsSecret(b)'
    /\ HoldsSignature(b) => HoldsSignature(b)'

(* What a pointer holds after a step, said of the block it points to then. *)
LEMMA Pointed ==
  ASSUME NEW b
  PROVE  /\ secret' = b => (HoldsSecret(secret)' <=> HoldsSecret(b)')
         /\ public' = b => (HoldsPublic(public)' <=> HoldsPublic(b)')
         /\ sig' = b => (HoldsSignature(sig)' <=> HoldsSignature(b)')
         /\ kp.secret_key' = b => (HoldsSecret(kp.secret_key)' <=> HoldsSecret(b)')
         /\ kp.public_key' = b => (HoldsPublic(kp.public_key)' <=> HoldsPublic(b)')
         /\ sg.signature' = b => (HoldsSignature(sg.signature)' <=> HoldsSignature(b)')
  <1>1. secret' = b => (HoldsSecret(secret)' <=> HoldsSecret(b)')
    BY DEF HoldsSecret
  <1>2. public' = b => (HoldsPublic(public)' <=> HoldsPublic(b)')
    BY DEF HoldsPublic
  <1>3. sig' = b => (HoldsSignature(sig)' <=> HoldsSignature(b)')
    BY DEF HoldsSignature
  <1>4. kp.secret_key' = b => (HoldsSecret(kp.secret_key)' <=> HoldsSecret(b)')
    BY DEF HoldsSecret
  <1>5. kp.public_key' = b => (HoldsPublic(kp.public_key)' <=> HoldsPublic(b)')
    BY DEF HoldsPublic
  <1>6. sg.signature' = b => (HoldsSignature(sg.signature)' <=> HoldsSignature(b)')
    BY DEF HoldsSignature
  <1> QED  BY <1>1, <1>2, <1>3, <1>4, <1>5, <1>6

LEMMA Unmoved ==
  ASSUME NEW G, Keeps(G)
  PROVE  /\ secret' = secret /\ secret \notin G /\ HoldsSecret(secret) => HoldsSecret(secret)'
         /\ public' = public /\ public \notin G /\ HoldsPublic(public) => HoldsPublic(public)'
         /\ sig' = sig /\ sig \notin G /\ HoldsSignature(sig) => HoldsSignature(sig)'
         /\ kp' = kp /\ kp.secret_key \notin G /\ HoldsSecret(kp.secret_key) => HoldsSecret(kp.secret_key)'
         /\ kp' = kp /\ kp.public_key \notin G /\ HoldsPublic(kp.public_key) => HoldsPublic(kp.public_key)'
         /\ sg' = sg /\ sg.signature \notin G /\ HoldsSignature(sg.signature) => HoldsSignature(sg.signature)'
  <1>1. ASSUME NEW b, b \notin G, secret' = b, HoldsSecret(b)
        PROVE  HoldsSecret(secret)'
    BY <1>1, Pointed DEF Keeps
  <1>2. ASSUME NEW b, b \notin G, public' = b, HoldsPublic(b)
        PROVE  HoldsPublic(public)'
    BY <1>2, Pointed DEF Keeps
  <1>3. ASSUME NEW b, b \notin G, sig' = b, HoldsSignature(b)
        PROVE  HoldsSignature(sig)'
    BY <1>3, Pointed DEF Keeps
  <1>4. ASSUME NEW b, b \notin G, kp.secret_key' = b, HoldsSecret(b)
        PROVE  HoldsSecret(kp.secret_key)'
    BY <1>4, Pointed DEF Keeps
  <1>5. ASSUME NEW b, b \notin G, kp.public_key' = b, HoldsPublic(b)
        PROVE  HoldsPublic(kp.public_key)'
    BY <1>5, Pointed DEF Keeps
  <1>6. ASSUME NEW b, b \notin G, sg.signature' = b, HoldsSignature(b)
        PROVE  HoldsSignature(sg.signature)'
    BY <1>6, Pointed DEF Keeps
  <1> QED  BY <1>1, <1>2, <1>3, <1>4, <1>5, <1>6

LEMMA SoundInit == Init => Sound
  <1> SUFFICES ASSUME Init
               PROVE  Sound
    OBVIOUS
  <1>1. kp = C!NoKeypair /\ sg = C!NoSignature
    BY DEF Init, C!Init, kp, sg
  <1>2. Types
    BY DEF Init, C!Init, Types, Phases, kp, sg
  <1>3. ValuesHold /\ CallsHold
    BY <1>1 DEF Init, ValuesHold, CallsHold
  <1>4. AllocatedIsOwned
    BY <1>1, NullAssumption DEF Init, C!Init, AllocatedIsOwned, Pointers, C!NoKeypair, C!NoSignature
  <1>5. OnlyConversionsLeaveSecrets
    BY DEF Init, C!Init, OnlyConversionsLeaveSecrets, C!Blank
  <1>6. LongSigned
    BY DEF Init, C!Init, LongSigned
  <1> QED  BY <1>2, <1>3, <1>4, <1>5, <1>6 DEF Sound
-----------------------------------------------------------------------------
(* The memory after a step that allocates the blocks of N and gives back   *)
(* those of G; a conversion may leave what it likes in a block that is     *)
(* free before and after.                                                  *)
LEMMA HeapStep ==
  ASSUME Sound, NEW N, N \subseteq Fresh, NEW G, G \subseteq Blocks, N \cap G = {},
         \A b \in N : allocated'[b] # 0,
         \A b \in G : allocated'[b] = 0 /\ content'[b][1] # "secret key",
         \A b \in Blocks \ (N \cup G) :
           /\ allocated'[b] = allocated[b]
           /\ content'[b] = content[b] \/ (allocated[b] = 0 /\ b \in unwiped'),
         signed \subseteq signed', \A b \in unwiped \ (N \cup G) : allocated'[b] = 0 => b \in unwiped',
         \A b \in Blocks : b \in Pointers' <=> b \in N \/ (b \in Pointers /\ b \notin G)
  PROVE  /\ AllocatedIsOwned' /\ OnlyConversionsLeaveSecrets'
         /\ Keeps(G)
  <1>1. \A b \in N : b \in Blocks /\ allocated[b] = 0
    BY DEF Fresh
  <1>2. AllocatedIsOwned'
    <2> SUFFICES ASSUME NEW b \in Blocks
                 PROVE  allocated'[b] # 0 <=> b \in Pointers'
      BY DEF AllocatedIsOwned
    <2>1. allocated[b] # 0 <=> b \in Pointers
      BY DEF Sound, AllocatedIsOwned
    <2> QED  BY <1>1, <2>1
  <1>3. OnlyConversionsLeaveSecrets'
    <2> SUFFICES ASSUME NEW b \in Blocks, allocated'[b] = 0, content'[b][1] = "secret key"
                 PROVE  b \in unwiped'
      BY DEF OnlyConversionsLeaveSecrets
    <2>1. b \notin N /\ b \notin G
      OBVIOUS
    <2>2. CASE allocated[b] = 0 /\ b \in unwiped'
      BY <2>2
    <2>3. CASE content'[b] = content[b]
      <3>1. allocated[b] = 0 /\ content[b][1] = "secret key"
        BY <2>1, <2>3
      <3>2. b \in unwiped
        BY <3>1 DEF Sound, OnlyConversionsLeaveSecrets
      <3> QED  BY <2>1, <3>2
    <2> QED  BY <2>1, <2>2, <2>3
  <1>4. ASSUME NEW b, b \notin G
        PROVE  /\ HoldsPublic(b) => HoldsPublic(b)'
               /\ HoldsSecret(b) => HoldsSecret(b)'
               /\ HoldsSignature(b) => HoldsSignature(b)'
    <2> SUFFICES ASSUME HoldsPublic(b) \/ HoldsSecret(b) \/ HoldsSignature(b)
                 PROVE  b \in Blocks /\ allocated'[b] = allocated[b] /\ content'[b] = content[b]
      BY Kept
    <2>1. b \in Blocks /\ allocated[b] # 0
      BY Held DEF Sound
    <2> QED  BY <1>1, <1>4, <2>1
  <1> QED  BY <1>2, <1>3, <1>4 DEF Keeps

LEMMA NewBlocks ==
  ASSUME Sound, NEW p \in Fresh, NEW q \in Fresh,
         allocated'[p] # 0, allocated'[q] # 0,
         \A b \in Blocks \ {p, q} : allocated'[b] = allocated[b] /\ content'[b] = content[b],
         signed \subseteq signed', \A b \in unwiped : allocated'[b] = 0 => b \in unwiped',
         \A b \in Blocks : b \in Pointers' <=> b \in {p, q} \/ b \in Pointers
  PROVE  /\ AllocatedIsOwned' /\ OnlyConversionsLeaveSecrets'
         /\ Keeps({})
  <1> DEFINE N == {p, q}
             G == {}
  <1>1. N \subseteq Fresh /\ G \subseteq Blocks /\ N \cap G = {}
    OBVIOUS
  <1>2. /\ \A b \in N : allocated'[b] # 0
        /\ \A b \in G : allocated'[b] = 0 /\ content'[b][1] # "secret key"
    OBVIOUS
  <1>3. \A b \in Blocks \ (N \cup G) :
          /\ allocated'[b] = allocated[b]
          /\ content'[b] = content[b] \/ (allocated[b] = 0 /\ b \in unwiped')
    OBVIOUS
  <1>4. \A b \in Blocks : b \in Pointers' <=> b \in N \/ (b \in Pointers /\ b \notin G)
    OBVIOUS
  <1>5. \A b \in unwiped \ (N \cup G) : allocated'[b] = 0 => b \in unwiped'
    OBVIOUS
  <1> HIDE DEF N, G
  <1>6. AllocatedIsOwned' /\ OnlyConversionsLeaveSecrets' /\ Keeps(G)
    BY <1>1, <1>2, <1>3, <1>4, <1>5, HeapStep
  <1> QED  BY <1>6 DEF G

LEMMA GoneBlocks ==
  ASSUME Sound, NEW p \in Blocks, NEW q \in Blocks,
         \A b \in {p, q} : allocated'[b] = 0 /\ content'[b] = C!Blank,
         \A b \in Blocks \ {p, q} : allocated'[b] = allocated[b] /\ content'[b] = content[b],
         signed \subseteq signed', unwiped \subseteq unwiped',
         \A b \in Blocks : b \in Pointers' <=> b \in Pointers /\ b \notin {p, q}
  PROVE  /\ AllocatedIsOwned' /\ OnlyConversionsLeaveSecrets'
         /\ Keeps({p, q})
  <1> DEFINE N == {}
             G == {p, q}
  <1>1. N \subseteq Fresh /\ G \subseteq Blocks /\ N \cap G = {}
    OBVIOUS
  <1>2. /\ \A b \in N : allocated'[b] # 0
        /\ \A b \in G : allocated'[b] = 0 /\ content'[b][1] # "secret key"
    BY Kinds
  <1>3. \A b \in Blocks \ (N \cup G) :
          /\ allocated'[b] = allocated[b]
          /\ content'[b] = content[b] \/ (allocated[b] = 0 /\ b \in unwiped')
    OBVIOUS
  <1>4. \A b \in Blocks : b \in Pointers' <=> b \in N \/ (b \in Pointers /\ b \notin G)
    OBVIOUS
  <1>5. \A b \in unwiped \ (N \cup G) : allocated'[b] = 0 => b \in unwiped'
    OBVIOUS
  <1> HIDE DEF N, G
  <1>6. AllocatedIsOwned' /\ OnlyConversionsLeaveSecrets' /\ Keeps(G)
    BY <1>1, <1>2, <1>3, <1>4, <1>5, HeapStep
  <1> QED  BY <1>6 DEF G

(* A step that leaves the memory and every pointer as they are. *)
LEMMA QuietStep ==
  ASSUME Sound, UNCHANGED <<keypair, signature, allocated, content, signed, values, pc>>,
         unwiped' = unwiped \/ unwiped' = unwiped \ { b \in Blocks : allocated'[b] # 0 }
  PROVE  Sound'
  <1>1. Types'
    BY DEF Sound, Types, kp, sg, values
  <1>2. /\ \A b : HoldsPublic(b) <=> HoldsPublic(b)'
        /\ \A b : HoldsSecret(b) <=> HoldsSecret(b)'
        /\ \A b : HoldsSignature(b) <=> HoldsSignature(b)'
    BY DEF HoldsPublic, HoldsSecret, HoldsSignature
  <1>3. kp' = kp /\ sg' = sg
    BY DEF kp, sg
  <1>4. ValuesHold' /\ CallsHold'
    BY <1>2, <1>3 DEF Sound, ValuesHold, CallsHold, values
  <1>5. AllocatedIsOwned'
    BY <1>3 DEF Sound, AllocatedIsOwned, Pointers, values
  <1>6. OnlyConversionsLeaveSecrets'
    BY DEF Sound, OnlyConversionsLeaveSecrets
  <1>7. LongSigned'
    BY DEF Sound, LongSigned
  <1> QED  BY <1>1, <1>4, <1>5, <1>6, <1>7 DEF Sound

LEMMA FailsStep ==
  ASSUME Sound, NEW op, NEW value, Fails(op, value)
  PROVE  Sound'
  BY QuietStep DEF Fails, Returns, cvars, values

LEMMA GenerateSecpStep ==
  ASSUME Sound, NEW r \in Randoms, NEW len, GenerateSecp(r, len)
  PROVE  Sound'
  <1>1. CASE Fails("generate_keypair", "BadKey")
    BY <1>1, FailsStep
  <1>2. CASE ~Fails("generate_keypair", "BadKey")
    <2>1. /\ pc = "idle" /\ pc' = "idle" /\ secret = Null /\ public = Null
          /\ UNCHANGED <<keypair, signature, signed, sig>>
      BY <1>2 DEF GenerateSecp
    <2>2. PICK p \in Fresh, q \in Fresh :
            /\ p # q /\ public' = p /\ secret' = q
            /\ Vecs([b \in {p, q} |-> 32],
                    [b \in {p, q} |-> IF b = p THEN C!PublicKey(C!Secp, r) ELSE C!SecretKey(C!Secp, r)])
      BY <1>2 DEF GenerateSecp
    <2>3. p \in Blocks /\ q \in Blocks /\ allocated[p] = 0 /\ allocated[q] = 0
      BY DEF Fresh
    <2>4. /\ allocated' = [b \in Blocks |-> IF b \in {p, q} THEN 32 ELSE allocated[b]]
          /\ content' = [b \in Blocks |-> IF b \in {p, q}
                                          THEN IF b = p THEN C!PublicKey(C!Secp, r) ELSE C!SecretKey(C!Secp, r)
                                          ELSE content[b]]
          /\ unwiped' = unwiped \ {p, q}
      BY <2>2 DEF Vecs
    <2>5. kp = C!NoKeypair /\ kp' = kp /\ sg = C!NoSignature /\ sg' = sg
      BY <2>1 DEF Sound, CallsHold, kp, sg
    <2>6. \A b \in Blocks : b \in Pointers' <=> b \in {p, q} \/ b \in Pointers
      BY <2>1, <2>2, <2>5, NullAssumption DEF Pointers
    <2>7. AllocatedIsOwned' /\ OnlyConversionsLeaveSecrets' /\ Keeps({})
      <3>1. /\ allocated'[p] # 0 /\ allocated'[q] # 0
            /\ \A b \in Blocks \ {p, q} : allocated'[b] = allocated[b] /\ content'[b] = content[b]
            /\ \A b \in unwiped : allocated'[b] = 0 => b \in unwiped'
            /\ signed \subseteq signed'
        BY <2>1, <2>3, <2>4
      <3> QED  BY <2>6, <3>1, NewBlocks
    <2>8. HoldsPublic(p)' /\ HoldsSecret(q)'
      <3>1. C!Secp \in Named /\ C!PublicKeySize(C!Secp) = 32 /\ C!SecretKeySize(C!Secp) = 32
        BY DEF Named, C!PublicKeySize, C!SecretKeySize, C!Secp, C!MlDsa, C!SlhDsa
      <3> QED  BY <2>2, <2>3, <2>4, <3>1 DEF HoldsPublic, HoldsSecret
    <2>9. Types'
      BY <2>1, <2>4 DEF Sound, Types, Phases, kp, sg
    <2>10. ValuesHold'
      <3>1. HoldsPublic(public)' /\ HoldsSecret(secret)'
        BY <2>2, <2>8, Pointed
      <3>2. sig' # Null => HoldsSignature(sig)'
        BY <2>1, <2>7, Unmoved DEF Sound, ValuesHold
      <3> QED  BY <3>1, <3>2 DEF ValuesHold
    <2>11. CallsHold'
      BY <2>1, <2>5 DEF CallsHold
    <2>12. LongSigned'
      BY <2>1 DEF Sound, LongSigned
    <2> QED  BY <2>7, <2>9, <2>10, <2>11, <2>12 DEF Sound
  <1> QED  BY <1>1, <1>2

(* The numbers that come between the two enumerations. *)
LEMMA IntoNamed ==
  ASSUME NEW a \in Labels, a # SECP256K1_SCHNORR
  PROVE  into(a) \in {C!MlDsa, C!SlhDsa} /\ into(a) \in Named /\ into(a) # C!Secp
  BY DEF into, Named, C!Secp, C!MlDsa, C!SlhDsa

(* A call of keygen that fails gives back what it allocated. *)
LEMMA GivenBack ==
  ASSUME allocated \in [Blocks -> Nat], NEW a, NEW p \in C!TwoBlocks,
         allocated' = C!Free(C!Free(C!WithKeys(a, p), p[1]), p[2])
  PROVE  allocated' = allocated
  <1>1. /\ p[1] \in C!MallocResults /\ p[2] \in C!MallocResults
        /\ p[1] = p[2] => p[1] = Null
    BY DEF C!TwoBlocks
  <1>2. \A b \in Blocks : b \in C!MallocResults => allocated[b] = 0
    BY NullAssumption DEF C!MallocResults
  <1> DEFINE x == C!PublicKeySize(a)
             y == C!SecretKeySize(a)
  <1>3. C!WithKeys(a, p) = C!Allocate(C!Allocate(allocated, p[1], x), p[2], y)
    BY DEF C!WithKeys
  <1> HIDE DEF x, y
  <1> QED  BY <1>1, <1>2, <1>3, NullAssumption DEF C!Free, C!Allocate, C!MallocResults

LEMMA KeygenOkStep ==
  ASSUME Sound, pc = "idle", secret = Null, public = Null, NEW a \in Named, NEW r \in Randoms, NEW len,
         C!KeygenOk("call", a, r, len), pc' = "keygen", UNCHANGED values,
         unwiped' = unwiped \ { b \in Blocks : allocated'[b] # 0 }
  PROVE  Sound'
  <1>1. PICK pair \in C!TwoBlocks :
          /\ Null \notin {pair[1], pair[2]}
          /\ allocated' = C!WithKeys(a, pair)
          /\ content' = [content EXCEPT ![pair[1]] = C!PublicKey(a, r), ![pair[2]] = C!SecretKey(a, r)]
          /\ keypair' = [keypair EXCEPT !["call"] =
               [algorithm |-> a, public_key |-> pair[1], secret_key |-> pair[2],
                public_key_size |-> C!PublicKeySize(a), secret_key_size |-> C!SecretKeySize(a)]]
          /\ UNCHANGED <<signature, signed>>
    BY DEF C!KeygenOk
  <1> DEFINE p == pair[1]
             q == pair[2]
  <1>2. p \in Fresh /\ q \in Fresh /\ p # q /\ p \in Blocks /\ q \in Blocks
    BY <1>1 DEF C!TwoBlocks, C!MallocResults, Fresh
  <1>3. /\ secret' = Null /\ public' = Null /\ sig' = sig
        /\ kp = C!NoKeypair /\ sg = C!NoSignature /\ sg' = sg
    BY <1>1 DEF Sound, CallsHold, kp, sg, values
  <1>4. /\ kp'.public_key = p /\ kp'.secret_key = q
        /\ kp'.public_key_size = C!PublicKeySize(a) /\ kp'.secret_key_size = C!SecretKeySize(a)
        /\ keypair' = [k \in {"call"} |-> kp']
    BY <1>1 DEF Sound, Types, kp
  <1> HIDE DEF p, q
  <1>5. /\ allocated' = C!Allocate(C!Allocate(allocated, p, C!PublicKeySize(a)), q, C!SecretKeySize(a))
        /\ content' = [content EXCEPT ![p] = C!PublicKey(a, r), ![q] = C!SecretKey(a, r)]
    BY <1>1 DEF p, q, C!WithKeys
  <1>6. /\ allocated'[p] = C!PublicKeySize(a) /\ allocated'[q] = C!SecretKeySize(a)
        /\ \A b \in Blocks \ {p, q} : allocated'[b] = allocated[b]
        /\ allocated' \in [Blocks -> Nat]
    BY <1>2, <1>5, Sizes, NullAssumption DEF C!Allocate, Sound, Types
  <1>7. /\ content'[p] = C!PublicKey(a, r) /\ content'[q] = C!SecretKey(a, r)
        /\ \A b \in Blocks \ {p, q} : content'[b] = content[b]
        /\ content' = [b \in Blocks |-> content'[b]]
    BY <1>2, <1>5 DEF Sound, Types
  <1>8. \A b \in Blocks : b \in Pointers' <=> b \in {p, q} \/ b \in Pointers
    BY <1>3, <1>4, NullAssumption DEF Pointers, C!NoKeypair
  <1>9. AllocatedIsOwned' /\ OnlyConversionsLeaveSecrets' /\ Keeps({})
    <2>1. allocated'[p] # 0 /\ allocated'[q] # 0
      BY <1>6, Sizes
    <2>2. \A b \in unwiped : allocated'[b] = 0 => b \in unwiped'
      OBVIOUS
    <2>3. signed \subseteq signed'
      BY <1>1
    <2> QED  BY <1>2, <1>6, <1>7, <1>8, <2>1, <2>2, <2>3, NewBlocks
  <1>10. Types'
    BY <1>1, <1>4, <1>6, <1>7 DEF Sound, Types, Phases, sg
  <1>11. ValuesHold'
    <2>1. sig' # Null => HoldsSignature(sig)'
      BY <1>3, <1>9, Unmoved DEF Sound, ValuesHold
    <2> QED  BY <1>3, <2>1 DEF ValuesHold
  <1>12. CallsHold'
    <2>1. HoldsPublic(p)' /\ HoldsSecret(q)'
      BY <1>2, <1>6, <1>7 DEF HoldsPublic, HoldsSecret
    <2>2. HoldsPublic(kp.public_key)' /\ HoldsSecret(kp.secret_key)'
      BY <1>4, <2>1, Pointed
    <2>3. /\ (kp.public_key_size = allocated[kp.public_key])'
          /\ (kp.secret_key_size = allocated[kp.secret_key])'
      BY <1>4, <1>6
    <2> QED  BY <1>3, <2>2, <2>3 DEF CallsHold
  <1>13. LongSigned'
    BY <1>1 DEF Sound, LongSigned
  <1> QED  BY <1>9, <1>10, <1>11, <1>12, <1>13 DEF Sound

LEMMA GenerateCallsStep ==
  ASSUME Sound, NEW a \in Labels, NEW r \in Randoms, NEW len, GenerateCalls(a, r, len)
  PROVE  Sound'
  <1> DEFINE c == into(a)
  <1>1. c \in Named /\ c # C!Secp
    BY IntoNamed DEF GenerateCalls
  <1>2. /\ pc = "idle" /\ secret = Null /\ public = Null /\ UNCHANGED values
        /\ C!Keygen("call", c, r, len)
        /\ IF last'.error = "OK" THEN pc' = "keygen"
           ELSE pc' = "idle"
        /\ unwiped' = unwiped \ { b \in Blocks : allocated'[b] # 0 }
    BY DEF GenerateCalls, Returns
  <1>3. CASE C!KeygenRejects(c, len)
    <2>1. pc' = pc /\ UNCHANGED <<keypair, signature, allocated, content, signed>>
      BY <1>2, <1>3 DEF C!KeygenRejects, C!Return, C!structs, C!heap
    <2> QED  BY <1>2, <2>1, QuietStep
  <1>4. CASE C!KeygenNoMemory(c, len)
    <2>1. pc' = pc /\ UNCHANGED <<keypair, signature, content, signed>>
      BY <1>2, <1>4 DEF C!KeygenNoMemory, C!Return, C!structs
    <2>2. allocated' = allocated
      BY <1>4, GivenBack DEF C!KeygenNoMemory, Sound, Types
    <2> QED  BY <1>2, <2>1, <2>2, QuietStep
  <1>5. CASE C!KeygenOk("call", c, r, len)
    <2>1. pc' = "keygen"
      BY <1>2, <1>5 DEF C!KeygenOk, C!Return
    <2> QED  BY <1>1, <1>2, <1>5, <2>1, KeygenOkStep
  <1>6. ~C!KeygenFails(c, len)
    BY <1>1 DEF C!KeygenFails
  <1> QED  BY <1>2, <1>3, <1>4, <1>5, <1>6 DEF C!Keygen

LEMMA GenerateCopiesStep ==
  ASSUME Sound, GenerateCopies
  PROVE  Sound'
  <1> DEFINE pk == kp.public_key
             sk == kp.secret_key
  <1>1. /\ pc = "keygen" /\ pc' = "copied" /\ secret = Null /\ public = Null
        /\ UNCHANGED <<keypair, signature, signed, sig>>
        /\ kp' = kp /\ sg' = sg /\ sg = C!NoSignature
    BY DEF GenerateCopies, Sound, CallsHold, kp, sg
  <1>2. PICK p \in Fresh, q \in Fresh :
          /\ p # q /\ public' = p /\ secret' = q
          /\ Copies([b \in {p, q} |-> IF b = p THEN pk ELSE sk])
    BY DEF GenerateCopies, kp
  <1>3. p \in Blocks /\ q \in Blocks /\ allocated[p] = 0 /\ allocated[q] = 0
    BY DEF Fresh
  <1>4. /\ HoldsPublic(pk) /\ HoldsSecret(sk)
        /\ kp.public_key_size = allocated[pk] /\ kp.secret_key_size = allocated[sk]
    BY <1>1 DEF Sound, CallsHold
  <1>5. pk \in Blocks /\ allocated[pk] # 0 /\ sk \in Blocks /\ allocated[sk] # 0
    BY <1>4, Held DEF Sound
  <1> HIDE DEF pk, sk
  <1>6. /\ allocated' = [b \in Blocks |-> IF b \in {p, q} THEN allocated[IF b = p THEN pk ELSE sk]
                                          ELSE allocated[b]]
        /\ content' = [b \in Blocks |-> IF b \in {p, q} THEN content[IF b = p THEN pk ELSE sk]
                                        ELSE content[b]]
        /\ unwiped' = unwiped \ {p, q}
    BY <1>2 DEF Copies, Vecs
  <1>7. /\ allocated'[p] = allocated[pk] /\ allocated'[q] = allocated[sk]
        /\ content'[p] = content[pk] /\ content'[q] = content[sk]
        /\ \A b \in Blocks \ {p, q} : allocated'[b] = allocated[b] /\ content'[b] = content[b]
    BY <1>2, <1>3, <1>6
  <1>8. \A b \in Blocks : b \in Pointers' <=> b \in {p, q} \/ b \in Pointers
    BY <1>1, <1>2, NullAssumption DEF Pointers
  <1>9. AllocatedIsOwned' /\ OnlyConversionsLeaveSecrets' /\ Keeps({})
    <2>1. allocated'[p] # 0 /\ allocated'[q] # 0 /\ signed \subseteq signed'
      BY <1>1, <1>5, <1>7
    <2>2. \A b \in unwiped : allocated'[b] = 0 => b \in unwiped'
      BY <1>5, <1>6, <1>7
    <2> QED  BY <1>7, <1>8, <2>1, <2>2, NewBlocks
  <1>10. Types'
    <2>1. allocated' \in [Blocks -> Nat]
      BY <1>5, <1>6 DEF Sound, Types
    <2>2. content' = [b \in Blocks |-> content'[b]]
      BY <1>6
    <2> QED  BY <1>1, <1>6, <2>1, <2>2 DEF Sound, Types, Phases
  <1>11. ValuesHold'
    <2>1. HoldsPublic(p)' /\ HoldsSecret(q)'
      BY <1>3, <1>4, <1>7 DEF HoldsPublic, HoldsSecret
    <2>2. HoldsPublic(public)' /\ HoldsSecret(secret)'
      BY <1>2, <2>1, Pointed
    <2>3. sig' # Null => HoldsSignature(sig)'
      BY <1>1, <1>9, Unmoved DEF Sound, ValuesHold
    <2> QED  BY <2>2, <2>3 DEF ValuesHold
  <1>12. CallsHold'
    <2>1. HoldsPublic(kp.public_key)' /\ HoldsSecret(kp.secret_key)'
      <3>1. HoldsPublic(kp.public_key) /\ HoldsSecret(kp.secret_key)
        BY <1>4 DEF pk, sk
      <3>2. HoldsPublic(kp.public_key)'
        BY <1>1, <1>9, <3>1, Unmoved
      <3>3. HoldsSecret(kp.secret_key)'
        BY <1>1, <1>9, <3>1, Unmoved
      <3> QED  BY <3>2, <3>3
    <2>2. p # pk /\ p # sk /\ q # pk /\ q # sk
      BY <1>3, <1>5
    <2>3. /\ (kp.public_key_size = allocated[kp.public_key])'
          /\ (kp.secret_key_size = allocated[kp.secret_key])'
      <3>1. allocated'[pk] = allocated[pk] /\ allocated'[sk] = allocated[sk]
        BY <1>5, <1>7, <2>2
      <3> QED  BY <1>1, <1>4, <3>1 DEF pk, sk
    <2>4. (secret # kp.secret_key /\ public # kp.public_key)'
      BY <1>1, <1>2, <2>2 DEF pk, sk
    <2> QED  BY <1>1, <2>1, <2>3, <2>4 DEF CallsHold
  <1>13. LongSigned'
    BY <1>1 DEF Sound, LongSigned
  <1> QED  BY <1>9, <1>10, <1>11, <1>12, <1>13 DEF Sound

LEMMA GenerateFreesStep ==
  ASSUME Sound, GenerateFrees
  PROVE  Sound'
  <1> DEFINE pk == kp.public_key
             sk == kp.secret_key
  <1>1. /\ pc = "copied" /\ pc' = "idle" /\ C!KeypairFree("call")
        /\ UNCHANGED <<values, unwiped, signature, signed>>
        /\ sg' = sg /\ sg = C!NoSignature
    BY DEF GenerateFrees, Returns, C!KeypairFree, Sound, CallsHold, sg
  <1>2. /\ HoldsPublic(pk) /\ HoldsSecret(sk)
        /\ kp.public_key_size = allocated[pk] /\ kp.secret_key_size = allocated[sk]
        /\ secret # sk /\ public # pk
    BY <1>1 DEF Sound, CallsHold
  <1>3. pk \in Blocks /\ sk \in Blocks /\ pk # sk
    BY <1>2, Held DEF Sound
  <1>4. kp' = C!NoKeypair /\ keypair' = [k \in {"call"} |-> kp']
    BY <1>1 DEF C!KeypairFree, Sound, Types, kp
  <1>5. /\ allocated' = C!Free(C!Free(allocated, pk), sk)
        /\ content' = [b \in Blocks |->
             CASE b = pk -> C!Cleared(b, kp.public_key_size)
               [] b = sk -> C!Cleared(b, kp.secret_key_size)
               [] OTHER -> content[b]]
    BY <1>1 DEF C!KeypairFree, kp
  <1> HIDE DEF pk, sk
  <1>6. /\ allocated' \in [Blocks -> Nat] /\ allocated'[pk] = 0 /\ allocated'[sk] = 0
        /\ \A b \in Blocks \ {pk, sk} : allocated'[b] = allocated[b]
    BY <1>3, <1>5, NullAssumption DEF C!Free, C!Allocate, Sound, Types
  <1>7. /\ content'[pk] = C!Blank /\ content'[sk] = C!Blank
        /\ \A b \in Blocks \ {pk, sk} : content'[b] = content[b]
        /\ content' = [b \in Blocks |-> content'[b]]
    BY <1>2, <1>3, <1>5 DEF C!Cleared
  <1>8. \A b \in {pk, sk} : b # secret /\ b # public /\ b # sig
    <2>1. /\ secret = Null \/ HoldsSecret(secret)
          /\ public = Null \/ HoldsPublic(public)
          /\ sig = Null \/ HoldsSignature(sig)
      BY DEF Sound, ValuesHold
    <2>2. pk # Null /\ sk # Null
      BY <1>3, NullAssumption
    <2> QED  BY <1>2, <2>1, <2>2, Held DEF Sound
  <1>9. \A b \in Blocks : b \in Pointers' <=> b \in Pointers /\ b \notin {pk, sk}
    <2>1. Pointers = {secret, public, sig, pk, sk, Null}
      BY <1>1 DEF Pointers, C!NoSignature, pk, sk
    <2>2. Pointers' = {secret, public, sig, Null}
      <3>1. secret' = secret /\ public' = public /\ sig' = sig
        BY <1>1 DEF values
      <3>2. kp'.public_key = Null /\ kp'.secret_key = Null /\ sg'.signature = Null
        BY <1>1, <1>4 DEF C!NoKeypair, C!NoSignature
      <3> QED  BY <3>1, <3>2 DEF Pointers
    <2> QED  BY <1>8, <2>1, <2>2, NullAssumption
  <1>10. AllocatedIsOwned' /\ OnlyConversionsLeaveSecrets' /\ Keeps({pk, sk})
    <2>1. signed \subseteq signed' /\ unwiped \subseteq unwiped'
      BY <1>1
    <2>2. \A b \in {pk, sk} : allocated'[b] = 0 /\ content'[b] = C!Blank
      BY <1>6, <1>7
    <2> QED  BY <1>3, <1>6, <1>7, <1>9, <2>1, <2>2, GoneBlocks
  <1>11. Types'
    BY <1>1, <1>4, <1>6, <1>7 DEF Sound, Types, Phases, sg
  <1>12. ValuesHold'
    <2>1. secret' = secret /\ public' = public /\ sig' = sig
      BY <1>1 DEF values
    <2>2. secret \notin {pk, sk} /\ public \notin {pk, sk} /\ sig \notin {pk, sk}
      BY <1>8
    <2>3. secret' # Null => HoldsSecret(secret)'
      BY <1>10, <2>1, <2>2, Unmoved DEF Sound, ValuesHold
    <2>4. public' # Null => HoldsPublic(public)'
      BY <1>10, <2>1, <2>2, Unmoved DEF Sound, ValuesHold
    <2>5. sig' # Null => HoldsSignature(sig)'
      BY <1>10, <2>1, <2>2, Unmoved DEF Sound, ValuesHold
    <2> QED  BY <2>3, <2>4, <2>5 DEF ValuesHold
  <1>13. CallsHold'
    BY <1>1, <1>4 DEF CallsHold
  <1>14. LongSigned'
    BY <1>1 DEF Sound, LongSigned
  <1> QED  BY <1>10, <1>11, <1>12, <1>13, <1>14 DEF Sound

LEMMA TruncatedHead ==
  ASSUME NEW m \in Messages
  PROVE  Truncated(m) \in Taken /\ m \in Taken /\ (Short(Truncated(m)) <=> Short(m))
  <1>1. m = [head |-> m.head, tail |-> m.tail]
    BY MessagesAssumption
  <1>2. Truncated(m).head = m.head
    BY <1>1 DEF Truncated
  <1> QED  BY <1>2 DEF Taken, Short

(* A new block b for the signature of the caller or of the call. *)
LEMMA SignSecpStep ==
  ASSUME Sound, pc = "idle", NEW m \in Messages, SignSecp(m)
  PROVE  Sound'
  <1>1. /\ pc' = "idle" /\ ~Short(m) /\ sig = Null
        /\ UNCHANGED <<keypair, signature, secret, public>>
        /\ kp = C!NoKeypair /\ sg = C!NoSignature /\ kp' = kp /\ sg' = sg
    BY DEF SignSecp, Returns, Sound, CallsHold, kp, sg
  <1> DEFINE t == Truncated(m)
  <1>2. PICK b \in Fresh, r \in Randoms :
          /\ Vecs([x \in {b} |-> 64], [x \in {b} |-> C!Signature(C!Secp, r, t)])
          /\ sig' = b
          /\ signed' = signed \cup {<<C!Secp, r, t>>}
    BY DEF SignSecp
  <1>3. t \in Taken /\ ~Short(t)
    BY <1>1, TruncatedHead
  <1> HIDE DEF t
  <1>4. b \in Blocks /\ allocated[b] = 0
    BY DEF Fresh
  <1>5. /\ allocated' = [x \in Blocks |-> IF x \in {b} THEN 64 ELSE allocated[x]]
        /\ content' = [x \in Blocks |-> IF x \in {b} THEN C!Signature(C!Secp, r, t) ELSE content[x]]
        /\ unwiped' = unwiped \ {b}
    BY <1>2 DEF Vecs
  <1>6. \A x \in Blocks : x \in Pointers' <=> x \in {b, b} \/ x \in Pointers
    BY <1>1, <1>2, NullAssumption DEF Pointers
  <1>7. AllocatedIsOwned' /\ OnlyConversionsLeaveSecrets' /\ Keeps({})
    <2>1. /\ allocated'[b] # 0
          /\ \A x \in Blocks \ {b, b} : allocated'[x] = allocated[x] /\ content'[x] = content[x]
          /\ \A x \in unwiped : allocated'[x] = 0 => x \in unwiped'
          /\ signed \subseteq signed'
      BY <1>2, <1>4, <1>5
    <2> QED  BY <1>6, <2>1, NewBlocks
  <1>8. Types'
    BY <1>1, <1>5 DEF Sound, Types, Phases, kp, sg
  <1>9. ValuesHold'
    <2>1. HoldsSignature(b)'
      <3>1. C!Secp \in Named /\ C!SignatureSize(C!Secp) = 64
        BY DEF Named, C!SignatureSize, C!Secp, C!MlDsa, C!SlhDsa
      <3>2. /\ content'[b] = C!Signature(C!Secp, r, t) /\ allocated'[b] = 64
            /\ <<C!Secp, r, t>> \in signed'
        BY <1>2, <1>4, <1>5
      <3> QED  BY <1>3, <1>4, <3>1, <3>2 DEF HoldsSignature
    <2>2. HoldsSignature(sig)'
      BY <1>2, <2>1, Pointed
    <2>3. secret' # Null => HoldsSecret(secret)'
      BY <1>1, <1>7, Unmoved DEF Sound, ValuesHold
    <2>4. public' # Null => HoldsPublic(public)'
      BY <1>1, <1>7, Unmoved DEF Sound, ValuesHold
    <2> QED  BY <2>2, <2>3, <2>4 DEF ValuesHold
  <1>10. CallsHold'
    BY <1>1 DEF CallsHold
  <1>11. LongSigned'
    <2> SUFFICES ASSUME NEW q \in Randoms, NEW n \in Taken, <<C!Secp, q, n>> \in signed'
                 PROVE  ~Short(n)
      BY DEF LongSigned
    <2>1. <<C!Secp, q, n>> \in signed \/ n = t
      BY <1>2
    <2> QED  BY <1>3, <2>1 DEF Sound, LongSigned
  <1> QED  BY <1>7, <1>8, <1>9, <1>10, <1>11 DEF Sound

LEMMA SignOkStep ==
  ASSUME Sound, pc = "idle", sig = Null, NEW a \in Named, NEW m \in Messages, NEW size,
         C!SignOk(a, secret, size, m, "call"), pc' = "sign", UNCHANGED values,
         unwiped' = unwiped \ { b \in Blocks : allocated'[b] # 0 }
  PROVE  Sound'
  <1>1. PICK b \in C!MallocResults \ {Null}, r \in Randoms :
          /\ allocated' = C!Allocate(allocated, b, C!SignatureSize(a))
          /\ content' = [content EXCEPT ![b] = C!Signature(a, r, m)]
          /\ signature' = [signature EXCEPT !["call"] =
               [algorithm |-> a, signature |-> b, signature_size |-> C!SignatureSize(a)]]
          /\ signed' = signed \cup {<<a, r, m>>}
          /\ a # C!Secp /\ UNCHANGED keypair
    BY DEF C!SignOk
  <1>2. b \in Fresh /\ b \in Blocks
    BY DEF C!MallocResults, Fresh
  <1>3. /\ secret' = secret /\ public' = public /\ sig' = Null
        /\ kp = C!NoKeypair /\ kp' = kp /\ sg = C!NoSignature
    BY <1>1 DEF Sound, CallsHold, kp, sg, values
  <1>4. /\ sg'.signature = b /\ sg'.signature_size = C!SignatureSize(a)
        /\ signature' = [s \in {"call"} |-> sg']
    BY <1>1 DEF Sound, Types, sg
  <1>5. /\ allocated'[b] = C!SignatureSize(a) /\ content'[b] = C!Signature(a, r, m)
        /\ \A x \in Blocks \ {b, b} : allocated'[x] = allocated[x] /\ content'[x] = content[x]
        /\ allocated' \in [Blocks -> Nat] /\ content' = [x \in Blocks |-> content'[x]]
    BY <1>1, <1>2, Sizes, NullAssumption DEF C!Allocate, Sound, Types
  <1>6. \A x \in Blocks : x \in Pointers' <=> x \in {b, b} \/ x \in Pointers
    BY <1>3, <1>4, NullAssumption DEF Pointers, C!NoSignature
  <1>7. AllocatedIsOwned' /\ OnlyConversionsLeaveSecrets' /\ Keeps({})
    <2>1. /\ allocated'[b] # 0 /\ signed \subseteq signed'
          /\ \A x \in unwiped : allocated'[x] = 0 => x \in unwiped'
      BY <1>1, <1>5, Sizes
    <2> QED  BY <1>2, <1>5, <1>6, <2>1, NewBlocks
  <1>8. Types'
    BY <1>1, <1>4, <1>5 DEF Sound, Types, Phases, kp
  <1>9. ValuesHold'
    <2>1. secret' # Null => HoldsSecret(secret)'
      BY <1>3, <1>7, Unmoved DEF Sound, ValuesHold
    <2>2. public' # Null => HoldsPublic(public)'
      BY <1>3, <1>7, Unmoved DEF Sound, ValuesHold
    <2> QED  BY <1>3, <2>1, <2>2 DEF ValuesHold
  <1>10. CallsHold'
    <2>1. HoldsSignature(b)'
      <3>1. m \in Taken /\ <<a, r, m>> \in signed'
        BY <1>1, TruncatedHead
      <3> QED  BY <1>2, <1>5, <3>1 DEF HoldsSignature
    <2>2. HoldsSignature(sg.signature)'
      BY <1>4, <2>1, Pointed
    <2>3. (sg.signature_size = allocated[sg.signature])'
      BY <1>4, <1>5
    <2> QED  BY <1>3, <2>2, <2>3 DEF CallsHold
  <1>11. LongSigned'
    <2> SUFFICES ASSUME NEW q \in Randoms, NEW n \in Taken, <<C!Secp, q, n>> \in signed'
                 PROVE  ~Short(n)
      BY DEF LongSigned
    <2>1. <<C!Secp, q, n>> \in signed
      BY <1>1
    <2> QED  BY <2>1 DEF Sound, LongSigned
  <1> QED  BY <1>7, <1>8, <1>9, <1>10, <1>11 DEF Sound

LEMMA SignCallsStep ==
  ASSUME Sound, pc = "idle", NEW a \in Labels, NEW m \in Messages, SignCalls(a, m)
  PROVE  Sound'
  <1> DEFINE c == into(a)
             size == allocated[secret]
  <1>1. c \in Named /\ c # C!Secp
    BY IntoNamed DEF SignCalls
  <1>2. /\ sig = Null /\ UNCHANGED values
        /\ C!Sign(c, secret, size, m, "call")
        /\ IF last'.error = "OK" THEN pc' = "sign" ELSE pc' = "idle"
        /\ unwiped' = unwiped \ { b \in Blocks : allocated'[b] # 0 }
    BY DEF SignCalls, Returns
  <1>3. CASE C!SignRejects(c, secret, size)
    <2>1. pc' = pc /\ UNCHANGED <<keypair, signature, allocated, content, signed>>
      BY <1>2, <1>3 DEF C!SignRejects, C!Return, C!structs, C!heap
    <2> QED  BY <1>2, <2>1, QuietStep
  <1>4. CASE C!SignNoMemory(c, secret, size)
    <2>1. pc' = pc /\ UNCHANGED <<keypair, signature, allocated, content, signed>>
      BY <1>2, <1>4 DEF C!SignNoMemory, C!Return, C!structs, C!heap
    <2> QED  BY <1>2, <2>1, QuietStep
  <1>5. CASE C!SignOk(c, secret, size, m, "call")
    <2>1. pc' = "sign"
      BY <1>2, <1>5 DEF C!SignOk, C!Return
    <2> QED  BY <1>1, <1>2, <1>5, <2>1, SignOkStep
  <1>6. ~C!SignFails(c, secret, size)
    BY <1>1 DEF C!SignFails
  <1> QED  BY <1>2, <1>3, <1>4, <1>5, <1>6 DEF C!Sign

LEMMA SignCopiesStep ==
  ASSUME Sound, SignCopies
  PROVE  Sound'
  <1> DEFINE g == sg.signature
  <1>1. /\ pc = "sign" /\ pc' = "signed" /\ sig = Null
        /\ UNCHANGED <<keypair, signature, signed, secret, public>>
        /\ kp' = kp /\ sg' = sg /\ kp = C!NoKeypair
    BY DEF SignCopies, Sound, CallsHold, kp, sg
  <1>2. PICK b \in Fresh : Copies([x \in {b} |-> g]) /\ sig' = b
    BY DEF SignCopies, sg
  <1>3. b \in Blocks /\ allocated[b] = 0
    BY DEF Fresh
  <1>4. HoldsSignature(g) /\ sg.signature_size = allocated[g]
    BY <1>1 DEF Sound, CallsHold
  <1>5. g \in Blocks /\ allocated[g] # 0 /\ g # b
    BY <1>3, <1>4, Held DEF Sound
  <1> HIDE DEF g
  <1>6. /\ allocated' = [x \in Blocks |-> IF x \in {b} THEN allocated[g] ELSE allocated[x]]
        /\ content' = [x \in Blocks |-> IF x \in {b} THEN content[g] ELSE content[x]]
        /\ unwiped' = unwiped \ {b}
    BY <1>2 DEF Copies, Vecs
  <1>7. /\ allocated'[b] = allocated[g] /\ content'[b] = content[g]
        /\ \A x \in Blocks \ {b, b} : allocated'[x] = allocated[x] /\ content'[x] = content[x]
    BY <1>3, <1>6
  <1>8. \A x \in Blocks : x \in Pointers' <=> x \in {b, b} \/ x \in Pointers
    BY <1>1, <1>2, NullAssumption DEF Pointers
  <1>9. AllocatedIsOwned' /\ OnlyConversionsLeaveSecrets' /\ Keeps({})
    <2>1. /\ allocated'[b] # 0 /\ signed \subseteq signed'
          /\ \A x \in unwiped : allocated'[x] = 0 => x \in unwiped'
      BY <1>1, <1>5, <1>6, <1>7
    <2> QED  BY <1>7, <1>8, <2>1, NewBlocks
  <1>10. Types'
    <2>1. allocated' \in [Blocks -> Nat]
      BY <1>5, <1>6 DEF Sound, Types
    <2>2. content' = [x \in Blocks |-> content'[x]]
      BY <1>6
    <2> QED  BY <1>1, <1>6, <2>1, <2>2 DEF Sound, Types, Phases
  <1>11. ValuesHold'
    <2>1. HoldsSignature(b)'
      BY <1>1, <1>3, <1>4, <1>7 DEF HoldsSignature
    <2>2. HoldsSignature(sig)'
      BY <1>2, <2>1, Pointed
    <2>3. secret' # Null => HoldsSecret(secret)'
      BY <1>1, <1>9, Unmoved DEF Sound, ValuesHold
    <2>4. public' # Null => HoldsPublic(public)'
      BY <1>1, <1>9, Unmoved DEF Sound, ValuesHold
    <2> QED  BY <2>2, <2>3, <2>4 DEF ValuesHold
  <1>12. CallsHold'
    <2>1. HoldsSignature(sg.signature)'
      BY <1>1, <1>4, <1>9, Unmoved DEF g
    <2>2. (sg.signature_size = allocated[sg.signature])'
      <3>1. allocated'[g] = allocated[g]
        BY <1>5, <1>7
      <3> QED  BY <1>1, <1>4, <3>1 DEF g
    <2>3. (sig # sg.signature)'
      BY <1>1, <1>2, <1>5 DEF g
    <2> QED  BY <1>1, <2>1, <2>2, <2>3 DEF CallsHold
  <1>13. LongSigned'
    BY <1>1 DEF Sound, LongSigned
  <1> QED  BY <1>9, <1>10, <1>11, <1>12, <1>13 DEF Sound

LEMMA SignFreesStep ==
  ASSUME Sound, SignFrees
  PROVE  Sound'
  <1> DEFINE g == sg.signature
  <1>1. /\ pc = "signed" /\ pc' = "idle" /\ C!SignatureFree("call")
        /\ UNCHANGED <<values, unwiped, keypair, signed>>
        /\ kp' = kp /\ kp = C!NoKeypair
    BY DEF SignFrees, Returns, C!SignatureFree, Sound, CallsHold, kp
  <1>2. HoldsSignature(g) /\ sg.signature_size = allocated[g] /\ sig # g
    BY <1>1 DEF Sound, CallsHold
  <1>3. g \in Blocks
    BY <1>2, Held DEF Sound
  <1>4. sg' = C!NoSignature /\ signature' = [s \in {"call"} |-> sg']
    BY <1>1 DEF C!SignatureFree, Sound, Types, sg
  <1>5. /\ allocated' = C!Free(allocated, g)
        /\ content' = [b \in Blocks |-> IF b = g THEN C!Cleared(b, sg.signature_size) ELSE content[b]]
    BY <1>1 DEF C!SignatureFree, sg
  <1> HIDE DEF g
  <1>6. /\ allocated' \in [Blocks -> Nat] /\ allocated'[g] = 0
        /\ \A b \in Blocks \ {g, g} : allocated'[b] = allocated[b]
    BY <1>3, <1>5, NullAssumption DEF C!Free, C!Allocate, Sound, Types
  <1>7. /\ content'[g] = C!Blank
        /\ \A b \in Blocks \ {g, g} : content'[b] = content[b]
        /\ content' = [b \in Blocks |-> content'[b]]
    BY <1>2, <1>3, <1>5 DEF C!Cleared
  <1>8. g # secret /\ g # public /\ g # sig
    <2>1. /\ secret = Null \/ HoldsSecret(secret)
          /\ public = Null \/ HoldsPublic(public)
      BY DEF Sound, ValuesHold
    <2>2. g # Null
      BY <1>3, NullAssumption
    <2> QED  BY <1>2, <2>1, <2>2, Held DEF Sound
  <1>9. \A b \in Blocks : b \in Pointers' <=> b \in Pointers /\ b \notin {g, g}
    <2>1. Pointers = {secret, public, sig, Null, g}
      BY <1>1 DEF Pointers, C!NoKeypair, g
    <2>2. Pointers' = {secret, public, sig, Null}
      <3>1. secret' = secret /\ public' = public /\ sig' = sig
        BY <1>1 DEF values
      <3>2. kp'.public_key = Null /\ kp'.secret_key = Null /\ sg'.signature = Null
        BY <1>1, <1>4 DEF C!NoKeypair, C!NoSignature
      <3> QED  BY <3>1, <3>2 DEF Pointers
    <2> QED  BY <1>8, <2>1, <2>2, NullAssumption
  <1>10. AllocatedIsOwned' /\ OnlyConversionsLeaveSecrets' /\ Keeps({g, g})
    <2>1. signed \subseteq signed' /\ unwiped \subseteq unwiped'
      BY <1>1
    <2>2. \A b \in {g, g} : allocated'[b] = 0 /\ content'[b] = C!Blank
      BY <1>6, <1>7
    <2> QED  BY <1>3, <1>6, <1>7, <1>9, <2>1, <2>2, GoneBlocks
  <1>11. Types'
    BY <1>1, <1>4, <1>6, <1>7 DEF Sound, Types, Phases, kp
  <1>12. ValuesHold'
    <2>1. secret' = secret /\ public' = public /\ sig' = sig
      BY <1>1 DEF values
    <2>2. secret \notin {g, g} /\ public \notin {g, g} /\ sig \notin {g, g}
      BY <1>8
    <2>3. secret' # Null => HoldsSecret(secret)'
      BY <1>10, <2>1, <2>2, Unmoved DEF Sound, ValuesHold
    <2>4. public' # Null => HoldsPublic(public)'
      BY <1>10, <2>1, <2>2, Unmoved DEF Sound, ValuesHold
    <2>5. sig' # Null => HoldsSignature(sig)'
      BY <1>10, <2>1, <2>2, Unmoved DEF Sound, ValuesHold
    <2> QED  BY <2>3, <2>4, <2>5 DEF ValuesHold
  <1>13. CallsHold'
    BY <1>1, <1>4 DEF CallsHold
  <1>14. LongSigned'
    BY <1>1 DEF Sound, LongSigned
  <1> QED  BY <1>10, <1>11, <1>12, <1>13, <1>14 DEF Sound

LEMMA DropSecretStep ==
  ASSUME Sound, DropSecret
  PROVE  Sound'
  <1>1. /\ pc = "idle" /\ pc' = "idle" /\ secret # Null /\ secret' = Null
        /\ UNCHANGED <<keypair, signature, signed, public, sig, unwiped>>
        /\ content' = [content EXCEPT ![secret] = C!Blank] /\ allocated' = C!Free(allocated, secret)
        /\ kp = C!NoKeypair /\ sg = C!NoSignature /\ kp' = kp /\ sg' = sg
    BY DEF DropSecret, Returns, Sound, CallsHold, kp, sg
  <1> DEFINE g == secret
  <1>2. HoldsSecret(g) /\ g \in Blocks
    BY <1>1, Held DEF Sound, ValuesHold
  <1>3. g # public /\ g # sig
    <2>1. /\ public = Null \/ HoldsPublic(public)
          /\ sig = Null \/ HoldsSignature(sig)
      BY DEF Sound, ValuesHold
    <2> QED  BY <1>1, <1>2, <2>1, Held DEF Sound
  <1>4. /\ allocated' = C!Free(allocated, g) /\ content' = [content EXCEPT ![g] = C!Blank]
        /\ Pointers = {g, public, sig, Null} /\ Pointers' = {Null, public, sig}
    BY <1>1 DEF Pointers, C!NoKeypair, C!NoSignature
  <1> HIDE DEF g
  <1>5. /\ allocated'[g] = 0 /\ content'[g] = C!Blank
        /\ \A b \in Blocks \ {g, g} : allocated'[b] = allocated[b] /\ content'[b] = content[b]
        /\ allocated' \in [Blocks -> Nat] /\ content' = [b \in Blocks |-> content'[b]]
    BY <1>2, <1>4, NullAssumption DEF C!Free, C!Allocate, Sound, Types
  <1>6. AllocatedIsOwned' /\ OnlyConversionsLeaveSecrets' /\ Keeps({g, g})
    <2>1. \A b \in Blocks : b \in Pointers' <=> b \in Pointers /\ b \notin {g, g}
      BY <1>3, <1>4, NullAssumption
    <2>2. \A b \in {g, g} : allocated'[b] = 0 /\ content'[b] = C!Blank
      BY <1>5
    <2>3. signed \subseteq signed' /\ unwiped \subseteq unwiped'
      BY <1>1
    <2> QED  BY <1>2, <1>5, <2>1, <2>2, <2>3, GoneBlocks
  <1>7. Types'
    BY <1>1, <1>5 DEF Sound, Types, Phases, kp, sg
  <1>8. ValuesHold'
    <2>1. public \notin {g, g} /\ sig \notin {g, g} /\ public' = public /\ sig' = sig
      BY <1>1, <1>3
    <2>2. public' # Null => HoldsPublic(public)'
      BY <1>6, <2>1, Unmoved DEF Sound, ValuesHold
    <2>3. sig' # Null => HoldsSignature(sig)'
      BY <1>6, <2>1, Unmoved DEF Sound, ValuesHold
    <2> QED  BY <1>1, <2>2, <2>3 DEF ValuesHold
  <1>9. CallsHold'
    BY <1>1 DEF CallsHold
  <1>10. LongSigned'
    BY <1>1 DEF Sound, LongSigned
  <1> QED  BY <1>6, <1>7, <1>8, <1>9, <1>10 DEF Sound

LEMMA DropPublicStep ==
  ASSUME Sound, DropPublic
  PROVE  Sound'
  <1>1. /\ pc = "idle" /\ pc' = "idle" /\ public # Null /\ public' = Null
        /\ UNCHANGED <<keypair, signature, signed, secret, sig, unwiped>>
        /\ content' = [content EXCEPT ![public] = C!Blank] /\ allocated' = C!Free(allocated, public)
        /\ kp = C!NoKeypair /\ sg = C!NoSignature /\ kp' = kp /\ sg' = sg
    BY DEF DropPublic, Dropped, Returns, Sound, CallsHold, kp, sg
  <1> DEFINE g == public
  <1>2. HoldsPublic(g) /\ g \in Blocks
    BY <1>1, Held DEF Sound, ValuesHold
  <1>3. g # secret /\ g # sig
    <2>1. /\ secret = Null \/ HoldsSecret(secret)
          /\ sig = Null \/ HoldsSignature(sig)
      BY DEF Sound, ValuesHold
    <2> QED  BY <1>1, <1>2, <2>1, Held DEF Sound
  <1>4. /\ allocated' = C!Free(allocated, g) /\ content' = [content EXCEPT ![g] = C!Blank]
        /\ Pointers = {g, secret, sig, Null} /\ Pointers' = {Null, secret, sig}
    BY <1>1 DEF Pointers, C!NoKeypair, C!NoSignature
  <1> HIDE DEF g
  <1>5. /\ allocated'[g] = 0 /\ content'[g] = C!Blank
        /\ \A b \in Blocks \ {g, g} : allocated'[b] = allocated[b] /\ content'[b] = content[b]
        /\ allocated' \in [Blocks -> Nat] /\ content' = [b \in Blocks |-> content'[b]]
    BY <1>2, <1>4, NullAssumption DEF C!Free, C!Allocate, Sound, Types
  <1>6. AllocatedIsOwned' /\ OnlyConversionsLeaveSecrets' /\ Keeps({g, g})
    <2>1. \A b \in Blocks : b \in Pointers' <=> b \in Pointers /\ b \notin {g, g}
      BY <1>3, <1>4, NullAssumption
    <2>2. \A b \in {g, g} : allocated'[b] = 0 /\ content'[b] = C!Blank
      BY <1>5
    <2>3. signed \subseteq signed' /\ unwiped \subseteq unwiped'
      BY <1>1
    <2> QED  BY <1>2, <1>5, <2>1, <2>2, <2>3, GoneBlocks
  <1>7. Types'
    BY <1>1, <1>5 DEF Sound, Types, Phases, kp, sg
  <1>8. ValuesHold'
    <2>1. secret \notin {g, g} /\ sig \notin {g, g} /\ secret' = secret /\ sig' = sig
      BY <1>1, <1>3
    <2>2. secret' # Null => HoldsSecret(secret)'
      BY <1>6, <2>1, Unmoved DEF Sound, ValuesHold
    <2>3. sig' # Null => HoldsSignature(sig)'
      BY <1>6, <2>1, Unmoved DEF Sound, ValuesHold
    <2> QED  BY <1>1, <2>2, <2>3 DEF ValuesHold
  <1>9. CallsHold'
    BY <1>1 DEF CallsHold
  <1>10. LongSigned'
    BY <1>1 DEF Sound, LongSigned
  <1> QED  BY <1>6, <1>7, <1>8, <1>9, <1>10 DEF Sound

LEMMA DropSignatureStep ==
  ASSUME Sound, DropSignature
  PROVE  Sound'
  <1>1. /\ pc = "idle" /\ pc' = "idle" /\ sig # Null /\ sig' = Null
        /\ UNCHANGED <<keypair, signature, signed, secret, public, unwiped>>
        /\ content' = [content EXCEPT ![sig] = C!Blank] /\ allocated' = C!Free(allocated, sig)
        /\ kp = C!NoKeypair /\ sg = C!NoSignature /\ kp' = kp /\ sg' = sg
    BY DEF DropSignature, Dropped, Returns, Sound, CallsHold, kp, sg
  <1> DEFINE g == sig
  <1>2. HoldsSignature(g) /\ g \in Blocks
    BY <1>1, Held DEF Sound, ValuesHold
  <1>3. g # secret /\ g # public
    <2>1. /\ secret = Null \/ HoldsSecret(secret)
          /\ public = Null \/ HoldsPublic(public)
      BY DEF Sound, ValuesHold
    <2> QED  BY <1>1, <1>2, <2>1, Held DEF Sound
  <1>4. /\ allocated' = C!Free(allocated, g) /\ content' = [content EXCEPT ![g] = C!Blank]
        /\ Pointers = {g, secret, public, Null} /\ Pointers' = {Null, secret, public}
    BY <1>1 DEF Pointers, C!NoKeypair, C!NoSignature
  <1> HIDE DEF g
  <1>5. /\ allocated'[g] = 0 /\ content'[g] = C!Blank
        /\ \A b \in Blocks \ {g, g} : allocated'[b] = allocated[b] /\ content'[b] = content[b]
        /\ allocated' \in [Blocks -> Nat] /\ content' = [b \in Blocks |-> content'[b]]
    BY <1>2, <1>4, NullAssumption DEF C!Free, C!Allocate, Sound, Types
  <1>6. AllocatedIsOwned' /\ OnlyConversionsLeaveSecrets' /\ Keeps({g, g})
    <2>1. \A b \in Blocks : b \in Pointers' <=> b \in Pointers /\ b \notin {g, g}
      BY <1>3, <1>4, NullAssumption
    <2>2. \A b \in {g, g} : allocated'[b] = 0 /\ content'[b] = C!Blank
      BY <1>5
    <2>3. signed \subseteq signed' /\ unwiped \subseteq unwiped'
      BY <1>1
    <2> QED  BY <1>2, <1>5, <2>1, <2>2, <2>3, GoneBlocks
  <1>7. Types'
    BY <1>1, <1>5 DEF Sound, Types, Phases, kp, sg
  <1>8. ValuesHold'
    <2>1. secret \notin {g, g} /\ public \notin {g, g} /\ secret' = secret /\ public' = public
      BY <1>1, <1>3
    <2>2. secret' # Null => HoldsSecret(secret)'
      BY <1>6, <2>1, Unmoved DEF Sound, ValuesHold
    <2>3. public' # Null => HoldsPublic(public)'
      BY <1>6, <2>1, Unmoved DEF Sound, ValuesHold
    <2> QED  BY <1>1, <2>2, <2>3 DEF ValuesHold
  <1>9. CallsHold'
    BY <1>1 DEF CallsHold
  <1>10. LongSigned'
    BY <1>1 DEF Sound, LongSigned
  <1> QED  BY <1>6, <1>7, <1>8, <1>9, <1>10 DEF Sound

(* The secret key moves to a new block b, its old block is given back.     *)
LEMMA MovedStep ==
  ASSUME Sound, pc = "idle", pc' = "idle", secret # Null, NEW b \in Fresh, secret' = b,
         UNCHANGED <<keypair, signature, signed, public, sig>>,
         allocated' \in [Blocks -> Nat], content' = [x \in Blocks |-> content'[x]],
         allocated'[b] = allocated[secret], content'[b] = content[secret],
         allocated'[secret] = 0, content'[secret] = C!Blank,
         \A x \in Blocks \ {b, secret} :
           /\ allocated'[x] = allocated[x]
           /\ content'[x] = content[x] \/ (allocated[x] = 0 /\ x \in unwiped'),
         unwiped' \subseteq Blocks, unwiped \ {b, secret} \subseteq unwiped'
  PROVE  Sound'
  <1> DEFINE g == secret
             N == {b}
             G == {g}
  <1>1. kp = C!NoKeypair /\ sg = C!NoSignature /\ kp' = kp /\ sg' = sg
    BY DEF Sound, CallsHold, kp, sg
  <1>2. HoldsSecret(g) /\ g \in Blocks /\ allocated[g] # 0
    BY Held DEF Sound, ValuesHold
  <1>3. b \in Blocks /\ allocated[b] = 0 /\ b # g
    BY <1>2 DEF Fresh
  <1>4. g # public /\ g # sig
    <2>1. /\ public = Null \/ HoldsPublic(public)
          /\ sig = Null \/ HoldsSignature(sig)
      BY DEF Sound, ValuesHold
    <2> QED  BY <1>2, <2>1, Held DEF Sound
  <1>5. Pointers = {g, public, sig, Null} /\ Pointers' = {b, public, sig, Null}
    BY <1>1 DEF Pointers, C!NoKeypair, C!NoSignature
  <1>6. \A x \in Blocks : x \in Pointers' <=> x \in N \/ (x \in Pointers /\ x \notin G)
    BY <1>2, <1>3, <1>4, <1>5, NullAssumption
  <1>7. AllocatedIsOwned' /\ OnlyConversionsLeaveSecrets' /\ Keeps(G)
    <2>1. N \subseteq Fresh /\ G \subseteq Blocks /\ N \cap G = {}
      BY <1>2, <1>3
    <2>2. /\ \A x \in N : allocated'[x] # 0
          /\ \A x \in G : allocated'[x] = 0 /\ content'[x][1] # "secret key"
      BY <1>2, Kinds
    <2>3. \A x \in Blocks \ (N \cup G) :
            /\ allocated'[x] = allocated[x]
            /\ content'[x] = content[x] \/ (allocated[x] = 0 /\ x \in unwiped')
      OBVIOUS
    <2>4. signed \subseteq signed' /\ \A x \in unwiped \ (N \cup G) : allocated'[x] = 0 => x \in unwiped'
      OBVIOUS
    <2> HIDE DEF N, G
    <2> QED  BY <1>6, <2>1, <2>2, <2>3, <2>4, HeapStep
  <1>8. Types'
    BY DEF Sound, Types, Phases, kp, sg
  <1>9. ValuesHold'
    <2>1. HoldsSecret(b)'
      BY <1>2, <1>3 DEF HoldsSecret
    <2>2. HoldsSecret(secret)'
      BY <2>1, Pointed
    <2>3. public \notin G /\ sig \notin G /\ public' = public /\ sig' = sig
      BY <1>4
    <2> HIDE DEF G
    <2>4. public' # Null => HoldsPublic(public)'
      BY <1>7, <2>3, Unmoved DEF Sound, ValuesHold
    <2>5. sig' # Null => HoldsSignature(sig)'
      BY <1>7, <2>3, Unmoved DEF Sound, ValuesHold
    <2> QED  BY <2>2, <2>4, <2>5 DEF ValuesHold
  <1>10. CallsHold'
    BY <1>1 DEF CallsHold
  <1>11. LongSigned'
    BY DEF Sound, LongSigned
  <1> QED  BY <1>7, <1>8, <1>9, <1>10, <1>11 DEF Sound

LEMMA TryFromSliceStep ==
  ASSUME Sound, NEW a \in Labels, try_from_slice(a)
  PROVE  Sound'
  <1>1. CASE Fails("try_from_slice", "panic") \/ Fails("try_from_slice", "BadKey")
    BY <1>1, FailsStep
  <1>2. CASE ~(Fails("try_from_slice", "panic") \/ Fails("try_from_slice", "BadKey"))
    <2>1. /\ pc = "idle" /\ pc' = "idle" /\ secret # Null
          /\ UNCHANGED <<keypair, signature, signed, public, sig>>
      BY <1>2 DEF try_from_slice, Returns
    <2> DEFINE g == secret
    <2>2. PICK b \in Fresh :
            /\ Vecs([x \in {b, g} |-> IF x = b THEN allocated[g] ELSE 0],
                    [x \in {b, g} |-> IF x = b THEN content[g] ELSE C!Blank])
            /\ secret' = b
      BY <1>2 DEF try_from_slice
    <2>3. g \in Blocks /\ allocated[g] # 0 /\ allocated \in [Blocks -> Nat]
      BY <2>1, Held DEF Sound, ValuesHold, Types
    <2>4. b \in Blocks /\ allocated[b] = 0 /\ b # g
      BY <2>3 DEF Fresh
    <2>5. /\ allocated' = [x \in Blocks |-> IF x \in {b, g} THEN IF x = b THEN allocated[g] ELSE 0
                                            ELSE allocated[x]]
          /\ content' = [x \in Blocks |-> IF x \in {b, g} THEN IF x = b THEN content[g] ELSE C!Blank
                                          ELSE content[x]]
          /\ unwiped' = unwiped \ {b, g}
      BY <2>2 DEF Vecs
    <2>6. allocated' \in [Blocks -> Nat]
      BY <2>3, <2>5
    <2>7. /\ allocated'[b] = allocated[g] /\ allocated'[g] = 0
          /\ content' = [x \in Blocks |-> content'[x]]
          /\ content'[b] = content[g] /\ content'[g] = C!Blank
          /\ \A x \in Blocks \ {b, g} : allocated'[x] = allocated[x] /\ content'[x] = content[x]
      BY <2>3, <2>4, <2>5
    <2>8. unwiped' \subseteq Blocks /\ unwiped \ {b, g} \subseteq unwiped'
      BY <2>5 DEF Sound, Types
    <2> QED  BY <2>1, <2>2, <2>6, <2>7, <2>8, MovedStep
  <1> QED  BY <1>1, <1>2

(* A copy in a block that is free before and after. *)
LEMMA LeavesCopyStep ==
  ASSUME Sound, NEW op, NEW value, LeavesCopy(op, value)
  PROVE  Sound'
  <1>1. /\ pc = "idle" /\ pc' = "idle" /\ secret # Null
        /\ UNCHANGED <<keypair, signature, allocated, signed, secret, public, sig>>
    BY DEF LeavesCopy, Returns, values
  <1>2. PICK d \in Fresh :
          content' = [content EXCEPT ![d] = content[secret]] /\ unwiped' = unwiped \cup {d}
    BY DEF LeavesCopy
  <1>3. d \in Blocks /\ allocated[d] = 0
    BY DEF Fresh
  <1>4. content' = [x \in Blocks |-> content'[x]] /\ \A x \in Blocks \ {d} : content'[x] = content[x]
    BY <1>2, <1>3 DEF Sound, Types
  <1>5. kp' = kp /\ sg' = sg
    BY <1>1 DEF kp, sg
  <1> DEFINE N == {}
  <1>6. AllocatedIsOwned' /\ OnlyConversionsLeaveSecrets' /\ Keeps(N)
    <2>1. N \subseteq Fresh /\ N \subseteq Blocks /\ N \cap N = {} /\ \A x : x \notin N
      OBVIOUS
    <2> HIDE DEF N
    <2>2. \A x \in Blocks \ (N \cup N) :
            /\ allocated'[x] = allocated[x]
            /\ content'[x] = content[x] \/ (allocated[x] = 0 /\ x \in unwiped')
      BY <1>1, <1>2, <1>3, <1>4
    <2>3. signed \subseteq signed' /\ \A x \in unwiped \ (N \cup N) : allocated'[x] = 0 => x \in unwiped'
      BY <1>1, <1>2
    <2>4. Pointers' = Pointers
      BY <1>1, <1>5 DEF Pointers
    <2> QED  BY <2>1, <2>2, <2>3, <2>4, HeapStep
  <1>7. Types'
    BY <1>1, <1>2, <1>3, <1>4, <1>5 DEF Sound, Types, Phases, kp, sg
  <1>8. ValuesHold'
    <2>1. secret \notin N /\ public \notin N /\ sig \notin N
      OBVIOUS
    <2> HIDE DEF N
    <2> QED  BY <1>1, <1>6, <2>1, Unmoved DEF Sound, ValuesHold
  <1>9. CallsHold'
    BY <1>1, <1>5 DEF Sound, CallsHold
  <1>10. LongSigned'
    BY <1>1 DEF Sound, LongSigned
  <1> QED  BY <1>6, <1>7, <1>8, <1>9, <1>10 DEF Sound

LEMMA DecodesStep ==
  ASSUME Sound, NEW op, Decodes(op)
  PROVE  Sound'
  <1>1. /\ pc = "idle" /\ pc' = "idle" /\ secret # Null
        /\ UNCHANGED <<keypair, signature, signed, public, sig>>
    BY DEF Decodes, Returns
  <1> DEFINE g == secret
  <1>2. PICK b \in Fresh, d \in Fresh :
          /\ b # d /\ secret' = b
          /\ allocated' = [allocated EXCEPT ![b] = allocated[g], ![g] = 0]
          /\ content' = [content EXCEPT ![b] = content[g], ![d] = content[g], ![g] = C!Blank]
          /\ unwiped' = (unwiped \ {b}) \cup {d}
    BY DEF Decodes
  <1>3. g \in Blocks /\ allocated[g] # 0 /\ allocated \in [Blocks -> Nat]
    BY <1>1, Held DEF Sound, ValuesHold, Types
  <1>4. /\ b \in Blocks /\ allocated[b] = 0 /\ b # g
        /\ d \in Blocks /\ allocated[d] = 0 /\ d # g
    BY <1>3 DEF Fresh
  <1>5. /\ allocated' \in [Blocks -> Nat] /\ allocated'[b] = allocated[g] /\ allocated'[g] = 0
        /\ \A x \in Blocks \ {b, g} : allocated'[x] = allocated[x]
    BY <1>2, <1>3, <1>4
  <1>6. /\ content' = [x \in Blocks |-> content'[x]]
        /\ content'[b] = content[g] /\ content'[g] = C!Blank
        /\ \A x \in Blocks \ {b, g, d} : content'[x] = content[x]
    BY <1>2, <1>3, <1>4 DEF Sound, Types
  <1>7. \A x \in Blocks \ {b, g} :
          /\ allocated'[x] = allocated[x]
          /\ content'[x] = content[x] \/ (allocated[x] = 0 /\ x \in unwiped')
    BY <1>2, <1>4, <1>5, <1>6
  <1>8. unwiped' \subseteq Blocks /\ unwiped \ {b, g} \subseteq unwiped'
    BY <1>2, <1>4 DEF Sound, Types
  <1> QED  BY <1>1, <1>2, <1>5, <1>6, <1>7, <1>8, MovedStep

LEMMA SoundStep == Sound /\ [Next]_vars => Sound'
  <1> SUFFICES ASSUME Sound, [Next]_vars
               PROVE  Sound'
    OBVIOUS
  <1>1. ASSUME NEW a \in Labels, NEW r \in Randoms, NEW len, generate_keypair(a, r, len)
        PROVE  Sound'
    <2>1. CASE GenerateRejects(a, len)
      BY <2>1, FailsStep DEF GenerateRejects
    <2> QED  BY <1>1, <2>1, GenerateSecpStep, GenerateCallsStep, GenerateCopiesStep, GenerateFreesStep
             DEF generate_keypair
  <1>2. ASSUME NEW a \in Labels, NEW m \in Messages, sign(a, m)
        PROVE  Sound'
    <2>1. CASE SignRejects(a, m)
      BY <2>1, FailsStep DEF SignRejects
    <2> QED  BY <1>2, <2>1, SignSecpStep, SignCallsStep, SignCopiesStep, SignFreesStep DEF sign
  <1>3. ASSUME NEW a, NEW b, NEW m, verify(a, b, m)
        PROVE  Sound'
    <2>1. UNCHANGED <<keypair, signature, allocated, content, signed, values, pc>> /\ unwiped' = unwiped
      BY <1>3 DEF verify, cvars
    <2> QED  BY <2>1, QuietStep
  <1>4. ASSUME NEW a \in Labels, serialize(a)
        PROVE  Sound'
    BY <1>4, FailsStep, LeavesCopyStep DEF serialize
  <1>5. ASSUME NEW a \in Labels, from_str(a) \/ deserialize(a)
        PROVE  Sound'
    BY <1>5, LeavesCopyStep, DecodesStep DEF from_str, deserialize
  <1>6. CASE UNCHANGED vars
    <2>1. UNCHANGED <<keypair, signature, allocated, content, signed, values, pc>> /\ unwiped' = unwiped
      BY <1>6 DEF vars, cvars
    <2> QED  BY <2>1, QuietStep
  <1> QED
    BY <1>1, <1>2, <1>3, <1>4, <1>5, <1>6, TryFromSliceStep,
       DropSecretStep, DropPublicStep, DropSignatureStep DEF Next

(* However the calls before ended, between two calls each block belongs to *)
(* one value of the caller and the library holds none (lib.rs:442, 467):   *)
(* no path through a Rust function forgets the block of a C struct.        *)
THEOREM RustLeaksNothing == Spec => []NothingLeaks
  <1>1. Sound => NothingLeaks
    <2> SUFFICES ASSUME Sound, pc = "idle"
                 PROVE  { b \in Blocks : allocated[b] # 0 } = {secret, public, sig} \ {Null}
      BY DEF NothingLeaks
    <2>1. Pointers = {secret, public, sig, Null}
      BY DEF Sound, CallsHold, Pointers, C!NoKeypair, C!NoSignature
    <2>2. \A b \in {secret, public, sig} \ {Null} : b \in Blocks
      <3>1. secret # Null => secret \in Blocks
        BY Held DEF Sound, ValuesHold
      <3>2. public # Null => public \in Blocks
        BY Held DEF Sound, ValuesHold
      <3>3. sig # Null => sig \in Blocks
        BY Held DEF Sound, ValuesHold
      <3> QED  BY <3>1, <3>2, <3>3
    <2>3. \A b \in Blocks : allocated[b] # 0 <=> b \in {secret, public, sig, Null}
      BY <2>1 DEF Sound, AllocatedIsOwned
    <2> QED  BY <2>2, <2>3, NullAssumption
  <1> QED  BY SoundInit, SoundStep, <1>1, PTL DEF Spec

(* Of a secret key nothing stays in memory that is given back, by Drop in  *)
(* Rust or by the free functions of C, on any path of any call, except the *)
(* copies that from_str and hex_bytes make when the caller converts the    *)
(* key from or to hex and that this code does not wipe (lib.rs:29, 37,     *)
(* 257, 295).                                                              *)
THEOREM OnlyHexKeepsSecrets == Spec => []OnlyConversionsLeaveSecrets
  <1>1. Sound => OnlyConversionsLeaveSecrets
    BY DEF Sound
  <1> QED  BY SoundInit, SoundStep, <1>1, PTL DEF Spec

-----------------------------------------------------------------------------
(* A label is one of the three algorithms, or names two and panics.        *)
LEMMA LabelCases ==
  ASSUME NEW a \in Labels
  PROVE  \/ a = SECP256K1_SCHNORR
         \/ a = {"ML_DSA_44"} /\ ~Panics(a)
         \/ a = {"SLH_DSA_128S"} /\ ~Panics(a)
         \/ a = {"ML_DSA_44", "SLH_DSA_128S"} /\ Panics(a)
  <1> DEFINE names == {"SECP256K1_SCHNORR", "ML_DSA_44", "SLH_DSA_128S"}
             pair == {"ML_DSA_44", "SLH_DSA_128S"}
  <1>1. IsFiniteSet(names) /\ IsFiniteSet(pair)
    <2>1. IsFiniteSet({})
      BY FS_EmptySet
    <2>2. IsFiniteSet({} \cup {"ML_DSA_44"})
      BY <2>1, FS_AddElement
    <2>3. IsFiniteSet(({} \cup {"ML_DSA_44"}) \cup {"SLH_DSA_128S"})
      BY <2>2, FS_AddElement
    <2>4. IsFiniteSet((({} \cup {"ML_DSA_44"}) \cup {"SLH_DSA_128S"}) \cup {"SECP256K1_SCHNORR"})
      BY <2>3, FS_AddElement
    <2>5. /\ ({} \cup {"ML_DSA_44"}) \cup {"SLH_DSA_128S"} = pair
          /\ (({} \cup {"ML_DSA_44"}) \cup {"SLH_DSA_128S"}) \cup {"SECP256K1_SCHNORR"} = names
      OBVIOUS
    <2> QED  BY <2>3, <2>4, <2>5
  <1>2. \A s \in SUBSET names : (Cardinality(s) = 1) <=> (\E x : s = {x})
    BY <1>1, FS_Subset, FS_Singleton
  <1>3. CASE a \in Algorithm /\ Cardinality(a) = 1
    <2>1. a \in SUBSET names
      BY <1>3 DEF Algorithm
    <2>2. PICK x : a = {x}
      BY <1>2, <1>3, <2>1
    <2>3. x \in names
      BY <2>1, <2>2
    <2> QED  BY <1>3, <2>2, <2>3 DEF Panics, SECP256K1_SCHNORR
  <1>4. CASE a = pair
    <2>1. ~\E x : a = {x}
      BY <1>4
    <2>2. Cardinality(a) # 1
      BY <1>2, <1>4, <2>1
    <2> QED  BY <1>4, <2>2 DEF Panics
  <1> QED  BY <1>3, <1>4 DEF Labels

LEMMA Origins ==
  ASSUME NEW a, NEW r, NEW m, NEW b, NEW q, NEW n
  PROVE  /\ C!PublicKey(a, r) = C!PublicKey(b, q) => a = b /\ r = q
         /\ C!Signature(a, r, m) = C!Signature(b, q, n) => a = b /\ r = q /\ m = n
  BY DEF C!PublicKey, C!Signature

Name(a) ==
  CASE a = SECP256K1_SCHNORR -> C!Secp [] a = {"ML_DSA_44"} -> C!MlDsa
    [] a = {"SLH_DSA_128S"} -> C!SlhDsa [] OTHER -> C!Unknown
Matches(n, t) ==
  \E r \in Randoms : content[public] = C!PublicKey(n, r) /\ content[sig] = C!Signature(n, r, t)

(* What a public key and a signature hold says which algorithm made them,  *)
(* which sizes they have, and that the signature was made.                 *)
LEMMA MatchesWasSigned ==
  ASSUME Sound, public # Null, sig # Null, NEW n, NEW t, Matches(n, t)
  PROVE  /\ n \in Named /\ allocated[public] = C!PublicKeySize(n) /\ allocated[sig] = C!SignatureSize(n)
         /\ \E r \in Randoms : /\ content[public] = C!PublicKey(n, r) /\ content[sig] = C!Signature(n, r, t)
                               /\ <<n, r, t>> \in signed
         /\ n = C!Secp => t \in Taken /\ ~Short(t)
  <1>1. PICK c \in Named, q \in Randoms :
          content[public] = C!PublicKey(c, q) /\ allocated[public] = C!PublicKeySize(c)
    BY DEF Sound, ValuesHold, HoldsPublic
  <1>2. PICK d \in Named, p \in Randoms, u \in Taken :
          /\ content[sig] = C!Signature(d, p, u) /\ allocated[sig] = C!SignatureSize(d)
          /\ <<d, p, u>> \in signed
    BY DEF Sound, ValuesHold, HoldsSignature
  <1>3. PICK r \in Randoms : content[public] = C!PublicKey(n, r) /\ content[sig] = C!Signature(n, r, t)
    BY DEF Matches
  <1>4. C!PublicKey(c, q) = C!PublicKey(n, r) /\ C!Signature(d, p, u) = C!Signature(n, r, t)
    BY <1>1, <1>2, <1>3
  <1>5. c = n /\ d = n /\ p = r /\ u = t
    BY <1>4, Origins
  <1>6. n = C!Secp => t \in Taken /\ ~Short(t)
    BY <1>2, <1>5 DEF Sound, LongSigned
  <1> QED  BY <1>1, <1>2, <1>3, <1>5, <1>6

LEMMA GenuineMatches ==
  ASSUME Sound, public # Null, sig # Null, NEW a, NEW m
  PROVE  Genuine(a, m) <=> Matches(Name(a), IF a = SECP256K1_SCHNORR THEN Truncated(m) ELSE m)
  <1> DEFINE n == Name(a)
             t == IF a = SECP256K1_SCHNORR THEN Truncated(m) ELSE m
  <1>1. Genuine(a, m) <=> \E r \in Randoms : /\ content[public] = C!PublicKey(n, r)
                                             /\ content[sig] = C!Signature(n, r, t)
                                             /\ <<n, r, t>> \in signed
    BY DEF Genuine, Name
  <1> HIDE DEF n, t
  <1>2. Genuine(a, m) <=> Matches(n, t)
    BY <1>1, MatchesWasSigned DEF Matches
  <1> QED  BY <1>2 DEF n, t

(* Of the three verdicts: secp256k1, the two schemes of the C library, and *)
(* a label that names no algorithm.                                        *)
LEMMA SecpVerdict ==
  ASSUME Sound, public # Null, sig # Null, NEW m \in Messages, NEW v \in SecpVerdicts(m)
  PROVE  v = "Ok" <=> Matches(C!Secp, Truncated(m))
  <1>1. CASE Matches(C!Secp, Truncated(m))
    <2>1. allocated[public] = 32 /\ allocated[sig] = 64
      <3>1. /\ allocated[public] = C!PublicKeySize(C!Secp)
            /\ allocated[sig] = C!SignatureSize(C!Secp)
        BY <1>1, MatchesWasSigned
      <3> QED  BY <3>1 DEF C!PublicKeySize, C!SignatureSize, C!Secp, C!MlDsa, C!SlhDsa
    <2>2. ~Short(m)
      BY <1>1, MatchesWasSigned, TruncatedHead
    <2> QED  BY <1>1, <2>1, <2>2 DEF SecpVerdicts, Matches
  <1>2. CASE ~Matches(C!Secp, Truncated(m))
    BY <1>2 DEF SecpVerdicts, Matches
  <1> QED  BY <1>1, <1>2

LEMMA SchemeVerdict ==
  ASSUME Sound, public # Null, sig # Null, NEW n \in {C!MlDsa, C!SlhDsa}, NEW m \in Messages
  PROVE  Matches(n, m) <=>
           /\ allocated[public] = C!PublicKeySize(n)
           /\ FromC(C!VerifyResult(n, public, allocated[public], m, sig, allocated[sig])) = "Ok"
  <1> DEFINE x == C!VerifyResult(n, public, allocated[public], m, sig, allocated[sig])
  <1>1. C!Genuine(n, public, m, sig) <=> Matches(n, m)
    BY DEF C!Genuine, Matches, C!MlDsa, C!SlhDsa, C!Secp
  <1>2. n # C!Unknown
    BY DEF C!MlDsa, C!SlhDsa, C!Unknown
  <1>3. CASE Matches(n, m)
    <2>1. allocated[public] = C!PublicKeySize(n) /\ allocated[sig] = C!SignatureSize(n)
      BY <1>3, MatchesWasSigned
    <2>2. x = "OK"
      BY <1>1, <1>2, <1>3, <2>1 DEF C!VerifyResult
    <2> QED  BY <1>3, <2>1, <2>2 DEF FromC
  <1>4. CASE ~Matches(n, m)
    <2>1. x \in {"BAD_KEY", "BAD_SIGNATURE"}
      BY <1>1, <1>2, <1>4 DEF C!VerifyResult
    <2> HIDE DEF x
    <2>2. FromC(x) # "Ok"
      BY <2>1 DEF FromC
    <2> QED  BY <1>4, <2>2 DEF x
  <1> QED  BY <1>3, <1>4

LEMMA VerdictIsGenuine ==
  ASSUME Sound, public # Null, sig # Null, NEW a \in Labels, NEW m \in Messages,
         NEW v \in verify_verdicts(a, a, m)
  PROVE  v = "Ok" <=> Genuine(a, m)
  <1>1. CASE a = SECP256K1_SCHNORR
    <2>1. Name(a) = C!Secp
      BY <1>1 DEF Name, SECP256K1_SCHNORR
    <2>2. v \in SecpVerdicts(m)
      BY <1>1 DEF verify_verdicts
    <2> QED  BY <1>1, <2>1, <2>2, SecpVerdict, GenuineMatches
  <1>2. CASE a \in {{"ML_DSA_44"}, {"SLH_DSA_128S"}} /\ ~Panics(a)
    <2>1. a # SECP256K1_SCHNORR /\ Name(a) = into(a) /\ into(a) \in {C!MlDsa, C!SlhDsa}
      BY <1>2 DEF Name, into, SECP256K1_SCHNORR
    <2>2. Genuine(a, m) <=> Matches(into(a), m)
      BY <2>1, GenuineMatches
    <2>3. v = IF allocated[public] # C!PublicKeySize(into(a)) THEN "BadKey"
              ELSE FromC(C!VerifyResult(into(a), public, allocated[public], m, sig, allocated[sig]))
      BY <1>2, <2>1 DEF verify_verdicts
    <2> QED  BY <2>1, <2>2, <2>3, SchemeVerdict
  <1>3. CASE a = {"ML_DSA_44", "SLH_DSA_128S"} /\ Panics(a)
    <2>1. a # SECP256K1_SCHNORR /\ Name(a) = C!Unknown
      BY <1>3 DEF Name, SECP256K1_SCHNORR
    <2>2. v = "panic"
      BY <1>3, <2>1 DEF verify_verdicts
    <2>3. C!Unknown \notin Named
      BY DEF Named, C!Unknown, C!Secp, C!MlDsa, C!SlhDsa
    <2> QED  BY <2>1, <2>2, <2>3, GenuineMatches, MatchesWasSigned
  <1> QED  BY <1>1, <1>2, <1>3, LabelCases

LEMMA VerifyStep ==
  ASSUME Sound, NEW a \in Labels, NEW b \in {a, SECP256K1_SCHNORR}, NEW m \in Messages, verify(a, b, m)
  PROVE  VerifiesWhatWasSigned'
  <1>1. PICK v \in verify_verdicts(a, b, m) :
          result' = [op |-> "verify", value |-> v, genuine |-> a = b /\ Genuine(a, m)]
    BY DEF verify
  <1>2. result'.value = v /\ (result'.genuine <=> (a = b /\ Genuine(a, m)))
    BY <1>1
  <1>3. CASE a = b
    <2>1. v = "Ok" <=> Genuine(a, m)
      BY <1>3, VerdictIsGenuine DEF verify
    <2> QED  BY <1>2, <1>3, <2>1 DEF VerifiesWhatWasSigned
  <1>4. CASE a # b
    <2>1. v = "AlgorithmMismatch"
      BY <1>4 DEF verify_verdicts
    <2> QED  BY <1>2, <1>4, <2>1 DEF VerifiesWhatWasSigned
  <1> QED  BY <1>3, <1>4

(* Only verify reports a verdict. *)
LEMMA OtherResults ==
  ASSUME VerifiesWhatWasSigned, result' = result \/ result'.op # "verify"
  PROVE  VerifiesWhatWasSigned'
  BY DEF VerifiesWhatWasSigned

LEMMA VerdictStep == Sound /\ VerifiesWhatWasSigned /\ [Next]_vars => VerifiesWhatWasSigned'
  <1> SUFFICES ASSUME Sound, VerifiesWhatWasSigned, [Next]_vars
               PROVE  VerifiesWhatWasSigned'
    OBVIOUS
  <1>1. ASSUME NEW a \in Labels, NEW r \in Randoms, NEW len, generate_keypair(a, r, len)
        PROVE  result' = result \/ result'.op # "verify"
    <2>1. CASE GenerateRejects(a, len)
      BY <2>1 DEF GenerateRejects, Fails, Returns
    <2>2. CASE GenerateSecp(r, len)
      BY <2>2 DEF GenerateSecp, Fails, Returns
    <2>3. CASE GenerateCalls(a, r, len)
      BY <2>3 DEF GenerateCalls, Returns
    <2>4. CASE GenerateCopies \/ GenerateFrees
      BY <2>4 DEF GenerateCopies, GenerateFrees, Returns
    <2> QED  BY <1>1, <2>1, <2>2, <2>3, <2>4 DEF generate_keypair
  <1>2. ASSUME NEW a \in Labels, NEW m \in Messages, sign(a, m)
        PROVE  result' = result \/ result'.op # "verify"
    <2>1. CASE SignRejects(a, m)
      BY <2>1 DEF SignRejects, Fails, Returns
    <2>2. CASE SignSecp(m)
      BY <2>2 DEF SignSecp, Returns
    <2>3. CASE SignCalls(a, m)
      BY <2>3 DEF SignCalls, Returns
    <2>4. CASE SignCopies \/ SignFrees
      BY <2>4 DEF SignCopies, SignFrees, Returns
    <2> QED  BY <1>2, <2>1, <2>2, <2>3, <2>4 DEF sign
  <1>3. ASSUME NEW a \in Labels, try_from_slice(a)
        PROVE  result'.op # "verify"
    BY <1>3 DEF try_from_slice, Fails, Returns
  <1>4. ASSUME NEW a \in Labels, from_str(a) \/ deserialize(a)
        PROVE  result'.op # "verify"
    BY <1>4 DEF from_str, deserialize, Decodes, LeavesCopy, Returns
  <1>5. ASSUME NEW a \in Labels, serialize(a)
        PROVE  result'.op # "verify"
    BY <1>5 DEF serialize, LeavesCopy, Fails, Returns
  <1>6. CASE DropSecret \/ DropPublic \/ DropSignature
    <2>1. result'.op # "verify"
      BY <1>6 DEF DropSecret, DropPublic, DropSignature, Returns
    <2> QED  BY <2>1, OtherResults
  <1>7. ASSUME NEW a \in Labels, NEW m \in Messages, verify(a, a, m) \/ verify(a, SECP256K1_SCHNORR, m)
        PROVE  VerifiesWhatWasSigned'
    BY <1>7, VerifyStep
  <1>8. CASE UNCHANGED vars
    BY <1>8, OtherResults DEF vars
  <1> QED
    BY <1>1, <1>2, <1>3, <1>4, <1>5, <1>6, <1>7, <1>8, OtherResults DEF Next

(* verify accepts exactly what was signed: a signature made with the       *)
(* secret key of this public key, on this message or on the 32 bytes that  *)
(* secp256k1 takes of it, whatever labels the caller put on the bytes      *)
(* (lib.rs:132, 640).                                                      *)
THEOREM RustVerifiesWhatWasSigned == Spec => []VerifiesWhatWasSigned
  <1>1. Init => VerifiesWhatWasSigned
    BY DEF Init, VerifiesWhatWasSigned
  <1> QED  BY SoundInit, SoundStep, VerdictStep, <1>1, PTL DEF Spec

-----------------------------------------------------------------------------
(* The bindings of Python and Node.js.                                     *)
(* What the library makes for a name: whether it makes keys and which,     *)
(* whether it signs with a key made for another name, what, and what of    *)
(* this is remembered.                                                     *)
Makes(nm) == Script!KeygenCode(Script!Number(nm)) = "OK"
PublicOf(nm, r) == Script!KeyBytes(Script!Number(nm), r).pk
SecretOf(nm, r) == Script!KeyBytes(Script!Number(nm), r).sk
Signs(nm, of, r) == Script!SignCode(Script!Number(nm), SecretOf(of, r)) = "OK"
SignatureOf(nm, of, r, m) == Script!SignatureBytes(Script!Number(nm), SecretOf(of, r), m)
Record(nm, of, r, m) == <<Script!Number(nm), SecretOf(of, r).is, m>>

IsKey(o) ==
  \E nm \in Script!Names, r \in ScriptRandoms :
    Makes(nm) /\ o.name = nm /\ o.public_key = PublicOf(nm, r) /\ o.secret_key = SecretOf(nm, r)

ObjectsAreKeys == \A k \in Pairs : object[k] # Script!NoObject => IsKey(object[k])

(* The one signature there is, and what it is recorded as. *)
SignatureIsMade ==
  lastSig.name # "none" =>
    \E nm, of \in Script!Names, r \in ScriptRandoms, m \in ScriptMessages :
      /\ Makes(of) /\ Signs(nm, of, r)
      /\ lastSig.bytes = SignatureOf(nm, of, r, m) /\ everSigned = {Record(nm, of, r, m)}

ScriptBase ==
  /\ lang \in {"python", "node"} /\ library \in {"native", "mock"}
  /\ object = [k \in Pairs |-> object[k]] /\ held = [k \in Pairs |-> held[k]]
  /\ ObjectsAreKeys /\ SignatureIsMade

ScriptInv == ScriptBase /\ Script!ScriptsVerifyWhatWasSigned

LEMMA NumberOf ==
  ASSUME lang \in {"python", "node"}, NEW nm \in Script!Names
  PROVE  /\ Script!Number(nm) \in {0, 1, 2, 3, 99}
         /\ lang = "python" => Script!Number(nm) \in 0 .. 3
         /\ lang = "node" => Script!Number(nm) \in {0, 1, 2, 99}
  BY DEF Script!Number, Script!PythonNumber, Script!NodeNumber, Script!Names

LEMMA KeyFields ==
  ASSUME NEW nm, NEW r
  PROVE  LET n == Script!Number(nm)
         IN  /\ PublicOf(nm, r).size = Script!SizesOf(n).pk
             /\ PublicOf(nm, r).is = <<"public key", n, r>>
             /\ SecretOf(nm, r).size = Script!SizesOf(n).sk
             /\ SecretOf(nm, r).is = <<"secret key", n, r>>
  BY DEF PublicOf, SecretOf, Script!KeyBytes, Script!Bytes

LEMMA NativeSizesAre ==
  ASSUME library = "native"
  PROVE  /\ Script!SizesOf(1).pk = 1312 /\ Script!SizesOf(2).pk = 32
         /\ Script!SizesOf(1).sk = 2560 /\ Script!SizesOf(2).sk = 64
         /\ Script!SizesOf(1).sig = 2420 /\ Script!SizesOf(2).sig = 7856
  BY DEF Script!SizesOf, Script!NativeSizes, Script!Sizes

LEMMA Third ==
  ASSUME NEW t, NEW a, NEW b, NEW c, t = <<a, b, c>>
  PROVE  t[3] = c
  OBVIOUS

(* A verdict and what it should be, for key pair, name and message.        *)
Verdict(k, nm, m) == Script!VerifyCode(Script!Number(nm), object[k].public_key, m, lastSig.bytes)
GenuineFor(k, nm, m) ==
  \E r \in ScriptRandoms :
    /\ object[k].public_key.is = <<"public key", Script!Number(nm), r>>
    /\ <<Script!Number(nm), <<"secret key", Script!Number(nm), r>>, m>> \in everSigned

LEMMA NativeVerdict ==
  ASSUME ScriptBase, library = "native", NEW k \in Pairs, object[k] # Script!NoObject,
         lastSig.name # "none", NEW nm \in Script!Names, NEW m \in ScriptMessages
  PROVE  Verdict(k, nm, m) = "OK" <=> GenuineFor(k, nm, m)
<1> DEFINE n == Script!Number(nm)
<1>1. PICK kn \in Script!Names, r \in ScriptRandoms :
        /\ Script!KeygenCode(Script!Number(kn)) = "OK" /\ object[k].public_key = PublicOf(kn, r)
  BY DEF ScriptBase, ObjectsAreKeys, IsKey, Makes
<1>2. PICK sn, of \in Script!Names, q \in ScriptRandoms, t \in ScriptMessages :
        /\ Script!KeygenCode(Script!Number(of)) = "OK"
        /\ Script!SignCode(Script!Number(sn), SecretOf(of, q)) = "OK"
        /\ lastSig.bytes = Script!SignatureBytes(Script!Number(sn), SecretOf(of, q), t)
        /\ everSigned = {<<Script!Number(sn), SecretOf(of, q).is, t>>}
  BY DEF ScriptBase, SignatureIsMade, Makes, Signs, SignatureOf, Record
<1> DEFINE kk == Script!Number(kn)
           oo == Script!Number(of)
           ss == Script!Number(sn)
<1>3. kk \in {1, 2} /\ oo \in {1, 2}
  BY <1>1, <1>2, NumberOf DEF ScriptBase, Script!KeygenCode
<1>4. ss \in {1, 2} /\ SecretOf(of, q).size = Script!SizesOf(ss).sk
  BY <1>2, NumberOf DEF ScriptBase, Script!SignCode
<1> DEFINE pk == object[k].public_key.is
           sk == SecretOf(of, q).is
<1>5. SecretOf(of, q).size = Script!SizesOf(oo).sk /\ sk = <<"secret key", oo, q>>
  BY KeyFields
<1>6. object[k].public_key.size = Script!SizesOf(kk).pk /\ pk = <<"public key", kk, r>>
  BY <1>1, KeyFields
<1>7. lastSig.bytes.size = Script!SizesOf(ss).sig /\ lastSig.bytes.is = <<"signature", ss, sk[3], t>>
  BY <1>2 DEF Script!SignatureBytes, Script!Bytes
<1>8. everSigned = {<<ss, sk, t>>} BY <1>2
<1>9. n \in {0, 1, 2, 3, 99} BY NumberOf DEF ScriptBase
<1>10. Verdict(k, nm, m) = Script!VerifyCode(n, object[k].public_key, m, lastSig.bytes) BY DEF Verdict
<1>11. GenuineFor(k, nm, m) <=>
         \E x \in ScriptRandoms : pk = <<"public key", n, x>> /\ <<n, <<"secret key", n, x>>, m>> \in everSigned
  BY DEF GenuineFor
<1>12. Verdict(k, nm, m) = "OK" <=>
         /\ object[k].public_key.size = Script!SizesOf(n).pk /\ lastSig.bytes.size = Script!SizesOf(n).sig
         /\ n \in {1, 2} /\ lastSig.bytes.is = <<"signature", n, pk[3], m>>
  BY <1>9, <1>10 DEF Script!VerifyCode
<1> HIDE DEF n, kk, oo, ss, pk, sk
<1>13. pk[3] = r /\ sk[3] = q BY <1>5, <1>6, Third
<1>14. ss = oo
  <2>1. Script!SizesOf(ss).sk = Script!SizesOf(oo).sk BY <1>4, <1>5
  <2> QED BY <1>3, <1>4, <2>1, NativeSizesAre
<1>15. GenuineFor(k, nm, m) <=> kk = n /\ ss = n /\ q = r /\ t = m
  <2>1. GenuineFor(k, nm, m) <=>
          \E x \in ScriptRandoms : <<"public key", kk, r>> = <<"public key", n, x>>
                             /\ <<n, <<"secret key", n, x>>, m>> = <<ss, <<"secret key", ss, q>>, t>>
    BY <1>5, <1>6, <1>8, <1>11, <1>14
  <2> QED BY <2>1
<1>16. CASE n \in {1, 2}
  <2>1. object[k].public_key.size = Script!SizesOf(n).pk <=> kk = n
    <3>1. Script!SizesOf(kk).pk = Script!SizesOf(n).pk <=> kk = n BY <1>3, <1>16, NativeSizesAre
    <3> QED BY <1>6, <3>1
  <2>2. lastSig.bytes.size = Script!SizesOf(n).sig <=> ss = n
    <3>1. Script!SizesOf(ss).sig = Script!SizesOf(n).sig <=> ss = n BY <1>4, <1>16, NativeSizesAre
    <3> QED BY <1>7, <3>1
  <2>3. lastSig.bytes.is = <<"signature", n, r, m>> <=> ss = n /\ q = r /\ t = m
    <3>1. lastSig.bytes.is = <<"signature", ss, q, t>> BY <1>7, <1>13
    <3> QED BY <3>1
  <2> QED BY <1>12, <1>13, <1>15, <1>16, <2>1, <2>2, <2>3
<1>17. CASE n \notin {1, 2} BY <1>3, <1>12, <1>15, <1>17
<1> QED BY <1>16, <1>17

LEMMA MockVerdict ==
  ASSUME ScriptBase, library = "mock", NEW k \in Pairs, object[k] # Script!NoObject,
         lastSig.name # "none", NEW nm \in Script!Names, NEW m \in ScriptMessages, GenuineFor(k, nm, m)
  PROVE  Verdict(k, nm, m) = "OK"
<1> DEFINE n == Script!Number(nm)
           pk == object[k].public_key.is
<1>1. PICK kn \in Script!Names, r \in ScriptRandoms :
        /\ Script!KeygenCode(Script!Number(kn)) = "OK" /\ object[k].public_key = PublicOf(kn, r)
  BY DEF ScriptBase, ObjectsAreKeys, IsKey, Makes
<1>2. PICK sn, of \in Script!Names, q \in ScriptRandoms, t \in ScriptMessages :
        /\ lastSig.bytes = Script!SignatureBytes(Script!Number(sn), SecretOf(of, q), t)
        /\ everSigned = {<<Script!Number(sn), SecretOf(of, q).is, t>>}
  BY DEF ScriptBase, SignatureIsMade, SignatureOf, Record
<1> DEFINE kk == Script!Number(kn)
           ss == Script!Number(sn)
           sk == SecretOf(of, q).is
<1>3. object[k].public_key.size = Script!SizesOf(kk).pk /\ pk = <<"public key", kk, r>>
  BY <1>1, KeyFields
<1>4. lastSig.bytes.size = Script!SizesOf(ss).sig /\ lastSig.bytes.is = <<"digest", t>>
  BY <1>2 DEF Script!SignatureBytes, Script!Bytes
<1>5. PICK x \in ScriptRandoms : pk = <<"public key", n, x>> /\ <<n, <<"secret key", n, x>>, m>> \in everSigned
  BY DEF GenuineFor
<1>6. everSigned = {<<ss, sk, t>>} BY <1>2
<1>7. lang = "node" => kk \in 0 .. 3 BY <1>1 DEF Script!KeygenCode
<1>8. Verdict(k, nm, m) = Script!VerifyCode(n, object[k].public_key, m, lastSig.bytes) BY DEF Verdict
<1> HIDE DEF n, kk, ss, pk, sk
<1>9. <<n, <<"secret key", n, x>>, m>> = <<ss, sk, t>> BY <1>5, <1>6
<1>10. n = ss /\ m = t BY <1>9
<1>11. <<"public key", n, x>> = <<"public key", kk, r>> BY <1>3, <1>5
<1>12. n = kk BY <1>11
<1>13. object[k].public_key.size = Script!SizesOf(n).pk /\ lastSig.bytes.size = Script!SizesOf(n).sig
  BY <1>3, <1>4, <1>10, <1>12
<1>14. lang = "python" \/ lang = "node" BY DEF ScriptBase
<1> QED BY <1>4, <1>7, <1>8, <1>10, <1>12, <1>13, <1>14 DEF Script!VerifyCode

(* A binding keeps its language and its library. *)
LEMMA SameLibrary ==
  ASSUME UNCHANGED <<lang, library>>, NEW nm, NEW of, NEW r, NEW m
  PROVE  /\ Makes(nm)' = Makes(nm) /\ Signs(nm, of, r)' = Signs(nm, of, r)
         /\ PublicOf(nm, r)' = PublicOf(nm, r) /\ SecretOf(nm, r)' = SecretOf(nm, r)
         /\ SignatureOf(nm, of, r, m)' = SignatureOf(nm, of, r, m)
         /\ Record(nm, of, r, m)' = Record(nm, of, r, m)
<1>1. Script!Number(nm)' = Script!Number(nm) /\ Script!Number(of)' = Script!Number(of)
  BY DEF Script!Number
<1>2. ASSUME NEW n PROVE Script!SizesOf(n)' = Script!SizesOf(n)
  BY DEF Script!SizesOf
<1> QED BY <1>1, <1>2 DEF Makes, Signs, PublicOf, SecretOf, SignatureOf, Record,
    Script!KeygenCode, Script!SignCode, Script!SignatureBytes, Script!KeyBytes, Script!Bytes,
    Script!SizesOf, Script!Number

LEMMA ObjectsStep ==
  ASSUME ScriptBase, UNCHANGED <<lang, library, lastSig, everSigned>>,
         object' = [k \in Pairs |-> object'[k]], held' = [k \in Pairs |-> held'[k]],
         \A k \in Pairs : object'[k] = object[k] \/ object'[k] = Script!NoObject \/ IsKey(object'[k])
  PROVE  ScriptBase'
<1>1. ObjectsAreKeys'
  <2> SUFFICES ASSUME NEW k \in Pairs, object'[k] # Script!NoObject' PROVE IsKey(object[k])'
    BY DEF ObjectsAreKeys
  <2>1. Script!NoObject' = Script!NoObject BY DEF Script!NoObject, Script!NoBytes
  <2>2. IsKey(object'[k]) BY <2>1 DEF ScriptBase, ObjectsAreKeys
  <2>3. PICK nm \in Script!Names, r \in ScriptRandoms :
          /\ Makes(nm) /\ object'[k].name = nm
          /\ object'[k].public_key = PublicOf(nm, r) /\ object'[k].secret_key = SecretOf(nm, r)
    BY <2>2 DEF IsKey
  <2>4. Makes(nm)' /\ PublicOf(nm, r)' = PublicOf(nm, r) /\ SecretOf(nm, r)' = SecretOf(nm, r)
    BY <2>3, SameLibrary
  <2>5. Script!Names' = Script!Names BY DEF Script!Names
  <2> QED BY <2>3, <2>4, <2>5 DEF IsKey
<1>2. SignatureIsMade'
  <2> SUFFICES ASSUME lastSig'.name # "none" PROVE SignatureIsMade'  BY DEF SignatureIsMade
  <2>1. PICK nm, of \in Script!Names, r \in ScriptRandoms, m \in ScriptMessages :
          /\ Makes(of) /\ Signs(nm, of, r)
          /\ lastSig.bytes = SignatureOf(nm, of, r, m) /\ everSigned = {Record(nm, of, r, m)}
    BY DEF ScriptBase, SignatureIsMade
  <2>2. /\ Makes(of)' /\ Signs(nm, of, r)'
        /\ SignatureOf(nm, of, r, m)' = SignatureOf(nm, of, r, m) /\ Record(nm, of, r, m)' = Record(nm, of, r, m)
    BY <2>1, SameLibrary
  <2>3. Script!Names' = Script!Names BY DEF Script!Names
  <2> QED BY <2>1, <2>2, <2>3 DEF SignatureIsMade
<1> QED BY <1>1, <1>2 DEF ScriptBase

(* Only verify reports a verdict. *)
LEMMA NoVerdict ==
  ASSUME answer'.op # "verify", Script!StructsHaveObjects'
  PROVE  Script!ScriptsVerifyWhatWasSigned'
  BY DEF Script!ScriptsVerifyWhatWasSigned, Script!NativeVerifiesWhatWasSigned, Script!MockAcceptsTheGenuine,
         Script!Verified

LEMMA QuietScript ==
  ASSUME ScriptInv, UNCHANGED <<lang, library, held, object, lastSig, everSigned>>
  PROVE  ScriptBase' /\ Script!StructsHaveObjects'
<1>1. ScriptBase /\ Script!StructsHaveObjects BY DEF ScriptInv, Script!ScriptsVerifyWhatWasSigned
<1>2. object' = [k \in Pairs |-> object'[k]] /\ held' = [k \in Pairs |-> held'[k]] BY <1>1 DEF ScriptBase
<1>3. ScriptBase' BY <1>1, <1>2, ObjectsStep
<1>4. Script!StructsHaveObjects'
  BY <1>1 DEF Script!StructsHaveObjects, Script!NoObject, Script!NoBytes
<1> QED BY <1>3, <1>4

LEMMA KeygenScript ==
  ASSUME ScriptInv, NEW k \in Pairs, NEW nm \in Script!Names, NEW r \in ScriptRandoms,
         Script!KeygenPython(k, nm, r) \/ Script!KeygenNode(k, nm, r)
  PROVE  ScriptInv'
<1> DEFINE new == [name |-> nm, public_key |-> PublicOf(nm, r), secret_key |-> SecretOf(nm, r)]
<1>1. /\ object' = [object EXCEPT ![k] = new] /\ Makes(nm) /\ answer'.op = "keygen"
      /\ UNCHANGED <<lang, library, lastSig, everSigned>>
      /\ held' = held \/ (lang = "python" /\ held' = [held EXCEPT ![k] = TRUE])
  BY DEF Script!KeygenPython, Script!KeygenNode, Script!Returns, Script!fixed, PublicOf, SecretOf, Makes
<1>2. ScriptBase /\ Script!StructsHaveObjects BY DEF ScriptInv, Script!ScriptsVerifyWhatWasSigned
<1>3. object = [x \in Pairs |-> object[x]] /\ held = [x \in Pairs |-> held[x]] BY <1>2 DEF ScriptBase
<1>4. IsKey(new) BY <1>1 DEF IsKey
<1>5. new # Script!NoObject
  <2>1. new.name # "none" BY DEF Script!Names
  <2>2. Script!NoObject.name = "none" BY DEF Script!NoObject
  <2> QED BY <2>1, <2>2
<1> HIDE DEF new
<1>6. object' = [x \in Pairs |-> object'[x]] /\ held' = [x \in Pairs |-> held'[x]] BY <1>1, <1>3
<1>7. object'[k] = new /\ \A x \in Pairs : x # k => object'[x] = object[x] BY <1>1, <1>3
<1>8. \A x \in Pairs : object'[x] = object[x] \/ object'[x] = Script!NoObject \/ IsKey(object'[x])
  BY <1>4, <1>7
<1>9. ScriptBase' BY <1>1, <1>2, <1>6, <1>8, ObjectsStep
<1>10. Script!StructsHaveObjects'
  <2> SUFFICES ASSUME NEW x \in Pairs, held'[x] PROVE lang' = "python" /\ object'[x] # Script!NoObject'
    BY DEF Script!StructsHaveObjects
  <2>1. Script!NoObject' = Script!NoObject BY DEF Script!NoObject, Script!NoBytes
  <2>2. CASE x = k
    <3>1. held[k] \/ lang = "python" BY <1>1, <2>2
    <3> QED BY <1>1, <1>2, <1>5, <1>7, <2>1, <2>2, <3>1 DEF Script!StructsHaveObjects
  <2>3. CASE x # k
    <3>1. held[x] BY <1>1, <1>3, <2>3
    <3> QED BY <1>1, <1>2, <1>7, <2>1, <2>3, <3>1 DEF Script!StructsHaveObjects
  <2> QED BY <2>2, <2>3
<1> QED BY <1>1, <1>9, <1>10, NoVerdict DEF ScriptInv

LEMMA DeleteScript ==
  ASSUME ScriptInv, NEW k \in Pairs, Script!Delete(k)
  PROVE  ScriptInv'
<1>1. /\ object' = [object EXCEPT ![k] = Script!NoObject] /\ held' = [held EXCEPT ![k] = FALSE]
      /\ answer'.op = "delete" /\ UNCHANGED <<lang, library, lastSig, everSigned>>
  BY DEF Script!Delete, Script!Returns, Script!fixed
<1>2. ScriptBase /\ Script!StructsHaveObjects BY DEF ScriptInv, Script!ScriptsVerifyWhatWasSigned
<1>3. object = [x \in Pairs |-> object[x]] /\ held = [x \in Pairs |-> held[x]] BY <1>2 DEF ScriptBase
<1>4. object' = [x \in Pairs |-> object'[x]] /\ held' = [x \in Pairs |-> held'[x]] BY <1>1, <1>3
<1>5. /\ object'[k] = Script!NoObject /\ ~held'[k]
      /\ \A x \in Pairs : x # k => object'[x] = object[x] /\ held'[x] = held[x]
  BY <1>1, <1>3
<1>6. \A x \in Pairs : object'[x] = object[x] \/ object'[x] = Script!NoObject \/ IsKey(object'[x])
  BY <1>5
<1>7. ScriptBase' BY <1>1, <1>2, <1>4, <1>6, ObjectsStep
<1>8. Script!NoObject' = Script!NoObject BY DEF Script!NoObject, Script!NoBytes
<1>9. Script!StructsHaveObjects' BY <1>1, <1>2, <1>5, <1>8 DEF Script!StructsHaveObjects
<1> QED BY <1>1, <1>7, <1>9, NoVerdict DEF ScriptInv

LEMMA SignScript ==
  ASSUME ScriptInv, NEW k \in Pairs, NEW nm \in Script!Names, NEW m \in ScriptMessages,
         everSigned = {}, Script!Sign(k, nm, m)
  PROVE  ScriptInv'
<1> DEFINE n == Script!Number(nm)
           sk == object[k].secret_key
<1>1. ScriptBase /\ Script!StructsHaveObjects BY DEF ScriptInv, Script!ScriptsVerifyWhatWasSigned
<1>2. CASE Script!SignCode(n, sk) # "OK"
  <2>1. answer'.op = "sign" /\ UNCHANGED <<lang, library, held, object, lastSig, everSigned>>
    BY <1>2 DEF Script!Sign, Script!Throws, Script!Returns, Script!fixed
  <2> QED BY <2>1, QuietScript, NoVerdict DEF ScriptInv
<1>3. CASE Script!SignCode(n, sk) = "OK"
  <2>1. /\ object[k] # Script!NoObject
        /\ lastSig' = [name |-> nm, bytes |-> Script!SignatureBytes(n, sk, m)]
        /\ everSigned' = {<<n, sk.is, m>>}
        /\ answer'.op = "sign" /\ UNCHANGED <<lang, library, held, object>>
    BY <1>3 DEF Script!Sign, Script!Returns, Script!fixed
  <2>2. PICK of \in Script!Names, r \in ScriptRandoms : Makes(of) /\ sk = SecretOf(of, r)
    BY <1>1, <2>1 DEF ScriptBase, ObjectsAreKeys, IsKey
  <2>3. /\ Makes(of) /\ Signs(nm, of, r) /\ lastSig'.bytes = SignatureOf(nm, of, r, m)
        /\ everSigned' = {Record(nm, of, r, m)}
    BY <1>3, <2>1, <2>2 DEF Signs, SignatureOf, Record
  <2>4. /\ Makes(of)' /\ Signs(nm, of, r)'
        /\ SignatureOf(nm, of, r, m)' = SignatureOf(nm, of, r, m) /\ Record(nm, of, r, m)' = Record(nm, of, r, m)
    BY <2>1, <2>3, SameLibrary
  <2>5. SignatureIsMade'
    <3>1. Script!Names' = Script!Names BY DEF Script!Names
    <3> QED BY <2>3, <2>4, <3>1 DEF SignatureIsMade
  <2>6. ObjectsAreKeys'
    <3> SUFFICES ASSUME NEW x \in Pairs, object'[x] # Script!NoObject' PROVE IsKey(object[x])'
      BY DEF ObjectsAreKeys
    <3>1. Script!NoObject' = Script!NoObject BY DEF Script!NoObject, Script!NoBytes
    <3>2. PICK kn \in Script!Names, q \in ScriptRandoms :
            /\ Makes(kn) /\ object[x].name = kn
            /\ object[x].public_key = PublicOf(kn, q) /\ object[x].secret_key = SecretOf(kn, q)
      BY <1>1, <2>1, <3>1 DEF ScriptBase, ObjectsAreKeys, IsKey
    <3>3. Makes(kn)' /\ PublicOf(kn, q)' = PublicOf(kn, q) /\ SecretOf(kn, q)' = SecretOf(kn, q)
      BY <2>1, <3>2, SameLibrary
    <3>4. Script!Names' = Script!Names BY DEF Script!Names
    <3> QED BY <2>1, <3>2, <3>3, <3>4 DEF IsKey
  <2>7. ScriptBase' BY <1>1, <2>1, <2>5, <2>6 DEF ScriptBase
  <2>8. Script!StructsHaveObjects'
    BY <1>1, <2>1 DEF Script!StructsHaveObjects, Script!NoObject, Script!NoBytes
  <2> QED BY <2>1, <2>7, <2>8, NoVerdict DEF ScriptInv
<1> QED BY <1>2, <1>3

LEMMA VerifyScript ==
  ASSUME ScriptInv, NEW k \in Pairs, NEW nm \in Script!Names, NEW m \in ScriptMessages, Script!Verify(k, nm, m)
  PROVE  ScriptInv'
<1>1. /\ object[k] # Script!NoObject /\ lastSig.name # "none"
      /\ answer' = [op |-> "verify", value |-> Verdict(k, nm, m), key |-> k, name |-> nm, message |-> m]
      /\ UNCHANGED <<lang, library, held, object, lastSig, everSigned>>
  BY DEF Script!Verify, Script!fixed, Verdict
<1>2. ScriptBase BY DEF ScriptInv
<1>3. /\ answer'.value = Verdict(k, nm, m) /\ answer'.key = k /\ answer'.name = nm /\ answer'.message = m
  BY <1>1
<1>4. Script!Genuine' <=> GenuineFor(k, nm, m)
  <2>1. Script!Number(nm)' = Script!Number(nm) BY <1>1 DEF Script!Number
  <2>2. Script!Genuine' <=>
          \E r \in ScriptRandoms :
            /\ object[k].public_key.is = <<"public key", Script!Number(nm)', r>>
            /\ <<Script!Number(nm)', <<"secret key", Script!Number(nm)', r>>, m>> \in everSigned
    BY <1>1, <1>3 DEF Script!Genuine, Script!Number
  <2> QED BY <2>1, <2>2 DEF GenuineFor
<1>5. Script!NativeVerifiesWhatWasSigned'
  <2> SUFFICES ASSUME library = "native" PROVE answer'.value = "OK" <=> Script!Genuine'
    BY <1>1 DEF Script!NativeVerifiesWhatWasSigned
  <2> QED BY <1>1, <1>2, <1>3, <1>4, NativeVerdict
<1>6. Script!MockAcceptsTheGenuine'
  <2> SUFFICES ASSUME library = "mock", Script!Genuine' PROVE answer'.value = "OK"
    BY <1>1 DEF Script!MockAcceptsTheGenuine
  <2> QED BY <1>1, <1>2, <1>3, <1>4, MockVerdict
<1>7. ScriptBase' /\ Script!StructsHaveObjects' BY <1>1, QuietScript
<1> QED BY <1>5, <1>6, <1>7 DEF ScriptInv, Script!ScriptsVerifyWhatWasSigned

(* For any number of key pairs, any random data and messages: through      *)
(* Python or Node.js the C library verifies exactly what was signed with   *)
(* the other half of the key pair, though both renumber the algorithms, a  *)
(* mock accepts what C would, and a C struct waits to be freed only while  *)
(* its Python object lives (bitcoinpqc.py:279-523, index.ts:155,           *)
(* library.ts:171, bitcoinpqc_addon.cc:108).                               *)
THEOREM ScriptsVerify == Script!Spec => []Script!ScriptsVerifyWhatWasSigned
<1>1. Script!Init => ScriptInv
  <2> SUFFICES ASSUME Script!Init PROVE ScriptInv
    OBVIOUS
  <2>1. /\ lang \in {"python", "node"} /\ library \in {"native", "mock"}
        /\ held = [k \in Pairs |-> FALSE] /\ object = [k \in Pairs |-> Script!NoObject]
        /\ lastSig.name = "none" /\ answer.op = "none"
    BY DEF Script!Init
  <2>2. ScriptBase BY <2>1 DEF ScriptBase, ObjectsAreKeys, SignatureIsMade
  <2>3. Script!ScriptsVerifyWhatWasSigned
    BY <2>1 DEF Script!ScriptsVerifyWhatWasSigned, Script!NativeVerifiesWhatWasSigned,
      Script!MockAcceptsTheGenuine, Script!StructsHaveObjects, Script!Verified
  <2> QED BY <2>2, <2>3 DEF ScriptInv
<1>2. ScriptInv /\ [Script!Next]_(Script!vars) => ScriptInv'
  <2> SUFFICES ASSUME ScriptInv, [Script!Next]_(Script!vars) PROVE ScriptInv'
    OBVIOUS
  <2>1. CASE Script!ShortData \/ Script!setLibraryForTesting \/ \E nm \in Script!Names : Script!KeygenFails(nm)
    <3>1. answer'.op # "verify" /\ UNCHANGED <<lang, library, held, object, lastSig, everSigned>>
      BY <2>1 DEF Script!ShortData, Script!setLibraryForTesting, Script!KeygenFails, Script!Throws,
        Script!Returns, Script!fixed
    <3> QED BY <3>1, QuietScript, NoVerdict DEF ScriptInv
  <2>2. CASE UNCHANGED Script!vars
    <3>1. UNCHANGED <<lang, library, nativeAddon, held, object, lastSig, everSigned, answer>>
      BY <2>2 DEF Script!vars, Script!fixed
    <3>2. ScriptBase' /\ Script!StructsHaveObjects' BY <3>1, QuietScript
    <3>3. Script!Genuine' <=> Script!Genuine BY <3>1 DEF Script!Genuine, Script!Number
    <3>4. Script!Verified' <=> Script!Verified BY <3>1 DEF Script!Verified, Script!NoObject, Script!NoBytes
    <3> QED BY <3>1, <3>2, <3>3, <3>4 DEF ScriptInv, Script!ScriptsVerifyWhatWasSigned,
      Script!NativeVerifiesWhatWasSigned, Script!MockAcceptsTheGenuine
  <2> QED BY <2>1, <2>2, KeygenScript, DeleteScript, SignScript, VerifyScript DEF Script!Next
<1>3. ScriptInv => Script!ScriptsVerifyWhatWasSigned BY DEF ScriptInv
<1> QED BY <1>1, <1>2, <1>3, PTL DEF Script!Spec

(* Rust beside the other two, of which a program has one: what is proved   *)
(* of the Rust binding holds in the whole.                                 *)
THEOREM RustInBindings == Bindings => Spec
<1>1. BindingsInit => Init BY DEF BindingsInit
<1>2. [BindingsNext]_<<binding, vars, script>> => [Next]_vars BY DEF BindingsNext
<1> QED BY <1>1, <1>2, PTL DEF Bindings, Spec

(* And what is proved of Python and Node.js does.                          *)
THEOREM ScriptsInBindings == Bindings => []ScriptsVerifyWhatWasSigned
<1> DEFINE Here == binding = "script"
<1>1. Script!Spec => []Script!ScriptsVerifyWhatWasSigned BY ScriptsVerify
<1>2. BindingsInit /\ Here => Script!Init BY DEF BindingsInit
<1>3. Here /\ [BindingsNext]_<<binding, vars, script>> => Here' /\ [Script!Next]_(Script!vars)
  BY DEF BindingsNext, script, Script!vars, Script!fixed
<1>4. ~Here /\ [BindingsNext]_<<binding, vars, script>> => ~Here'
  BY DEF BindingsNext, script
<1>5. (Here => Script!ScriptsVerifyWhatWasSigned) => ScriptsVerifyWhatWasSigned
  BY DEF ScriptsVerifyWhatWasSigned
<1> HIDE DEF Here
<1>6. Bindings /\ Here => []Here /\ Script!Spec BY <1>2, <1>3, PTL DEF Bindings, Script!Spec
<1>7. Bindings /\ ~Here => []~Here BY <1>4, PTL DEF Bindings
<1> QED BY <1>1, <1>5, <1>6, <1>7, PTL
=============================================================================
