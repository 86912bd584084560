# TLA+ models of libbitcoinpqc

libbitcoinpqc puts one C interface in front of two post-quantum signature
schemes, ML-DSA-44 (Dilithium) and SLH-DSA-SHAKE-128s (SPHINCS+), and offers it
to Rust, Python and Node.js. The code of both schemes is kept in the repository,
with versions for vector instructions beside the reference. This directory holds
TLA+ specifications of it, the TLC configurations that check them, and TLAPS
proofs about them. Paths are relative to the repository.

## The system

| component | state it keeps | operations | talks to |
|---|---|---|---|
| random-data sources, `src/{ml_dsa,slh_dsa}/utils.c` | three file-scope variables each: pointer, size, offset | init, restore, `custom_randombytes_impl`; the derived seed | called by the wrappers, and by `randombytes` from inside the schemes |
| wrappers, `src/{ml_dsa,slh_dsa}/{keygen,sign,verify}.c` | none of their own; the seed of a sign lives in its stack frame | install a source, call the scheme, restore | sources, schemes |
| C interface, `src/bitcoinpqc.c` | the heap, and the structs of the caller | keygen, keypair_free, sign, signature_free, verify, three size functions | wrappers |
| ML-DSA, `dilithium/{ref,avx2}` | local to a call | key pair, sign, verify | `randombytes`, SHAKE |
| SLH-DSA, `sphincsplus/*` | local to a call | key pair, sign, verify | `randombytes`, SHAKE, SHA-2, Haraka |
| hash functions, `fips202*.c`, `sha2*.c`, `keccak4x` | a state per message, or per group of 2, 4 or 8 | absorb, finalize, squeeze; blocks | |
| Rust binding, `src/lib.rs` | byte vectors in the heap it shares with C | `generate_keypair`, `sign`, `verify`, copies, drops | C interface, secp256k1 crate |
| Python and Node.js bindings | the loaded library or a mock; structs held by objects | the same | C interface |

What is hard in it:

* **Shared state without a lock.** Both sources are file-scope variables that a
  call sets, draws from and clears. The Rust functions that reach them are safe
  and may be called from several threads, and `cargo test` does so.
* **Which `randombytes`.** Both vendored trees define the symbol and the static
  library holds both (`CMakeLists.txt:26-29`). Every target links the one of the
  ML-DSA tree, so SLH-DSA signing draws from the ML-DSA source.
* **A loop that must make progress**, with unsigned arithmetic at a wrap-around.
* **Partial failure and the life of a block.** `malloc` or a scheme may fail half
  way; a struct may be freed, filled and freed again; keys pass from one owner to
  another and must be wiped by each.
* **Mistakes that signer and verifier share.** Most of the schemes is sequential
  arithmetic on bytes. If both sides are wrong in the same way, every test that
  signs and verifies still passes: a hash of other bytes, an address used twice, a
  checksum in the wrong place, a challenge that is not uniform.
* **Two versions of everything.** The vector code does several things at once,
  with lanes left over at the end, in another order and with other instructions;
  what it computes must be what the reference computes.
* **Edges that are hardly ever hit.** One coefficient in millions needs a hint in
  one particular direction; a message length in 64 needs another block.

`PROJECT.json` lists each hazard at its line with the properties about it.

## Modules

A module models one component. An operator introduced by a comment "Mistake: ..."
is a wrong version of the definition after it; no specification uses it. Put in
its place it makes the property fail that `PROJECT.json` pairs it with, which
shows that the property can fail.

### Library, run `ml_source`, `slh_source`, `threads_*`, `api`

| module | models | proved in |
|---|---|---|
| `CyclicSource` | what a random-data source promises: install, withdraw, serve atomically from a cyclic buffer, or from the system | |
| `MlRandomSource`, `SlhRandomSource` | the two `utils.c`, one action per iteration of the copy loop; both implement `CyclicSource` | `MlDsaProofs`, `SlhDsaProofs` |
| `SlhDerandomize` | `slh_dsa_derandomize`: which bytes of key and message each byte of the seed is made of | `SlhDsaProofs` |
| `SigningThreads` | threads in key generation and signing, one action per load or store of a file-scope variable | `SigningThreadsProofs` |
| `PqcApi` | `src/bitcoinpqc.c` over the caller's structs and the heap, one action per call and outcome | `PqcApiProofs` |

*The two sources.* Variables have their C names. A byte is known by its index in
the installed buffer, by `OsByte` or by `ZeroByte`. `SubSize` is the subtraction
of `size_t`. The two C functions differ: ML-DSA keeps what `fread` gave and zeroes
the rest, SLH-DSA zeroes all of it; ML-DSA resets the offset with `>=`, SLH-DSA
with `%`; SLH-DSA keeps `remaining` in a local and has a branch without a loop.
The abstract position is the offset, or while the loop runs the offset the request
started at.

*SigningThreads.* `pc[t]` is where thread t is in a call; `op`, `input` and `seed`
say which call; `g_random_data` and its companions are indexed by source. A unit
of data is 16 bytes, so that the sizes of the code (128, 64, 32, 16 and 48 bytes)
become 8, 4, 2, 1, 3. Unserialised, the accesses are data races. The model takes
what a build can do: a load inside a draw returns what is in memory or what the
same thread last loaded or stored (`KeptOrNow`), since a compiler may keep the
variable in a register across the copy. A copy reads `Stray` when no running call
owns a buffer at that place. `Locked` says that the callers serialise the calls
that draw. Nothing in the library does this: it is the discipline under which the
library keeps its promise, and the premise of the `Locked...` theorems.

*PqcApi.* A key is the random data it was made from, a signature the key and
message; the verdict of a scheme is `Genuine`. Blocks have a size (0 when free)
and a content that survives `free`, as in C. `malloc` returns any free block or
NULL. `FreedIsBlank` is about the stores of the source text: a compiler may drop a
`memset` whose block is freed next.

### Bindings, run `bindings`

| module | models | proved in |
|---|---|---|
| `RustBinding` | `generate_keypair`, `sign`, `verify`, the copies and the drops, over an instance of `PqcApi` whose heap Rust's vectors share | `BindingsProofs` |
| `ScriptBindings` | the Python and the Node.js binding: names and numbers of algorithms, the C library or the mock, structs held by objects | `BindingsProofs` |
| `MCBindings` | either of them | `BindingsProofs` |

In `RustBinding` a label (`Algorithm`) is an argument of each call, since the
fields of a key are public and any label can stand on any bytes. Converting a
secret key from or to hex (`from_str`, serde) makes a copy of it in another block,
which the code drops as it is: `unwiped` has those blocks. secp256k1 is external
and symbolic.

### ML-DSA, run `ml_dsa`

| module | models | proved in |
|---|---|---|
| `MlDsaRounding` | `reduce.c` and `rounding.c`, and one lane of `avx2/rounding.c`, on one coefficient through signer and verifier, with the numbers of the code | `MlDsaPolynomialProofs` |
| `MlDsaPacking`, `Avx2` | the byte layout of keys and signatures, and the bit packing of all polynomials in both builds. A word is a set of named bits, so that one run of a function covers all inputs | |
| `MlDsaHints` | the encoding of the hints: `pack_sig` and the checks of `unpack_sig` on any bytes | `MlDsaProofs` |
| `MlDsaScheme` | key pair, the signing loop and verification of both builds: checks, rejections, hints, the early storing of hints in AVX2 | |
| `MlDsaRejection` | the nonce of the signing loop past the end of its 16 bits, in both builds | `MlDsaProofs` |
| `MlDsaSampling`, `MlDsaMatrix` | rejection sampling of one polynomial and of several side by side; the rows of the matrix, four polynomials at a time | `MlDsaPolynomialProofs` |
| `MlDsaChallenge` | `poly_challenge`: the shuffle and its signs | `MlDsaPolynomialProofs` |
| `SignedMessage` | `crypto_sign` and `crypto_sign_open` of both schemes: copies in place, contexts, what is wiped | `MlDsaProofs` |
| `MlDsaRanges` | how large coefficients get on their way through the three functions of both builds | |
| `MCMlDsa` | the instances, side by side | `PartsProofs` |

### SPHINCS+ and the hash functions, run `sphincs`

| module | models | proved in |
|---|---|---|
| `SphincsParams` | the eighteen parameter sets with all they derive, and the three layouts of an address | |
| `Addresses`, `AddressFields`, `SphincsAddress` | `address.c` on bytes, which implements records of fields | `SlhDsaProofs` |
| `SphincsWots` | chain lengths with the checksum, and chains one at a time or in 2, 4 or 8 lanes | `SlhDsaProofs` |
| `SphincsTrees` | `treehash` in 1, 2, 4 or 8 lanes with its stack, and `compute_root` | `SphincsProofs` |
| `SphincsScheme` | FORS, the hypertree, signing and verification in four builds, as terms over addresses | `SphincsProofs` |
| `SphincsHash` | what every `thash` and `prf_addr`, simple and robust, scalar and vector, gives its hash function | |
| `MessageHash` | how a message is hashed and the digest cut up | |
| `KeccakF` | Keccak-f[1600], as unrolled twice in C and once in AVX2, beside the standard written in coordinates | |
| `Sponge` | absorb, finalize, squeeze in five versions, one action per round of a loop | `SlhDsaProofs` |
| `Sha2Rounds`, `Sha2Padding`, `Mgf1` | rounds and schedules, padding and seeding, and masks of SHA-256 and SHA-512 in four versions | |
| `MCSphincs` | the instances, side by side | `PartsProofs` |

The parts of a scheme are sequential functions that share no state, so
`MCMlDsa` and `MCSphincs` hold one part at a time: `part` says which, `v1`, `v2`,
... are its variables, and the unused ones are idle. Every instance's assumptions
are in `PartsAssumption` or `PiecesAssumption`. A property of such a run is the conjunction of what its
comment names, each about one part. `MCBindings` does the same for the bindings.

What the models abstract, and why the properties survive it:

* *Hashes are terms.* Equal values were computed from equal inputs; collisions
  are not considered. In `SphincsScheme` the term holds the address, which makes
  reuse of an address visible.
* *The transform is the product it computes* in `MlDsaScheme`; `MlDsaRanges` is
  about the sizes of what happens inside it. That the butterflies compute the
  product is not shown.
* *Words are sets of bits* in `KeccakF` and the packing, *names* in `Sha2Rounds`:
  what is compared is which inputs reach an output and in which way, which is
  where an unrolled loop goes wrong.
* *Random choices are inputs*: which candidates sampling accepts, which bytes
  `poly_challenge` draws, which attempts are rejected are chosen at the start.
* *Both builds run side by side* wherever the property compares them.

Refinements: the two sources implement `CyclicSource`; `SphincsAddress`, bytes in
the three layouts, implements `AddressFields`, a record of fields, where the
mapping reads each field from its place.

## Runs

| run | question | bounds | result |
|---|---|---|---|
| `ml_source` | does the ML-DSA loop implement the cyclic source and end? | buffers of 1 to 4 bytes, requests of 0 to 6, any sequence of calls | holds |
| `slh_source` | and the SLH-DSA loop? | the same | holds |
| `threads_locked` | what does a locked library guarantee? | 2 threads, 2 calls each, 2 inputs | holds |
| `threads_free` | what survives any interleaving? | 2 threads, 1 call each, 2 inputs | holds |
| `slh_twice` | is SLH-DSA signing deterministic? | 1 thread, 2 calls | violated |
| `stray_race` | are reads inside live buffers without a lock? | 2 threads, 1 call each | violated |
| `hang_race` | does every draw end without a lock? | 2 threads, 1 call each | violated |
| `api` | does the interface keep structs and heap of one piece? | 2 key pairs, 1 signature, 5 blocks, 2 random inputs, 1 message | holds |
| `bindings` | do Rust, Python and Node.js verify what was signed, leak nothing, leave no secret behind? | Rust: 4 blocks, 3 messages, 1 signature; scripts: 2 objects, 2 messages | holds |
| `python_names` | does a Python name mean the C algorithm? | any one call | violated |
| `ml_dsa` | are the parts of ML-DSA right, in both builds? | below | holds |
| `sphincs` | are those of SPHINCS+ and its hash functions? | below | holds |

Why the bounds are enough:

* *Sources.* A request of 6 on a buffer of 4 can be shorter than, equal to or
  longer than what remains, and on a buffer of 1 wraps around six times. `SizeMod`,
  the size of `size_t`, is small but larger than every buffer. The proofs cover
  all sizes.
* *Threads.* Two suffice for every race, since a source is one set of variables;
  the proofs cover any number.
* *api.* With 5 blocks two key pairs and a signature can be live at once; one
  block fewer and `malloc` fails by exhaustion, and it may fail anyway. Structs
  are freed before they are filled again; with `Reuse`, which the proofs cover,
  blocks are lost and `NoLeak` is not promised.
* *bindings.* Four blocks hold the C struct of a call and the vectors copied from
  it. Two of the messages share their first 32 bytes, which is what secp256k1
  signs. `MaxSigned` bounds the signatures remembered.
* *ml_dsa.* Rounding, ranges and packing use the numbers of the code: the
  rounding at every value where `decompose` or `power2round` changes and `Radius`
  around it, the packing bit by bit in all modes, the ranges in intervals. The
  hints have two polynomials of five places and up to three hints, with every
  byte at every place of the encoding. The schemes use Q = 41 and one coefficient
  with two rows, and two coefficients with one row, small enough for every y and
  large enough that each of the four rejections, a hint, too many hints, and a
  wrap-around of the ring occur. The nonce has the widths 32 and 128 for 16 and 64
  bits, so that it wraps within a run; at most two first numbers are accepted,
  as the properties compare two attempts at most. Sampling has vectors of 2 lanes
  for 8 and rates with and without bytes left over at the end of a block. The
  challenge of 3 in 5 places is checked against every way to draw it.
* *sphincs.* Addresses: a parameter set for each size and each layout. Chains:
  every message of one byte, in two digits of four bits and a checksum of three,
  so that lanes are left over for every number of them. Trees: heights 1 to 4
  (`TallestTree`), so that 8 lanes are as many as the leaves and fewer, and the first
  and the fourth tree of a row (`TreesOfARow`); the theorem has every height. Signatures: two layers of eight leaves
  (`SchemeLayers`, `LayerHeight`), two trees of eight for the message (`ForsTrees`,
  `ForsHeight`), two chains of three places (`ChainCount`, `ChainLength`), four digests
  that differ in tree, leaf or indices; any one part changed. The theorem has
  every number of each. Hash functions: the byte sizes of the code, and 1, 2 and 3 blocks.
  Messages: all nine sets, two bytes around every block edge. Keccak: full words,
  each of four instances from another state, twice. The sponge: rates of 4 and 6, inputs and outputs of up
  to 13 bytes in every cut, so that a cut can lie before, at and behind each block
  edge. Padding and masks: every length around the edges of the code. The derived
  seed: messages of 0, 1, 64, 65 and 130 bytes, with differences in any one byte,
  in two at the distances of the fold and the mixing, and in the key and what
  repeats it.

Random data, inputs and blocks are interchangeable, so symmetry is used, but never
in a run with a liveness property. Deadlock is not checked where a function comes
to its end, or a thread or caller may stop.

Fairness. `FairSpec` of the two sources has weak fairness of the loop: it is
sequential code without a blocking call. `FairSpec` of `SigningThreads` has weak
fairness of each thread's next step inside a call, which is what the operating
system's scheduler gives. Nothing obliges a thread to make a call. The signing
loop of ML-DSA has no liveness property: that it ends is a matter of chance.

### Findings

1. *SLH-DSA signatures are not deterministic* (`slh_twice`). The seed goes into
   the SLH-DSA source, the draw comes from the ML-DSA one, which is empty, hence
   from `/dev/urandom`. `README.md:37` and `tests/algorithm_tests.rs:257` say they
   are deterministic.
2. *Reads outside every buffer* (`stray_race`): pointer, size and offset of
   different calls are combined, through functions that are safe Rust. In the same
   way another thread's call makes an ML-DSA signature come out differently.
3. *A draw that never ends* (`hang_race`): the source is cleared during the loop,
   and each iteration copies 0 bytes.
4. *Python's numbers are not those of C* (`python_names`): `ML_DSA_44` makes
   SLH-DSA keys, and `SLH_DSA_SHAKE_128S` fails.

Differences between text and code met on the way, without a run of their own:

* `From<Algorithm>` for the C enumeration panics on a combination of flags, which
  a key's public field allows (`lib.rs:132`).
* Python gives SLH-DSA sizes of 0 and the Node.js mock a secret key of 2528 bytes
  where C has 2560. `setLibraryForTesting` writes a variable nobody reads.
* `slh_dsa_derandomize`: the first byte of the key and every 64th of the message
  are overwritten and do not reach the seed, and bytes in the same column of 64
  cancel: a message that repeats the key gives a seed of zeros, as a failed malloc
  does. `SeedIsTheColumns` says exactly when two inputs get the same seed. As the
  source with that seed is never drawn from, nothing follows now.
* The Rust binding wipes a secret key when it drops it (`lib.rs:295`), but not the
  copies in `from_str` (line 257) and in `hex_bytes` (lines 29 and 37).
  `OnlyConversionsLeaveSecrets` says that there are no others.
* The comment of `reduce32` says that the result is at least -6283008; it can be
  -6283009, which `Reduced` proves and `MlDsaRanges` allows for. That of
  `montgomery_reduce` fails at its end point a = Q * 2^31.
* `avx2/sign.c:405` says of z that "shortness follows from unpacking", but the
  packing holds coefficients up to GAMMA1 and the reference rejects those from
  GAMMA1 - BETA on (`ref/sign.c:314`); and `use_hint` of AVX2 differs from the
  reference at a low part of 0 with a hint, which no signer makes. So the two
  verifiers do not agree on everything they may receive. `VerifiersDiffer` says on
  what: with such a hint they do not both accept, without one the reference accepts
  what AVX2 accepts if z is short. The run has both kinds of disagreement.

## Proofs

TLAPS proves, for all values of the constants that meet the named assumptions
(sizes are natural numbers below the range of `size_t`, buffers are not empty,
draws fit in the buffers they are meant for):

### Library

* `MlDsaProofs`, `SlhDsaProofs`, the two sources: types; the offset stays inside
  the buffer; the loop implements `CyclicSource`. The inductive invariant adds to
  the types that the offset is in range, that inside the loop a buffer is
  installed, that the offset is where the cyclic stream has got to after
  `total_copied` bytes, and that the bytes copied so far are those of the stream.
  A step of the loop maps to a stutter and the end of a request to `Serve`. The
  steps about wrapping rest on lemmas about `%`, which each module that needs them
  proves.
* `SlhDsaProofs`, the derived seed: `SeedFollowsTheColumns`, for any length of
  message and any bytes in which two inputs may differ. Differences are followed
  bit by bit: a byte of the buffer differs if it is made of an odd number of the
  bytes that do (`OddXor`). After the fold each place holds its column. The first
  step of the mixing overwrites the first place before anything has read it, which
  loses that column and no other. From then on the step before has left its three
  operands and their sum in the buffer (`LastStep`), so that what is about to be
  overwritten can be had from other places (`AlsoElsewhere`): a difference in the
  buffer stays in it, and none comes from nowhere (`ColumnsKept`).
* `SigningThreadsProofs`, for any number of threads:
  * `TypeCorrect`, whose inductive invariant also says which labels an operation
    visits;
  * `SourceNeverDangles` and `SourcesEmptyWhenQuiet`, locked or not. A pointer in a
    source belongs to a call that has stored it and not yet cleared it; since a
    store replaces the pointer, the property is inductive with the types. For the
    sizes a weaker fact does: some running call of that source is past its store;
  * `LockedCallsHold`: `SoleUser` (the drawing thread is alone; the sources and its
    registers are what its own stores made them), `CleanBetweenCalls`, `DrawsOwn`
    and `DrewOwn` (what it has drawn and what finished calls drew). None of the
    four is inductive without the others: a call starts clean because the last
    one cleaned up, and draws its own buffer because nobody else stored. From it
    `LockedMlDeterministic`, `LockedMlFresh` and `LockedReadsLiveBuffers`.
* `PqcApiProofs`, for any number of structs, blocks, seeds and messages, with the
  only assumption that `Null` is no block: all the properties `api` checks.
  The inductive invariant `Sound` joins the types, `DescribesBlocks`, `Separate`
  (no two structs share a block) and `FreedIsBlank`. The last carries the argument:
  a block that malloc returns is blank while a block of a struct holds a key or a
  signature, so a new block is nobody's yet and filling a struct cannot touch
  another one. That public keys, secret keys and signatures can be told apart
  (`Contents`) excludes sharing between fields of different kinds, hence
  `OneOwner`. `NoLeak` needs a second invariant, `AllOwned`, and the premise that
  a struct is filled only when it is empty. `FailureChangesNothing` follows from
  `GivenBack`: freeing what was just allocated restores the heap.

### Bindings

* `BindingsProofs`, the Rust binding with any number of blocks, any random data and
  messages: `RustLeaksNothing`, `OnlyHexKeepsSecrets`, `RustVerifiesWhatWasSigned`. The
  inductive invariant says at each place of a call what every pointer of the caller
  and of the two C structs of the call points to: which size, which content, and
  whose. The argument of `PqcApiProofs` does not carry over, since memory given
  back by the `hex` crate may still hold a secret key; here `AllocatedIsOwned`
  tells a new block from the others, that is, exactly the blocks that are
  allocated are pointed to.
* `ScriptsVerify`, Python and Node.js, for any pairs, random data and messages: the
  key in an object is one the library made, of the size that goes with its number,
  and a signature is kept with the pair and the message it was made from.

### ML-DSA

* `MlDsaPolynomialProofs`, rounding, for every coefficient below Q, every secret and
  error within the bounds, and both values of GAMMA2: `VerifierFindsHighBits` (one
  hint bit gives the verifier the high bits that were hashed), `SplittingIsExact`
  and `VectorCodeAgrees`, together `EveryModeRounds`. `HighBits88` and `HighBits32`
  show that the multiplication and shift with which the code divides round to the
  nearest multiple; from there `HintWorks` argues that adding a small error moves
  a coefficient by at most one high part, cyclically, and that the hint says
  when. The invariant keeps these facts from one stage to the next.
* `MlDsaPolynomialProofs`, sampling, `SamplingIsTheReferences`. `RowsAreTheMatrix`:
  the invariant says which rows the tables hold at each step of the AVX2 expansion,
  the last one kept for the next call where four polynomials straddle two rows.
  `FirstAreAccepted`: a candidate's rank is how many before it are accepted; each
  lane has stored exactly the candidates below the place it has reached, the one
  of rank r at r, whether it took them from the first blocks, vector-wise, or one
  block at a time. That an N-th accepted candidate exists is shown by counting.
  Sizes of blocks and vectors and the pattern of rejections are arbitrary.
* `MlDsaPolynomialProofs`, `ChallengesAreUniform`, for every N, TAU and size of
  block. The invariant `ChallengeInv`: the coefficients that are set are the places
  of Floyd's method, all before the coefficient to be filled, as many as draws; as
  many of them are -1 as bits were set among those used; and the bytes of the block
  are used once each, up to the next one. `InsertIs` shows that the assignment of
  `poly_challenge` adds one place and moves one sign, also where both places are
  the same. That every set of TAU places comes from TAU! sequences of draws is
  `WalksCount`, by induction: any place x of a set of n+1 may be the last draw, and
  then the n draws before give the set without the place of the last coefficient,
  or, if that is not in the set, without x (`LastDraw`, `DrawsAgain`). This pairs
  the sequences off with the product of the set and n! numbers
  (`PairingIsBijective`).
* `MlDsaProofs`, hints, for every N, K and OMEGA with `SizesAssumption`.
  `HintsHaveOneEncoding`: bytes that `unpack_sig` accepts are those `pack_sig`
  writes for the hints found. While the bytes are read, the invariant says that
  the list of each polynomial read so far rises, lies between its counts, and is
  what was stored in `h`; while they are written again, that what has been written
  equals the first bytes, and that the rest of the list is zero. `HintsStayExact`
  adds the signer's way: hints that passed the count of `sign.c` (a cardinality)
  never make `pack_sig` write behind its list.
* `MlDsaProofs`, `OnlySignedIsOpened`: for any lengths and places of the buffers,
  overlapping or not, and both schemes. The invariant `SignedInv` says how far a
  copy has got and that what lies before and behind that point is still what it
  was: no byte is written before it is read. `PrefixIsSeparate` shows that context
  and message can be told apart again in what is hashed.
* `MlDsaProofs`, `NoncesStayFresh`: the counters of the two builds are congruent
  modulo the width, and the nonces used are an initial piece of the numbers, taken
  modulo the width; so an attempt's are different as long as it uses fewer
  than the width.

### SPHINCS+

* `SlhDsaProofs`, `AddressesImplementTheFields`: from every one of the eighteen
  parameter sets (`SetsFit`) it follows that the six fields lie one behind the
  other in the bytes of an address (`Placed`); a legal address is a byte at every
  place and zero outside the fields (`Legal`). A setter is a write of 1, 4 or 8
  bytes at the place of its field (`SetByte`, `SetWord`, `SetTree`) and outside them
  changes nothing, so the other fields read as before (`Beside`); the bytes of a
  32-bit word give it back (`WordBytes`). Hence every step of `SphincsAddress` is
  a step of `AddressFields`. That the hash sees every field follows in every
  legal state, as the compressed addresses hold all the fields in 22 bytes.
* `SlhDsaProofs`, `ManyLanesGiveTheKey`: for W = 16, a checksum of three digits (as
  in all parameter sets) and messages of up to 136 bytes, which is where the
  checksum no longer fits. `SumsCompare`: if no digit of a message is larger than
  another message's, its checksum is larger; so no message has chains all as long
  as those of another one (`LengthsDiffer`). The counting sort is a bijection, from
  counting the chains with more steps (`PlaceFits`, `PlacesDiffer`). The invariant
  `WotsInv` says by places in that order where each chain stands: those before
  the group at their tops, those dropped from a lane too, those watched as high
  as the step, the others at the start. `ChainClimbs` says what a chain of the
  reference code ends with.

* `SphincsProofs`, `TreesAreBuilt`: for trees of every height up to 27 at any place of
  a row, every leaf, and all five versions; see below.
* `SphincsProofs`, `SignaturesAreRight`: for every number of layers, of chains and of
  trees for the message, of any height, in all four builds; see below.

Four of these need induction over numbers, of a sum and of recursive functions. The
library states it with an operator as a parameter, which the installed provers
cannot instantiate; `Induction` in `SphincsProofs` states it of a set, and proves it
from the least number that is not in the set (`WFMin`).

### The sponge

`SlhDsaProofs`, `SpongeGivesOneStream`, for any two rates that are whole words,
messages and outputs of any length, and every order of calls that the functions
are made for. The properties speak of what has been absorbed in the end and of all
that was squeezed, so none is inductive. `SpongeInv` says at every moment what each
state holds:

* `PosInBlock`: the counter of the state, which is the place in the block while a
  message is absorbed (below the rate, hence `RoomForPadding`), the place in the
  block that is read while ML-DSA squeezes (1 to the rate), and in SPHINCS+ the
  number of bytes not yet read (0 to below the rate).
* `LeftInBlocks`: a caller that asked for whole blocks is owed whole blocks.
* `BytesAreRight`: for some m, m blocks of the message have been permuted and the
  block at hand holds the bytes behind them (`Filled`); later, m blocks and the
  padded one, after which q blocks were squeezed and n bytes given (`Squeezed`),
  where the counter relates q and n (`Counted`), and the output is the first n
  bytes of the stream.

A round of a loop extends what is absorbed or squeezed by a run of bytes. Three
operators name that (`GoesOn`, `NextBytes`, `Whole`), so that the arithmetic of
division by the rate is done once and the five versions cite it.

### Merkle trees

`SphincsProofs`, `TreesAreBuilt`. Where `treehash` is says little about what it will
leave behind; `TreeInv` says what is done when `idx` leaves, or groups of 2, 4 or 8,
are done:

* `Climbed`: while a group rises, its lanes hold neighbouring nodes of level `h`, those
  above the leaves at hand. Near the root fewer nodes than lanes are left, and they
  are in the last lanes (`Adj`, which `left_adj` follows and `prev_left_adj` lags by
  a level).
* `Waits`: on level s a left node waits wherever the number of groups done has bit s.
  It is a counter: putting a node down and going on with the next leaf is the carry,
  and what is joined on the way up are the bits that become 0. From this follows that
  a place of the stack is read only after it was written for this very node
  (`StackHasRoom`), whatever was in that memory before.
* `Reaches`: level h is reached when a multiple of 2^h groups is done.
* `PathUpTo`: of the path those nodes are there whose row has come by (`Needed`), and
  with no leaf wanted none is. `WhichIs` says which row, and `CodePath` in which lane
  the code looks for it.
* For the older `treehash`, `Pile`: the stack holds whole subtrees, each beginning
  where the one before it ends and at a multiple of its own size, together as many
  leaves as are done; all but the last get strictly smaller. Two of the same height on top
  are therefore children of one node, and when all the leaves are done there is one.
* `Verifies`: the verifier is at the node above its leaf.

The sizes are powers of two with a variable exponent. The provers have no rule for
them; `PowerDoubles` obtains 2^(n+1) = 2 * 2^n from the library's theorem that a set
of n elements has 2^n subsets, and the facts about quotients, bits and multiples that
the argument uses are derived from that one. Above height 27 the leaf number that
means "no path" (`~0`) comes too close to the leaves of a tree; the highest tree of
any parameter set has height 14, of FORS.

### Signatures

`SphincsProofs`, `SignaturesAreRight`, the four properties of `SphincsScheme`. A whole
signature is a term that nests over chains, trees and layers, made in loops with
addresses that are changed in place. The proof first says in closed form what every
hash is, then that the loops make just these:

* `Adrs` is an address by its six fields. What an address variable holds after a row
  of setters is one of these (`FieldsAreSet`). `Chain`, `Leaf`, `LayerRows`, `ForsRows` and
  `ForsKey` are the values by layer, tree, leaf, chain and height. All builds make
  them (`MerkleSignIs`, `ForsSignIs`): it does not matter which lane's copy of an
  address is used.
* Following a path gives the root *if and only if* leaf and path are those of the tree
  (`WayIsRight`), as terms are equal only if their parts are. The same holds of a layer
  (`LayerIsVerified`) and of the few-time signature (`ForsIsVerified`). If the root below is
  not the one that was signed, the chains have other lengths; by the checksum
  (`LengthsAssumption`) one of them is shorter than the signer's, and climbing on from
  the signer's value ends with another one than the key has.
* `SchemeInv` is the inductive invariant. In the loop of layer `i` tree and leaf are
  those of the digest divided by the trees below, the addresses are of the layer
  before, and the root is that of its tree (`Signing`); in the verifier's loop the root
  is the signer's *exactly if* nothing was changed so far (`Verifying`, `Broken`).
  The answer is the case of the topmost layer.
* `NoAddressTwice` needs two more facts. Every value in a signature has a rank, which
  bounds the hashes within it, and its parts have smaller ones (`Ranked`), so that
  taking values apart ends in as many steps as the property has (`Level`). And a ranked
  value is told by its address (`AddressesTellValues`): the type says of which kind it
  is and the other fields which of them, for the nodes of the few-time trees because
  each has its own range of indices on every level (`ForsPlacesDiffer`).

The recursive functions of the model are defined at every place they are used with
(`Recursion`, by induction over a set as above). Assumed of the constants are their
types, that a chain has at most 256 places, since the place is one byte of an address,
that a digest's tree is one of the lowest layer's, and the checksum, which
`LengthsDiffer` proves of the lengths that the code computes.

### The parts side by side

The properties of the runs `bindings`, `ml_dsa` and `sphincs` begin with the part
they are about, `part = "hints" => ...`, as the parts share variables. The proofs
above are of the components alone. `PartsProofs` (for the bindings the end of
`BindingsProofs`) carries them over to the specifications that TLC runs: `Parts` is
the component's specification while `part` is its name, which never changes
(`PartStays`, `PieceStays`), its initial states and steps are the component's, and the
variables left over are idle. So `Parts /\ part = "hints" => Hints!Spec`, and where
`part` is another name the property says nothing. The lemmas `Same...` say that the
definitions of two instances with the same constants and variables agree. The
assumptions are those of `MCMlDsa` and `MCSphincs`, which TLC evaluates, and in
`ChainsInPieces` the digits and the checksum that all parameter sets have, in
`TreesInPieces` a height of at most 27.

| property of the run | theorem | rests on |
|---|---|---|
| `RoundingInEveryMode` | `RoundingInParts` | `EveryModeRounds` |
| `HintsAreExact` | `HintsInParts` | `HintsStayExact` |
| `OpensWhatWasSigned` | `SignedInParts` | `OnlySignedIsOpened` |
| `NoncesAreFresh` | `NoncesInParts` | `NoncesStayFresh` |
| `SamplesTheReference` | `SamplesInParts` | `FirstAreAccepted`, `RowsAreTheMatrix` |
| `ChallengeIsUniform` | `ChallengeInParts` | `ChallengesAreUniform` |
| `SpongeIsOneStream` | `SpongeInPieces` | `SpongeGivesOneStream` |
| `ChainsGiveTheKey` | `ChainsInPieces` | `ManyLanesGiveTheKey` |
| `TreesGiveTheRoot` | `TreesInPieces` | `TreesAreBuilt` |
| `SignaturesAreExact` | `SignaturesInPieces` | `SignaturesAreRight` |
| `SeedIsTheColumns` | `SeedInPieces` | `SeedFollowsTheColumns` |
| `AddressesHoldTheFields` | `AddressesInPieces` | `AddressesImplementTheFields` |
| `ScriptsVerifyWhatWasSigned` | `ScriptsInBindings` | `ScriptsVerify` |

`HintRecovers` and `LanesAgree` of the run `ml_dsa` are stated by
`VerifierFindsHighBits` and `VectorCodeAgrees` for the specification of
`MlDsaRounding`, whose variables the run has as its own.

### Model-checked only

* Liveness (`RequestsEnd`, `DrawsEnd`), which the prover cannot do.
* `PackingIsExact`, `CoefficientsStayInRange`, `KeccakFollowsTheStandard`, and of
  `Sha2FollowsTheStandard` the rounds: the numbers in them are those of the code and
  no constant is left open, so that the runs are exhaustive, word by word, bit by
  bit or interval by interval.
* Of `Sha2FollowsTheStandard` the padding and the masks, and
  `HashesWhatTheSchemeDefines`: their lengths enter only through what is left of a
  block, and the runs have every length around every edge.
* `SignersAndVerifiersAgree`, whose proof would need the algebra of the ring.

## Not modelled

* The arithmetic of the transforms (`ntt.c`, `invntt.S`, `ntt.S`, `pointwise.S`) as
  numbers, and of Haraka's rounds: data without control. The assembly of Keccak
  (`f1600x2.s`, `f1600x4.S`), and the functions of `KeccakP-1600-times4` that nothing
  calls.
* `merkle_gen_root` signs a root nobody has written yet and throws the signature
  away; the model takes any chain lengths for that root.
* Benchmarks, fuzzing, examples and the build: they call what is modelled. Code no
  target compiles (`src/slh_dsa/slh_dsa.c`, the sketch of a Node.js addon).

What could be added: the masks of `Mgf1` for any length.
