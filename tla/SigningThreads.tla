--------------------------- MODULE SigningThreads ---------------------------
(***************************************************************************)
(* Threads that generate keys and sign through the library at the same     *)
(* time.  Both algorithms keep their random-data source in file-scope      *)
(* variables (src/ml_dsa/utils.c, src/slh_dsa/utils.c) that every call     *)
(* sets, draws from and clears, without a lock.  Each load and store of    *)
(* these variables is a step.                                              *)
(*                                                                         *)
(* Unlocked, these accesses are data races.  A load inside one draw may    *)
(* return the value in memory or the value this thread last loaded or      *)
(* stored, since the compiler may keep a file-scope variable in a register *)
(* across the copy (KeptOrNow).                                            *)
(*                                                                         *)
(* Sizes are counted in units of 16 bytes: the values in the code are      *)
(* EntropyUnits >= 8, SeedUnits = 4, MlDraw = 2, SlhDraw = 1 and           *)
(* SlhKeyUnits = 3.                                                        *)
(***************************************************************************)
EXTENDS Integers

CONSTANTS
  Threads,
  Inputs,         \* random_data of a keygen; message and secret key of a sign
  Null,           \* the NULL pointer
  ZeroSeed,       \* the seed slh_dsa_derandomize gives when malloc fails
  SystemUnits,    \* what /dev/urandom, or the zero fill after it, can give
  EntropyUnits,   \* size of the random_data of a keygen
  SeedUnits,      \* size of the seed of a sign
  MlDraw,         \* what ML-DSA draws, in keygen and in sign
  SlhDraw,        \* what SLH-DSA draws in sign
  SlhKeyUnits,    \* what SLH-DSA key generation takes of its random_data
  SizeMod,        \* 2^(width of size_t)
  MaxCalls,       \* bound: calls made by each thread
  Locked          \* TRUE when the callers serialise the calls that draw

ASSUME NullAssumption == Null \notin Threads

ASSUME SizesAssumption ==
  /\ EntropyUnits \in Nat /\ SeedUnits \in Nat /\ MlDraw \in Nat /\ SlhDraw \in Nat
  /\ 0 < MlDraw /\ MlDraw <= SeedUnits /\ MlDraw <= EntropyUnits
  /\ 0 < SlhDraw /\ SlhDraw <= SeedUnits
  /\ SlhKeyUnits \in Nat /\ SlhKeyUnits <= EntropyUnits
  /\ SizeMod \in Nat /\ EntropyUnits < SizeMod /\ SeedUnits < SizeMod

ASSUME OtherAssumption == MaxCalls \in Nat /\ Locked \in BOOLEAN

Sources == {"ml", "slh"}
Ops == {"ml_keygen", "ml_sign", "slh_keygen", "slh_sign"}
MlOps == {"ml_keygen", "ml_sign"}
DrawingOps == Ops \ {"slh_keygen"}

(* Mistake: the other definition of `randombytes` is linked. *)
ProviderOther == "slh"

(* Which source the one symbol `randombytes` draws from.  Both vendored    *)
(* trees define it; every build links the definition of the ML-DSA tree.   *)
Provider == "ml"

(* The source an operation sets before, and clears after, its draw. *)
SourceOf(o) == IF o \in MlOps THEN "ml" ELSE "slh"

BufferUnits(o) == IF o \in {"ml_keygen", "slh_keygen"} THEN EntropyUnits ELSE SeedUnits
DrawUnits(o) ==
  CASE o \in MlOps -> MlDraw
    [] o = "slh_sign" -> SlhDraw
    [] OTHER -> SlhKeyUnits

VARIABLES
  g_random_data,          \* per source: Null, or the thread whose buffer it is
  g_random_data_size,     \* per source
  g_random_data_offset,   \* per source
  pc, op, input, seed,    \* per thread: the call it is in
  kept,                   \* per thread: values of the source kept in registers
  amount, total_copied,   \* per thread: locals of custom_randombytes_impl
  out,                    \* per thread: what it has drawn
  calls,                  \* per thread: calls made
  results                 \* history: what each finished call drew

globals == <<g_random_data, g_random_data_size, g_random_data_offset>>
call == <<op, input, seed>>
draw == <<kept, amount, total_copied, out>>
history == <<calls, results>>
vars == <<globals, pc, call, draw, history>>

Unset == <<"unset">>
Stray == <<"stray">>                   \* read outside every live buffer
System(u) == <<"system", u>>
Unit(s, k) == <<"buffer", s, k>>       \* unit k of a buffer that holds s

(* Mistake: the message is left out of what the seed is derived from. *)
SeedForOperation(o, i) == <<o>>

(* What a call draws from: the random_data it was given, or the seed its   *)
(* sign derives from message and key. ML-DSA hashes the two (SHAKE-256), so *)
(* different inputs give different seeds. SLH-DSA only mixes them with XOR: *)
(* equal inputs give equal seeds, and nothing below rests on the converse.  *)
SeedFor(o, i) == <<o, i>>
Seeds == {SeedFor(o, i) : o \in Ops, i \in Inputs} \cup {ZeroSeed}

(* Subtraction on size_t. *)
SubSize(a, b) == IF a >= b THEN a - b ELSE a - b + SizeMod

Drawing(t) == pc[t] # "idle" /\ op[t] \in DrawingOps

Init ==
  /\ g_random_data = [a \in Sources |-> Null]
  /\ g_random_data_size = [a \in Sources |-> 0]
  /\ g_random_data_offset = [a \in Sources |-> 0]
  /\ pc = [t \in Threads |-> "idle"]
  /\ op = [t \in Threads |-> "slh_keygen"]
  /\ input \in {[t \in Threads |-> i] : i \in Inputs}
  /\ seed = [t \in Threads |-> ZeroSeed]
  /\ kept = [t \in Threads |-> [data |-> Null, size |-> 0, offset |-> 0]]
  /\ amount = [t \in Threads |-> 0]
  /\ total_copied = [t \in Threads |-> 0]
  /\ out = [t \in Threads |-> <<>>]
  /\ calls = [t \in Threads |-> 0]
  /\ results = {}

Goto(t, label) == pc' = [pc EXCEPT ![t] = label]

(* A call begins: a sign derives its seed into its stack frame first, and  *)
(* the one of SLH-DSA is all zero when its allocation fails.  SLH-DSA key  *)
(* generation uses random_data itself and no source.                       *)
Call(t) ==
  /\ pc[t] = "idle"
  /\ calls[t] < MaxCalls
  /\ \E o \in Ops, i \in Inputs :
       /\ (Locked /\ o \in DrawingOps) => \A u \in Threads : ~Drawing(u)
       /\ op' = [op EXCEPT ![t] = o]
       /\ input' = [input EXCEPT ![t] = i]
       /\ \E s \in {SeedFor(o, i)} \cup (IF o = "slh_sign" THEN {ZeroSeed} ELSE {}) :
            seed' = [seed EXCEPT ![t] = s]
       /\ Goto(t, IF o \in DrawingOps THEN "init_data" ELSE "expand")
       /\ out' = [out EXCEPT ![t] = [k \in 0 .. DrawUnits(o) - 1 |-> Unset]]
  /\ calls' = [calls EXCEPT ![t] = @ + 1]
  /\ UNCHANGED <<globals, kept, amount, total_copied, results>>

(* ml_dsa_init_random_source and slh_dsa_init_random_source. *)
InitData(t) ==
  /\ pc[t] = "init_data"
  /\ g_random_data' = [g_random_data EXCEPT ![SourceOf(op[t])] = t]
  /\ Goto(t, "init_size")
  /\ UNCHANGED <<g_random_data_size, g_random_data_offset, call, draw, history>>

InitSize(t) ==
  /\ pc[t] = "init_size"
  /\ g_random_data_size' = [g_random_data_size EXCEPT ![SourceOf(op[t])] = BufferUnits(op[t])]
  /\ Goto(t, "init_offset")
  /\ UNCHANGED <<g_random_data, g_random_data_offset, call, draw, history>>

InitOffset(t) ==
  /\ pc[t] = "init_offset"
  /\ g_random_data_offset' = [g_random_data_offset EXCEPT ![SourceOf(op[t])] = 0]
  /\ Goto(t, "check_data")
  /\ UNCHANGED <<g_random_data, g_random_data_size, call, draw, history>>

(* custom_randombytes_impl, line 48: the two tests, and line 69. *)
CheckData(t) ==
  /\ pc[t] = "check_data"
  /\ kept' = [kept EXCEPT ![t].data = g_random_data[Provider]]
  /\ Goto(t, IF g_random_data[Provider] = Null THEN "system" ELSE "check_size")
  /\ UNCHANGED <<globals, call, amount, total_copied, out, history>>

CheckSize(t) ==
  /\ pc[t] = "check_size"
  /\ kept' = [kept EXCEPT ![t].size = g_random_data_size[Provider],
                          ![t].offset = g_random_data_offset[Provider]]
  /\ total_copied' = [total_copied EXCEPT ![t] = 0]
  /\ Goto(t, IF g_random_data_size[Provider] = 0 THEN "system" ELSE "measure")
  /\ UNCHANGED <<globals, call, amount, out, history>>

(* Lines 50-65. *)
DrawSystem(t) ==
  /\ pc[t] = "system"
  /\ \E u \in SystemUnits : out' = [out EXCEPT ![t] = [k \in DOMAIN @ |-> System(u)]]
  /\ Goto(t, "restore_data")
  /\ UNCHANGED <<globals, call, kept, amount, total_copied, history>>

(* What a load of the bound source may return inside a draw. *)
KeptOrNow(t) ==
  [data   : {kept[t].data, g_random_data[Provider]},
   size   : {kept[t].size, g_random_data_size[Provider]},
   offset : {kept[t].offset, g_random_data_offset[Provider]}]

(* Lines 74-77. *)
Measure(t) ==
  /\ pc[t] = "measure"
  /\ \E seen \in KeptOrNow(t) :
       LET wanted == DrawUnits(op[t]) - total_copied[t]
           remaining == SubSize(seen.size, seen.offset)
       IN  amount' = [amount EXCEPT ![t] = IF wanted > remaining THEN remaining ELSE wanted]
  /\ Goto(t, "copy")
  /\ UNCHANGED <<globals, call, kept, total_copied, out, history>>

(* The unit at index k of the buffer of thread u: nothing is there unless  *)
(* u is in a call whose buffer is that long.                               *)
Fetch(u, k) ==
  IF u # Null /\ Drawing(u) /\ k < BufferUnits(op[u]) THEN Unit(seed[u], k) ELSE Stray

(* Lines 79-83. *)
Copy(t) ==
  /\ pc[t] = "copy"
  /\ \E seen \in KeptOrNow(t) :
       out' = [out EXCEPT ![t] =
                 [k \in DOMAIN @ |->
                    IF k \in total_copied[t] .. total_copied[t] + amount[t] - 1
                    THEN Fetch(seen.data, seen.offset + (k - total_copied[t]))
                    ELSE @[k]]]
  /\ total_copied' = [total_copied EXCEPT ![t] = @ + amount[t]]
  /\ Goto(t, "advance")
  /\ UNCHANGED <<globals, call, kept, amount, history>>

StoreOffset(t, o) ==
  /\ g_random_data_offset' = [g_random_data_offset EXCEPT ![Provider] = o]
  /\ kept' = [kept EXCEPT ![t].offset = o]

(* Line 84. *)
Advance(t) ==
  /\ pc[t] = "advance"
  /\ \E seen \in KeptOrNow(t) : StoreOffset(t, (seen.offset + amount[t]) % SizeMod)
  /\ Goto(t, "wrap")
  /\ UNCHANGED <<g_random_data, g_random_data_size, call, amount, total_copied, out, history>>

(* Mistake: the loop condition is `<=`. *)
WrapOnceMore(t) ==
  /\ pc[t] = "wrap"
  /\ \E seen \in KeptOrNow(t) :
       IF seen.offset >= seen.size THEN StoreOffset(t, 0)
       ELSE UNCHANGED <<g_random_data_offset, kept>>
  /\ Goto(t, IF total_copied[t] <= DrawUnits(op[t]) THEN "measure" ELSE "restore_data")
  /\ UNCHANGED <<g_random_data, g_random_data_size, call, amount, total_copied, out, history>>

(* Lines 87-89, and the loop condition of line 72. *)
Wrap(t) ==
  /\ pc[t] = "wrap"
  /\ \E seen \in KeptOrNow(t) :
       IF seen.offset >= seen.size THEN StoreOffset(t, 0)
       ELSE UNCHANGED <<g_random_data_offset, kept>>
  /\ Goto(t, IF total_copied[t] < DrawUnits(op[t]) THEN "measure" ELSE "restore_data")
  /\ UNCHANGED <<g_random_data, g_random_data_size, call, amount, total_copied, out, history>>

(* slh_dsa_shake_128s_keygen: the start of random_data is the seed. *)
Expand(t) ==
  /\ pc[t] = "expand"
  /\ out' = [out EXCEPT ![t] = [k \in DOMAIN @ |-> Unit(seed[t], k)]]
  /\ Goto(t, "return")
  /\ UNCHANGED <<globals, call, kept, amount, total_copied, history>>

(* Mistake: the call returns without restoring. *)
RestoreNothing(t) ==
  /\ pc[t] = "restore_data"
  /\ Goto(t, "return")
  /\ UNCHANGED <<globals, call, draw, history>>

(* ml_dsa_restore_original_random and slh_dsa_restore_original_random. *)
RestoreData(t) ==
  /\ pc[t] = "restore_data"
  /\ g_random_data' = [g_random_data EXCEPT ![SourceOf(op[t])] = Null]
  /\ Goto(t, "restore_size")
  /\ UNCHANGED <<g_random_data_size, g_random_data_offset, call, draw, history>>

(* Mistake: the size is not restored. *)
RestoreKeepsSize(t) ==
  /\ pc[t] = "restore_size"
  /\ Goto(t, "restore_offset")
  /\ UNCHANGED <<globals, call, draw, history>>

RestoreSize(t) ==
  /\ pc[t] = "restore_size"
  /\ g_random_data_size' = [g_random_data_size EXCEPT ![SourceOf(op[t])] = 0]
  /\ Goto(t, "restore_offset")
  /\ UNCHANGED <<g_random_data, g_random_data_offset, call, draw, history>>

RestoreOffset(t) ==
  /\ pc[t] = "restore_offset"
  /\ g_random_data_offset' = [g_random_data_offset EXCEPT ![SourceOf(op[t])] = 0]
  /\ Goto(t, "return")
  /\ UNCHANGED <<g_random_data, g_random_data_size, call, draw, history>>

(* The call returns and its stack frame is gone. *)
Return(t) ==
  /\ pc[t] = "return"
  /\ results' = results \cup {[op |-> op[t], input |-> input[t], seed |-> seed[t], drawn |-> out[t]]}
  /\ Goto(t, "idle")
  /\ UNCHANGED <<globals, call, draw, calls>>

Step(t) ==
  \/ InitData(t) \/ InitSize(t) \/ InitOffset(t)
  \/ CheckData(t) \/ CheckSize(t) \/ DrawSystem(t)
  \/ Measure(t) \/ Copy(t) \/ Advance(t) \/ Wrap(t)
  \/ Expand(t)
  \/ RestoreData(t) \/ RestoreSize(t) \/ RestoreOffset(t)
  \/ Return(t)

Next == \E t \in Threads : Call(t) \/ Step(t)

Spec == Init /\ [][Next]_vars

(* The operating system runs every thread; nothing obliges one to call. *)
FairSpec == Spec /\ \A t \in Threads : WF_vars(Step(t))
-----------------------------------------------------------------------------
Labels == {"idle", "init_data", "init_size", "init_offset", "check_data", "check_size",
           "system", "measure", "copy", "advance", "wrap", "expand",
           "restore_data", "restore_size", "restore_offset", "return"}

TypeOK ==
  /\ g_random_data \in [Sources -> Threads \cup {Null}]
  /\ g_random_data_size \in [Sources -> 0 .. SizeMod - 1]
  /\ g_random_data_offset \in [Sources -> 0 .. SizeMod - 1]
  /\ pc \in [Threads -> Labels]
  /\ op \in [Threads -> Ops]
  /\ input \in [Threads -> Inputs]
  /\ seed \in [Threads -> Seeds]
  /\ kept \in [Threads -> [data : Threads \cup {Null}, size : 0 .. SizeMod - 1,
                         offset : 0 .. SizeMod - 1]]
  /\ amount \in [Threads -> Nat]
  /\ total_copied \in [Threads -> Nat]
  /\ DOMAIN out = Threads
  /\ calls \in [Threads -> 0 .. MaxCalls]

(* The labels at which a thread's own store to the pointer, or to the      *)
(* size, has been made and not yet undone.                                 *)
HasSetData(t) == pc[t] \in {"init_size", "init_offset", "check_data", "check_size",
                            "system", "measure", "copy", "advance", "wrap", "restore_data"}
HasSetSize(t) == pc[t] \in {"init_offset", "check_data", "check_size",
                            "system", "measure", "copy", "advance", "wrap",
                            "restore_data", "restore_size"}

(* In every interleaving, a pointer left in a source belongs to a call     *)
(* that is still running: it never points into the frame of a call that    *)
(* has returned (ml_dsa/utils.c:33-38, slh_dsa/utils.c:44-49).             *)
NeverDangles ==
  \A a \in Sources :
    LET u == g_random_data[a]
    IN  u # Null => SourceOf(op[u]) = a /\ HasSetData(u) /\ Drawing(u)

(* In every interleaving, when no call is running both sources are empty,  *)
(* whatever order the stores of the calls came in: the next call starts    *)
(* from a clean source.                                                    *)
EmptyWhenQuiet ==
  (\A t \in Threads : pc[t] = "idle") =>
    \A a \in Sources : g_random_data[a] = Null /\ g_random_data_size[a] = 0

(* Every copy reads inside the buffer of a call that is still running. *)
ReadsLiveBuffers ==
  \A t \in Threads : \A k \in DOMAIN out[t] : out[t][k] # Stray

SameCall(r, s) == r.op = s.op /\ r.input = s.input

(* Two ML-DSA calls on the same inputs draw the same bytes: keys and       *)
(* signatures are a function of their inputs.                              *)
MlDeterministic ==
  \A r, s \in results : r.op \in MlOps /\ SameCall(r, s) => r.drawn = s.drawn

(* Two SLH-DSA signatures on the same inputs and the same seed draw the    *)
(* same bytes.                                                             *)
SlhDeterministic ==
  \A r, s \in results :
    r.op = "slh_sign" /\ SameCall(r, s) /\ r.seed = s.seed => r.drawn = s.drawn

(* Two different ML-DSA calls never draw the same bytes. *)
MlFresh ==
  \A r, s \in results :
    r.op \in MlOps /\ s.op \in MlOps /\ r.drawn = s.drawn => SameCall(r, s)

(* What a call is meant to draw: the first units of its own buffer. *)
OwnDraw(o, s) == [k \in 0 .. DrawUnits(o) - 1 |-> Unit(s, k)]

Stored(t) == pc[t] \in {"wrap", "restore_data", "restore_size", "restore_offset"}

(* The two sources are exactly what the stores of thread t so far have     *)
(* made them.                                                              *)
SourcesSetBy(t) ==
  \A a \in Sources :
    /\ g_random_data[a] = (IF a = SourceOf(op[t]) /\ HasSetData(t) THEN t ELSE Null)
    /\ g_random_data_size[a] =
         (IF a = SourceOf(op[t]) /\ HasSetSize(t) THEN BufferUnits(op[t]) ELSE 0)
    /\ g_random_data_offset[a] # 0 => a = Provider /\ op[t] \in MlOps /\ Stored(t)

(* The values thread t keeps in registers are those in memory. *)
RegistersCurrent(t) ==
  /\ pc[t] \in {"check_size", "measure", "copy", "advance", "wrap"} =>
       op[t] \in MlOps /\ kept[t].data = t
  /\ pc[t] \in {"measure", "copy", "advance", "wrap"} =>
       kept[t].size = BufferUnits(op[t]) /\ kept[t].offset = g_random_data_offset[Provider]

(* What locking buys, step by step: the thread inside a drawing call is    *)
(* alone with the sources.                                                 *)
SoleUser ==
  Locked => \A t \in Threads : Drawing(t) =>
    /\ \A u \in Threads : Drawing(u) => u = t
    /\ SourcesSetBy(t)
    /\ RegistersCurrent(t)

(* The progress of an ML-DSA call that draws from its own buffer: one      *)
(* iteration is enough, since the buffer is longer than the draw.          *)
DrawingOwn(t) ==
  /\ seed[t] = SeedFor(op[t], input[t])
  /\ pc[t] = "measure" => total_copied[t] = 0
  /\ pc[t] = "copy" => total_copied[t] = 0 /\ amount[t] = MlDraw
  /\ pc[t] \in {"advance", "wrap"} => total_copied[t] = MlDraw
  /\ pc[t] # "system"
  /\ pc[t] \in {"advance", "wrap", "restore_data", "restore_size", "restore_offset", "return"} =>
       out[t] = OwnDraw(op[t], seed[t])

DrawsOwn ==
  Locked => \A t \in Threads : pc[t] # "idle" /\ op[t] \in MlOps => DrawingOwn(t)

DrewOwn ==
  Locked => \A r \in results : r.op \in MlOps =>
    r.seed = SeedFor(r.op, r.input) /\ r.drawn = OwnDraw(r.op, r.seed)

(* With no call running, a locked library holds nothing of the last one.   *)
CleanBetweenCalls ==
  Locked /\ (\A t \in Threads : ~Drawing(t)) =>
    \A a \in Sources : /\ g_random_data[a] = Null
                       /\ g_random_data_size[a] = 0
                       /\ g_random_data_offset[a] = 0

(* The inductive invariant behind ReadsLiveBuffers, MlDeterministic and    *)
(* MlFresh in a locked library: a call that draws works on its own buffer  *)
(* and leaves nothing behind.                                              *)
LockedCalls == SoleUser /\ CleanBetweenCalls /\ DrawsOwn /\ DrewOwn

(* A draw that has begun is finished (utils.c:71, "Copy data until we've   *)
(* filled the output buffer").                                             *)
DrawsEnd == \A t \in Threads : pc[t] = "check_data" ~> pc[t] = "restore_data"
=============================================================================
