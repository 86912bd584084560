----------------------------- MODULE MCBindings -----------------------------
(* The Rust binding, with interchangeable blocks and messages of which two *)
(* share their first 32 bytes, and beside it those of Python and Node.js:  *)
(* a program has one of them.                                              *)
EXTENDS RustBinding, TLC

CONSTANTS Pairs, ScriptRandoms, ScriptMessages   \* those of the other two
VARIABLES binding, lang, library, nativeAddon, held, object, lastSig, everSigned, answer
script == <<lang, library, nativeAddon, held, object, lastSig, everSigned, answer>>

MessageSet == { [head |-> "short", tail |-> "none"], [head |-> "h", tail |-> "x"], [head |-> "h", tail |-> "y"] }
Interchangeable == Permutations(Blocks)

Script == INSTANCE ScriptBindings WITH
  Randoms <- ScriptRandoms, Messages <- ScriptMessages,
  sig <- lastSig, signed <- everSigned, result <- answer

Idle == "idle"
BindingsInit ==
  \/ /\ binding = "rust" /\ Init
     /\ lang = Idle /\ library = Idle /\ nativeAddon = Idle /\ held = Idle
     /\ object = Idle /\ lastSig = Idle /\ everSigned = Idle /\ answer = Idle
  \/ binding = "script" /\ Init /\ Script!Init

BindingsNext ==
  \/ binding = "rust" /\ Next /\ UNCHANGED <<binding, script>>
  \/ binding = "script" /\ Script!Next /\ UNCHANGED <<binding, vars>>

Bindings == BindingsInit /\ [][BindingsNext]_<<binding, vars, script>>
-----------------------------------------------------------------------------
(* Through Python or Node.js the C library verifies exactly what was       *)
(* signed, a mock accepts whatever C accepts, and a C struct waits to be   *)
(* freed only while its object lives (bitcoinpqc.py:279-523,               *)
(* index.ts:155, library.ts:171).                                          *)
ScriptsVerifyWhatWasSigned ==
  binding = "script" => Script!ScriptsVerifyWhatWasSigned
=============================================================================
