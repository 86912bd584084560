------------------------ MODULE SigningThreadsProofs ------------------------
(***************************************************************************)
(* What holds of concurrent calls for any number of threads and any buffer *)
(* sizes. First the types and what survives every interleaving; then what  *)
(* one lock around every call buys: a thread inside a call is the only one *)
(* (SoleUser), so the shared source is its own, and each block it draws is *)
(* the one its buffer determines.                                          *)
(***************************************************************************)
EXTENDS SigningThreads, TLAPS

(* A remainder is a position inside the buffer. *)
LEMMA RemainderInRange ==
  ASSUME NEW n \in Nat \ {0}, NEW a \in Nat
  PROVE  a % n \in 0 .. n - 1
  OBVIOUS


(* Which labels an operation visits, and how much of a draw is done. *)
CallShape ==
  \A t \in Threads :
    /\ pc[t] = "expand" => op[t] = "slh_keygen"
    /\ op[t] = "slh_keygen" => pc[t] \in {"idle", "expand", "return"}
    /\ pc[t] # "idle" => DOMAIN (out[t]) = 0 .. DrawUnits(op[t]) - 1
    /\ pc[t] = "measure" => total_copied[t] <= DrawUnits(op[t])
    /\ pc[t] = "copy" => total_copied[t] + amount[t] <= DrawUnits(op[t])

Typed == TypeOK /\ CallShape

LEMMA DrawUnitsType ==
  ASSUME NEW o \in Ops
  PROVE  DrawUnits(o) \in Nat /\ BufferUnits(o) \in 0 .. SizeMod - 1 /\ SourceOf(o) \in Sources
  BY SizesAssumption DEF Ops, MlOps, DrawUnits, BufferUnits, SourceOf, Sources

LEMMA TypedInit == Init => Typed
  BY SizesAssumption, OtherAssumption
  DEF Init, Typed, TypeOK, CallShape, Labels, Ops, Seeds, Sources

(* A load inside a draw returns a value of the right type. *)
LEMMA SeenType ==
  ASSUME Typed, NEW t \in Threads, NEW seen \in KeptOrNow(t)
  PROVE  /\ seen.data \in {kept[t].data, g_random_data[Provider]}
         /\ seen.size \in {kept[t].size, g_random_data_size[Provider]}
         /\ seen.offset \in {kept[t].offset, g_random_data_offset[Provider]}
         /\ seen.data \in Threads \cup {Null}
         /\ seen.size \in 0 .. SizeMod - 1
         /\ seen.offset \in 0 .. SizeMod - 1
<1>1. Provider \in Sources
  BY DEF Provider, Sources
<1>2. QED
  BY <1>1 DEF Typed, TypeOK, KeptOrNow

Registers == [data : Threads \cup {Null}, size : 0 .. SizeMod - 1, offset : 0 .. SizeMod - 1]

(* Changing registers keeps their type. *)
LEMMA RegistersType ==
  ASSUME NEW r \in Registers, NEW d \in Threads \cup {Null},
         NEW n \in 0 .. SizeMod - 1, NEW o \in 0 .. SizeMod - 1
  PROVE  /\ [r EXCEPT !.data = d] \in Registers
         /\ [r EXCEPT !.offset = o] \in Registers
         /\ [r EXCEPT !.size = n, !.offset = o] \in Registers
  BY DEF Registers

(* A thread's copy of the offset follows what it stores. *)
LEMMA StoreOffsetType ==
  ASSUME Typed, NEW t \in Threads, NEW o \in 0 .. SizeMod - 1, StoreOffset(t, o)
  PROVE  /\ g_random_data_offset' \in [Sources -> 0 .. SizeMod - 1]
         /\ kept' \in [Threads -> Registers]
<1>1. kept \in [Threads -> Registers]
  BY DEF Typed, TypeOK, Registers
<1>2. kept' = [kept EXCEPT ![t] = [kept[t] EXCEPT !.offset = o]]
  BY <1>1 DEF StoreOffset
<1>3. [kept[t] EXCEPT !.offset = o] \in Registers
  BY <1>1, SizesAssumption, RegistersType DEF Typed, TypeOK
<1>4. QED
  BY <1>1, <1>2, <1>3 DEF StoreOffset, Typed, TypeOK, Provider, Sources

LEMMA OneCallMore ==
  ASSUME NEW n \in 0 .. MaxCalls, n < MaxCalls
  PROVE  n + 1 \in 0 .. MaxCalls
BY OtherAssumption

LEMMA TypedNext == Typed /\ [Next]_vars => Typed'
<1> SUFFICES ASSUME Typed, [Next]_vars
             PROVE  Typed'
  OBVIOUS
<1> USE SizesAssumption, OtherAssumption, DrawUnitsType DEF Typed, TypeOK, CallShape, Labels
<1>0. 0 \in 0 .. SizeMod - 1
  OBVIOUS
<1>1. ASSUME NEW t \in Threads, Call(t)
      PROVE  Typed'
  <2>1. PICK o \in Ops, i \in Inputs, s \in Seeds :
          /\ op' = [op EXCEPT ![t] = o]
          /\ input' = [input EXCEPT ![t] = i]
          /\ seed' = [seed EXCEPT ![t] = s]
          /\ pc' = [pc EXCEPT ![t] = IF o \in DrawingOps THEN "init_data" ELSE "expand"]
          /\ out' = [out EXCEPT ![t] = [k \in 0 .. DrawUnits(o) - 1 |-> Unset]]
    <3>1. PICK o \in Ops, i \in Inputs :
            /\ op' = [op EXCEPT ![t] = o]
            /\ input' = [input EXCEPT ![t] = i]
            /\ \E s \in {SeedFor(o, i)} \cup (IF o = "slh_sign" THEN {ZeroSeed} ELSE {}) :
                 seed' = [seed EXCEPT ![t] = s]
            /\ pc' = [pc EXCEPT ![t] = IF o \in DrawingOps THEN "init_data" ELSE "expand"]
            /\ out' = [out EXCEPT ![t] = [k \in 0 .. DrawUnits(o) - 1 |-> Unset]]
      BY <1>1 DEF Call, Goto
    <3>2. {SeedFor(o, i)} \cup (IF o = "slh_sign" THEN {ZeroSeed} ELSE {}) \subseteq Seeds
      BY DEF Seeds
    <3>3. QED
      BY <3>1, <3>2
  <2>2. TypeOK'
    <3>1. /\ op' \in [Threads -> Ops] /\ input' \in [Threads -> Inputs]
          /\ seed' \in [Threads -> Seeds] /\ pc' \in [Threads -> Labels]
      BY <2>1
    <3>2. calls' \in [Threads -> 0 .. MaxCalls]
      <4>1. calls[t] < MaxCalls /\ calls' = [calls EXCEPT ![t] = calls[t] + 1]
        BY <1>1 DEF Call
      <4>2. calls[t] + 1 \in 0 .. MaxCalls
        <5>1. calls[t] \in 0 .. MaxCalls
          OBVIOUS
        <5>2. QED
          BY <4>1, <5>1, OneCallMore, Zenon
      <4>3. QED
        BY <4>1, <4>2
    <3>3. UNCHANGED <<globals, kept, amount, total_copied>>
      BY <1>1 DEF Call
    <3>4. DOMAIN out' = Threads
      BY <2>1
    <3>5. QED
      BY <3>1, <3>2, <3>3, <3>4 DEF globals
  <2>3. CallShape'
    <3> SUFFICES ASSUME NEW u \in Threads
                 PROVE  /\ pc'[u] = "expand" => op'[u] = "slh_keygen"
                        /\ op'[u] = "slh_keygen" => pc'[u] \in {"idle", "expand", "return"}
                        /\ pc'[u] # "idle" => DOMAIN (out'[u]) = 0 .. DrawUnits(op'[u]) - 1
                        /\ pc'[u] = "measure" => total_copied'[u] <= DrawUnits(op'[u])
                        /\ pc'[u] = "copy" => total_copied'[u] + amount'[u] <= DrawUnits(op'[u])
      OBVIOUS
    <3>1. total_copied' = total_copied /\ amount' = amount
      BY <1>1 DEF Call
    <3>2. CASE u = t
      <4>1. op'[t] = o /\ pc'[t] = IF o \in DrawingOps THEN "init_data" ELSE "expand"
        BY <2>1
      <4>2. out' = [out EXCEPT ![t] = [k \in 0 .. DrawUnits(o) - 1 |-> Unset]]
        BY <2>1
      <4>3. DOMAIN (out'[t]) = 0 .. DrawUnits(o) - 1
        BY <4>2
      <4>4. QED
        BY <3>2, <4>1, <4>3 DEF DrawingOps, Ops
    <3>3. CASE u # t
      BY <2>1, <3>1, <3>3
    <3>4. QED
      BY <3>2, <3>3
  <2>4. QED
    BY <2>2, <2>3
<1>2. ASSUME NEW t \in Threads, InitData(t)
      PROVE  Typed'
  <2>1. TypeOK'
    BY <1>2 DEF InitData, Goto, call, draw, history
  <2>2. CallShape'
    BY <1>2 DEF InitData, Goto, call, draw, history
  <2>3. QED
    BY <2>1, <2>2
<1>3. ASSUME NEW t \in Threads, InitSize(t)
      PROVE  Typed'
  <2>1. TypeOK'
    BY <1>3 DEF InitSize, Goto, call, draw, history
  <2>2. CallShape'
    BY <1>3 DEF InitSize, Goto, call, draw, history
  <2>3. QED
    BY <2>1, <2>2
<1>4. ASSUME NEW t \in Threads, InitOffset(t)
      PROVE  Typed'
  <2>1. TypeOK'
    BY <1>0, <1>4 DEF InitOffset, Goto, call, draw, history
  <2>2. CallShape'
    BY <1>4 DEF InitOffset, Goto, call, draw, history
  <2>3. QED
    BY <2>1, <2>2
<1>5. ASSUME NEW t \in Threads, CheckData(t)
      PROVE  Typed'
  <2>1. TypeOK'
    <3>1. kept \in [Threads -> Registers] /\ g_random_data[Provider] \in Threads \cup {Null}
      BY DEF Registers, Provider, Sources
    <3>2. kept' = [kept EXCEPT ![t] = [kept[t] EXCEPT !.data = g_random_data[Provider]]]
      BY <1>5, <3>1 DEF CheckData
    <3>3. [kept[t] EXCEPT !.data = g_random_data[Provider]] \in Registers
      BY <3>1, RegistersType
    <3>4. kept' \in [Threads -> Registers]
      BY <3>1, <3>2, <3>3
    <3>5. QED
      BY <1>5, <3>4 DEF CheckData, Registers, Goto, globals, call, history
  <2>2. CallShape'
    BY <1>5 DEF CheckData, Goto, globals, call, history, Provider, Sources
  <2>3. QED
    BY <2>1, <2>2
<1>6. ASSUME NEW t \in Threads, CheckSize(t)
      PROVE  Typed'
  <2> DEFINE n == g_random_data_size[Provider]
             o == g_random_data_offset[Provider]
  <2>1. n \in 0 .. SizeMod - 1 /\ o \in 0 .. SizeMod - 1
    BY DEF Provider, Sources
  <2>2. kept \in [Threads -> Registers]
    BY DEF Registers
  <2>3. kept' = [kept EXCEPT ![t] = [kept[t] EXCEPT !.size = n, !.offset = o]]
    BY <1>6, <2>2 DEF CheckSize
  <2>4. [kept[t] EXCEPT !.size = n, !.offset = o] \in Registers
    BY <2>1, <2>2, RegistersType
  <2>5. kept' \in [Threads -> [data : Threads \cup {Null}, size : 0 .. SizeMod - 1,
                               offset : 0 .. SizeMod - 1]]
    BY <2>2, <2>3, <2>4 DEF Registers
  <2>6. TypeOK'
    BY <1>6, <2>5 DEF CheckSize, Goto, globals, call, history
  <2>7. CallShape'
    BY <1>6, SMTT(40) DEF CheckSize, Goto, globals, call, history
  <2>8. QED
    BY <2>6, <2>7
<1>7. ASSUME NEW t \in Threads, DrawSystem(t)
      PROVE  Typed'
  <2>1. TypeOK'
    BY <1>7 DEF DrawSystem, Goto, globals, call, history
  <2>2. PICK f : DOMAIN f = DOMAIN out[t] /\ out' = [out EXCEPT ![t] = f]
    BY <1>7 DEF DrawSystem
  <2>3. CallShape'
    BY <1>7, <2>2 DEF DrawSystem, Goto, globals, call, history
  <2>4. QED
    BY <2>1, <2>3
<1>8. ASSUME NEW t \in Threads, Measure(t)
      PROVE  Typed'
  <2>1. PICK seen \in KeptOrNow(t) :
          amount' = [amount EXCEPT ![t] =
            IF DrawUnits(op[t]) - total_copied[t] > SubSize(seen.size, seen.offset)
            THEN SubSize(seen.size, seen.offset) ELSE DrawUnits(op[t]) - total_copied[t]]
    BY <1>8 DEF Measure
  <2>2. seen.size \in 0 .. SizeMod - 1 /\ seen.offset \in 0 .. SizeMod - 1
    BY SeenType
  <2>3. SubSize(seen.size, seen.offset) \in Nat
    BY <2>2, SMTT(40) DEF SubSize
  <2>4. op[t] \in Ops /\ total_copied[t] \in Nat /\ pc[t] = "measure"
    BY <1>8 DEF Measure
  <2>5. amount'[t] \in Nat /\ total_copied[t] + amount'[t] <= DrawUnits(op[t])
    BY <2>1, <2>3, <2>4
  <2>6. amount' \in [Threads -> Nat] /\ \A u \in Threads : u # t => amount'[u] = amount[u]
    BY <2>1, <2>5
  <2>7. TypeOK'
    BY <1>8, <2>6 DEF Measure, Goto, globals, call, history
  <2>8. CallShape'
    BY <1>8, <2>5, <2>6 DEF Measure, Goto, globals, call, history
  <2>9. QED
    BY <2>7, <2>8
<1>9. ASSUME NEW t \in Threads, Copy(t)
      PROVE  Typed'
  <2>0. /\ total_copied' = [total_copied EXCEPT ![t] = @ + amount[t]]
        /\ pc' = [pc EXCEPT ![t] = "advance"]
        /\ UNCHANGED <<globals, call, kept, amount, history>>
    BY <1>9 DEF Copy, Goto
  <2>1. TypeOK'
    <3>1. total_copied' \in [Threads -> Nat] /\ pc' \in [Threads -> Labels]
      BY <2>0
    <3>2. DOMAIN out' = Threads
      BY <1>9 DEF Copy
    <3>3. QED
      BY <2>0, <3>1, <3>2 DEF globals, call, history
  <2>2. PICK f : DOMAIN f = DOMAIN out[t] /\ out' = [out EXCEPT ![t] = f]
    BY <1>9 DEF Copy
  <2>3. CallShape'
    BY <1>9, <2>2 DEF Copy, Goto, globals, call, history
  <2>4. QED
    BY <2>1, <2>3
<1>10. ASSUME NEW t \in Threads, Advance(t)
      PROVE  Typed'
  <2>1. PICK seen \in KeptOrNow(t) : StoreOffset(t, (seen.offset + amount[t]) % SizeMod)
    BY <1>10 DEF Advance
  <2>2. seen.offset + amount[t] \in Nat /\ SizeMod \in Nat \ {0}
    <3>1. seen.offset \in 0 .. SizeMod - 1
      BY SeenType
    <3>2. amount[t] \in Nat
      OBVIOUS
    <3>3. SizeMod \in Nat \ {0}
      OBVIOUS
    <3>4. QED
      BY <3>1, <3>2, <3>3
  <2>3. (seen.offset + amount[t]) % SizeMod \in 0 .. SizeMod - 1
    BY <2>2, RemainderInRange
  <2>4. TypeOK'
    BY <1>10, <2>1, <2>3, StoreOffsetType DEF Advance, Registers, Goto, call, history
  <2>5. CallShape'
    BY <1>10 DEF Advance, Goto, call, history
  <2>6. QED
    BY <2>4, <2>5
<1>11. ASSUME NEW t \in Threads, Wrap(t)
      PROVE  Typed'
  <2>1. StoreOffset(t, 0) \/ UNCHANGED <<g_random_data_offset, kept>>
    BY <1>11 DEF Wrap
  <2>2. TypeOK'
    <3>1. /\ g_random_data_offset' \in [Sources -> 0 .. SizeMod - 1]
          /\ kept' \in [Threads -> Registers]
      <4>1. CASE StoreOffset(t, 0)
        <5>1. 0 \in 0 .. SizeMod - 1
          OBVIOUS
        <5>2. QED
          BY <4>1, <5>1, StoreOffsetType
      <4>2. CASE UNCHANGED <<g_random_data_offset, kept>>
        BY <4>2 DEF Registers
      <4>3. QED
        BY <2>1, <4>1, <4>2
    <3>2. QED
      BY <1>11, <3>1 DEF Wrap, Registers, Goto, call, history
  <2>3. CallShape'
    BY <1>11 DEF Wrap, Goto, call, history
  <2>4. QED
    BY <2>2, <2>3
<1>12. ASSUME NEW t \in Threads, Expand(t)
      PROVE  Typed'
  <2>1. TypeOK'
    BY <1>12 DEF Expand, Goto, globals, call, history
  <2>2. PICK f : DOMAIN f = DOMAIN out[t] /\ out' = [out EXCEPT ![t] = f]
    BY <1>12 DEF Expand
  <2>3. CallShape'
    BY <1>12, <2>2 DEF Expand, Goto, globals, call, history
  <2>4. QED
    BY <2>1, <2>3
<1>13. ASSUME NEW t \in Threads, RestoreData(t)
      PROVE  Typed'
  <2>1. TypeOK'
    BY <1>13 DEF RestoreData, Goto, call, draw, history
  <2>2. CallShape'
    BY <1>13 DEF RestoreData, Goto, call, draw, history
  <2>3. QED
    BY <2>1, <2>2
<1>14. ASSUME NEW t \in Threads, RestoreSize(t)
      PROVE  Typed'
  <2>1. TypeOK'
    <3>1. g_random_data_size' \in [Sources -> 0 .. SizeMod - 1]
      BY <1>0, <1>14 DEF RestoreSize
    <3>2. pc' \in [Threads -> Labels]
      BY <1>14 DEF RestoreSize, Goto, Labels
    <3>3. QED
      BY <1>14, <3>1, <3>2 DEF RestoreSize, call, draw, history
  <2>2. CallShape'
    BY <1>14 DEF RestoreSize, Goto, call, draw, history
  <2>3. QED
    BY <2>1, <2>2
<1>15. ASSUME NEW t \in Threads, RestoreOffset(t)
      PROVE  Typed'
  <2>1. TypeOK'
    <3>1. g_random_data_offset' \in [Sources -> 0 .. SizeMod - 1]
      BY <1>0, <1>15 DEF RestoreOffset
    <3>2. pc' \in [Threads -> Labels]
      BY <1>15 DEF RestoreOffset, Goto, Labels
    <3>3. QED
      BY <1>15, <3>1, <3>2 DEF RestoreOffset, call, draw, history
  <2>2. CallShape'
    BY <1>15 DEF RestoreOffset, Goto, call, draw, history
  <2>3. QED
    BY <2>1, <2>2
<1>16. ASSUME NEW t \in Threads, Return(t)
      PROVE  Typed'
  <2>1. TypeOK'
    BY <1>16 DEF Return, Goto, globals, call, draw
  <2>2. CallShape'
    BY <1>16 DEF Return, Goto, globals, call, draw
  <2>3. QED
    BY <2>1, <2>2
<1>17. CASE UNCHANGED vars
  BY <1>17 DEF vars, globals, call, draw, history
<1>18. QED
  BY <1>1, <1>2, <1>3, <1>4, <1>5, <1>6, <1>7, <1>8, <1>9, <1>10, <1>11, <1>12, <1>13, <1>14,
     <1>15, <1>16, <1>17 DEF Next, Step

(* The variables keep their types, in every interleaving.                  *)
THEOREM TypeCorrect == Spec => []TypeOK
<1>1. Spec => []Typed
  BY TypedInit, TypedNext, PTL DEF Spec
<1>2. Typed => TypeOK
  BY DEF Typed
<1>3. QED
  BY <1>1, <1>2, PTL
-----------------------------------------------------------------------------
(***************************************************************************)
(* Who may have left what in a source, in every interleaving: a pointer is *)
(* the running call's that stored it, a size is some running call's.       *)
(***************************************************************************)
SizeOwned ==
  \A a \in Sources :
    g_random_data_size[a] # 0 => \E t \in Threads : SourceOf(op[t]) = a /\ HasSetSize(t)

Owned == NeverDangles /\ SizeOwned

LEMMA OwnedInit == Init => Owned
  BY DEF Init, Owned, NeverDangles, SizeOwned

(* A step that stores to no pointer and to no size, and by which no thread *)
(* undoes its stores, keeps Owned.                                         *)
LEMMA OwnedKept ==
  ASSUME Typed, Owned,
         UNCHANGED <<g_random_data, g_random_data_size, op>>,
         \A u \in Threads : /\ HasSetData(u) => HasSetData(u)'
                            /\ HasSetSize(u) => HasSetSize(u)'
  PROVE  Owned'
<1>1. SizeOwned'
  BY DEF Owned, SizeOwned
<1>2. NeverDangles'
  <2> SUFFICES ASSUME NEW a \in Sources, g_random_data[a] # Null
               PROVE  /\ SourceOf(op[g_random_data[a]]) = a
                      /\ HasSetData(g_random_data[a])'
                      /\ Drawing(g_random_data[a])'
    BY DEF NeverDangles
  <2> DEFINE u == g_random_data[a]
  <2>1. u \in Threads
    BY DEF Typed, TypeOK
  <2>2. SourceOf(op[u]) = a /\ HasSetData(u) /\ Drawing(u)
    BY DEF Owned, NeverDangles
  <2>3. HasSetData(u)'
    BY <2>1, <2>2
  <2>4. Drawing(u)'
    BY <2>2, <2>3 DEF Drawing, HasSetData
  <2>5. QED
    BY <2>2, <2>3, <2>4
<1>3. QED
  BY <1>1, <1>2 DEF Owned

LEMMA OwnedNext == Typed /\ Owned /\ [Next]_vars => Owned'
<1> SUFFICES ASSUME Typed, Owned, [Next]_vars
             PROVE  Owned'
  OBVIOUS
<1>1. ASSUME NEW t \in Threads, Call(t)
      PROVE  Owned'
  <2>1. \A u \in Threads : u # t => op'[u] = op[u] /\ pc'[u] = pc[u]
    BY <1>1 DEF Call, Goto, Typed, TypeOK
  <2>2. ~HasSetData(t) /\ ~HasSetSize(t) /\ ~Drawing(t)
    BY <1>1 DEF Call, HasSetData, HasSetSize, Drawing
  <2>3. UNCHANGED <<g_random_data, g_random_data_size>>
    BY <1>1 DEF Call, globals
  <2>4. NeverDangles'
    <3> SUFFICES ASSUME NEW a \in Sources, g_random_data[a] # Null
                 PROVE  /\ SourceOf(op'[g_random_data[a]]) = a
                        /\ HasSetData(g_random_data[a])'
                        /\ Drawing(g_random_data[a])'
      BY <2>3 DEF NeverDangles
    <3> DEFINE u == g_random_data[a]
    <3>1. u \in Threads /\ SourceOf(op[u]) = a /\ HasSetData(u) /\ Drawing(u)
      BY DEF Owned, NeverDangles, Typed, TypeOK
    <3>2. u # t
      BY <2>2, <3>1
    <3>3. op'[u] = op[u] /\ pc'[u] = pc[u]
      BY <2>1, <3>1, <3>2
    <3>4. HasSetData(u)' /\ Drawing(u)'
      BY <2>3, <3>1, <3>3 DEF HasSetData, Drawing
    <3>5. SourceOf(op'[u]) = a
      BY <3>1, <3>3
    <3>6. QED
      BY <3>4, <3>5
  <2>5. SizeOwned'
    <3> SUFFICES ASSUME NEW a \in Sources, g_random_data_size[a] # 0
                 PROVE  \E u \in Threads : SourceOf(op'[u]) = a /\ HasSetSize(u)'
      BY <2>3 DEF SizeOwned
    <3>1. PICK u \in Threads : SourceOf(op[u]) = a /\ HasSetSize(u)
      BY DEF Owned, SizeOwned
    <3>2. u # t
      BY <2>2, <3>1
    <3>3. QED
      BY <2>1, <3>1, <3>2 DEF HasSetSize
  <2>6. QED
    BY <2>4, <2>5 DEF Owned
<1>2. ASSUME NEW t \in Threads, InitData(t)
      PROVE  Owned'
  <2>1. op[t] \in DrawingOps
    BY <1>2 DEF InitData, Typed, TypeOK, CallShape, DrawingOps
  <2>2. NeverDangles'
    BY <1>2, <2>1 DEF InitData, Goto, call, Owned, NeverDangles, HasSetData, Drawing, Typed, TypeOK
  <2>3. SizeOwned'
    BY <1>2 DEF InitData, Goto, call, Owned, SizeOwned, HasSetSize, Typed, TypeOK
  <2>4. QED
    BY <2>2, <2>3 DEF Owned
<1>3. ASSUME NEW t \in Threads, InitSize(t)
      PROVE  Owned'
  <2>1. NeverDangles'
    BY <1>3 DEF InitSize, Goto, call, Owned, NeverDangles, HasSetData, Drawing, Typed, TypeOK
  <2>2. SizeOwned'
    <3>1. SourceOf(op'[t]) = SourceOf(op[t]) /\ HasSetSize(t)'
      BY <1>3 DEF InitSize, Goto, call, HasSetSize, Typed, TypeOK
    <3>2. \A a \in Sources : a # SourceOf(op[t]) => g_random_data_size'[a] = g_random_data_size[a]
      BY <1>3 DEF InitSize, Typed, TypeOK
    <3>3. \A u \in Threads : u # t => op'[u] = op[u] /\ pc'[u] = pc[u]
      BY <1>3 DEF InitSize, Goto, call, Typed, TypeOK
    <3>4. ~HasSetSize(t)
      BY <1>3 DEF InitSize, HasSetSize
    <3>5. QED
      BY <3>1, <3>2, <3>3, <3>4 DEF Owned, SizeOwned, HasSetSize
  <2>3. QED
    BY <2>1, <2>2 DEF Owned
<1>4. ASSUME NEW t \in Threads, RestoreData(t)
      PROVE  Owned'
  <2>1. NeverDangles'
    BY <1>4 DEF RestoreData, Goto, call, Owned, NeverDangles, HasSetData, Drawing, Typed, TypeOK
  <2>2. SizeOwned'
    BY <1>4 DEF RestoreData, Goto, call, Owned, SizeOwned, HasSetSize, Typed, TypeOK
  <2>3. QED
    BY <2>1, <2>2 DEF Owned
<1>5. ASSUME NEW t \in Threads, RestoreSize(t)
      PROVE  Owned'
  <2>1. NeverDangles'
    BY <1>5 DEF RestoreSize, Goto, call, Owned, NeverDangles, HasSetData, Drawing, Typed, TypeOK
  <2>2. SizeOwned'
    <3> SUFFICES ASSUME NEW a \in Sources, g_random_data_size'[a] # 0
                 PROVE  \E u \in Threads : SourceOf(op'[u]) = a /\ HasSetSize(u)'
      BY DEF SizeOwned
    <3>1. a # SourceOf(op[t]) /\ g_random_data_size[a] # 0
      BY <1>5 DEF RestoreSize, Typed, TypeOK
    <3>2. PICK u \in Threads : SourceOf(op[u]) = a /\ HasSetSize(u)
      BY <3>1 DEF Owned, SizeOwned
    <3>3. u # t
      BY <3>1, <3>2
    <3>4. QED
      BY <1>5, <3>2, <3>3 DEF RestoreSize, Goto, call, HasSetSize, Typed, TypeOK
  <2>3. QED
    BY <2>1, <2>2 DEF Owned
<1>6. ASSUME NEW t \in Threads,
             \/ InitOffset(t) \/ CheckData(t) \/ CheckSize(t) \/ DrawSystem(t)
             \/ Measure(t) \/ Copy(t) \/ Advance(t) \/ Wrap(t)
             \/ Expand(t) \/ RestoreOffset(t) \/ Return(t)
      PROVE  Owned'
  <2>1. UNCHANGED <<g_random_data, g_random_data_size, op>>
    BY <1>6 DEF InitOffset, CheckData, CheckSize, DrawSystem, Measure, Copy, Advance, Wrap, Expand,
                RestoreOffset, Return, globals, call
  <2>2. \A u \in Threads : u # t => pc'[u] = pc[u]
    BY <1>6 DEF InitOffset, CheckData, CheckSize, DrawSystem, Measure, Copy, Advance, Wrap, Expand,
                RestoreOffset, Return, Goto, Typed, TypeOK
  <2>3. (HasSetData(t) => HasSetData(t)') /\ (HasSetSize(t) => HasSetSize(t)')
    BY <1>6 DEF InitOffset, CheckData, CheckSize, DrawSystem, Measure, Copy, Advance, Wrap, Expand,
                RestoreOffset, Return, Goto, Typed, TypeOK, HasSetData, HasSetSize
  <2>4. \A u \in Threads : /\ HasSetData(u) => HasSetData(u)'
                           /\ HasSetSize(u) => HasSetSize(u)'
    BY <2>2, <2>3 DEF HasSetData, HasSetSize
  <2>5. QED
    BY <2>1, <2>4, OwnedKept
<1>7. CASE UNCHANGED vars
  BY <1>7 DEF vars, globals, call, Owned, NeverDangles, SizeOwned, HasSetData, HasSetSize, Drawing
<1>8. QED
  BY <1>1, <1>2, <1>3, <1>4, <1>5, <1>6, <1>7 DEF Next, Step

LEMMA OwnedInvariance == Spec => [](Typed /\ Owned)
  BY TypedInit, TypedNext, OwnedInit, OwnedNext, PTL DEF Spec

(* However the calls of any number of threads interleave, no source ever   *)
(* points into the frame of a call that has returned.                      *)
THEOREM SourceNeverDangles == Spec => []NeverDangles
<1>1. Typed /\ Owned => NeverDangles
  BY DEF Owned
<1>2. QED
  BY <1>1, OwnedInvariance, PTL

(* However they interleave, when all calls have returned both sources are  *)
(* empty: a race does not outlive the calls that raced.                    *)
THEOREM SourcesEmptyWhenQuiet == Spec => []EmptyWhenQuiet
<1>1. ASSUME Typed, Owned
      PROVE  EmptyWhenQuiet
  <2> SUFFICES ASSUME \A t \in Threads : pc[t] = "idle",
                      NEW a \in Sources
               PROVE  g_random_data[a] = Null /\ g_random_data_size[a] = 0
    BY DEF EmptyWhenQuiet
  <2>1. g_random_data[a] \in Threads \cup {Null}
    BY <1>1 DEF Typed, TypeOK
  <2>2. g_random_data[a] = Null
    BY <1>1, <2>1 DEF Owned, NeverDangles, Drawing
  <2>3. g_random_data_size[a] = 0
    BY <1>1 DEF Owned, SizeOwned, HasSetSize
  <2>4. QED
    BY <2>2, <2>3
<1>2. QED
  BY <1>1, OwnedInvariance, PTL
-----------------------------------------------------------------------------
(***************************************************************************)
(* The locked library.                                                     *)
(***************************************************************************)

LEMMA UnlockedHolds == ASSUME ~Locked PROVE LockedCalls
  BY DEF LockedCalls, SoleUser, CleanBetweenCalls, DrawsOwn, DrewOwn

LEMMA LockedInit == Init => LockedCalls
<1> SUFFICES ASSUME Init PROVE LockedCalls
  OBVIOUS
<1>1. SoleUser /\ DrawsOwn
  BY DEF Init, SoleUser, DrawsOwn, Drawing
<1>2. CleanBetweenCalls /\ DrewOwn
  BY DEF Init, CleanBetweenCalls, DrewOwn
<1>3. QED
  BY <1>1, <1>2 DEF LockedCalls

(* All that concerns the other threads stays as it is. *)
OthersKept(t) ==
  \A u \in Threads : u # t =>
    /\ pc'[u] = pc[u] /\ op'[u] = op[u] /\ input'[u] = input[u] /\ seed'[u] = seed[u]
    /\ kept'[u] = kept[u] /\ amount'[u] = amount[u] /\ total_copied'[u] = total_copied[u]
    /\ out'[u] = out[u]

LEMMA OthersDrawing ==
  ASSUME NEW t \in Threads, OthersKept(t), NEW u \in Threads, u # t
  PROVE  /\ Drawing(u)' <=> Drawing(u)
         /\ HasSetData(u)' <=> HasSetData(u)
         /\ HasSetSize(u)' <=> HasSetSize(u)
         /\ Stored(u)' <=> Stored(u)
  BY DEF OthersKept, Drawing, HasSetData, HasSetSize, Stored

LEMMA OthersDrawOwn ==
  ASSUME NEW t \in Threads, OthersKept(t), Locked, DrawsOwn,
         (pc[t] # "idle" /\ op[t] \in MlOps => DrawingOwn(t))'
  PROVE  DrawsOwn'
<1> SUFFICES ASSUME NEW u \in Threads, pc'[u] # "idle" /\ op'[u] \in MlOps
             PROVE  DrawingOwn(u)'
  BY DEF DrawsOwn
<1>1. CASE u = t
  BY <1>1
<1>2. CASE u # t
  BY <1>2 DEF OthersKept, DrawsOwn, DrawingOwn
<1>3. QED
  BY <1>1, <1>2

(* A step of the thread inside a drawing call, which stays inside it. *)
LEMMA StepInside ==
  ASSUME Locked, LockedCalls, NEW t \in Threads, Drawing(t), OthersKept(t),
         UNCHANGED results, Drawing(t)', SourcesSetBy(t)', RegistersCurrent(t)',
         (op[t] \in MlOps => DrawingOwn(t))'
  PROVE  LockedCalls'
<1>1. \A u \in Threads : Drawing(u)' => u = t
  BY OthersDrawing DEF LockedCalls, SoleUser
<1>2. SoleUser'
  BY <1>1 DEF SoleUser
<1>3. CleanBetweenCalls'
  BY DEF CleanBetweenCalls
<1>4. DrawsOwn'
  BY OthersDrawOwn DEF LockedCalls
<1>5. DrewOwn'
  BY DEF LockedCalls, DrewOwn
<1>6. QED
  BY <1>2, <1>3, <1>4, <1>5 DEF LockedCalls

(* A step of a thread outside every drawing call, which stays outside. *)
LEMMA StepOutside ==
  ASSUME Locked, LockedCalls, NEW t \in Threads, OthersKept(t),
         UNCHANGED globals, ~Drawing(t), ~Drawing(t)', DrewOwn',
         (pc[t] # "idle" => op[t] \notin MlOps)'
  PROVE  LockedCalls'
<1>1. SoleUser'
  <2> SUFFICES ASSUME NEW u \in Threads, Drawing(u)'
               PROVE  /\ \A v \in Threads : Drawing(v)' => v = u
                      /\ SourcesSetBy(u)'
                      /\ RegistersCurrent(u)'
    BY DEF SoleUser
  <2>1. u # t /\ Drawing(u)
    BY OthersDrawing
  <2>2. (\A v \in Threads : Drawing(v) => v = u) /\ SourcesSetBy(u) /\ RegistersCurrent(u)
    BY <2>1 DEF LockedCalls, SoleUser
  <2>3. \A v \in Threads : Drawing(v)' => v = u
    BY <2>2, OthersDrawing
  <2>4. op'[u] = op[u] /\ pc'[u] = pc[u] /\ kept'[u] = kept[u]
    BY <2>1 DEF OthersKept
  <2>5. SourcesSetBy(u)'
    BY <2>1, <2>2, <2>4 DEF SourcesSetBy, HasSetData, HasSetSize, Stored, globals
  <2>6. RegistersCurrent(u)'
    BY <2>2, <2>4 DEF RegistersCurrent, globals
  <2>7. QED
    BY <2>3, <2>5, <2>6
<1>2. CleanBetweenCalls'
  <2>1. (\A u \in Threads : ~Drawing(u)') => \A u \in Threads : ~Drawing(u)
    BY OthersDrawing
  <2>2. QED
    BY <2>1 DEF LockedCalls, CleanBetweenCalls, globals
<1>3. DrawsOwn'
  BY OthersDrawOwn DEF LockedCalls
<1>4. QED
  BY <1>1, <1>2, <1>3 DEF LockedCalls

(* Reading back a changed register. *)
LEMMA RegistersRead ==
  ASSUME NEW r \in Registers, NEW d, NEW n, NEW o
  PROVE  /\ [r EXCEPT !.data = d].data = d
         /\ [r EXCEPT !.size = n, !.offset = o].data = r.data
         /\ [r EXCEPT !.size = n, !.offset = o].size = n
         /\ [r EXCEPT !.size = n, !.offset = o].offset = o
         /\ [r EXCEPT !.offset = o].data = r.data
         /\ [r EXCEPT !.offset = o].size = r.size
         /\ [r EXCEPT !.offset = o].offset = o
  BY DEF Registers

(* What LockedCalls says of the thread inside a drawing call. *)
LEMMA Inside ==
  ASSUME Locked, Typed, LockedCalls, NEW t \in Threads, pc[t] \notin {"idle", "expand", "return"}
  PROVE  /\ Drawing(t)
         /\ op[t] \in DrawingOps
         /\ \A u \in Threads : Drawing(u) => u = t
         /\ SourcesSetBy(t)
         /\ RegistersCurrent(t)
         /\ op[t] \in MlOps => DrawingOwn(t)
<1>1. op[t] \in DrawingOps
  BY DEF Typed, TypeOK, CallShape, DrawingOps
<1>2. QED
  BY <1>1 DEF Drawing, LockedCalls, SoleUser, DrawsOwn

LEMMA LockedNext == Locked /\ Typed /\ LockedCalls /\ [Next]_vars => LockedCalls'
<1> SUFFICES ASSUME Locked, Typed, LockedCalls, [Next]_vars
             PROVE  LockedCalls'
  OBVIOUS
<1> USE SizesAssumption, NullAssumption DEF Provider
<1>1. ASSUME NEW t \in Threads, InitData(t)
      PROVE  LockedCalls'
  <2>1. /\ pc[t] = "init_data"
        /\ g_random_data' = [g_random_data EXCEPT ![SourceOf(op[t])] = t]
        /\ pc' = [pc EXCEPT ![t] = "init_size"]
        /\ UNCHANGED <<g_random_data_size, g_random_data_offset, op, input, seed, kept, amount,
                       total_copied, out, results>>
    BY <1>1 DEF InitData, Goto, call, draw, history
  <2>2. OthersKept(t) /\ pc'[t] = "init_size"
    BY <2>1 DEF OthersKept, Typed, TypeOK
  <2>3. /\ Drawing(t) /\ op[t] \in DrawingOps /\ SourcesSetBy(t)
        /\ op[t] \in MlOps => DrawingOwn(t)
    BY <2>1, Inside
  <2>4. Drawing(t)'
    BY <2>1, <2>2, <2>3 DEF Drawing
  <2>5. SourcesSetBy(t)'
    BY <2>1, <2>2, <2>3 DEF SourcesSetBy, HasSetData, HasSetSize, Stored, Typed, TypeOK
  <2>6. RegistersCurrent(t)'
    BY <2>2 DEF RegistersCurrent
  <2>7. (op[t] \in MlOps => DrawingOwn(t))'
    BY <2>1, <2>2, <2>3 DEF DrawingOwn
  <2>8. QED
    BY <2>1, <2>2, <2>3, <2>4, <2>5, <2>6, <2>7, StepInside
<1>2. ASSUME NEW t \in Threads, InitSize(t)
      PROVE  LockedCalls'
  <2>1. /\ pc[t] = "init_size"
        /\ g_random_data_size' = [g_random_data_size EXCEPT ![SourceOf(op[t])] = BufferUnits(op[t])]
        /\ pc' = [pc EXCEPT ![t] = "init_offset"]
        /\ UNCHANGED <<g_random_data, g_random_data_offset, op, input, seed, kept, amount,
                       total_copied, out, results>>
    BY <1>2 DEF InitSize, Goto, call, draw, history
  <2>2. OthersKept(t) /\ pc'[t] = "init_offset"
    BY <2>1 DEF OthersKept, Typed, TypeOK
  <2>3. /\ Drawing(t) /\ op[t] \in DrawingOps /\ SourcesSetBy(t)
        /\ op[t] \in MlOps => DrawingOwn(t)
    BY <2>1, Inside
  <2>4. Drawing(t)'
    BY <2>1, <2>2, <2>3 DEF Drawing
  <2>5. SourcesSetBy(t)'
    BY <2>1, <2>2, <2>3 DEF SourcesSetBy, HasSetData, HasSetSize, Stored, Typed, TypeOK
  <2>6. RegistersCurrent(t)'
    BY <2>2 DEF RegistersCurrent
  <2>7. (op[t] \in MlOps => DrawingOwn(t))'
    BY <2>1, <2>2, <2>3 DEF DrawingOwn
  <2>8. QED
    BY <2>1, <2>2, <2>3, <2>4, <2>5, <2>6, <2>7, StepInside
<1>3. ASSUME NEW t \in Threads, InitOffset(t)
      PROVE  LockedCalls'
  <2>1. /\ pc[t] = "init_offset"
        /\ g_random_data_offset' = [g_random_data_offset EXCEPT ![SourceOf(op[t])] = 0]
        /\ pc' = [pc EXCEPT ![t] = "check_data"]
        /\ UNCHANGED <<g_random_data, g_random_data_size, op, input, seed, kept, amount,
                       total_copied, out, results>>
    BY <1>3 DEF InitOffset, Goto, call, draw, history
  <2>2. OthersKept(t) /\ pc'[t] = "check_data"
    BY <2>1 DEF OthersKept, Typed, TypeOK
  <2>3. /\ Drawing(t) /\ op[t] \in DrawingOps /\ SourcesSetBy(t)
        /\ op[t] \in MlOps => DrawingOwn(t)
    BY <2>1, Inside
  <2>4. Drawing(t)'
    BY <2>1, <2>2, <2>3 DEF Drawing
  <2>5. SourcesSetBy(t)'
    BY <2>1, <2>2, <2>3 DEF SourcesSetBy, HasSetData, HasSetSize, Stored, Typed, TypeOK
  <2>6. RegistersCurrent(t)'
    BY <2>2 DEF RegistersCurrent
  <2>7. (op[t] \in MlOps => DrawingOwn(t))'
    BY <2>1, <2>2, <2>3 DEF DrawingOwn
  <2>8. QED
    BY <2>1, <2>2, <2>3, <2>4, <2>5, <2>6, <2>7, StepInside
<1>4. ASSUME NEW t \in Threads, CheckData(t)
      PROVE  LockedCalls'
  <2> DEFINE next == IF g_random_data["ml"] = Null THEN "system" ELSE "check_size"
  <2>1. /\ pc[t] = "check_data"
        /\ kept' = [kept EXCEPT ![t].data = g_random_data["ml"]]
        /\ pc' = [pc EXCEPT ![t] = next]
        /\ UNCHANGED <<g_random_data, g_random_data_size, g_random_data_offset, op, input, seed,
                       amount, total_copied, out, results>>
    BY <1>4 DEF CheckData, Goto, globals, call, history
  <2>2. OthersKept(t) /\ pc'[t] = next
    BY <2>1 DEF OthersKept, Typed, TypeOK
  <2>3. /\ Drawing(t) /\ op[t] \in DrawingOps /\ SourcesSetBy(t)
        /\ op[t] \in MlOps => DrawingOwn(t)
    BY <2>1, Inside
  <2>4. g_random_data["ml"] = IF op[t] \in MlOps THEN t ELSE Null
    BY <2>1, <2>3 DEF SourcesSetBy, HasSetData, SourceOf, Sources
  <2>5. next = IF op[t] \in MlOps THEN "check_size" ELSE "system"
    BY <2>4
  <2> HIDE DEF next
  <2>6. Drawing(t)'
    BY <2>1, <2>2, <2>3, <2>5 DEF Drawing
  <2>7. SourcesSetBy(t)'
    BY <2>1, <2>2, <2>3, <2>5 DEF SourcesSetBy, HasSetData, HasSetSize, Stored
  <2>8. RegistersCurrent(t)'
    <3>1. kept[t] \in Registers
      BY DEF Typed, TypeOK, Registers
    <3>2. kept'[t] = [kept[t] EXCEPT !.data = g_random_data["ml"]]
      BY <2>1 DEF Typed, TypeOK
    <3>3. kept'[t].data = g_random_data["ml"]
      BY <3>1, <3>2, RegistersRead
    <3>4. QED
      BY <2>1, <2>2, <2>4, <2>5, <3>3 DEF RegistersCurrent
  <2>9. (op[t] \in MlOps => DrawingOwn(t))'
    BY <2>1, <2>2, <2>3, <2>5 DEF DrawingOwn
  <2>10. QED
    BY <2>1, <2>2, <2>3, <2>6, <2>7, <2>8, <2>9, StepInside
<1>5. ASSUME NEW t \in Threads, CheckSize(t)
      PROVE  LockedCalls'
  <2> DEFINE n == g_random_data_size["ml"]
             o == g_random_data_offset["ml"]
             next == IF n = 0 THEN "system" ELSE "measure"
  <2>1. /\ pc[t] = "check_size"
        /\ kept' = [kept EXCEPT ![t].size = n, ![t].offset = o]
        /\ total_copied' = [total_copied EXCEPT ![t] = 0]
        /\ pc' = [pc EXCEPT ![t] = next]
        /\ UNCHANGED <<g_random_data, g_random_data_size, g_random_data_offset, op, input, seed,
                       amount, out, results>>
    BY <1>5 DEF CheckSize, Goto, globals, call, history
  <2>2. OthersKept(t) /\ pc'[t] = next /\ total_copied'[t] = 0
    BY <2>1 DEF OthersKept, Typed, TypeOK
  <2>3. /\ Drawing(t) /\ op[t] \in DrawingOps /\ SourcesSetBy(t) /\ RegistersCurrent(t)
        /\ op[t] \in MlOps => DrawingOwn(t)
    BY <2>1, Inside
  <2>4. op[t] \in MlOps /\ kept[t].data = t
    BY <2>1, <2>3 DEF RegistersCurrent
  <2>5. n = BufferUnits(op[t]) /\ n # 0
    BY <2>1, <2>3, <2>4 DEF SourcesSetBy, HasSetSize, SourceOf, Sources, BufferUnits
  <2>6. pc'[t] = "measure"
    BY <2>2, <2>5
  <2>7. Drawing(t)'
    BY <2>1, <2>3, <2>6 DEF Drawing
  <2>8. SourcesSetBy(t)'
    BY <2>1, <2>3, <2>6 DEF SourcesSetBy, HasSetData, HasSetSize, Stored
  <2>9. RegistersCurrent(t)'
    <3>1. kept[t] \in Registers
      BY DEF Typed, TypeOK, Registers
    <3>2. kept'[t] = [kept[t] EXCEPT !.size = n, !.offset = o]
      BY <2>1 DEF Typed, TypeOK
    <3>3. kept'[t].data = kept[t].data /\ kept'[t].size = n /\ kept'[t].offset = o
      BY <3>1, <3>2, RegistersRead
    <3>4. QED
      BY <2>1, <2>4, <2>5, <2>6, <3>3 DEF RegistersCurrent
  <2>10. (op[t] \in MlOps => DrawingOwn(t))'
    BY <2>1, <2>2, <2>3, <2>4, <2>6 DEF DrawingOwn
  <2>11. QED
    BY <2>1, <2>2, <2>3, <2>7, <2>8, <2>9, <2>10, StepInside
<1>6. ASSUME NEW t \in Threads, DrawSystem(t)
      PROVE  LockedCalls'
  <2>1. /\ pc[t] = "system"
        /\ \E f : out' = [out EXCEPT ![t] = f]
        /\ pc' = [pc EXCEPT ![t] = "restore_data"]
        /\ UNCHANGED <<g_random_data, g_random_data_size, g_random_data_offset, op, input, seed,
                       kept, amount, total_copied, results>>
    BY <1>6 DEF DrawSystem, Goto, globals, call, history
  <2>2. OthersKept(t) /\ pc'[t] = "restore_data"
    BY <2>1 DEF OthersKept, Typed, TypeOK
  <2>3. /\ Drawing(t) /\ op[t] \in DrawingOps /\ SourcesSetBy(t)
        /\ op[t] \in MlOps => DrawingOwn(t)
    BY <2>1, Inside
  <2>4. op[t] \notin MlOps
    BY <2>1, <2>3 DEF DrawingOwn
  <2>5. Drawing(t)'
    BY <2>1, <2>2, <2>3 DEF Drawing
  <2>6. SourcesSetBy(t)'
    BY <2>1, <2>2, <2>3 DEF SourcesSetBy, HasSetData, HasSetSize, Stored
  <2>7. RegistersCurrent(t)'
    BY <2>2 DEF RegistersCurrent
  <2>8. QED
    BY <2>1, <2>2, <2>3, <2>4, <2>5, <2>6, <2>7, StepInside
<1>7. ASSUME NEW t \in Threads, Measure(t)
      PROVE  LockedCalls'
  <2>1. PICK seen \in KeptOrNow(t) :
          amount' = [amount EXCEPT ![t] =
            IF DrawUnits(op[t]) - total_copied[t] > SubSize(seen.size, seen.offset)
            THEN SubSize(seen.size, seen.offset) ELSE DrawUnits(op[t]) - total_copied[t]]
    BY <1>7 DEF Measure
  <2>2. /\ pc[t] = "measure"
        /\ pc' = [pc EXCEPT ![t] = "copy"]
        /\ UNCHANGED <<g_random_data, g_random_data_size, g_random_data_offset, op, input, seed,
                       kept, total_copied, out, results>>
    BY <1>7 DEF Measure, Goto, globals, call, history
  <2>3. OthersKept(t) /\ pc'[t] = "copy"
    BY <2>1, <2>2 DEF OthersKept, Typed, TypeOK
  <2>4. /\ Drawing(t) /\ op[t] \in DrawingOps /\ SourcesSetBy(t) /\ RegistersCurrent(t)
        /\ op[t] \in MlOps => DrawingOwn(t)
    BY <2>2, Inside
  <2>5. op[t] \in MlOps /\ total_copied[t] = 0
    BY <2>2, <2>4 DEF RegistersCurrent, DrawingOwn
  <2>6. amount'[t] = MlDraw
    <3>1. g_random_data_size["ml"] = BufferUnits(op[t]) /\ g_random_data_offset["ml"] = 0
      BY <2>2, <2>4, <2>5 DEF SourcesSetBy, HasSetSize, Stored, SourceOf, Sources
    <3>2. kept[t].size = BufferUnits(op[t]) /\ kept[t].offset = 0
      BY <2>2, <2>4, <3>1 DEF RegistersCurrent
    <3>3. seen.size = BufferUnits(op[t]) /\ seen.offset = 0
      BY <3>1, <3>2, SeenType
    <3>4. BufferUnits(op[t]) \in Nat /\ MlDraw <= BufferUnits(op[t]) /\ DrawUnits(op[t]) = MlDraw
      BY <2>5 DEF BufferUnits, DrawUnits, MlOps
    <3>5. SubSize(seen.size, seen.offset) = BufferUnits(op[t])
      BY <3>3, <3>4 DEF SubSize
    <3>6. amount'[t] = IF MlDraw - 0 > BufferUnits(op[t]) THEN BufferUnits(op[t]) ELSE MlDraw - 0
      BY <2>1, <2>5, <3>4, <3>5 DEF Typed, TypeOK
    <3>7. QED
      BY <3>4, <3>6
  <2>7. Drawing(t)'
    BY <2>2, <2>3, <2>4 DEF Drawing
  <2>8. SourcesSetBy(t)'
    BY <2>2, <2>3, <2>4 DEF SourcesSetBy, HasSetData, HasSetSize, Stored
  <2>9. RegistersCurrent(t)'
    BY <2>2, <2>3, <2>4 DEF RegistersCurrent
  <2>10. (op[t] \in MlOps => DrawingOwn(t))'
    BY <2>2, <2>3, <2>4, <2>5, <2>6 DEF DrawingOwn
  <2>11. QED
    BY <2>2, <2>3, <2>4, <2>7, <2>8, <2>9, <2>10, StepInside
<1>8. ASSUME NEW t \in Threads, Copy(t)
      PROVE  LockedCalls'
  <2>1. PICK seen \in KeptOrNow(t) :
          out' = [out EXCEPT ![t] =
                    [k \in DOMAIN out[t] |->
                       IF k \in total_copied[t] .. total_copied[t] + amount[t] - 1
                       THEN Fetch(seen.data, seen.offset + (k - total_copied[t]))
                       ELSE out[t][k]]]
    BY <1>8 DEF Copy
  <2>2. /\ pc[t] = "copy"
        /\ pc' = [pc EXCEPT ![t] = "advance"]
        /\ total_copied' = [total_copied EXCEPT ![t] = total_copied[t] + amount[t]]
        /\ UNCHANGED <<g_random_data, g_random_data_size, g_random_data_offset, op, input, seed,
                       kept, amount, results>>
    BY <1>8 DEF Copy, Goto, globals, call, history
  <2>3. OthersKept(t) /\ pc'[t] = "advance"
    BY <2>1, <2>2 DEF OthersKept, Typed, TypeOK
  <2>4. /\ Drawing(t) /\ op[t] \in DrawingOps /\ SourcesSetBy(t) /\ RegistersCurrent(t)
        /\ op[t] \in MlOps => DrawingOwn(t)
    BY <2>2, Inside
  <2>5. op[t] \in MlOps /\ total_copied[t] = 0 /\ amount[t] = MlDraw
    BY <2>2, <2>4 DEF RegistersCurrent, DrawingOwn
  <2>6. total_copied'[t] = MlDraw
    BY <2>2, <2>5 DEF Typed, TypeOK
  <2>7. out'[t] = OwnDraw(op[t], seed[t])
    <3>1. /\ g_random_data["ml"] = t /\ g_random_data_offset["ml"] = 0
      BY <2>2, <2>4, <2>5 DEF SourcesSetBy, HasSetData, Stored, SourceOf, Sources
    <3>2. kept[t].data = t /\ kept[t].offset = 0
      BY <2>2, <2>4, <3>1 DEF RegistersCurrent
    <3>3. seen.data = t /\ seen.offset = 0
      BY <3>1, <3>2, SeenType
    <3>4. /\ BufferUnits(op[t]) \in Nat /\ MlDraw <= BufferUnits(op[t]) /\ DrawUnits(op[t]) = MlDraw
      BY <2>5 DEF BufferUnits, DrawUnits, MlOps
    <3>5. DOMAIN (out[t]) = 0 .. MlDraw - 1
      BY <2>2, <3>4 DEF Typed, CallShape
    <3>6. out'[t] = [k \in 0 .. MlDraw - 1 |->
                       IF k \in 0 .. 0 + MlDraw - 1 THEN Fetch(t, 0 + (k - 0)) ELSE out[t][k]]
      BY <2>1, <2>5, <3>3, <3>5 DEF Typed, TypeOK
    <3>7. t # Null
      OBVIOUS
    <3>8. \A k \in 0 .. MlDraw - 1 : Fetch(t, k) = Unit(seed[t], k)
      BY <2>4, <3>4, <3>7 DEF Fetch
    <3>9. \A k \in 0 .. MlDraw - 1 : k \in 0 .. 0 + MlDraw - 1 /\ 0 + (k - 0) = k
      OBVIOUS
    <3>10. out'[t] = [k \in 0 .. MlDraw - 1 |-> Unit(seed[t], k)]
      BY <3>6, <3>8, <3>9
    <3>11. QED
      BY <3>4, <3>10 DEF OwnDraw
  <2>8. Drawing(t)'
    BY <2>2, <2>3, <2>4 DEF Drawing
  <2>9. SourcesSetBy(t)'
    BY <2>2, <2>3, <2>4 DEF SourcesSetBy, HasSetData, HasSetSize, Stored
  <2>10. RegistersCurrent(t)'
    BY <2>2, <2>3, <2>4 DEF RegistersCurrent
  <2>11. (op[t] \in MlOps => DrawingOwn(t))'
    BY <2>2, <2>3, <2>4, <2>5, <2>6, <2>7 DEF DrawingOwn
  <2>12. QED
    BY <2>2, <2>3, <2>4, <2>8, <2>9, <2>10, <2>11, StepInside
<1>9. ASSUME NEW t \in Threads, Advance(t) \/ Wrap(t)
      PROVE  LockedCalls'
  <2> DEFINE next == IF Advance(t) THEN "wrap" ELSE "restore_data"
  <2>1. /\ pc[t] \in {"advance", "wrap"}
        /\ Advance(t) => pc[t] = "advance"
        /\ Wrap(t) => pc[t] = "wrap"
        /\ UNCHANGED <<g_random_data, g_random_data_size, op, input, seed,
                       amount, total_copied, out, results>>
    BY <1>9 DEF Advance, Wrap, call, history
  <2>2. /\ Drawing(t) /\ op[t] \in DrawingOps /\ SourcesSetBy(t) /\ RegistersCurrent(t)
        /\ op[t] \in MlOps => DrawingOwn(t)
    BY <2>1, Inside
  <2>3. op[t] \in MlOps /\ total_copied[t] = MlDraw /\ DrawUnits(op[t]) = MlDraw
    <3>1. op[t] \in MlOps
      BY <2>1, <2>2 DEF RegistersCurrent
    <3>2. total_copied[t] = MlDraw
      BY <2>1, <2>2, <3>1 DEF DrawingOwn
    <3>3. QED
      BY <3>1, <3>2 DEF DrawUnits, MlOps
  <2>4. pc' = [pc EXCEPT ![t] = next]
    <3>1. CASE Advance(t)
      BY <3>1 DEF Advance, Goto
    <3>2. CASE Wrap(t) /\ ~Advance(t)
      <4>1. ~(total_copied[t] < DrawUnits(op[t]))
        BY <2>3
      <4>2. QED
        BY <3>2, <4>1 DEF Wrap, Goto
    <3>3. QED
      BY <1>9, <3>1, <3>2
  <2>5. PICK o \in 0 .. SizeMod - 1 : StoreOffset(t, o) \/ UNCHANGED <<g_random_data_offset, kept>>
    <3>1. CASE Advance(t)
      <4>1. PICK seen \in KeptOrNow(t) : StoreOffset(t, (seen.offset + amount[t]) % SizeMod)
        BY <3>1 DEF Advance
      <4>2. seen.offset \in 0 .. SizeMod - 1
        BY SeenType
      <4>3. seen.offset + amount[t] \in Nat /\ SizeMod \in Nat \ {0}
        BY <4>2 DEF Typed, TypeOK
      <4>4. (seen.offset + amount[t]) % SizeMod \in 0 .. SizeMod - 1
        BY <4>3, RemainderInRange
      <4>5. QED
        BY <4>1, <4>4
    <3>2. CASE Wrap(t)
      <4>1. 0 \in 0 .. SizeMod - 1
        OBVIOUS
      <4>2. StoreOffset(t, 0) \/ UNCHANGED <<g_random_data_offset, kept>>
        BY <3>2 DEF Wrap
      <4>3. QED
        BY <4>1, <4>2
    <3>3. QED
      BY <1>9, <3>1, <3>2
  <2>6. pc'[t] = next /\ next \in {"wrap", "restore_data"}
    BY <2>4 DEF Typed, TypeOK
  <2> HIDE DEF next
  <2>7. /\ g_random_data_offset'["slh"] = g_random_data_offset["slh"]
        /\ \A u \in Threads : u # t => kept'[u] = kept[u]
    BY <2>5 DEF StoreOffset, Typed, TypeOK, Sources
  <2>8. OthersKept(t)
    BY <2>1, <2>4, <2>7 DEF OthersKept, Typed, TypeOK
  <2>9. Drawing(t)'
    BY <2>1, <2>2, <2>6 DEF Drawing
  <2>10. SourcesSetBy(t)'
    BY <2>1, <2>2, <2>3, <2>6, <2>7 DEF SourcesSetBy, HasSetData, HasSetSize, Stored, Sources
  <2>11. RegistersCurrent(t)'
    <3>1. /\ kept[t] \in Registers /\ kept[t].data = t /\ kept[t].size = BufferUnits(op[t])
          /\ kept[t].offset = g_random_data_offset["ml"]
      BY <2>1, <2>2 DEF RegistersCurrent, Typed, TypeOK, Registers
    <3>2. kept'[t].data = t /\ kept'[t].size = BufferUnits(op[t])
          /\ kept'[t].offset = g_random_data_offset'["ml"]
      <4>1. CASE StoreOffset(t, o)
        <5>1. kept'[t] = [kept[t] EXCEPT !.offset = o] /\ g_random_data_offset'["ml"] = o
          BY <4>1 DEF StoreOffset, Typed, TypeOK, Sources
        <5>2. QED
          BY <3>1, <5>1, RegistersRead
      <4>2. CASE UNCHANGED <<g_random_data_offset, kept>>
        BY <3>1, <4>2
      <4>3. QED
        BY <2>5, <4>1, <4>2
    <3>3. QED
      BY <2>1, <2>3, <3>2 DEF RegistersCurrent
  <2>12. (op[t] \in MlOps => DrawingOwn(t))'
    BY <2>1, <2>2, <2>3, <2>6 DEF DrawingOwn
  <2>13. QED
    BY <2>1, <2>2, <2>8, <2>9, <2>10, <2>11, <2>12, StepInside
<1>10. ASSUME NEW t \in Threads, RestoreData(t)
       PROVE  LockedCalls'
  <2>1. /\ pc[t] = "restore_data"
        /\ g_random_data' = [g_random_data EXCEPT ![SourceOf(op[t])] = Null]
        /\ pc' = [pc EXCEPT ![t] = "restore_size"]
        /\ UNCHANGED <<g_random_data_size, g_random_data_offset, op, input, seed, kept, amount,
                       total_copied, out, results>>
    BY <1>10 DEF RestoreData, Goto, call, draw, history
  <2>2. OthersKept(t) /\ pc'[t] = "restore_size"
    BY <2>1 DEF OthersKept, Typed, TypeOK
  <2>3. /\ Drawing(t) /\ op[t] \in DrawingOps /\ SourcesSetBy(t)
        /\ op[t] \in MlOps => DrawingOwn(t)
    BY <2>1, Inside
  <2>4. Drawing(t)'
    BY <2>1, <2>2, <2>3 DEF Drawing
  <2>5. SourcesSetBy(t)'
    BY <2>1, <2>2, <2>3 DEF SourcesSetBy, HasSetData, HasSetSize, Stored, Typed, TypeOK
  <2>6. RegistersCurrent(t)'
    BY <2>2 DEF RegistersCurrent
  <2>7. (op[t] \in MlOps => DrawingOwn(t))'
    BY <2>1, <2>2, <2>3 DEF DrawingOwn
  <2>8. QED
    BY <2>1, <2>2, <2>3, <2>4, <2>5, <2>6, <2>7, StepInside
<1>11. ASSUME NEW t \in Threads, RestoreSize(t)
       PROVE  LockedCalls'
  <2>1. /\ pc[t] = "restore_size"
        /\ g_random_data_size' = [g_random_data_size EXCEPT ![SourceOf(op[t])] = 0]
        /\ pc' = [pc EXCEPT ![t] = "restore_offset"]
        /\ UNCHANGED <<g_random_data, g_random_data_offset, op, input, seed, kept, amount,
                       total_copied, out, results>>
    BY <1>11 DEF RestoreSize, Goto, call, draw, history
  <2>2. OthersKept(t) /\ pc'[t] = "restore_offset"
    BY <2>1 DEF OthersKept, Typed, TypeOK
  <2>3. /\ Drawing(t) /\ op[t] \in DrawingOps /\ SourcesSetBy(t)
        /\ op[t] \in MlOps => DrawingOwn(t)
    BY <2>1, Inside
  <2>4. Drawing(t)'
    BY <2>1, <2>2, <2>3 DEF Drawing
  <2>5. SourcesSetBy(t)'
    BY <2>1, <2>2, <2>3 DEF SourcesSetBy, HasSetData, HasSetSize, Stored, Typed, TypeOK
  <2>6. RegistersCurrent(t)'
    BY <2>2 DEF RegistersCurrent
  <2>7. (op[t] \in MlOps => DrawingOwn(t))'
    BY <2>1, <2>2, <2>3 DEF DrawingOwn
  <2>8. QED
    BY <2>1, <2>2, <2>3, <2>4, <2>5, <2>6, <2>7, StepInside
<1>12. ASSUME NEW t \in Threads, RestoreOffset(t)
       PROVE  LockedCalls'
  <2>1. /\ pc[t] = "restore_offset"
        /\ g_random_data_offset' = [g_random_data_offset EXCEPT ![SourceOf(op[t])] = 0]
        /\ pc' = [pc EXCEPT ![t] = "return"]
        /\ UNCHANGED <<g_random_data, g_random_data_size, op, input, seed, kept, amount,
                       total_copied, out, results>>
    BY <1>12 DEF RestoreOffset, Goto, call, draw, history
  <2>2. OthersKept(t) /\ pc'[t] = "return"
    BY <2>1 DEF OthersKept, Typed, TypeOK
  <2>3. /\ Drawing(t) /\ op[t] \in DrawingOps /\ SourcesSetBy(t)
        /\ op[t] \in MlOps => DrawingOwn(t)
    BY <2>1, Inside
  <2>4. Drawing(t)'
    BY <2>1, <2>2, <2>3 DEF Drawing
  <2>5. SourcesSetBy(t)'
    BY <2>1, <2>2, <2>3 DEF SourcesSetBy, HasSetData, HasSetSize, Stored, SourceOf, Sources, Typed,
                            TypeOK
  <2>6. RegistersCurrent(t)'
    BY <2>2 DEF RegistersCurrent
  <2>7. (op[t] \in MlOps => DrawingOwn(t))'
    BY <2>1, <2>2, <2>3 DEF DrawingOwn
  <2>8. QED
    BY <2>1, <2>2, <2>3, <2>4, <2>5, <2>6, <2>7, StepInside
<1>13. ASSUME NEW t \in Threads, Expand(t)
       PROVE  LockedCalls'
  <2>1. /\ pc[t] = "expand"
        /\ \E f : out' = [out EXCEPT ![t] = f]
        /\ pc' = [pc EXCEPT ![t] = "return"]
        /\ UNCHANGED <<globals, op, input, seed, kept, amount, total_copied, results>>
    BY <1>13 DEF Expand, Goto, call, history
  <2>2. OthersKept(t) /\ op[t] \notin DrawingOps /\ op[t] \notin MlOps
    BY <2>1 DEF OthersKept, DrawingOps, MlOps, Typed, TypeOK, CallShape
  <2>3. ~Drawing(t) /\ ~Drawing(t)' /\ op'[t] \notin MlOps
    BY <2>1, <2>2 DEF Drawing
  <2>4. DrewOwn'
    BY <2>1 DEF LockedCalls, DrewOwn
  <2>5. QED
    BY <2>1, <2>2, <2>3, <2>4, StepOutside
<1>14. ASSUME NEW t \in Threads, Return(t)
       PROVE  LockedCalls'
  <2> DEFINE r == [op |-> op[t], input |-> input[t], seed |-> seed[t], drawn |-> out[t]]
  <2>1. /\ pc[t] = "return"
        /\ results' = results \cup {r}
        /\ pc' = [pc EXCEPT ![t] = "idle"]
        /\ UNCHANGED <<globals, op, input, seed, kept, amount, total_copied, out>>
    BY <1>14 DEF Return, Goto, call, draw
  <2>2. OthersKept(t) /\ pc'[t] = "idle" /\ ~Drawing(t)'
    BY <2>1 DEF OthersKept, Drawing, Typed, TypeOK
  <2>3. DrewOwn'
    <3>1. op[t] \in MlOps => seed[t] = SeedFor(op[t], input[t]) /\ out[t] = OwnDraw(op[t], seed[t])
      BY <2>1 DEF LockedCalls, DrawsOwn, DrawingOwn
    <3>2. r.op = op[t] /\ r.input = input[t] /\ r.seed = seed[t] /\ r.drawn = out[t]
      OBVIOUS
    <3> HIDE DEF r
    <3>3. QED
      BY <2>1, <3>1, <3>2 DEF LockedCalls, DrewOwn
  <2>4. CASE ~Drawing(t)
    BY <2>1, <2>2, <2>3, <2>4, StepOutside
  <2>5. CASE Drawing(t)
    <3>1. /\ \A u \in Threads : Drawing(u) => u = t
          /\ SourcesSetBy(t)
      BY <2>5 DEF LockedCalls, SoleUser
    <3>2. \A u \in Threads : ~Drawing(u)'
      BY <2>2, <3>1, OthersDrawing
    <3>3. SoleUser'
      BY <3>2 DEF SoleUser
    <3>4. CleanBetweenCalls'
      <4>1. \A a \in Sources : /\ g_random_data[a] = Null
                               /\ g_random_data_size[a] = 0
                               /\ g_random_data_offset[a] = 0
        BY <2>1, <3>1 DEF SourcesSetBy, HasSetData, HasSetSize, Stored
      <4>2. QED
        BY <2>1, <4>1 DEF CleanBetweenCalls, globals
    <3>5. DrawsOwn'
      BY <2>2, OthersDrawOwn DEF LockedCalls
    <3>6. QED
      BY <2>3, <3>3, <3>4, <3>5 DEF LockedCalls
  <2>6. QED
    BY <2>4, <2>5
<1>15. ASSUME NEW t \in Threads, Call(t)
       PROVE  LockedCalls'
  <2>1. PICK o \in Ops, i \in Inputs :
          /\ o \in DrawingOps => \A u \in Threads : ~Drawing(u)
          /\ op' = [op EXCEPT ![t] = o]
          /\ input' = [input EXCEPT ![t] = i]
          /\ \E s \in {SeedFor(o, i)} \cup (IF o = "slh_sign" THEN {ZeroSeed} ELSE {}) :
               seed' = [seed EXCEPT ![t] = s]
          /\ pc' = [pc EXCEPT ![t] = IF o \in DrawingOps THEN "init_data" ELSE "expand"]
          /\ out' = [out EXCEPT ![t] = [k \in 0 .. DrawUnits(o) - 1 |-> Unset]]
    BY <1>15 DEF Call, Goto
  <2>2. pc[t] = "idle" /\ UNCHANGED <<globals, kept, amount, total_copied, results>>
    BY <1>15 DEF Call
  <2>3. OthersKept(t)
    BY <2>1, <2>2 DEF OthersKept, Typed, TypeOK
  <2>4. op'[t] = o /\ input'[t] = i
    BY <2>1 DEF Typed, TypeOK
  <2>5. DrewOwn'
    BY <2>2 DEF LockedCalls, DrewOwn
  <2>6. ~Drawing(t)
    BY <2>2 DEF Drawing
  <2>7. CASE o \in DrawingOps
    <3>1. pc'[t] = "init_data"
      BY <2>1, <2>7 DEF Typed, TypeOK
    <3>2. \A u \in Threads : Drawing(u)' => u = t
      BY <2>1, <2>3, <2>7, OthersDrawing
    <3>3. Drawing(t)'
      BY <2>4, <2>7, <3>1 DEF Drawing
    <3>4. SourcesSetBy(t)'
      <4>1. \A a \in Sources : /\ g_random_data[a] = Null
                               /\ g_random_data_size[a] = 0
                               /\ g_random_data_offset[a] = 0
        BY <2>1, <2>7 DEF LockedCalls, CleanBetweenCalls
      <4>2. QED
        BY <2>2, <3>1, <4>1 DEF SourcesSetBy, HasSetData, HasSetSize, Stored, globals
    <3>5. RegistersCurrent(t)'
      BY <3>1 DEF RegistersCurrent
    <3>6. SoleUser'
      BY <3>2, <3>4, <3>5 DEF SoleUser
    <3>7. CleanBetweenCalls'
      BY <3>3 DEF CleanBetweenCalls
    <3>8. (pc[t] # "idle" /\ op[t] \in MlOps => DrawingOwn(t))'
      <4>1. op'[t] \in MlOps => seed'[t] = SeedFor(o, i)
        BY <2>1, <2>4 DEF MlOps, Typed, TypeOK
      <4>2. QED
        BY <2>4, <3>1, <4>1 DEF DrawingOwn
    <3>9. DrawsOwn'
      BY <2>3, <3>8, OthersDrawOwn DEF LockedCalls
    <3>10. QED
      BY <2>5, <3>6, <3>7, <3>9 DEF LockedCalls
  <2>8. CASE o \notin DrawingOps
    <3>1. ~Drawing(t)' /\ op'[t] \notin MlOps
      BY <2>4, <2>8 DEF Drawing, DrawingOps, MlOps, Ops
    <3>2. QED
      BY <2>2, <2>3, <2>5, <2>6, <3>1, StepOutside
  <2>9. QED
    BY <2>7, <2>8
<1>16. CASE UNCHANGED vars
  <2>1. UNCHANGED <<globals, pc, op, input, seed, kept, amount, total_copied, out, results>>
    BY <1>16 DEF vars, call, draw, history
  <2>2. \A t \in Threads : /\ Drawing(t)' <=> Drawing(t)
                           /\ SourcesSetBy(t)' <=> SourcesSetBy(t)
                           /\ RegistersCurrent(t)' <=> RegistersCurrent(t)
                           /\ DrawingOwn(t)' <=> DrawingOwn(t)
    BY <2>1 DEF globals, Drawing, SourcesSetBy, RegistersCurrent, DrawingOwn, HasSetData,
                HasSetSize, Stored
  <2>3. QED
    BY <2>1, <2>2 DEF globals, LockedCalls, SoleUser, CleanBetweenCalls, DrawsOwn, DrewOwn
<1>17. QED
  BY <1>1, <1>2, <1>3, <1>4, <1>5, <1>6, <1>7, <1>8, <1>9, <1>10, <1>11, <1>12, <1>13, <1>14,
     <1>15, <1>16 DEF Next, Step

(* When the callers serialise the calls that draw, a call that draws works *)
(* on its own buffer and leaves nothing behind.                            *)
THEOREM LockedCallsHold == Spec => []LockedCalls
<1>1. Typed /\ LockedCalls /\ [Next]_vars => LockedCalls'
  BY LockedNext, UnlockedHolds DEF LockedCalls, SoleUser, CleanBetweenCalls, DrawsOwn, DrewOwn
<1>2. QED
  BY TypedInit, TypedNext, LockedInit, <1>1, PTL DEF Spec

(* In a locked library two ML-DSA calls on the same inputs draw the same   *)
(* bytes, however the other calls interleave with them.                    *)
THEOREM LockedMlDeterministic ==
  ASSUME Locked
  PROVE  Spec => []MlDeterministic
<1>1. LockedCalls => MlDeterministic
  BY DEF LockedCalls, DrewOwn, MlDeterministic, SameCall
<1>2. QED
  BY <1>1, LockedCallsHold, PTL

(* In a locked library two different ML-DSA calls draw different bytes.    *)
THEOREM LockedMlFresh ==
  ASSUME Locked
  PROVE  Spec => []MlFresh
<1>1. ASSUME LockedCalls
      PROVE  MlFresh
  <2> SUFFICES ASSUME NEW r \in results, NEW s \in results,
                      r.op \in MlOps, s.op \in MlOps, r.drawn = s.drawn
               PROVE  SameCall(r, s)
    BY DEF MlFresh
  <2>1. /\ r.seed = SeedFor(r.op, r.input) /\ r.drawn = OwnDraw(r.op, r.seed)
        /\ s.seed = SeedFor(s.op, s.input) /\ s.drawn = OwnDraw(s.op, s.seed)
    BY <1>1 DEF LockedCalls, DrewOwn
  <2>2. OwnDraw(r.op, r.seed)[0] = Unit(r.seed, 0) /\ OwnDraw(s.op, s.seed)[0] = Unit(s.seed, 0)
    <3>1. DrawUnits(r.op) = MlDraw /\ DrawUnits(s.op) = MlDraw
      BY DEF DrawUnits, MlOps
    <3>2. 0 \in 0 .. MlDraw - 1
      BY SizesAssumption
    <3>3. QED
      BY <3>1, <3>2 DEF OwnDraw
  <2>3. Unit(r.seed, 0) = Unit(s.seed, 0)
    BY <2>1, <2>2
  <2>4. r.seed = s.seed
    BY <2>3 DEF Unit
  <2>5. QED
    BY <2>1, <2>4 DEF SeedFor, SameCall
<1>2. QED
  BY <1>1, LockedCallsHold, PTL

LEMMA NotStray ==
  ASSUME NEW s, NEW k, NEW u
  PROVE  Unset # Stray /\ System(u) # Stray /\ Unit(s, k) # Stray
<1>1. Unset[1] # Stray[1] /\ System(u)[1] # Stray[1] /\ Unit(s, k)[1] # Stray[1]
  BY DEF Unset, System, Unit, Stray
<1>2. QED
  BY <1>1

LEMMA ReadsLiveNext ==
  Locked /\ Typed /\ LockedCalls /\ LockedCalls' /\ ReadsLiveBuffers /\ [Next]_vars => ReadsLiveBuffers'
<1> SUFFICES ASSUME Locked, Typed, LockedCalls, LockedCalls', ReadsLiveBuffers, [Next]_vars
             PROVE  ReadsLiveBuffers'
  OBVIOUS
(* A step that gives thread t an answer f without a stray unit. *)
<1>1. ASSUME NEW t \in Threads, NEW f, \A k \in DOMAIN f : f[k] # Stray,
             out' = [out EXCEPT ![t] = f]
      PROVE  ReadsLiveBuffers'
  BY <1>1 DEF ReadsLiveBuffers, Typed, TypeOK
<1>2. ASSUME NEW t \in Threads, Call(t)
      PROVE  ReadsLiveBuffers'
  <2>1. PICK o \in Ops : out' = [out EXCEPT ![t] = [k \in 0 .. DrawUnits(o) - 1 |-> Unset]]
    BY <1>2 DEF Call
  <2> DEFINE f == [k \in 0 .. DrawUnits(o) - 1 |-> Unset]
  <2>2. \A k \in DOMAIN f : f[k] # Stray
    BY NotStray
  <2>3. out' = [out EXCEPT ![t] = f]
    BY <2>1
  <2> HIDE DEF f
  <2>4. QED
    BY <1>1, <2>2, <2>3
<1>3. ASSUME NEW t \in Threads, DrawSystem(t)
      PROVE  ReadsLiveBuffers'
  <2>1. PICK u \in SystemUnits : out' = [out EXCEPT ![t] = [k \in DOMAIN out[t] |-> System(u)]]
    BY <1>3 DEF DrawSystem
  <2> DEFINE f == [k \in DOMAIN out[t] |-> System(u)]
  <2>2. \A k \in DOMAIN f : f[k] # Stray
    BY NotStray
  <2>3. out' = [out EXCEPT ![t] = f]
    BY <2>1
  <2> HIDE DEF f
  <2>4. QED
    BY <1>1, <2>2, <2>3
<1>4. ASSUME NEW t \in Threads, Copy(t)
      PROVE  ReadsLiveBuffers'
  <2>1. pc[t] = "copy" /\ op' = op /\ seed' = seed
    BY <1>4 DEF Copy, call
  <2>2. op[t] \in MlOps
    BY <2>1, Inside DEF RegistersCurrent
  <2>3. pc'[t] = "advance"
    BY <1>4 DEF Copy, Goto, Typed, TypeOK
  <2>4. out'[t] = OwnDraw(op[t], seed[t])
    BY <2>1, <2>2, <2>3 DEF LockedCalls, DrawsOwn, DrawingOwn
  <2>5. \A k \in DOMAIN (out'[t]) : out'[t][k] # Stray
    BY <2>4, NotStray DEF OwnDraw
  <2>6. \A u \in Threads : u # t => out'[u] = out[u]
    BY <1>4 DEF Copy, Typed, TypeOK
  <2>7. QED
    BY <2>5, <2>6 DEF ReadsLiveBuffers
<1>5. ASSUME NEW t \in Threads, Expand(t)
      PROVE  ReadsLiveBuffers'
  <2>1. out' = [out EXCEPT ![t] = [k \in DOMAIN out[t] |-> Unit(seed[t], k)]]
    BY <1>5 DEF Expand
  <2> DEFINE f == [k \in DOMAIN out[t] |-> Unit(seed[t], k)]
  <2>2. \A k \in DOMAIN f : f[k] # Stray
    BY NotStray
  <2>3. out' = [out EXCEPT ![t] = f]
    BY <2>1
  <2> HIDE DEF f
  <2>4. QED
    BY <1>1, <2>2, <2>3
<1>6. ASSUME UNCHANGED out
      PROVE  ReadsLiveBuffers'
  BY <1>6 DEF ReadsLiveBuffers
<1>7. ASSUME NEW t \in Threads,
             \/ InitData(t) \/ InitSize(t) \/ InitOffset(t) \/ CheckData(t) \/ CheckSize(t)
             \/ Measure(t) \/ Advance(t) \/ Wrap(t)
             \/ RestoreData(t) \/ RestoreSize(t) \/ RestoreOffset(t) \/ Return(t)
      PROVE  UNCHANGED out
  BY <1>7 DEF InitData, InitSize, InitOffset, CheckData, CheckSize, Measure, Advance, Wrap,
              RestoreData, RestoreSize, RestoreOffset, Return, draw
<1>8. CASE UNCHANGED vars
  BY <1>6, <1>8 DEF vars, draw
<1>9. QED
  BY <1>2, <1>3, <1>4, <1>5, <1>6, <1>7, <1>8 DEF Next, Step

(* In a locked library every copy reads inside the buffer of the call that *)
(* makes it.                                                               *)
THEOREM LockedReadsLiveBuffers ==
  ASSUME Locked
  PROVE  Spec => []ReadsLiveBuffers
<1>1. Init => ReadsLiveBuffers
  BY DEF Init, ReadsLiveBuffers
<1>2. Typed /\ LockedCalls /\ LockedCalls' /\ ReadsLiveBuffers /\ [Next]_vars => ReadsLiveBuffers'
  BY ReadsLiveNext
<1>3. Spec => []Typed
  BY TypedInit, TypedNext, PTL DEF Spec
<1>4. QED
  BY <1>1, <1>2, <1>3, LockedCallsHold, PTL DEF Spec
=============================================================================
