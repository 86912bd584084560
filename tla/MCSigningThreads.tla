-------------------------- MODULE MCSigningThreads --------------------------
(* SigningThreads with the sizes of the code in units of 16 bytes.         *)
EXTENDS SigningThreads, TLC

MCEntropyUnits == 8
MCSeedUnits == 4
MCMlDraw == 2
MCSlhDraw == 1
MCSlhKeyUnits == 3
MCSizeMod == 1024
Interchangeable == Permutations(Threads) \cup Permutations(Inputs)
=============================================================================
