------------------------------ MODULE MCPqcApi ------------------------------
(* PqcApi with interchangeable blocks, random data and messages. *)
EXTENDS PqcApi, TLC

Interchangeable == Permutations(Blocks) \cup Permutations(Randoms) \cup Permutations(Messages)
=============================================================================
