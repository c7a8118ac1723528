------------------------------ MODULE MCPools ------------------------------
(* Small instances of Pools. *)
EXTENDS Pools, TLC

Interchangeable == Permutations(Request) \cup Permutations(Member)
=============================================================================
