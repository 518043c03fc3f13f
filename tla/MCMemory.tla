------------------------------ MODULE MCMemory ------------------------------
(* Small instance of Memory.  Pool addresses are interchangeable: nothing  *)
(* compares them except for equality, so they are permuted.                *)
EXTENDS Memory, TLC

Symmetry == Permutations(PoolAddrs)
=============================================================================
