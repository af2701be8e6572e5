---------------------------- MODULE MCBufferPool ----------------------------
(* Instances of BufferPool for TLC. *)
EXTENDS BufferPool, TLC

CONSTANTS t1, t2, t3

PoolSymmetry == Permutations(Threads)
=============================================================================
