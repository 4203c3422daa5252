---------------------------- MODULE MCMemoryPool -----------------------------
(* The constants that a configuration file cannot write for MemoryPool.     *)
EXTENDS MemoryPool, TLC

\* A page whose failed_ is at the limit from the start, and one whose quote_
\* wraps to 0 when it is first counted.  Pages reset are clear.
MCLeftover == {<<0, FailedLimit>>, <<UIntMod - 1, 0>>}

MCSymmetry == Permutations(Chunks)
=============================================================================
