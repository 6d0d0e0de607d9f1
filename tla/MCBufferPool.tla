---------------------------- MODULE MCBufferPool ----------------------------
(***************************************************************************)
(* Small pools for TLC.                                                    *)
(***************************************************************************)
EXTENDS BufferPoolCorrectness, TLC

Symmetry == Permutations(Threads)

=============================================================================
