---------------------------- MODULE MCDiskManager ----------------------------
(* Small instances of DiskManager. *)
EXTENDS DiskManager, TLC

Symmetry == Permutations(Threads)

=============================================================================
