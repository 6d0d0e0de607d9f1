----------------------------- MODULE MCTableHeap -----------------------------
EXTENDS TableHeap, TLC

CONSTANT Lengths

\* One row of each length.
MCTuples == {[k \in 1 .. n |-> n] : n \in Lengths}

Symmetry == Permutations(Threads \ Scanners) \cup Permutations(PageIds)

=============================================================================
