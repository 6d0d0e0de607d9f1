------------------------------ MODULE MCHeapPage ------------------------------
EXTENDS HeapPage, TLC

CONSTANT Contents

\* Tuples of every length from none to one more than the longest; each byte
\* tells which content it belongs to and where.
MCTuples == {[k \in 1 .. n |-> <<v, k>>] : v \in Contents, n \in 0 .. MAX_TUPLE_SIZE + 1}

Symmetry == Permutations(Contents)

=============================================================================
