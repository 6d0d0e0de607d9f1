----------------------------- MODULE MCBPlusTree -----------------------------
EXTENDS BPlusTreeCorrectness

CONSTANT MaxKey

MCKeys == 0 .. MaxKey
MCRids == [k \in MCKeys |-> {100 + k}]
MCFanouts == {<<3, 3>>, <<4, 3>>}
MCIntervals == {<<2, MaxKey - 2>>}
MCNone == -1

\* Page ids are only names.  Between calls a tree is seen with its pages renamed in
\* the order of a walk, so that trees which differ by a renaming are explored once.
Walk == LET rows == Rows
        IN  FlattenSeq([d \in DOMAIN rows |-> [i \in DOMAIN rows[d] |-> rows[d][i].id]])

Name(walk, id) == IF \E i \in DOMAIN walk : walk[i] = id
                  THEN CHOOSE i \in DOMAIN walk : walk[i] = id ELSE -id

Renamed(walk, node) ==
    CASE IsLeaf(node) -> [node EXCEPT !.next = Name(walk, @)]
      [] IsInternal(node) ->
            [node EXCEPT !.entries = [i \in DOMAIN @ |-> [@[i] EXCEPT !.child = Name(walk, @)]]]
      [] OTHER -> node

View ==
    IF pc = "idle"
    THEN LET walk == Walk
         IN  <<pc, tree, Header.height, Header.fanout, [i \in DOMAIN walk |-> Renamed(walk, page[walk[i]])],
               Cardinality(leaked), Cardinality(FreePages)>>
    ELSE vars

\* Bound: once a page has leaked, the run goes on while the index holds few entries.
LeakBound == leaked # {} /\ pc = "idle" => Cardinality(Contents) <= MaxKey \div 2

=============================================================================
