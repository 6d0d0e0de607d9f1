------------------------- MODULE BPlusTreeCorrectness -------------------------
(***************************************************************************)
(* src/src/indices/b_plus_tree.cpp: what BPlusTree is to keep of the tree as *)
(* a whole, which the code's own CheckInvariants states, and the index that  *)
(* the tree stands for.                                                     *)
(***************************************************************************)
EXTENDS BPlusTree, SequencesExt

(***************************************************************************)
(* The tree as a whole: CheckInvariants and CheckSubtree.                   *)
(***************************************************************************)

Header == page[header_page_id]
Height == Header.height

\* Above every key, where the code has no upper bound.
NoBound == Max(Keys) + 1

\* The children of a node, each with the interval its keys must lie in.
Children(x) ==
    LET entries == IF IsInternal(page[x.id]) THEN page[x.id].entries ELSE <<>>
    IN  [i \in DOMAIN entries |->
            [id |-> entries[i].child,
             lo |-> IF i = 1 THEN x.lo ELSE entries[i].key,
             hi |-> IF i = Len(entries) THEN x.hi ELSE entries[i + 1].key]]

\* The nodes a walk from the root meets at each depth, from left to right.
Rows ==
    LET row[d \in 1 .. Height] ==
            IF d = 1 THEN <<[id |-> Header.root, lo |-> INT64_MIN, hi |-> NoBound]>>
            ELSE LET above == row[d - 1]
                 IN  FlattenSeq([i \in DOMAIN above |-> Children(above[i])])
    IN  [d \in 1 .. Height |-> row[d]]

MinCount(node, is_root) ==
    IF IsLeaf(node) THEN IF is_root THEN 0 ELSE LeafMinEntries(Header.fanout[1])
    ELSE IF is_root THEN 2 ELSE InternalMinChildren(Header.fanout[2])
MaxCount(node) == Header.fanout[IF IsLeaf(node) THEN 1 ELSE 2]

CheckNode(x, depth) ==
    LET node == page[x.id]
    IN  /\ IF depth = Height THEN IsLeaf(node) ELSE IsInternal(node)
        /\ NodeCheckInvariants(node)
        /\ IsLeaf(node) => \A i \in 1 .. Count(node) : node.entries[i].rid # NoRid
        /\ node.level = Height - depth
        /\ MinCount(node, depth = 1) <= Count(node) /\ Count(node) <= MaxCount(node)
        /\ \A i \in (IF IsLeaf(node) THEN 1 ELSE 2) .. Count(node) :
              x.lo <= node.entries[i].key /\ node.entries[i].key < x.hi

CheckInvariants ==
    LET rows == Rows
        ids == <<header_page_id>> \o FlattenSeq([d \in DOMAIN rows |-> [i \in DOMAIN rows[d] |-> rows[d][i].id]])
        leaves == rows[Height]
    IN  /\ IsHeader(Header) /\ Height >= 1
        /\ tree # NoTree => tree = Header.fanout
        /\ \A d \in DOMAIN rows : \A i \in DOMAIN rows[d] : CheckNode(rows[d][i], d)
        /\ IsInjective(ids)
        /\ \A i \in DOMAIN leaves :
              page[leaves[i].id].next = IF i = Len(leaves) THEN INVALID_PAGE ELSE leaves[i + 1].id

(***************************************************************************)
(* Properties.                                                             *)
(***************************************************************************)

Exists == header_page_id # INVALID_PAGE

\* A mutation is between its first write and its last one.
Writing == pc \in {"ascend", "apply", "collapse"}

\* An iterator is open: no page changes until it is dropped.
Scanning == pc \in {"cursor", "next"}

\* The tree passes its own CheckInvariants whenever no mutation is writing it:
\* between calls, after every error, and while unlinked pages are being freed.
TreeIsSound == Exists /\ ~Writing /\ ~Scanning => CheckInvariants

\* The header, the nodes of the tree, and the pages its leaves link to.
TreePages ==
    LET rows == Rows
        ids == UNION {{rows[d][i].id : i \in DOMAIN rows[d]} : d \in DOMAIN rows}
    IN  {header_page_id} \cup ids
        \cup ({page[id].next : id \in {x \in ids : IsLeaf(page[x])}} \ {INVALID_PAGE})

\* Every page in use is in the tree, or the call in progress holds it or has still to free
\* it, or it was lost to a DeletePage that failed, and only one of these: no other page
\* leaks (Create, AllocatePages), and nothing links to a page that is free, is about to be
\* freed or was lost (ApplyDeletePlan).
PagesHaveOneHome ==
    ~Writing /\ ~Scanning =>
        LET in_tree == IF Exists THEN TreePages ELSE {}
            others == Range(loc.pages) \cup Range(loc.to_free) \cup leaked
        IN  /\ Pages \ FreePages = in_tree \cup others
            /\ in_tree \cap others = {}

(***************************************************************************)
(* The index the tree stands for is what its leaves hold.                   *)
(***************************************************************************)

Leaves == {p \in Pages : IsLeaf(page[p])} \ (leaked \cup Range(loc.to_free))
Contents == UNION {Range(page[p].entries) : p \in Leaves}

\* The last call has answered, and was one of the abstract index's.
Answered == pc \in {"idle", "cursor"} /\ loc.op \notin {"none", "create", "open"}

Abstract == INSTANCE OrderedIndex WITH
    NoKey <- INT64_MIN,
    entries <- Contents,
    applied <- IF Writing \/ (pc = "free" /\ loc.status = "OK")
               THEN [op |-> loc.op, key |-> loc.key] ELSE [op |-> "none", key |-> INT64_MIN],
    cursor <- IF ~it.open THEN [state |-> "none"]
              ELSE IF it.ended THEN [state |-> "end"]
              ELSE [state |-> "open", from |-> it.from, hi |-> it.hi],
    answer <- IF Answered THEN [op |-> loc.op, key |-> loc.key, status |-> loc.status, rid |-> loc.rid]
              ELSE [op |-> "none", key |-> INT64_MIN, status |-> "none", rid |-> NoRid]

\* The tree implements OrderedIndex: every call answers as the entries say, a mutation
\* takes effect at one step and is then answered OK, an error leaves the entries as they
\* were, and a scan reports the keys of its interval in order, each once.
IsOrderedIndex == Abstract!Spec

=============================================================================
