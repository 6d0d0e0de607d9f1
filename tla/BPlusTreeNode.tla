----------------------------- MODULE BPlusTreeNode -----------------------------
(***************************************************************************)
(* src/src/indices/b_plus_tree_page.{hpp,cpp}: what is done to one node, or *)
(* to two neighbours, of the tree.                                          *)
(*                                                                         *)
(* A node is a record: its page type, its level, its entries in use, and    *)
(* the link to the next leaf.  An entry pairs a key with a RID in a leaf    *)
(* and with a child page in an internal node.  Position i here is position  *)
(* i - 1 in the code.  The bytes past the entries in use, always zero, are  *)
(* not part of the record.                                                  *)
(***************************************************************************)
EXTENDS Integers, Sequences

CONSTANTS
    INT64_MIN,      \* the least key, which also fills the unread slot of an internal node
    INVALID_PAGE,   \* no page
    NODE_CAPACITY   \* entries a page has room for

MIN_FANOUT == 3

FanoutInRange(max) == MIN_FANOUT <= max /\ max <= NODE_CAPACITY

LeafMinEntries(leaf_max) == leaf_max \div 2
InternalMinChildren(internal_max) == (internal_max + 1) \div 2

Leaf(entries, next) == [type |-> "INDEX_LEAF", level |-> 0, entries |-> entries, next |-> next]
Internal(level, entries) ==
    [type |-> "INDEX_INTERNAL", level |-> level, entries |-> entries, next |-> INVALID_PAGE]

\* SetPageType followed by Init.
NewLeaf == Leaf(<<>>, INVALID_PAGE)
NewInternal(level) == Internal(level, <<>>)

IsLeaf(node) == node.type = "INDEX_LEAF"
IsInternal(node) == node.type = "INDEX_INTERNAL"
Count(node) == Len(node.entries)
ChildAt(node, i) == node.entries[i].child

(***************************************************************************)
(* Searching a node.                                                       *)
(***************************************************************************)

\* The first position whose key is not below key, one past the end if there is none.
LowerBound(leaf, key) ==
    LET search[lo, hi \in 1 .. Count(leaf) + 1] ==
            IF lo >= hi THEN lo
            ELSE LET mid == lo + (hi - lo) \div 2
                 IN  IF leaf.entries[mid].key < key THEN search[mid + 1, hi] ELSE search[lo, mid]
    IN  search[1, Count(leaf) + 1]

Holds(leaf, key) ==
    LET i == LowerBound(leaf, key) IN i <= Count(leaf) /\ leaf.entries[i].key = key

\* A faulty variant: a key equal to a separator goes to the child on its left.
ChildIndexFor_Left(node, key) ==
    LET search[low, high \in 2 .. Count(node) + 1] ==
            IF low >= high THEN low
            ELSE LET mid == low + (high - low) \div 2
                 IN  IF node.entries[mid].key < key THEN search[mid + 1, high] ELSE search[low, mid]
    IN  search[2, Count(node) + 1] - 1

\* The child whose interval holds key; the key of the first entry is never read.
ChildIndexFor(node, key) ==
    LET search[low, high \in 2 .. Count(node) + 1] ==
            IF low >= high THEN low
            ELSE LET mid == low + (high - low) \div 2
                 IN  IF node.entries[mid].key <= key THEN search[mid + 1, high] ELSE search[low, mid]
    IN  search[2, Count(node) + 1] - 1

(***************************************************************************)
(* Changing one node.                                                      *)
(***************************************************************************)

EntryInsertedAt(node, i, entry) ==
    [node EXCEPT !.entries = SubSeq(@, 1, i - 1) \o <<entry>> \o SubSeq(@, i, Len(@))]
EntryRemovedAt(node, i) ==
    [node EXCEPT !.entries = SubSeq(@, 1, i - 1) \o SubSeq(@, i + 1, Len(@))]
KeySetAt(node, i, key) == [node EXCEPT !.entries[i].key = key]

LeafAssigned(leaf, entries) == [leaf EXCEPT !.entries = entries]

InternalAssigned(node, entries) ==
    [node EXCEPT !.entries = [entries EXCEPT ![1].key = INT64_MIN]]

(***************************************************************************)
(* Splitting a full node, rotating an entry between neighbours, merging     *)
(* two of them.  What a split or a rotation returns goes to the parent.     *)
(***************************************************************************)

\* The entries of two neighbours are dealt out again, the first m of them to the left
\* one, and the key the right one begins with separates the two.
LeafHalves(left, right, temp, m) ==
    [left |-> LeafAssigned(left, SubSeq(temp, 1, m)),
     right |-> LeafAssigned(right, SubSeq(temp, m + 1, Len(temp))),
     sep |-> temp[m + 1].key]

\* The separator stays in neither half: Assign writes over it.
InternalHalves(left, right, temp, m) ==
    [left |-> InternalAssigned(left, SubSeq(temp, 1, m)),
     right |-> InternalAssigned(right, SubSeq(temp, m + 1, Len(temp))),
     sep |-> temp[m + 1].key]

\* Entries the left half of a split keeps, of a total.
LeftHalf(total) == (total + 1) \div 2

SplitLeaf(left, right, right_page_id, i, entry) ==
    LET temp == EntryInsertedAt(left, i, entry).entries
        halves == LeafHalves(left, right, temp, LeftHalf(Len(temp)))
    IN  [left |-> [halves.left EXCEPT !.next = right_page_id],
         right |-> [halves.right EXCEPT !.next = left.next],
         sep |-> halves.sep]

SplitInternal(left, right, i, entry) ==
    LET temp == EntryInsertedAt(left, i, entry).entries
    IN  InternalHalves(left, right, temp, LeftHalf(Len(temp)))

RotateLeafRight(left, right) == LeafHalves(left, right, left.entries \o right.entries, Count(left) - 1)
RotateLeafLeft(left, right) == LeafHalves(left, right, left.entries \o right.entries, Count(left) + 1)

\* The parent's separator comes down to the child that lacked a key.
Lowered(right, separator) == [right.entries EXCEPT ![1].key = separator]

RotateInternalRight(left, right, separator) ==
    InternalHalves(left, right, left.entries \o Lowered(right, separator), Count(left) - 1)
RotateInternalLeft(left, right, separator) ==
    InternalHalves(left, right, left.entries \o Lowered(right, separator), Count(left) + 1)

MergeLeaf(left, right) ==
    [LeafAssigned(left, left.entries \o right.entries) EXCEPT !.next = right.next]

\* A faulty variant: the separator is dropped instead of coming down.
MergeInternal_Drops(left, right, separator) ==
    InternalAssigned(left, left.entries \o right.entries)

MergeInternal(left, right, separator) ==
    InternalAssigned(left, left.entries \o Lowered(right, separator))

(***************************************************************************)
(* What a node promises by itself.                                         *)
(***************************************************************************)

KeysIncrease(entries, from) ==
    \A i \in from .. Len(entries) - 1 : entries[i].key < entries[i + 1].key

NodeCheckInvariants(node) ==
    /\ Count(node) <= NODE_CAPACITY
    /\ KeysIncrease(node.entries, 1)
    /\ \/ IsLeaf(node) /\ node.level = 0
       \/ /\ IsInternal(node) /\ node.level >= 1 /\ node.next = INVALID_PAGE
          /\ \A i \in 1 .. Count(node) : ChildAt(node, i) # INVALID_PAGE
          /\ Count(node) >= 1 => node.entries[1].key = INT64_MIN

=============================================================================
