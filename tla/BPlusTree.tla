------------------------------- MODULE BPlusTree -------------------------------
(***************************************************************************)
(* src/src/indices/b_plus_tree.cpp: a B+tree whose nodes are pages of the   *)
(* buffer pool, and the iterator over its leaves.                           *)
(*                                                                         *)
(* The table's lock lets in one writer or several readers (b_plus_tree.hpp, *)
(* THREADING), and no mutation runs while an iterator lives, so the calls   *)
(* here follow one another.  A call is a series of steps: each call to the  *)
(* pool that can fail, each level of a split or of a merge and each free is *)
(* one.  A descent is one step, since it changes nothing and any failure in *)
(* it has the same effect.                                                  *)
(*                                                                         *)
(* NewPage, FetchPage and DeletePage belong to the pool and may fail at any *)
(* time; DeletePage also refuses a page that is pinned.                     *)
(***************************************************************************)
EXTENDS BPlusTreeNode, FiniteSets, Functions

CONSTANTS
    Pages,       \* the data pages the pool can give to this index
    Keys,        \* the keys, integers; INT64_MIN is the least of them
    Rids,        \* the RIDs callers store under each key
    NoRid,       \* no RID
    Fanouts,     \* the <<leaf_max, internal_max>> that callers of Create pass
    Intervals,   \* the <<lo, hi>> that callers scan
    MaxLeaks     \* bound: pages lost to a DeletePage that failed

ASSUME PagesAssumption == INVALID_PAGE \notin Pages
ASSUME KeysAssumption ==
    /\ Keys \subseteq Int /\ INT64_MIN \in Keys /\ \A k \in Keys : INT64_MIN <= k
    /\ Intervals \subseteq Keys \X Keys
    /\ \A k \in Keys : NoRid \notin Rids[k]
ASSUME BoundsAssumption == NODE_CAPACITY \in Nat /\ MaxLeaks \in Nat /\ Fanouts \subseteq Nat \X Nat

VARIABLES
    page,            \* every page: free, allocated, the index header, a leaf or an internal node
    header_page_id,  \* the index's header page, as the catalog records it
    tree,            \* the BPlusTree object: the fanout it has cached, or NoTree
    pc,              \* where the call in progress stands
    loc,             \* the locals of the call
    it,              \* the IndexIterator, or NoScan
    leaked           \* history: the pages lost to a DeletePage that failed

vars == <<page, header_page_id, tree, pc, loc, it, leaked>>

Free == [type |-> "FREE"]
Allocated == [type |-> "ALLOCATED"]

\* A faulty variant: the two fanouts change places.
IndexHeader_Swapped(root, height, fanout) ==
    [type |-> "INDEX_HEADER", root |-> root, height |-> height, fanout |-> <<fanout[2], fanout[1]>>]

IndexHeader(root, height, fanout) ==
    [type |-> "INDEX_HEADER", root |-> root, height |-> height, fanout |-> fanout]

\* ReadIndexHeader and WriteIndexHeader take no other page.
IsHeader(node) == node.type = "INDEX_HEADER"

NoTree == <<>>
NoScan == [open |-> FALSE]
NoCall ==
    [op |-> "none", key |-> INT64_MIN, rid |-> NoRid, status |-> "none",
     fanout |-> NoTree,
     path |-> <<>>, child_indexes |-> <<>>, root |-> INVALID_PAGE, height |-> 0,  \* the WritePath
     splits |-> 0, pages |-> <<>>, next_page |-> 0, sep |-> INT64_MIN, right_id |-> INVALID_PAGE,
     level |-> 0, plan |-> <<>>, collapse_root |-> FALSE, to_free |-> <<>>,
     before |-> <<>>]   \* history: the pages when the call began

Init ==
    /\ page = [p \in Pages |-> Free]
    /\ header_page_id = INVALID_PAGE
    /\ tree = NoTree
    /\ pc = "closed"
    /\ loc = NoCall
    /\ it = NoScan
    /\ leaked = {}

(***************************************************************************)
(* Calls and pages.                                                        *)
(***************************************************************************)

Reads(op, k) == [NoCall EXCEPT !.op = op, !.key = k]
Begun(op, k) == [Reads(op, k) EXCEPT !.before = page]
Goto(label, l) == pc' = label /\ loc' = l

\* Where a call leaves its caller: with a tree or without, with an iterator or without.
Rest(op, status) ==
    CASE op \in {"create", "open"} /\ status # "OK" -> "closed"
      [] op = "next" \/ (op = "scan" /\ status = "OK") -> "cursor"
      [] OTHER -> "idle"

\* The call answers; its guards and locals go.  An error says nothing of the key.
Answer(l, status, rid) ==
    Goto(Rest(l.op, status), [NoCall EXCEPT !.op = l.op, !.before = l.before,
                                 !.key = IF status = "Error" THEN INT64_MIN ELSE l.key,
                                 !.status = status, !.rid = rid])

\* The call answers and no page has changed.
Refuse(l, status) ==
    Answer(l, status, NoRid) /\ UNCHANGED <<page, header_page_id, tree, it, leaked>>

FreePages == {p \in Pages : page[p] = Free}

\* The page NewPage gives.  Page ids are only names: one free page stands for any.
NewPageId == CHOOSE p \in FreePages : TRUE
CanNewPage == FreePages # {}

\* The pages a writer has latched, in the order it took them.
Held ==
    (IF loc.path = <<>> THEN <<>> ELSE <<header_page_id>>)
    \o loc.path \o loc.pages \o [k \in DOMAIN loc.plan |-> loc.plan[k].sibling]

\* The call has pages to free before it answers, if any.
Freeing(l) ==
    \/ l.to_free = <<>> /\ Answer(l, l.status, NoRid)
    \/ l.to_free # <<>> /\ Goto("free", l)

\* One DeletePage of a list: it works, is refused for a pinned page, or fails.
FreePage ==
    /\ pc = "free"
    /\ LET p == Head(loc.to_free)
       IN  \/ /\ page' = IF p \in Range(Held) THEN page ELSE [page EXCEPT ![p] = Free]
              /\ UNCHANGED leaked
           \/ /\ Cardinality(leaked) < MaxLeaks
              /\ leaked' = leaked \cup {p}
              /\ UNCHANGED page
    /\ Freeing([loc EXCEPT !.to_free = Tail(@)])
    /\ UNCHANGED <<header_page_id, tree, it>>

(***************************************************************************)
(* Create and Open.                                                        *)
(***************************************************************************)

\* The arguments are out of range, or the first NewPage fails.
CreateFails ==
    /\ pc = "closed" /\ header_page_id = INVALID_PAGE
    /\ Refuse(Reads("create", INT64_MIN), "Error")

CreateHeader(fanout) ==
    /\ pc = "closed" /\ header_page_id = INVALID_PAGE
    /\ FanoutInRange(fanout[1]) /\ FanoutInRange(fanout[2])
    /\ CanNewPage
    /\ page' = [page EXCEPT ![NewPageId] = Allocated]
    /\ Goto("create", [NoCall EXCEPT !.op = "create", !.fanout = fanout, !.pages = <<NewPageId>>])
    /\ UNCHANGED <<header_page_id, tree, it, leaked>>

CreateRoot ==
    /\ pc = "create" /\ CanNewPage
    /\ page' = [page EXCEPT ![NewPageId] = NewLeaf,
                            ![loc.pages[1]] = IndexHeader(NewPageId, 1, loc.fanout)]
    /\ header_page_id' = loc.pages[1]
    /\ tree' = loc.fanout
    /\ Answer(loc, "OK", NoRid)
    /\ UNCHANGED <<it, leaked>>

\* The header page goes back, its guard dropped first.
CreateRootFails ==
    /\ pc = "create"
    /\ Freeing([loc EXCEPT !.pages = <<>>, !.to_free = loc.pages, !.status = "Error"])
    /\ UNCHANGED <<page, header_page_id, tree, it, leaked>>

Open ==
    /\ pc = "closed" /\ header_page_id # INVALID_PAGE
    /\ LET header == page[header_page_id]
       IN  /\ IsHeader(header)
           /\ FanoutInRange(header.fanout[1]) /\ FanoutInRange(header.fanout[2])
           /\ tree' = header.fanout
    /\ Answer(Reads("open", INT64_MIN), "OK", NoRid)
    /\ UNCHANGED <<page, header_page_id, it, leaked>>

OpenFails ==
    /\ pc = "closed" /\ header_page_id # INVALID_PAGE
    /\ Refuse(Reads("open", INT64_MIN), "Error")

\* The BPlusTree object is destroyed.
Close ==
    /\ pc = "idle"
    /\ Goto("closed", NoCall)
    /\ tree' = NoTree
    /\ UNCHANGED <<page, header_page_id, it, leaked>>

(***************************************************************************)
(* Descents.                                                               *)
(***************************************************************************)

leaf_max == tree[1]
internal_max == tree[2]
IsLeafFull(leaf) == Count(leaf) >= leaf_max
IsInternalFull(node) == Count(node) >= internal_max

\* The nodes from the root to the leaf for key, as far as their types are right.
Nodes(key) ==
    LET header == page[header_page_id]
        node[i \in 1 .. header.height] ==
            IF i = 1 THEN header.root
            ELSE LET parent == page[node[i - 1]]
                 IN  IF IsInternal(parent) THEN ChildAt(parent, ChildIndexFor(parent, key))
                     ELSE node[i - 1]
    IN  [i \in 1 .. header.height |-> node[i]]

LeafOf(path) == path[Len(path)]

\* The header is one, of a tree with a level, and every page of the path is what its
\* place calls for.
PathIsValid(nodes) ==
    /\ IsHeader(page[header_page_id]) /\ nodes # <<>>
    /\ IsLeaf(page[LeafOf(nodes)])
    /\ \A i \in 1 .. Len(nodes) - 1 : IsInternal(page[nodes[i]])

\* The call with the WritePath that FindLeafWrite returns.
WithPath(l, nodes) ==
    [l EXCEPT !.path = nodes,
              !.child_indexes = [i \in 1 .. Len(nodes) - 1 |-> ChildIndexFor(page[nodes[i]], l.key)],
              !.root = page[header_page_id].root,
              !.height = page[header_page_id].height]

PathNode(i) == page[loc.path[i]]
PathLeaf == page[LeafOf(loc.path)]

(***************************************************************************)
(* Get and scans.                                                          *)
(***************************************************************************)

Get(k) ==
    /\ pc = "idle"
    /\ LET nodes == Nodes(k)
           leaf == page[LeafOf(nodes)]
       IN  /\ PathIsValid(nodes)
           /\ \/ Holds(leaf, k) /\ Answer(Reads("get", k), "OK", leaf.entries[LowerBound(leaf, k)].rid)
              \/ ~Holds(leaf, k) /\ Answer(Reads("get", k), "NotFound", NoRid)
    /\ UNCHANGED <<page, header_page_id, tree, it, leaked>>

GetFails == pc = "idle" /\ Refuse(Reads("get", INT64_MIN), "Error")

\* from and ended are history: the least key still to report, and whether Next has said so.
Iterator(p, i, hi, from) ==
    [open |-> TRUE, page_id |-> p, index |-> i, hi |-> hi, guard |-> FALSE,
     from |-> from, ended |-> FALSE]

Scan(lo, hi) ==
    /\ pc = "idle"
    /\ LET nodes == Nodes(lo)
       IN  /\ PathIsValid(nodes)
           /\ it' = Iterator(LeafOf(nodes), LowerBound(page[LeafOf(nodes)], lo), hi, lo)
    /\ Answer(Reads("scan", lo), "OK", NoRid)
    /\ UNCHANGED <<page, header_page_id, tree, leaked>>

ScanFails == pc = "idle" /\ Refuse(Reads("scan", INT64_MIN), "Error")

\* Next is called, or its loop goes round again.
InNext == pc \in {"cursor", "next"}
NextLocals == Reads("next", INT64_MIN)

NextFetch ==
    /\ InNext /\ it.page_id # INVALID_PAGE /\ ~it.guard
    /\ it' = [it EXCEPT !.guard = TRUE]
    /\ Goto("next", NextLocals)
    /\ UNCHANGED <<page, header_page_id, tree, leaked>>

\* The scan is over: the iterator holds nothing and answers.
Ends(status) ==
    /\ it' = [it EXCEPT !.page_id = INVALID_PAGE, !.guard = FALSE, !.ended = TRUE]
    /\ Answer(NextLocals, status, NoRid)
    /\ UNCHANGED <<page, header_page_id, tree, leaked>>

\* The fetch fails, or the page is not a leaf.
NextFails ==
    /\ InNext /\ it.page_id # INVALID_PAGE
    /\ ~it.guard \/ ~IsLeaf(page[it.page_id])
    /\ Ends("Error")

AtLeaf == InNext /\ it.page_id # INVALID_PAGE /\ it.guard /\ IsLeaf(page[it.page_id])

NextLeaf ==
    /\ AtLeaf
    /\ it.index > Count(page[it.page_id])
    /\ it' = [it EXCEPT !.guard = FALSE, !.page_id = page[it.page_id].next, !.index = 1]
    /\ Goto("next", NextLocals)
    /\ UNCHANGED <<page, header_page_id, tree, leaked>>

NextEntry ==
    /\ AtLeaf
    /\ it.index <= Count(page[it.page_id])
    /\ LET entry == page[it.page_id].entries[it.index]
       IN  /\ entry.key <= it.hi
           /\ it' = [it EXCEPT !.index = @ + 1, !.from = entry.key + 1]
           /\ Answer(Reads("next", entry.key), "OK", entry.rid)
    /\ UNCHANGED <<page, header_page_id, tree, leaked>>

NextPast ==
    /\ AtLeaf
    /\ it.index <= Count(page[it.page_id])
    /\ page[it.page_id].entries[it.index].key > it.hi
    /\ Ends("End")

NextEnd == InNext /\ it.page_id = INVALID_PAGE /\ Ends("End")

\* The iterator dies, and its guard with it.
DropIterator ==
    /\ pc = "cursor"
    /\ it' = NoScan
    /\ Goto("idle", NoCall)
    /\ UNCHANGED <<page, header_page_id, tree, leaked>>

(***************************************************************************)
(* Insert.                                                                 *)
(***************************************************************************)

InsertFails == pc = "idle" /\ Refuse(Begun("insert", INT64_MIN), "Error")

\* A faulty variant: only the leaf is counted.
CountSplits_LeafOnly(path) == 1

\* The nodes of a path that split: the full leaf, and the run of full nodes above it.
CountSplits(path) ==
    Cardinality({i \in 1 .. Len(path) : \A j \in i .. Len(path) - 1 : IsInternalFull(page[path[j]])})

\* The key is there, or the leaf has room, or pages are needed for a split.
Insert(k, rid) ==
    /\ pc = "idle"
    /\ LET nodes == Nodes(k)
           leaf == page[LeafOf(nodes)]
           l == Begun("insert", k)
       IN  /\ PathIsValid(nodes)
           /\ \/ Holds(leaf, k) /\ Answer(l, "DuplicateKey", NoRid) /\ UNCHANGED page
              \/ /\ ~Holds(leaf, k) /\ ~IsLeafFull(leaf)
                 /\ page' = [page EXCEPT ![LeafOf(nodes)] =
                                EntryInsertedAt(leaf, LowerBound(leaf, k), [key |-> k, rid |-> rid])]
                 /\ Answer(l, "OK", NoRid)
              \/ /\ ~Holds(leaf, k) /\ IsLeafFull(leaf)
                 /\ Goto("allocate", [WithPath(l, nodes) EXCEPT !.rid = rid, !.splits = CountSplits(nodes)])
                 /\ UNCHANGED page
    /\ UNCHANGED <<header_page_id, tree, it, leaked>>

new_root == loc.splits = Len(loc.path)

\* A faulty variant: a page for a new root is always taken, and counted twice for a real one.
PagesNeeded_Twice == loc.splits + (IF new_root THEN 2 ELSE 1)

PagesNeeded == loc.splits + (IF new_root THEN 1 ELSE 0)

AllocatePage ==
    /\ pc = "allocate" /\ CanNewPage
    /\ page' = [page EXCEPT ![NewPageId] = Allocated]
    /\ LET pages == Append(loc.pages, NewPageId)
       IN  Goto(IF Len(pages) = PagesNeeded THEN "split" ELSE "allocate", [loc EXCEPT !.pages = pages])
    /\ UNCHANGED <<header_page_id, tree, it, leaked>>

\* A faulty variant: the pages are given back while their guards live.
AllocateFails_Pinned ==
    /\ pc = "allocate"
    /\ Freeing([loc EXCEPT !.to_free = loc.pages, !.status = "Error"])
    /\ UNCHANGED <<page, header_page_id, tree, it, leaked>>

\* The guards of the new pages are dropped, and the pages given back.
AllocateFails ==
    /\ pc = "allocate"
    /\ Freeing([loc EXCEPT !.pages = <<>>, !.to_free = loc.pages, !.status = "Error"])
    /\ UNCHANGED <<page, header_page_id, tree, it, leaked>>

SplitLeafStep ==
    /\ pc = "split"
    /\ LET right_id == loc.pages[1]
           halves == SplitLeaf(PathLeaf, NewLeaf, right_id, LowerBound(PathLeaf, loc.key),
                               [key |-> loc.key, rid |-> loc.rid])
       IN  /\ page' = [page EXCEPT ![LeafOf(loc.path)] = halves.left, ![right_id] = halves.right]
           /\ Goto("ascend", [loc EXCEPT !.sep = halves.sep, !.right_id = right_id,
                                         !.next_page = 1, !.level = Len(loc.path) - 1])
    /\ UNCHANGED <<header_page_id, tree, it, leaked>>

\* Where the parent takes the separator, and the entry it takes.
ParentSlot == loc.child_indexes[loc.level] + 1
ParentEntry == [key |-> loc.sep, child |-> loc.right_id]

InsertIntoParent ==
    /\ pc = "ascend" /\ loc.level > 0
    /\ ~IsInternalFull(PathNode(loc.level))
    /\ page' = [page EXCEPT ![loc.path[loc.level]] = EntryInsertedAt(@, ParentSlot, ParentEntry)]
    /\ Answer(loc, "OK", NoRid)
    /\ UNCHANGED <<header_page_id, tree, it, leaked>>

SplitParent ==
    /\ pc = "ascend" /\ loc.level > 0
    /\ IsInternalFull(PathNode(loc.level))
    /\ LET parent == PathNode(loc.level)
           right_id == loc.pages[loc.next_page + 1]
           halves == SplitInternal(parent, NewInternal(parent.level), ParentSlot, ParentEntry)
       IN  /\ page' = [page EXCEPT ![loc.path[loc.level]] = halves.left, ![right_id] = halves.right]
           /\ Goto("ascend", [loc EXCEPT !.sep = halves.sep, !.right_id = right_id,
                                         !.next_page = @ + 1, !.level = @ - 1])
    /\ UNCHANGED <<header_page_id, tree, it, leaked>>

\* The root has split: the tree grows by one level.
GrowRoot ==
    /\ pc = "ascend" /\ loc.level = 0
    /\ LET root_id == loc.pages[loc.next_page + 1]
           children == <<[key |-> INT64_MIN, child |-> loc.root], ParentEntry>>
       IN  page' = [page EXCEPT ![root_id] = InternalAssigned(NewInternal(loc.height), children),
                                ![header_page_id] =
                                    IndexHeader(root_id, loc.height + 1, page[header_page_id].fanout)]
    /\ Answer(loc, "OK", NoRid)
    /\ UNCHANGED <<header_page_id, tree, it, leaked>>

(***************************************************************************)
(* Delete.                                                                 *)
(***************************************************************************)

DeleteFails == pc = "idle" /\ Refuse(Begun("delete", INT64_MIN), "Error")

\* Losing one entry would leave too few.
AtFloor(node) ==
    Count(node) <= (IF IsLeaf(node) THEN LeafMinEntries(leaf_max) ELSE InternalMinChildren(internal_max))

\* Every guard dies before the first page is freed.
Applied(l) == Freeing([l EXCEPT !.path = <<>>, !.plan = <<>>, !.status = "OK"])

\* The plan is complete: the entry goes, and what the plan says is done.
RemoveEntry(l) ==
    /\ page' = [page EXCEPT ![LeafOf(l.path)] = EntryRemovedAt(@, LowerBound(@, l.key))]
    /\ \/ l.plan = <<>> /\ Applied(l)
       \/ l.plan # <<>> /\ Goto("apply", [l EXCEPT !.level = Len(l.path)])

\* A faulty variant: the entry goes before the sibling is fetched.
Plan_Removes(l) ==
    LET node == page[l.path[l.level]]
    IN  \/ /\ l.level > 1 /\ AtFloor(node) /\ Goto("plan", l)
           /\ page' = [page EXCEPT ![LeafOf(l.path)] = EntryRemovedAt(@, LowerBound(@, l.key))]
        \/ l.level > 1 /\ ~AtFloor(node) /\ RemoveEntry(l)
        \/ l.level = 1 /\ RemoveEntry([l EXCEPT !.collapse_root = l.plan # <<>> /\ Count(node) = 2])

\* One turn of PlanDelete's loop: the node at l.level underflows and needs its sibling,
\* or the plan is complete.  Every level below the root has merged when l.level gets to it.
Plan(l) ==
    LET node == page[l.path[l.level]]
    IN  \/ l.level > 1 /\ AtFloor(node) /\ Goto("plan", l) /\ UNCHANGED page
        \/ l.level > 1 /\ ~AtFloor(node) /\ RemoveEntry(l)
        \/ l.level = 1 /\ RemoveEntry([l EXCEPT !.collapse_root = l.plan # <<>> /\ Count(node) = 2])

Delete(k) ==
    /\ pc = "idle"
    /\ LET nodes == Nodes(k)
           leaf == page[LeafOf(nodes)]
           l == Begun("delete", k)
       IN  /\ PathIsValid(nodes)
           /\ \/ ~Holds(leaf, k) /\ Answer(l, "NotFound", NoRid) /\ UNCHANGED page
              \/ Holds(leaf, k) /\ Plan([WithPath(l, nodes) EXCEPT !.level = Len(nodes)])
    /\ UNCHANGED <<header_page_id, tree, it, leaked>>

sibling_is_left == loc.child_indexes[loc.level - 1] > 1

\* A faulty variant: the node itself instead of its left neighbour.
SiblingIndex_Self == loc.child_indexes[loc.level - 1] + (IF sibling_is_left THEN 0 ELSE 1)

SiblingIndex == loc.child_indexes[loc.level - 1] + (IF sibling_is_left THEN -1 ELSE 1)

\* The sibling is fetched: it lends if it can, and is merged with otherwise.
PlanSibling ==
    /\ pc = "plan"
    /\ LET id == ChildAt(PathNode(loc.level - 1), SiblingIndex)
           step(fix) == [sibling |-> id, left |-> sibling_is_left, fix |-> fix]
       IN  /\ page[id].type = PathNode(loc.level).type /\ page[id].level = PathNode(loc.level).level
           /\ \/ /\ ~AtFloor(page[id])
                 /\ RemoveEntry([loc EXCEPT !.plan = Append(@, step("redistribute"))])
              \/ /\ AtFloor(page[id])
                 /\ Plan([loc EXCEPT !.plan = Append(@, step("merge")), !.level = @ - 1])
    /\ UNCHANGED <<header_page_id, tree, it, leaked>>

\* The sibling cannot be fetched, or is not what it should be.
PlanFails == pc = "plan" /\ Refuse(loc, "Error")

(***************************************************************************)
(* ApplyDeletePlan: the step for the node at loc.level, and its neighbour,  *)
(* the pair put in key order.                                               *)
(***************************************************************************)

StepIndex == Len(loc.path) - loc.level + 1
Step == loc.plan[StepIndex]
LeftId == IF Step.left THEN Step.sibling ELSE loc.path[loc.level]
RightId == IF Step.left THEN loc.path[loc.level] ELSE Step.sibling
Parent == PathNode(loc.level - 1)
RightSlot == loc.child_indexes[loc.level - 1] + (IF Step.left THEN 0 ELSE 1)
Separator == Parent.entries[RightSlot].key

Rotated(left, right) ==
    IF IsLeaf(left)
    THEN IF Step.left THEN RotateLeafRight(left, right) ELSE RotateLeafLeft(left, right)
    ELSE IF Step.left THEN RotateInternalRight(left, right, Separator)
                      ELSE RotateInternalLeft(left, right, Separator)

Redistribute ==
    /\ pc = "apply" /\ Step.fix = "redistribute"
    /\ LET pair == Rotated(page[LeftId], page[RightId])
       IN  page' = [page EXCEPT ![LeftId] = pair.left, ![RightId] = pair.right,
                                ![loc.path[loc.level - 1]] = KeySetAt(Parent, RightSlot, pair.sep)]
    /\ Applied(loc)
    /\ UNCHANGED <<header_page_id, tree, it, leaked>>

Merge ==
    /\ pc = "apply" /\ Step.fix = "merge"
    /\ LET left == page[LeftId]
           right == page[RightId]
       IN  page' = [page EXCEPT ![LeftId] = IF IsLeaf(left) THEN MergeLeaf(left, right)
                                            ELSE MergeInternal(left, right, Separator),
                                ![loc.path[loc.level - 1]] = EntryRemovedAt(Parent, RightSlot)]
    /\ LET l == [loc EXCEPT !.to_free = Append(@, RightId), !.level = @ - 1]
       IN  \/ StepIndex < Len(loc.plan) /\ Goto("apply", l)
           \/ StepIndex = Len(loc.plan) /\ loc.collapse_root /\ Goto("collapse", l)
           \/ StepIndex = Len(loc.plan) /\ ~loc.collapse_root /\ Applied(l)
    /\ UNCHANGED <<header_page_id, tree, it, leaked>>

\* The root's one child becomes the root, and the old root goes with the freed pages.
CollapseRoot ==
    /\ pc = "collapse"
    /\ page' = [page EXCEPT ![header_page_id] =
                    IndexHeader(ChildAt(PathNode(1), 1), loc.height - 1, @.fanout)]
    /\ Applied([loc EXCEPT !.to_free = Append(@, loc.path[1])])
    /\ UNCHANGED <<header_page_id, tree, it, leaked>>

Next ==
    \/ \E fanout \in Fanouts : CreateHeader(fanout)
    \/ CreateFails \/ CreateRoot \/ CreateRootFails \/ Open \/ OpenFails \/ Close
    \/ \E k \in Keys : Get(k) \/ Delete(k) \/ \E rid \in Rids[k] : Insert(k, rid)
    \/ GetFails \/ ScanFails \/ InsertFails \/ DeleteFails
    \/ \E interval \in Intervals : Scan(interval[1], interval[2])
    \/ NextFetch \/ NextFails \/ NextLeaf \/ NextEntry \/ NextPast \/ NextEnd
    \/ DropIterator
    \/ AllocatePage \/ AllocateFails \/ SplitLeafStep \/ InsertIntoParent \/ SplitParent \/ GrowRoot
    \/ PlanSibling \/ PlanFails
    \/ Redistribute \/ Merge \/ CollapseRoot
    \/ FreePage

Spec == Init /\ [][Next]_vars

(***************************************************************************)
(* Properties.                                                             *)
(***************************************************************************)

PageTypes == {"FREE", "ALLOCATED", "INDEX_HEADER", "INDEX_LEAF", "INDEX_INTERNAL"}

\* Pages have one of the types the index uses, and ids name pages.
TypeOK ==
    /\ DOMAIN page = Pages /\ \A p \in Pages : page[p].type \in PageTypes
    /\ header_page_id \in Pages \cup {INVALID_PAGE}
    /\ tree \in Fanouts \cup {NoTree}
    /\ Range(loc.path) \cup Range(loc.pages) \cup Range(loc.to_free) \cup leaked \subseteq Pages
    /\ it.open => it.page_id \in Pages \cup {INVALID_PAGE}

\* An Insert or a Delete that answers anything but OK has left every page of the
\* index as it was, byte for byte (DD-005: all or nothing).
ErrorChangesNothing ==
    [][loc'.op \in {"insert", "delete"} /\ loc'.status \in {"Error", "DuplicateKey", "NotFound"} =>
          \A p \in Pages : loc'.before[p] # Free => page'[p] = loc'.before[p]]_vars

\* A writer never asks for a page it already holds: the latch is not recursive and
\* it would wait for itself.
NoPageLatchedTwice == IsInjective(Held)

\* The frames a call pins at its peak: 2H + 2 for an Insert, 2H for a Delete, H the height
\* it began with (DD-005, frame budget; a pool with fewer frames fails the call).
FrameBudget ==
    /\ loc.op = "insert" => Len(Held) <= 2 * loc.height + 2
    /\ loc.op = "delete" => Len(Held) <= 2 * loc.height

\* The assertions of the mutate phase, where nothing may fail: each holds where it stands.
AssertionsHold ==
    /\ pc = "split" => 1 <= Count(PathLeaf) /\ Count(PathLeaf) <= NODE_CAPACITY
    /\ pc = "ascend" /\ loc.level > 0 =>
          /\ ParentSlot <= Count(PathNode(loc.level)) + 1
          /\ IsInternalFull(PathNode(loc.level)) => loc.next_page < loc.splits
          /\ ~IsInternalFull(PathNode(loc.level)) => Count(PathNode(loc.level)) < NODE_CAPACITY
    /\ pc = "ascend" /\ loc.level = 0 => new_root /\ loc.next_page = loc.splits
    /\ pc = "apply" =>
          LET left == page[LeftId]
              right == page[RightId]
          IN  /\ left.level = right.level
              /\ RightSlot \in 2 .. Count(Parent)
              /\ Step.fix = "redistribute" =>
                    /\ StepIndex = Len(loc.plan)
                    /\ Count(IF Step.left THEN left ELSE right) >= 2
                    /\ Count(IF Step.left THEN right ELSE left) < NODE_CAPACITY
              /\ Step.fix = "merge" => Count(left) + Count(right) <= NODE_CAPACITY
              /\ IsInternal(left) => Count(left) >= 1 /\ Count(right) >= 1
    /\ pc = "collapse" => Count(PathNode(1)) = 1

=============================================================================
