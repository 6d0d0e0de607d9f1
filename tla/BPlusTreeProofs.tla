---------------------------- MODULE BPlusTreeProofs ----------------------------
(***************************************************************************)
(* A mutation of BPlusTree that fails changes nothing, and none pins more   *)
(* frames than the budget it announces, for every set of pages and keys,    *)
(* every fanout and every height of the tree.                               *)
(***************************************************************************)
EXTENDS BPlusTree, FiniteSetTheorems, TLAPS

\* How long the provers may take.
USE ZenonT(10), SMTT(30)

(***************************************************************************)
(* A mutation that fails changes nothing.                                   *)
(***************************************************************************)

\* Every page that was in use when the call began is as it was.
Preserved == \A p \in Pages : loc.before[p] # Free => page[p] = loc.before[p]

\* The pages of a list were free when the call began.
WereFree(pages) == pages \in Seq(Pages) /\ \A i \in 1 .. Len(pages) : loc.before[pages[i]] = Free

\* A mutation has failed, or was refused.
Failed == loc.op \in {"insert", "delete"} /\ loc.status \in {"Error", "DuplicateKey", "NotFound"}

\* What each place of a call knows: nothing is written before the last step that can fail.
\* A list of pages given back by a call that failed holds only pages the call itself took.
FailSafe ==
    /\ DOMAIN page = Pages /\ DOMAIN loc = DOMAIN NoCall
    /\ pc = "create" => loc.op = "create" /\ loc.status = "none"
    /\ pc \in {"allocate", "split", "ascend"} => loc.op = "insert" /\ loc.status = "none"
    /\ pc \in {"plan", "apply", "collapse"} => loc.op = "delete" /\ loc.status = "none"
    /\ pc = "allocate" => Preserved /\ WereFree(loc.pages)
    /\ pc = "plan" => Preserved
    /\ pc = "free" => loc.to_free # <<>> /\ (Failed => WereFree(loc.to_free))
    /\ Failed => Preserved

\* The locals after a call has answered.
LEMMA AnswerLocals ==
    ASSUME NEW l, NEW status, NEW rid, Answer(l, status, rid)
    PROVE  /\ pc' \in {"closed", "cursor", "idle"}
           /\ DOMAIN loc' = DOMAIN NoCall
           /\ loc'.op = l.op /\ loc'.status = status /\ loc'.before = l.before
<1>1. Rest(l.op, status) \in {"closed", "cursor", "idle"}
  BY DEF Rest
<1>2. QED
  BY <1>1 DEF Answer, Goto, NoCall

\* A call that answers keeps FailSafe, if it left the pages alone where it failed.
LEMMA AnswerKeeps ==
    ASSUME NEW l, NEW status, NEW rid, Answer(l, status, rid), DOMAIN page' = Pages,
           l.op \in {"insert", "delete"} /\ status \in {"Error", "DuplicateKey", "NotFound"} =>
               \A p \in Pages : l.before[p] # Free => page'[p] = l.before[p]
    PROVE  FailSafe'
<1>1. /\ pc' \in {"closed", "cursor", "idle"}
      /\ DOMAIN loc' = DOMAIN NoCall
      /\ loc'.op = l.op /\ loc'.status = status /\ loc'.before = l.before
  BY AnswerLocals
<1>2. (Failed => Preserved)'
  BY <1>1 DEF Failed, Preserved
<1>3. QED
  BY <1>1, <1>2 DEF FailSafe

\* The same for a call that has pages to free before it answers.
LEMMA FreeingKeeps ==
    ASSUME NEW l, Freeing(l), DOMAIN l = DOMAIN NoCall, DOMAIN page' = Pages,
           l.op \in {"insert", "delete"} /\ l.status \in {"Error", "DuplicateKey", "NotFound"} =>
               /\ \A p \in Pages : l.before[p] # Free => page'[p] = l.before[p]
               /\ l.to_free \in Seq(Pages)
               /\ \A i \in 1 .. Len(l.to_free) : l.before[l.to_free[i]] = Free
    PROVE  FailSafe'
<1>1. CASE Answer(l, l.status, NoRid)
  BY <1>1, AnswerKeeps
<1>2. CASE l.to_free # <<>> /\ Goto("free", l)
  <2>1. pc' = "free" /\ loc' = l
    BY <1>2 DEF Goto
  <2>2. (Failed => Preserved /\ WereFree(loc.to_free))'
    BY <2>1 DEF Failed, Preserved, WereFree
  <2>3. QED
    BY <1>2, <2>1, <2>2 DEF FailSafe
<1>3. QED
  BY <1>1, <1>2 DEF Freeing

\* Nothing has happened yet.
LEMMA FailSafeInit == Init => FailSafe
<1> SUFFICES ASSUME Init PROVE FailSafe
  OBVIOUS
<1>1. loc = NoCall /\ loc.op = "none" /\ pc = "closed" /\ DOMAIN page = Pages
  BY DEF Init, NoCall
<1>2. QED
  BY <1>1 DEF FailSafe, Failed

\* The locals a call begins with.
LEMMA BegunLocals ==
    ASSUME NEW op, NEW k
    PROVE  /\ DOMAIN Begun(op, k) = DOMAIN NoCall /\ DOMAIN Reads(op, k) = DOMAIN NoCall
           /\ Begun(op, k).op = op /\ Begun(op, k).status = "none" /\ Begun(op, k).before = page
           /\ Begun(op, k).key = k /\ Begun(op, k).to_free = <<>> /\ Begun(op, k).pages = <<>>
           /\ Reads(op, k).op = op
BY DEF Begun, Reads, NoCall

\* A call that reads, or fails before it has read anything, keeps FailSafe.
LEMMA ReadsKeep ==
    ASSUME FailSafe, NEW op, op \notin {"insert", "delete"}, NEW k, NEW status, NEW rid,
           Answer(Reads(op, k), status, rid), UNCHANGED page
    PROVE  FailSafe'
<1>1. Reads(op, k).op = op
  BY BegunLocals
<1>2. DOMAIN page' = Pages
  BY DEF FailSafe
<1>3. QED
  BY <1>1, <1>2, AnswerKeeps

\* A mutation refused before it has written anything keeps FailSafe.
LEMMA RefusedKeeps ==
    ASSUME FailSafe, NEW op, NEW k, NEW status, NEW rid,
           Answer(Begun(op, k), status, rid), UNCHANGED page
    PROVE  FailSafe'
<1>1. Begun(op, k).before = page
  BY SMTT(30), BegunLocals
<1>2. DOMAIN page' = Pages
  BY DEF FailSafe
<1>3. QED
  BY <1>1, <1>2, AnswerKeeps

\* The end of a mutation that has been applied: the answer will be OK.
LEMMA AppliedKeeps ==
    ASSUME NEW l, DOMAIN l = DOMAIN NoCall, Applied(l), DOMAIN page' = Pages
    PROVE  FailSafe'
<1> DEFINE m == [l EXCEPT !.path = <<>>, !.plan = <<>>, !.status = "OK"]
<1>1. DOMAIN m = DOMAIN NoCall /\ m.status = "OK"
  BY DEF NoCall
<1>2. Freeing(m)
  BY DEF Applied
<1> HIDE DEF m
<1>3. QED
  BY <1>1, <1>2, FreeingKeeps

\* The entry is removed, from a plan that is complete.
LEMMA RemoveEntryKeeps ==
    ASSUME FailSafe, NEW l, DOMAIN l = DOMAIN NoCall, l.op = "delete", l.status = "none",
           RemoveEntry(l)
    PROVE  FailSafe'
<1>1. DOMAIN page' = Pages
  BY DEF RemoveEntry, FailSafe
<1>2. CASE Applied(l)
  BY <1>1, <1>2, AppliedKeeps
<1>3. CASE Goto("apply", [l EXCEPT !.level = Len(l.path)])
  <2>1. /\ pc' = "apply" /\ DOMAIN loc' = DOMAIN NoCall
        /\ loc'.op = "delete" /\ loc'.status = "none"
    BY <1>3 DEF Goto, NoCall
  <2>2. QED
    BY <1>1, <2>1 DEF FailSafe, Failed
<1>4. QED
  BY <1>2, <1>3 DEF RemoveEntry

\* A turn of PlanDelete's loop: the pages are as they were until the plan is complete.
LEMMA PlanKeeps ==
    ASSUME FailSafe, NEW l, DOMAIN l = DOMAIN NoCall, l.op = "delete", l.status = "none",
           \A p \in Pages : l.before[p] # Free => page[p] = l.before[p],
           Plan(l)
    PROVE  FailSafe'
<1>1. CASE Goto("plan", l) /\ UNCHANGED page
  <2>1. pc' = "plan" /\ loc' = l
    BY <1>1 DEF Goto
  <2>2. Preserved'
    BY <1>1, <2>1 DEF Preserved
  <2>3. DOMAIN page' = Pages
    BY <1>1 DEF FailSafe
  <2>4. QED
    BY <2>1, <2>2, <2>3 DEF FailSafe, Failed
<1>2. CASE RemoveEntry(l)
  BY <1>2, RemoveEntryKeeps
<1>3. ASSUME NEW flag, RemoveEntry([l EXCEPT !.collapse_root = flag]) PROVE FailSafe'
  <2> DEFINE m == [l EXCEPT !.collapse_root = flag]
  <2>1. DOMAIN m = DOMAIN NoCall /\ m.op = "delete" /\ m.status = "none"
    BY DEF NoCall
  <2>2. RemoveEntry(m)
    BY <1>3
  <2> HIDE DEF m
  <2>3. QED
    BY <2>1, <2>2, RemoveEntryKeeps
<1>4. QED
  BY <1>1, <1>2, <1>3 DEF Plan

\* The WritePath leaves the rest of the locals as they are.
LEMMA WithPathLocals ==
    ASSUME NEW l, DOMAIN l = DOMAIN NoCall, NEW nodes
    PROVE  /\ DOMAIN WithPath(l, nodes) = DOMAIN NoCall
           /\ WithPath(l, nodes).op = l.op /\ WithPath(l, nodes).status = l.status
           /\ WithPath(l, nodes).before = l.before /\ WithPath(l, nodes).pages = l.pages
BY DEF WithPath, NoCall

\* Insert: refused, done in place, or sent to take pages.
LEMMA InsertKeeps ==
    ASSUME FailSafe, NEW k, NEW rid, Insert(k, rid)
    PROVE  FailSafe'
<1> DEFINE nodes == Nodes(k)
           leaf == page[LeafOf(nodes)]
           l == Begun("insert", k)
           m == [WithPath(l, nodes) EXCEPT !.rid = rid, !.splits = CountSplits(nodes)]
<1>1. /\ DOMAIN l = DOMAIN NoCall /\ l.op = "insert" /\ l.status = "none" /\ l.before = page
      /\ l.pages = <<>>
  BY SMTT(30), BegunLocals
<1>2. CASE Answer(l, "DuplicateKey", NoRid) /\ UNCHANGED page
  BY <1>2, RefusedKeeps
<1>3. CASE /\ page' = [page EXCEPT ![LeafOf(nodes)] =
                         EntryInsertedAt(leaf, LowerBound(leaf, k), [key |-> k, rid |-> rid])]
           /\ Answer(l, "OK", NoRid)
  <2>1. DOMAIN page' = Pages
    BY <1>3 DEF FailSafe
  <2> HIDE DEF l
  <2>2. QED
    BY <1>3, <2>1, AnswerKeeps
<1>4. CASE Goto("allocate", m) /\ UNCHANGED page
  <2> HIDE DEF nodes, l
  <2>1. /\ DOMAIN m = DOMAIN NoCall /\ m.op = "insert" /\ m.status = "none" /\ m.before = page
        /\ m.pages = <<>>
    <3>1. /\ DOMAIN WithPath(l, nodes) = DOMAIN NoCall
          /\ WithPath(l, nodes).op = l.op /\ WithPath(l, nodes).status = l.status
          /\ WithPath(l, nodes).before = l.before /\ WithPath(l, nodes).pages = l.pages
      BY <1>1, WithPathLocals
    <3>2. QED
      BY <1>1, <3>1 DEF NoCall
  <2>2. pc' = "allocate" /\ loc' = m
    BY <1>4 DEF Goto
  <2> HIDE DEF m
  <2>3. Preserved' /\ WereFree(loc.pages)'
    <3>1. loc'.before = page /\ loc'.pages = <<>> /\ page' = page
      BY <1>4, <2>1, <2>2
    <3>2. <<>> \in Seq(Pages) /\ Len(<<>>) = 0
      OBVIOUS
    <3>3. QED
      BY <3>1, <3>2 DEF Preserved, WereFree
  <2>4. DOMAIN page' = Pages
    BY <1>4 DEF FailSafe
  <2>5. QED
    BY <2>1, <2>2, <2>3, <2>4 DEF FailSafe, Failed
<1>5. QED
  BY <1>2, <1>3, <1>4 DEF Insert

\* Delete: refused, or sent to plan.
LEMMA DeleteKeeps ==
    ASSUME FailSafe, NEW k, Delete(k)
    PROVE  FailSafe'
<1> DEFINE nodes == Nodes(k)
           l == Begun("delete", k)
           m == [WithPath(l, nodes) EXCEPT !.level = Len(nodes)]
<1>1. DOMAIN l = DOMAIN NoCall /\ l.op = "delete" /\ l.status = "none" /\ l.before = page
  BY SMTT(30), BegunLocals
<1>2. CASE Answer(l, "NotFound", NoRid) /\ UNCHANGED page
  BY <1>2, RefusedKeeps
<1>3. CASE Plan(m)
  <2> HIDE DEF nodes, l
  <2>1. DOMAIN m = DOMAIN NoCall /\ m.op = "delete" /\ m.status = "none" /\ m.before = page
    <3>1. /\ DOMAIN WithPath(l, nodes) = DOMAIN NoCall
          /\ WithPath(l, nodes).op = l.op /\ WithPath(l, nodes).status = l.status
          /\ WithPath(l, nodes).before = l.before
      BY <1>1, WithPathLocals
    <3>2. QED
      BY <1>1, <3>1 DEF NoCall
  <2> HIDE DEF m
  <2>2. QED
    BY <1>3, <2>1, PlanKeeps
<1>4. QED
  BY <1>2, <1>3 DEF Delete

\* NewPage gives a page that is free.
LEMMA NewPageIsFree ==
    ASSUME CanNewPage
    PROVE  NewPageId \in Pages /\ page[NewPageId] = Free
<1>1. NewPageId \in FreePages
  BY DEF CanNewPage, NewPageId
<1>2. QED
  BY <1>1 DEF FreePages

\* AllocatePages: a page is added to those the call has taken, or all of them go back.
LEMMA AllocateKeeps ==
    ASSUME FailSafe, AllocatePage \/ AllocateFails
    PROVE  FailSafe'
<1>1. /\ pc = "allocate" /\ loc.op = "insert" /\ loc.status = "none" /\ Preserved
      /\ WereFree(loc.pages) /\ DOMAIN loc = DOMAIN NoCall /\ DOMAIN page = Pages
  BY DEF FailSafe, AllocatePage, AllocateFails
<1>2. CASE AllocatePage
  <2> DEFINE p == NewPageId
  <2>1. p \in Pages /\ page[p] = Free
    BY <1>2, NewPageIsFree DEF AllocatePage
  <2> HIDE DEF p
  <2>2. loc.before[p] = Free
    BY <1>1, <2>1 DEF Preserved
  <2>3. /\ page' = [page EXCEPT ![p] = Allocated]
        /\ pc' \in {"split", "allocate"}
        /\ loc' = [loc EXCEPT !.pages = Append(loc.pages, p)]
    BY <1>2 DEF AllocatePage, Goto, p
  <2>4. /\ DOMAIN loc' = DOMAIN NoCall /\ loc'.op = "insert" /\ loc'.status = "none"
        /\ loc'.before = loc.before /\ loc'.pages = Append(loc.pages, p)
    BY <1>1, <2>3 DEF NoCall
  <2>5. DOMAIN page' = Pages /\ Preserved'
    BY <1>1, <2>2, <2>3, <2>4 DEF Preserved
  <2>6. loc.pages \in Seq(Pages) /\ \A i \in 1 .. Len(loc.pages) : loc.before[loc.pages[i]] = Free
    BY <1>1 DEF WereFree
  <2>7. /\ Append(loc.pages, p) \in Seq(Pages)
        /\ \A i \in 1 .. Len(Append(loc.pages, p)) : loc.before[Append(loc.pages, p)[i]] = Free
    BY SMTT(30), <2>1, <2>2, <2>6
  <2>8. WereFree(loc.pages)'
    BY <2>4, <2>7 DEF WereFree
  <2>9. QED
    BY <2>3, <2>4, <2>5, <2>8 DEF FailSafe, Failed
<1>3. CASE AllocateFails
  <2> DEFINE l == [loc EXCEPT !.pages = <<>>, !.to_free = loc.pages, !.status = "Error"]
  <2>1. DOMAIN l = DOMAIN NoCall /\ l.before = loc.before /\ l.to_free = loc.pages
    BY <1>1 DEF NoCall
  <2>2. Freeing(l) /\ page' = page
    BY <1>3 DEF AllocateFails
  <2> HIDE DEF l
  <2>3. DOMAIN page' = Pages
    BY <1>1, <2>2
  <2>4. /\ \A p \in Pages : l.before[p] # Free => page'[p] = l.before[p]
        /\ l.to_free \in Seq(Pages)
        /\ \A i \in 1 .. Len(l.to_free) : l.before[l.to_free[i]] = Free
    BY <1>1, <2>1, <2>2 DEF Preserved, WereFree
  <2>5. QED
    BY <2>1, <2>2, <2>3, <2>4, FreeingKeeps
<1>4. QED
  BY <1>2, <1>3

\* Create is not a mutation of an index: only its locals matter.
LEMMA CreateKeeps ==
    ASSUME FailSafe,
           (\E fanout \in Fanouts : CreateHeader(fanout)) \/ CreateRoot \/ CreateRootFails
    PROVE  FailSafe'
<1>1. ASSUME NEW fanout \in Fanouts, CreateHeader(fanout) PROVE FailSafe'
  <2>1. pc' = "create" /\ DOMAIN loc' = DOMAIN NoCall /\ loc'.op = "create" /\ loc'.status = "none"
    BY <1>1 DEF CreateHeader, Goto, NoCall
  <2>2. DOMAIN page' = Pages
    BY <1>1 DEF CreateHeader, FailSafe
  <2>3. QED
    BY <2>1, <2>2 DEF FailSafe, Failed
<1>2. CASE CreateRoot
  <2>1. DOMAIN page' = Pages /\ loc.op = "create" /\ Answer(loc, "OK", NoRid)
    BY <1>2 DEF CreateRoot, FailSafe
  <2>2. QED
    BY <2>1, AnswerKeeps
<1>3. CASE CreateRootFails
  <2> DEFINE l == [loc EXCEPT !.pages = <<>>, !.to_free = loc.pages, !.status = "Error"]
  <2>1. DOMAIN l = DOMAIN NoCall /\ l.op = "create"
    BY <1>3 DEF CreateRootFails, FailSafe, NoCall
  <2>2. Freeing(l) /\ DOMAIN page' = Pages
    BY <1>3 DEF CreateRootFails, FailSafe
  <2> HIDE DEF l
  <2>3. QED
    BY <2>1, <2>2, FreeingKeeps
<1>4. QED
  BY <1>1, <1>2, <1>3

\* The writing half of an Insert fails no more.
LEMMA SplitKeeps ==
    ASSUME FailSafe, SplitLeafStep \/ InsertIntoParent \/ SplitParent \/ GrowRoot
    PROVE  FailSafe'
<1>1. /\ loc.op = "insert" /\ loc.status = "none"
      /\ DOMAIN loc = DOMAIN NoCall /\ DOMAIN page = Pages
  BY DEF FailSafe, SplitLeafStep, InsertIntoParent, SplitParent, GrowRoot
<1>2. CASE SplitLeafStep
  <2>1. DOMAIN page' = Pages
    BY <1>1, <1>2 DEF SplitLeafStep
  <2>2. pc' = "ascend" /\ DOMAIN loc' = DOMAIN NoCall /\ loc'.op = "insert" /\ loc'.status = "none"
    BY <1>1, <1>2 DEF SplitLeafStep, Goto, NoCall
  <2>3. QED
    BY <2>1, <2>2 DEF FailSafe, Failed
<1>3. CASE InsertIntoParent
  <2>1. DOMAIN page' = Pages /\ Answer(loc, "OK", NoRid)
    BY <1>1, <1>3 DEF InsertIntoParent
  <2>2. QED
    BY <2>1, AnswerKeeps
<1>4. CASE SplitParent
  <2>1. DOMAIN page' = Pages
    BY <1>1, <1>4 DEF SplitParent
  <2>2. pc' = "ascend" /\ DOMAIN loc' = DOMAIN NoCall /\ loc'.op = "insert" /\ loc'.status = "none"
    BY <1>1, <1>4 DEF SplitParent, Goto, NoCall
  <2>3. QED
    BY <2>1, <2>2 DEF FailSafe, Failed
<1>5. CASE GrowRoot
  <2>1. DOMAIN page' = Pages /\ Answer(loc, "OK", NoRid)
    BY <1>1, <1>5 DEF GrowRoot
  <2>2. QED
    BY <2>1, AnswerKeeps
<1>6. QED
  BY <1>2, <1>3, <1>4, <1>5

\* PlanDelete: until the plan is complete an error finds the pages as they were.
LEMMA PlanStepKeeps ==
    ASSUME FailSafe, PlanSibling \/ PlanFails
    PROVE  FailSafe'
<1>1. /\ loc.op = "delete" /\ loc.status = "none" /\ Preserved
      /\ DOMAIN loc = DOMAIN NoCall /\ DOMAIN page = Pages
  BY DEF FailSafe, PlanSibling, PlanFails
<1>2. CASE PlanSibling
  <2>1. ASSUME NEW step, RemoveEntry([loc EXCEPT !.plan = Append(loc.plan, step)]) PROVE FailSafe'
    <3> DEFINE l == [loc EXCEPT !.plan = Append(loc.plan, step)]
    <3>1. DOMAIN l = DOMAIN NoCall /\ l.op = "delete" /\ l.status = "none"
      BY <1>1 DEF NoCall
    <3>2. RemoveEntry(l)
      BY <2>1
    <3> HIDE DEF l
    <3>3. QED
      BY <3>1, <3>2, RemoveEntryKeeps
  <2>2. ASSUME NEW step, Plan([loc EXCEPT !.plan = Append(loc.plan, step), !.level = loc.level - 1])
        PROVE  FailSafe'
    <3> DEFINE l == [loc EXCEPT !.plan = Append(loc.plan, step), !.level = loc.level - 1]
    <3>1. DOMAIN l = DOMAIN NoCall /\ l.op = "delete" /\ l.status = "none" /\ l.before = loc.before
      BY <1>1 DEF NoCall
    <3>2. Plan(l)
      BY <2>2
    <3> HIDE DEF l
    <3>3. \A p \in Pages : l.before[p] # Free => page[p] = l.before[p]
      BY <1>1, <3>1 DEF Preserved
    <3>4. QED
      BY <3>1, <3>2, <3>3, PlanKeeps
  <2>3. QED
    BY <1>2, <2>1, <2>2 DEF PlanSibling
<1>3. CASE PlanFails
  <2>1. Answer(loc, "Error", NoRid) /\ page' = page
    BY <1>3 DEF PlanFails, Refuse
  <2>2. DOMAIN page' = Pages /\ \A p \in Pages : loc.before[p] # Free => page'[p] = loc.before[p]
    BY <1>1, <2>1 DEF Preserved
  <2>3. QED
    BY <2>1, <2>2, AnswerKeeps
<1>4. QED
  BY <1>2, <1>3

\* ApplyDeletePlan fails no more.
LEMMA ApplyKeeps ==
    ASSUME FailSafe, Redistribute \/ Merge \/ CollapseRoot
    PROVE  FailSafe'
<1>1. /\ loc.op = "delete" /\ loc.status = "none"
      /\ DOMAIN loc = DOMAIN NoCall /\ DOMAIN page = Pages
  BY DEF FailSafe, Redistribute, Merge, CollapseRoot
<1>2. CASE Redistribute
  <2>1. DOMAIN page' = Pages /\ Applied(loc)
    BY <1>1, <1>2 DEF Redistribute
  <2>2. QED
    BY <1>1, <2>1, AppliedKeeps
<1>3. CASE Merge
  <2> DEFINE l == [loc EXCEPT !.to_free = Append(loc.to_free, RightId), !.level = loc.level - 1]
  <2>1. DOMAIN l = DOMAIN NoCall /\ l.op = "delete" /\ l.status = "none"
    BY <1>1 DEF NoCall
  <2>2. DOMAIN page' = Pages
    BY <1>1, <1>3 DEF Merge
  <2>3. Goto("apply", l) \/ Goto("collapse", l) \/ Applied(l)
    BY <1>3 DEF Merge
  <2> HIDE DEF l
  <2>4. CASE Applied(l)
    BY <2>1, <2>2, <2>4, AppliedKeeps
  <2>5. CASE Goto("apply", l) \/ Goto("collapse", l)
    <3>1. pc' \in {"apply", "collapse"} /\ loc' = l
      BY <2>5 DEF Goto
    <3>2. QED
      BY <2>1, <2>2, <3>1 DEF FailSafe, Failed
  <2>6. QED
    BY <2>3, <2>4, <2>5
<1>4. CASE CollapseRoot
  <2> DEFINE l == [loc EXCEPT !.to_free = Append(loc.to_free, loc.path[1])]
  <2>1. DOMAIN l = DOMAIN NoCall
    BY <1>1 DEF NoCall
  <2>2. DOMAIN page' = Pages /\ Applied(l)
    BY <1>1, <1>4 DEF CollapseRoot
  <2> HIDE DEF l
  <2>3. QED
    BY <2>1, <2>2, AppliedKeeps
<1>5. QED
  BY <1>2, <1>3, <1>4

\* FreeAll: what a call that failed gives back was not in use when it began.
LEMMA FreePageKeeps ==
    ASSUME FailSafe, FreePage
    PROVE  FailSafe'
<1> DEFINE p == Head(loc.to_free)
           l == [loc EXCEPT !.to_free = Tail(loc.to_free)]
<1>1. /\ loc.to_free # <<>> /\ DOMAIN loc = DOMAIN NoCall /\ DOMAIN page = Pages
      /\ Failed => Preserved /\ WereFree(loc.to_free)
  BY DEF FailSafe, FreePage
<1>2. /\ DOMAIN l = DOMAIN NoCall /\ l.op = loc.op /\ l.status = loc.status
      /\ l.before = loc.before /\ l.to_free = Tail(loc.to_free)
  BY <1>1 DEF NoCall
<1>3. Freeing(l) /\ (page' = page \/ page' = [page EXCEPT ![p] = Free])
  BY DEF FreePage
<1> HIDE DEF l
<1>4. DOMAIN page' = Pages
  BY <1>1, <1>3
<1>5. ASSUME Failed
      PROVE  /\ \A q \in Pages : l.before[q] # Free => page'[q] = l.before[q]
             /\ l.to_free \in Seq(Pages)
             /\ \A i \in 1 .. Len(l.to_free) : l.before[l.to_free[i]] = Free
  <2>1. loc.to_free \in Seq(Pages) /\ \A i \in 1 .. Len(loc.to_free) : loc.before[loc.to_free[i]] = Free
    BY <1>1, <1>5 DEF WereFree
  <2>2. loc.before[p] = Free
    BY <1>1, <2>1
  <2>3. \A q \in Pages : loc.before[q] # Free => page'[q] = loc.before[q]
    BY <1>1, <1>3, <1>5, <2>2 DEF Preserved
  <2>4. /\ Tail(loc.to_free) \in Seq(Pages)
        /\ \A i \in 1 .. Len(Tail(loc.to_free)) : loc.before[Tail(loc.to_free)[i]] = Free
    BY SMTT(30), <1>1, <2>1
  <2>5. QED
    BY <1>2, <2>3, <2>4
<1>6. QED
  BY <1>2, <1>3, <1>4, <1>5, FreeingKeeps DEF Failed

\* Calls that read, and the steps of an iterator.
LEMMA ReadersKeep ==
    ASSUME FailSafe,
           \/ CreateFails \/ Open \/ OpenFails \/ Close \/ GetFails \/ ScanFails
           \/ \E k \in Keys : Get(k)
           \/ \E interval \in Intervals : Scan(interval[1], interval[2])
           \/ NextFetch \/ NextFails \/ NextLeaf \/ NextEntry \/ NextPast \/ NextEnd \/ DropIterator
    PROVE  FailSafe'
<1>1. UNCHANGED page /\ DOMAIN page' = Pages
  <2>1. UNCHANGED page
    BY DEF CreateFails, Open, OpenFails, Close, GetFails, ScanFails, Get, Scan, NextFetch,
       NextFails, NextLeaf, NextEntry, NextPast, NextEnd, DropIterator, Ends, Refuse
  <2>2. QED
    BY <2>1 DEF FailSafe
<1>2. ASSUME NEW l, l.op \notin {"insert", "delete"}, DOMAIN l = DOMAIN NoCall,
             NEW label \in {"next", "idle", "closed"}, Goto(label, l)
      PROVE  FailSafe'
  <2>1. pc' = label /\ loc' = l
    BY <1>2 DEF Goto
  <2>2. QED
    BY <1>1, <1>2, <2>1 DEF FailSafe, Failed
<1>3. NoCall.op = "none" /\ NextLocals.op = "next" /\ DOMAIN NextLocals = DOMAIN NoCall
  BY DEF NoCall, NextLocals, Reads
<1>4. CASE Close \/ DropIterator \/ NextFetch \/ NextLeaf
  BY <1>2, <1>3, <1>4 DEF Close, DropIterator, NextFetch, NextLeaf
<1>5. CASE \/ CreateFails \/ Open \/ OpenFails \/ GetFails \/ ScanFails
           \/ \E k \in Keys : Get(k)
           \/ \E interval \in Intervals : Scan(interval[1], interval[2])
           \/ NextFails \/ NextEntry \/ NextPast \/ NextEnd
  <2>1. \E op \in {"create", "open", "get", "scan", "next"} :
            \E k, status, rid : Answer(Reads(op, k), status, rid)
    BY <1>5 DEF CreateFails, Open, OpenFails, GetFails, ScanFails, Get, Scan, NextFails,
       NextEntry, NextPast, NextEnd, Ends, Refuse, NextLocals
  <2>2. QED
    BY <1>1, <2>1, ReadsKeep
<1>6. QED
  BY <1>4, <1>5

\* Every step of the index keeps FailSafe.
LEMMA FailSafeNext == FailSafe /\ [Next]_vars => FailSafe'
<1> SUFFICES ASSUME FailSafe, [Next]_vars PROVE FailSafe'
  OBVIOUS
<1>1. CASE UNCHANGED vars
  BY <1>1 DEF vars, FailSafe, Failed, Preserved, WereFree
<1>2. CASE InsertFails \/ DeleteFails
  BY <1>2, RefusedKeeps DEF InsertFails, DeleteFails, Refuse
<1>3. ASSUME NEW k \in Keys, Delete(k) \/ \E rid \in Rids[k] : Insert(k, rid) PROVE FailSafe'
  BY <1>3, InsertKeeps, DeleteKeeps
<1>4. QED
  BY <1>1, <1>2, <1>3, ReadersKeep, CreateKeeps, AllocateKeeps, SplitKeeps, PlanStepKeeps,
     ApplyKeeps, FreePageKeeps DEF Next

\* For every set of pages, every fanout and every height: an Insert or a Delete that answers
\* anything but OK has left every page of the index as it was, whichever call to the pool
\* failed and however many pages it had taken (Insert and Delete, plan before mutate).
THEOREM ErrorsChangeNothing == Spec => ErrorChangesNothing
<1>1. FailSafe' => (loc'.op \in {"insert", "delete"}
                    /\ loc'.status \in {"Error", "DuplicateKey", "NotFound"} =>
                       \A p \in Pages : loc'.before[p] # Free => page'[p] = loc'.before[p])
  BY DEF FailSafe, Failed, Preserved
<1>2. Spec => []FailSafe
  BY FailSafeInit, FailSafeNext, PTL DEF Spec
<1>3. QED
  BY <1>1, <1>2, PTL DEF ErrorChangesNothing

(***************************************************************************)
(* What bounds the frames a mutation pins.  First the pages: their types,  *)
(* the height a header records, and where the header page is known.  Then  *)
(* the lists of pages in the locals of a call.                             *)
(***************************************************************************)

\* A page has a type, and a header a height.
PageOK(x) ==
    /\ "type" \in DOMAIN x
    /\ IsHeader(x) => "height" \in DOMAIN x /\ x.height \in Int
PagesOK(f) == DOMAIN f = Pages /\ \A p \in Pages : PageOK(f[p])

\* The locals of a call have all their fields, and the height it has read.
LocalsOK(l) == DOMAIN l = DOMAIN NoCall /\ l.height \in Int

\* Where an Insert or a Delete stands when it has a path.
Writing == {"allocate", "split", "ascend", "plan", "apply", "collapse"}

\* The header page is known, except before Create and while it runs.
HeaderKnown ==
    /\ header_page_id \in Pages \cup {INVALID_PAGE}
    /\ header_page_id = INVALID_PAGE => pc = "closed" \/ (pc \in {"create", "free"} /\ loc.op = "create")
    /\ pc \in Writing => loc.op # "create"
    /\ pc = "create" => loc.op = "create" /\ loc.pages \in Seq(Pages) /\ Len(loc.pages) = 1
    /\ pc = "free" /\ loc.op = "create" => loc.status = "Error"

PagesSound == PagesOK(page) /\ LocalsOK(loc) /\ HeaderKnown

\* What the steps write to a node keeps the type of its page.
LEMMA FieldsKept ==
    ASSUME NEW x, PageOK(x), NEW v
    PROVE  PageOK([x EXCEPT !.entries = v]) /\ PageOK([x EXCEPT !.next = v])
BY DEF PageOK, IsHeader

\* The same for each operation on one node.
LEMMA NodeOpsKeep ==
    ASSUME NEW x, PageOK(x)
    PROVE  /\ \A i, e : PageOK(EntryInsertedAt(x, i, e)) /\ PageOK(KeySetAt(x, i, e))
           /\ \A i : PageOK(EntryRemovedAt(x, i))
           /\ \A e : PageOK(LeafAssigned(x, e)) /\ PageOK(InternalAssigned(x, e))
BY FieldsKept DEF EntryInsertedAt, KeySetAt, EntryRemovedAt, LeafAssigned, InternalAssigned

\* The pages a step writes anew.
LEMMA FreshPages ==
    /\ PageOK(Free) /\ PageOK(Allocated) /\ PageOK(NewLeaf)
    /\ \A level : PageOK(NewInternal(level))
    /\ \A root, fanout : \A height \in Int : PageOK(IndexHeader(root, height, fanout))
BY DEF PageOK, IsHeader, Free, Allocated, NewLeaf, Leaf, NewInternal, Internal, IndexHeader

\* Splits, rotations and merges: each page of the pair keeps its type.
LEMMA HalvesKeep ==
    ASSUME NEW left, NEW right, NEW temp, NEW m
    PROVE  /\ PageOK(left) => /\ PageOK(LeafHalves(left, right, temp, m).left)
                              /\ PageOK(InternalHalves(left, right, temp, m).left)
           /\ PageOK(right) => /\ PageOK(LeafHalves(left, right, temp, m).right)
                               /\ PageOK(InternalHalves(left, right, temp, m).right)
BY NodeOpsKeep DEF LeafHalves, InternalHalves

\* The two pages of a split keep their types.
LEMMA SplitsKeep ==
    ASSUME NEW left, NEW right, NEW id, NEW i, NEW e
    PROVE  /\ PageOK(left) => /\ PageOK(SplitLeaf(left, right, id, i, e).left)
                              /\ PageOK(SplitInternal(left, right, i, e).left)
           /\ PageOK(right) => /\ PageOK(SplitLeaf(left, right, id, i, e).right)
                               /\ PageOK(SplitInternal(left, right, i, e).right)
<1> DEFINE temp == EntryInsertedAt(left, i, e).entries
           h == LeafHalves(left, right, temp, LeftHalf(Len(temp)))
<1>1. (PageOK(left) => PageOK(h.left)) /\ (PageOK(right) => PageOK(h.right))
  BY HalvesKeep
<1>2. /\ SplitLeaf(left, right, id, i, e).left = [h.left EXCEPT !.next = id]
      /\ SplitLeaf(left, right, id, i, e).right = [h.right EXCEPT !.next = left.next]
  BY DEF SplitLeaf
<1> HIDE DEF h
<1>3. /\ PageOK(left) => PageOK(SplitLeaf(left, right, id, i, e).left)
      /\ PageOK(right) => PageOK(SplitLeaf(left, right, id, i, e).right)
  <2>1. /\ PageOK(left) => PageOK([h.left EXCEPT !.next = id])
        /\ PageOK(right) => PageOK([h.right EXCEPT !.next = left.next])
    BY <1>1, FieldsKept
  <2>2. QED
    BY <1>2, <2>1
<1>4. QED
  BY <1>3, HalvesKeep DEF SplitInternal

\* So do the sibling and the leaf of a rotation.
LEMMA RotationsKeep ==
    ASSUME NEW left, NEW right
    PROVE  /\ PageOK(left) => PageOK(Rotated(left, right).left)
           /\ PageOK(right) => PageOK(Rotated(left, right).right)
BY HalvesKeep DEF Rotated, RotateLeafRight, RotateLeafLeft, RotateInternalRight, RotateInternalLeft

\* So does the page a merge fills.
LEMMA MergesKeep ==
    ASSUME NEW left, PageOK(left), NEW right, NEW sep
    PROVE  PageOK(MergeLeaf(left, right)) /\ PageOK(MergeInternal(left, right, sep))
BY NodeOpsKeep, FieldsKept DEF MergeLeaf, MergeInternal

\* One page is written.
LEMMA Update ==
    ASSUME NEW f, PagesOK(f), NEW q, NEW v, q \in Pages => PageOK(v)
    PROVE  PagesOK([f EXCEPT ![q] = v])
BY DEF PagesOK

\* What every step that answers must show.
LEMMA AnswerSound ==
    ASSUME NEW l, NEW status, NEW rid, Answer(l, status, rid), PagesOK(page'),
           header_page_id' \in Pages \cup {INVALID_PAGE},
           header_page_id' = INVALID_PAGE => l.op = "create" /\ status # "OK"
    PROVE  PagesSound'
<1>1. Rest(l.op, status) \in {"closed", "cursor", "idle"} /\ pc' = Rest(l.op, status)
  BY DEF Rest, Answer, Goto
<1>2. LocalsOK(loc')
  BY DEF Answer, Goto, NoCall, LocalsOK
<1>3. HeaderKnown'
  BY <1>1 DEF HeaderKnown, Rest, Writing
<1>4. QED
  BY <1>2, <1>3 DEF PagesSound

\* What every step that goes on to free pages must show.
LEMMA FreeingSound ==
    ASSUME NEW l, Freeing(l), LocalsOK(l), PagesOK(page'),
           header_page_id' \in Pages \cup {INVALID_PAGE},
           header_page_id' = INVALID_PAGE => l.op = "create",
           l.op = "create" => l.status = "Error"
    PROVE  PagesSound'
<1>1. CASE Answer(l, l.status, NoRid)
  BY <1>1, AnswerSound
<1>2. CASE Goto("free", l)
  BY <1>2 DEF Goto, PagesSound, HeaderKnown, Writing
<1>3. QED
  BY <1>1, <1>2 DEF Freeing

\* What every other step of a mutation must show.
LEMMA GotoSound ==
    ASSUME NEW label, label \notin {"create", "free"}, NEW l, Goto(label, l), LocalsOK(l),
           l.op # "create", PagesOK(page'), header_page_id' \in Pages
    PROVE  PagesSound'
BY PagesAssumption DEF Goto, PagesSound, HeaderKnown

\* A mutation that has applied its change frees its pages or answers, and keeps PagesSound.
LEMMA AppliedSound ==
    ASSUME NEW l, LocalsOK(l), l.op # "create", Applied(l), PagesOK(page'), header_page_id' \in Pages
    PROVE  PagesSound'
<1> DEFINE m == [l EXCEPT !.path = <<>>, !.plan = <<>>, !.status = "OK"]
<1>1. LocalsOK(m) /\ m.op = l.op /\ Freeing(m)
  BY DEF LocalsOK, NoCall, Applied
<1> HIDE DEF m
<1>2. QED
  BY <1>1, PagesAssumption, FreeingSound

\* The entry is removed from the leaf.
LEMMA RemoveEntrySound ==
    ASSUME PagesOK(page), NEW l, LocalsOK(l), l.op # "create", RemoveEntry(l),
           header_page_id' \in Pages
    PROVE  PagesSound'
<1>1. PagesOK(page')
  <2> DEFINE q == LeafOf(l.path)
             v == EntryRemovedAt(page[q], LowerBound(page[q], l.key))
  <2>1. page' = [page EXCEPT ![q] = v]
    BY DEF RemoveEntry
  <2>2. q \in Pages => PageOK(v)
    BY NodeOpsKeep DEF PagesOK
  <2> HIDE DEF q, v
  <2>3. QED
    BY <2>1, <2>2, Update
<1>2. CASE Applied(l)
  BY <1>1, <1>2, AppliedSound
<1>3. CASE Goto("apply", [l EXCEPT !.level = Len(l.path)])
  <2> DEFINE m == [l EXCEPT !.level = Len(l.path)]
  <2>1. LocalsOK(m) /\ m.op = l.op /\ Goto("apply", m)
    BY <1>3 DEF LocalsOK, NoCall
  <2> HIDE DEF m
  <2>2. QED
    BY <1>1, <2>1, GotoSound
<1>4. QED
  BY <1>2, <1>3 DEF RemoveEntry

\* The next step of a delete plan, or its end, keeps PagesSound.
LEMMA PlanSound ==
    ASSUME PagesOK(page), NEW l, LocalsOK(l), l.op # "create", Plan(l), header_page_id' \in Pages
    PROVE  PagesSound'
<1>1. CASE Goto("plan", l) /\ UNCHANGED page
  BY <1>1, GotoSound
<1>2. CASE RemoveEntry(l)
  BY <1>2, RemoveEntrySound
<1>3. ASSUME NEW flag, RemoveEntry([l EXCEPT !.collapse_root = flag]) PROVE PagesSound'
  <2> DEFINE m == [l EXCEPT !.collapse_root = flag]
  <2>1. LocalsOK(m) /\ m.op = l.op /\ RemoveEntry(m)
    BY <1>3 DEF LocalsOK, NoCall
  <2> HIDE DEF m
  <2>2. QED
    BY <2>1, RemoveEntrySound
<1>4. QED
  BY <1>1, <1>2, <1>3 DEF Plan

\* A mutation has a header page, and goes on with it.
LEMMA MutationHeader ==
    ASSUME PagesSound, pc \notin {"closed", "create", "free"}
    PROVE  PagesOK(page) /\ LocalsOK(loc) /\ header_page_id \in Pages /\ (pc \in Writing => loc.op # "create")
BY DEF PagesSound, HeaderKnown

\* FindLeafWrite reads the height from a header.
LEMMA WithPathSound ==
    ASSUME PagesSound, pc = "idle", NEW op, NEW k, NEW nodes, PathIsValid(nodes)
    PROVE  /\ LocalsOK(WithPath(Begun(op, k), nodes)) /\ WithPath(Begun(op, k), nodes).op = op
           /\ Begun(op, k).op = op
<1>1. page[header_page_id].height \in Int
  BY MutationHeader DEF PagesOK, PageOK, PathIsValid
<1>2. QED
  BY <1>1 DEF WithPath, Begun, Reads, NoCall, LocalsOK

\* The insert fast path, and the first step of a split, keep PagesSound.
LEMMA InsertSound ==
    ASSUME PagesSound, NEW k, NEW rid, Insert(k, rid)
    PROVE  PagesSound'
<1> DEFINE nodes == Nodes(k)
           leaf == page[LeafOf(nodes)]
           b == Begun("insert", k)
           l == WithPath(b, nodes)
           m == [l EXCEPT !.rid = rid, !.splits = CountSplits(nodes)]
<1>1. pc = "idle" /\ PathIsValid(nodes) /\ header_page_id' = header_page_id
  BY DEF Insert
<1>2. PagesOK(page) /\ header_page_id \in Pages /\ header_page_id # INVALID_PAGE
  BY <1>1, PagesAssumption, MutationHeader
<1>3. LocalsOK(l) /\ l.op = "insert" /\ b.op = "insert"
  BY <1>1, WithPathSound
<1> HIDE DEF nodes, b, l
<1>4. ASSUME NEW status, Answer(b, status, NoRid), PagesOK(page') PROVE PagesSound'
  BY <1>1, <1>2, <1>4, AnswerSound
<1>5. CASE Answer(b, "DuplicateKey", NoRid) /\ UNCHANGED page
  BY <1>2, <1>4, <1>5
<1>6. CASE /\ page' = [page EXCEPT ![LeafOf(nodes)] =
                         EntryInsertedAt(leaf, LowerBound(leaf, k), [key |-> k, rid |-> rid])]
           /\ Answer(b, "OK", NoRid)
  <2>1. LeafOf(nodes) \in Pages => PageOK(leaf)
    BY <1>2 DEF PagesOK
  <2> HIDE DEF leaf
  <2>2. PagesOK(page')
    BY <1>2, <1>6, <2>1, NodeOpsKeep, Update
  <2>3. QED
    BY <1>4, <1>6, <2>2
<1>7. CASE Goto("allocate", m) /\ UNCHANGED page
  <2>1. LocalsOK(m) /\ m.op = "insert"
    BY <1>3 DEF LocalsOK, NoCall
  <2> HIDE DEF m
  <2>2. QED
    BY <1>1, <1>2, <1>7, <2>1, GotoSound
<1>8. QED
  BY <1>5, <1>6, <1>7 DEF Insert, nodes, b, l

\* A delete that finds its leaf keeps PagesSound, whichever way it goes on.
LEMMA DeleteSound ==
    ASSUME PagesSound, NEW k, Delete(k)
    PROVE  PagesSound'
<1> DEFINE nodes == Nodes(k)
           b == Begun("delete", k)
           l == WithPath(b, nodes)
           m == [l EXCEPT !.level = Len(nodes)]
<1>1. pc = "idle" /\ PathIsValid(nodes) /\ header_page_id' = header_page_id
  BY DEF Delete
<1>2. PagesOK(page) /\ header_page_id \in Pages /\ header_page_id # INVALID_PAGE
  BY <1>1, PagesAssumption, MutationHeader
<1>3. LocalsOK(l) /\ l.op = "delete" /\ b.op = "delete"
  BY <1>1, WithPathSound
<1> HIDE DEF nodes, b, l
<1>4. CASE Answer(b, "NotFound", NoRid) /\ UNCHANGED page
  BY <1>1, <1>2, <1>4, AnswerSound
<1>5. CASE Plan(m)
  <2>1. LocalsOK(m) /\ m.op = "delete"
    BY <1>3 DEF LocalsOK, NoCall
  <2> HIDE DEF m
  <2>2. QED
    BY <1>1, <1>2, <1>5, <2>1, PlanSound
<1>6. QED
  BY <1>4, <1>5 DEF Delete, nodes, b, l

\* Taking the pages of a split, or giving them back, keeps PagesSound.
LEMMA AllocateSound ==
    ASSUME PagesSound, AllocatePage \/ AllocateFails
    PROVE  PagesSound'
<1>1. /\ PagesOK(page) /\ LocalsOK(loc) /\ header_page_id \in Pages /\ header_page_id # INVALID_PAGE
      /\ header_page_id' = header_page_id /\ loc.op # "create"
  BY MutationHeader, PagesAssumption DEF AllocatePage, AllocateFails, Writing
<1>2. CASE AllocatePage
  <2>1. PICK label \in {"split", "allocate"} : Goto(label, [loc EXCEPT !.pages = Append(loc.pages, NewPageId)])
    BY <1>2 DEF AllocatePage
  <2>2. LET l == [loc EXCEPT !.pages = Append(loc.pages, NewPageId)]
        IN  LocalsOK(l) /\ l.op # "create"
    BY <1>1 DEF LocalsOK, NoCall
  <2>3. PagesOK(page')
    BY <1>1, <1>2, FreshPages, Update DEF AllocatePage
  <2>4. QED
    BY <1>1, <2>1, <2>2, <2>3, GotoSound
<1>3. CASE AllocateFails
  <2> DEFINE l == [loc EXCEPT !.pages = <<>>, !.to_free = loc.pages, !.status = "Error"]
  <2>1. LocalsOK(l) /\ l.status = "Error" /\ Freeing(l) /\ page' = page
    BY <1>1, <1>3 DEF LocalsOK, NoCall, AllocateFails
  <2> HIDE DEF l
  <2>2. QED
    BY <1>1, <2>1, FreeingSound
<1>4. QED
  BY <1>2, <1>3

\* The writing half of an Insert.
LEMMA SplitSound ==
    ASSUME PagesSound, SplitLeafStep \/ InsertIntoParent \/ SplitParent \/ GrowRoot
    PROVE  PagesSound'
<1>1. /\ PagesOK(page) /\ LocalsOK(loc) /\ header_page_id \in Pages /\ header_page_id # INVALID_PAGE
      /\ header_page_id' = header_page_id /\ loc.op # "create" /\ \A p \in Pages : PageOK(page[p])
  BY MutationHeader, PagesAssumption DEF SplitLeafStep, InsertIntoParent, SplitParent, GrowRoot, PagesOK, Writing
<1>2. ASSUME Answer(loc, "OK", NoRid), PagesOK(page') PROVE PagesSound'
  BY <1>1, <1>2, AnswerSound
<1>3. ASSUME NEW q, NEW left, q \in Pages => PageOK(left), NEW right_id, NEW right, PageOK(right),
             page' = [page EXCEPT ![q] = left, ![right_id] = right]
      PROVE  PagesOK(page')
  <2>1. PagesOK([page EXCEPT ![q] = left])
    BY <1>1, <1>3, Update
  <2>2. QED
    BY <1>3, <2>1, Update
<1>4. CASE SplitLeafStep
  <2> DEFINE right_id == loc.pages[1]
             halves == SplitLeaf(PathLeaf, NewLeaf, right_id, LowerBound(PathLeaf, loc.key),
                                 [key |-> loc.key, rid |-> loc.rid])
             l == [loc EXCEPT !.sep = halves.sep, !.right_id = right_id,
                              !.next_page = 1, !.level = Len(loc.path) - 1]
  <2>1. Goto("ascend", l) /\ page' = [page EXCEPT ![LeafOf(loc.path)] = halves.left, ![right_id] = halves.right]
    BY <1>4 DEF SplitLeafStep
  <2>2. (LeafOf(loc.path) \in Pages => PageOK(halves.left)) /\ PageOK(halves.right)
    BY <1>1, SplitsKeep, FreshPages DEF PathLeaf
  <2> HIDE DEF halves
  <2>3. LocalsOK(l) /\ l.op # "create"
    BY <1>1 DEF LocalsOK, NoCall
  <2> HIDE DEF l, right_id
  <2>4. PagesOK(page')
    BY <1>3, <2>1, <2>2
  <2>5. QED
    BY <1>1, <2>1, <2>3, <2>4, GotoSound
<1>5. CASE InsertIntoParent
  <2> DEFINE q == loc.path[loc.level]
             v == EntryInsertedAt(page[q], ParentSlot, ParentEntry)
  <2>1. Answer(loc, "OK", NoRid) /\ page' = [page EXCEPT ![q] = v]
    BY <1>5 DEF InsertIntoParent
  <2>2. q \in Pages => PageOK(v)
    BY <1>1, NodeOpsKeep
  <2> HIDE DEF q, v
  <2>3. QED
    BY <1>1, <1>2, <2>1, <2>2, Update
<1>6. CASE SplitParent
  <2> DEFINE q == loc.path[loc.level]
             right_id == loc.pages[loc.next_page + 1]
             halves == SplitInternal(PathNode(loc.level), NewInternal(PathNode(loc.level).level),
                                     ParentSlot, ParentEntry)
             l == [loc EXCEPT !.sep = halves.sep, !.right_id = right_id,
                              !.next_page = loc.next_page + 1, !.level = loc.level - 1]
  <2>1. Goto("ascend", l) /\ page' = [page EXCEPT ![q] = halves.left, ![right_id] = halves.right]
    BY <1>6 DEF SplitParent
  <2>2. (q \in Pages => PageOK(halves.left)) /\ PageOK(halves.right)
    BY <1>1, SplitsKeep, FreshPages DEF PathNode
  <2> HIDE DEF halves
  <2>3. LocalsOK(l) /\ l.op # "create"
    BY <1>1 DEF LocalsOK, NoCall
  <2> HIDE DEF l, right_id, q
  <2>4. PagesOK(page')
    BY <1>3, <2>1, <2>2
  <2>5. QED
    BY <1>1, <2>1, <2>3, <2>4, GotoSound
<1>7. CASE GrowRoot
  <2> DEFINE root_id == loc.pages[loc.next_page + 1]
             root == InternalAssigned(NewInternal(loc.height),
                         <<[key |-> INT64_MIN, child |-> loc.root], ParentEntry>>)
             header == IndexHeader(root_id, loc.height + 1, page[header_page_id].fanout)
  <2>1. Answer(loc, "OK", NoRid) /\ page' = [page EXCEPT ![root_id] = root, ![header_page_id] = header]
    BY <1>7 DEF GrowRoot
  <2>2. PageOK(root)
    BY FreshPages, NodeOpsKeep
  <2>3. PageOK(header)
    <3>1. loc.height + 1 \in Int
      BY <1>1 DEF LocalsOK
    <3>2. QED
      BY <3>1, FreshPages
  <2> HIDE DEF root, header
  <2>4. PagesOK(page')
    BY <1>3, <2>1, <2>2, <2>3
  <2>5. QED
    BY <1>2, <2>1, <2>4
<1>8. QED
  BY <1>4, <1>5, <1>6, <1>7

\* Each level a delete plans keeps PagesSound.
LEMMA PlanStepSound ==
    ASSUME PagesSound, PlanSibling \/ PlanFails
    PROVE  PagesSound'
<1>1. /\ PagesOK(page) /\ LocalsOK(loc) /\ header_page_id \in Pages /\ header_page_id # INVALID_PAGE
      /\ header_page_id' = header_page_id /\ loc.op # "create"
  BY MutationHeader, PagesAssumption DEF PlanSibling, PlanFails, Refuse, Writing
<1>2. ASSUME NEW plan, RemoveEntry([loc EXCEPT !.plan = plan]) PROVE PagesSound'
  <2> DEFINE l == [loc EXCEPT !.plan = plan]
  <2>1. LocalsOK(l) /\ l.op = loc.op /\ RemoveEntry(l)
    BY <1>1, <1>2 DEF LocalsOK, NoCall
  <2> HIDE DEF l
  <2>2. QED
    BY <1>1, <2>1, RemoveEntrySound
<1>3. ASSUME NEW plan, NEW level, Plan([loc EXCEPT !.plan = plan, !.level = level]) PROVE PagesSound'
  <2> DEFINE l == [loc EXCEPT !.plan = plan, !.level = level]
  <2>1. LocalsOK(l) /\ l.op = loc.op /\ Plan(l)
    BY <1>1, <1>3 DEF LocalsOK, NoCall
  <2> HIDE DEF l
  <2>2. QED
    BY <1>1, <2>1, PlanSound
<1>4. CASE PlanSibling
  BY <1>2, <1>3, <1>4 DEF PlanSibling
<1>5. CASE PlanFails
  BY <1>1, <1>5, AnswerSound DEF PlanFails, Refuse
<1>6. QED
  BY <1>4, <1>5

\* Applying a delete plan, and collapsing the root, keeps PagesSound.
LEMMA ApplySound ==
    ASSUME PagesSound, Redistribute \/ Merge \/ CollapseRoot
    PROVE  PagesSound'
<1>1. /\ PagesOK(page) /\ LocalsOK(loc) /\ header_page_id \in Pages
      /\ header_page_id' = header_page_id /\ loc.op # "create" /\ \A p \in Pages : PageOK(page[p])
  BY MutationHeader DEF Redistribute, Merge, CollapseRoot, PagesOK, Writing
<1>2. CASE Redistribute
  <2> DEFINE pair == Rotated(page[LeftId], page[RightId])
             f == [[page EXCEPT ![LeftId] = pair.left] EXCEPT ![RightId] = pair.right]
             q == loc.path[loc.level - 1]
  <2>1. /\ Applied(loc)
        /\ page' = [f EXCEPT ![q] = KeySetAt(page[q], RightSlot, pair.sep)]
    BY <1>2 DEF Redistribute, Parent, PathNode
  <2>2. (LeftId \in Pages => PageOK(pair.left)) /\ (RightId \in Pages => PageOK(pair.right))
    BY <1>1, RotationsKeep
  <2> HIDE DEF pair
  <2>3. PagesOK(f)
    <3>1. PagesOK([page EXCEPT ![LeftId] = pair.left])
      BY <1>1, <2>2, Update
    <3>2. QED
      BY <2>2, <3>1, Update
  <2> HIDE DEF f, q
  <2>4. q \in Pages => PageOK(KeySetAt(page[q], RightSlot, pair.sep))
    BY <1>1, NodeOpsKeep
  <2>5. PagesOK(page')
    BY <2>1, <2>3, <2>4, Update
  <2>6. QED
    BY <1>1, <2>1, <2>5, AppliedSound
<1>3. CASE Merge
  <2> DEFINE left == page[LeftId]
             right == page[RightId]
             merged == IF IsLeaf(left) THEN MergeLeaf(left, right) ELSE MergeInternal(left, right, Separator)
             f == [page EXCEPT ![LeftId] = merged]
             q == loc.path[loc.level - 1]
             l == [loc EXCEPT !.to_free = Append(loc.to_free, RightId), !.level = loc.level - 1]
  <2>1. page' = [f EXCEPT ![q] = EntryRemovedAt(page[q], RightSlot)]
    BY <1>3 DEF Merge, Parent, PathNode
  <2>2. Goto("apply", l) \/ Goto("collapse", l) \/ Applied(l)
    BY <1>3 DEF Merge
  <2>3. LeftId \in Pages => PageOK(merged)
    BY <1>1, MergesKeep
  <2> HIDE DEF merged
  <2>4. PagesOK(f)
    BY <1>1, <2>3, Update
  <2> HIDE DEF f, q
  <2>5. q \in Pages => PageOK(EntryRemovedAt(page[q], RightSlot))
    BY <1>1, NodeOpsKeep
  <2>6. PagesOK(page')
    BY <2>1, <2>4, <2>5, Update
  <2>7. LocalsOK(l) /\ l.op = loc.op
    BY <1>1 DEF LocalsOK, NoCall
  <2> HIDE DEF l
  <2>8. QED
    BY <1>1, <2>2, <2>6, <2>7, AppliedSound, GotoSound
<1>4. CASE CollapseRoot
  <2> DEFINE header == IndexHeader(ChildAt(PathNode(1), 1), loc.height - 1, page[header_page_id].fanout)
             l == [loc EXCEPT !.to_free = Append(loc.to_free, loc.path[1])]
  <2>1. page' = [page EXCEPT ![header_page_id] = header] /\ Applied(l)
    BY <1>4 DEF CollapseRoot
  <2>2. PageOK(header)
    <3>1. loc.height - 1 \in Int
      BY <1>1 DEF LocalsOK
    <3>2. QED
      BY <3>1, FreshPages
  <2>3. LocalsOK(l) /\ l.op = loc.op
    BY <1>1 DEF LocalsOK, NoCall
  <2> HIDE DEF header, l
  <2>4. PagesOK(page')
    BY <1>1, <2>1, <2>2, Update
  <2>5. QED
    BY <1>1, <2>1, <2>3, <2>4, AppliedSound
<1>5. QED
  BY <1>2, <1>3, <1>4

\* Create: the header page is known once the root is there.
LEMMA CreateSound ==
    ASSUME PagesSound, (\E fanout \in Fanouts : CreateHeader(fanout)) \/ CreateRoot \/ CreateRootFails
    PROVE  PagesSound'
<1>1. PagesOK(page) /\ LocalsOK(loc) /\ HeaderKnown /\ header_page_id \in Pages \cup {INVALID_PAGE}
  BY DEF PagesSound, HeaderKnown
<1>2. ASSUME NEW fanout \in Fanouts, CreateHeader(fanout) PROVE PagesSound'
  <2>1. NewPageId \in Pages
    BY <1>2 DEF CreateHeader, CanNewPage, NewPageId, FreePages
  <2>2. /\ pc' = "create" /\ LocalsOK(loc') /\ loc'.op = "create" /\ loc'.pages = <<NewPageId>>
    <3>1. /\ pc' = "create"
          /\ loc' = [NoCall EXCEPT !.op = "create", !.fanout = fanout, !.pages = <<NewPageId>>]
      BY <1>2 DEF CreateHeader, Goto
    <3>2. QED
      BY <3>1 DEF NoCall, LocalsOK
  <2>3. <<NewPageId>> \in Seq(Pages) /\ Len(<<NewPageId>>) = 1
    BY <2>1
  <2>4. HeaderKnown'
    BY <1>1, <1>2, <2>2, <2>3 DEF HeaderKnown, CreateHeader, Writing
  <2>5. PagesOK(page')
    BY <1>1, <1>2, FreshPages, Update DEF CreateHeader
  <2>6. QED
    BY <2>2, <2>4, <2>5 DEF PagesSound
<1>3. CASE CreateRoot
  <2> DEFINE f == [page EXCEPT ![NewPageId] = NewLeaf]
             header == IndexHeader(NewPageId, 1, loc.fanout)
  <2>1. /\ page' = [f EXCEPT ![loc.pages[1]] = header]
        /\ header_page_id' = loc.pages[1] /\ Answer(loc, "OK", NoRid)
    BY <1>3 DEF CreateRoot
  <2>2. PageOK(header)
    BY FreshPages
  <2>3. PagesOK(f)
    BY <1>1, FreshPages, Update
  <2> HIDE DEF f, header
  <2>4. PagesOK(page')
    BY <2>1, <2>2, <2>3, Update
  <2>5. loc.pages[1] \in Pages
    <3>1. loc.pages \in Seq(Pages) /\ Len(loc.pages) = 1
      BY <1>1, <1>3 DEF CreateRoot, HeaderKnown
    <3>2. QED
      BY <3>1
  <2>6. header_page_id' \in Pages /\ header_page_id' # INVALID_PAGE
    BY <2>1, <2>5, PagesAssumption
  <2>7. QED
    BY <2>1, <2>4, <2>6, AnswerSound
<1>4. CASE CreateRootFails
  <2> DEFINE l == [loc EXCEPT !.pages = <<>>, !.to_free = loc.pages, !.status = "Error"]
  <2>1. LocalsOK(l) /\ l.op = "create" /\ l.status = "Error"
    BY <1>1, <1>4 DEF CreateRootFails, HeaderKnown, LocalsOK, NoCall
  <2>2. Freeing(l) /\ page' = page /\ header_page_id' = header_page_id
    BY <1>4 DEF CreateRootFails
  <2> HIDE DEF l
  <2>3. QED
    BY <1>1, <2>1, <2>2, FreeingSound
<1>5. QED
  BY <1>2, <1>3, <1>4

\* Giving a page back to the pool keeps PagesSound.
LEMMA FreePageSound ==
    ASSUME PagesSound, FreePage
    PROVE  PagesSound'
<1> DEFINE p == Head(loc.to_free)
           l == [loc EXCEPT !.to_free = Tail(loc.to_free)]
<1>1. /\ LocalsOK(loc) /\ PagesOK(page) /\ header_page_id' = header_page_id
      /\ header_page_id \in Pages \cup {INVALID_PAGE}
      /\ header_page_id = INVALID_PAGE => loc.op = "create"
      /\ loc.op = "create" => loc.status = "Error"
  BY DEF PagesSound, HeaderKnown, FreePage
<1>2. LocalsOK(l) /\ l.op = loc.op /\ l.status = loc.status
  BY <1>1 DEF LocalsOK, NoCall
<1>3. Freeing(l) /\ (page' = page \/ page' = [page EXCEPT ![p] = Free])
  BY DEF FreePage
<1> HIDE DEF l, p
<1>4. PagesOK(page')
  BY SMTT(30), <1>1, <1>3, FreshPages, Update
<1>5. QED
  BY <1>1, <1>2, <1>3, <1>4, FreeingSound

\* Lookups, cursors and the steps that change no page keep PagesSound.
LEMMA ReadersSound ==
    ASSUME PagesSound,
           \/ CreateFails \/ Open \/ OpenFails \/ Close
           \/ GetFails \/ ScanFails \/ InsertFails \/ DeleteFails
           \/ \E k \in Keys : Get(k)
           \/ \E interval \in Intervals : Scan(interval[1], interval[2])
           \/ NextFetch \/ NextFails \/ NextLeaf \/ NextEntry \/ NextPast \/ NextEnd \/ DropIterator
    PROVE  PagesSound'
<1>1. page' = page /\ header_page_id' = header_page_id
  BY DEF CreateFails, Open, OpenFails, Close, GetFails, ScanFails, InsertFails, DeleteFails, Get,
     Scan, NextFetch, NextFails, NextLeaf, NextEntry, NextPast, NextEnd, DropIterator, Ends, Refuse
<1>2. PagesOK(page') /\ header_page_id' \in Pages \cup {INVALID_PAGE}
  BY <1>1 DEF PagesSound, HeaderKnown
<1>3. CASE CreateFails
  <2>1. Answer(Reads("create", INT64_MIN), "Error", NoRid) /\ Reads("create", INT64_MIN).op = "create"
    BY <1>3 DEF CreateFails, Refuse, Reads, NoCall
  <2>2. QED
    BY <1>2, <2>1, AnswerSound
<1>4. CASE \/ Open \/ OpenFails \/ GetFails \/ ScanFails \/ InsertFails \/ DeleteFails
           \/ \E k \in Keys : Get(k)
           \/ \E interval \in Intervals : Scan(interval[1], interval[2])
           \/ NextFails \/ NextEntry \/ NextPast \/ NextEnd
  <2>1. header_page_id' # INVALID_PAGE
    <3>1. pc = "idle" \/ pc \in {"cursor", "next"} \/ header_page_id # INVALID_PAGE
      BY <1>4 DEF Open, OpenFails, GetFails, ScanFails, InsertFails, DeleteFails, Get, Scan,
         NextFails, NextEntry, NextPast, NextEnd, AtLeaf, InNext
    <3>2. QED
      BY <1>1, <3>1 DEF PagesSound, HeaderKnown
  <2>2. \E l, status, rid : Answer(l, status, rid)
    BY <1>4 DEF Open, OpenFails, GetFails, ScanFails, InsertFails, DeleteFails, Get, Scan,
       NextFails, NextEntry, NextPast, NextEnd, Ends, Refuse
  <2>3. QED
    BY <1>2, <2>1, <2>2, AnswerSound
<1>5. CASE Close \/ DropIterator \/ NextFetch \/ NextLeaf
  <2>1. /\ pc = "idle" \/ pc \in {"cursor", "next"}
        /\ pc' = "closed" \/ pc' = "idle" \/ pc' = "next"
        /\ loc' = NoCall \/ loc' = NextLocals
    BY <1>5 DEF Close, DropIterator, NextFetch, NextLeaf, AtLeaf, InNext, Goto
  <2>2. LocalsOK(NoCall) /\ LocalsOK(NextLocals)
    BY DEF LocalsOK, NextLocals, Reads, NoCall
  <2>3. HeaderKnown'
    BY <1>1, <2>1 DEF PagesSound, HeaderKnown, Writing
  <2>4. QED
    BY <1>2, <2>1, <2>2, <2>3 DEF PagesSound
<1>6. QED
  BY <1>3, <1>4, <1>5

\* PagesSound holds of a pool without an index.
LEMMA PagesSoundInit == Init => PagesSound
<1> SUFFICES ASSUME Init PROVE PagesSound
  OBVIOUS
<1>1. LocalsOK(loc)
  BY DEF Init, NoCall, LocalsOK
<1>2. PagesOK(page) /\ HeaderKnown
  BY FreshPages DEF Init, PagesOK, HeaderKnown, Writing
<1>3. QED
  BY <1>1, <1>2 DEF PagesSound

\* Every step keeps PagesSound.
LEMMA PagesSoundNext == PagesSound /\ [Next]_vars => PagesSound'
<1> SUFFICES ASSUME PagesSound, [Next]_vars PROVE PagesSound'
  OBVIOUS
<1>1. CASE UNCHANGED vars
  BY <1>1 DEF vars, PagesSound, HeaderKnown
<1>2. ASSUME NEW k \in Keys, Delete(k) \/ \E rid \in Rids[k] : Insert(k, rid) PROVE PagesSound'
  BY <1>2, InsertSound, DeleteSound
<1>3. QED
  BY <1>1, <1>2, ReadersSound, CreateSound, AllocateSound, SplitSound, PlanStepSound, ApplySound,
     FreePageSound DEF Next

(***************************************************************************)
(* The lists of pages a call holds, and the frames they pin.                *)
(***************************************************************************)

\* A sequence, of anything.
IsList(s) == s \in Seq(Range(s))

\* The lists of pages the locals of a call hold, against the height it has read.
Peak(l) ==
    /\ DOMAIN l = DOMAIN NoCall
    /\ l.height \in Nat
    /\ IsList(l.path) /\ IsList(l.pages) /\ IsList(l.plan)
    /\ Len(l.path) <= l.height
    /\ l.op = "insert" => l.plan = <<>> /\ Len(l.pages) <= l.height + 1
    /\ l.op = "delete" => l.pages = <<>> /\ (l.plan = <<>> \/ Len(l.plan) < Len(l.path))

\* What each place of a call knows: the path is the whole height, the plan has a step for
\* every level below the one the call has got to, and a page is still needed.
Places ==
    /\ pc \in {"split", "ascend"} => loc.op = "insert"
    /\ pc = "allocate" => /\ loc.op = "insert" /\ Len(loc.path) = loc.height
                          /\ loc.splits \in 1 .. loc.height /\ Len(loc.pages) < PagesNeeded
    /\ pc = "plan" => /\ loc.op = "delete" /\ Len(loc.path) = loc.height
                      /\ loc.level \in 2 .. loc.height /\ Len(loc.plan) = loc.height - loc.level
    /\ pc \in {"apply", "collapse"} => loc.op = "delete"

Budget == Peak(loc) /\ Places

\* What the count of splits is relied on for: the leaf is one, and there is no more to a
\* path than its nodes.
SplitsCounted == \A path : Len(path) \in Nat /\ Len(path) >= 1 => CountSplits(path) \in 1 .. Len(path)

\* Lists.
LEMMA ListOfSeq == ASSUME NEW S, NEW s \in Seq(S) PROVE IsList(s)
<1>1. Len(s) \in Nat /\ s \in [1 .. Len(s) -> S]
  OBVIOUS
<1>2. s \in [1 .. Len(s) -> Range(s)]
  BY <1>1 DEF Range
<1>3. QED
  BY <1>1, <1>2 DEF IsList

\* A list has a length, and an element appended makes it one longer.
LEMMA ListFacts ==
    ASSUME NEW s, IsList(s)
    PROVE  /\ Len(s) \in Nat /\ (s # <<>> => Len(s) >= 1)
           /\ \A x : IsList(Append(s, x)) /\ Len(Append(s, x)) = Len(s) + 1
<1>1. s \in Seq(Range(s))
  BY DEF IsList
<1>2. Len(s) \in Nat /\ (s # <<>> => Len(s) >= 1)
  BY <1>1
<1>3. ASSUME NEW x PROVE IsList(Append(s, x)) /\ Len(Append(s, x)) = Len(s) + 1
  <2>1. s \in Seq(Range(s) \cup {x})
    BY <1>1
  <2>2. Append(s, x) \in Seq(Range(s) \cup {x}) /\ Len(Append(s, x)) = Len(s) + 1
    BY <2>1
  <2>3. QED
    BY <2>2, ListOfSeq
<1>4. QED
  BY <1>2, <1>3

\* The empty list is a list, of length zero.
LEMMA EmptyList == IsList(<<>>) /\ Len(<<>>) = 0
<1>1. <<>> \in Seq({}) /\ Len(<<>>) = 0
  OBVIOUS
<1>2. QED
  BY <1>1, ListOfSeq

\* Two lists appended are a list, as long as both together.
LEMMA ConcatList ==
    ASSUME NEW s, NEW t, IsList(s), IsList(t)
    PROVE  IsList(s \o t) /\ Len(s \o t) = Len(s) + Len(t)
<1> DEFINE S == Range(s) \cup Range(t)
<1>1. s \in Seq(S) /\ t \in Seq(S)
  BY DEF IsList
<1>2. s \o t \in Seq(S) /\ Len(s \o t) = Len(s) + Len(t)
  BY <1>1
<1>3. QED
  BY <1>2, ListOfSeq

\* A function over an initial interval is a list of that length.
LEMMA ListOfInterval ==
    ASSUME NEW n \in Nat, NEW S, NEW f \in [1 .. n -> S]
    PROVE  IsList(f) /\ Len(f) = n
<1>1. f \in Seq(S)
  OBVIOUS
<1>2. Len(f) \in Nat /\ DOMAIN f = 1 .. Len(f)
  BY <1>1
<1>3. DOMAIN f = 1 .. n
  OBVIOUS
<1>4. Len(f) = n
  BY <1>2, <1>3
<1>5. QED
  BY <1>1, <1>4, ListOfSeq

\* The arithmetic of the budget.
LEMMA Sums ==
    ASSUME NEW first \in 0 .. 1, NEW path \in Nat, NEW pages \in Nat, NEW plan \in Nat, NEW height \in Nat,
           path <= height
    PROVE  /\ plan = 0 /\ pages <= height + 1 => first + path + pages + plan <= 2 * height + 2
           /\ pages = 0 /\ plan < path => first + path + pages + plan <= 2 * height
           /\ pages = 0 /\ plan = 0 /\ path >= 1 => first + path + pages + plan <= 2 * height
           /\ pages = 0 /\ plan = 0 /\ first = 0 => first + path + pages + plan <= 2 * height
OBVIOUS

\* What the locals allow is within the budget.
LEMMA PeakIsBudget == Peak(loc) => FrameBudget
<1> SUFFICES ASSUME Peak(loc) PROVE FrameBudget
  OBVIOUS
<1> DEFINE first == IF loc.path = <<>> THEN <<>> ELSE <<header_page_id>>
           last == [k \in DOMAIN loc.plan |-> loc.plan[k].sibling]
<1>1. IsList(loc.path) /\ IsList(loc.pages) /\ IsList(loc.plan) /\ loc.height \in Nat
  BY DEF Peak
<1>2. Len(loc.path) \in Nat /\ Len(loc.pages) \in Nat /\ Len(loc.plan) \in Nat
  BY <1>1, ListFacts
<1>3. IsList(first) /\ Len(first) \in 0 .. 1 /\ (loc.path = <<>> => Len(first) = 0)
  <2>1. <<header_page_id>> \in Seq({header_page_id}) /\ Len(<<header_page_id>>) = 1
    OBVIOUS
  <2>2. IsList(<<header_page_id>>)
    BY <2>1, ListOfSeq
  <2>3. QED
    BY <2>1, <2>2, EmptyList
<1>4. IsList(last) /\ Len(last) = Len(loc.plan)
  <2>1. DOMAIN loc.plan = 1 .. Len(loc.plan)
    BY <1>1 DEF IsList
  <2>2. last \in [1 .. Len(loc.plan) -> Range(last)]
    BY <2>1 DEF Range
  <2> HIDE DEF last
  <2>3. QED
    BY <1>2, <2>2, ListOfInterval
<1>5. Held = first \o loc.path \o loc.pages \o last
  BY DEF Held
<1> HIDE DEF first, last
<1>6. Len(Held) = Len(first) + Len(loc.path) + Len(loc.pages) + Len(loc.plan)
  <2>1. IsList(first \o loc.path) /\ Len(first \o loc.path) = Len(first) + Len(loc.path)
    BY <1>1, <1>3, ConcatList
  <2>2. /\ IsList(first \o loc.path \o loc.pages)
        /\ Len(first \o loc.path \o loc.pages) = Len(first) + Len(loc.path) + Len(loc.pages)
    BY <1>1, <2>1, ConcatList
  <2>3. QED
    BY <1>4, <1>5, <2>2, ConcatList
<1>7. Len(<<>>) = 0
  BY EmptyList
<1>8. ASSUME loc.op = "insert" PROVE Len(Held) <= 2 * loc.height + 2
  <2>1. loc.plan = <<>> /\ Len(loc.pages) <= loc.height + 1 /\ Len(loc.path) <= loc.height
    BY <1>8 DEF Peak
  <2>2. Len(loc.plan) = 0
    BY <1>7, <2>1
  <2>3. Len(first) + Len(loc.path) + Len(loc.pages) + Len(loc.plan) <= 2 * loc.height + 2
    BY <1>1, <1>2, <1>3, <2>1, <2>2, Sums
  <2>4. QED
    BY <1>6, <2>3
<1>9. ASSUME loc.op = "delete" PROVE Len(Held) <= 2 * loc.height
  <2>1. loc.pages = <<>> /\ (loc.plan = <<>> \/ Len(loc.plan) < Len(loc.path)) /\ Len(loc.path) <= loc.height
    BY <1>9 DEF Peak
  <2>2. loc.path # <<>> => Len(loc.path) >= 1
    BY <1>1, ListFacts
  <2>3. Len(loc.pages) = 0 /\ (loc.plan = <<>> => Len(loc.plan) = 0) /\ (loc.path = <<>> => Len(loc.path) = 0)
    BY <1>7, <2>1
  <2>4. \/ Len(loc.plan) < Len(loc.path)
        \/ Len(loc.plan) = 0 /\ (Len(loc.path) >= 1 \/ Len(first) = 0)
    BY <1>3, <2>1, <2>2, <2>3
  <2>5. Len(first) + Len(loc.path) + Len(loc.pages) + Len(loc.plan) <= 2 * loc.height
    BY <1>1, <1>2, <1>3, <2>1, <2>3, <2>4, Sums
  <2>6. QED
    BY <1>6, <2>5
<1>10. QED
  BY <1>8, <1>9 DEF FrameBudget

\* A call that answers holds nothing.
LEMMA AnswerSafe ==
    ASSUME NEW l, NEW status, NEW rid, Answer(l, status, rid)
    PROVE  Budget'
<1>1. pc' \in {"closed", "cursor", "idle"}
  BY DEF Answer, Goto, Rest
<1>2. /\ DOMAIN loc' = DOMAIN NoCall /\ loc'.height = 0
      /\ loc'.path = <<>> /\ loc'.pages = <<>> /\ loc'.plan = <<>>
  BY DEF Answer, Goto, NoCall
<1>3. Peak(loc)' /\ Places'
  BY <1>1, <1>2, EmptyList DEF Peak, Places
<1>4. QED
  BY <1>3 DEF Budget

\* A call that frees pages holds no more than its locals allow.
LEMMA FreeingSafe ==
    ASSUME NEW l, Freeing(l), Peak(l)
    PROVE  Budget'
<1>1. CASE Answer(l, l.status, NoRid)
  BY <1>1, AnswerSafe
<1>2. CASE Goto("free", l)
  BY <1>2 DEF Goto, Peak, Places, Budget
<1>3. QED
  BY <1>1, <1>2 DEF Freeing

\* FindLeafWrite: the path has one page to a level.
LEMMA PathIsHeight ==
    ASSUME PagesSound, pc = "idle", NEW k, PathIsValid(Nodes(k))
    PROVE  /\ page[header_page_id].height \in Nat
           /\ IsList(Nodes(k)) /\ Len(Nodes(k)) = page[header_page_id].height
           /\ Len(Nodes(k)) >= 1
<1> DEFINE h == page[header_page_id].height
<1>1. h \in Int
  BY MutationHeader DEF PagesOK, PageOK, PathIsValid
<1>2. Nodes(k) \in [1 .. h -> Range(Nodes(k))]
  BY DEF Nodes, Range
<1>3. Nodes(k) # <<>>
  BY DEF PathIsValid
<1> HIDE DEF h
<1>4. h \in Nat
  <2>1. SUFFICES ASSUME h \notin Nat PROVE FALSE
    OBVIOUS
  <2>2. 1 .. h = 1 .. 0
    BY <1>1, <2>1
  <2>3. IsList(Nodes(k)) /\ Len(Nodes(k)) = 0
    BY <1>2, <2>2, ListOfInterval
  <2>4. QED
    BY <1>3, <2>3, ListFacts
<1>5. IsList(Nodes(k)) /\ Len(Nodes(k)) = h
  BY <1>2, <1>4, ListOfInterval
<1>6. QED
  BY <1>3, <1>4, <1>5, ListFacts DEF h

\* The locals with the WritePath of a tree.
LEMMA WithPathSafe ==
    ASSUME PagesSound, pc = "idle", NEW op \in {"insert", "delete"}, NEW k, PathIsValid(Nodes(k))
    PROVE  LET l == WithPath(Begun(op, k), Nodes(k))
           IN  /\ Peak(l) /\ l.op = op /\ l.plan = <<>> /\ l.pages = <<>>
               /\ l.path = Nodes(k) /\ Len(l.path) = l.height /\ l.height >= 1
<1> DEFINE l == WithPath(Begun(op, k), Nodes(k))
           h == page[header_page_id].height
<1>1. h \in Nat /\ IsList(Nodes(k)) /\ Len(Nodes(k)) = h /\ h >= 1
  BY PathIsHeight
<1>2. /\ DOMAIN l = DOMAIN NoCall /\ l.op = op /\ l.plan = <<>> /\ l.pages = <<>>
      /\ l.path = Nodes(k) /\ l.height = h
  BY DEF WithPath, Begun, Reads, NoCall
<1> HIDE DEF l, h
<1>3. Peak(l)
  BY <1>1, <1>2, EmptyList DEF Peak
<1>4. QED
  BY <1>1, <1>2, <1>3 DEF l

\* Insert: with its pages still to be taken, at least one of them.
LEMMA InsertSafe ==
    ASSUME PagesSound, SplitsCounted, NEW k, NEW rid, Insert(k, rid)
    PROVE  Budget'
<1> DEFINE nodes == Nodes(k)
           l == WithPath(Begun("insert", k), nodes)
           m == [l EXCEPT !.rid = rid, !.splits = CountSplits(nodes)]
<1>1. pc = "idle" /\ PathIsValid(nodes)
  BY DEF Insert
<1>2. CASE Goto("allocate", m)
  <2>1. /\ Peak(l) /\ l.op = "insert" /\ l.plan = <<>> /\ l.pages = <<>>
        /\ l.path = nodes /\ Len(l.path) = l.height /\ l.height >= 1
    BY <1>1, WithPathSafe
  <2>2. CountSplits(nodes) \in 1 .. Len(nodes)
    BY <1>1, PathIsHeight DEF SplitsCounted
  <2> HIDE DEF l, nodes
  <2>3. /\ DOMAIN m = DOMAIN NoCall /\ m.splits = CountSplits(nodes) /\ m.op = l.op /\ m.plan = l.plan
        /\ m.pages = l.pages /\ m.path = l.path /\ m.height = l.height
    BY <2>1 DEF Peak, NoCall
  <2>4. pc' = "allocate" /\ loc' = m
    BY <1>2 DEF Goto
  <2> HIDE DEF m
  <2>5. Peak(loc)'
    BY <2>1, <2>3, <2>4 DEF Peak
  <2>6. loc'.splits \in Nat /\ loc'.splits >= 1
    BY <2>1, <2>2, <2>3, <2>4 DEF Peak
  <2>7. PagesNeeded' \in Nat /\ PagesNeeded' >= 1
    BY <2>6 DEF PagesNeeded
  <2>8. Len(loc'.pages) < PagesNeeded'
    BY <2>1, <2>3, <2>4, <2>7, EmptyList
  <2>9. Places'
    BY <2>1, <2>2, <2>3, <2>4, <2>8 DEF Places
  <2>10. QED
    BY <2>5, <2>9 DEF Budget
<1>3. CASE \E b, status : Answer(b, status, NoRid)
  BY <1>3, AnswerSafe
<1>4. QED
  BY <1>2, <1>3 DEF Insert

\* The end of a mutation that has been applied: the path and the plan are gone.
LEMMA AppliedSafe ==
    ASSUME NEW l, Peak(l), l.op = "delete", Applied(l)
    PROVE  Budget'
<1> DEFINE m == [l EXCEPT !.path = <<>>, !.plan = <<>>, !.status = "OK"]
<1>1. /\ DOMAIN m = DOMAIN NoCall /\ m.op = "delete" /\ m.height = l.height
      /\ m.path = <<>> /\ m.plan = <<>> /\ m.pages = l.pages
  BY DEF NoCall, Peak
<1>2. Freeing(m)
  BY DEF Applied
<1> HIDE DEF m
<1>3. Peak(m)
  BY <1>1, EmptyList DEF Peak
<1>4. QED
  BY <1>2, <1>3, FreeingSafe

\* The entry is removed, from a plan that is complete.
LEMMA RemoveEntrySafe ==
    ASSUME NEW l, Peak(l), l.op = "delete", RemoveEntry(l)
    PROVE  Budget'
<1>1. CASE Applied(l)
  BY <1>1, AppliedSafe
<1>2. CASE Goto("apply", [l EXCEPT !.level = Len(l.path)])
  <2> DEFINE m == [l EXCEPT !.level = Len(l.path)]
  <2>1. /\ DOMAIN m = DOMAIN NoCall /\ m.op = "delete" /\ m.height = l.height
        /\ m.path = l.path /\ m.plan = l.plan /\ m.pages = l.pages
    BY DEF NoCall, Peak
  <2>2. pc' = "apply" /\ loc' = m
    BY <1>2 DEF Goto
  <2> HIDE DEF m
  <2>3. Peak(loc)' /\ Places'
    BY <2>1, <2>2 DEF Peak, Places
  <2>4. QED
    BY <2>3 DEF Budget
<1>3. QED
  BY <1>1, <1>2 DEF RemoveEntry

\* A turn of PlanDelete's loop: the plan has a step for every level below.
LEMMA PlanSafe ==
    ASSUME NEW l, Peak(l), l.op = "delete", Len(l.path) = l.height,
           l.level \in 1 .. l.height, Len(l.plan) = l.height - l.level, Plan(l)
    PROVE  Budget'
<1>1. CASE l.level > 1 /\ Goto("plan", l)
  <2>1. l.level \in 2 .. l.height /\ pc' = "plan" /\ loc' = l
    BY <1>1 DEF Peak, Goto
  <2>2. Peak(loc)' /\ Places'
    BY <2>1 DEF Places, Peak
  <2>3. QED
    BY <2>2 DEF Budget
<1>2. CASE RemoveEntry(l)
  BY <1>2, RemoveEntrySafe
<1>3. ASSUME NEW flag, RemoveEntry([l EXCEPT !.collapse_root = flag]) PROVE Budget'
  <2> DEFINE m == [l EXCEPT !.collapse_root = flag]
  <2>1. /\ DOMAIN m = DOMAIN NoCall /\ m.op = "delete" /\ m.height = l.height
        /\ m.path = l.path /\ m.plan = l.plan /\ m.pages = l.pages /\ RemoveEntry(m)
    BY <1>3 DEF NoCall, Peak
  <2> HIDE DEF m
  <2>2. Peak(m)
    BY <2>1 DEF Peak
  <2>3. QED
    BY <2>1, <2>2, RemoveEntrySafe
<1>4. QED
  BY <1>1, <1>2, <1>3 DEF Plan

\* A delete that starts keeps within the frames its height allows.
LEMMA DeleteSafe ==
    ASSUME PagesSound, NEW k, Delete(k)
    PROVE  Budget'
<1> DEFINE nodes == Nodes(k)
           l == WithPath(Begun("delete", k), nodes)
           m == [l EXCEPT !.level = Len(nodes)]
<1>1. pc = "idle" /\ PathIsValid(nodes)
  BY DEF Delete
<1>2. CASE Plan(m)
  <2>1. /\ Peak(l) /\ l.op = "delete" /\ l.plan = <<>> /\ l.pages = <<>>
        /\ l.path = nodes /\ Len(l.path) = l.height /\ l.height >= 1
    BY <1>1, WithPathSafe
  <2> HIDE DEF l, nodes
  <2>2. /\ DOMAIN m = DOMAIN NoCall /\ m.op = "delete" /\ m.plan = <<>> /\ m.pages = <<>>
        /\ m.path = l.path /\ m.height = l.height /\ m.level = l.height
    BY <2>1 DEF Peak, NoCall
  <2> HIDE DEF m
  <2>3. Peak(m)
    BY <2>1, <2>2 DEF Peak
  <2>4. m.height \in Nat /\ m.level \in 1 .. m.height /\ Len(m.plan) = m.height - m.level
    BY <2>1, <2>2, <2>3, EmptyList DEF Peak
  <2>5. QED
    BY <1>2, <2>1, <2>2, <2>3, <2>4, PlanSafe
<1>3. CASE \E b, status : Answer(b, status, NoRid)
  BY <1>3, AnswerSafe
<1>4. QED
  BY <1>2, <1>3 DEF Delete

\* AllocatePages: one page more, up to the number needed, or none.
LEMMA AllocateSafe ==
    ASSUME Budget, AllocatePage \/ AllocateFails
    PROVE  Budget'
<1>1. /\ loc.op = "insert" /\ Len(loc.path) = loc.height
      /\ loc.splits \in 1 .. loc.height /\ Len(loc.pages) < PagesNeeded /\ Peak(loc)
  BY DEF Budget, Places, AllocatePage, AllocateFails
<1>2. CASE AllocatePage
  <2> DEFINE pages == Append(loc.pages, NewPageId)
  <2>1. IsList(pages) /\ Len(pages) = Len(loc.pages) + 1 /\ Len(loc.pages) \in Nat
    BY <1>1, ListFacts DEF Peak
  <2>2. /\ loc' = [loc EXCEPT !.pages = pages]
        /\ pc' = IF Len(pages) = PagesNeeded THEN "split" ELSE "allocate"
    BY <1>2 DEF AllocatePage, Goto
  <2> HIDE DEF pages
  <2>3. /\ DOMAIN loc' = DOMAIN NoCall /\ loc'.op = "insert" /\ loc'.path = loc.path
        /\ loc'.plan = loc.plan /\ loc'.pages = pages /\ loc'.height = loc.height
        /\ loc'.splits = loc.splits
    BY <1>1, <2>2 DEF Peak, NoCall
  <2>4. /\ PagesNeeded' = PagesNeeded /\ PagesNeeded \in Nat /\ PagesNeeded <= loc.height + 1
        /\ loc.height \in Nat
    <3>1. loc.height \in Nat /\ loc.splits \in 1 .. loc.height /\ Len(loc.path) = loc.height
      BY <1>1 DEF Peak
    <3>2. PagesNeeded' = PagesNeeded
      BY <2>3 DEF PagesNeeded, new_root
    <3>3. QED
      BY <3>1, <3>2 DEF PagesNeeded, new_root
  <2>5. /\ Len(pages) <= loc.height + 1 /\ pc' \in {"split", "allocate"}
        /\ pc' = "allocate" => Len(pages) < PagesNeeded
    BY <1>1, <2>1, <2>2, <2>4
  <2>6. Peak(loc)'
    BY <1>1, <2>1, <2>3, <2>5 DEF Peak
  <2>7. Places'
    BY <1>1, <2>3, <2>4, <2>5 DEF Places
  <2>8. QED
    BY <2>6, <2>7 DEF Budget
<1>3. CASE AllocateFails
  <2> DEFINE l == [loc EXCEPT !.pages = <<>>, !.to_free = loc.pages, !.status = "Error"]
  <2>1. /\ DOMAIN l = DOMAIN NoCall /\ l.op = "insert" /\ l.path = loc.path /\ l.plan = loc.plan
        /\ l.pages = <<>> /\ l.height = loc.height /\ Freeing(l)
    BY <1>1, <1>3 DEF Peak, NoCall, AllocateFails
  <2> HIDE DEF l
  <2>2. Peak(l)
    <3>1. loc.height \in Nat /\ 0 <= loc.height + 1
      BY <1>1 DEF Peak
    <3>2. QED
      BY <1>1, <2>1, <3>1, EmptyList DEF Peak
  <2>3. QED
    BY <2>1, <2>2, FreeingSafe
<1>4. QED
  BY <1>2, <1>3

\* The writing half of a mutation takes no page more.
LEMMA WritesSafe ==
    ASSUME Budget, \/ SplitLeafStep \/ InsertIntoParent \/ SplitParent \/ GrowRoot
                   \/ Redistribute \/ Merge \/ CollapseRoot
    PROVE  Budget'
<1>1. Peak(loc)
  BY DEF Budget
<1>2. ASSUME NEW l, DOMAIN l = DOMAIN NoCall, l.op = loc.op, l.path = loc.path, l.pages = loc.pages,
             l.plan = loc.plan, l.height = loc.height
      PROVE  /\ Peak(l)
             /\ loc.op = "insert" /\ Goto("ascend", l) => Budget'
             /\ loc.op = "delete" /\ (Goto("apply", l) \/ Goto("collapse", l) \/ Applied(l)) => Budget'
  <2>1. Peak(l)
    BY <1>1, <1>2 DEF Peak
  <2>2. ASSUME NEW label, Goto(label, l),
               \/ label = "ascend" /\ loc.op = "insert"
               \/ label \in {"apply", "collapse"} /\ loc.op = "delete"
        PROVE  Budget'
    BY <1>2, <2>1, <2>2 DEF Goto, Budget, Peak, Places
  <2>3. QED
    BY <1>2, <2>1, <2>2, AppliedSafe
<1>3. CASE SplitLeafStep
  <2>1. PICK sep, right_id, level :
          Goto("ascend", [loc EXCEPT !.sep = sep, !.right_id = right_id, !.next_page = 1, !.level = level])
    BY <1>3 DEF SplitLeafStep
  <2> DEFINE l == [loc EXCEPT !.sep = sep, !.right_id = right_id, !.next_page = 1, !.level = level]
  <2>2. /\ DOMAIN l = DOMAIN NoCall /\ l.op = loc.op /\ l.path = loc.path /\ l.pages = loc.pages
        /\ l.plan = loc.plan /\ l.height = loc.height /\ Goto("ascend", l)
    BY <1>1, <2>1 DEF Peak, NoCall
  <2> HIDE DEF l
  <2>3. loc.op = "insert"
    BY <1>3 DEF SplitLeafStep, Budget, Places
  <2>4. QED
    BY <1>2, <2>2, <2>3
<1>4. CASE SplitParent
  <2>1. PICK sep, right_id, next_page, level :
          Goto("ascend", [loc EXCEPT !.sep = sep, !.right_id = right_id, !.next_page = next_page, !.level = level])
    BY <1>4 DEF SplitParent
  <2> DEFINE l == [loc EXCEPT !.sep = sep, !.right_id = right_id, !.next_page = next_page, !.level = level]
  <2>2. /\ DOMAIN l = DOMAIN NoCall /\ l.op = loc.op /\ l.path = loc.path /\ l.pages = loc.pages
        /\ l.plan = loc.plan /\ l.height = loc.height /\ Goto("ascend", l)
    BY <1>1, <2>1 DEF Peak, NoCall
  <2> HIDE DEF l
  <2>3. loc.op = "insert"
    BY <1>4 DEF SplitParent, Budget, Places
  <2>4. QED
    BY <1>2, <2>2, <2>3
<1>5. CASE InsertIntoParent \/ GrowRoot
  BY <1>5, AnswerSafe DEF InsertIntoParent, GrowRoot
<1>6. CASE Redistribute
  <2>1. loc.op = "delete" /\ Applied(loc)
    BY <1>6 DEF Redistribute, Budget, Places
  <2>2. QED
    BY <1>1, <2>1, AppliedSafe
<1>7. CASE Merge
  <2> DEFINE l == [loc EXCEPT !.to_free = Append(loc.to_free, RightId), !.level = loc.level - 1]
  <2>1. Goto("apply", l) \/ Goto("collapse", l) \/ Applied(l)
    BY <1>7 DEF Merge
  <2>2. /\ DOMAIN l = DOMAIN NoCall /\ l.op = loc.op /\ l.path = loc.path /\ l.pages = loc.pages
        /\ l.plan = loc.plan /\ l.height = loc.height
    BY <1>1 DEF Peak, NoCall
  <2> HIDE DEF l
  <2>3. loc.op = "delete"
    BY <1>7 DEF Merge, Budget, Places
  <2>4. QED
    BY <1>2, <2>1, <2>2, <2>3
<1>8. CASE CollapseRoot
  <2> DEFINE l == [loc EXCEPT !.to_free = Append(loc.to_free, loc.path[1])]
  <2>1. loc.op = "delete" /\ Applied(l)
    BY <1>8 DEF CollapseRoot, Budget, Places
  <2>2. /\ DOMAIN l = DOMAIN NoCall /\ l.op = loc.op /\ l.path = loc.path /\ l.pages = loc.pages
        /\ l.plan = loc.plan /\ l.height = loc.height
    BY <1>1 DEF Peak, NoCall
  <2> HIDE DEF l
  <2>3. QED
    BY <1>2, <2>1, <2>2
<1>9. QED
  BY <1>3, <1>4, <1>5, <1>6, <1>7, <1>8

\* PlanDelete: a sibling to a level, and none for the root.
LEMMA PlanStepSafe ==
    ASSUME Budget, PlanSibling \/ PlanFails
    PROVE  Budget'
<1>1. /\ loc.op = "delete" /\ Len(loc.path) = loc.height /\ loc.level \in 2 .. loc.height
      /\ Len(loc.plan) = loc.height - loc.level /\ loc.height \in Nat /\ Peak(loc)
  BY DEF Budget, Places, PlanSibling, PlanFails, Peak
<1>2. ASSUME NEW step
      PROVE  /\ IsList(Append(loc.plan, step)) /\ Len(Append(loc.plan, step)) = loc.height - (loc.level - 1)
             /\ Len(Append(loc.plan, step)) < loc.height
  <2>1. IsList(Append(loc.plan, step)) /\ Len(Append(loc.plan, step)) = Len(loc.plan) + 1
    BY <1>1, ListFacts DEF Peak
  <2>2. QED
    BY <1>1, <2>1
<1>3. ASSUME NEW step, RemoveEntry([loc EXCEPT !.plan = Append(loc.plan, step)]) PROVE Budget'
  <2> DEFINE l == [loc EXCEPT !.plan = Append(loc.plan, step)]
  <2>1. /\ DOMAIN l = DOMAIN NoCall /\ l.op = "delete" /\ l.path = loc.path /\ l.pages = loc.pages
        /\ l.plan = Append(loc.plan, step) /\ l.height = loc.height /\ RemoveEntry(l)
    BY <1>1, <1>3 DEF Peak, NoCall
  <2> HIDE DEF l
  <2>2. Peak(l)
    BY <1>1, <1>2, <2>1 DEF Peak
  <2>3. QED
    BY <2>1, <2>2, RemoveEntrySafe
<1>4. ASSUME NEW step, Plan([loc EXCEPT !.plan = Append(loc.plan, step), !.level = loc.level - 1])
      PROVE  Budget'
  <2> DEFINE l == [loc EXCEPT !.plan = Append(loc.plan, step), !.level = loc.level - 1]
  <2>1. /\ DOMAIN l = DOMAIN NoCall /\ l.op = "delete" /\ l.path = loc.path /\ l.pages = loc.pages
        /\ l.plan = Append(loc.plan, step) /\ l.height = loc.height /\ l.level = loc.level - 1 /\ Plan(l)
    BY <1>1, <1>4 DEF Peak, NoCall
  <2> HIDE DEF l
  <2>2. Peak(l)
    BY <1>1, <1>2, <2>1 DEF Peak
  <2>3. l.level \in 1 .. l.height /\ Len(l.path) = l.height
    BY <1>1, <2>1
  <2>4. Len(l.plan) = l.height - l.level
    BY <1>2, <2>1
  <2>5. QED
    BY <2>1, <2>2, <2>3, <2>4, PlanSafe
<1>5. CASE PlanSibling
  BY <1>3, <1>4, <1>5 DEF PlanSibling
<1>6. CASE PlanFails
  BY <1>6, AnswerSafe DEF PlanFails, Refuse
<1>7. QED
  BY <1>5, <1>6

\* Create holds one page at most, and FreeAll takes none.
LEMMA CreateSafe ==
    ASSUME PagesSound, Budget,
           (\E fanout \in Fanouts : CreateHeader(fanout)) \/ CreateRoot \/ CreateRootFails \/ FreePage
    PROVE  Budget'
<1>1. Peak(loc)
  BY DEF Budget
<1>2. ASSUME NEW fanout \in Fanouts, CreateHeader(fanout) PROVE Budget'
  <2>1. pc' = "create" /\ loc' = [NoCall EXCEPT !.op = "create", !.fanout = fanout, !.pages = <<NewPageId>>]
    BY <1>2 DEF CreateHeader, Goto
  <2>2. /\ DOMAIN loc' = DOMAIN NoCall /\ loc'.op = "create" /\ loc'.height = 0
        /\ loc'.path = <<>> /\ loc'.plan = <<>> /\ loc'.pages = <<NewPageId>>
    BY <2>1 DEF NoCall
  <2>3. <<NewPageId>> \in Seq({NewPageId})
    OBVIOUS
  <2>4. IsList(<<NewPageId>>)
    BY <2>3, ListOfSeq
  <2>5. Peak(loc)' /\ Places'
    BY <2>1, <2>2, <2>4, EmptyList DEF Peak, Places
  <2>6. QED
    BY <2>5 DEF Budget
<1>3. CASE CreateRoot
  BY <1>3, AnswerSafe DEF CreateRoot
<1>4. CASE CreateRootFails
  <2> DEFINE l == [loc EXCEPT !.pages = <<>>, !.to_free = loc.pages, !.status = "Error"]
  <2>1. loc.op = "create" /\ Freeing(l)
    BY <1>4 DEF CreateRootFails, PagesSound, HeaderKnown
  <2>2. /\ DOMAIN l = DOMAIN NoCall /\ l.op = "create" /\ l.path = loc.path /\ l.plan = loc.plan
        /\ l.pages = <<>> /\ l.height = loc.height
    BY <1>1, <2>1 DEF Peak, NoCall
  <2> HIDE DEF l
  <2>3. Peak(l)
    BY <1>1, <2>2, EmptyList DEF Peak
  <2>4. QED
    BY <2>1, <2>3, FreeingSafe
<1>5. CASE FreePage
  <2> DEFINE l == [loc EXCEPT !.to_free = Tail(loc.to_free)]
  <2>1. Freeing(l)
    BY <1>5 DEF FreePage
  <2>2. /\ DOMAIN l = DOMAIN NoCall /\ l.op = loc.op /\ l.path = loc.path
        /\ l.pages = loc.pages /\ l.plan = loc.plan /\ l.height = loc.height
    BY <1>1 DEF Peak, NoCall
  <2> HIDE DEF l
  <2>3. Peak(l)
    BY <1>1, <2>2 DEF Peak
  <2>4. QED
    BY <2>1, <2>3, FreeingSafe
<1>6. QED
  BY <1>2, <1>3, <1>4, <1>5

\* Calls that read or fail at once, and the steps of an iterator, leave no page pinned by a writer.
LEMMA ReadersSafe ==
    ASSUME \/ CreateFails \/ Open \/ OpenFails \/ Close
           \/ GetFails \/ ScanFails \/ InsertFails \/ DeleteFails
           \/ \E k \in Keys : Get(k)
           \/ \E interval \in Intervals : Scan(interval[1], interval[2])
           \/ NextFetch \/ NextFails \/ NextLeaf \/ NextEntry \/ NextPast \/ NextEnd \/ DropIterator
    PROVE  Budget'
<1>1. CASE Close \/ DropIterator \/ NextFetch \/ NextLeaf
  <2>1. pc' \in {"closed", "idle", "next"} /\ (loc' = NoCall \/ loc' = NextLocals)
    BY <1>1 DEF Close, DropIterator, NextFetch, NextLeaf, Goto
  <2>2. /\ DOMAIN loc' = DOMAIN NoCall /\ loc'.height = 0
        /\ loc'.path = <<>> /\ loc'.plan = <<>> /\ loc'.pages = <<>>
    <3>1. CASE loc' = NoCall
      BY <3>1 DEF NoCall
    <3>2. CASE loc' = NextLocals
      BY <3>2 DEF NextLocals, Reads, NoCall
    <3>3. QED
      BY <2>1, <3>1, <3>2
  <2>3. Peak(loc)' /\ Places'
    BY <2>1, <2>2, EmptyList DEF Peak, Places
  <2>4. QED
    BY <2>3 DEF Budget
<1>2. CASE \E l, status, rid : Answer(l, status, rid)
  BY <1>2, AnswerSafe
<1>3. QED
  BY <1>1, <1>2 DEF CreateFails, Open, OpenFails, GetFails, ScanFails, InsertFails, DeleteFails, Get,
     Scan, NextFails, NextEntry, NextPast, NextEnd, Ends, Refuse

\* Before the first call nothing is pinned.
LEMMA BudgetInit == Init => Budget
<1> SUFFICES ASSUME Init PROVE Budget
  OBVIOUS
<1>1. /\ DOMAIN loc = DOMAIN NoCall /\ loc.height = 0
      /\ loc.path = <<>> /\ loc.plan = <<>> /\ loc.pages = <<>>
  BY DEF Init, NoCall
<1>2. QED
  BY <1>1, EmptyList DEF Init, Peak, Places, Budget

\* Every step keeps Budget, given the shape of the pages and the bound on splits.
LEMMA BudgetNext == PagesSound /\ SplitsCounted /\ Budget /\ [Next]_vars => Budget'
<1> SUFFICES ASSUME PagesSound, SplitsCounted, Budget, [Next]_vars PROVE Budget'
  OBVIOUS
<1>1. CASE UNCHANGED vars
  BY <1>1 DEF vars, Budget, Peak, Places, PagesNeeded, new_root
<1>2. ASSUME NEW k \in Keys, Delete(k) \/ \E rid \in Rids[k] : Insert(k, rid) PROVE Budget'
  BY <1>2, InsertSafe, DeleteSafe
<1>3. QED
  BY <1>1, <1>2, ReadersSafe, CreateSafe, AllocateSafe, WritesSafe, PlanStepSafe DEF Next

\* CountSplits counts the leaf, and no more nodes than the path has.
LEMMA CountOfSplits == SplitsCounted
<1> SUFFICES ASSUME NEW path, Len(path) \in Nat, Len(path) >= 1
             PROVE  CountSplits(path) \in 1 .. Len(path)
  BY DEF SplitsCounted
<1> DEFINE n == Len(path)
           S == {i \in 1 .. n : \A j \in i .. n - 1 : IsInternalFull(page[path[j]])}
<1>1. n \in Nat /\ n >= 1 /\ CountSplits(path) = Cardinality(S)
  BY DEF CountSplits
<1>2. S \subseteq 1 .. n
  OBVIOUS
<1>3. n \in S
  BY SMTT(30), <1>1
<1> HIDE DEF n, S
<1>4. IsFiniteSet(1 .. n) /\ Cardinality(1 .. n) = n
  <2>1. IsFiniteSet(1 .. n) /\ Cardinality(1 .. n) = IF 1 > n THEN 0 ELSE n - 1 + 1
    BY <1>1, FS_Interval
  <2>2. QED
    BY <1>1, <2>1
<1>5. IsFiniteSet(S) /\ Cardinality(S) <= n
  BY <1>2, <1>4, FS_Subset
<1>6. Cardinality(S) \in Nat /\ Cardinality(S) # 0
  BY <1>3, <1>5, FS_CardinalityType, FS_EmptySet
<1>7. Cardinality(S) \in 1 .. n
  BY <1>1, <1>5, <1>6
<1>8. QED
  BY <1>1, <1>7 DEF n

\* For every height H of the tree: an Insert pins at most 2H + 2 frames, and a Delete 2H,
\* whatever splits, merges and failures it meets (AllocatePages, PlanDelete).
THEOREM FramesWithinBudget == Spec => []FrameBudget
<1>1. PagesSound /\ Budget => FrameBudget
  BY PeakIsBudget DEF Budget
<1>2. QED
  BY <1>1, PagesSoundInit, PagesSoundNext, BudgetInit, BudgetNext, CountOfSplits, PTL DEF Spec

================================================================================
