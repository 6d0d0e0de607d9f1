--------------------------- MODULE TableHeapProofs ---------------------------
(***************************************************************************)
(* Proofs about TableHeap, for any threads, pages, tuples and page sizes:   *)
(* the chain of pages stays whole, and when no two threads change one row   *)
(* at a time, the pages hold the callers' rows and a scan misses none.      *)
(*                                                                         *)
(* Three inductive invariants are proved, each on top of the one before:    *)
(* Sound (who extends the chain, and where), Held (which row is at which    *)
(* RID) and Scanned (how far each scan is along the chain).                 *)
(***************************************************************************)
EXTENDS TableHeap, FiniteSetTheorems, TLAPS

\* How long the provers may take.
USE ZenonT(10), SMTT(30)

USE TuplesAssumption, NoneAssumption

\* RIDs, slots of a page, and the types of a page, a call and a scan.
RowIds == PageIds \X (Nat \ {0})
Slots == Seq(Tuples \cup {Dead})

PageStates == [type : {"unborn", "ALLOCATED", "HEAP"}, slots : Slots, dead : Int,
               next : PageIds \cup {None}]
CallStates == [op : {"none", "insert", "update"}, tuple : Tuples \cup {Dead},
               rid : RowIds \cup {None}, page : PageIds \cup {None}, from_hint : BOOLEAN,
               probe : Nat, new : PageIds \cup RowIds \cup {None}, moved : BOOLEAN]
ScanStates == [open : BOOLEAN, page : PageIds \cup {None}, slot : Nat, held : BOOLEAN,
               stable : SUBSET RowIds, seen : SUBSET RowIds, twice : BOOLEAN]

\* The types of the rows the callers hold.
RowsTyped(r) == DOMAIN r \subseteq RowIds /\ r \in [DOMAIN r -> [tuple : Tuples, by : Threads]]

\* The types of the state, byte counts and scans aside.
Typed ==
    /\ heap \in [PageIds -> PageStates]
    /\ first_page_id \in PageIds /\ last_page_id \in PageIds /\ insert_hint \in PageIds
    /\ pc \in [Threads -> Labels]
    /\ loc \in [Threads -> CallStates]
    /\ RowsTyped(rows)

\* Only a heap page has slots.
Fresh == \A p \in PageIds : heap[p].type # "HEAP" => heap[p].slots = <<>>

\* What the locals of a call hold where it stands.
Ready(label, l) ==
    /\ label \in {"idle", "next"} => l.op = "none"
    /\ label \notin {"idle", "next"} => l.tuple \in Tuples
    /\ l.op = "update" => l.rid \in RowIds
    /\ label = "remove" => l.op = "update" /\ l.new \in RowIds
    /\ label \in {"probe", "append", "new_page", "link", "publish"} => l.page \in PageIds
    /\ label \in {"link", "publish"} => l.new \in PageIds

\* The page that a call extends is the last of the chain, and the page it has
\* allocated is not in the chain yet.
CallOK(t) ==
    /\ Ready(pc[t], loc[t])
    /\ pc[t] \in {"new_page", "link"} =>
          heap[loc[t].page].type = "HEAP" /\ heap[loc[t].page].next = None
    /\ pc[t] = "link" => heap[loc[t].new].type = "ALLOCATED"

\* Two threads extend neither the same page nor with the same page.
Apart(t, u) ==
    /\ pc[t] \in {"new_page", "link"} /\ pc[u] \in {"new_page", "link"} =>
          loc[t].page # loc[u].page
    /\ pc[t] = "link" /\ pc[u] = "link" => loc[t].new # loc[u].new

\* The first n elements of s are the chain: the heap pages, each once, in link order.
Chained(s, n) ==
    /\ n \in Nat \ {0}
    /\ s \in [1 .. n -> PageIds]
    /\ s[1] = first_page_id
    /\ \A i \in 1 .. n : \A j \in 1 .. n : s[i] = s[j] => i = j
    /\ \A i \in 1 .. n : heap[s[i]].next = IF i < n THEN s[i + 1] ELSE None
    /\ \A p \in PageIds : heap[p].type = "HEAP" <=> \E i \in 1 .. n : s[i] = p

\* There is such a chain.
Whole == \E n \in Nat \ {0} : \E s \in [1 .. n -> PageIds] : Chained(s, n)

\* The chain is whole, and at most one call extends it at a time, with a page of its own.
Sound ==
    /\ Typed
    /\ Fresh
    /\ \A t \in Threads : CallOK(t)
    /\ \A t \in Threads : \A u \in Threads : t # u => Apart(t, u)
    /\ Whole

(***************************************************************************)
(* What a step does to the pages.                                          *)
(***************************************************************************)

\* The tuple stored under every RID, or Dead.
Store == [rid \in RowIds |->
             IF rid[2] \in DOMAIN heap[rid[1]].slots THEN heap[rid[1]].slots[rid[2]] ELSE Dead]

\* A step stores x under rid and nothing else.
Wrote(rid, x) == Store' = [Store EXCEPT ![rid] = x]

\* A step leaves the chain as it is, and the pages allocated for it.
SameChain ==
    /\ first_page_id' = first_page_id
    /\ \A p \in PageIds : /\ heap'[p].next = heap[p].next
                          /\ heap'[p].type = "HEAP" <=> heap[p].type = "HEAP"
                          /\ heap[p].type = "ALLOCATED" => heap'[p].type = "ALLOCATED"

\* No tuple that callers store is empty.
LEMMA TuplesLive == Dead \notin Tuples
BY DEF ValidTuple, Dead

\* A nonempty set of numbers has a least one.
LEMMA LeastNat ==
    ASSUME NEW T, T \subseteq Nat, T # {}
    PROVE  \E x \in T : \A y \in T : x <= y
<1>1. PICK x \in T : \A y \in T : ~ (<<y, x>> \in OpToRel(<, Nat))
  BY NatLessThanWellFounded, WFMin
<1>2. \A y \in T : <<y, x>> \in OpToRel(<, Nat) <=> y < x
  BY DEF OpToRel
<1>3. ASSUME NEW y \in T
      PROVE  x <= y
  <2>1. ~(y < x)
    BY <1>1, <1>2
  <2>2. x \in Nat /\ y \in Nat
    OBVIOUS
  <2>3. QED
    BY <2>1, <2>2
<1>4. QED
  BY <1>3

\* The slot an insert takes is dead, or the next one after the last.
LEMMA InsertSlotIsFree ==
    ASSUME NEW pg, pg.slots \in Slots
    PROVE  /\ InsertSlot(pg) \in 1 .. Len(pg.slots) + 1
           /\ InsertSlot(pg) \in DOMAIN pg.slots => pg.slots[InsertSlot(pg)] = Dead
<1>1. DOMAIN pg.slots = 1 .. Len(pg.slots) /\ Len(pg.slots) \in Nat
  BY DEF Slots
<1>2. CASE LiveSlots(pg) = DOMAIN pg.slots
  BY <1>1, <1>2 DEF InsertSlot
<1>3. CASE LiveSlots(pg) # DOMAIN pg.slots
  <2> DEFINE dead == {i \in DOMAIN pg.slots : pg.slots[i] = Dead}
             Least(i) == pg.slots[i] = Dead /\ \A j \in 1 .. i - 1 : pg.slots[j] # Dead
  <2>1. dead # {} /\ dead \subseteq Nat
    BY <1>1, <1>3 DEF LiveSlots
  <2>2. PICK i \in dead : \A j \in dead : i <= j
    BY <2>1, LeastNat
  <2>3. i \in DOMAIN pg.slots /\ Least(i)
    BY <1>1, <2>2
  <2>4. InsertSlot(pg) = CHOOSE k \in DOMAIN pg.slots : Least(k)
    BY <1>3 DEF InsertSlot
  <2> HIDE DEF Least
  <2>5. InsertSlot(pg) \in DOMAIN pg.slots /\ Least(InsertSlot(pg))
    BY <2>3, <2>4
  <2>6. QED
    BY <1>1, <2>5 DEF Least
<1>4. QED
  BY <1>2, <1>3

\* The slots with one of them, or the next one, set are slots.
LEMMA SlotsWithOneSet ==
    ASSUME NEW slots \in Slots, NEW k \in 1 .. Len(slots) + 1, NEW x \in Tuples \cup {Dead}
    PROVE  [i \in DOMAIN slots \cup {k} |-> IF i = k THEN x ELSE slots[i]] \in Slots
<1> DEFINE new == [i \in DOMAIN slots \cup {k} |-> IF i = k THEN x ELSE slots[i]]
           n == IF k = Len(slots) + 1 THEN k ELSE Len(slots)
<1>1. DOMAIN slots = 1 .. Len(slots) /\ Len(slots) \in Nat
  BY DEF Slots
<1>2. DOMAIN slots \cup {k} = 1 .. n /\ n \in Nat
  BY <1>1
<1>3. \A i \in 1 .. n : new[i] \in Tuples \cup {Dead}
  BY SMTT(30), <1>1, <1>2 DEF Slots
<1>4. new \in [1 .. n -> Tuples \cup {Dead}]
  BY <1>2, <1>3
<1> HIDE DEF new, n
<1>5. new \in Seq(Tuples \cup {Dead})
  BY SMTT(30), <1>2, <1>4
<1>6. QED
  BY <1>5 DEF Slots, new

\* Changing one slot of a heap page changes what is under one RID, and no link.
LEMMA SlotWritten ==
    ASSUME Typed, Fresh,
           NEW p \in PageIds, heap[p].type = "HEAP",
           NEW k \in 1 .. Len(heap[p].slots) + 1, NEW x \in Tuples \cup {Dead},
           NEW pg, pg.dead \in Int,
           pg.slots = [i \in DOMAIN heap[p].slots \cup {k} |->
                          IF i = k THEN x ELSE heap[p].slots[i]],
           heap' = With(p, pg), first_page_id' = first_page_id
    PROVE  /\ heap' \in [PageIds -> PageStates]
           /\ Fresh'
           /\ SameChain
           /\ <<p, k>> \in RowIds
           /\ Wrote(<<p, k>>, x)
<1>1. heap \in [PageIds -> PageStates] /\ heap[p] \in PageStates /\ heap[p].slots \in Slots
  BY DEF Typed, PageStates
<1>2. pg.slots \in Slots
  <2>1. heap[p].slots \in Slots
    BY <1>1
  <2>2. [i \in DOMAIN heap[p].slots \cup {k} |->
            IF i = k THEN x ELSE heap[p].slots[i]] \in Slots
    BY <2>1, SlotsWithOneSet
  <2>3. QED
    BY <2>2
<1>3. HeapOf(pg, heap[p].next) \in PageStates
  BY <1>1, <1>2 DEF HeapOf, PageStates
<1>4. /\ heap' \in [PageIds -> PageStates]
      /\ heap'[p] = HeapOf(pg, heap[p].next)
      /\ \A q \in PageIds : q # p => heap'[q] = heap[q]
  BY <1>1, <1>3 DEF With
<1>5. /\ heap'[p].type = "HEAP"
      /\ heap'[p].next = heap[p].next
      /\ heap'[p].slots = pg.slots
  BY SMTT(30), <1>4 DEF HeapOf
<1>6. Fresh'
  BY <1>4, <1>5 DEF Fresh
<1>7. SameChain
  BY <1>4, <1>5 DEF SameChain
<1>8. Len(heap[p].slots) \in Nat
  BY SMTT(30), <1>1 DEF Slots
<1>9. k \in Nat \ {0} /\ <<p, k>> \in RowIds
  BY SMTT(30), <1>8 DEF RowIds
<1>10. Store'[<<p, k>>] = x
  BY <1>5, <1>9 DEF Store
<1>11. ASSUME NEW r \in RowIds, r # <<p, k>>
       PROVE  Store'[r] = Store[r]
  <2>1. r[1] \in PageIds /\ r = <<r[1], r[2]>>
    BY SMTT(30) DEF RowIds
  <2>2. CASE r[1] # p
    BY <1>4, <2>1, <2>2 DEF Store
  <2>3. CASE r[1] = p
    <3>1. r[2] # k
      BY <1>11, <2>1, <2>3
    <3>2. QED
      BY SMTT(30), <1>5, <2>3, <3>1 DEF Store
  <2>4. QED
    BY <2>2, <2>3
<1>12. DOMAIN Store = RowIds /\ Store = [r \in RowIds |-> Store[r]]
       /\ DOMAIN Store' = RowIds /\ Store' = [r \in RowIds |-> Store'[r]]
  BY DEF Store
<1>13. Store' = [Store EXCEPT ![<<p, k>>] = x]
  BY <1>9, <1>10, <1>11, <1>12
<1>14. QED
  BY <1>4, <1>6, <1>7, <1>9, <1>13 DEF Wrote

\* What the writers of slots share: the pages are typed, and the chain is the same.
PagesKept == heap' \in [PageIds -> PageStates] /\ Fresh' /\ SameChain

\* A slot holds a tuple exactly when its row is live.
LEMMA LiveIsNotDead ==
    ASSUME NEW rid \in RowIds
    PROVE  /\ IsLive(rid) <=> Store[rid] # Dead
           /\ IsLive(rid) => Store[rid] = Row(rid)
BY DEF IsLive, LiveSlots, Store, Row

\* A row put on a page goes to a free slot (table_heap.cpp:72-92).
LEMMA RowTaken ==
    ASSUME Typed, Fresh,
           NEW p \in PageIds, heap[p].type = "HEAP", NEW tuple \in Tuples,
           heap' = With(p, Taken(heap[p], tuple)), first_page_id' = first_page_id
    PROVE  /\ PagesKept
           /\ <<p, InsertSlot(heap[p])>> \in RowIds
           /\ Store[<<p, InsertSlot(heap[p])>>] = Dead
           /\ Wrote(<<p, InsertSlot(heap[p])>>, tuple)
<1> DEFINE pg == heap[p]
           k == InsertSlot(pg)
           after == Taken(pg, tuple)
<1>1. pg \in PageStates /\ pg.slots \in Slots /\ pg.dead \in Int
  BY DEF Typed, PageStates
<1>2. /\ Compacted(pg).slots = pg.slots /\ Compacted(pg).dead = 0
      /\ Compacted(pg) = [pg EXCEPT !.dead = 0]
  BY <1>1 DEF Compacted, PageStates
<1>3. InsertSlot(Compacted(pg)) = k
  BY SMTT(30), <1>2 DEF InsertSlot, LiveSlots
<1>4. k \in 1 .. Len(pg.slots) + 1 /\ (k \in DOMAIN pg.slots => pg.slots[k] = Dead)
  BY <1>1, InsertSlotIsFree
<1>5. /\ after.dead \in Int
      /\ after.slots = [i \in DOMAIN pg.slots \cup {k} |-> IF i = k THEN tuple ELSE pg.slots[i]]
  <2>1. CASE NeedsCompact(pg, tuple)
    BY SMTT(30), <1>1, <1>2, <1>3, <2>1 DEF Taken, Inserted, PageStates
  <2>2. CASE ~NeedsCompact(pg, tuple)
    BY <1>1, <2>2 DEF Taken, Inserted, PageStates
  <2>3. QED
    BY <2>1, <2>2
<1>6. ASSUME <<p, k>> \in RowIds
      PROVE  Store[<<p, k>>] = Dead
  BY <1>4, <1>6 DEF Store
<1> HIDE DEF k, after
<1>7. heap' = With(p, after)
  BY DEF after
<1>8. PagesKept /\ <<p, k>> \in RowIds /\ Wrote(<<p, k>>, tuple)
  BY SMTT(30), <1>4, <1>5, <1>7, SlotWritten DEF PagesKept
<1>9. QED
  BY <1>6, <1>8 DEF k

\* A page that has a live row is a heap page.
LEMMA LiveIsOnHeap ==
    ASSUME Fresh, NEW rid \in RowIds, IsLive(rid)
    PROVE  /\ rid[1] \in PageIds /\ rid = <<rid[1], rid[2]>>
           /\ heap[rid[1]].type = "HEAP"
           /\ rid[2] \in DOMAIN heap[rid[1]].slots
BY DEF Fresh, RowIds, IsLive, LiveSlots

\* The tuple in a slot has a length, and the page a count of its dead bytes.
LEMMA SlotTypes ==
    ASSUME Typed, NEW p \in PageIds, NEW k \in DOMAIN heap[p].slots
    PROVE  /\ heap[p].slots \in Slots
           /\ k \in 1 .. Len(heap[p].slots) + 1
           /\ heap[p].dead \in Int
           /\ Len(heap[p].slots[k]) \in Int
<1>1. heap[p].slots \in Slots /\ heap[p].dead \in Int
  BY DEF Typed, PageStates
<1>2. DOMAIN heap[p].slots = 1 .. Len(heap[p].slots) /\ Len(heap[p].slots) \in Nat
  BY <1>1 DEF Slots
<1>3. heap[p].slots[k] \in Tuples \cup {Dead}
  BY <1>1, <1>2 DEF Slots
<1>4. Len(heap[p].slots[k]) \in Int
  BY <1>3 DEF ValidTuple, Dead
<1>5. QED
  BY <1>1, <1>2, <1>4

\* SlotWritten for a slot the page has.
LEMMA SlotReplaced ==
    ASSUME Typed, Fresh,
           NEW p \in PageIds, heap[p].type = "HEAP",
           NEW k \in DOMAIN heap[p].slots, NEW x \in Tuples \cup {Dead},
           NEW pg, pg.dead \in Int, pg.slots = [heap[p].slots EXCEPT ![k] = x],
           heap' = With(p, pg), first_page_id' = first_page_id
    PROVE  PagesKept /\ Wrote(<<p, k>>, x)
<1>1. k \in 1 .. Len(heap[p].slots) + 1
  BY SlotTypes
<1>2. DOMAIN heap[p].slots = DOMAIN heap[p].slots \cup {k}
  OBVIOUS
<1>3. pg.slots = [i \in DOMAIN heap[p].slots \cup {k} |-> IF i = k THEN x ELSE heap[p].slots[i]]
  BY <1>2
<1>4. QED
  BY <1>1, <1>3, SlotWritten DEF PagesKept

\* Deleting a row leaves its slot dead, whether or not it was (table_heap.cpp:237-252).
LEMMA RowDeleted ==
    ASSUME Typed, Fresh, NEW rid \in RowIds, DeleteRow(rid)
    PROVE  PagesKept /\ Wrote(rid, Dead)
<1>1. CASE ~IsLive(rid)
  <2>1. heap' = heap /\ first_page_id' = first_page_id
    BY <1>1 DEF DeleteRow
  <2>2. Store[rid] = Dead /\ Store' = Store
    BY <1>1, <2>1, LiveIsNotDead DEF Store
  <2>3. [Store EXCEPT ![rid] = Dead] = Store
    BY <2>2 DEF Store
  <2>4. QED
    BY <2>1, <2>2, <2>3 DEF PagesKept, Typed, Fresh, SameChain, Wrote
<1>2. CASE IsLive(rid)
  <2> DEFINE p == rid[1]
             k == rid[2]
             after == Deleted(heap[p], k)
  <2>1. p \in PageIds /\ rid = <<p, k>> /\ heap[p].type = "HEAP" /\ k \in DOMAIN heap[p].slots
    BY <1>2, LiveIsOnHeap
  <2>2. heap' = With(p, after) /\ first_page_id' = first_page_id
    BY <1>2 DEF DeleteRow
  <2> HIDE DEF p, k
  <2>3. heap[p].dead \in Int /\ Len(heap[p].slots[k]) \in Int
    BY <2>1, SlotTypes
  <2>4. after.dead \in Int /\ after.slots = [heap[p].slots EXCEPT ![k] = Dead]
    BY <2>3 DEF Deleted
  <2> HIDE DEF after
  <2>5. PagesKept /\ Wrote(<<p, k>>, Dead)
    <3>1. Dead \in Tuples \cup {Dead}
      OBVIOUS
    <3>2. QED
      BY <2>1, <2>2, <2>4, <3>1, SlotReplaced
  <2>6. QED
    BY <2>1, <2>5
<1>3. QED
  BY <1>1, <1>2

\* An update in place stores the new tuple under the same RID (table_heap.cpp:254-282).
LEMMA RowUpdated ==
    ASSUME Typed, Fresh, NEW rid \in RowIds, NEW tuple \in Tuples, IsLive(rid),
           heap' = With(rid[1], Updated(heap[rid[1]], rid[2], tuple)),
           first_page_id' = first_page_id
    PROVE  PagesKept /\ Wrote(rid, tuple)
<1> DEFINE p == rid[1]
           k == rid[2]
           after == Updated(heap[p], k, tuple)
<1>1. p \in PageIds /\ rid = <<p, k>> /\ heap[p].type = "HEAP" /\ k \in DOMAIN heap[p].slots
  BY LiveIsOnHeap
<1>2. heap' = With(p, after)
  OBVIOUS
<1> HIDE DEF p, k
<1>3. heap[p].dead \in Int /\ Len(heap[p].slots[k]) \in Int
  BY <1>1, SlotTypes
<1>4. Len(tuple) \in Int
  BY DEF ValidTuple
<1>5. after.slots = [heap[p].slots EXCEPT ![k] = tuple]
  BY DEF Updated
<1>6. after.dead \in Int
  <2>1. \/ after.dead = heap[p].dead + Len(heap[p].slots[k]) - Len(tuple)
        \/ after.dead = heap[p].dead + Len(heap[p].slots[k])
        \/ after.dead = 0
    BY DEF Updated
  <2>2. \A d \in Int : \A l \in Int : \A m \in Int : d + l - m \in Int /\ d + l \in Int
    OBVIOUS
  <2>3. 0 \in Int
    OBVIOUS
  <2> HIDE DEF after
  <2>4. QED
    BY <1>3, <1>4, <2>1, <2>2, <2>3
<1> HIDE DEF after
<1>7. PagesKept /\ Wrote(<<p, k>>, tuple)
  <2>1. tuple \in Tuples \cup {Dead}
    OBVIOUS
  <2>2. QED
    BY <1>1, <1>2, <1>5, <1>6, <2>1, SlotReplaced
<1>8. QED
  BY <1>1, <1>7


\* Extending the chain puts the row in slot 1 of the new page and links that page
\* behind the last one (table_heap.cpp:190-217).
LEMMA PageLinked ==
    ASSUME Typed, Fresh, NEW t \in Threads, CallOK(t), Link(t)
    PROVE  LET p == loc[t].page
               new == loc[t].new
           IN /\ heap' \in [PageIds -> PageStates]
              /\ Fresh'
              /\ p \in PageIds /\ new \in PageIds /\ p # new
              /\ heap'[new].type = "HEAP" /\ heap'[new].next = None
              /\ heap'[p].type = "HEAP" /\ heap'[p].next = new
              /\ \A q \in PageIds : q # p /\ q # new => heap'[q] = heap[q]
              /\ <<new, 1>> \in RowIds
              /\ Store[<<new, 1>>] = Dead
              /\ Wrote(<<new, 1>>, loc[t].tuple)
<1> DEFINE p == loc[t].page
           new == loc[t].new
           tuple == loc[t].tuple
           fresh == HeapOf(Inserted(EmptyPage, tuple), None)
<1>1. /\ p \in PageIds /\ heap[p].type = "HEAP"
      /\ new \in PageIds /\ heap[new].type = "ALLOCATED"
      /\ tuple \in Tuples
  BY DEF Link, CallOK, Ready
<1>2. heap \in [PageIds -> PageStates] /\ heap[p] \in PageStates
  BY <1>1 DEF Typed
<1>3. InsertSlot(EmptyPage) = 1
  BY DEF InsertSlot, EmptyPage, LiveSlots
<1>4. Inserted(EmptyPage, tuple).slots = <<tuple>> /\ Inserted(EmptyPage, tuple).dead = 0
  <2>1. DOMAIN EmptyPage.slots \cup {1} = 1 .. 1
    BY DEF EmptyPage
  <2>2. [i \in 1 .. 1 |-> IF i = 1 THEN tuple ELSE EmptyPage.slots[i]] = <<tuple>>
    OBVIOUS
  <2>3. QED
    BY <1>3, <2>1, <2>2 DEF Inserted, EmptyPage
<1>5. /\ fresh.type = "HEAP" /\ fresh.next = None /\ fresh.slots = <<tuple>>
      /\ fresh \in PageStates
  BY <1>1, <1>4 DEF HeapOf, PageStates, Slots
<1>6. heap' = [[heap EXCEPT ![new] = fresh] EXCEPT ![p].next = new]
  BY DEF Link
<1> HIDE DEF p, new, tuple, fresh
<1>7. p # new
  BY <1>1
<1>8. /\ heap'[new] = fresh
      /\ heap'[p] = [heap[p] EXCEPT !.next = new]
      /\ \A q \in PageIds : q # p /\ q # new => heap'[q] = heap[q]
      /\ heap' = [q \in PageIds |-> heap'[q]]
  BY <1>1, <1>2, <1>6, <1>7
<1>9. [heap[p] EXCEPT !.next = new] \in PageStates
  BY <1>1, <1>2 DEF PageStates
<1>10. /\ heap'[p] \in PageStates /\ heap'[p].type = "HEAP" /\ heap'[p].next = new
       /\ heap'[p].slots = heap[p].slots
  BY <1>1, <1>2, <1>8, <1>9 DEF PageStates
<1>11. \A q \in PageIds : heap'[q] \in PageStates
  BY <1>2, <1>5, <1>8, <1>10
<1>12. heap' \in [PageIds -> PageStates]
  BY <1>8, <1>11
<1>13. Fresh'
  BY <1>5, <1>8, <1>10 DEF Fresh
<1>14. <<new, 1>> \in RowIds /\ heap[new].slots = <<>>
  BY <1>1 DEF RowIds, Fresh
<1>15. Store[<<new, 1>>] = Dead /\ Store'[<<new, 1>>] = tuple
  BY SMTT(30), <1>5, <1>8, <1>14 DEF Store
<1>16. ASSUME NEW r \in RowIds, r # <<new, 1>>
       PROVE  Store'[r] = Store[r]
  <2>1. r[1] \in PageIds /\ r = <<r[1], r[2]>>
    BY DEF RowIds
  <2>2. CASE r[1] = new
    <3>1. r[2] # 1
      BY <1>16, <2>1, <2>2
    <3>2. heap'[r[1]].slots = <<tuple>> /\ heap[r[1]].slots = <<>>
      BY <1>5, <1>8, <1>14, <2>2
    <3>3. QED
      BY SMTT(30), <3>1, <3>2 DEF Store
  <2>3. CASE r[1] = p
    BY <1>10, <2>3 DEF Store
  <2>4. CASE r[1] # p /\ r[1] # new
    BY <1>8, <2>1, <2>4 DEF Store
  <2>5. QED
    BY <2>2, <2>3, <2>4
<1>17. DOMAIN Store = RowIds /\ Store = [r \in RowIds |-> Store[r]]
       /\ DOMAIN Store' = RowIds /\ Store' = [r \in RowIds |-> Store'[r]]
  BY DEF Store
<1>18. Store' = [Store EXCEPT ![<<new, 1>>] = tuple]
  BY <1>14, <1>15, <1>16, <1>17
<1>19. QED
  BY <1>1, <1>5, <1>7, <1>8, <1>10, <1>12, <1>13, <1>14, <1>15, <1>18 DEF Wrote, p, new, tuple


(***************************************************************************)
(* The chain and the calls.                                                *)
(***************************************************************************)

\* A chain that no step touches stays a chain.
LEMMA ChainKept ==
    ASSUME NEW n, NEW s, Chained(s, n), SameChain
    PROVE  Chained(s, n)'
<1>1. \A i \in 1 .. n : s[i] \in PageIds
  BY DEF Chained
<1>2. QED
  BY <1>1 DEF Chained, SameChain

\* The page that an inserter links is the new end of the chain.
LEMMA ChainGrows ==
    ASSUME Typed, Fresh, NEW t \in Threads, CallOK(t), Link(t),
           NEW n, NEW s, Chained(s, n)
    PROVE  \E r \in [1 .. n + 1 -> PageIds] :
              /\ Chained(r, n + 1)'
              /\ \A i \in 1 .. n : r[i] = s[i]
              /\ r[n + 1] = loc[t].new
<1>1. PICK p, new : p = loc[t].page /\ new = loc[t].new
  OBVIOUS
<1>2. /\ p \in PageIds /\ new \in PageIds /\ p # new
      /\ heap'[new].type = "HEAP" /\ heap'[new].next = None
      /\ heap'[p].type = "HEAP" /\ heap'[p].next = new
      /\ \A q \in PageIds : q # p /\ q # new => heap'[q] = heap[q]
  BY <1>1, PageLinked
<1>3. heap[p].type = "HEAP" /\ heap[p].next = None /\ heap[new].type = "ALLOCATED"
  BY <1>1 DEF CallOK, Link
<1>4. n \in Nat \ {0} /\ \A i \in 1 .. n : s[i] \in PageIds /\ heap[s[i]].type = "HEAP"
  BY DEF Chained
<1>5. s[n] = p
  <2>1. PICK i \in 1 .. n : s[i] = p
    BY <1>2, <1>3 DEF Chained
  <2>2. i < n => s[i + 1] \in PageIds /\ heap[p].next = s[i + 1]
    BY SMTT(30), <1>4, <2>1 DEF Chained
  <2>3. i = n
    BY <1>3, <1>4, <2>1, <2>2
  <2>4. QED
    BY <2>1, <2>3
<1> DEFINE r == [i \in 1 .. n + 1 |-> IF i <= n THEN s[i] ELSE new]
<1>6. /\ r \in [1 .. n + 1 -> PageIds]
      /\ \A i \in 1 .. n : r[i] = s[i]
      /\ r[n + 1] = new
  BY SMTT(30), <1>2, <1>4
<1> HIDE DEF r
<1>7. \A i \in 1 .. n : s[i] # new
  BY <1>3, <1>4
<1>8. r[1] = first_page_id'
  BY SMTT(30), <1>4, <1>6 DEF Chained, Link
<1>9. \A i \in 1 .. n + 1 : \A j \in 1 .. n + 1 : r[i] = r[j] => i = j
  <2>1. \A i \in 1 .. n + 1 : i \in 1 .. n \/ i = n + 1
    BY <1>4
  <2>2. QED
    BY SMTT(30), <1>6, <1>7, <2>1 DEF Chained
<1>10. ASSUME NEW i \in 1 .. n + 1
       PROVE  heap'[r[i]].next = IF i < n + 1 THEN r[i + 1] ELSE None
  <2>1. CASE i = n + 1
    BY SMTT(30), <1>2, <1>4, <1>6, <2>1
  <2>2. CASE i = n
    BY SMTT(30), <1>2, <1>4, <1>5, <1>6, <2>2
  <2>3. CASE i \in 1 .. n - 1
    <3>1. i \in 1 .. n /\ i < n /\ i + 1 \in 1 .. n /\ n \in 1 .. n /\ i # n
      BY <1>4, <2>3
    <3>2. s[i] # p /\ s[i] # new
      BY <1>5, <1>7, <3>1 DEF Chained
    <3>3. heap'[s[i]].next = heap[s[i]].next
      BY <1>2, <1>4, <3>1, <3>2
    <3>4. heap[s[i]].next = s[i + 1]
      BY <3>1 DEF Chained
    <3>5. QED
      BY SMTT(30), <1>4, <1>6, <3>1, <3>3, <3>4
  <2>4. QED
    BY <1>4, <2>1, <2>2, <2>3
<1>11. ASSUME NEW q \in PageIds
       PROVE  heap'[q].type = "HEAP" <=> \E i \in 1 .. n + 1 : r[i] = q
  <2>1. heap'[q].type = "HEAP" <=> heap[q].type = "HEAP" \/ q = new
    BY <1>2, <1>3
  <2>2. heap[q].type = "HEAP" <=> \E i \in 1 .. n : s[i] = q
    BY DEF Chained
  <2>3. (\E i \in 1 .. n + 1 : r[i] = q) <=> (\E i \in 1 .. n : s[i] = q) \/ q = new
    <3>1. \A i : i \in 1 .. n + 1 <=> i \in 1 .. n \/ i = n + 1
      BY <1>4
    <3>2. QED
      BY <1>6, <3>1
  <2>4. QED
    BY <2>1, <2>2, <2>3
<1>12. n + 1 \in Nat \ {0}
  BY <1>4
<1>13. Chained(r, n + 1)'
  BY <1>6, <1>8, <1>9, <1>10, <1>11, <1>12 DEF Chained
<1>14. QED
  BY <1>1, <1>6, <1>13

\* A step leaves the call of thread u where it is.
SameCall(u) ==
    /\ pc'[u] = pc[u]
    /\ loc'[u].op = loc[u].op /\ loc'[u].tuple = loc[u].tuple /\ loc'[u].rid = loc[u].rid
    /\ loc'[u].page = loc[u].page /\ loc'[u].new = loc[u].new

\* What two threads hold apart does not depend on their order.
LEMMA ApartIsSymmetric ==
    ASSUME NEW t, NEW u, Apart(t, u)
    PROVE  Apart(u, t)
BY DEF Apart

\* A call that a step leaves alone stays as sound as it was.
LEMMA CallKept ==
    ASSUME NEW u \in Threads, CallOK(u), SameCall(u), SameChain
    PROVE  CallOK(u)'
<1>1. Ready(pc[u], loc[u])
  BY DEF CallOK
<1>2. Ready(pc'[u], loc'[u])
  BY <1>1 DEF Ready, SameCall
<1>3. pc[u] \in {"new_page", "link"} => loc[u].page \in PageIds
  BY <1>1 DEF Ready
<1>4. pc[u] = "link" => loc[u].new \in PageIds
  BY <1>1 DEF Ready
<1>5. pc'[u] \in {"new_page", "link"} =>
         heap'[loc'[u].page].type = "HEAP" /\ heap'[loc'[u].page].next = None
  BY <1>3 DEF CallOK, SameCall, SameChain
<1>6. pc'[u] = "link" => heap'[loc'[u].new].type = "ALLOCATED"
  BY <1>4 DEF CallOK, SameCall, SameChain
<1>7. QED
  BY <1>2, <1>5, <1>6 DEF CallOK


\* Soundness after a step that leaves the chain: what is left to show of its thread.
LEMMA SoundKept ==
    ASSUME Sound, Typed', Fresh', SameChain, NEW t \in Threads,
           \A u \in Threads \ {t} : SameCall(u),
           CallOK(t)', \A u \in Threads \ {t} : Apart(t, u)'
    PROVE  Sound'
<1>1. \A u \in Threads : CallOK(u)'
  BY CallKept DEF Sound
<1>2. ASSUME NEW u \in Threads, NEW v \in Threads, u # v
      PROVE  Apart(u, v)'
  <2>1. CASE u = t
    BY <1>2, <2>1
  <2>2. CASE v = t
    <3>1. Apart(t, u)'
      BY <1>2, <2>2
    <3>2. QED
      BY <2>2, <3>1 DEF Apart
  <2>3. CASE u # t /\ v # t
    <3>1. SameCall(u) /\ SameCall(v) /\ Apart(u, v)
      BY <1>2, <2>3 DEF Sound
    <3>2. QED
      BY <3>1 DEF SameCall, Apart
  <2>4. QED
    BY <2>1, <2>2, <2>3
<1>3. Whole'
  <2>1. PICK n \in Nat \ {0} : \E s \in [1 .. n -> PageIds] : Chained(s, n)
    BY DEF Sound, Whole
  <2>2. PICK s \in [1 .. n -> PageIds] : Chained(s, n)
    BY <2>1
  <2>3. Chained(s, n)'
    BY <2>2, ChainKept
  <2>4. QED
    BY <2>3 DEF Whole
<1>4. QED
  BY <1>1, <1>2, <1>3 DEF Sound

\* What is left to show of the types after a step.
RestTyped ==
    /\ last_page_id' \in PageIds /\ insert_hint' \in PageIds
    /\ RowsTyped(rows')

\* Soundness after a step that takes a thread's call somewhere else than to the
\* extension of the chain.
LEMMA GotoKeeps ==
    ASSUME Sound, PagesKept, RestTyped, NEW t \in Threads,
           NEW label \in Labels \ {"new_page", "link"}, NEW l \in CallStates,
           Goto(t, label, l), Ready(label, l)
    PROVE  Sound'
<1>1. /\ pc \in [Threads -> Labels] /\ loc \in [Threads -> CallStates]
      /\ first_page_id \in PageIds
  BY DEF Sound, Typed
<1>2. /\ pc' \in [Threads -> Labels] /\ loc' \in [Threads -> CallStates]
      /\ pc'[t] = label /\ loc'[t] = l
      /\ \A u \in Threads \ {t} : pc'[u] = pc[u] /\ loc'[u] = loc[u]
  BY <1>1 DEF Goto
<1>3. Typed'
  BY <1>1, <1>2 DEF Typed, RestTyped, PagesKept, SameChain
<1>4. \A u \in Threads \ {t} : SameCall(u)
  BY <1>2 DEF SameCall
<1>5. CallOK(t)'
  BY <1>2 DEF CallOK
<1>6. \A u \in Threads \ {t} : Apart(t, u)'
  BY <1>2 DEF Apart
<1>7. QED
  BY <1>3, <1>4, <1>5, <1>6, SoundKept DEF PagesKept

\* The pages are kept when the heap is, and the rest is typed when it is unchanged.
LEMMA HeapUnchanged ==
    ASSUME Sound, heap' = heap, first_page_id' = first_page_id
    PROVE  PagesKept
BY DEF Sound, Typed, PagesKept, Fresh, SameChain

\* A held or dropped row keeps the history of the rows typed.
LEMMA RowsKept ==
    ASSUME NEW r, RowsTyped(r), NEW t \in Threads, NEW rid \in RowIds, NEW tuple \in Tuples
    PROVE  RowsTyped(Hold(r, t, rid, tuple)) /\ RowsTyped(Drop(r, rid))
<1>1. [tuple |-> tuple, by |-> t] \in [tuple : Tuples, by : Threads]
  OBVIOUS
<1>2. RowsTyped(Hold(r, t, rid, tuple))
  BY <1>1 DEF RowsTyped, Hold
<1>3. RowsTyped(Drop(r, rid))
  BY DEF RowsTyped, Drop, Restrict
<1>4. QED
  BY <1>2, <1>3

\* The fields of a call have their types.
LEMMA CallTypes ==
    ASSUME Sound, NEW t \in Threads
    PROVE  /\ loc[t] \in CallStates /\ pc[t] \in Labels
           /\ Ready(pc[t], loc[t])
           /\ NoCall \in CallStates
           /\ \A label \in {"idle", "next"} : Ready(label, NoCall)
<1>1. loc[t] \in CallStates /\ pc[t] \in Labels /\ Ready(pc[t], loc[t])
  BY DEF Sound, Typed, CallOK
<1>2. NoCall \in CallStates
  BY DEF NoCall, CallStates
<1>3. \A label \in {"idle", "next"} : Ready(label, NoCall)
  BY DEF NoCall, Ready
<1>4. QED
  BY <1>1, <1>2, <1>3

\* A call that returns leaves the state sound.
LEMMA ReturnKeeps ==
    ASSUME Sound, PagesKept, RestTyped, NEW t \in Threads, Return(t)
    PROVE  Sound'
BY CallTypes, GotoKeeps DEF Return, Labels

\* A row is put in its place: an insert returns, an update goes on to the original.
LEMMA PlacedKeeps ==
    ASSUME Sound, PagesKept, NEW t \in Threads, pc[t] \notin {"idle", "next"},
           NEW rid \in RowIds, Placed(t, rid),
           last_page_id' \in PageIds, insert_hint' \in PageIds
    PROVE  Sound'
<1>1. /\ loc[t] \in CallStates /\ Ready(pc[t], loc[t])
      /\ loc[t].tuple \in Tuples
      /\ RowsTyped(rows)
  BY CallTypes DEF Ready, Sound, Typed
<1>2. CASE loc[t].op = "insert"
  <2>1. Return(t) /\ rows' = Hold(rows, t, rid, loc[t].tuple)
    BY <1>2 DEF Placed
  <2>2. RestTyped
    BY <1>1, <2>1, RowsKept DEF RestTyped
  <2>3. QED
    BY <2>1, <2>2, ReturnKeeps
<1>3. CASE loc[t].op = "update"
  <2>1. PICK l : l = [loc[t] EXCEPT !.new = rid, !.page = None, !.probe = 0]
    OBVIOUS
  <2>2. Goto(t, "remove", l) /\ rows' = rows
    BY <1>3, <2>1 DEF Placed
  <2>3. l \in CallStates
    BY <1>1, <2>1 DEF CallStates
  <2>4. l.op = "update" /\ l.new = rid /\ l.tuple = loc[t].tuple /\ l.rid = loc[t].rid
    BY <1>1, <1>3, <2>1 DEF CallStates
  <2>5. Ready("remove", l)
    BY <1>1, <1>3, <2>4 DEF Ready
  <2>6. RestTyped
    BY <1>1, <2>2 DEF RestTyped
  <2>7. "remove" \in Labels \ {"new_page", "link"}
    BY DEF Labels
  <2>8. QED
    BY <2>2, <2>3, <2>5, <2>6, <2>7, GotoKeeps
<1>4. QED
  BY <1>2, <1>3 DEF Placed


\* Nothing but calls changes.
LEMMA OnlyCalls ==
    ASSUME Sound, UNCHANGED <<table, rows>>
    PROVE  PagesKept /\ RestTyped
<1>1. heap' = heap /\ first_page_id' = first_page_id
  BY DEF table
<1>2. PagesKept
  BY <1>1, HeapUnchanged
<1>3. RestTyped
  BY DEF table, Sound, Typed, RestTyped
<1>4. QED
  BY <1>2, <1>3

\* A call that goes on to a page keeps its operation, tuple and RID.
LEMMA GoesOn ==
    ASSUME Sound, PagesKept, RestTyped, NEW t \in Threads, pc[t] \notin {"idle", "next"},
           NEW label \in {"probe", "load_last", "append"}, NEW l \in CallStates,
           l.op = loc[t].op, l.tuple = loc[t].tuple, l.rid = loc[t].rid, l.page \in PageIds,
           Goto(t, label, l)
    PROVE  Sound'
<1>1. Ready(pc[t], loc[t])
  BY CallTypes
<1>2. Ready(label, l)
  BY <1>1 DEF Ready
<1>3. label \in Labels \ {"new_page", "link"}
  BY DEF Labels
<1>4. QED
  BY <1>2, <1>3, GotoKeeps

\* The links and the cursors lead to pages.
LEMMA NextPageTypes ==
    ASSUME Sound
    PROVE  /\ first_page_id \in PageIds /\ last_page_id \in PageIds /\ insert_hint \in PageIds
           /\ \A p \in PageIds : heap[p].next \in PageIds \cup {None}
BY DEF Sound, Typed, PageStates

\* An insert starts to probe at the hint.
LEMMA LoadHintKeeps ==
    ASSUME Sound, NEW t \in Threads, LoadHint(t)
    PROVE  Sound'
<1>1. PICK l : l = [loc[t] EXCEPT !.page = insert_hint, !.from_hint = TRUE, !.probe = 0]
  OBVIOUS
<1>2. loc[t] \in CallStates /\ insert_hint \in PageIds
  BY CallTypes, NextPageTypes
<1>3. /\ l \in CallStates /\ l.op = loc[t].op /\ l.tuple = loc[t].tuple /\ l.rid = loc[t].rid
      /\ l.page \in PageIds
  BY <1>1, <1>2 DEF CallStates
<1>4. Goto(t, "probe", l) /\ pc[t] = "insert" /\ PagesKept /\ RestTyped
  BY <1>1, OnlyCalls DEF LoadHint
<1>5. QED
  BY <1>3, <1>4, GoesOn

\* A probe goes on to the next page, or gives up probing.
LEMMA NextProbeKeeps ==
    ASSUME Sound, PagesKept, RestTyped, NEW t \in Threads, pc[t] = "probe",
           NEW p \in PageIds, NextProbe(t, p)
    PROVE  Sound'
<1>1. PICK l, k : /\ k = loc[t].probe + 1
                  /\ l = [loc[t] EXCEPT !.page = p, !.from_hint = FALSE, !.probe = k]
  OBVIOUS
<1>2. loc[t] \in CallStates /\ k \in Nat
  BY SMTT(30), <1>1, CallTypes DEF CallStates
<1>3. /\ l \in CallStates /\ l.op = loc[t].op /\ l.tuple = loc[t].tuple /\ l.rid = loc[t].rid
      /\ l.page \in PageIds
  BY <1>1, <1>2 DEF CallStates
<1>4. PICK label \in {"probe", "load_last", "append"} : Goto(t, label, l)
  BY <1>1 DEF NextProbe
<1>5. QED
  BY <1>3, <1>4, GoesOn

\* A probe stores its row on the page it looks at.
LEMMA ProbeInsertKeeps ==
    ASSUME Sound, NEW t \in Threads, ProbeInsert(t) \/ AppendInsert(t)
    PROVE  Sound'
<1>1. PICK p, tuple, rid :
         p = loc[t].page /\ tuple = loc[t].tuple /\ rid = <<p, InsertSlot(heap[p])>>
  OBVIOUS
<1>2. /\ pc[t] \in {"probe", "append"} /\ heap[p].type = "HEAP"
      /\ heap' = With(p, Taken(heap[p], tuple)) /\ Placed(t, rid)
      /\ insert_hint' = p /\ last_page_id' = last_page_id /\ first_page_id' = first_page_id
  BY <1>1 DEF ProbeInsert, AppendInsert
<1>3. p \in PageIds /\ tuple \in Tuples /\ last_page_id \in PageIds
  BY <1>1, <1>2, CallTypes, NextPageTypes DEF Ready
<1>4. PagesKept /\ rid \in RowIds
  BY <1>1, <1>2, <1>3, RowTaken DEF Sound
<1>5. QED
  BY <1>2, <1>3, <1>4, PlacedKeeps

\* A probe finds its page full.
LEMMA ProbeFullKeeps ==
    ASSUME Sound, NEW t \in Threads, ProbeFull(t)
    PROVE  Sound'
<1>1. PICK p \in PageIds : insert_hint' = p /\ NextProbe(t, p)
  <2>1. loc[t].page \in PageIds
    BY CallTypes DEF ProbeFull, Ready
  <2>2. QED
    BY <2>1, NextPageTypes DEF ProbeFull
<1>2. /\ heap' = heap /\ first_page_id' = first_page_id /\ last_page_id' = last_page_id
      /\ rows' = rows /\ pc[t] = "probe"
  BY DEF ProbeFull
<1>3. PagesKept
  BY <1>2, HeapUnchanged
<1>4. RestTyped
  BY <1>1, <1>2 DEF Sound, Typed, RestTyped
<1>5. QED
  BY <1>1, <1>2, <1>3, <1>4, NextProbeKeeps

\* A fetch of a probe fails: the hint is given up, or the insert.
LEMMA ProbeFailsKeeps ==
    ASSUME Sound, NEW t \in Threads, ProbeFails(t)
    PROVE  Sound'
<1>1. PagesKept /\ RestTyped /\ pc[t] = "probe" /\ (NextProbe(t, first_page_id) \/ Return(t))
  BY OnlyCalls DEF ProbeFails, Fails
<1>2. QED
  BY <1>1, NextPageTypes, NextProbeKeeps, ReturnKeeps

\* An insert goes to the last page it knows of.
LEMMA LoadLastKeeps ==
    ASSUME Sound, NEW t \in Threads, LoadLast(t)
    PROVE  Sound'
<1>1. PICK l : l = [loc[t] EXCEPT !.page = last_page_id, !.probe = 0]
  OBVIOUS
<1>2. loc[t] \in CallStates /\ last_page_id \in PageIds
  BY CallTypes, NextPageTypes
<1>3. /\ l \in CallStates /\ l.op = loc[t].op /\ l.tuple = loc[t].tuple /\ l.rid = loc[t].rid
      /\ l.page \in PageIds
  BY <1>1, <1>2 DEF CallStates
<1>4. Goto(t, "append", l) /\ pc[t] = "load_last" /\ PagesKept /\ RestTyped
  BY <1>1, OnlyCalls DEF LoadLast
<1>5. QED
  BY <1>3, <1>4, GoesOn

\* An insert follows the link of a page that is no longer the last one.
LEMMA AppendFollowKeeps ==
    ASSUME Sound, NEW t \in Threads, AppendFollow(t)
    PROVE  Sound'
<1>1. PICK l : l = [loc[t] EXCEPT !.page = heap[loc[t].page].next]
  OBVIOUS
<1>2. /\ loc[t] \in CallStates /\ loc[t].page \in PageIds
      /\ heap[loc[t].page].next \in PageIds
  <2>1. loc[t] \in CallStates /\ loc[t].page \in PageIds
    BY CallTypes DEF AppendFollow, Ready
  <2>2. QED
    BY <2>1, NextPageTypes DEF AppendFollow
<1>3. /\ l \in CallStates /\ l.op = loc[t].op /\ l.tuple = loc[t].tuple /\ l.rid = loc[t].rid
      /\ l.page \in PageIds
  BY <1>1, <1>2 DEF CallStates
<1>4. Goto(t, "append", l) /\ pc[t] = "append" /\ PagesKept /\ RestTyped
  BY <1>1, OnlyCalls DEF AppendFollow
<1>5. QED
  BY <1>3, <1>4, GoesOn


\* A thread may start to extend the chain at a page only when no other is there.
LEMMA AppendFullKeeps ==
    ASSUME Sound, NEW t \in Threads, AppendFull(t)
    PROVE  Sound'
<1>1. /\ pc[t] = "append" /\ Goto(t, "new_page", loc[t])
      /\ CanWrite(loc[t].page) /\ heap[loc[t].page].type = "HEAP"
      /\ heap[loc[t].page].next = None
      /\ PagesKept /\ RestTyped /\ heap' = heap /\ first_page_id' = first_page_id
  BY OnlyCalls DEF AppendFull, table
<1>2. /\ pc \in [Threads -> Labels] /\ loc \in [Threads -> CallStates]
      /\ first_page_id \in PageIds
  BY DEF Sound, Typed
<1>3. loc' = loc /\ pc' = [pc EXCEPT ![t] = "new_page"]
  BY <1>1, <1>2 DEF Goto
<1>4. /\ pc' \in [Threads -> Labels] /\ pc'[t] = "new_page"
      /\ \A u \in Threads \ {t} : pc'[u] = pc[u]
  BY <1>2, <1>3 DEF Labels
<1>5. Typed'
  BY <1>1, <1>2, <1>3, <1>4 DEF Typed, RestTyped, PagesKept
<1>6. \A u \in Threads \ {t} : SameCall(u)
  BY <1>3, <1>4 DEF SameCall
<1>7. Ready(pc[t], loc[t])
  BY CallTypes
<1>8. CallOK(t)'
  BY <1>1, <1>3, <1>4, <1>7 DEF CallOK, Ready
<1>9. ASSUME NEW u \in Threads \ {t}
      PROVE  Apart(t, u)'
  <2>1. pc[u] \in {"new_page", "link"} => loc[u].page # loc[t].page
    BY <1>1 DEF CanWrite, CanRead, Extending
  <2>2. QED
    BY <1>3, <1>4, <2>1 DEF Apart
<1>10. QED
  BY <1>1, <1>5, <1>6, <1>8, <1>9, SoundKept DEF PagesKept

\* The page NewPage gives is one that no other thread has been given.
LEMMA NewPageKeeps ==
    ASSUME Sound, NEW t \in Threads, NEW p \in PageIds, NewPage(t, p)
    PROVE  Sound'
<1>1. PICK l : l = [loc[t] EXCEPT !.new = p]
  OBVIOUS
<1>2. /\ pc[t] = "new_page" /\ heap[p].type = "unborn" /\ Goto(t, "link", l)
      /\ heap' = [heap EXCEPT ![p].type = "ALLOCATED"] /\ rows' = rows
      /\ first_page_id' = first_page_id /\ last_page_id' = last_page_id
      /\ insert_hint' = insert_hint
  BY <1>1 DEF NewPage
<1>3. /\ pc \in [Threads -> Labels] /\ loc \in [Threads -> CallStates]
      /\ loc[t] \in CallStates /\ heap \in [PageIds -> PageStates] /\ heap[p] \in PageStates
  BY DEF Sound, Typed
<1>4. /\ l \in CallStates /\ l.new = p /\ l.page = loc[t].page /\ l.op = loc[t].op
      /\ l.tuple = loc[t].tuple /\ l.rid = loc[t].rid
  BY <1>1, <1>3 DEF CallStates
<1>5. /\ pc' \in [Threads -> Labels] /\ loc' \in [Threads -> CallStates]
      /\ pc'[t] = "link" /\ loc'[t] = l
      /\ \A u \in Threads \ {t} : pc'[u] = pc[u] /\ loc'[u] = loc[u]
  BY <1>2, <1>3, <1>4 DEF Goto, Labels
<1>6. /\ heap'[p] \in PageStates /\ heap'[p].type = "ALLOCATED"
      /\ heap'[p].next = heap[p].next /\ heap'[p].slots = heap[p].slots
      /\ \A q \in PageIds : q # p => heap'[q] = heap[q]
      /\ heap' \in [PageIds -> PageStates]
  BY <1>2, <1>3 DEF PageStates
<1>7. Fresh'
  BY <1>2, <1>6 DEF Sound, Fresh
<1>8. SameChain
  BY <1>2, <1>6 DEF SameChain
<1>9. Typed'
  BY <1>2, <1>5, <1>6 DEF Sound, Typed
<1>10. \A u \in Threads \ {t} : SameCall(u)
  BY <1>5 DEF SameCall
<1>11. /\ Ready(pc[t], loc[t]) /\ loc[t].page \in PageIds
       /\ heap[loc[t].page].type = "HEAP" /\ heap[loc[t].page].next = None
  BY <1>2 DEF Sound, CallOK, Ready
<1>12. Ready("link", l)
  BY <1>2, <1>4, <1>11 DEF Ready
<1>13. CallOK(t)'
  BY SMTT(30), <1>4, <1>5, <1>6, <1>8, <1>11, <1>12 DEF CallOK, SameChain
<1>14. ASSUME NEW u \in Threads \ {t}
       PROVE  Apart(t, u)'
  <2>1. Apart(t, u) /\ (pc[u] = "link" => heap[loc[u].new].type = "ALLOCATED")
    BY DEF Sound, CallOK
  <2>2. pc[u] = "link" => loc[u].new # p
    BY <1>2, <2>1
  <2>3. QED
    BY <1>2, <1>4, <1>5, <2>1, <2>2 DEF Apart
<1>15. QED
  BY <1>7, <1>8, <1>9, <1>10, <1>13, <1>14, SoundKept

\* A page that one thread links is neither extended nor linked by another.
LEMMA LinkKeeps ==
    ASSUME Sound, NEW t \in Threads, Link(t)
    PROVE  Sound'
<1>1. PICK p, new : p = loc[t].page /\ new = loc[t].new
  OBVIOUS
<1>2. Typed /\ Fresh /\ CallOK(t)
  BY DEF Sound
<1>3. /\ heap' \in [PageIds -> PageStates] /\ Fresh'
      /\ p \in PageIds /\ new \in PageIds /\ p # new
      /\ \A q \in PageIds : q # p /\ q # new => heap'[q] = heap[q]
  BY <1>1, <1>2, PageLinked
<1>4. heap[p].type = "HEAP" /\ heap[new].type = "ALLOCATED" /\ pc[t] = "link"
  BY <1>1, <1>2 DEF CallOK, Link
<1>5. /\ loc' = loc /\ pc' \in [Threads -> Labels] /\ pc'[t] = "publish"
      /\ \A u \in Threads \ {t} : pc'[u] = pc[u]
  BY <1>2 DEF Link, Goto, Typed, Labels
<1>6. Typed'
  BY <1>2, <1>3, <1>5 DEF Link, Typed
<1>7. ASSUME NEW u \in Threads \ {t}
      PROVE  CallOK(u)'
  <2>1. CallOK(u) /\ Apart(t, u)
    BY DEF Sound
  <2>2. Ready(pc'[u], loc'[u])
    BY <1>5, <2>1 DEF CallOK
  <2>3. pc[u] \in {"new_page", "link"} => heap'[loc[u].page] = heap[loc[u].page]
    <3>1. ASSUME pc[u] \in {"new_page", "link"}
          PROVE  loc[u].page \in PageIds /\ heap[loc[u].page].type = "HEAP" /\ loc[u].page # p
      BY <1>1, <1>4, <2>1, <3>1 DEF CallOK, Ready, Apart
    <3>2. QED
      BY <1>3, <1>4, <3>1
  <2>4. pc[u] = "link" => heap'[loc[u].new] = heap[loc[u].new]
    <3>1. ASSUME pc[u] = "link"
          PROVE  loc[u].new \in PageIds /\ heap[loc[u].new].type = "ALLOCATED" /\ loc[u].new # new
      BY <1>1, <1>4, <2>1, <3>1 DEF CallOK, Ready, Apart
    <3>2. QED
      BY <1>3, <1>4, <3>1
  <2>5. QED
    BY <1>5, <2>1, <2>2, <2>3, <2>4 DEF CallOK
<1>8. CallOK(t)'
  BY <1>2, <1>4, <1>5 DEF CallOK, Ready
<1>9. ASSUME NEW u \in Threads, NEW v \in Threads, u # v
      PROVE  Apart(u, v)'
  <2>1. Apart(u, v)
    BY <1>9 DEF Sound
  <2>2. QED
    BY <1>5, <2>1 DEF Apart
<1>10. Whole'
  <2>1. PICK n \in Nat \ {0} : \E s \in [1 .. n -> PageIds] : Chained(s, n)
    BY DEF Sound, Whole
  <2>2. PICK s \in [1 .. n -> PageIds] : Chained(s, n)
    BY <2>1
  <2>3. n + 1 \in Nat \ {0} /\ \E r \in [1 .. n + 1 -> PageIds] : Chained(r, n + 1)'
    BY SMTT(30), <1>2, <2>2, ChainGrows
  <2>4. QED
    BY <2>3 DEF Whole
<1>11. QED
  BY <1>3, <1>6, <1>7, <1>8, <1>9, <1>10 DEF Sound


\* An insert whose fetch or new page fails gives up.
LEMMA ExtensionFailsKeeps ==
    ASSUME Sound, NEW t \in Threads, AppendFails(t) \/ NewPageFails(t)
    PROVE  Sound'
<1>1. PagesKept /\ RestTyped /\ Return(t)
  BY OnlyCalls DEF AppendFails, NewPageFails, Fails
<1>2. QED
  BY <1>1, ReturnKeeps

\* The linked page is published as the last page, and the hint.
LEMMA PublishKeeps ==
    ASSUME Sound, NEW t \in Threads, Publish(t)
    PROVE  Sound'
<1>1. PICK rid : rid = <<loc[t].new, 1>>
  OBVIOUS
<1>2. pc[t] = "publish" /\ loc[t].new \in PageIds
  BY CallTypes DEF Publish, Ready
<1>3. rid \in RowIds
  BY <1>1, <1>2 DEF RowIds
<1>4. /\ heap' = heap /\ first_page_id' = first_page_id
      /\ last_page_id' \in PageIds /\ insert_hint' \in PageIds /\ Placed(t, rid)
  BY <1>1, <1>2 DEF Publish
<1>5. PagesKept
  BY <1>4, HeapUnchanged
<1>6. QED
  BY <1>2, <1>3, <1>4, <1>5, PlacedKeeps

\* A step that leaves every call where it is.
LEMMA CallsStay ==
    ASSUME Sound, PagesKept, RestTyped, pc' = pc, loc' = loc
    PROVE  Sound'
<1>1. Typed'
  BY DEF Sound, Typed, RestTyped, PagesKept, SameChain
<1>2. \A u \in Threads : SameCall(u)
  BY DEF SameCall
<1>3. \A u \in Threads : CallOK(u)'
  BY <1>2, CallKept DEF Sound, PagesKept
<1>4. \A u \in Threads : \A v \in Threads : u # v => Apart(u, v)'
  BY DEF Sound, Apart
<1>5. Whole'
  <2>1. PICK n \in Nat \ {0} : \E s \in [1 .. n -> PageIds] : Chained(s, n)
    BY DEF Sound, Whole
  <2>2. PICK s \in [1 .. n -> PageIds] : Chained(s, n)
    BY <2>1
  <2>3. Chained(s, n)'
    BY <2>2, ChainKept DEF PagesKept
  <2>4. QED
    BY <2>3 DEF Whole
<1>6. QED
  BY <1>1, <1>3, <1>4, <1>5 DEF Sound, PagesKept

\* What a deletion leaves typed.
LEMMA DeleteTypes ==
    ASSUME Sound, NEW rid \in RowIds, DeleteRow(rid), RowsTyped(rows')
    PROVE  PagesKept /\ RestTyped /\ Wrote(rid, Dead)
<1>1. PagesKept /\ Wrote(rid, Dead)
  BY RowDeleted DEF Sound
<1>2. rid[1] \in PageIds
  BY DEF RowIds
<1>3. insert_hint' \in PageIds /\ last_page_id' \in PageIds
  BY <1>2, NextPageTypes DEF DeleteRow
<1>4. QED
  BY <1>1, <1>3 DEF RestTyped

\* A row is deleted.
LEMMA DeleteKeeps ==
    ASSUME Sound, NEW t \in Threads, NEW rid \in DOMAIN rows, Delete(t, rid)
    PROVE  Sound'
<1>1. RowsTyped(rows) /\ rid \in RowIds
  BY DEF Sound, Typed, RowsTyped
<1>2. DeleteRow(rid) /\ rows' = Drop(rows, rid) /\ pc' = pc /\ loc' = loc
  BY DEF Delete
<1>3. RowsTyped(rows')
  BY <1>1, <1>2 DEF RowsTyped, Drop, Restrict
<1>4. PagesKept /\ RestTyped
  BY <1>1, <1>2, <1>3, DeleteTypes
<1>5. QED
  BY <1>2, <1>4, CallsStay

\* An update in place.
LEMMA UpdateSamePageKeeps ==
    ASSUME Sound, NEW t \in Threads, NEW rid \in DOMAIN rows, NEW tuple \in Tuples,
           UpdateSamePage(t, rid, tuple)
    PROVE  Sound'
<1>1. RowsTyped(rows) /\ rid \in RowIds /\ rows[rid].by \in Threads
  BY DEF Sound, Typed, RowsTyped
<1>2. /\ IsLive(rid) /\ heap' = With(rid[1], Updated(heap[rid[1]], rid[2], tuple))
      /\ rows' = Hold(rows, rows[rid].by, rid, tuple) /\ pc' = pc /\ loc' = loc
      /\ first_page_id' = first_page_id /\ last_page_id' = last_page_id
      /\ insert_hint' = insert_hint
  BY DEF UpdateSamePage
<1>3. PagesKept
  BY <1>1, <1>2, RowUpdated DEF Sound
<1>4. RowsTyped(rows')
  BY <1>1, <1>2, RowsKept
<1>5. RestTyped
  BY <1>2, <1>4 DEF Sound, Typed, RestTyped
<1>6. QED
  BY <1>2, <1>3, <1>5, CallsStay

\* An insert, or an update whose row does not fit, starts to look for a page.
LEMMA StartKeeps ==
    ASSUME Sound, NEW t \in Threads, NEW l \in CallStates, l.op # "none", l.tuple \in Tuples,
           l.op = "update" => l.rid \in RowIds,
           Goto(t, "insert", l), UNCHANGED <<table, rows>>
    PROVE  Sound'
<1>1. Ready("insert", l)
  BY DEF Ready
<1>2. PagesKept /\ RestTyped
  BY OnlyCalls
<1>3. "insert" \in Labels \ {"new_page", "link"}
  BY DEF Labels
<1>4. QED
  BY <1>1, <1>2, <1>3, GotoKeeps

\* An update that cannot remove the original returns its error.
LEMMA RemoveFailsKeeps ==
    ASSUME Sound, NEW t \in Threads, RemoveFails(t)
    PROVE  Sound'
<1>1. loc[t].new \in RowIds /\ loc[t].tuple \in Tuples /\ RowsTyped(rows)
  BY CallTypes DEF RemoveFails, Ready, Sound, Typed
<1>2. /\ Return(t) /\ rows' = Hold(rows, t, loc[t].new, loc[t].tuple)
      /\ UNCHANGED table
  BY DEF RemoveFails
<1>3. RestTyped
  BY <1>1, <1>2, RowsKept DEF RestTyped, table, Sound, Typed
<1>4. PagesKept
  BY <1>2, HeapUnchanged DEF table
<1>5. QED
  BY <1>2, <1>3, <1>4, ReturnKeeps

\* The end of an update marks the other calls that were to remove the same row.
LEMMA MovedOthers ==
    ASSUME Sound, NEW t \in Threads, NEW rid, pc' = [pc EXCEPT ![t] = "idle"],
           loc' = [u \in Threads |-> IF u = t THEN NoCall
                                     ELSE [loc[u] EXCEPT !.moved = @ \/ loc[u].rid = rid]]
    PROVE  /\ pc' \in [Threads -> Labels] /\ loc' \in [Threads -> CallStates]
           /\ pc'[t] = "idle" /\ loc'[t] = NoCall
           /\ \A u \in Threads \ {t} : SameCall(u)
<1>1. pc \in [Threads -> Labels] /\ \A u \in Threads : loc[u] \in CallStates
  BY DEF Sound, Typed
<1>2. \A u \in Threads : \A b \in BOOLEAN :
         /\ [loc[u] EXCEPT !.moved = b] \in CallStates
         /\ [loc[u] EXCEPT !.moved = b].op = loc[u].op
         /\ [loc[u] EXCEPT !.moved = b].tuple = loc[u].tuple
         /\ [loc[u] EXCEPT !.moved = b].rid = loc[u].rid
         /\ [loc[u] EXCEPT !.moved = b].page = loc[u].page
         /\ [loc[u] EXCEPT !.moved = b].new = loc[u].new
  BY <1>1 DEF CallStates
<1>3. \A u \in Threads \ {t} : \E b \in BOOLEAN : loc'[u] = [loc[u] EXCEPT !.moved = b]
  <2>1. \A u \in Threads \ {t} : (loc[u].moved \/ loc[u].rid = rid) \in BOOLEAN
    OBVIOUS
  <2>2. QED
    BY <2>1
<1>4. NoCall \in CallStates
  BY CallTypes
<1>5. loc'[t] = NoCall /\ loc' \in [Threads -> CallStates]
  BY <1>2, <1>3, <1>4
<1>6. /\ pc' \in [Threads -> Labels] /\ pc'[t] = "idle"
      /\ \A u \in Threads \ {t} : pc'[u] = pc[u]
  BY <1>1 DEF Labels
<1>7. ASSUME NEW u \in Threads \ {t}
      PROVE  SameCall(u)
  <2>1. PICK b \in BOOLEAN : loc'[u] = [loc[u] EXCEPT !.moved = b]
    BY <1>3
  <2>2. /\ loc'[u].op = loc[u].op /\ loc'[u].tuple = loc[u].tuple /\ loc'[u].rid = loc[u].rid
        /\ loc'[u].page = loc[u].page /\ loc'[u].new = loc[u].new
    BY <1>1, <2>1 DEF CallStates
  <2>3. QED
    BY <1>6, <2>2 DEF SameCall
<1>8. QED
  BY <1>5, <1>6, <1>7

\* An update removes the original.
LEMMA RemoveOriginalKeeps ==
    ASSUME Sound, NEW t \in Threads, RemoveOriginal(t)
    PROVE  Sound'
<1>1. PICK rid : rid = loc[t].rid
  OBVIOUS
<1>2. /\ rid \in RowIds /\ loc[t].new \in RowIds /\ loc[t].tuple \in Tuples
      /\ RowsTyped(rows)
  BY <1>1, CallTypes DEF RemoveOriginal, Ready, Sound, Typed
<1>3. /\ DeleteRow(rid)
      /\ rows' = Hold(Drop(rows, rid), t, loc[t].new, loc[t].tuple)
      /\ pc' = [pc EXCEPT ![t] = "idle"]
      /\ loc' = [u \in Threads |-> IF u = t THEN NoCall
                                   ELSE [loc[u] EXCEPT !.moved = @ \/ loc[u].rid = rid]]
  BY <1>1 DEF RemoveOriginal
<1>4. RowsTyped(rows')
  BY <1>2, <1>3, RowsKept
<1>5. PagesKept /\ RestTyped
  BY <1>2, <1>3, <1>4, DeleteTypes
<1>6. /\ pc' \in [Threads -> Labels] /\ loc' \in [Threads -> CallStates]
      /\ pc'[t] = "idle" /\ loc'[t] = NoCall /\ \A u \in Threads \ {t} : SameCall(u)
  BY <1>3, MovedOthers
<1>7. Typed'
  BY <1>5, <1>6 DEF Sound, Typed, RestTyped, PagesKept, SameChain
<1>8. Ready("idle", NoCall)
  BY CallTypes
<1>9. CallOK(t)' /\ \A u \in Threads \ {t} : Apart(t, u)'
  BY <1>6, <1>8 DEF CallOK, Apart
<1>10. QED
  BY <1>5, <1>6, <1>7, <1>9, SoundKept DEF PagesKept

\* TableIterator: a scan moves no page and no other call.
LEMMA IteratingKeeps ==
    ASSUME Sound, NEW t \in Threads, Iterating(t) \/ Scan(t)
    PROVE  Sound'
<1>1. UNCHANGED <<table, rows>>
  BY DEF Iterating, Next_Advance, Next_Row, Next_Page, Next_Fails, EndScan, Scan
<1>2. PagesKept /\ RestTyped
  BY <1>1, OnlyCalls
<1>3. \/ pc' = pc /\ loc' = loc
      \/ \E label \in {"idle", "next"} : Goto(t, label, NoCall)
  BY DEF Iterating, Next_Advance, Next_Row, Next_Page, Next_Fails, EndScan, Scan, Return
<1>4. CASE pc' = pc /\ loc' = loc
  BY <1>2, <1>4, CallsStay
<1>5. CASE \E label \in {"idle", "next"} : Goto(t, label, NoCall)
  <2>1. PICK label \in {"idle", "next"} : Goto(t, label, NoCall)
    BY <1>5
  <2>2. NoCall \in CallStates /\ Ready(label, NoCall)
    BY CallTypes
  <2>3. label \in Labels \ {"new_page", "link"}
    BY DEF Labels
  <2>4. QED
    BY <1>2, <2>1, <2>2, <2>3, GotoKeeps
<1>6. QED
  BY <1>3, <1>4, <1>5

\* The table is opened again at a page of the chain.
LEMMA OpenKeeps ==
    ASSUME Sound, Open
    PROVE  Sound'
<1>1. /\ heap' = heap /\ first_page_id' = first_page_id /\ pc' = pc /\ loc' = loc
      /\ rows' = rows /\ last_page_id' \in PageIds /\ insert_hint' = first_page_id
  BY DEF Open
<1>2. PagesKept /\ RestTyped
  BY <1>1, HeapUnchanged DEF RestTyped, Sound, Typed
<1>3. QED
  BY <1>1, <1>2, CallsStay

\* Every step of an insert keeps Sound.
LEMMA InsertingKeeps ==
    ASSUME Sound, NEW t \in Threads, Inserting(t)
    PROVE  Sound'
BY LoadHintKeeps, ProbeInsertKeeps, ProbeFullKeeps, ProbeFailsKeeps, LoadLastKeeps,
   AppendFollowKeeps, AppendFullKeeps, NewPageKeeps, LinkKeeps, ExtensionFailsKeeps,
   PublishKeeps DEF Inserting

\* Every call keeps Sound.
LEMMA CallKeeps ==
    ASSUME Sound, NEW t \in Threads, Call(t)
    PROVE  Sound'
<1>1. ASSUME NEW tuple \in Tuples, StartInsert(t, tuple)
      PROVE  Sound'
  <2>1. PICK l : l = [NoCall EXCEPT !.op = "insert", !.tuple = tuple]
    OBVIOUS
  <2>2. l \in CallStates /\ l.op = "insert" /\ l.tuple = tuple
    BY <2>1 DEF NoCall, CallStates
  <2>3. Goto(t, "insert", l) /\ UNCHANGED <<table, rows>>
    BY <1>1, <2>1 DEF StartInsert
  <2>4. QED
    BY <2>2, <2>3, StartKeeps
<1>2. ASSUME NEW rid \in DOMAIN rows, NEW tuple \in Tuples, UpdateDoesNotFit(t, rid, tuple)
      PROVE  Sound'
  <2>1. PICK l : l = [NoCall EXCEPT !.op = "update", !.tuple = tuple, !.rid = rid]
    OBVIOUS
  <2>2. rid \in RowIds
    BY DEF Sound, Typed, RowsTyped
  <2>3. l \in CallStates /\ l.op = "update" /\ l.tuple = tuple /\ l.rid = rid
    BY <2>1, <2>2 DEF NoCall, CallStates
  <2>4. Goto(t, "insert", l) /\ UNCHANGED <<table, rows>>
    BY <1>2, <2>1 DEF UpdateDoesNotFit
  <2>5. QED
    BY <2>2, <2>3, <2>4, StartKeeps
<1>3. QED
  BY <1>1, <1>2, DeleteKeeps, UpdateSamePageKeeps, IteratingKeeps DEF Call

\* At first the chain is the one page that Create made.
LEMMA SoundInit == Init => Sound
<1> SUFFICES ASSUME Init
             PROVE  Sound
  OBVIOUS
<1>1. /\ HeapOf(EmptyPage, None) \in PageStates /\ HeapOf(EmptyPage, None).type = "HEAP"
      /\ HeapOf(EmptyPage, None).next = None
  BY DEF HeapOf, EmptyPage, PageStates, Slots
<1>2. Blank \in PageStates /\ Blank.type = "unborn" /\ Blank.slots = <<>>
  BY DEF Blank, PageStates, Slots
<1>3. /\ first_page_id \in PageIds
      /\ heap[first_page_id] = HeapOf(EmptyPage, None)
      /\ \A p \in PageIds : p # first_page_id => heap[p] = Blank
      /\ heap \in [PageIds -> PageStates]
  BY <1>1, <1>2 DEF Init
<1>4. NoCall \in CallStates /\ Ready("idle", NoCall)
  BY DEF NoCall, CallStates, Ready
<1>5. pc \in [Threads -> Labels] /\ loc \in [Threads -> CallStates]
  BY <1>4 DEF Init, Labels
<1>6. Typed
  BY SMTT(30), <1>3, <1>5 DEF Init, Typed, RowsTyped
<1>7. Fresh
  BY <1>1, <1>2, <1>3 DEF Fresh
<1>8. \A t \in Threads : CallOK(t)
  BY <1>4 DEF Init, CallOK
<1>9. \A t \in Threads : \A u \in Threads : Apart(t, u)
  BY DEF Init, Apart
<1>10. Whole
  <2>1. PICK s : s = [i \in 1 .. 1 |-> first_page_id]
    OBVIOUS
  <2>2. s \in [1 .. 1 -> PageIds] /\ s[1] = first_page_id
    BY SMTT(30), <1>3, <2>1
  <2>3. Chained(s, 1)
    BY SMTT(30), <1>1, <1>2, <1>3, <2>2 DEF Chained
  <2>4. 1 \in Nat \ {0}
    OBVIOUS
  <2>5. QED
    BY <2>2, <2>3, <2>4 DEF Whole
<1>11. QED
  BY <1>6, <1>7, <1>8, <1>9, <1>10 DEF Sound

\* Every step keeps Sound.
LEMMA SoundNext == Sound /\ [Next]_vars => Sound'
<1> SUFFICES ASSUME Sound, [Next]_vars
             PROVE  Sound'
  OBVIOUS
<1>1. CASE UNCHANGED vars
  <2>1. UNCHANGED <<table, rows>> /\ pc' = pc /\ loc' = loc
    BY <1>1 DEF vars
  <2>2. QED
    BY <2>1, OnlyCalls, CallsStay
<1>2. CASE Open \/ Rest
  BY <1>1, <1>2, OpenKeeps DEF Rest
<1>3. ASSUME NEW t \in Threads, Inserting(t) \/ Removing(t) \/ Iterating(t) \/ Call(t)
      PROVE  Sound'
  BY <1>3, InsertingKeeps, RemoveOriginalKeeps, RemoveFailsKeeps, IteratingKeeps, CallKeeps
     DEF Removing
<1>4. QED
  BY <1>1, <1>2, <1>3 DEF Next

\* The chain is sound, whatever the threads do: the last page is extended by one
\* thread at a time, with a page of its own (table_heap.cpp:155-217).
THEOREM SoundInvariant == Spec => []Sound
BY SoundInit, SoundNext, PTL DEF Spec

\* From its first page, the chain leads through every heap page once.
THEOREM ChainStaysWhole == Spec => []ChainIsWhole
<1>1. Sound => ChainIsWhole
  <2> SUFFICES ASSUME Sound
               PROVE  ChainIsWhole
    OBVIOUS
  <2>1. PICK n \in Nat \ {0} : \E s \in [1 .. n -> PageIds] : Chained(s, n)
    BY DEF Sound, Whole
  <2>2. PICK s \in [1 .. n -> PageIds] : Chained(s, n)
    BY <2>1
  <2>3. s \in [1 .. n -> HeapPages] /\ \A p \in HeapPages : \E i \in 1 .. n : s[i] = p
    BY SMTT(30), <2>2 DEF Chained, HeapPages
  <2>4. ExistsBijection(1 .. n, HeapPages)
    BY SMTT(30), <2>2, <2>3 DEF Chained, ExistsBijection, Bijection, Injection, Surjection, IsInjective
  <2>5. Cardinality(HeapPages) = n
    <3>1. IsFiniteSet(1 .. n) /\ Cardinality(1 .. n) = n
      BY FS_Interval
    <3>2. QED
      BY <2>4, <3>1, FS_Bijection
  <2>6. QED
    BY SMTT(30), <2>2, <2>3, <2>5 DEF ChainIsWhole, Chained
<1>2. QED
  BY <1>1, SoundInvariant, PTL


(***************************************************************************)
(* The rows.                                                               *)
(***************************************************************************)

\* A call has put a row on a page and not returned it yet.
Copying(t) == pc[t] \in {"remove", "publish"}

\* The RID of that row.
Copy(t) == IF pc[t] = "remove" THEN loc[t].new ELSE <<loc[t].new, 1>>

\* Which row is at which RID: one a caller holds, or the copy of one call; and a
\* row that a call is moving is still there, and still its caller's.
Held ==
    /\ \A rid \in DOMAIN rows : Store[rid] = rows[rid].tuple
    /\ \A t \in Threads : Copying(t) =>
          Copy(t) \notin DOMAIN rows /\ Store[Copy(t)] = loc[t].tuple
    /\ \A t \in Threads : \A u \in Threads :
          t # u /\ Copying(t) /\ Copying(u) => Copy(t) # Copy(u)
    /\ \A rid \in RowIds : Store[rid] # Dead /\ rid \notin DOMAIN rows =>
          \E t \in Threads : Copying(t) /\ Copy(t) = rid
    /\ \A t \in Threads : loc[t].op = "update" =>
          loc[t].rid \in DOMAIN rows /\ rows[loc[t].rid].by = t

\* Thread u is neither putting a row at rid nor moving the row there.
Elsewhere(u, rid) ==
    /\ Copying(u) => Copy(u) # rid
    /\ loc[u].op = "update" => loc[u].rid # rid

\* A copy has a RID and a tuple.
LEMMA CopyTypes ==
    ASSUME Sound, NEW t \in Threads, Copying(t)
    PROVE  Copy(t) \in RowIds /\ loc[t].tuple \in Tuples
<1>1. Ready(pc[t], loc[t])
  BY CallTypes
<1>2. CASE pc[t] = "remove"
  BY <1>1, <1>2 DEF Copy, Ready
<1>3. CASE pc[t] = "publish"
  BY SMTT(30), <1>1, <1>3 DEF Copy, Ready, RowIds
<1>4. QED
  BY <1>2, <1>3 DEF Copying

\* Nobody else is at a free slot, at a thread's own copy, or at its own row.
LEMMA OthersElsewhere ==
    ASSUME Sound, Held, NEW t \in Threads, NEW u \in Threads, t # u
    PROVE  /\ \A rid \in RowIds : Store[rid] = Dead => Elsewhere(u, rid)
           /\ Copying(t) => Elsewhere(u, Copy(t))
           /\ \A rid \in DOMAIN rows : rows[rid].by = t => Elsewhere(u, rid)
<1>1. \A rid \in DOMAIN rows : Store[rid] \in Tuples
  BY DEF Sound, Typed, RowsTyped, Held
<1>2. Copying(u) => Store[Copy(u)] \in Tuples /\ Copy(u) \notin DOMAIN rows
  BY CopyTypes DEF Held
<1>3. loc[u].op = "update" => loc[u].rid \in DOMAIN rows /\ rows[loc[u].rid].by = u
  BY DEF Held
<1>4. Copying(t) => Copy(t) \notin DOMAIN rows /\ (Copying(u) => Copy(t) # Copy(u))
  BY DEF Held
<1>5. QED
  BY <1>1, <1>2, <1>3, <1>4, TuplesLive DEF Elsewhere

\* A step of thread t touches no row outside R, and the other threads are elsewhere.
Moves(t, R) ==
    /\ DOMAIN rows' \subseteq RowIds
    /\ \A u \in Threads \ {t} : SameCall(u) /\ \A rid \in R : Elsewhere(u, rid)
    /\ \A rid \in RowIds \ R : /\ Store'[rid] = Store[rid]
                               /\ rid \in DOMAIN rows' <=> rid \in DOMAIN rows
                               /\ rid \in DOMAIN rows => rows'[rid] = rows[rid]

\* The rows in R are the callers' again, or the copy of thread t, and t has no other.
Settles(t, R) ==
    /\ \A rid \in R : rid \in DOMAIN rows' => Store'[rid] = rows'[rid].tuple
    /\ \A rid \in R : rid \notin DOMAIN rows' /\ Store'[rid] # Dead =>
          Copying(t)' /\ Copy(t)' = rid
    /\ Copying(t) => Copy(t) \in R \/ (Copying(t)' /\ Copy(t)' = Copy(t))
    /\ Copying(t)' => /\ Copy(t)' \notin DOMAIN rows'
                      /\ Store'[Copy(t)'] = loc'[t].tuple
                      /\ Copy(t)' \in R \/ (Copying(t) /\ Copy(t)' = Copy(t))
    /\ loc'[t].op = "update" =>
          loc'[t].rid \in DOMAIN rows' /\ rows'[loc'[t].rid].by = t

\* Which row is where after such a step.
LEMMA HeldKept ==
    ASSUME Sound, Held, NEW t \in Threads, NEW R \in SUBSET RowIds, Moves(t, R), Settles(t, R)
    PROVE  Held'
<1> USE DEF Moves, Settles
<1>1. /\ \A u \in Threads : Copying(u) => Copy(u) \in RowIds
      /\ DOMAIN rows \subseteq RowIds
  BY CopyTypes DEF Sound, Typed, RowsTyped
<1>2. \A u \in Threads \ {t} : /\ Copying(u)' <=> Copying(u)
                               /\ Copy(u)' = Copy(u)
                               /\ loc'[u].op = loc[u].op /\ loc'[u].rid = loc[u].rid
                               /\ loc'[u].tuple = loc[u].tuple
  BY DEF SameCall, Copying, Copy
<1>3. \A rid \in DOMAIN rows' : Store'[rid] = rows'[rid].tuple
  BY <1>1 DEF Held
<1>4. ASSUME NEW u \in Threads, Copying(u)'
      PROVE  Copy(u)' \notin DOMAIN rows' /\ Store'[Copy(u)'] = loc'[u].tuple
  <2>1. CASE u = t
    BY <1>4, <2>1
  <2>2. CASE u # t
    <3>1. Copying(u) /\ Copy(u)' = Copy(u) /\ Copy(u) \in RowIds \ R
      BY <1>1, <1>2, <1>4, <2>2 DEF Elsewhere
    <3>2. Copy(u) \notin DOMAIN rows /\ Store[Copy(u)] = loc[u].tuple
      BY <3>1 DEF Held
    <3>3. QED
      BY <1>1, <1>2, <2>2, <3>1, <3>2
  <2>3. QED
    BY <2>1, <2>2
<1>5. ASSUME NEW u \in Threads \ {t}, Copying(u)', Copying(t)'
      PROVE  Copy(u)' # Copy(t)'
  <2>1. Copying(u) /\ Copy(u)' = Copy(u) /\ Copy(u) \notin R
    BY <1>2, <1>5 DEF Elsewhere
  <2>2. Copying(t) => Copy(u) # Copy(t)
    BY <2>1 DEF Held
  <2>3. QED
    BY <1>5, <2>1, <2>2
<1>6. ASSUME NEW u \in Threads, NEW v \in Threads, u # v, Copying(u)', Copying(v)'
      PROVE  Copy(u)' # Copy(v)'
  <2>1. CASE u = t \/ v = t
    BY SMTT(30), <1>5, <1>6, <2>1
  <2>2. CASE u # t /\ v # t
    BY SMTT(30), <1>2, <1>6, <2>2 DEF Held
  <2>3. QED
    BY <2>1, <2>2
<1>7. ASSUME NEW rid \in RowIds, Store'[rid] # Dead, rid \notin DOMAIN rows'
      PROVE  \E u \in Threads : Copying(u)' /\ Copy(u)' = rid
  <2>1. CASE rid \in R
    BY <1>7, <2>1
  <2>2. CASE rid \notin R
    <3>1. PICK u \in Threads : Copying(u) /\ Copy(u) = rid
      BY <1>7, <2>2 DEF Held
    <3>2. QED
      BY <1>2, <2>2, <3>1
  <2>3. QED
    BY <2>1, <2>2
<1>8. ASSUME NEW u \in Threads, loc'[u].op = "update"
      PROVE  loc'[u].rid \in DOMAIN rows' /\ rows'[loc'[u].rid].by = u
  <2>1. CASE u = t
    BY <1>8, <2>1
  <2>2. CASE u # t
    <3>1. /\ loc[u].rid \in DOMAIN rows /\ rows[loc[u].rid].by = u
          /\ loc'[u].rid = loc[u].rid /\ loc[u].rid \notin R
      BY SMTT(30), <1>2, <1>8, <2>2 DEF Held, Elsewhere
    <3>2. QED
      BY <1>1, <3>1
  <2>3. QED
    BY <2>1, <2>2
<1>9. QED
  BY <1>3, <1>4, <1>6, <1>7, <1>8 DEF Held


\* A call goes on; the others stay.
LEMMA GotoOthers ==
    ASSUME Sound, NEW t \in Threads, NEW label, NEW l, Goto(t, label, l)
    PROVE  /\ pc'[t] = label /\ loc'[t] = l
           /\ \A u \in Threads \ {t} : SameCall(u)
<1>1. pc \in [Threads -> Labels] /\ loc \in [Threads -> CallStates]
  BY DEF Sound, Typed
<1>2. QED
  BY <1>1 DEF Goto, SameCall

\* A step that moves no row.
LEMMA HeldQuiet ==
    ASSUME Sound, Held, NEW t \in Threads, \A u \in Threads \ {t} : SameCall(u),
           Store' = Store, rows' = rows,
           Copying(t)' <=> Copying(t),
           Copying(t) => Copy(t)' = Copy(t) /\ loc'[t].tuple = loc[t].tuple,
           loc'[t].op = "update" => loc'[t].rid \in DOMAIN rows /\ rows[loc'[t].rid].by = t
    PROVE  Held'
<1>1. DOMAIN rows \subseteq RowIds
  BY DEF Sound, Typed, RowsTyped
<1>2. \A u \in Threads : Copying(u) => Copy(u) \in RowIds
  BY CopyTypes
<1>3. Copying(t) => Copy(t) \notin DOMAIN rows /\ Store[Copy(t)] = loc[t].tuple
  BY DEF Held
<1>4. PICK R \in SUBSET RowIds : R = {}
  OBVIOUS
<1>5. \A rid : rid \notin R
  BY <1>4
<1>6. Moves(t, R)
  BY <1>1, <1>5 DEF Moves
<1>7. Settles(t, R)
  BY <1>3, <1>5 DEF Settles
<1>8. QED
  BY <1>6, <1>7, HeldKept

\* A step that takes a call on and moves no row.
LEMMA HeldGoto ==
    ASSUME Sound, Held, NEW t \in Threads, Store' = Store, rows' = rows,
           ~Copying(t), NEW label \in Labels \ {"remove", "publish"}, NEW l, Goto(t, label, l),
           l.op = "update" => l.rid \in DOMAIN rows /\ rows[l.rid].by = t
    PROVE  Held'
<1>1. /\ pc'[t] = label /\ loc'[t] = l
      /\ \A u \in Threads \ {t} : SameCall(u)
  BY GotoOthers
<1>2. ~Copying(t)'
  BY <1>1 DEF Copying
<1>3. QED
  BY <1>1, <1>2, HeldQuiet

\* The store is what the slots hold.
LEMMA SameStore ==
    ASSUME \A p \in PageIds : heap'[p].slots = heap[p].slots
    PROVE  Store' = Store
<1>1. \A rid \in RowIds : rid[1] \in PageIds
  BY DEF RowIds
<1>2. QED
  BY <1>1 DEF Store

\* The steps of an insert that move no row.
Quiet(t) ==
    \/ LoadHint(t) \/ ProbeFull(t) \/ ProbeFails(t) \/ LoadLast(t) \/ AppendFollow(t)
    \/ AppendFull(t) \/ AppendFails(t) \/ (\E p \in PageIds : NewPage(t, p)) \/ NewPageFails(t)

\* The steps of an insert that store no row.
LEMMA QuietKeeps ==
    ASSUME Sound, Held, NEW t \in Threads, Quiet(t)
    PROVE  Held'
<1>1. rows' = rows /\ ~Copying(t)
  BY DEF Quiet, LoadHint, ProbeFull, ProbeFails, LoadLast, AppendFollow, AppendFull, AppendFails,
         NewPage, NewPageFails, Fails, Copying
<1>2. Store' = Store
  <2>1. CASE heap' = heap
    BY <2>1, SameStore
  <2>2. CASE \E p \in PageIds : NewPage(t, p)
    <3>1. PICK p \in PageIds : heap' = [heap EXCEPT ![p].type = "ALLOCATED"]
      BY <2>2 DEF NewPage
    <3>2. heap \in [PageIds -> PageStates]
      BY DEF Sound, Typed
    <3>3. \A q \in PageIds : heap'[q].slots = heap[q].slots
      BY <3>1, <3>2 DEF PageStates
    <3>4. QED
      BY <3>3, SameStore
  <2>3. QED
    BY <2>1, <2>2 DEF Quiet, LoadHint, ProbeFull, ProbeFails, LoadLast, AppendFollow, AppendFull,
                      AppendFails, NewPageFails, table
<1>3. loc[t] \in CallStates
  BY CallTypes
<1>4. PICK label \in Labels \ {"remove", "publish"} : \E l :
         /\ Goto(t, label, l)
         /\ l.op = "none" \/ (l.op = loc[t].op /\ l.rid = loc[t].rid)
  <2>1. CASE LoadHint(t)
    <3>1. PICK l : l = [loc[t] EXCEPT !.page = insert_hint, !.from_hint = TRUE, !.probe = 0]
      OBVIOUS
    <3>2. l.op = loc[t].op /\ l.rid = loc[t].rid
      BY <1>3, <3>1 DEF CallStates
    <3>3. Goto(t, "probe", l)
      BY <2>1, <3>1 DEF LoadHint
    <3>4. QED
      BY <3>2, <3>3 DEF Labels
  <2>2. ASSUME NEW p, NextProbe(t, p)
        PROVE  \E label \in Labels \ {"remove", "publish"} : \E l :
                  Goto(t, label, l) /\ l.op = loc[t].op /\ l.rid = loc[t].rid
    <3>1. PICK l, k : /\ k = loc[t].probe + 1
                      /\ l = [loc[t] EXCEPT !.page = p, !.from_hint = FALSE, !.probe = k]
      OBVIOUS
    <3>2. l.op = loc[t].op /\ l.rid = loc[t].rid
      BY <1>3, <3>1 DEF CallStates
    <3>3. \E label \in {"probe", "load_last"} : Goto(t, label, l)
      BY <2>2, <3>1 DEF NextProbe
    <3>4. QED
      BY <3>2, <3>3 DEF Labels
  <2>3. CASE ProbeFull(t)
    BY <2>2, <2>3 DEF ProbeFull
  <2>4. CASE Return(t)
    BY <2>4 DEF Return, NoCall, Labels
  <2>5. CASE ProbeFails(t)
    BY <2>2, <2>4, <2>5 DEF ProbeFails, Fails
  <2>6. CASE LoadLast(t)
    <3>1. PICK l : l = [loc[t] EXCEPT !.page = last_page_id, !.probe = 0]
      OBVIOUS
    <3>2. l.op = loc[t].op /\ l.rid = loc[t].rid
      BY <1>3, <3>1 DEF CallStates
    <3>3. Goto(t, "append", l)
      BY <2>6, <3>1 DEF LoadLast
    <3>4. QED
      BY <3>2, <3>3 DEF Labels
  <2>7. CASE AppendFollow(t)
    BY SMTT(30), <1>3, <2>7 DEF AppendFollow, Labels, CallStates
  <2>8. CASE AppendFull(t)
    BY <2>8 DEF AppendFull, Labels
  <2>9. CASE \E p \in PageIds : NewPage(t, p)
    BY SMTT(30), <1>3, <2>9 DEF NewPage, Labels, CallStates
  <2>10. CASE AppendFails(t) \/ NewPageFails(t)
    BY <2>4, <2>10 DEF AppendFails, NewPageFails, Fails
  <2>11. QED
    BY <2>1, <2>3, <2>5, <2>6, <2>7, <2>8, <2>9, <2>10 DEF Quiet
<1>5. PICK l : /\ Goto(t, label, l)
               /\ l.op = "none" \/ (l.op = loc[t].op /\ l.rid = loc[t].rid)
  BY <1>4
<1>6. l.op = "update" => l.rid \in DOMAIN rows /\ rows[l.rid].by = t
  BY <1>5 DEF Held
<1>7. QED
  BY <1>1, <1>2, <1>5, <1>6, HeldGoto


\* What a write does to the store.
LEMMA WroteFacts ==
    ASSUME NEW rid \in RowIds, NEW x, Wrote(rid, x)
    PROVE  Store'[rid] = x /\ \A r \in RowIds \ {rid} : Store'[r] = Store[r]
BY DEF Wrote, Store

\* A held row is not dead.
LEMMA HeldIsLive ==
    ASSUME Sound, Held
    PROVE  /\ DOMAIN rows \subseteq RowIds
           /\ \A rid \in DOMAIN rows : Store[rid] = rows[rid].tuple /\ Store[rid] # Dead
BY SMTT(30), TuplesLive DEF Sound, Typed, RowsTyped, Held

\* An insert puts its row in a free slot.
LEMMA PlacedHeld ==
    ASSUME Sound, Held, NEW t \in Threads, ~Copying(t), NEW rid \in RowIds, Store[rid] = Dead,
           Wrote(rid, loc[t].tuple), Placed(t, rid)
    PROVE  Held'
<1>1. PICK R \in SUBSET RowIds : R = {rid}
  OBVIOUS
<1>2. Store'[rid] = loc[t].tuple /\ \A r \in RowIds \ {rid} : Store'[r] = Store[r]
  BY WroteFacts
<1>3. DOMAIN rows \subseteq RowIds /\ rid \notin DOMAIN rows
  BY HeldIsLive
<1>4. \A u \in Threads \ {t} : Elsewhere(u, rid)
  BY OthersElsewhere
<1>5. CASE loc[t].op = "insert"
  <2>1. /\ pc'[t] = "idle" /\ loc'[t] = NoCall /\ \A u \in Threads \ {t} : SameCall(u)
        /\ rows' = Hold(rows, t, rid, loc[t].tuple)
    BY <1>5, GotoOthers DEF Placed, Return
  <2>2. /\ DOMAIN rows' = DOMAIN rows \cup {rid} /\ rows'[rid].tuple = loc[t].tuple
        /\ \A x \in DOMAIN rows : x # rid => rows'[x] = rows[x]
    BY <2>1 DEF Hold
  <2>3. ~Copying(t)' /\ loc'[t].op = "none"
    BY <2>1 DEF Copying, NoCall
  <2>4. Moves(t, R)
    BY <1>1, <1>2, <1>3, <1>4, <2>1, <2>2 DEF Moves
  <2>5. Settles(t, R)
    BY <1>1, <1>2, <2>2, <2>3 DEF Settles
  <2>6. QED
    BY <2>4, <2>5, HeldKept
<1>6. CASE loc[t].op = "update"
  <2>1. PICK l : l = [loc[t] EXCEPT !.new = rid, !.page = None, !.probe = 0]
    OBVIOUS
  <2>2. /\ pc'[t] = "remove" /\ loc'[t] = l /\ \A u \in Threads \ {t} : SameCall(u)
        /\ rows' = rows
    BY <1>6, <2>1, GotoOthers DEF Placed
  <2>3. l.new = rid /\ l.tuple = loc[t].tuple /\ l.op = loc[t].op /\ l.rid = loc[t].rid
    BY <2>1, CallTypes DEF CallStates
  <2>4. Copying(t)' /\ Copy(t)' = rid
    BY <2>2, <2>3 DEF Copying, Copy
  <2>5. Moves(t, R)
    BY <1>1, <1>2, <1>3, <1>4, <2>2 DEF Moves
  <2>6. loc'[t].op = "update" => loc'[t].rid \in DOMAIN rows' /\ rows'[loc'[t].rid].by = t
    BY <2>2, <2>3 DEF Held
  <2>7. Settles(t, R)
    BY <1>1, <1>2, <1>3, <2>2, <2>3, <2>4, <2>6 DEF Settles
  <2>8. QED
    BY <2>5, <2>7, HeldKept
<1>7. QED
  BY <1>5, <1>6 DEF Placed

\* A probe or an append stores its row on a page of the chain.
LEMMA InsertHeld ==
    ASSUME Sound, Held, NEW t \in Threads, ProbeInsert(t) \/ AppendInsert(t)
    PROVE  Held'
<1>1. PICK p, tuple, rid :
         p = loc[t].page /\ tuple = loc[t].tuple /\ rid = <<p, InsertSlot(heap[p])>>
  OBVIOUS
<1>2. /\ pc[t] \in {"probe", "append"} /\ heap[p].type = "HEAP"
      /\ heap' = With(p, Taken(heap[p], tuple)) /\ Placed(t, rid)
      /\ first_page_id' = first_page_id
  BY <1>1 DEF ProbeInsert, AppendInsert
<1>3. p \in PageIds /\ tuple \in Tuples
  BY <1>1, <1>2, CallTypes DEF Ready
<1>4. rid \in RowIds /\ Store[rid] = Dead /\ Wrote(rid, tuple)
  BY <1>1, <1>2, <1>3, RowTaken DEF Sound
<1>5. ~Copying(t)
  BY <1>2 DEF Copying
<1>6. QED
  BY <1>1, <1>2, <1>4, <1>5, PlacedHeld

\* A page that is linked has its row, which is not returned yet.
LEMMA LinkHeld ==
    ASSUME Sound, Held, NEW t \in Threads, Link(t)
    PROVE  Held'
<1>1. PICK rid, tuple : rid = <<loc[t].new, 1>> /\ tuple = loc[t].tuple
  OBVIOUS
<1>2. PICK R : R = {rid}
  OBVIOUS
<1>3. rid \in RowIds /\ Store[rid] = Dead /\ Wrote(rid, tuple)
  BY <1>1, PageLinked DEF Sound
<1>4. Store'[rid] = tuple /\ \A r \in RowIds \ {rid} : Store'[r] = Store[r]
  BY <1>3, WroteFacts
<1>5. DOMAIN rows \subseteq RowIds /\ rid \notin DOMAIN rows
  BY <1>3, HeldIsLive
<1>6. \A u \in Threads \ {t} : Elsewhere(u, rid)
  BY <1>3, OthersElsewhere
<1>7. /\ pc[t] = "link" /\ pc'[t] = "publish" /\ loc'[t] = loc[t] /\ rows' = rows
      /\ \A u \in Threads \ {t} : SameCall(u)
  BY GotoOthers DEF Link
<1>8. ~Copying(t) /\ Copying(t)' /\ Copy(t)' = rid
  BY <1>1, <1>7 DEF Copying, Copy
<1>9. Moves(t, R)
  BY <1>2, <1>4, <1>5, <1>6, <1>7 DEF Moves
<1>10. loc'[t].op = "update" => loc'[t].rid \in DOMAIN rows' /\ rows'[loc'[t].rid].by = t
  BY <1>7 DEF Held
<1>11. Settles(t, R)
  BY <1>1, <1>2, <1>4, <1>5, <1>7, <1>8, <1>10 DEF Settles
<1>12. QED
  BY <1>2, <1>3, <1>9, <1>11, HeldKept

\* A copy becomes a row of its caller.
LEMMA ReturnedHeld ==
    ASSUME Sound, Held, NEW t \in Threads, Copying(t), Store' = Store, Return(t),
           rows' = Hold(rows, t, Copy(t), loc[t].tuple)
    PROVE  Held'
<1>1. PICK rid : rid = Copy(t)
  OBVIOUS
<1>2. PICK R : R = {rid}
  OBVIOUS
<1>3. rid \in RowIds /\ Store[rid] = loc[t].tuple
  BY <1>1, CopyTypes DEF Held
<1>4. DOMAIN rows \subseteq RowIds
  BY HeldIsLive
<1>5. \A u \in Threads \ {t} : Elsewhere(u, rid)
  BY <1>1, OthersElsewhere
<1>6. /\ pc'[t] = "idle" /\ loc'[t] = NoCall /\ \A u \in Threads \ {t} : SameCall(u)
  BY GotoOthers DEF Return
<1>7. /\ DOMAIN rows' = DOMAIN rows \cup {rid} /\ rows'[rid].tuple = loc[t].tuple
      /\ \A x \in DOMAIN rows : x # rid => rows'[x] = rows[x]
  BY <1>1 DEF Hold
<1>8. ~Copying(t)' /\ loc'[t].op = "none"
  BY <1>6 DEF Copying, NoCall
<1>9. Moves(t, R)
  BY <1>2, <1>3, <1>4, <1>5, <1>6, <1>7 DEF Moves
<1>10. Settles(t, R)
  BY <1>1, <1>2, <1>3, <1>7, <1>8 DEF Settles
<1>11. QED
  BY <1>2, <1>3, <1>9, <1>10, HeldKept

\* The insert that has linked a page returns the row on it, or goes on to the original.
LEMMA PublishHeld ==
    ASSUME Sound, Held, NEW t \in Threads, Publish(t)
    PROVE  Held'
<1>1. pc[t] = "publish" /\ Copying(t) /\ Copy(t) = <<loc[t].new, 1>> /\ Placed(t, Copy(t))
  BY DEF Publish, Copying, Copy
<1>2. Store' = Store
  BY SameStore DEF Publish
<1>3. CASE loc[t].op = "insert"
  BY <1>1, <1>2, <1>3, ReturnedHeld DEF Placed
<1>4. CASE loc[t].op = "update"
  <2>1. PICK l, rid : /\ rid = Copy(t)
                      /\ l = [loc[t] EXCEPT !.new = rid, !.page = None, !.probe = 0]
    OBVIOUS
  <2>2. /\ pc'[t] = "remove" /\ loc'[t] = l /\ \A u \in Threads \ {t} : SameCall(u)
        /\ rows' = rows
    BY SMTT(30), <1>1, <1>4, <2>1, GotoOthers DEF Placed
  <2>3. l.new = rid /\ l.tuple = loc[t].tuple /\ l.op = loc[t].op /\ l.rid = loc[t].rid
    BY <2>1, CallTypes DEF CallStates
  <2>4. Copying(t)' /\ Copy(t)' = Copy(t)
    BY <2>1, <2>2, <2>3 DEF Copying, Copy
  <2>5. loc'[t].op = "update" => loc'[t].rid \in DOMAIN rows /\ rows[loc'[t].rid].by = t
    BY <2>2, <2>3 DEF Held
  <2>6. QED
    BY <1>1, <1>2, <2>2, <2>3, <2>4, <2>5, HeldQuiet
<1>5. QED
  BY <1>1, <1>3, <1>4 DEF Placed

\* An original that cannot be removed stays, and so does the copy.
LEMMA RemoveFailsHeld ==
    ASSUME Sound, Held, NEW t \in Threads, RemoveFails(t)
    PROVE  Held'
<1>1. Copying(t) /\ Copy(t) = loc[t].new
  BY DEF RemoveFails, Copying, Copy
<1>2. Store' = Store
  BY SameStore DEF RemoveFails, table
<1>3. QED
  BY <1>1, <1>2, ReturnedHeld DEF RemoveFails


\* A thread changes only rows of its own, when the callers do not race.
LEMMA OwnRow ==
    ASSUME ~Racy, NEW t \in Threads, NEW rid \in Changeable(t)
    PROVE  rid \in DOMAIN rows /\ rows[rid].by = t
BY DEF Changeable

\* Nothing but rows changes.
LEMMA SameCalls ==
    ASSUME pc' = pc, loc' = loc
    PROVE  /\ \A u \in Threads : SameCall(u)
           /\ \A u \in Threads : (Copying(u)' <=> Copying(u)) /\ Copy(u)' = Copy(u)
BY DEF SameCall, Copying, Copy

\* A thread between two calls moves no row.
LEMMA IdleHolds ==
    ASSUME Sound, NEW t \in Threads, pc[t] \in {"idle", "next"}
    PROVE  ~Copying(t) /\ loc[t].op = "none"
BY CallTypes DEF Copying, Ready

\* A deleted row is neither on a page nor its caller's.
LEMMA DeleteHeld ==
    ASSUME ~Racy, Sound, Held, NEW t \in Threads, NEW rid \in DOMAIN rows, Delete(t, rid)
    PROVE  Held'
<1>1. /\ rid \in RowIds /\ rows[rid].by = t /\ DOMAIN rows \subseteq RowIds
  BY OwnRow, HeldIsLive DEF Delete
<1>2. PICK R \in SUBSET RowIds : R = {rid}
  BY <1>1
<1>3. /\ pc[t] = "idle" /\ DeleteRow(rid) /\ rows' = Drop(rows, rid) /\ pc' = pc /\ loc' = loc
  BY DEF Delete, Idle
<1>4. Wrote(rid, Dead)
  BY <1>1, <1>3, RowDeleted DEF Sound
<1>5. Store'[rid] = Dead /\ \A r \in RowIds \ {rid} : Store'[r] = Store[r]
  BY <1>1, <1>4, WroteFacts
<1>6. DOMAIN rows' = DOMAIN rows \ {rid} /\ \A x \in DOMAIN rows : x # rid => rows'[x] = rows[x]
  BY <1>3 DEF Drop, Restrict
<1>7. \A u \in Threads \ {t} : SameCall(u) /\ Elsewhere(u, rid)
  BY <1>1, <1>3, SameCalls, OthersElsewhere
<1>8. ~Copying(t) /\ ~Copying(t)' /\ loc'[t].op = "none"
  BY <1>3, IdleHolds, SameCalls
<1>9. Moves(t, R)
  BY <1>1, <1>2, <1>5, <1>6, <1>7 DEF Moves
<1>10. Settles(t, R)
  BY <1>2, <1>5, <1>6, <1>8 DEF Settles
<1>11. QED
  BY <1>9, <1>10, HeldKept

\* An update in place gives its caller the new tuple under the same RID.
LEMMA UpdateSamePageHeld ==
    ASSUME ~Racy, Sound, Held, NEW t \in Threads, NEW rid \in DOMAIN rows, NEW tuple \in Tuples,
           UpdateSamePage(t, rid, tuple)
    PROVE  Held'
<1>1. /\ rid \in RowIds /\ rows[rid].by = t /\ DOMAIN rows \subseteq RowIds
  BY OwnRow, HeldIsLive DEF UpdateSamePage
<1>2. PICK R \in SUBSET RowIds : R = {rid}
  BY <1>1
<1>3. /\ pc[t] = "idle" /\ IsLive(rid) /\ rows' = Hold(rows, t, rid, tuple)
      /\ heap' = With(rid[1], Updated(heap[rid[1]], rid[2], tuple))
      /\ first_page_id' = first_page_id /\ pc' = pc /\ loc' = loc
  BY <1>1 DEF UpdateSamePage, Idle
<1>4. Wrote(rid, tuple)
  BY <1>1, <1>3, RowUpdated DEF Sound
<1>5. Store'[rid] = tuple /\ \A r \in RowIds \ {rid} : Store'[r] = Store[r]
  BY <1>1, <1>4, WroteFacts
<1>6. /\ DOMAIN rows' = DOMAIN rows \cup {rid} /\ rows'[rid].tuple = tuple
      /\ \A x \in DOMAIN rows : x # rid => rows'[x] = rows[x]
  BY <1>3 DEF Hold
<1>7. \A u \in Threads \ {t} : SameCall(u) /\ Elsewhere(u, rid)
  BY <1>1, <1>3, SameCalls, OthersElsewhere
<1>8. ~Copying(t) /\ ~Copying(t)' /\ loc'[t].op = "none"
  BY <1>3, IdleHolds, SameCalls
<1>9. Moves(t, R)
  BY <1>1, <1>2, <1>5, <1>6, <1>7 DEF Moves
<1>10. Settles(t, R)
  BY <1>2, <1>5, <1>6, <1>8 DEF Settles
<1>11. QED
  BY <1>9, <1>10, HeldKept

\* The original of a moved row goes, and its copy becomes the row.
LEMMA RemoveOriginalHeld ==
    ASSUME Sound, Held, NEW t \in Threads, RemoveOriginal(t)
    PROVE  Held'
<1>1. PICK rid, new, tuple : rid = loc[t].rid /\ new = loc[t].new /\ tuple = loc[t].tuple
  OBVIOUS
<1>2. PICK R : R = {rid, new}
  OBVIOUS
<1>3. /\ pc[t] = "remove" /\ DeleteRow(rid) /\ pc' = [pc EXCEPT ![t] = "idle"]
      /\ rows' = Hold(Drop(rows, rid), t, new, tuple)
      /\ loc' = [u \in Threads |-> IF u = t THEN NoCall
                                   ELSE [loc[u] EXCEPT !.moved = @ \/ loc[u].rid = rid]]
  BY <1>1 DEF RemoveOriginal
<1>4. Copying(t) /\ Copy(t) = new /\ loc[t].op = "update"
  BY <1>1, <1>3, CallTypes DEF Copying, Copy, Ready
<1>5. /\ rid \in DOMAIN rows /\ rows[rid].by = t /\ rid \in RowIds
      /\ DOMAIN rows \subseteq RowIds
  BY <1>1, <1>4, HeldIsLive DEF Held
<1>6. new \in RowIds /\ new \notin DOMAIN rows /\ new # rid /\ Store[new] = tuple
  BY SMTT(30), <1>1, <1>4, <1>5, CopyTypes DEF Held
<1>7. Wrote(rid, Dead)
  BY <1>3, <1>5, RowDeleted DEF Sound
<1>8. Store'[rid] = Dead /\ \A r \in RowIds \ {rid} : Store'[r] = Store[r]
  BY <1>5, <1>7, WroteFacts
<1>9. PICK mid : mid = Drop(rows, rid)
  OBVIOUS
<1>10. DOMAIN mid = DOMAIN rows \ {rid} /\ \A x \in DOMAIN rows : x # rid => mid[x] = rows[x]
  BY <1>9 DEF Drop, Restrict
<1>11. rows' = Hold(mid, t, new, tuple)
  BY <1>3, <1>9
<1>12. /\ DOMAIN rows' = DOMAIN mid \cup {new} /\ rows'[new].tuple = tuple
       /\ \A x \in DOMAIN mid : x # new => rows'[x] = mid[x]
  BY <1>11 DEF Hold
<1>13. \A u \in Threads \ {t} : Elsewhere(u, rid) /\ Elsewhere(u, new)
  BY <1>4, <1>5, OthersElsewhere
<1>14. pc'[t] = "idle" /\ loc'[t] = NoCall /\ \A u \in Threads \ {t} : SameCall(u)
  BY <1>3, MovedOthers
<1>15. ~Copying(t)' /\ loc'[t].op = "none"
  BY <1>14 DEF Copying, NoCall
<1>16. Moves(t, R)
  BY <1>2, <1>5, <1>6, <1>8, <1>10, <1>12, <1>13, <1>14 DEF Moves
<1>17. Settles(t, R)
  BY <1>2, <1>4, <1>6, <1>8, <1>10, <1>12, <1>15 DEF Settles
<1>18. QED
  BY <1>2, <1>5, <1>6, <1>16, <1>17, HeldKept


\* A step that leaves the rows and the calls.
LEMMA StayHeld ==
    ASSUME Held, rows' = rows, pc' = pc, loc' = loc, heap' = heap
    PROVE  Held'
<1>1. Store' = Store
  BY SameStore
<1>2. \A u \in Threads : (Copying(u)' <=> Copying(u)) /\ Copy(u)' = Copy(u)
  BY SameCalls
<1>3. QED
  BY SMTT(30), <1>1, <1>2 DEF Held

\* Every call keeps Held.
LEMMA CallHeld ==
    ASSUME ~Racy, Sound, Held, NEW t \in Threads, Call(t)
    PROVE  Held'
<1>1. ASSUME NEW tuple \in Tuples, StartInsert(t, tuple)
      PROVE  Held'
  <2>1. PICK l : l = [NoCall EXCEPT !.op = "insert", !.tuple = tuple]
    OBVIOUS
  <2>2. l.op = "insert"
    BY <2>1 DEF NoCall
  <2>3. Goto(t, "insert", l) /\ rows' = rows /\ pc[t] = "idle" /\ heap' = heap
    BY <1>1, <2>1 DEF StartInsert, Idle, table
  <2>4. ~Copying(t) /\ Store' = Store /\ "insert" \in Labels \ {"remove", "publish"}
    BY <2>3, SameStore DEF Copying, Labels
  <2>5. QED
    BY <2>2, <2>3, <2>4, HeldGoto
<1>2. ASSUME NEW rid \in DOMAIN rows, NEW tuple \in Tuples, UpdateDoesNotFit(t, rid, tuple)
      PROVE  Held'
  <2>1. PICK l : l = [NoCall EXCEPT !.op = "update", !.tuple = tuple, !.rid = rid]
    OBVIOUS
  <2>2. l.rid = rid /\ rows[rid].by = t
    BY <1>2, <2>1, OwnRow DEF NoCall, UpdateDoesNotFit
  <2>3. Goto(t, "insert", l) /\ rows' = rows /\ pc[t] = "idle" /\ heap' = heap
    BY <1>2, <2>1 DEF UpdateDoesNotFit, Idle, table
  <2>4. ~Copying(t) /\ Store' = Store /\ "insert" \in Labels \ {"remove", "publish"}
    BY <2>3, SameStore DEF Copying, Labels
  <2>5. QED
    BY <2>2, <2>3, <2>4, HeldGoto
<1>3. CASE Scan(t)
  <2>1. rows' = rows /\ pc' = pc /\ loc' = loc /\ heap' = heap
    BY <1>3 DEF Scan, table
  <2>2. QED
    BY <2>1, StayHeld
<1>4. QED
  BY <1>1, <1>2, <1>3, DeleteHeld, UpdateSamePageHeld DEF Call

\* A scan moves no row.
LEMMA IteratingHeld ==
    ASSUME Sound, Held, NEW t \in Threads, Iterating(t)
    PROVE  Held'
<1>1. rows' = rows /\ heap' = heap /\ pc[t] \in {"idle", "next"}
  BY DEF Iterating, Next_Advance, Next_Row, Next_Page, Next_Fails, EndScan, table
<1>2. \/ pc' = pc /\ loc' = loc
      \/ \E label \in {"idle", "next"} : Goto(t, label, NoCall)
  BY DEF Iterating, Next_Advance, Next_Row, Next_Page, Next_Fails, EndScan, Return
<1>3. CASE pc' = pc /\ loc' = loc
  BY <1>1, <1>3, StayHeld
<1>4. CASE \E label \in {"idle", "next"} : Goto(t, label, NoCall)
  <2>1. PICK label \in {"idle", "next"} : Goto(t, label, NoCall)
    BY <1>4
  <2>2. ~Copying(t) /\ Store' = Store
    BY <1>1, IdleHolds, SameStore
  <2>3. NoCall.op # "update" /\ label \in Labels \ {"remove", "publish"}
    BY DEF NoCall, Labels
  <2>4. QED
    BY <1>1, <2>1, <2>2, <2>3, HeldGoto
<1>5. QED
  BY <1>2, <1>3, <1>4

\* At first there are no rows.
LEMMA HeldInit == Init => Held
<1> SUFFICES ASSUME Init
             PROVE  Held
  OBVIOUS
<1>1. DOMAIN rows = {}
  BY DEF Init
<1>2. \A p \in PageIds : heap[p].slots = <<>>
  BY DEF Init, HeapOf, EmptyPage, Blank
<1>3. \A rid \in RowIds : Store[rid] = Dead
  BY <1>2 DEF Store, RowIds
<1>4. \A t \in Threads : ~Copying(t) /\ loc[t].op = "none"
  BY DEF Init, Copying, NoCall
<1>5. QED
  BY <1>1, <1>3, <1>4 DEF Held

\* Every step keeps Held.
LEMMA HeldNext == ~Racy /\ Sound /\ Held /\ [Next]_vars => Held'
<1> SUFFICES ASSUME ~Racy, Sound, Held, [Next]_vars
             PROVE  Held'
  OBVIOUS
<1>1. CASE UNCHANGED vars \/ Open \/ Rest
  <2>1. rows' = rows /\ pc' = pc /\ loc' = loc /\ heap' = heap
    BY <1>1 DEF vars, table, Open, Rest
  <2>2. QED
    BY <2>1, StayHeld
<1>2. ASSUME NEW t \in Threads, Inserting(t)
      PROVE  Held'
  <2>1. Quiet(t) \/ ProbeInsert(t) \/ AppendInsert(t) \/ Link(t) \/ Publish(t)
    BY <1>2 DEF Inserting, Quiet
  <2>2. QED
    BY <2>1, QuietKeeps, InsertHeld, LinkHeld, PublishHeld
<1>3. ASSUME NEW t \in Threads, Removing(t) \/ Iterating(t) \/ Call(t)
      PROVE  Held'
  BY <1>3, RemoveOriginalHeld, RemoveFailsHeld, IteratingHeld, CallHeld DEF Removing
<1>4. QED
  BY <1>1, <1>2, <1>3 DEF Next

\* Which row is at which RID, when no two threads change one row at the same time.
THEOREM HeldInvariant ==
    ASSUME ~Racy
    PROVE  Spec => []Held
<1>1. Sound /\ Held /\ [Next]_vars => Held'
  BY HeldNext
<1>2. QED
  BY <1>1, HeldInit, SoundInvariant, PTL DEF Spec

\* The pages hold the rows the callers hold, each under its RID, and no other rows
\* but those not returned yet, although an update moves a row in two steps
\* (table_heap.cpp:284-306).
THEOREM RowsStayHeld ==
    ASSUME ~Racy
    PROVE  Spec => []RowsAreHeld
<1>1. Sound /\ Held => RowsAreHeld
  <2> SUFFICES ASSUME Sound, Held
               PROVE  RowsAreHeld
    OBVIOUS
  <2>1. ASSUME NEW rid \in DOMAIN rows
        PROVE  IsLive(rid) /\ Row(rid) = rows[rid].tuple
    BY HeldIsLive, LiveIsNotDead
  <2>2. ASSUME NEW rid \in LiveRows \ DOMAIN rows
        PROVE  \E t \in Threads : \/ pc[t] = "remove" /\ loc[t].new = rid
                                  \/ pc[t] = "publish" /\ <<loc[t].new, 1>> = rid
    <3>1. rid \in RowIds /\ IsLive(rid)
      BY SMTT(30), LayoutAssumption DEF LiveRows, RIDs, RowIds
    <3>2. Store[rid] # Dead
      BY <3>1, LiveIsNotDead
    <3>3. PICK t \in Threads : Copying(t) /\ Copy(t) = rid
      BY <3>1, <3>2 DEF Held
    <3>4. QED
      BY <3>3 DEF Copying, Copy
  <2>3. QED
    BY <2>1, <2>2 DEF RowsAreHeld
<1>2. QED
  BY <1>1, HeldInvariant, SoundInvariant, PTL


(***************************************************************************)
(* The scans.                                                              *)
(***************************************************************************)

\* The slot from which a scan goes on, on its page.
Cut(t) == IF pc[t] = "next" THEN iter[t].slot ELSE iter[t].slot + 1

\* Page p comes before page q on the chain.
Before(s, n, p, q) == \E i \in 1 .. n : \E j \in 1 .. n : s[i] = p /\ s[j] = q /\ i < j

\* The scan of thread t has passed rid.
Behind(t, rid, s, n) ==
    \/ iter[t].page = None
    \/ rid[1] = iter[t].page /\ rid[2] < Cut(t)
    \/ Before(s, n, rid[1], iter[t].page)

\* A scan has seen only rows that it has passed, and of the rows that were there
\* throughout it has seen all that it has passed.
ScanOK(t, s, n) ==
    /\ pc[t] = "next" => iter[t].open /\ iter[t].page # None
    /\ ~iter[t].twice
    /\ iter[t].open =>
          /\ pc[t] \in {"idle", "next"}
          /\ iter[t].page # None => heap[iter[t].page].type = "HEAP"
          /\ iter[t].stable \subseteq DOMAIN rows
          /\ \A rid \in iter[t].seen : Behind(t, rid, s, n)
          /\ \A rid \in iter[t].stable : Behind(t, rid, s, n) => rid \in iter[t].seen

\* There is a chain along which every scan is sound.
Scanned ==
    /\ iter \in [Threads -> ScanStates]
    /\ \E n \in Nat \ {0} : \E s \in [1 .. n -> PageIds] :
          Chained(s, n) /\ \A t \in Threads : ScanOK(t, s, n)

\* A row that a caller holds is on a page of the chain.
LEMMA HeldOnChain ==
    ASSUME Sound, Held, NEW n, NEW s, Chained(s, n), NEW rid \in DOMAIN rows
    PROVE  /\ rid \in RowIds /\ rid[1] \in PageIds /\ rid[2] \in Nat \ {0}
           /\ rid = <<rid[1], rid[2]>>
           /\ heap[rid[1]].type = "HEAP" /\ rid[2] \in LiveSlots(heap[rid[1]])
           /\ \E i \in 1 .. n : s[i] = rid[1]
<1>1. rid \in RowIds /\ IsLive(rid)
  BY HeldIsLive, LiveIsNotDead
<1>2. rid[1] \in PageIds /\ rid[2] \in Nat \ {0} /\ rid = <<rid[1], rid[2]>>
  BY <1>1 DEF RowIds
<1>3. heap[rid[1]].type = "HEAP"
  BY <1>1, LiveIsOnHeap DEF Sound
<1>4. QED
  BY <1>1, <1>2, <1>3 DEF Chained, IsLive

\* What a step leaves of a scan: its place, and those of its stable rows that stay.
SameScan(u) ==
    /\ pc'[u] = "next" => pc[u] = "next"
    /\ iter[u].open => pc'[u] = pc[u]
    /\ iter'[u].open = iter[u].open /\ iter'[u].page = iter[u].page
    /\ iter'[u].slot = iter[u].slot /\ iter'[u].seen = iter[u].seen
    /\ iter'[u].twice = iter[u].twice
    /\ iter'[u].stable \subseteq iter[u].stable
    /\ iter[u].stable \subseteq DOMAIN rows => iter'[u].stable \subseteq DOMAIN rows'

\* A scan stays sound, however the chain grows.
LEMMA ScanKept ==
    ASSUME Sound, Held, NEW n, NEW s, Chained(s, n), NEW m, NEW r, Chained(r, m)',
           n <= m, \A i \in 1 .. n : r[i] = s[i],
           NEW u \in Threads, iter[u] \in ScanStates, ScanOK(u, s, n), SameScan(u)
    PROVE  ScanOK(u, r, m)'
<1> SUFFICES ASSUME iter[u].open
             PROVE  ScanOK(u, r, m)'
  BY DEF ScanOK, SameScan
<1>1. n \in Nat \ {0} /\ m \in Nat \ {0} /\ \A i \in 1 .. n : i \in 1 .. m
  BY SMTT(30) DEF Chained
<1>2. /\ pc'[u] = pc[u] /\ iter'[u].page = iter[u].page /\ Cut(u)' = Cut(u)
      /\ iter'[u].seen = iter[u].seen /\ iter'[u].stable \subseteq iter[u].stable
      /\ iter'[u].open /\ ~iter'[u].twice /\ iter[u].stable \subseteq DOMAIN rows
      /\ iter'[u].stable \subseteq DOMAIN rows'
  BY DEF SameScan, Cut, ScanOK
<1>3. iter[u].page # None => \E j \in 1 .. n : s[j] = iter[u].page
  <2>1. iter[u].page \in PageIds \cup {None}
    BY DEF ScanStates
  <2>2. ASSUME iter[u].page # None
        PROVE  \E j \in 1 .. n : s[j] = iter[u].page
    <3>1. heap[iter[u].page].type = "HEAP"
      BY <2>2 DEF ScanOK
    <3>2. QED
      BY <2>1, <2>2, <3>1 DEF Chained
  <2>3. QED
    BY <2>2
<1>4. iter'[u].page # None => heap'[iter'[u].page].type = "HEAP"
  <2>1. ASSUME NEW j \in 1 .. n
        PROVE  heap'[s[j]].type = "HEAP"
    <3>1. j \in 1 .. m /\ r[j] = s[j]
      BY <1>1
    <3>2. r[j] \in PageIds /\ (heap'[r[j]].type = "HEAP" <=> \E i \in 1 .. m : r[i] = r[j])
      BY <3>1 DEF Chained
    <3>3. QED
      BY <3>1, <3>2
  <2>2. QED
    BY <1>2, <1>3, <2>1
<1>5. ASSUME NEW rid, Behind(u, rid, s, n)
      PROVE  Behind(u, rid, r, m)'
  <2>1. Before(s, n, rid[1], iter[u].page) => Before(r, m, rid[1], iter[u].page)
    BY <1>1 DEF Before
  <2>2. QED
    BY <1>2, <1>5, <2>1 DEF Behind
<1>6. ASSUME NEW rid \in iter'[u].stable, Behind(u, rid, r, m)'
      PROVE  Behind(u, rid, s, n)
  <2>1. CASE Before(r, m, rid[1], iter[u].page) /\ iter[u].page # None
    <3>1. PICK i \in 1 .. n, j \in 1 .. n : s[i] = rid[1] /\ s[j] = iter[u].page
      BY SMTT(30), <1>2, <1>3, <2>1, HeldOnChain
    <3>2. PICK i1 \in 1 .. m, j1 \in 1 .. m : r[i1] = rid[1] /\ r[j1] = iter[u].page /\ i1 < j1
      BY <2>1 DEF Before
    <3>3. i \in 1 .. m /\ j \in 1 .. m /\ r[i] = r[i1] /\ r[j] = r[j1]
      BY <1>1, <3>1, <3>2
    <3>4. i = i1 /\ j = j1
      BY <3>3 DEF Chained
    <3>5. QED
      BY <3>1, <3>2, <3>4 DEF Before, Behind
  <2>2. QED
    BY <1>2, <1>6, <2>1 DEF Behind
<1>7. QED
  BY <1>2, <1>4, <1>5, <1>6 DEF ScanOK


\* A row that is gone leaves the scans typed.
LEMMA GoneTyped ==
    ASSUME iter \in [Threads -> ScanStates], NEW rid, Gone(rid)
    PROVE  /\ iter' \in [Threads -> ScanStates]
           /\ \A t \in Threads :
                 /\ iter'[t].stable = iter[t].stable \ {rid}
                 /\ iter'[t].open = iter[t].open /\ iter'[t].page = iter[t].page
                 /\ iter'[t].slot = iter[t].slot /\ iter'[t].seen = iter[t].seen
                 /\ iter'[t].twice = iter[t].twice
<1>1. \A t \in Threads : iter[t] \in ScanStates
  OBVIOUS
<1>2. \A t \in Threads : [iter[t] EXCEPT !.stable = iter[t].stable \ {rid}] \in ScanStates
  BY <1>1 DEF ScanStates
<1>3. iter' = [t \in Threads |-> [iter[t] EXCEPT !.stable = iter[t].stable \ {rid}]]
  BY <1>1 DEF Gone, ScanStates
<1>4. iter' \in [Threads -> ScanStates]
  BY <1>2, <1>3
<1>5. QED
  BY <1>1, <1>3, <1>4 DEF ScanStates

\* A step leaves the chain, or makes it longer.
LEMMA ChainStep ==
    ASSUME Sound, NEW n, NEW s, Chained(s, n), SameChain \/ \E t \in Threads : Link(t)
    PROVE  \E m \in Nat \ {0} : n <= m /\ \E r \in [1 .. m -> PageIds] :
              Chained(r, m)' /\ \A i \in 1 .. n : r[i] = s[i]
<1>1. n \in Nat \ {0} /\ s \in [1 .. n -> PageIds]
  BY DEF Chained
<1>2. CASE SameChain
  <2>1. Chained(s, n)' /\ n <= n
    BY <1>1, <1>2, ChainKept
  <2>2. QED
    BY <1>1, <2>1
<1>3. ASSUME NEW t \in Threads, Link(t)
      PROVE  \E r \in [1 .. n + 1 -> PageIds] :
                Chained(r, n + 1)' /\ \A i \in 1 .. n : r[i] = s[i]
  <2>1. Typed /\ Fresh /\ CallOK(t)
    BY DEF Sound
  <2>2. QED
    BY SMTT(30), <1>3, <2>1, ChainGrows
<1>4. n + 1 \in Nat \ {0} /\ n <= n + 1
  BY <1>1
<1>5. QED
  BY <1>2, <1>3, <1>4

\* A step that leaves every scan in its place leaves the scans sound.
LEMMA ScansStay ==
    ASSUME Sound, Held, Scanned, iter' \in [Threads -> ScanStates],
           \A u \in Threads : SameScan(u),
           SameChain \/ \E t \in Threads : Link(t)
    PROVE  Scanned'
<1>1. PICK n \in Nat \ {0} : \E s \in [1 .. n -> PageIds] :
         Chained(s, n) /\ \A t \in Threads : ScanOK(t, s, n)
  BY DEF Scanned
<1>2. PICK s \in [1 .. n -> PageIds] : Chained(s, n) /\ \A t \in Threads : ScanOK(t, s, n)
  BY <1>1
<1>3. \A u \in Threads : iter[u] \in ScanStates
  BY DEF Scanned
<1>4. PICK m \in Nat \ {0} : n <= m /\ \E r \in [1 .. m -> PageIds] :
         Chained(r, m)' /\ \A i \in 1 .. n : r[i] = s[i]
  BY SMTT(30), <1>2, ChainStep
<1>5. PICK r \in [1 .. m -> PageIds] : Chained(r, m)' /\ \A i \in 1 .. n : r[i] = s[i]
  BY <1>4
<1>6. \A u \in Threads : ScanOK(u, r, m)'
  BY <1>2, <1>3, <1>4, <1>5, ScanKept
<1>7. QED
  BY <1>5, <1>6 DEF Scanned

\* Only Link changes the chain.
LEMMA OnlyLinkExtends ==
    ASSUME Sound, NEW t \in Threads, Inserting(t) \/ Removing(t) \/ Call(t)
    PROVE  SameChain \/ Link(t)
<1>1. ASSUME heap' = heap, first_page_id' = first_page_id
      PROVE  SameChain
  BY <1>1 DEF SameChain
<1>2. ASSUME ProbeInsert(t) \/ AppendInsert(t)
      PROVE  SameChain
  <2>1. PICK p, tuple : p = loc[t].page /\ tuple = loc[t].tuple
    OBVIOUS
  <2>2. /\ pc[t] \in {"probe", "append"} /\ heap[p].type = "HEAP"
        /\ heap' = With(p, Taken(heap[p], tuple)) /\ first_page_id' = first_page_id
    BY <1>2, <2>1 DEF ProbeInsert, AppendInsert
  <2>3. p \in PageIds /\ tuple \in Tuples
    BY <2>1, <2>2, CallTypes DEF Ready
  <2>4. QED
    BY <2>2, <2>3, RowTaken DEF Sound, PagesKept
<1>3. ASSUME NEW p \in PageIds, NewPage(t, p)
      PROVE  SameChain
  <2>1. /\ heap' = [heap EXCEPT ![p].type = "ALLOCATED"] /\ heap[p].type = "unborn"
        /\ first_page_id' = first_page_id
    BY <1>3 DEF NewPage
  <2>2. heap \in [PageIds -> PageStates]
    BY DEF Sound, Typed
  <2>3. QED
    BY <2>1, <2>2 DEF SameChain, PageStates
<1>4. ASSUME NEW rid \in RowIds, DeleteRow(rid)
      PROVE  SameChain
  BY <1>4, RowDeleted DEF Sound, PagesKept
<1>5. DOMAIN rows \subseteq RowIds
  BY DEF Sound, Typed, RowsTyped
<1>6. ASSUME NEW rid \in DOMAIN rows, NEW tuple \in Tuples, UpdateSamePage(t, rid, tuple)
      PROVE  SameChain
  <2>1. /\ IsLive(rid) /\ heap' = With(rid[1], Updated(heap[rid[1]], rid[2], tuple))
        /\ first_page_id' = first_page_id /\ rid \in RowIds
    BY <1>5, <1>6 DEF UpdateSamePage
  <2>2. QED
    BY <2>1, RowUpdated DEF Sound, PagesKept
<1>7. CASE Inserting(t)
  BY <1>1, <1>2, <1>3, <1>7 DEF Inserting, LoadHint, ProbeFull, ProbeFails, LoadLast, AppendFollow,
     AppendFull, AppendFails, NewPageFails, Publish, table
<1>8. CASE Removing(t)
  <2>1. pc[t] = "remove" => loc[t].rid \in RowIds
    BY CallTypes DEF Ready
  <2>2. QED
    BY <1>1, <1>4, <1>8, <2>1 DEF Removing, RemoveOriginal, RemoveFails, table
<1>9. CASE Call(t)
  BY <1>1, <1>4, <1>5, <1>6, <1>9 DEF Call, StartInsert, Delete, UpdateDoesNotFit, Scan, table
<1>10. QED
  BY <1>7, <1>8, <1>9


\* A step of a thread that is not scanning leaves every scan in its place.
LEMMA ScansLeft ==
    ASSUME iter \in [Threads -> ScanStates], NEW t \in Threads, ~iter[t].open,
           pc'[t] # "next", \A u \in Threads \ {t} : pc'[u] = pc[u],
           \/ iter' = iter /\ DOMAIN rows \subseteq DOMAIN rows'
           \/ \E rid : Gone(rid) /\ DOMAIN rows \ {rid} \subseteq DOMAIN rows'
    PROVE  iter' \in [Threads -> ScanStates] /\ \A u \in Threads : SameScan(u)
<1>1. CASE iter' = iter /\ DOMAIN rows \subseteq DOMAIN rows'
  BY <1>1 DEF SameScan
<1>2. CASE \E rid : Gone(rid) /\ DOMAIN rows \ {rid} \subseteq DOMAIN rows'
  <2>1. PICK rid : Gone(rid) /\ DOMAIN rows \ {rid} \subseteq DOMAIN rows'
    BY <1>2
  <2>2. /\ iter' \in [Threads -> ScanStates]
        /\ \A u \in Threads :
              /\ iter'[u].stable = iter[u].stable \ {rid}
              /\ iter'[u].open = iter[u].open /\ iter'[u].page = iter[u].page
              /\ iter'[u].slot = iter[u].slot /\ iter'[u].seen = iter[u].seen
              /\ iter'[u].twice = iter[u].twice
    BY <2>1, GoneTyped
  <2>3. QED
    BY <2>1, <2>2 DEF SameScan
<1>3. QED
  BY <1>1, <1>2

\* What a step of an insert does to the scans.
LEMMA InsertingScans ==
    ASSUME Sound, Scanned, NEW t \in Threads, Inserting(t)
    PROVE  iter' \in [Threads -> ScanStates] /\ \A u \in Threads : SameScan(u)
<1>1. iter' = iter /\ pc[t] \notin {"idle", "next"}
  BY DEF Inserting, LoadHint, ProbeInsert, ProbeFull, ProbeFails, LoadLast, AppendFollow,
         AppendInsert, AppendFull, AppendFails, NewPage, NewPageFails, Link, Publish
<1>2. PICK label : pc' = [pc EXCEPT ![t] = label] /\ label # "next"
  <2>1. ASSUME NEW rid, Placed(t, rid)
        PROVE  \E label : pc' = [pc EXCEPT ![t] = label] /\ label # "next"
    BY <2>1 DEF Placed, Return, Goto
  <2>2. ASSUME NEW p, NextProbe(t, p)
        PROVE  \E label : pc' = [pc EXCEPT ![t] = label] /\ label # "next"
    <3>1. PICK label \in {"probe", "load_last"} : pc' = [pc EXCEPT ![t] = label]
      BY <2>2 DEF NextProbe, Goto
    <3>2. QED
      BY <3>1
  <2>3. ASSUME Fails(t)
        PROVE  \E label : pc' = [pc EXCEPT ![t] = label] /\ label # "next"
    <3>1. pc' = [pc EXCEPT ![t] = "idle"]
      BY <2>3 DEF Fails, Return, Goto
    <3>2. "idle" # "next"
      OBVIOUS
    <3>3. QED
      BY <3>1, <3>2
  <2>4. CASE ProbeInsert(t) \/ AppendInsert(t) \/ Publish(t)
    BY <2>1, <2>4 DEF ProbeInsert, AppendInsert, Publish
  <2>5. CASE ProbeFull(t) \/ ProbeFails(t)
    BY <2>2, <2>3, <2>5 DEF ProbeFull, ProbeFails
  <2>6. CASE AppendFails(t) \/ NewPageFails(t)
    BY <2>3, <2>6 DEF AppendFails, NewPageFails
  <2>7. CASE \/ LoadHint(t) \/ LoadLast(t) \/ AppendFollow(t) \/ AppendFull(t)
             \/ (\E p \in PageIds : NewPage(t, p)) \/ Link(t)
    BY <2>7 DEF LoadHint, LoadLast, AppendFollow, AppendFull, NewPage, Link, Goto
  <2>8. QED
    BY <2>4, <2>5, <2>6, <2>7 DEF Inserting
<1>3. pc'[t] = label /\ \A u \in Threads \ {t} : pc'[u] = pc[u]
  BY <1>2 DEF Sound, Typed
<1>4. DOMAIN rows \subseteq DOMAIN rows'
  <2>1. ASSUME NEW rid, Placed(t, rid)
        PROVE  DOMAIN rows \subseteq DOMAIN rows'
    BY <2>1 DEF Placed, Hold
  <2>2. CASE ProbeInsert(t) \/ AppendInsert(t) \/ Publish(t)
    BY <2>1, <2>2 DEF ProbeInsert, AppendInsert, Publish
  <2>3. CASE rows' = rows
    BY <2>3
  <2>4. QED
    BY <2>2, <2>3 DEF Inserting, LoadHint, ProbeFull, ProbeFails, LoadLast, AppendFollow,
       AppendFull, AppendFails, NewPage, NewPageFails, Link, Fails
<1>5. iter \in [Threads -> ScanStates] /\ ~iter[t].open
  BY <1>1 DEF Scanned, ScanOK
<1>6. QED
  BY <1>1, <1>2, <1>3, <1>4, <1>5, ScansLeft

\* What the end of an update does to the scans.
LEMMA RemovingScans ==
    ASSUME Sound, Scanned, NEW t \in Threads, Removing(t)
    PROVE  iter' \in [Threads -> ScanStates] /\ \A u \in Threads : SameScan(u)
<1>1. pc[t] = "remove"
  BY DEF Removing, RemoveOriginal, RemoveFails
<1>2. iter \in [Threads -> ScanStates] /\ ~iter[t].open
  BY <1>1 DEF Scanned, ScanOK
<1>3. pc'[t] = "idle" /\ \A u \in Threads \ {t} : pc'[u] = pc[u]
  <2>1. pc \in [Threads -> Labels] /\ pc' = [pc EXCEPT ![t] = "idle"]
    BY DEF Sound, Typed, Removing, RemoveOriginal, RemoveFails, Return, Goto
  <2>2. QED
    BY <2>1
<1>4. \/ iter' = iter /\ DOMAIN rows \subseteq DOMAIN rows'
      \/ \E rid : Gone(rid) /\ DOMAIN rows \ {rid} \subseteq DOMAIN rows'
  <2>1. CASE RemoveOriginal(t)
    <3>1. DOMAIN rows \ {loc[t].rid} \subseteq DOMAIN rows'
      BY <2>1 DEF RemoveOriginal, Hold, Drop, Restrict
    <3>2. QED
      BY <2>1, <3>1 DEF RemoveOriginal, DeleteRow
  <2>2. CASE RemoveFails(t)
    BY <2>2 DEF RemoveFails, Hold
  <2>3. QED
    BY <2>1, <2>2 DEF Removing
<1>5. QED
  BY <1>2, <1>3, <1>4, ScansLeft

\* What a call other than Scan does to the scans.
LEMMA CallScans ==
    ASSUME Sound, Scanned, NEW t \in Threads, Call(t), ~Scan(t)
    PROVE  iter' \in [Threads -> ScanStates] /\ \A u \in Threads : SameScan(u)
<1>1. Idle(t)
  BY DEF Call, StartInsert, Delete, UpdateSamePage, UpdateDoesNotFit
<1>2. iter \in [Threads -> ScanStates] /\ ~iter[t].open /\ pc[t] = "idle"
  BY <1>1 DEF Scanned, Idle
<1>3. pc'[t] # "next" /\ \A u \in Threads \ {t} : pc'[u] = pc[u]
  <2>1. pc \in [Threads -> Labels] /\ (pc' = pc \/ pc' = [pc EXCEPT ![t] = "insert"])
    BY DEF Sound, Typed, Call, StartInsert, Delete, UpdateSamePage, UpdateDoesNotFit, Goto
  <2>2. QED
    BY <1>2, <2>1
<1>4. \/ iter' = iter /\ DOMAIN rows \subseteq DOMAIN rows'
      \/ \E rid : Gone(rid) /\ DOMAIN rows \ {rid} \subseteq DOMAIN rows'
  <2>1. ASSUME NEW rid, Delete(t, rid)
        PROVE  Gone(rid) /\ DOMAIN rows \ {rid} \subseteq DOMAIN rows'
    BY <2>1 DEF Delete, DeleteRow, Drop, Restrict
  <2>2. ASSUME NEW rid, NEW tuple, UpdateSamePage(t, rid, tuple)
        PROVE  iter' = iter /\ DOMAIN rows \subseteq DOMAIN rows'
    BY <2>2 DEF UpdateSamePage, Hold
  <2>3. QED
    BY <2>1, <2>2 DEF Call, StartInsert, UpdateDoesNotFit
<1>5. QED
  BY <1>2, <1>3, <1>4, ScansLeft


\* What is left to show of the scan of a thread that takes a step of it.
LEMMA OneScans ==
    ASSUME Sound, Held, Scanned, NEW t \in Threads, UNCHANGED <<table, rows>>,
           NEW it \in ScanStates, iter' = [iter EXCEPT ![t] = it],
           \A u \in Threads \ {t} : pc'[u] = pc[u],
           \A n, s : Chained(s, n) /\ ScanOK(t, s, n) => ScanOK(t, s, n)'
    PROVE  Scanned'
<1>1. PICK n \in Nat \ {0} : \E s \in [1 .. n -> PageIds] :
         Chained(s, n) /\ \A u \in Threads : ScanOK(u, s, n)
  BY DEF Scanned
<1>2. PICK s \in [1 .. n -> PageIds] : Chained(s, n) /\ \A u \in Threads : ScanOK(u, s, n)
  BY <1>1
<1>3. /\ iter' \in [Threads -> ScanStates]
      /\ \A u \in Threads \ {t} : iter'[u] = iter[u]
      /\ \A u \in Threads : iter[u] \in ScanStates
  BY DEF Scanned
<1>4. Chained(s, n)'
  <2>1. SameChain
    BY DEF table, SameChain
  <2>2. QED
    BY <1>2, <2>1, ChainKept
<1>5. ASSUME NEW u \in Threads \ {t}
      PROVE  ScanOK(u, s, n)'
  <2>1. SameScan(u)
    BY <1>3 DEF SameScan
  <2>2. n <= n
    BY SMTT(30), <1>1
  <2>3. QED
    BY <1>2, <1>3, <1>4, <2>1, <2>2, ScanKept
<1>6. QED
  BY SMTT(30), <1>2, <1>3, <1>4, <1>5 DEF Scanned

\* The types of a scan and of the rows on its page.
LEMMA ScanTypes ==
    ASSUME Sound, Scanned, NEW t \in Threads
    PROVE  /\ iter[t] \in ScanStates
           /\ iter \in [Threads -> ScanStates]
           /\ pc[t] = "next" =>
                 /\ iter[t].open /\ iter[t].page \in PageIds
                 /\ heap[iter[t].page].type = "HEAP"
                 /\ \A i \in LiveSlots(heap[iter[t].page]) : i \in Nat \ {0}
<1>1. iter \in [Threads -> ScanStates] /\ iter[t] \in ScanStates
  BY DEF Scanned
<1>2. ASSUME pc[t] = "next"
      PROVE  iter[t].open /\ iter[t].page \in PageIds /\ heap[iter[t].page].type = "HEAP"
  BY <1>1, <1>2 DEF Scanned, ScanOK, ScanStates
<1>3. ASSUME NEW p \in PageIds, NEW i \in LiveSlots(heap[p])
      PROVE  i \in Nat \ {0}
  <2>1. heap[p].slots \in Slots
    BY DEF Sound, Typed, PageStates
  <2>2. DOMAIN heap[p].slots = 1 .. Len(heap[p].slots) /\ Len(heap[p].slots) \in Nat
    BY <2>1 DEF Slots
  <2>3. QED
    BY <2>2 DEF LiveSlots
<1>4. QED
  BY <1>1, <1>2, <1>3

\* A page does not come before itself.
LEMMA NotBeforeItself ==
    ASSUME NEW n, NEW s, Chained(s, n), NEW p
    PROVE  ~Before(s, n, p, p)
<1> SUFFICES ASSUME Before(s, n, p, p)
             PROVE  FALSE
  OBVIOUS
<1>1. PICK i \in 1 .. n, j \in 1 .. n : s[i] = p /\ s[j] = p /\ i < j
  BY DEF Before
<1>2. i = j
  BY <1>1 DEF Chained
<1>3. QED
  BY <1>1, <1>2

\* Next goes past the last row it returned.
LEMMA AdvanceScans ==
    ASSUME Sound, Held, Scanned, NEW t \in Threads, Next_Advance(t)
    PROVE  Scanned'
<1>1. PICK k, it : k = iter[t].slot + 1 /\ it = [iter[t] EXCEPT !.slot = k]
  OBVIOUS
<1>2. iter[t] \in ScanStates /\ iter \in [Threads -> ScanStates]
  BY ScanTypes
<1>3. k \in Nat /\ it \in ScanStates
  BY SMTT(30), <1>1, <1>2 DEF ScanStates
<1>4. /\ it.open = iter[t].open /\ it.page = iter[t].page /\ it.slot = k
      /\ it.stable = iter[t].stable /\ it.seen = iter[t].seen /\ it.twice = iter[t].twice
  BY <1>1, <1>2 DEF ScanStates
<1>5. /\ pc[t] = "idle" /\ iter[t].open /\ iter[t].page # None /\ Goto(t, "next", NoCall)
      /\ UNCHANGED <<table, rows>>
  BY DEF Next_Advance
<1>6. iter' = [iter EXCEPT ![t] = it]
  BY <1>1, <1>2 DEF Next_Advance
<1>7. pc'[t] = "next" /\ \A u \in Threads \ {t} : pc'[u] = pc[u]
  BY <1>5, GotoOthers DEF SameCall
<1>8. ASSUME NEW n, NEW s, Chained(s, n), ScanOK(t, s, n)
      PROVE  ScanOK(t, s, n)'
  <2>1. iter'[t] = it
    BY <1>2, <1>6
  <2>2. Cut(t)' = Cut(t)
    BY <1>1, <1>4, <1>5, <1>7, <2>1 DEF Cut
  <2>3. \A rid : Behind(t, rid, s, n)' <=> Behind(t, rid, s, n)
    BY <1>4, <2>1, <2>2 DEF Behind
  <2>4. QED
    BY <1>4, <1>5, <1>7, <1>8, <2>1, <2>3 DEF ScanOK, table
<1>9. QED
  BY <1>3, <1>5, <1>6, <1>7, <1>8, OneScans


\* A scan that ends, by its caller or by a fetch that fails.
LEMMA EndedScans ==
    ASSUME Sound, Held, Scanned, NEW t \in Threads, Next_Fails(t) \/ EndScan(t)
    PROVE  Scanned'
<1>1. NoScan \in ScanStates /\ ~NoScan.open /\ ~NoScan.twice
  BY DEF NoScan, ScanStates
<1>2. iter' = [iter EXCEPT ![t] = NoScan] /\ UNCHANGED <<table, rows>>
  BY DEF Next_Fails, EndScan
<1>3. pc'[t] = "idle" /\ \A u \in Threads \ {t} : pc'[u] = pc[u]
  <2>1. /\ pc \in [Threads -> Labels]
        /\ \/ pc' = [pc EXCEPT ![t] = "idle"]
           \/ pc' = pc /\ pc[t] = "idle"
    BY DEF Sound, Typed, Next_Fails, EndScan, Return, Goto
  <2>2. QED
    BY <2>1
<1>4. iter'[t] = NoScan
  BY <1>2 DEF Scanned
<1>5. \A n, s : ScanOK(t, s, n)'
  BY <1>1, <1>3, <1>4 DEF ScanOK
<1>6. QED
  BY <1>1, <1>2, <1>3, <1>5, OneScans

\* A scan starts at the first page, with nothing behind it.
LEMMA StartScans ==
    ASSUME Sound, Held, Scanned, NEW t \in Threads, Scan(t)
    PROVE  Scanned'
<1>1. PICK it : it = [NoScan EXCEPT !.open = TRUE, !.page = first_page_id,
                                    !.stable = DOMAIN rows]
  OBVIOUS
<1>2. first_page_id \in PageIds /\ DOMAIN rows \subseteq RowIds
  BY DEF Sound, Typed, RowsTyped
<1>3. /\ it.open /\ it.page = first_page_id /\ it.slot = 0 /\ it.seen = {}
      /\ it.stable = DOMAIN rows /\ ~it.twice
  BY <1>1 DEF NoScan
<1>4. it \in ScanStates
  BY <1>1, <1>2 DEF NoScan, ScanStates
<1>5. iter' = [iter EXCEPT ![t] = it] /\ UNCHANGED <<table, rows, pc>> /\ pc[t] = "idle"
  BY <1>1 DEF Scan, Idle
<1>6. iter'[t] = it
  BY <1>5 DEF Scanned
<1>7. ASSUME NEW n, NEW s, Chained(s, n)
      PROVE  ScanOK(t, s, n)'
  <2>1. n \in Nat \ {0} /\ s[1] = first_page_id /\ heap[first_page_id].type = "HEAP"
    BY SMTT(30), <1>2, <1>7 DEF Chained
  <2>2. Cut(t)' = 1
    BY SMTT(30), <1>3, <1>5, <1>6 DEF Cut
  <2>3. ASSUME NEW rid \in DOMAIN rows
        PROVE  ~Behind(t, rid, s, n)'
    <3>1. rid[2] \in Nat \ {0}
      BY <1>7, HeldOnChain
    <3>2. ~Before(s, n, rid[1], first_page_id)
      BY SMTT(30), <1>7, <2>1 DEF Before, Chained
    <3>3. first_page_id # None
      BY <1>2, NoneAssumption
    <3>4. QED
      BY SMTT(30), <1>3, <1>6, <2>2, <3>1, <3>2, <3>3 DEF Behind
  <2>4. QED
    BY <1>3, <1>5, <1>6, <2>1, <2>3 DEF ScanOK, table
<1>8. QED
  BY <1>4, <1>5, <1>7, OneScans

\* Next returns the first row that it has not passed on its page.
LEMMA RowScans ==
    ASSUME Sound, Held, Scanned, NEW t \in Threads, Next_Row(t)
    PROVE  Scanned'
<1>1. PICK p, k : p = iter[t].page /\ k = iter[t].slot
  OBVIOUS
<1>2. PICK i \in Candidates(t) :
         /\ \A j \in Candidates(t) : i <= j
         /\ iter' = [iter EXCEPT ![t].held = TRUE, ![t].slot = i,
                                 ![t].seen = iter[t].seen \cup {<<p, i>>},
                                 ![t].twice = iter[t].twice \/ <<p, i>> \in iter[t].seen]
  BY <1>1 DEF Next_Row
<1>3. PICK it : it = [iter[t] EXCEPT !.held = TRUE, !.slot = i,
                                     !.seen = iter[t].seen \cup {<<p, i>>},
                                     !.twice = iter[t].twice \/ <<p, i>> \in iter[t].seen]
  OBVIOUS
<1>4. pc[t] = "next" /\ Return(t) /\ UNCHANGED <<table, rows>>
  BY DEF Next_Row
<1>5. /\ iter[t] \in ScanStates /\ iter \in [Threads -> ScanStates] /\ iter[t].open
      /\ p \in PageIds /\ heap[p].type = "HEAP"
      /\ \A j \in LiveSlots(heap[p]) : j \in Nat \ {0}
  BY <1>1, <1>4, ScanTypes
<1>6. k \in Nat /\ i \in Nat \ {0} /\ i >= k /\ i \in LiveSlots(heap[p])
  BY <1>1, <1>5 DEF Candidates, ScanStates
<1>7. <<p, i>> \in RowIds
  BY <1>5, <1>6 DEF RowIds
<1>8. /\ it.open = iter[t].open /\ it.page = p /\ it.slot = i /\ it.stable = iter[t].stable
      /\ it.seen = iter[t].seen \cup {<<p, i>>}
      /\ it.twice = (iter[t].twice \/ <<p, i>> \in iter[t].seen)
  BY <1>1, <1>3, <1>5 DEF ScanStates
<1>9. it \in ScanStates
  BY <1>3, <1>5, <1>6, <1>7 DEF ScanStates
<1>10. iter' = [iter EXCEPT ![t] = it] /\ iter'[t] = it
  BY <1>2, <1>3, <1>5
<1>11. pc'[t] = "idle" /\ \A u \in Threads \ {t} : pc'[u] = pc[u]
  BY <1>4, GotoOthers DEF SameCall, Return
<1>12. ASSUME NEW n, NEW s, Chained(s, n), ScanOK(t, s, n)
       PROVE  ScanOK(t, s, n)'
  <2>1. Cut(t) = k /\ Cut(t)' = i + 1
    BY <1>1, <1>4, <1>8, <1>10, <1>11 DEF Cut
  <2>2. p # None
    BY <1>5, NoneAssumption
  <2>3. \A rid : Behind(t, rid, s, n) <=> ((rid[1] = p /\ rid[2] < k) \/ Before(s, n, rid[1], p))
    BY <1>1, <2>1, <2>2 DEF Behind
  <2>4. \A rid : Behind(t, rid, s, n)' <=>
                 ((rid[1] = p /\ rid[2] < i + 1) \/ Before(s, n, rid[1], p))
    BY <1>8, <1>10, <2>1, <2>2 DEF Behind
  <2>5. <<p, i>> \notin iter[t].seen
    <3>1. ~Before(s, n, p, p)
      BY <1>12, NotBeforeItself
    <3>2. ~Behind(t, <<p, i>>, s, n)
      BY <1>6, <2>3, <3>1
    <3>3. QED
      BY <1>5, <1>12, <3>2 DEF ScanOK
  <2>6. ASSUME NEW rid \in it.seen
        PROVE  Behind(t, rid, s, n)'
    <3>1. CASE rid = <<p, i>>
      BY <1>6, <2>4, <3>1
    <3>2. CASE rid \in iter[t].seen
      <4>1. rid[2] \in Nat /\ Behind(t, rid, s, n)
        BY <1>5, <1>12, <3>2 DEF ScanOK, ScanStates, RowIds
      <4>2. QED
        BY <1>6, <2>3, <2>4, <4>1
    <3>3. QED
      BY <1>8, <2>6, <3>1, <3>2
  <2>7. ASSUME NEW rid \in it.stable, Behind(t, rid, s, n)'
        PROVE  rid \in it.seen
    <3>1. rid \in DOMAIN rows /\ rid \in iter[t].stable
      BY <1>5, <1>8, <1>12 DEF ScanOK
    <3>2. rid[2] \in Nat \ {0} /\ rid = <<rid[1], rid[2]>> /\ rid[2] \in LiveSlots(heap[rid[1]])
      BY <1>12, <3>1, HeldOnChain
    <3>3. CASE Behind(t, rid, s, n)
      BY <1>5, <1>8, <1>12, <3>1, <3>3 DEF ScanOK
    <3>4. CASE ~Behind(t, rid, s, n)
      <4>1. rid[1] = p /\ rid[2] < i + 1 /\ ~(rid[2] < k)
        BY <2>3, <2>4, <2>7, <3>4
      <4>2. rid[2] \in Candidates(t)
        BY <1>1, <1>6, <3>2, <4>1 DEF Candidates
      <4>3. i <= rid[2]
        BY <1>2, <4>2
      <4>4. rid[2] = i
        BY <1>6, <3>2, <4>1, <4>3
      <4>5. QED
        BY <1>8, <3>2, <4>1, <4>4
    <3>5. QED
      BY <3>3, <3>4
  <2>8. iter[t].stable \subseteq DOMAIN rows /\ ~iter[t].twice
    BY <1>5, <1>12 DEF ScanOK
  <2>9. QED
    BY <1>4, <1>5, <1>8, <1>10, <1>11, <2>5, <2>6, <2>7, <2>8 DEF ScanOK, table
<1>13. QED
  BY <1>4, <1>9, <1>10, <1>11, <1>12, OneScans


\* Next has seen every row on its page, and goes on to the page it leads to or ends.
LEMMA PageScans ==
    ASSUME Sound, Held, Scanned, NEW t \in Threads, Next_Page(t)
    PROVE  Scanned'
<1>1. PICK p, k, q : p = iter[t].page /\ k = iter[t].slot /\ q = heap[p].next
  OBVIOUS
<1>2. PICK c \in {0, 1} : c = IF q = None THEN 0 ELSE 1
  OBVIOUS
<1>3. PICK label : label = IF q = None THEN "idle" ELSE "next"
  OBVIOUS
<1>4. PICK it : it = [iter[t] EXCEPT !.held = FALSE, !.slot = c, !.page = q]
  OBVIOUS
<1>5. /\ pc[t] = "next" /\ Candidates(t) = {} /\ Goto(t, label, NoCall)
      /\ UNCHANGED <<table, rows>>
      /\ iter' = [iter EXCEPT ![t].held = FALSE, ![t].slot = c, ![t].page = q]
  BY <1>1, <1>2, <1>3 DEF Next_Page
<1>6. /\ iter[t] \in ScanStates /\ iter \in [Threads -> ScanStates] /\ iter[t].open
      /\ p \in PageIds /\ heap[p].type = "HEAP"
  BY <1>1, <1>5, ScanTypes
<1>7. q \in PageIds \cup {None} /\ p # None
  BY <1>1, <1>6, NoneAssumption DEF Sound, Typed, PageStates
<1>8. /\ it \in ScanStates /\ it.open /\ it.page = q /\ it.slot = c
      /\ it.stable = iter[t].stable /\ it.seen = iter[t].seen /\ it.twice = iter[t].twice
  BY <1>2, <1>4, <1>6, <1>7 DEF ScanStates
<1>9. iter' = [iter EXCEPT ![t] = it] /\ iter'[t] = it
  BY <1>4, <1>5, <1>6
<1>10. pc'[t] = label /\ \A u \in Threads \ {t} : pc'[u] = pc[u]
  BY <1>5, GotoOthers DEF SameCall
<1>11. ASSUME NEW n, NEW s, Chained(s, n), ScanOK(t, s, n)
       PROVE  ScanOK(t, s, n)'
  <2>1. /\ iter[t].stable \subseteq DOMAIN rows /\ ~iter[t].twice
        /\ \A rid \in iter[t].seen : Behind(t, rid, s, n)
        /\ \A rid \in iter[t].stable : Behind(t, rid, s, n) => rid \in iter[t].seen
    BY <1>6, <1>11 DEF ScanOK
  <2>2. PICK j \in 1 .. n : s[j] = p
    BY <1>6, <1>11 DEF Chained
  <2>3. n \in Nat \ {0} /\ (q = IF j < n THEN s[j + 1] ELSE None)
    BY <1>1, <1>11, <2>2 DEF Chained
  <2>4. Cut(t) = k
    BY <1>1, <1>5 DEF Cut
  <2>5. \A rid : Behind(t, rid, s, n) <=> ((rid[1] = p /\ rid[2] < k) \/ Before(s, n, rid[1], p))
    BY <1>1, <1>7, <2>4 DEF Behind
  <2>6. ASSUME NEW rid \in iter[t].stable, NEW i \in 1 .. j, s[i] = rid[1]
        PROVE  rid \in iter[t].seen
    <3>1. rid[2] \in Nat \ {0} /\ rid[2] \in LiveSlots(heap[rid[1]])
      BY <1>11, <2>1, HeldOnChain
    <3>2. CASE i = j
      <4>1. rid[1] = p /\ rid[2] \notin Candidates(t)
        BY <1>5, <2>2, <2>6, <3>2
      <4>2. ~(rid[2] >= k)
        BY <1>1, <3>1, <4>1 DEF Candidates
      <4>3. k \in Nat
        BY <1>1, <1>6 DEF ScanStates
      <4>4. rid[2] < k
        BY <3>1, <4>2, <4>3
      <4>5. QED
        BY <2>1, <2>5, <4>1, <4>4
    <3>3. CASE i < j
      <4>1. i \in 1 .. n
        BY SMTT(30), <2>3, <3>3
      <4>2. Before(s, n, rid[1], p)
        BY <2>2, <2>6, <3>3, <4>1 DEF Before
      <4>3. QED
        BY <2>1, <2>5, <4>2
    <3>4. QED
      BY <2>3, <3>2, <3>3
  <2>7. CASE q = None
    <3>1. j = n
      <4>1. j < n => s[j + 1] \in PageIds
        BY SMTT(30), <1>11, <2>3 DEF Chained
      <4>2. QED
        BY <2>3, <2>7, <4>1, NoneAssumption
    <3>2. \A rid \in iter[t].stable : rid \in iter[t].seen
      <4>1. \A rid \in iter[t].stable : \E i \in 1 .. n : s[i] = rid[1]
        BY SMTT(30), <1>11, <2>1, HeldOnChain
      <4>2. QED
        BY <2>6, <3>1, <4>1
    <3>3. \A rid : Behind(t, rid, s, n)'
      BY <1>8, <1>9, <2>7 DEF Behind
    <3>4. label = "idle"
      BY <1>3, <2>7
    <3>5. QED
      BY <1>5, <1>8, <1>9, <1>10, <2>1, <2>7, <3>2, <3>3, <3>4 DEF ScanOK, table
  <2>8. CASE q # None
    <3>1. j < n /\ j + 1 \in 1 .. n /\ q = s[j + 1] /\ heap[q].type = "HEAP"
      <4>1. j < n /\ j + 1 \in 1 .. n /\ q = s[j + 1]
        BY <2>3, <2>8
      <4>2. q \in PageIds
        BY <1>7, <2>8
      <4>3. QED
        BY <1>11, <4>1, <4>2 DEF Chained
    <3>2. label = "next" /\ c = 1
      BY <1>2, <1>3, <2>8
    <3>3. Cut(t)' = 1
      BY <1>8, <1>9, <1>10, <3>2 DEF Cut
    <3>4. ASSUME NEW rid \in iter[t].seen
          PROVE  Behind(t, rid, s, n)'
      <4>1. CASE rid[1] = p
        <5>1. Before(s, n, rid[1], q)
          BY <2>2, <3>1, <4>1 DEF Before
        <5>2. QED
          BY <1>8, <1>9, <5>1 DEF Behind
      <4>2. CASE Before(s, n, rid[1], p)
        <5>1. PICK i \in 1 .. n, j1 \in 1 .. n : s[i] = rid[1] /\ s[j1] = p /\ i < j1
          BY <4>2 DEF Before
        <5>2. j1 = j
          BY SMTT(30), <1>11, <2>2, <5>1 DEF Chained
        <5>3. i < j + 1
          BY <2>3, <5>1, <5>2
        <5>4. Before(s, n, rid[1], q)
          BY <3>1, <5>1, <5>3 DEF Before
        <5>5. QED
          BY <1>8, <1>9, <5>4 DEF Behind
      <4>3. QED
        BY <2>1, <2>5, <4>1, <4>2
    <3>5. ASSUME NEW rid \in iter[t].stable, Behind(t, rid, s, n)'
          PROVE  rid \in iter[t].seen
      <4>1. rid[2] \in Nat \ {0}
        BY <1>11, <2>1, HeldOnChain
      <4>2. Before(s, n, rid[1], q)
        BY <1>8, <1>9, <2>8, <3>3, <3>5, <4>1 DEF Behind
      <4>3. PICK i \in 1 .. n, j1 \in 1 .. n : s[i] = rid[1] /\ s[j1] = q /\ i < j1
        BY <4>2 DEF Before
      <4>4. j1 = j + 1
        BY SMTT(30), <1>11, <3>1, <4>3 DEF Chained
      <4>5. i \in 1 .. j
        BY <2>3, <4>3, <4>4
      <4>6. QED
        BY <2>6, <4>3, <4>5
    <3>6. QED
      BY <1>5, <1>8, <1>9, <1>10, <2>1, <2>8, <3>1, <3>2, <3>4, <3>5 DEF ScanOK, table
  <2>9. QED
    BY <2>7, <2>8
<1>12. QED
  BY <1>5, <1>8, <1>9, <1>10, <1>11, OneScans


\* At first no scan is open.
LEMMA ScannedInit == Init => Scanned
<1> SUFFICES ASSUME Init
             PROVE  Scanned
  OBVIOUS
<1>1. NoScan \in ScanStates /\ ~NoScan.open /\ ~NoScan.twice
  BY DEF NoScan, ScanStates
<1>2. iter = [t \in Threads |-> NoScan] /\ \A t \in Threads : pc[t] = "idle"
  BY DEF Init
<1>3. \A t \in Threads : iter[t] = NoScan
  BY <1>2
<1>4. \A t \in Threads : \A n, s : ScanOK(t, s, n)
  BY <1>1, <1>2, <1>3 DEF ScanOK
<1>5. \E n \in Nat \ {0} : \E s \in [1 .. n -> PageIds] : Chained(s, n)
  BY SoundInit DEF Sound, Whole
<1>6. iter \in [Threads -> ScanStates]
  BY <1>1, <1>2
<1>7. QED
  BY <1>4, <1>5, <1>6 DEF Scanned

\* Every step leaves the scans sound.
LEMMA ScannedNext == Sound /\ Held /\ Scanned /\ [Next]_vars => Scanned'
<1> SUFFICES ASSUME Sound, Held, Scanned, [Next]_vars
             PROVE  Scanned'
  OBVIOUS
<1>1. CASE UNCHANGED vars \/ Open \/ Rest
  <2>1. UNCHANGED <<heap, first_page_id, pc, iter, rows>>
    BY <1>1 DEF vars, table, Open, Rest
  <2>2. SameChain /\ iter' \in [Threads -> ScanStates]
    BY <2>1 DEF SameChain, Scanned
  <2>3. \A u \in Threads : SameScan(u)
    BY <2>1 DEF SameScan
  <2>4. QED
    BY <2>2, <2>3, ScansStay
<1>2. ASSUME NEW t \in Threads, Inserting(t) \/ Removing(t) \/ Call(t), ~Scan(t)
      PROVE  Scanned'
  <2>1. iter' \in [Threads -> ScanStates] /\ \A u \in Threads : SameScan(u)
    BY <1>2, InsertingScans, RemovingScans, CallScans
  <2>2. SameChain \/ Link(t)
    BY <1>2, OnlyLinkExtends
  <2>3. QED
    BY <2>1, <2>2, ScansStay
<1>3. ASSUME NEW t \in Threads, Iterating(t) \/ Scan(t)
      PROVE  Scanned'
  BY <1>3, AdvanceScans, RowScans, PageScans, EndedScans, StartScans DEF Iterating
<1>4. QED
  BY <1>1, <1>2, <1>3 DEF Next

\* What every scan has passed and seen.
THEOREM ScannedInvariant ==
    ASSUME ~Racy
    PROVE  Spec => []Scanned
BY ScannedInit, ScannedNext, SoundInvariant, HeldInvariant, PTL DEF Spec

\* A scan that ends has returned every row that kept its RID throughout, and no RID
\* twice, while others insert, delete, update and extend the chain; a row relocated
\* during the scan may come under its old and its new RID
\* (TableIterator::Next, table_heap.cpp:349-407).
THEOREM ScansStayComplete ==
    ASSUME ~Racy
    PROVE  Spec => []ScanIsComplete
<1>1. Scanned => ScanIsComplete
  BY DEF Scanned, ScanOK, Behind, ScanIsComplete
<1>2. QED
  BY <1>1, ScannedInvariant, PTL


=============================================================================
