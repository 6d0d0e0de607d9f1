------------------------------- MODULE TableHeap -------------------------------
(***************************************************************************)
(* src/src/heap/table_heap.cpp: the rows of one table, in a chain of heap   *)
(* pages, called by many threads.                                           *)
(*                                                                         *)
(* A page is read and changed only under the content latch of a page guard, *)
(* so the work done under one guard is one step, and threads interleave     *)
(* between guards.  Two latches outlive a step: an inserter keeps the last  *)
(* page latched while it extends the chain, and an iterator keeps the page  *)
(* of its current row.  The pages are those of SlotPage, which HeapPage     *)
(* implements; the guards are those of BufferPool.                          *)
(*                                                                         *)
(* Calls that return an error before they touch anything (an invalid tuple, *)
(* a fetch that fails) leave the state as it is and are not steps, unless   *)
(* the thread was in the middle of a call.                                  *)
(***************************************************************************)
EXTENDS SlotPage, FiniteSets, Functions

CONSTANTS
    Threads,
    PageIds,             \* the pages the pool can give to this table
    INSERT_PROBE_LIMIT,  \* pages an insert probes before it appends
    COMPACT_THRESHOLD,   \* dead bytes worth a compaction while probing
    Tuples,              \* the rows callers store
    MaxCalls,            \* bound: calls made, a scan counting as one
    Scanners,            \* the threads that scan
    Faults,              \* whether the pool's calls may fail
    Racy,                \* whether threads change the same row at the same time
    None

ASSUME LimitsAssumption == INSERT_PROBE_LIMIT \in Nat /\ COMPACT_THRESHOLD \in Nat /\ MaxCalls \in Nat
ASSUME TuplesAssumption == \A tuple \in Tuples : ValidTuple(tuple)
ASSUME CallersAssumption == Scanners \subseteq Threads /\ {Faults, Racy} \subseteq BOOLEAN
ASSUME NoneAssumption == None \notin PageIds

VARIABLES
    heap,           \* every page: its type, slots, dead bytes and next_page_id
    first_page_id,  \* first_page_id_
    last_page_id,   \* last_page_id_
    insert_hint,    \* insert_hint_
    pc,             \* where each thread stands
    loc,            \* the locals of its call
    iter,           \* its TableIterator
    rows,           \* history: the rows callers hold, by RID, and who may change them
    balance,        \* history: rows inserted, or inserted again, less rows deleted
    calls           \* bound: how many calls have been made

table == <<heap, first_page_id, last_page_id, insert_hint>>
vars == <<table, pc, loc, iter, rows, balance, calls>>

RIDs == PageIds \X (1 .. PAGE_BODY_SIZE)

Blank == [type |-> "unborn", slots |-> <<>>, dead |-> 0, next |-> None]
HeapOf(pg, next) == [type |-> "HEAP", slots |-> pg.slots, dead |-> pg.dead, next |-> next]
With(p, pg) == [heap EXCEPT ![p] = HeapOf(pg, heap[p].next)]

NoCall == [op |-> "none", tuple |-> Dead, rid |-> None, page |-> None,
           from_hint |-> FALSE, probe |-> 0, new |-> None, moved |-> FALSE]
NoScan == [open |-> FALSE, page |-> None, slot |-> 0, held |-> FALSE,
           stable |-> {}, seen |-> {}, twice |-> FALSE]

\* Create has made and stamped the first page.
Init ==
    /\ first_page_id \in PageIds
    /\ heap = [p \in PageIds |-> IF p = first_page_id THEN HeapOf(EmptyPage, None) ELSE Blank]
    /\ last_page_id = first_page_id
    /\ insert_hint = first_page_id
    /\ pc = [t \in Threads |-> "idle"]
    /\ loc = [t \in Threads |-> NoCall]
    /\ iter = [t \in Threads |-> NoScan]
    /\ rows = <<>>
    /\ balance = 0
    /\ calls = 0

(***************************************************************************)
(* Latches and calls.                                                      *)
(***************************************************************************)

\* A faulty variant: the last page is released before the chain is extended.
Extending_Released(t) == {}

\* Pages a thread keeps latched for writing from one step to the next.
Extending(t) == IF pc[t] \in {"new_page", "link", "publish"} THEN {loc[t].page, loc[t].new} ELSE {}

CanRead(p) == \A t \in Threads : p \notin Extending(t)
CanWrite(p) == CanRead(p) /\ \A t \in Threads : ~(iter[t].held /\ iter[t].page = p)

IsLive(rid) == rid[2] \in LiveSlots(heap[rid[1]])
LiveRows == {rid \in RIDs : IsLive(rid)}
Row(rid) == heap[rid[1]].slots[rid[2]]

Goto(t, label, l) == pc' = [pc EXCEPT ![t] = label] /\ loc' = [loc EXCEPT ![t] = l]
Return(t) == Goto(t, "idle", NoCall)

\* One more call is made.
Counted == calls < MaxCalls /\ calls' = calls + 1

\* A thread that holds an iterator makes no other call (table_heap.hpp:55-72).
Idle(t) == pc[t] = "idle" /\ ~iter[t].open

\* The row at rid has gone: a scan in progress need not find it.
Gone(rid) == iter' = [t \in Threads |-> [iter[t] EXCEPT !.stable = @ \ {rid}]]

Hold(r, t, rid, tuple) == [x \in DOMAIN r \cup {rid} |->
                              IF x = rid THEN [tuple |-> tuple, by |-> t] ELSE r[x]]
Drop(r, rid) == Restrict(r, DOMAIN r \ {rid})

\* The rows thread t may change: its own ones, as if under row locks.
Changeable(t) == {rid \in DOMAIN rows : Racy \/ rows[rid].by = t}

(***************************************************************************)
(* Insert.                                                                 *)
(***************************************************************************)

\* TryInsertOnPage: compact only when it helps and is worth it.
NeedsCompact(pg, tuple) == Contiguous(pg) < Len(tuple) + SLOT_SIZE
CanTake(pg, tuple, threshold) ==
    NeedsCompact(pg, tuple) =>
        Reclaimable(pg) >= Len(tuple) + SLOT_SIZE /\ pg.dead >= threshold

\* A faulty variant: the room a compaction would make is used without it.
Taken_Uncompacted(pg, tuple) == Inserted(pg, tuple)

\* The page with the row, compacted first if need be.
Taken(pg, tuple) ==
    IF NeedsCompact(pg, tuple) THEN Inserted(Compacted(pg), tuple) ELSE Inserted(pg, tuple)

\* Insert has put its row at rid: an insert returns, an update goes on.
Placed(t, rid) ==
    \/ /\ loc[t].op = "insert"
       /\ Return(t)
       /\ rows' = Hold(rows, t, rid, loc[t].tuple)
       /\ balance' = balance + 1
    \/ /\ loc[t].op = "update"
       /\ Goto(t, "remove", [loc[t] EXCEPT !.new = rid, !.page = None, !.probe = 0])
       /\ UNCHANGED <<rows, balance>>

\* Insert fails: the call it is part of returns the error.
Fails(t) == Return(t) /\ UNCHANGED <<rows, balance>>

StartInsert(t, tuple) ==
    /\ Counted
    /\ Idle(t)
    /\ Goto(t, "insert", [NoCall EXCEPT !.op = "insert", !.tuple = tuple])
    /\ UNCHANGED <<table, iter, rows, balance>>

LoadHint(t) ==
    /\ pc[t] = "insert"
    /\ Goto(t, "probe", [loc[t] EXCEPT !.page = insert_hint, !.from_hint = TRUE, !.probe = 0])
    /\ UNCHANGED <<table, iter, rows, balance, calls>>

\* The next probe, or the append once the limit is reached.
NextProbe(t, p) ==
    Goto(t, IF loc[t].probe + 1 < INSERT_PROBE_LIMIT THEN "probe" ELSE "load_last",
         [loc[t] EXCEPT !.page = p, !.from_hint = FALSE, !.probe = @ + 1])

\* The probed page takes the row.
ProbeInsert(t) ==
    /\ pc[t] = "probe"
    /\ LET p == loc[t].page
           pg == heap[p]
       IN /\ CanWrite(p) /\ pg.type = "HEAP" /\ CanTake(pg, loc[t].tuple, COMPACT_THRESHOLD)
          /\ heap' = With(p, Taken(pg, loc[t].tuple))
          /\ insert_hint' = p
          /\ Placed(t, <<p, InsertSlot(pg)>>)
    /\ UNCHANGED <<first_page_id, last_page_id, iter, calls>>

\* The probed page is full: advance, wrapping, and publish the cursor.
ProbeFull(t) ==
    /\ pc[t] = "probe"
    /\ LET p == loc[t].page
           next == IF heap[p].next = None THEN first_page_id ELSE heap[p].next
       IN /\ CanWrite(p) /\ heap[p].type = "HEAP"
          /\ ~CanTake(heap[p], loc[t].tuple, COMPACT_THRESHOLD)
          /\ insert_hint' = next
          /\ NextProbe(t, next)
    /\ UNCHANGED <<heap, first_page_id, last_page_id, iter, rows, balance, calls>>

\* The page cannot be fetched, or is no heap page: a hint sends the sweep back to
\* the front, a link or the first page is an error.
ProbeFails(t) ==
    /\ pc[t] = "probe"
    /\ Faults \/ heap[loc[t].page].type # "HEAP"
    /\ \/ /\ loc[t].from_hint /\ loc[t].page # first_page_id
          /\ NextProbe(t, first_page_id)
          /\ UNCHANGED <<rows, balance>>
       \/ /\ ~loc[t].from_hint \/ loc[t].page = first_page_id
          /\ Fails(t)
    /\ UNCHANGED <<table, iter, calls>>

LoadLast(t) ==
    /\ pc[t] = "load_last"
    /\ Goto(t, "append", [loc[t] EXCEPT !.page = last_page_id, !.probe = 0])
    /\ UNCHANGED <<table, iter, rows, balance, calls>>

\* Someone has extended the chain: follow the link.
AppendFollow(t) ==
    /\ pc[t] = "append"
    /\ CanWrite(loc[t].page)
    /\ heap[loc[t].page].next # None
    /\ Goto(t, "append", [loc[t] EXCEPT !.page = heap[loc[t].page].next])
    /\ UNCHANGED <<table, iter, rows, balance, calls>>

\* The last page takes the row.
AppendInsert(t) ==
    /\ pc[t] = "append"
    /\ LET p == loc[t].page
           pg == heap[p]
       IN /\ CanWrite(p) /\ pg.type = "HEAP" /\ pg.next = None /\ CanTake(pg, loc[t].tuple, 0)
          /\ heap' = With(p, Taken(pg, loc[t].tuple))
          /\ insert_hint' = p
          /\ Placed(t, <<p, InsertSlot(pg)>>)
    /\ UNCHANGED <<first_page_id, last_page_id, iter, calls>>

\* The last page is full: keep its latch and extend.
AppendFull(t) ==
    /\ pc[t] = "append"
    /\ LET p == loc[t].page IN
       /\ CanWrite(p) /\ heap[p].type = "HEAP" /\ heap[p].next = None
       /\ ~CanTake(heap[p], loc[t].tuple, 0)
    /\ Goto(t, "new_page", loc[t])
    /\ UNCHANGED <<table, iter, rows, balance, calls>>

AppendFails(t) ==
    /\ pc[t] = "append"
    /\ Faults \/ heap[loc[t].page].type # "HEAP"
    /\ Fails(t)
    /\ UNCHANGED <<table, iter, calls>>

\* NewPage gives a page no other thread can name yet.
NewPage(t, p) ==
    /\ pc[t] = "new_page"
    /\ heap[p].type = "unborn"
    /\ heap' = [heap EXCEPT ![p].type = "ALLOCATED"]
    /\ Goto(t, "link", [loc[t] EXCEPT !.new = p])
    /\ UNCHANGED <<first_page_id, last_page_id, insert_hint, iter, rows, balance, calls>>

NewPageFails(t) ==
    /\ pc[t] = "new_page"
    /\ Faults \/ \A p \in PageIds : heap[p].type # "unborn"
    /\ Fails(t)
    /\ UNCHANGED <<table, iter, calls>>

\* Stamp and initialise the new page, put the row in it, and link it.
Link(t) ==
    /\ pc[t] = "link"
    /\ heap' = [heap EXCEPT ![loc[t].new] = HeapOf(Inserted(EmptyPage, loc[t].tuple), None),
                            ![loc[t].page].next = loc[t].new]
    /\ Goto(t, "publish", loc[t])
    /\ UNCHANGED <<first_page_id, last_page_id, insert_hint, iter, rows, balance, calls>>

\* Publish the new last page and release both latches.
Publish(t) ==
    /\ pc[t] = "publish"
    /\ last_page_id' = loc[t].new
    /\ insert_hint' = loc[t].new
    /\ Placed(t, <<loc[t].new, 1>>)
    /\ UNCHANGED <<heap, first_page_id, iter, calls>>

(***************************************************************************)
(* Delete and Update.                                                      *)
(***************************************************************************)

\* HeapPage::Delete under the page's latch; the freed page becomes the hint.  A
\* row that is gone is left so.
DeleteRow(rid) ==
    /\ CanWrite(rid[1])
    /\ heap' = IF IsLive(rid) THEN With(rid[1], Deleted(heap[rid[1]], rid[2])) ELSE heap
    /\ insert_hint' = IF IsLive(rid) THEN rid[1] ELSE insert_hint
    /\ Gone(rid)
    /\ UNCHANGED <<first_page_id, last_page_id>>

Delete(t, rid) ==
    /\ Counted
    /\ Idle(t)
    /\ rid \in Changeable(t)
    /\ DeleteRow(rid)
    /\ rows' = Drop(rows, rid)
    /\ balance' = balance - 1
    /\ UNCHANGED <<pc, loc>>

\* The row fits on its page: it keeps its RID.
UpdateSamePage(t, rid, tuple) ==
    /\ Counted
    /\ Idle(t)
    /\ rid \in Changeable(t)
    /\ CanWrite(rid[1])
    /\ IsLive(rid)
    /\ CanUpdate(heap[rid[1]], rid[2], tuple)
    /\ heap' = With(rid[1], Updated(heap[rid[1]], rid[2], tuple))
    /\ rows' = Hold(rows, rows[rid].by, rid, tuple)
    /\ UNCHANGED <<first_page_id, last_page_id, insert_hint, pc, loc, iter, balance>>

\* A faulty variant: the original is deleted before its copy is inserted.
UpdateDoesNotFit_DeletesFirst(t, rid, tuple) ==
    /\ Counted
    /\ Idle(t)
    /\ rid \in Changeable(t)
    /\ ~CanUpdate(heap[rid[1]], rid[2], tuple)
    /\ DeleteRow(rid)
    /\ Goto(t, "insert", [NoCall EXCEPT !.op = "update", !.tuple = tuple, !.rid = rid])
    /\ UNCHANGED <<rows, balance>>

\* It does not: with the latch released, insert it elsewhere first ...
UpdateDoesNotFit(t, rid, tuple) ==
    /\ Counted
    /\ Idle(t)
    /\ rid \in Changeable(t)
    /\ CanWrite(rid[1])
    /\ IsLive(rid)
    /\ ~CanUpdate(heap[rid[1]], rid[2], tuple)
    /\ Goto(t, "insert", [NoCall EXCEPT !.op = "update", !.tuple = tuple, !.rid = rid])
    /\ UNCHANGED <<table, iter, rows, balance>>

\* ... then delete the original, or find it gone, which counts as done.  An
\* original that was deleted makes the copy a new row; one that another update
\* has moved meanwhile (moved) does not.
RemoveOriginal(t) ==
    /\ pc[t] = "remove"
    /\ LET rid == loc[t].rid IN
       /\ DeleteRow(rid)
       /\ rows' = Hold(Drop(rows, rid), t, loc[t].new, loc[t].tuple)
       /\ balance' = IF IsLive(rid) \/ loc[t].moved THEN balance ELSE balance + 1
       /\ pc' = [pc EXCEPT ![t] = "idle"]
       /\ loc' = [u \in Threads |-> IF u = t THEN NoCall
                                    ELSE [loc[u] EXCEPT !.moved = @ \/ loc[u].rid = rid]]
    /\ UNCHANGED calls

\* Or fail to, and report that the row is there twice.
RemoveFails(t) ==
    /\ pc[t] = "remove"
    /\ Faults
    /\ rows' = Hold(rows, t, loc[t].new, loc[t].tuple)
    /\ balance' = balance + 1
    /\ Return(t)
    /\ UNCHANGED <<table, iter, calls>>

(***************************************************************************)
(* TableIterator.                                                          *)
(***************************************************************************)

Scan(t) ==
    /\ Counted
    /\ t \in Scanners
    /\ Idle(t)
    /\ iter' = [iter EXCEPT ![t] = [NoScan EXCEPT !.open = TRUE, !.page = first_page_id,
                                                  !.stable = DOMAIN rows]]
    /\ UNCHANGED <<table, pc, loc, rows, balance>>

\* Next: the first call looks at slot 1, the others past the last row.
Next_Advance(t) ==
    /\ pc[t] = "idle"
    /\ iter[t].open /\ iter[t].page # None
    /\ iter' = [iter EXCEPT ![t].slot = @ + 1]
    /\ Goto(t, "next", NoCall)
    /\ UNCHANGED <<table, rows, balance, calls>>

Candidates(t) == {i \in LiveSlots(heap[iter[t].page]) : i >= iter[t].slot}

\* Next finds a row on its page, copies it out and keeps the guard.
Next_Row(t) ==
    /\ pc[t] = "next"
    /\ iter[t].held \/ CanRead(iter[t].page)
    /\ \E i \in Candidates(t) :
          /\ \A j \in Candidates(t) : i <= j
          /\ iter' = [iter EXCEPT ![t].held = TRUE, ![t].slot = i,
                                  ![t].seen = @ \cup {<<iter[t].page, i>>},
                                  ![t].twice = @ \/ <<iter[t].page, i>> \in iter[t].seen]
    /\ Return(t)
    /\ UNCHANGED <<table, rows, balance, calls>>

\* A faulty variant: the slot cursor is not reset for the next page.
Next_Page_KeepsSlot(t) ==
    /\ pc[t] = "next"
    /\ iter[t].held \/ CanRead(iter[t].page)
    /\ Candidates(t) = {}
    /\ LET next == heap[iter[t].page].next IN
       /\ iter' = [iter EXCEPT ![t].held = FALSE, ![t].page = next]
       /\ Goto(t, IF next = None THEN "idle" ELSE "next", NoCall)
    /\ UNCHANGED <<table, rows, balance, calls>>

\* Next exhausts its page: read the link, drop the guard, go on or end.
Next_Page(t) ==
    /\ pc[t] = "next"
    /\ iter[t].held \/ CanRead(iter[t].page)
    /\ Candidates(t) = {}
    /\ LET next == heap[iter[t].page].next IN
       /\ iter' = [iter EXCEPT ![t].held = FALSE, ![t].slot = IF next = None THEN 0 ELSE 1,
                               ![t].page = next]
       /\ Goto(t, IF next = None THEN "idle" ELSE "next", NoCall)
    /\ UNCHANGED <<table, rows, balance, calls>>

\* A fetch fails: "the scan cannot continue" (table_heap.hpp:90-91).
Next_Fails(t) ==
    /\ pc[t] = "next"
    /\ ~iter[t].held
    /\ Faults
    /\ iter' = [iter EXCEPT ![t] = NoScan]
    /\ Return(t)
    /\ UNCHANGED <<table, rows, balance, calls>>

\* The iterator dies, with its guard.
EndScan(t) ==
    /\ pc[t] = "idle"
    /\ iter[t].open
    /\ iter' = [iter EXCEPT ![t] = NoScan]
    /\ UNCHANGED <<table, pc, loc, rows, balance, calls>>

(***************************************************************************)
(* The specification.                                                      *)
(***************************************************************************)

\* The table is closed and opened again, with a last page the caller may have
\* asked for before the chain grew (table_heap.hpp:229-231).
Open ==
    /\ Counted
    /\ \A t \in Threads : Idle(t)
    /\ last_page_id' \in {p \in PageIds : heap[p].type = "HEAP"}
    /\ insert_hint' = first_page_id
    /\ UNCHANGED <<heap, first_page_id, pc, loc, iter, rows, balance>>

Inserting(t) ==
    \/ LoadHint(t) \/ ProbeInsert(t) \/ ProbeFull(t) \/ ProbeFails(t)
    \/ LoadLast(t) \/ AppendFollow(t) \/ AppendInsert(t) \/ AppendFull(t) \/ AppendFails(t)
    \/ \E p \in PageIds : NewPage(t, p)
    \/ NewPageFails(t) \/ Link(t) \/ Publish(t)

Removing(t) == RemoveOriginal(t) \/ RemoveFails(t)

Iterating(t) == Next_Advance(t) \/ Next_Row(t) \/ Next_Page(t) \/ Next_Fails(t) \/ EndScan(t)

\* A thread makes a call.
Call(t) ==
    \/ \E tuple \in Tuples : StartInsert(t, tuple)
    \/ \E rid \in DOMAIN rows :
          \/ Delete(t, rid)
          \/ \E tuple \in Tuples : UpdateSamePage(t, rid, tuple) \/ UpdateDoesNotFit(t, rid, tuple)
    \/ Scan(t)

\* The callers need not make another call.
Rest == (\A t \in Threads : Idle(t)) /\ UNCHANGED vars

Next ==
    \/ \E t \in Threads : Inserting(t) \/ Removing(t) \/ Iterating(t) \/ Call(t)
    \/ Open
    \/ Rest

Spec == Init /\ [][Next]_vars

(***************************************************************************)
(* Properties.                                                             *)
(***************************************************************************)

Labels == {"idle", "insert", "probe", "load_last", "append", "new_page", "link", "publish",
           "remove", "next"}

\* The types of the state: pages, cursors, calls and iterators.
TypeOK ==
    /\ \A p \in PageIds : /\ heap[p].type \in {"unborn", "ALLOCATED", "HEAP"}
                          /\ heap[p].next \in PageIds \cup {None}
                          /\ Contiguous(heap[p]) \in Nat /\ heap[p].dead \in Nat
    /\ first_page_id \in PageIds /\ last_page_id \in PageIds /\ insert_hint \in PageIds
    /\ pc \in [Threads -> Labels]
    /\ \A t \in Threads : loc[t].probe \in 0 .. INSERT_PROBE_LIMIT
    /\ \A t \in Threads : iter[t].slot \in 0 .. PAGE_BODY_SIZE
    /\ DOMAIN rows \subseteq RIDs
    /\ balance \in Int /\ calls \in 0 .. MaxCalls

HeapPages == {p \in PageIds : heap[p].type = "HEAP"}

\* Two inserters never extend the chain at the same place: the links lead from the
\* first page through every heap page, once, to an end, so no page is leaked and no
\* row unreachable (table_heap.hpp:195-197).
ChainIsWhole ==
    LET n == Cardinality(HeapPages) IN
    \E chain \in [1 .. n -> HeapPages] :
        /\ chain[1] = first_page_id
        /\ \A i \in 1 .. n : heap[chain[i]].next = IF i < n THEN chain[i + 1] ELSE None
        /\ \A p \in HeapPages : \E i \in 1 .. n : chain[i] = p

\* The rows on the pages are the rows the callers hold: each RID reads back the
\* tuple last stored under it, and no row is there twice or left behind, save
\* the copy that an insert or an update has not returned yet.
RowsAreHeld ==
    /\ \A rid \in DOMAIN rows : IsLive(rid) /\ Row(rid) = rows[rid].tuple
    /\ \A rid \in LiveRows \ DOMAIN rows :
          \E t \in Threads : \/ pc[t] = "remove" /\ loc[t].new = rid
                             \/ pc[t] = "publish" /\ <<loc[t].new, 1>> = rid

\* A scan that ends has returned every row that kept its RID throughout, and no RID
\* twice, however the chain grew and its pages were compacted meanwhile.  A row that
\* an update relocates during the scan may come under its old and its new RID.
ScanIsComplete ==
    \A t \in Threads :
        /\ iter[t].open /\ iter[t].page = None => iter[t].stable \subseteq iter[t].seen
        /\ ~iter[t].twice

\* "kNotFound is the one benign failure: another thread deleted the original"
\* (table_heap.cpp:297): when every call has returned, the rows on the pages are
\* as many as were inserted and not deleted, a row that an update put back after
\* its deletion included.
NoRowDuplicated ==
    (\A t \in Threads : pc[t] = "idle") => Cardinality(LiveRows) = balance

=============================================================================
