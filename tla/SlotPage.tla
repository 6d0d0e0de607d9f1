------------------------------- MODULE SlotPage -------------------------------
(***************************************************************************)
(* What a heap page promises (heap_page.hpp): a row of slots, each dead or  *)
(* holding a tuple, that never move, in a body of fixed size.  HeapPage     *)
(* implements it with offsets and bytes; TableHeap is built on it.          *)
(*                                                                         *)
(* A page is [slots, dead]: the tuple of every slot, slot ids counted from  *)
(* 1, and the bytes only a compaction can recover.  A tuple is the sequence *)
(* of its bytes.                                                            *)
(***************************************************************************)
EXTENDS Integers, Sequences, RunningTotal

CONSTANTS
    PAGE_BODY_SIZE,        \* bytes of a page that its header leaves
    HEAP_SUB_HEADER_SIZE,  \* bytes of the counters in front of the slots
    SLOT_SIZE,             \* bytes of a slot entry
    MAX_TUPLE_SIZE         \* the longest tuple accepted

\* The static_assert of heap_page.hpp: two tuples of any size fit on a page.
ASSUME LayoutAssumption ==
    /\ {HEAP_SUB_HEADER_SIZE, SLOT_SIZE, MAX_TUPLE_SIZE} \subseteq Nat \ {0}
    /\ PAGE_BODY_SIZE \in Nat
    /\ 2 * (MAX_TUPLE_SIZE + SLOT_SIZE) + HEAP_SUB_HEADER_SIZE <= PAGE_BODY_SIZE

\* A dead slot; no tuple is empty.
Dead == <<>>

EmptyPage == [slots |-> <<>>, dead |-> 0]

ValidTuple(tuple) == Len(tuple) \in 1 .. MAX_TUPLE_SIZE

LiveSlots(pg) == {i \in DOMAIN pg.slots : pg.slots[i] # Dead}

LiveBytes(pg) == Total([i \in DOMAIN pg.slots |-> Len(pg.slots[i])], Len(pg.slots))

\* Room between the slots and the tuples now, and after a compaction.
Contiguous(pg) ==
    PAGE_BODY_SIZE - HEAP_SUB_HEADER_SIZE - SLOT_SIZE * Len(pg.slots) - LiveBytes(pg) - pg.dead
Reclaimable(pg) == Contiguous(pg) + pg.dead

\* The slot an insert takes, the first dead one or a new one, and its cost.
InsertSlot(pg) ==
    IF LiveSlots(pg) = DOMAIN pg.slots THEN Len(pg.slots) + 1
    ELSE CHOOSE i \in DOMAIN pg.slots : /\ pg.slots[i] = Dead
                                        /\ \A j \in 1 .. i - 1 : pg.slots[j] # Dead
Required(pg, tuple) ==
    Len(tuple) + (IF InsertSlot(pg) > Len(pg.slots) THEN SLOT_SIZE ELSE 0)

CanInsert(pg, tuple) == Required(pg, tuple) <= Contiguous(pg)
Inserted(pg, tuple) ==
    [pg EXCEPT !.slots = [i \in DOMAIN @ \cup {InsertSlot(pg)} |->
                             IF i = InsertSlot(pg) THEN tuple ELSE @[i]]]

Deleted(pg, i) ==
    [slots |-> [pg.slots EXCEPT ![i] = Dead], dead |-> pg.dead + Len(pg.slots[i])]

Compacted(pg) == [pg EXCEPT !.dead = 0]

\* A tuple that does not grow stays where it is and a growing one leaves its
\* bytes behind, unless the page has to be compacted to hold it.
CanUpdate(pg, i, tuple) == Len(tuple) <= Reclaimable(pg) + Len(pg.slots[i])
Updated(pg, i, tuple) ==
    LET old == Len(pg.slots[i]) IN
    [slots |-> [pg.slots EXCEPT ![i] = tuple],
     dead |-> IF Len(tuple) <= old THEN pg.dead + old - Len(tuple)
              ELSE IF Len(tuple) <= Contiguous(pg) THEN pg.dead + old
              ELSE 0]

=============================================================================
