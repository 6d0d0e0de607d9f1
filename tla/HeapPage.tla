------------------------------- MODULE HeapPage -------------------------------
(***************************************************************************)
(* src/src/heap/heap_page.cpp: one slotted page, as its counters and the    *)
(* cells of its body.  The slot array grows up from the sub-header and the  *)
(* tuples grow down from the end, in one array of cells: a slot entry or a  *)
(* tuple that lands on the other is seen by whoever reads that cell.        *)
(*                                                                         *)
(* A page is used under the content latch of its guard, so each call is one *)
(* step.  Slot ids are counted from 1, body offsets from 0.  The counters   *)
(* are 16 bits wide in the code; a body of at most 2^16 - 1 bytes and       *)
(* CheckInvariants keep them in range, so no operation here wraps.          *)
(***************************************************************************)
EXTENDS Integers, Sequences, FiniteSets, RunningTotal

CONSTANTS
    PAGE_BODY_SIZE, HEAP_SUB_HEADER_SIZE, SLOT_SIZE, MAX_TUPLE_SIZE,
    Tuples,    \* the tuples callers offer, invalid ones included
    SlotIds,   \* the slots callers name
    NDEBUG     \* whether the build leaves out the poisoning of freed bytes

VARIABLES
    header,    \* HeapSubHeader
    body,      \* the cells behind the sub-header: slot entries and tuple bytes
    result     \* what the last call returned

vars == <<header, body, result>>

\* The static_assert of heap_page.hpp: two tuples of any size fit on a page.
ASSUME LayoutAssumption ==
    /\ {HEAP_SUB_HEADER_SIZE, SLOT_SIZE, MAX_TUPLE_SIZE} \subseteq Nat \ {0}
    /\ PAGE_BODY_SIZE \in Nat
    /\ 2 * (MAX_TUPLE_SIZE + SLOT_SIZE) + HEAP_SUB_HEADER_SIZE <= PAGE_BODY_SIZE

\* A tuple is the sequence of its bytes.
ASSUME TuplesAssumption ==
    \A tuple \in Tuples : Len(tuple) \in Nat /\ tuple = [k \in 1 .. Len(tuple) |-> tuple[k]]

Offsets == HEAP_SUB_HEADER_SIZE .. PAGE_BODY_SIZE - 1

\* A slot entry fills its SLOT_SIZE cells; the first stands for all of it.
SlotOffset(i) == HEAP_SUB_HEADER_SIZE + (i - 1) * SLOT_SIZE
SlotAt(b, i) == b[SlotOffset(i)]
WriteSlot(b, i, entry) ==
    [o \in Offsets |-> IF o \in SlotOffset(i) .. SlotOffset(i) + SLOT_SIZE - 1 THEN entry ELSE b[o]]

DeadSlot == [offset |-> 0, length |-> 0]
IsDead(entry) == entry.offset = 0

\* memcpy of a tuple to an offset of the body, and the bytes of a slot.
Copy(b, offset, tuple) ==
    [o \in Offsets |-> IF o \in offset .. offset + Len(tuple) - 1 THEN tuple[o - offset + 1] ELSE b[o]]
Bytes(b, entry) == [k \in 1 .. entry.length |-> b[entry.offset + k - 1]]

Live(h, b) == {i \in 1 .. h.slot_count : ~IsDead(SlotAt(b, i))}

Contiguous == header.tuple_data_start - (HEAP_SUB_HEADER_SIZE + header.slot_count * SLOT_SIZE)

ValidTuple(tuple) == Len(tuple) \in 1 .. MAX_TUPLE_SIZE
Returns(st, i) == result' = [st |-> st, slot |-> i]
Refuses(st, i) == Returns(st, i) /\ UNCHANGED <<header, body>>

\* Init on the zeroed body of a new page.
Init ==
    /\ header = [slot_count |-> 0, tuple_data_start |-> PAGE_BODY_SIZE,
                 live_count |-> 0, dead_bytes |-> 0]
    /\ body = [o \in Offsets |-> 0]
    /\ result = [st |-> "OK", slot |-> 0]

\* The slot that Insert takes: the first dead one, looked for only when the
\* counters say there is one, else a new one.
InsertSlot ==
    IF header.live_count < header.slot_count
    THEN CHOOSE i \in 1 .. header.slot_count :
             i \notin Live(header, body) /\ 1 .. i - 1 \subseteq Live(header, body)
    ELSE header.slot_count + 1

\* Insert at the low-water mark, in a dead slot or a new one; never compacts.
Insert(tuple) ==
    \/ ~ValidTuple(tuple) /\ Refuses("InvalidArgument", 0)
    \/ /\ ValidTuple(tuple)
       /\ LET slot == InsertSlot
              reused == slot <= header.slot_count
              offset == header.tuple_data_start - Len(tuple)
              required == Len(tuple) + (IF reused THEN 0 ELSE SLOT_SIZE)
          IN \/ required > Contiguous /\ Refuses("PageFull", 0)
             \/ /\ required <= Contiguous
                /\ body' = WriteSlot(Copy(body, offset, tuple), slot,
                                     [offset |-> offset, length |-> Len(tuple)])
                /\ header' = [header EXCEPT !.tuple_data_start = offset, !.live_count = @ + 1,
                                            !.slot_count = IF reused THEN @ ELSE @ + 1]
                /\ Returns("OK", slot)

\* The length is counted as dead before the slot forgets it.
Delete(i) ==
    \/ i \notin Live(header, body) /\ Refuses("NotFound", i)
    \/ /\ i \in Live(header, body)
       /\ header' = [header EXCEPT !.dead_bytes = @ + SlotAt(body, i).length, !.live_count = @ - 1]
       /\ body' = WriteSlot(body, i, DeadSlot)
       /\ Returns("OK", i)

(***************************************************************************)
(* Compaction: every live tuple is copied, in slot order, against the end   *)
(* of the body, and its slot follows it.                                    *)
(***************************************************************************)

Length(b, i) == SlotAt(b, i).length
LiveLengths(h, b) == [i \in 1 .. h.slot_count |-> IF i \in Live(h, b) THEN Length(b, i) ELSE 0]
SumLengths(h, b, n) == Total(LiveLengths(h, b), n)

\* Where slot i's tuple is copied to: cursor after its turn.
Target(h, b, i) == PAGE_BODY_SIZE - SumLengths(h, b, i)

\* The cell that offset o of the packed tuple region is copied from.
PackedFrom(h, b, o) ==
    LET i == CHOOSE j \in Live(h, b) :
                 o \in Target(h, b, j) .. Target(h, b, j) + Length(b, j) - 1
    IN SlotAt(b, i).offset + o - Target(h, b, i)

\* A faulty variant: the slots are not told where their tuples went.
Compacted_KeepsOffsets(h, b) ==
    LET cursor == Target(h, b, h.slot_count) IN
    [header |-> [h EXCEPT !.tuple_data_start = cursor, !.dead_bytes = 0],
     body |-> [o \in Offsets |-> IF o >= cursor THEN b[PackedFrom(h, b, o)] ELSE b[o]]]

\* The page after Compact: a page without dead bytes is left alone, and a debug
\* build poisons the bytes that were freed.
Compacted(h, b) ==
    LET cursor == Target(h, b, h.slot_count)
        Entry(i) == SlotOffset(i) .. SlotOffset(i) + SLOT_SIZE - 1
    IN IF h.dead_bytes = 0 THEN [header |-> h, body |-> b]
       ELSE [header |-> [h EXCEPT !.tuple_data_start = cursor, !.dead_bytes = 0],
             body |-> [o \in Offsets |->
                 IF o >= cursor THEN b[PackedFrom(h, b, o)]
                 ELSE IF \E i \in Live(h, b) : o \in Entry(i)
                 THEN [b[o] EXCEPT !.offset = Target(h, b, CHOOSE i \in Live(h, b) : o \in Entry(i))]
                 ELSE IF ~NDEBUG /\ o >= h.tuple_data_start THEN "poison"
                 ELSE b[o]]]

Compact ==
    /\ header' = Compacted(header, body).header
    /\ body' = Compacted(header, body).body
    /\ Returns("OK", 0)

(***************************************************************************)
(* Update.                                                                 *)
(***************************************************************************)

\* A faulty variant: the bytes a shrinking tuple gives up are forgotten.
UpdateInPlace_ForgetsTail(i, tuple) ==
    /\ body' = WriteSlot(Copy(body, SlotAt(body, i).offset, tuple), i,
                         [SlotAt(body, i) EXCEPT !.length = Len(tuple)])
    /\ UNCHANGED header

\* Case 1: the tuple keeps its offset, and its unused tail is dead.
UpdateInPlace(i, tuple) ==
    /\ body' = WriteSlot(Copy(body, SlotAt(body, i).offset, tuple), i,
                         [SlotAt(body, i) EXCEPT !.length = Len(tuple)])
    /\ header' = [header EXCEPT !.dead_bytes = @ + Length(body, i) - Len(tuple)]

\* The tuple is put at the low-water mark of a page, in slot i.
Relocated(h, b, i, tuple) ==
    LET offset == h.tuple_data_start - Len(tuple) IN
    WriteSlot(Copy(b, offset, tuple), i, [offset |-> offset, length |-> Len(tuple)])

\* Case 2, fast: there is room at the low-water mark.
UpdateMoves(i, tuple) ==
    /\ body' = Relocated(header, body, i, tuple)
    /\ header' = [header EXCEPT !.dead_bytes = @ + Length(body, i),
                                !.tuple_data_start = @ - Len(tuple)]

\* Case 2, slow: kill the tuple, compact, and put it back in its slot.
UpdateCompacts(i, tuple) ==
    LET killed == [header EXCEPT !.dead_bytes = @ + Length(body, i), !.live_count = @ - 1]
        packed == Compacted(killed, WriteSlot(body, i, DeadSlot))
    IN /\ body' = Relocated(packed.header, packed.body, i, tuple)
       /\ header' = [packed.header EXCEPT !.tuple_data_start = @ - Len(tuple), !.live_count = @ + 1]

Update(i, tuple) ==
    \/ ~ValidTuple(tuple) /\ Refuses("InvalidArgument", i)
    \/ ValidTuple(tuple) /\ i \notin Live(header, body) /\ Refuses("NotFound", i)
    \/ /\ ValidTuple(tuple) /\ i \in Live(header, body)
       /\ LET old == Length(body, i)
              new == Len(tuple)
          IN \/ new <= old /\ UpdateInPlace(i, tuple) /\ Returns("SamePage", i)
             \/ new > old /\ new <= Contiguous /\ UpdateMoves(i, tuple) /\ Returns("SamePage", i)
             \/ /\ new > old /\ new > Contiguous
                /\ new <= Contiguous + header.dead_bytes + old
                /\ UpdateCompacts(i, tuple)
                /\ Returns("SamePage", i)
             \/ /\ new > Contiguous + header.dead_bytes + old
                /\ Refuses("DoesNotFit", i)

Next ==
    \/ \E tuple \in Tuples : Insert(tuple) \/ \E i \in SlotIds : Update(i, tuple)
    \/ \E i \in SlotIds : Delete(i)
    \/ Compact

Spec == Init /\ [][Next]_vars

(***************************************************************************)
(* Properties.                                                             *)
(***************************************************************************)

\* ConstHeapPage::CheckInvariants, the assertion behind every mutation: the
\* tuple region is exactly the live tuples and dead_bytes, the slot array stops
\* below it, and live_count counts the live slots.
CheckInvariants ==
    LET live == Live(header, body) IN
    /\ header.tuple_data_start <= PAGE_BODY_SIZE
    /\ HEAP_SUB_HEADER_SIZE + header.slot_count * SLOT_SIZE <= header.tuple_data_start
    /\ \A i \in 1 .. header.slot_count : i \notin live => Length(body, i) = 0
    /\ \A i \in live : /\ SlotAt(body, i).offset >= header.tuple_data_start
                       /\ SlotAt(body, i).offset + Length(body, i) <= PAGE_BODY_SIZE
    /\ header.live_count = Cardinality(live)
    /\ header.tuple_data_start + SumLengths(header, body, header.slot_count) + header.dead_bytes
          = PAGE_BODY_SIZE

\* The page of SlotPage that a header and a body stand for.
Shown(h, b) == [slots |-> [i \in 1 .. h.slot_count |-> Bytes(b, SlotAt(b, i))],
                dead |-> h.dead_bytes]

Slots == INSTANCE SlotPageSpec WITH page <- Shown(header, body)

\* Every slot reads back the tuple last put in it, through moves, compactions
\* and the reuse of other slots, and every call answers as SlotPage says.
ImplementsSlotPage == Slots!PSpec

=============================================================================
