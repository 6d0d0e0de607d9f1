----------------------------- MODULE SlotPageSpec -----------------------------
(***************************************************************************)
(* The calls of a heap page, each a step on the page of SlotPage.           *)
(***************************************************************************)
EXTENDS SlotPage

CONSTANTS
    Tuples,    \* the tuples callers offer, invalid ones included
    SlotIds    \* the slots callers name

VARIABLES
    page,      \* the page
    result     \* what the last call returned: a status and a slot

Answer(st, i) == result' = [st |-> st, slot |-> i]

PInsert(tuple) ==
    \/ ~ValidTuple(tuple) /\ Answer("InvalidArgument", 0) /\ UNCHANGED page
    \/ ValidTuple(tuple) /\ ~CanInsert(page, tuple) /\ Answer("PageFull", 0) /\ UNCHANGED page
    \/ /\ ValidTuple(tuple) /\ CanInsert(page, tuple)
       /\ page' = Inserted(page, tuple)
       /\ Answer("OK", InsertSlot(page))

PDelete(i) ==
    \/ i \notin LiveSlots(page) /\ Answer("NotFound", i) /\ UNCHANGED page
    \/ i \in LiveSlots(page) /\ page' = Deleted(page, i) /\ Answer("OK", i)

PUpdate(i, tuple) ==
    \/ ~ValidTuple(tuple) /\ Answer("InvalidArgument", i) /\ UNCHANGED page
    \/ ValidTuple(tuple) /\ i \notin LiveSlots(page) /\ Answer("NotFound", i) /\ UNCHANGED page
    \/ /\ ValidTuple(tuple) /\ i \in LiveSlots(page)
       /\ \/ ~CanUpdate(page, i, tuple) /\ Answer("DoesNotFit", i) /\ UNCHANGED page
          \/ CanUpdate(page, i, tuple) /\ page' = Updated(page, i, tuple) /\ Answer("SamePage", i)

PCompact == page' = Compacted(page) /\ Answer("OK", 0)

PInit == page = EmptyPage /\ result = [st |-> "OK", slot |-> 0]

PNext ==
    \/ \E tuple \in Tuples : PInsert(tuple) \/ \E i \in SlotIds : PUpdate(i, tuple)
    \/ \E i \in SlotIds : PDelete(i)
    \/ PCompact

PSpec == PInit /\ [][PNext]_<<page, result>>

=============================================================================
