------------------------------ MODULE Replacer ------------------------------
(***************************************************************************)
(* src/src/buffer/replacer.hpp: the clock that picks the frame to evict.     *)
(*                                                                         *)
(* SetEvictable and Evict hold mtx_; RecordAccess takes no lock, so the      *)
(* usage counts move under a sweep, between the load that looks at one and   *)
(* the store or decrement that follows.                                     *)
(***************************************************************************)
EXTENDS Integers, FiniteSets

CONSTANTS
    Capacity,        \* frames in the pool
    kMaxUsageCount,  \* cap of a usage count (3 in the code)
    NoFrame          \* Evict found no candidate

ASSUME CapacityAssumption == Capacity \in Nat \ {0}
ASSUME kMaxUsageCountAssumption == kMaxUsageCount \in Nat \ {0}

Frames == 0 .. Capacity - 1

ASSUME NoFrameAssumption == NoFrame \notin Frames

VARIABLES
    usage_count,      \* usage_count_
    evictable,        \* evictable_: the frames whose flag is set
    evictable_count,  \* evictable_count_
    hand,             \* hand_
    pc,               \* mtx_ is free ("idle"), or where the Evict that holds it stands
    scanned,          \* the loop counter of that Evict
    evicted           \* what the last Evict returned

vars == <<usage_count, evictable, evictable_count, hand, pc, scanned, evicted>>

Advance == hand' = (hand + 1) % Capacity

Init ==
    /\ usage_count = [f \in Frames |-> 0]
    /\ evictable = {}
    /\ evictable_count = 0
    /\ hand = 0
    /\ pc = "idle"
    /\ scanned = 0
    /\ evicted = NoFrame

\* The compare-and-swap that succeeds; at the cap nothing is written.
RecordAccess(f) ==
    /\ usage_count[f] < kMaxUsageCount
    /\ usage_count' = [usage_count EXCEPT ![f] = @ + 1]
    /\ UNCHANGED <<evictable, evictable_count, hand, pc, scanned, evicted>>

\* A faulty variant: the count moves even when the flag does not.
SetEvictable_NotIdempotent(f, flag) ==
    /\ pc = "idle"
    /\ evictable' = IF flag THEN evictable \cup {f} ELSE evictable \ {f}
    /\ evictable_count' = IF flag THEN evictable_count + 1
                          ELSE IF evictable_count > 0 THEN evictable_count - 1 ELSE 0
    /\ UNCHANGED <<usage_count, hand, pc, scanned, evicted>>

\* Set or clear the flag; a flag that has the value already changes nothing.
SetEvictable(f, flag) ==
    /\ pc = "idle"
    /\ (f \in evictable) # flag
    /\ evictable' = IF flag THEN evictable \cup {f} ELSE evictable \ {f}
    /\ evictable_count' = IF flag THEN evictable_count + 1 ELSE evictable_count - 1
    /\ UNCHANGED <<usage_count, hand, pc, scanned, evicted>>

\* Evict takes mtx_: nothing to evict, or the sweep starts where the hand is.
Evict ==
    /\ pc = "idle"
    /\ IF evictable_count = 0
       THEN evicted' = NoFrame /\ UNCHANGED pc
       ELSE pc' = "sweep" /\ UNCHANGED evicted
    /\ scanned' = 0
    /\ UNCHANGED <<usage_count, evictable, evictable_count, hand>>

SweepBound == (kMaxUsageCount + 1) * Capacity

\* A faulty variant: the flag of the frame under the hand is not looked at.
Sweep_IgnoresFlag ==
    /\ pc = "sweep"
    /\ scanned < SweepBound
    /\ pc' = IF usage_count[hand] = 0 THEN "claim" ELSE "decrement"
    /\ UNCHANGED <<usage_count, evictable, evictable_count, hand, scanned, evicted>>

\* One turn of the bounded loop: pass a frame that is no candidate, or load the
\* usage count of one that is.
Sweep ==
    /\ pc = "sweep"
    /\ scanned < SweepBound
    /\ IF hand \notin evictable
       THEN Advance /\ scanned' = scanned + 1 /\ UNCHANGED pc
       ELSE /\ pc' = IF usage_count[hand] = 0 THEN "claim" ELSE "decrement"
            /\ UNCHANGED <<hand, scanned>>
    /\ UNCHANGED <<usage_count, evictable, evictable_count, evicted>>

\* A faulty variant: only the frames that are no candidates count as scanned.
Decrement_Uncounted ==
    /\ pc = "decrement"
    /\ usage_count' = [usage_count EXCEPT ![hand] = @ - 1]
    /\ Advance
    /\ pc' = "sweep"
    /\ UNCHANGED <<evictable, evictable_count, scanned, evicted>>

\* The count was not zero: take one off and move on.
Decrement ==
    /\ pc = "decrement"
    /\ usage_count' = [usage_count EXCEPT ![hand] = @ - 1]
    /\ Advance
    /\ scanned' = scanned + 1
    /\ pc' = "sweep"
    /\ UNCHANGED <<evictable, evictable_count, evicted>>

\* The bound is exhausted: the first candidate under the hand, whatever its count.
Fallback ==
    /\ pc = "sweep"
    /\ scanned = SweepBound
    /\ IF hand \in evictable THEN pc' = "claim" /\ UNCHANGED hand ELSE Advance /\ UNCHANGED pc
    /\ UNCHANGED <<usage_count, evictable, evictable_count, scanned, evicted>>

\* A faulty variant: the victim stays a candidate.
ClaimVictim_KeepsFlag ==
    /\ pc = "claim"
    /\ usage_count' = [usage_count EXCEPT ![hand] = 0]
    /\ Advance
    /\ evicted' = hand
    /\ pc' = "idle"
    /\ scanned' = 0
    /\ UNCHANGED <<evictable, evictable_count>>

\* The victim leaves the set, with its count reset, and mtx_ is released.
ClaimVictim ==
    /\ pc = "claim"
    /\ evictable' = evictable \ {hand}
    /\ evictable_count' = evictable_count - 1
    /\ usage_count' = [usage_count EXCEPT ![hand] = 0]
    /\ Advance
    /\ evicted' = hand
    /\ pc' = "idle"
    /\ scanned' = 0

\* The steps of the Evict that holds mtx_.
Sweeping == Sweep \/ Decrement \/ Fallback \/ ClaimVictim

Next ==
    \/ \E f \in Frames : RecordAccess(f) \/ \E flag \in BOOLEAN : SetEvictable(f, flag)
    \/ Evict
    \/ Sweeping

Spec == Init /\ [][Next]_vars

\* The thread that holds mtx_ is scheduled.
FairSpec == Spec /\ WF_vars(Sweeping)

(***************************************************************************)
(* Properties.                                                             *)
(***************************************************************************)

\* The types of the state; no usage count leaves 0 .. kMaxUsageCount, although
\* it is decremented after a load that RecordAccess may have overtaken.
TypeOK ==
    /\ usage_count \in [Frames -> 0 .. kMaxUsageCount]
    /\ evictable \subseteq Frames
    /\ evictable_count \in 0 .. Capacity
    /\ hand \in Frames
    /\ pc \in {"idle", "sweep", "decrement", "claim"}
    /\ scanned \in 0 .. SweepBound
    /\ evicted \in Frames \cup {NoFrame}

\* evictable_count_ counts the flags, so the early return of Evict is exact and
\* the fallback loop has a flag to find.
CountAgrees ==
    /\ evictable_count = Cardinality(evictable)
    /\ pc # "idle" => evictable # {}

\* An Evict that found candidates returns one, however fast other threads
\* record accesses to them.
EvictReturns == pc # "idle" ~> pc = "idle"

Candidates == INSTANCE CandidateSet WITH candidates <- evictable

\* The clock implements the set of candidates the pool relies on: a victim was a
\* candidate and no longer is, and nothing is found only when there is nothing.
ImplementsCandidateSet == Candidates!CSpec

\* The inductive invariant: a count under decrement is not zero, and the hand
\* stays on its candidate until the claim.
Inductive ==
    /\ TypeOK
    /\ CountAgrees
    /\ pc = "decrement" => usage_count[hand] > 0 /\ scanned < SweepBound
    /\ pc \in {"decrement", "claim"} => hand \in evictable

=============================================================================
