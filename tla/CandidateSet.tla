---------------------------- MODULE CandidateSet ----------------------------
(***************************************************************************)
(* What src/src/buffer/replacer.hpp promises the pool: a set of frames, one  *)
(* of which Evict takes out and returns whenever there is one.  Which one    *)
(* is a matter of performance only.                                         *)
(***************************************************************************)

CONSTANTS
    Frames,   \* the frames of the pool
    NoFrame   \* Evict found no candidate

VARIABLES
    candidates,  \* the frames that may be evicted
    evicted      \* what the last Evict returned

cvars == <<candidates, evicted>>

CInit ==
    /\ candidates = {}
    /\ evicted = NoFrame

\* SetEvictable(f, true) and SetEvictable(f, false).
Add(f) == candidates' = candidates \cup {f}
Remove(f) == candidates' = candidates \ {f}

\* f is a candidate, and is no longer one.
Claim(f) == f \in candidates /\ candidates' = candidates \ {f}

Evicted(f) ==
    /\ Claim(f)
    /\ evicted' = f

NothingToEvict ==
    /\ candidates = {}
    /\ evicted' = NoFrame
    /\ UNCHANGED candidates

CNext ==
    \/ \E f \in Frames : \/ (Add(f) \/ Remove(f)) /\ UNCHANGED evicted
                         \/ Evicted(f)
    \/ NothingToEvict

CSpec == CInit /\ [][CNext]_cvars

=============================================================================
