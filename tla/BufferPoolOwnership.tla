------------------------ MODULE BufferPoolOwnership -------------------------
(***************************************************************************)
(* Who holds which frame of the pool, where each call may stand and with   *)
(* which locals: the invariant Structure.  What it says of pins and of     *)
(* frames that nobody pins.                                                *)
(***************************************************************************)
EXTENDS BufferPool, TLAPS

\* Where thread t stands; whether it has been notified already makes no difference.
at(t) == Awake(pc[t])

\* The part a call at label a plays in the life of the frame it has to itself.
LoadAt == {"load", "loaded", "abandon", "fail"}
Role(a, l) == CASE a \in PrivateAt /\ l.frame # None -> "private"
                [] a \in LoadAt -> "load"
                [] a = "drain" -> "drain"
                [] a = "insert" -> "insert"
                [] OTHER -> "none"
Owns(t, f) == Role(at(t), loc[t]) # "none" /\ loc[t].frame = f
Plays(role, f) == \E t \in Threads : Role(at(t), loc[t]) = role /\ loc[t].frame = f

\* Labels of a call on behalf of a fetch, of ReclaimFrame and of FlushFrame.
FetchAt == {"lookup", "publish", "load", "loaded", "abandon", "fail", "drain", "push", "wait", "touch"}
ReclaimAt == {"acquire", "evict", "peek", "revalidate", "recheck", "unpin_victim", "give_up"}
FlushAt == {"flush", "sample", "write", "mark"}

\* A call that needs a frame: a fetch of a page, or a new page without an id yet.
NeedsFrame(l) == \/ l.op \in Fetches /\ l.page \in Pages
                 \/ l.op = "new" /\ l.page = None

\* A turn of FlushAllPages' loop is on its frame.
OnFrame(l) == l.op \in {"flushall", "shutdown"} /\ l.frame \in Frames /\ l.victim = l.frame

\* FlushPage has pinned its frame.
OnPage(l) == l.op = "flush" /\ l.page \in Pages /\ l.frame = l.victim /\ l.peeked = l.page

\* The locals of a call that stands at label a.
CallOK(a, l) ==
    /\ a = "idle" => l = NoCall
    /\ l.op \in Fetches \cup {"delete"} => l.page \in Pages
    /\ a \in FetchAt => l.op \in Fetches /\ l.page \in Pages
    /\ a \in ReclaimAt => NeedsFrame(l)
    /\ a \in FlushAt => NeedsFrame(l) \/ OnFrame(l) \/ OnPage(l)
    /\ a = "latch" => l.op \in Reclaims /\ l.page \in Pages
    /\ a = "next" => OnFrame(l)
    /\ a = "scan" => l.op \in {"flushall", "shutdown"} /\ l.frame \in 0 .. Capacity
    /\ a = "pin" => l.op = "flush" /\ l.page \in Pages
    /\ a = "allocate" => l.op = "new" /\ l.page = None
    /\ a \in {"stamp", "insert"} => l.op = "new" /\ l.page \in Pages
    /\ a \in {"delete"} \cup DeleteHolds => l.op = "delete" /\ l.page \in Pages
    /\ a = "delete" => l.frame = None
    /\ a \in {"unlatch", "unpin"} => l.op \in Fetches \cup {"flush", "drop"} /\ l.page \in Pages
    /\ a \in PinsFrameAt \cup {"publish", "allocate", "stamp", "push", "unevict", "unlatch"} => l.frame \in Frames
    /\ a \in DeleteHolds => l.frame \in Frames \cup {None}
    /\ a \in PinsVictimAt \cup {"peek", "revalidate"} => l.victim \in Frames
    /\ a \in PinsVictimAt \cup {"revalidate"} => l.peeked \in Pages

\* The states a frame may be in while a call at label a pins it.
StatesAt(a) == CASE a \in LoadAt -> {"Loading"}
                 [] a = "drain" -> {"Failed"}
                 [] a = "wait" -> {"Loading", "Failed", "Resident"}
                 [] a = "unpin" -> {"Failed", "Resident"}
                 [] OTHER -> {"Resident"}

\* What a thread has pinned is what it believes it is.
PinnedOK(t) ==
    /\ at(t) \in PinsFrameAt => /\ frame[loc[t].frame].page_id = loc[t].page
                                /\ frame[loc[t].frame].state \in StatesAt(at(t))
    /\ at(t) \in PinsVictimAt => /\ frame[loc[t].victim].page_id = loc[t].peeked
                                 /\ frame[loc[t].victim].state = "Resident"
    /\ \A g \in guards[t] : frame[g.frame].page_id = g.page /\ frame[g.frame].state = "Resident"

\* A thread never pins one frame with two guards, or with a guard and the call.
GuardsOK(t) ==
    /\ \A g, h \in guards[t] : g.frame = h.frame => g = h
    /\ at(t) \in PinsFrameAt \ {"unpin"} => \A g \in guards[t] : g.frame # loc[t].frame
    /\ at(t) \in FetchAt \cup ReclaimAt \cup FlushAt /\ loc[t].op \in Fetches
          => \A g \in guards[t] : g.page # loc[t].page
    /\ at(t) = "unlatch" => \E g \in guards[t] : g.frame = loc[t].frame /\ g.page = loc[t].page

\* The frame a thread has to itself, and whether its page is mapped to it.
OwnerOK(t) ==
    /\ Role(at(t), loc[t]) = "private" => frame[loc[t].frame].state = "Free"
    /\ at(t) \in {"load", "loaded", "abandon"} => table[loc[t].page] = loc[t].frame
    /\ at(t) \in {"fail", "insert"} => table[loc[t].page] # loc[t].frame

\* A Free frame has no page and no pins, any other frame has a page.
FrameOK(f) ==
    /\ frame[f].state = "Free" => frame[f].page_id = None /\ frame[f].pin_count = 0
    /\ frame[f].state # "Free" => frame[f].page_id \in Pages

\* The pins of a frame, counted.
PinnedBy(a, l, f) == (a \in PinsFrameAt /\ l.frame = f) \/ (a \in PinsVictimAt /\ l.victim = f)
PinsOf(f) == {t \in Threads : PinnedBy(at(t), loc[t], f)}
Counted(f) ==
    /\ IsFiniteSet(PinsOf(f)) /\ IsFiniteSet(GuardPins(f))
    /\ frame[f].pin_count = Cardinality(PinsOf(f)) + Cardinality(GuardPins(f))

\* Where frame f is to be found, by its state.
Home(f) ==
    /\ frame[f].state = "Free" => Listed(f) \/ Plays("private", f)
    /\ frame[f].state = "Loading" => Plays("load", f)
    /\ frame[f].state = "Failed" => Plays("drain", f)
    /\ frame[f].state = "Resident" => table[frame[f].page_id] = f \/ Plays("insert", f)

\* A page is mapped to a frame of that page.
MappedOK(p) == table[p] # None => /\ frame[table[p]].page_id = p
                                  /\ frame[table[p]].state \in {"Loading", "Resident"}

\* The free list holds Free frames, each once, that no thread owns; no two
\* threads own a frame.
ListOK == \A i, j \in 1 .. Len(free_list) : free_list[i] = free_list[j] => i = j
ListedOK == \A f \in Frames : Listed(f) => frame[f].state = "Free" /\ \A t \in Threads : ~Owns(t, f)
OwnersDiffer == \A t, u \in Threads : Role(at(t), loc[t]) # "none" /\ Owns(u, loc[t].frame) => t = u

\* A frame that may be evicted is a candidate, or its reclaimer will find it so.
WillFind(t, f) == /\ loc[t].victim = f
                  /\ \/ at(t) = "peek"
                     \/ at(t) = "revalidate" /\ loc[t].peeked = frame[f].page_id
Evictable(f) ==
    frame[f].state = "Resident" /\ frame[f].pin_count = 0
        => f \in evictable \/ \E t \in Threads : WillFind(t, f)

Structure ==
    /\ TypeOK
    /\ \A t \in Threads : CallOK(at(t), loc[t])
    /\ \A t \in Threads : PinnedOK(t)
    /\ \A t \in Threads : GuardsOK(t)
    /\ \A t \in Threads : OwnerOK(t)
    /\ \A f \in Frames : FrameOK(f)
    /\ \A f \in Frames : Counted(f)
    /\ \A f \in Frames : Home(f)
    /\ \A p \in Pages : MappedOK(p)
    /\ ListOK /\ ListedOK /\ OwnersDiffer
    /\ \A f \in Frames : Evictable(f)

\* Thread t has moved to label a with locals l; the others may have been notified.
Moves(t, a, l) == \A u \in Threads : /\ at(u)' = IF u = t THEN a ELSE at(u)
                                     /\ loc'[u] = IF u = t THEN l ELSE loc[u]

\* Frame f is in the state it was in, with the same page.
SameShape(f) == frame'[f].state = frame[f].state /\ frame'[f].page_id = frame[f].page_id

\* What the pins need of finite sets.
Counting ==
    /\ IsFiniteSet({}) /\ Cardinality({}) = 0
    /\ \A S : IsFiniteSet(S) =>
          /\ Cardinality(S) \in Nat
          /\ Cardinality(S) = 0 => S = {}
          /\ \A x : x \notin S => IsFiniteSet(S \cup {x}) /\ Cardinality(S \cup {x}) = Cardinality(S) + 1
          /\ \A x \in S : IsFiniteSet(S \ {x}) /\ Cardinality(S \ {x}) = Cardinality(S) - 1

=============================================================================
