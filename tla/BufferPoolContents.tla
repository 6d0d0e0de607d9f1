-------------------------- MODULE BufferPoolContents -------------------------
(***************************************************************************)
(* Settled and Closing hold at the start and every step keeps them; the    *)
(* steps keep Faithful when nobody deletes a page that others are using.   *)
(***************************************************************************)
EXTENDS BufferPoolData

\* How long the provers may take.
USE ZenonT(20), SMTT(30)

(***************************************************************************)
(* What Structure says of names, pins and frames that nobody pins.  They    *)
(* are the lemmas BufferPoolStructure starts with, kept here as well so     *)
(* that neither of the two long proofs is read under the other's lemmas.    *)
(***************************************************************************)

\* Where the frames and pages that a thread, a list or the table names are known.
LEMMA NamesKnown ==
    ASSUME Structure
    PROVE  /\ \A u \in Threads : /\ at(u) \in PinsFrameAt => loc[u].frame \in Frames
                                 /\ at(u) \in PinsVictimAt => loc[u].victim \in Frames
                                 /\ Role(at(u), loc[u]) # "none" => loc[u].frame \in Frames
                                 /\ \A g \in guards[u] : g.frame \in Frames /\ g.page \in Pages
           /\ \A p \in Pages : table[p] # None => table[p] \in Frames
           /\ \A i \in 1 .. Len(free_list) : free_list[i] \in Frames
           /\ None \notin Frames
<1>1. ASSUME NEW u \in Threads
      PROVE  /\ at(u) \in PinsFrameAt => loc[u].frame \in Frames
             /\ at(u) \in PinsVictimAt => loc[u].victim \in Frames
             /\ \A g \in guards[u] : g.frame \in Frames /\ g.page \in Pages
  BY SMTT(30) DEF Structure, CallOK, TypeOK, GuardType
<1>2. ASSUME NEW u \in Threads, Role(at(u), loc[u]) # "none" PROVE loc[u].frame \in Frames
  BY <1>2 DEF Structure, CallOK, Role, PrivateAt, LoadAt, PinsFrameAt, DeleteHolds
<1>3. \A p \in Pages : table[p] # None => table[p] \in Frames
  BY DEF Structure, TypeOK
<1>4. \A i \in 1 .. Len(free_list) : free_list[i] \in Frames
  BY SMTT(30) DEF Structure, TypeOK
<1>5. None \notin Frames
  BY NoneAssumption, CapacityAssumption DEF Frames
<1>6. QED
  BY <1>1, <1>2, <1>3, <1>4, <1>5

\* A frame whose pin count is zero is pinned by nobody.
LEMMA Unpinned ==
    ASSUME Structure, Counting, NEW f \in Frames, frame[f].pin_count = 0
    PROVE  PinsOf(f) = {} /\ GuardPins(f) = {}
<1>1. /\ IsFiniteSet(PinsOf(f)) /\ IsFiniteSet(GuardPins(f))
      /\ 0 = Cardinality(PinsOf(f)) + Cardinality(GuardPins(f))
  BY DEF Structure, Counted
<1> HIDE DEF PinsOf, GuardPins
<1>2. Cardinality(PinsOf(f)) = 0 /\ Cardinality(GuardPins(f)) = 0
  BY SMTT(30), <1>1 DEF Counting
<1>3. QED
  BY <1>1, <1>2 DEF Counting

\* A thread whose pin is the only one counted pins the frame alone.
LEMMA PinnedOnce ==
    ASSUME Structure, Counting, NEW f \in Frames, frame[f].pin_count = 1, NEW t \in PinsOf(f)
    PROVE  PinsOf(f) = {t} /\ GuardPins(f) = {}
<1>1. /\ IsFiniteSet(PinsOf(f)) /\ IsFiniteSet(GuardPins(f))
      /\ 1 = Cardinality(PinsOf(f)) + Cardinality(GuardPins(f))
  BY DEF Structure, Counted
<1> HIDE DEF PinsOf, GuardPins
<1>2. /\ IsFiniteSet(PinsOf(f) \ {t}) /\ Cardinality(PinsOf(f) \ {t}) = Cardinality(PinsOf(f)) - 1
      /\ Cardinality(PinsOf(f)) \in Nat /\ Cardinality(GuardPins(f)) \in Nat
      /\ Cardinality(PinsOf(f) \ {t}) \in Nat
  BY <1>1 DEF Counting
<1>3. Cardinality(PinsOf(f) \ {t}) = 0 /\ Cardinality(GuardPins(f)) = 0
  BY <1>1, <1>2
<1>4. PinsOf(f) \ {t} = {} /\ GuardPins(f) = {}
  BY <1>1, <1>2, <1>3 DEF Counting
<1>5. QED
  BY <1>4

\* A mapped or Resident frame that at most t pins is Resident, mapped and nobody's.
LEMMA LeftAlone ==
    ASSUME Structure, NEW t \in Threads, NEW f \in Frames, frame[f].state \in {"Loading", "Resident"},
           PinsOf(f) \subseteq {t}, GuardPins(f) = {}, Role(at(t), loc[t]) = "none"
    PROVE  /\ frame[f].state = "Resident" /\ frame[f].page_id \in Pages
           /\ \A u \in Threads : ~Owns(u, f)
           /\ \A p \in Pages : table[p] = f <=> p = frame[f].page_id
           /\ ~Listed(f)
<1>1. ASSUME NEW u \in Threads PROVE ~Owns(u, f)
  <2> SUFFICES ASSUME Owns(u, f) PROVE FALSE
    OBVIOUS
  <2>1. Role(at(u), loc[u]) # "none" /\ loc[u].frame = f /\ u # t
    BY DEF Owns
  <2>2. Role(at(u), loc[u]) # "private"
    BY <2>1 DEF Structure, OwnerOK
  <2>3. at(u) \in PinsFrameAt
    BY <2>1, <2>2 DEF Role, LoadAt, PinsFrameAt
  <2>4. u \in PinsOf(f)
    BY <2>1, <2>3 DEF PinsOf, PinnedBy
  <2>5. QED
    BY <2>1, <2>4
<1>2. \A role : role # "none" => ~Plays(role, f)
  BY <1>1 DEF Plays, Owns
<1>3. frame[f].state = "Resident" /\ table[frame[f].page_id] = f
  BY <1>2 DEF Structure, Home
<1>4. frame[f].page_id \in Pages
  BY <1>3 DEF Structure, FrameOK
<1>5. \A p \in Pages : table[p] = f => frame[f].page_id = p
  BY NamesKnown DEF Structure, MappedOK
<1>6. ~Listed(f)
  BY <1>3 DEF Structure, ListedOK
<1>7. QED
  BY <1>1, <1>3, <1>4, <1>5, <1>6

\* Goto and Local, or NotifyAll, move one thread.
LEMMA Went ==
    ASSUME Structure, NEW t \in Threads, NEW label, NEW l,
           Goto(t, label) \/ \E f : NotifyAll(t, f, label),
           Local(t, l) \/ (UNCHANGED loc /\ l = loc[t])
    PROVE  Moves(t, Awake(label), l)
<1>1. pc \in [Threads -> Labels] /\ loc \in [Threads -> CallType]
  BY DEF Structure, TypeOK
<1>2. \A u \in Threads : at(u)' = IF u = t THEN Awake(label) ELSE at(u)
  BY <1>1 DEF Goto, NotifyAll, at, Awake
<1>3. \A u \in Threads : loc'[u] = IF u = t THEN l ELSE loc[u]
  BY <1>1 DEF Local
<1>4. QED
  BY <1>2, <1>3 DEF Moves

(***************************************************************************)
(* Steps that settle nothing anew.                                         *)
(***************************************************************************)

\* Claims stay as they were when threads go on.
LEMMA ClaimsKept ==
    ASSUME Settled, NEW t \in Threads, NEW a, NEW l, Moves(t, a, l), Goes(t, a, l)
    PROVE  Claims'
<1> SUFFICES ASSUME NEW u \in Threads, NEW v \in Threads, loc'[u].op = "delete"
             PROVE  /\ loc'[v].op = "delete" /\ loc'[v].page = loc'[u].page => v = u
                    /\ loc'[v].op = "new" /\ at(u)' # "giveback" => loc'[v].page # loc'[u].page
  BY DEF Claims
<1>1. loc[u].op = "delete" /\ loc[u].page = loc'[u].page /\ (at(u)' # "giveback" => at(u) # "giveback")
  BY DEF Moves, Goes
<1>2. loc'[v].op \in {"new", "delete"} => loc'[v].op = loc[v].op /\ loc'[v].page = loc[v].page
  BY DEF Moves, Goes
<1>3. QED
  BY <1>1, <1>2 DEF Settled, Claims

\* The other threads find what they hold where it was.
LEMMA HeldKept ==
    ASSUME Structure, Settled, NEW t \in Threads, NEW a, NEW l, Tidy(t, a, l), NEW u \in Threads
    PROVE  /\ \A g \in guards'[u] : table'[g.page] = g.frame
           /\ u # t => Held(u)'
<1>1. ASSUME NEW p \in Pages, NEW f \in Frames, table[p] = f, frame[f].state = "Resident",
             (\E v \in Threads \ {t} : v \in PinsOf(f)) \/ (\E v \in Threads : v \in GuardPins(f))
      PROVE  table'[p] = f
  <2>1. ~Loose(t, f)
    BY <1>1 DEF Loose
  <2>2. Remapped(t, p) /\ f # None
    BY NamesKnown DEF Tidy
  <2>3. QED
    BY <1>1, <2>1, <2>2 DEF Remapped
<1>2. ASSUME NEW g \in guards'[u] PROVE table'[g.page] = g.frame
  <2>1. g \in guards[u]
    BY DEF Tidy
  <2>2. g.page \in Pages /\ g.frame \in Frames /\ table[g.page] = g.frame /\ frame[g.frame].state = "Resident"
    BY <2>1, NamesKnown DEF Structure, PinnedOK, Settled, Held
  <2>3. u \in GuardPins(g.frame)
    BY <2>1 DEF GuardPins
  <2>4. QED
    BY <1>1, <2>2, <2>3
<1>3. ASSUME u # t PROVE Held(u)'
  <2>1. at(u)' = at(u) /\ loc'[u] = loc[u] /\ CallOK(at(u), loc[u]) /\ PinnedOK(u) /\ Held(u)
    BY <1>3 DEF Tidy, Moves, Structure, Settled
  <2>2. ASSUME at(u) \in {"touch", "latch", "wait"} PROVE loc[u].page \in Pages /\ loc[u].frame \in Frames /\ u \in PinsOf(loc[u].frame)
    BY <2>1, <2>2 DEF CallOK, FetchAt, PinsFrameAt, PinsOf, PinnedBy
  <2>3. ASSUME at(u) \in {"touch", "latch"} PROVE table'[loc[u].page] = loc[u].frame
    <3>1. frame[loc[u].frame].state = "Resident" /\ table[loc[u].page] = loc[u].frame
      BY <2>1, <2>3 DEF PinnedOK, PinsFrameAt, StatesAt, LoadAt, Held
    <3>2. QED
      BY <1>1, <1>3, <2>2, <2>3, <3>1
  <2>4. ASSUME at(u) = "wait", frame'[loc[u].frame].state = "Resident" PROVE table'[loc[u].page] = loc[u].frame
    <3>1. loc[u].frame \in Frames
      BY <2>2, <2>4
    <3>2. CASE Entered(t, loc[u].frame)
      BY <1>3, <2>2, <2>4, <3>2 DEF Entered
    <3>3. CASE ~Entered(t, loc[u].frame)
      <4>1. frame[loc[u].frame].state = "Resident"
        BY <2>4, <3>1, <3>3 DEF Tidy, Alike, Marked, SameShape, Emptied
      <4>2. table[loc[u].page] = loc[u].frame
        BY <2>1, <2>4, <4>1 DEF Held
      <4>3. QED
        BY <1>1, <1>3, <2>2, <2>4, <4>1, <4>2
    <3>4. QED
      BY <3>2, <3>3
  <2>5. QED
    BY <1>2, <2>1, <2>3, <2>4 DEF Held
<1>4. QED
  BY <1>2, <1>3

\* DeletePage's page stays unmapped, and a flush's sample stays what it was.
LEMMA OthersSettled ==
    ASSUME Structure, Settled, NEW t \in Threads, NEW a, NEW l, Tidy(t, a, l), NEW u \in Threads, u # t
    PROVE  DeleteOK(u)' /\ OwnedOK(u)' /\ SampleOK(u)'
<1>1. at(u)' = at(u) /\ loc'[u] = loc[u] /\ CallOK(at(u), loc[u]) /\ PinnedOK(u) /\ status' = status
  BY DEF Tidy, Moves, Structure
<1>2. DeleteOK(u) /\ OwnedOK(u) /\ SampleOK(u)
  BY DEF Settled
<1>3. ASSUME at(u) \in DeleteHolds PROVE table'[loc[u].page] = None
  <2>1. table[loc[u].page] = None /\ loc[u].page \in Pages
    BY <1>1, <1>2, <1>3 DEF DeleteOK, CallOK
  <2>2. ~ShardFree(loc[u].page)
    <3>1. pc[u] \in DeleteHolds
      BY <1>3 DEF at, Awake, DeleteHolds
    <3>2. QED
      BY <3>1 DEF ShardFree
  <2>3. QED
    BY <2>1, <2>2 DEF Tidy, Remapped
<1>4. DeleteOK(u)'
  BY <1>1, <1>2, <1>3 DEF DeleteOK
<1>5. OwnedOK(u)'
  BY <1>1, <1>2 DEF OwnedOK
<1>6. ASSUME at(u) \in {"write", "mark"} PROVE frame'[loc[u].victim].dirty_epoch = frame[loc[u].victim].dirty_epoch
  <2>1. loc[u].victim \in Frames /\ u \in PinsOf(loc[u].victim) /\ frame[loc[u].victim].state = "Resident"
    BY <1>1, <1>6 DEF CallOK, PinnedOK, PinsVictimAt, PinsOf, PinnedBy
  <2>2. ~Loose(t, loc[u].victim)
    BY <2>1 DEF Loose
  <2>3. QED
    BY <2>1, <2>2 DEF Tidy, Alike, Marked
<1>7. SampleOK(u)'
  <2>1. \A f : Writers(f)' = Writers(f)
    BY DEF Tidy, Writers
  <2>2. QED
    BY <1>1, <1>2, <1>6, <2>1 DEF SampleOK
<1>8. QED
  BY <1>4, <1>5, <1>7

\* A step that unmaps and empties only what others have no pin on keeps all of it.
LEMMA TidySettles ==
    ASSUME Structure, Structure', Settled, NEW t \in Threads, NEW a, NEW l, Tidy(t, a, l), Lands(t, a, l), Claims'
    PROVE  Settled'
<1>1. at(t)' = a /\ loc'[t] = l /\ UNCHANGED <<status, guards>>
  BY DEF Tidy, Moves
<1>2. Held(t)' /\ DeleteOK(t)' /\ OwnedOK(t)'
  BY <1>1, HeldKept DEF Lands, Held, DeleteOK, OwnedOK
<1>3. SampleOK(t)'
  BY <1>1 DEF Lands, SampleOK, Writers
<1>4. ASSUME NEW f \in Frames PROVE LiveOK(f)'
  <2>1. frame'[f].dirty_epoch \in Nat
    BY DEF Structure, TypeOK, FrameType
  <2>2. CASE Alike(f)
    BY <1>1, <2>2 DEF Settled, LiveOK, Alike, SameShape
  <2>3. CASE Emptied(f)
    BY <2>1, <2>3 DEF Emptied, LiveOK
  <2>4. QED
    BY <2>2, <2>3 DEF Tidy, Marked, Entered
<1>5. QED
  BY <1>2, <1>3, <1>4, HeldKept, OthersSettled DEF Settled

(***************************************************************************)
(* The actions, one by one.                                                *)
(***************************************************************************)

\* Such a step settles nothing anew.
LEMMA QuietSettles ==
    ASSUME Structure, Structure', Settled, NEW t \in Threads, \E a, l : Quietly(t, a, l)
    PROVE  Settled'
<1>1. PICK a, l : Quietly(t, a, l)
  OBVIOUS
<1>2. Tidy(t, a, l)
  BY <1>1 DEF Quietly, Tidy, Twin, Remapped
<1>3. QED
  BY <1>1, <1>2, ClaimsKept, TidySettles DEF Quietly

\* A thread lands well where it holds nothing.
LEMMA PlainLands ==
    ASSUME Structure, Settled, NEW t \in Threads, NEW label \in PlainAt, NEW l,
           l.op = "new" => loc[t].op = "new" /\ l.page = loc[t].page
    PROVE  Lands(t, Awake(label), l) /\ Awake(label) # "giveback"
<1>1. Awake(label) \in PlainAt
  BY DEF PlainAt, Awake
<1>2. l.op = "new" /\ l.page # None => status[l.page] = "owned"
  BY DEF Settled, OwnedOK
<1>3. QED
  BY <1>1, <1>2 DEF PlainAt, Lands, DeleteHolds

\* A step to such a label.
LEMMA PlainQuiet ==
    ASSUME Structure, Settled, NEW t \in Threads, NEW label \in PlainAt \ {"unlatch"}, NEW l,
           Goto(t, label) \/ \E f : NotifyAll(t, f, label),
           Local(t, l) \/ (UNCHANGED loc /\ l = loc[t]),
           UNCHANGED <<table, status, disk, guards>>, phase' = "aborted" => phase = "aborted",
           \A f \in Frames : Twin(f), Stays(t, l), at(t) # "giveback" \/ l.op # "delete"
    PROVE  \E a, k : Quietly(t, a, k)
<1>1. Moves(t, Awake(label), l)
  BY Went
<1>2. Lands(t, Awake(label), l)
  BY PlainLands DEF Stays, Onward
<1>3. Goes(t, Awake(label), l)
  BY DEF Goes, Stays, Onward, Structure, CallOK, DeleteHolds
<1>4. Awake(label) \notin {"loaded", "mark", "unlatch", "stamp", "insert"}
  BY DEF Awake, PlainAt
<1>5. Quietly(t, Awake(label), l)
  BY <1>1, <1>2, <1>3, <1>4 DEF Quietly
<1>6. QED
  BY <1>5

\* A frame nothing happens to.
LEMMA SameTwin ==
    ASSUME UNCHANGED frame
    PROVE  \A f \in Frames : Twin(f)
BY DEF Twin, Alike, SameShape

\* Only the pins of a frame change.
LEMMA PinsTwin ==
    ASSUME Structure, NEW f \in Frames, NEW n, frame' = [frame EXCEPT ![f].pin_count = n]
    PROVE  \A x \in Frames : Twin(x)
BY DEF Structure, TypeOK, FrameType, Twin, Alike, SameShape

\* Calls that return without a frame, and steps of fetches, reclaims and flushes
\* that read and decide.
LEMMA ReadsQuiet ==
    ASSUME Structure, Settled, NEW t \in Threads,
           \/ FetchMiss(t) \/ LoadFails(t) \/ PublishLost(t) \/ AbandonPush(t) \/ TryPop(t) \/ TryPopEmpty(t)
           \/ Evict(t) \/ EvictNone(t) \/ Peek(t) \/ FlushCheck(t) \/ FlushWriteFails(t)
           \/ ScanDone(t) \/ SyncDone(t) \/ AllocateFails(t) \/ DeletePinned(t) \/ GiveBack(t)
    PROVE  \E a, l : Quietly(t, a, l)
<1>1. CASE FetchMiss(t) \/ LoadFails(t) \/ TryPopEmpty(t)
  <2>1. PICK label \in {"acquire", "abandon", "evict"} : Goto(t, label)
    BY <1>1 DEF FetchMiss, LoadFails, TryPopEmpty
  <2>2. UNCHANGED <<frame, table, status, disk, guards, loc, phase>> /\ at(t) # "giveback" /\ Stays(t, loc[t])
    BY <1>1 DEF FetchMiss, LoadFails, TryPopEmpty, pool, storage, owner, at, Awake, Stays, Onward
  <2>3. label \in PlainAt \ {"unlatch"}
    BY DEF PlainAt
  <2>4. QED
    BY <2>1, <2>2, <2>3, SameTwin, PlainQuiet
<1>2. CASE AbandonPush(t) \/ EvictNone(t) \/ ScanDone(t) \/ SyncDone(t) \/ AllocateFails(t) \/ DeletePinned(t) \/ GiveBack(t)
  <2>1. /\ Goto(t, "idle") /\ Local(t, NoCall) /\ UNCHANGED <<frame, table, status, disk, guards>>
        /\ phase' \in {phase, "down"} /\ at(t) \in {"push", "evict", "scan", "allocate", "delete", "giveback"}
    BY <1>2 DEF AbandonPush, EvictNone, ScanDone, SyncDone, AllocateFails, DeletePinned, GiveBack, Return,
                pool, storage, owner, at, Awake
  <2>2. "idle" \in PlainAt \ {"unlatch"} /\ NoCall.op \notin Fetches \cup {"new", "delete"}
    BY DEF PlainAt, NoCall, Fetches
  <2>3. loc[t].op = "new" => loc[t].page = None
    BY <2>1 DEF Structure, CallOK, FetchAt, ReclaimAt, NeedsFrame, DeleteHolds, Fetches
  <2>4. Stays(t, NoCall)
    BY <2>2, <2>3 DEF Stays, Onward
  <2>5. QED
    BY <2>1, <2>2, <2>4, SameTwin, PlainQuiet
<1>3. CASE PublishLost(t) \/ TryPop(t) \/ Evict(t) \/ Peek(t) \/ FlushWriteFails(t)
  <2>1. loc[t] \in CallType
    BY DEF Structure, TypeOK
  <2>2. PICK label : label \in PlainAt \ {"unlatch"} /\ Goto(t, label)
    BY <1>3 DEF PublishLost, TryPop, Acquired, Evict, Peek, FlushWriteFails, FlushReturns, PlainAt
  <2>3. PICK l : Local(t, l) /\ l.op = loc[t].op /\ l.page = loc[t].page
    <3> DEFINE Same(l) == l.op = loc[t].op /\ l.page = loc[t].page
    <3>1. /\ \A f : Same([loc[t] EXCEPT !.frame = f]) /\ Same([loc[t] EXCEPT !.victim = f])
                  /\ Same([loc[t] EXCEPT !.peeked = f]) /\ Same([loc[t] EXCEPT !.epoch = f])
                  /\ Same([loc[t] EXCEPT !.frame = f, !.victim = None, !.peeked = None])
          /\ Same([loc[t] EXCEPT !.victim = None, !.peeked = None])
      BY <2>1 DEF CallType
    <3> HIDE DEF Same
    <3>2. \E l : Local(t, l) /\ Same(l)
      BY <1>3, <3>1 DEF PublishLost, TryPop, Acquired, Evict, Peek, Decline, FlushWriteFails
    <3>3. QED
      BY <3>2 DEF Same
  <2>4. UNCHANGED <<frame, table, status, disk, guards, phase>> /\ at(t) # "giveback"
    BY <1>3 DEF PublishLost, TryPop, Evict, Peek, FlushWriteFails, pool, storage, owner, at, Awake
  <2>5. QED
    BY <2>2, <2>3, <2>4, SameTwin, PlainQuiet DEF Stays, Onward
<1>4. CASE FlushCheck(t)
  <2>1. PICK label \in {"sample", "recheck", "unpin", "next"} : Goto(t, label)
    BY <1>4 DEF FlushCheck, FlushReturns
  <2>2. UNCHANGED <<frame, table, status, disk, guards, loc, phase>> /\ at(t) # "giveback" /\ Stays(t, loc[t])
    BY <1>4 DEF FlushCheck, pool, storage, owner, at, Awake, Stays, Onward
  <2>3. label \in PlainAt \ {"unlatch"}
    BY DEF PlainAt
  <2>4. QED
    BY <2>1, <2>2, <2>3, SameTwin, PlainQuiet
<1>5. QED
  BY <1>1, <1>2, <1>3, <1>4

\* Steps that move pins.
LEMMA PinsQuiet ==
    ASSUME Structure, Settled, NEW t \in Threads,
           \/ Unpin(t) \/ GiveUp(t) \/ UnpinVictim(t) \/ ScanNext(t) \/ PinForFlush(t) \/ Scan(t) \/ FetchHit(t)
    PROVE  \E a, l : Quietly(t, a, l)
<1>1. loc[t] \in CallType /\ CallOK(at(t), loc[t]) /\ pc \in [Threads -> Labels]
  BY DEF Structure, TypeOK
<1>2. CASE Unpin(t) \/ GiveUp(t) \/ UnpinVictim(t) \/ ScanNext(t)
  <2>1. at(t) \in {"unpin", "give_up", "unpin_victim", "next"} /\ UNCHANGED <<table, status, disk, guards, phase>>
    BY <1>2 DEF Unpin, GiveUp, UnpinVictim, ScanNext, storage, owner, at, Awake
  <2>2. PICK label, l, f :
           /\ label \in PlainAt \ {"unlatch"} /\ UnpinPage(t, f, label) /\ Local(t, l)
           /\ f = IF at(t) = "unpin" THEN loc[t].frame ELSE loc[t].victim
           /\ l = NoCall \/ (l.op = loc[t].op /\ l.page = loc[t].page)
    <3>1. CASE Unpin(t)
      <4>1. at(t) = "unpin"
        BY <3>1 DEF Unpin, at, Awake
      <4>2. QED
        BY <3>1, <4>1 DEF Unpin, PlainAt
    <3>2. CASE GiveUp(t)
      <4>1. at(t) = "give_up"
        BY <3>2 DEF GiveUp, at, Awake
      <4>2. QED
        BY <3>2, <4>1 DEF GiveUp, PlainAt
    <3>3. CASE UnpinVictim(t)
      <4>1. at(t) = "unpin_victim"
        BY <3>3 DEF UnpinVictim, at, Awake
      <4> DEFINE l == [loc[t] EXCEPT !.victim = None, !.peeked = None]
      <4>2. l.op = loc[t].op /\ l.page = loc[t].page
        BY <1>1 DEF CallType
      <4>3. UnpinPage(t, loc[t].victim, "evict") /\ Local(t, l)
        BY <3>3 DEF UnpinVictim, Decline
      <4> HIDE DEF l
      <4>4. QED
        BY <4>1, <4>2, <4>3 DEF PlainAt
    <3>4. CASE ScanNext(t)
      <4>1. at(t) = "next"
        BY <3>4 DEF ScanNext, at, Awake
      <4> DEFINE l == [loc[t] EXCEPT !.frame = loc[t].frame + 1, !.victim = None, !.peeked = None]
      <4>2. l.op = loc[t].op /\ l.page = loc[t].page
        BY <1>1 DEF CallType
      <4>3. UnpinPage(t, loc[t].victim, "scan") /\ Local(t, l)
        BY <3>4 DEF ScanNext
      <4> HIDE DEF l
      <4>4. QED
        BY <4>1, <4>2, <4>3 DEF PlainAt
    <3>5. QED
      BY <1>2, <3>1, <3>2, <3>3, <3>4
  <2>3. f \in Frames
    BY <1>1, <2>1, <2>2 DEF CallOK, PinsFrameAt, PinsVictimAt
  <2>4. frame' = [frame EXCEPT ![f].pin_count = frame[f].pin_count - 1]
    BY <2>2 DEF UnpinPage
  <2>5. \A x \in Frames : Twin(x)
    BY <2>3, <2>4, PinsTwin
  <2>6. Goto(t, label) \/ \E x : NotifyAll(t, x, label)
    BY <2>2 DEF UnpinPage
  <2>7. loc[t].op = "new" => loc[t].page = None
    BY <1>1, <2>1 DEF CallOK, ReclaimAt, NeedsFrame, OnFrame, Fetches
  <2>8. Stays(t, l)
    BY <2>2, <2>7 DEF Stays, Onward, NoCall, Fetches
  <2>9. QED
    BY <2>1, <2>2, <2>5, <2>6, <2>8, PlainQuiet
<1>3. CASE PinForFlush(t) \/ Scan(t)
  <2>1. UNCHANGED <<table, status, disk, guards, phase>> /\ at(t) \in {"pin", "scan"}
    BY <1>3 DEF PinForFlush, Scan, storage, owner, at, Awake
  <2>2. PICK label : label \in PlainAt \ {"unlatch"} /\ Goto(t, label)
    <3>1. pc' = pc /\ pc[t] = "scan" => Goto(t, "scan")
      BY <1>1 DEF Goto
    <3>2. QED
      BY <1>3, <3>1 DEF PinForFlush, Scan, Return, PlainAt
  <2>3. PICK l : Local(t, l) /\ (l = NoCall \/ (l.op = loc[t].op /\ l.page = loc[t].page))
    <3> DEFINE Same(l) == l.op = loc[t].op /\ l.page = loc[t].page
    <3>1. \A f, p : /\ Same([loc[t] EXCEPT !.frame = f]) /\ Same([loc[t] EXCEPT !.victim = f, !.peeked = p])
                    /\ Same([loc[t] EXCEPT !.frame = f, !.victim = f, !.peeked = p])
      BY <1>1 DEF CallType
    <3> HIDE DEF Same
    <3>2. \E l : Local(t, l) /\ (l = NoCall \/ Same(l))
      BY <1>3, <3>1 DEF PinForFlush, Scan, Return
    <3>3. QED
      BY <3>2 DEF Same
  <2>4. Stays(t, l)
    <3>1. loc[t].op # "new"
      BY <1>1, <2>1 DEF CallOK
    <3>2. QED
      BY <2>3, <3>1 DEF Stays, Onward, NoCall, Fetches
  <2>5. \A x \in Frames : Twin(x)
    <3>1. CASE UNCHANGED frame
      BY <3>1, SameTwin
    <3>2. CASE PinForFlush(t) /\ frame' # frame
      <4>1. PICK f : f = table[loc[t].page]
        OBVIOUS
      <4>2. f # None /\ frame' = [frame EXCEPT ![f].pin_count = frame[f].pin_count + 1] /\ pc[t] = "pin"
        BY <3>2, <4>1 DEF PinForFlush
      <4>3. loc[t].page \in Pages
        BY <1>1, <4>2 DEF CallOK, at, Awake
      <4>4. f \in Frames
        BY <4>1, <4>2, <4>3, NamesKnown
      <4>5. QED
        BY <4>2, <4>4, PinsTwin
    <3>3. CASE Scan(t) /\ frame' # frame
      <4>1. PICK f : f = loc[t].frame
        OBVIOUS
      <4>2. f < Capacity /\ frame' = [frame EXCEPT ![f].pin_count = frame[f].pin_count + 1] /\ pc[t] = "scan"
        BY <3>3, <4>1 DEF Scan
      <4>3. f \in 0 .. Capacity
        BY <1>1, <4>1, <4>2 DEF CallOK, at, Awake
      <4>4. f \in Frames
        BY <4>2, <4>3, CapacityAssumption DEF Frames
      <4>5. QED
        BY <4>2, <4>4, PinsTwin
    <3>4. QED
      BY <1>3, <3>1, <3>2, <3>3
  <2>6. QED
    BY <2>1, <2>2, <2>3, <2>4, <2>5, PlainQuiet
<1>4. CASE FetchHit(t)
  <2>1. PICK f, p : f = table[loc[t].page] /\ p = loc[t].page
    OBVIOUS
  <2> DEFINE l == [loc[t] EXCEPT !.frame = f]
  <2>2. /\ f # None /\ frame' = [frame EXCEPT ![f].pin_count = frame[f].pin_count + 1] /\ Local(t, l)
        /\ UNCHANGED <<table, status, disk, guards, phase>> /\ at(t) = "lookup"
    BY <1>4, <2>1 DEF FetchHit, storage, owner, at, Awake
  <2>3. PICK label \in {"asleep", "touch", "latch"} : Goto(t, label)
    BY <1>4 DEF FetchHit
  <2>4. p \in Pages /\ loc[t].op \in Fetches
    BY <1>1, <2>1, <2>2 DEF CallOK, FetchAt
  <2>5. f \in Frames
    BY <2>1, <2>2, <2>4, NamesKnown
  <2>6. l.op = loc[t].op /\ l.page = p /\ l.frame = f
    BY <1>1, <2>1 DEF CallType
  <2> HIDE DEF l
  <2>7. \A x \in Frames : Twin(x)
    BY <2>2, <2>5, PinsTwin
  <2>8. Awake(label) \in {"wait", "touch", "latch"}
    BY <2>3 DEF Awake
  <2>9. Lands(t, Awake(label), l) /\ Goes(t, Awake(label), l) /\ Stays(t, l)
    BY <2>1, <2>2, <2>4, <2>6, <2>8 DEF Lands, Goes, Stays, Onward, DeleteHolds, Fetches
  <2>10. Moves(t, Awake(label), l)
    BY <2>2, <2>3, Went
  <2>11. Quietly(t, Awake(label), l)
    BY <2>2, <2>7, <2>8, <2>9, <2>10 DEF Quietly
  <2>12. QED
    BY <2>11
<1>5. QED
  BY <1>2, <1>3, <1>4

\* Steps to labels where a thread holds something, with every frame as it was.
LEMMA HoldsQuiet ==
    ASSUME Structure, Settled, NEW t \in Threads,
           WakeUp(t) \/ Touch(t) \/ SpuriousWakeup(t) \/ FlushSample(t) \/ Unevict(t) \/ DeallocateFails(t)
    PROVE  \E a, l : Quietly(t, a, l)
<1>1. /\ loc[t] \in CallType /\ CallOK(at(t), loc[t]) /\ PinnedOK(t)
      /\ Held(t) /\ DeleteOK(t) /\ OwnedOK(t) /\ SampleOK(t)
  BY DEF Structure, TypeOK, Settled
<1>2. CASE WakeUp(t) \/ Touch(t) \/ SpuriousWakeup(t)
  <2>1. UNCHANGED <<frame, table, status, disk, guards, loc, phase>> /\ at(t) \in {"wait", "touch", "drain"}
    BY <1>2 DEF WakeUp, Touch, SpuriousWakeup, pool, storage, owner, at, Awake
  <2>2. PICK label : /\ Goto(t, label) /\ Awake(label) \in {"wait", "unpin", "latch", "drain"}
                     /\ Awake(label) = "latch" => table[loc[t].page] = loc[t].frame
                     /\ Awake(label) = "wait" => at(t) = "wait"
    <3>1. CASE WakeUp(t)
      <4>1. at(t) = "wait" /\ frame[loc[t].frame].state \in {"Loading", "Failed", "Resident"}
        BY <1>1, <3>1 DEF WakeUp, at, Awake, PinnedOK, PinsFrameAt, StatesAt, LoadAt
      <4>2. \/ Goto(t, "asleep") \/ Goto(t, "unpin")
            \/ Goto(t, "latch") /\ frame[loc[t].frame].state = "Resident"
        BY <3>1, <4>1 DEF WakeUp
      <4>3. Awake("asleep") = "wait" /\ Awake("unpin") = "unpin" /\ Awake("latch") = "latch"
        BY DEF Awake
      <4>4. QED
        BY <1>1, <4>1, <4>2, <4>3 DEF Held
    <3>2. CASE Touch(t)
      BY SMTT(30), <1>1, <3>2 DEF Touch, Held, at, Awake
    <3>3. CASE SpuriousWakeup(t)
      <4>1. Goto(t, at(t)) /\ at(t) \in {"wait", "drain"}
        BY <3>3 DEF SpuriousWakeup, at, Awake
      <4>2. Awake(at(t)) = at(t)
        BY <4>1 DEF Awake
      <4>3. QED
        BY <4>1, <4>2
    <3>4. QED
      BY <1>2, <3>1, <3>2, <3>3
  <2>3. Lands(t, Awake(label), loc[t])
    BY <1>1, <2>1, <2>2 DEF Lands, Held, OwnedOK, DeleteHolds
  <2>4. Goes(t, Awake(label), loc[t]) /\ Stays(t, loc[t])
    BY <2>1 DEF Goes, Stays, Onward
  <2>5. Moves(t, Awake(label), loc[t])
    BY <2>1, <2>2, Went
  <2>6. Quietly(t, Awake(label), loc[t])
    BY <2>1, <2>2, <2>3, <2>4, <2>5, SameTwin DEF Quietly
  <2>7. QED
    BY <2>6
<1>3. CASE FlushSample(t)
  <2> DEFINE l == [loc[t] EXCEPT !.epoch = frame[loc[t].victim].dirty_epoch]
  <2>1. /\ UNCHANGED <<frame, table, status, disk, guards, phase>> /\ Goto(t, "write") /\ Local(t, l)
        /\ Writers(loc[t].victim) = {} /\ at(t) = "sample"
    BY <1>3 DEF FlushSample, pool, storage, owner, at, Awake
  <2>2. /\ l.op = loc[t].op /\ l.page = loc[t].page /\ l.victim = loc[t].victim
        /\ l.epoch = frame[loc[t].victim].dirty_epoch
    BY <1>1 DEF CallType
  <2> HIDE DEF l
  <2>3. Lands(t, "write", l) /\ Goes(t, "write", l) /\ Stays(t, l)
    BY <1>1, <2>1, <2>2 DEF Lands, Goes, Stays, Onward, OwnedOK, DeleteHolds
  <2>4. Moves(t, "write", l)
    BY <2>1, Went DEF Awake
  <2>5. Quietly(t, "write", l)
    BY <2>1, <2>3, <2>4, SameTwin DEF Quietly
  <2>6. QED
    BY <2>5
<1>4. CASE Unevict(t) \/ DeallocateFails(t)
  <2>1. UNCHANGED <<frame, table, status, disk, guards, loc, phase>> /\ at(t) \in DeleteHolds \ {"giveback"}
    BY <1>4 DEF Unevict, DeallocateFails, pool, storage, owner, at, Awake, DeleteHolds
  <2>2. PICK label : /\ Goto(t, label) /\ label \in {"deallocate", "giveback"}
                     /\ label = "deallocate" => at(t) = "unevict"
    BY <1>4 DEF Unevict, DeallocateFails, at, Awake
  <2>3. Lands(t, label, loc[t]) /\ Goes(t, label, loc[t]) /\ Stays(t, loc[t])
    BY <1>1, <2>1, <2>2 DEF Lands, Goes, Stays, Onward, OwnedOK, DeleteOK, DeleteHolds
  <2>4. Moves(t, label, loc[t])
    BY <2>1, <2>2, Went DEF Awake
  <2>5. Quietly(t, label, loc[t])
    BY <2>1, <2>2, <2>3, <2>4, SameTwin DEF Quietly
  <2>6. QED
    BY <2>5
<1>5. QED
  BY <1>2, <1>3, <1>4

(***************************************************************************)
(* Steps that empty, fill and map frames nobody else has a pin on.          *)
(***************************************************************************)

\* Such a step settles nothing anew either.
LEMMA CalmSettles ==
    ASSUME Structure, Structure', Settled, NEW t \in Threads, \E a, l : Calmly(t, a, l)
    PROVE  Settled'
<1>1. PICK a, l : Calmly(t, a, l)
  OBVIOUS
<1>2. \A f \in Frames : Alike(f) \/ (Loose(t, f) /\ (Emptied(f) \/ Entered(t, f)))
  BY <1>1 DEF Calmly, Twin, Changed
<1>3. \A p \in Pages : Remapped(t, p)
  BY <1>1 DEF Calmly, Cleared, Remapped
<1>4. Tidy(t, a, l)
  BY <1>1, <1>2, <1>3 DEF Calmly, Tidy
<1>5. QED
  BY <1>1, <1>4, ClaimsKept, TidySettles DEF Calmly

\* A quiet step is one.
LEMMA QuietIsCalm ==
    ASSUME NEW t \in Threads, \E a, l : Quietly(t, a, l)
    PROVE  \E a, l : Calmly(t, a, l)
<1>1. PICK a, l : Quietly(t, a, l)
  OBVIOUS
<1>2. Calmly(t, a, l)
  BY <1>1 DEF Quietly, Calmly, Cleared, Aborts
<1>3. QED
  BY <1>2

\* A frame that t owns is nobody else's, and is clean unless it is Resident.
LEMMA MineIsClean ==
    ASSUME Structure, Settled, NEW t \in Threads, Role(at(t), loc[t]) # "none", frame[loc[t].frame].state # "Resident"
    PROVE  /\ Loose(t, loc[t].frame) /\ ~IsDirty(loc[t].frame) /\ loc[t].frame \in Frames
           /\ \A u \in Threads \ {t} : ~Owns(u, loc[t].frame)
<1>1. loc[t].frame \in Frames
  BY NamesKnown
<1>2. ~IsDirty(loc[t].frame)
  BY SMTT(30), <1>1 DEF Settled, LiveOK, IsDirty, Structure, TypeOK, FrameType
<1>3. QED
  BY <1>1, <1>2 DEF Structure, OwnersDiffer, Loose

\* ReadPage fills a Loading frame.
LEMMA LoadCalm ==
    ASSUME Structure, Settled, NEW t \in Threads, Load(t)
    PROVE  \E a, l : Calmly(t, a, l)
<1>1. CallOK(at(t), loc[t]) /\ PinnedOK(t) /\ OwnedOK(t)
  BY DEF Structure, Settled
<1>2. PICK f, p : f = loc[t].frame /\ p = loc[t].page
  OBVIOUS
<1>3. /\ UNCHANGED <<table, status, disk, guards, loc, phase>> /\ Goto(t, "loaded") /\ at(t) = "load" /\ status[p] = "owned"
      /\ frame' = [frame EXCEPT ![f].data = disk[p]]
  BY <1>2 DEF Load, storage, owner, at, Awake
<1>4. f \in Frames /\ frame[f].state = "Loading" /\ Role(at(t), loc[t]) # "none"
  BY <1>1, <1>2, <1>3 DEF CallOK, PinnedOK, PinsFrameAt, StatesAt, LoadAt, Role, PrivateAt
<1>5. /\ \A x \in Frames : Alike(x) /\ (x # f => Twin(x))
      /\ frame'[f].state = "Loading" /\ frame'[f].data = disk[p]
  BY <1>3, <1>4 DEF Structure, TypeOK, FrameType, Twin, Alike, SameShape
<1>6. Changed(t, f)
  BY <1>2, <1>4, <1>5, MineIsClean DEF Changed
<1>7. Lands(t, "loaded", loc[t]) /\ Goes(t, "loaded", loc[t]) /\ Stays(t, loc[t])
  BY <1>1, <1>2, <1>3 DEF Lands, Goes, Stays, Onward, OwnedOK, DeleteHolds
<1>8. Moves(t, "loaded", loc[t])
  BY <1>3, Went DEF Awake
<1>9. Calmly(t, "loaded", loc[t])
  BY <1>2, <1>3, <1>5, <1>6, <1>7, <1>8 DEF Calmly, Cleared, Aborts
<1>10. QED
  BY <1>9

\* The frame nobody else has a pin on is emptied and its page unmapped.
LEMMA EmptyCalm ==
    ASSUME Structure, Settled, NEW t \in Threads, NEW label \in PlainAt \ {"unlatch"}, NEW l, NEW f \in Frames,
           Goto(t, label) \/ \E x : NotifyAll(t, x, label),
           Local(t, l) \/ (UNCHANGED loc /\ l = loc[t]), UNCHANGED <<status, disk, guards, phase>>,
           \A x \in Frames \ {f} : Twin(x), Twin(f) \/ Emptied(f),
           Loose(t, f), ~IsDirty(f), \A u \in Threads \ {t} : ~Owns(u, f),
           \A p \in Pages : table'[p] = table[p] \/ (table'[p] = None /\ table[p] = f),
           Stays(t, l), at(t) # "giveback"
    PROVE  \E a, k : Calmly(t, a, k)
<1>1. Moves(t, Awake(label), l) /\ Awake(label) \in PlainAt \ {"unlatch"}
  BY Went DEF PlainAt, Awake
<1>2. Lands(t, Awake(label), l) /\ Goes(t, Awake(label), l)
  BY PlainLands DEF Stays, Onward, Goes
<1>3. \A x \in Frames : Twin(x) \/ (Changed(t, x) /\ Emptied(x))
  BY DEF Changed, Emptied
<1>4. \A p \in Pages : Cleared(t, p)
  BY DEF Cleared
<1>5. Calmly(t, Awake(label), l)
  BY <1>1, <1>2, <1>3, <1>4 DEF Calmly, Aborts, PlainAt
<1>6. QED
  BY <1>5

\* FreeFrame is clean.
LEMMA FreedIsEmpty ==
    ASSUME Structure, NEW f \in Frames, frame' = [frame EXCEPT ![f] = FreeFrame]
    PROVE  Emptied(f) /\ \A x \in Frames \ {f} : Twin(x)
BY DEF Structure, TypeOK, FreeFrame, Emptied, Twin, Alike, SameShape

\* AbandonLoad unmaps the page, fails the frame and frees it.
LEMMA AbandonCalm ==
    ASSUME Structure, Settled, NEW t \in Threads, AbandonErase(t) \/ AbandonFail(t) \/ AbandonDrained(t)
    PROVE  \E a, l : Calmly(t, a, l)
<1>1. CallOK(at(t), loc[t]) /\ PinnedOK(t) /\ OwnerOK(t)
  BY DEF Structure
<1>2. at(t) \in {"abandon", "fail", "drain"} /\ UNCHANGED <<status, disk, guards, loc, phase>>
  BY DEF AbandonErase, AbandonFail, AbandonDrained, storage, owner, at, Awake
<1>3. PICK f : f = loc[t].frame
  OBVIOUS
<1>4. frame[f].state # "Resident" /\ loc[t].page \in Pages
  BY <1>1, <1>2, <1>3 DEF CallOK, PinnedOK, PinsFrameAt, StatesAt, LoadAt, FetchAt
<1>5. Role(at(t), loc[t]) # "none"
  BY <1>2 DEF Role, PrivateAt, LoadAt
<1>6. f \in Frames /\ Loose(t, f) /\ ~IsDirty(f) /\ \A u \in Threads \ {t} : ~Owns(u, f)
  BY <1>3, <1>4, <1>5, MineIsClean
<1>7. PICK label \in PlainAt \ {"unlatch"} : Goto(t, label) \/ \E x : NotifyAll(t, x, label)
  BY DEF AbandonErase, AbandonFail, AbandonDrained, PlainAt
<1>8. (\A x \in Frames \ {f} : Twin(x)) /\ (Twin(f) \/ Emptied(f))
  <2>1. CASE UNCHANGED frame
    BY <1>6, <2>1, SameTwin
  <2>2. CASE frame' = [frame EXCEPT ![f] = FreeFrame]
    BY <1>6, <2>2, FreedIsEmpty
  <2>3. CASE frame' = [frame EXCEPT ![f].state = "Failed"]
    <3>1. frame[f].dirty_epoch = frame[f].flushed_epoch
      BY <1>4, <1>6 DEF Settled, LiveOK
    <3>2. QED
      BY <1>6, <2>3, <3>1 DEF Structure, TypeOK, FrameType, Emptied, Twin, Alike, SameShape
  <2>4. QED
    BY <1>3, <2>1, <2>2, <2>3 DEF AbandonErase, AbandonFail, AbandonDrained
<1>9. \A p \in Pages : table'[p] = table[p] \/ (table'[p] = None /\ table[p] = f)
  <2>1. at(t) = "abandon" => table[loc[t].page] = f
    BY <1>1, <1>3 DEF OwnerOK
  <2>2. UNCHANGED table \/ (at(t) = "abandon" /\ table' = [table EXCEPT ![loc[t].page] = None])
    BY DEF AbandonErase, AbandonFail, AbandonDrained, at, Awake
  <2>3. QED
    BY <1>4, <2>1, <2>2 DEF Structure, TypeOK
<1>10. Stays(t, loc[t]) /\ at(t) # "giveback"
  BY <1>2 DEF Stays, Onward
<1>11. QED
  BY <1>2, <1>6, <1>7, <1>8, <1>9, <1>10, EmptyCalm

\* ReclaimFrame takes a victim nobody else pins.
LEMMA ReclaimedCalm ==
    ASSUME Structure, Counting, Settled, NEW t \in Threads, Reclaimed(t), ~IsDirty(loc[t].victim),
           \/ pc[t] = "revalidate" /\ ShardFree(loc[t].peeked) /\ StillVictim(t, 0)
           \/ pc[t] = "recheck" /\ StillVictim(t, 1),
           UNCHANGED <<status, disk, guards, phase>>
    PROVE  \E a, l : Calmly(t, a, l)
<1>1. /\ loc[t] \in CallType /\ CallOK(at(t), loc[t]) /\ at(t) \in {"revalidate", "recheck"} /\ at(t) = pc[t]
      /\ Role(at(t), loc[t]) = "none"
  BY DEF Structure, TypeOK, at, Awake, Role, PrivateAt, LoadAt
<1>2. PICK f, p : f = loc[t].victim /\ p = loc[t].peeked
  OBVIOUS
<1>3. f \in Frames /\ p \in Pages /\ frame[f].state = "Resident" /\ ~IsDirty(f)
  BY <1>1, <1>2 DEF CallOK, PinsVictimAt, StillVictim
<1> DEFINE l == [loc[t] EXCEPT !.frame = f, !.victim = None, !.peeked = None]
<1>4. l.op = loc[t].op /\ l.page = loc[t].page
  BY <1>1 DEF CallType
<1>5. Local(t, l) /\ frame' = [frame EXCEPT ![f] = FreeFrame] /\ table' = [table EXCEPT ![p] = None]
  BY <1>2 DEF Reclaimed, Acquired
<1> HIDE DEF l
<1>6. PICK label \in PlainAt \ {"unlatch"} : Goto(t, label)
  BY DEF Reclaimed, Acquired, PlainAt
<1>7. PinsOf(f) \subseteq {t} /\ GuardPins(f) = {}
  <2>1. CASE pc[t] = "revalidate"
    <3>1. frame[f].pin_count = 0
      BY <1>2, <2>1 DEF StillVictim
    <3>2. QED
      BY <1>3, <3>1, Unpinned
  <2>2. CASE pc[t] = "recheck"
    <3>1. frame[f].pin_count = 1 /\ t \in PinsOf(f)
      BY <1>1, <1>2, <2>2 DEF StillVictim, PinsOf, PinnedBy, PinsVictimAt
    <3>2. PinsOf(f) = {t} /\ GuardPins(f) = {}
      BY <1>3, <3>1, PinnedOnce
    <3>3. QED
      BY <3>2
  <2>3. QED
    BY <2>1, <2>2
<1>8. table[p] = f
  BY SMTT(30), <1>1, <1>2, <1>3, <1>7, LeftAlone DEF StillVictim
<1>9. Loose(t, f) /\ \A u \in Threads : ~Owns(u, f)
  BY <1>1, <1>3, <1>7, LeftAlone DEF Loose
<1>10. \A q \in Pages : table'[q] = table[q] \/ (table'[q] = None /\ table[q] = f)
  BY <1>3, <1>5, <1>8 DEF Structure, TypeOK
<1>11. Stays(t, l) /\ at(t) # "giveback"
  BY <1>1, <1>4 DEF Stays, Onward
<1>12. QED
  BY <1>3, <1>5, <1>6, <1>9, <1>10, <1>11, FreedIsEmpty, EmptyCalm

\* ReclaimFrame declines a victim, pins it or takes it.
LEMMA ReclaimCalm ==
    ASSUME Structure, Counting, Settled, NEW t \in Threads, Revalidate(t) \/ Recheck(t)
    PROVE  \E a, l : Calmly(t, a, l)
<1>1. loc[t] \in CallType /\ CallOK(at(t), loc[t]) /\ at(t) \in {"revalidate", "recheck"} /\ at(t) = pc[t]
  BY DEF Structure, TypeOK, Revalidate, Recheck, at, Awake
<1>2. UNCHANGED <<status, disk, guards, phase>>
  BY DEF Revalidate, Recheck, storage, owner
<1>3. CASE Decline(t) /\ Goto(t, "evict") /\ UNCHANGED <<frame, table>>
  <2> DEFINE l == [loc[t] EXCEPT !.victim = None, !.peeked = None]
  <2>1. l.op = loc[t].op /\ l.page = loc[t].page
    BY <1>1 DEF CallType
  <2>2. Local(t, l) /\ "evict" \in PlainAt \ {"unlatch"}
    BY <1>3 DEF Decline, PlainAt
  <2> HIDE DEF l
  <2>3. Stays(t, l) /\ at(t) # "giveback"
    BY <1>1, <2>1 DEF Stays, Onward
  <2>4. QED
    BY <1>2, <1>3, <2>2, <2>3, SameTwin, PlainQuiet, QuietIsCalm
<1>4. CASE /\ frame' = [frame EXCEPT ![loc[t].victim].pin_count = @ + 1]
           /\ Goto(t, "flush") /\ UNCHANGED <<table, loc>>
  <2>1. loc[t].victim \in Frames /\ "flush" \in PlainAt \ {"unlatch"}
    BY <1>1 DEF CallOK, PlainAt, PinsVictimAt
  <2>2. frame' = [frame EXCEPT ![loc[t].victim].pin_count = frame[loc[t].victim].pin_count + 1]
    BY <1>4
  <2>3. \A x \in Frames : Twin(x)
    BY <2>1, <2>2, PinsTwin
  <2>4. Stays(t, loc[t]) /\ at(t) # "giveback"
    BY <1>1 DEF Stays, Onward
  <2>5. QED
    BY <1>2, <1>4, <2>1, <2>3, <2>4, PlainQuiet, QuietIsCalm
<1>5. CASE Goto(t, "unpin_victim") /\ UNCHANGED <<frame, table, loc>>
  <2>1. "unpin_victim" \in PlainAt \ {"unlatch"} /\ Stays(t, loc[t]) /\ at(t) # "giveback"
    BY <1>1 DEF PlainAt, Stays, Onward
  <2>2. QED
    BY <1>2, <1>5, <2>1, SameTwin, PlainQuiet, QuietIsCalm
<1>6. CASE Revalidate(t)
  BY <1>2, <1>3, <1>4, <1>6, ReclaimedCalm DEF Revalidate
<1>7. CASE Recheck(t)
  BY <1>2, <1>5, <1>7, ReclaimedCalm DEF Recheck
<1>8. QED
  BY <1>6, <1>7

\* A fetch maps its page to a Loading frame.
LEMMA PublishCalm ==
    ASSUME Structure, Settled, NEW t \in Threads, Publish(t)
    PROVE  \E a, l : Calmly(t, a, l)
<1>1. CallOK(at(t), loc[t]) /\ OwnerOK(t) /\ table \in [Pages -> Frames \cup {None}] /\ frame \in [Frames -> FrameType]
  BY DEF Structure, TypeOK
<1>2. PICK f, p : f = loc[t].frame /\ p = loc[t].page
  OBVIOUS
<1>3. /\ at(t) = "publish" /\ UNCHANGED <<status, disk, guards, loc, phase>> /\ ShardFree(p) /\ table[p] = None
      /\ table' = [table EXCEPT ![p] = f] /\ Goto(t, "load")
      /\ frame' = [frame EXCEPT ![f] = Stamped("Loading", p, "dead")]
  BY <1>2 DEF Publish, storage, owner, at, Awake
<1>4. f \in Frames /\ p \in Pages /\ loc[t].op \in Reclaims
  BY <1>1, <1>2, <1>3 DEF CallOK, FetchAt, Fetches, Reclaims
<1>5. f # None
  BY <1>4, NamesKnown
<1>6. Role(at(t), loc[t]) = "private"
  BY <1>2, <1>3, <1>5 DEF Role, PrivateAt, LoadAt
<1>7. frame[f].state = "Free"
  BY <1>1, <1>2, <1>6 DEF OwnerOK
<1>8. frame'[f] = Stamped("Loading", p, "dead") /\ \A x \in Frames \ {f} : frame'[x] = frame[x]
  BY <1>1, <1>3, <1>4
<1>9. Emptied(f) /\ \A x \in Frames \ {f} : Twin(x)
  BY <1>8 DEF Emptied, Stamped, FreeFrame, Twin, Alike, SameShape
<1>10. Changed(t, f)
  BY <1>2, <1>6, <1>7, <1>9, MineIsClean DEF Changed, Emptied
<1>11. \A q \in Pages : Cleared(t, q)
  BY <1>1, <1>2, <1>3, <1>4 DEF Cleared
<1>12. Moves(t, "load", loc[t])
  BY <1>3, Went DEF Awake
<1>13. Lands(t, "load", loc[t]) /\ Goes(t, "load", loc[t]) /\ Stays(t, loc[t])
  <2>1. "load" \in PlainAt /\ Awake("load") = "load"
    BY DEF PlainAt, Awake
  <2>2. Lands(t, Awake("load"), loc[t])
    BY <2>1, PlainLands
  <2>3. QED
    BY <1>3, <2>1, <2>2 DEF Goes, Stays, Onward
<1>14. Calmly(t, "load", loc[t])
  BY <1>3, <1>9, <1>10, <1>11, <1>12, <1>13 DEF Calmly, Aborts
<1>15. QED
  BY <1>14

\* NewPage maps its page, or finds it mapped and aborts.
LEMMA InsertCalm ==
    ASSUME Structure, Settled, NEW t \in Threads, InsertNew(t)
    PROVE  \E a, l : Calmly(t, a, l)
<1>1. CallOK(at(t), loc[t]) /\ OwnedOK(t) /\ table \in [Pages -> Frames \cup {None}]
  BY DEF Structure, TypeOK, Settled
<1>2. PICK f, p : f = loc[t].frame /\ p = loc[t].page
  OBVIOUS
<1>3. /\ at(t) = "insert" /\ UNCHANGED <<frame, status, disk, guards, loc>> /\ ShardFree(p)
      /\ \/ table[p] = None /\ table' = [table EXCEPT ![p] = f] /\ Goto(t, "latch") /\ UNCHANGED phase
         \/ table[p] # None /\ UNCHANGED <<table, pc>>
  BY <1>2 DEF InsertNew, storage, at, Awake
<1>4. f \in Frames /\ p \in Pages /\ loc[t].op \in Reclaims
  BY <1>1, <1>2, <1>3 DEF CallOK, PinsFrameAt, Reclaims
<1>5. CASE table[p] = None
  <2>1. \A q \in Pages : Cleared(t, q)
    BY <1>1, <1>2, <1>3, <1>4, <1>5 DEF Cleared
  <2>2. Moves(t, "latch", loc[t])
    BY <1>3, <1>5, Went DEF Awake
  <2>3. table'[p] = f
    BY <1>1, <1>3, <1>4, <1>5
  <2>4. Lands(t, "latch", loc[t]) /\ Goes(t, "latch", loc[t]) /\ Stays(t, loc[t])
    BY <1>1, <1>2, <1>3, <2>3 DEF Lands, Goes, Stays, Onward, OwnedOK, DeleteHolds
  <2>5. Calmly(t, "latch", loc[t])
    BY <1>3, <1>5, <2>1, <2>2, <2>4, SameTwin DEF Calmly, Aborts
  <2>6. QED
    BY <2>5
<1>6. CASE table[p] # None
  <2>1. Moves(t, "insert", loc[t])
    BY <1>3, <1>6 DEF Moves, at
  <2>2. Lands(t, "insert", loc[t]) /\ Goes(t, "insert", loc[t]) /\ Stays(t, loc[t])
    BY <1>1, <1>3 DEF Lands, Goes, Stays, Onward, OwnedOK, DeleteHolds
  <2>3. Calmly(t, "insert", loc[t])
    BY <1>2, <1>3, <1>6, <2>1, <2>2, SameTwin DEF Calmly, Aborts, Cleared
  <2>4. QED
    BY <2>3
<1>7. QED
  BY <1>5, <1>6

\* A frame whose page has been read becomes Resident.
LEMMA LoadedCalm ==
    ASSUME Structure, Settled, NEW t \in Threads, Loaded(t)
    PROVE  \E a, l : Calmly(t, a, l)
<1>1. CallOK(at(t), loc[t]) /\ PinnedOK(t) /\ OwnerOK(t) /\ OwnedOK(t) /\ frame \in [Frames -> FrameType]
  BY DEF Structure, TypeOK, Settled
<1>2. PICK f, p : f = loc[t].frame /\ p = loc[t].page
  OBVIOUS
<1>3. /\ at(t) = "loaded" /\ UNCHANGED <<table, status, disk, guards, loc, phase>>
      /\ frame' = [frame EXCEPT ![f].state = "Resident"] /\ NotifyAll(t, f, "latch")
  BY <1>2 DEF Loaded, storage, owner, at, Awake
<1>4. f \in Frames /\ frame[f].page_id = p /\ frame[f].state = "Loading" /\ table[p] = f
  BY <1>1, <1>2, <1>3 DEF CallOK, PinnedOK, OwnerOK, PinsFrameAt, StatesAt, LoadAt
<1>5. Role(at(t), loc[t]) # "none"
  BY <1>3 DEF Role, PrivateAt, LoadAt
<1>6. ASSUME NEW u \in PinsOf(f) PROVE loc[u].page = p
  <2>1. u \in Threads /\ PinnedOK(u) /\ PinnedBy(at(u), loc[u], f)
    BY DEF PinsOf, Structure
  <2>2. at(u) \in PinsFrameAt /\ loc[u].frame = f
    BY <1>4, <2>1 DEF PinnedOK, PinnedBy
  <2>3. QED
    BY <1>4, <2>1, <2>2 DEF PinnedOK
<1>7. /\ frame'[f].state = "Resident" /\ frame'[f].page_id = p /\ frame'[f].data = frame[f].data
      /\ frame'[f].dirty_epoch = frame[f].dirty_epoch /\ frame'[f].flushed_epoch = frame[f].flushed_epoch
      /\ \A x \in Frames \ {f} : Twin(x)
  BY <1>1, <1>3, <1>4 DEF FrameType, Twin, Alike, SameShape
<1>8. Entered(t, f)
  <2>1. LiveOK(f) /\ status[p] = "owned"
    BY <1>1, <1>2, <1>3, <1>4 DEF Settled, OwnedOK
  <2>2. LiveOK(f)'
    BY <1>3, <1>7, <2>1 DEF LiveOK
  <2>3. QED
    BY <1>3, <1>4, <1>6, <2>2 DEF Entered
<1>9. Changed(t, f)
  BY <1>2, <1>3, <1>4, <1>5, <1>7, MineIsClean DEF Changed
<1>10. Moves(t, "latch", loc[t])
  BY <1>3, Went DEF Awake
<1>11. Lands(t, "latch", loc[t]) /\ Goes(t, "latch", loc[t]) /\ Stays(t, loc[t])
  BY <1>1, <1>2, <1>3, <1>4 DEF Lands, Goes, Stays, Onward, OwnedOK, DeleteHolds
<1>12. Calmly(t, "latch", loc[t])
  BY <1>3, <1>7, <1>8, <1>9, <1>10, <1>11 DEF Calmly, Aborts, Cleared
<1>13. QED
  BY <1>12

\* NewPage stamps its frame.
LEMMA StampCalm ==
    ASSUME Structure, Counting, Settled, NEW t \in Threads, StampNew(t)
    PROVE  \E a, l : Calmly(t, a, l)
<1>1. CallOK(at(t), loc[t]) /\ OwnerOK(t) /\ OwnedOK(t) /\ frame \in [Frames -> FrameType]
  BY DEF Structure, TypeOK, Settled
<1>2. PICK f, p : f = loc[t].frame /\ p = loc[t].page
  OBVIOUS
<1>3. /\ at(t) = "stamp" /\ UNCHANGED <<table, status, disk, guards, loc, phase>> /\ Goto(t, "insert")
      /\ frame' = [frame EXCEPT ![f] = Stamped("Resident", p, "latest")]
  BY <1>2 DEF StampNew, storage, owner, at, Awake
<1>4. f \in Frames /\ p \in Pages /\ loc[t].op = "new"
  BY <1>1, <1>2, <1>3 DEF CallOK
<1>5. f # None /\ p # None
  BY <1>4, NamesKnown, NoneAssumption, PagesAssumption
<1>6. Role(at(t), loc[t]) = "private"
  BY <1>2, <1>3, <1>5 DEF Role, PrivateAt, LoadAt
<1>7. frame[f].state = "Free" /\ frame[f].pin_count = 0
  BY <1>1, <1>2, <1>4, <1>6 DEF OwnerOK, Structure, FrameOK
<1>8. PinsOf(f) = {}
  BY <1>4, <1>7, Unpinned
<1>9. frame'[f] = Stamped("Resident", p, "latest") /\ \A x \in Frames \ {f} : frame'[x] = frame[x]
  BY <1>1, <1>3, <1>4
<1>10. Entered(t, f)
  <2>1. status[p] = "owned"
    BY <1>1, <1>2, <1>4, <1>5 DEF OwnedOK
  <2>2. frame'[f].page_id = p /\ frame'[f].dirty_epoch = 0 /\ frame'[f].flushed_epoch = 0 /\ frame'[f].state = "Resident"
    BY <1>9 DEF Stamped, FreeFrame
  <2>3. status' = status
    BY <1>3
  <2>4. LiveOK(f)'
    BY <2>1, <2>2, <2>3 DEF LiveOK
  <2>5. QED
    BY <1>8, <2>4 DEF Entered
<1>11. frame'[f].data = "latest"
  BY <1>9 DEF Stamped, FreeFrame
<1>12. Changed(t, f)
  BY <1>2, <1>6, <1>7, <1>11, MineIsClean DEF Changed
<1>13. \A x \in Frames \ {f} : Twin(x)
  BY <1>9 DEF Twin, Alike, SameShape
<1>14. Moves(t, "insert", loc[t])
  BY <1>3, Went DEF Awake
<1>15. Lands(t, "insert", loc[t]) /\ Goes(t, "insert", loc[t]) /\ Stays(t, loc[t])
  BY <1>1, <1>3 DEF Lands, Goes, Stays, Onward, OwnedOK, DeleteHolds
<1>16. Calmly(t, "insert", loc[t])
  BY <1>3, <1>10, <1>12, <1>13, <1>14, <1>15 DEF Calmly, Aborts, Cleared
<1>17. QED
  BY <1>16

\* A call that starts and neither fetches, makes nor deletes a page.
LEMMA StartQuiet ==
    ASSUME Structure, Settled, NEW t \in Threads,
           (\E p \in Pages : StartFlush(t, p)) \/ StartFlushAll(t) \/ Shutdown(t)
    PROVE  \E a, l : Quietly(t, a, l)
<1>1. /\ UNCHANGED <<frame, table, status, disk, guards>> /\ pc[t] = "idle" /\ phase' \in {phase, "shutdown"}
  BY DEF StartFlush, StartFlushAll, Start, Shutdown, Quiescent, pool, storage, owner
<1>2. at(t) = "idle" /\ loc[t] = NoCall
  BY <1>1 DEF at, Awake, Structure, CallOK
<1>3. PICK l : Local(t, l) /\ l.op \notin Fetches \cup {"new", "delete"}
  <2> DEFINE k(op) == [NoCall EXCEPT !.op = op, !.frame = 0]
             j(p) == [NoCall EXCEPT !.op = "flush", !.page = p]
  <2>1. /\ k("flushall").op \notin Fetches \cup {"new", "delete"} /\ k("shutdown").op \notin Fetches \cup {"new", "delete"}
        /\ \A p : j(p).op \notin Fetches \cup {"new", "delete"}
    BY DEF NoCall, Fetches
  <2>2. Local(t, k("flushall")) \/ Local(t, k("shutdown")) \/ \E p : Local(t, j(p))
    BY DEF StartFlush, StartFlushAll, Shutdown, Start
  <2> HIDE DEF k, j
  <2>3. QED
    BY <2>1, <2>2
<1>4. PICK label \in PlainAt \ {"unlatch"} : Goto(t, label)
  BY DEF StartFlush, StartFlushAll, Shutdown, Start, PlainAt
<1>5. Stays(t, l)
  BY <1>2, <1>3 DEF Stays, Onward, NoCall
<1>6. QED
  BY <1>1, <1>2, <1>3, <1>4, <1>5, SameTwin, PlainQuiet

\* Each of them goes calmly.
LEMMA CalmSteps ==
    ASSUME Structure, Counting, Settled, NEW t \in Threads, CalmStep(t)
    PROVE  \E a, l : Calmly(t, a, l)
<1>1. CASE \/ FetchMiss(t) \/ LoadFails(t) \/ PublishLost(t) \/ AbandonPush(t) \/ TryPop(t) \/ TryPopEmpty(t)
           \/ Evict(t) \/ EvictNone(t) \/ Peek(t) \/ FlushCheck(t) \/ FlushWriteFails(t)
           \/ ScanDone(t) \/ SyncDone(t) \/ AllocateFails(t) \/ DeletePinned(t) \/ GiveBack(t)
  BY <1>1, ReadsQuiet, QuietIsCalm
<1>2. CASE \/ Unpin(t) \/ GiveUp(t) \/ UnpinVictim(t) \/ ScanNext(t) \/ PinForFlush(t) \/ Scan(t) \/ FetchHit(t)
  BY <1>2, PinsQuiet, QuietIsCalm
<1>3. CASE \/ WakeUp(t) \/ Touch(t) \/ SpuriousWakeup(t) \/ FlushSample(t) \/ Unevict(t) \/ DeallocateFails(t)
  BY <1>3, HoldsQuiet, QuietIsCalm
<1>4. CASE Load(t) \/ AbandonErase(t) \/ AbandonFail(t) \/ AbandonDrained(t) \/ Revalidate(t) \/ Recheck(t)
  BY <1>4, LoadCalm, AbandonCalm, ReclaimCalm
<1>5. CASE Publish(t) \/ InsertNew(t) \/ Loaded(t) \/ StampNew(t)
  BY <1>5, PublishCalm, InsertCalm, LoadedCalm, StampCalm
<1>6. CASE (\E p \in Pages : StartFlush(t, p)) \/ StartFlushAll(t) \/ Shutdown(t)
  BY <1>6, StartQuiet, QuietIsCalm
<1>7. QED
  BY <1>1, <1>2, <1>3, <1>4, <1>5, <1>6 DEF CalmStep

\* A flush writes its frame back.
LEMMA WriteSettles ==
    ASSUME Structure, Structure', Settled, NEW t \in Threads, FlushWrite(t)
    PROVE  Settled'
<1>1. loc[t] \in CallType /\ CallOK(at(t), loc[t]) /\ OwnedOK(t) /\ SampleOK(t)
  BY DEF Structure, TypeOK, Settled
<1>2. UNCHANGED <<frame, table, status, guards, loc>> /\ Goto(t, "mark") /\ at(t) = "write"
  BY DEF FlushWrite, pool, at, Awake
<1>3. loc[t].epoch <= frame[loc[t].victim].dirty_epoch
  BY SMTT(30), <1>1, <1>2 DEF SampleOK, CallType
<1>4. Lands(t, "mark", loc[t]) /\ Goes(t, "mark", loc[t])
  BY <1>1, <1>2, <1>3 DEF Lands, Goes, OwnedOK, DeleteHolds
<1>5. Moves(t, "mark", loc[t])
  BY <1>2, Went DEF Awake
<1>6. Tidy(t, "mark", loc[t])
  BY <1>2, <1>5, SameTwin DEF Tidy, Remapped, Twin
<1>7. QED
  BY <1>4, <1>5, <1>6, ClaimsKept, TidySettles

\* A frame is marked clean up to the epoch that was written back.
LEMMA MarkSettles ==
    ASSUME Structure, Structure', Settled, NEW t \in Threads, FlushMark(t)
    PROVE  Settled'
<1>1. /\ loc[t] \in CallType /\ CallOK(at(t), loc[t]) /\ PinnedOK(t) /\ frame \in [Frames -> FrameType]
      /\ SampleOK(t)
  BY DEF Structure, TypeOK, Settled
<1>2. UNCHANGED <<table, status, guards>> /\ at(t) = pc[t] /\ at(t) = "mark"
  BY DEF FlushMark, storage, at, Awake
<1>3. PICK f, e : f = loc[t].victim /\ e = loc[t].epoch
  OBVIOUS
<1> DEFINE l == [loc[t] EXCEPT !.epoch = 0]
           n == IF frame[f].flushed_epoch < e THEN e ELSE frame[f].flushed_epoch
<1>4. /\ at(t) = "mark" /\ frame' = [frame EXCEPT ![f].flushed_epoch = n] /\ Local(t, l)
  BY <1>2, <1>3 DEF FlushMark
<1>5. l.op = loc[t].op /\ l.page = loc[t].page
  BY <1>1 DEF CallType
<1>6. PICK label \in PlainAt : Goto(t, label)
  BY DEF FlushMark, FlushReturns, PlainAt
<1>7. f \in Frames /\ frame[f].state = "Resident" /\ e <= frame[f].dirty_epoch /\ frame[f] \in FrameType /\ e \in Nat
  BY <1>1, <1>3, <1>4 DEF CallOK, PinnedOK, PinsVictimAt, SampleOK, CallType
<1>8. n \in Nat /\ n <= frame[f].dirty_epoch
  BY <1>7 DEF Settled, LiveOK, FrameType
<1> HIDE DEF l, n
<1>9. frame'[f] = [frame[f] EXCEPT !.flushed_epoch = n] /\ \A x \in Frames \ {f} : frame'[x] = frame[x]
  BY <1>1, <1>4, <1>7
<1>10. /\ frame'[f].state = frame[f].state /\ frame'[f].page_id = frame[f].page_id
      /\ frame'[f].dirty_epoch = frame[f].dirty_epoch /\ frame'[f].flushed_epoch = n
  BY <1>7, <1>9 DEF FrameType
<1>11. Marked(f) /\ \A x \in Frames \ {f} : Alike(x)
  BY <1>2, <1>7, <1>8, <1>9, <1>10 DEF Marked, Settled, LiveOK, Alike, SameShape
<1>12. Moves(t, Awake(label), l)
  BY <1>4, <1>6, Went
<1>13. Tidy(t, Awake(label), l)
  BY <1>2, <1>11, <1>12 DEF Tidy, Remapped
<1>14. Lands(t, Awake(label), l) /\ Goes(t, Awake(label), l)
  BY <1>4, <1>5, <1>6, PlainLands DEF Goes
<1>15. QED
  BY <1>12, <1>13, <1>14, ClaimsKept, TidySettles

\* DeletePage takes the frame of its page, which nobody pins.
LEMMA VacateSettles ==
    ASSUME Structure, Structure', Counting, Settled, NEW t \in Threads, Vacate(t)
    PROVE  Settled'
<1>1. loc[t] \in CallType /\ CallOK(at(t), loc[t]) /\ DeleteOK(t)
  BY DEF Structure, TypeOK, Settled
<1>2. UNCHANGED <<status, guards>> /\ at(t) = "delete"
  BY DEF Vacate, at, Awake
<1>3. PICK f, p : f = table[loc[t].page] /\ p = loc[t].page
  OBVIOUS
<1>4. p \in Pages /\ status[p] = "owned" /\ loc[t].op = "delete"
  BY <1>1, <1>2, <1>3 DEF CallOK, DeleteOK
<1>5. CASE f = None
  <2>1. Goto(t, "deallocate") /\ UNCHANGED <<frame, table, loc>>
    BY <1>3, <1>5 DEF Vacate
  <2>2. Lands(t, "deallocate", loc[t]) /\ Goes(t, "deallocate", loc[t])
    BY <1>2, <1>3, <1>4, <1>5, <2>1 DEF Lands, Goes, DeleteHolds
  <2>3. Moves(t, "deallocate", loc[t])
    BY <2>1, Went DEF Awake
  <2>4. Tidy(t, "deallocate", loc[t])
    BY <1>2, <2>1, <2>3, SameTwin DEF Tidy, Remapped, Twin
  <2>5. QED
    BY <2>2, <2>3, <2>4, ClaimsKept, TidySettles
<1>6. CASE f # None
  <2> DEFINE l == [loc[t] EXCEPT !.frame = f]
  <2>1. /\ frame[f].pin_count = 0 /\ frame' = [frame EXCEPT ![f] = FreeFrame] /\ table' = [table EXCEPT ![p] = None]
        /\ Local(t, l) /\ Goto(t, "unevict")
    BY <1>3, <1>6 DEF Vacate
  <2>2. l.op = "delete" /\ l.page = p
    BY <1>1, <1>3, <1>4 DEF CallType
  <2> HIDE DEF l
  <2>3. f \in Frames
    BY <1>3, <1>4, <1>6, NamesKnown
  <2>4. Loose(t, f)
    BY <2>1, <2>3, Unpinned DEF Loose
  <2>5. Emptied(f) /\ \A x \in Frames \ {f} : Alike(x)
    BY <2>1, <2>3, FreedIsEmpty DEF Twin
  <2>6. table'[p] = None /\ \A q \in Pages : table'[q] = table[q] \/ (table'[q] = None /\ table[q] = f)
    BY <1>3, <1>4, <2>1 DEF Structure, TypeOK
  <2>7. Moves(t, "unevict", l)
    BY <2>1, Went DEF Awake
  <2>8. Tidy(t, "unevict", l)
    BY <1>2, <2>4, <2>5, <2>6, <2>7 DEF Tidy, Remapped
  <2>9. Lands(t, "unevict", l) /\ Goes(t, "unevict", l)
    BY <1>2, <1>3, <1>4, <2>2, <2>6 DEF Lands, Goes, DeleteHolds
  <2>10. QED
    BY <2>7, <2>8, <2>9, ClaimsKept, TidySettles
<1>7. QED
  BY <1>5, <1>6

\* A step of the guards: others keep theirs, and no frame being written back gains a writer.
LEMMA GuardSettles ==
    ASSUME Structure, Structure', Settled, NEW t \in Threads, NEW label \in PlainAt, NEW l,
           Goto(t, label), Local(t, l) \/ (UNCHANGED loc /\ l = loc[t]),
           UNCHANGED <<table, status>>, \A u \in Threads \ {t} : guards'[u] = guards[u],
           l.op \notin {"new", "delete"},
           \A g \in guards'[t] : table[g.page] = g.frame,
           \A u \in Threads : at(u) = "write" => /\ Writers(loc[u].victim)' = {}
                                                 /\ frame'[loc[u].victim].dirty_epoch = frame[loc[u].victim].dirty_epoch,
           \A f \in Frames : LiveOK(f)' /\ SameShape(f) /\ frame[f].dirty_epoch <= frame'[f].dirty_epoch
    PROVE  Settled'
<1>1. Moves(t, Awake(label), l) /\ Awake(label) \in PlainAt
  BY Went DEF PlainAt, Awake
<1>2. Claims'
  BY <1>1, ClaimsKept DEF Goes
<1>3. Held(t)' /\ DeleteOK(t)' /\ OwnedOK(t)' /\ SampleOK(t)'
  BY <1>1 DEF Moves, PlainAt, Held, DeleteOK, OwnedOK, SampleOK, DeleteHolds
<1>4. ASSUME NEW u \in Threads, u # t PROVE Held(u)' /\ DeleteOK(u)' /\ OwnedOK(u)' /\ SampleOK(u)'
  <2>1. at(u)' = at(u) /\ loc'[u] = loc[u] /\ guards'[u] = guards[u] /\ CallOK(at(u), loc[u]) /\ loc[u] \in CallType
    BY <1>1, <1>4 DEF Moves, Structure, TypeOK
  <2>2. Held(u) /\ DeleteOK(u) /\ OwnedOK(u) /\ SampleOK(u)
    BY DEF Settled
  <2>3. at(u) = "wait" => loc[u].frame \in Frames
    BY <2>1 DEF CallOK, PinsFrameAt
  <2>4. Held(u)'
    BY <2>1, <2>2, <2>3 DEF Held, SameShape
  <2>5. DeleteOK(u)' /\ OwnedOK(u)'
    BY <2>1, <2>2 DEF DeleteOK, OwnedOK
  <2>6. at(u) = "mark" => loc[u].victim \in Frames /\ frame[loc[u].victim].dirty_epoch \in Nat /\ frame'[loc[u].victim].dirty_epoch \in Nat
    BY <2>1 DEF CallOK, PinsVictimAt, Structure, TypeOK, FrameType
  <2>7. SampleOK(u)'
    BY SMTT(30), <2>1, <2>2, <2>6 DEF SampleOK, CallType
  <2>8. QED
    BY <2>4, <2>5, <2>7
<1>5. QED
  BY <1>2, <1>3, <1>4 DEF Settled

\* A guard is taken, dropped or let go of.
LEMMA GuardsSettle ==
    ASSUME Structure, Structure', Settled, NEW t \in Threads,
           Latch(t) \/ Unlatch(t) \/ \E g \in guards[t] : DropRead(t, g) \/ DropWrite(t, g)
    PROVE  Settled'
<1>1. /\ loc[t] \in CallType /\ CallOK(at(t), loc[t]) /\ Held(t) /\ guards \in [Threads -> SUBSET GuardType]
      /\ frame \in [Frames -> FrameType]
  BY DEF Structure, TypeOK, Settled
<1>2. ASSUME UNCHANGED <<frame, status>>
      PROVE  \A f \in Frames : LiveOK(f)' /\ SameShape(f) /\ frame[f].dirty_epoch <= frame'[f].dirty_epoch
  BY SMTT(30), <1>1, <1>2 DEF Settled, LiveOK, SameShape, FrameType
<1>3. \A u \in Threads : at(u) = "write" => /\ pc[u] = "write" /\ Writers(loc[u].victim) = {} /\ loc[u].victim \in Frames
  BY DEF Settled, SampleOK, at, Awake, Structure, CallOK, PinsVictimAt
<1>4. CASE Latch(t)
  <2>1. PICK f, p, m : f = loc[t].frame /\ p = loc[t].page /\ m = IF loc[t].op = "read" THEN "read" ELSE "write"
    OBVIOUS
  <2>2. /\ guards' = [guards EXCEPT ![t] = guards[t] \cup {[page |-> p, frame |-> f, mode |-> m]}]
        /\ m = "write" => Readers(f) = {}
        /\ Goto(t, "idle") /\ Local(t, NoCall) /\ UNCHANGED <<frame, table, status>> /\ at(t) = "latch"
    BY <1>4, <2>1 DEF Latch, Return, pool, storage, at, Awake
  <2>3. /\ \A u \in Threads \ {t} : guards'[u] = guards[u]
        /\ guards'[t] = guards[t] \cup {[page |-> p, frame |-> f, mode |-> m]}
    BY <1>1, <2>2
  <2>4. \A g \in guards'[t] : table[g.page] = g.frame
    BY SMTT(30), <1>1, <2>1, <2>2, <2>3 DEF Held
  <2>5. ASSUME NEW u \in Threads, at(u) = "write" PROVE Writers(loc[u].victim)' = {}
    <3>1. loc'[u] = loc[u]
      BY <1>1, <2>2, <2>5 DEF Local, Structure, TypeOK
    <3>2. loc[u].victim = f => m # "write"
      BY <1>3, <2>2, <2>5 DEF Readers
    <3>3. \A v \in Threads : v \notin Writers(loc[u].victim)
      BY <1>3, <2>5
    <3>4. QED
      BY SMTT(30), <2>3, <3>1, <3>2, <3>3 DEF Writers
  <2>6. "idle" \in PlainAt /\ NoCall.op \notin {"new", "delete"}
    BY DEF PlainAt, NoCall
  <2>7. QED
    BY <1>2, <2>2, <2>3, <2>4, <2>5, <2>6, GuardSettles
<1>5. ASSUME NEW l, NEW label \in {"unpin", "unlatch"}, Goto(t, label), Local(t, l) \/ (UNCHANGED loc /\ l = loc[t]),
             UNCHANGED <<table, status>>, l.op \notin {"new", "delete"},
             \A u \in Threads : guards'[u] \subseteq guards[u] /\ (u # t => guards'[u] = guards[u]),
             at(t) # "write",
             \A u \in Threads : at(u) = "write" => frame'[loc[u].victim].dirty_epoch = frame[loc[u].victim].dirty_epoch,
             \A f \in Frames : LiveOK(f)' /\ SameShape(f) /\ frame[f].dirty_epoch <= frame'[f].dirty_epoch
      PROVE  Settled'
  <2>1. label \in PlainAt
    BY DEF PlainAt
  <2>2. \A g \in guards'[t] : table[g.page] = g.frame
    BY <1>1, <1>5 DEF Held
  <2>3. ASSUME NEW u \in Threads, at(u) = "write" PROVE Writers(loc[u].victim)' = {}
    <3>1. loc'[u] = loc[u]
      BY <1>5, <2>3 DEF Local, Structure, TypeOK
    <3>2. QED
      BY SMTT(30), <1>3, <1>5, <2>3, <3>1 DEF Writers
  <2>4. QED
    BY <1>5, <2>1, <2>2, <2>3, GuardSettles
<1>6. CASE Unlatch(t)
  <2>1. /\ Goto(t, "unpin") /\ UNCHANGED <<frame, table, status, loc>> /\ at(t) = "unlatch"
        /\ guards' = [guards EXCEPT ![t] = {g \in guards[t] : g.frame # loc[t].frame}]
    BY <1>6 DEF Unlatch, pool, storage, at, Awake
  <2>2. loc[t].op \notin {"new", "delete"}
    BY <1>1, <2>1 DEF CallOK, Fetches
  <2>3. \A u \in Threads : guards'[u] \subseteq guards[u] /\ (u # t => guards'[u] = guards[u])
    BY <1>1, <2>1
  <2>4. QED
    BY <1>2, <1>5, <2>1, <2>2, <2>3
<1>7. ASSUME NEW g \in guards[t], DropRead(t, g) PROVE Settled'
  <2> DEFINE l == [NoCall EXCEPT !.op = "drop", !.page = g.page, !.frame = g.frame]
  <2>1. /\ Goto(t, "unpin") /\ UNCHANGED <<frame, table, status>> /\ at(t) = "idle" /\ Local(t, l)
        /\ guards' = [guards EXCEPT ![t] = guards[t] \ {g}]
    BY <1>7 DEF DropRead, pool, storage, at, Awake
  <2>2. l.op \notin {"new", "delete"}
    BY DEF NoCall
  <2> HIDE DEF l
  <2>3. \A u \in Threads : guards'[u] \subseteq guards[u] /\ (u # t => guards'[u] = guards[u])
    BY <1>1, <2>1
  <2>4. QED
    BY <1>2, <1>5, <2>1, <2>2, <2>3
<1>8. ASSUME NEW g \in guards[t], DropWrite(t, g) PROVE Settled'
  <2> DEFINE l == [NoCall EXCEPT !.op = "drop", !.page = g.page, !.frame = g.frame]
  <2>1. /\ Goto(t, "unlatch") /\ UNCHANGED <<table, status, guards>> /\ at(t) = "idle" /\ Local(t, l) /\ g.mode = "write"
    BY <1>8 DEF DropWrite, at, Awake
  <2>2. l.op \notin {"new", "delete"}
    BY DEF NoCall
  <2> HIDE DEF l
  <2>3. ASSUME NEW f \in Frames
        PROVE  /\ SameShape(f) /\ frame'[f].flushed_epoch = frame[f].flushed_epoch
               /\ frame'[f].dirty_epoch = IF f = g.frame THEN frame[f].dirty_epoch + 1 ELSE frame[f].dirty_epoch
    <3>1. /\ frame'[f] = IF f = g.frame
                         THEN [frame[f] EXCEPT !.dirty_epoch = frame[f].dirty_epoch + 1, !.data = "latest"]
                         ELSE IF frame[f].page_id = g.page /\ frame[f].data = "latest"
                         THEN [frame[f] EXCEPT !.data = "stale"] ELSE frame[f]
          /\ frame[f] \in FrameType
      BY <1>1, <1>8 DEF DropWrite
    <3>2. QED
      BY <3>1 DEF FrameType, SameShape
  <2>4. frame[g.frame].state = "Resident" /\ g.frame \in Frames
    BY NamesKnown DEF Structure, PinnedOK
  <2>5. ASSUME NEW f \in Frames
        PROVE  LiveOK(f)' /\ SameShape(f) /\ frame[f].dirty_epoch <= frame'[f].dirty_epoch
    <3>1. LiveOK(f) /\ frame[f].dirty_epoch \in Nat /\ frame[f].flushed_epoch \in Nat
      BY <1>1 DEF Settled, FrameType
    <3>2. QED
      BY SMTT(30), <2>1, <2>3, <2>4, <3>1 DEF LiveOK, SameShape
  <2>6. ASSUME NEW u \in Threads, at(u) = "write"
        PROVE  frame'[loc[u].victim].dirty_epoch = frame[loc[u].victim].dirty_epoch
    <3>1. t \in Writers(g.frame)
      BY <2>1 DEF Writers
    <3>2. loc[u].victim # g.frame /\ loc[u].victim \in Frames
      BY <1>3, <2>6, <3>1
    <3>3. QED
      BY <2>3, <3>2
  <2>7. QED
    BY <1>5, <2>1, <2>2, <2>5, <2>6
<1>9. QED
  BY <1>4, <1>6, <1>7, <1>8

\* A call that is deleting a page is in DeletePage.
LEMMA DeleteAt ==
    ASSUME Structure, NEW u \in Threads, loc[u].op = "delete"
    PROVE  at(u) \in {"delete"} \cup DeleteHolds /\ loc[u].page \in Pages
<1>1. CallOK(at(u), loc[u]) /\ at(u) \in Labels \ {"asleep", "drain_asleep"}
  BY DEF Structure, TypeOK, at, Awake, Labels
<1>2. QED
  BY SMTT(30), <1>1 DEF CallOK, FetchAt, ReclaimAt, FlushAt, NeedsFrame, OnFrame, OnPage, PinsFrameAt, PinsVictimAt, DeleteHolds, Fetches, Reclaims, Labels, NoCall

\* Pages change hands.
LEMMA StatusSettles ==
    ASSUME Structure, Structure', Settled, NEW t \in Threads,
           (\E p \in Pages : Allocate(t, p)) \/ Deallocate(t) \/ DeallocateList(t)
    PROVE  Settled'
<1>1. /\ loc[t] \in CallType /\ CallOK(at(t), loc[t]) /\ DeleteOK(t) /\ status \in [Pages -> Disk!Status]
      /\ UNCHANGED <<frame, table, guards>>
  BY DEF Structure, TypeOK, Settled, Allocate, Deallocate, DeallocateList, pool
<1>2. ASSUME NEW a, NEW l, Moves(t, a, l), Claims', NEW p \in Pages,
             \A q \in Pages \ {p} : status'[q] = status[q],
             a \in {"stamp", "list", "giveback"},
             a = "stamp" => l.page = p /\ status'[p] = "owned" /\ status[p] # "lost",
             a # "stamp" => l = loc[t] /\ l.page = p /\ at(t) \in DeleteHolds,
             a = "list" => status'[p] = "lost" /\ at(t) = "deallocate",
             a = "giveback" => status[p] = "lost" /\ at(t) = "list"
      PROVE  Settled'
  <2>1. at(t)' = a /\ loc'[t] = l /\ \A u \in Threads \ {t} : at(u)' = at(u) /\ loc'[u] = loc[u]
    BY <1>2 DEF Moves
  <2>2. a # "stamp" => loc[t].op = "delete" /\ at(t) # "giveback"
    BY <1>1, <1>2 DEF CallOK
  <2>3. \A q \in Pages : status[q] = "owned" /\ status'[q] # "owned" => q = p /\ a = "list"
    BY <1>2
  <2>4. ASSUME NEW u \in Threads \ {t} PROVE Held(u)' /\ SampleOK(u)'
    BY SMTT(30), <1>1, <2>1 DEF Settled, Held, SampleOK, Writers
  <2>5. ASSUME NEW u \in Threads \ {t} PROVE DeleteOK(u)'
    <3>1. DeleteOK(u) /\ CallOK(at(u), loc[u])
      BY DEF Settled, Structure
    <3>2. at(u) \in {"delete"} \cup DeleteHolds => loc[u].op = "delete" /\ loc[u].page \in Pages
      BY <3>1 DEF CallOK
    <3>3. CASE a = "stamp"
      BY <1>1, <1>2, <2>1, <2>3, <3>1, <3>2, <3>3 DEF DeleteOK, DeleteHolds
    <3>4. CASE a # "stamp"
      <4>1. at(u) \in {"delete"} \cup DeleteHolds => loc[u].page # p
        BY <1>2, <2>2, <3>2, <3>4 DEF Settled, Claims
      <4>2. QED
        BY <1>1, <1>2, <2>1, <3>1, <3>2, <4>1 DEF DeleteOK, DeleteHolds
    <3>5. QED
      BY <3>3, <3>4
  <2>6. ASSUME NEW u \in Threads \ {t} PROVE OwnedOK(u)'
    <3>1. OwnedOK(u) /\ CallOK(at(u), loc[u]) /\ OwnerOK(u) /\ loc[u] \in CallType
      BY DEF Settled, Structure, TypeOK
    <3>2. CASE loc[u].op = "new" /\ loc[u].page # None
      <4>1. loc[u].page \in Pages /\ status[loc[u].page] = "owned"
        BY <3>1, <3>2 DEF OwnedOK, CallType
      <4>2. a = "list" => loc[u].page # p
        BY <1>2, <2>2, <3>2 DEF Settled, Claims
      <4>3. status'[loc[u].page] = "owned"
        BY <2>3, <4>1, <4>2
      <4>4. QED
        BY <2>1, <4>3 DEF OwnedOK
    <3>3. CASE at(u) = "loaded"
      <4>1. loc[u].page \in Pages /\ status[loc[u].page] = "owned" /\ loc[u].frame \in Frames /\ table[loc[u].page] = loc[u].frame
        BY <3>1, <3>3 DEF OwnedOK, CallOK, FetchAt, OwnerOK, PinsFrameAt
      <4>2. a = "list" => table[p] = None
        BY <1>1, <1>2 DEF DeleteOK
      <4>3. a = "list" => loc[u].page # p
        BY <4>1, <4>2, NamesKnown
      <4>4. status'[loc[u].page] = "owned"
        BY <2>3, <4>1, <4>3
      <4>5. QED
        BY <2>1, <4>4 DEF OwnedOK
    <3>4. QED
      BY SMTT(30), <2>1, <3>2, <3>3 DEF OwnedOK
  <2>7. ASSUME NEW f \in Frames PROVE LiveOK(f)'
    <3>1. LiveOK(f)
      BY DEF Settled
    <3>2. CASE frame[f].state = "Resident"
      <4>1. frame[f].page_id \in Pages /\ status[frame[f].page_id] = "owned"
        BY <3>1, <3>2 DEF LiveOK, Structure, FrameOK
      <4>2. a = "list" => frame[f].page_id # p
        <5> SUFFICES ASSUME a = "list", frame[f].page_id = p PROVE FALSE
          OBVIOUS
        <5>1. table[p] # f
          BY <1>1, <1>2, NamesKnown DEF DeleteOK
        <5>2. PICK u \in Threads : Role(at(u), loc[u]) = "insert" /\ loc[u].frame = f
          BY <3>2, <5>1 DEF Structure, Home, Plays
        <5>3. at(u) = "insert"
          BY <5>2 DEF Role
        <5>4. loc[u].op = "new" /\ loc[u].page = p
          BY <5>2, <5>3 DEF Structure, CallOK, PinnedOK, PinsFrameAt
        <5>5. QED
          BY <1>2, <2>2, <5>4 DEF Settled, Claims
      <4>3. QED
        BY <1>1, <2>3, <3>1, <4>1, <4>2 DEF LiveOK
    <3>3. CASE frame[f].state # "Resident"
      BY <1>1, <3>1, <3>3 DEF LiveOK
    <3>4. QED
      BY <3>2, <3>3
  <2>8. Held(t)' /\ SampleOK(t)' /\ OwnedOK(t)' /\ DeleteOK(t)'
    <3>1. Held(t)'
      BY <1>1, <1>2, <2>1 DEF Settled, Held
    <3>2. SampleOK(t)'
      BY <1>2, <2>1 DEF SampleOK
    <3>3. OwnedOK(t)' /\ DeleteOK(t)'
      BY <1>1, <1>2, <2>1, <2>2 DEF OwnedOK, DeleteOK, DeleteHolds
    <3>4. QED
      BY <3>1, <3>2, <3>3
  <2>9. QED
    BY <1>2, <2>4, <2>5, <2>6, <2>7, <2>8 DEF Settled
<1>3. ASSUME NEW p \in Pages, Allocate(t, p) PROVE Settled'
  <2> DEFINE l == [loc[t] EXCEPT !.page = p]
  <2>1. /\ at(t) = "allocate" /\ Local(t, l) /\ Goto(t, "stamp")
        /\ status[p] \in {"unborn", "free"} /\ status' = [status EXCEPT ![p] = "owned"]
    BY <1>3 DEF Allocate, Disk!Take, at, Awake
  <2>2. loc[t].op = "new" /\ loc[t].page = None /\ l.op = "new" /\ l.page = p
    BY <1>1, <2>1 DEF CallOK, CallType
  <2> HIDE DEF l
  <2>3. Moves(t, "stamp", l)
    BY <2>1, Went DEF Awake
  <2>4. ASSUME NEW u \in Threads, loc[u].op = "delete", at(u) # "giveback" PROVE loc[u].page # p
    <3>1. at(u) \in {"delete", "unevict", "deallocate", "list"}
      BY <2>4, DeleteAt DEF DeleteHolds
    <3>2. QED
      BY <2>1, <3>1 DEF Settled, DeleteOK
  <2>5. Claims'
    <3> SUFFICES ASSUME NEW u \in Threads, NEW v \in Threads, loc'[u].op = "delete"
                 PROVE  /\ loc'[v].op = "delete" /\ loc'[v].page = loc'[u].page => v = u
                        /\ loc'[v].op = "new" /\ at(u)' # "giveback" => loc'[v].page # loc'[u].page
      BY DEF Claims
    <3>1. u # t /\ loc'[u] = loc[u] /\ at(u)' = at(u)
      BY <2>2, <2>3 DEF Moves
    <3>2. CASE v = t
      BY <2>2, <2>3, <2>4, <3>1, <3>2 DEF Moves
    <3>3. CASE v # t
      BY <2>3, <3>1, <3>3 DEF Moves, Settled, Claims
    <3>4. QED
      BY <3>2, <3>3
  <2>6. (\A q \in Pages \ {p} : status'[q] = status[q]) /\ status'[p] = "owned"
    BY <1>1, <2>1
  <2>7. QED
    BY <1>2, <2>1, <2>2, <2>3, <2>5, <2>6
<1>4. CASE Deallocate(t) \/ DeallocateList(t)
  <2>1. PICK p : p = loc[t].page
    OBVIOUS
  <2>2. PICK label : /\ Goto(t, label) /\ UNCHANGED loc
                     /\ \/ label = "list" /\ at(t) = "deallocate" /\ status' = [status EXCEPT ![p] = "lost"]
                        \/ label = "giveback" /\ at(t) = "list" /\ status[p] = "lost" /\ status' = [status EXCEPT ![p] = "free"]
    BY <1>4, <2>1 DEF Deallocate, DeallocateList, Disk!Release, Disk!List, at, Awake
  <2>3. p \in Pages
    BY <1>1, <2>1, <2>2 DEF CallOK, DeleteHolds
  <2>4. Moves(t, label, loc[t])
    BY <2>2, Went DEF Awake
  <2>5. Claims'
    BY <2>2, <2>4, ClaimsKept DEF Goes
  <2>6. (\A q \in Pages \ {p} : status'[q] = status[q]) /\ (label = "list" => status'[p] = "lost")
    BY <1>1, <2>2, <2>3
  <2>7. at(t) \in DeleteHolds
    BY <2>2 DEF DeleteHolds
  <2>8. QED
    BY <1>2, <2>1, <2>2, <2>3, <2>4, <2>5, <2>6, <2>7
<1>5. QED
  BY <1>3, <1>4

\* A call starts that fetches, makes or deletes a page.
LEMMA StartSettles ==
    ASSUME Structure, Structure', Settled, NEW t \in Threads,
           \/ \E op \in Fetches, p \in Pages : StartFetch(t, op, p)
           \/ StartNew(t) \/ \E p \in Pages : StartDelete(t, p)
    PROVE  Settled'
<1>1. /\ UNCHANGED <<frame, table, status, guards>> /\ pc[t] = "idle" /\ at(t) = "idle" /\ loc[t] = NoCall
  <2>1. pc[t] = "idle" /\ UNCHANGED <<frame, table, status, guards>>
    BY DEF StartFetch, StartDelete, StartNew, Start, pool, storage
  <2>2. QED
    BY <2>1 DEF at, Awake, Structure, CallOK
<1>2. PICK op, p, label :
         /\ Start(t, op, p, label)
         /\ \/ op \in Fetches /\ p \in Pages /\ label = "lookup"
            \/ op = "new" /\ p = None /\ label = "acquire"
            \/ /\ op = "delete" /\ p \in Pages /\ label = "delete" /\ status[p] = "owned"
               /\ \A u \in Threads : loc[u].page = p => loc[u].op \notin {"new", "delete"}
  BY DEF StartFetch, StartNew, StartDelete
<1> DEFINE l == [NoCall EXCEPT !.op = op, !.page = p]
<1>3. l.op = op /\ l.page = p
  BY DEF NoCall
<1>4. Goto(t, label) /\ Local(t, l)
  BY <1>2 DEF Start
<1> HIDE DEF l
<1>5. Awake(label) = label
  BY <1>2 DEF Awake
<1>6. Moves(t, label, l)
  BY <1>4, <1>5, Went
<1>7. Tidy(t, label, l)
  BY <1>1, <1>6, SameTwin DEF Tidy, Remapped, Twin
<1>8. Lands(t, label, l)
  BY <1>2, <1>3 DEF Lands, DeleteHolds, Fetches
<1>9. Claims'
  <2> SUFFICES ASSUME NEW u \in Threads, NEW v \in Threads, loc'[u].op = "delete"
               PROVE  /\ loc'[v].op = "delete" /\ loc'[v].page = loc'[u].page => v = u
                      /\ loc'[v].op = "new" /\ at(u)' # "giveback" => loc'[v].page # loc'[u].page
    BY DEF Claims
  <2>1. CASE u # t /\ v # t
    BY <1>6, <2>1 DEF Moves, Settled, Claims
  <2>2. CASE u = t
    BY <1>2, <1>3, <1>6, <2>2 DEF Moves, Fetches
  <2>3. CASE u # t /\ v = t
    <3>1. loc'[u] = loc[u] /\ loc'[v] = l /\ loc[u].op = "delete"
      BY <1>6, <2>3 DEF Moves
    <3>2. loc[u].page \in Pages
      BY <3>1, DeleteAt
    <3>3. op = "new" => p # loc[u].page
      BY <1>2, <3>2, NoneAssumption, PagesAssumption DEF Fetches
    <3>4. QED
      BY <1>2, <1>3, <3>1, <3>3 DEF Fetches
  <2>4. QED
    BY <2>1, <2>2, <2>3
<1>10. QED
  BY <1>7, <1>8, <1>9, TidySettles

\* The steps that are not among the calm ones.
LEMMA NotCalm ==
    ASSUME NEW t \in Threads, Step(t) \/ Drop(t) \/ Call(t) \/ Shutdown(t) \/ SpuriousWakeup(t), ~CalmStep(t)
    PROVE  \/ FlushWrite(t) \/ FlushMark(t) \/ Vacate(t)
           \/ Latch(t) \/ Unlatch(t) \/ Drop(t)
           \/ (\E p \in Pages : Allocate(t, p)) \/ Deallocate(t) \/ DeallocateList(t)
           \/ \E op \in Fetches, p \in Pages : StartFetch(t, op, p)
           \/ StartNew(t) \/ \E p \in Pages : StartDelete(t, p)
BY DEF Step, Call, CalmStep, Fetches

\* At the start no page is cached and nobody is deleting one.
LEMMA SettledInit ==
    ASSUME Init
    PROVE  Settled
<1>1. \A t \in Threads : at(t) = "idle" /\ loc[t] = NoCall /\ guards[t] = {}
  BY DEF Init, at, Awake
<1>2. \A f \in Frames : frame[f] = FreeFrame
  BY DEF Init
<1>3. \A t \in Threads : Held(t) /\ DeleteOK(t) /\ OwnedOK(t) /\ SampleOK(t)
  BY <1>1 DEF Held, DeleteOK, OwnedOK, SampleOK, DeleteHolds, NoCall
<1>4. Claims
  BY SMTT(30), <1>1 DEF Claims, NoCall
<1>5. \A f \in Frames : LiveOK(f)
  BY <1>2 DEF LiveOK, FreeFrame
<1>6. QED
  BY <1>3, <1>4, <1>5 DEF Settled

\* Every step keeps it.
LEMMA SettledNext ==
    ASSUME Structure, Structure', Counting, Settled, [Next]_vars
    PROVE  Settled'
<1>1. ASSUME NEW t \in Threads, CalmStep(t) PROVE Settled'
  BY <1>1, CalmSteps, CalmSettles
<1>2. ASSUME NEW t \in Threads, Step(t) \/ Drop(t) \/ Call(t) \/ Shutdown(t) \/ SpuriousWakeup(t), ~CalmStep(t) PROVE Settled'
  <2>1. CASE FlushWrite(t) \/ FlushMark(t) \/ Vacate(t)
    BY <2>1, WriteSettles, MarkSettles, VacateSettles
  <2>2. CASE Latch(t) \/ Unlatch(t) \/ Drop(t)
    BY <2>2, GuardsSettle DEF Drop
  <2>3. CASE (\E p \in Pages : Allocate(t, p)) \/ Deallocate(t) \/ DeallocateList(t)
    BY <2>3, StatusSettles
  <2>4. CASE \/ \E op \in Fetches, p \in Pages : StartFetch(t, op, p)
             \/ StartNew(t) \/ \E p \in Pages : StartDelete(t, p)
    BY <2>4, StartSettles
  <2>5. QED
    BY <1>2, <2>1, <2>2, <2>3, <2>4, NotCalm
<1>3. ASSUME StopAccepting \/ Over \/ UNCHANGED vars PROVE Settled'
  <2>1. UNCHANGED <<frame, table, status, guards, pc, loc>>
    BY <1>3 DEF StopAccepting, Over, vars, pool, storage
  <2>2. \A t \in Threads : Held(t)' /\ DeleteOK(t)' /\ OwnedOK(t)' /\ SampleOK(t)'
    BY <2>1 DEF Settled, Held, DeleteOK, OwnedOK, SampleOK, Writers, at
  <2>3. (\A f \in Frames : LiveOK(f)') /\ Claims'
    BY <2>1 DEF Settled, LiveOK, Claims, at
  <2>4. QED
    BY <2>2, <2>3 DEF Settled
<1>4. QED
  BY <1>1, <1>2, <1>3 DEF Next

(***************************************************************************)
(* Shutdown.                                                               *)
(***************************************************************************)

\* A call that goes on is the call it was.
LEMMA StepOps ==
    ASSUME TypeOK, NEW t \in Threads, Step(t)
    PROVE  \A u \in Threads : loc'[u].op \in {loc[u].op, "none"}
<1>1. loc[t] \in CallType /\ loc \in [Threads -> CallType]
  BY DEF TypeOK
<1>2. ASSUME NEW l, Local(t, l), l.op \in {loc[t].op, "none"} PROVE \A u \in Threads : loc'[u].op \in {loc[u].op, "none"}
  BY <1>1, <1>2 DEF Local
<1>3. NoCall.op = "none"
  BY DEF NoCall
<1>4. CASE \/ FetchMiss(t) \/ WakeUp(t) \/ Touch(t) \/ Publish(t) \/ Load(t) \/ LoadFails(t) \/ Loaded(t)
           \/ AbandonErase(t) \/ AbandonFail(t) \/ AbandonDrained(t) \/ TryPopEmpty(t)
           \/ FlushCheck(t) \/ FlushWrite(t) \/ StampNew(t) \/ InsertNew(t) \/ Unevict(t)
           \/ Deallocate(t) \/ DeallocateList(t) \/ DeallocateFails(t) \/ Unlatch(t)
  <2>1. UNCHANGED loc
    BY <1>4 DEF FetchMiss, WakeUp, Touch, Publish, Load, LoadFails, Loaded, AbandonErase, AbandonFail, AbandonDrained,
                TryPopEmpty, FlushCheck, FlushWrite, StampNew, InsertNew, Unevict, Deallocate, DeallocateList,
                DeallocateFails, Unlatch
  <2>2. QED
    BY <2>1
<1>5. CASE \/ Unpin(t) \/ Latch(t) \/ AbandonPush(t) \/ EvictNone(t) \/ GiveUp(t) \/ ScanDone(t) \/ SyncDone(t)
           \/ AllocateFails(t) \/ DeletePinned(t) \/ GiveBack(t)
  <2>1. Local(t, NoCall)
    BY <1>5 DEF Unpin, Latch, AbandonPush, EvictNone, GiveUp, ScanDone, SyncDone, AllocateFails, DeletePinned, GiveBack, Return
  <2>2. QED
    BY <1>2, <1>3, <2>1
<1>6. CASE \/ FetchHit(t) \/ PublishLost(t) \/ TryPop(t) \/ Evict(t) \/ Peek(t) \/ UnpinVictim(t)
           \/ FlushSample(t) \/ FlushWriteFails(t) \/ FlushMark(t) \/ \E p \in Pages : Allocate(t, p)
  <2> DEFINE Same(l) == l.op = loc[t].op
  <2>1. \A x : /\ Same([loc[t] EXCEPT !.frame = x]) /\ Same([loc[t] EXCEPT !.victim = x])
               /\ Same([loc[t] EXCEPT !.peeked = x]) /\ Same([loc[t] EXCEPT !.epoch = x])
               /\ Same([loc[t] EXCEPT !.page = x])
               /\ Same([loc[t] EXCEPT !.victim = None, !.peeked = None])
               /\ Same([loc[t] EXCEPT !.frame = x, !.victim = None, !.peeked = None])
    BY <1>1 DEF CallType
  <2> HIDE DEF Same
  <2>2. PICK l : Local(t, l) /\ Same(l)
    BY <1>6, <2>1 DEF FetchHit, PublishLost, TryPop, Acquired, Evict, Peek, Decline, UnpinVictim, FlushSample,
                      FlushWriteFails, FlushMark, Allocate
  <2>3. QED
    BY <1>2, <2>2 DEF Same
<1>7. CASE Revalidate(t) \/ Recheck(t) \/ PinForFlush(t) \/ Scan(t) \/ ScanNext(t) \/ Vacate(t)
  <2> DEFINE Same(l) == l.op \in {loc[t].op, "none"}
  <2>1. /\ \A x : Same([loc[t] EXCEPT !.frame = x])
        /\ \A x, y : /\ Same([loc[t] EXCEPT !.victim = x, !.peeked = y])
                     /\ Same([loc[t] EXCEPT !.frame = x, !.victim = None, !.peeked = None])
                     /\ Same([loc[t] EXCEPT !.frame = x, !.victim = x, !.peeked = y])
        /\ Same(NoCall)
    BY <1>1, <1>3 DEF CallType
  <2> HIDE DEF Same
  <2>2. UNCHANGED loc \/ \E l : Local(t, l) /\ Same(l)
    BY <1>7, <2>1 DEF Revalidate, Recheck, Reclaimed, Acquired, Decline, PinForFlush, Return, Scan, ScanNext, Vacate
  <2>3. QED
    BY <1>2, <2>2 DEF Same
<1>8. QED
  BY <1>4, <1>5, <1>6, <1>7 DEF Step

\* Only the end of Shutdown and a failed Insert change the phase.
LEMMA StepPhase ==
    ASSUME NEW t \in Threads, Step(t), ~SyncDone(t)
    PROVE  phase' \in {phase, "aborted"}
<1>1. CASE \/ FetchMiss(t) \/ WakeUp(t) \/ Touch(t) \/ Publish(t) \/ Load(t) \/ LoadFails(t) \/ Loaded(t)
           \/ AbandonErase(t) \/ AbandonFail(t) \/ AbandonDrained(t) \/ TryPopEmpty(t)
           \/ FlushCheck(t) \/ FlushWrite(t) \/ StampNew(t) \/ InsertNew(t) \/ Unevict(t)
           \/ Deallocate(t) \/ DeallocateList(t) \/ DeallocateFails(t) \/ Unlatch(t)
  BY <1>1 DEF FetchMiss, WakeUp, Touch, Publish, Load, LoadFails, Loaded, AbandonErase, AbandonFail, AbandonDrained,
              TryPopEmpty, FlushCheck, FlushWrite, StampNew, InsertNew, Unevict, Deallocate, DeallocateList,
              DeallocateFails, Unlatch, owner
<1>2. CASE \/ Unpin(t) \/ Latch(t) \/ AbandonPush(t) \/ EvictNone(t) \/ GiveUp(t) \/ ScanDone(t)
           \/ AllocateFails(t) \/ DeletePinned(t) \/ GiveBack(t)
           \/ FetchHit(t) \/ PublishLost(t) \/ TryPop(t) \/ Evict(t) \/ Peek(t) \/ UnpinVictim(t)
  BY <1>2 DEF Unpin, Latch, AbandonPush, EvictNone, GiveUp, ScanDone, AllocateFails, DeletePinned, GiveBack,
              FetchHit, PublishLost, TryPop, Evict, Peek, UnpinVictim, owner
<1>3. CASE \/ FlushSample(t) \/ FlushWriteFails(t) \/ FlushMark(t) \/ \E p \in Pages : Allocate(t, p)
           \/ Revalidate(t) \/ Recheck(t) \/ PinForFlush(t) \/ Scan(t) \/ ScanNext(t) \/ Vacate(t)
  BY <1>3 DEF FlushSample, FlushWriteFails, FlushMark, Allocate, Revalidate, Recheck, PinForFlush, Scan, ScanNext, Vacate, owner
<1>4. QED
  BY <1>1, <1>2, <1>3 DEF Step

\* While the pool is open nobody is in Shutdown.
LEMMA OpenCloses ==
    ASSUME Structure, Closing, phase \in {"run", "drain"}, NEW t \in Threads,
           Step(t) \/ Drop(t) \/ Call(t) \/ SpuriousWakeup(t)
    PROVE  Closing'
<1>1. \A u \in Threads : loc[u].op # "shutdown" /\ loc \in [Threads -> CallType]
  BY DEF Closing, Structure, TypeOK
<1>2. (\A u \in Threads : loc'[u].op # "shutdown") /\ phase' \in {phase, "aborted"}
  <2>1. CASE Step(t)
    <3>1. ~SyncDone(t)
      BY <1>1 DEF SyncDone
    <3>2. QED
      BY <1>1, <2>1, <3>1, StepOps, StepPhase DEF Structure
  <2>2. CASE Drop(t)
    <3>1. PICK g \in guards[t] : DropRead(t, g) \/ DropWrite(t, g)
      BY <2>2 DEF Drop
    <3> DEFINE l == [NoCall EXCEPT !.op = "drop", !.page = g.page, !.frame = g.frame]
    <3>2. l.op = "drop"
      BY DEF NoCall
    <3>3. phase' = phase /\ Local(t, l)
      BY <3>1 DEF DropRead, DropWrite, owner
    <3> HIDE DEF l
    <3>4. QED
      BY <1>1, <3>2, <3>3 DEF Local
  <2>3. CASE Call(t)
    <3> DEFINE Open(l) == l.op # "shutdown"
    <3>1. PICK l : Local(t, l) /\ phase' = phase /\ Open(l)
      <4>1. CASE StartFlushAll(t)
        <5>1. Open([NoCall EXCEPT !.op = "flushall", !.frame = 0])
          BY DEF NoCall
        <5> HIDE DEF Open
        <5>2. QED
          BY <4>1, <5>1 DEF StartFlushAll, owner
      <4>2. CASE ~StartFlushAll(t)
        <5>1. PICK op \in {"read", "write", "delete", "flush", "new"}, p \in Pages \cup {None}, label \in Labels : Start(t, op, p, label)
          BY <2>3, <4>2 DEF Call, StartFetch, StartNew, StartDelete, StartFlush, Labels
        <5>2. Open([NoCall EXCEPT !.op = op, !.page = p])
          BY DEF NoCall
        <5> HIDE DEF Open
        <5>3. QED
          BY <5>1, <5>2 DEF Start, owner
      <4>3. QED
        BY <4>1, <4>2
    <3>2. \A u \in Threads : loc'[u] = IF u = t THEN l ELSE loc[u]
      BY <1>1, <3>1 DEF Local
    <3>3. QED
      BY <1>1, <3>1, <3>2
  <2>4. CASE SpuriousWakeup(t)
    BY <1>1, <2>4 DEF SpuriousWakeup, owner
  <2>5. QED
    BY <2>1, <2>2, <2>3, <2>4
<1>3. QED
  BY <1>2 DEF Closing, Passed

\* Where Shutdown stands.
LEMMA ShutdownAt ==
    ASSUME Structure, NEW t \in Threads, loc[t].op = "shutdown"
    PROVE  /\ at(t) \in {"scan", "next"} \cup FlushAt
           /\ at(t) # "scan" => OnFrame(loc[t])
<1>1. CallOK(at(t), loc[t]) /\ at(t) \in Labels \ {"asleep", "drain_asleep"}
  BY DEF Structure, TypeOK, at, Awake, Labels
<1>2. at(t) \in {"scan", "next"} \cup FlushAt
  BY SMTT(30), <1>1 DEF CallOK, FetchAt, ReclaimAt, FlushAt, NeedsFrame, DeleteHolds, Fetches, Reclaims, Labels, NoCall
<1>3. at(t) # "scan" => OnFrame(loc[t])
  BY <1>1, <1>2 DEF CallOK, FlushAt, NeedsFrame, OnPage, Fetches
<1>4. QED
  BY <1>2, <1>3

\* Shutdown goes on, alone.
LEMMA AloneCloses ==
    ASSUME Structure, Closing, phase = "shutdown", NEW t \in Threads, loc[t].op = "shutdown", NEW a, NEW l,
           Moves(t, a, l), UNCHANGED <<guards, phase>>, l.op = "shutdown", Passed(t)'
    PROVE  Closing'
<1>1. \A u \in Threads \ {t} : loc'[u] = loc[u] /\ at(u)' = at(u) /\ loc[u].op # "shutdown" /\ at(u) = "idle"
  BY DEF Closing, Moves
<1>2. loc'[t].op = "shutdown" /\ \A u \in Threads : guards'[u] = {}
  BY DEF Moves, Closing
<1>3. \A u \in Threads : Passed(u)'
  BY <1>1 DEF Passed
<1>4. QED
  BY <1>1, <1>2, <1>3 DEF Closing

\* A step belongs to a call.
LEMMA StepsAreAwake ==
    ASSUME NEW t \in Threads, Step(t)
    PROVE  at(t) # "idle"
<1>1. pc[t] # "idle"
  BY DEF Step, Unpin, FetchHit, FetchMiss, WakeUp, Touch, Latch, PublishLost, Publish, Load, LoadFails, Loaded,
         AbandonErase, AbandonFail, AbandonDrained, AbandonPush, TryPop, TryPopEmpty, Evict, EvictNone, Peek,
         Revalidate, Recheck, UnpinVictim, GiveUp, FlushCheck, FlushSample, FlushWrite, FlushWriteFails, FlushMark,
         PinForFlush, Scan, ScanNext, ScanDone, SyncDone, Allocate, AllocateFails, StampNew, InsertNew,
         DeletePinned, Vacate, Unevict, Deallocate, DeallocateList, DeallocateFails, GiveBack, Unlatch
<1>2. QED
  BY <1>1 DEF at, Awake

\* A step of Shutdown leaves the frames it has passed clean.
LEMMA ShutdownCloses ==
    ASSUME Structure, Settled, Closing, phase = "shutdown", NEW t \in Threads, Step(t)
    PROVE  Closing'
<1>1. at(t) # "idle"
  BY StepsAreAwake
<1>2. loc[t].op = "shutdown"
  BY <1>1 DEF Closing
<1>3. /\ at(t) \in {"scan", "next"} \cup FlushAt /\ (at(t) # "scan" => OnFrame(loc[t])) /\ at(t) = pc[t]
      /\ loc[t] \in CallType /\ Passed(t) /\ CallOK(at(t), loc[t]) /\ SampleOK(t)
  BY <1>2, ShutdownAt DEF FlushAt, at, Awake, Structure, TypeOK, Closing, Settled
<1>4. ASSUME NEW l, l.op = "shutdown", NEW label, Awake(label) = label, Goto(t, label),
             Local(t, l) \/ (UNCHANGED loc /\ l = loc[t]), UNCHANGED <<guards, phase>>, Passed(t)'
      PROVE  Closing'
  <2>1. Moves(t, label, l)
    BY <1>4, Went
  <2>2. QED
    BY <1>2, <1>4, <2>1, AloneCloses
<1>5. PICK f : f = loc[t].frame
  OBVIOUS
<1>6. at(t) # "scan" => f \in Frames /\ loc[t].victim = f
  BY <1>3, <1>5 DEF OnFrame
<1>7. loc \in [Threads -> CallType] /\ pc \in [Threads -> Labels] /\ frame \in [Frames -> FrameType]
  BY DEF Structure, TypeOK
<1>8. ASSUME NEW x \in Frames, Twin(x) PROVE IsDirty(x)' <=> IsDirty(x)
  BY <1>8 DEF Twin, Alike, IsDirty
<1>9. IsDirty(f) \in BOOLEAN /\ \A x \in Frames : frame[x].state # "Resident" => ~IsDirty(x)
  BY SMTT(30), <1>7 DEF Settled, LiveOK, IsDirty, FrameType
<1>10. CASE Scan(t)
  <2>1. /\ at(t) = "scan" /\ f < Capacity /\ UNCHANGED <<guards, phase, err>>
    BY <1>3, <1>5, <1>10 DEF Scan, owner
  <2>2. f \in Frames
    BY SMTT(30), <1>3, <1>5, <2>1, CapacityAssumption DEF CallOK, Frames
  <2>3. CASE frame[f].state = "Resident"
    <3>1. PICK n : n = frame[f].pin_count + 1
      OBVIOUS
    <3> DEFINE l == [loc[t] EXCEPT !.victim = f, !.peeked = frame[f].page_id]
    <3>2. frame' = [frame EXCEPT ![f].pin_count = n] /\ Local(t, l) /\ Goto(t, "flush")
      BY <1>5, <1>10, <2>3, <3>1 DEF Scan
    <3>3. l.op = "shutdown" /\ l.frame = f
      BY <1>2, <1>3, <1>5 DEF CallType
    <3> HIDE DEF l
    <3>4. loc'[t] = l /\ at(t)' = "flush"
      BY <1>7, <3>2 DEF Local, Goto, at, Awake
    <3>5. \A x \in Frames : IsDirty(x)' <=> IsDirty(x)
      BY <1>7, <2>2, <3>2 DEF IsDirty, FrameType
    <3>6. Passed(t)'
      BY <1>2, <1>3, <1>5, <2>1, <3>3, <3>4, <3>5 DEF Passed
    <3>7. QED
      BY <1>4, <2>1, <3>2, <3>3, <3>6 DEF Awake
  <2>4. CASE frame[f].state # "Resident"
    <3> DEFINE l == [loc[t] EXCEPT !.frame = f + 1]
    <3>1. Local(t, l) /\ UNCHANGED <<frame, pc>>
      BY <1>5, <1>10, <2>4 DEF Scan
    <3>2. l.op = "shutdown" /\ l.frame = f + 1
      BY <1>2, <1>3, <1>5 DEF CallType
    <3> HIDE DEF l
    <3>3. loc'[t] = l /\ at(t)' = "scan" /\ Goto(t, "scan")
      BY <1>3, <1>7, <2>1, <3>1 DEF Local, Goto, at, Awake
    <3>4. \A x \in Frames : (IsDirty(x)' <=> IsDirty(x)) /\ (x < f + 1 => x < f \/ x = f)
      BY <2>2, <3>1 DEF IsDirty, Frames
    <3>5. Passed(t)'
      BY <1>2, <1>3, <1>5, <1>9, <2>1, <2>2, <2>4, <3>2, <3>3, <3>4 DEF Passed
    <3>6. QED
      BY <1>4, <2>1, <3>1, <3>2, <3>3, <3>5 DEF Awake
  <2>5. QED
    BY <2>3, <2>4
<1>11. CASE ScanNext(t)
  <2> DEFINE l == [loc[t] EXCEPT !.frame = f + 1, !.victim = None, !.peeked = None]
  <2>1. /\ at(t) = "next" /\ UNCHANGED <<guards, phase, err>> /\ Local(t, l) /\ UnpinPage(t, f, "scan")
    BY <1>3, <1>5, <1>6, <1>11 DEF ScanNext, owner
  <2>2. l.op = "shutdown" /\ l.frame = f + 1
    BY <1>2, <1>3, <1>5 DEF CallType
  <2> HIDE DEF l
  <2>3. PICK n : n = frame[f].pin_count - 1
    OBVIOUS
  <2>4. frame' = [frame EXCEPT ![f].pin_count = n] /\ frame[f].state = "Resident"
    BY <1>3, <1>6, <2>1, <2>3 DEF UnpinPage, Structure, PinnedOK, PinsVictimAt
  <2>5. Goto(t, "scan")
    BY <2>1, <2>4 DEF UnpinPage
  <2>6. loc'[t] = l /\ at(t)' = "scan"
    BY <1>7, <2>1, <2>5 DEF Local, Goto, at, Awake
  <2>7. \A x \in Frames : (IsDirty(x)' <=> IsDirty(x)) /\ (x < f + 1 => x < f \/ x = f)
    <3>1. f \in Frames
      BY <1>6, <2>1
    <3>2. \A x \in Frames : IsDirty(x)' <=> IsDirty(x)
      BY <1>7, <2>4, <3>1 DEF IsDirty, FrameType
    <3>3. QED
      BY <3>1, <3>2 DEF Frames
  <2>8. Passed(t)'
    BY <1>2, <1>3, <1>5, <2>1, <2>2, <2>6, <2>7 DEF Passed
  <2>9. QED
    BY <1>4, <2>1, <2>2, <2>5, <2>8 DEF Awake
<1>12. CASE FlushCheck(t) \/ FlushWrite(t)
  <2>1. at(t) # "scan" /\ UNCHANGED <<frame, guards, phase, err, loc>>
    BY <1>3, <1>12 DEF FlushCheck, FlushWrite, pool, owner
  <2>2. PICK label \in {"sample", "next", "mark"} :
           /\ Goto(t, label) /\ (label = "next" => ~IsDirty(f)) /\ (label = "mark" => loc[t].epoch = frame[f].dirty_epoch)
    BY <1>2, <1>3, <1>6, <1>12, <2>1 DEF FlushCheck, FlushWrite, FlushReturns, Reclaims, SampleOK
  <2>3. at(t)' = label /\ Awake(label) = label
    BY <1>7, <2>2 DEF Goto, at, Awake
  <2>4. Passed(t)'
    BY <1>2, <1>3, <1>5, <1>6, <2>1, <2>2, <2>3 DEF Passed, IsDirty
  <2>5. QED
    BY <1>2, <1>4, <2>1, <2>2, <2>3, <2>4
<1>13. CASE FlushSample(t) \/ FlushWriteFails(t) \/ FlushMark(t)
  <2> DEFINE l(e) == [loc[t] EXCEPT !.epoch = e]
  <2>1. PICK e, label : /\ Local(t, l(e)) /\ Goto(t, label) /\ UNCHANGED <<guards, phase>> /\ at(t) # "scan"
                        /\ label \in {"write", "next"}
    BY <1>2, <1>3, <1>13 DEF FlushSample, FlushWriteFails, FlushMark, FlushReturns, Reclaims, owner
  <2>2. l(e).op = "shutdown" /\ l(e).frame = f
    BY <1>2, <1>3, <1>5 DEF CallType
  <2> HIDE DEF l
  <2>3. loc'[t] = l(e) /\ at(t)' = label /\ Awake(label) = label
    BY <1>7, <2>1 DEF Local, Goto, at, Awake
  <2>4. CASE FlushSample(t)
    <3>1. label = "write" /\ UNCHANGED <<frame, err>>
      BY <1>7, <2>1, <2>4 DEF FlushSample, Goto, pool, owner
    <3>2. Passed(t)'
      BY <1>2, <1>3, <1>5, <2>2, <2>3, <3>1 DEF Passed, IsDirty
    <3>3. QED
      BY <1>4, <2>1, <2>2, <2>3, <3>2
  <2>5. CASE FlushWriteFails(t)
    <3>1. err'
      BY <1>2, <2>5 DEF FlushWriteFails
    <3>2. Passed(t)'
      BY <3>1 DEF Passed
    <3>3. QED
      BY <1>4, <2>1, <2>2, <2>3, <3>2
  <2>6. CASE FlushMark(t)
    <3>1. PICK n : n = IF frame[f].flushed_epoch < loc[t].epoch THEN loc[t].epoch ELSE frame[f].flushed_epoch
      OBVIOUS
    <3>2. frame' = [frame EXCEPT ![f].flushed_epoch = n] /\ err' = err /\ at(t) = "mark"
      BY <1>3, <1>6, <2>1, <2>6, <3>1 DEF FlushMark, owner
    <3>3. frame'[f].dirty_epoch = frame[f].dirty_epoch /\ frame'[f].flushed_epoch = n
      BY <1>6, <1>7, <2>1, <3>2 DEF FrameType
    <3>4. \A x \in Frames \ {f} : IsDirty(x)' <=> IsDirty(x)
      BY <1>7, <3>2 DEF IsDirty
    <3>5. f \in Frames /\ frame[f].flushed_epoch <= frame[f].dirty_epoch /\ frame[f].dirty_epoch \in Nat /\ frame[f].flushed_epoch \in Nat
      BY <1>6, <1>7, <2>1 DEF Settled, LiveOK, FrameType
    <3>6. ~err => ~IsDirty(f)'
      BY <1>2, <1>3, <1>6, <2>1, <3>1, <3>2, <3>3, <3>5 DEF Passed, IsDirty
    <3>7. Passed(t)'
      BY <1>2, <1>3, <1>5, <2>1, <2>2, <2>3, <3>2, <3>4, <3>6 DEF Passed
    <3>8. QED
      BY <1>4, <2>1, <2>2, <2>3, <3>7
  <2>7. QED
    BY <1>13, <2>4, <2>5, <2>6
<1>14. CASE SyncDone(t)
  <2>1. /\ phase' = "down" /\ (~err' => ~err) /\ UNCHANGED <<frame, guards>> /\ Goto(t, "idle") /\ Local(t, NoCall)
        /\ f = Capacity
    BY <1>5, <1>14 DEF SyncDone, Return, pool
  <2>2. \A u \in Threads : at(u)' = "idle" /\ loc'[u].op # "shutdown" /\ guards'[u] = {}
    <3>1. \A u \in Threads \ {t} : at(u) = "idle" /\ loc[u].op # "shutdown"
      BY <1>2 DEF Closing
    <3>2. Moves(t, "idle", NoCall)
      BY <2>1, Went DEF Awake
    <3>3. QED
      BY SMTT(30), <2>1, <3>1, <3>2 DEF Moves, NoCall, Closing
  <2>3. ~err => \A x \in Frames : ~IsDirty(x)
    BY <1>2, <1>3, <1>5, <2>1, CapacityAssumption DEF Passed, Frames
  <2>4. QED
    BY <2>1, <2>2, <2>3 DEF Closing, Passed, IsDirty
<1>15. QED
  <2>1. at(t) \in {"scan", "next", "flush", "sample", "write", "mark"} /\ at(t) = pc[t]
    BY <1>3 DEF FlushAt
  <2>2. \/ Scan(t) \/ ScanNext(t) \/ FlushCheck(t) \/ FlushWrite(t) \/ FlushSample(t) \/ FlushWriteFails(t)
        \/ FlushMark(t) \/ SyncDone(t)
    BY <1>2, <2>1
       DEF Step, Unpin, FetchHit, FetchMiss, WakeUp, Touch, Latch, PublishLost, Publish, Load, LoadFails, Loaded,
           AbandonErase, AbandonFail, AbandonDrained, AbandonPush, TryPop, TryPopEmpty, Evict, EvictNone, Peek,
           Revalidate, Recheck, UnpinVictim, GiveUp, PinForFlush, ScanDone, Allocate, AllocateFails, StampNew, InsertNew,
           DeletePinned, Vacate, Unevict, Deallocate, DeallocateList, DeallocateFails, GiveBack, Unlatch
  <2>3. QED
    BY <1>10, <1>11, <1>12, <1>13, <1>14, <2>2

\* At the start nobody is in Shutdown.
LEMMA ClosingInit ==
    ASSUME Init
    PROVE  Closing
<1>1. phase = "run" /\ \A t \in Threads : loc[t] = NoCall
  BY DEF Init
<1>2. QED
  BY <1>1 DEF Closing, Passed, NoCall

\* Every step keeps it.
LEMMA ClosingNext ==
    ASSUME Structure, Settled, Closing, [Next]_vars
    PROVE  Closing'
<1>1. ASSUME NEW t \in Threads, Shutdown(t) PROVE Closing'
  <2> DEFINE l == [NoCall EXCEPT !.op = "shutdown", !.frame = 0]
  <2>1. /\ Goto(t, "scan") /\ Local(t, l) /\ UNCHANGED <<guards>> /\ phase' = "shutdown"
        /\ \A u \in Threads : pc[u] = "idle" /\ guards[u] = {}
    BY <1>1 DEF Shutdown, Quiescent
  <2>2. l.op = "shutdown" /\ l.frame = 0
    BY DEF NoCall
  <2> HIDE DEF l
  <2>3. Moves(t, "scan", l)
    BY <2>1, Went DEF Awake
  <2>4. \A u \in Threads : at(u) = "idle" /\ loc[u].op # "shutdown"
    BY SMTT(30), <2>1 DEF Structure, CallOK, NoCall, at, Awake
  <2>5. /\ at(t)' = "scan" /\ loc'[t].op = "shutdown" /\ loc'[t].frame = 0
        /\ \A u \in Threads \ {t} : at(u)' = "idle" /\ loc'[u].op # "shutdown"
    BY <2>2, <2>3, <2>4 DEF Moves
  <2>6. \A u \in Threads : Passed(u)'
    BY SMTT(30), <2>5, CapacityAssumption DEF Passed, Frames
  <2>7. QED
    BY <2>1, <2>5, <2>6 DEF Closing
<1>2. ASSUME NEW t \in Threads, Step(t) \/ Drop(t) \/ Call(t) \/ SpuriousWakeup(t), phase # "aborted" PROVE Closing'
  <2>1. CASE phase \in {"run", "drain"}
    BY <1>2, <2>1, OpenCloses
  <2>2. CASE phase \in {"shutdown", "down"}
    <3>1. ~Drop(t) /\ ~Call(t)
      BY <2>2 DEF Closing, Drop, Call, StartFetch, StartNew, StartDelete, StartFlush, Start, StartFlushAll
    <3>2. ~SpuriousWakeup(t)
      <4>1. at(t) \notin {"wait", "drain"}
        BY <2>2, ShutdownAt DEF Closing, FlushAt
      <4>2. QED
        BY <4>1 DEF SpuriousWakeup, at, Awake
    <3>3. CASE phase = "shutdown"
      BY <1>2, <3>1, <3>2, <3>3, ShutdownCloses
    <3>4. CASE phase = "down"
      <4>1. at(t) = "idle"
        BY <3>4 DEF Closing
      <4>2. Step(t)
        BY <1>2, <3>1, <3>2
      <4>3. QED
        BY <4>1, <4>2, StepsAreAwake
    <3>5. QED
      BY <2>2, <3>3, <3>4
  <2>3. QED
    BY <1>2, <2>1, <2>2 DEF Structure, TypeOK
<1>3. ASSUME StopAccepting \/ Over \/ UNCHANGED vars PROVE Closing'
  <2>1. UNCHANGED <<frame, guards, pc, loc, err>> /\ (phase' = phase \/ (phase = "run" /\ phase' = "drain"))
    BY <1>3 DEF StopAccepting, Over, vars, pool, owner
  <2>2. QED
    BY <2>1 DEF Closing, Passed, IsDirty, at
<1>4. QED
  BY <1>1, <1>2, <1>3 DEF Next

(***************************************************************************)
(* The bytes.                                                              *)
(***************************************************************************)

\* Fetches go on while their pages stay owned and their bytes alive.
LEMMA FetchingKept ==
    ASSUME Faithful, NEW t \in Threads, NEW a, NEW l, Moves(t, a, l), Onward(t, l),
           \A u \in Threads : loc[u].op \in Fetches => status'[loc[u].page] = "owned" /\ disk'[loc[u].page] # "dead"
    PROVE  \A u \in Threads : Fetching(u)'
<1> SUFFICES ASSUME NEW u \in Threads, loc'[u].op \in Fetches PROVE Fetching(u)'
  BY DEF Fetching
<1>1. loc[u].op \in Fetches /\ loc[u].page = loc'[u].page
  BY DEF Moves, Onward
<1>2. \A v \in Threads : loc'[v].op \in {"new", "delete"} => loc'[v].op = loc[v].op /\ loc'[v].page = loc[v].page
  BY DEF Moves, Onward
<1>3. \A v \in Threads : loc[v].op \in {"new", "delete"} => loc[v].page # loc[u].page
  BY <1>1 DEF Faithful, Fetching
<1>4. QED
  BY <1>1, <1>2, <1>3 DEF Fetching

\* New pages stay the pages of the threads that make them, and unmapped.
LEMMA MakingKept ==
    ASSUME Faithful, NEW t \in Threads, NEW a, NEW l, Moves(t, a, l), Onward(t, l),
           a \in {"stamp", "insert"} => table'[l.page] = None,
           \A u \in Threads \ {t} : loc[u].op = "new" /\ at(u) \in {"stamp", "insert"} => table'[loc[u].page] = None
    PROVE  \A u \in Threads : Making(u)'
<1> SUFFICES ASSUME NEW u \in Threads, loc'[u].op = "new" PROVE Making(u)'
  BY DEF Making
<1>1. \A v \in Threads : loc'[v].op = "new" => loc[v].op = "new" /\ loc'[v].page = loc[v].page
  BY DEF Moves, Onward
<1>2. \A v \in Threads : loc[v].op = "new" /\ loc[v].page = loc[u].page /\ loc[u].page # None => v = u
  BY <1>1 DEF Faithful, Making
<1>3. at(u)' \in {"stamp", "insert"} => table'[loc'[u].page] = None
  BY <1>1 DEF Moves
<1>4. QED
  BY <1>1, <1>2, <1>3 DEF Making

\* Nobody else makes a page that thread t fetches or makes.
LEMMA MadeByOne ==
    ASSUME Faithful, NEW t \in Threads, NEW u \in Threads, loc[t].op \in Reclaims, loc[t].page # None,
           loc[u].op = "new", loc[u].page = loc[t].page
    PROVE  u = t
BY DEF Faithful, Fetching, Making, Reclaims, Fetches

\* No writer holds a frame that is not Resident.
LEMMA WritersAreHome ==
    ASSUME Structure, NEW f \in Frames, frame[f].state # "Resident" \/ GuardPins(f) = {}
    PROVE  Writers(f) = {}
BY SMTT(30) DEF Structure, PinnedOK, Writers, GuardPins

\* The bytes ReadPage returns are the last ones.
LEMMA DiskIsLatest ==
    ASSUME Structure, Settled, Faithful, NEW t \in Threads, at(t) = "load"
    PROVE  disk[loc[t].page] = "latest"
<1>1. CallOK(at(t), loc[t]) /\ PinnedOK(t) /\ OwnerOK(t) /\ Fetching(t)
  BY DEF Structure, Faithful
<1>2. PICK f, p : f = loc[t].frame /\ p = loc[t].page
  OBVIOUS
<1>3. p \in Pages /\ loc[t].op \in Fetches /\ table[p] = f /\ frame[f].state = "Loading" /\ Role(at(t), loc[t]) # "none"
  BY <1>1, <1>2 DEF CallOK, FetchAt, OwnerOK, PinnedOK, PinsFrameAt, StatesAt, LoadAt, Role, PrivateAt
<1>4. f \in Frames /\ ~IsDirty(f)
  <2>1. f \in Frames
    BY <1>2, <1>3, NamesKnown
  <2>2. LiveOK(f) /\ frame[f] \in FrameType
    BY <2>1 DEF Settled, Structure, TypeOK
  <2>3. QED
    BY SMTT(30), <1>3, <2>1, <2>2 DEF LiveOK, IsDirty, FrameType
<1>5. Writers(f) = {}
  BY <1>3, <1>4, WritersAreHome
<1>6. status[p] = "owned" /\ disk[p] # "dead" /\ ~\E u \in Threads : loc[u].op = "new" /\ loc[u].page = p
  BY <1>1, <1>2, <1>3 DEF Fetching
<1>7. disk[p] # "stale"
  BY <1>3, <1>4, <1>5, <1>6 DEF Faithful, PageData
<1>8. disk[p] \in Content
  BY <1>3 DEF Structure, TypeOK
<1>9. QED
  BY <1>2, <1>6, <1>7, <1>8 DEF Content

\* A calm step leaves alone the frames others have read into, latched or pinned for a flush.
LEMMA CalmOthers ==
    ASSUME Structure, NEW t \in Threads, NEW a, NEW l, Calmly(t, a, l), NEW u \in Threads, u # t
    PROVE  /\ at(u) = "loaded" => Twin(loc[u].frame)
           /\ at(u) = "mark" => Twin(loc[u].victim)
           /\ at(u) = "unlatch" => Twin(loc[u].frame)
<1>1. CallOK(at(u), loc[u]) /\ PinnedOK(u) /\ GuardsOK(u)
  BY DEF Structure
<1>2. ASSUME at(u) = "loaded" PROVE Twin(loc[u].frame)
  <2>1. Owns(u, loc[u].frame) /\ loc[u].frame \in Frames
    BY <1>1, <1>2 DEF Owns, Role, PrivateAt, LoadAt, CallOK, PinsFrameAt
  <2>2. QED
    BY <2>1 DEF Calmly, Changed
<1>3. ASSUME at(u) = "mark" PROVE Twin(loc[u].victim)
  <2>1. loc[u].victim \in Frames /\ u \in PinsOf(loc[u].victim) /\ frame[loc[u].victim].state = "Resident"
    BY <1>1, <1>3 DEF CallOK, PinnedOK, PinsOf, PinnedBy, PinsVictimAt
  <2>2. QED
    BY <2>1 DEF Calmly, Changed, Loose
<1>4. ASSUME at(u) = "unlatch" PROVE Twin(loc[u].frame)
  <2>1. PICK g \in guards[u] : g.frame = loc[u].frame
    BY <1>1, <1>4 DEF GuardsOK
  <2>2. loc[u].frame \in Frames /\ u \in GuardPins(loc[u].frame) /\ frame[loc[u].frame].state = "Resident"
    BY <1>1, <2>1, NamesKnown DEF PinnedOK, GuardPins
  <2>3. QED
    BY <2>2 DEF Calmly, Changed, Loose
<1>5. QED
  BY <1>2, <1>3, <1>4

\* A calm step keeps the bytes faithful.
LEMMA CalmFaithful ==
    ASSUME Structure, Settled, Faithful, NEW t \in Threads, \E a, l : Calmly(t, a, l)
    PROVE  Faithful'
<1>1. PICK a, l : Calmly(t, a, l)
  OBVIOUS
<1>2. /\ Moves(t, a, l) /\ UNCHANGED <<status, disk, guards>> /\ Aborts(t)
      /\ \A p \in Pages : Cleared(t, p)
      /\ a \notin {"mark", "unlatch", "stamp"}
      /\ Onward(t, l)
  BY <1>1 DEF Calmly, Stays
<1>3. phase' # "aborted"
  <2>1. at(t) = "insert" => loc[t].op = "new"
    BY DEF Structure, CallOK
  <2>2. QED
    BY <1>2, <2>1 DEF Faithful, Making, Aborts
<1>4. \A u \in Threads : Fetching(u)'
  BY <1>2, FetchingKept DEF Faithful, Fetching
<1>5. \A u \in Threads : Making(u)'
  <2>1. a = "insert" => table'[l.page] = None
    <3> SUFFICES ASSUME a = "insert" PROVE table'[l.page] = None
      OBVIOUS
    <3>1. at(t) \in {"stamp", "insert"} /\ l = loc[t] /\ table' = table /\ loc[t].op = "new"
      BY <1>1 DEF Calmly, Structure, CallOK
    <3>2. QED
      BY <3>1 DEF Faithful, Making
  <2>2. ASSUME NEW u \in Threads \ {t}, loc[u].op = "new", at(u) \in {"stamp", "insert"}
        PROVE  table'[loc[u].page] = None
    <3>1. loc[u].page \in Pages /\ table[loc[u].page] = None
      BY <2>2 DEF Structure, CallOK, Faithful, Making
    <3>2. ~(loc[u].page = loc[t].page /\ loc[t].op \in Reclaims)
      BY <2>2, <3>1, MadeByOne, NoneAssumption, PagesAssumption
    <3>3. QED
      BY <1>2, <3>1, <3>2 DEF Cleared
  <2>3. QED
    BY <1>2, <2>1, <2>2, MakingKept
<1>6. ASSUME NEW u \in Threads PROVE ThreadData(u)'
  <2>1. CASE u = t
    <3>1. at(t)' = a /\ loc'[t] = l
      BY <1>2 DEF Moves
    <3>2. a = "loaded" => frame'[l.frame].data = "latest"
      BY <1>1, DiskIsLatest DEF Calmly
    <3>3. QED
      BY <1>2, <2>1, <3>1, <3>2 DEF ThreadData
  <2>2. CASE u # t
    <3>1. at(u)' = at(u) /\ loc'[u] = loc[u] /\ ThreadData(u)
      BY <1>2, <2>2 DEF Moves, Faithful
    <3>2. QED
      BY <1>1, <1>2, <2>2, <3>1, CalmOthers DEF ThreadData, Twin, Alike, IsDirty
  <2>3. QED
    BY <2>1, <2>2
<1>7. ASSUME NEW f \in Frames, frame'[f].state = "Resident" PROVE frame'[f].data = "latest"
  <2>1. at(t) = "loaded" /\ loc[t].frame = f => frame[f].data = "latest"
    BY DEF Faithful, ThreadData
  <2>2. CASE Twin(f)
    BY <1>7, <2>2 DEF Twin, Alike, SameShape, Faithful
  <2>3. CASE Changed(t, f)
    BY <1>7, <2>1, <2>3 DEF Changed
  <2>4. QED
    BY <1>1, <2>2, <2>3 DEF Calmly
<1>8. ASSUME NEW p \in Pages, status'[p] = "owned", disk'[p] = "stale"
      PROVE  \/ \E u \in Threads : loc'[u].op = "new" /\ loc'[u].page = p
             \/ \E f \in Frames : table'[p] = f /\ (IsDirty(f)' \/ Writers(f)' # {})
  <2>1. CASE \E u \in Threads : loc[u].op = "new" /\ loc[u].page = p
    <3>1. PICK u \in Threads : loc[u].op = "new" /\ loc[u].page = p
      BY <2>1
    <3>2. p # None
      BY NoneAssumption, PagesAssumption
    <3>3. loc'[u].op = "new" /\ loc'[u].page = p
      BY <1>1, <3>1, <3>2 DEF Calmly, Stays, Moves
    <3>4. QED
      BY <3>3
  <2>2. CASE table[p] # None /\ (IsDirty(table[p]) \/ Writers(table[p]) # {})
    <3>1. PICK f : f = table[p]
      OBVIOUS
    <3>2. f \in Frames
      BY <2>2, <3>1, NamesKnown
    <3>3. ~(Loose(t, f) /\ ~IsDirty(f))
      BY <2>2, <3>1, <3>2, WritersAreHome DEF Loose
    <3>4. table'[p] = f
      BY <1>2, <2>2, <3>1, <3>3 DEF Cleared
    <3>5. Twin(f)
      BY <1>1, <3>2, <3>3 DEF Calmly, Changed
    <3>6. IsDirty(f)' <=> IsDirty(f)
      BY <3>5 DEF Twin, Alike, IsDirty
    <3>7. Writers(f)' = Writers(f)
      BY <1>2 DEF Writers
    <3>8. QED
      BY <2>2, <3>1, <3>2, <3>4, <3>6, <3>7
  <2>3. QED
    BY <1>2, <1>8, <2>1, <2>2 DEF Faithful, PageData
<1>9. \A p \in Pages : PageData(p)'
  <2> SUFFICES ASSUME NEW p \in Pages, status'[p] = "owned", disk'[p] = "stale",
                      ~\E u \in Threads : loc'[u].op = "new" /\ loc'[u].page = p
               PROVE  (table[p] # None /\ (IsDirty(table[p]) \/ Writers(table[p]) # {}))'
    BY DEF PageData
  <2>1. PICK f \in Frames : table'[p] = f /\ (IsDirty(f)' \/ Writers(f)' # {})
    BY <1>8
  <2>2. f # None
    BY NoneAssumption DEF Frames
  <2>3. QED
    BY <2>1, <2>2 DEF IsDirty, Writers
<1>10. QED
  BY <1>3, <1>4, <1>5, <1>6, <1>7, <1>9 DEF Faithful

\* Two Resident frames do not hold the page of a guard.
LEMMA GuardedOnce ==
    ASSUME Structure, Settled, Faithful, NEW t \in Threads, NEW g \in guards[t], NEW f \in Frames,
           frame[f].state = "Resident", frame[f].page_id = g.page
    PROVE  f = g.frame
<1>1. table[g.page] = g.frame /\ g.page \in Pages /\ g.frame \in Frames
  BY NamesKnown DEF Settled, Held
<1> SUFFICES ASSUME f # g.frame PROVE FALSE
  OBVIOUS
<1>2. PICK u \in Threads : Role(at(u), loc[u]) = "insert" /\ loc[u].frame = f
  BY SMTT(30), <1>1 DEF Structure, Home, Plays
<1>3. at(u) = "insert"
  BY <1>2 DEF Role
<1>4. loc[u].op = "new" /\ loc[u].page = g.page
  BY <1>2, <1>3 DEF Structure, CallOK, PinnedOK, PinsFrameAt
<1>5. table[g.page] = None
  BY <1>3, <1>4 DEF Faithful, Making
<1>6. QED
  BY <1>1, <1>5, NamesKnown

\* The page a flush is about to mark, and the page of a guard being dropped.
LEMMA FlushedPage ==
    ASSUME Structure, NEW u \in Threads
    PROVE  /\ at(u) = "mark" => /\ loc[u].victim \in Frames /\ loc[u].peeked \in Pages
                                /\ u \in PinsOf(loc[u].victim)
                                /\ frame[loc[u].victim].page_id = loc[u].peeked
                                /\ frame[loc[u].victim].state = "Resident"
           /\ at(u) = "unlatch" => \E g \in guards[u] : g.frame = loc[u].frame /\ g.page = loc[u].page
<1>1. CallOK(at(u), loc[u]) /\ PinnedOK(u) /\ GuardsOK(u)
  BY DEF Structure
<1>2. QED
  BY <1>1 DEF CallOK, PinnedOK, GuardsOK, PinsVictimAt, PinsOf, PinnedBy

\* A flush writes the last bytes of its page.
LEMMA WriteFaithful ==
    ASSUME Structure, Settled, Faithful, NEW t \in Threads, FlushWrite(t)
    PROVE  Faithful'
<1>1. /\ UNCHANGED <<frame, table, status, guards, loc, phase>> /\ Goto(t, "mark") /\ at(t) = "write"
      /\ CallOK(at(t), loc[t]) /\ PinnedOK(t)
  BY DEF FlushWrite, pool, owner, at, Awake, Structure
<1>2. PICK f, p : f = loc[t].victim /\ p = loc[t].peeked
  OBVIOUS
<1>3. f \in Frames /\ p \in Pages /\ frame[f].state = "Resident"
  BY <1>1, <1>2 DEF CallOK, PinnedOK, PinsVictimAt
<1>4. frame[f].data = "latest" /\ disk \in [Pages -> Content]
  BY <1>3 DEF Faithful, Structure, TypeOK
<1>5. disk'[p] = "latest" /\ \A q \in Pages \ {p} : disk'[q] = disk[q]
  BY <1>2, <1>3, <1>4 DEF FlushWrite
<1>6. Moves(t, "mark", loc[t])
  BY <1>1, Went DEF Awake
<1>7. Onward(t, loc[t])
  BY DEF Onward
<1>8. \A u \in Threads : loc[u].op \in Fetches => loc[u].page \in Pages
  BY DEF Structure, CallOK
<1>9. \A u \in Threads : Fetching(u)'
  BY <1>1, <1>5, <1>6, <1>7, <1>8, FetchingKept DEF Faithful, Fetching
<1>10. \A u \in Threads : Making(u)'
  BY <1>1, <1>6, <1>7, MakingKept DEF Faithful, Making
<1>11. ASSUME NEW u \in Threads PROVE ThreadData(u)'
  <2>1. u # t => at(u)' = at(u)
    BY <1>6 DEF Moves
  <2>2. at(t)' = "mark"
    BY <1>6 DEF Moves
  <2>3. at(u) = "unlatch" => loc[u].page \in Pages
    BY FlushedPage, NamesKnown
  <2>4. ThreadData(u)
    BY DEF Faithful
  <2>5. QED
    BY <1>1, <1>2, <1>5, <2>1, <2>2, <2>3, <2>4, FlushedPage DEF ThreadData, IsDirty
<1>12. \A q \in Pages : PageData(q)'
  BY <1>1, <1>5 DEF Faithful, PageData, IsDirty, Writers
<1>13. QED
  BY <1>1, <1>9, <1>10, <1>11, <1>12 DEF Faithful

\* A frame is marked clean up to the sample: a frame the disk is behind stays dirty.
LEMMA MarkFaithful ==
    ASSUME Structure, Settled, Faithful, NEW t \in Threads, FlushMark(t)
    PROVE  Faithful'
<1>1. /\ loc[t] \in CallType /\ frame \in [Frames -> FrameType] /\ CallOK(at(t), loc[t])
      /\ UNCHANGED <<table, status, disk, guards, phase>> /\ at(t) = "mark"
  BY DEF FlushMark, storage, owner, at, Awake, Structure, TypeOK
<1>2. PICK f, p, e : f = loc[t].victim /\ p = loc[t].peeked /\ e = loc[t].epoch
  OBVIOUS
<1> DEFINE l == [loc[t] EXCEPT !.epoch = 0]
           n == IF frame[f].flushed_epoch < e THEN e ELSE frame[f].flushed_epoch
<1>3. frame' = [frame EXCEPT ![f].flushed_epoch = n] /\ Local(t, l)
  BY <1>2 DEF FlushMark
<1>4. l.op = loc[t].op /\ l.page = loc[t].page
  BY <1>1 DEF CallType
<1>5. PICK label \in {"recheck", "unpin", "next"} : Goto(t, label)
  BY DEF FlushMark, FlushReturns
<1>6. f \in Frames /\ p \in Pages /\ frame[f].page_id = p /\ frame[f] \in FrameType /\ e \in Nat
  BY <1>1, <1>2, FlushedPage DEF CallType
<1>7. disk[p] = "stale" /\ frame[f].dirty_epoch > frame[f].flushed_epoch => frame[f].dirty_epoch > n
  BY <1>1, <1>2, <1>6 DEF Faithful, ThreadData, FrameType
<1> HIDE DEF l, n
<1>8. Moves(t, label, l) /\ Onward(t, l)
  BY <1>3, <1>4, <1>5, Went DEF Onward, Awake
<1>9. frame'[f] = [frame[f] EXCEPT !.flushed_epoch = n] /\ \A x \in Frames \ {f} : frame'[x] = frame[x]
  BY <1>1, <1>3, <1>6
<1>10. /\ frame'[f].state = frame[f].state /\ frame'[f].data = frame[f].data
       /\ frame'[f].dirty_epoch = frame[f].dirty_epoch /\ frame'[f].flushed_epoch = n
  BY <1>6, <1>9 DEF FrameType
<1>11. \A x \in Frames : /\ frame'[x].state = frame[x].state /\ frame'[x].data = frame[x].data
                         /\ frame'[x].dirty_epoch = frame[x].dirty_epoch
                         /\ x # f => frame'[x].flushed_epoch = frame[x].flushed_epoch
  BY <1>9, <1>10
<1>12. ASSUME NEW x \in Frames, disk[frame[x].page_id] = "stale", IsDirty(x) PROVE IsDirty(x)'
  BY <1>6, <1>7, <1>10, <1>11, <1>12 DEF IsDirty
<1>13. \A u \in Threads : Fetching(u)'
  BY <1>1, <1>8, FetchingKept DEF Faithful, Fetching
<1>14. \A u \in Threads : Making(u)'
  BY <1>1, <1>8, MakingKept DEF Faithful, Making
<1>15. ASSUME NEW u \in Threads PROVE ThreadData(u)'
  <2>1. CASE u = t
    <3>1. at(t)' = label
      BY <1>8 DEF Moves
    <3>2. QED
      BY <2>1, <3>1 DEF ThreadData
  <2>2. CASE u # t
    <3>1. at(u)' = at(u) /\ loc'[u] = loc[u] /\ ThreadData(u)
      BY <1>8, <2>2 DEF Moves, Faithful
    <3>2. at(u) = "loaded" => loc[u].frame \in Frames
      BY NamesKnown DEF PinsFrameAt
    <3>3. at(u) = "unlatch" => loc[u].frame \in Frames /\ frame[loc[u].frame].page_id = loc[u].page
      BY FlushedPage, NamesKnown DEF Structure, PinnedOK
    <3>4. at(u) = "mark" => loc[u].victim \in Frames
      BY FlushedPage
    <3>5. at(u) = "unlatch" /\ disk[loc[u].page] = "stale" => IsDirty(loc[u].frame)'
      BY <1>12, <3>1, <3>3 DEF ThreadData
    <3>6. (at(u) = "unlatch" /\ disk[loc[u].page] = "stale" => IsDirty(loc[u].frame))'
      BY <1>1, <3>1, <3>5 DEF IsDirty
    <3>7. QED
      BY <1>1, <1>11, <3>1, <3>2, <3>4, <3>6 DEF ThreadData
  <2>3. QED
    BY <2>1, <2>2
<1>16. ASSUME NEW q \in Pages PROVE PageData(q)'
  <2>1. table[q] # None => table[q] \in Frames /\ frame[table[q]].page_id = q
    BY NamesKnown DEF Structure, MappedOK
  <2>2. disk[q] = "stale" /\ table[q] # None /\ IsDirty(table[q]) => IsDirty(table[q])'
    BY <1>1, <1>12, <2>1 DEF IsDirty
  <2>3. Writers(table[q])' = Writers(table[q])
    BY <1>1 DEF Writers
  <2>4. \A u \in Threads : loc'[u].op = loc[u].op /\ loc'[u].page = loc[u].page
    BY <1>4, <1>8 DEF Moves
  <2>5. PageData(q)
    BY DEF Faithful
  <2>6. QED
    BY <1>1, <2>2, <2>3, <2>4, <2>5 DEF PageData
<1>17. QED
  BY <1>1, <1>11, <1>13, <1>14, <1>15, <1>16 DEF Faithful

\* DeletePage takes a frame nobody pins, of a page nobody fetches.
LEMMA VacateFaithful ==
    ASSUME Structure, Counting, Settled, Faithful, NEW t \in Threads, Vacate(t)
    PROVE  Faithful'
<1>1. /\ loc[t] \in CallType /\ CallOK(at(t), loc[t]) /\ disk \in [Pages -> Content]
      /\ frame \in [Frames -> FrameType] /\ table \in [Pages -> Frames \cup {None}]
      /\ UNCHANGED <<status, guards, phase>> /\ at(t) = "delete"
  BY DEF Vacate, owner, at, Awake, Structure, TypeOK
<1>2. PICK f, p : f = table[loc[t].page] /\ p = loc[t].page
  OBVIOUS
<1>3. p \in Pages /\ loc[t].op = "delete" /\ disk' = [disk EXCEPT ![p] = "dead"]
  BY <1>1, <1>2 DEF CallOK, Vacate
<1>4. disk'[p] = "dead" /\ \A q \in Pages \ {p} : disk'[q] = disk[q]
  BY <1>1, <1>3
<1>5. PICK a, l : /\ Moves(t, a, l) /\ l.op = "delete" /\ l.page = p
                  /\ a \in {"deallocate", "unevict"}
  <2>1. CASE f = None
    <3>1. Goto(t, "deallocate") /\ UNCHANGED loc
      BY <1>2, <2>1 DEF Vacate
    <3>2. Moves(t, "deallocate", loc[t])
      BY <3>1, Went DEF Awake
    <3>3. QED
      BY <1>2, <1>3, <3>2
  <2>2. CASE f # None
    <3> DEFINE l == [loc[t] EXCEPT !.frame = f]
    <3>1. Local(t, l) /\ Goto(t, "unevict")
      BY <1>2, <2>2 DEF Vacate
    <3>2. l.op = "delete" /\ l.page = p
      BY <1>1, <1>2, <1>3 DEF CallType
    <3> HIDE DEF l
    <3>3. Moves(t, "unevict", l)
      BY <3>1, Went DEF Awake
    <3>4. QED
      BY <3>2, <3>3
  <2>3. QED
    BY <2>1, <2>2
<1>6. /\ \A x \in Frames : frame'[x] = frame[x] \/ (x = f /\ PinsOf(f) = {} /\ GuardPins(f) = {} /\ frame'[f] = FreeFrame)
      /\ \A q \in Pages \ {p} : table'[q] = table[q]
      /\ table'[p] = None
  <2>1. CASE f = None
    BY <1>2, <2>1 DEF Vacate
  <2>2. CASE f # None
    <3>1. frame[f].pin_count = 0 /\ frame' = [frame EXCEPT ![f] = FreeFrame] /\ table' = [table EXCEPT ![p] = None]
      BY <1>2, <2>2 DEF Vacate
    <3>2. f \in Frames
      BY <1>2, <1>3, <2>2, NamesKnown
    <3>3. PinsOf(f) = {} /\ GuardPins(f) = {}
      BY <3>1, <3>2, Unpinned
    <3>4. QED
      BY <1>1, <1>3, <3>1, <3>2, <3>3
  <2>3. QED
    BY <2>1, <2>2
<1>7. Onward(t, l)
  BY <1>2, <1>3, <1>5 DEF Onward
<1>8. \A u \in Threads : loc[u].op \in Fetches => loc[u].page \in Pages \ {p}
  BY <1>2, <1>3 DEF Structure, CallOK, Faithful, Fetching
<1>9. \A u \in Threads : Fetching(u)'
  BY <1>1, <1>4, <1>5, <1>7, <1>8, FetchingKept DEF Faithful, Fetching
<1>10. \A u \in Threads : Making(u)'
  <2>1. ASSUME NEW u \in Threads, loc[u].op = "new", at(u) \in {"stamp", "insert"} PROVE table'[loc[u].page] = None
    <3>1. loc[u].page \in Pages /\ table[loc[u].page] = None
      BY <2>1 DEF Structure, CallOK, Faithful, Making
    <3>2. QED
      BY <1>6, <3>1
  <2>2. QED
    BY <1>5, <1>7, <2>1, MakingKept
<1>11. ASSUME NEW u \in Threads PROVE ThreadData(u)'
  <2>1. CASE u = t
    <3>1. at(t)' = a
      BY <1>5 DEF Moves
    <3>2. QED
      BY <1>5, <2>1, <3>1 DEF ThreadData
  <2>2. CASE u # t
    <3>1. at(u)' = at(u) /\ loc'[u] = loc[u] /\ ThreadData(u)
      BY <1>5, <2>2 DEF Moves, Faithful
    <3>2. at(u) = "loaded" => frame'[loc[u].frame] = frame[loc[u].frame]
      BY <1>6, NamesKnown DEF PinsFrameAt, PinsOf, PinnedBy
    <3>3. at(u) = "mark" => frame'[loc[u].victim] = frame[loc[u].victim]
      BY <1>6, FlushedPage
    <3>4. at(u) = "unlatch" => frame'[loc[u].frame] = frame[loc[u].frame] /\ loc[u].page \in Pages
      BY SMTT(30), <1>6, FlushedPage, NamesKnown DEF GuardPins
    <3>5. at(u) = "mark" => loc[u].peeked \in Pages
      BY FlushedPage
    <3>6. QED
      BY <1>4, <3>1, <3>2, <3>3, <3>4, <3>5 DEF ThreadData, IsDirty
  <2>3. QED
    BY <2>1, <2>2
<1>12. \A x \in Frames : frame'[x].state = "Resident" => frame'[x].data = "latest"
  BY <1>6 DEF Faithful, FreeFrame
<1>13. ASSUME NEW q \in Pages PROVE PageData(q)'
  <2>1. CASE q = p
    BY <1>4, <2>1 DEF PageData
  <2>2. CASE q # p
    <3>1. table[q] # None => table[q] \in Frames /\ table[q] # f
      BY <1>2, <1>3, <2>2, NamesKnown DEF Structure, MappedOK
    <3>2. table[q] # None => frame'[table[q]] = frame[table[q]]
      BY <1>6, <3>1
    <3>3. Writers(table[q])' = Writers(table[q]) /\ table'[q] = table[q] /\ disk'[q] = disk[q]
      BY <1>1, <1>4, <1>6, <2>2 DEF Writers
    <3>4. \A u \in Threads : loc[u].op = "new" => loc'[u].op = "new" /\ loc'[u].page = loc[u].page
      BY <1>3, <1>5 DEF Moves
    <3>5. PageData(q)
      BY DEF Faithful
    <3>6. QED
      BY <1>1, <3>2, <3>3, <3>4, <3>5 DEF PageData, IsDirty
  <2>3. QED
    BY <2>1, <2>2
<1>14. QED
  BY <1>1, <1>9, <1>10, <1>11, <1>12, <1>13 DEF Faithful

\* A guard is taken or let go of, with every frame and page as it was.
LEMMA LatchFaithful ==
    ASSUME Structure, Settled, Faithful, NEW t \in Threads, NEW label \in {"idle", "unpin"}, NEW l,
           Goto(t, label), Local(t, l) \/ (UNCHANGED loc /\ l = loc[t]),
           UNCHANGED <<frame, table, status, disk, phase>>, Onward(t, l),
           \A q \in Pages : disk[q] = "stale" /\ table[q] # None /\ Writers(table[q]) # {} =>
                                IsDirty(table[q]) \/ Writers(table[q])' # {},
           loc[t].op = "new" /\ loc[t].page \in Pages =>
               l.op = "new" \/ \E f \in Frames : table[loc[t].page] = f /\ Writers(f)' # {}
    PROVE  Faithful'
<1>1. Moves(t, label, l)
  BY Went DEF Awake
<1>2. \A u \in Threads : Fetching(u)'
  BY <1>1, FetchingKept DEF Faithful, Fetching
<1>3. \A u \in Threads : Making(u)'
  BY <1>1, MakingKept DEF Faithful, Making
<1>4. ASSUME NEW u \in Threads PROVE ThreadData(u)'
  <2>1. at(t)' = label /\ (u # t => at(u)' = at(u) /\ loc'[u] = loc[u])
    BY <1>1 DEF Moves
  <2>2. ThreadData(u)
    BY DEF Faithful
  <2>3. QED
    BY <2>1, <2>2 DEF ThreadData, IsDirty
<1>5. ASSUME NEW q \in Pages, status[q] = "owned", disk[q] = "stale"
      PROVE  \/ \E u \in Threads : loc'[u].op = "new" /\ loc'[u].page = q
             \/ table[q] # None /\ (IsDirty(table[q]) \/ Writers(table[q])' # {})
  <2>1. CASE \E u \in Threads : loc[u].op = "new" /\ loc[u].page = q
    <3>1. PICK u \in Threads : loc[u].op = "new" /\ loc[u].page = q
      BY <2>1
    <3>2. CASE u # t \/ l.op = "new"
      BY <1>1, <3>1, <3>2 DEF Moves, Onward
    <3>3. CASE u = t /\ l.op # "new"
      <4>1. PICK f \in Frames : table[q] = f /\ Writers(f)' # {}
        BY <3>1, <3>3
      <4>2. f # None
        BY NamesKnown
      <4>3. QED
        BY <4>1, <4>2 DEF Writers
    <3>4. QED
      BY <3>2, <3>3
  <2>2. CASE table[q] # None /\ (IsDirty(table[q]) \/ Writers(table[q]) # {})
    BY <1>5, <2>2
  <2>3. QED
    BY <1>5, <2>1, <2>2 DEF Faithful, PageData
<1>6. \A q \in Pages : PageData(q)'
  BY <1>5 DEF PageData, IsDirty, Writers
<1>7. QED
  BY <1>2, <1>3, <1>4, <1>6 DEF Faithful

\* The new guard of a page that was being made is a writer's; the guard of a writer
\* is let go of once its frame is dirty.
LEMMA GuardsFaithful ==
    ASSUME Structure, Settled, Faithful, NEW t \in Threads, Latch(t) \/ Unlatch(t) \/ \E g \in guards[t] : DropRead(t, g)
    PROVE  Faithful'
<1>1. /\ loc[t] \in CallType /\ CallOK(at(t), loc[t]) /\ Held(t) /\ guards \in [Threads -> SUBSET GuardType]
      /\ GuardsOK(t) /\ PinnedOK(t) /\ ThreadData(t)
  BY DEF Structure, TypeOK, Settled, Faithful
<1>2. CASE Latch(t)
  <2>1. PICK f, p, m : f = loc[t].frame /\ p = loc[t].page /\ m = IF loc[t].op = "read" THEN "read" ELSE "write"
    OBVIOUS
  <2>2. /\ guards' = [guards EXCEPT ![t] = guards[t] \cup {[page |-> p, frame |-> f, mode |-> m]}]
        /\ Goto(t, "idle") /\ Local(t, NoCall) /\ UNCHANGED <<frame, table, status, disk, phase>> /\ at(t) = "latch"
    BY <1>2, <2>1 DEF Latch, Return, pool, storage, owner, at, Awake
  <2>3. /\ \A u \in Threads : guards[u] \subseteq guards'[u]
        /\ [page |-> p, frame |-> f, mode |-> m] \in guards'[t]
    BY <1>1, <2>2
  <2>4. table[p] = f /\ f \in Frames /\ f # None
    BY <1>1, <2>1, <2>2, NamesKnown DEF Held, CallOK, PinsFrameAt
  <2>5. loc[t].op = "new" => t \in Writers(f)'
    BY <2>1, <2>3 DEF Writers
  <2>6. \A x : Writers(x) \subseteq Writers(x)'
    BY <2>3 DEF Writers
  <2>7. Onward(t, NoCall)
    BY DEF Onward, NoCall, Fetches
  <2>8. \A q \in Pages : Writers(table[q])' = {} => Writers(table[q]) = {}
    BY SMTT(30), <2>2, <2>6 DEF Writers
  <2>9. loc[t].op = "new" => \E x \in Frames : table[loc[t].page] = x /\ Writers(x)' # {}
    BY <2>1, <2>4, <2>5
  <2>10. QED
    BY <2>2, <2>7, <2>8, <2>9, LatchFaithful
<1>3. CASE Unlatch(t)
  <2>1. /\ Goto(t, "unpin") /\ UNCHANGED <<frame, table, status, disk, loc, phase>> /\ at(t) = "unlatch"
        /\ guards' = [guards EXCEPT ![t] = {g \in guards[t] : g.frame # loc[t].frame}]
    BY <1>3 DEF Unlatch, pool, storage, owner, at, Awake
  <2>2. PICK f, p : f = loc[t].frame /\ p = loc[t].page
    OBVIOUS
  <2>3. PICK g \in guards[t] : g.frame = f /\ g.page = p
    BY <1>1, <2>1, <2>2 DEF GuardsOK
  <2>4. frame[f].page_id = p
    BY <1>1, <2>3 DEF PinnedOK
  <2>5. \A x : x # f => Writers(x) \subseteq Writers(x)'
    <3>1. \A u \in Threads : \A h \in guards[u] : h.frame # f => h \in guards'[u]
      BY <1>1, <2>1, <2>2
    <3>2. QED
      BY <3>1 DEF Writers
  <2>6. ASSUME NEW q \in Pages, disk[q] = "stale", table[q] # None, Writers(table[q]) # {}
        PROVE  IsDirty(table[q]) \/ Writers(table[q])' # {}
    <3>1. CASE table[q] = f
      <4>1. q = p
        BY <2>4, <2>6, <3>1 DEF Structure, MappedOK
      <4>2. QED
        BY <1>1, <2>1, <2>2, <2>6, <3>1, <4>1 DEF ThreadData
    <3>2. CASE table[q] # f
      BY SMTT(30), <2>1, <2>5, <2>6, <3>2 DEF Writers
    <3>3. QED
      BY <3>1, <3>2
  <2>7. Onward(t, loc[t])
    BY DEF Onward
  <2>8. QED
    BY <2>1, <2>6, <2>7, LatchFaithful
<1>4. ASSUME NEW g \in guards[t], DropRead(t, g) PROVE Faithful'
  <2> DEFINE l == [NoCall EXCEPT !.op = "drop", !.page = g.page, !.frame = g.frame]
  <2>1. /\ Goto(t, "unpin") /\ UNCHANGED <<frame, table, status, disk, phase>> /\ at(t) = "idle" /\ Local(t, l)
        /\ guards' = [guards EXCEPT ![t] = guards[t] \ {g}] /\ g.mode = "read"
    BY <1>4 DEF DropRead, pool, storage, owner, at, Awake
  <2>2. Onward(t, l)
    BY DEF Onward, NoCall, Fetches
  <2>3. loc[t].op # "new"
    BY SMTT(30), <1>1, <2>1 DEF CallOK, NoCall
  <2> HIDE DEF l
  <2>4. \A u \in Threads : \A h \in guards[u] : h.mode = "write" => h \in guards'[u]
    BY <1>1, <2>1
  <2>5. \A q \in Pages : Writers(table[q])' = {} => Writers(table[q]) = {}
    BY <2>1, <2>4 DEF Writers
  <2>6. QED
    BY <2>1, <2>2, <2>3, <2>5, LatchFaithful
<1>5. QED
  BY <1>2, <1>3, <1>4

\* A writer is done: its frame is dirty, and holds the only copy of the last bytes.
LEMMA DropFaithful ==
    ASSUME Structure, Settled, Faithful, NEW t \in Threads, NEW g \in guards[t], DropWrite(t, g)
    PROVE  Faithful'
<1>1. PICK b, p : b = g.frame /\ p = g.page
  OBVIOUS
<1> DEFINE l == [NoCall EXCEPT !.op = "drop", !.page = p, !.frame = b]
<1>2. /\ Goto(t, "unlatch") /\ UNCHANGED <<table, status, guards, phase>> /\ Local(t, l) /\ at(t) = "idle"
      /\ disk' = [disk EXCEPT ![p] = IF disk[p] = "latest" THEN "stale" ELSE disk[p]]
  BY <1>1 DEF DropWrite, owner, at, Awake
<1>3. Onward(t, l) /\ l.page = p /\ l.frame = b
  BY DEF Onward, NoCall, Fetches
<1> HIDE DEF l
<1>4. Moves(t, "unlatch", l)
  BY <1>2, Went DEF Awake
<1>5. b \in Frames /\ p \in Pages /\ table[p] = b /\ frame[b].state = "Resident" /\ frame[b].page_id = p
  BY <1>1, NamesKnown DEF Settled, Held, Structure, PinnedOK
<1>6. (\A q \in Pages \ {p} : disk'[q] = disk[q]) /\ (disk'[p] = "dead" => disk[p] = "dead")
  BY <1>2, <1>5 DEF Structure, TypeOK
<1>7. ASSUME NEW f \in Frames
      PROVE  /\ frame'[f].state = frame[f].state /\ frame'[f].flushed_epoch = frame[f].flushed_epoch
             /\ frame'[f].dirty_epoch = IF f = b THEN frame[f].dirty_epoch + 1 ELSE frame[f].dirty_epoch
             /\ frame'[f].data = IF f = b THEN "latest"
                                 ELSE IF frame[f].page_id = p /\ frame[f].data = "latest" THEN "stale" ELSE frame[f].data
  <2>1. /\ frame'[f] = IF f = b
                       THEN [frame[f] EXCEPT !.dirty_epoch = frame[f].dirty_epoch + 1, !.data = "latest"]
                       ELSE IF frame[f].page_id = p /\ frame[f].data = "latest"
                       THEN [frame[f] EXCEPT !.data = "stale"] ELSE frame[f]
        /\ frame[f] \in FrameType
    BY <1>1 DEF DropWrite, Structure, TypeOK
  <2>2. QED
    BY <2>1 DEF FrameType
<1>8. ASSUME NEW f \in Frames, IsDirty(f) \/ f = b PROVE IsDirty(f)'
  <2>1. frame[f].dirty_epoch \in Nat /\ frame[f].flushed_epoch \in Nat /\ frame[f].flushed_epoch <= frame[f].dirty_epoch
    BY DEF Structure, TypeOK, FrameType, Settled, LiveOK
  <2>2. QED
    BY <1>7, <1>8, <2>1 DEF IsDirty
<1>9. \A u \in Threads : Fetching(u)'
  <2>1. \A u \in Threads : loc[u].op \in Fetches => loc[u].page \in Pages
    BY DEF Structure, CallOK
  <2>2. QED
    BY <1>2, <1>3, <1>4, <1>6, <2>1, FetchingKept DEF Faithful, Fetching
<1>10. \A u \in Threads : Making(u)'
  BY <1>2, <1>3, <1>4, MakingKept DEF Faithful, Making
<1>11. ASSUME NEW u \in Threads PROVE ThreadData(u)'
  <2>1. CASE u = t
    <3>1. at(t)' = "unlatch" /\ loc'[t] = l
      BY <1>4 DEF Moves
    <3>2. IsDirty(b)'
      BY <1>5, <1>8
    <3>3. QED
      BY <1>3, <2>1, <3>1, <3>2 DEF ThreadData, IsDirty
  <2>2. CASE u # t
    <3>1. at(u)' = at(u) /\ loc'[u] = loc[u] /\ ThreadData(u)
      BY <1>4, <2>2 DEF Moves, Faithful
    <3>2. ASSUME at(u) = "loaded" PROVE frame'[loc[u].frame].data = "latest"
      <4>1. /\ loc[u].frame \in Frames /\ table[loc[u].page] = loc[u].frame
            /\ frame[loc[u].frame].page_id = loc[u].page /\ frame[loc[u].frame].state = "Loading"
        BY <3>2 DEF Structure, OwnerOK, PinnedOK, CallOK, PinsFrameAt, StatesAt, LoadAt
      <4>2. QED
        BY <1>5, <1>7, <3>1, <3>2, <4>1 DEF ThreadData
    <3>3. ASSUME at(u) = "mark", disk'[loc[u].peeked] = "stale" PROVE loc[u].epoch < frame'[loc[u].victim].dirty_epoch
      <4>1. PICK v, q : v = loc[u].victim /\ q = loc[u].peeked
        OBVIOUS
      <4>2. v \in Frames /\ q \in Pages /\ frame[v].page_id = q /\ frame[v].state = "Resident"
        BY <3>3, <4>1, FlushedPage
      <4>3. loc[u].epoch <= frame[v].dirty_epoch /\ loc[u].epoch \in Nat /\ frame[v].dirty_epoch \in Nat
        BY <3>3, <4>1, <4>2 DEF Settled, SampleOK, Structure, TypeOK, FrameType, CallType
      <4>4. CASE q = p
        <5>1. v = b
          BY <1>1, <4>2, <4>4, GuardedOnce
        <5>2. QED
          BY SMTT(30), <1>7, <4>1, <4>2, <4>3, <5>1
      <4>5. CASE q # p
        <5>1. v # b /\ disk[q] = "stale"
          BY <1>5, <1>6, <3>3, <4>1, <4>2, <4>5
        <5>2. QED
          BY <1>7, <3>1, <3>3, <4>1, <4>2, <5>1 DEF ThreadData
      <4>6. QED
        BY <4>4, <4>5
    <3>4. ASSUME at(u) = "unlatch", disk'[loc[u].page] = "stale"
          PROVE  loc[u].frame \in Frames /\ (IsDirty(loc[u].frame) \/ loc[u].frame = b)
      <4>1. PICK h \in guards[u] : h.frame = loc[u].frame /\ h.page = loc[u].page
        BY <3>4, FlushedPage
      <4>2. h.frame \in Frames /\ h.page \in Pages /\ table[h.page] = h.frame
        BY NamesKnown DEF Settled, Held
      <4>3. QED
        BY <1>5, <1>6, <3>1, <3>4, <4>1, <4>2 DEF ThreadData
    <3>5. (at(u) = "unlatch" /\ disk[loc[u].page] = "stale" => IsDirty(loc[u].frame))'
      BY <1>8, <3>1, <3>4 DEF IsDirty
    <3>6. QED
      BY <3>1, <3>2, <3>3, <3>5 DEF ThreadData
  <2>3. QED
    BY <2>1, <2>2
<1>12. ASSUME NEW f \in Frames, frame'[f].state = "Resident" PROVE frame'[f].data = "latest"
  <2>1. frame[f].state = "Resident" /\ frame[f].data = "latest"
    BY <1>7, <1>12 DEF Faithful
  <2>2. frame[f].page_id = p => f = b
    BY <1>1, <2>1, GuardedOnce
  <2>3. QED
    BY <1>7, <2>1, <2>2
<1>13. ASSUME NEW q \in Pages PROVE PageData(q)'
  <2>1. table[q] # None => table[q] \in Frames
    BY NamesKnown
  <2>2. table[q] # None /\ (IsDirty(table[q]) \/ table[q] = b) => IsDirty(table[q])'
    BY <1>2, <1>8, <2>1 DEF IsDirty
  <2>3. Writers(table[q])' = Writers(table[q])
    BY <1>2 DEF Writers
  <2>4. \A u \in Threads : loc[u].op = "new" => loc'[u].op = "new" /\ loc'[u].page = loc[u].page
    <3>1. CallOK(at(t), loc[t])
      BY DEF Structure
    <3>2. loc[t].op # "new"
      BY <1>2, <3>1 DEF CallOK, NoCall
    <3>3. QED
      BY <1>4, <3>2 DEF Moves
  <2>5. PageData(q) /\ b # None
    BY <1>5, NamesKnown DEF Faithful
  <2>6. CASE q = p
    BY <1>2, <1>5, <2>2, <2>5, <2>6 DEF PageData
  <2>7. CASE q # p
    BY <1>2, <1>6, <2>2, <2>3, <2>4, <2>5, <2>7 DEF PageData
  <2>8. QED
    BY <2>6, <2>7
<1>14. QED
  BY <1>2, <1>9, <1>10, <1>11, <1>12, <1>13 DEF Faithful

\* A page that has no owner is not mapped, and no thread fetches, makes, flushes or guards it.
LEMMA Unclaimed ==
    ASSUME Structure, Settled, Faithful, NEW p \in Pages, status[p] # "owned"
    PROVE  /\ table[p] = None
           /\ \A u \in Threads : /\ loc[u].op \in Fetches \cup {"new"} => loc[u].page # p
                                 /\ at(u) = "mark" => loc[u].peeked # p
                                 /\ at(u) = "unlatch" => loc[u].page # p
<1>1. ASSUME NEW f \in Frames, frame[f].state = "Resident" PROVE frame[f].page_id # p
  BY <1>1 DEF Settled, LiveOK
<1>2. \A u \in Threads : loc[u].op \in Fetches \cup {"new"} => loc[u].page # p
  <2>1. p # None
    BY NoneAssumption, PagesAssumption
  <2>2. QED
    BY <2>1 DEF Faithful, Fetching, Settled, OwnedOK
<1>3. table[p] = None
  <2> SUFFICES ASSUME table[p] # None PROVE FALSE
    OBVIOUS
  <2>1. PICK f \in Frames : f = table[p]
    BY NamesKnown
  <2>2. frame[f].page_id = p /\ frame[f].state = "Loading"
    BY <1>1, <2>1 DEF Structure, MappedOK
  <2>3. PICK u \in Threads : Role(at(u), loc[u]) = "load" /\ loc[u].frame = f
    BY <2>2 DEF Structure, Home, Plays
  <2>4. at(u) \in LoadAt
    BY <2>3 DEF Role
  <2>5. loc[u].op \in Fetches /\ loc[u].page = p
    BY <2>2, <2>3, <2>4 DEF Structure, CallOK, PinnedOK, LoadAt, FetchAt, PinsFrameAt
  <2>6. QED
    BY <1>2, <2>5
<1>4. ASSUME NEW u \in Threads PROVE (at(u) = "mark" => loc[u].peeked # p) /\ (at(u) = "unlatch" => loc[u].page # p)
  <2>1. PinnedOK(u) /\ \A g \in guards[u] : g.frame \in Frames
    BY NamesKnown DEF Structure
  <2>2. at(u) = "unlatch" => \E g \in guards[u] : g.page = loc[u].page
    BY FlushedPage
  <2>3. at(u) = "unlatch" => \E f \in Frames : frame[f].state = "Resident" /\ frame[f].page_id = loc[u].page
    BY <2>1, <2>2 DEF PinnedOK
  <2>4. QED
    BY <1>1, <2>3, FlushedPage
<1>5. QED
  BY <1>2, <1>3, <1>4

\* AllocatePage gives out a page that nobody has.
LEMMA AllocateFaithful ==
    ASSUME Structure, Settled, Faithful, NEW t \in Threads, NEW p \in Pages, Allocate(t, p)
    PROVE  Faithful'
<1> DEFINE l == [loc[t] EXCEPT !.page = p]
<1>1. /\ loc[t] \in CallType /\ CallOK(at(t), loc[t]) /\ at(t) = "allocate" /\ status \in [Pages -> Disk!Status]
      /\ UNCHANGED <<frame, table, guards, phase>> /\ disk \in [Pages -> Content]
  BY DEF Allocate, pool, owner, at, Awake, Structure, TypeOK
<1>2. /\ status[p] # "owned" /\ status' = [status EXCEPT ![p] = "owned"] /\ disk' = [disk EXCEPT ![p] = "stale"]
      /\ Local(t, l) /\ Goto(t, "stamp")
  BY DEF Allocate, Disk!Take
<1>3. loc[t].op = "new" /\ loc[t].page = None /\ l.op = "new" /\ l.page = p
  BY <1>1 DEF CallOK, CallType
<1> HIDE DEF l
<1>4. Moves(t, "stamp", l)
  BY <1>2, Went DEF Awake
<1>5. status'[p] = "owned" /\ \A q \in Pages \ {p} : status'[q] = status[q] /\ disk'[q] = disk[q]
  BY <1>1, <1>2
<1>6. /\ table[p] = None
      /\ \A u \in Threads : /\ loc[u].op \in Fetches \cup {"new"} => loc[u].page # p
                            /\ at(u) = "mark" => loc[u].peeked # p
                            /\ at(u) = "unlatch" => loc[u].page # p
  BY <1>2, Unclaimed
<1>7. ASSUME NEW u \in Threads PROVE Fetching(u)'
  <2>1. loc'[u].op \in Fetches => u # t /\ loc'[u] = loc[u] /\ loc[u].page \in Pages \ {p}
    BY <1>3, <1>4, <1>6 DEF Moves, Fetches, Structure, CallOK
  <2>2. Fetching(u)
    BY DEF Faithful
  <2>3. \A v \in Threads : v # t => loc'[v] = loc[v]
    BY <1>4 DEF Moves
  <2>4. loc'[t] = l
    BY <1>4 DEF Moves
  <2>5. QED
    BY <1>3, <1>5, <2>1, <2>2, <2>3, <2>4 DEF Fetching
<1>8. ASSUME NEW u \in Threads PROVE Making(u)'
  <2>1. \A v \in Threads : at(v)' = (IF v = t THEN "stamp" ELSE at(v)) /\ loc'[v] = IF v = t THEN l ELSE loc[v]
    BY <1>4 DEF Moves
  <2>2. Making(u)
    BY DEF Faithful
  <2>3. \A v \in Threads : loc[v].op = "new" => loc[v].page # p
    BY <1>6
  <2>4. QED
    BY <1>1, <1>3, <1>6, <2>1, <2>2, <2>3 DEF Making
<1>9. ASSUME NEW u \in Threads PROVE ThreadData(u)'
  <2>1. at(t)' = "stamp" /\ (u # t => at(u)' = at(u) /\ loc'[u] = loc[u]) /\ ThreadData(u)
    BY <1>4 DEF Moves, Faithful
  <2>2. at(u) = "mark" => loc[u].peeked \in Pages \ {p}
    BY <1>6, FlushedPage
  <2>3. at(u) = "unlatch" => loc[u].page \in Pages \ {p}
    BY <1>6, FlushedPage, NamesKnown
  <2>4. QED
    BY <1>1, <1>5, <2>1, <2>2, <2>3 DEF ThreadData, IsDirty
<1>10. ASSUME NEW q \in Pages PROVE PageData(q)'
  <2>1. CASE q = p
    <3>1. loc'[t].op = "new" /\ loc'[t].page = p
      BY <1>3, <1>4 DEF Moves
    <3>2. QED
      BY <2>1, <3>1 DEF PageData
  <2>2. CASE q # p
    <3>1. PageData(q) /\ q # None
      BY NoneAssumption, PagesAssumption DEF Faithful
    <3>2. \A u \in Threads : loc[u].op = "new" /\ loc[u].page = q => loc'[u] = loc[u]
      BY <1>3, <1>4, <3>1 DEF Moves
    <3>3. QED
      BY <1>1, <1>5, <2>2, <3>1, <3>2 DEF PageData, IsDirty, Writers
  <2>3. QED
    BY <2>1, <2>2
<1>11. QED
  BY <1>1, <1>7, <1>8, <1>9, <1>10 DEF Faithful

\* DeallocatePage gives up a page that nobody fetches.
LEMMA DeallocateFaithful ==
    ASSUME Structure, Settled, Faithful, NEW t \in Threads, Deallocate(t) \/ DeallocateList(t)
    PROVE  Faithful'
<1>1. PICK p : p = loc[t].page
  OBVIOUS
<1>2. PICK label, s :
         /\ label \in {"list", "giveback"} /\ Goto(t, label) /\ UNCHANGED <<frame, table, disk, loc, guards, phase>>
         /\ at(t) \in {"deallocate", "list"} /\ s # "owned" /\ status' = [status EXCEPT ![p] = s]
  BY <1>1 DEF Deallocate, DeallocateList, Disk!Release, Disk!List, pool, owner, at, Awake
<1>3. p \in Pages /\ loc[t].op = "delete"
  BY <1>1, <1>2 DEF Structure, CallOK, DeleteHolds
<1>4. status'[p] # "owned" /\ \A q \in Pages \ {p} : status'[q] = status[q]
  BY <1>2, <1>3 DEF Structure, TypeOK
<1>5. Moves(t, label, loc[t]) /\ Onward(t, loc[t])
  BY <1>2, Went DEF Awake, Onward
<1>6. \A u \in Threads : loc[u].op \in Fetches => loc[u].page \in Pages \ {p}
  BY <1>1, <1>3 DEF Structure, CallOK, Faithful, Fetching
<1>7. \A u \in Threads : Fetching(u)'
  BY <1>2, <1>4, <1>5, <1>6, FetchingKept DEF Faithful, Fetching
<1>8. \A u \in Threads : Making(u)'
  BY <1>2, <1>5, MakingKept DEF Faithful, Making
<1>9. ASSUME NEW u \in Threads PROVE ThreadData(u)'
  <2>1. at(t)' = label /\ (u # t => at(u)' = at(u)) /\ ThreadData(u)
    BY <1>5 DEF Moves, Faithful
  <2>2. QED
    BY <1>2, <2>1 DEF ThreadData, IsDirty
<1>10. \A q \in Pages : PageData(q)'
  BY <1>2, <1>4 DEF Faithful, PageData, IsDirty, Writers
<1>11. QED
  BY <1>2, <1>7, <1>8, <1>9, <1>10 DEF Faithful

\* A call starts: nobody deletes a page that others use, or asks for one that is
\* being made or deleted.
LEMMA StartFaithful ==
    ASSUME Structure, Faithful, ~Racy, NEW t \in Threads,
           \/ \E op \in Fetches, p \in Pages : StartFetch(t, op, p)
           \/ StartNew(t) \/ \E p \in Pages : StartDelete(t, p)
    PROVE  Faithful'
<1>1. /\ UNCHANGED <<frame, table, status, disk, guards, phase>> /\ loc[t] = NoCall
  <2>1. pc[t] = "idle" /\ UNCHANGED <<frame, table, status, disk, guards, phase>>
    BY DEF StartFetch, StartDelete, StartNew, Start, pool, storage, owner
  <2>2. QED
    BY <2>1 DEF at, Awake, Structure, CallOK
<1>2. PICK op, p, label :
         /\ Start(t, op, p, label)
         /\ \/ /\ op \in Fetches /\ p \in Pages /\ label = "lookup" /\ status[p] = "owned" /\ disk[p] # "dead"
               /\ \A u \in Threads : loc[u].page = p => loc[u].op \notin {"new", "delete"}
            \/ op = "new" /\ p = None /\ label = "acquire"
            \/ /\ op = "delete" /\ p \in Pages /\ label = "delete"
               /\ \A u \in Threads \ {t} : loc[u].page = p => loc[u].op = "flush"
  BY SMTT(30) DEF StartFetch, StartNew, StartDelete, Known, InUse
<1> DEFINE l == [NoCall EXCEPT !.op = op, !.page = p]
<1>3. l.op = op /\ l.page = p
  BY DEF NoCall
<1>4. Goto(t, label) /\ Local(t, l)
  BY <1>2 DEF Start
<1> HIDE DEF l
<1>5. Awake(label) = label /\ label \in {"lookup", "acquire", "delete"}
  BY <1>2 DEF Awake
<1>6. Moves(t, label, l)
  BY <1>4, <1>5, Went
<1>7. \A u \in Threads : at(u)' = (IF u = t THEN label ELSE at(u)) /\ loc'[u] = IF u = t THEN l ELSE loc[u]
  BY <1>6 DEF Moves
<1>8. ASSUME NEW u \in Threads PROVE Fetching(u)'
  <2>1. CASE u = t
    BY <1>1, <1>2, <1>3, <1>7, <2>1 DEF Fetching, Fetches
  <2>2. CASE u # t
    <3>1. Fetching(u) /\ (loc[u].op \in Fetches => loc[u].page \in Pages)
      BY DEF Faithful, Structure, CallOK
    <3>2. loc[u].op \in Fetches /\ op \in {"new", "delete"} => p # loc[u].page
      BY <1>2, <2>2, <3>1, NoneAssumption, PagesAssumption DEF Fetches
    <3>3. QED
      BY <1>1, <1>3, <1>7, <2>2, <3>1, <3>2 DEF Fetching
  <2>3. QED
    BY <2>1, <2>2
<1>9. ASSUME NEW u \in Threads PROVE Making(u)'
  <2>1. op = "new" => p = None
    BY <1>2 DEF Fetches
  <2>2. Making(u)
    BY DEF Faithful
  <2>3. QED
    BY <1>1, <1>3, <1>5, <1>7, <2>1, <2>2 DEF Making
<1>10. ASSUME NEW u \in Threads PROVE ThreadData(u)'
  <2>1. ThreadData(u)
    BY DEF Faithful
  <2>2. QED
    BY <1>1, <1>5, <1>7, <2>1 DEF ThreadData, IsDirty
<1>11. ASSUME NEW q \in Pages PROVE PageData(q)'
  <2>1. PageData(q) /\ loc[t].op # "new"
    BY <1>1 DEF Faithful, NoCall
  <2>2. QED
    BY <1>1, <1>7, <2>1 DEF PageData, IsDirty, Writers
<1>12. QED
  BY <1>1, <1>8, <1>9, <1>10, <1>11 DEF Faithful

\* At the start every page of the file holds its last bytes.
LEMMA FaithfulInit ==
    ASSUME Init
    PROVE  Faithful
<1>1. \A t \in Threads : at(t) = "idle" /\ loc[t] = NoCall
  BY DEF Init, at, Awake
<1>2. \A t \in Threads : Fetching(t) /\ Making(t) /\ ThreadData(t)
  BY SMTT(30), <1>1 DEF Fetching, Making, ThreadData, NoCall, Fetches
<1>3. \A f \in Frames : frame[f].state # "Resident"
  BY DEF Init, FreeFrame
<1>4. \A p \in Pages : disk[p] # "stale"
  BY DEF Init
<1>5. phase # "aborted"
  BY DEF Init
<1>6. QED
  BY <1>2, <1>3, <1>4, <1>5 DEF Faithful, PageData

=============================================================================
