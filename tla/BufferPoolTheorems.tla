------------------------- MODULE BufferPoolTheorems -------------------------
(***************************************************************************)
(* The properties of the pool hold in every behaviour.                     *)
(***************************************************************************)
EXTENDS BufferPoolCorrectness, BufferPoolStructure, BufferPoolContents, FiniteSetTheorems

\* How long the provers may take.
USE ZenonT(30), SMTT(30)

\* Every step keeps the bytes faithful, when nobody deletes a page that others use.
LEMMA FaithfulNext ==
    ASSUME Structure, Counting, Settled, Faithful, ~Racy, [Next]_vars
    PROVE  Faithful'
<1>1. ASSUME NEW t \in Threads, CalmStep(t) PROVE Faithful'
  BY <1>1, CalmSteps, CalmFaithful
<1>2. ASSUME NEW t \in Threads, Step(t) \/ Drop(t) \/ Call(t) \/ Shutdown(t) \/ SpuriousWakeup(t), ~CalmStep(t) PROVE Faithful'
  <2>1. CASE FlushWrite(t) \/ FlushMark(t) \/ Vacate(t)
    BY <2>1, WriteFaithful, MarkFaithful, VacateFaithful
  <2>2. CASE Latch(t) \/ Unlatch(t) \/ Drop(t)
    BY <2>2, GuardsFaithful, DropFaithful DEF Drop
  <2>3. CASE (\E p \in Pages : Allocate(t, p)) \/ Deallocate(t) \/ DeallocateList(t)
    BY <2>3, AllocateFaithful, DeallocateFaithful
  <2>4. CASE \/ \E op \in Fetches, p \in Pages : StartFetch(t, op, p)
             \/ StartNew(t) \/ \E p \in Pages : StartDelete(t, p)
    BY <2>4, StartFaithful
  <2>5. QED
    BY <1>2, <2>1, <2>2, <2>3, <2>4, NotCalm
<1>3. ASSUME StopAccepting \/ Over \/ UNCHANGED vars PROVE Faithful'
  <2>1. UNCHANGED <<frame, table, status, disk, guards, pc, loc>> /\ phase' # "aborted"
    BY <1>3 DEF StopAccepting, Over, vars, pool, storage, owner, Faithful
  <2>2. \A t \in Threads : Fetching(t)' /\ Making(t)' /\ ThreadData(t)'
    BY <2>1 DEF Faithful, Fetching, Making, ThreadData, IsDirty, at
  <2>3. \A p \in Pages : PageData(p)'
    BY <2>1 DEF Faithful, PageData, IsDirty, Writers
  <2>4. QED
    BY <2>1, <2>2, <2>3 DEF Faithful
<1>4. QED
  BY <1>1, <1>2, <1>3 DEF Next

(***************************************************************************)
(* What the structure says of the properties.                              *)
(***************************************************************************)

\* A notified thread has the pins it had asleep, and stands at no other label.
LEMMA Standing ==
    ASSUME NEW t \in Threads
    PROVE  /\ pc[t] \in PinsFrameAt <=> at(t) \in PinsFrameAt
           /\ pc[t] \in PinsVictimAt <=> at(t) \in PinsVictimAt
           /\ pc[t] \in PrivateAt <=> at(t) \in PrivateAt
           /\ \A a : a \notin {"asleep", "wait", "drain_asleep", "drain"} => (pc[t] = a <=> at(t) = a)
           /\ pc[t] \in {"asleep", "wait"} <=> at(t) = "wait"
<1>1. CASE pc[t] \in {"asleep", "drain_asleep"}
  BY <1>1 DEF at, Awake, PinsFrameAt, PinsVictimAt, PrivateAt
<1>2. CASE pc[t] \notin {"asleep", "drain_asleep"}
  <2>1. at(t) = pc[t]
    BY <1>2 DEF at, Awake
  <2>2. QED
    BY <1>2, <2>1
<1>3. QED
  BY <1>1, <1>2

\* The pins counted are those of the threads' calls and guards.
LEMMA StructurePins ==
    ASSUME Structure
    PROVE  PinsMatchHolders
<1>1. \A f \in Frames : CallPins(f) = PinsOf(f)
  BY Standing DEF CallPins, PinsOf, PinnedBy
<1>2. QED
  BY <1>1 DEF Structure, Counted, GuardsOK, PinsMatchHolders

\* A pinned frame holds the page it was pinned for.
LEMMA StructureIdentity ==
    ASSUME Structure
    PROVE  PinFixesIdentity
<1> SUFFICES ASSUME NEW t \in Threads
             PROVE  /\ pc[t] \in PinsFrameAt \cup {"unlatch"} => frame[loc[t].frame].page_id = loc[t].page
                    /\ pc[t] \in PinsVictimAt => frame[loc[t].victim].page_id = loc[t].peeked
  BY DEF PinFixesIdentity
<1>1. PinnedOK(t) /\ GuardsOK(t)
  BY DEF Structure
<1>2. at(t) = "unlatch" => frame[loc[t].frame].page_id = loc[t].page
  BY <1>1 DEF PinnedOK, GuardsOK
<1>3. QED
  BY <1>1, <1>2, Standing DEF PinnedOK

\* The page table and the frames agree.
LEMMA StructureMapping ==
    ASSUME Structure
    PROVE  MappingAgrees
<1>1. \A p \in Pages : table[p] # None => frame[table[p]].page_id = p /\ frame[table[p]].state \in {"Loading", "Resident"}
  BY DEF Structure, MappedOK
<1>2. ASSUME NEW f \in Frames, frame[f].state \in {"Loading", "Resident"}
      PROVE  \/ table[frame[f].page_id] = f
             \/ \E t \in Threads : pc[t] \in {"insert", "fail"} /\ loc[t].frame = f
  <2>1. CASE frame[f].state = "Loading"
    <3>1. PICK t \in Threads : Role(at(t), loc[t]) = "load" /\ loc[t].frame = f
      BY <2>1 DEF Structure, Home, Plays
    <3>2. at(t) \in LoadAt
      BY <3>1 DEF Role
    <3>3. CASE at(t) = "fail"
      BY <3>1, <3>3, Standing
    <3>4. CASE at(t) \in {"load", "loaded", "abandon"}
      <4>1. table[loc[t].page] = f /\ frame[f].page_id = loc[t].page
        BY <3>1, <3>4 DEF Structure, OwnerOK, PinnedOK, PinsFrameAt
      <4>2. QED
        BY <4>1
    <3>5. QED
      BY <3>2, <3>3, <3>4 DEF LoadAt
  <2>2. CASE frame[f].state = "Resident" /\ table[frame[f].page_id] # f
    <3>1. PICK t \in Threads : Role(at(t), loc[t]) = "insert" /\ loc[t].frame = f
      BY <2>2 DEF Structure, Home, Plays
    <3>2. at(t) = "insert"
      BY <3>1 DEF Role
    <3>3. QED
      BY <3>1, <3>2, Standing
  <2>3. QED
    BY <1>2, <2>1, <2>2
<1>3. QED
  BY <1>1, <1>2 DEF MappingAgrees

\* Every frame has one home.
LEMMA StructureHome ==
    ASSUME Structure
    PROVE  FramesHaveOneHome
<1>1. ASSUME NEW t \in Threads, NEW f \in Frames
      PROVE  Private(t, f) <=> Role(at(t), loc[t]) = "private" /\ loc[t].frame = f
  BY Standing, Names DEF Private, Role, PrivateAt, LoadAt
<1>2. ASSUME NEW t \in Threads, NEW f \in Frames, Private(t, f)
      PROVE  Owns(t, f) /\ frame[f].state = "Free"
  BY <1>1, <1>2 DEF Owns, Structure, OwnerOK
<1>3. ASSUME NEW t \in Threads, NEW u \in Threads, NEW f \in Frames, Private(t, f), Private(u, f)
      PROVE  t = u
  <2>1. Owns(t, f) /\ Owns(u, f)
    BY <1>2, <1>3
  <2>2. QED
    BY <2>1 DEF Structure, OwnersDiffer, Owns
<1>4. ASSUME NEW f \in Frames
      PROVE  /\ ~(Listed(f) /\ \E t \in Threads : Private(t, f))
             /\ frame[f].state = "Free" <=> Listed(f) \/ \E t \in Threads : Private(t, f)
  <2>1. Listed(f) => frame[f].state = "Free" /\ \A t \in Threads : ~Owns(t, f)
    BY DEF Structure, ListedOK
  <2>2. frame[f].state = "Free" => Listed(f) \/ \E t \in Threads : Private(t, f)
    BY <1>1 DEF Structure, Home, Plays
  <2>3. QED
    BY <1>2, <2>1, <2>2
<1>5. QED
  BY <1>3, <1>4 DEF FramesHaveOneHome, Structure, ListOK

\* A Resident frame nobody pins can be evicted.
LEMMA StructureCandidate ==
    ASSUME Structure
    PROVE  NoLostCandidate
<1> SUFFICES ASSUME NEW f \in Frames, frame[f].state = "Resident", frame[f].pin_count = 0, f \notin evictable
             PROVE  \E t \in Threads : pc[t] \in {"peek", "revalidate"} /\ loc[t].victim = f
  BY DEF NoLostCandidate
<1>1. PICK t \in Threads : WillFind(t, f)
  BY DEF Structure, Evictable
<1>2. QED
  BY <1>1, Standing DEF WillFind

\* Each assertion in the code holds where it stands.
LEMMA StructureAsserts ==
    ASSUME Structure, Counting
    PROVE  AssertionsHold
<1>1. ASSUME NEW t \in Threads, pc[t] = "unpin"
      PROVE  frame[loc[t].frame].pin_count > 0
  <2>1. at(t) = "unpin" /\ loc[t].frame \in Frames
    BY <1>1, Standing, Names DEF PinsFrameAt
  <2>2. t \in PinsOf(loc[t].frame)
    BY <2>1 DEF PinsOf, PinnedBy, PinsFrameAt
  <2>3. QED
    BY <2>1, <2>2, SomePin
<1>2. ASSUME NEW t \in Threads, pc[t] \in {"unpin_victim", "give_up", "next"}
      PROVE  frame[loc[t].victim].pin_count > 0
  <2>1. at(t) \in PinsVictimAt /\ CallOK(at(t), loc[t])
    BY <1>2, Standing DEF Structure, PinsVictimAt
  <2>2. loc[t].victim \in Frames
    BY <2>1 DEF CallOK
  <2>3. t \in PinsOf(loc[t].victim)
    BY <2>1 DEF PinsOf, PinnedBy
  <2>4. QED
    BY <2>2, <2>3, SomePin
<1>3. ASSUME NEW t \in Threads, pc[t] = "fail" PROVE frame[loc[t].frame].page_id \in Pages
  <2>1. at(t) = "fail" /\ CallOK(at(t), loc[t]) /\ PinnedOK(t)
    BY <1>3, Standing DEF Structure
  <2>2. QED
    BY <2>1 DEF CallOK, PinnedOK, PinsFrameAt, FetchAt
<1>4. ASSUME NEW t \in Threads, pc[t] \in {"revalidate", "recheck"},
             StillVictim(t, IF pc[t] = "recheck" THEN 1 ELSE 0)
      PROVE  table[loc[t].peeked] = loc[t].victim
  <2>1. at(t) = pc[t] /\ CallOK(at(t), loc[t]) /\ Role(at(t), loc[t]) = "none"
    BY <1>4, Standing DEF Structure, Role, PrivateAt, LoadAt
  <2>2. PICK f : f = loc[t].victim
    OBVIOUS
  <2>3. f \in Frames /\ loc[t].peeked \in Pages
    BY <1>4, <2>1, <2>2 DEF CallOK, PinsVictimAt
  <2>4. frame[f].state = "Resident" /\ frame[f].page_id = loc[t].peeked
    BY <1>4, <2>2 DEF StillVictim
  <2>5. PinsOf(f) \subseteq {t} /\ GuardPins(f) = {}
    <3>1. CASE pc[t] = "revalidate"
      <4>1. frame[f].pin_count = 0
        BY <1>4, <2>2, <3>1 DEF StillVictim
      <4>2. QED
        BY <2>3, <4>1, NoPins
    <3>2. CASE pc[t] = "recheck"
      <4>1. frame[f].pin_count = 1 /\ t \in PinsOf(f)
        BY <1>4, <2>1, <2>2, <3>2 DEF StillVictim, PinsOf, PinnedBy, PinsVictimAt
      <4>2. PinsOf(f) = {t} /\ GuardPins(f) = {}
        BY <2>3, <4>1, OnePin
      <4>3. QED
        BY <4>2
    <3>3. QED
      BY <1>4, <3>1, <3>2
  <2>6. \A p \in Pages : table[p] = f <=> p = frame[f].page_id
    BY <2>1, <2>3, <2>4, <2>5, Vacant
  <2>7. QED
    BY <2>2, <2>3, <2>4, <2>6
<1>5. ASSUME NEW t \in Threads, pc[t] \in {"asleep", "wait"}
      PROVE  frame[loc[t].frame].state # "Free"
  BY <1>5, Standing DEF Structure, PinnedOK, PinsFrameAt, StatesAt, LoadAt
<1>6. ASSUME NEW t \in Threads, pc[t] = "delete", table[loc[t].page] # None
      PROVE  \/ frame[table[loc[t].page]].pin_count # 0
             \/ frame[table[loc[t].page]].state = "Resident"
  <2>1. at(t) = "delete" /\ CallOK(at(t), loc[t])
    BY <1>6, Standing DEF Structure
  <2>2. PICK f : f = table[loc[t].page]
    OBVIOUS
  <2>3. f \in Frames /\ frame[f].state \in {"Loading", "Resident"}
    BY <1>6, <2>1, <2>2 DEF CallOK, Structure, MappedOK, TypeOK
  <2>4. frame[f].state = "Loading" => frame[f].pin_count # 0
    <3> SUFFICES ASSUME frame[f].state = "Loading" PROVE frame[f].pin_count # 0
      OBVIOUS
    <3>1. PICK u \in Threads : Role(at(u), loc[u]) = "load" /\ loc[u].frame = f
      BY <2>3 DEF Structure, Home, Plays
    <3>2. u \in PinsOf(f)
      BY <3>1 DEF Role, LoadAt, PinsOf, PinnedBy, PinsFrameAt
    <3>3. QED
      BY <2>3, <3>2, SomePin
  <2>5. QED
    BY <2>2, <2>3, <2>4
<1>7. ASSUME Quiescent, NEW f \in Frames
      PROVE  frame[f].pin_count = 0 /\ frame[f].state # "Loading"
  <2>1. \A t \in Threads : at(t) = "idle" /\ guards[t] = {}
    BY <1>7, Standing DEF Quiescent
  <2>2. PinsOf(f) = {} /\ GuardPins(f) = {}
    BY <2>1 DEF PinsOf, PinnedBy, GuardPins, PinsFrameAt, PinsVictimAt
  <2>3. frame[f].pin_count = 0
    <3>1. Counted(f)
      BY <1>7 DEF Structure
    <3>2. Cardinality({}) = 0
      BY DEF Counting
    <3>3. frame[f].pin_count = 0 + 0
      BY <2>2, <3>1, <3>2 DEF Counted
    <3>4. QED
      BY <3>3
  <2>4. ~Plays("load", f)
    BY <2>1 DEF Plays, Role, PrivateAt, LoadAt
  <2>5. QED
    BY <2>3, <2>4 DEF Structure, Home
<1>8. QED
  BY <1>1, <1>2, <1>3, <1>4, <1>5, <1>6, <1>7 DEF AssertionsHold

(***************************************************************************)
(* What the properties of the pool rest on.                                *)
(***************************************************************************)

\* Counting is what the theorems about finite sets say.
LEMMA CountingHolds == Counting
<1>1. IsFiniteSet({}) /\ Cardinality({}) = 0
  BY FS_EmptySet
<1>2. ASSUME NEW S, IsFiniteSet(S)
      PROVE  /\ Cardinality(S) \in Nat
             /\ Cardinality(S) = 0 => S = {}
             /\ \A x : x \notin S => IsFiniteSet(S \cup {x}) /\ Cardinality(S \cup {x}) = Cardinality(S) + 1
             /\ \A x \in S : IsFiniteSet(S \ {x}) /\ Cardinality(S \ {x}) = Cardinality(S) - 1
  <2>1. Cardinality(S) \in Nat
    BY <1>2, FS_CardinalityType
  <2>2. Cardinality(S) = 0 => S = {}
    BY <1>2, FS_EmptySet
  <2>3. ASSUME NEW x, x \notin S PROVE IsFiniteSet(S \cup {x}) /\ Cardinality(S \cup {x}) = Cardinality(S) + 1
    BY <1>2, <2>3, FS_AddElement
  <2>4. ASSUME NEW x \in S PROVE IsFiniteSet(S \ {x}) /\ Cardinality(S \ {x}) = Cardinality(S) - 1
    BY <1>2, FS_RemoveElement
  <2>5. QED
    BY <2>1, <2>2, <2>3, <2>4
<1>3. QED
  BY <1>1, <1>2 DEF Counting

\* A page whose bytes on disk are old is dirty in its frame, pinned there or being made.
LEMMA FaithfulWrites ==
    ASSUME Structure, Counting, Faithful
    PROVE  NoLostWrite
<1> SUFFICES ASSUME NEW p \in Pages, status[p] = "owned", disk[p] = "stale",
                    table[p] # None, Writers(table[p]) # {}
             PROVE  frame[table[p]].pin_count > 0
  BY DEF NoLostWrite, Faithful, PageData
<1>1. table[p] \in Frames
  BY Names
<1>2. PICK t \in Threads : t \in GuardPins(table[p])
  BY DEF Writers, GuardPins
<1>3. QED
  BY <1>1, <1>2, SomePin

\* A guard is on a Resident frame of its page.
LEMMA FaithfulGuards ==
    ASSUME Structure, Faithful
    PROVE  GuardsSeeLatest
<1> SUFFICES ASSUME NEW t \in Threads, NEW g \in guards[t]
             PROVE  frame[g.frame].page_id = g.page /\ frame[g.frame].data = "latest"
  BY DEF GuardsSeeLatest
<1>1. g.frame \in Frames
  BY Names
<1>2. frame[g.frame].page_id = g.page /\ frame[g.frame].state = "Resident"
  BY DEF Structure, PinnedOK
<1>3. QED
  BY <1>1, <1>2 DEF Faithful

\* Once Shutdown has said OK no frame is dirty and no page is being made.
LEMMA ClosedSaves ==
    ASSUME Structure, Faithful, Closing
    PROVE  ShutdownSavesAll
<1> SUFFICES ASSUME phase = "down", ~err, NEW p \in Pages, status[p] = "owned", disk[p] = "stale"
             PROVE  FALSE
  BY DEF ShutdownSavesAll
<1>1. \A t \in Threads : at(t) = "idle" /\ guards[t] = {}
  BY DEF Closing
<1>2. \A t \in Threads : loc[t].op # "new"
  BY SMTT(30), <1>1 DEF Structure, CallOK, NoCall
<1>3. table[p] # None => table[p] \in Frames
  BY Names
<1>4. Writers(table[p]) = {}
  BY <1>1 DEF Writers
<1>5. QED
  BY <1>2, <1>3, <1>4 DEF Faithful, PageData, Closing

\* A flush that writes has pinned a Resident frame of its page, which has an owner.
LEMMA SettledWrites ==
    ASSUME Structure, Settled
    PROVE  FlushWritesLivePage
<1> SUFFICES ASSUME NEW t \in Threads, pc[t] = "write" PROVE status[loc[t].peeked] = "owned"
  BY DEF FlushWritesLivePage
<1>1. at(t) = "write" /\ PinnedOK(t)
  BY DEF at, Awake, Structure
<1>2. loc[t].victim \in Frames
  BY <1>1, Names DEF PinsVictimAt
<1>3. frame[loc[t].victim].page_id = loc[t].peeked /\ frame[loc[t].victim].state = "Resident"
  BY <1>1 DEF PinnedOK, PinsVictimAt
<1>4. QED
  BY <1>2, <1>3 DEF Settled, LiveOK

\* A mapped Resident frame holds the page it is mapped to, which has an owner.
LEMMA SettledDeletes ==
    ASSUME Structure, Settled
    PROVE  DeletedPageNotCached
<1> SUFFICES ASSUME NEW p \in Pages, table[p] # None, frame[table[p]].state = "Resident" PROVE status[p] = "owned"
  BY DEF DeletedPageNotCached
<1>1. table[p] \in Frames /\ frame[table[p]].page_id = p
  BY Names DEF Structure, MappedOK
<1>2. QED
  BY <1>1 DEF Settled, LiveOK

(***************************************************************************)
(* Theorems.                                                               *)
(***************************************************************************)

\* Who owns and pins each frame, whatever the threads do.
THEOREM StructureInvariant == Spec => []Structure
<1>1. Init => Structure
  BY CountingHolds, StructureInit
<1>2. Structure /\ [Next]_vars => Structure'
  BY CountingHolds, StructureNext
<1>3. QED
  BY <1>1, <1>2, PTL DEF Spec

\* The pages' owners and the frames' epochs, whatever the threads do.
THEOREM SettledInvariant == Spec => []Settled
<1>1. Init => Settled
  BY SettledInit
<1>2. Structure /\ Structure' /\ Settled /\ [Next]_vars => Settled'
  BY CountingHolds, SettledNext
<1>3. QED
  BY <1>1, <1>2, StructureInvariant, PTL DEF Spec

\* The bytes, when nobody deletes a page that others are using.
THEOREM FaithfulInvariant == ASSUME ~Racy PROVE Spec => []Faithful
<1>1. Init => Faithful
  BY FaithfulInit
<1>2. Structure /\ Settled /\ Faithful /\ [Next]_vars => Faithful'
  BY CountingHolds, FaithfulNext
<1>3. QED
  BY <1>1, <1>2, StructureInvariant, SettledInvariant, PTL DEF Spec

\* What Shutdown has done so far.
THEOREM ClosingInvariant == Spec => []Closing
<1>1. Init => Closing
  BY ClosingInit
<1>2. Structure /\ Settled /\ Closing /\ [Next]_vars => Closing'
  BY ClosingNext
<1>3. QED
  BY <1>1, <1>2, StructureInvariant, SettledInvariant, PTL DEF Spec

\* The state keeps its types.
THEOREM PoolTypes == Spec => []TypeOK
<1>1. Structure => TypeOK
  BY DEF Structure
<1>2. QED
  BY <1>1, StructureInvariant, PTL

\* pin_count_ counts the pins that calls and guards will give back: UnpinPage
\* never takes it below zero, and no path forgets a pin.
THEOREM PinsAreCounted == Spec => []PinsMatchHolders
<1>1. Structure => PinsMatchHolders
  BY StructurePins
<1>2. QED
  BY <1>1, StructureInvariant, PTL

\* From its pin to its release a call finds in the frame the page it pinned.
THEOREM PinnedFrameKeepsPage == Spec => []PinFixesIdentity
<1>1. Structure => PinFixesIdentity
  BY StructureIdentity
<1>2. QED
  BY <1>1, StructureInvariant, PTL

\* page_table_ and the frames agree on which page is where.
THEOREM TableAgrees == Spec => []MappingAgrees
<1>1. Structure => MappingAgrees
  BY StructureMapping
<1>2. QED
  BY <1>1, StructureInvariant, PTL

\* No frame is lost or handed out twice, on any path through AcquireFrame,
\* ReclaimFrame, AbandonLoad and DeletePage.
THEOREM FramesAreNotLost == Spec => []FramesHaveOneHome
<1>1. Structure => FramesHaveOneHome
  BY StructureHome
<1>2. QED
  BY <1>1, StructureInvariant, PTL

\* An unpinned Resident frame can be found by Evict().
THEOREM CandidatesAreNotLost == Spec => []NoLostCandidate
<1>1. Structure => NoLostCandidate
  BY StructureCandidate
<1>2. QED
  BY <1>1, StructureInvariant, PTL

\* The assertions in buffer_pool_manager.cpp hold where they stand.
THEOREM PoolAssertions == Spec => []AssertionsHold
<1>1. Structure => AssertionsHold
  BY CountingHolds, StructureAsserts
<1>2. QED
  BY <1>1, StructureInvariant, PTL

\* A page on the disk's freelist is in no Resident frame, even when fetches race
\* its deletion.
THEOREM FreedPageIsUncached == Spec => []DeletedPageNotCached
<1>1. Structure /\ Settled => DeletedPageNotCached
  BY SettledDeletes
<1>2. QED
  BY <1>1, StructureInvariant, SettledInvariant, PTL

\* FlushFrame never writes over a page that has been deallocated.
THEOREM FlushIsOfLivePage == Spec => []FlushWritesLivePage
<1>1. Structure /\ Settled => FlushWritesLivePage
  BY SettledWrites
<1>2. QED
  BY <1>1, StructureInvariant, SettledInvariant, PTL

\* PageTable::Insert never finds its page mapped, when nobody deletes a page that
\* others are using.
THEOREM InsertNeverAborts == ASSUME ~Racy PROVE Spec => []NeverAborts
<1>1. Faithful => NeverAborts
  BY DEF Faithful, NeverAborts
<1>2. QED
  BY <1>1, FaithfulInvariant, PTL

\* A guard shows the last bytes written to its page.
THEOREM GuardsShowLatest == ASSUME ~Racy PROVE Spec => []GuardsSeeLatest
<1>1. Structure /\ Faithful => GuardsSeeLatest
  BY FaithfulGuards
<1>2. QED
  BY <1>1, StructureInvariant, FaithfulInvariant, PTL

\* Evictions, flushes and reloads lose no write.
THEOREM WritesAreNotLost == ASSUME ~Racy PROVE Spec => []NoLostWrite
<1>1. Structure /\ Faithful => NoLostWrite
  BY CountingHolds, FaithfulWrites
<1>2. QED
  BY <1>1, StructureInvariant, FaithfulInvariant, PTL

\* When Shutdown returns OK the file holds the last bytes of every page.
THEOREM ShutdownIsComplete == ASSUME ~Racy PROVE Spec => []ShutdownSavesAll
<1>1. Structure /\ Faithful /\ Closing => ShutdownSavesAll
  BY ClosedSaves
<1>2. QED
  BY <1>1, StructureInvariant, FaithfulInvariant, ClosingInvariant, PTL

=============================================================================
