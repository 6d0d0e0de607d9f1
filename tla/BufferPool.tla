------------------------------ MODULE BufferPool ------------------------------
(***************************************************************************)
(* src/src/buffer: the pool of frames that caches the pages of the file.    *)
(*                                                                         *)
(* Threads interleave between any two critical sections.  A critical        *)
(* section under a frame's metadata mutex, a page-table shard, the free     *)
(* list or the replacer is one action.  The locks that stay held from one   *)
(* action to the next are the content latches, which guards and flushes     *)
(* hold, and the shard that DeletePage keeps across DeallocatePage.         *)
(*                                                                         *)
(* The disk below is PageAllocator, which DiskManager implements, and the   *)
(* replacer is CandidateSet, which the clock of Replacer implements.  Bytes *)
(* are abstracted to whether they are the last ones written to their page.  *)
(***************************************************************************)
EXTENDS Integers, Sequences, FiniteSets

CONSTANTS
    Threads,     \* the sessions that call the pool
    Capacity,    \* frames in the pool
    Pages,       \* ids of the data pages (the reserved pages are rejected at once)
    Existing,    \* the pages the opened file already holds
    kNumShards,  \* shards of the page table
    Ops,         \* the calls the sessions make
    MaxGuards,   \* guards one session holds at a time
    MaxEpoch,    \* bound: writes to a page while it stays cached
    MaxWrites,   \* bound: writes to all the cached pages together
    Faults,      \* whether disk calls may fail
    Racy,        \* whether a page may be deleted while others are fetching it
    None         \* no frame, no page

ASSUME CapacityAssumption == Capacity \in Nat \ {0}
ASSUME PagesAssumption == Pages \subseteq Nat \ {0, 1} /\ Existing \subseteq Pages
ASSUME kNumShardsAssumption == kNumShards \in Nat \ {0}
ASSUME OpsAssumption ==
    Ops \subseteq {"read", "write", "new", "delete", "flush", "flushall", "shutdown"}
ASSUME BoundsAssumption == MaxGuards \in Nat \ {0} /\ MaxEpoch \in Nat /\ MaxWrites \in Nat
ASSUME FlagsAssumption == Faults \in BOOLEAN /\ Racy \in BOOLEAN
ASSUME NoneAssumption == None \notin Nat

VARIABLES
    frame,      \* frames_: state, page, pins, epochs and bytes of each frame
    table,      \* page_table_: the frame a page is mapped to
    free_list,  \* free_list_: a stack of frames
    evictable,  \* replacer_: the candidate set
    status,     \* the allocator's view of each page
    disk,       \* the bytes the file holds for each page
    pc,         \* where each session stands
    loc,        \* the locals of its call
    guards,     \* the page guards it holds
    phase,      \* "run", "drain" (no new calls), "shutdown", "down", "aborted"
    err         \* the shutdown flush has failed somewhere

pool == <<frame, table, free_list, evictable>>
storage == <<status, disk>>
owner == <<phase, err>>
vars == <<pool, storage, pc, loc, guards, owner>>

Frames == 0 .. Capacity - 1

Disk == INSTANCE PageAllocator WITH result <- None
Candidates == INSTANCE CandidateSet WITH
    candidates <- evictable, evicted <- None, NoFrame <- None

Shard(p) == p % kNumShards

\* Bytes: the last ones written to the page, older ones, or of no interest to
\* anyone (the page is being deleted, or the frame holds none).
Content == {"latest", "stale", "dead"}

FreeFrame == [state |-> "Free", page_id |-> None, pin_count |-> 0,
              dirty_epoch |-> 0, flushed_epoch |-> 0, data |-> "dead"]

\* A frame stamped with a page and the pin of the thread that stamped it.
Stamped(state, p, data) ==
    [FreeFrame EXCEPT !.state = state, !.page_id = p, !.pin_count = 1, !.data = data]

IsDirty(f) == frame[f].dirty_epoch > frame[f].flushed_epoch

NoCall == [op |-> "none", page |-> None, frame |-> None, victim |-> None,
           peeked |-> None, epoch |-> 0]

Init ==
    /\ frame = [f \in Frames |-> FreeFrame]
    /\ table = [p \in Pages |-> None]
    /\ free_list = [i \in 1 .. Capacity |-> i - 1]
    /\ evictable = {}
    /\ status = [p \in Pages |-> IF p \in Existing THEN "owned" ELSE "unborn"]
    /\ disk = [p \in Pages |-> IF p \in Existing THEN "latest" ELSE "dead"]
    /\ pc = [t \in Threads |-> "idle"]
    /\ loc = [t \in Threads |-> NoCall]
    /\ guards = [t \in Threads |-> {}]
    /\ phase = "run"
    /\ err = FALSE

(***************************************************************************)
(* Locks.                                                                  *)
(***************************************************************************)

\* A faulty variant: the shard is released once the mapping is erased.
DeleteHolds_Released == {"unevict"}

\* Where DeletePage keeps the shard of its page locked.
DeleteHolds == {"unevict", "deallocate", "list", "giveback"}

\* The shard of page p can be locked.
ShardFree(p) == \A t \in Threads : pc[t] \in DeleteHolds => Shard(loc[t].page) # Shard(p)

\* Threads that hold the content latch of frame f, exclusively or shared.
Writers(f) == {t \in Threads : \E g \in guards[t] : g.frame = f /\ g.mode = "write"}
Readers(f) == {t \in Threads : \/ \E g \in guards[t] : g.frame = f /\ g.mode = "read"
                               \/ pc[t] = "write" /\ loc[t].victim = f}

(***************************************************************************)
(* Calls.                                                                  *)
(***************************************************************************)

Goto(t, label) == pc' = [pc EXCEPT ![t] = label]
Local(t, l) == loc' = [loc EXCEPT ![t] = l]
Return(t) == Goto(t, "idle") /\ Local(t, NoCall)

\* The condition variable of a frame: a thread sleeps until it is notified, then
\* tests its predicate again.
Awake(label) == CASE label = "asleep" -> "wait"
                  [] label = "drain_asleep" -> "drain"
                  [] OTHER -> label

\* Go to label and wake everyone who sleeps on frame f.
NotifyAll(t, f, label) ==
    pc' = [u \in Threads |-> IF u = t THEN label
                             ELSE IF loc[u].frame = f THEN Awake(pc[u]) ELSE pc[u]]

\* A wake-up without a notification.
SpuriousWakeup(t) ==
    /\ pc[t] \in {"asleep", "drain_asleep"}
    /\ Goto(t, Awake(pc[t]))
    /\ UNCHANGED <<pool, storage, loc, guards, owner>>

Fetches == {"read", "write"}
Reclaims == {"read", "write", "new"}

\* Some other thread is calling the pool about page p, or holds it.
InUse(t, p) == \E u \in Threads \ {t} : \/ loc[u].page = p /\ loc[u].op # "flush"
                                        \/ \E g \in guards[u] : g.page = p

\* A session may ask for page p: somebody owns it, its id has been returned to
\* its creator and it is not being deleted.
Known(p) ==
    /\ status[p] = "owned" /\ disk[p] # "dead"
    /\ \A u \in Threads : loc[u].page = p => loc[u].op # "new" /\ (Racy \/ loc[u].op # "delete")

\* Writes to p that are under way or not yet forgotten, for the bounds.
Writes(p) ==
    (IF table[p] = None THEN 0 ELSE frame[table[p]].dirty_epoch)
      + Cardinality({u \in Threads : loc[u].page = p /\ loc[u].op = "write"})
      + Cardinality({u \in Threads : \E g \in guards[u] : g.page = p /\ g.mode = "write"})

\* All of them, one by one.
AllWrites == UNION {{p} \X (1 .. Writes(p)) : p \in Pages}

\* A session starts a call, latching pages in the order of their ids.
Start(t, op, p, label) ==
    /\ phase = "run" /\ pc[t] = "idle" /\ op \in Ops
    /\ Goto(t, label)
    /\ Local(t, [NoCall EXCEPT !.op = op, !.page = p])
    /\ UNCHANGED <<pool, storage, guards, owner>>

StartFetch(t, op, p) ==
    /\ Cardinality(guards[t]) < MaxGuards
    /\ \A g \in guards[t] : g.page < p
    /\ Known(p)
    /\ op = "write" => Writes(p) < MaxEpoch /\ Cardinality(AllWrites) < MaxWrites
    /\ Start(t, op, p, "lookup")

StartNew(t) ==
    /\ Cardinality(guards[t]) < MaxGuards
    /\ Start(t, "new", None, "acquire")

StartDelete(t, p) ==
    /\ status[p] = "owned"
    /\ \A u \in Threads : loc[u].page = p => loc[u].op \notin {"new", "delete"}
    /\ Racy \/ ~InUse(t, p)
    /\ Start(t, "delete", p, "delete")

\* FlushPage latches the page, so its caller holds no guard.
StartFlush(t, p) == guards[t] = {} /\ Start(t, "flush", p, "pin")

StartFlushAll(t) ==
    /\ phase = "run" /\ pc[t] = "idle" /\ guards[t] = {} /\ "flushall" \in Ops
    /\ Goto(t, "scan")
    /\ Local(t, [NoCall EXCEPT !.op = "flushall", !.frame = 0])
    /\ UNCHANGED <<pool, storage, guards, owner>>

(***************************************************************************)
(* UnpinPage.                                                              *)
(***************************************************************************)

\* A faulty variant: the loader of a Failed frame is not notified.
UnpinPage_NoNotify(t, f, label) ==
    /\ frame' = [frame EXCEPT ![f].pin_count = @ - 1]
    /\ IF frame[f].pin_count = 1 /\ frame[f].state = "Resident"
       THEN Candidates!Add(f) ELSE UNCHANGED evictable
    /\ Goto(t, label)

\* Drop a pin and go on at label.  A Failed frame's loader is notified; the last
\* pin of a Resident frame makes it a candidate, under the same metadata mutex.
UnpinPage(t, f, label) ==
    /\ frame' = [frame EXCEPT ![f].pin_count = @ - 1]
    /\ IF frame[f].pin_count = 1 /\ frame[f].state = "Resident"
       THEN Candidates!Add(f) ELSE UNCHANGED evictable
    /\ IF frame[f].state = "Failed" THEN NotifyAll(t, f, label) ELSE Goto(t, label)

\* The pin of a dropped guard, a finished FlushPage or a failed wait.
Unpin(t) ==
    /\ pc[t] = "unpin"
    /\ UnpinPage(t, loc[t].frame, "idle")
    /\ Local(t, NoCall)
    /\ UNCHANGED <<table, free_list, storage, guards, owner>>

(***************************************************************************)
(* FetchFrame.                                                             *)
(***************************************************************************)

\* The page is mapped: pin its frame under the shard and the metadata mutex.
\* A Loading frame is waited for; the first pin of a Resident one will take it
\* out of the candidate set.  (A Loading frame carries its loader's pin.)
FetchHit(t) ==
    LET f == table[loc[t].page] IN
    /\ pc[t] = "lookup"
    /\ ShardFree(loc[t].page)
    /\ f # None
    /\ frame' = [frame EXCEPT ![f].pin_count = @ + 1]
    /\ Local(t, [loc[t] EXCEPT !.frame = f])
    /\ Goto(t, IF frame[f].state = "Loading" THEN "asleep"
               ELSE IF frame[f].pin_count = 0 THEN "touch" ELSE "latch")
    /\ UNCHANGED <<table, free_list, evictable, storage, guards, owner>>

FetchMiss(t) ==
    /\ pc[t] = "lookup"
    /\ ShardFree(loc[t].page)
    /\ table[loc[t].page] = None
    /\ Goto(t, "acquire")
    /\ UNCHANGED <<pool, storage, loc, guards, owner>>

\* Awake, with the metadata mutex: is the load over?
WakeUp(t) ==
    /\ pc[t] = "wait"
    /\ Goto(t, CASE frame[loc[t].frame].state = "Loading" -> "asleep"
                 [] frame[loc[t].frame].state = "Failed" -> "unpin"
                 [] OTHER -> "latch")
    /\ UNCHANGED <<pool, storage, loc, guards, owner>>

\* SetEvictable(false), after the metadata mutex has been released.
Touch(t) ==
    /\ pc[t] = "touch"
    /\ Candidates!Remove(loc[t].frame)
    /\ Goto(t, "latch")
    /\ UNCHANGED <<frame, table, free_list, storage, loc, guards, owner>>

\* AcquireRead or AcquireWrite, and the guard is the caller's.
Latch(t) ==
    LET f == loc[t].frame
        mode == IF loc[t].op = "read" THEN "read" ELSE "write"
    IN
    /\ pc[t] = "latch"
    /\ Writers(f) = {}
    /\ mode = "write" => Readers(f) = {}
    /\ guards' = [guards EXCEPT ![t] = @ \cup {[page |-> loc[t].page, frame |-> f, mode |-> mode]}]
    /\ Return(t)
    /\ UNCHANGED <<pool, storage, owner>>

\* A faulty variant: the loser of the race forgets its frame.
PublishLost_DropsFrame(t) ==
    /\ pc[t] = "publish"
    /\ ShardFree(loc[t].page)
    /\ table[loc[t].page] # None
    /\ Local(t, [loc[t] EXCEPT !.frame = None])
    /\ Goto(t, "lookup")
    /\ UNCHANGED <<pool, storage, guards, owner>>

\* The second lookup under the shard: another thread has mapped the page, and
\* the frame goes back to the free list.
PublishLost(t) ==
    /\ pc[t] = "publish"
    /\ ShardFree(loc[t].page)
    /\ table[loc[t].page] # None
    /\ free_list' = Append(free_list, loc[t].frame)
    /\ Local(t, [loc[t] EXCEPT !.frame = None])
    /\ Goto(t, "lookup")
    /\ UNCHANGED <<frame, table, evictable, storage, guards, owner>>

\* Map the page to the frame, Loading and pinned, before the read.
Publish(t) ==
    /\ pc[t] = "publish"
    /\ ShardFree(loc[t].page)
    /\ table[loc[t].page] = None
    /\ table' = [table EXCEPT ![loc[t].page] = loc[t].frame]
    /\ frame' = [frame EXCEPT ![loc[t].frame] = Stamped("Loading", loc[t].page, "dead")]
    /\ Goto(t, "load")
    /\ UNCHANGED <<free_list, evictable, storage, loc, guards, owner>>

\* ReadPage, and the header of an allocated page.
Load(t) ==
    /\ pc[t] = "load"
    /\ status[loc[t].page] = "owned"
    /\ frame' = [frame EXCEPT ![loc[t].frame].data = disk[loc[t].page]]
    /\ Goto(t, "loaded")
    /\ UNCHANGED <<table, free_list, evictable, storage, loc, guards, owner>>

\* ReadPage fails, or the header says FREE.
LoadFails(t) ==
    /\ pc[t] = "load"
    /\ Faults \/ status[loc[t].page] # "owned"
    /\ Goto(t, "abandon")
    /\ UNCHANGED <<pool, storage, loc, guards, owner>>

\* Publish Resident and notify.
Loaded(t) ==
    /\ pc[t] = "loaded"
    /\ frame' = [frame EXCEPT ![loc[t].frame].state = "Resident"]
    /\ NotifyAll(t, loc[t].frame, "latch")
    /\ UNCHANGED <<table, free_list, evictable, storage, loc, guards, owner>>

(***************************************************************************)
(* AbandonLoad.                                                            *)
(***************************************************************************)

\* A faulty variant: the mapping of a page that failed to load stays.
AbandonErase_Skipped(t) ==
    /\ pc[t] = "abandon"
    /\ Goto(t, "fail")
    /\ UNCHANGED <<pool, storage, loc, guards, owner>>

AbandonErase(t) ==
    /\ pc[t] = "abandon"
    /\ ShardFree(loc[t].page)
    /\ table' = [table EXCEPT ![loc[t].page] = None]
    /\ Goto(t, "fail")
    /\ UNCHANGED <<frame, free_list, evictable, storage, loc, guards, owner>>

\* Publish Failed and notify; then, as on every wake-up, free the frame if only
\* the loader's own pin is left, and sleep otherwise.
AbandonFail(t) ==
    /\ pc[t] = "fail"
    /\ IF frame[loc[t].frame].pin_count = 1
       THEN frame' = [frame EXCEPT ![loc[t].frame] = FreeFrame] /\ Goto(t, "push")
       ELSE /\ frame' = [frame EXCEPT ![loc[t].frame].state = "Failed"]
            /\ NotifyAll(t, loc[t].frame, "drain_asleep")
    /\ UNCHANGED <<table, free_list, evictable, storage, loc, guards, owner>>

\* A faulty variant: the loader does not wait for its waiters' pins.
AbandonDrained_NoWait(t) ==
    /\ pc[t] = "drain"
    /\ frame' = [frame EXCEPT ![loc[t].frame] = FreeFrame]
    /\ Goto(t, "push")
    /\ UNCHANGED <<table, free_list, evictable, storage, loc, guards, owner>>

AbandonDrained(t) ==
    /\ pc[t] = "drain"
    /\ IF frame[loc[t].frame].pin_count = 1
       THEN frame' = [frame EXCEPT ![loc[t].frame] = FreeFrame] /\ Goto(t, "push")
       ELSE Goto(t, "drain_asleep") /\ UNCHANGED frame
    /\ UNCHANGED <<table, free_list, evictable, storage, loc, guards, owner>>

AbandonPush(t) ==
    /\ pc[t] = "push"
    /\ free_list' = Append(free_list, loc[t].frame)
    /\ Return(t)
    /\ UNCHANGED <<frame, table, evictable, storage, guards, owner>>

(***************************************************************************)
(* AcquireFrame and ReclaimFrame.                                          *)
(***************************************************************************)

\* AcquireFrame returns frame f to its caller.
Acquired(t, f) ==
    /\ Local(t, [loc[t] EXCEPT !.frame = f, !.victim = None, !.peeked = None])
    /\ Goto(t, IF loc[t].op = "new" THEN "allocate" ELSE "publish")

\* A declined victim is forgotten, to try another one.
Decline(t) == Local(t, [loc[t] EXCEPT !.victim = None, !.peeked = None])

TryPop(t) ==
    /\ pc[t] = "acquire"
    /\ free_list # <<>>
    /\ free_list' = SubSeq(free_list, 1, Len(free_list) - 1)
    /\ Acquired(t, free_list[Len(free_list)])
    /\ UNCHANGED <<frame, table, evictable, storage, guards, owner>>

TryPopEmpty(t) ==
    /\ pc[t] = "acquire"
    /\ free_list = <<>>
    /\ Goto(t, "evict")
    /\ UNCHANGED <<pool, storage, loc, guards, owner>>

\* Evict() removes its victim from the candidate set before it returns.
Evict(t) ==
    /\ pc[t] = "evict"
    /\ \E f \in evictable :
          /\ Candidates!Claim(f)
          /\ Local(t, [loc[t] EXCEPT !.victim = f])
    /\ Goto(t, "peek")
    /\ UNCHANGED <<frame, table, free_list, storage, guards, owner>>

\* No candidate: BufferPoolFull.
EvictNone(t) ==
    /\ pc[t] = "evict"
    /\ evictable = {}
    /\ Return(t)
    /\ UNCHANGED <<pool, storage, guards, owner>>

\* Read the victim's page id, which says which shard to lock.
Peek(t) ==
    LET v == frame[loc[t].victim] IN
    /\ pc[t] = "peek"
    /\ IF v.state = "Resident" /\ v.pin_count = 0
       THEN Local(t, [loc[t] EXCEPT !.peeked = v.page_id]) /\ Goto(t, "revalidate")
       ELSE Decline(t) /\ Goto(t, "evict")
    /\ UNCHANGED <<pool, storage, guards, owner>>

\* The victim is still Resident, pinned by n threads, and holds the peeked page.
StillVictim(t, n) ==
    LET v == frame[loc[t].victim] IN
    v.state = "Resident" /\ v.pin_count = n /\ v.page_id = loc[t].peeked

\* A faulty variant: the victim stays mapped.
Reclaimed_KeepsMapping(t) ==
    /\ frame' = [frame EXCEPT ![loc[t].victim] = FreeFrame]
    /\ Acquired(t, loc[t].victim)
    /\ UNCHANGED table

\* Unmap the victim and turn it Free in one critical section.
Reclaimed(t) ==
    /\ table' = [table EXCEPT ![loc[t].peeked] = None]
    /\ frame' = [frame EXCEPT ![loc[t].victim] = FreeFrame]
    /\ Acquired(t, loc[t].victim)

\* A faulty variant: a dirty victim is flushed without a pin.
Revalidate_NoPin(t) ==
    /\ pc[t] = "revalidate"
    /\ ShardFree(loc[t].peeked)
    /\ \/ ~StillVictim(t, 0) /\ Decline(t) /\ Goto(t, "evict") /\ UNCHANGED <<frame, table>>
       \/ StillVictim(t, 0) /\ ~IsDirty(loc[t].victim) /\ Reclaimed(t)
       \/ /\ StillVictim(t, 0) /\ IsDirty(loc[t].victim)
          /\ Goto(t, "flush")
          /\ UNCHANGED <<frame, table, loc>>
    /\ UNCHANGED <<free_list, evictable, storage, guards, owner>>

\* Under the shard and the metadata mutex: decline, reclaim a clean victim, or
\* pin a dirty one for its writeback.
Revalidate(t) ==
    /\ pc[t] = "revalidate"
    /\ ShardFree(loc[t].peeked)
    /\ \/ ~StillVictim(t, 0) /\ Decline(t) /\ Goto(t, "evict") /\ UNCHANGED <<frame, table>>
       \/ StillVictim(t, 0) /\ ~IsDirty(loc[t].victim) /\ Reclaimed(t)
       \/ /\ StillVictim(t, 0) /\ IsDirty(loc[t].victim)
          /\ frame' = [frame EXCEPT ![loc[t].victim].pin_count = @ + 1]
          /\ Goto(t, "flush")
          /\ UNCHANGED <<table, loc>>
    /\ UNCHANGED <<free_list, evictable, storage, guards, owner>>

\* A faulty variant: the pins of others are not looked at again.
Recheck_IgnoresPins(t) ==
    /\ pc[t] = "recheck"
    /\ ShardFree(loc[t].peeked)
    /\ \/ ~IsDirty(loc[t].victim) /\ Reclaimed(t)
       \/ /\ IsDirty(loc[t].victim)
          /\ Goto(t, "unpin_victim")
          /\ UNCHANGED <<frame, table, loc>>
    /\ UNCHANGED <<free_list, evictable, storage, guards, owner>>

\* A faulty variant: nobody asks again whether the victim is dirty.
Recheck_IgnoresDirty(t) ==
    /\ pc[t] = "recheck"
    /\ ShardFree(loc[t].peeked)
    /\ \/ StillVictim(t, 1) /\ Reclaimed(t)
       \/ /\ ~StillVictim(t, 1)
          /\ Goto(t, "unpin_victim")
          /\ UNCHANGED <<frame, table, loc>>
    /\ UNCHANGED <<free_list, evictable, storage, guards, owner>>

\* After the writeback: reclaim if nobody pinned or dirtied the victim.
Recheck(t) ==
    /\ pc[t] = "recheck"
    /\ ShardFree(loc[t].peeked)
    /\ \/ StillVictim(t, 1) /\ ~IsDirty(loc[t].victim) /\ Reclaimed(t)
       \/ /\ ~StillVictim(t, 1) \/ IsDirty(loc[t].victim)
          /\ Goto(t, "unpin_victim")
          /\ UNCHANGED <<frame, table, loc>>
    /\ UNCHANGED <<free_list, evictable, storage, guards, owner>>

\* A faulty variant: the pin is dropped and the candidate forgotten.
UnpinVictim_ForgetsCandidate(t) ==
    /\ pc[t] = "unpin_victim"
    /\ frame' = [frame EXCEPT ![loc[t].victim].pin_count = @ - 1]
    /\ Decline(t)
    /\ Goto(t, "evict")
    /\ UNCHANGED <<table, free_list, evictable, storage, guards, owner>>

\* The victim was lost during its writeback.
UnpinVictim(t) ==
    /\ pc[t] = "unpin_victim"
    /\ UnpinPage(t, loc[t].victim, "evict")
    /\ Decline(t)
    /\ UNCHANGED <<table, free_list, storage, guards, owner>>

\* The writeback failed, and so does the call.
GiveUp(t) ==
    /\ pc[t] = "give_up"
    /\ UnpinPage(t, loc[t].victim, "idle")
    /\ Local(t, NoCall)
    /\ UNCHANGED <<table, free_list, storage, guards, owner>>

(***************************************************************************)
(* FlushFrame of the victim, whose page is peeked, with a pin held.        *)
(***************************************************************************)

\* A faulty variant: a failed writeback makes reclaim try another victim.
FlushReturns_Retries(t, ok) ==
    Goto(t, IF loc[t].op \in Reclaims THEN IF ok THEN "recheck" ELSE "unpin_victim"
            ELSE IF loc[t].op = "flush" THEN "unpin" ELSE "next")

\* Where FlushFrame returns to: ReclaimFrame, FlushPage or FlushAllPages.
FlushReturns(t, ok) ==
    Goto(t, IF loc[t].op \in Reclaims THEN IF ok THEN "recheck" ELSE "give_up"
            ELSE IF loc[t].op = "flush" THEN "unpin" ELSE "next")

FlushCheck(t) ==
    /\ pc[t] = "flush"
    /\ IF IsDirty(loc[t].victim) THEN Goto(t, "sample") ELSE FlushReturns(t, TRUE)
    /\ UNCHANGED <<pool, storage, loc, guards, owner>>

\* Take the shared content latch and sample the epoch.
FlushSample(t) ==
    /\ pc[t] = "sample"
    /\ Writers(loc[t].victim) = {}
    /\ Local(t, [loc[t] EXCEPT !.epoch = frame[loc[t].victim].dirty_epoch])
    /\ Goto(t, "write")
    /\ UNCHANGED <<pool, storage, guards, owner>>

\* WritePage, and release the latch.
FlushWrite(t) ==
    /\ pc[t] = "write"
    /\ disk' = [disk EXCEPT ![loc[t].peeked] = frame[loc[t].victim].data]
    /\ Goto(t, "mark")
    /\ UNCHANGED <<pool, status, loc, guards, owner>>

FlushWriteFails(t) ==
    /\ pc[t] = "write"
    /\ Faults
    /\ FlushReturns(t, FALSE)
    /\ Local(t, [loc[t] EXCEPT !.epoch = 0])
    /\ err' = (err \/ loc[t].op = "shutdown")
    /\ UNCHANGED <<pool, storage, guards, phase>>

\* A faulty variant: the frame is marked clean up to now, not up to the sample.
FlushMark_UpToNow(t) ==
    /\ pc[t] = "mark"
    /\ frame' = [frame EXCEPT ![loc[t].victim].flushed_epoch = frame[loc[t].victim].dirty_epoch]
    /\ FlushReturns(t, TRUE)
    /\ Local(t, [loc[t] EXCEPT !.epoch = 0])
    /\ UNCHANGED <<table, free_list, evictable, storage, guards, owner>>

\* MarkFlushed(D): raise flushed_epoch_, never lower it.
FlushMark(t) ==
    /\ pc[t] = "mark"
    /\ frame' = [frame EXCEPT ![loc[t].victim].flushed_epoch =
                    IF @ < loc[t].epoch THEN loc[t].epoch ELSE @]
    /\ FlushReturns(t, TRUE)
    /\ Local(t, [loc[t] EXCEPT !.epoch = 0])
    /\ UNCHANGED <<table, free_list, evictable, storage, guards, owner>>

(***************************************************************************)
(* FlushPage, FlushAllPages and Shutdown.                                  *)
(***************************************************************************)

\* FlushPage: pin the frame of a Resident page, or return.
PinForFlush(t) ==
    LET f == table[loc[t].page] IN
    /\ pc[t] = "pin"
    /\ ShardFree(loc[t].page)
    /\ IF f # None /\ frame[f].state = "Resident"
       THEN /\ frame' = [frame EXCEPT ![f].pin_count = @ + 1]
            /\ Local(t, [loc[t] EXCEPT !.frame = f, !.victim = f, !.peeked = loc[t].page])
            /\ Goto(t, "flush")
       ELSE Return(t) /\ UNCHANGED frame
    /\ UNCHANGED <<table, free_list, evictable, storage, guards, owner>>

\* One turn of FlushAllPages' loop: skip the frame, or pin it for its flush.
Scan(t) ==
    LET f == loc[t].frame IN
    /\ pc[t] = "scan"
    /\ f < Capacity
    /\ IF frame[f].state = "Resident"
       THEN /\ frame' = [frame EXCEPT ![f].pin_count = @ + 1]
            /\ Local(t, [loc[t] EXCEPT !.victim = f, !.peeked = frame[f].page_id])
            /\ Goto(t, "flush")
       ELSE Local(t, [loc[t] EXCEPT !.frame = f + 1]) /\ UNCHANGED <<frame, pc>>
    /\ UNCHANGED <<table, free_list, evictable, storage, guards, owner>>

ScanNext(t) ==
    /\ pc[t] = "next"
    /\ UnpinPage(t, loc[t].victim, "scan")
    /\ Local(t, [loc[t] EXCEPT !.frame = @ + 1, !.victim = None, !.peeked = None])
    /\ UNCHANGED <<table, free_list, storage, guards, owner>>

ScanDone(t) ==
    /\ pc[t] = "scan"
    /\ loc[t].frame = Capacity
    /\ loc[t].op = "flushall"
    /\ Return(t)
    /\ UNCHANGED <<pool, storage, guards, owner>>

\* The end of Shutdown: Sync, which may fail.
SyncDone(t) ==
    /\ pc[t] = "scan"
    /\ loc[t].frame = Capacity
    /\ loc[t].op = "shutdown"
    /\ phase' = "down"
    /\ err' \in {err} \cup {e \in BOOLEAN : e /\ Faults}
    /\ Return(t)
    /\ UNCHANGED <<pool, storage, guards>>

\* The owner of the pool stops accepting work.
StopAccepting ==
    /\ phase = "run" /\ "shutdown" \in Ops
    /\ phase' = "drain"
    /\ UNCHANGED <<pool, storage, pc, loc, guards, err>>

\* Every session has returned and dropped its guards: they can be joined.
Quiescent == \A t \in Threads : pc[t] = "idle" /\ guards[t] = {}

\* Shutdown, by the owner (whose steps are those of t), once all are joined.
Shutdown(t) ==
    /\ phase = "drain"
    /\ Quiescent
    /\ phase' = "shutdown"
    /\ Goto(t, "scan")
    /\ Local(t, [NoCall EXCEPT !.op = "shutdown", !.frame = 0])
    /\ UNCHANGED <<pool, storage, guards, err>>

(***************************************************************************)
(* NewPage and DeletePage.                                                 *)
(***************************************************************************)

\* AllocatePage returns p, whose bytes on disk are not the ones NewPage makes.
Allocate(t, p) ==
    /\ pc[t] = "allocate"
    /\ Disk!Take(p)
    /\ disk' = [disk EXCEPT ![p] = "stale"]
    /\ Local(t, [loc[t] EXCEPT !.page = p])
    /\ Goto(t, "stamp")
    /\ UNCHANGED <<pool, guards, owner>>

\* AllocatePage fails, or the device is full: the frame goes back.
AllocateFails(t) ==
    /\ pc[t] = "allocate"
    /\ Faults \/ \A p \in Pages : status[p] \notin {"unborn", "free"}
    /\ free_list' = Append(free_list, loc[t].frame)
    /\ Return(t)
    /\ UNCHANGED <<frame, table, evictable, storage, guards, owner>>

\* Stamp the frame, zero its bytes and reset its epochs.
StampNew(t) ==
    /\ pc[t] = "stamp"
    /\ frame' = [frame EXCEPT ![loc[t].frame] = Stamped("Resident", loc[t].page, "latest")]
    /\ Goto(t, "insert")
    /\ UNCHANGED <<table, free_list, evictable, storage, loc, guards, owner>>

\* PageTable::Insert; a page that is mapped already aborts the process.
InsertNew(t) ==
    /\ pc[t] = "insert"
    /\ ShardFree(loc[t].page)
    /\ IF table[loc[t].page] = None
       THEN /\ table' = [table EXCEPT ![loc[t].page] = loc[t].frame]
            /\ Goto(t, "latch")
            /\ UNCHANGED phase
       ELSE /\ phase' = "aborted"
            /\ UNCHANGED <<table, pc>>
    /\ UNCHANGED <<frame, free_list, evictable, storage, loc, guards, err>>

\* DeletePage of a pinned page is rejected.
DeletePinned(t) ==
    LET f == table[loc[t].page] IN
    /\ pc[t] = "delete"
    /\ ShardFree(loc[t].page)
    /\ f # None /\ frame[f].pin_count # 0
    /\ Return(t)
    /\ UNCHANGED <<pool, storage, guards, owner>>

\* A faulty variant: a pinned frame is vacated too.
Vacate_IgnoresPins(t) ==
    LET f == table[loc[t].page] IN
    /\ pc[t] = "delete"
    /\ ShardFree(loc[t].page)
    /\ IF f = None
       THEN Goto(t, "deallocate") /\ UNCHANGED <<frame, table, loc>>
       ELSE /\ frame' = [frame EXCEPT ![f] = FreeFrame]
            /\ table' = [table EXCEPT ![loc[t].page] = None]
            /\ Local(t, [loc[t] EXCEPT !.frame = f])
            /\ Goto(t, "unevict")
    /\ disk' = [disk EXCEPT ![loc[t].page] = "dead"]
    /\ UNCHANGED <<free_list, evictable, status, guards, owner>>

\* A faulty variant: the mapping of the deleted page stays.
Vacate_KeepsMapping(t) ==
    LET f == table[loc[t].page] IN
    /\ pc[t] = "delete"
    /\ ShardFree(loc[t].page)
    /\ IF f = None
       THEN Goto(t, "deallocate") /\ UNCHANGED <<frame, loc>>
       ELSE /\ frame[f].pin_count = 0
            /\ frame' = [frame EXCEPT ![f] = FreeFrame]
            /\ Local(t, [loc[t] EXCEPT !.frame = f])
            /\ Goto(t, "unevict")
    /\ disk' = [disk EXCEPT ![loc[t].page] = "dead"]
    /\ UNCHANGED <<table, free_list, evictable, status, guards, owner>>

\* Lock the shard, and vacate the frame of a cached page without a flush.
Vacate(t) ==
    LET f == table[loc[t].page] IN
    /\ pc[t] = "delete"
    /\ ShardFree(loc[t].page)
    /\ IF f = None
       THEN Goto(t, "deallocate") /\ UNCHANGED <<frame, table, loc>>
       ELSE /\ frame[f].pin_count = 0
            /\ frame' = [frame EXCEPT ![f] = FreeFrame]
            /\ table' = [table EXCEPT ![loc[t].page] = None]
            /\ Local(t, [loc[t] EXCEPT !.frame = f])
            /\ Goto(t, "unevict")
    /\ disk' = [disk EXCEPT ![loc[t].page] = "dead"]
    /\ UNCHANGED <<free_list, evictable, status, guards, owner>>

\* SetEvictable(false), before the frame becomes stock.
Unevict(t) ==
    /\ pc[t] = "unevict"
    /\ Candidates!Remove(loc[t].frame)
    /\ Goto(t, "deallocate")
    /\ UNCHANGED <<frame, table, free_list, storage, loc, guards, owner>>

\* DeallocatePage stamps the header FREE ...
Deallocate(t) ==
    /\ pc[t] = "deallocate"
    /\ Disk!Release(loc[t].page)
    /\ Goto(t, "list")
    /\ UNCHANGED <<pool, disk, loc, guards, owner>>

\* ... and then links the page into the freelist.
DeallocateList(t) ==
    /\ pc[t] = "list"
    /\ Disk!List(loc[t].page)
    /\ Goto(t, "giveback")
    /\ UNCHANGED <<pool, disk, loc, guards, owner>>

\* Either half fails; the frame is given back all the same.
DeallocateFails(t) ==
    /\ pc[t] \in {"deallocate", "list"}
    /\ Faults
    /\ Goto(t, "giveback")
    /\ UNCHANGED <<pool, storage, loc, guards, owner>>

\* Push the vacated frame, and return, which unlocks the shard.
GiveBack(t) ==
    /\ pc[t] = "giveback"
    /\ free_list' = IF loc[t].frame = None THEN free_list ELSE Append(free_list, loc[t].frame)
    /\ Return(t)
    /\ UNCHANGED <<frame, table, evictable, storage, guards, owner>>

(***************************************************************************)
(* Guards.                                                                 *)
(***************************************************************************)

\* ReadPageGuard::Drop: release the latch; the pin is dropped next.
DropRead(t, g) ==
    /\ pc[t] = "idle"
    /\ g.mode = "read"
    /\ guards' = [guards EXCEPT ![t] = @ \ {g}]
    /\ Local(t, [NoCall EXCEPT !.op = "drop", !.page = g.page, !.frame = g.frame])
    /\ Goto(t, "unpin")
    /\ UNCHANGED <<pool, storage, owner>>

\* A faulty variant: the guard is dropped without a bump of the epoch.
DropWrite_NoBump(t, g) ==
    /\ pc[t] = "idle"
    /\ g.mode = "write"
    /\ frame' = [frame EXCEPT ![g.frame].data = "latest"]
    /\ disk' = [disk EXCEPT ![g.page] = IF @ = "latest" THEN "stale" ELSE @]
    /\ Local(t, [NoCall EXCEPT !.op = "drop", !.page = g.page, !.frame = g.frame])
    /\ Goto(t, "unlatch")
    /\ UNCHANGED <<table, free_list, evictable, status, guards, owner>>

\* The holder of a write guard has changed the page; its Drop bumps the epoch
\* first.  Every other copy of the page is now an older one.
DropWrite(t, g) ==
    /\ pc[t] = "idle"
    /\ g.mode = "write"
    /\ frame' = [f \in Frames |->
                    IF f = g.frame
                    THEN [frame[f] EXCEPT !.dirty_epoch = @ + 1, !.data = "latest"]
                    ELSE IF frame[f].page_id = g.page /\ frame[f].data = "latest"
                    THEN [frame[f] EXCEPT !.data = "stale"] ELSE frame[f]]
    /\ disk' = [disk EXCEPT ![g.page] = IF @ = "latest" THEN "stale" ELSE @]
    /\ Local(t, [NoCall EXCEPT !.op = "drop", !.page = g.page, !.frame = g.frame])
    /\ Goto(t, "unlatch")
    /\ UNCHANGED <<table, free_list, evictable, status, guards, owner>>

\* ... then releases the latch.
Unlatch(t) ==
    /\ pc[t] = "unlatch"
    /\ guards' = [guards EXCEPT ![t] = {g \in @ : g.frame # loc[t].frame}]
    /\ Goto(t, "unpin")
    /\ UNCHANGED <<pool, storage, loc, owner>>

(***************************************************************************)
(* The specification.                                                      *)
(***************************************************************************)

\* A step of a call that has started.
Step(t) ==
    \/ Unpin(t)
    \/ FetchHit(t) \/ FetchMiss(t) \/ WakeUp(t) \/ Touch(t) \/ Latch(t)
    \/ PublishLost(t) \/ Publish(t) \/ Load(t) \/ LoadFails(t) \/ Loaded(t)
    \/ AbandonErase(t) \/ AbandonFail(t) \/ AbandonDrained(t) \/ AbandonPush(t)
    \/ TryPop(t) \/ TryPopEmpty(t) \/ Evict(t) \/ EvictNone(t) \/ Peek(t)
    \/ Revalidate(t) \/ Recheck(t) \/ UnpinVictim(t) \/ GiveUp(t)
    \/ FlushCheck(t) \/ FlushSample(t) \/ FlushWrite(t) \/ FlushWriteFails(t) \/ FlushMark(t)
    \/ PinForFlush(t) \/ Scan(t) \/ ScanNext(t) \/ ScanDone(t) \/ SyncDone(t)
    \/ \E p \in Pages : Allocate(t, p)
    \/ AllocateFails(t) \/ StampNew(t) \/ InsertNew(t)
    \/ DeletePinned(t) \/ Vacate(t) \/ Unevict(t)
    \/ Deallocate(t) \/ DeallocateList(t) \/ DeallocateFails(t) \/ GiveBack(t)
    \/ Unlatch(t)

\* A session lets go of a guard.
Drop(t) == \E g \in guards[t] : DropRead(t, g) \/ DropWrite(t, g)

\* A session makes a call.
Call(t) ==
    \/ \E p \in Pages : \/ StartFetch(t, "read", p) \/ StartFetch(t, "write", p)
                        \/ StartDelete(t, p) \/ StartFlush(t, p)
    \/ StartNew(t) \/ StartFlushAll(t)

\* The pool has been shut down, or the process has aborted.
Over ==
    /\ phase \in {"down", "aborted"}
    /\ UNCHANGED vars

Next ==
    \/ /\ phase # "aborted"
       /\ \/ \E t \in Threads : Step(t) \/ Drop(t) \/ Call(t) \/ Shutdown(t) \/ SpuriousWakeup(t)
          \/ StopAccepting
    \/ Over

Spec == Init /\ [][Next]_vars

\* Every thread is scheduled, a session lets go of its guards when its stack
\* unwinds, and the owner shuts down once it has joined the sessions.  Nothing
\* is assumed of a lock that is free only now and then.
Fairness ==
    /\ \A t \in Threads : WF_vars(Step(t)) /\ WF_vars(Drop(t))
    /\ WF_vars(\E t \in Threads : Shutdown(t))

FairSpec == Spec /\ Fairness

(***************************************************************************)
(* The types of the state, and who holds a frame.                          *)
(***************************************************************************)

Labels == {"idle", "lookup", "acquire", "asleep", "wait", "touch", "latch", "publish", "load", "loaded",
           "abandon", "fail", "drain_asleep", "drain", "push", "evict", "peek", "revalidate", "recheck",
           "unpin_victim", "give_up", "flush", "sample", "write", "mark", "pin", "scan", "next",
           "allocate", "stamp", "insert", "delete", "unlatch", "unpin"} \cup DeleteHolds

FrameType == [state : {"Free", "Loading", "Resident", "Failed"}, page_id : Pages \cup {None}, pin_count : Nat,
              dirty_epoch : Nat, flushed_epoch : Nat, data : Content]
CallType == [op : Ops \cup {"none", "drop", "shutdown"}, page : Pages \cup {None},
             frame : Frames \cup {None, Capacity}, victim : Frames \cup {None},
             peeked : Pages \cup {None}, epoch : Nat]
GuardType == [page : Pages, frame : Frames, mode : {"read", "write"}]

\* The types of the state: frames, tables, the disk and each session's call.
TypeOK ==
    /\ frame \in [Frames -> FrameType]
    /\ table \in [Pages -> Frames \cup {None}]
    /\ free_list \in Seq(Frames)
    /\ evictable \subseteq Frames
    /\ status \in [Pages -> Disk!Status]
    /\ disk \in [Pages -> Content]
    /\ pc \in [Threads -> Labels]
    /\ loc \in [Threads -> CallType]
    /\ guards \in [Threads -> SUBSET GuardType]
    /\ phase \in {"run", "drain", "shutdown", "down", "aborted"}
    /\ err \in BOOLEAN

\* Where a call owns a frame that is Free, or that only it knows of.
PrivateAt == {"publish", "allocate", "stamp", "push", "unevict", "deallocate", "list", "giveback"}

\* Where a call holds a pin on loc.frame, and where on loc.victim.
PinsFrameAt == {"asleep", "wait", "touch", "latch", "load", "loaded", "abandon", "fail",
                "drain_asleep", "drain", "insert", "unpin"}
PinsVictimAt == {"flush", "sample", "write", "mark", "recheck", "unpin_victim", "give_up", "next"}

\* The threads with a guard on frame f.
GuardPins(f) == {t \in Threads : \E g \in guards[t] : g.frame = f}

\* Frame f is on the free list.
Listed(f) == \E i \in 1 .. Len(free_list) : free_list[i] = f

=============================================================================
