----------------------- MODULE BufferPoolCorrectness ------------------------
(***************************************************************************)
(* What the buffer pool promises its callers, and keeps true of its own    *)
(* state, while threads fetch, make, delete, flush and evict pages.        *)
(***************************************************************************)
EXTENDS BufferPool

\* The calls with a pin on frame f.
CallPins(f) == {t \in Threads : \/ pc[t] \in PinsFrameAt /\ loc[t].frame = f
                                \/ pc[t] \in PinsVictimAt /\ loc[t].victim = f}

\* pin_count_ is the number of pins its holders will give back: no error path,
\* lost race or declined victim drops a pin twice or forgets one.  A session has
\* at most one guard on a frame.
PinsMatchHolders ==
    /\ \A t \in Threads : \A g, h \in guards[t] : g.frame = h.frame => g = h
    /\ \A f \in Frames :
          frame[f].pin_count = Cardinality(CallPins(f)) + Cardinality(GuardPins(f))

\* The page table and the frames agree: a mapped page is in the frame that says
\* so, and a frame that holds a page is mapped, save while NewPage is about to
\* map it or AbandonLoad has just unmapped it.
MappingAgrees ==
    /\ \A p \in Pages : table[p] # None =>
          frame[table[p]].page_id = p /\ frame[table[p]].state \in {"Loading", "Resident"}
    /\ \A f \in Frames : frame[f].state \in {"Loading", "Resident"} =>
          \/ table[frame[f].page_id] = f
          \/ \E t \in Threads : pc[t] \in {"insert", "fail"} /\ loc[t].frame = f

\* Thread t is preparing or disposing of frame f.
Private(t, f) == pc[t] \in PrivateAt /\ loc[t].frame = f

\* Every frame has one home: a place on the free list, one thread, or a page.
\* None is lost, none is handed to two threads.
FramesHaveOneHome ==
    /\ \A i, j \in 1 .. Len(free_list) : free_list[i] = free_list[j] => i = j
    /\ \A t, u \in Threads : \A f \in Frames : Private(t, f) /\ Private(u, f) => t = u
    /\ \A f \in Frames :
          /\ ~(Listed(f) /\ \E t \in Threads : Private(t, f))
          /\ frame[f].state = "Free" <=> Listed(f) \/ \E t \in Threads : Private(t, f)

\* A Resident frame nobody pins can be evicted: it is a candidate, or a
\* reclaimer has just picked it.
NoLostCandidate ==
    \A f \in Frames :
        frame[f].state = "Resident" /\ frame[f].pin_count = 0
            => \/ f \in evictable
               \/ \E t \in Threads : pc[t] \in {"peek", "revalidate"} /\ loc[t].victim = f

\* A guard shows the last bytes written to its page, in a frame of that page.
GuardsSeeLatest ==
    \A t \in Threads : \A g \in guards[t] :
        frame[g.frame].page_id = g.page /\ frame[g.frame].data = "latest"

\* No write is lost: a page that is not cached, or whose cached frame nobody
\* pins and reads as clean, has its last bytes on disk.
NoLostWrite ==
    \A p \in Pages :
        status[p] = "owned" /\ disk[p] = "stale"
            => \/ table[p] # None /\ (IsDirty(table[p]) \/ frame[table[p]].pin_count > 0)
               \/ \E t \in Threads : loc[t].op = "new" /\ loc[t].page = p

\* A page on the disk's freelist is not cached, even when fetches of it race
\* its deletion: the shard is locked until its header says FREE.
DeletedPageNotCached ==
    \A p \in Pages : table[p] # None /\ frame[table[p]].state = "Resident" => status[p] = "owned"

\* The assertions of buffer_pool_manager.cpp about frames and the page table hold
\* where they stand: UnpinPage (line 175, from each of its four callers), the
\* re-validations of reclaim (435, 478), the waits of FetchFrame and AbandonLoad
\* (259, 516), DeletePage (652) and Shutdown (121).
AssertionsHold ==
    \A t \in Threads :
        /\ pc[t] = "unpin" => frame[loc[t].frame].pin_count > 0
        /\ pc[t] \in {"unpin_victim", "give_up", "next"} => frame[loc[t].victim].pin_count > 0
        /\ pc[t] = "fail" => frame[loc[t].frame].page_id \in Pages
        /\ pc[t] = "revalidate" /\ ShardFree(loc[t].peeked) /\ StillVictim(t, 0)
              => table[loc[t].peeked] = loc[t].victim
        /\ pc[t] = "recheck" /\ StillVictim(t, 1) => table[loc[t].peeked] = loc[t].victim
        /\ pc[t] \in {"asleep", "wait"} => frame[loc[t].frame].state # "Free"
        /\ pc[t] = "delete" /\ table[loc[t].page] # None
              => \/ frame[table[loc[t].page]].pin_count # 0
                 \/ frame[table[loc[t].page]].state = "Resident"
        /\ Quiescent => \A f \in Frames : frame[f].pin_count = 0 /\ frame[f].state # "Loading"

\* PageTable::Insert never finds its page mapped (page_table.hpp:31-44).
NeverAborts == phase # "aborted"

\* A pin fixes what its frame holds: from the pin to its release, through waits,
\* writebacks and the races of reclaim and deletion, a call finds the page it
\* pinned.
PinFixesIdentity ==
    \A t \in Threads :
        /\ pc[t] \in PinsFrameAt \cup {"unlatch"} => frame[loc[t].frame].page_id = loc[t].page
        /\ pc[t] \in PinsVictimAt => frame[loc[t].victim].page_id = loc[t].peeked

\* A flush never writes to a page that has been deallocated, which would put its
\* old header over the FREE stamp (disk_manager.hpp:113-120).
FlushWritesLivePage == \A t \in Threads : pc[t] = "write" => status[loc[t].peeked] = "owned"

\* Shutdown reported OK: every page's last bytes are in the file.
ShutdownSavesAll ==
    phase = "down" /\ ~err => \A p \in Pages : status[p] = "owned" => disk[p] # "stale"

Waiting == {"asleep", "wait", "drain_asleep", "drain"}

\* Nobody sleeps forever on a frame's condition variable: a fetcher learns how
\* the load ended, and a loader that failed sees its waiters leave.
WaitersWake == \A t \in Threads : pc[t] \in Waiting ~> pc[t] \notin Waiting

\* Once the owner stops accepting calls, every session returns from the call it
\* is in, and the pool is shut down.
JoinTerminates == phase = "drain" ~> phase = "down"

(***************************************************************************)
(* What comments and design documents say, and the code does not do.       *)
(***************************************************************************)

\* Thread t waits for a content latch that thread u holds.
WaitsForLatch(t, u) ==
    \/ pc[t] = "latch" /\ u \in Writers(loc[t].frame)
    \/ pc[t] = "latch" /\ loc[t].op # "read" /\ u \in Readers(loc[t].frame)
    \/ pc[t] = "sample" /\ u \in Writers(loc[t].victim)

\* DD-002:184 and DD-003:69: content latches are taken in a fixed order, so no
\* threads wait for one another.
NoLatchCycle ==
    \A S \in SUBSET Threads \ {{}} :
        \E t \in S : \A u \in S : ~WaitsForLatch(t, u)

=============================================================================
