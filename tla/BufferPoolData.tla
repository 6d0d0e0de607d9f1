--------------------------- MODULE BufferPoolData ---------------------------
(***************************************************************************)
(* The pages and their bytes: the invariants Settled, Faithful and Closing,*)
(* and the kinds of step that their proofs tell apart.                     *)
(***************************************************************************)
EXTENDS BufferPoolOwnership

(***************************************************************************)
(* Pages, their owners and the epochs of their frames, whoever deletes what. *)
(***************************************************************************)

\* The frame a thread has latched, or is about to, is where its page is mapped.
Held(t) ==
    /\ at(t) \in {"touch", "latch"} => table[loc[t].page] = loc[t].frame
    /\ at(t) = "wait" /\ frame[loc[t].frame].state = "Resident" => table[loc[t].page] = loc[t].frame
    /\ \A g \in guards[t] : table[g.page] = g.frame

\* DeletePage keeps its page unmapped; the page is owned until its header says FREE.
DeleteOK(t) ==
    /\ at(t) \in DeleteHolds => table[loc[t].page] = None
    /\ at(t) \in {"delete", "unevict", "deallocate"} => status[loc[t].page] = "owned"
    /\ at(t) = "list" => status[loc[t].page] = "lost"

\* A new page, and a page whose header has been read, has an owner.
OwnedOK(t) ==
    (loc[t].op = "new" /\ loc[t].page # None) \/ at(t) = "loaded" => status[loc[t].page] = "owned"

\* Nobody makes or deletes a page that a thread is deleting.
Claims ==
    \A t, u \in Threads :
        loc[t].op = "delete" =>
            /\ loc[u].op = "delete" /\ loc[u].page = loc[t].page => u = t
            /\ loc[u].op = "new" /\ at(t) # "giveback" => loc[u].page # loc[t].page

\* The epoch FlushFrame has sampled: nobody writes the page while it is written back.
SampleOK(t) ==
    /\ at(t) = "write" => /\ loc[t].epoch = frame[loc[t].victim].dirty_epoch
                          /\ Writers(loc[t].victim) = {}
    /\ at(t) = "mark" => loc[t].epoch <= frame[loc[t].victim].dirty_epoch

\* A Resident frame's page has an owner; only a Resident frame is dirty.
LiveOK(f) ==
    /\ frame[f].state = "Resident" => status[frame[f].page_id] = "owned"
    /\ frame[f].flushed_epoch <= frame[f].dirty_epoch
    /\ frame[f].state # "Resident" => frame[f].dirty_epoch = frame[f].flushed_epoch

\* What holds of pages and epochs whoever deletes what.
Settled ==
    /\ \A t \in Threads : Held(t) /\ DeleteOK(t) /\ OwnedOK(t) /\ SampleOK(t)
    /\ \A f \in Frames : LiveOK(f)
    /\ Claims

(***************************************************************************)
(* The bytes, when nobody deletes a page that others fetch.                 *)
(***************************************************************************)

\* The page of a fetch has an owner who is done making it, and is not deleted.
Fetching(t) ==
    loc[t].op \in Fetches =>
        /\ status[loc[t].page] = "owned" /\ disk[loc[t].page] # "dead"
        /\ \A u \in Threads : loc[u].op \in {"new", "delete"} => loc[u].page # loc[t].page

\* A new page is not mapped until NewPage maps it, and is made by one thread.
Making(t) ==
    loc[t].op = "new" =>
        /\ at(t) \in {"stamp", "insert"} => table[loc[t].page] = None
        /\ \A u \in Threads : loc[u].op = "new" /\ loc[u].page = loc[t].page /\ loc[t].page # None => u = t

\* A frame that has just been read holds the last bytes of its page; a flush that
\* is to mark a frame, or a writer that is to let go of it, leaves it dirty unless
\* the disk has those bytes.
ThreadData(t) ==
    /\ at(t) = "loaded" => frame[loc[t].frame].data = "latest"
    /\ at(t) = "mark" /\ disk[loc[t].peeked] = "stale" => loc[t].epoch < frame[loc[t].victim].dirty_epoch
    /\ at(t) = "unlatch" /\ disk[loc[t].page] = "stale" => IsDirty(loc[t].frame)

\* A page whose bytes on disk are old is being made, or its frame is dirty or latched
\* by a writer.
PageData(p) ==
    status[p] = "owned" /\ disk[p] = "stale" =>
        \/ \E t \in Threads : loc[t].op = "new" /\ loc[t].page = p
        \/ table[p] # None /\ (IsDirty(table[p]) \/ Writers(table[p]) # {})

Faithful ==
    /\ phase # "aborted"
    /\ \A t \in Threads : Fetching(t) /\ Making(t) /\ ThreadData(t)
    /\ \A f \in Frames : frame[f].state = "Resident" => frame[f].data = "latest"
    /\ \A p \in Pages : PageData(p)

(***************************************************************************)
(* Shutdown.                                                               *)
(***************************************************************************)

\* Shutdown leaves the frames it has passed clean.
Passed(t) ==
    loc[t].op = "shutdown" /\ ~err =>
        /\ \A f \in Frames : f < loc[t].frame \/ (at(t) = "next" /\ f = loc[t].frame) => ~IsDirty(f)
        /\ at(t) = "mark" => loc[t].epoch = frame[loc[t].victim].dirty_epoch

\* Shutdown runs alone.
Closing ==
    /\ phase \in {"run", "drain"} => \A t \in Threads : loc[t].op # "shutdown"
    /\ phase \in {"shutdown", "down"} =>
          \A t \in Threads : guards[t] = {} /\ (at(t) = "idle" \/ loc[t].op = "shutdown")
    /\ phase = "down" => \A t \in Threads : at(t) = "idle"
    /\ phase = "down" /\ ~err => \A f \in Frames : ~IsDirty(f)
    /\ \A t, u \in Threads : loc[t].op = "shutdown" /\ loc[u].op = "shutdown" => t = u
    /\ \A t \in Threads : Passed(t)

(***************************************************************************)
(* Kinds of step.                                                          *)
(***************************************************************************)

\* Frame f holds the same page in the same state, with the same epochs.
Alike(f) ==
    /\ SameShape(f)
    /\ frame'[f].dirty_epoch = frame[f].dirty_epoch /\ frame'[f].flushed_epoch = frame[f].flushed_epoch

\* Nobody but t has a pin on f, or f is not Resident.
Loose(t, f) == frame[f].state = "Resident" => PinsOf(f) \subseteq {t} /\ GuardPins(f) = {}

\* Frame f is not Resident, and clean, after the step.
Emptied(f) == frame'[f].state # "Resident" /\ frame'[f].dirty_epoch = frame'[f].flushed_epoch

\* Frame f has changed, with its pins where its page is mapped if it is Resident.
Entered(t, f) ==
    LiveOK(f)' /\ (frame'[f].state = "Resident" => \A u \in PinsOf(f) \ {t} : table'[loc[u].page] = f)

\* Frame f holds the same page in the same state, and has been marked clean or not.
Marked(f) == LiveOK(f)' /\ SameShape(f) /\ frame'[f].dirty_epoch = frame[f].dirty_epoch

\* The page of a loose frame is unmapped, and a page whose shard is free is mapped.
Remapped(t, p) ==
    \/ table'[p] = table[p]
    \/ table'[p] = None /\ (table[p] # None => Loose(t, table[p]))
    \/ table[p] = None /\ ShardFree(p)

\* Thread t moves to a with locals l and leaves every frame and mapping it may not touch alone.
Tidy(t, a, l) ==
    /\ Moves(t, a, l) /\ UNCHANGED <<status, guards>>
    /\ \A f \in Frames : Alike(f) \/ Marked(f) \/ (Loose(t, f) /\ (Emptied(f) \/ Entered(t, f)))
    /\ \A p \in Pages : Remapped(t, p)

\* What thread t needs where the step takes it.
Lands(t, a, l) ==
    /\ a \in {"touch", "latch"} => table'[l.page] = l.frame
    /\ a = "wait" /\ frame'[l.frame].state = "Resident" => table'[l.page] = l.frame
    /\ a \in DeleteHolds => table'[l.page] = None
    /\ a \in {"delete", "unevict", "deallocate", "loaded"} => status[l.page] = "owned"
    /\ l.op = "new" /\ l.page # None => status[l.page] = "owned"
    /\ a = "list" => status[l.page] = "lost"
    /\ a = "write" => l.epoch = frame'[l.victim].dirty_epoch /\ Writers(l.victim) = {}
    /\ a = "mark" => l.epoch <= frame'[l.victim].dirty_epoch

\* Thread t goes on making or deleting the page it was, or is doing neither.
Goes(t, a, l) ==
    l.op \in {"new", "delete"} =>
        l.op = loc[t].op /\ l.page = loc[t].page /\ (at(t) = "giveback" => a = "giveback")

\* Frame f is as it was but for its pins.
Twin(f) == Alike(f) /\ frame'[f].data = frame[f].data

\* Thread t goes on with the page it was fetching, making or deleting, or is done.
Onward(t, l) == l.op \in Fetches \cup {"new", "delete"} => l.op = loc[t].op /\ l.page = loc[t].page

\* It does not leave a new page half made.
Stays(t, l) ==
    /\ Onward(t, l)
    /\ loc[t].op = "new" /\ loc[t].page # None => l.op = "new" /\ l.page = loc[t].page

\* A step of thread t that changes no page, no guard and no frame but its pins.
Quietly(t, a, l) ==
    /\ Moves(t, a, l) /\ UNCHANGED <<table, status, disk, guards>> /\ (phase' = "aborted" => phase = "aborted")
    /\ \A f \in Frames : Twin(f)
    /\ a \notin {"loaded", "mark", "unlatch", "stamp", "insert"}
    /\ Lands(t, a, l) /\ Goes(t, a, l) /\ Stays(t, l)

\* Labels where a thread holds nothing that others could take from it.
PlainAt == {"idle", "lookup", "acquire", "publish", "load", "abandon", "fail", "drain_asleep", "drain", "push",
            "evict", "peek", "revalidate", "recheck", "unpin_victim", "give_up", "flush", "sample", "pin",
            "scan", "next", "allocate", "unpin", "unlatch"}

\* Frame f is nobody else's and clean, and holds the bytes of its page if the step
\* leaves it Resident.
Changed(t, f) ==
    /\ Loose(t, f) /\ ~IsDirty(f) /\ \A u \in Threads \ {t} : ~Owns(u, f)
    /\ frame'[f].state = "Resident" =>
          \/ frame'[f].data = "latest"
          \/ at(t) = "loaded" /\ loc[t].frame = f /\ frame'[f].data = frame[f].data

\* A clean frame's page is unmapped, or the page of the call is mapped.
Cleared(t, p) ==
    \/ table'[p] = table[p]
    \/ table'[p] = None /\ Loose(t, table[p]) /\ ~IsDirty(table[p])
    \/ table[p] = None /\ ShardFree(p) /\ p = loc[t].page /\ loc[t].op \in Reclaims

\* The process aborts where NewPage finds its page mapped, and nowhere else.
Aborts(t) == phase' = "aborted" /\ phase # "aborted" => at(t) = "insert" /\ table[loc[t].page] # None

\* A step of thread t that changes no page on disk and no guard.
Calmly(t, a, l) ==
    /\ Moves(t, a, l) /\ UNCHANGED <<status, disk, guards>> /\ Aborts(t)
    /\ \A f \in Frames : Twin(f) \/ (Changed(t, f) /\ (Alike(f) \/ Emptied(f) \/ Entered(t, f)))
    /\ \A p \in Pages : Cleared(t, p)
    /\ a \notin {"mark", "unlatch", "stamp"}
    /\ a = "loaded" => at(t) = "load" /\ l = loc[t] /\ frame'[l.frame].data = disk[l.page]
    /\ a = "insert" => at(t) \in {"stamp", "insert"} /\ l = loc[t] /\ UNCHANGED table
    /\ Lands(t, a, l) /\ Goes(t, a, l) /\ Stays(t, l)

\* The steps that change no page on disk and no guard, all of them.
CalmStep(t) ==
    \/ FetchMiss(t) \/ LoadFails(t) \/ PublishLost(t) \/ AbandonPush(t) \/ TryPop(t) \/ TryPopEmpty(t)
    \/ Evict(t) \/ EvictNone(t) \/ Peek(t) \/ FlushCheck(t) \/ FlushWriteFails(t)
    \/ ScanDone(t) \/ SyncDone(t) \/ AllocateFails(t) \/ DeletePinned(t) \/ GiveBack(t)
    \/ Unpin(t) \/ GiveUp(t) \/ UnpinVictim(t) \/ ScanNext(t) \/ PinForFlush(t) \/ Scan(t) \/ FetchHit(t)
    \/ WakeUp(t) \/ Touch(t) \/ SpuriousWakeup(t) \/ FlushSample(t) \/ Unevict(t) \/ DeallocateFails(t)
    \/ Load(t) \/ AbandonErase(t) \/ AbandonFail(t) \/ AbandonDrained(t) \/ Revalidate(t) \/ Recheck(t)
    \/ Publish(t) \/ InsertNew(t) \/ Loaded(t) \/ StampNew(t)
    \/ (\E p \in Pages : StartFlush(t, p)) \/ StartFlushAll(t) \/ Shutdown(t)

=============================================================================
