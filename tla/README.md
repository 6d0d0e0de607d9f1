# A TLA+ model of kernSQL

kernSQL is a single-node storage engine in C++. This directory holds TLA+
specifications of its storage layers, the TLC configurations that check them on
small instances, and TLAPS proofs of the theorems that matter most. Every
definition is translated from the code under `src/src`; `PROJECT.json` gives the
lines of each one.

## The system

| Part | Source | Module | Status |
|---|---|---|---|
| Disk manager: one file of pages, a freelist threaded through page headers | `storage/disk_manager.*` | `DiskManager`, abstract: `PageAllocator` | modelled, proved |
| Page header, ids | `common/page_header.hpp`, `common/types.hpp` | in `DiskManager` | type and next link |
| Replacer: CLOCK with usage counts | `buffer/replacer.hpp` | `Replacer`, abstract: `CandidateSet` | modelled, proved but for liveness |
| Page table, free list, frame, buffer pool, guards | `buffer/*` | `BufferPool`, `BufferPoolCorrectness` | modelled, safety proved |
| Heap page: tuples in one page body | `heap/heap_page.*` | `HeapPage`, abstract: `SlotPage`, `SlotPageSpec` | modelled, proved |
| Table heap and iterator: a chain of heap pages | `heap/table_heap.*` | `TableHeap` | modelled, safety proved but for byte counts |
| B+tree node pages | `indices/b_plus_tree_page.*` | `BPlusTreeNode` | modelled as operators |
| B+tree, index iterator | `indices/b_plus_tree.*` | `BPlusTree`, `BPlusTreeCorrectness`, abstract: `OrderedIndex` | modelled; failures and frame budget proved, the rest model-checked |
| Pool statistics, logger, status, shell | `buffer/pool_stats.hpp`, `common/*`, `shell/main.cpp` | none | not modelled |

The layers call downwards only. The table heap and the B+tree reach pages
through guards of the buffer pool; a guard pins a frame and holds its content
latch. The pool reads and writes pages through the disk manager, and takes
victims from the replacer. Sessions are threads; they share the pool, and they
may share a table heap. An index has one writer or several readers at a time.
There is no write-ahead log.

Each layer is checked against an abstract specification of the one below it:

    TableHeap  --uses-->  SlotPage       <--implements--  HeapPage
    BufferPool --uses-->  PageAllocator  <--implements--  DiskManager
    BufferPool --uses-->  CandidateSet   <--implements--  Replacer
                          OrderedIndex   <--implements--  BPlusTree

`TableHeap` evaluates the page operators of `SlotPage`; `SlotPageSpec` makes them
the steps of a specification, and that is what `HeapPage` is shown to implement.
`BufferPool` INSTANCEs the other two, and its steps are conjoined with theirs.
`OrderedIndex` is what callers of the B+tree see: a set of entries, looked up,
changed and scanned in key order.

## The modules and the code

**DiskManager.** The file is `size` and `hdr`, the header of each page. Memory is
`page_count`, `freelist_head` and the latch. `AllocatePage` and `DeallocatePage`
hold `meta_latch_` over several reads and writes; each of these is one action, so
a call may fail, or the process end (`Crash`), between any two of them. `Open`
reads the file back, and creation is five writes (`CreateWrite`), each of which
may fail. `WritePage` is latch-free and lets an owner put any content type on its
page. `stack`, `owned` and `created` are history: the pages on the freelist, the
pages callers own, and whether the file was ever completely created.
`ShortWrites` says whether the write of a whole page may stop in the middle, which
leaves a partial page at the end of the file or the zeroed header of a page that
an earlier call left unpublished. The write of a header is 32 bytes inside one
block and is taken to happen whole or not at all. A crash is the
end of the process: what `pwrite` accepted is in the file. The loss of unsynced
writes in a power failure is outside the code's guarantees
(`disk_manager.hpp:62-64`) and is not modelled.

**PageAllocator.** What callers may rely on: a page is unborn (past the end of
the file), free, owned or lost; an allocation takes an unborn or a free page; a
failure or a crash only loses pages. `ImplementsAllocator` maps the disk manager's
state onto this.

**Replacer.** `Evict` is a loop under a mutex, but `RecordAccess` takes no lock:
the sweep is therefore one action per frame, with its read and its decrement
apart, and accesses come in between. `SweepBound` is the bound of the code's loop.

**BufferPool.** An action is a critical section: under a frame's metadata mutex,
a shard of the page table, the free list or the replacer. Threads interleave
between any two. `pc` and `loc` are a thread's place in its call and its locals.
Content latches and the shard that `DeletePage` keeps over `DeallocatePage` are
held from step to step. The bytes of a page are `latest`, `stale` or `dead`,
which is what the properties tell apart. Calls are `FetchPageRead`,
`FetchPageWrite`, `NewPage`, `DeletePage`, `FlushPage`, `FlushAllPages`,
`Shutdown` and the drop of a guard. With `Racy = FALSE` the callers keep to the
rule that nobody uses a page while another deletes it. The properties of the pool
are in `BufferPoolCorrectness`.

**HeapPage.** The page body byte by byte: slot array growing up, tuples growing
down, and the sub-header counters. `Update` has the code's three outcomes (in
place, moved within the page, after a compaction) and its refusal. A tuple is a
short sequence of bytes of two kinds. `NDEBUG` tells whether the build leaves
out the poisoning of freed bytes.

**TableHeap.** Work under one page guard is one action. Two latches outlive a
step: an inserter keeps the last page while it extends the chain, and an iterator
keeps the page of its row. The tuples are told apart by their length.
`rows`, `balance`, `loc.moved` and the `stable`, `seen` and `twice` fields of an
iterator are history. With `Racy = FALSE` a thread changes only the rows it
stored, as under row locks. A thread with an open iterator makes no other call,
the rule of `table_heap.hpp:56-72`. An iterator whose `Next` reports an error is
not used again ("the scan cannot continue", `table_heap.hpp:91`). The relaxed
atomic `insert_hint_` is read as its latest value; a stale one names another page
of the chain, and the deletes of other threads already move the hint to any page.

**BPlusTreeNode.** Searches, inserts, removals, splits, rotations and merges of
one or two nodes, as operators on records. The code keeps the key of an internal
node's first child at INT64_MIN; so does the model.

**BPlusTree.** The table's lock lets in one writer or several readers, and no
mutation runs while an iterator lives, so calls follow one another. A call is
still a series of steps: each call to the pool that can fail, each level of a
split or of a merge, and each free of a page is one, and any of them may fail.
`Insert` counts its splits and allocates every page before it writes (`allocate`,
`split`, `ascend`); `Delete` plans, with every sibling latched, before it writes
(`plan`, `apply`, `collapse`), and frees what it has unlinked last (`free`). The
locals include the write path, the plan and the pages in hand, so what a call
pins is read off its state (`Held`). `loc.before` and `leaked` are history.

**BPlusTreeCorrectness.** The tree as a whole: the walk of the code's own
`CheckInvariants`, where each page belongs, and the refinement mapping to
`OrderedIndex`.

The proofs are in `DiskManagerProofs`, `ReplacerProofs`, `HeapPageProofs`,
`TableHeapProofs`, `BPlusTreeProofs` and, for the pool, `BufferPoolOwnership` (the
invariant `Structure`), `BufferPoolData` (the other invariants and the kinds of
step their proofs tell apart), `BufferPoolStructure`, `BufferPoolContents` (that
the steps keep them) and `BufferPoolTheorems` (the results). `RunningTotal` is the
sum over the slots of a page, as a function that a proof can unfold.

Definitions named `X_Something` that stand before `X` under a comment "A faulty
variant" are plausible mistakes in the code of `X`. No specification uses them:
putting one in the place of `X` must violate the property that guards it.

## What TLC checks

Runs that pass:

| Run | Instance | Shows |
|---|---|---|
| `disk_manager` | 2 threads, 3 data pages | the freelist in memory and on disk is a chain of distinct FREE pages after every failure and crash; an owned page is never FREE; page writes may stop in the middle, and only a partial last page keeps the file from being reopened; the refinement of `PageAllocator` |
| `replacer` | 3 frames, usage cap 3 | the count agrees with the flags; a sweep ends under any accesses; the refinement of `CandidateSet` |
| `pool_reclaim` | 2 threads, 2 frames, 3 pages | hits, evictions and writebacks of one frame race: one frame per page, a pinned frame keeps its page, a guard sees the last bytes written, no write is lost |
| `pool_calls` | 2 threads, 2 frames, 2 pages, failing disk | every call and error path: pins match their holders, a frame is in exactly one place, no assertion or abort is reached, a flush writes only live pages, an OK from `Shutdown` means all is on disk |
| `pool_liveness` | 2 threads, 1 frame, 2 pages, failing disk, racing deletes | a deallocated page is not kept in the cache; waiters wake; the sessions can be joined |
| `heap_page` | a body of 7 bytes, tuples of 1 or 2 | the accounting of `CheckInvariants` after every operation, and each slot reads back its tuple |
| `table_heap` | 2 threads, one of which scans, 3 pages, failing pool, 6 calls | concurrent extension leaks no page; every stored row is there once with its value; a scan returns every row that kept its RID, and no RID twice |
| `index` | 8 keys, 13 pages, fanouts 3/3 and 4/3, any call of the pool failing | from an empty root to three levels and back: the tree passes its own `CheckInvariants` whenever no mutation is writing; every page in use has one home; no page is latched twice by one call; an error changes nothing; the frame budget of DD-005; the refinement of `OrderedIndex` |

Runs that show where the code and its documentation disagree:

- `disk_deallocate_retry`: `DeallocatePage` stamps FREE and then fails to
  persist the head. Its retry meets the "already free" branch and returns OK, and
  the page is on no list.
- `pool_racy_abort`: a fetch passes its first lookup, the page is deleted, and
  the fetch maps it again as `Loading`. `NewPage` then gets the same id and its
  insertion aborts the process.
- `pool_latch_cycle`: a miss made with a guard held flushes a dirty victim and
  waits for its latch, while the victim's writer waits for that guard.
- `table_heap_update`: two updates relocate one row. The second one finds its
  original gone and takes that for a deletion. Both copies stay and both calls
  return OK.

Met while modelling, and left without a run:

- The pool reports `BufferPoolFull` while other threads have claimed the only
  evictable frames, where `buffer_pool_manager.hpp:58-59` speaks of pins.
- A short write when the file is extended makes the next `Open` report corruption,
  against `disk_manager.hpp:36-38`. `disk_manager` takes these writes, and
  `NoFalseCorruption` says that nothing else makes `Open` or `AllocatePage` report
  corruption of a file that was completely created.
- A creation that fails in its fifth write leaves a file that the next `Open`
  accepts, where `disk_manager.cpp:57-61` expects a refusal. The file is sound.

### Bounds

Two threads are enough for the races the code guards against: each is between
one thread in the middle of a call and one that makes complete calls. Three pages
over two frames force evictions with a choice; one frame makes every miss contend
for it. Two shards let both the same-shard and the other-shard case happen.
`MaxEpoch` bounds the writes to a page while it stays cached: two allow a write
during a writeback of an earlier one. `MaxWrites` bounds the writes to all the
cached pages together: two allow either that or a dirty page in each frame, and
an eviction frees its share of the bound; `pool_latch_cycle`, which makes nothing
but writes, has six, all that three pages admit. Three data pages let the freelist hold two
pages while a third is allocated. The heap body holds two of the longest tuples
or three short ones, so that pages fill, relocate and compact; three pages let
the chain grow twice; with a probe limit of two a full chain is not completely
probed. `MaxCalls` ends a behaviour of the table heap after six calls.

Eight keys over a fanout of three or four make a tree of three levels, so that a
split and a merge go through an internal node that is not the root, and rotations
go both ways. Thirteen pages are more than any such tree and the call on it need.
`MaxLeaks` and the constraint `LeakBound` bound what a failing `DeletePage` may
lose: one page, after which the run goes on while the index holds few entries.
Page ids are only names. Between calls `View` takes trees that differ by a
renaming of pages for one state; it keeps the number of free pages. What a call
does depends on the free pages only through whether there is one to take, and
`NewPage` gives a definite one of them, so a renaming of the state is followed
by a renaming of its steps.

Symmetry is over threads, byte contents or page names that no definition tells
apart, and is used in no run that checks liveness.

### Fairness

`Replacer` assumes that the thread in `Evict` keeps running (`WF` of its steps):
it holds a mutex and waits for nothing. `BufferPool` assumes that a thread that
can take a step of its call takes it, that guards are dropped in the end, and
that the owner shuts down. Nothing is assumed about who gets a latch first, so
nothing is claimed that depends on it. The table heap has no liveness property:
`std::shared_mutex` promises a waiting writer nothing while readers come and go.
The calls of the B+tree follow one another and loop over nothing but its height,
and no liveness is claimed of them.

Every run checks deadlock. The pool may rest once it is shut down (`Over`) and the
table heap once all its calls have returned (`Rest`); the other modules can always
take a call. A deadlock is a thread stuck in the middle of one.

## What TLAPS proves

The theorems hold for every value of the constants that meets the ASSUMEs of the
modules: any number of threads, frames, pages, shards, keys and tuples, any
capacity, fanout, height, page size and probe limit. The ASSUMEs say that the
values that stand for "none" are no thread, page or frame; that capacity, shards
and usage cap are positive; that the file can hold more than the two reserved
pages; that tuples are not empty and two of them fit on a page, as the
`static_assert` of `heap_page.hpp` says; and that INT64_MIN is the least key.
Some theorems ASSUME `~Racy` besides, and say so in their statement. The bounds
of the models (`MaxEpoch`, `MaxWrites`, `MaxCalls`, `MaxLeaks`) are any numbers.

*Disk manager.* The freelist invariant is not inductive: it does not say what a
call in progress knows. `Inductive` adds that only the holder of the latch is in a
call (`LatchHeld`), what the file looks like during creation (`FileShape`), how
the head on disk relates to the list in memory when a crash comes between the two
(`PersistedHead`), that all pages concerned are inside the file (`InExtent`), and
what each thread knows at each label (`CallInv`); the types of the state are part
of it. There is one lemma per action, and `InductiveNext` collects them. From it
follow `TypeCorrectness`, `FreelistSafety`, `OwnedPagesSafety`,
`PersistedHeadSafety`, `NoFalseCorruptionHolds` (short writes included), the action
property `PublicationOrder`, and `Refinement` (the disk manager
implements `PageAllocator`: every step is one of its steps or a stutter).

*Replacer.* `Inductive` adds to the count that the hand stays on its candidate
between finding and claiming it, and that a count about to be decremented is
positive. It gives `CountSafety` and `Refinement`.

*Buffer pool.* Four invariants, each proved with the ones before it.

1. `Structure` says who may do what with which frame. The part that a call plays
   in the life of a frame (`Role`: it has it to itself, is loading it, draining
   it, inserting it) is read off its label, and every frame that is not Resident
   has exactly one such call or is on the free list (`Home`, `OwnersDiffer`). Pins
   are counted as a sum of two cardinalities: calls at labels that hold a pin, and
   guards (`Counted`). None of the properties is inductive without it: that an
   unpinned frame may be taken needs the count, the count needs to know where each
   call stands, and that needs `PinnedOK` (a pinned frame keeps its page and a
   state fit for the label). It holds whatever the callers do, fetches that race a
   deletion included. It gives `PoolTypes`, `PinsAreCounted`,
   `PinnedFrameKeepsPage`, `TableAgrees`, `FramesAreNotLost`,
   `CandidatesAreNotLost` and `PoolAssertions`. The last is about the assertions
   on pins, lists and page ids; those that bound a frame id or a shard index are
   part of the types.
2. `Settled` adds the pages: a Resident frame's page has an owner, a page being
   deleted stays unmapped while its shard is locked, and the epoch a flush has
   sampled is not behind the one a writer will use. It too holds for racing
   callers, and gives `FreedPageIsUncached` and `FlushIsOfLivePage`.
3. `Faithful` is about bytes, and assumes `~Racy`: every Resident frame has the
   last bytes of its page, and a page whose bytes on disk are old is being made,
   or its frame is dirty or latched by a writer (`PageData`). Between a writeback
   and its mark the frame must stay dirty if a writer came in between
   (`ThreadData`). It gives `InsertNeverAborts`, `GuardsShowLatest` and
   `WritesAreNotLost`. `pool_racy_abort` shows that the first of these fails
   without the assumption.
4. `Closing` says that `Shutdown` runs alone and which frames it has left clean;
   with `Faithful` it gives `ShutdownIsComplete`.

*Heap page.* `CheckInvariants` is not inductive: it lets two tuples overlap, and
then an update of one would change the other. `Good` adds that the tuples of two
slots share no byte (`Apart`). The accounting is a sum over the slots, and the
prover has no induction over data; the lemmas on `Total` are proved by the least
counterexample, which `LeastNat` takes from the well-foundedness of the numbers.
A change of one slot changes the sum by the change of its length
(`OneSlotChanges`), which covers inserts, deletes and both updates; a compaction
puts the tuples one below the other at the running totals of their lengths
(`TargetsStack`, `TuplesPacked`), so that the copies share no byte and the dead
bytes are exactly what is gained. `Good` gives `CheckAlwaysPasses`, and with
`NextShows`, which follows the tuple of each slot through every step, it gives
`PageImplementsSlots`. The ASSUMEs are the layout of `heap_page.hpp` and that a
tuple is a sequence of bytes.

*Table heap.* Three invariants, again each on the ones before it.

1. `Sound`: the heap pages are the elements of one sequence, each once, in link
   order (`Chained`); a call that extends the chain stands at its last page, and
   the page it has allocated is not on the chain (`CallOK`); no two calls extend
   the same page or with the same page (`Apart`). That the latch on the last page
   is the extension lock is what keeps `Apart`. It gives `ChainStaysWhole`: no
   race of inserters leaks a page or links one twice.
2. `Held` assumes `~Racy`: what is stored under a RID is the row of the caller
   that holds it, or the copy of exactly one call that has not returned yet; and
   the original that an update is moving is still there and still its caller's.
   It gives `RowsStayHeld`. `table_heap_update` shows what goes wrong when two
   threads update one row.
3. `Scanned`: there is a chain along which every scan has seen only rows that it
   has passed, and of the rows that were there throughout all that it has passed.
   Since `Link` only makes the chain longer, what is behind a scan stays behind
   it (`ScanKept`). It gives `ScansStayComplete`, which is about RIDs: a row that
   another thread relocates during a scan may come under its old and its new one.

*B+tree.* `FailSafe` says what each label of a mutation knows: nothing that was
in use when the call began has changed before the last step that can fail, and
the pages that a failed call gives back are those it took. It gives the action
property `ErrorsChangeNothing`. `PagesSound` (the shape of pages and locals, and
that the header names the height the call has read) and `Budget` (how many frames
each label holds, in terms of the height and the level the plan has reached) give
`FramesWithinBudget`, the 2H + 2 and 2H frames of DD-005 for every height H.

## What is only model-checked

- Liveness (`EvictReturns`, `WaitersWake`, `JoinTerminates`): the prover has no
  ENABLED.
- The byte counts in the `TypeOK` of `TableHeap`. They are proved of one page, for
  the bytes (`CheckAlwaysPasses`), and not of the chain.
- The soundness of the B+tree as a whole (`TreeIsSound`, `PagesHaveOneHome`,
  `NoPageLatchedTwice`, `AssertionsHold`, `IsOrderedIndex` and its `TypeOK`): they
  speak of a walk over a tree of any height, a recursion whose properties would
  need one too.

## Not modelled

- `Sync`, `page_lsn`, `checksum`, `prev_page_id`: written, never read.
- The loss of unsynced writes, and with it the crash between the two writebacks
  of a chain extension, which DD-004 accepts.
- Statistics and logging, which nothing branches on, and the shell, a
  single-threaded front end.
- Reads that change nothing (`TableHeap::Get`) and moves of guards and iterators.
- Heap pages whose type byte is wrong: the pages a table or an index reaches are
  pages it wrote.
