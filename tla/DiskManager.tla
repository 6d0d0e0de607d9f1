----------------------------- MODULE DiskManager -----------------------------
(***************************************************************************)
(* src/src/storage/disk_manager.cpp: one database file, its reserved meta   *)
(* and catalog pages, and the freelist threaded through the headers of the  *)
(* freed pages, whose head page 0 persists.                                 *)
(*                                                                         *)
(* Threads interleave between any two system calls; AllocatePage and        *)
(* DeallocatePage hold meta_latch_ from start to end, ReadPage and          *)
(* WritePage take no latch.  Any write may fail, the process may be killed  *)
(* between any two writes, and the file is opened again afterwards.  A      *)
(* write that completed survives the kill (DD-001 states the guarantee for  *)
(* kill -9, not for power loss).                                            *)
(***************************************************************************)
EXTENDS Integers, Sequences

CONSTANTS
    Threads,      \* the threads that call the disk manager
    NoThread,     \* meta_latch_ is free
    MaxPages,     \* pages the device has room for; the next extension gets ENOSPC
    ShortWrites   \* whether the write of a whole page may stop in the middle

ASSUME ThreadsAssumption == NoThread \notin Threads
ASSUME MaxPagesAssumption == MaxPages \in Nat /\ MaxPages > 2
ASSUME ShortWritesAssumption == ShortWrites \in BOOLEAN

INVALID_PAGE == -1
META_PAGE_ID == 0
CATALOG_ROOT_PAGE_ID == 1

PageIds == 0 .. MaxPages - 1
DataPages == 2 .. MaxPages - 1
Links == PageIds \cup {INVALID_PAGE}

\* "ZEROED" is the all-zero header write_empty_page leaves; "HEAP" stands for
\* every type a layer above stamps on a page it owns.
PageTypes == {"ZEROED", "META", "CATALOG", "ALLOCATED", "FREE", "HEAP"}
PageHeader == [type : PageTypes, next : Links]

VARIABLES
    hdr,            \* the header of every page of the file
    size,           \* whole pages in the file
    tail,           \* the file ends in a partial page
    mode,           \* the process: "closed", "creating" (in Open) or "open"
    step,           \* the write of Open's brand-new-file branch that is next
    page_count,     \* page_count_
    freelist_head,  \* freelist_head_
    latch,          \* owner of meta_latch_
    pc,             \* where each thread stands
    arg,            \* free_page, new_page or page_id of the call in progress
    nxt,            \* next_free of the call in progress
    owned,          \* history: pages callers hold
    stack,          \* history: the freelist freelist_head_ starts, last page first
    created,        \* history: some Open of this file has succeeded
    result          \* history: the result of the last completed call

file == <<hdr, size, tail>>
memory == <<mode, step, page_count, freelist_head>>
calls == <<latch, pc, arg, nxt>>
history == <<owned, stack, created, result>>
vars == <<file, memory, calls, history>>

NoResult == [op |-> "none", page |-> INVALID_PAGE, st |-> "none"]
Returns(op, p, st) == result' = [op |-> op, page |-> p, st |-> st]

Zeroed == [type |-> "ZEROED", next |-> 0]
Stamp(type, next) == [type |-> type, next |-> next]

\* The head of a freelist whose pages are s, last page first.
Top(s) == IF s = <<>> THEN INVALID_PAGE ELSE s[Len(s)]
Pop(s) == [i \in 1 .. Len(s) - 1 |-> s[i]]

Init ==
    /\ hdr = [p \in PageIds |-> Zeroed]
    /\ size = 0
    /\ tail = FALSE
    /\ mode = "closed"
    /\ step = 1
    /\ page_count = 0
    /\ freelist_head = INVALID_PAGE
    /\ latch = NoThread
    /\ pc = [t \in Threads |-> "idle"]
    /\ arg = [t \in Threads |-> INVALID_PAGE]
    /\ nxt = [t \in Threads |-> INVALID_PAGE]
    /\ owned = {}
    /\ stack = <<>>
    /\ created = FALSE
    /\ result = NoResult

(***************************************************************************)
(* The file's writes.                                                      *)
(***************************************************************************)

\* full_write of a header over a page the file holds or is about to hold.
write_page_header(p, h) == hdr' = [hdr EXCEPT ![p] = h]

\* full_write of a zeroed page, over a page of the file or as its next page.
write_empty_page(p) ==
    /\ p \in PageIds
    /\ hdr' = [hdr EXCEPT ![p] = Zeroed]
    /\ size' = IF p = size THEN size + 1 ELSE size
    /\ tail' = IF p = size THEN FALSE ELSE tail

\* full_write of a zeroed page fails: with nothing written, or after a short
\* pwrite, which leaves a partial page at the end of the file or the zeroed
\* header of a page that an earlier call wrote there and did not publish.
write_empty_page_fails(p) ==
    \/ UNCHANGED file
    \/ ShortWrites /\ p = size /\ tail' = TRUE /\ UNCHANGED <<hdr, size>>
    \/ ShortWrites /\ p < size /\ hdr' = [hdr EXCEPT ![p] = Zeroed] /\ UNCHANGED <<size, tail>>

(***************************************************************************)
(* Open and the end of the process.                                        *)
(***************************************************************************)

\* The five writes of Open's brand-new-file branch, in order.
CreateTarget == <<META_PAGE_ID, META_PAGE_ID, CATALOG_ROOT_PAGE_ID,
                  CATALOG_ROOT_PAGE_ID, META_PAGE_ID>>
CreateHeader == <<Zeroed, Stamp("META", INVALID_PAGE), Zeroed,
                  Stamp("CATALOG", INVALID_PAGE), Stamp("META", INVALID_PAGE)>>

\* What Open's checks of an existing file say.
OpenStatus ==
    IF \/ tail
       \/ size = 1
       \/ size > 1 /\ hdr[META_PAGE_ID].type # "META"
       \/ size > 1 /\ hdr[CATALOG_ROOT_PAGE_ID].type # "CATALOG"
    THEN "Corruption" ELSE "OK"

\* Open of an existing file: recover page_count_ and freelist_head_, or refuse.
Open ==
    /\ mode = "closed"
    /\ size > 0 \/ tail
    /\ Returns("open", INVALID_PAGE, OpenStatus)
    /\ IF OpenStatus = "OK"
       THEN /\ mode' = "open"
            /\ page_count' = size
            /\ freelist_head' = hdr[META_PAGE_ID].next
            /\ created' = TRUE
       ELSE UNCHANGED <<mode, page_count, freelist_head, created>>
    /\ UNCHANGED <<file, step, calls, owned, stack>>

\* Open of an existing file cannot read one of the two headers.
OpenReadFails ==
    /\ mode = "closed"
    /\ size > 1 /\ ~tail
    /\ Returns("open", INVALID_PAGE, "IOError")
    /\ UNCHANGED <<file, memory, calls, owned, stack, created>>

\* Open of an empty file enters the branch that initialises it.
OpenNew ==
    /\ mode = "closed"
    /\ size = 0 /\ ~tail
    /\ mode' = "creating"
    /\ result' = NoResult
    /\ UNCHANGED <<file, step, page_count, freelist_head, calls, owned, stack, created>>

\* One write of the branch; the fifth one completes Open.
CreateWrite ==
    /\ mode = "creating"
    /\ IF step \in {1, 3}
       THEN write_empty_page(CreateTarget[step])
       ELSE /\ write_page_header(CreateTarget[step], CreateHeader[step])
            /\ UNCHANGED <<size, tail>>
    /\ page_count' = CASE step = 2 -> 1
                       [] step = 4 -> 2
                       [] OTHER -> page_count
    /\ IF step = 5
       THEN /\ mode' = "open"
            /\ created' = TRUE
            /\ Returns("open", INVALID_PAGE, "OK")
            /\ step' = 1
       ELSE /\ step' = step + 1
            /\ UNCHANGED <<mode, created, result>>
    /\ UNCHANGED <<freelist_head, calls, owned, stack>>

\* One write of the branch fails: an early return, with the file as it is.
CreateFails ==
    /\ mode = "creating"
    /\ IF step \in {1, 3}
       THEN write_empty_page_fails(CreateTarget[step])
       ELSE UNCHANGED file
    /\ mode' = "closed"
    /\ step' = 1
    /\ page_count' = 0
    /\ Returns("create", INVALID_PAGE, "IOError")
    /\ UNCHANGED <<freelist_head, calls, owned, stack, created>>

\* The process ends, by ~DiskManager or by kill -9: the file keeps what was
\* written, memory and the calls in progress are gone.  The list the file now
\* holds is the one page 0 heads.
Crash ==
    /\ mode # "closed"
    /\ mode' = "closed"
    /\ latch' = NoThread
    /\ pc' = [t \in Threads |-> "idle"]
    /\ arg' = [t \in Threads |-> INVALID_PAGE]
    /\ nxt' = [t \in Threads |-> INVALID_PAGE]
    /\ page_count' = 0
    /\ freelist_head' = INVALID_PAGE
    /\ stack' = IF mode = "open" /\ hdr[META_PAGE_ID].next # freelist_head
                THEN Pop(stack) ELSE stack
    /\ result' = NoResult
    /\ step' = 1
    /\ UNCHANGED <<file, owned, created>>

(***************************************************************************)
(* AllocatePage and DeallocatePage: every step but the first runs with      *)
(* meta_latch_ held, and the last one releases it.                          *)
(***************************************************************************)

\* A call in progress takes its next step.
Goto(t, label) == pc' = [pc EXCEPT ![t] = label]

\* The call in progress returns, releasing meta_latch_; its locals are gone.
Return(t, op, st) ==
    /\ Goto(t, "idle")
    /\ latch' = NoThread
    /\ arg' = [arg EXCEPT ![t] = INVALID_PAGE]
    /\ nxt' = [nxt EXCEPT ![t] = INVALID_PAGE]
    /\ Returns(op, arg[t], st)

\* A new call takes meta_latch_ and works on page p.
Begin(t, p, next, label) ==
    /\ latch' = t
    /\ Goto(t, label)
    /\ arg' = [arg EXCEPT ![t] = p]
    /\ nxt' = [nxt EXCEPT ![t] = next]
    /\ result' = NoResult

\* A call that returns before it writes anything.
ReturnsAtOnce(op, p, st) ==
    /\ Returns(op, p, st)
    /\ UNCHANGED <<latch, pc, arg, nxt>>

\* A faulty variant: meta_latch_ is not waited for.
Callable_NoLatch(t) == mode = "open" /\ pc[t] = "idle"

\* Thread t may start a call: the file is open and meta_latch_ is free.
Callable(t) == mode = "open" /\ latch = NoThread /\ pc[t] = "idle"

valid_page(p) == p >= 0 /\ p < page_count

\* AllocatePage with pages on the freelist: read the head's header.
AllocateFromList(t) ==
    /\ Callable(t)
    /\ freelist_head # INVALID_PAGE
    /\ IF hdr[freelist_head].type = "FREE"
       THEN Begin(t, freelist_head, hdr[freelist_head].next, "persist")
       ELSE ReturnsAtOnce("allocate", freelist_head, "Corruption")
    /\ UNCHANGED <<file, memory, owned, stack, created>>

\* A faulty variant: the advanced head is never persisted.
PersistAdvancedHead_Skipped(t) ==
    /\ pc[t] = "persist"
    /\ Goto(t, "stamp")
    /\ UNCHANGED <<file, memory, latch, arg, nxt, history>>

\* persist_freelist_head(next_free), before the page is stamped.
PersistAdvancedHead(t) ==
    /\ pc[t] = "persist"
    /\ write_page_header(META_PAGE_ID, Stamp("META", nxt[t]))
    /\ Goto(t, "stamp")
    /\ UNCHANGED <<size, tail, memory, latch, arg, nxt, history>>

\* A faulty variant: freelist_head_ is not advanced in memory.
StampAllocated_StaleHead(t) ==
    /\ pc[t] = "stamp"
    /\ write_page_header(arg[t], Stamp("ALLOCATED", INVALID_PAGE))
    /\ owned' = owned \cup {arg[t]}
    /\ stack' = Pop(stack)
    /\ Return(t, "allocate", "OK")
    /\ UNCHANGED <<size, tail, memory, created>>

\* Stamp the page ALLOCATED, advance freelist_head_ and return it.
StampAllocated(t) ==
    /\ pc[t] = "stamp"
    /\ write_page_header(arg[t], Stamp("ALLOCATED", INVALID_PAGE))
    /\ freelist_head' = nxt[t]
    /\ owned' = owned \cup {arg[t]}
    /\ stack' = Pop(stack)
    /\ Return(t, "allocate", "OK")
    /\ UNCHANGED <<size, tail, mode, step, page_count, created>>

\* AllocatePage with an empty freelist: the page after the last one.
AllocateByExtending(t) ==
    /\ Callable(t)
    /\ freelist_head = INVALID_PAGE
    /\ Begin(t, page_count, INVALID_PAGE, "extend")
    /\ UNCHANGED <<file, memory, owned, stack, created>>

\* A faulty variant: the page is published before its header is stamped.
ExtendFile_PublishesEarly(t) ==
    /\ pc[t] = "extend"
    /\ write_empty_page(arg[t])
    /\ page_count' = arg[t] + 1
    /\ Goto(t, "header")
    /\ UNCHANGED <<mode, step, freelist_head, latch, arg, nxt, history>>

ExtendFile(t) ==
    /\ pc[t] = "extend"
    /\ write_empty_page(arg[t])
    /\ Goto(t, "header")
    /\ UNCHANGED <<memory, latch, arg, nxt, history>>

ExtendFails(t) ==
    /\ pc[t] = "extend"
    /\ write_empty_page_fails(arg[t])
    /\ Return(t, "allocate", "IOError")
    /\ UNCHANGED <<memory, owned, stack, created>>

\* A faulty variant: the new page is never stamped ALLOCATED.
StampExtension_Skipped(t) ==
    /\ pc[t] = "header"
    /\ Goto(t, "publish")
    /\ UNCHANGED <<file, memory, latch, arg, nxt, history>>

StampExtension(t) ==
    /\ pc[t] = "header"
    /\ write_page_header(arg[t], Stamp("ALLOCATED", INVALID_PAGE))
    /\ Goto(t, "publish")
    /\ UNCHANGED <<size, tail, memory, latch, arg, nxt, history>>

\* A faulty variant: page_count_ is advanced one page too far.
PublishExtension_OffByOne(t) ==
    /\ pc[t] = "publish"
    /\ page_count' = arg[t] + 2
    /\ owned' = owned \cup {arg[t]}
    /\ Return(t, "allocate", "OK")
    /\ UNCHANGED <<file, mode, step, freelist_head, stack, created>>

\* Publish page_count_ last and return the page.
PublishExtension(t) ==
    /\ pc[t] = "publish"
    /\ page_count' = arg[t] + 1
    /\ owned' = owned \cup {arg[t]}
    /\ Return(t, "allocate", "OK")
    /\ UNCHANGED <<file, mode, step, freelist_head, stack, created>>

\* DeallocatePage rejects the reserved pages and any id outside the file.
DeallocateRejected(t, p) ==
    /\ Callable(t)
    /\ p \in {META_PAGE_ID, CATALOG_ROOT_PAGE_ID} \/ ~valid_page(p)
    /\ ReturnsAtOnce("deallocate", p, "InvalidArgument")
    /\ UNCHANGED <<file, memory, owned, stack, created>>

\* A faulty variant: the already-FREE check is missing.
DeallocateFree_Unchecked(t, p) ==
    /\ Callable(t)
    /\ p \in DataPages /\ valid_page(p)
    /\ hdr[p].type = "FREE"
    /\ Begin(t, p, freelist_head, "free")
    /\ UNCHANGED <<file, memory, owned, stack, created>>

\* DeallocatePage of a page whose header already reads FREE is a no-op.
DeallocateFree(t, p) ==
    /\ Callable(t)
    /\ p \in DataPages /\ valid_page(p)
    /\ hdr[p].type = "FREE"
    /\ ReturnsAtOnce("deallocate", p, "OK")
    /\ UNCHANGED <<file, memory, owned, stack, created>>

\* DeallocatePage of a page the callers hold.
DeallocateOwned(t, p) ==
    /\ Callable(t)
    /\ p \in owned /\ valid_page(p)
    /\ hdr[p].type # "FREE"
    /\ Begin(t, p, freelist_head, "free")
    /\ UNCHANGED <<file, memory, owned, stack, created>>

\* Stamp the page FREE, linked to the current head, before page 0 names it.
StampFree(t) ==
    /\ pc[t] = "free"
    /\ write_page_header(arg[t], Stamp("FREE", nxt[t]))
    /\ owned' = owned \ {arg[t]}
    /\ Goto(t, "link")
    /\ UNCHANGED <<size, tail, memory, latch, arg, nxt, stack, created, result>>

\* persist_freelist_head(page_id), then freelist_head_ in memory.
LinkFree(t) ==
    /\ pc[t] = "link"
    /\ write_page_header(META_PAGE_ID, Stamp("META", arg[t]))
    /\ freelist_head' = arg[t]
    /\ stack' = Append(stack, arg[t])
    /\ Return(t, "deallocate", "OK")
    /\ UNCHANGED <<size, tail, mode, step, page_count, owned, created>>

\* A header write of a call in progress fails with nothing written: the call
\* returns the error and undoes nothing.
HeaderWriteFails(t) ==
    /\ pc[t] \in {"persist", "stamp", "header", "free", "link"}
    /\ Return(t, IF pc[t] \in {"free", "link"} THEN "deallocate" ELSE "allocate",
              "IOError")
    /\ UNCHANGED <<file, memory, owned, stack, created>>

\* read_page_header fails before a call has written anything.
HeaderReadFails(t, op) ==
    /\ Callable(t)
    /\ op = "allocate" => freelist_head # INVALID_PAGE
    /\ ReturnsAtOnce(op, INVALID_PAGE, "IOError")
    /\ UNCHANGED <<file, memory, owned, stack, created>>

\* WritePage, latch-free: the owner of a page overwrites it, header included.
\* The pool vacates a page before it deallocates it, so no write of a page
\* overlaps its deallocation.
WritePage(p, next) ==
    /\ mode = "open"
    /\ p \in owned /\ valid_page(p)
    /\ \A t \in Threads : ~(pc[t] = "free" /\ arg[t] = p)
    /\ write_page_header(p, Stamp("HEAP", next))
    /\ UNCHANGED <<size, tail, memory, calls, history>>

(***************************************************************************)
(* The specification.                                                      *)
(***************************************************************************)

Call(t) ==
    \/ AllocateFromList(t) \/ PersistAdvancedHead(t) \/ StampAllocated(t)
    \/ AllocateByExtending(t) \/ ExtendFile(t) \/ ExtendFails(t)
    \/ StampExtension(t) \/ PublishExtension(t)
    \/ StampFree(t) \/ LinkFree(t)
    \/ HeaderWriteFails(t)
    \/ \E op \in {"allocate", "deallocate"} : HeaderReadFails(t, op)
    \/ \E p \in PageIds \cup {MaxPages, INVALID_PAGE} :
          DeallocateRejected(t, p) \/ DeallocateFree(t, p) \/ DeallocateOwned(t, p)

Next ==
    \/ Open \/ OpenReadFails \/ OpenNew \/ CreateWrite \/ CreateFails \/ Crash
    \/ \E t \in Threads : Call(t)
    \/ \E p \in owned, next \in owned \cup {INVALID_PAGE} : WritePage(p, next)

Spec == Init /\ [][Next]_vars

(***************************************************************************)
(* Properties.                                                             *)
(***************************************************************************)

Labels == {"idle", "persist", "stamp", "extend", "header", "publish", "free", "link"}
Results == [op : {"none", "open", "create", "allocate", "deallocate"},
            page : PageIds \cup {MaxPages, INVALID_PAGE},
            st : {"none", "OK", "IOError", "Corruption", "InvalidArgument"}]

\* The types of the state: the file's headers and size, the in-memory copies
\* and the call each thread is in.
TypeOK ==
    /\ hdr \in [PageIds -> PageHeader]
    /\ size \in 0 .. MaxPages /\ tail \in BOOLEAN
    /\ mode \in {"closed", "creating", "open"} /\ step \in 1 .. 5
    /\ page_count \in 0 .. MaxPages
    /\ freelist_head \in Links
    /\ latch \in Threads \cup {NoThread}
    /\ pc \in [Threads -> Labels]
    /\ arg \in [Threads -> PageIds \cup {MaxPages, INVALID_PAGE}]
    /\ nxt \in [Threads -> Links]
    /\ owned \subseteq DataPages
    /\ stack \in Seq(DataPages)
    /\ created \in BOOLEAN
    /\ result \in Results

\* "page 0 must never reference a page that isn't actually FREE on disk"
\* (disk_manager.cpp:218,288): in every state a kill can leave the file in, the
\* persisted head is the end of the list or a FREE page of the file.
PersistedHeadIsFree ==
    size > 0 /\ hdr[META_PAGE_ID].type = "META" /\ hdr[META_PAGE_ID].next # INVALID_PAGE
        => /\ hdr[META_PAGE_ID].next \in DataPages
           /\ hdr[META_PAGE_ID].next < size
           /\ hdr[hdr[META_PAGE_ID].next].type = "FREE"

\* The list that freelist_head_ starts is a chain of distinct FREE pages linked
\* by next_page_id, with no cycle and no page a caller holds, whatever calls
\* failed and whatever kills and reopens came before.
FreelistIsChain ==
    /\ mode = "open" => freelist_head = Top(stack)
    /\ \A i \in 1 .. Len(stack) :
          /\ hdr[stack[i]] = Stamp("FREE", IF i = 1 THEN INVALID_PAGE ELSE stack[i - 1])
          /\ stack[i] \notin owned
          /\ \A j \in 1 .. Len(stack) : stack[i] = stack[j] => i = j

\* A page a caller holds is inside the file and stamped with a live type, so
\* that no reader mistakes it for a free or a zeroed page.
OwnedPagesAreLive ==
    \A p \in owned : p < size /\ hdr[p].type \in {"ALLOCATED", "HEAP"}

\* Once the file has been created, Corruption is reported only by an Open that
\* refuses a file ending in a partial page: AllocatePage never finds a page on the
\* freelist that is not FREE, and no kill or failed write between the writes of a
\* call makes the next Open fail (disk_manager.hpp:36-38).
NoFalseCorruption ==
    created /\ result.st = "Corruption" => mode = "closed" /\ tail

\* A page becomes visible to the latch-free ReadPage only with its header
\* stamped (disk_manager.hpp:201-205).
PublishedPageIsStamped ==
    [][\A p \in PageIds :
          mode = "open" /\ mode' = "open" /\ ~valid_page(p) /\ valid_page(p)'
              => hdr'[p].type = "ALLOCATED"]_vars

Extent == IF mode = "open" THEN page_count ELSE size

\* Who holds page p, as the promise of PageAllocator sees it.
PageStatus(p) ==
    IF p \in owned THEN "owned"
    ELSE IF \E i \in 1 .. Len(stack) : stack[i] = p THEN "free"
    ELSE IF p < Extent THEN "lost" ELSE "unborn"

Allocator == INSTANCE PageAllocator WITH
    Pages <- DataPages,
    status <- [p \in DataPages |-> PageStatus(p)]

\* The file, its latch and its crashes implement the one-owner page allocator.
ImplementsAllocator == Allocator!ASpec

\* "Returns `page_id` to the freelist" (disk_manager.hpp:107): a DeallocatePage
\* that returns OK leaves the page on the freelist.
DeallocateReturnsPage ==
    [][result' # result /\ result'.op = "deallocate" /\ result'.st = "OK"
          => \E i \in 1 .. Len(stack') : stack'[i] = result'.page]_vars

(***************************************************************************)
(* The inductive invariant behind the safety properties.                   *)
(***************************************************************************)

\* meta_latch_ serialises the calls: a call in progress owns it.
LatchHeld == \A t \in Threads : pc[t] # "idle" => latch = t /\ mode = "open"

\* How far creation has come, and what a created file always holds.
FileShape ==
    /\ mode = "open" => created /\ page_count > 1 /\ page_count <= size
                                /\ size <= page_count + 1
    /\ mode = "creating" => /\ ~created /\ ~tail
                            /\ size = step \div 2
                            /\ page_count = (step - 1) \div 2
                            /\ step > 2 => hdr[META_PAGE_ID] = Stamp("META", INVALID_PAGE)
                            /\ step > 4 => hdr[CATALOG_ROOT_PAGE_ID].type = "CATALOG"
    /\ mode # "creating" => step = 1
    /\ mode # "open" => freelist_head = INVALID_PAGE
    /\ mode = "closed" => page_count = 0
    /\ created => /\ size > 1
                  /\ hdr[META_PAGE_ID].type = "META"
                  /\ hdr[CATALOG_ROOT_PAGE_ID].type = "CATALOG"
    /\ ~created => /\ stack = <<>> /\ owned = {} /\ size <= 2
                   /\ hdr[META_PAGE_ID].type = "META" => hdr[META_PAGE_ID].next = INVALID_PAGE
    /\ ~ShortWrites => ~tail

\* The persisted head is the in-memory one, or the page after it while, and
\* after, an allocation that did not get to stamp its page.
PersistedHead ==
    created => \/ hdr[META_PAGE_ID].next = Top(stack)
               \/ mode = "open" /\ stack # <<>> /\ hdr[META_PAGE_ID].next = Top(Pop(stack))

\* What the call in progress knows of the page it works on.
CallInv(t) ==
    /\ pc[t] \in {"persist", "stamp"} =>
          stack # <<>> /\ arg[t] = Top(stack) /\ nxt[t] = Top(Pop(stack))
    /\ pc[t] = "stamp" => hdr[META_PAGE_ID].next = nxt[t]
    /\ pc[t] \in {"extend", "header", "publish"} => arg[t] = page_count /\ stack = <<>>
    /\ pc[t] \in {"header", "publish"} => size = page_count + 1
    /\ pc[t] = "publish" => hdr[arg[t]].type = "ALLOCATED"
    /\ pc[t] = "free" => arg[t] \in owned /\ nxt[t] = freelist_head
    /\ pc[t] = "link" => /\ arg[t] \in DataPages /\ arg[t] < page_count
                         /\ arg[t] \notin owned
                         /\ hdr[arg[t]] = Stamp("FREE", freelist_head)
                         /\ \A i \in 1 .. Len(stack) : stack[i] # arg[t]

\* Every page that has an owner or is on the list is inside the extent.
InExtent ==
    /\ \A p \in owned : p < Extent
    /\ \A i \in 1 .. Len(stack) : stack[i] < Extent

\* The inductive invariant: it implies the four safety invariants above.
Inductive ==
    /\ TypeOK
    /\ LatchHeld
    /\ FileShape
    /\ PersistedHead
    /\ InExtent
    /\ FreelistIsChain
    /\ OwnedPagesAreLive
    /\ \A t \in Threads : CallInv(t)

=============================================================================
