------------------------- MODULE DiskManagerProofs --------------------------
(***************************************************************************)
(* Proofs about DiskManager: its invariants hold for any number of threads  *)
(* and pages, and the file implements the one-owner page allocator.  First  *)
(* facts about the freelist and the headers, then one lemma per step that   *)
(* the inductive invariant is preserved, last the theorems.                 *)
(***************************************************************************)
EXTENDS DiskManager, TLAPS

\* How long the provers may take.
USE SMTT(30), ZenonT(10)

USE ThreadsAssumption, MaxPagesAssumption, ShortWritesAssumption
    DEF INVALID_PAGE, META_PAGE_ID, CATALOG_ROOT_PAGE_ID

\* A sequence has a length, is empty when that is zero, and has elements of its set.
LEMMA SeqProperties ==
    ASSUME NEW S, NEW s \in Seq(S)
    PROVE  /\ Len(s) \in Nat
           /\ s = <<>> <=> Len(s) = 0
           /\ \A i \in 1 .. Len(s) : s[i] \in S
OBVIOUS

\* The freelist without its head page: what AllocatePage leaves (disk_manager.cpp:232).
LEMMA PopProperties ==
    ASSUME NEW S, NEW s \in Seq(S), s # <<>>
    PROVE  /\ Pop(s) \in Seq(S)
           /\ Len(s) \in Nat /\ Len(s) > 0
           /\ Len(Pop(s)) = Len(s) - 1
           /\ \A i \in 1 .. Len(s) - 1 : Pop(s)[i] = s[i]
BY SeqProperties DEF Pop

\* The head of a nonempty freelist is one of its pages.
LEMMA TopProperties ==
    ASSUME NEW s \in Seq(DataPages)
    PROVE  /\ Top(s) \in Links
           /\ s # <<>> => Top(s) \in DataPages /\ Len(s) > 0 /\ Top(s) = s[Len(s)]
           /\ Top(s) = INVALID_PAGE <=> s = <<>>
<1>1. s # <<>> => Len(s) \in 1 .. Len(s) /\ s[Len(s)] \in DataPages
  BY SeqProperties
<1>2. QED
  BY <1>1 DEF Top, Links, PageIds, DataPages

\* Pushing a page: what DeallocatePage does to the freelist (disk_manager.cpp:306).
LEMMA PushProperties ==
    ASSUME NEW s \in Seq(DataPages), NEW p \in DataPages
    PROVE  /\ Append(s, p) \in Seq(DataPages)
           /\ Append(s, p) # <<>>
           /\ Len(s) \in Nat
           /\ Len(Append(s, p)) = Len(s) + 1
           /\ \A i \in 1 .. Len(s) : Append(s, p)[i] = s[i]
           /\ Append(s, p)[Len(s) + 1] = p
           /\ Top(Append(s, p)) = p
BY SeqProperties DEF Top

\* The pages of the freelist are allocatable pages.
LEMMA StackPages ==
    ASSUME TypeOK
    PROVE  Len(stack) \in Nat /\ \A i \in 1 .. Len(stack) : stack[i] \in DataPages /\ stack[i] \in PageIds
BY SeqProperties DEF TypeOK, DataPages, PageIds

\* What one header write changes (disk_manager.cpp:322-343).
LEMMA HeaderWritten ==
    ASSUME TypeOK, NEW p \in PageIds, NEW ty \in PageTypes, NEW n \in Links,
           write_page_header(p, Stamp(ty, n))
    PROVE  /\ hdr' \in [PageIds -> PageHeader]
           /\ hdr'[p] = [type |-> ty, next |-> n]
           /\ \A q \in PageIds : q # p => hdr'[q] = hdr[q]
<1>1. Stamp(ty, n) \in PageHeader
  BY Zenon DEF Stamp, PageHeader
<1>2. QED
  BY Zenon, <1>1 DEF TypeOK, write_page_header, Stamp

\* The freelist stays a chain while its headers, its owner-freeness and its
\* head are kept.
LEMMA ChainKept ==
    ASSUME Inductive, stack' = stack,
           mode' = "open" => freelist_head' = Top(stack),
           \A i \in 1 .. Len(stack) : hdr'[stack[i]] = hdr[stack[i]] /\ stack[i] \notin owned'
    PROVE  FreelistIsChain'
BY DEF Inductive, FreelistIsChain

\* A step that leaves the file, the in-memory copies and the ownership of the
\* pages alone leaves the conjuncts about them alone.
LEMMA QuietStep ==
    ASSUME Inductive, UNCHANGED <<file, memory, owned, stack, created>>
    PROVE  FileShape' /\ PersistedHead' /\ InExtent' /\ FreelistIsChain' /\ OwnedPagesAreLive'
<1>1. FileShape'
  BY Zenon DEF Inductive, FileShape, file, memory
<1>2. PersistedHead'
  BY Zenon DEF Inductive, PersistedHead, file, memory
<1>3. InExtent'
  BY Zenon DEF Inductive, InExtent, Extent, file, memory
<1>4. FreelistIsChain'
  BY Zenon DEF Inductive, FreelistIsChain, file, memory
<1>5. OwnedPagesAreLive'
  BY Zenon DEF Inductive, OwnedPagesAreLive, file
<1>6. QED
  BY Zenon, <1>1, <1>2, <1>3, <1>4, <1>5

\* A step that moreover leaves every call where it is.
LEMMA IdleStep ==
    ASSUME Inductive, UNCHANGED <<file, memory, calls, owned, stack, created>>,
           result' \in Results
    PROVE  Inductive'
<1>1. TypeOK'
  BY Zenon DEF Inductive, TypeOK, file, memory, calls
<1>2. LatchHeld'
  BY Zenon DEF Inductive, LatchHeld, memory, calls
<1>3. (\A u \in Threads : CallInv(u))'
  BY Zenon DEF Inductive, CallInv, file, memory, calls
<1>4. QED
  BY Zenon, <1>1, <1>2, <1>3, QuietStep DEF Inductive

\* A failed call returns: it held meta_latch_, and only the latch and its
\* locals change.
LEMMA FailStep ==
    ASSUME Inductive, NEW t \in Threads, NEW op \in {"allocate", "deallocate"}, pc[t] # "idle",
           Return(t, op, "IOError"),
           UNCHANGED <<file, memory, owned, stack, created>>
    PROVE  Inductive'
<1>1. TypeOK'
  BY Zenon DEF Inductive, TypeOK, file, memory, Return, Returns, Goto, Links, Labels, Results
<1>2. LatchHeld'
  BY Zenon DEF Inductive, TypeOK, LatchHeld, memory, Return, Goto
<1>3. ASSUME NEW u \in Threads PROVE CallInv(u)'
  <2>1. pc'[u] = "idle"
    BY Zenon DEF Inductive, TypeOK, LatchHeld, Return, Goto
  <2>2. QED
    BY Zenon, <2>1 DEF CallInv
<1>4. QED
  BY Zenon, <1>1, <1>2, <1>3, QuietStep DEF Inductive

\* A call begins while no other is in progress.
LEMMA BeginStep ==
    ASSUME Inductive, NEW t \in Threads, Callable(t),
           NEW p \in PageIds \cup {MaxPages}, NEW n \in Links, NEW label \in Labels,
           Begin(t, p, n, label),
           UNCHANGED <<file, memory, owned, stack, created>>,
           CallInv(t)'
    PROVE  Inductive'
<1>1. TypeOK'
  BY Zenon DEF Inductive, TypeOK, file, memory, Begin, Goto, NoResult, Labels, Results
<1>2. LatchHeld'
  BY Zenon DEF Inductive, TypeOK, LatchHeld, memory, Begin, Goto, Callable
<1>3. ASSUME NEW u \in Threads, u # t PROVE CallInv(u)'
  <2>1. pc'[u] = "idle"
    BY Zenon, <1>3 DEF Inductive, TypeOK, LatchHeld, Begin, Goto, Callable
  <2>2. QED
    BY Zenon, <2>1 DEF CallInv
<1>4. QED
  BY Zenon, <1>1, <1>2, <1>3, QuietStep DEF Inductive

\* In a step of the call that holds meta_latch_, every other thread is idle.
LEMMA OthersIdle ==
    ASSUME Inductive, NEW t \in Threads, pc[t] # "idle"
    PROVE  latch = t /\ mode = "open" /\ \A u \in Threads \ {t} : pc[u] = "idle"
BY Zenon DEF Inductive, TypeOK, LatchHeld

\* Open of an existing file (disk_manager.cpp:104-134).
LEMMA StepOpen ==
    ASSUME Inductive, Open
    PROVE  Inductive'
<1> USE DEF Inductive, Open, file, calls
<1>1. CASE OpenStatus # "OK"
  <2>1. result' \in Results
    BY Zenon DEF Returns, Results, OpenStatus
  <2>2. QED
    BY Zenon, <1>1, <2>1, IdleStep DEF memory
<1>2. CASE OpenStatus = "OK"
  <2>1. /\ mode' = "open" /\ created' = TRUE /\ page_count' = size
        /\ freelist_head' = hdr[META_PAGE_ID].next
        /\ size > 1 /\ ~tail
        /\ hdr[META_PAGE_ID].type = "META" /\ hdr[CATALOG_ROOT_PAGE_ID].type = "CATALOG"
    BY <1>2 DEF OpenStatus, TypeOK
  <2>2. hdr[META_PAGE_ID] \in PageHeader
    BY DEF TypeOK, PageIds
  <2>3. hdr[META_PAGE_ID].next = Top(stack)
    BY Zenon, <2>1 DEF PersistedHead, FileShape, Top
  <2>4. TypeOK'
    BY Zenon, <1>2, <2>1, <2>2 DEF TypeOK, PageHeader, Returns, Results
  <2>5. LatchHeld'
    BY Zenon, <2>1 DEF LatchHeld
  <2>6. FileShape'
    BY <2>1 DEF FileShape, TypeOK
  <2>7. PersistedHead'
    BY Zenon, <2>3 DEF PersistedHead
  <2>8. InExtent'
    BY Zenon, <2>1 DEF InExtent, Extent
  <2>9. FreelistIsChain'
    BY Zenon, <2>1, <2>3, ChainKept DEF FreelistIsChain
  <2>10. OwnedPagesAreLive'
    BY Zenon DEF OwnedPagesAreLive
  <2>11. (\A u \in Threads : CallInv(u))'
    <3>1. \A u \in Threads : pc'[u] = "idle"
      BY Zenon DEF LatchHeld, TypeOK
    <3>2. QED
      BY Zenon, <3>1 DEF CallInv
  <2>12. QED
    BY Zenon, <2>4, <2>5, <2>6, <2>7, <2>8, <2>9, <2>10, <2>11
<1>3. QED
  BY Zenon, <1>1, <1>2

\* Open of an empty file enters the creating branch (disk_manager.cpp:54).
LEMMA StepOpenNew ==
    ASSUME Inductive, OpenNew
    PROVE  Inductive'
<1> USE DEF Inductive, OpenNew, file, calls
<1>1. ~created /\ mode' = "creating" /\ step' = 1 /\ size = 0 /\ ~tail
  BY DEF FileShape
<1>2. TypeOK'
  BY Zenon DEF TypeOK, NoResult, Results
<1>3. LatchHeld' /\ (\A u \in Threads : CallInv(u))'
  <2>1. \A u \in Threads : pc'[u] = "idle"
    BY Zenon DEF LatchHeld, TypeOK
  <2>2. QED
    BY Zenon, <2>1 DEF CallInv, LatchHeld
<1>4. FileShape'
  BY <1>1 DEF FileShape
<1>5. PersistedHead'
  BY Zenon, <1>1 DEF PersistedHead
<1>6. InExtent'
  BY Zenon, <1>1 DEF InExtent, Extent, FileShape
<1>7. FreelistIsChain'
  BY <1>1 DEF FreelistIsChain, FileShape
<1>8. OwnedPagesAreLive'
  BY Zenon DEF OwnedPagesAreLive
<1>9. QED
  BY Zenon, <1>2, <1>3, <1>4, <1>5, <1>6, <1>7, <1>8

\* One write of the creating branch (disk_manager.cpp:65-103).
LEMMA StepCreateWrite ==
    ASSUME Inductive, CreateWrite
    PROVE  Inductive'
<1> USE DEF Inductive, CreateWrite, calls
<1>1. /\ ~created /\ mode = "creating" /\ ~tail /\ stack = <<>> /\ owned = {}
      /\ step \in 1 .. 5 /\ size = step \div 2 /\ page_count = (step - 1) \div 2
      /\ freelist_head = INVALID_PAGE
  BY Zenon DEF FileShape, TypeOK
<1>2. hdr' = [hdr EXCEPT ![CreateTarget[step]] = CreateHeader[step]]
  <2>1. step \in {1, 3} => CreateHeader[step] = Zeroed
    BY DEF CreateHeader
  <2>2. QED
    BY Zenon, <2>1 DEF write_page_header, write_empty_page
<1>3. /\ CreateTarget[step] = IF step \in {3, 4} THEN 1 ELSE 0
      /\ CreateHeader[step].type = IF step \in {1, 3} THEN "ZEROED"
                                   ELSE IF step = 4 THEN "CATALOG" ELSE "META"
      /\ CreateHeader[step].next = IF step \in {1, 3} THEN 0 ELSE INVALID_PAGE
      /\ CreateHeader[step] \in PageHeader
  <2>1. /\ step \in {1, 3} => CreateHeader[step] = Zeroed
        /\ step \in {2, 5} => CreateHeader[step] = Stamp("META", INVALID_PAGE)
        /\ step = 4 => CreateHeader[step] = Stamp("CATALOG", INVALID_PAGE)
        /\ CreateTarget[step] = IF step \in {3, 4} THEN 1 ELSE 0
    <3>1. step \in {1, 2, 3, 4, 5}
      BY <1>1
    <3>2. CreateTarget[step] = IF step \in {3, 4} THEN 1 ELSE 0
      BY <3>1 DEF CreateTarget
    <3>3. QED
      BY <3>1, <3>2 DEF CreateHeader
  <2>2. /\ Zeroed \in PageHeader /\ Zeroed.type = "ZEROED" /\ Zeroed.next = 0
        /\ \A ty \in {"META", "CATALOG"} :
              /\ Stamp(ty, INVALID_PAGE) \in PageHeader
              /\ Stamp(ty, INVALID_PAGE).type = ty
              /\ Stamp(ty, INVALID_PAGE).next = INVALID_PAGE
    BY DEF Zeroed, Stamp, PageHeader, PageTypes, Links, PageIds
  <2>3. step \in {1, 2, 3, 4, 5}
    BY <1>1
  <2>4. QED
    BY <2>1, <2>2, <2>3
<1>4. /\ hdr' \in [PageIds -> PageHeader]
      /\ hdr'[CreateTarget[step]] = CreateHeader[step]
      /\ \A p \in PageIds : p # CreateTarget[step] => hdr'[p] = hdr[p]
      /\ META_PAGE_ID \in PageIds /\ CATALOG_ROOT_PAGE_ID \in PageIds
  BY <1>2, <1>3 DEF TypeOK, PageIds
<1>5. /\ size' = IF step = 5 THEN 2 ELSE (step + 1) \div 2
      /\ ~tail' /\ tail' \in BOOLEAN
  <2>1. CASE step \in {1, 3}
    <3>1. CreateTarget[step] = size /\ (step + 1) \div 2 = size + 1
      BY <1>1, <1>3, <2>1
    <3>2. QED
      BY <2>1, <3>1 DEF write_empty_page
  <2>2. CASE step \notin {1, 3}
    <3>1. step \in {2, 4, 5}
      BY <1>1, <2>2
    <3>2. size = IF step = 5 THEN 2 ELSE (step + 1) \div 2
      BY <1>1, <3>1
    <3>3. size' = size /\ tail' = tail
      BY Zenon, <2>2
    <3>4. QED
      BY Zenon, <1>1, <3>2, <3>3 DEF TypeOK
  <2>3. QED
    BY Zenon, <2>1, <2>2
<1>6. page_count' = step \div 2
  BY <1>1
<1>7. CASE step # 5
  <2>1. step' = step + 1 /\ mode' = mode /\ created' = created /\ result' = result
    BY Zenon, <1>7
  <2>2. TypeOK'
    <3>1. page_count' \in 0 .. 2 /\ size' \in 0 .. 2 /\ step' \in 1 .. 5
      <4>1. step \in {1, 2, 3, 4}
        BY <1>1, <1>7
      <4>2. step \div 2 \in 0 .. 2 /\ (step + 1) \div 2 \in 0 .. 2
        BY <4>1
      <4>3. QED
        BY <4>1, <4>2, <1>5, <1>6, <2>1
    <3>2. page_count' \in 0 .. MaxPages /\ size' \in 0 .. MaxPages
      BY <3>1
    <3>3. QED
      BY Zenon, <1>4, <1>5, <2>1, <3>1, <3>2 DEF TypeOK
  <2>3. LatchHeld' /\ (\A u \in Threads : CallInv(u))'
    <3>1. \A u \in Threads : pc'[u] = "idle"
      BY Zenon, <1>1 DEF LatchHeld, TypeOK
    <3>2. QED
      BY Zenon, <3>1 DEF CallInv, LatchHeld
  <2>4. FileShape'
    <3>1. step' > 2 => hdr'[META_PAGE_ID] = Stamp("META", INVALID_PAGE)
      <4>1. CASE step = 2
        BY <1>3, <1>4, <4>1 DEF CreateHeader
      <4>2. CASE step \in {3, 4}
        BY <1>1, <1>3, <1>4, <4>2 DEF FileShape
      <4>3. QED
        BY <1>1, <1>7, <2>1, <4>1, <4>2
    <3>2. step' > 4 => hdr'[CATALOG_ROOT_PAGE_ID].type = "CATALOG"
      BY <1>1, <1>3, <1>4, <1>7, <2>1 DEF FileShape
    <3>3. hdr'[META_PAGE_ID].type = "META" => hdr'[META_PAGE_ID].next = INVALID_PAGE
      BY Zenon, <1>1, <1>3, <1>4, <1>7 DEF FileShape
    <3>4. QED
      BY <1>1, <1>5, <1>6, <1>7, <2>1, <3>1, <3>2, <3>3 DEF FileShape
  <2>5. PersistedHead' /\ InExtent' /\ FreelistIsChain' /\ OwnedPagesAreLive'
    BY <1>1, <2>1 DEF PersistedHead, InExtent, FreelistIsChain, OwnedPagesAreLive
  <2>6. QED
    BY Zenon, <2>2, <2>3, <2>4, <2>5
<1>8. CASE step = 5
  <2>1. /\ step' = 1 /\ mode' = "open" /\ created' = TRUE /\ size' = 2 /\ page_count' = 2
        /\ result' \in Results
    BY <1>1, <1>5, <1>6, <1>8 DEF Returns, Results
  <2>2. /\ hdr'[META_PAGE_ID] = Stamp("META", INVALID_PAGE)
        /\ hdr'[CATALOG_ROOT_PAGE_ID].type = "CATALOG"
    BY <1>1, <1>3, <1>4, <1>8 DEF FileShape, CreateHeader
  <2>3. TypeOK'
    BY <1>1, <1>4, <1>5, <2>1 DEF TypeOK
  <2>4. LatchHeld' /\ (\A u \in Threads : CallInv(u))'
    <3>1. \A u \in Threads : pc'[u] = "idle"
      BY Zenon, <1>1 DEF LatchHeld, TypeOK
    <3>2. QED
      BY Zenon, <3>1 DEF CallInv, LatchHeld
  <2>5. FileShape'
    BY <1>1, <1>5, <2>1, <2>2 DEF FileShape, Stamp
  <2>6. PersistedHead' /\ InExtent' /\ FreelistIsChain' /\ OwnedPagesAreLive'
    BY <1>1, <2>1, <2>2 DEF PersistedHead, InExtent, FreelistIsChain, OwnedPagesAreLive, Top, Stamp
  <2>7. QED
    BY Zenon, <2>3, <2>4, <2>5, <2>6
<1>9. QED
  BY Zenon, <1>7, <1>8

\* A write of the creating branch fails (disk_manager.cpp:66,73,83,90,100).
LEMMA StepCreateFails ==
    ASSUME Inductive, CreateFails
    PROVE  Inductive'
<1> USE DEF Inductive, CreateFails, calls
<1>1. /\ ~created /\ mode = "creating" /\ ~tail /\ stack = <<>> /\ owned = {}
      /\ step \in 1 .. 5 /\ size = step \div 2 /\ size <= 2
      /\ freelist_head = INVALID_PAGE
  BY Zenon DEF FileShape, TypeOK
<1>2. hdr' = hdr /\ size' = size /\ tail' \in BOOLEAN /\ (~ShortWrites => ~tail')
  <2>1. step \in {1, 3} => ~(CreateTarget[step] < size)
    BY <1>1 DEF CreateTarget
  <2>2. QED
    BY Zenon, <1>1, <2>1 DEF write_empty_page_fails, file, TypeOK
<1>3. TypeOK'
  BY <1>2 DEF TypeOK, Returns, Results
<1>4. LatchHeld' /\ (\A u \in Threads : CallInv(u))'
  <2>1. \A u \in Threads : pc'[u] = "idle"
    BY Zenon, <1>1 DEF LatchHeld, TypeOK
  <2>2. QED
    BY Zenon, <2>1 DEF CallInv, LatchHeld
<1>5. FileShape'
  BY Zenon, <1>1, <1>2 DEF FileShape
<1>6. PersistedHead' /\ InExtent' /\ FreelistIsChain' /\ OwnedPagesAreLive'
  BY <1>1 DEF PersistedHead, InExtent, FreelistIsChain, OwnedPagesAreLive
<1>7. QED
  BY Zenon, <1>3, <1>4, <1>5, <1>6

\* The process ends in any state: the list page 0 heads is a chain again.
LEMMA StepCrash ==
    ASSUME Inductive, Crash
    PROVE  Inductive'
<1> USE DEF Inductive, Crash, file
<1>1. stack' = stack \/ (stack # <<>> /\ stack' = Pop(stack))
  BY Zenon DEF PersistedHead, FreelistIsChain, FileShape
<1>2. /\ stack' \in Seq(DataPages) /\ Len(stack') \in Nat /\ Len(stack') <= Len(stack)
      /\ \A i \in 1 .. Len(stack') : stack'[i] = stack[i]
      /\ Len(stack) \in Nat
  BY <1>1, PopProperties, SeqProperties DEF TypeOK
<1>3. TypeOK'
  BY <1>2 DEF TypeOK, Labels, Links, NoResult, Results
<1>4. LatchHeld' /\ (\A u \in Threads : CallInv(u))'
  BY Zenon DEF CallInv, LatchHeld
<1>5. created => hdr[META_PAGE_ID].next = Top(stack')
  BY Zenon, PopProperties DEF PersistedHead, FreelistIsChain, FileShape
<1>6. FileShape'
  <2>1. ~created => stack' = <<>>
    BY Zenon, <1>1 DEF FileShape
  <2>2. QED
    BY Zenon, <2>1 DEF FileShape
<1>7. PersistedHead'
  BY Zenon, <1>5 DEF PersistedHead
<1>8. Extent <= size
  BY DEF FileShape, TypeOK, Extent
<1>9. InExtent'
  <2>1. \A p \in owned : p < size
    BY Zenon DEF OwnedPagesAreLive
  <2>2. \A i \in 1 .. Len(stack) : stack[i] < size
    BY <1>8, StackPages DEF InExtent, Extent, TypeOK, DataPages
  <2>3. QED
    BY <1>2, <2>1, <2>2 DEF InExtent, Extent
<1>10. FreelistIsChain'
  BY <1>2 DEF FreelistIsChain
<1>11. OwnedPagesAreLive'
  BY Zenon DEF OwnedPagesAreLive
<1>12. QED
  BY Zenon, <1>3, <1>4, <1>6, <1>7, <1>9, <1>10, <1>11

\* The head of a nonempty freelist is FREE and links to the rest of the list.
LEMMA HeadLink ==
    ASSUME Inductive, stack # <<>>
    PROVE  /\ Top(stack) \in DataPages /\ Top(stack) \in PageIds
           /\ hdr[Top(stack)] = Stamp("FREE", Top(Pop(stack)))
           /\ Top(Pop(stack)) \in Links
           /\ Pop(stack) \in Seq(DataPages)
           /\ Top(stack) \notin owned
           /\ Top(stack) < Extent
           /\ \A i \in 1 .. Len(Pop(stack)) : Pop(stack)[i] # Top(stack)
<1> USE DEF Inductive
<1>1. stack \in Seq(DataPages)
  BY Zenon DEF TypeOK
<1>2. /\ Len(stack) \in Nat /\ Len(stack) > 0 /\ Len(Pop(stack)) = Len(stack) - 1
      /\ Pop(stack) \in Seq(DataPages)
      /\ \A i \in 1 .. Len(stack) - 1 : Pop(stack)[i] = stack[i]
  BY Zenon, <1>1, PopProperties
<1>3. Top(stack) = stack[Len(stack)] /\ Top(stack) \in DataPages
  BY Zenon, <1>1, TopProperties
<1>4. Top(Pop(stack)) = IF Len(stack) = 1 THEN INVALID_PAGE ELSE stack[Len(stack) - 1]
  <2>1. Pop(stack) = <<>> <=> Len(stack) = 1
    BY <1>2, SeqProperties
  <2>2. QED
    BY <1>2, <2>1 DEF Top
<1>5. hdr[Top(stack)] = Stamp("FREE", Top(Pop(stack)))
  BY <1>2, <1>3, <1>4 DEF FreelistIsChain
<1>6. Top(stack) \notin owned /\ Top(stack) < Extent
  BY <1>2, <1>3 DEF FreelistIsChain, InExtent
<1>7. \A i \in 1 .. Len(Pop(stack)) : Pop(stack)[i] # Top(stack)
  BY <1>2, <1>3 DEF FreelistIsChain
<1>8. QED
  BY <1>2, <1>3, <1>5, <1>6, <1>7, TopProperties DEF DataPages, PageIds

\* DeallocatePage of a held page begins (disk_manager.cpp:268-292).
LEMMA StepDeallocateOwned ==
    ASSUME Inductive, NEW t \in Threads, NEW p, DeallocateOwned(t, p)
    PROVE  Inductive'
<1> USE DEF DeallocateOwned
<1>1. p \in PageIds /\ freelist_head \in Links
  BY DEF Inductive, TypeOK, DataPages, PageIds
<1>2. CallInv(t)'
  BY Zenon, <1>1 DEF CallInv, Begin, Goto, Inductive, TypeOK, file, memory
<1>3. QED
  BY Zenon, <1>1, <1>2, BeginStep DEF Labels

\* The page is stamped FREE, linked to the head (disk_manager.cpp:294).
LEMMA StepStampFree ==
    ASSUME Inductive, NEW t \in Threads, StampFree(t)
    PROVE  Inductive'
<1> USE DEF Inductive, StampFree, memory
<1>1. /\ latch = t /\ mode = "open" /\ arg[t] \in owned /\ nxt[t] = freelist_head
      /\ \A u \in Threads \ {t} : pc[u] = "idle"
      /\ created
  BY Zenon, OthersIdle DEF CallInv, FileShape
<1>2. /\ arg[t] \in DataPages /\ arg[t] \in PageIds /\ arg[t] < page_count
      /\ nxt[t] \in Links /\ "FREE" \in PageTypes
  BY <1>1 DEF TypeOK, DataPages, PageIds, PageTypes, InExtent, Extent
<1>3. /\ hdr' \in [PageIds -> PageHeader]
      /\ hdr'[arg[t]] = Stamp("FREE", freelist_head)
      /\ \A q \in PageIds : q # arg[t] => hdr'[q] = hdr[q]
  BY <1>1, <1>2, HeaderWritten DEF Stamp
<1>4. pc' \in [Threads -> Labels] /\ pc'[t] = "link" /\ \A u \in Threads \ {t} : pc'[u] = "idle"
  BY Zenon, <1>1 DEF TypeOK, Goto, Labels
<1>5. /\ hdr'[META_PAGE_ID] = hdr[META_PAGE_ID]
      /\ hdr'[CATALOG_ROOT_PAGE_ID] = hdr[CATALOG_ROOT_PAGE_ID]
  BY <1>2, <1>3 DEF DataPages, PageIds
<1>6. \A i \in 1 .. Len(stack) : stack[i] # arg[t] /\ hdr'[stack[i]] = hdr[stack[i]]
  BY Zenon, <1>1, <1>3, StackPages DEF FreelistIsChain
<1>7. TypeOK'
  BY Zenon, <1>3, <1>4 DEF TypeOK
<1>8. LatchHeld'
  BY Zenon, <1>1, <1>4 DEF LatchHeld
<1>9. FileShape' /\ PersistedHead'
  BY Zenon, <1>1, <1>5 DEF FileShape, PersistedHead
<1>10. InExtent'
  BY Zenon DEF InExtent, Extent
<1>11. FreelistIsChain'
  BY Zenon, <1>6, ChainKept DEF FreelistIsChain
<1>12. OwnedPagesAreLive'
  BY <1>3 DEF OwnedPagesAreLive, TypeOK, DataPages, PageIds
<1>13. (\A u \in Threads : CallInv(u))'
  BY <1>2, <1>3, <1>4, <1>6 DEF CallInv
<1>14. QED
  BY Zenon, <1>7, <1>8, <1>9, <1>10, <1>11, <1>12, <1>13

\* The page becomes the head of the freelist (disk_manager.cpp:300-307).
LEMMA StepLinkFree ==
    ASSUME Inductive, NEW t \in Threads, LinkFree(t)
    PROVE  Inductive'
<1> USE DEF Inductive, LinkFree
<1>1. /\ latch = t /\ mode = "open" /\ created
      /\ arg[t] \in DataPages /\ arg[t] < page_count /\ arg[t] \notin owned
      /\ hdr[arg[t]] = Stamp("FREE", freelist_head)
      /\ \A i \in 1 .. Len(stack) : stack[i] # arg[t]
      /\ \A u \in Threads \ {t} : pc[u] = "idle"
      /\ freelist_head = Top(stack)
  BY Zenon, OthersIdle DEF CallInv, FileShape, FreelistIsChain
<1>2. META_PAGE_ID \in PageIds /\ "META" \in PageTypes /\ arg[t] \in Links /\ arg[t] \in PageIds
  BY <1>1 DEF PageIds, PageTypes, DataPages, Links
<1>3. /\ hdr' \in [PageIds -> PageHeader]
      /\ hdr'[META_PAGE_ID] = [type |-> "META", next |-> arg[t]]
      /\ \A q \in PageIds : q # META_PAGE_ID => hdr'[q] = hdr[q]
  BY Zenon, <1>2, HeaderWritten
<1>4. /\ stack' \in Seq(DataPages) /\ stack' # <<>>
      /\ Len(stack) \in Nat /\ Len(stack') = Len(stack) + 1
      /\ \A i \in 1 .. Len(stack) : stack'[i] = stack[i]
      /\ stack'[Len(stack) + 1] = arg[t]
      /\ Top(stack') = arg[t]
  BY <1>1, PushProperties DEF TypeOK
<1>5. pc' \in [Threads -> Labels] /\ \A u \in Threads : pc'[u] = "idle"
  BY Zenon, <1>1 DEF TypeOK, Return, Goto, Labels
<1>6. TypeOK'
  <2>1. /\ arg' \in [Threads -> PageIds \cup {MaxPages, INVALID_PAGE}]
        /\ nxt' \in [Threads -> Links]
        /\ latch' = NoThread
        /\ result' \in Results
    BY Zenon DEF TypeOK, Return, Returns, Results, Links
  <2>2. QED
    BY Zenon, <1>2, <1>3, <1>4, <1>5, <2>1 DEF TypeOK
<1>7. LatchHeld' /\ (\A u \in Threads : CallInv(u))'
  BY Zenon, <1>5 DEF LatchHeld, CallInv
<1>8. FileShape'
  BY <1>1, <1>3 DEF FileShape, PageIds
<1>9. PersistedHead'
  BY <1>3, <1>4 DEF PersistedHead
<1>10. InExtent'
  BY <1>1, <1>4 DEF InExtent, Extent
<1>11. FreelistIsChain'
  <2>1. ASSUME NEW i \in 1 .. Len(stack')
        PROVE  /\ hdr'[stack'[i]] = Stamp("FREE", IF i = 1 THEN INVALID_PAGE ELSE stack'[i - 1])
               /\ stack'[i] \notin owned'
    <3>1. CASE i = Len(stack) + 1
      <4>1. Top(stack) = IF i = 1 THEN INVALID_PAGE ELSE stack[i - 1]
        BY <1>4, <3>1, SeqProperties DEF Top, TypeOK
      <4>2. i # 1 => stack'[i - 1] = stack[i - 1]
        BY <1>4, <3>1
      <4>3. QED
        BY <1>1, <1>2, <1>3, <1>4, <3>1, <4>1, <4>2 DEF DataPages
    <3>2. CASE i \in 1 .. Len(stack)
      <4>1. stack[i] \in PageIds /\ stack[i] \in DataPages
        BY Zenon, <3>2, StackPages
      <4>2. stack[i] # META_PAGE_ID
        BY <4>1 DEF DataPages
      <4>3. hdr'[stack[i]] = hdr[stack[i]]
        BY Zenon, <1>3, <4>1, <4>2
      <4>4. i # 1 => stack'[i - 1] = stack[i - 1]
        BY <1>4, <3>2
      <4>5. QED
        BY Zenon, <1>4, <3>2, <4>3, <4>4 DEF FreelistIsChain
    <3>3. QED
      BY <1>4, <3>1, <3>2
  <2>2. \A i, j \in 1 .. Len(stack') : stack'[i] = stack'[j] => i = j
    BY <1>1, <1>4 DEF FreelistIsChain
  <2>3. QED
    BY Zenon, <1>4, <2>1, <2>2 DEF FreelistIsChain
<1>12. OwnedPagesAreLive'
  BY <1>3 DEF OwnedPagesAreLive, TypeOK, DataPages, PageIds
<1>13. QED
  BY Zenon, <1>6, <1>7, <1>8, <1>9, <1>10, <1>11, <1>12

\* An owner overwrites its page (disk_manager.cpp:183-190).
LEMMA StepWritePage ==
    ASSUME Inductive, NEW p \in owned, NEW next \in owned \cup {INVALID_PAGE}, WritePage(p, next)
    PROVE  Inductive'
<1> USE DEF Inductive, WritePage, memory, calls, history
<1>1. /\ p \in DataPages /\ p \in PageIds /\ next \in Links /\ "HEAP" \in PageTypes
      /\ mode = "open" /\ created
  BY DEF TypeOK, DataPages, PageIds, PageTypes, Links, FileShape
<1>2. /\ hdr' \in [PageIds -> PageHeader]
      /\ hdr'[p] = [type |-> "HEAP", next |-> next]
      /\ \A q \in PageIds : q # p => hdr'[q] = hdr[q]
  BY Zenon, <1>1, HeaderWritten
<1>3. /\ hdr'[META_PAGE_ID] = hdr[META_PAGE_ID]
      /\ hdr'[CATALOG_ROOT_PAGE_ID] = hdr[CATALOG_ROOT_PAGE_ID]
  BY <1>1, <1>2 DEF DataPages, PageIds
<1>4. \A i \in 1 .. Len(stack) : hdr'[stack[i]] = hdr[stack[i]]
  BY Zenon, <1>2, StackPages DEF FreelistIsChain
<1>5. TypeOK'
  BY Zenon, <1>2 DEF TypeOK
<1>6. LatchHeld'
  BY Zenon DEF LatchHeld
<1>7. FileShape' /\ PersistedHead' /\ InExtent'
  BY Zenon, <1>1, <1>3 DEF FileShape, PersistedHead, InExtent, Extent
<1>8. FreelistIsChain'
  BY Zenon, <1>4, ChainKept DEF FreelistIsChain
<1>9. OwnedPagesAreLive'
  BY <1>2 DEF OwnedPagesAreLive, TypeOK, DataPages, PageIds
<1>10. ASSUME NEW u \in Threads PROVE CallInv(u)'
  <2>1. pc[u] = "publish" => arg[u] \in PageIds /\ arg[u] # p
    BY OthersIdle DEF CallInv, InExtent, Extent, TypeOK, FileShape, DataPages, PageIds
  <2>2. pc[u] = "link" => arg[u] \in PageIds /\ arg[u] # p
    <3>1. CallInv(u)
      BY Zenon DEF Inductive
    <3>2. pc[u] = "link" => arg[u] \in DataPages /\ arg[u] # p
      BY Zenon, <3>1 DEF CallInv
    <3>3. QED
      BY <3>2 DEF DataPages, PageIds
  <2>3. QED
    BY <1>2, <1>3, <2>1, <2>2 DEF CallInv
<1>11. QED
  BY Zenon, <1>5, <1>6, <1>7, <1>8, <1>9, <1>10

(***************************************************************************)
(* Each step of AllocatePage.                                               *)
(***************************************************************************)

\* AllocatePage reads the head's header (disk_manager.cpp:204-215).
LEMMA StepAllocateFromList ==
    ASSUME Inductive, NEW t \in Threads, AllocateFromList(t)
    PROVE  Inductive'
<1> USE DEF AllocateFromList
<1>1. stack # <<>> /\ freelist_head = Top(stack)
  BY Zenon DEF Inductive, FreelistIsChain, Callable, Top
<1>2. hdr[freelist_head] = Stamp("FREE", Top(Pop(stack)))
  BY Zenon, <1>1, HeadLink
<1>3. Begin(t, Top(stack), Top(Pop(stack)), "persist")
  <2>1. hdr[freelist_head].type = "FREE" /\ hdr[freelist_head].next = Top(Pop(stack))
    BY <1>2 DEF Stamp
  <2>2. Begin(t, freelist_head, hdr[freelist_head].next, "persist")
    BY Zenon, <2>1
  <2>3. QED
    BY Zenon, <1>1, <2>1, <2>2
<1>4. CallInv(t)'
  BY Zenon, <1>1, <1>3 DEF CallInv, Begin, Goto, Inductive, TypeOK, file, memory
<1>5. QED
  BY Zenon, <1>1, <1>3, <1>4, HeadLink, BeginStep DEF Labels

\* The advanced head is persisted (disk_manager.cpp:220).
LEMMA StepPersistAdvancedHead ==
    ASSUME Inductive, NEW t \in Threads, PersistAdvancedHead(t)
    PROVE  Inductive'
<1> USE DEF Inductive, PersistAdvancedHead, memory, history
<1>1. /\ latch = t /\ mode = "open" /\ stack # <<>>
      /\ arg[t] = Top(stack) /\ nxt[t] = Top(Pop(stack)) /\ nxt[t] \in Links
      /\ \A u \in Threads \ {t} : pc[u] = "idle"
  BY Zenon, OthersIdle DEF CallInv, TypeOK
<1>2. META_PAGE_ID \in PageIds /\ "META" \in PageTypes
  BY DEF PageIds, PageTypes
<1>3. /\ hdr' \in [PageIds -> PageHeader]
      /\ hdr'[META_PAGE_ID] = [type |-> "META", next |-> nxt[t]]
      /\ \A q \in PageIds : q # META_PAGE_ID => hdr'[q] = hdr[q]
  BY Zenon, <1>1, <1>2, HeaderWritten
<1>4. pc' \in [Threads -> Labels] /\ pc'[t] = "stamp" /\ \A u \in Threads \ {t} : pc'[u] = "idle"
  BY Zenon, <1>1 DEF TypeOK, Goto, Labels
<1>5. TypeOK'
  BY Zenon, <1>3, <1>4 DEF TypeOK
<1>6. LatchHeld'
  BY Zenon, <1>1, <1>4 DEF LatchHeld
<1>7. FileShape'
  BY <1>1, <1>3 DEF FileShape, PageIds
<1>8. PersistedHead'
  <2>1. mode' = mode /\ stack' = stack
    BY Zenon
  <2>2. hdr'[META_PAGE_ID].next = nxt[t]
    BY <1>3
  <2>3. hdr'[META_PAGE_ID].next = Top(Pop(stack)) /\ mode = "open" /\ stack # <<>>
    BY Zenon, <1>1, <2>2
  <2>4. QED
    BY Zenon, <2>1, <2>3 DEF PersistedHead
<1>9. InExtent'
  BY Zenon DEF InExtent, Extent
<1>10. FreelistIsChain'
  BY <1>3, StackPages, ChainKept DEF FreelistIsChain, DataPages
<1>11. OwnedPagesAreLive'
  BY <1>3 DEF OwnedPagesAreLive, TypeOK, DataPages, PageIds
<1>12. (\A u \in Threads : CallInv(u))'
  BY <1>1, <1>3, <1>4 DEF CallInv
<1>13. QED
  BY Zenon, <1>5, <1>6, <1>7, <1>8, <1>9, <1>10, <1>11, <1>12

\* The page is stamped ALLOCATED and returned (disk_manager.cpp:226-233).
LEMMA StepStampAllocated ==
    ASSUME Inductive, NEW t \in Threads, StampAllocated(t)
    PROVE  Inductive'
<1> USE DEF Inductive, StampAllocated
<1>1. /\ latch = t /\ mode = "open" /\ stack # <<>>
      /\ arg[t] = Top(stack) /\ nxt[t] = Top(Pop(stack))
      /\ hdr[META_PAGE_ID].next = nxt[t]
      /\ \A u \in Threads \ {t} : pc[u] = "idle"
  BY Zenon, OthersIdle DEF CallInv
<1>2. /\ arg[t] \in DataPages /\ arg[t] \in PageIds /\ nxt[t] \in Links
      /\ Pop(stack) \in Seq(DataPages) /\ arg[t] < Extent
      /\ \A i \in 1 .. Len(Pop(stack)) : Pop(stack)[i] # arg[t]
  BY Zenon, <1>1, HeadLink
<1>3. /\ Len(stack) \in Nat /\ Len(stack) > 0 /\ Len(stack') = Len(stack) - 1
      /\ \A i \in 1 .. Len(stack') : stack'[i] = stack[i] /\ stack[i] # arg[t]
                                     /\ stack[i] \in PageIds /\ i \in 1 .. Len(stack)
  <2>1. Len(Pop(stack)) = Len(stack) - 1 /\ \A i \in 1 .. Len(stack) - 1 : Pop(stack)[i] = stack[i]
    BY Zenon, <1>1, PopProperties DEF TypeOK
  <2>2. Len(stack) \in Nat /\ Len(stack) > 0
    BY Zenon, <1>1, PopProperties DEF TypeOK
  <2>3. QED
    BY <1>2, <2>1, <2>2, StackPages
<1>4. /\ hdr' \in [PageIds -> PageHeader]
      /\ hdr'[arg[t]] = [type |-> "ALLOCATED", next |-> INVALID_PAGE]
      /\ \A q \in PageIds : q # arg[t] => hdr'[q] = hdr[q]
  <2>1. "ALLOCATED" \in PageTypes /\ INVALID_PAGE \in Links
    BY Zenon DEF PageTypes, Links
  <2>2. QED
    BY Zenon, <1>2, <2>1, HeaderWritten
<1>5. /\ hdr'[META_PAGE_ID] = hdr[META_PAGE_ID]
      /\ hdr'[CATALOG_ROOT_PAGE_ID] = hdr[CATALOG_ROOT_PAGE_ID]
  BY <1>2, <1>4 DEF DataPages, PageIds
<1>6. pc' \in [Threads -> Labels] /\ \A u \in Threads : pc'[u] = "idle"
  BY Zenon, <1>1 DEF TypeOK, Return, Goto, Labels
<1>7. TypeOK'
  <2>1. /\ arg' \in [Threads -> PageIds \cup {MaxPages, INVALID_PAGE}]
        /\ nxt' \in [Threads -> Links]
        /\ latch' = NoThread
        /\ result' \in Results
    BY Zenon, <1>2 DEF TypeOK, Return, Returns, Results, Links
  <2>2. QED
    BY Zenon, <1>2, <1>4, <1>6, <2>1 DEF TypeOK
<1>8. LatchHeld' /\ (\A u \in Threads : CallInv(u))'
  BY Zenon, <1>6 DEF LatchHeld, CallInv
<1>9. FileShape'
  BY Zenon, <1>1, <1>5 DEF FileShape
<1>10. PersistedHead'
  BY Zenon, <1>1, <1>5 DEF PersistedHead
<1>11. InExtent'
  BY Zenon, <1>2, <1>3 DEF InExtent, Extent
<1>12. FreelistIsChain'
  <2>1. ASSUME NEW i \in 1 .. Len(stack')
        PROVE  /\ hdr'[stack'[i]] = Stamp("FREE", IF i = 1 THEN INVALID_PAGE ELSE stack'[i - 1])
               /\ stack'[i] \notin owned'
    <3>1. hdr'[stack[i]] = hdr[stack[i]]
      BY Zenon, <1>3, <1>4
    <3>2. hdr[stack[i]] = Stamp("FREE", IF i = 1 THEN INVALID_PAGE ELSE stack[i - 1])
      BY Zenon, <1>3 DEF FreelistIsChain
    <3>3. i # 1 => stack'[i - 1] = stack[i - 1]
      BY <1>3
    <3>4. QED
      BY Zenon, <1>3, <3>1, <3>2, <3>3 DEF FreelistIsChain
  <2>2. ASSUME NEW i \in 1 .. Len(stack'), NEW j \in 1 .. Len(stack'), stack'[i] = stack'[j]
        PROVE  i = j
    <3>1. i \in 1 .. Len(stack) /\ j \in 1 .. Len(stack) /\ stack[i] = stack[j]
      BY Zenon, <1>3, <2>2
    <3>2. QED
      BY Zenon, <3>1 DEF FreelistIsChain
  <2>3. freelist_head' = Top(stack')
    BY Zenon, <1>1
  <2>4. QED
    BY Zenon, <2>1, <2>2, <2>3 DEF FreelistIsChain
<1>13. OwnedPagesAreLive'
  <2>1. Extent <= size
    BY Zenon, <1>1 DEF Extent, FileShape
  <2>2. \A p \in owned : p < size /\ hdr'[p].type \in {"ALLOCATED", "HEAP"}
    BY <1>4 DEF OwnedPagesAreLive, TypeOK, DataPages, PageIds
  <2>3. arg[t] < size
    BY <1>2, <2>1 DEF Extent, TypeOK, DataPages
  <2>4. QED
    BY <1>4, <2>2, <2>3 DEF OwnedPagesAreLive
<1>14. QED
  BY Zenon, <1>7, <1>8, <1>9, <1>10, <1>11, <1>12, <1>13

\* AllocatePage begins to extend the file (disk_manager.cpp:234-236).
LEMMA StepAllocateByExtending ==
    ASSUME Inductive, NEW t \in Threads, AllocateByExtending(t)
    PROVE  Inductive'
<1> USE DEF AllocateByExtending
<1>1. stack = <<>> /\ page_count \in PageIds \cup {MaxPages} /\ INVALID_PAGE \in Links
  BY TopProperties DEF Inductive, FreelistIsChain, Callable, TypeOK, PageIds, Links
<1>2. CallInv(t)'
  BY Zenon, <1>1 DEF CallInv, Begin, Goto, Inductive, TypeOK, file, memory
<1>3. QED
  BY Zenon, <1>1, <1>2, BeginStep DEF Labels

\* The file is extended by a zeroed page (disk_manager.cpp:238).
LEMMA StepExtendFile ==
    ASSUME Inductive, NEW t \in Threads, ExtendFile(t)
    PROVE  Inductive'
<1> USE DEF Inductive, ExtendFile, memory, history
<1>1. /\ latch = t /\ mode = "open" /\ stack = <<>> /\ arg[t] = page_count
      /\ \A u \in Threads \ {t} : pc[u] = "idle"
      /\ page_count \in PageIds /\ page_count > 1
      /\ created /\ page_count <= size /\ size <= page_count + 1
  BY Zenon, OthersIdle DEF CallInv, write_empty_page, FileShape
<1>2. /\ hdr' \in [PageIds -> PageHeader]
      /\ \A q \in PageIds : q # page_count => hdr'[q] = hdr[q]
  <2>1. Zeroed \in PageHeader
    BY DEF Zeroed, PageHeader, PageTypes, Links, PageIds
  <2>2. QED
    BY Zenon, <1>1, <2>1 DEF write_empty_page, TypeOK
<1>3. /\ size' = page_count + 1 /\ tail' \in BOOLEAN /\ (~ShortWrites => ~tail')
      /\ size' \in 0 .. MaxPages
  <2>1. /\ size' = IF page_count = size THEN size + 1 ELSE size
        /\ tail' = IF page_count = size THEN FALSE ELSE tail
        /\ size \in 0 .. MaxPages /\ tail \in BOOLEAN /\ (~ShortWrites => ~tail)
    BY Zenon, <1>1 DEF write_empty_page, TypeOK, FileShape
  <2>2. tail' \in BOOLEAN /\ (~ShortWrites => ~tail')
    BY Zenon, <2>1
  <2>3. size' = page_count + 1 /\ size' \in 0 .. MaxPages
    BY <1>1, <2>1 DEF PageIds
  <2>4. QED
    BY Zenon, <2>2, <2>3
<1>4. pc' \in [Threads -> Labels] /\ pc'[t] = "header" /\ \A u \in Threads \ {t} : pc'[u] = "idle"
  BY Zenon, <1>1 DEF TypeOK, Goto, Labels
<1>5. /\ hdr'[META_PAGE_ID] = hdr[META_PAGE_ID]
      /\ hdr'[CATALOG_ROOT_PAGE_ID] = hdr[CATALOG_ROOT_PAGE_ID]
  BY <1>1, <1>2 DEF PageIds
<1>6. TypeOK'
  BY Zenon, <1>2, <1>3, <1>4 DEF TypeOK
<1>7. LatchHeld'
  BY Zenon, <1>1, <1>4 DEF LatchHeld
<1>8. FileShape'
  BY <1>1, <1>3, <1>5 DEF FileShape, TypeOK
<1>9. PersistedHead'
  BY Zenon, <1>1, <1>5 DEF PersistedHead
<1>10. InExtent'
  BY Zenon, <1>1 DEF InExtent, Extent
<1>11. FreelistIsChain'
  BY <1>1 DEF FreelistIsChain
<1>12. OwnedPagesAreLive'
  <2>1. \A p \in owned : p \in PageIds /\ p < page_count
    BY <1>1 DEF InExtent, Extent, TypeOK, DataPages, PageIds
  <2>2. QED
    BY <1>1, <1>2, <1>3, <2>1 DEF OwnedPagesAreLive, PageIds
<1>13. (\A u \in Threads : CallInv(u))'
  BY Zenon, <1>1, <1>3, <1>4 DEF CallInv
<1>14. QED
  BY Zenon, <1>6, <1>7, <1>8, <1>9, <1>10, <1>11, <1>12, <1>13

\* The extension fails: the file may end in a partial page, or the page after the
\* last one that callers may see be zeroed (disk_manager.cpp:239-241).
LEMMA StepExtendFails ==
    ASSUME Inductive, NEW t \in Threads, ExtendFails(t)
    PROVE  Inductive'
<1> USE DEF Inductive, ExtendFails, memory
<1>1. /\ mode = "open" /\ created /\ \A u \in Threads \ {t} : pc[u] = "idle"
      /\ stack = <<>> /\ arg[t] = page_count /\ page_count > 1
  BY Zenon, OthersIdle DEF FileShape, CallInv
<1>2. /\ tail' \in BOOLEAN /\ (~ShortWrites => ~tail') /\ size' = size
      /\ hdr' \in [PageIds -> PageHeader]
      /\ \A q \in PageIds : q # page_count => hdr'[q] = hdr[q]
  <2>1. Zeroed \in PageHeader
    BY DEF Zeroed, PageHeader, PageTypes, Links, PageIds
  <2>2. hdr \in [PageIds -> PageHeader] /\ tail \in BOOLEAN /\ (~ShortWrites => ~tail)
    BY Zenon DEF TypeOK, FileShape
  <2>3. CASE UNCHANGED file
    BY Zenon, <2>2, <2>3 DEF file
  <2>4. CASE ShortWrites /\ tail' = TRUE /\ UNCHANGED <<hdr, size>>
    BY Zenon, <2>2, <2>4
  <2>5. CASE ShortWrites /\ hdr' = [hdr EXCEPT ![page_count] = Zeroed] /\ UNCHANGED <<size, tail>>
    BY Zenon, <2>1, <2>2, <2>5
  <2>6. QED
    BY Zenon, <1>1, <2>3, <2>4, <2>5 DEF write_empty_page_fails
<1>3. pc' \in [Threads -> Labels] /\ \A u \in Threads : pc'[u] = "idle"
  BY Zenon, <1>1 DEF TypeOK, Return, Goto, Labels
<1>4. TypeOK'
  <2>1. /\ arg' \in [Threads -> PageIds \cup {MaxPages, INVALID_PAGE}]
        /\ nxt' \in [Threads -> Links]
        /\ latch' = NoThread
        /\ result' \in Results
    BY Zenon DEF TypeOK, Return, Returns, Results, Links
  <2>2. QED
    BY Zenon, <1>2, <1>3, <2>1 DEF TypeOK
<1>5. LatchHeld' /\ (\A u \in Threads : CallInv(u))'
  BY Zenon, <1>3 DEF LatchHeld, CallInv
<1>6. /\ hdr'[META_PAGE_ID] = hdr[META_PAGE_ID]
      /\ hdr'[CATALOG_ROOT_PAGE_ID] = hdr[CATALOG_ROOT_PAGE_ID]
  BY <1>1, <1>2 DEF PageIds
<1>7. FileShape'
  BY Zenon, <1>1, <1>2, <1>6 DEF FileShape
<1>8. PersistedHead' /\ InExtent'
  BY Zenon, <1>1, <1>6 DEF PersistedHead, InExtent, Extent
<1>9. FreelistIsChain'
  BY <1>1 DEF FreelistIsChain
<1>10. OwnedPagesAreLive'
  <2>1. \A p \in owned : p \in PageIds /\ p < page_count
    BY <1>1 DEF InExtent, Extent, TypeOK, DataPages, PageIds
  <2>2. QED
    BY <1>1, <1>2, <2>1 DEF OwnedPagesAreLive, PageIds
<1>11. QED
  BY Zenon, <1>4, <1>5, <1>7, <1>8, <1>9, <1>10

\* The new page is stamped ALLOCATED (disk_manager.cpp:244).
LEMMA StepStampExtension ==
    ASSUME Inductive, NEW t \in Threads, StampExtension(t)
    PROVE  Inductive'
<1> USE DEF Inductive, StampExtension, memory, history
<1>1. /\ latch = t /\ mode = "open" /\ stack = <<>> /\ arg[t] = page_count
      /\ \A u \in Threads \ {t} : pc[u] = "idle"
      /\ size = page_count + 1 /\ page_count > 1 /\ created
  BY Zenon, OthersIdle DEF CallInv, FileShape
<1>2. arg[t] \in PageIds /\ "ALLOCATED" \in PageTypes /\ INVALID_PAGE \in Links
  BY <1>1 DEF TypeOK, PageIds, PageTypes, Links
<1>3. /\ hdr' \in [PageIds -> PageHeader]
      /\ hdr'[arg[t]] = [type |-> "ALLOCATED", next |-> INVALID_PAGE]
      /\ \A q \in PageIds : q # arg[t] => hdr'[q] = hdr[q]
  BY Zenon, <1>2, HeaderWritten
<1>4. pc' \in [Threads -> Labels] /\ pc'[t] = "publish" /\ \A u \in Threads \ {t} : pc'[u] = "idle"
  BY Zenon, <1>1 DEF TypeOK, Goto, Labels
<1>5. /\ hdr'[META_PAGE_ID] = hdr[META_PAGE_ID]
      /\ hdr'[CATALOG_ROOT_PAGE_ID] = hdr[CATALOG_ROOT_PAGE_ID]
  BY <1>1, <1>2, <1>3 DEF PageIds
<1>6. TypeOK'
  BY Zenon, <1>3, <1>4 DEF TypeOK
<1>7. LatchHeld'
  BY Zenon, <1>1, <1>4 DEF LatchHeld
<1>8. FileShape' /\ PersistedHead' /\ InExtent' /\ FreelistIsChain'
  <2>1. FileShape'
    BY Zenon, <1>1, <1>5 DEF FileShape
  <2>2. PersistedHead'
    BY Zenon, <1>1, <1>5 DEF PersistedHead
  <2>3. InExtent' /\ FreelistIsChain'
    BY <1>1 DEF InExtent, Extent, FreelistIsChain
  <2>4. QED
    BY Zenon, <2>1, <2>2, <2>3
<1>9. OwnedPagesAreLive'
  <2>1. \A p \in owned : p \in PageIds /\ p # arg[t]
    BY <1>1 DEF InExtent, Extent, TypeOK, DataPages, PageIds
  <2>2. QED
    BY Zenon, <1>3, <2>1 DEF OwnedPagesAreLive
<1>10. (\A u \in Threads : CallInv(u))'
  BY <1>1, <1>3, <1>4 DEF CallInv
<1>11. QED
  BY Zenon, <1>6, <1>7, <1>8, <1>9, <1>10

\* page_count_ is published and the page returned (disk_manager.cpp:255-256).
LEMMA StepPublishExtension ==
    ASSUME Inductive, NEW t \in Threads, PublishExtension(t)
    PROVE  Inductive'
<1> USE DEF Inductive, PublishExtension, file
<1>1. /\ latch = t /\ mode = "open" /\ stack = <<>> /\ arg[t] = page_count
      /\ \A u \in Threads \ {t} : pc[u] = "idle"
      /\ size = page_count + 1 /\ page_count > 1 /\ created
      /\ hdr[arg[t]].type = "ALLOCATED"
  BY Zenon, OthersIdle DEF CallInv, FileShape
<1>2. arg[t] \in DataPages
  BY <1>1 DEF TypeOK, DataPages
<1>3. pc' \in [Threads -> Labels] /\ \A u \in Threads : pc'[u] = "idle"
  BY Zenon, <1>1 DEF TypeOK, Return, Goto, Labels
<1>4. TypeOK'
  <2>1. /\ arg' \in [Threads -> PageIds \cup {MaxPages, INVALID_PAGE}]
        /\ nxt' \in [Threads -> Links]
        /\ latch' = NoThread
        /\ result' \in Results
    BY Zenon DEF TypeOK, Return, Returns, Results, Links
  <2>2. QED
    BY Zenon, <1>1, <1>2, <1>3, <2>1 DEF TypeOK
<1>5. LatchHeld' /\ (\A u \in Threads : CallInv(u))'
  BY Zenon, <1>3 DEF LatchHeld, CallInv
<1>6. FileShape' /\ PersistedHead' /\ FreelistIsChain'
  BY <1>1 DEF FileShape, PersistedHead, FreelistIsChain, TypeOK
<1>7. InExtent'
  BY <1>1 DEF InExtent, Extent, TypeOK, DataPages
<1>8. OwnedPagesAreLive'
  BY <1>1 DEF OwnedPagesAreLive, TypeOK
<1>9. QED
  BY Zenon, <1>4, <1>5, <1>6, <1>7, <1>8

(***************************************************************************)
(* The theorems.                                                           *)
(***************************************************************************)

\* The empty file and the closed process satisfy the invariant.
LEMMA InductiveInit == Init => Inductive
<1> SUFFICES ASSUME Init PROVE Inductive
  BY Zenon
<1> USE DEF Init
<1>1. Len(stack) = 0 /\ stack \in Seq(DataPages)
  OBVIOUS
<1>2. TypeOK
  <2>1. Zeroed \in PageHeader /\ NoResult \in Results
    BY DEF Zeroed, PageHeader, PageTypes, Links, PageIds, NoResult, Results
  <2>2. /\ hdr \in [PageIds -> PageHeader]
        /\ pc \in [Threads -> Labels]
        /\ arg \in [Threads -> PageIds \cup {MaxPages, INVALID_PAGE}]
        /\ nxt \in [Threads -> Links]
    BY Zenon, <2>1 DEF Links, Labels
  <2>3. /\ size \in 0 .. MaxPages /\ page_count \in 0 .. MaxPages /\ step \in 1 .. 5
        /\ freelist_head \in Links /\ owned \subseteq DataPages
    BY DEF Links
  <2>4. tail \in BOOLEAN /\ created \in BOOLEAN
    BY Zenon
  <2>5. QED
    BY Zenon, <1>1, <2>1, <2>2, <2>3, <2>4 DEF TypeOK
<1>3. LatchHeld /\ FileShape /\ PersistedHead /\ (\A t \in Threads : CallInv(t))
  BY DEF LatchHeld, FileShape, PersistedHead, CallInv, Zeroed, PageIds
<1>4. InExtent /\ FreelistIsChain /\ OwnedPagesAreLive
  BY <1>1 DEF InExtent, FreelistIsChain, OwnedPagesAreLive
<1>5. QED
  BY Zenon, <1>2, <1>3, <1>4 DEF Inductive

\* Every step of a call, of Open and of the process keeps the invariant.
LEMMA InductiveNext == Inductive /\ [Next]_vars => Inductive'
<1> SUFFICES ASSUME Inductive, [Next]_vars PROVE Inductive'
  BY Zenon
<1>1. CASE UNCHANGED vars
  <2>1. UNCHANGED <<file, memory, calls, owned, stack, created>> /\ result' \in Results
    BY Zenon, <1>1 DEF vars, history, Inductive, TypeOK
  <2>2. QED
    BY Zenon, <2>1, IdleStep
<1>2. CASE Open
  BY Zenon, <1>2, StepOpen
<1>3. CASE OpenReadFails
  <2>1. UNCHANGED <<file, memory, calls, owned, stack, created>> /\ result' \in Results
    BY Zenon, <1>3 DEF OpenReadFails, Returns, Results
  <2>2. QED
    BY Zenon, <2>1, IdleStep
<1>4. CASE OpenNew
  BY Zenon, <1>4, StepOpenNew
<1>5. CASE CreateWrite
  BY Zenon, <1>5, StepCreateWrite
<1>6. CASE CreateFails
  BY Zenon, <1>6, StepCreateFails
<1>7. CASE Crash
  BY Zenon, <1>7, StepCrash
<1>8. ASSUME NEW t \in Threads, Call(t) PROVE Inductive'
  <2>1. CASE AllocateFromList(t)
    BY Zenon, <2>1, StepAllocateFromList
  <2>2. CASE PersistAdvancedHead(t)
    BY Zenon, <2>2, StepPersistAdvancedHead
  <2>3. CASE StampAllocated(t)
    BY Zenon, <2>3, StepStampAllocated
  <2>4. CASE AllocateByExtending(t)
    BY Zenon, <2>4, StepAllocateByExtending
  <2>5. CASE ExtendFile(t)
    BY Zenon, <2>5, StepExtendFile
  <2>6. CASE ExtendFails(t)
    BY Zenon, <2>6, StepExtendFails
  <2>7. CASE StampExtension(t)
    BY Zenon, <2>7, StepStampExtension
  <2>8. CASE PublishExtension(t)
    BY Zenon, <2>8, StepPublishExtension
  <2>9. CASE StampFree(t)
    BY Zenon, <2>9, StepStampFree
  <2>10. CASE LinkFree(t)
    BY Zenon, <2>10, StepLinkFree
  <2>11. CASE HeaderWriteFails(t)
    BY Zenon, <2>11, FailStep DEF HeaderWriteFails
  <2>12. ASSUME NEW op \in {"allocate", "deallocate"}, HeaderReadFails(t, op)
         PROVE  Inductive'
    <3>1. UNCHANGED <<file, memory, calls, owned, stack, created>> /\ result' \in Results
      BY Zenon, <2>12 DEF HeaderReadFails, ReturnsAtOnce, Returns, Results, calls
    <3>2. QED
      BY Zenon, <3>1, IdleStep
  <2>13. ASSUME NEW p \in PageIds \cup {MaxPages, INVALID_PAGE},
                DeallocateRejected(t, p) \/ DeallocateFree(t, p)
         PROVE  Inductive'
    <3>1. UNCHANGED <<file, memory, calls, owned, stack, created>> /\ result' \in Results
      BY <2>13 DEF DeallocateRejected, DeallocateFree, ReturnsAtOnce, Returns, Results, calls
    <3>2. QED
      BY Zenon, <3>1, IdleStep
  <2>14. ASSUME NEW p, DeallocateOwned(t, p) PROVE Inductive'
    BY Zenon, <2>14, StepDeallocateOwned
  <2>15. QED
    BY Zenon, <1>8, <2>1, <2>2, <2>3, <2>4, <2>5, <2>6, <2>7, <2>8, <2>9, <2>10, <2>11,
       <2>12, <2>13, <2>14 DEF Call
<1>9. ASSUME NEW p \in owned, NEW next \in owned \cup {INVALID_PAGE}, WritePage(p, next)
      PROVE  Inductive'
  BY Zenon, <1>9, StepWritePage
<1>10. QED
  BY Zenon, <1>1, <1>2, <1>3, <1>4, <1>5, <1>6, <1>7, <1>8, <1>9 DEF Next

\* The inductive invariant holds in every reachable state, for any number of
\* threads, any device size, and with or without short writes.
THEOREM InductiveInvariance == Spec => []Inductive
<1>1. QED
  BY InductiveInit, InductiveNext, PTL DEF Spec

\* Every reachable state is well typed.
THEOREM TypeCorrectness == Spec => []TypeOK
<1>1. Inductive => TypeOK
  BY Zenon DEF Inductive
<1>2. QED
  BY <1>1, InductiveInvariance, PTL

\* The freelist never holds a cycle, a page that is not FREE or a page a caller
\* holds (AllocatePage, disk_manager.cpp:192-258; DeallocatePage, 260-308).
THEOREM FreelistSafety == Spec => []FreelistIsChain
<1>1. Inductive => FreelistIsChain
  BY Zenon DEF Inductive
<1>2. QED
  BY <1>1, InductiveInvariance, PTL

\* A page AllocatePage has returned is live on disk until it is deallocated.
THEOREM OwnedPagesSafety == Spec => []OwnedPagesAreLive
<1>1. Inductive => OwnedPagesAreLive
  BY Zenon DEF Inductive
<1>2. QED
  BY <1>1, InductiveInvariance, PTL

\* At every instant, so wherever a kill strikes, page 0 names a FREE page of the
\* file or none (the order of the writes in AllocatePage and DeallocatePage).
THEOREM PersistedHeadSafety == Spec => []PersistedHeadIsFree
<1>1. Inductive => PersistedHeadIsFree
  <2> SUFFICES ASSUME Inductive, size > 0, hdr[META_PAGE_ID].type = "META",
                      hdr[META_PAGE_ID].next # INVALID_PAGE
               PROVE  /\ hdr[META_PAGE_ID].next \in DataPages
                      /\ hdr[META_PAGE_ID].next < size
                      /\ hdr[hdr[META_PAGE_ID].next].type = "FREE"
    BY Zenon DEF PersistedHeadIsFree
  <2>1. created
    BY Zenon DEF Inductive, FileShape
  <2>2. /\ stack \in Seq(DataPages) /\ Len(stack) \in Nat
        /\ \A i \in 1 .. Len(stack) : stack[i] \in DataPages
    BY DEF Inductive, TypeOK
  <2>3. PICK i \in 1 .. Len(stack) : hdr[META_PAGE_ID].next = stack[i]
    <3>1. CASE hdr[META_PAGE_ID].next = Top(stack)
      BY <2>2, <3>1, TopProperties
    <3>2. CASE stack # <<>> /\ hdr[META_PAGE_ID].next = Top(Pop(stack))
      <4>1. /\ Pop(stack) \in Seq(DataPages) /\ Len(Pop(stack)) = Len(stack) - 1
            /\ \A k \in 1 .. Len(stack) - 1 : Pop(stack)[k] = stack[k]
        BY Zenon, <2>2, <3>2, PopProperties
      <4>2. PICK k \in 1 .. Len(Pop(stack)) : hdr[META_PAGE_ID].next = Pop(stack)[k]
        BY <3>2, <4>1, TopProperties
      <4>3. QED
        BY <2>2, <4>1, <4>2
    <3>3. QED
      BY Zenon, <2>1, <3>1, <3>2 DEF Inductive, PersistedHead
  <2>4. hdr[stack[i]].type = "FREE"
    <3>1. hdr[stack[i]] = Stamp("FREE", IF i = 1 THEN INVALID_PAGE ELSE stack[i - 1])
      BY Zenon DEF Inductive, FreelistIsChain
    <3>2. QED
      BY <3>1 DEF Stamp
  <2>5. stack[i] < size
    BY <2>2 DEF Inductive, InExtent, Extent, FileShape, TypeOK, DataPages
  <2>6. QED
    BY Zenon, <2>2, <2>3, <2>4, <2>5
<1>2. QED
  BY <1>1, InductiveInvariance, PTL

\* A step reports Corruption of a created file only when it opens one that ends
\* in a partial page; the file then stays closed, and as it is.
LEMMA NoFalseCorruptionNext ==
    ASSUME Inductive, NoFalseCorruption, [Next]_vars
    PROVE  NoFalseCorruption'
<1> USE DEF NoFalseCorruption
<1>1. CASE Open
  <2>1. created /\ ~tail => OpenStatus = "OK"
    BY DEF Inductive, FileShape, OpenStatus, TypeOK
  <2>2. result'.st = OpenStatus
    BY <1>1 DEF Open, Returns
  <2>3. CASE OpenStatus = "OK"
    BY Zenon, <2>2, <2>3
  <2>4. CASE OpenStatus # "OK"
    BY Zenon, <1>1, <2>1, <2>4 DEF Open, file
  <2>5. QED
    BY Zenon, <2>3, <2>4
<1>2. ASSUME NEW t \in Threads, AllocateFromList(t) PROVE NoFalseCorruption'
  <2>1. hdr[freelist_head].type = "FREE"
    <3>1. freelist_head = Top(stack) /\ stack \in Seq(DataPages) /\ stack # <<>>
      BY Zenon, <1>2, TopProperties DEF AllocateFromList, Callable, Inductive, FreelistIsChain, TypeOK
    <3>2. Len(stack) \in 1 .. Len(stack) /\ freelist_head = stack[Len(stack)]
      BY <3>1, TopProperties
    <3>3. hdr[stack[Len(stack)]] =
             Stamp("FREE", IF Len(stack) = 1 THEN INVALID_PAGE ELSE stack[Len(stack) - 1])
      BY Zenon, <3>2 DEF Inductive, FreelistIsChain
    <3>4. QED
      BY <3>2, <3>3 DEF Stamp
  <2>2. QED
    BY <1>2, <2>1 DEF AllocateFromList, Begin, NoResult
<1>3. CASE UNCHANGED vars
  BY Zenon, <1>3 DEF vars, history, file, memory
<1>4. CASE OpenReadFails \/ OpenNew \/ CreateWrite \/ CreateFails \/ Crash
  <2>1. CASE OpenReadFails \/ OpenNew \/ CreateFails \/ Crash
    <3>1. result'.st # "Corruption"
      BY <2>1 DEF OpenReadFails, OpenNew, CreateFails, Crash, Returns, NoResult
    <3>2. QED
      BY Zenon, <3>1
  <2>2. CASE CreateWrite
    <3>1. (created' = created /\ result' = result) \/ result'.st # "Corruption"
      BY <2>2 DEF CreateWrite, Returns
    <3>2. ~created
      BY Zenon, <2>2 DEF CreateWrite, Inductive, FileShape
    <3>3. QED
      BY Zenon, <3>1, <3>2
  <2>3. QED
    BY Zenon, <1>4, <2>1, <2>2
<1>5. ASSUME NEW t \in Threads,
             \/ PersistAdvancedHead(t) \/ StampAllocated(t) \/ AllocateByExtending(t)
             \/ ExtendFile(t) \/ ExtendFails(t) \/ StampExtension(t) \/ PublishExtension(t)
             \/ StampFree(t) \/ LinkFree(t) \/ HeaderWriteFails(t)
      PROVE  NoFalseCorruption'
  <2>1. (created' = created /\ result' = result) \/ result'.st # "Corruption"
    BY <1>5 DEF PersistAdvancedHead, StampAllocated, AllocateByExtending, ExtendFile,
              ExtendFails, StampExtension, PublishExtension, StampFree, LinkFree,
              HeaderWriteFails, Return, Returns, Begin, NoResult, history
  <2>2. mode = "open"
    BY Zenon, <1>5 DEF PersistAdvancedHead, StampAllocated, AllocateByExtending, ExtendFile,
              ExtendFails, StampExtension, PublishExtension, StampFree, LinkFree,
              HeaderWriteFails, Callable, Inductive, LatchHeld
  <2>3. mode # "closed"
    BY <2>2
  <2>4. QED
    BY Zenon, <2>1, <2>3
<1>6. ASSUME NEW t \in Threads, NEW op, HeaderReadFails(t, op) PROVE NoFalseCorruption'
  BY Zenon, <1>6 DEF HeaderReadFails, ReturnsAtOnce, Returns
<1>7. ASSUME NEW t \in Threads, NEW p,
             DeallocateRejected(t, p) \/ DeallocateFree(t, p) \/ DeallocateOwned(t, p)
      PROVE  NoFalseCorruption'
  <2>1. CASE DeallocateRejected(t, p) \/ DeallocateFree(t, p)
    <3>1. \/ result' = [op |-> "deallocate", page |-> p, st |-> "OK"]
          \/ result' = [op |-> "deallocate", page |-> p, st |-> "InvalidArgument"]
      BY Zenon, <2>1 DEF DeallocateRejected, DeallocateFree, ReturnsAtOnce, Returns
    <3>2. result'.st # "Corruption"
      BY <3>1
    <3>3. QED
      BY Zenon, <3>2
  <2>2. CASE DeallocateOwned(t, p)
    <3>1. result' = NoResult
      BY Zenon, <2>2 DEF DeallocateOwned, Begin
    <3>2. QED
      BY <3>1 DEF NoResult
  <2>3. QED
    BY Zenon, <1>7, <2>1, <2>2
<1>8. ASSUME NEW p, NEW next, WritePage(p, next) PROVE NoFalseCorruption'
  BY Zenon, <1>8 DEF WritePage, history, memory
<1>9. QED
  BY Zenon, <1>1, <1>2, <1>3, <1>4, <1>5, <1>6, <1>7, <1>8 DEF Next, Call

\* Whatever is killed where, and whatever write fails, no allocation reports
\* Corruption of a created file, and no Open does unless a short write has left a
\* partial page at its end (the guarantee of disk_manager.hpp:36-38).
THEOREM NoFalseCorruptionHolds == Spec => []NoFalseCorruption
<1>1. Init => NoFalseCorruption
  BY Zenon DEF Init, NoFalseCorruption
<1>2. Inductive /\ NoFalseCorruption /\ [Next]_vars => NoFalseCorruption'
  BY Zenon, NoFalseCorruptionNext
<1>3. QED
  BY <1>1, <1>2, InductiveInvariance, PTL DEF Spec

\* A page enters the range ReadPage accepts only with its header stamped: the
\* header write precedes the store to page_count_ (disk_manager.cpp:244-255).
THEOREM PublicationOrder == Spec => PublishedPageIsStamped
<1>1. ASSUME Inductive, [Next]_vars, mode = "open", mode' = "open",
             NEW p \in PageIds, ~valid_page(p), valid_page(p)'
      PROVE  hdr'[p].type = "ALLOCATED"
  <2>1. page_count' # page_count
    BY Zenon, <1>1 DEF valid_page
  <2>2. PICK t \in Threads : PublishExtension(t)
    BY Zenon, <1>1, <2>1 DEF Next, Call, Open, OpenReadFails, OpenNew, CreateWrite, CreateFails, Crash,
          AllocateFromList, PersistAdvancedHead, StampAllocated, AllocateByExtending, ExtendFile,
          ExtendFails, StampExtension, StampFree, LinkFree, HeaderWriteFails, HeaderReadFails,
          DeallocateRejected, DeallocateFree, DeallocateOwned, WritePage, vars, memory
  <2>3. /\ arg[t] = page_count /\ hdr[arg[t]].type = "ALLOCATED"
        /\ page_count' = arg[t] + 1 /\ hdr' = hdr
    BY Zenon, <1>1, <2>2 DEF PublishExtension, Inductive, CallInv, file
  <2>4. p = arg[t]
    BY <1>1, <2>3 DEF valid_page, Inductive, TypeOK, PageIds
  <2>5. QED
    BY Zenon, <2>3, <2>4
<1>2. Inductive /\ [Next]_vars =>
        [\A p \in PageIds : mode = "open" /\ mode' = "open" /\ ~valid_page(p) /\ valid_page(p)'
             => hdr'[p].type = "ALLOCATED"]_vars
  BY Zenon, <1>1
<1>3. QED
  BY <1>2, InductiveInvariance, PTL DEF Spec, PublishedPageIsStamped

(***************************************************************************)
(* The file implements the one-owner page allocator.                       *)
(***************************************************************************)

\* A step that changes no page's status and does not report a successful
\* allocation is a step of the allocator, or a stutter.
LEMMA QuietRefines ==
    ASSUME \A p \in DataPages : PageStatus(p)' = PageStatus(p),
           result' = result \/ result'.op # "allocate" \/ result'.st # "OK"
    PROVE  [Allocator!ANext]_(Allocator!avars)
<1>1. [p \in DataPages |-> PageStatus(p)]' = [p \in DataPages |-> PageStatus(p)]
  BY Zenon
<1>2. QED
  BY Zenon, <1>1 DEF Allocator!ANext, Allocator!Other, Allocator!avars

\* A step that changes the status of page p alone.
LEMMA StatusOfOne ==
    ASSUME NEW p \in DataPages, NEW st, PageStatus(p)' = st,
           \A q \in DataPages \ {p} : PageStatus(q)' = PageStatus(q)
    PROVE  [q \in DataPages |-> PageStatus(q)]' =
           [[q \in DataPages |-> PageStatus(q)] EXCEPT ![p] = st]
BY Zenon

\* The status of every page, while the history is well formed.
LEMMA StatusUnchanged ==
    ASSUME owned' = owned, stack' = stack, Extent' = Extent
    PROVE  \A p \in DataPages : PageStatus(p)' = PageStatus(p)
BY Zenon DEF PageStatus

\* AllocatePage returns the head of the list: its page was free and is now owned
\* (disk_manager.cpp:222-233).
LEMMA RefinesAllocated ==
    ASSUME Inductive, NEW t \in Threads, NEW p, p = arg[t], StampAllocated(t)
    PROVE  p \in DataPages /\ Allocator!Allocated(p)
<1> USE DEF Inductive, StampAllocated
<1>1. /\ stack \in Seq(DataPages) /\ stack # <<>> /\ p = Top(stack)
      /\ mode = "open" /\ mode' = "open" /\ Extent' = Extent
  BY Zenon DEF CallInv, TypeOK, LatchHeld, Extent
<1>2. /\ Len(stack) \in Nat /\ Len(stack) > 0 /\ p = stack[Len(stack)]
      /\ p \in DataPages
      /\ Len(stack') = Len(stack) - 1
      /\ \A i \in 1 .. Len(stack) - 1 : stack'[i] = stack[i]
  BY Zenon, <1>1, PopProperties, TopProperties
<1>3. p \notin owned
  BY <1>2 DEF FreelistIsChain
<1>4. PageStatus(p) = "free" /\ PageStatus(p)' = "owned"
  BY <1>2, <1>3 DEF PageStatus
<1>5. ASSUME NEW q \in DataPages \ {p} PROVE PageStatus(q)' = PageStatus(q)
  <2>1. (\E i \in 1 .. Len(stack') : stack'[i] = q) <=> (\E i \in 1 .. Len(stack) : stack[i] = q)
    BY <1>2
  <2>2. QED
    BY Zenon, <1>1, <2>1 DEF PageStatus
<1>6. result' = [op |-> "allocate", page |-> p, st |-> "OK"]
  BY Zenon DEF Return, Returns
<1>7. QED
  BY Zenon, <1>2, <1>4, <1>5, <1>6, StatusOfOne DEF Allocator!Allocated, Allocator!Take

\* AllocatePage returns the page it added to the file: it was unborn and is now
\* owned (disk_manager.cpp:255-256).
LEMMA RefinesExtended ==
    ASSUME Inductive, NEW t \in Threads, NEW p, p = arg[t], PublishExtension(t)
    PROVE  p \in DataPages /\ Allocator!Allocated(p)
<1> USE DEF Inductive, PublishExtension
<1>1. /\ mode = "open" /\ mode' = "open" /\ stack = <<>> /\ stack' = <<>>
      /\ p = page_count /\ page_count > 1 /\ size = page_count + 1
      /\ page_count \in 0 .. MaxPages /\ size \in 0 .. MaxPages
  BY Zenon DEF CallInv, LatchHeld, FileShape, TypeOK
<1>2. p \in DataPages /\ Extent = page_count /\ Extent' = page_count + 1
  BY <1>1 DEF DataPages, Extent
<1>3. p \notin owned /\ Len(stack) = 0 /\ Len(stack') = 0
  BY <1>1, <1>2 DEF InExtent
<1>4. PageStatus(p) = "unborn" /\ PageStatus(p)' = "owned"
  BY <1>1, <1>2, <1>3 DEF PageStatus
<1>5. ASSUME NEW q \in DataPages \ {p} PROVE PageStatus(q)' = PageStatus(q)
  <2>1. q < Extent' <=> q < Extent
    BY <1>1, <1>2 DEF DataPages
  <2>2. QED
    BY Zenon, <1>1, <1>3, <2>1 DEF PageStatus
<1>6. result' = [op |-> "allocate", page |-> p, st |-> "OK"]
  BY Zenon DEF Return, Returns
<1>7. QED
  BY Zenon, <1>2, <1>4, <1>5, <1>6, StatusOfOne DEF Allocator!Allocated, Allocator!Take

\* DeallocatePage stamps the page FREE: its owner no longer holds it
\* (disk_manager.cpp:294).
LEMMA RefinesReleased ==
    ASSUME Inductive, NEW t \in Threads, NEW p, p = arg[t], StampFree(t)
    PROVE  p \in DataPages /\ Allocator!Released(p)
<1> USE DEF Inductive, StampFree, memory
<1>1. /\ p \in owned /\ p \in DataPages /\ p < Extent /\ Extent' = Extent
  BY Zenon DEF CallInv, TypeOK, InExtent, Extent
<1>2. \A i \in 1 .. Len(stack) : stack[i] # p
  BY Zenon, <1>1 DEF FreelistIsChain
<1>3. PageStatus(p) = "owned" /\ PageStatus(p)' = "lost"
  BY Zenon, <1>1, <1>2 DEF PageStatus
<1>4. \A q \in DataPages \ {p} : PageStatus(q)' = PageStatus(q)
  BY Zenon, <1>1 DEF PageStatus
<1>5. QED
  BY Zenon, <1>1, <1>3, <1>4, StatusOfOne DEF Allocator!Released, Allocator!Release

\* DeallocatePage returns with the page on the list (disk_manager.cpp:300-307).
LEMMA RefinesFreed ==
    ASSUME Inductive, NEW t \in Threads, NEW p, p = arg[t], LinkFree(t)
    PROVE  p \in DataPages /\ Allocator!Freed(p)
<1> USE DEF Inductive, LinkFree
<1>1. /\ p \in DataPages /\ p < Extent /\ Extent' = Extent /\ p \notin owned
      /\ \A i \in 1 .. Len(stack) : stack[i] # p
      /\ stack \in Seq(DataPages)
  BY Zenon DEF CallInv, TypeOK, LatchHeld, Extent
<1>2. /\ Len(stack) \in Nat /\ Len(stack') = Len(stack) + 1
      /\ \A i \in 1 .. Len(stack) : stack'[i] = stack[i]
      /\ stack'[Len(stack) + 1] = p
  BY Zenon, <1>1, PushProperties
<1>3. PageStatus(p) = "lost" /\ PageStatus(p)' = "free"
  BY <1>1, <1>2 DEF PageStatus
<1>4. ASSUME NEW q \in DataPages \ {p} PROVE PageStatus(q)' = PageStatus(q)
  <2>1. (\E i \in 1 .. Len(stack') : stack'[i] = q) <=> (\E i \in 1 .. Len(stack) : stack[i] = q)
    BY <1>2
  <2>2. QED
    BY Zenon, <1>1, <2>1 DEF PageStatus
<1>5. result' = [op |-> "deallocate", page |-> p, st |-> "OK"]
  BY Zenon DEF Return, Returns
<1>6. QED
  BY Zenon, <1>1, <1>3, <1>4, <1>5, StatusOfOne DEF Allocator!Freed, Allocator!List

\* A kill leaks at most the head page an allocation had unlinked and the page
\* an allocation had added to the file.
LEMMA RefinesLeaked ==
    ASSUME Inductive, Crash
    PROVE  [Allocator!ANext]_(Allocator!avars)
<1> USE DEF Inductive, Crash
<1> DEFINE S == {p \in DataPages : PageStatus(p)' # PageStatus(p)}
<1>1. /\ owned' = owned /\ stack \in Seq(DataPages) /\ Len(stack) \in Nat
      /\ size \in Nat /\ page_count \in Nat /\ Extent' = size
      /\ Extent = size \/ (Extent = page_count /\ page_count <= size /\ size <= page_count + 1)
  <2>1. mode' = "closed" /\ size' = size
    BY Zenon DEF file
  <2>2. QED
    BY <2>1 DEF TypeOK, Extent, FileShape
<1>2. \/ stack' = stack
      \/ /\ Len(stack) > 0 /\ Len(stack') = Len(stack) - 1
         /\ \A i \in 1 .. Len(stack) - 1 : stack'[i] = stack[i]
  <2>1. mode = "open" /\ hdr[META_PAGE_ID].next # freelist_head => stack # <<>>
    BY Zenon DEF PersistedHead, FreelistIsChain, FileShape
  <2>2. QED
    BY Zenon, <1>1, <2>1, PopProperties
<1>3. \A p \in owned : p < Extent /\ p < Extent'
  BY <1>1 DEF InExtent, TypeOK, DataPages
<1>4. \A i \in 1 .. Len(stack) : stack[i] \in DataPages /\ stack[i] < Extent /\ stack[i] < Extent' /\ stack[i] \notin owned
  BY <1>1, StackPages DEF InExtent, FreelistIsChain, DataPages
<1>5. ASSUME NEW p \in S
      PROVE  /\ PageStatus(p)' = "lost"
             /\ \/ PageStatus(p) = "free" /\ p = stack[Len(stack)]
                \/ PageStatus(p) = "unborn" /\ p = page_count
  <2>1. p \in DataPages /\ p \in Int /\ p \notin owned
    BY <1>1 DEF PageStatus, DataPages
  <2>2. CASE \E i \in 1 .. Len(stack) : stack[i] = p
    <3>1. PageStatus(p) = "free" /\ p < Extent'
      BY Zenon, <1>4, <2>1, <2>2 DEF PageStatus
    <3>2. ~ \E i \in 1 .. Len(stack') : stack'[i] = p
      BY Zenon, <1>1, <2>1, <3>1 DEF PageStatus
    <3>3. p = stack[Len(stack)]
      BY <1>1, <1>2, <2>2, <3>2
    <3>4. QED
      BY Zenon, <1>1, <2>1, <3>1, <3>2, <3>3 DEF PageStatus
  <2>3. CASE ~ \E i \in 1 .. Len(stack) : stack[i] = p
    <3>1. ~ \E i \in 1 .. Len(stack') : stack'[i] = p
      BY <1>1, <1>2, <2>3
    <3>2. (p < Extent) # (p < Extent')
      BY Zenon, <1>1, <2>1, <2>3, <3>1 DEF PageStatus
    <3>3. p = page_count /\ ~ (p < Extent) /\ p < Extent'
      BY <1>1, <2>1, <3>2
    <3>4. QED
      BY Zenon, <1>1, <2>1, <2>3, <3>1, <3>3 DEF PageStatus
  <2>4. QED
    BY Zenon, <2>2, <2>3
<1>6. result' = NoResult /\ Allocator!NoResult = NoResult
  BY Zenon DEF NoResult, Allocator!NoResult
<1>7. CASE S = {}
  <2>1. \A p \in DataPages : PageStatus(p)' = PageStatus(p)
    BY Zenon, <1>7
  <2>2. result'.op # "allocate"
    BY <1>6 DEF NoResult
  <2>3. QED
    BY Zenon, <2>1, <2>2, QuietRefines
<1>8. CASE S # {}
  <2>1. [p \in DataPages |-> PageStatus(p)]' =
        [p \in DataPages |-> IF p \in S THEN "lost" ELSE [q \in DataPages |-> PageStatus(q)][p]]
    BY Zenon, <1>5
  <2>2. \A p, q \in S : [r \in DataPages |-> PageStatus(r)][p] = [r \in DataPages |-> PageStatus(r)][q]
           => p = q
    BY Zenon, <1>5
  <2>3. \A p \in S : [r \in DataPages |-> PageStatus(r)][p] \in {"unborn", "free"}
    BY Zenon, <1>5
  <2>4. Allocator!Leaked(S)
    BY Zenon, <1>6, <1>8, <2>1, <2>2, <2>3 DEF Allocator!Leaked
  <2>5. S \in SUBSET DataPages
    BY Zenon
  <2>6. QED
    BY Zenon, <2>4, <2>5 DEF Allocator!ANext
<1>9. QED
  BY Zenon, <1>7, <1>8

\* Every step of the file is a step of the allocator, or a stutter.
LEMMA RefinesNext ==
    ASSUME Inductive, [Next]_vars
    PROVE  [Allocator!ANext]_(Allocator!avars)
<1>1. CASE Crash
  BY Zenon, <1>1, RefinesLeaked
<1>2. ASSUME NEW t \in Threads, StampAllocated(t) PROVE [Allocator!ANext]_(Allocator!avars)
  <2>1. PICK p : p = arg[t]
    BY Zenon
  <2>2. QED
    BY Zenon, <1>2, <2>1, RefinesAllocated DEF Allocator!ANext
<1>3. ASSUME NEW t \in Threads, PublishExtension(t) PROVE [Allocator!ANext]_(Allocator!avars)
  <2>1. PICK p : p = arg[t]
    BY Zenon
  <2>2. QED
    BY Zenon, <1>3, <2>1, RefinesExtended DEF Allocator!ANext
<1>4. ASSUME NEW t \in Threads, StampFree(t) PROVE [Allocator!ANext]_(Allocator!avars)
  <2>1. PICK p : p = arg[t]
    BY Zenon
  <2>2. QED
    BY Zenon, <1>4, <2>1, RefinesReleased DEF Allocator!ANext
<1>5. ASSUME NEW t \in Threads, LinkFree(t) PROVE [Allocator!ANext]_(Allocator!avars)
  <2>1. PICK p : p = arg[t]
    BY Zenon
  <2>2. QED
    BY Zenon, <1>5, <2>1, RefinesFreed DEF Allocator!ANext
<1>6. CASE UNCHANGED vars
  <2>1. owned' = owned /\ stack' = stack /\ Extent' = Extent /\ result' = result
    BY Zenon, <1>6 DEF vars, history, memory, file, Extent
  <2>2. QED
    BY Zenon, <2>1, StatusUnchanged, QuietRefines
<1>7. CASE Open
  <2>1. owned' = owned /\ stack' = stack /\ Extent' = Extent
    BY Zenon, <1>7 DEF Open, file, Extent
  <2>2. result'.op # "allocate"
    BY Zenon, <1>7 DEF Open, Returns
  <2>3. QED
    BY Zenon, <2>1, <2>2, StatusUnchanged, QuietRefines
<1>8. CASE OpenReadFails \/ OpenNew \/ CreateFails
  <2>1. owned' = owned /\ stack' = stack /\ Extent' = Extent
    BY Zenon, <1>8 DEF OpenReadFails, OpenNew, CreateFails, write_empty_page_fails, file, memory, Extent
  <2>2. result'.op # "allocate"
    BY <1>8 DEF OpenReadFails, OpenNew, CreateFails, Returns, NoResult
  <2>3. QED
    BY Zenon, <2>1, <2>2, StatusUnchanged, QuietRefines
<1>9. CASE CreateWrite
  <2>1. owned' = owned /\ stack' = stack
    BY Zenon, <1>9 DEF CreateWrite
  <2>2. Inductive' /\ ~created /\ mode = "creating"
    BY Zenon, <1>9, StepCreateWrite DEF Inductive, FileShape, CreateWrite
  <2>3. Extent \in Int /\ Extent <= 2
    BY <2>2 DEF Inductive, FileShape, TypeOK, Extent
  <2>4. Extent' \in Int /\ Extent' <= 2
    <3>1. CASE step = 5
      <4>1. mode' = "open" /\ page_count' = page_count /\ page_count = 2
        BY <1>9, <3>1 DEF CreateWrite, Inductive, FileShape
      <4>2. QED
        BY <4>1 DEF Extent
    <3>2. CASE step # 5
      <4>1. created' = created /\ mode' = mode
        BY Zenon, <1>9, <3>2 DEF CreateWrite
      <4>2. QED
        BY <2>2, <4>1 DEF Inductive, FileShape, TypeOK, Extent
    <3>3. QED
      BY Zenon, <3>1, <3>2
  <2>5. \A p \in DataPages : PageStatus(p)' = PageStatus(p)
    BY <2>1, <2>3, <2>4 DEF PageStatus, DataPages
  <2>6. result' = result \/ result'.op # "allocate"
    BY <1>9 DEF CreateWrite, Returns
  <2>7. QED
    BY Zenon, <2>5, <2>6, QuietRefines
<1>10. ASSUME NEW t \in Threads,
              \/ AllocateFromList(t) \/ PersistAdvancedHead(t) \/ AllocateByExtending(t)
              \/ ExtendFails(t) \/ StampExtension(t) \/ HeaderWriteFails(t)
              \/ \E op \in {"allocate", "deallocate"} : HeaderReadFails(t, op)
              \/ \E p \in PageIds \cup {MaxPages, INVALID_PAGE} :
                    DeallocateRejected(t, p) \/ DeallocateFree(t, p) \/ DeallocateOwned(t, p)
       PROVE  [Allocator!ANext]_(Allocator!avars)
  <2>1. owned' = owned /\ stack' = stack /\ Extent' = Extent
    BY Zenon, <1>10 DEF AllocateFromList, PersistAdvancedHead, AllocateByExtending, ExtendFails,
         StampExtension, HeaderWriteFails, HeaderReadFails, DeallocateRejected, DeallocateFree,
         DeallocateOwned, write_empty_page_fails, file, memory, history, Extent
  <2>2. result' = result \/ result'.op # "allocate" \/ result'.st # "OK"
    <3>1. CASE PersistAdvancedHead(t) \/ StampExtension(t)
      BY <3>1 DEF PersistAdvancedHead, StampExtension, history
    <3>2. CASE AllocateFromList(t) \/ AllocateByExtending(t)
      BY <3>2 DEF AllocateFromList, AllocateByExtending, Begin, ReturnsAtOnce, Returns, NoResult
    <3>3. CASE ExtendFails(t) \/ HeaderWriteFails(t)
      BY <3>3 DEF ExtendFails, HeaderWriteFails, Return, Returns
    <3>4. CASE \E op \in {"allocate", "deallocate"} : HeaderReadFails(t, op)
      BY <3>4 DEF HeaderReadFails, ReturnsAtOnce, Returns
    <3>5. CASE \E p \in PageIds \cup {MaxPages, INVALID_PAGE} :
                  DeallocateRejected(t, p) \/ DeallocateFree(t, p) \/ DeallocateOwned(t, p)
      BY <3>5 DEF DeallocateRejected, DeallocateFree, DeallocateOwned, Begin, ReturnsAtOnce, Returns, NoResult
    <3>6. QED
      BY <1>10, <3>1, <3>2, <3>3, <3>4, <3>5
  <2>3. QED
    BY Zenon, <2>1, <2>2, StatusUnchanged, QuietRefines
<1>11. ASSUME NEW t \in Threads, ExtendFile(t) PROVE [Allocator!ANext]_(Allocator!avars)
  <2>1. owned' = owned /\ stack' = stack /\ Extent' = Extent /\ result' = result
    BY Zenon, <1>11 DEF ExtendFile, memory, history, Extent, Inductive, LatchHeld
  <2>2. QED
    BY Zenon, <2>1, StatusUnchanged, QuietRefines
<1>12. ASSUME NEW p, NEW next, WritePage(p, next) PROVE [Allocator!ANext]_(Allocator!avars)
  <2>1. owned' = owned /\ stack' = stack /\ Extent' = Extent /\ result' = result
    BY Zenon, <1>12 DEF WritePage, memory, history, Extent
  <2>2. QED
    BY Zenon, <2>1, StatusUnchanged, QuietRefines
<1>13. QED
  BY Zenon, <1>1, <1>2, <1>3, <1>4, <1>5, <1>6, <1>7, <1>8, <1>9, <1>10, <1>11, <1>12
     DEF Next, Call

\* The file, its latch, its failures and its kills implement the allocator that
\* gives every page one owner at a time (disk_manager.hpp:35-41, 99-121).
THEOREM Refinement == Spec => ImplementsAllocator
<1>1. Init => Allocator!AInit
  <2> SUFFICES ASSUME Init PROVE Allocator!AInit
    BY Zenon
  <2>1. \A p \in DataPages : PageStatus(p) = "unborn"
    BY DEF Init, PageStatus, Extent, DataPages
  <2>2. QED
    BY Zenon, <2>1 DEF Init, Allocator!AInit, Allocator!NoResult, NoResult
<1>2. Inductive /\ [Next]_vars => [Allocator!ANext]_(Allocator!avars)
  BY Zenon, RefinesNext
<1>3. QED
  BY <1>1, <1>2, InductiveInvariance, PTL DEF Spec, ImplementsAllocator, Allocator!ASpec

=============================================================================
