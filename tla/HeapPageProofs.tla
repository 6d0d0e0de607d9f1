---------------------------- MODULE HeapPageProofs ----------------------------
(***************************************************************************)
(* Proofs about HeapPage, for any page size, slot size and tuples: the      *)
(* accounting of the page holds after every call, no slot or tuple lands on *)
(* another, and the page implements SlotPage.                               *)
(***************************************************************************)
EXTENDS HeapPage, FiniteSetTheorems, TLAPS

\* How long the provers may take.
USE SMTT(30), ZenonT(10)

(***************************************************************************)
(* Sums.                                                                   *)
(***************************************************************************)

\* A nonempty set of numbers has a least one.
LEMMA LeastNat ==
    ASSUME NEW T, T \subseteq Nat, T # {}
    PROVE  \E x \in T : \A y \in T : x <= y
<1>1. PICK x \in T : \A y \in T : ~ (<<y, x>> \in OpToRel(<, Nat))
  BY NatLessThanWellFounded, WFMin, ZenonT(20)
<1>2. \A y \in T : <<y, x>> \in OpToRel(<, Nat) <=> y < x
  BY DEF OpToRel
<1>3. ASSUME NEW y \in T
      PROVE  x <= y
  <2>1. ~(y < x)
    BY <1>1, <1>2, ZenonT(20)
  <2>2. x \in Nat /\ y \in Nat
    OBVIOUS
  <2>3. QED
    BY <2>1, <2>2
<1>4. QED
  BY <1>3

\* g adds up f as far as n.
AddsUp(g, f, n) == \A k \in 0 .. n : g[k] = IF k = 0 THEN 0 ELSE g[k - 1] + f[k]

\* Some function adds up f, as far as one likes.
LEMMA SomethingAddsUp ==
    ASSUME NEW f, NEW n \in Nat
    PROVE  \E g : AddsUp(g, f, n)
<1> DEFINE Bad == {k \in Nat : ~\E g : AddsUp(g, f, k)}
<1> SUFFICES ASSUME Bad # {} PROVE FALSE
  OBVIOUS
<1>1. PICK m \in Bad : \A k \in Bad : m <= k
  <2>1. Bad \subseteq Nat
    OBVIOUS
  <2> HIDE DEF Bad
  <2>2. QED
    BY <2>1, LeastNat, ZenonT(20)
<1>2. m \in Nat /\ ~\E g : AddsUp(g, f, m)
  OBVIOUS
<1>3. m # 0
  <2>1. AddsUp([k \in {0} |-> 0], f, 0)
    BY DEF AddsUp
  <2>2. QED
    BY <1>2, <2>1
<1>4. PICK g : AddsUp(g, f, m - 1)
  BY <1>1, <1>2, <1>3
<1> DEFINE h == [k \in 0 .. m |-> IF k = m THEN g[m - 1] + f[m] ELSE g[k]]
<1>5. AddsUp(h, f, m)
  <2> SUFFICES ASSUME NEW k \in 0 .. m PROVE h[k] = IF k = 0 THEN 0 ELSE h[k - 1] + f[k]
    BY DEF AddsUp
  <2>1. CASE k = m
    BY <1>2, <1>3, <2>1
  <2>2. CASE k # m
    <3>1. k \in 0 .. m - 1 /\ (k # 0 => k - 1 \in 0 .. m /\ k - 1 # m)
      BY <1>2, <2>2
    <3>2. g[k] = IF k = 0 THEN 0 ELSE g[k - 1] + f[k]
      BY <1>4, <3>1 DEF AddsUp
    <3>3. QED
      BY <2>2, <3>1, <3>2
  <2>3. QED
    BY <2>1, <2>2
<1>6. QED
  BY <1>2, <1>5

\* Two functions that add up f agree.
LEMMA AddingUpAgrees ==
    ASSUME NEW f, NEW n \in Nat, NEW g, NEW h, AddsUp(g, f, n), AddsUp(h, f, n), NEW k \in 0 .. n
    PROVE  g[k] = h[k]
<1> DEFINE Bad == {j \in 0 .. n : g[j] # h[j]}
<1> SUFFICES ASSUME Bad # {} PROVE FALSE
  OBVIOUS
<1>1. PICK m \in Bad : \A j \in Bad : m <= j
  <2>1. Bad \subseteq Nat
    OBVIOUS
  <2> HIDE DEF Bad
  <2>2. QED
    BY <2>1, LeastNat, ZenonT(20)
<1>2. m \in 0 .. n /\ g[m] # h[m]
  OBVIOUS
<1>3. m # 0
  BY <1>2 DEF AddsUp
<1>4. m - 1 \in 0 .. n /\ m - 1 \notin Bad
  BY <1>1, <1>2, <1>3
<1>5. g[m - 1] = h[m - 1]
  BY <1>4
<1>6. g[m] = g[m - 1] + f[m] /\ h[m] = h[m - 1] + f[m]
  BY <1>2, <1>3 DEF AddsUp
<1>7. QED
  BY <1>2, <1>5, <1>6

\* What Total computes, one number at a time.
LEMMA TotalSteps ==
    ASSUME NEW f
    PROVE  /\ Total(f, 0) = 0
           /\ \A n \in Nat : Total(f, n + 1) = Total(f, n) + f[n + 1]
<1> DEFINE upto(k) == CHOOSE g : AddsUp(g, f, k)
           all == [k \in Nat |-> upto(k)[k]]
           Rule(sum) == sum = [k \in Nat |-> IF k = 0 THEN 0 ELSE sum[k - 1] + f[k]]
<1>1. \A k \in Nat : AddsUp(upto(k), f, k)
  BY SomethingAddsUp
<1> HIDE DEF upto
<1>2. ASSUME NEW k \in Nat
      PROVE  all[k] = IF k = 0 THEN 0 ELSE all[k - 1] + f[k]
  <2>1. upto(k)[k] = IF k = 0 THEN 0 ELSE upto(k)[k - 1] + f[k]
    BY <1>1 DEF AddsUp
  <2>2. k # 0 => upto(k)[k - 1] = upto(k - 1)[k - 1]
    <3> SUFFICES ASSUME k # 0 PROVE upto(k)[k - 1] = upto(k - 1)[k - 1]
      OBVIOUS
    <3>1. k - 1 \in Nat /\ k - 1 \in 0 .. k - 1
      OBVIOUS
    <3>2. AddsUp(upto(k), f, k - 1) /\ AddsUp(upto(k - 1), f, k - 1)
      BY <1>1, <3>1 DEF AddsUp
    <3>3. QED
      BY <3>1, <3>2, AddingUpAgrees
  <2>3. QED
    BY <2>1, <2>2
<1>3. Rule(all)
  BY <1>2
<1> HIDE DEF all
<1> DEFINE sum == CHOOSE s : Rule(s)
<1>4. Rule(sum)
  BY <1>3
<1>5. \A n : Total(f, n) = sum[n]
  BY DEF Total
<1> HIDE DEF sum
<1>6. \A k \in Nat : sum[k] = IF k = 0 THEN 0 ELSE sum[k - 1] + f[k]
  BY <1>4
<1>7. QED
  BY <1>5, <1>6
\* Sums of natural numbers are natural numbers.
LEMMA TotalNat ==
    ASSUME NEW f, NEW n \in Nat, \A k \in 1 .. n : f[k] \in Nat
    PROVE  \A k \in 0 .. n : Total(f, k) \in Nat
<1> DEFINE Bad == {k \in 0 .. n : Total(f, k) \notin Nat}
<1> SUFFICES ASSUME Bad # {} PROVE FALSE
  OBVIOUS
<1>1. PICK m \in Bad : \A j \in Bad : m <= j
  <2>1. Bad \subseteq Nat
    OBVIOUS
  <2> HIDE DEF Bad
  <2>2. QED
    BY <2>1, LeastNat, ZenonT(20)
<1>2. m \in 0 .. n /\ Total(f, m) \notin Nat
  OBVIOUS
<1>3. m # 0
  BY <1>2, TotalSteps
<1>4. m - 1 \in 0 .. n /\ m - 1 \notin Bad
  BY <1>1, <1>2, <1>3
<1>5. Total(f, m - 1) \in Nat
  BY <1>4
<1>6. Total(f, m) = Total(f, m - 1) + f[m]
  <2>1. m - 1 \in Nat /\ (m - 1) + 1 = m
    BY <1>2, <1>3
  <2>2. QED
    BY <2>1, TotalSteps
<1>7. QED
  BY <1>2, <1>3, <1>5, <1>6

\* They grow with every number added.
LEMMA TotalGrows ==
    ASSUME NEW f, NEW n \in Nat, \A k \in 1 .. n : f[k] \in Nat,
           NEW j \in 0 .. n, NEW i \in 0 .. j
    PROVE  Total(f, i) <= Total(f, j)
<1> DEFINE Bad == {k \in i .. n : ~(Total(f, i) <= Total(f, k))}
<1> SUFFICES ASSUME Bad # {} PROVE FALSE
  OBVIOUS
<1>1. PICK m \in Bad : \A k \in Bad : m <= k
  <2>1. Bad \subseteq Nat
    OBVIOUS
  <2> HIDE DEF Bad
  <2>2. QED
    BY <2>1, LeastNat, ZenonT(20)
<1>2. m \in i .. n /\ ~(Total(f, i) <= Total(f, m))
  OBVIOUS
<1>3. m # i
  BY <1>2, TotalNat
<1>4. m - 1 \in i .. n /\ m - 1 \notin Bad
  BY <1>1, <1>2, <1>3
<1>5. Total(f, i) <= Total(f, m - 1)
  BY <1>4
<1>6. Total(f, m) = Total(f, m - 1) + f[m]
  <2>1. m - 1 \in Nat /\ (m - 1) + 1 = m
    BY <1>2, <1>3
  <2>2. QED
    BY <2>1, TotalSteps
<1>7. Total(f, i) \in Nat /\ Total(f, m - 1) \in Nat /\ f[m] \in Nat
  BY <1>2, <1>3, TotalNat
<1>8. QED
  BY <1>2, <1>5, <1>6, <1>7

\* A sum depends on the numbers it adds up and on nothing else.
LEMMA TotalAgrees ==
    ASSUME NEW f, NEW g, NEW n \in Nat, \A k \in 1 .. n : f[k] = g[k]
    PROVE  Total(f, n) = Total(g, n)
<1> DEFINE Bad == {k \in 0 .. n : Total(f, k) # Total(g, k)}
<1> SUFFICES ASSUME Bad # {} PROVE FALSE
  OBVIOUS
<1>1. PICK m \in Bad : \A j \in Bad : m <= j
  <2>1. Bad \subseteq Nat
    OBVIOUS
  <2> HIDE DEF Bad
  <2>2. QED
    BY <2>1, LeastNat, ZenonT(20)
<1>2. m \in 0 .. n /\ Total(f, m) # Total(g, m)
  OBVIOUS
<1>3. m # 0
  BY <1>2, TotalSteps
<1>4. m - 1 \in 0 .. n /\ m - 1 \notin Bad
  BY <1>1, <1>2, <1>3
<1>5. Total(f, m - 1) = Total(g, m - 1)
  BY <1>4
<1>6. Total(f, m) = Total(f, m - 1) + f[m] /\ Total(g, m) = Total(g, m - 1) + g[m]
  <2>1. m - 1 \in Nat /\ (m - 1) + 1 = m
    BY <1>2, <1>3
  <2>2. QED
    BY <2>1, TotalSteps
<1>7. QED
  BY <1>2, <1>3, <1>5, <1>6

\* When one of the numbers changes, the sum changes by as much.
LEMMA TotalChanges ==
    ASSUME NEW f, NEW g, NEW n \in Nat, NEW i \in 1 .. n,
           \A k \in 1 .. n : f[k] \in Nat /\ g[k] \in Nat /\ (k # i => f[k] = g[k])
    PROVE  Total(g, n) = Total(f, n) - f[i] + g[i]
<1> DEFINE Bad == {k \in i .. n : Total(g, k) # Total(f, k) - f[i] + g[i]}
<1> SUFFICES ASSUME Bad # {} PROVE FALSE
  OBVIOUS
<1>1. PICK m \in Bad : \A j \in Bad : m <= j
  <2>1. Bad \subseteq Nat
    OBVIOUS
  <2> HIDE DEF Bad
  <2>2. QED
    BY <2>1, LeastNat, ZenonT(20)
<1>2. m \in i .. n /\ Total(g, m) # Total(f, m) - f[i] + g[i]
  OBVIOUS
<1>3. Total(f, m) = Total(f, m - 1) + f[m] /\ Total(g, m) = Total(g, m - 1) + g[m]
  <2>1. m - 1 \in Nat /\ (m - 1) + 1 = m
    BY <1>2
  <2>2. QED
    BY <2>1, TotalSteps
<1>4. Total(f, m - 1) \in Nat /\ Total(g, m - 1) \in Nat /\ f[m] \in Nat /\ g[m] \in Nat
  BY <1>2, TotalNat
<1>5. m # i
  <2> SUFFICES ASSUME m = i PROVE FALSE
    OBVIOUS
  <2>1. Total(f, m - 1) = Total(g, m - 1)
    BY TotalAgrees
  <2>2. QED
    BY <1>2, <1>3, <1>4, <2>1
<1>6. m - 1 \in i .. n /\ m - 1 \notin Bad
  BY <1>1, <1>2, <1>5
<1>7. Total(g, m - 1) = Total(f, m - 1) - f[i] + g[i]
  BY <1>6
<1>8. f[m] = g[m] /\ f[i] \in Nat /\ g[i] \in Nat
  BY <1>2, <1>5
<1>9. QED
  BY <1>2, <1>3, <1>4, <1>7, <1>8

(***************************************************************************)
(* Pages.                                                                  *)
(***************************************************************************)

HeaderType == [slot_count : Nat, tuple_data_start : Nat, live_count : Nat, dead_bytes : Nat]
EntryType == [offset : Nat, length : Nat]

\* Where the slot array of a page with n slots ends.
ArrayEnd(n) == HEAP_SUB_HEADER_SIZE + n * SLOT_SIZE

\* Two entries whose tuples share no byte.
Apart(e, d) == e.offset + e.length <= d.offset \/ d.offset + d.length <= e.offset

\* A page is good when its counters account for its bytes (CheckInvariants) and
\* the tuples of two slots share no byte.
Good(h, b) ==
    /\ h \in HeaderType
    /\ h.tuple_data_start <= PAGE_BODY_SIZE
    /\ ArrayEnd(h.slot_count) <= h.tuple_data_start
    /\ \A i \in 1 .. h.slot_count : /\ SlotAt(b, i) \in EntryType
                                    /\ i \notin Live(h, b) => Length(b, i) = 0
    /\ \A i \in Live(h, b) : /\ SlotAt(b, i).offset >= h.tuple_data_start
                             /\ SlotAt(b, i).offset + Length(b, i) <= PAGE_BODY_SIZE
                             /\ Length(b, i) > 0
    /\ \A i, j \in Live(h, b) : i # j => Apart(SlotAt(b, i), SlotAt(b, j))
    /\ h.live_count = Cardinality(Live(h, b))
    /\ h.tuple_data_start + SumLengths(h, b, h.slot_count) + h.dead_bytes = PAGE_BODY_SIZE

\* The sizes are positive numbers.
LEMMA Sizes ==
    /\ HEAP_SUB_HEADER_SIZE \in Nat /\ HEAP_SUB_HEADER_SIZE > 0
    /\ SLOT_SIZE \in Nat /\ SLOT_SIZE > 0
    /\ MAX_TUPLE_SIZE \in Nat /\ MAX_TUPLE_SIZE > 0
    /\ PAGE_BODY_SIZE \in Nat
    /\ HEAP_SUB_HEADER_SIZE <= PAGE_BODY_SIZE
BY LayoutAssumption

\* The slots follow one another up to the end of the array.
LEMMA SlotsInARow ==
    ASSUME NEW n \in Nat
    PROVE  /\ ArrayEnd(n) \in Nat
           /\ ArrayEnd(n + 1) = ArrayEnd(n) + SLOT_SIZE
           /\ \A i \in 1 .. n : /\ SlotOffset(i) \in Nat
                                /\ HEAP_SUB_HEADER_SIZE <= SlotOffset(i)
                                /\ SlotOffset(i) + SLOT_SIZE <= ArrayEnd(n)
           /\ \A i, j \in 1 .. n : i < j => SlotOffset(i) + SLOT_SIZE <= SlotOffset(j)
<1>1. \A x \in Nat : x * SLOT_SIZE \in Nat /\ (x + 1) * SLOT_SIZE = x * SLOT_SIZE + SLOT_SIZE
  BY Sizes
<1>2. \A x, y \in Nat : x <= y => x * SLOT_SIZE <= y * SLOT_SIZE
  <2> SUFFICES ASSUME NEW x \in Nat, NEW y \in Nat, x <= y PROVE x * SLOT_SIZE <= y * SLOT_SIZE
    OBVIOUS
  <2>1. y - x \in Nat /\ y = x + (y - x)
    OBVIOUS
  <2>2. (x + (y - x)) * SLOT_SIZE = x * SLOT_SIZE + (y - x) * SLOT_SIZE
    BY Sizes
  <2>3. QED
    BY <1>1, <2>1, <2>2, Sizes
<1>3. ArrayEnd(n) \in Nat /\ ArrayEnd(n + 1) = ArrayEnd(n) + SLOT_SIZE
  BY <1>1, Sizes DEF ArrayEnd
<1>4. ASSUME NEW i \in 1 .. n
      PROVE  /\ SlotOffset(i) \in Nat
             /\ HEAP_SUB_HEADER_SIZE <= SlotOffset(i)
             /\ SlotOffset(i) + SLOT_SIZE = ArrayEnd(i)
             /\ SlotOffset(i) + SLOT_SIZE <= ArrayEnd(n)
  <2>1. i - 1 \in Nat /\ i \in Nat /\ i <= n /\ (i - 1) + 1 = i
    OBVIOUS
  <2>2. (i - 1) * SLOT_SIZE \in Nat /\ i * SLOT_SIZE = (i - 1) * SLOT_SIZE + SLOT_SIZE
    BY <1>1, <2>1
  <2>3. i * SLOT_SIZE <= n * SLOT_SIZE /\ n * SLOT_SIZE \in Nat
    BY <1>1, <1>2, <2>1
  <2>4. QED
    BY <2>2, <2>3, Sizes DEF SlotOffset, ArrayEnd
<1>5. ASSUME NEW i \in 1 .. n, NEW j \in 1 .. n, i < j
      PROVE  SlotOffset(i) + SLOT_SIZE <= SlotOffset(j)
  <2>1. i \in Nat /\ j - 1 \in Nat /\ i <= j - 1
    BY <1>5
  <2>2. /\ i * SLOT_SIZE <= (j - 1) * SLOT_SIZE
        /\ i * SLOT_SIZE \in Nat /\ (j - 1) * SLOT_SIZE \in Nat
    BY <1>1, <1>2, <2>1
  <2>3. SlotOffset(i) + SLOT_SIZE = ArrayEnd(i)
    BY <1>4
  <2>4. QED
    BY <2>2, <2>3, Sizes DEF SlotOffset, ArrayEnd
<1>6. QED
  BY <1>3, <1>4, <1>5

\* c is b with slot i of n made entry: nothing else in the array or behind it changes.
IsWritten(n, b, i, entry, c) ==
    /\ SlotAt(c, i) = entry
    /\ \A j \in 1 .. n : j # i => SlotAt(c, j) = SlotAt(b, j)
    /\ \A o \in ArrayEnd(n) .. PAGE_BODY_SIZE - 1 : c[o] = b[o]

\* That is what writing the slot does.
LEMMA SlotWritten ==
    ASSUME NEW n \in Nat, ArrayEnd(n) <= PAGE_BODY_SIZE, NEW b, NEW i \in 1 .. n, NEW entry,
           NEW c, c = WriteSlot(b, i, entry)
    PROVE  IsWritten(n, b, i, entry, c)
<1>1. \A j \in 1 .. n : /\ SlotOffset(j) \in Nat
                        /\ HEAP_SUB_HEADER_SIZE <= SlotOffset(j)
                        /\ SlotOffset(j) + SLOT_SIZE <= ArrayEnd(n)
  BY SlotsInARow, ZenonT(20)
<1>2. ArrayEnd(n) \in Nat /\ ArrayEnd(n) >= HEAP_SUB_HEADER_SIZE
  BY <1>1, SlotsInARow, Sizes
<1>3. \A j \in 1 .. n : SlotOffset(j) \in Offsets
  BY <1>1, <1>2, Sizes DEF Offsets
<1>4. SlotAt(c, i) = entry
  <2>1. SlotOffset(i) \in SlotOffset(i) .. SlotOffset(i) + SLOT_SIZE - 1
    BY <1>1, Sizes
  <2>2. QED
    BY <1>3, <2>1 DEF SlotAt, WriteSlot
<1>5. ASSUME NEW j \in 1 .. n, j # i
      PROVE  SlotAt(c, j) = SlotAt(b, j)
  <2>1. i < j \/ j < i
    BY <1>5
  <2>2. SlotOffset(i) + SLOT_SIZE <= SlotOffset(j) \/ SlotOffset(j) + SLOT_SIZE <= SlotOffset(i)
    BY <2>1, SlotsInARow
  <2>3. SlotOffset(j) \notin SlotOffset(i) .. SlotOffset(i) + SLOT_SIZE - 1
    BY <1>1, <2>2, Sizes
  <2>4. QED
    BY <1>3, <2>3 DEF SlotAt, WriteSlot
<1>6. ASSUME NEW o \in ArrayEnd(n) .. PAGE_BODY_SIZE - 1
      PROVE  c[o] = b[o]
  <2>1. o \in Offsets /\ o \notin SlotOffset(i) .. SlotOffset(i) + SLOT_SIZE - 1
    BY <1>1, <1>2, Sizes DEF Offsets
  <2>2. QED
    BY <2>1 DEF WriteSlot
<1>7. QED
  BY <1>4, <1>5, <1>6 DEF IsWritten

\* c is b with a tuple copied to offset, behind an array of n slots.
Behind(n, b, offset, tuple, c) ==
    /\ \A j \in 1 .. n : SlotAt(c, j) = SlotAt(b, j)
    /\ \A k \in 1 .. Len(tuple) : c[offset + k - 1] = tuple[k]
    /\ \A o \in ArrayEnd(n) .. PAGE_BODY_SIZE - 1 :
          o < offset \/ offset + Len(tuple) <= o => c[o] = b[o]

\* That is what copying the tuple does.
LEMMA TupleCopied ==
    ASSUME NEW n \in Nat, NEW b, NEW tuple \in Tuples, NEW offset \in Nat,
           ArrayEnd(n) <= offset, offset + Len(tuple) <= PAGE_BODY_SIZE,
           NEW c, c = Copy(b, offset, tuple)
    PROVE  Behind(n, b, offset, tuple, c)
<1>0. Len(tuple) \in Nat
  BY TuplesAssumption
<1>1. \A j \in 1 .. n : /\ SlotOffset(j) \in Nat
                        /\ HEAP_SUB_HEADER_SIZE <= SlotOffset(j)
                        /\ SlotOffset(j) + SLOT_SIZE <= ArrayEnd(n)
  BY SlotsInARow, ZenonT(20)
<1>2. ArrayEnd(n) \in Nat /\ ArrayEnd(n) >= HEAP_SUB_HEADER_SIZE
  <2>1. n * SLOT_SIZE \in Nat
    BY Sizes
  <2>2. QED
    BY <2>1, Sizes DEF ArrayEnd
<1>3. ASSUME NEW j \in 1 .. n PROVE SlotAt(c, j) = SlotAt(b, j)
  <2>1. SlotOffset(j) \in Offsets /\ SlotOffset(j) \notin offset .. offset + Len(tuple) - 1
    BY <1>0, <1>1, <1>2, Sizes DEF Offsets
  <2>2. QED
    BY <2>1 DEF SlotAt, Copy
<1>4. ASSUME NEW k \in 1 .. Len(tuple)
      PROVE  c[offset + k - 1] = tuple[k]
  <2>1. /\ offset + k - 1 \in Offsets
        /\ offset + k - 1 \in offset .. offset + Len(tuple) - 1
        /\ (offset + k - 1) - offset + 1 = k
    BY <1>0, <1>2, Sizes DEF Offsets
  <2>2. QED
    BY <2>1 DEF Copy
<1>5. ASSUME NEW o \in ArrayEnd(n) .. PAGE_BODY_SIZE - 1, o < offset \/ offset + Len(tuple) <= o
      PROVE  c[o] = b[o]
  <2>1. o \in Offsets /\ o \notin offset .. offset + Len(tuple) - 1
    BY <1>0, <1>2, <1>5, Sizes DEF Offsets
  <2>2. QED
    BY <2>1 DEF Copy
<1>6. QED
  BY <1>3, <1>4, <1>5 DEF Behind

\* c is b with a tuple put in slot i, behind an array of n slots: the slot reads
\* it back, and so does every other whose tuple is apart from it.
IsPut(n, b, i, tuple, entry, c) ==
    /\ SlotAt(c, i) = entry
    /\ Bytes(c, entry) = tuple
    /\ \A j \in 1 .. n : j # i => SlotAt(c, j) = SlotAt(b, j)
    /\ \A e \in EntryType :
          /\ ArrayEnd(n) <= e.offset /\ e.offset + e.length <= PAGE_BODY_SIZE
          /\ Apart(e, entry)
          => Bytes(c, e) = Bytes(b, e)

\* That is what copying the tuple and writing the entry does.
LEMMA TuplePut ==
    ASSUME NEW n \in Nat, NEW b, NEW i \in 1 .. n, NEW tuple \in Tuples, NEW offset \in Nat,
           ArrayEnd(n) <= offset, offset + Len(tuple) <= PAGE_BODY_SIZE,
           NEW entry, entry = [offset |-> offset, length |-> Len(tuple)],
           NEW c, c = WriteSlot(Copy(b, offset, tuple), i, entry)
    PROVE  IsPut(n, b, i, tuple, entry, c)
<1>1. Len(tuple) \in Nat /\ tuple = [k \in 1 .. Len(tuple) |-> tuple[k]]
  BY TuplesAssumption
<1>2. ArrayEnd(n) \in Nat /\ ArrayEnd(n) <= PAGE_BODY_SIZE
  BY <1>1, SlotsInARow, Sizes
<1> DEFINE d == Copy(b, offset, tuple)
<1>0. d = Copy(b, offset, tuple)
  OBVIOUS
<1> HIDE DEF d
<1>3. Behind(n, b, offset, tuple, d)
  BY <1>0, TupleCopied
<1>4. IsWritten(n, d, i, entry, c)
  BY <1>0, <1>2, SlotWritten
<1>5. Bytes(c, entry) = tuple
  <2>1. entry.offset = offset /\ entry.length = Len(tuple)
    OBVIOUS
  <2>2. ASSUME NEW k \in 1 .. Len(tuple) PROVE c[entry.offset + k - 1] = tuple[k]
    <3>1. offset + k - 1 \in ArrayEnd(n) .. PAGE_BODY_SIZE - 1
      BY <1>1, <1>2, Sizes
    <3>2. QED
      BY <1>3, <1>4, <2>1, <3>1 DEF Behind, IsWritten
  <2>3. Bytes(c, entry) = [k \in 1 .. Len(tuple) |-> tuple[k]]
    BY <2>1, <2>2 DEF Bytes
  <2>4. QED
    BY <1>1, <2>3
<1>6. ASSUME NEW e \in EntryType, ArrayEnd(n) <= e.offset, e.offset + e.length <= PAGE_BODY_SIZE,
             Apart(e, entry)
      PROVE  Bytes(c, e) = Bytes(b, e)
  <2>1. e.offset \in Nat /\ e.length \in Nat
    BY DEF EntryType
  <2>2. e.offset + e.length <= offset \/ offset + Len(tuple) <= e.offset
    BY <1>6 DEF Apart
  <2>3. ASSUME NEW k \in 1 .. e.length PROVE c[e.offset + k - 1] = b[e.offset + k - 1]
    <3>1. k \in Nat /\ 1 <= k /\ k <= e.length
      BY <2>1
    <3>2. e.offset + k - 1 \in ArrayEnd(n) .. PAGE_BODY_SIZE - 1
      <4>1. ArrayEnd(n) \in Nat /\ PAGE_BODY_SIZE \in Nat
        BY <1>2, Sizes
      <4>2. ASSUME NEW a \in Nat, NEW o \in Nat, NEW l \in Nat, NEW s \in Nat,
                   a <= o, o + l <= s, 1 <= k, k <= l
            PROVE  o + k - 1 \in a .. s - 1
        BY <3>1, <4>2
      <4>3. QED
        BY ZenonT(20), <1>6, <2>1, <3>1, <4>1, <4>2
    <3>3. e.offset + k - 1 < offset \/ offset + Len(tuple) <= e.offset + k - 1
      BY <1>1, <2>1, <2>2, <3>1
    <3>4. QED
      BY <1>3, <1>4, <3>2, <3>3 DEF Behind, IsWritten
  <2>4. QED
    BY <2>3 DEF Bytes
<1>7. QED
  BY <1>3, <1>4, <1>5, <1>6 DEF Behind, IsWritten, IsPut

\* A tuple is as long as its slot says; a dead slot has no bytes.
LEMMA BytesLength ==
    ASSUME NEW b, NEW e \in EntryType
    PROVE  /\ Len(Bytes(b, e)) = e.length
           /\ DOMAIN Bytes(b, e) = 1 .. e.length
           /\ e.length = 0 <=> Bytes(b, e) = <<>>
<1>1. e.length \in Nat
  BY DEF EntryType
<1>2. DOMAIN Bytes(b, e) = 1 .. e.length
  BY DEF Bytes
<1>3. Len(Bytes(b, e)) = e.length
  BY <1>1 DEF Bytes
<1>4. e.length = 0 => Bytes(b, e) = <<>>
  BY <1>1 DEF Bytes
<1>5. e.length # 0 => Bytes(b, e) # <<>>
  BY <1>1, <1>3
<1>6. QED
  BY <1>2, <1>3, <1>4, <1>5

\* What a good page says of each of its slots.
LEMMA GoodSlots ==
    ASSUME NEW h, NEW b, Good(h, b)
    PROVE  /\ h.slot_count \in Nat /\ h.tuple_data_start \in Nat
           /\ h.live_count \in Nat /\ h.dead_bytes \in Nat
           /\ h.tuple_data_start <= PAGE_BODY_SIZE
           /\ ArrayEnd(h.slot_count) \in Nat /\ ArrayEnd(h.slot_count) <= h.tuple_data_start
           /\ Live(h, b) \subseteq 1 .. h.slot_count
           /\ IsFiniteSet(Live(h, b))
           /\ \A i \in 1 .. h.slot_count :
                 /\ SlotAt(b, i).offset \in Nat /\ Length(b, i) \in Nat
                 /\ i \notin Live(h, b) => Length(b, i) = 0
                 /\ i \in Live(h, b) => Length(b, i) > 0
                 /\ LiveLengths(h, b)[i] = Length(b, i)
           /\ SumLengths(h, b, h.slot_count) \in Nat
<1>1. /\ h.slot_count \in Nat /\ h.tuple_data_start \in Nat
      /\ h.live_count \in Nat /\ h.dead_bytes \in Nat
      /\ h.tuple_data_start <= PAGE_BODY_SIZE /\ ArrayEnd(h.slot_count) <= h.tuple_data_start
  BY DEF Good, HeaderType
<1>2. ArrayEnd(h.slot_count) \in Nat
  BY <1>1, SlotsInARow, ZenonT(20)
<1>3. Live(h, b) \subseteq 1 .. h.slot_count
  BY DEF Live
<1>4. IsFiniteSet(Live(h, b))
  <2>1. 1 \in Int /\ h.slot_count \in Int
    BY <1>1
  <2>2. IsFiniteSet(1 .. h.slot_count)
    BY <2>1, FS_Interval, ZenonT(20)
  <2>3. QED
    BY <1>3, <2>2, FS_Subset, ZenonT(20)
<1>5. \A i \in 1 .. h.slot_count :
         /\ SlotAt(b, i).offset \in Nat /\ Length(b, i) \in Nat
         /\ i \notin Live(h, b) => Length(b, i) = 0
         /\ i \in Live(h, b) => Length(b, i) > 0
  BY DEF Good, EntryType, Length
<1>6. \A i \in 1 .. h.slot_count : LiveLengths(h, b)[i] = Length(b, i)
  BY <1>5 DEF LiveLengths
<1>7. SumLengths(h, b, h.slot_count) \in Nat
  <2>1. \A i \in 1 .. h.slot_count : LiveLengths(h, b)[i] \in Nat
    BY <1>5, <1>6
  <2>2. \A k \in 0 .. h.slot_count : Total(LiveLengths(h, b), k) \in Nat
    BY <1>1, <2>1, TotalNat
  <2>3. QED
    BY <1>1, <2>2 DEF SumLengths
<1>8. QED
  BY <1>1, <1>2, <1>3, <1>4, <1>5, <1>6, <1>7

\* c is b with slot i, an old or the next one, made e; the others are as they were.
OneSlot(h, g, b, i, c, e) ==
    /\ g.slot_count \in h.slot_count .. h.slot_count + 1
    /\ i \in 1 .. g.slot_count /\ (g.slot_count = h.slot_count + 1 => i = g.slot_count)
    /\ SlotAt(c, i) = e
    /\ \A j \in 1 .. h.slot_count : j # i => SlotAt(c, j) = SlotAt(b, j)

\* Entry e may stand in slot i of a page whose tuples start at start.
Fits(h, b, i, e, start) ==
    /\ e \in EntryType
    /\ IsDead(e) => e.length = 0
    /\ ~IsDead(e) => /\ e.length > 0 /\ e.offset >= start /\ e.offset + e.length <= PAGE_BODY_SIZE
                     /\ \A j \in Live(h, b) \ {i} : Apart(e, SlotAt(b, j))

\* The counters g follow the change of slot i to e.
Follows(h, b, i, e, g) ==
    /\ g \in HeaderType
    /\ g.tuple_data_start <= h.tuple_data_start
    /\ ArrayEnd(g.slot_count) <= g.tuple_data_start
    /\ g.live_count = h.live_count - (IF i \in Live(h, b) THEN 1 ELSE 0)
                                   + (IF IsDead(e) THEN 0 ELSE 1)
    /\ g.tuple_data_start + g.dead_bytes + e.length
           = h.tuple_data_start + h.dead_bytes
             + (IF i <= h.slot_count THEN Length(b, i) ELSE 0)

\* A good page stays good when one slot changes and the counters follow.
LEMMA OneSlotChanges ==
    ASSUME NEW h, NEW b, Good(h, b), NEW g, NEW c, NEW i, NEW e,
           OneSlot(h, g, b, i, c, e),
           Fits(h, b, i, e, g.tuple_data_start),
           Follows(h, b, i, e, g)
    PROVE  /\ Good(g, c)
           /\ Live(g, c) = (Live(h, b) \ {i}) \cup (IF IsDead(e) THEN {} ELSE {i})
<1> USE DEF Follows
<1> DEFINE n == h.slot_count
           m == g.slot_count
           old == IF i <= n THEN Length(b, i) ELSE 0
<1>1. /\ n \in Nat /\ m \in n .. n + 1 /\ i \in 1 .. m /\ (m = n + 1 => i = m)
      /\ SlotAt(c, i) = e
      /\ \A j \in 1 .. n : j # i => SlotAt(c, j) = SlotAt(b, j)
      /\ \A j \in 1 .. m : j # i => j \in 1 .. n
  <2>1. n \in Nat
    BY GoodSlots
  <2>2. QED
    BY <2>1 DEF OneSlot
<1>2. /\ e \in EntryType /\ e.offset \in Nat /\ e.length \in Nat
      /\ IsDead(e) => e.length = 0
      /\ ~IsDead(e) => e.length > 0
  BY DEF Fits, EntryType
<1>3. /\ h.tuple_data_start \in Nat /\ h.dead_bytes \in Nat /\ h.live_count \in Nat
      /\ g.tuple_data_start \in Nat /\ g.dead_bytes \in Nat /\ g.live_count \in Nat
      /\ h.tuple_data_start <= PAGE_BODY_SIZE
  BY GoodSlots DEF HeaderType
<1>4. Live(g, c) = (Live(h, b) \ {i}) \cup (IF IsDead(e) THEN {} ELSE {i})
  <2>1. ASSUME NEW j \in 1 .. m, j # i PROVE j \in Live(g, c) <=> j \in Live(h, b)
    BY <1>1, <2>1 DEF Live
  <2>2. i \in Live(g, c) <=> ~IsDead(e)
    BY <1>1 DEF Live
  <2>3. Live(g, c) \subseteq 1 .. m /\ Live(h, b) \subseteq 1 .. m
    BY <1>1 DEF Live
  <2>4. QED
    BY <2>1, <2>2, <2>3
<1>5. \A j \in 1 .. m : /\ SlotAt(c, j) \in EntryType
                        /\ j \notin Live(g, c) => Length(c, j) = 0
  <2> SUFFICES ASSUME NEW j \in 1 .. m
               PROVE  SlotAt(c, j) \in EntryType /\ (j \notin Live(g, c) => Length(c, j) = 0)
    OBVIOUS
  <2>1. CASE j = i
    BY <1>1, <1>2, <1>4, <2>1 DEF Length
  <2>2. CASE j # i
    BY <1>1, <1>4, <2>2 DEF Good, Length
  <2>3. QED
    BY <2>1, <2>2
<1>6. ASSUME NEW j \in Live(g, c)
      PROVE  /\ SlotAt(c, j).offset >= g.tuple_data_start
             /\ SlotAt(c, j).offset + Length(c, j) <= PAGE_BODY_SIZE
             /\ Length(c, j) > 0
  <2>1. CASE j = i
    BY <1>1, <1>4, <1>6, <2>1 DEF Fits, Length
  <2>2. CASE j # i
    <3>1. j \in Live(h, b) /\ j \in 1 .. n /\ SlotAt(c, j) = SlotAt(b, j)
      BY <1>1, <1>4, <1>6, <2>2 DEF Live
    <3>2. /\ SlotAt(b, j).offset >= h.tuple_data_start
          /\ SlotAt(b, j).offset + Length(b, j) <= PAGE_BODY_SIZE
          /\ Length(b, j) > 0 /\ SlotAt(b, j).offset \in Nat
      BY <3>1, GoodSlots, ZenonT(20) DEF Good
    <3>3. QED
      BY <1>3, <3>1, <3>2 DEF Length
  <2>3. QED
    BY <2>1, <2>2
<1>7. ASSUME NEW j \in Live(g, c), NEW k \in Live(g, c), j # k
      PROVE  Apart(SlotAt(c, j), SlotAt(c, k))
  <2>1. \A x \in Live(g, c) : x # i => x \in Live(h, b) \ {i} /\ SlotAt(c, x) = SlotAt(b, x)
    BY <1>1, <1>4 DEF Live
  <2>2. i \in Live(g, c) => ~IsDead(e)
    BY <1>4
  <2>3. CASE j = i
    BY <1>1, <1>7, <2>1, <2>2, <2>3 DEF Fits
  <2>4. CASE k = i
    <3>1. Apart(e, SlotAt(c, j))
      BY <1>7, <2>1, <2>2, <2>4 DEF Fits
    <3>2. QED
      BY <1>1, <2>4, <3>1 DEF Apart
  <2>5. CASE j # i /\ k # i
    BY <1>7, <2>1, <2>5 DEF Good
  <2>6. QED
    BY <2>3, <2>4, <2>5
<1>8. g.live_count = Cardinality(Live(g, c))
  <2> DEFINE rest == Live(h, b) \ {i}
  <2>1. IsFiniteSet(Live(h, b)) /\ h.live_count = Cardinality(Live(h, b))
    BY GoodSlots DEF Good
  <2>2. /\ IsFiniteSet(rest)
        /\ Cardinality(rest) = h.live_count - (IF i \in Live(h, b) THEN 1 ELSE 0)
    BY <2>1, <1>3, FS_RemoveElement
  <2>3. i \notin rest
    OBVIOUS
  <2> HIDE DEF rest
  <2>4. Cardinality(rest) \in Nat
    BY <2>2, FS_CardinalityType
  <2>5. CASE IsDead(e)
    <3>1. Live(g, c) = rest
      BY <1>4, <2>5 DEF rest
    <3>2. QED
      BY <1>3, <2>2, <2>4, <2>5, <3>1
  <2>6. CASE ~IsDead(e)
    <3>1. Live(g, c) = rest \cup {i}
      BY <1>4, <2>6 DEF rest
    <3>2. Cardinality(rest \cup {i}) = Cardinality(rest) + 1
      BY <2>2, <2>3, FS_AddElement, ZenonT(20)
    <3>3. QED
      BY <1>3, <2>2, <2>4, <2>6, <3>1, <3>2
  <2>7. QED
    BY <2>5, <2>6
<1>9. /\ old \in Nat
      /\ SumLengths(g, c, m) = SumLengths(h, b, n) - old + e.length
      /\ SumLengths(h, b, n) \in Nat
  <2> DEFINE f == LiveLengths(h, b)
             f2 == LiveLengths(g, c)
  <2>1. \A j \in 1 .. n : f[j] = Length(b, j) /\ Length(b, j) \in Nat
    BY GoodSlots
  <2>2. \A j \in 1 .. m : f2[j] = IF j = i THEN e.length ELSE Length(b, j)
    <3> SUFFICES ASSUME NEW j \in 1 .. m PROVE f2[j] = IF j = i THEN e.length ELSE Length(b, j)
      OBVIOUS
    <3>1. f2[j] = Length(c, j)
      BY <1>5 DEF LiveLengths
    <3>2. QED
      BY <1>1, <3>1 DEF Length
  <2>3. old \in Nat
    BY <1>1, <2>1
  <2>4. Total(f, n) \in Nat
    BY GoodSlots DEF SumLengths
  <2> HIDE DEF f, f2
  <2>5. CASE m = n
    <3>1. \A k \in 1 .. n : f[k] \in Nat /\ f2[k] \in Nat /\ (k # i => f[k] = f2[k])
      BY <1>2, <2>1, <2>2, <2>5
    <3>2. i \in 1 .. n /\ f[i] = old /\ f2[i] = e.length
      BY <1>1, <2>1, <2>2, <2>5
    <3>3. Total(f2, n) = Total(f, n) - f[i] + f2[i]
      BY <1>1, <3>1, <3>2, TotalChanges
    <3>4. QED
      BY <2>3, <2>4, <2>5, <3>2, <3>3 DEF SumLengths, f, f2
  <2>6. CASE m = n + 1
    <3>1. i = n + 1 /\ old = 0 /\ f2[n + 1] = e.length
      BY <1>1, <2>2, <2>6
    <3>2. Total(f2, n) = Total(f, n)
      <4>1. \A k \in 1 .. n : f2[k] = f[k]
        BY <1>1, <2>1, <2>2, <2>6, <3>1
      <4>2. QED
        BY <1>1, <4>1, TotalAgrees
    <3>3. Total(f2, n + 1) = Total(f2, n) + f2[n + 1]
      BY <1>1, TotalSteps
    <3>4. QED
      BY <1>2, <2>3, <2>4, <2>6, <3>1, <3>2, <3>3 DEF SumLengths, f, f2
  <2>7. QED
    BY <1>1, <2>5, <2>6
<1>10. g.tuple_data_start + SumLengths(g, c, m) + g.dead_bytes = PAGE_BODY_SIZE
  <2>1. h.tuple_data_start + SumLengths(h, b, n) + h.dead_bytes = PAGE_BODY_SIZE
    BY DEF Good
  <2>2. g.tuple_data_start + g.dead_bytes + e.length = h.tuple_data_start + h.dead_bytes + old
    OBVIOUS
  <2> HIDE DEF old
  <2>3. QED
    BY <1>2, <1>3, <1>9, <2>1, <2>2, Sizes
<1>11. g.tuple_data_start <= PAGE_BODY_SIZE
  BY <1>3, Sizes
<1>12. QED
  BY <1>4, <1>5, <1>6, <1>7, <1>8, <1>10, <1>11 DEF Good

\* The bytes of the slots other than i are the ones they were.
SameBytes(h, b, i, c) ==
    \A j \in 1 .. h.slot_count : j # i => Bytes(c, SlotAt(b, j)) = Bytes(b, SlotAt(b, j))

\* What is shown of a page when slot i of m holds bytes and dead bytes are dead.
ShownWith(h, b, m, i, bytes, dead) ==
    [slots |-> [j \in 1 .. m |-> IF j = i THEN bytes ELSE Shown(h, b).slots[j]], dead |-> dead]

\* What is shown of a page one slot of which has changed.
LEMMA OneSlotShown ==
    ASSUME NEW h, NEW b, NEW g, NEW c, NEW i, NEW e, h.slot_count \in Nat,
           OneSlot(h, g, b, i, c, e), SameBytes(h, b, i, c)
    PROVE  Shown(g, c) = ShownWith(h, b, g.slot_count, i, Bytes(c, e), g.dead_bytes)
<1>1. ASSUME NEW j \in 1 .. g.slot_count, j # i
      PROVE  Bytes(c, SlotAt(c, j)) = Shown(h, b).slots[j]
  <2>1. j \in 1 .. h.slot_count
    BY <1>1 DEF OneSlot
  <2>2. QED
    BY <1>1, <2>1 DEF OneSlot, SameBytes, Shown
<1>2. SlotAt(c, i) = e
  BY DEF OneSlot
<1>3. QED
  BY <1>1, <1>2, ZenonT(20) DEF Shown, ShownWith

\* The counters after a slot is killed.
KilledHeader(h, b, i) == [h EXCEPT !.dead_bytes = @ + Length(b, i), !.live_count = @ - 1]

\* Field by field.
LEMMA KilledFields ==
    ASSUME NEW h \in HeaderType, NEW b, NEW i
    PROVE  KilledHeader(h, b, i) = [slot_count |-> h.slot_count, tuple_data_start |-> h.tuple_data_start,
                                    live_count |-> h.live_count - 1,
                                    dead_bytes |-> h.dead_bytes + Length(b, i)]
<1> DEFINE live == h.live_count - 1
           dead == h.dead_bytes + Length(b, i)
<1>1. KilledHeader(h, b, i) = [h EXCEPT !.dead_bytes = dead, !.live_count = live]
  BY ZenonT(20) DEF KilledHeader
<1>2. [h EXCEPT !.dead_bytes = dead, !.live_count = live]
         = [slot_count |-> h.slot_count, tuple_data_start |-> h.tuple_data_start,
            live_count |-> live, dead_bytes |-> dead]
  <2> HIDE DEF live, dead
  <2>1. ASSUME NEW g, g = [h EXCEPT !.dead_bytes = dead, !.live_count = live]
        PROVE  g = [slot_count |-> h.slot_count, tuple_data_start |-> h.tuple_data_start,
                      live_count |-> live, dead_bytes |-> dead]
    BY <2>1, ZenonT(20) DEF HeaderType
  <2>2. QED
    BY <2>1, ZenonT(20)
<1>3. QED
  BY <1>1, <1>2, ZenonT(20)

\* Delete: the slot is dead and its bytes are counted.
LEMMA SlotKilled ==
    ASSUME NEW h, NEW b, Good(h, b), NEW i \in Live(h, b),
           NEW g, g = KilledHeader(h, b, i),
           NEW c, c = WriteSlot(b, i, DeadSlot)
    PROVE  /\ Good(g, c)
           /\ g.slot_count = h.slot_count /\ i \notin Live(g, c)
           /\ Shown(g, c) = ShownWith(h, b, h.slot_count, i, <<>>, h.dead_bytes + Length(b, i))
<1> DEFINE n == h.slot_count
<1>1. /\ n \in Nat /\ i \in 1 .. n /\ h \in HeaderType
      /\ Length(b, i) \in Nat /\ SlotAt(b, i).offset \in Nat /\ Length(b, i) > 0
      /\ ArrayEnd(n) \in Nat /\ ArrayEnd(n) <= h.tuple_data_start
      /\ h.tuple_data_start \in Nat /\ h.tuple_data_start <= PAGE_BODY_SIZE
      /\ h.live_count \in Nat /\ h.dead_bytes \in Nat
  BY GoodSlots DEF Good
<1>2. h.live_count > 0
  <2>1. IsFiniteSet(Live(h, b)) /\ h.live_count = Cardinality(Live(h, b))
    BY GoodSlots DEF Good
  <2>2. Cardinality(Live(h, b)) # 0
    BY <2>1, FS_EmptySet
  <2>3. QED
    BY <1>1, <2>1, <2>2
<1>3. /\ g \in HeaderType /\ g.slot_count = n /\ g.tuple_data_start = h.tuple_data_start
      /\ g.live_count = h.live_count - 1 /\ g.dead_bytes = h.dead_bytes + Length(b, i)
  <2>1. /\ g.slot_count = n /\ g.tuple_data_start = h.tuple_data_start
        /\ g.live_count = h.live_count - 1 /\ g.dead_bytes = h.dead_bytes + Length(b, i)
        /\ g = [slot_count |-> n, tuple_data_start |-> h.tuple_data_start,
                live_count |-> h.live_count - 1, dead_bytes |-> h.dead_bytes + Length(b, i)]
    BY <1>1, KilledFields
  <2>2. QED
    BY <1>1, <1>2, <2>1 DEF HeaderType
<1>4. IsWritten(n, b, i, DeadSlot, c)
  <2>1. ArrayEnd(n) <= PAGE_BODY_SIZE
    BY <1>1, Sizes
  <2>2. QED
    BY <1>1, <2>1, SlotWritten
<1>5. DeadSlot \in EntryType /\ DeadSlot.length = 0 /\ IsDead(DeadSlot)
  BY DEF DeadSlot, EntryType, IsDead
<1>6. OneSlot(h, g, b, i, c, DeadSlot)
  BY <1>1, <1>3, <1>4 DEF OneSlot, IsWritten
<1>7. Fits(h, b, i, DeadSlot, g.tuple_data_start)
  BY <1>5 DEF Fits
<1>8. /\ Good(g, c)
      /\ Live(g, c) = (Live(h, b) \ {i}) \cup (IF IsDead(DeadSlot) THEN {} ELSE {i})
  <2>1. g.live_count = h.live_count - (IF i \in Live(h, b) THEN 1 ELSE 0)
                                    + (IF IsDead(DeadSlot) THEN 0 ELSE 1)
    BY <1>1, <1>3, <1>5
  <2>2. g.tuple_data_start + g.dead_bytes + DeadSlot.length
            = h.tuple_data_start + h.dead_bytes + (IF i <= h.slot_count THEN Length(b, i) ELSE 0)
    BY <1>1, <1>3, <1>5
  <2>3. g.tuple_data_start <= h.tuple_data_start /\ ArrayEnd(g.slot_count) <= g.tuple_data_start
    BY <1>1, <1>3
  <2>4. Follows(h, b, i, DeadSlot, g)
    BY <1>3, <2>1, <2>2, <2>3 DEF Follows
  <2>5. QED
    BY <1>6, <1>7, <2>4, OneSlotChanges
<1>9. SameBytes(h, b, i, c)
  <2> SUFFICES ASSUME NEW j \in 1 .. n, j # i PROVE Bytes(c, SlotAt(b, j)) = Bytes(b, SlotAt(b, j))
    BY DEF SameBytes
  <2>1. CASE j \in Live(h, b)
    <3>1. /\ SlotAt(b, j).offset \in Nat /\ SlotAt(b, j).offset >= h.tuple_data_start
          /\ SlotAt(b, j).length \in Nat /\ SlotAt(b, j).offset + SlotAt(b, j).length <= PAGE_BODY_SIZE
      BY <2>1, GoodSlots DEF Good, Length
    <3>2. \A k \in 1 .. SlotAt(b, j).length :
             SlotAt(b, j).offset + k - 1 \in ArrayEnd(n) .. PAGE_BODY_SIZE - 1
      BY <1>1, <3>1, Sizes
    <3>3. \A k \in 1 .. SlotAt(b, j).length :
             c[SlotAt(b, j).offset + k - 1] = b[SlotAt(b, j).offset + k - 1]
      BY <1>4, <3>2 DEF IsWritten
    <3>4. QED
      BY <3>3 DEF Bytes
  <2>2. CASE j \notin Live(h, b)
    <3>1. SlotAt(b, j) \in EntryType /\ SlotAt(b, j).length = 0
      BY <2>2 DEF Good, Length
    <3>2. QED
      BY <3>1, BytesLength
  <2>3. QED
    BY <2>1, <2>2
<1>10. Bytes(c, DeadSlot) = <<>>
  BY <1>5, BytesLength
<1>11. Shown(g, c) = ShownWith(h, b, g.slot_count, i, Bytes(c, DeadSlot), g.dead_bytes)
  BY <1>1, <1>6, <1>9, OneSlotShown
<1>12. QED
  BY <1>3, <1>5, <1>8, <1>10, <1>11

\* A tuple is put at offset, in slot i, with the others out of its way.
Placed(h, b, g, i, tuple, offset, e, c) ==
    /\ Good(h, b)
    /\ g.slot_count \in h.slot_count .. h.slot_count + 1
    /\ i \in 1 .. g.slot_count /\ (g.slot_count = h.slot_count + 1 => i = g.slot_count)
    /\ tuple \in Tuples /\ offset \in Nat
    /\ ArrayEnd(g.slot_count) <= offset /\ ArrayEnd(g.slot_count) <= h.tuple_data_start
    /\ offset + Len(tuple) <= PAGE_BODY_SIZE
    /\ e = [offset |-> offset, length |-> Len(tuple)]
    /\ \A j \in Live(h, b) \ {i} : Apart(e, SlotAt(b, j))
    /\ c = WriteSlot(Copy(b, offset, tuple), i, e)

\* The slot has the tuple and the other tuples are as they were.
LEMMA OthersKept ==
    ASSUME NEW h, NEW b, NEW g, NEW i, NEW tuple, NEW offset, NEW e, NEW c,
           Placed(h, b, g, i, tuple, offset, e, c)
    PROVE  /\ OneSlot(h, g, b, i, c, e)
           /\ SameBytes(h, b, i, c)
           /\ Bytes(c, e) = tuple
<1> DEFINE m == g.slot_count
<1> USE DEF Placed
<1>1. /\ h.slot_count \in Nat /\ m \in Nat /\ h.slot_count <= m
      /\ h.tuple_data_start \in Nat /\ h.tuple_data_start <= PAGE_BODY_SIZE
  BY GoodSlots
<1>2. IsPut(m, b, i, tuple, e, c)
  BY <1>1, TuplePut, ZenonT(20)
<1>3. OneSlot(h, g, b, i, c, e)
  BY <1>1, <1>2 DEF OneSlot, IsPut
<1>4. SameBytes(h, b, i, c)
  <2> SUFFICES ASSUME NEW j \in 1 .. h.slot_count, j # i
               PROVE  Bytes(c, SlotAt(b, j)) = Bytes(b, SlotAt(b, j))
    BY DEF SameBytes
  <2>1. SlotAt(b, j) \in EntryType
    BY DEF Good
  <2>2. CASE j \in Live(h, b)
    <3>1. /\ SlotAt(b, j).offset \in Nat /\ SlotAt(b, j).offset >= h.tuple_data_start
          /\ SlotAt(b, j).offset + SlotAt(b, j).length <= PAGE_BODY_SIZE
      BY <2>2, GoodSlots, ZenonT(20) DEF Good, Length
    <3>2. ArrayEnd(m) <= SlotAt(b, j).offset
      <4>1. ArrayEnd(m) \in Nat
        BY <1>1, SlotsInARow, ZenonT(20)
      <4>2. QED
        BY <1>1, <3>1, <4>1
    <3>3. Apart(SlotAt(b, j), e)
      BY <2>2 DEF Apart
    <3>4. QED
      BY <1>2, <2>1, <3>1, <3>2, <3>3 DEF IsPut
  <2>3. CASE j \notin Live(h, b)
    <3>1. SlotAt(b, j).length = 0
      BY <2>3 DEF Good, Length
    <3>2. QED
      BY <2>1, <3>1, BytesLength
  <2>4. QED
    BY <2>2, <2>3
<1>5. QED
  BY <1>2, <1>3, <1>4 DEF IsPut

\* The counters after a slot, an old or the next one, is filled at the low-water mark.
FilledHeader(h, m, tuple) ==
    [h EXCEPT !.tuple_data_start = @ - Len(tuple), !.live_count = @ + 1, !.slot_count = m]

\* Field by field.
LEMMA FilledFields ==
    ASSUME NEW h \in HeaderType, NEW m, NEW tuple
    PROVE  FilledHeader(h, m, tuple) = [slot_count |-> m,
                                        tuple_data_start |-> h.tuple_data_start - Len(tuple),
                                        live_count |-> h.live_count + 1, dead_bytes |-> h.dead_bytes]
<1> DEFINE start == h.tuple_data_start - Len(tuple)
           live == h.live_count + 1
<1>1. FilledHeader(h, m, tuple)
         = [h EXCEPT !.tuple_data_start = start, !.live_count = live, !.slot_count = m]
  BY ZenonT(20) DEF FilledHeader
<1>2. [h EXCEPT !.tuple_data_start = start, !.live_count = live, !.slot_count = m]
         = [slot_count |-> m, tuple_data_start |-> start, live_count |-> live,
            dead_bytes |-> h.dead_bytes]
  <2> HIDE DEF start, live
  <2>1. ASSUME NEW g, g = [h EXCEPT !.tuple_data_start = start, !.live_count = live, !.slot_count = m]
        PROVE  g = [slot_count |-> m, tuple_data_start |-> start, live_count |-> live,
                      dead_bytes |-> h.dead_bytes]
    BY <2>1, ZenonT(20) DEF HeaderType
  <2>2. QED
    BY <2>1, ZenonT(20)
<1>3. QED
  BY <1>1, <1>2, ZenonT(20)

\* An entry away from the start of the body is a live one.
LEMMA NewEntry ==
    ASSUME NEW o \in Nat, o > 0, NEW l \in Nat, NEW e, e = [offset |-> o, length |-> l]
    PROVE  e \in EntryType /\ e.offset = o /\ e.length = l /\ ~IsDead(e)
<1>1. e.offset = o /\ e.length = l
  BY ZenonT(20)
<1>2. e \in EntryType
  BY DEF EntryType
<1>3. o # 0
  OBVIOUS
<1>4. QED
  BY ZenonT(20), <1>1, <1>2, <1>3 DEF IsDead

\* Insert, and the end of an Update that moves: a dead or a new slot gets the tuple.
LEMMA SlotFilled ==
    ASSUME NEW h, NEW b, Good(h, b), NEW m \in h.slot_count .. h.slot_count + 1,
           NEW i \in 1 .. m, m = h.slot_count + 1 => i = m, i \notin Live(h, b),
           NEW tuple \in Tuples, ValidTuple(tuple),
           ArrayEnd(m) + Len(tuple) <= h.tuple_data_start,
           NEW g, g = FilledHeader(h, m, tuple), NEW c, c = Relocated(h, b, i, tuple)
    PROVE  Good(g, c) /\ Shown(g, c) = ShownWith(h, b, m, i, tuple, h.dead_bytes)
<1> DEFINE n == h.slot_count
           offset == h.tuple_data_start - Len(tuple)
           e == [offset |-> offset, length |-> Len(tuple)]
<1>1. /\ n \in Nat /\ m \in Nat /\ h \in HeaderType
      /\ h.tuple_data_start \in Nat /\ h.tuple_data_start <= PAGE_BODY_SIZE
      /\ h.live_count \in Nat /\ h.dead_bytes \in Nat
  BY GoodSlots DEF Good
<1>2. Len(tuple) \in Nat /\ Len(tuple) > 0
  BY TuplesAssumption DEF ValidTuple
<1>3. ArrayEnd(m) \in Nat /\ ArrayEnd(m) > 0
  <2>1. SlotOffset(i) \in Nat /\ SlotOffset(i) + SLOT_SIZE <= ArrayEnd(m) /\ ArrayEnd(m) \in Nat
    BY <1>1, SlotsInARow
  <2>2. QED
    BY <2>1, Sizes
<1>4. /\ offset \in Nat /\ ArrayEnd(m) <= offset /\ offset > 0
      /\ offset + Len(tuple) = h.tuple_data_start
      /\ ArrayEnd(m) <= h.tuple_data_start /\ offset + Len(tuple) <= PAGE_BODY_SIZE
  <2>1. PAGE_BODY_SIZE \in Nat
    BY Sizes
  <2>2. ASSUME NEW s \in Nat, NEW l \in Nat, NEW a \in Nat, NEW p \in Nat,
               s <= p, a > 0, l > 0, a + l <= s
        PROVE  /\ s - l \in Nat /\ a <= s - l /\ s - l > 0
               /\ s - l + l = s /\ a <= s /\ s - l + l <= p
    BY <2>2
  <2>3. QED
    BY ZenonT(20), <1>1, <1>2, <1>3, <2>1, <2>2
<1>5. /\ g.slot_count = m /\ g.tuple_data_start = offset
      /\ g.live_count = h.live_count + 1 /\ g.dead_bytes = h.dead_bytes
      /\ g \in HeaderType
  <2>1. /\ g.slot_count = m /\ g.tuple_data_start = offset
        /\ g.live_count = h.live_count + 1 /\ g.dead_bytes = h.dead_bytes
        /\ g = [slot_count |-> m, tuple_data_start |-> offset,
                live_count |-> h.live_count + 1, dead_bytes |-> h.dead_bytes]
    BY <1>1, FilledFields
  <2>2. QED
    BY <1>1, <1>4, <2>1 DEF HeaderType
<1>6. c = WriteSlot(Copy(b, offset, tuple), i, e)
  BY ZenonT(20) DEF Relocated
<1>7. e \in EntryType /\ e.offset = offset /\ e.length = Len(tuple) /\ ~IsDead(e)
  <2>1. offset \in Nat /\ offset > 0 /\ Len(tuple) \in Nat
    BY ZenonT(20), <1>2, <1>4
  <2>2. e = [offset |-> offset, length |-> Len(tuple)]
    BY ZenonT(20)
  <2> HIDE DEF e, offset
  <2>3. QED
    BY ZenonT(20), <2>1, <2>2, NewEntry
<1>8. ASSUME NEW j \in Live(h, b) \ {i} PROVE Apart(e, SlotAt(b, j))
  <2>1. SlotAt(b, j).offset >= h.tuple_data_start
    BY DEF Good
  <2>2. QED
    BY <1>4, <1>7, <2>1 DEF Apart
<1>9. e = [offset |-> offset, length |-> Len(tuple)]
  BY ZenonT(20)
<1> HIDE DEF e, offset
<1>10. OneSlot(h, g, b, i, c, e) /\ SameBytes(h, b, i, c) /\ Bytes(c, e) = tuple
  <2>1. Placed(h, b, g, i, tuple, offset, e, c)
    BY ZenonT(20), <1>4, <1>5, <1>6, <1>8, <1>9 DEF Placed
  <2>2. QED
    BY <2>1, OthersKept
<1>11. Fits(h, b, i, e, g.tuple_data_start)
  BY <1>1, <1>2, <1>4, <1>5, <1>7, <1>8 DEF Fits
<1>12. Follows(h, b, i, e, g)
  <2>1. g.live_count = h.live_count - (IF i \in Live(h, b) THEN 1 ELSE 0)
                                    + (IF IsDead(e) THEN 0 ELSE 1)
    BY <1>1, <1>5, <1>7
  <2>2. g.tuple_data_start + g.dead_bytes + e.length
            = h.tuple_data_start + h.dead_bytes + (IF i <= h.slot_count THEN Length(b, i) ELSE 0)
    <3>1. (IF i <= h.slot_count THEN Length(b, i) ELSE 0) = 0
      BY <1>1, GoodSlots
    <3>2. QED
      BY <1>1, <1>2, <1>4, <1>5, <1>7, <3>1
  <2>3. g.tuple_data_start <= h.tuple_data_start /\ ArrayEnd(g.slot_count) <= g.tuple_data_start
    BY <1>1, <1>2, <1>4, <1>5
  <2>4. QED
    BY <1>5, <2>1, <2>2, <2>3 DEF Follows
<1>13. Good(g, c)
  BY <1>10, <1>11, <1>12, OneSlotChanges
<1>14. Shown(g, c) = ShownWith(h, b, g.slot_count, i, Bytes(c, e), g.dead_bytes)
  BY <1>1, <1>10, OneSlotShown
<1>15. QED
  BY <1>5, <1>10, <1>13, <1>14

\* The counters and the entry after a tuple is replaced by one no longer.
ShrunkHeader(h, b, i, tuple) == [h EXCEPT !.dead_bytes = @ + Length(b, i) - Len(tuple)]
ShrunkEntry(b, i, tuple) == [SlotAt(b, i) EXCEPT !.length = Len(tuple)]

\* Field by field.
LEMMA ShrunkFields ==
    ASSUME NEW h \in HeaderType, NEW b, NEW i, NEW tuple
    PROVE  ShrunkHeader(h, b, i, tuple)
               = [slot_count |-> h.slot_count, tuple_data_start |-> h.tuple_data_start,
                  live_count |-> h.live_count,
                  dead_bytes |-> h.dead_bytes + Length(b, i) - Len(tuple)]
<1> DEFINE dead == h.dead_bytes + Length(b, i) - Len(tuple)
<1>1. ShrunkHeader(h, b, i, tuple) = [h EXCEPT !.dead_bytes = dead]
  BY ZenonT(20) DEF ShrunkHeader
<1>2. [h EXCEPT !.dead_bytes = dead]
         = [slot_count |-> h.slot_count, tuple_data_start |-> h.tuple_data_start,
            live_count |-> h.live_count, dead_bytes |-> dead]
  <2> HIDE DEF dead
  <2>1. ASSUME NEW g, g = [h EXCEPT !.dead_bytes = dead]
        PROVE  g = [slot_count |-> h.slot_count, tuple_data_start |-> h.tuple_data_start,
                      live_count |-> h.live_count, dead_bytes |-> dead]
    BY <2>1, ZenonT(20) DEF HeaderType
  <2>2. QED
    BY <2>1, ZenonT(20)
<1>3. QED
  BY <1>1, <1>2, ZenonT(20)

\* Update in place: the tuple keeps its offset and its tail is dead.
LEMMA SlotShrunk ==
    ASSUME NEW h, NEW b, Good(h, b), NEW i \in Live(h, b),
           NEW tuple \in Tuples, ValidTuple(tuple), Len(tuple) <= Length(b, i),
           NEW g, g = ShrunkHeader(h, b, i, tuple),
           NEW c, c = WriteSlot(Copy(b, SlotAt(b, i).offset, tuple), i, ShrunkEntry(b, i, tuple))
    PROVE  /\ Good(g, c)
           /\ Shown(g, c) = ShownWith(h, b, h.slot_count, i, tuple,
                                      h.dead_bytes + Length(b, i) - Len(tuple))
<1> DEFINE n == h.slot_count
           offset == SlotAt(b, i).offset
           e == [offset |-> offset, length |-> Len(tuple)]
<1>1. /\ n \in Nat /\ i \in 1 .. n /\ h \in HeaderType
      /\ h.tuple_data_start \in Nat /\ h.tuple_data_start <= PAGE_BODY_SIZE
      /\ h.live_count \in Nat /\ h.dead_bytes \in Nat /\ Length(b, i) \in Nat
      /\ ArrayEnd(n) \in Nat /\ ArrayEnd(n) <= h.tuple_data_start
      /\ SlotAt(b, i) \in EntryType /\ offset \in Nat
      /\ offset >= h.tuple_data_start /\ offset + Length(b, i) <= PAGE_BODY_SIZE
  BY GoodSlots, ZenonT(20) DEF Good
<1>2. Len(tuple) \in Nat /\ Len(tuple) > 0
  BY TuplesAssumption DEF ValidTuple
<1>3. /\ ArrayEnd(n) <= offset /\ offset > 0 /\ offset + Len(tuple) <= PAGE_BODY_SIZE
      /\ offset + Len(tuple) <= offset + Length(b, i)
  <2>1. SlotOffset(i) \in Nat /\ SlotOffset(i) + SLOT_SIZE <= ArrayEnd(n)
    BY <1>1, SlotsInARow, ZenonT(20)
  <2>2. QED
    BY <1>1, <1>2, <2>1, Sizes
<1>4. ShrunkEntry(b, i, tuple) = e
  BY <1>1 DEF ShrunkEntry, EntryType
<1>5. /\ g.slot_count = n /\ g.tuple_data_start = h.tuple_data_start
      /\ g.live_count = h.live_count
      /\ g.dead_bytes = h.dead_bytes + Length(b, i) - Len(tuple)
      /\ g \in HeaderType
  <2>1. /\ g.slot_count = n /\ g.tuple_data_start = h.tuple_data_start
        /\ g.live_count = h.live_count
        /\ g.dead_bytes = h.dead_bytes + Length(b, i) - Len(tuple)
        /\ g = [slot_count |-> n, tuple_data_start |-> h.tuple_data_start,
                live_count |-> h.live_count,
                dead_bytes |-> h.dead_bytes + Length(b, i) - Len(tuple)]
    <3>1. h \in HeaderType
      BY ZenonT(20), <1>1
    <3>2. g = [slot_count |-> n, tuple_data_start |-> h.tuple_data_start,
               live_count |-> h.live_count,
               dead_bytes |-> h.dead_bytes + Length(b, i) - Len(tuple)]
      BY <3>1, ShrunkFields
    <3>3. QED
      BY <3>2
  <2>2. h.dead_bytes + Length(b, i) - Len(tuple) \in Nat
    BY <1>1, <1>2
  <2>3. QED
    BY <1>1, <2>1, <2>2 DEF HeaderType
<1>6. c = WriteSlot(Copy(b, offset, tuple), i, e)
  BY ZenonT(20), <1>4
<1>7. e \in EntryType /\ e.offset = offset /\ e.length = Len(tuple) /\ ~IsDead(e)
  <2>1. offset \in Nat /\ offset > 0 /\ Len(tuple) \in Nat
    BY ZenonT(20), <1>1, <1>2, <1>3
  <2>2. e = [offset |-> offset, length |-> Len(tuple)]
    BY ZenonT(20)
  <2> HIDE DEF e, offset
  <2>3. QED
    BY ZenonT(20), <2>1, <2>2, NewEntry
<1>8. ASSUME NEW j \in Live(h, b) \ {i} PROVE Apart(e, SlotAt(b, j))
  <2>1. Apart(SlotAt(b, i), SlotAt(b, j))
    BY DEF Good
  <2>2. SlotAt(b, j).offset \in Nat /\ SlotAt(b, j).length \in Nat
    BY GoodSlots DEF Length
  <2>3. QED
    BY <1>1, <1>2, <1>3, <1>7, <2>1, <2>2 DEF Apart, Length
<1>9. e = [offset |-> offset, length |-> Len(tuple)]
  OBVIOUS
<1> HIDE DEF e, offset
<1>10. OneSlot(h, g, b, i, c, e) /\ SameBytes(h, b, i, c) /\ Bytes(c, e) = tuple
  <2>1. n \in n .. n + 1 /\ (n = n + 1 => i = n)
    BY <1>1
  <2>2. Placed(h, b, g, i, tuple, offset, e, c)
    BY ZenonT(20), <1>1, <1>3, <1>5, <1>6, <1>8, <1>9, <2>1 DEF Placed
  <2>3. QED
    BY <2>2, OthersKept
<1>11. Fits(h, b, i, e, g.tuple_data_start)
  BY <1>1, <1>2, <1>3, <1>5, <1>7, <1>8 DEF Fits
<1>12. Follows(h, b, i, e, g)
  <2>1. g.live_count = h.live_count - (IF i \in Live(h, b) THEN 1 ELSE 0)
                                    + (IF IsDead(e) THEN 0 ELSE 1)
    BY <1>1, <1>5, <1>7
  <2>2. g.tuple_data_start + g.dead_bytes + e.length
            = h.tuple_data_start + h.dead_bytes + (IF i <= h.slot_count THEN Length(b, i) ELSE 0)
    BY <1>1, <1>2, <1>5, <1>7
  <2>3. g.tuple_data_start <= h.tuple_data_start /\ ArrayEnd(g.slot_count) <= g.tuple_data_start
    BY <1>1, <1>5
  <2>4. QED
    BY <1>5, <2>1, <2>2, <2>3 DEF Follows
<1>13. Good(g, c)
  BY <1>10, <1>11, <1>12, OneSlotChanges
<1>14. Shown(g, c) = ShownWith(h, b, g.slot_count, i, Bytes(c, e), g.dead_bytes)
  BY <1>1, <1>10, OneSlotShown
<1>15. QED
  BY <1>5, <1>10, <1>13, <1>14

\* The targets of a compaction: each tuple ends where the one before it starts.
Stacked(h, b) ==
    /\ \A i \in 0 .. h.slot_count : Target(h, b, i) \in Nat
    /\ Target(h, b, 0) = PAGE_BODY_SIZE
    /\ Target(h, b, h.slot_count) = h.tuple_data_start + h.dead_bytes
    /\ \A i \in 1 .. h.slot_count : Target(h, b, i) + Length(b, i) = Target(h, b, i - 1)
    /\ \A j \in 0 .. h.slot_count : \A i \in 0 .. j : Target(h, b, j) <= Target(h, b, i)

\* A good page has room for its tuples at their targets.
LEMMA TargetsStack ==
    ASSUME NEW h, NEW b, Good(h, b)
    PROVE  Stacked(h, b)
<1> DEFINE n == h.slot_count
           f == LiveLengths(h, b)
<1>1. /\ n \in Nat /\ h.tuple_data_start \in Nat /\ h.dead_bytes \in Nat
      /\ \A i \in 1 .. n : f[i] = Length(b, i) /\ f[i] \in Nat
  BY GoodSlots
<1>2. h.tuple_data_start + Total(f, n) + h.dead_bytes = PAGE_BODY_SIZE
  BY DEF Good, SumLengths
<1>3. \A i : Target(h, b, i) = PAGE_BODY_SIZE - Total(f, i)
  BY DEF Target, SumLengths
<1> HIDE DEF f
<1>4. \A i \in 0 .. n : Total(f, i) \in Nat
  BY <1>1, TotalNat
<1>5. \A j \in 0 .. n : \A i \in 0 .. j : Total(f, i) <= Total(f, j)
  BY <1>1, TotalGrows
<1>6. \A i \in 0 .. n : Total(f, i) <= Total(f, n)
  BY <1>1, <1>5
<1>7. \A i \in 0 .. n : Target(h, b, i) \in Nat
  BY <1>1, <1>2, <1>3, <1>4, <1>6, Sizes
<1>8. Target(h, b, 0) = PAGE_BODY_SIZE
  BY <1>3, TotalSteps, Sizes
<1>9. Target(h, b, n) = h.tuple_data_start + h.dead_bytes
  BY <1>1, <1>2, <1>3, <1>4, Sizes
<1>10. ASSUME NEW i \in 1 .. n PROVE Target(h, b, i) + Length(b, i) = Target(h, b, i - 1)
  <2>1. i - 1 \in Nat /\ i - 1 \in 0 .. n /\ i \in 0 .. n /\ (i - 1) + 1 = i
    BY <1>1
  <2>2. Total(f, i) = Total(f, i - 1) + f[i]
    BY <2>1, TotalSteps
  <2>3. QED
    BY <1>1, <1>3, <1>4, <2>1, <2>2, Sizes
<1>11. ASSUME NEW j \in 0 .. n, NEW i \in 0 .. j PROVE Target(h, b, j) <= Target(h, b, i)
  <2>1. i \in 0 .. n /\ Total(f, i) <= Total(f, j)
    BY <1>1, <1>5
  <2>2. QED
    BY <1>3, <1>4, <2>1, Sizes
<1>12. QED
  BY <1>7, <1>8, <1>9, <1>10, <1>11 DEF Stacked

\* Two tuples are apart at their targets.
LEMMA TargetsApart ==
    ASSUME NEW h, NEW b, Good(h, b), NEW i \in 1 .. h.slot_count, NEW j \in 1 .. h.slot_count, i < j
    PROVE  Target(h, b, j) + Length(b, j) <= Target(h, b, i)
<1>1. Stacked(h, b) /\ h.slot_count \in Nat
  BY TargetsStack, GoodSlots
<1>2. j - 1 \in 0 .. h.slot_count /\ i \in 0 .. j - 1
  BY <1>1
<1>3. Target(h, b, j) + Length(b, j) = Target(h, b, j - 1)
  BY <1>1 DEF Stacked
<1>4. Target(h, b, j - 1) <= Target(h, b, i)
  BY <1>1, <1>2 DEF Stacked
<1>5. QED
  BY <1>3, <1>4

PackedHeader(h, b) ==
    [h EXCEPT !.tuple_data_start = Target(h, b, h.slot_count), !.dead_bytes = 0]

\* c is b after a compaction: the slots follow their tuples.
IsPacked(h, b, c) ==
    /\ \A i \in Live(h, b) : /\ SlotAt(c, i) = [offset |-> Target(h, b, i), length |-> Length(b, i)]
                             /\ \A k \in 1 .. Length(b, i) :
                                   c[Target(h, b, i) + k - 1] = b[SlotAt(b, i).offset + k - 1]
    /\ \A i \in 1 .. h.slot_count : i \notin Live(h, b) => SlotAt(c, i) = SlotAt(b, i)

\* That is what the loop of Compact does to the slots and the tuples.
LEMMA TuplesPacked ==
    ASSUME NEW h, NEW b, Good(h, b), h.dead_bytes # 0, NEW c, c = Compacted(h, b).body
    PROVE  IsPacked(h, b, c)
<1> DEFINE n == h.slot_count
           cursor == Target(h, b, n)
           Entry(i) == SlotOffset(i) .. SlotOffset(i) + SLOT_SIZE - 1
           T(i) == Target(h, b, i)
           Span(i) == T(i) .. T(i) + Length(b, i) - 1
<1>1. /\ n \in Nat /\ ArrayEnd(n) \in Nat /\ ArrayEnd(n) <= h.tuple_data_start
      /\ h.tuple_data_start \in Nat /\ h.dead_bytes \in Nat
      /\ Live(h, b) \subseteq 1 .. n
      /\ \A i \in 1 .. n : SlotAt(b, i).offset \in Nat /\ Length(b, i) \in Nat
  BY GoodSlots
<1>2. Stacked(h, b)
  BY TargetsStack
<1>3. cursor \in Nat /\ h.tuple_data_start <= cursor
  BY <1>1, <1>2 DEF Stacked
<1>4. \A i \in 1 .. n : T(i) \in Nat /\ cursor <= T(i) /\ T(i) + Length(b, i) <= PAGE_BODY_SIZE
  <2> SUFFICES ASSUME NEW i \in 1 .. n
               PROVE  T(i) \in Nat /\ cursor <= T(i) /\ T(i) + Length(b, i) <= PAGE_BODY_SIZE
    OBVIOUS
  <2>1. i \in 0 .. n /\ n \in 0 .. n /\ i - 1 \in 0 .. n /\ 0 \in 0 .. i - 1
    BY <1>1
  <2>2. T(i) \in Nat /\ cursor <= T(i) /\ T(i) + Length(b, i) = T(i - 1)
    BY <1>2, <2>1 DEF Stacked
  <2>3. T(i - 1) <= PAGE_BODY_SIZE
    BY <1>2, <2>1 DEF Stacked
  <2>4. QED
    BY <2>2, <2>3
<1>5. /\ \A i \in 1 .. n : /\ SlotOffset(i) \in Nat
                           /\ SlotOffset(i) \in Offsets /\ SlotOffset(i) < h.tuple_data_start
                           /\ SlotOffset(i) \in Entry(i)
      /\ \A i, j \in 1 .. n : i # j => SlotOffset(i) \notin Entry(j)
  <2>1. \A i \in 1 .. n : /\ SlotOffset(i) \in Nat
                          /\ HEAP_SUB_HEADER_SIZE <= SlotOffset(i)
                          /\ SlotOffset(i) + SLOT_SIZE <= ArrayEnd(n)
    BY <1>1, SlotsInARow, ZenonT(20)
  <2>2. h.tuple_data_start <= PAGE_BODY_SIZE
    BY GoodSlots
  <2>3. ASSUME NEW i \in 1 .. n
        PROVE  /\ SlotOffset(i) \in Nat
               /\ SlotOffset(i) \in Offsets /\ SlotOffset(i) < h.tuple_data_start
               /\ SlotOffset(i) \in Entry(i)
    BY <1>1, <2>1, <2>2, Sizes DEF Offsets
  <2>4. ASSUME NEW i \in 1 .. n, NEW j \in 1 .. n, i # j PROVE SlotOffset(i) \notin Entry(j)
    <3>1. i < j \/ j < i
      BY <1>1, <2>4
    <3>2. SlotOffset(i) + SLOT_SIZE <= SlotOffset(j) \/ SlotOffset(j) + SLOT_SIZE <= SlotOffset(i)
      BY <1>1, <3>1, SlotsInARow, ZenonT(20)
    <3>3. QED
      BY <2>1, <3>2, Sizes
  <2>5. QED
    BY <2>3, <2>4
<1>6. c = [o \in Offsets |->
             IF o >= cursor THEN b[PackedFrom(h, b, o)]
             ELSE IF \E i \in Live(h, b) : o \in Entry(i)
             THEN [b[o] EXCEPT !.offset = Target(h, b, CHOOSE i \in Live(h, b) : o \in Entry(i))]
             ELSE IF ~NDEBUG /\ o >= h.tuple_data_start THEN "poison"
             ELSE b[o]]
  BY DEF Compacted
<1> HIDE DEF cursor, Entry, T
<1>7. ASSUME NEW i \in Live(h, b)
      PROVE  SlotAt(c, i) = [offset |-> T(i), length |-> Length(b, i)]
  <2> DEFINE o == SlotOffset(i)
             j == CHOOSE x \in Live(h, b) : o \in Entry(x)
  <2>1. o \in Offsets /\ ~(o >= cursor) /\ o \in Entry(i)
    BY <1>1, <1>3, <1>5
  <2>2. j = i
    <3>1. j \in Live(h, b) /\ o \in Entry(j)
      BY <2>1
    <3> HIDE DEF j
    <3>2. QED
      BY <1>1, <1>5, <3>1
  <2>3. c[o] = [b[o] EXCEPT !.offset = Target(h, b, j)]
    BY <1>6, <2>1
  <2> HIDE DEF j
  <2>4. b[o] \in EntryType
    BY <1>1 DEF Good, SlotAt
  <2>5. QED
    BY <2>2, <2>3, <2>4 DEF SlotAt, EntryType, Length, T
<1>8. ASSUME NEW i \in 1 .. n, i \notin Live(h, b)
      PROVE  SlotAt(c, i) = SlotAt(b, i)
  <2> DEFINE o == SlotOffset(i)
  <2>1. o \in Offsets /\ ~(o >= cursor) /\ ~(o >= h.tuple_data_start)
    BY <1>1, <1>3, <1>5
  <2>2. ~\E x \in Live(h, b) : o \in Entry(x)
    BY <1>1, <1>5, <1>8
  <2>3. QED
    BY <1>6, <2>1, <2>2 DEF SlotAt
<1>9. ASSUME NEW i \in Live(h, b), NEW k \in 1 .. Length(b, i)
      PROVE  c[T(i) + k - 1] = b[SlotAt(b, i).offset + k - 1]
  <2> DEFINE o == T(i) + k - 1
             j == CHOOSE x \in Live(h, b) : o \in Span(x)
  <2>1. /\ T(i) \in Nat /\ cursor <= T(i) /\ T(i) + Length(b, i) <= PAGE_BODY_SIZE
        /\ SlotAt(b, i).offset \in Nat /\ Length(b, i) \in Nat /\ k \in Nat
    BY <1>1, <1>4
  <2>2. o \in Nat /\ o >= cursor /\ o \in Span(i)
    BY <1>3, <2>1
  <2>3. o \in Offsets
    <3>1. ArrayEnd(n) >= HEAP_SUB_HEADER_SIZE
      <4>1. i \in 1 .. n /\ HEAP_SUB_HEADER_SIZE <= SlotOffset(i) /\ SlotOffset(i) \in Nat
                         /\ SlotOffset(i) + SLOT_SIZE <= ArrayEnd(n)
        BY <1>1, SlotsInARow, ZenonT(20)
      <4>2. QED
        BY <1>1, <4>1, Sizes
    <3>2. QED
      BY <1>1, <1>3, <2>1, <2>2, <3>1, Sizes DEF Offsets
  <2>4. j = i
    <3>1. j \in Live(h, b) /\ o \in Span(j)
      BY <2>2
    <3> HIDE DEF j
    <3>2. ~(i < j) /\ ~(j < i)
      <4>1. i \in 1 .. n /\ j \in 1 .. n /\ T(j) \in Nat /\ Length(b, j) \in Nat
        BY <1>1, <1>4, <3>1
      <4>2. i < j => T(j) + Length(b, j) <= T(i)
        BY <4>1, TargetsApart DEF T
      <4>3. j < i => T(i) + Length(b, i) <= T(j)
        BY <4>1, TargetsApart DEF T
      <4>4. QED
        BY <2>1, <2>2, <3>1, <4>1, <4>2, <4>3
    <3>3. QED
      BY <1>1, <3>1, <3>2
  <2>5. PackedFrom(h, b, o) = SlotAt(b, j).offset + o - T(j)
    BY DEF PackedFrom, T
  <2> HIDE DEF j
  <2>6. PackedFrom(h, b, o) = SlotAt(b, i).offset + k - 1
    BY <2>1, <2>4, <2>5
  <2>7. c[o] = b[PackedFrom(h, b, o)]
    BY <1>6, <2>2, <2>3
  <2>8. QED
    BY <2>6, <2>7
<1>10. QED
  BY <1>7, <1>8, <1>9 DEF IsPacked, T

\* Compact: the page is good, shows the same tuples and has no dead bytes.
LEMMA PagePacked ==
    ASSUME NEW h, NEW b, Good(h, b), h.dead_bytes # 0,
           NEW g, g = PackedHeader(h, b), NEW c, IsPacked(h, b, c)
    PROVE  Good(g, c) /\ Shown(g, c).slots = Shown(h, b).slots /\ Live(g, c) = Live(h, b)
<1> DEFINE n == h.slot_count
           T(i) == Target(h, b, i)
           cursor == T(n)
<1>1. /\ n \in Nat /\ h \in HeaderType /\ Live(h, b) \subseteq 1 .. n
      /\ h.tuple_data_start \in Nat /\ h.dead_bytes \in Nat /\ h.live_count \in Nat
      /\ ArrayEnd(n) \in Nat /\ ArrayEnd(n) <= h.tuple_data_start
      /\ \A i \in 1 .. n : /\ SlotAt(b, i) \in EntryType /\ SlotAt(b, i).offset \in Nat
                           /\ Length(b, i) \in Nat
                           /\ i \notin Live(h, b) => Length(b, i) = 0
                           /\ i \in Live(h, b) => Length(b, i) > 0
                           /\ LiveLengths(h, b)[i] = Length(b, i)
  BY GoodSlots DEF Good
<1>2. Stacked(h, b)
  BY TargetsStack
<1>3. /\ cursor \in Nat /\ cursor = h.tuple_data_start + h.dead_bytes
      /\ cursor <= PAGE_BODY_SIZE /\ cursor > 0
  <2>1. n \in 0 .. n /\ 0 \in 0 .. n
    BY <1>1
  <2>2. cursor \in Nat /\ cursor = h.tuple_data_start + h.dead_bytes /\ cursor <= PAGE_BODY_SIZE
    BY <1>2, <2>1 DEF Stacked
  <2>3. QED
    BY <1>1, <2>2
<1>4. /\ g.slot_count = n /\ g.tuple_data_start = cursor
      /\ g.live_count = h.live_count /\ g.dead_bytes = 0 /\ g \in HeaderType
  <2>1. /\ g.slot_count = n /\ g.tuple_data_start = cursor
        /\ g.live_count = h.live_count /\ g.dead_bytes = 0
        /\ g = [slot_count |-> n, tuple_data_start |-> cursor,
                live_count |-> h.live_count, dead_bytes |-> 0]
    BY <1>1, ZenonT(20) DEF HeaderType, PackedHeader
  <2>2. QED
    BY <1>1, <1>3, <2>1 DEF HeaderType
<1>5. ASSUME NEW i \in 1 .. n
      PROVE  T(i) \in Nat /\ cursor <= T(i) /\ T(i) + Length(b, i) <= PAGE_BODY_SIZE
  <2>1. i \in 0 .. n /\ n \in 0 .. n /\ i - 1 \in 0 .. n /\ 0 \in 0 .. i - 1
    BY <1>1
  <2>2. T(i) \in Nat /\ cursor <= T(i) /\ T(i) + Length(b, i) = T(i - 1)
    BY <1>2, <2>1 DEF Stacked
  <2>3. T(i - 1) <= PAGE_BODY_SIZE
    BY <1>2, <2>1 DEF Stacked
  <2>4. QED
    BY <2>2, <2>3
<1> HIDE DEF T, cursor
<1>6. ASSUME NEW i \in Live(h, b)
      PROVE  /\ SlotAt(c, i) = [offset |-> T(i), length |-> Length(b, i)]
             /\ SlotAt(c, i) \in EntryType /\ SlotAt(c, i).offset = T(i)
             /\ Length(c, i) = Length(b, i) /\ ~IsDead(SlotAt(c, i))
             /\ Bytes(c, SlotAt(c, i)) = Bytes(b, SlotAt(b, i))
  <2>1. SlotAt(c, i) = [offset |-> T(i), length |-> Length(b, i)]
    BY DEF IsPacked, T
  <2>2. i \in 1 .. n /\ T(i) \in Nat /\ cursor <= T(i)
    BY <1>1, <1>5
  <2>3. /\ SlotAt(c, i) \in EntryType /\ SlotAt(c, i).offset = T(i)
        /\ SlotAt(c, i).length = Length(b, i) /\ ~IsDead(SlotAt(c, i))
    BY <1>1, <1>3, <2>1, <2>2 DEF EntryType, IsDead
  <2>4. \A k \in 1 .. Length(b, i) : c[T(i) + k - 1] = b[SlotAt(b, i).offset + k - 1]
    BY DEF IsPacked, T
  <2>5. QED
    BY <2>1, <2>3, <2>4 DEF Bytes, Length
<1>7. ASSUME NEW i \in 1 .. n, i \notin Live(h, b)
      PROVE  /\ SlotAt(c, i) = SlotAt(b, i) /\ Length(c, i) = 0 /\ IsDead(SlotAt(c, i))
             /\ Bytes(c, SlotAt(c, i)) = Bytes(b, SlotAt(b, i))
  <2>1. SlotAt(c, i) = SlotAt(b, i)
    BY <1>7 DEF IsPacked
  <2>2. SlotAt(b, i) \in EntryType /\ SlotAt(b, i).length = 0
    BY <1>1, <1>7 DEF Length
  <2>3. Bytes(c, SlotAt(c, i)) = Bytes(b, SlotAt(b, i))
    BY <2>1, <2>2, BytesLength
  <2>4. IsDead(SlotAt(b, i))
    BY <1>7 DEF Live
  <2>5. QED
    BY <2>1, <2>2, <2>3, <2>4 DEF Length
<1>8. Live(g, c) = Live(h, b)
  BY <1>1, <1>4, <1>6, <1>7 DEF Live
<1>9. \A i \in 1 .. n : /\ SlotAt(c, i) \in EntryType /\ Length(c, i) = Length(b, i)
                        /\ i \notin Live(g, c) => Length(c, i) = 0
  BY <1>1, <1>6, <1>7, <1>8
<1>10. ASSUME NEW i \in Live(g, c)
       PROVE  /\ SlotAt(c, i).offset >= g.tuple_data_start
              /\ SlotAt(c, i).offset + Length(c, i) <= PAGE_BODY_SIZE
              /\ Length(c, i) > 0
  <2>1. i \in Live(h, b) /\ i \in 1 .. n
    BY <1>1, <1>8
  <2>2. QED
    BY <1>1, <1>3, <1>4, <1>5, <1>6, <2>1
<1>11. ASSUME NEW i \in Live(g, c), NEW j \in Live(g, c), i # j
       PROVE  Apart(SlotAt(c, i), SlotAt(c, j))
  <2>1. i \in Live(h, b) /\ i \in 1 .. n /\ j \in Live(h, b) /\ j \in 1 .. n
    BY <1>1, <1>8
  <2>2. i < j => T(j) + Length(b, j) <= T(i)
    BY <2>1, TargetsApart DEF T
  <2>3. j < i => T(i) + Length(b, i) <= T(j)
    BY <2>1, TargetsApart DEF T
  <2>4. i < j \/ j < i
    BY <1>11, <2>1
  <2>5. /\ SlotAt(c, i).offset = T(i) /\ SlotAt(c, i).length = Length(b, i)
        /\ SlotAt(c, j).offset = T(j) /\ SlotAt(c, j).length = Length(b, j)
    BY <1>6, <2>1 DEF Length
  <2>6. QED
    BY <2>2, <2>3, <2>4, <2>5 DEF Apart
<1>12. SumLengths(g, c, n) = SumLengths(h, b, n)
  <2>1. \A i \in 1 .. n : LiveLengths(g, c)[i] = LiveLengths(h, b)[i]
    BY <1>4, <1>8, <1>9 DEF LiveLengths
  <2>2. QED
    BY <1>1, <2>1, TotalAgrees DEF SumLengths
<1>13. g.tuple_data_start + SumLengths(g, c, g.slot_count) + g.dead_bytes = PAGE_BODY_SIZE
  <2>1. h.tuple_data_start + SumLengths(h, b, n) + h.dead_bytes = PAGE_BODY_SIZE
    BY DEF Good
  <2>2. SumLengths(h, b, n) \in Nat
    BY GoodSlots
  <2>3. QED
    BY <1>1, <1>3, <1>4, <1>12, <2>1, <2>2
<1>14. g.live_count = Cardinality(Live(g, c))
  BY <1>4, <1>8 DEF Good
<1>15. ArrayEnd(g.slot_count) <= g.tuple_data_start /\ g.tuple_data_start <= PAGE_BODY_SIZE
  BY <1>1, <1>3, <1>4
<1>16. Good(g, c)
  BY <1>4, <1>9, <1>10, <1>11, <1>13, <1>14, <1>15 DEF Good
<1>17. Shown(g, c).slots = Shown(h, b).slots
  <2>1. \A i \in 1 .. n : Bytes(c, SlotAt(c, i)) = Bytes(b, SlotAt(b, i))
    BY <1>6, <1>7
  <2>2. QED
    BY <1>4, <2>1 DEF Shown
<1>18. QED
  BY <1>8, <1>16, <1>17

\* A good page (g, c) that shows the slots of (h, b) and has no dead bytes.
Tidied(h, b, g, c) ==
    /\ Good(g, c) /\ Live(g, c) = Live(h, b)
    /\ g.slot_count = h.slot_count /\ g.live_count = h.live_count
    /\ g.dead_bytes = 0 /\ g.tuple_data_start = h.tuple_data_start + h.dead_bytes
    /\ Shown(g, c).slots = Shown(h, b).slots

\* The same of Compacted, which leaves a page without dead bytes alone.
LEMMA PageCompacted ==
    ASSUME NEW h, NEW b, Good(h, b),
           NEW g, g = Compacted(h, b).header, NEW c, c = Compacted(h, b).body
    PROVE  Tidied(h, b, g, c)
<1> SUFFICES /\ Good(g, c) /\ Live(g, c) = Live(h, b)
             /\ g.slot_count = h.slot_count /\ g.live_count = h.live_count
             /\ g.dead_bytes = 0 /\ g.tuple_data_start = h.tuple_data_start + h.dead_bytes
             /\ Shown(g, c).slots = Shown(h, b).slots
  BY ZenonT(20) DEF Tidied
<1>1. /\ h \in HeaderType /\ h.tuple_data_start \in Nat /\ h.dead_bytes \in Nat /\ h.slot_count \in Nat
  BY GoodSlots DEF Good
<1>2. CASE h.dead_bytes = 0
  <2>1. g = h /\ c = b
    BY <1>2 DEF Compacted
  <2>2. QED
    BY <1>1, <1>2, <2>1
<1>3. CASE h.dead_bytes # 0
  <2>1. g = PackedHeader(h, b)
    BY <1>3 DEF Compacted, PackedHeader
  <2>2. IsPacked(h, b, c)
    BY <1>3, TuplesPacked
  <2>3. Good(g, c) /\ Shown(g, c).slots = Shown(h, b).slots /\ Live(g, c) = Live(h, b)
    BY <1>3, <2>1, <2>2, PagePacked
  <2>4. /\ g.slot_count = h.slot_count /\ g.live_count = h.live_count
        /\ g.dead_bytes = 0 /\ g.tuple_data_start = Target(h, b, h.slot_count)
    BY <1>1, <2>1 DEF PackedHeader, HeaderType
  <2>5. Target(h, b, h.slot_count) = h.tuple_data_start + h.dead_bytes
    BY TargetsStack DEF Stacked
  <2>6. QED
    BY <2>3, <2>4, <2>5
<1>4. QED
  BY <1>2, <1>3

(***************************************************************************)
(* The page of SlotPage.                                                   *)
(***************************************************************************)

\* The two modules add up alike.
LEMMA SameTotal ==
    ASSUME NEW f, NEW n
    PROVE  Slots!Total(f, n) = Total(f, n)
BY DEF Slots!Total, Total

\* What SlotPage reads of the page pg that h and b show.
Reads(h, b, pg) ==
    /\ pg = [slots |-> pg.slots, dead |-> h.dead_bytes]
    /\ pg.slots = [i \in 1 .. h.slot_count |-> pg.slots[i]] /\ Len(pg.slots) = h.slot_count
    /\ \A i \in 1 .. h.slot_count : Len(pg.slots[i]) = Length(b, i)
    /\ Slots!LiveSlots(pg) = Live(h, b)
    /\ Slots!Contiguous(pg) = h.tuple_data_start - ArrayEnd(h.slot_count)

\* It reads the slots, their lengths and the room of the page.
LEMMA PageReads ==
    ASSUME NEW h, NEW b, Good(h, b), NEW pg, pg = Shown(h, b)
    PROVE  Reads(h, b, pg)
<1> DEFINE n == h.slot_count
<1>1. /\ n \in Nat /\ h.tuple_data_start \in Nat /\ h.dead_bytes \in Nat
      /\ Live(h, b) \subseteq 1 .. n
      /\ \A i \in 1 .. n : /\ SlotAt(b, i) \in EntryType /\ Length(b, i) \in Nat
                           /\ i \in Live(h, b) <=> Length(b, i) # 0
                           /\ LiveLengths(h, b)[i] = Length(b, i)
  BY GoodSlots DEF Good
<1>2. pg.slots = [i \in 1 .. n |-> Bytes(b, SlotAt(b, i))] /\ pg.dead = h.dead_bytes
  BY DEF Shown
<1>3. /\ pg = [slots |-> pg.slots, dead |-> h.dead_bytes]
      /\ pg.slots = [i \in 1 .. n |-> pg.slots[i]]
      /\ DOMAIN pg.slots = 1 .. n
  BY <1>2 DEF Shown
<1>4. Len(pg.slots) = n
  BY <1>1, <1>2
<1>5. ASSUME NEW i \in 1 .. n
      PROVE  Len(pg.slots[i]) = Length(b, i) /\ (pg.slots[i] = <<>> <=> Length(b, i) = 0)
  <2>1. pg.slots[i] = Bytes(b, SlotAt(b, i))
    BY <1>2
  <2>2. QED
    BY <1>1, <2>1, BytesLength DEF Length
<1>6. Slots!LiveSlots(pg) = Live(h, b)
  BY ZenonT(20), <1>1, <1>3, <1>5 DEF Slots!LiveSlots, Slots!Dead
<1>7. Slots!LiveBytes(pg) = SumLengths(h, b, n)
  <2> DEFINE f == [i \in DOMAIN pg.slots |-> Len(pg.slots[i])]
  <2>1. \A i \in 1 .. n : f[i] = LiveLengths(h, b)[i]
    BY ZenonT(20), <1>1, <1>3, <1>5
  <2>2. Slots!LiveBytes(pg) = Slots!Total(f, n)
    BY <1>4 DEF Slots!LiveBytes
  <2> HIDE DEF f
  <2>3. QED
    BY <1>1, <2>1, <2>2, SameTotal, TotalAgrees DEF SumLengths
<1>8. Slots!Contiguous(pg) = h.tuple_data_start - ArrayEnd(n)
  <2>1. h.tuple_data_start + SumLengths(h, b, n) + h.dead_bytes = PAGE_BODY_SIZE
    BY DEF Good
  <2>2. SumLengths(h, b, n) \in Nat
    BY GoodSlots
  <2>3. SLOT_SIZE * n = n * SLOT_SIZE /\ n * SLOT_SIZE \in Nat
    BY <1>1, Sizes
  <2>4. Slots!Contiguous(pg)
            = PAGE_BODY_SIZE - HEAP_SUB_HEADER_SIZE - SLOT_SIZE * n - SumLengths(h, b, n) - h.dead_bytes
    BY ZenonT(20), <1>2, <1>4, <1>7 DEF Slots!Contiguous
  <2>5. QED
    BY <1>1, <2>1, <2>2, <2>3, <2>4, Sizes DEF ArrayEnd
<1>9. QED
  BY ZenonT(20), <1>3, <1>4, <1>5, <1>6, <1>8 DEF Reads

\* The counters tell whether a slot is dead.
LEMMA CountersTell ==
    ASSUME NEW h, NEW b, Good(h, b)
    PROVE  h.live_count < h.slot_count <=> Live(h, b) # 1 .. h.slot_count
<1>1. /\ h.slot_count \in Nat /\ Live(h, b) \subseteq 1 .. h.slot_count
      /\ IsFiniteSet(Live(h, b)) /\ h.live_count \in Nat
      /\ h.live_count = Cardinality(Live(h, b))
  BY GoodSlots DEF Good
<1>2. IsFiniteSet(1 .. h.slot_count) /\ Cardinality(1 .. h.slot_count) = h.slot_count
  <2>1. 1 \in Int /\ h.slot_count \in Int
    BY <1>1
  <2>2. /\ IsFiniteSet(1 .. h.slot_count)
        /\ Cardinality(1 .. h.slot_count) = IF 1 > h.slot_count THEN 0 ELSE h.slot_count - 1 + 1
    BY <2>1, FS_Interval
  <2>3. QED
    BY <1>1, <2>2
<1>3. /\ Cardinality(Live(h, b)) <= Cardinality(1 .. h.slot_count)
      /\ Cardinality(1 .. h.slot_count) = Cardinality(Live(h, b)) => 1 .. h.slot_count = Live(h, b)
  BY <1>1, <1>2, FS_Subset
<1>4. QED
  BY <1>1, <1>2, <1>3

\* The first dead slot of a page, or the next one.
IsInsertSlot(h, b, i) ==
    IF Live(h, b) = 1 .. h.slot_count THEN i = h.slot_count + 1
    ELSE i \in 1 .. h.slot_count /\ i \notin Live(h, b) /\ 1 .. i - 1 \subseteq Live(h, b)

\* It is the slot that Insert takes, here and in SlotPage.
LEMMA SlotTaken ==
    ASSUME Good(header, body), NEW pg, pg = Shown(header, body)
    PROVE  IsInsertSlot(header, body, InsertSlot) /\ Slots!InsertSlot(pg) = InsertSlot
<1> DEFINE n == header.slot_count
           live == Live(header, body)
<1>1. /\ n \in Nat /\ live \subseteq 1 .. n /\ Reads(header, body, pg)
      /\ header.live_count < n <=> live # 1 .. n
  BY GoodSlots, PageReads, CountersTell
<1>2. DOMAIN pg.slots = 1 .. n /\ Len(pg.slots) = n /\ Slots!LiveSlots(pg) = live
  BY <1>1 DEF Reads
<1>3. \A i \in 1 .. n : pg.slots[i] = Slots!Dead <=> i \notin live
  BY <1>2 DEF Slots!LiveSlots
<1> HIDE DEF live
<1>4. CASE live = 1 .. n
  <2>1. InsertSlot = n + 1
    BY <1>1, <1>4 DEF InsertSlot, live
  <2>2. Slots!InsertSlot(pg) = n + 1
    BY <1>2, <1>4 DEF Slots!InsertSlot
  <2>3. QED
    BY <1>4, <2>1, <2>2 DEF IsInsertSlot, live
<1>5. CASE live # 1 .. n
  <2> DEFINE First(i) == i \notin live /\ 1 .. i - 1 \subseteq live
             AlsoFirst(i) == pg.slots[i] = Slots!Dead /\ \A j \in 1 .. i - 1 : pg.slots[j] # Slots!Dead
  <2>1. PICK x \in 1 .. n : First(x)
    <3> DEFINE dead == (1 .. n) \ live
    <3>1. dead # {} /\ dead \subseteq Nat
      <4>1. live \subseteq 1 .. n
        BY <1>1 DEF live
      <4>2. dead # {}
        BY ZenonT(20), <1>5, <4>1
      <4>3. dead \subseteq Nat
        OBVIOUS
      <4>4. QED
        BY <4>2, <4>3
    <3>2. PICK x \in dead : \A y \in dead : x <= y
      BY ZenonT(20), <3>1, LeastNat
    <3>3. x \in 1 .. n /\ First(x)
      BY <1>1, <3>2
    <3>4. QED
      BY <3>3
  <2>2. \A y \in 1 .. n : First(y) => y = x
    <3> SUFFICES ASSUME NEW y \in 1 .. n, First(y) PROVE y = x
      OBVIOUS
    <3>1. x \notin 1 .. y - 1 /\ y \notin 1 .. x - 1
      BY <2>1
    <3>2. QED
      BY <1>1, <3>1
  <2>3. \A y \in 1 .. n : First(y) <=> AlsoFirst(y)
    BY <1>1, <1>3
  <2>4. InsertSlot = CHOOSE i \in 1 .. n : First(i)
    BY <1>1, <1>5 DEF InsertSlot, live
  <2>5. Slots!InsertSlot(pg) = CHOOSE i \in 1 .. n : AlsoFirst(i)
    BY <1>2, <1>5 DEF Slots!InsertSlot
  <2> HIDE DEF First, AlsoFirst
  <2>6. InsertSlot \in 1 .. n /\ First(InsertSlot)
    BY <2>1, <2>4
  <2>7. Slots!InsertSlot(pg) \in 1 .. n /\ AlsoFirst(Slots!InsertSlot(pg))
    BY <2>1, <2>3, <2>5
  <2>8. Slots!InsertSlot(pg) = InsertSlot
    BY <2>2, <2>3, <2>6, <2>7
  <2>9. QED
    BY <1>5, <2>6, <2>8 DEF IsInsertSlot, First, live
<1>6. QED
  BY <1>4, <1>5

(***************************************************************************)
(* The calls: each keeps the page good and is a step of SlotPage.           *)
(***************************************************************************)

\* The two modules accept the same tuples.
LEMMA SameTuples ==
    ASSUME NEW tuple
    PROVE  Slots!ValidTuple(tuple) <=> ValidTuple(tuple)
BY DEF Slots!ValidTuple, ValidTuple

\* A call that refuses leaves the page as it is.
LEMMA RefusalShows ==
    ASSUME Good(header, body), NEW st, NEW i, Refuses(st, i)
    PROVE  /\ Good(header, body)' /\ Slots!Answer(st, i)
           /\ Shown(header, body)' = Shown(header, body)
<1>1. header' = header /\ body' = body /\ result' = [st |-> st, slot |-> i]
  BY DEF Refuses, Returns
<1>2. QED
  BY ZenonT(20), <1>1 DEF Slots!Answer, Good, Shown, Live, SlotAt, SumLengths, LiveLengths, Length, Bytes

\* Insert.
LEMMA InsertStep ==
    ASSUME Good(header, body), NEW tuple \in Tuples, Insert(tuple)
    PROVE  Good(header, body)' /\ Slots!PInsert(tuple)
<1> DEFINE pg == Shown(header, body)
           n == header.slot_count
           s == InsertSlot
<1>1. Reads(header, body, pg) /\ IsInsertSlot(header, body, s) /\ Slots!InsertSlot(pg) = s
  BY PageReads, SlotTaken
<1> HIDE DEF pg
<1>2. /\ n \in Nat /\ Live(header, body) \subseteq 1 .. n
      /\ header.tuple_data_start \in Nat /\ ArrayEnd(n) \in Nat
  BY GoodSlots
<1>3. Contiguous = header.tuple_data_start - ArrayEnd(n)
  BY DEF Contiguous, ArrayEnd
<1>4. Slots!Contiguous(pg) = Contiguous /\ Len(pg.slots) = n /\ pg.dead = header.dead_bytes
  <2>1. pg.dead = header.dead_bytes
    BY DEF Shown, pg
  <2>2. Slots!Contiguous(pg) = header.tuple_data_start - ArrayEnd(n) /\ Len(pg.slots) = n
    BY ZenonT(20), <1>1 DEF Reads
  <2>3. QED
    BY <1>3, <2>1, <2>2
<1> DEFINE required == Len(tuple) + (IF s <= n THEN 0 ELSE SLOT_SIZE)
<1>5. s \in 1 .. n + 1 /\ s \notin Live(header, body)
  BY <1>1, <1>2 DEF IsInsertSlot
<1>6. Slots!CanInsert(pg, tuple) <=> required <= Contiguous
  <2>1. s > n <=> ~(s <= n)
    BY <1>2, <1>5
  <2>2. QED
    BY <1>1, <1>4, <2>1 DEF Slots!CanInsert, Slots!Required
<1>7. CASE ~ValidTuple(tuple)
  <2>1. Refuses("InvalidArgument", 0)
    BY <1>7 DEF Insert
  <2>2. QED
    BY <1>7, <2>1, RefusalShows, SameTuples DEF Slots!PInsert, pg
<1>8. CASE ValidTuple(tuple) /\ required > Contiguous /\ Refuses("PageFull", 0)
  <2>1. ~(required <= Contiguous)
    <3>1. Len(tuple) \in Nat
      BY TuplesAssumption
    <3>2. QED
      BY <1>2, <1>3, <1>8, <3>1, Sizes
  <2>2. QED
    BY <1>6, <1>8, <2>1, RefusalShows, SameTuples DEF Slots!PInsert, pg
<1>9. CASE /\ ValidTuple(tuple) /\ required <= Contiguous
           /\ body' = Relocated(header, body, s, tuple)
           /\ header' = FilledHeader(header, IF s <= n THEN n ELSE n + 1, tuple)
           /\ Returns("OK", s)
  <2> DEFINE m == IF s <= n THEN n ELSE n + 1
  <2>1. Len(tuple) \in Nat
    BY TuplesAssumption
  <2>2. m \in n .. n + 1 /\ s \in 1 .. m /\ (m = n + 1 => s = m)
    BY <1>2, <1>5
  <2>3. ArrayEnd(m) + Len(tuple) <= header.tuple_data_start
    <3>1. ArrayEnd(n + 1) = ArrayEnd(n) + SLOT_SIZE
      BY ZenonT(20), <1>2, SlotsInARow
    <3>2. CASE s <= n
      BY <1>2, <1>3, <1>9, <2>1, <3>2
    <3>3. CASE ~(s <= n)
      BY <1>2, <1>3, <1>9, <2>1, <3>1, <3>3, Sizes
    <3>4. QED
      BY <3>2, <3>3
  <2>4. header' = FilledHeader(header, m, tuple)
    BY <1>9
  <2> HIDE DEF m, s
  <2>5. Good(header', body') /\ Shown(header', body') = ShownWith(header, body, m, s, tuple, header.dead_bytes)
    BY <1>5, <1>9, <2>2, <2>3, <2>4, SlotFilled
  <2>6. Slots!Inserted(pg, tuple) = ShownWith(header, body, m, s, tuple, header.dead_bytes)
    <3>1. /\ pg = [slots |-> pg.slots, dead |-> header.dead_bytes]
          /\ DOMAIN pg.slots = 1 .. n
      BY <1>1 DEF Reads
    <3>2. (1 .. n) \cup {s} = 1 .. m
      BY <1>2, <1>5, <2>2 DEF m
    <3>3. Slots!Inserted(pg, tuple)
              = [slots |-> [j \in 1 .. m |-> IF j = s THEN tuple ELSE pg.slots[j]],
                 dead |-> header.dead_bytes]
      <4>1. Slots!Inserted(pg, tuple)
                = [pg EXCEPT !.slots = [j \in 1 .. m |-> IF j = s THEN tuple ELSE pg.slots[j]]]
        BY ZenonT(20), <1>1, <3>1, <3>2 DEF Slots!Inserted
      <4>2. PICK f : pg = [slots |-> f, dead |-> header.dead_bytes]
        BY <3>1
      <4>3. QED
        BY ZenonT(20), <4>1, <4>2
    <3>4. QED
      BY ZenonT(20), <3>3 DEF ShownWith, pg
  <2>7. Slots!Answer("OK", Slots!InsertSlot(pg))
    BY <1>1, <1>9 DEF Returns, Slots!Answer
  <2>8. QED
    BY <1>6, <1>9, <2>5, <2>6, <2>7, SameTuples DEF Slots!PInsert, pg
<1>10. QED
  BY <1>7, <1>8, <1>9 DEF Insert, FilledHeader, Relocated

\* Delete.
LEMMA DeleteStep ==
    ASSUME Good(header, body), NEW i, Delete(i)
    PROVE  Good(header, body)' /\ Slots!PDelete(i)
<1> DEFINE pg == Shown(header, body)
           n == header.slot_count
<1>1. Reads(header, body, pg)
  BY PageReads
<1>2. /\ Slots!LiveSlots(pg) = Live(header, body) /\ pg.dead = header.dead_bytes
      /\ DOMAIN pg.slots = 1 .. n
      /\ \A j \in 1 .. n : Len(pg.slots[j]) = Length(body, j)
  BY <1>1 DEF Reads
<1>3. CASE i \notin Live(header, body) /\ Refuses("NotFound", i)
  BY <1>2, <1>3, RefusalShows DEF Slots!PDelete
<1>4. CASE /\ i \in Live(header, body) /\ Returns("OK", i)
           /\ header' = KilledHeader(header, body, i) /\ body' = WriteSlot(body, i, DeadSlot)
  <2>1. /\ Good(header', body')
        /\ Shown(header', body') = ShownWith(header, body, n, i, <<>>, header.dead_bytes + Length(body, i))
    BY <1>4, SlotKilled
  <2>2. i \in 1 .. n
    BY <1>4 DEF Live
  <2> HIDE DEF pg
  <2>3. Slots!Deleted(pg, i) = ShownWith(header, body, n, i, <<>>, header.dead_bytes + Length(body, i))
    <3>1. [pg.slots EXCEPT ![i] = <<>>] = [j \in 1 .. n |-> IF j = i THEN <<>> ELSE pg.slots[j]]
      BY ZenonT(20), <1>2
    <3>2. QED
      BY ZenonT(20), <1>2, <2>2, <3>1 DEF Slots!Deleted, Slots!Dead, ShownWith, pg
  <2>4. Slots!Answer("OK", i)
    BY <1>4 DEF Returns, Slots!Answer
  <2>5. QED
    BY ZenonT(20), <1>2, <1>4, <2>1, <2>3, <2>4 DEF Slots!PDelete, pg
<1>5. QED
  BY <1>3, <1>4 DEF Delete, KilledHeader, Length

\* Compact.
LEMMA CompactStep ==
    ASSUME Good(header, body), Compact
    PROVE  Good(header, body)' /\ Slots!PCompact
<1> DEFINE pg == Shown(header, body)
<1>1. header' = Compacted(header, body).header /\ body' = Compacted(header, body).body
  BY DEF Compact
<1>2. /\ Good(header', body') /\ header'.dead_bytes = 0
      /\ Shown(header', body').slots = pg.slots
  <2>1. Tidied(header, body, header', body')
    BY ZenonT(20), <1>1, PageCompacted
  <2>2. QED
    BY ZenonT(20), <2>1 DEF Tidied
<1>3. Shown(header', body') = [slots |-> pg.slots, dead |-> 0]
  BY ZenonT(20), <1>2 DEF Shown
<1>4. pg = [slots |-> pg.slots, dead |-> header.dead_bytes]
  BY DEF Shown
<1> HIDE DEF pg
<1>5. Slots!Compacted(pg) = [slots |-> pg.slots, dead |-> 0]
  BY <1>4 DEF Slots!Compacted
<1>6. Slots!Answer("OK", 0)
  BY DEF Compact, Returns, Slots!Answer
<1>7. QED
  BY <1>2, <1>3, <1>5, <1>6 DEF Slots!PCompact, pg

\* The dead bytes after the tuple of slot i is replaced.
DeadAfter(h, b, pg, i, tuple) ==
    IF Len(tuple) <= Length(b, i) THEN h.dead_bytes + Length(b, i) - Len(tuple)
    ELSE IF Len(tuple) <= Slots!Contiguous(pg) THEN h.dead_bytes + Length(b, i)
    ELSE 0

\* What SlotPage makes of an update.
LEMMA UpdateShown ==
    ASSUME NEW h, NEW b, NEW pg, pg = Shown(h, b), Reads(h, b, pg), NEW i \in 1 .. h.slot_count,
           NEW tuple, NEW dead, dead = DeadAfter(h, b, pg, i, tuple)
    PROVE  Slots!Updated(pg, i, tuple) = ShownWith(h, b, h.slot_count, i, tuple, dead)
<1>1. /\ DOMAIN pg.slots = 1 .. h.slot_count /\ Len(pg.slots[i]) = Length(b, i)
  BY DEF Reads
<1>2. pg.dead = h.dead_bytes
  BY DEF Shown
<1>3. [pg.slots EXCEPT ![i] = tuple]
          = [j \in 1 .. h.slot_count |-> IF j = i THEN tuple ELSE pg.slots[j]]
  BY ZenonT(20), <1>1
<1>4. Slots!Updated(pg, i, tuple) = [slots |-> [pg.slots EXCEPT ![i] = tuple], dead |-> dead]
  BY <1>1, <1>2 DEF Slots!Updated, DeadAfter
<1>5. QED
  BY ZenonT(20), <1>3, <1>4 DEF ShownWith

\* The slots other than i hold the same tuples.
SameSlots(h, b, k, d, i) ==
    \A j \in 1 .. h.slot_count : j # i => Shown(k, d).slots[j] = Shown(h, b).slots[j]

\* A tuple put in its slot after the slot was killed, and perhaps the page packed.
LEMMA SlotRefilled ==
    ASSUME NEW h, NEW b, NEW i \in 1 .. h.slot_count, h.slot_count \in Nat,
           NEW k, NEW d, Good(k, d), k.slot_count = h.slot_count, i \notin Live(k, d),
           SameSlots(h, b, k, d, i),
           NEW tuple \in Tuples, ValidTuple(tuple),
           ArrayEnd(h.slot_count) + Len(tuple) <= k.tuple_data_start,
           NEW g, g = FilledHeader(k, h.slot_count, tuple), NEW c, c = Relocated(k, d, i, tuple)
    PROVE  /\ Good(g, c)
           /\ Shown(g, c) = ShownWith(h, b, h.slot_count, i, tuple, k.dead_bytes)
<1> DEFINE n == h.slot_count
<1>1. /\ n \in k.slot_count .. k.slot_count + 1 /\ i \in 1 .. n
      /\ (n = k.slot_count + 1 => i = n)
  OBVIOUS
<1>2. Good(g, c) /\ Shown(g, c) = ShownWith(k, d, n, i, tuple, k.dead_bytes)
  BY <1>1, SlotFilled
<1>3. ShownWith(k, d, n, i, tuple, k.dead_bytes) = ShownWith(h, b, n, i, tuple, k.dead_bytes)
  BY DEF ShownWith, SameSlots
<1>4. QED
  BY <1>2, <1>3

\* Killing the slot first makes no difference to what is put there.
LEMMA RelocatedAlike ==
    ASSUME NEW h, NEW b, NEW i, NEW tuple, NEW k, k.tuple_data_start = h.tuple_data_start,
           NEW d, d = WriteSlot(b, i, DeadSlot)
    PROVE  Relocated(k, d, i, tuple) = Relocated(h, b, i, tuple)
<1> DEFINE offset == h.tuple_data_start - Len(tuple)
           e == [offset |-> offset, length |-> Len(tuple)]
           Entry == SlotOffset(i) .. SlotOffset(i) + SLOT_SIZE - 1
           span == offset .. offset + Len(tuple) - 1
<1>1. Relocated(h, b, i, tuple)
          = [o \in Offsets |-> IF o \in Entry THEN e ELSE IF o \in span THEN tuple[o - offset + 1] ELSE b[o]]
  BY DEF Relocated, WriteSlot, Copy
<1>2. Relocated(k, d, i, tuple)
          = [o \in Offsets |-> IF o \in Entry THEN e ELSE IF o \in span THEN tuple[o - offset + 1] ELSE d[o]]
  BY DEF Relocated, WriteSlot, Copy
<1> HIDE DEF offset, e, span
<1>3. \A o \in Offsets : o \notin Entry => d[o] = b[o]
  BY DEF WriteSlot
<1> HIDE DEF Entry
<1>4. QED
  BY <1>1, <1>2, <1>3

\* Update.
LEMMA UpdateStep ==
    ASSUME Good(header, body), NEW i, NEW tuple \in Tuples, Update(i, tuple)
    PROVE  Good(header, body)' /\ Slots!PUpdate(i, tuple)
<1> DEFINE pg == Shown(header, body)
           n == header.slot_count
           old == Length(body, i)
           new == Len(tuple)
<1>1. Reads(header, body, pg)
  BY PageReads
<1> HIDE DEF pg
<1>2. /\ n \in Nat /\ header.tuple_data_start \in Nat /\ header.dead_bytes \in Nat
      /\ header.live_count \in Nat /\ header \in HeaderType
      /\ ArrayEnd(n) \in Nat /\ ArrayEnd(n) <= header.tuple_data_start
      /\ i \in Live(header, body) => i \in 1 .. n /\ old \in Nat /\ old > 0
  BY GoodSlots DEF Good
<1>3. Contiguous = header.tuple_data_start - ArrayEnd(n) /\ Contiguous \in Nat
  BY <1>2 DEF Contiguous, ArrayEnd
<1>4. /\ Slots!Contiguous(pg) = Contiguous /\ Slots!LiveSlots(pg) = Live(header, body)
      /\ pg.dead = header.dead_bytes
      /\ i \in Live(header, body) => Len(pg.slots[i]) = old
  <2>1. pg.dead = header.dead_bytes
    BY DEF Shown, pg
  <2>2. /\ Slots!Contiguous(pg) = header.tuple_data_start - ArrayEnd(n)
        /\ Slots!LiveSlots(pg) = Live(header, body)
        /\ \A j \in 1 .. n : Len(pg.slots[j]) = Length(body, j)
    BY <1>1 DEF Reads
  <2>3. QED
    BY <1>2, <1>3, <2>1, <2>2
<1>5. new \in Nat
  BY TuplesAssumption
<1> HIDE DEF old, new
<1>6. i \in Live(header, body) =>
          (Slots!CanUpdate(pg, i, tuple) <=> new <= Contiguous + header.dead_bytes + old)
  BY <1>4 DEF Slots!CanUpdate, Slots!Reclaimable, new
<1>7. CASE ~ValidTuple(tuple)
  <2>1. Refuses("InvalidArgument", i)
    BY <1>7 DEF Update
  <2>2. QED
    BY <1>7, <2>1, RefusalShows, SameTuples DEF Slots!PUpdate, pg
<1>8. CASE ValidTuple(tuple) /\ i \notin Live(header, body)
  <2>1. Refuses("NotFound", i)
    BY <1>8 DEF Update
  <2>2. QED
    BY ZenonT(20), <1>4, <1>8, <2>1, RefusalShows, SameTuples DEF Slots!PUpdate, pg
<1>9. CASE ValidTuple(tuple) /\ i \in Live(header, body)
  <2>1. ASSUME NEW dead,
               dead = IF new <= old THEN header.dead_bytes + old - new
                      ELSE IF new <= Contiguous THEN header.dead_bytes + old
                      ELSE 0,
               new <= Contiguous + header.dead_bytes + old, Returns("SamePage", i),
               Good(header', body'),
               Shown(header', body') = ShownWith(header, body, n, i, tuple, dead)
        PROVE  Good(header, body)' /\ Slots!PUpdate(i, tuple)
    <3>1. Slots!Updated(pg, i, tuple) = ShownWith(header, body, n, i, tuple, dead)
      <4>1. pg = Shown(header, body) /\ i \in 1 .. header.slot_count
        BY ZenonT(20), <1>2, <1>9 DEF pg
      <4>2. dead = DeadAfter(header, body, pg, i, tuple)
        BY ZenonT(20), <1>4, <2>1 DEF DeadAfter, old, new
      <4>3. QED
        BY <1>1, <4>1, <4>2, UpdateShown
    <3>2. Slots!Answer("SamePage", i)
      BY <2>1 DEF Returns, Slots!Answer
    <3>3. QED
      BY <1>4, <1>6, <1>9, <2>1, <3>1, <3>2, SameTuples DEF Slots!PUpdate, pg
  <2>2. CASE new <= old /\ UpdateInPlace(i, tuple) /\ Returns("SamePage", i)
    <3>1. header' = ShrunkHeader(header, body, i, tuple)
      BY <2>2 DEF UpdateInPlace, ShrunkHeader
    <3>2. body' = WriteSlot(Copy(body, SlotAt(body, i).offset, tuple), i, ShrunkEntry(body, i, tuple))
      BY <2>2 DEF UpdateInPlace, ShrunkEntry
    <3>3. /\ Good(header', body')
          /\ Shown(header', body') = ShownWith(header, body, n, i, tuple, header.dead_bytes + old - new)
      BY <1>9, <2>2, <3>1, <3>2, SlotShrunk DEF old, new
    <3>4. new <= Contiguous + header.dead_bytes + old
      BY <1>2, <1>3, <1>5, <1>9, <2>2
    <3>5. QED
      BY <2>1, <2>2, <3>3, <3>4
  <2>3. CASE /\ new > old /\ new <= Contiguous + header.dead_bytes + old /\ Returns("SamePage", i)
             /\ \/ new <= Contiguous /\ UpdateMoves(i, tuple)
                \/ new > Contiguous /\ UpdateCompacts(i, tuple)
    <3> DEFINE k == KilledHeader(header, body, i)
               d == WriteSlot(body, i, DeadSlot)
    <3>1. /\ Good(k, d) /\ k.slot_count = n /\ i \notin Live(k, d)
          /\ Shown(k, d) = ShownWith(header, body, n, i, <<>>, header.dead_bytes + old)
      BY <1>9, SlotKilled DEF old
    <3>2. /\ k.tuple_data_start = header.tuple_data_start
          /\ k.live_count = header.live_count - 1
          /\ k.dead_bytes = header.dead_bytes + old
          /\ k = [slot_count |-> n, tuple_data_start |-> header.tuple_data_start,
                  live_count |-> header.live_count - 1, dead_bytes |-> header.dead_bytes + old]
      BY <1>2, KilledFields DEF old
    <3>3. SameSlots(header, body, k, d, i)
      BY <3>1 DEF ShownWith, SameSlots
    <3>4. k = KilledHeader(header, body, i) /\ d = WriteSlot(body, i, DeadSlot)
      OBVIOUS
    <3> HIDE DEF k, d
    <3>5. CASE new <= Contiguous /\ UpdateMoves(i, tuple)
      <4>1. header' = FilledHeader(k, n, tuple)
        <5>1. header' = [slot_count |-> n, tuple_data_start |-> header.tuple_data_start - new,
                         live_count |-> header.live_count, dead_bytes |-> header.dead_bytes + old]
          BY ZenonT(20), <1>2, <3>5 DEF UpdateMoves, HeaderType, old, new
        <5>2. FilledHeader(k, n, tuple)
                  = [slot_count |-> n, tuple_data_start |-> header.tuple_data_start - new,
                     live_count |-> header.live_count - 1 + 1, dead_bytes |-> header.dead_bytes + old]
          <6>1. k \in HeaderType
            BY <3>1 DEF Good
          <6>2. QED
            BY ZenonT(20), <3>1, <3>2, <6>1, FilledFields DEF new
        <5>3. header.live_count - 1 + 1 = header.live_count
          BY <1>2
        <5>4. QED
          BY <5>1, <5>2, <5>3, ZenonT(20)
      <4>2. body' = Relocated(k, d, i, tuple)
        BY <3>2, <3>4, <3>5, RelocatedAlike DEF UpdateMoves
      <4>3. ArrayEnd(n) + Len(tuple) <= k.tuple_data_start
        BY <1>2, <1>3, <1>5, <3>2, <3>5 DEF new
      <4>4. /\ Good(header', body')
            /\ Shown(header', body') = ShownWith(header, body, n, i, tuple, k.dead_bytes)
        BY <1>2, <1>9, <3>1, <3>3, <4>1, <4>2, <4>3, SlotRefilled
      <4>5. ~(new <= old)
        BY <1>2, <1>5, <1>9, <2>3
      <4>6. QED
        BY <2>1, <2>3, <3>2, <3>5, <4>4, <4>5
    <3>6. CASE new > Contiguous /\ UpdateCompacts(i, tuple)
      <4> DEFINE p == Compacted(k, d).header
                 q == Compacted(k, d).body
      <4>1. /\ Good(p, q) /\ Live(p, q) = Live(k, d)
            /\ p.slot_count = n /\ p.live_count = header.live_count - 1
            /\ p.dead_bytes = 0 /\ p.tuple_data_start = header.tuple_data_start + (header.dead_bytes + old)
            /\ Shown(p, q).slots = Shown(k, d).slots
        <5>1. p = Compacted(k, d).header /\ q = Compacted(k, d).body
          BY ZenonT(20)
        <5> HIDE DEF p, q
        <5>2. Tidied(k, d, p, q)
          BY ZenonT(20), <3>1, <5>1, PageCompacted
        <5>3. QED
          BY ZenonT(20), <3>1, <3>2, <5>2 DEF Tidied
      <4>2. body' = Relocated(p, q, i, tuple)
        BY <3>4, <3>6 DEF UpdateCompacts, KilledHeader
      <4>3. header' = [p EXCEPT !.tuple_data_start = @ - new, !.live_count = @ + 1]
        BY <3>4, <3>6 DEF UpdateCompacts, KilledHeader, new
      <4> HIDE DEF p, q
      <4>4. header' = FilledHeader(p, n, tuple)
        <5>1. p \in HeaderType
          BY <4>1 DEF Good
        <5>2. QED
          BY ZenonT(20), <4>1, <4>3, <5>1 DEF FilledHeader, HeaderType, new
      <4>5. ArrayEnd(n) + Len(tuple) <= p.tuple_data_start
        BY <1>2, <1>3, <1>5, <1>9, <2>3, <4>1 DEF new
      <4>6. SameSlots(header, body, p, q, i)
        BY <3>3, <4>1 DEF SameSlots
      <4>7. /\ Good(header', body')
            /\ Shown(header', body') = ShownWith(header, body, n, i, tuple, p.dead_bytes)
        BY <1>2, <1>9, <3>1, <4>1, <4>2, <4>4, <4>5, <4>6, SlotRefilled
      <4>8. ~(new <= old) /\ ~(new <= Contiguous)
        BY <1>2, <1>3, <1>5, <1>9, <2>3, <3>6
      <4>9. QED
        BY <2>1, <2>3, <4>1, <4>7, <4>8
    <3>7. QED
      BY <2>3, <3>5, <3>6
  <2>4. CASE new > Contiguous + header.dead_bytes + old /\ Refuses("DoesNotFit", i)
    <3>1. ~(new <= Contiguous + header.dead_bytes + old)
      BY <1>2, <1>3, <1>5, <1>9, <2>4
    <3>2. QED
      BY <1>4, <1>6, <1>9, <2>4, <3>1, RefusalShows, SameTuples DEF Slots!PUpdate, pg
  <2>5. \/ new <= old /\ UpdateInPlace(i, tuple) /\ Returns("SamePage", i)
        \/ new > old /\ new <= Contiguous /\ UpdateMoves(i, tuple) /\ Returns("SamePage", i)
        \/ /\ new > old /\ new > Contiguous
           /\ new <= Contiguous + header.dead_bytes + old
           /\ UpdateCompacts(i, tuple)
           /\ Returns("SamePage", i)
        \/ new > Contiguous + header.dead_bytes + old /\ Refuses("DoesNotFit", i)
    BY <1>9 DEF Update, old, new
  <2>6. new <= Contiguous => new <= Contiguous + header.dead_bytes + old
    BY <1>2, <1>3, <1>5, <1>9
  <2>7. CASE new > old /\ new <= Contiguous /\ UpdateMoves(i, tuple) /\ Returns("SamePage", i)
    BY <2>3, <2>6, <2>7
  <2>8. CASE /\ new > old /\ new > Contiguous
             /\ new <= Contiguous + header.dead_bytes + old
             /\ UpdateCompacts(i, tuple)
             /\ Returns("SamePage", i)
    BY <2>3, <2>8
  <2>9. QED
    BY <2>2, <2>4, <2>5, <2>7, <2>8
<1>10. QED
  BY <1>7, <1>8, <1>9

(***************************************************************************)
(* The theorems.                                                           *)
(***************************************************************************)

\* The page at hand is good.
GoodPage == Good(header, body)

\* A new page is good and shows the empty page.
LEMMA InitShows ==
    ASSUME Init
    PROVE  GoodPage /\ Slots!PInit
<1>1. /\ header = [slot_count |-> 0, tuple_data_start |-> PAGE_BODY_SIZE,
                   live_count |-> 0, dead_bytes |-> 0]
      /\ result = [st |-> "OK", slot |-> 0]
  BY DEF Init
<1>2. /\ header \in HeaderType /\ header.slot_count = 0 /\ header.live_count = 0
      /\ header.tuple_data_start = PAGE_BODY_SIZE /\ header.dead_bytes = 0
  BY <1>1, Sizes DEF HeaderType
<1>3. Live(header, body) = {} /\ 1 .. header.slot_count = {}
  BY <1>2 DEF Live
<1>4. ArrayEnd(header.slot_count) = HEAP_SUB_HEADER_SIZE
  BY <1>2, Sizes DEF ArrayEnd
<1>5. SumLengths(header, body, header.slot_count) = 0
  BY <1>2, TotalSteps DEF SumLengths
<1>6. Cardinality({}) = 0
  BY FS_EmptySet
<1>7. Good(header, body)
  BY <1>2, <1>3, <1>4, <1>5, <1>6, Sizes DEF Good
<1>8. Shown(header, body) = Slots!EmptyPage
  BY <1>2, <1>3 DEF Shown, Slots!EmptyPage
<1>9. QED
  BY <1>1, <1>7, <1>8 DEF GoodPage, Slots!PInit

\* Every step keeps the page good and is a step of SlotPage or shows nothing.
LEMMA NextShows ==
    ASSUME GoodPage, [Next]_vars
    PROVE  GoodPage' /\ [Slots!PNext]_<<Shown(header, body), result>>
<1>1. CASE UNCHANGED vars
  <2>1. header' = header /\ body' = body /\ result' = result
    BY <1>1 DEF vars
  <2>2. QED
    BY ZenonT(20), <2>1
       DEF GoodPage, Good, Shown, Live, SlotAt, SumLengths, LiveLengths, Length, Bytes
<1>2. CASE \E tuple \in Tuples : Insert(tuple)
  <2>1. PICK tuple \in Tuples : Insert(tuple)
    BY <1>2
  <2>2. Good(header, body)' /\ Slots!PInsert(tuple)
    BY <2>1, InsertStep DEF GoodPage
  <2>3. QED
    BY <2>2 DEF GoodPage, Slots!PNext
<1>3. CASE \E tuple \in Tuples, i \in SlotIds : Update(i, tuple)
  <2>1. PICK tuple \in Tuples, i \in SlotIds : Update(i, tuple)
    BY <1>3
  <2>2. Good(header, body)' /\ Slots!PUpdate(i, tuple)
    BY <2>1, UpdateStep DEF GoodPage
  <2>3. QED
    BY <2>2 DEF GoodPage, Slots!PNext
<1>4. CASE \E i \in SlotIds : Delete(i)
  <2>1. PICK i \in SlotIds : Delete(i)
    BY <1>4
  <2>2. Good(header, body)' /\ Slots!PDelete(i)
    BY <2>1, DeleteStep DEF GoodPage
  <2>3. QED
    BY <2>2 DEF GoodPage, Slots!PNext
<1>5. CASE Compact
  <2>1. Good(header, body)' /\ Slots!PCompact
    BY <1>5, CompactStep DEF GoodPage
  <2>2. QED
    BY <2>1 DEF GoodPage, Slots!PNext
<1>6. QED
  BY ZenonT(20), <1>1, <1>2, <1>3, <1>4, <1>5 DEF Next

\* A good page passes the assertion of the code.
LEMMA GoodPassesCheck ==
    ASSUME GoodPage
    PROVE  CheckInvariants
BY DEF GoodPage, Good, CheckInvariants, ArrayEnd

\* The page stays good: the counters account for its bytes, and the tuples of two
\* slots share no byte (heap_page.cpp).
THEOREM GoodInvariant == Spec => []GoodPage
<1>1. Init => GoodPage
  BY InitShows
<1>2. GoodPage /\ [Next]_vars => GoodPage'
  BY NextShows
<1>3. QED
  BY <1>1, <1>2, PTL DEF Spec

\* ConstHeapPage::CheckInvariants never fails, whatever is inserted, deleted,
\* updated and compacted.
THEOREM CheckAlwaysPasses == Spec => []CheckInvariants
<1>1. GoodPage => CheckInvariants
  BY GoodPassesCheck
<1>2. QED
  BY <1>1, GoodInvariant, PTL

\* Every slot reads back the tuple last put in it, through moves, compactions and
\* the reuse of other slots, and every call of heap_page.cpp answers as SlotPage says.
THEOREM PageImplementsSlots == Spec => ImplementsSlotPage
<1>1. Init => Slots!PInit
  BY InitShows
<1>2. GoodPage /\ [Next]_vars => [Slots!PNext]_<<Shown(header, body), result>>
  BY NextShows
<1>3. QED
  BY <1>1, <1>2, GoodInvariant, PTL DEF Spec, ImplementsSlotPage, Slots!PSpec

===============================================================================
