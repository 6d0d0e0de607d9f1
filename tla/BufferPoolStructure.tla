------------------------ MODULE BufferPoolStructure -------------------------
(***************************************************************************)
(* Structure holds at the start and every step keeps it.                   *)
(***************************************************************************)
EXTENDS BufferPoolOwnership

\* How long the provers may take.
USE ZenonT(10), SMTT(30)

\* Goto and NotifyAll move the labels alike.
LEMMA GotoMoves ==
    ASSUME pc \in [Threads -> Labels], NEW t \in Threads, NEW label,
           Goto(t, label) \/ \E f : NotifyAll(t, f, label)
    PROVE  \A u \in Threads : at(u)' = IF u = t THEN Awake(label) ELSE at(u)
BY DEF Goto, NotifyAll, at, Awake

\* Where the frames and pages that a thread, a list or the table names are known.
LEMMA Names ==
    ASSUME Structure
    PROVE  /\ \A u \in Threads : /\ at(u) \in PinsFrameAt => loc[u].frame \in Frames
                                 /\ at(u) \in PinsVictimAt => loc[u].victim \in Frames
                                 /\ Role(at(u), loc[u]) # "none" => loc[u].frame \in Frames
                                 /\ \A g \in guards[u] : g.frame \in Frames /\ g.page \in Pages
           /\ \A p \in Pages : table[p] # None => table[p] \in Frames
           /\ \A i \in 1 .. Len(free_list) : free_list[i] \in Frames
           /\ None \notin Frames
<1>1. ASSUME NEW u \in Threads
      PROVE  /\ at(u) \in PinsFrameAt => loc[u].frame \in Frames
             /\ at(u) \in PinsVictimAt => loc[u].victim \in Frames
             /\ \A g \in guards[u] : g.frame \in Frames /\ g.page \in Pages
  BY SMTT(30) DEF Structure, CallOK, TypeOK, GuardType
<1>2. ASSUME NEW u \in Threads, Role(at(u), loc[u]) # "none" PROVE loc[u].frame \in Frames
  BY <1>2 DEF Structure, CallOK, Role, PrivateAt, LoadAt, PinsFrameAt, DeleteHolds
<1>3. \A p \in Pages : table[p] # None => table[p] \in Frames
  BY DEF Structure, TypeOK
<1>4. \A i \in 1 .. Len(free_list) : free_list[i] \in Frames
  BY SMTT(30) DEF Structure, TypeOK
<1>5. None \notin Frames
  BY NoneAssumption, CapacityAssumption DEF Frames
<1>6. QED
  BY <1>1, <1>2, <1>3, <1>4, <1>5

\* A frame whose pin count is zero is pinned by nobody.
LEMMA NoPins ==
    ASSUME Structure, Counting, NEW f \in Frames, frame[f].pin_count = 0
    PROVE  PinsOf(f) = {} /\ GuardPins(f) = {}
<1>1. /\ IsFiniteSet(PinsOf(f)) /\ IsFiniteSet(GuardPins(f))
      /\ 0 = Cardinality(PinsOf(f)) + Cardinality(GuardPins(f))
  BY DEF Structure, Counted
<1> HIDE DEF PinsOf, GuardPins
<1>2. Cardinality(PinsOf(f)) = 0 /\ Cardinality(GuardPins(f)) = 0
  BY SMTT(30), <1>1 DEF Counting
<1>3. QED
  BY <1>1, <1>2 DEF Counting

\* A thread whose pin is the only one counted pins the frame alone.
LEMMA OnePin ==
    ASSUME Structure, Counting, NEW f \in Frames, frame[f].pin_count = 1, NEW t \in PinsOf(f)
    PROVE  PinsOf(f) = {t} /\ GuardPins(f) = {}
<1>1. /\ IsFiniteSet(PinsOf(f)) /\ IsFiniteSet(GuardPins(f))
      /\ 1 = Cardinality(PinsOf(f)) + Cardinality(GuardPins(f))
  BY DEF Structure, Counted
<1> HIDE DEF PinsOf, GuardPins
<1>2. /\ IsFiniteSet(PinsOf(f) \ {t}) /\ Cardinality(PinsOf(f) \ {t}) = Cardinality(PinsOf(f)) - 1
      /\ Cardinality(PinsOf(f)) \in Nat /\ Cardinality(GuardPins(f)) \in Nat
      /\ Cardinality(PinsOf(f) \ {t}) \in Nat
  BY <1>1 DEF Counting
<1>3. Cardinality(PinsOf(f) \ {t}) = 0 /\ Cardinality(GuardPins(f)) = 0
  BY <1>1, <1>2
<1>4. PinsOf(f) \ {t} = {} /\ GuardPins(f) = {}
  BY <1>1, <1>2, <1>3 DEF Counting
<1>5. QED
  BY <1>4

\* A frame somebody pins has a count above zero.
LEMMA SomePin ==
    ASSUME Structure, Counting, NEW f \in Frames, NEW t \in PinsOf(f) \cup GuardPins(f)
    PROVE  frame[f].pin_count \in Nat \ {0}
<1>1. frame[f].pin_count \in Nat
  BY DEF Structure, TypeOK, FrameType
<1>2. frame[f].pin_count # 0
  BY NoPins
<1>3. QED
  BY <1>1, <1>2

\* A mapped or Resident frame that at most t pins is Resident, mapped and nobody's.
LEMMA Vacant ==
    ASSUME Structure, NEW t \in Threads, NEW f \in Frames, frame[f].state \in {"Loading", "Resident"},
           PinsOf(f) \subseteq {t}, GuardPins(f) = {}, Role(at(t), loc[t]) = "none"
    PROVE  /\ frame[f].state = "Resident" /\ frame[f].page_id \in Pages
           /\ \A u \in Threads : ~Owns(u, f)
           /\ \A p \in Pages : table[p] = f <=> p = frame[f].page_id
           /\ ~Listed(f)
<1>1. ASSUME NEW u \in Threads PROVE ~Owns(u, f)
  <2> SUFFICES ASSUME Owns(u, f) PROVE FALSE
    OBVIOUS
  <2>1. Role(at(u), loc[u]) # "none" /\ loc[u].frame = f /\ u # t
    BY DEF Owns
  <2>2. Role(at(u), loc[u]) # "private"
    BY <2>1 DEF Structure, OwnerOK
  <2>3. at(u) \in PinsFrameAt
    BY <2>1, <2>2 DEF Role, LoadAt, PinsFrameAt
  <2>4. u \in PinsOf(f)
    BY <2>1, <2>3 DEF PinsOf, PinnedBy
  <2>5. QED
    BY <2>1, <2>4
<1>2. \A role : role # "none" => ~Plays(role, f)
  BY <1>1 DEF Plays, Owns
<1>3. frame[f].state = "Resident" /\ table[frame[f].page_id] = f
  BY <1>2 DEF Structure, Home
<1>4. frame[f].page_id \in Pages
  BY <1>3 DEF Structure, FrameOK
<1>5. \A p \in Pages : table[p] = f => frame[f].page_id = p
  BY Names DEF Structure, MappedOK
<1>6. ~Listed(f)
  BY <1>3 DEF Structure, ListedOK
<1>7. QED
  BY <1>1, <1>3, <1>4, <1>5, <1>6

\* A step that moves one thread and changes neither where a frame is at home, nor
\* the page it holds, nor the part the thread plays.
LEMMA Steady ==
    ASSUME Structure, TypeOK', NEW t \in Threads, NEW a, NEW l, Moves(t, a, l), CallOK(a, l),
           UNCHANGED <<table, free_list>>, \A f \in Frames : SameShape(f),
           \A u \in Threads \ {t} : guards'[u] = guards[u],
           Role(a, l) = Role(at(t), loc[t]), Role(a, l) # "none" => l.frame = loc[t].frame,
           PinnedOK(t)', GuardsOK(t)', OwnerOK(t)',
           \A f \in Frames : FrameOK(f)' /\ Counted(f)' /\ Evictable(f)'
    PROVE  Structure'
<1>1. \A u \in Threads : CallOK(at(u), loc[u])'
  BY DEF Structure, Moves
<1>2. \A u \in Threads : PinnedOK(u)'
  BY SMTT(30), Names DEF Structure, Moves, PinnedOK, SameShape
<1>3. \A u \in Threads : GuardsOK(u)'
  BY SMTT(30) DEF Structure, Moves, GuardsOK
<1>4. \A u \in Threads : OwnerOK(u)'
  BY SMTT(30), Names DEF Structure, Moves, OwnerOK, SameShape
<1>5. \A f \in Frames : Listed(f)' <=> Listed(f)
  BY DEF Listed
<1>6. \A f \in Frames : Home(f)'
  BY SMTT(30), <1>5 DEF Structure, Home, Plays, Moves, SameShape
<1>7. \A p \in Pages : MappedOK(p)'
  BY Names DEF Structure, MappedOK, SameShape
<1>8. ListOK' /\ ListedOK' /\ OwnersDiffer'
  BY SMTT(30), <1>5 DEF Structure, ListOK, ListedOK, OwnersDiffer, Owns, Moves, SameShape
<1>9. QED
  BY <1>1, <1>2, <1>3, <1>4, <1>6, <1>7, <1>8 DEF Structure

\* A step of thread t that changes frame f alone: where it is at home, which page
\* it holds or whether that page is mapped to it.
Rehomed(t, a, l, f) ==
    /\ Moves(t, a, l) /\ CallOK(a, l) /\ UNCHANGED guards
    /\ \A x \in Frames \ {f} : SameShape(x)
    /\ Role(at(t), loc[t]) # "none" => loc[t].frame = f
    /\ Role(a, l) # "none" => l.frame = f
    /\ \A u \in Threads \ {t} :
          /\ ~Owns(u, f)
          /\ PinnedBy(at(u), loc[u], f) => \/ SameShape(f)
                                           \/ /\ at(u) = "wait" /\ frame'[f].state # "Free"
                                              /\ frame'[f].page_id = frame[f].page_id
          /\ \A g \in guards[u] : g.frame = f => SameShape(f)
    /\ \A p \in Pages : table'[p] # table[p] => {table[p], table'[p]} = {None, f}
    /\ \A p \in Pages : table'[p] = f => frame'[f].page_id = p /\ frame'[f].state \in {"Loading", "Resident"}
    /\ \A x \in Frames \ {f} : Listed(x)' <=> Listed(x)
    /\ Listed(f)' => frame'[f].state = "Free" /\ Role(a, l) = "none"

\* Such a step keeps the structure if it does so for the thread and for the pins.
LEMMA Rehome ==
    ASSUME Structure, TypeOK', NEW t \in Threads, NEW a, NEW l, NEW f \in Frames, Rehomed(t, a, l, f), ListOK',
           PinnedOK(t)', GuardsOK(t)', OwnerOK(t)', Home(f)',
           \A x \in Frames : FrameOK(x)' /\ Counted(x)' /\ Evictable(x)'
    PROVE  Structure'
<1> USE DEF Rehomed
<1>1. \A u \in Threads : CallOK(at(u), loc[u])'
  BY DEF Structure, Moves
<1>2. \A u \in Threads : PinnedOK(u)'
  <2> SUFFICES ASSUME NEW u \in Threads \ {t} PROVE PinnedOK(u)'
    OBVIOUS
  <2>1. at(u)' = at(u) /\ loc'[u] = loc[u] /\ guards'[u] = guards[u] /\ PinnedOK(u)
    BY DEF Structure, Moves
  <2>2. ASSUME at(u) \in PinsFrameAt
        PROVE  /\ frame'[loc[u].frame].page_id = loc[u].page
               /\ frame'[loc[u].frame].state \in StatesAt(at(u))
    <3>1. loc[u].frame \in Frames /\ frame[loc[u].frame].page_id = loc[u].page
          /\ frame[loc[u].frame].state \in StatesAt(at(u))
      BY <2>1, <2>2, Names DEF PinnedOK
    <3>2. CASE SameShape(loc[u].frame)
      BY <3>1, <3>2 DEF SameShape
    <3>3. CASE loc[u].frame = f /\ at(u) = "wait" /\ frame'[f].state # "Free" /\ frame'[f].page_id = frame[f].page_id
      BY <3>1, <3>3 DEF StatesAt, LoadAt, TypeOK, FrameType
    <3>4. QED
      BY <2>2, <3>1, <3>2, <3>3 DEF PinnedBy
  <2>3. ASSUME at(u) \in PinsVictimAt
        PROVE  frame'[loc[u].victim].page_id = loc[u].peeked /\ frame'[loc[u].victim].state = "Resident"
    <3>1. loc[u].victim \in Frames /\ at(u) # "wait"
      BY <2>3, Names DEF PinsVictimAt
    <3>2. SameShape(loc[u].victim)
      BY <2>3, <3>1 DEF PinnedBy
    <3>3. QED
      BY <2>1, <2>3, <3>2 DEF PinnedOK, SameShape
  <2>4. ASSUME NEW g \in guards[u]
        PROVE  frame'[g.frame].page_id = g.page /\ frame'[g.frame].state = "Resident"
    <3>1. g.frame \in Frames /\ SameShape(g.frame)
      BY Names
    <3>2. QED
      BY <2>1, <3>1 DEF PinnedOK, SameShape
  <2>5. QED
    BY <2>1, <2>2, <2>3, <2>4 DEF PinnedOK
<1>3. \A u \in Threads : GuardsOK(u)'
  BY SMTT(30) DEF Structure, Moves, GuardsOK
<1>4. \A u \in Threads : OwnerOK(u)'
  <2> SUFFICES ASSUME NEW u \in Threads \ {t} PROVE OwnerOK(u)'
    OBVIOUS
  <2>1. at(u)' = at(u) /\ loc'[u] = loc[u] /\ OwnerOK(u) /\ CallOK(at(u), loc[u])
    BY DEF Structure, Moves
  <2>2. CASE Role(at(u), loc[u]) = "none"
    BY <2>1, <2>2 DEF OwnerOK, Role, LoadAt
  <2>3. CASE Role(at(u), loc[u]) # "none"
    <3>1. loc[u].frame \in Frames \ {f} /\ SameShape(loc[u].frame)
      BY <2>3, Names DEF Owns
    <3>2. at(u) \in LoadAt \cup {"insert"} => loc[u].page \in Pages
      BY <2>1 DEF CallOK, FetchAt, LoadAt
    <3>3. at(u) \in LoadAt \cup {"insert"} => (table'[loc[u].page] = loc[u].frame <=> table[loc[u].page] = loc[u].frame)
      <4>1. loc[u].frame \notin {None, f}
        BY <3>1, Names
      <4>2. \A q \in Pages : table'[q] # table[q] => table[q] \in {None, f} /\ table'[q] \in {None, f}
        OBVIOUS
      <4>3. QED
        BY <3>2, <4>1, <4>2
    <3>4. QED
      BY <2>1, <3>1, <3>3 DEF OwnerOK, SameShape, LoadAt
  <2>4. QED
    BY <2>2, <2>3
<1>5. \A x \in Frames : Home(x)'
  <2> SUFFICES ASSUME NEW x \in Frames \ {f} PROVE Home(x)'
    OBVIOUS
  <2>1. SameShape(x) /\ Home(x) /\ FrameOK(x) /\ (Listed(x)' <=> Listed(x))
    BY DEF Structure
  <2>2. \A role : role # "none" => (Plays(role, x)' <=> Plays(role, x))
    BY SMTT(30) DEF Plays, Moves
  <2>3. frame[x].state = "Resident" /\ table[frame[x].page_id] = x => table'[frame[x].page_id] = x
    BY SMTT(30), <2>1, Names DEF FrameOK
  <2>4. QED
    BY <2>1, <2>2, <2>3 DEF Home, SameShape
<1>6. \A p \in Pages : MappedOK(p)'
  <2> SUFFICES ASSUME NEW p \in Pages, table'[p] # None, table'[p] # f PROVE MappedOK(p)'
    BY DEF MappedOK
  <2>1. table'[p] = table[p] /\ table[p] \in Frames \ {f} /\ MappedOK(p)
    BY Names DEF Structure
  <2>2. QED
    BY <2>1 DEF MappedOK, SameShape
<1>7. ListedOK'
  <2> SUFFICES ASSUME NEW x \in Frames, Listed(x)'
               PROVE  frame'[x].state = "Free" /\ \A u \in Threads : ~Owns(u, x)'
    BY DEF ListedOK
  <2>1. CASE x = f
    BY <2>1 DEF Owns, Moves
  <2>2. CASE x # f
    <3>1. SameShape(x) /\ frame[x].state = "Free" /\ \A u \in Threads : ~Owns(u, x)
      BY <2>2 DEF Structure, ListedOK
    <3>2. \A u \in Threads : ~Owns(u, x)'
      BY <2>2, <3>1 DEF Owns, Moves
    <3>3. QED
      BY <3>1, <3>2 DEF SameShape
  <2>3. QED
    BY <2>1, <2>2
<1>8. OwnersDiffer'
  BY SMTT(30) DEF Structure, OwnersDiffer, Owns, Moves, SameShape
<1>9. QED
  BY <1>1, <1>2, <1>3, <1>4, <1>5, <1>6, <1>7, <1>8 DEF Structure

(***************************************************************************)
(* Counting pins.                                                          *)
(***************************************************************************)

\* The pins of the calls after one thread has moved.
LEMMA PinsMove ==
    ASSUME NEW t \in Threads, NEW a, NEW l, Moves(t, a, l), NEW f
    PROVE  PinsOf(f)' = IF PinnedBy(a, l, f) THEN PinsOf(f) \cup {t} ELSE PinsOf(f) \ {t}
BY DEF PinsOf, Moves

\* The count of a frame that gains or loses no pin, gains one, loses one, or
\* loses the last one.
LEMMA CountKept ==
    ASSUME Structure, NEW t \in Threads, NEW a, NEW l, Moves(t, a, l), UNCHANGED guards, NEW f \in Frames,
           PinnedBy(a, l, f) <=> PinnedBy(at(t), loc[t], f),
           frame'[f].pin_count = frame[f].pin_count
    PROVE  Counted(f)'
<1>1. PinsOf(f)' = PinsOf(f) /\ GuardPins(f)' = GuardPins(f)
  BY SMTT(30), PinsMove DEF PinsOf, GuardPins
<1>2. QED
  BY <1>1 DEF Structure, Counted

\* A call that takes a pin adds one to the count of the frame.
LEMMA CountUp ==
    ASSUME Structure, Counting, NEW t \in Threads, NEW a, NEW l, Moves(t, a, l), UNCHANGED guards,
           NEW f \in Frames, PinnedBy(a, l, f), ~PinnedBy(at(t), loc[t], f),
           frame'[f].pin_count = frame[f].pin_count + 1
    PROVE  Counted(f)'
<1>1. PinsOf(f)' = PinsOf(f) \cup {t} /\ t \notin PinsOf(f) /\ GuardPins(f)' = GuardPins(f)
  BY PinsMove DEF PinsOf, GuardPins
<1>2. /\ IsFiniteSet(PinsOf(f)) /\ IsFiniteSet(GuardPins(f))
      /\ frame[f].pin_count = Cardinality(PinsOf(f)) + Cardinality(GuardPins(f))
  BY DEF Structure, Counted
<1>3. /\ IsFiniteSet(PinsOf(f) \cup {t}) /\ Cardinality(PinsOf(f) \cup {t}) = Cardinality(PinsOf(f)) + 1
      /\ Cardinality(PinsOf(f)) \in Nat /\ Cardinality(GuardPins(f)) \in Nat
  BY <1>1, <1>2 DEF Counting
<1>4. QED
  BY <1>1, <1>2, <1>3 DEF Counted

\* A call that drops its pin takes one from the count of the frame.
LEMMA CountDown ==
    ASSUME Structure, Counting, NEW t \in Threads, NEW a, NEW l, Moves(t, a, l), UNCHANGED guards,
           NEW f \in Frames, ~PinnedBy(a, l, f), PinnedBy(at(t), loc[t], f),
           frame'[f].pin_count = frame[f].pin_count - 1
    PROVE  Counted(f)'
<1>1. PinsOf(f)' = PinsOf(f) \ {t} /\ t \in PinsOf(f) /\ GuardPins(f)' = GuardPins(f)
  BY SMTT(30), PinsMove DEF PinsOf, GuardPins
<1>2. /\ IsFiniteSet(PinsOf(f)) /\ IsFiniteSet(GuardPins(f))
      /\ frame[f].pin_count = Cardinality(PinsOf(f)) + Cardinality(GuardPins(f))
  BY DEF Structure, Counted
<1>3. /\ IsFiniteSet(PinsOf(f) \ {t}) /\ Cardinality(PinsOf(f) \ {t}) = Cardinality(PinsOf(f)) - 1
      /\ Cardinality(PinsOf(f)) \in Nat /\ Cardinality(GuardPins(f)) \in Nat
  BY <1>1, <1>2 DEF Counting
<1>4. QED
  BY <1>1, <1>2, <1>3 DEF Counted

\* A frame that only one call could pin, and pins no more, has count zero.
LEMMA CountFreed ==
    ASSUME Counting, NEW t \in Threads, NEW a, NEW l, Moves(t, a, l), UNCHANGED guards,
           NEW f \in Frames, PinsOf(f) \subseteq {t}, GuardPins(f) = {}, ~PinnedBy(a, l, f),
           frame'[f].pin_count = 0
    PROVE  Counted(f)'
<1>1. PinsOf(f)' = {} /\ GuardPins(f)' = {}
  BY SMTT(30), PinsMove DEF GuardPins
<1>2. QED
  BY SMTT(30), <1>1 DEF Counted, Counting

\* A candidate that is not touched stays one.
LEMMA EvictableKept ==
    ASSUME Structure, NEW t \in Threads, NEW a, NEW l, Moves(t, a, l), NEW f \in Frames, SameShape(f),
           frame'[f].pin_count = 0 => frame[f].pin_count = 0, f \in evictable => f \in evictable',
           WillFind(t, f) => WillFind(t, f)'
    PROVE  Evictable(f)'
<1> SUFFICES ASSUME frame'[f].state = "Resident", frame'[f].pin_count = 0, f \notin evictable'
             PROVE  \E u \in Threads : WillFind(u, f)'
  BY DEF Evictable
<1>1. PICK u \in Threads : WillFind(u, f)
  BY DEF Structure, Evictable, SameShape
<1>2. u # t => at(u)' = at(u) /\ loc'[u] = loc[u]
  BY DEF Moves
<1>3. WillFind(u, f)'
  BY <1>1, <1>2 DEF SameShape, WillFind
<1>4. QED
  BY <1>3

\* A thread moves with Goto or NotifyAll and a change of its locals.
LEMMA Go ==
    ASSUME TypeOK, NEW t \in Threads, NEW label \in Labels, NEW l \in CallType,
           Goto(t, label) \/ \E f : NotifyAll(t, f, label),
           Local(t, l) \/ (UNCHANGED loc /\ l = loc[t])
    PROVE  /\ Moves(t, Awake(label), l)
           /\ pc' \in [Threads -> Labels] /\ loc' \in [Threads -> CallType]
<1>1. \A u \in Threads : at(u)' = IF u = t THEN Awake(label) ELSE at(u)
  BY GotoMoves DEF TypeOK
<1>2. \A u \in Threads : loc'[u] = IF u = t THEN l ELSE loc[u]
  BY DEF Local, TypeOK
<1>3. pc' \in [Threads -> Labels]
  BY DEF TypeOK, Goto, NotifyAll, Awake, Labels
<1>4. loc' \in [Threads -> CallType]
  BY DEF TypeOK, Local
<1>5. QED
  BY <1>1, <1>2, <1>3, <1>4 DEF Moves

(***************************************************************************)
(* Steps that leave every frame and every pin as it is.                    *)
(***************************************************************************)

\* Such a step of a thread that goes on playing the same part.
LEMMA Quiet ==
    ASSUME Structure, TypeOK', NEW t \in Threads, NEW a, NEW l, Moves(t, a, l), CallOK(a, l),
           UNCHANGED <<frame, table, free_list, guards>>,
           \A f \in Frames : PinnedBy(a, l, f) <=> PinnedBy(at(t), loc[t], f),
           Role(a, l) = Role(at(t), loc[t]), Role(a, l) # "none" => l.frame = loc[t].frame,
           PinnedOK(t)', GuardsOK(t)', OwnerOK(t)', \A f \in Frames : Evictable(f)'
    PROVE  Structure'
<1>1. \A f \in Frames : SameShape(f) /\ FrameOK(f)'
  BY DEF Structure, SameShape, FrameOK
<1>2. \A f \in Frames : Counted(f)'
  BY CountKept
<1>3. QED
  BY <1>1, <1>2, Steady

\* Labels where a call pins nothing and owns nothing.
FreeAt == {"idle", "lookup", "acquire", "evict", "peek", "revalidate", "pin", "scan", "delete"}

\* The variables that say nothing of frames and threads keep their types.
RestTyped == /\ evictable \subseteq Frames
             /\ status \in [Pages -> Disk!Status] /\ disk \in [Pages -> Content]
             /\ phase \in {"run", "drain", "shutdown", "down", "aborted"} /\ err \in BOOLEAN

\* A thread that pins nothing and owns nothing, before and after.
LEMMA Idle ==
    ASSUME Structure, NEW t \in Threads, NEW a \in FreeAt, NEW l \in CallType, at(t) \in FreeAt,
           Goto(t, a), Local(t, l) \/ (UNCHANGED loc /\ l = loc[t]), CallOK(a, l),
           UNCHANGED <<frame, table, free_list, guards>>, RestTyped',
           a \in FetchAt \cup ReclaimAt /\ l.op \in Fetches => \A g \in guards[t] : g.page # l.page,
           Moves(t, a, l) => \A f \in Frames : Evictable(f)'
    PROVE  Structure'
<1>1. Awake(a) = a /\ a \in Labels
  BY DEF FreeAt, Awake, Labels
<1>2. Moves(t, a, l) /\ TypeOK'
  <2>1. Moves(t, a, l) /\ pc' \in [Threads -> Labels] /\ loc' \in [Threads -> CallType]
    BY <1>1, Go DEF Structure
  <2>2. QED
    BY <2>1 DEF Structure, TypeOK, RestTyped
<1>3. at(t)' = a /\ loc'[t] = l
  BY <1>2 DEF Moves
<1>4. /\ at(t) \notin PinsFrameAt \cup PinsVictimAt /\ a \notin PinsFrameAt \cup PinsVictimAt \cup FlushAt \cup {"unlatch"}
      /\ Role(at(t), loc[t]) = "none" /\ Role(a, l) = "none" /\ a \notin {"load", "loaded", "abandon", "fail", "insert"}
  BY DEF FreeAt, PinsFrameAt, PinsVictimAt, FlushAt, Role, PrivateAt, LoadAt
<1>5. PinnedOK(t)'
  BY <1>3, <1>4 DEF Structure, PinnedOK
<1>6. GuardsOK(t)'
  BY <1>3, <1>4 DEF Structure, GuardsOK
<1>7. OwnerOK(t)'
  BY <1>3, <1>4 DEF OwnerOK
<1>8. \A f \in Frames : PinnedBy(a, l, f) <=> PinnedBy(at(t), loc[t], f)
  BY <1>4 DEF PinnedBy
<1>9. QED
  BY <1>2, <1>4, <1>5, <1>6, <1>7, <1>8, Quiet

\* The locals of a call that starts, and the ones of a thread without a call.
LEMMA NoCallTyped ==
    /\ NoCall \in CallType
    /\ \A op \in Ops : \A p \in Pages \cup {None} : [NoCall EXCEPT !.op = op, !.page = p] \in CallType
    /\ \A op \in Ops \cup {"shutdown"} : [NoCall EXCEPT !.op = op, !.frame = 0] \in CallType
<1>1. NoCall \in CallType
  BY DEF NoCall, CallType
<1>2. 0 \in Frames
  BY CapacityAssumption DEF Frames
<1>3. ASSUME NEW op \in Ops, NEW p \in Pages \cup {None} PROVE [NoCall EXCEPT !.op = op, !.page = p] \in CallType
  BY <1>1 DEF CallType
<1>4. ASSUME NEW op \in Ops \cup {"shutdown"} PROVE [NoCall EXCEPT !.op = op, !.frame = 0] \in CallType
  BY <1>1, <1>2 DEF CallType
<1>5. QED
  BY <1>1, <1>3, <1>4

\* A fetch that misses, and a reclaimer that finds the free list empty.
LEMMA MissKeeps ==
    ASSUME Structure, NEW t \in Threads, FetchMiss(t) \/ TryPopEmpty(t)
    PROVE  Structure'
<1>1. PICK a \in {"acquire", "evict"} : Goto(t, a)
  BY DEF FetchMiss, TryPopEmpty
<1>2. /\ UNCHANGED <<frame, table, free_list, guards, evictable, loc>> /\ RestTyped'
      /\ at(t) \in {"lookup", "acquire"}
  BY DEF Structure, TypeOK, RestTyped, FetchMiss, TryPopEmpty, at, Awake, pool, storage, owner
<1>3. CallOK(at(t), loc[t]) /\ GuardsOK(t) /\ loc[t] \in CallType
  BY DEF Structure, TypeOK
<1>4. CallOK(a, loc[t])
  BY <1>2, <1>3 DEF CallOK, FetchAt, ReclaimAt, FlushAt, NeedsFrame, PinsFrameAt, PinsVictimAt, DeleteHolds, Fetches
<1>5. loc[t].op \in Fetches => \A g \in guards[t] : g.page # loc[t].page
  BY <1>2, <1>3 DEF GuardsOK, FetchAt, ReclaimAt
<1>6. Moves(t, a, loc[t]) => \A f \in Frames : Evictable(f)'
  BY <1>2, EvictableKept DEF SameShape, WillFind
<1>7. QED
  BY <1>1, <1>2, <1>3, <1>4, <1>5, <1>6, Idle DEF FreeAt

\* A call starts.
LEMMA StartKeeps ==
    ASSUME Structure, NEW t \in Threads, Call(t) \/ Shutdown(t)
    PROVE  Structure'
<1>1. /\ UNCHANGED <<frame, table, free_list, guards, evictable>> /\ RestTyped'
      /\ at(t) = "idle" /\ pc[t] = "idle"
  BY DEF Structure, TypeOK, RestTyped, Call, StartFetch, StartNew, StartDelete, StartFlush, StartFlushAll, Start,
         Shutdown, Quiescent, at, Awake, pool, storage, owner
<1>2. ASSUME NEW a \in FreeAt, NEW l \in CallType, Goto(t, a), Local(t, l), CallOK(a, l),
             a \in FetchAt \cup ReclaimAt /\ l.op \in Fetches => \A g \in guards[t] : g.page # l.page
      PROVE  Structure'
  <2>1. Moves(t, a, l) => \A f \in Frames : Evictable(f)'
    BY <1>1, EvictableKept DEF SameShape, WillFind
  <2>2. QED
    BY <1>1, <1>2, <2>1, Idle DEF FreeAt
<1>3. ASSUME NEW op \in Fetches, NEW p \in Pages, StartFetch(t, op, p) PROVE Structure'
  <2>1. /\ [NoCall EXCEPT !.op = op, !.page = p] \in CallType
        /\ Goto(t, "lookup") /\ Local(t, [NoCall EXCEPT !.op = op, !.page = p])
    BY <1>3, NoCallTyped DEF StartFetch, Start
  <2>2. CallOK("lookup", [NoCall EXCEPT !.op = op, !.page = p])
    BY DEF CallOK, NoCall, FetchAt, ReclaimAt, FlushAt, PinsFrameAt, PinsVictimAt, DeleteHolds, Fetches
  <2>3. \A g \in guards[t] : g.page # p
    BY <1>3, Names, PagesAssumption DEF StartFetch
  <2>4. QED
    BY <1>2, <2>1, <2>2, <2>3 DEF FreeAt, NoCall
<1>4. ASSUME StartNew(t) PROVE Structure'
  <2>1. /\ [NoCall EXCEPT !.op = "new", !.page = None] \in CallType
        /\ Goto(t, "acquire") /\ Local(t, [NoCall EXCEPT !.op = "new", !.page = None])
    BY <1>4, NoCallTyped DEF StartNew, Start
  <2>2. CallOK("acquire", [NoCall EXCEPT !.op = "new", !.page = None])
    BY DEF CallOK, NoCall, FetchAt, ReclaimAt, FlushAt, NeedsFrame, PinsFrameAt, PinsVictimAt, DeleteHolds, Fetches
  <2>3. QED
    BY <1>2, <2>1, <2>2 DEF FreeAt, NoCall, Fetches
<1>5. ASSUME NEW p \in Pages, StartDelete(t, p) PROVE Structure'
  <2>1. /\ [NoCall EXCEPT !.op = "delete", !.page = p] \in CallType
        /\ Goto(t, "delete") /\ Local(t, [NoCall EXCEPT !.op = "delete", !.page = p])
    BY <1>5, NoCallTyped DEF StartDelete, Start
  <2>2. CallOK("delete", [NoCall EXCEPT !.op = "delete", !.page = p])
    BY DEF CallOK, NoCall, FetchAt, ReclaimAt, FlushAt, PinsFrameAt, PinsVictimAt, DeleteHolds, Fetches
  <2>3. QED
    BY <1>2, <2>1, <2>2 DEF FreeAt, NoCall, Fetches
<1>6. ASSUME NEW p \in Pages, StartFlush(t, p) PROVE Structure'
  <2>1. /\ [NoCall EXCEPT !.op = "flush", !.page = p] \in CallType
        /\ Goto(t, "pin") /\ Local(t, [NoCall EXCEPT !.op = "flush", !.page = p])
    BY <1>6, NoCallTyped DEF StartFlush, Start
  <2>2. CallOK("pin", [NoCall EXCEPT !.op = "flush", !.page = p])
    BY DEF CallOK, NoCall, FetchAt, ReclaimAt, FlushAt, PinsFrameAt, PinsVictimAt, DeleteHolds, Fetches
  <2>3. QED
    BY <1>2, <2>1, <2>2 DEF FreeAt, NoCall, Fetches
<1>7. ASSUME StartFlushAll(t) \/ Shutdown(t) PROVE Structure'
  <2>1. PICK op \in Ops \cup {"shutdown"} : /\ op \in {"flushall", "shutdown"}
                                           /\ Goto(t, "scan") /\ Local(t, [NoCall EXCEPT !.op = op, !.frame = 0])
    BY <1>7 DEF StartFlushAll, Shutdown
  <2>2. [NoCall EXCEPT !.op = op, !.frame = 0] \in CallType
    BY NoCallTyped
  <2>3. CallOK("scan", [NoCall EXCEPT !.op = op, !.frame = 0])
    BY SMTT(30), <2>1, CapacityAssumption DEF CallOK, NoCall, FetchAt, ReclaimAt, FlushAt, PinsFrameAt, PinsVictimAt, DeleteHolds, Fetches
  <2>4. QED
    BY <1>2, <2>1, <2>2, <2>3 DEF FreeAt, FetchAt, ReclaimAt
<1>8. QED
  BY <1>3, <1>4, <1>5, <1>6, <1>7 DEF Call, Fetches

\* A call returns that pins nothing and owns nothing.
LEMMA ReturnKeeps ==
    ASSUME Structure, NEW t \in Threads, Return(t), at(t) \in FreeAt, RestTyped',
           UNCHANGED <<frame, table, free_list, guards, evictable>>, at(t) \notin {"peek", "revalidate"}
    PROVE  Structure'
<1>1. Goto(t, "idle") /\ Local(t, NoCall) /\ NoCall \in CallType
  BY NoCallTyped DEF Return
<1>2. CallOK("idle", NoCall)
  BY DEF CallOK, NoCall, FetchAt, ReclaimAt, FlushAt, PinsFrameAt, PinsVictimAt, DeleteHolds, Fetches
<1>3. Moves(t, "idle", NoCall) => \A f \in Frames : Evictable(f)'
  BY EvictableKept DEF SameShape, WillFind
<1>4. QED
  BY <1>1, <1>2, <1>3, Idle DEF FreeAt, NoCall, Fetches

\* Calls that return at once, and the ends of the scans.
LEMMA ReturnsKeep ==
    ASSUME Structure, NEW t \in Threads, EvictNone(t) \/ ScanDone(t) \/ SyncDone(t) \/ DeletePinned(t)
    PROVE  Structure'
<1>1. UNCHANGED <<frame, table, free_list, guards, evictable>> /\ Return(t) /\ at(t) \in {"evict", "scan", "delete"}
  BY DEF EvictNone, ScanDone, SyncDone, DeletePinned, at, Awake, pool
<1>2. RestTyped'
  BY DEF Structure, TypeOK, RestTyped, EvictNone, ScanDone, SyncDone, DeletePinned, pool, storage, owner
<1>3. QED
  BY <1>1, <1>2, ReturnKeeps DEF FreeAt

\* Evict claims a candidate.
LEMMA EvictKeeps ==
    ASSUME Structure, NEW t \in Threads, Evict(t)
    PROVE  Structure'
<1>1. PICK v \in evictable : Candidates!Claim(v) /\ Local(t, [loc[t] EXCEPT !.victim = v])
  BY DEF Evict
<1> DEFINE l == [loc[t] EXCEPT !.victim = v]
<1>2. /\ UNCHANGED <<frame, table, free_list, guards>> /\ RestTyped' /\ evictable' = evictable \ {v}
      /\ Goto(t, "peek") /\ at(t) = "evict" /\ v \in Frames
  BY <1>1 DEF Structure, TypeOK, RestTyped, Evict, Candidates!Claim, at, Awake, storage, owner
<1>3. CallOK(at(t), loc[t]) /\ GuardsOK(t) /\ loc[t] \in CallType
  BY DEF Structure, TypeOK
<1>4. l \in CallType /\ l.op = loc[t].op /\ l.page = loc[t].page /\ l.victim = v
  BY <1>2, <1>3 DEF CallType
<1>5. Local(t, l)
  BY <1>1
<1> HIDE DEF l
<1>6. CallOK("peek", l)
  BY <1>2, <1>3, <1>4 DEF CallOK, FetchAt, ReclaimAt, FlushAt, NeedsFrame, PinsFrameAt, PinsVictimAt, DeleteHolds, Fetches
<1>7. l.op \in Fetches => \A g \in guards[t] : g.page # l.page
  BY <1>2, <1>3, <1>4 DEF GuardsOK, ReclaimAt
<1>8. ASSUME Moves(t, "peek", l), NEW f \in Frames PROVE Evictable(f)'
  <2>1. CASE f = v
    BY <1>4, <1>8, <2>1 DEF Evictable, WillFind, Moves
  <2>2. CASE f # v
    BY <1>2, <1>8, <2>2, EvictableKept DEF SameShape, WillFind
  <2>3. QED
    BY <2>1, <2>2
<1>9. QED
  BY <1>2, <1>3, <1>4, <1>5, <1>6, <1>7, <1>8, Idle DEF FreeAt

\* A victim is declined, and another one looked for.
LEMMA DeclineKeeps ==
    ASSUME Structure, NEW t \in Threads, at(t) \in {"peek", "revalidate"}, Decline(t), Goto(t, "evict"), RestTyped',
           UNCHANGED <<frame, table, free_list, guards, evictable>>,
           frame[loc[t].victim].state = "Resident" /\ frame[loc[t].victim].pin_count = 0
              => ~WillFind(t, loc[t].victim)
    PROVE  Structure'
<1> DEFINE l == [loc[t] EXCEPT !.victim = None, !.peeked = None]
<1>1. CallOK(at(t), loc[t]) /\ GuardsOK(t) /\ loc[t] \in CallType /\ Local(t, l)
  BY DEF Structure, TypeOK, Decline
<1>2. l \in CallType /\ l.op = loc[t].op /\ l.page = loc[t].page
  BY <1>1 DEF CallType
<1> HIDE DEF l
<1>3. CallOK("evict", l)
  BY <1>1, <1>2 DEF CallOK, FetchAt, ReclaimAt, FlushAt, NeedsFrame, PinsFrameAt, PinsVictimAt, DeleteHolds, Fetches
<1>4. l.op \in Fetches => \A g \in guards[t] : g.page # l.page
  BY <1>1, <1>2 DEF GuardsOK, ReclaimAt
<1>5. ASSUME Moves(t, "evict", l), NEW f \in Frames PROVE Evictable(f)'
  <2>1. CASE frame[f].state = "Resident" /\ frame[f].pin_count = 0
    BY <1>5, <2>1, EvictableKept DEF SameShape, WillFind
  <2>2. CASE ~(frame[f].state = "Resident" /\ frame[f].pin_count = 0)
    BY <2>2 DEF Evictable
  <2>3. QED
    BY <2>1, <2>2
<1>6. QED
  BY <1>1, <1>2, <1>3, <1>4, <1>5, Idle DEF FreeAt

\* Peek reads the page of the victim.
LEMMA PeekKeeps ==
    ASSUME Structure, NEW t \in Threads, Peek(t)
    PROVE  Structure'
<1> DEFINE v == loc[t].victim
           l == [loc[t] EXCEPT !.peeked = frame[v].page_id]
<1>1. /\ UNCHANGED <<frame, table, free_list, guards, evictable>> /\ RestTyped' /\ at(t) = "peek"
  BY DEF Structure, TypeOK, RestTyped, Peek, at, Awake, pool, storage, owner
<1>2. /\ CallOK(at(t), loc[t]) /\ GuardsOK(t) /\ loc[t] \in CallType /\ v \in Frames
      /\ frame[v] \in FrameType /\ FrameOK(v)
  BY <1>1 DEF Structure, TypeOK, CallOK
<1>3. CASE frame[v].state = "Resident" /\ frame[v].pin_count = 0
  <2>1. Local(t, l) /\ Goto(t, "revalidate")
    BY <1>3 DEF Peek
  <2>2. /\ l \in CallType /\ l.op = loc[t].op /\ l.page = loc[t].page
        /\ l.victim = v /\ l.peeked = frame[v].page_id /\ l.peeked \in Pages
    BY <1>2, <1>3 DEF CallType, FrameOK
  <2> HIDE DEF l
  <2>3. CallOK("revalidate", l)
    BY <1>1, <1>2, <2>2 DEF CallOK, FetchAt, ReclaimAt, FlushAt, NeedsFrame, PinsFrameAt, PinsVictimAt, DeleteHolds, Fetches
  <2>4. l.op \in Fetches => \A g \in guards[t] : g.page # l.page
    BY <1>1, <1>2, <2>2 DEF GuardsOK, ReclaimAt
  <2>5. ASSUME Moves(t, "revalidate", l), NEW f \in Frames PROVE Evictable(f)'
    <3>1. WillFind(t, f) => WillFind(t, f)'
      BY <1>1, <2>2, <2>5 DEF WillFind, Moves
    <3>2. QED
      BY <1>1, <2>5, <3>1, EvictableKept DEF SameShape
  <2>6. QED
    BY <1>1, <1>2, <2>1, <2>2, <2>3, <2>4, <2>5, Idle DEF FreeAt
<1>4. CASE ~(frame[v].state = "Resident" /\ frame[v].pin_count = 0)
  <2>1. Decline(t) /\ Goto(t, "evict")
    BY <1>4 DEF Peek
  <2>2. QED
    BY <1>1, <1>4, <2>1, DeclineKeeps
<1>5. QED
  BY <1>3, <1>4

\* A wake-up that nobody sent.
LEMMA SpuriousKeeps ==
    ASSUME Structure, NEW t \in Threads, SpuriousWakeup(t)
    PROVE  Structure'
<1>1. UNCHANGED <<frame, table, free_list, guards, evictable, loc, status, disk, phase, err>>
  BY DEF SpuriousWakeup, pool, storage, owner
<1>2. pc' \in [Threads -> Labels] /\ \A u \in Threads : at(u)' = at(u)
  BY DEF Structure, TypeOK, SpuriousWakeup, Goto, at, Awake, Labels
<1>3. TypeOK'
  BY <1>1, <1>2 DEF Structure, TypeOK
<1>4. Moves(t, at(t), loc[t])
  BY <1>1, <1>2 DEF Moves
<1>5. PinnedOK(t)' /\ GuardsOK(t)' /\ OwnerOK(t)'
  BY SMTT(30), <1>1, <1>2 DEF Structure, PinnedOK, GuardsOK, OwnerOK
<1>6. \A f \in Frames : Evictable(f)'
  BY <1>1, <1>2, <1>4, EvictableKept DEF SameShape, WillFind
<1>7. QED
  BY <1>1, <1>3, <1>4, <1>5, <1>6, Quiet DEF Structure

\* The owner stops accepting work, and steps of no concern to the pool.
LEMMA OthersKeep ==
    ASSUME Structure, StopAccepting \/ UNCHANGED vars
    PROVE  Structure'
<1>1. UNCHANGED <<frame, table, free_list, guards, evictable, loc, status, disk, pc, err>>
      /\ phase' \in {"run", "drain", "shutdown", "down", "aborted"}
  BY DEF StopAccepting, vars, pool, storage, owner, Structure, TypeOK
<1>2. TypeOK' /\ (\A u \in Threads : at(u)' = at(u))
  BY <1>1 DEF Structure, TypeOK, at
<1>3. (\A u \in Threads : CallOK(at(u), loc[u])' /\ PinnedOK(u)') /\ (\A u \in Threads : GuardsOK(u)' /\ OwnerOK(u)')
  BY SMTT(30), <1>1, <1>2 DEF Structure, PinnedOK, GuardsOK, OwnerOK
<1>4. \A f \in Frames : PinsOf(f)' = PinsOf(f) /\ GuardPins(f)' = GuardPins(f) /\ (Listed(f)' <=> Listed(f))
  BY <1>1, <1>2 DEF PinsOf, GuardPins, Listed
<1>5. \A f \in Frames : FrameOK(f)' /\ Counted(f)' /\ Evictable(f)'
  BY SMTT(30), <1>1, <1>2, <1>4 DEF Structure, FrameOK, Counted, Evictable, WillFind
<1>6. \A f \in Frames : Home(f)'
  BY SMTT(30), <1>1, <1>2, <1>4 DEF Structure, Home, Plays
<1>7. (\A p \in Pages : MappedOK(p)') /\ ListOK' /\ ListedOK' /\ OwnersDiffer'
  BY SMTT(30), <1>1, <1>2, <1>4 DEF Structure, MappedOK, ListOK, ListedOK, OwnersDiffer, Owns
<1>8. QED
  BY <1>2, <1>3, <1>5, <1>6, <1>7 DEF Structure

(***************************************************************************)
(* Steps that take or drop a pin.                                          *)
(***************************************************************************)

\* The state, the page and the pins of the other frames, when the pin count of one changes.
LEMMA PinCount ==
    ASSUME TypeOK, NEW f \in Frames, NEW n \in Nat, frame' = [frame EXCEPT ![f].pin_count = n]
    PROVE  /\ frame' \in [Frames -> FrameType]
           /\ \A x \in Frames : SameShape(x) /\ (x # f => frame'[x].pin_count = frame[x].pin_count)
           /\ frame'[f].pin_count = n
<1>1. frame \in [Frames -> FrameType]
  BY DEF TypeOK
<1>2. \A x \in Frames : frame'[x] = IF x = f THEN [frame[f] EXCEPT !.pin_count = n] ELSE frame[x]
  BY <1>1
<1>3. [frame[f] EXCEPT !.pin_count = n] \in FrameType
  BY <1>1 DEF FrameType
<1>4. frame' \in [Frames -> FrameType]
  BY <1>1, <1>3
<1>5. QED
  BY <1>1, <1>2, <1>4 DEF FrameType, SameShape

\* A thread that pinned nothing pins frame f, with its call or as a victim.
LEMMA PinUp ==
    ASSUME Structure, Counting, NEW t \in Threads, NEW f \in Frames, NEW label \in Labels, NEW l \in CallType,
           at(t) \in FreeAt, Goto(t, label), Local(t, l) \/ (UNCHANGED loc /\ l = loc[t]), CallOK(Awake(label), l),
           frame' = [frame EXCEPT ![f].pin_count = @ + 1], frame[f].state # "Free",
           UNCHANGED <<table, free_list, guards, evictable>>, RestTyped',
           \/ /\ label \in {"asleep", "touch", "latch"} /\ l.frame = f /\ frame[f].page_id = l.page
              /\ frame[f].state \in StatesAt(Awake(label)) /\ \A g \in guards[t] : g.frame # f
           \/ /\ label = "flush" /\ l.victim = f /\ frame[f].page_id = l.peeked /\ frame[f].state = "Resident",
           l.op \in Fetches => \A g \in guards[t] : g.page # l.page,
           at(t) \in {"peek", "revalidate"} => loc[t].victim = f
    PROVE  Structure'
<1> DEFINE a == Awake(label)
<1>1. a \in {"wait", "touch", "latch", "flush"} /\ (a = "flush" <=> label = "flush")
  BY DEF Awake
<1>2. Moves(t, a, l) /\ pc' \in [Threads -> Labels] /\ loc' \in [Threads -> CallType]
  BY Go DEF Structure
<1> HIDE DEF a
<1>3. /\ frame' \in [Frames -> FrameType] /\ frame[f].pin_count \in Nat
      /\ \A x \in Frames : SameShape(x) /\ (x # f => frame'[x].pin_count = frame[x].pin_count)
      /\ frame'[f].pin_count = frame[f].pin_count + 1
  <2>1. frame[f].pin_count \in Nat /\ TypeOK
    BY DEF Structure, TypeOK, FrameType
  <2> DEFINE n == frame[f].pin_count + 1
  <2>2. frame' = [frame EXCEPT ![f].pin_count = n] /\ n \in Nat
    BY <2>1
  <2> HIDE DEF n
  <2>3. /\ frame' \in [Frames -> FrameType]
        /\ \A x \in Frames : SameShape(x) /\ (x # f => frame'[x].pin_count = frame[x].pin_count)
        /\ frame'[f].pin_count = n
    BY <2>1, <2>2, PinCount
  <2>4. QED
    BY <2>1, <2>3 DEF n
<1>4. TypeOK'
  BY <1>2, <1>3 DEF Structure, TypeOK, RestTyped
<1>5. at(t)' = a /\ loc'[t] = l /\ guards'[t] = guards[t]
  BY <1>2 DEF Moves
<1>6. \A x \in Frames : ~PinnedBy(at(t), loc[t], x) /\ (PinnedBy(a, l, x) <=> x = f)
  BY <1>1 DEF PinnedBy, FreeAt, PinsFrameAt, PinsVictimAt, a
<1>7. Role(at(t), loc[t]) = "none" /\ Role(a, l) = "none"
  BY <1>1 DEF FreeAt, Role, PrivateAt, LoadAt
<1>8. PinnedOK(t)'
  BY SMTT(30), <1>1, <1>3, <1>5, Names DEF Structure, PinnedOK, SameShape, PinsFrameAt, PinsVictimAt, a
<1>9. GuardsOK(t)'
  BY <1>1, <1>5 DEF Structure, GuardsOK, PinsFrameAt, a
<1>10. OwnerOK(t)'
  BY <1>1, <1>5, <1>7 DEF OwnerOK
<1>11. ASSUME NEW x \in Frames PROVE Counted(x)'
  <2>1. CASE x = f
    BY <1>2, <1>3, <1>6, <2>1, CountUp
  <2>2. CASE x # f
    BY <1>2, <1>3, <1>6, <2>2, CountKept
  <2>3. QED
    BY <2>1, <2>2
<1>12. ASSUME NEW x \in Frames PROVE Evictable(x)'
  <2>1. CASE x = f
    BY SMTT(30), <1>3, <2>1 DEF Evictable
  <2>2. CASE x # f
    BY <1>2, <1>3, <2>2, EvictableKept DEF WillFind
  <2>3. QED
    BY <2>1, <2>2
<1>13. \A x \in Frames : FrameOK(x)'
  BY <1>3 DEF Structure, FrameOK, SameShape
<1>14. QED
  BY <1>1, <1>2, <1>3, <1>4, <1>7, <1>8, <1>9, <1>10, <1>11, <1>12, <1>13, Steady DEF a

\* UnpinPage drops the pin of a call on frame f.
LEMMA PinDown ==
    ASSUME Structure, Counting, NEW t \in Threads, NEW f \in Frames, NEW label \in {"idle", "evict", "scan"},
           NEW l \in CallType, UnpinPage(t, f, label), Local(t, l), CallOK(label, l),
           \/ at(t) = "unpin" /\ loc[t].frame = f
           \/ at(t) \in {"unpin_victim", "give_up", "next"} /\ loc[t].victim = f,
           UNCHANGED <<table, free_list, guards>>, UNCHANGED <<status, disk, phase, err>>,
           label = "evict" /\ l.op \in Fetches => \A g \in guards[t] : g.page # l.page
    PROVE  Structure'
<1>1. Awake(label) = label /\ label \in Labels /\ label \notin {"wait", "touch"}
  BY DEF Awake, Labels
<1>2. Moves(t, label, l) /\ pc' \in [Threads -> Labels] /\ loc' \in [Threads -> CallType]
  BY <1>1, Go DEF Structure, UnpinPage
<1>3. \A x \in Frames : ~PinnedBy(label, l, x) /\ (PinnedBy(at(t), loc[t], x) <=> x = f)
  BY DEF PinnedBy, PinsFrameAt, PinsVictimAt
<1>4. t \in PinsOf(f) /\ frame[f].pin_count \in Nat \ {0}
  BY <1>3, SomePin DEF PinsOf
<1>5. /\ frame' \in [Frames -> FrameType]
      /\ \A x \in Frames : SameShape(x) /\ (x # f => frame'[x].pin_count = frame[x].pin_count)
      /\ frame'[f].pin_count = frame[f].pin_count - 1
  <2>1. TypeOK
    BY DEF Structure
  <2> DEFINE n == frame[f].pin_count - 1
  <2>2. frame' = [frame EXCEPT ![f].pin_count = n] /\ n \in Nat
    BY SMTT(30), <1>4 DEF UnpinPage
  <2> HIDE DEF n
  <2>3. /\ frame' \in [Frames -> FrameType]
        /\ \A x \in Frames : SameShape(x) /\ (x # f => frame'[x].pin_count = frame[x].pin_count)
        /\ frame'[f].pin_count = n
    BY <2>1, <2>2, PinCount
  <2>4. QED
    BY <2>3 DEF n
<1>6. /\ evictable' \subseteq Frames /\ evictable \subseteq evictable'
      /\ frame[f].pin_count = 1 /\ frame[f].state = "Resident" => f \in evictable'
  BY DEF UnpinPage, Candidates!Add, Structure, TypeOK
<1>7. TypeOK'
  BY <1>2, <1>5, <1>6 DEF Structure, TypeOK
<1>8. at(t)' = label /\ loc'[t] = l /\ guards'[t] = guards[t]
  BY <1>2 DEF Moves
<1>9. Role(at(t), loc[t]) = "none" /\ Role(label, l) = "none"
  BY DEF Role, PrivateAt, LoadAt
<1>10. PinnedOK(t)'
  BY <1>5, <1>8, Names DEF Structure, PinnedOK, SameShape, PinsFrameAt, PinsVictimAt
<1>11. GuardsOK(t)'
  BY <1>8 DEF Structure, GuardsOK, PinsFrameAt, FetchAt, ReclaimAt, FlushAt
<1>12. OwnerOK(t)'
  BY <1>8, <1>9 DEF OwnerOK
<1>13. ASSUME NEW x \in Frames PROVE Counted(x)'
  <2>1. CASE x = f
    BY <1>2, <1>3, <1>5, <2>1, CountDown
  <2>2. CASE x # f
    BY <1>2, <1>3, <1>5, <2>2, CountKept
  <2>3. QED
    BY <2>1, <2>2
<1>14. ASSUME NEW x \in Frames PROVE Evictable(x)'
  <2>1. CASE x = f
    BY SMTT(30), <1>4, <1>5, <1>6, <2>1 DEF Evictable, SameShape
  <2>2. CASE x # f
    BY <1>2, <1>5, <1>6, <2>2, EvictableKept DEF WillFind
  <2>3. QED
    BY <2>1, <2>2
<1>15. \A x \in Frames : FrameOK(x)'
  BY <1>4, <1>5 DEF Structure, FrameOK, SameShape
<1>16. QED
  BY <1>2, <1>5, <1>7, <1>9, <1>10, <1>11, <1>12, <1>13, <1>14, <1>15, Steady

\* A fetch pins the frame its page is mapped to.
LEMMA FetchHitKeeps ==
    ASSUME Structure, Counting, NEW t \in Threads, FetchHit(t)
    PROVE  Structure'
<1> DEFINE f == table[loc[t].page]
           label == IF frame[f].state = "Loading" THEN "asleep" ELSE IF frame[f].pin_count = 0 THEN "touch" ELSE "latch"
           l == [loc[t] EXCEPT !.frame = f]
<1>1. /\ frame' = [frame EXCEPT ![f].pin_count = @ + 1] /\ Local(t, l) /\ Goto(t, label) /\ f # None
      /\ UNCHANGED <<table, free_list, guards, evictable, status, disk, phase, err>> /\ at(t) = "lookup"
  BY DEF FetchHit, at, Awake, storage, owner
<1>2. CallOK(at(t), loc[t]) /\ GuardsOK(t) /\ loc[t] \in CallType /\ RestTyped'
  BY <1>1 DEF Structure, TypeOK, RestTyped
<1>3. loc[t].op \in Fetches /\ loc[t].page \in Pages
  BY <1>1, <1>2 DEF CallOK, FetchAt
<1>4. f \in Frames /\ frame[f].page_id = loc[t].page /\ frame[f].state \in {"Loading", "Resident"}
  BY <1>1, <1>3, Names DEF Structure, MappedOK
<1>5. l \in CallType /\ l.op = loc[t].op /\ l.page = loc[t].page /\ l.frame = f
  BY <1>2, <1>4 DEF CallType
<1>6. ASSUME NEW g \in guards[t] PROVE g.page # loc[t].page /\ g.frame # f
  <2>1. g.page # loc[t].page
    BY <1>1, <1>2, <1>3 DEF GuardsOK, FetchAt
  <2>2. frame[g.frame].page_id = g.page
    BY DEF Structure, PinnedOK
  <2>3. QED
    BY <1>4, <2>1, <2>2
<1>7. /\ label \in {"asleep", "touch", "latch"} /\ label \in Labels /\ frame[f].state \in StatesAt(Awake(label))
      /\ Awake(label) \in {"wait", "touch", "latch"}
  BY <1>4 DEF Labels, StatesAt, Awake, LoadAt
<1> HIDE DEF f, label, l
<1>8. CallOK(Awake(label), l)
  BY <1>3, <1>4, <1>5, <1>7 DEF CallOK, FetchAt, ReclaimAt, FlushAt, NeedsFrame, OnFrame, OnPage, PinsFrameAt, PinsVictimAt, DeleteHolds, Fetches, Reclaims
<1>9. at(t) \in FreeAt /\ at(t) \notin {"peek", "revalidate"} /\ frame[f].state # "Free"
  BY <1>1, <1>4 DEF FreeAt
<1>10. QED
  BY <1>1, <1>2, <1>4, <1>5, <1>6, <1>7, <1>8, <1>9, PinUp

\* FlushPage pins a Resident page, or returns.
LEMMA PinForFlushKeeps ==
    ASSUME Structure, Counting, NEW t \in Threads, PinForFlush(t)
    PROVE  Structure'
<1> DEFINE f == table[loc[t].page]
           l == [loc[t] EXCEPT !.frame = f, !.victim = f, !.peeked = loc[t].page]
<1>1. UNCHANGED <<table, free_list, guards, evictable, status, disk, phase, err>> /\ at(t) = "pin"
  BY DEF PinForFlush, at, Awake, storage, owner
<1>2. CallOK(at(t), loc[t]) /\ loc[t] \in CallType /\ RestTyped'
  BY <1>1 DEF Structure, TypeOK, RestTyped
<1>3. CASE f # None /\ frame[f].state = "Resident"
  <2>1. frame' = [frame EXCEPT ![f].pin_count = @ + 1] /\ Local(t, l) /\ Goto(t, "flush")
    BY <1>3 DEF PinForFlush
  <2>2. loc[t].op = "flush" /\ loc[t].page \in Pages
    BY <1>1, <1>2 DEF CallOK
  <2>3. f \in Frames /\ frame[f].page_id = loc[t].page
    BY <1>3, <2>2, Names DEF Structure, MappedOK
  <2>4. /\ l \in CallType /\ l.op = "flush" /\ l.page = loc[t].page /\ l.frame = f /\ l.victim = f
        /\ l.peeked = loc[t].page
    BY <1>2, <2>2, <2>3 DEF CallType
  <2> HIDE DEF f, l
  <2>5. CallOK("flush", l)
    BY <2>2, <2>3, <2>4 DEF CallOK, FetchAt, ReclaimAt, FlushAt, NeedsFrame, OnFrame, OnPage, PinsFrameAt, PinsVictimAt, DeleteHolds, Fetches, Reclaims
  <2>6. QED
    BY <1>1, <1>2, <1>3, <2>1, <2>2, <2>3, <2>4, <2>5, PinUp DEF FreeAt, Fetches, Labels, Awake
<1>4. CASE ~(f # None /\ frame[f].state = "Resident")
  <2>1. Return(t) /\ frame' = frame
    BY <1>4 DEF PinForFlush
  <2>2. QED
    BY <1>1, <1>2, <2>1, ReturnKeeps DEF FreeAt
<1>5. QED
  BY <1>3, <1>4

\* FlushAllPages skips a frame, or pins it.
LEMMA ScanKeeps ==
    ASSUME Structure, Counting, NEW t \in Threads, Scan(t)
    PROVE  Structure'
<1> DEFINE f == loc[t].frame
<1>1. UNCHANGED <<table, free_list, guards, evictable, status, disk, phase, err>> /\ at(t) = "scan" /\ pc[t] = "scan"
  BY DEF Scan, at, Awake, storage, owner
<1>2. CallOK(at(t), loc[t]) /\ loc[t] \in CallType /\ RestTyped' /\ pc \in [Threads -> Labels]
  BY <1>1 DEF Structure, TypeOK, RestTyped
<1>3. loc[t].op \in {"flushall", "shutdown"} /\ f \in Frames /\ loc[t].op \notin Fetches /\ f + 1 \in 0 .. Capacity
      /\ f + 1 \in Frames \cup {Capacity}
  BY SMTT(30), <1>1, <1>2, CapacityAssumption DEF CallOK, Scan, Frames, Fetches
<1>4. CASE frame[f].state = "Resident"
  <2> DEFINE l == [loc[t] EXCEPT !.victim = f, !.peeked = frame[f].page_id]
  <2>1. frame' = [frame EXCEPT ![f].pin_count = @ + 1] /\ Local(t, l) /\ Goto(t, "flush")
    BY <1>4 DEF Scan
  <2>2. frame[f].page_id \in Pages
    BY <1>3, <1>4 DEF Structure, FrameOK
  <2>3. l \in CallType /\ l.op = loc[t].op /\ l.frame = f /\ l.victim = f /\ l.peeked = frame[f].page_id
    BY <1>2, <1>3, <2>2 DEF CallType
  <2> HIDE DEF l
  <2>4. CallOK("flush", l)
    BY <1>3, <2>2, <2>3 DEF CallOK, FetchAt, ReclaimAt, FlushAt, NeedsFrame, OnFrame, OnPage, PinsFrameAt, PinsVictimAt, DeleteHolds, Fetches, Reclaims
  <2> HIDE DEF f
  <2>5. QED
    BY <1>1, <1>2, <1>3, <1>4, <2>1, <2>3, <2>4, PinUp DEF FreeAt, Labels, Awake
<1>5. CASE frame[f].state # "Resident"
  <2> DEFINE l == [loc[t] EXCEPT !.frame = f + 1]
  <2>1. Local(t, l) /\ UNCHANGED <<frame, pc>>
    BY <1>5 DEF Scan
  <2>2. Goto(t, "scan")
    BY <1>1, <1>2, <2>1 DEF Goto
  <2>3. l \in CallType /\ l.op = loc[t].op /\ l.frame = f + 1
    BY <1>2, <1>3 DEF CallType
  <2> HIDE DEF l
  <2>4. CallOK("scan", l)
    BY <1>3, <2>3 DEF CallOK, FetchAt, ReclaimAt, FlushAt, NeedsFrame, OnFrame, OnPage, PinsFrameAt, PinsVictimAt, DeleteHolds, Fetches, Reclaims
  <2>5. Moves(t, "scan", l) => \A x \in Frames : Evictable(x)'
    BY <1>1, <2>1, EvictableKept DEF SameShape, WillFind
  <2>6. QED
    BY <1>1, <1>2, <1>3, <2>1, <2>2, <2>3, <2>4, <2>5, Idle DEF FreeAt
<1>6. QED
  BY <1>4, <1>5

\* The pins that are dropped: of a guard or a call, of a victim, of a scanned frame.
LEMMA UnpinKeeps ==
    ASSUME Structure, Counting, NEW t \in Threads, Unpin(t) \/ GiveUp(t)
    PROVE  Structure'
<1>1. UNCHANGED <<table, free_list, guards, status, disk, phase, err>> /\ Local(t, NoCall) /\ NoCall \in CallType
  BY NoCallTyped DEF Unpin, GiveUp, storage, owner
<1>2. CallOK("idle", NoCall) /\ CallOK(at(t), loc[t])
  BY DEF CallOK, FetchAt, ReclaimAt, FlushAt, NeedsFrame, OnFrame, OnPage, PinsFrameAt, PinsVictimAt, DeleteHolds, Fetches, Reclaims, NoCall, Structure
<1>3. PICK f : /\ UnpinPage(t, f, "idle")
               /\ \/ at(t) = "unpin" /\ f = loc[t].frame
                  \/ at(t) = "give_up" /\ f = loc[t].victim
  BY DEF Unpin, GiveUp, at, Awake
<1>4. f \in Frames
  BY <1>2, <1>3 DEF CallOK, PinsFrameAt, PinsVictimAt
<1>5. QED
  BY <1>1, <1>2, <1>3, <1>4, PinDown

\* ReclaimFrame drops the pin it took on a dirty victim.
LEMMA UnpinVictimKeeps ==
    ASSUME Structure, Counting, NEW t \in Threads, UnpinVictim(t)
    PROVE  Structure'
<1> DEFINE l == [loc[t] EXCEPT !.victim = None, !.peeked = None]
           f == loc[t].victim
<1>1. /\ UNCHANGED <<table, free_list, guards, status, disk, phase, err>> /\ Local(t, l)
      /\ UnpinPage(t, f, "evict") /\ at(t) = "unpin_victim"
  BY DEF UnpinVictim, Decline, storage, owner, at, Awake
<1>2. CallOK(at(t), loc[t]) /\ GuardsOK(t) /\ loc[t] \in CallType
  BY DEF Structure, TypeOK
<1>3. l \in CallType /\ l.op = loc[t].op /\ l.page = loc[t].page
  BY <1>2 DEF CallType
<1>4. f \in Frames
  BY <1>1, <1>2 DEF CallOK, PinsVictimAt
<1> HIDE DEF l
<1>5. CallOK("evict", l)
  BY <1>1, <1>2, <1>3 DEF CallOK, FetchAt, ReclaimAt, FlushAt, NeedsFrame, OnFrame, OnPage, PinsFrameAt, PinsVictimAt, DeleteHolds, Fetches, Reclaims
<1>6. l.op \in Fetches => \A g \in guards[t] : g.page # l.page
  BY <1>1, <1>2, <1>3 DEF GuardsOK, ReclaimAt
<1> HIDE DEF f
<1>7. f = loc[t].victim
  BY DEF f
<1>8. QED
  BY <1>1, <1>3, <1>4, <1>5, <1>6, <1>7, PinDown

\* FlushAllPages drops its pin and goes on to the next frame.
LEMMA ScanNextKeeps ==
    ASSUME Structure, Counting, NEW t \in Threads, ScanNext(t)
    PROVE  Structure'
<1> DEFINE l == [loc[t] EXCEPT !.frame = loc[t].frame + 1, !.victim = None, !.peeked = None]
           f == loc[t].victim
<1>1. /\ UNCHANGED <<table, free_list, guards, status, disk, phase, err>> /\ Local(t, l)
      /\ UnpinPage(t, f, "scan") /\ at(t) = "next"
  BY DEF ScanNext, storage, owner, at, Awake
<1>2. CallOK(at(t), loc[t]) /\ GuardsOK(t) /\ loc[t] \in CallType
  BY DEF Structure, TypeOK
<1>3. /\ f \in Frames /\ loc[t].frame \in Frames /\ loc[t].op \in {"flushall", "shutdown"}
      /\ loc[t].frame + 1 \in 0 .. Capacity /\ loc[t].frame + 1 \in Frames \cup {Capacity}
  BY SMTT(30), <1>1, <1>2, CapacityAssumption DEF CallOK, OnFrame, Frames
<1>4. l \in CallType /\ l.op = loc[t].op /\ l.frame = loc[t].frame + 1
  BY <1>2, <1>3 DEF CallType
<1> HIDE DEF l
<1>5. CallOK("scan", l)
  BY <1>3, <1>4 DEF CallOK, FetchAt, ReclaimAt, FlushAt, NeedsFrame, OnFrame, OnPage, PinsFrameAt, PinsVictimAt, DeleteHolds, Fetches, Reclaims
<1> HIDE DEF f
<1>6. f = loc[t].victim
  BY DEF f
<1>7. QED
  BY <1>1, <1>3, <1>4, <1>5, <1>6, PinDown

(***************************************************************************)
(* Steps that neither take nor drop a pin.                                 *)
(***************************************************************************)

\* Such a step of a thread that goes on playing the same part.  Bytes and epochs
\* may change, and a frame that cannot be evicted may stop being a candidate.
LEMMA Calm ==
    ASSUME Structure, NEW t \in Threads, NEW label \in Labels, NEW l \in CallType, NEW a, a = Awake(label),
           Goto(t, label) \/ (\E f : NotifyAll(t, f, label)), Local(t, l) \/ (UNCHANGED loc /\ l = loc[t]), CallOK(a, l),
           frame' \in [Frames -> FrameType],
           \A f \in Frames : SameShape(f) /\ frame'[f].pin_count = frame[f].pin_count,
           UNCHANGED <<table, free_list, guards>>, RestTyped',
           \A f \in Frames : PinnedBy(a, l, f) <=> PinnedBy(at(t), loc[t], f),
           Role(a, l) = Role(at(t), loc[t]), Role(a, l) # "none" => l.frame = loc[t].frame,
           a \in PinsFrameAt => frame[l.frame].page_id = l.page /\ frame[l.frame].state \in StatesAt(a),
           a \in PinsVictimAt => frame[l.victim].page_id = l.peeked /\ frame[l.victim].state = "Resident",
           a \in PinsFrameAt \ {"unpin"} => \A g \in guards[t] : g.frame # l.frame,
           a \in FetchAt \cup ReclaimAt \cup FlushAt /\ l.op \in Fetches => \A g \in guards[t] : g.page # l.page,
           a = "unlatch" => \E g \in guards[t] : g.frame = l.frame /\ g.page = l.page,
           a \in {"load", "loaded", "abandon"} => table[l.page] = l.frame,
           a \in {"fail", "insert"} => table[l.page] # l.frame,
           at(t) \notin {"peek", "revalidate"},
           \A f \in evictable \ evictable' : frame[f].pin_count # 0 \/ frame[f].state # "Resident"
    PROVE  Structure'
<1>1. Moves(t, a, l) /\ TypeOK'
  <2>1. Moves(t, a, l) /\ pc' \in [Threads -> Labels] /\ loc' \in [Threads -> CallType]
    BY Go DEF Structure
  <2>2. QED
    BY <2>1 DEF Structure, TypeOK, RestTyped
<1>2. at(t)' = a /\ loc'[t] = l /\ guards'[t] = guards[t]
  BY <1>1 DEF Moves
<1>3. PinnedOK(t)'
  <2>1. a \in PinsFrameAt => frame'[l.frame].page_id = l.page /\ frame'[l.frame].state \in StatesAt(a)
    BY DEF CallOK, SameShape
  <2>2. a \in PinsVictimAt => frame'[l.victim].page_id = l.peeked /\ frame'[l.victim].state = "Resident"
    BY DEF CallOK, SameShape
  <2>3. PinnedOK(t) /\ \A g \in guards[t] : g.frame \in Frames
    BY Names DEF Structure
  <2>4. \A g \in guards[t] : frame'[g.frame].page_id = g.page /\ frame'[g.frame].state = "Resident"
    BY SMTT(30), <2>3 DEF PinnedOK, SameShape
  <2>5. QED
    BY <1>2, <2>1, <2>2, <2>4 DEF PinnedOK
<1>4. GuardsOK(t)'
  BY <1>2 DEF Structure, GuardsOK
<1>5. OwnerOK(t)'
  <2>1. Role(a, l) = "private" => frame'[l.frame].state = "Free"
    <3> SUFFICES ASSUME Role(at(t), loc[t]) = "private" PROVE frame'[loc[t].frame].state = "Free"
      OBVIOUS
    <3>1. loc[t].frame \in Frames /\ frame[loc[t].frame].state = "Free"
      BY Names DEF Structure, OwnerOK
    <3>2. QED
      BY <3>1 DEF SameShape
  <2>2. QED
    BY <1>2, <2>1 DEF OwnerOK
<1>6. ASSUME NEW f \in Frames PROVE Counted(f)' /\ FrameOK(f)' /\ Evictable(f)'
  <2>1. Counted(f)'
    BY <1>1, CountKept
  <2>2. FrameOK(f)'
    BY DEF Structure, FrameOK, SameShape
  <2>3. ASSUME f \in evictable \ evictable' PROVE Evictable(f)'
    BY <2>3 DEF Evictable, SameShape
  <2>4. ASSUME f \notin evictable \ evictable' PROVE Evictable(f)'
    BY <1>1, <2>4, EvictableKept DEF WillFind
  <2>5. QED
    BY <2>1, <2>2, <2>3, <2>4
<1>7. QED
  BY <1>1, <1>3, <1>4, <1>5, <1>6, Steady

\* What an unchanged frame keeps.
LEMMA SameFrames ==
    ASSUME Structure, UNCHANGED frame
    PROVE  frame' \in [Frames -> FrameType] /\ \A f \in Frames : SameShape(f) /\ frame'[f].pin_count = frame[f].pin_count
BY DEF Structure, TypeOK, SameShape

\* A waiter looks at the outcome of the load, ...
LEMMA WakeUpKeeps ==
    ASSUME Structure, NEW t \in Threads, WakeUp(t)
    PROVE  Structure'
<1> DEFINE label == CASE frame[loc[t].frame].state = "Loading" -> "asleep"
                      [] frame[loc[t].frame].state = "Failed" -> "unpin"
                      [] OTHER -> "latch"
<1>1. UNCHANGED <<frame, table, free_list, evictable, guards, loc>> /\ RestTyped' /\ at(t) = "wait" /\ Goto(t, label)
  BY DEF WakeUp, at, Awake, pool, storage, owner, Structure, TypeOK, RestTyped
<1>2. CallOK("wait", loc[t]) /\ GuardsOK(t) /\ PinnedOK(t) /\ loc[t] \in CallType
  BY <1>1 DEF Structure, TypeOK
<1>3. /\ loc[t].frame \in Frames /\ frame[loc[t].frame].page_id = loc[t].page
      /\ frame[loc[t].frame].state \in {"Loading", "Failed", "Resident"}
  BY <1>1, <1>2 DEF CallOK, PinnedOK, PinsFrameAt, StatesAt, LoadAt
<1>4. label \in {"asleep", "unpin", "latch"} /\ label \in Labels /\ frame[loc[t].frame].state \in StatesAt(Awake(label))
  BY <1>3 DEF Labels, Awake, StatesAt, LoadAt
<1> HIDE DEF label
<1> DEFINE a == Awake(label)
<1>5. a \in {"wait", "unpin", "latch"}
  BY <1>4 DEF Awake
<1>6. frame[loc[t].frame].state \in StatesAt(a)
  BY <1>4
<1>7. Goto(t, label) /\ a = Awake(label)
  BY <1>1
<1> HIDE DEF a
<1>8. CallOK(a, loc[t])
  BY <1>2, <1>5 DEF CallOK, FetchAt, ReclaimAt, FlushAt, NeedsFrame, OnFrame, OnPage, PinsFrameAt, PinsVictimAt, DeleteHolds, Fetches, Reclaims
<1>9. /\ \A f \in Frames : PinnedBy(a, loc[t], f) <=> PinnedBy(at(t), loc[t], f)
      /\ Role(a, loc[t]) = "none" /\ Role(at(t), loc[t]) = "none"
  BY <1>1, <1>5 DEF PinnedBy, PinsFrameAt, PinsVictimAt, Role, PrivateAt, LoadAt
<1>10. /\ \A g \in guards[t] : g.frame # loc[t].frame
       /\ a \notin PinsVictimAt /\ a \notin {"load", "loaded", "abandon", "fail", "insert", "unlatch"}
       /\ loc[t].op \in Fetches /\ \A g \in guards[t] : g.page # loc[t].page
  BY <1>1, <1>2, <1>5 DEF GuardsOK, PinsFrameAt, PinsVictimAt, FetchAt, CallOK
<1>11. QED
  BY <1>1, <1>2, <1>3, <1>4, <1>6, <1>7, <1>8, <1>9, <1>10, Calm, SameFrames

\* ... and a fetch that has pinned a candidate takes it out of the set.
LEMMA TouchKeeps ==
    ASSUME Structure, Counting, NEW t \in Threads, Touch(t)
    PROVE  Structure'
<1>1. /\ UNCHANGED <<frame, table, free_list, guards, loc>> /\ RestTyped' /\ at(t) = "touch" /\ Goto(t, "latch")
      /\ evictable' = evictable \ {loc[t].frame}
  BY DEF Touch, Candidates!Remove, at, Awake, storage, owner, Structure, TypeOK, RestTyped
<1>2. CallOK("touch", loc[t]) /\ GuardsOK(t) /\ PinnedOK(t) /\ loc[t] \in CallType
  BY <1>1 DEF Structure, TypeOK
<1>3. /\ loc[t].frame \in Frames /\ frame[loc[t].frame].page_id = loc[t].page
      /\ frame[loc[t].frame].state \in StatesAt("latch")
  BY <1>1, <1>2 DEF CallOK, PinnedOK, PinsFrameAt, StatesAt, LoadAt
<1>4. "latch" \in Labels /\ "latch" = Awake("latch")
  BY DEF Labels, Awake
<1>5. CallOK("latch", loc[t])
  BY <1>2 DEF CallOK, FetchAt, ReclaimAt, FlushAt, NeedsFrame, OnFrame, OnPage, PinsFrameAt, PinsVictimAt, DeleteHolds, Fetches, Reclaims
<1>6. /\ \A f \in Frames : PinnedBy("latch", loc[t], f) <=> PinnedBy(at(t), loc[t], f)
      /\ Role("latch", loc[t]) = "none" /\ Role(at(t), loc[t]) = "none"
  BY <1>1 DEF PinnedBy, PinsFrameAt, PinsVictimAt, Role, PrivateAt, LoadAt
<1>7. /\ \A g \in guards[t] : g.frame # loc[t].frame
      /\ "latch" \notin PinsVictimAt /\ "latch" \notin FetchAt \cup ReclaimAt \cup FlushAt
  BY <1>1, <1>2 DEF GuardsOK, PinsFrameAt, PinsVictimAt, FetchAt, ReclaimAt, FlushAt
<1>8. \A f \in evictable \ evictable' : frame[f].pin_count # 0
  <2>1. t \in PinsOf(loc[t].frame)
    BY <1>1 DEF PinsOf, PinnedBy, PinsFrameAt
  <2>2. QED
    BY <1>1, <1>3, <2>1, SomePin
<1>9. QED
  BY <1>1, <1>2, <1>3, <1>4, <1>5, <1>6, <1>7, <1>8, Calm, SameFrames

\* The loader reads its page, or fails to.
LEMMA LoadKeeps ==
    ASSUME Structure, NEW t \in Threads, Load(t) \/ LoadFails(t)
    PROVE  Structure'
<1>1. UNCHANGED <<table, free_list, evictable, guards, loc>> /\ RestTyped' /\ at(t) = "load"
  BY DEF Load, LoadFails, pool, at, Awake, storage, owner, Structure, TypeOK, RestTyped
<1>2. CallOK("load", loc[t]) /\ GuardsOK(t) /\ PinnedOK(t) /\ OwnerOK(t) /\ loc[t] \in CallType
  BY <1>1 DEF Structure, TypeOK
<1>3. PICK a \in {"loaded", "abandon"} : Goto(t, a)
  BY DEF Load, LoadFails
<1>4. /\ loc[t].frame \in Frames /\ frame[loc[t].frame].page_id = loc[t].page /\ loc[t].page \in Pages
      /\ frame[loc[t].frame].state \in StatesAt(a) /\ table[loc[t].page] = loc[t].frame
  BY <1>1, <1>2 DEF CallOK, PinnedOK, PinsFrameAt, StatesAt, LoadAt, OwnerOK, FetchAt
<1>5. a \in Labels /\ a = Awake(a)
  BY DEF Labels, Awake
<1>6. CallOK(a, loc[t])
  BY <1>2 DEF CallOK, FetchAt, ReclaimAt, FlushAt, NeedsFrame, OnFrame, OnPage, PinsFrameAt, PinsVictimAt, DeleteHolds, Fetches, Reclaims
<1>7. /\ \A f \in Frames : PinnedBy(a, loc[t], f) <=> PinnedBy(at(t), loc[t], f)
      /\ Role(a, loc[t]) = "load" /\ Role(at(t), loc[t]) = "load"
  BY <1>1 DEF PinnedBy, PinsFrameAt, PinsVictimAt, Role, PrivateAt, LoadAt
<1>8. /\ \A g \in guards[t] : g.frame # loc[t].frame
      /\ a \notin PinsVictimAt /\ \A g \in guards[t] : g.page # loc[t].page
  BY <1>1, <1>2 DEF GuardsOK, PinsFrameAt, PinsVictimAt, FetchAt, CallOK
<1>9. frame' \in [Frames -> FrameType] /\ \A f \in Frames : SameShape(f) /\ frame'[f].pin_count = frame[f].pin_count
  <2>1. CASE LoadFails(t)
    BY <2>1, SameFrames DEF LoadFails, pool
  <2>2. CASE Load(t)
    <3> DEFINE d == disk[loc[t].page]
    <3>1. frame' = [frame EXCEPT ![loc[t].frame].data = d] /\ d \in Content /\ frame \in [Frames -> FrameType]
      BY <1>4, <2>2 DEF Load, Structure, TypeOK
    <3> HIDE DEF d
    <3>2. QED
      BY SMTT(30), <1>4, <3>1 DEF SameShape, FrameType
  <2>3. QED
    BY <2>1, <2>2
<1>10. QED
  BY <1>1, <1>2, <1>3, <1>4, <1>5, <1>6, <1>7, <1>8, <1>9, Calm

\* A step of FlushFrame, or out of it, changes at most the sampled epoch of the
\* call and the bytes and epochs of frames.
LEMMA FlushMoves ==
    ASSUME Structure, NEW t \in Threads, NEW b, NEW l \in CallType,
           Goto(t, b), Local(t, l) \/ (UNCHANGED loc /\ l = loc[t]),
           l.op = loc[t].op /\ l.page = loc[t].page /\ l.frame = loc[t].frame,
           l.victim = loc[t].victim /\ l.peeked = loc[t].peeked,
           frame' \in [Frames -> FrameType],
           \A f \in Frames : SameShape(f) /\ frame'[f].pin_count = frame[f].pin_count,
           UNCHANGED <<table, free_list, guards, evictable>>, RestTyped',
           \/ at(t) \in FlushAt /\ b \in {"sample", "write", "mark"}
           \/ at(t) \in FlushAt /\ loc[t].op \in Reclaims /\ b \in {"recheck", "give_up"}
           \/ at(t) \in FlushAt /\ loc[t].op = "flush" /\ b = "unpin"
           \/ at(t) \in FlushAt /\ loc[t].op \notin Reclaims \cup {"flush"} /\ b = "next"
           \/ at(t) = "recheck" /\ b = "unpin_victim"
    PROVE  Structure'
<1>1. CallOK(at(t), loc[t]) /\ GuardsOK(t) /\ PinnedOK(t)
  BY DEF Structure
<1>2. at(t) \in FlushAt \cup {"recheck"} /\ b \in {"sample", "write", "mark", "recheck", "give_up", "unpin", "next", "unpin_victim"}
  BY DEF FlushAt
<1>3. b \in Labels /\ b = Awake(b)
  BY <1>2 DEF Labels, Awake
<1>4. at(t) \in PinsVictimAt /\ at(t) \notin PinsFrameAt \cup {"peek", "revalidate"} /\ (b \in PinsVictimAt <=> b # "unpin")
  BY <1>2 DEF FlushAt, PinsFrameAt, PinsVictimAt
<1>5. CallOK(b, l)
  BY <1>1, <1>2, <1>4 DEF CallOK, FetchAt, ReclaimAt, FlushAt, NeedsFrame, OnFrame, OnPage, PinsFrameAt, PinsVictimAt, DeleteHolds, Fetches, Reclaims
<1>6. b = "unpin" => loc[t].frame = loc[t].victim /\ loc[t].page = loc[t].peeked
  BY <1>1, <1>2 DEF CallOK, FlushAt, NeedsFrame, OnFrame, OnPage, Fetches, Reclaims
<1>7. \A f \in Frames : PinnedBy(b, l, f) <=> PinnedBy(at(t), loc[t], f)
  BY <1>2, <1>4, <1>6 DEF PinnedBy, PinsFrameAt
<1>8. Role(b, l) = "none" /\ Role(at(t), loc[t]) = "none"
  BY <1>2 DEF FlushAt, Role, PrivateAt, LoadAt
<1>9. frame[loc[t].victim].page_id = loc[t].peeked /\ frame[loc[t].victim].state = "Resident"
  BY <1>1, <1>4 DEF PinnedOK
<1>10. b \in PinsFrameAt => frame[l.frame].page_id = l.page /\ frame[l.frame].state \in StatesAt(b) /\ b = "unpin"
  BY <1>2, <1>6, <1>9 DEF StatesAt, LoadAt, PinsFrameAt
<1>11. l.op \in Fetches => \A g \in guards[t] : g.page # l.page
  BY <1>1, <1>2 DEF GuardsOK, ReclaimAt
<1>12. b \notin {"load", "loaded", "abandon", "fail", "insert", "unlatch"}
  BY <1>2
<1>13. QED
  BY <1>3, <1>4, <1>5, <1>7, <1>8, <1>9, <1>10, <1>11, <1>12, Calm

\* Where FlushFrame returns to.
LEMMA Returning ==
    ASSUME NEW t \in Threads, NEW ok \in BOOLEAN, FlushReturns(t, ok)
    PROVE  \E b : /\ Goto(t, b)
                  /\ \/ loc[t].op \in Reclaims /\ b \in {"recheck", "give_up"}
                     \/ loc[t].op = "flush" /\ b = "unpin"
                     \/ loc[t].op \notin Reclaims \cup {"flush"} /\ b = "next"
<1>1. CASE loc[t].op \in Reclaims
  BY <1>1 DEF FlushReturns
<1>2. CASE loc[t].op = "flush"
  BY <1>2 DEF FlushReturns, Reclaims
<1>3. CASE loc[t].op \notin Reclaims \cup {"flush"}
  BY <1>3 DEF FlushReturns
<1>4. QED
  BY <1>1, <1>2, <1>3

\* The steps of FlushFrame before its write, and a reclaimer that has lost its victim.
LEMMA FlushKeeps ==
    ASSUME Structure, NEW t \in Threads,
           FlushCheck(t) \/ FlushSample(t) \/ FlushWrite(t) \/ (Recheck(t) /\ Goto(t, "unpin_victim") /\ UNCHANGED <<frame, table, loc>>)
    PROVE  Structure'
<1>1. /\ UNCHANGED <<frame, table, free_list, evictable, guards>> /\ at(t) \in {"flush", "sample", "write", "recheck"}
      /\ UNCHANGED <<status, phase, err>>
  BY DEF FlushCheck, FlushSample, FlushWrite, Recheck, at, Awake, pool, storage, owner
<1>2. loc[t] \in CallType /\ CallOK(at(t), loc[t]) /\ frame \in [Frames -> FrameType]
  BY DEF Structure, TypeOK
<1>3. loc[t].victim \in Frames /\ loc[t].peeked \in Pages
  BY <1>1, <1>2 DEF CallOK, PinsVictimAt
<1>4. RestTyped'
  <2>1. disk' \in [Pages -> Content]
    BY <1>2, <1>3 DEF FlushCheck, FlushSample, FlushWrite, Recheck, storage, Structure, TypeOK, FrameType
  <2>2. QED
    BY <1>1, <2>1 DEF Structure, TypeOK, RestTyped
<1>5. CASE FlushSample(t)
  <2> DEFINE e == frame[loc[t].victim].dirty_epoch
             l == [loc[t] EXCEPT !.epoch = e]
  <2>1. /\ Local(t, l) /\ Goto(t, "write") /\ l \in CallType /\ l.op = loc[t].op /\ l.page = loc[t].page
        /\ l.frame = loc[t].frame /\ l.victim = loc[t].victim /\ l.peeked = loc[t].peeked
    <3>1. e \in Nat
      BY <1>2, <1>3 DEF FrameType
    <3> HIDE DEF e
    <3>2. l \in CallType /\ l.op = loc[t].op /\ l.page = loc[t].page
          /\ l.frame = loc[t].frame /\ l.victim = loc[t].victim /\ l.peeked = loc[t].peeked
      BY <1>2, <3>1 DEF CallType
    <3>3. QED
      BY <1>5, <3>2 DEF FlushSample, e
  <2>2. at(t) = "sample"
    BY <1>5 DEF FlushSample, at, Awake
  <2> HIDE DEF l
  <2>3. QED
    BY <1>1, <1>4, <2>1, <2>2, FlushMoves, SameFrames DEF FlushAt
<1>6. CASE ~FlushSample(t)
  <2>1. UNCHANGED loc
    BY <1>6 DEF FlushCheck, FlushWrite, Recheck
  <2>2. PICK b : /\ Goto(t, b)
                 /\ \/ at(t) \in FlushAt /\ b \in {"sample", "write", "mark"}
                    \/ at(t) \in FlushAt /\ loc[t].op \in Reclaims /\ b \in {"recheck", "give_up"}
                    \/ at(t) \in FlushAt /\ loc[t].op = "flush" /\ b = "unpin"
                    \/ at(t) \in FlushAt /\ loc[t].op \notin Reclaims \cup {"flush"} /\ b = "next"
                    \/ at(t) = "recheck" /\ b = "unpin_victim"
    <3>1. CASE FlushCheck(t) /\ IsDirty(loc[t].victim)
      BY <3>1 DEF FlushCheck, FlushAt, at, Awake
    <3>2. CASE FlushCheck(t) /\ ~IsDirty(loc[t].victim)
      <4>1. FlushReturns(t, TRUE) /\ at(t) \in FlushAt
        BY <3>2 DEF FlushCheck, FlushAt, at, Awake
      <4>2. QED
        BY <4>1, Returning
    <3>3. CASE FlushWrite(t)
      BY <3>3 DEF FlushWrite, FlushAt, at, Awake
    <3>4. CASE Recheck(t) /\ Goto(t, "unpin_victim")
      BY <3>4 DEF Recheck, at, Awake
    <3>5. QED
      BY <1>6, <3>1, <3>2, <3>3, <3>4
  <2>3. QED
    BY <1>1, <1>2, <1>4, <2>1, <2>2, FlushMoves, SameFrames
<1>7. QED
  BY <1>5, <1>6

\* FlushFrame marks what it has written as flushed, or fails.
LEMMA FlushDoneKeeps ==
    ASSUME Structure, NEW t \in Threads, FlushWriteFails(t) \/ FlushMark(t)
    PROVE  Structure'
<1> DEFINE l == [loc[t] EXCEPT !.epoch = 0]
<1>1. UNCHANGED <<table, free_list, evictable, guards>> /\ at(t) \in {"write", "mark"} /\ RestTyped' /\ Local(t, l)
  BY DEF FlushWriteFails, FlushMark, at, Awake, pool, storage, owner, RestTyped, Structure, TypeOK
<1>2. loc[t] \in CallType /\ CallOK(at(t), loc[t]) /\ frame \in [Frames -> FrameType]
  BY DEF Structure, TypeOK
<1>3. loc[t].victim \in Frames /\ loc[t].epoch \in Nat
  BY <1>1, <1>2 DEF CallOK, PinsVictimAt, CallType
<1>4. /\ l \in CallType /\ l.op = loc[t].op /\ l.page = loc[t].page
      /\ l.frame = loc[t].frame /\ l.victim = loc[t].victim /\ l.peeked = loc[t].peeked
  BY <1>2 DEF CallType
<1>5. PICK ok \in BOOLEAN : FlushReturns(t, ok)
  BY DEF FlushWriteFails, FlushMark
<1>6. frame' \in [Frames -> FrameType] /\ \A f \in Frames : SameShape(f) /\ frame'[f].pin_count = frame[f].pin_count
  <2>1. CASE FlushWriteFails(t)
    BY <2>1, SameFrames DEF FlushWriteFails, pool
  <2>2. CASE FlushMark(t)
    <3> DEFINE v == loc[t].victim
               n == IF frame[v].flushed_epoch < loc[t].epoch THEN loc[t].epoch ELSE frame[v].flushed_epoch
    <3>1. n \in Nat /\ frame' = [frame EXCEPT ![v].flushed_epoch = n]
      BY <1>2, <1>3, <2>2 DEF FlushMark, FrameType
    <3> HIDE DEF n
    <3>2. QED
      BY SMTT(30), <1>2, <1>3, <3>1 DEF SameShape, FrameType
  <2>3. QED
    BY <2>1, <2>2
<1> HIDE DEF l
<1>7. at(t) \in FlushAt
  BY <1>1 DEF FlushAt
<1>8. QED
  BY <1>1, <1>4, <1>5, <1>6, <1>7, Returning, FlushMoves

(***************************************************************************)
(* A pin passes from a call to a guard, and back.                          *)
(***************************************************************************)

\* Counting such a pin: the sets exchange a member.
LEMMA CountTraded ==
    ASSUME Structure, Counting, NEW t \in Threads, NEW f \in Frames, frame'[f].pin_count = frame[f].pin_count,
           \/ /\ t \in PinsOf(f) /\ PinsOf(f)' = PinsOf(f) \ {t}
              /\ t \notin GuardPins(f) /\ GuardPins(f)' = GuardPins(f) \cup {t}
           \/ /\ t \notin PinsOf(f) /\ PinsOf(f)' = PinsOf(f) \cup {t}
              /\ t \in GuardPins(f) /\ GuardPins(f)' = GuardPins(f) \ {t}
           \/ PinsOf(f)' = PinsOf(f) /\ GuardPins(f)' = GuardPins(f)
    PROVE  Counted(f)'
<1>1. /\ IsFiniteSet(PinsOf(f)) /\ IsFiniteSet(GuardPins(f))
      /\ frame[f].pin_count = Cardinality(PinsOf(f)) + Cardinality(GuardPins(f))
  BY DEF Structure, Counted
<1> HIDE DEF PinsOf, GuardPins
<1>2. Cardinality(PinsOf(f)) \in Nat /\ Cardinality(GuardPins(f)) \in Nat
  BY <1>1 DEF Counting
<1>3. /\ IsFiniteSet(PinsOf(f)') /\ IsFiniteSet(GuardPins(f)')
      /\ Cardinality(PinsOf(f)') + Cardinality(GuardPins(f)') = Cardinality(PinsOf(f)) + Cardinality(GuardPins(f))
  <2>1. CASE t \in PinsOf(f) /\ PinsOf(f)' = PinsOf(f) \ {t} /\ t \notin GuardPins(f) /\ GuardPins(f)' = GuardPins(f) \cup {t}
    <3>1. IsFiniteSet(PinsOf(f) \ {t}) /\ Cardinality(PinsOf(f) \ {t}) = Cardinality(PinsOf(f)) - 1
      BY <1>1, <2>1 DEF Counting
    <3>2. IsFiniteSet(GuardPins(f) \cup {t}) /\ Cardinality(GuardPins(f) \cup {t}) = Cardinality(GuardPins(f)) + 1
      BY <1>1, <2>1 DEF Counting
    <3>3. QED
      BY SMTT(30), <1>2, <2>1, <3>1, <3>2
  <2>2. CASE t \notin PinsOf(f) /\ PinsOf(f)' = PinsOf(f) \cup {t} /\ t \in GuardPins(f) /\ GuardPins(f)' = GuardPins(f) \ {t}
    <3>1. IsFiniteSet(PinsOf(f) \cup {t}) /\ Cardinality(PinsOf(f) \cup {t}) = Cardinality(PinsOf(f)) + 1
      BY <1>1, <2>2 DEF Counting
    <3>2. IsFiniteSet(GuardPins(f) \ {t}) /\ Cardinality(GuardPins(f) \ {t}) = Cardinality(GuardPins(f)) - 1
      BY <1>1, <2>2 DEF Counting
    <3>3. QED
      BY SMTT(30), <1>2, <2>2, <3>1, <3>2
  <2>3. CASE PinsOf(f)' = PinsOf(f) /\ GuardPins(f)' = GuardPins(f)
    BY <1>1, <2>3
  <2>4. QED
    BY <2>1, <2>2, <2>3
<1>4. QED
  BY <1>1, <1>3 DEF Counted

\* A step that hands a pin over, and leaves the frames alone.
LEMMA Trade ==
    ASSUME Structure, Counting, NEW t \in Threads, NEW a \in {"idle", "unpin"}, NEW l \in CallType, NEW f \in Frames,
           Goto(t, a), Local(t, l) \/ (UNCHANGED loc /\ l = loc[t]), CallOK(a, l),
           UNCHANGED <<frame, table, free_list, evictable, status, disk, phase, err>>,
           guards' \in [Threads -> SUBSET GuardType], \A u \in Threads \ {t} : guards'[u] = guards[u],
           \A g, h \in guards'[t] : g.frame = h.frame => g = h,
           \A x \in Frames \ {f} : /\ PinnedBy(a, l, x) <=> PinnedBy(at(t), loc[t], x)
                                   /\ (\E g \in guards'[t] : g.frame = x) <=> (\E g \in guards[t] : g.frame = x),
           \/ /\ PinnedBy(at(t), loc[t], f) /\ ~PinnedBy(a, l, f)
              /\ (\A g \in guards[t] : g.frame # f) /\ (\E g \in guards'[t] : g.frame = f)
           \/ /\ ~PinnedBy(at(t), loc[t], f) /\ PinnedBy(a, l, f)
              /\ (\E g \in guards[t] : g.frame = f) /\ (\A g \in guards'[t] : g.frame # f),
           a = "unpin" => frame[l.frame].page_id = l.page /\ frame[l.frame].state = "Resident",
           \A g \in guards'[t] : frame[g.frame].page_id = g.page /\ frame[g.frame].state = "Resident",
           at(t) \in {"latch", "idle", "unlatch"}
    PROVE  Structure'
<1>1. a \in Labels /\ Awake(a) = a
  BY DEF Labels, Awake
<1>2. Moves(t, a, l) /\ TypeOK'
  <2>1. Moves(t, a, l) /\ pc' \in [Threads -> Labels] /\ loc' \in [Threads -> CallType]
    BY SMTT(30), <1>1, Go DEF Structure
  <2>2. QED
    BY <2>1 DEF Structure, TypeOK
<1>3. at(t)' = a /\ loc'[t] = l
  BY <1>2 DEF Moves
<1>4. PinnedOK(t)'
  BY <1>3 DEF PinnedOK, StatesAt, LoadAt, PinsFrameAt, PinsVictimAt
<1>5. GuardsOK(t)'
  BY <1>3 DEF GuardsOK, PinsFrameAt, FetchAt, ReclaimAt, FlushAt
<1>6. Role(a, l) = "none" /\ Role(at(t), loc[t]) = "none"
  BY DEF Role, PrivateAt, LoadAt
<1>7. OwnerOK(t)'
  BY <1>3, <1>6 DEF OwnerOK
<1>8. ASSUME NEW x \in Frames PROVE Counted(x)'
  <2>1. PinsOf(x)' = IF PinnedBy(a, l, x) THEN PinsOf(x) \cup {t} ELSE PinsOf(x) \ {t}
    BY <1>2, PinsMove
  <2>2. GuardPins(x)' = IF \E g \in guards'[t] : g.frame = x THEN GuardPins(x) \cup {t} ELSE GuardPins(x) \ {t}
    BY SMTT(30) DEF GuardPins
  <2>3. /\ t \in PinsOf(x) <=> PinnedBy(at(t), loc[t], x)
        /\ t \in GuardPins(x) <=> \E g \in guards[t] : g.frame = x
    BY DEF PinsOf, GuardPins
  <2> HIDE DEF PinsOf, GuardPins
  <2>4. CASE x = f
    <3>1. CASE PinnedBy(a, l, f)
      BY <2>1, <2>2, <2>3, <2>4, <3>1, CountTraded
    <3>2. CASE ~PinnedBy(a, l, f)
      BY <2>1, <2>2, <2>3, <2>4, <3>2, CountTraded
    <3>3. QED
      BY <3>1, <3>2
  <2>5. CASE x # f
    <3>1. /\ t \in PinsOf(x) <=> PinnedBy(a, l, x)
          /\ t \in GuardPins(x) <=> \E g \in guards'[t] : g.frame = x
      BY <2>3, <2>5
    <3>2. PinsOf(x)' = PinsOf(x)
      BY SMTT(30), <2>1, <3>1
    <3>3. GuardPins(x)' = GuardPins(x)
      BY SMTT(30), <2>2, <3>1
    <3>4. QED
      BY <3>2, <3>3, CountTraded
  <2>6. QED
    BY <2>4, <2>5
<1>9. ASSUME NEW x \in Frames PROVE SameShape(x) /\ FrameOK(x)' /\ Evictable(x)'
  <2>1. SameShape(x)
    BY DEF SameShape
  <2>2. FrameOK(x)'
    BY DEF Structure, FrameOK
  <2>3. Evictable(x)'
    BY <1>2, <2>1, EvictableKept DEF WillFind
  <2>4. QED
    BY <2>1, <2>2, <2>3
<1>10. QED
  BY <1>2, <1>4, <1>5, <1>6, <1>7, <1>8, <1>9, Steady

\* A latched page is its session's, by a guard.
LEMMA LatchKeeps ==
    ASSUME Structure, Counting, NEW t \in Threads, Latch(t)
    PROVE  Structure'
<1>1. PICK mode \in {"read", "write"} :
          guards' = [guards EXCEPT ![t] = @ \cup {[page |-> loc[t].page, frame |-> loc[t].frame, mode |-> mode]}]
  BY DEF Latch
<1> DEFINE f == loc[t].frame
           new == [page |-> loc[t].page, frame |-> f, mode |-> mode]
<1>2. /\ UNCHANGED <<frame, table, free_list, evictable, status, disk, phase, err>>
      /\ Goto(t, "idle") /\ Local(t, NoCall) /\ NoCall \in CallType /\ at(t) = "latch"
  BY NoCallTyped DEF Latch, Return, pool, storage, owner, at, Awake
<1>3. CallOK("latch", loc[t]) /\ GuardsOK(t) /\ PinnedOK(t) /\ guards \in [Threads -> SUBSET GuardType]
  BY <1>2 DEF Structure, TypeOK
<1>4. f \in Frames /\ loc[t].page \in Pages /\ \A g \in guards[t] : g.frame # f
  BY <1>2, <1>3 DEF CallOK, GuardsOK, PinsFrameAt
<1>5. frame[f].page_id = loc[t].page /\ frame[f].state = "Resident"
  BY <1>2, <1>3 DEF PinnedOK, PinsFrameAt, StatesAt, LoadAt
<1>6. new \in GuardType /\ new.frame = f /\ new.page = loc[t].page
  BY <1>4 DEF GuardType
<1>7. guards' = [guards EXCEPT ![t] = @ \cup {new}]
  BY <1>1
<1> HIDE DEF new, f
<1>8. /\ guards' \in [Threads -> SUBSET GuardType] /\ guards'[t] = guards[t] \cup {new}
      /\ \A u \in Threads \ {t} : guards'[u] = guards[u]
  BY <1>3, <1>6, <1>7
<1>9. \A g, h \in guards'[t] : g.frame = h.frame => g = h
  BY <1>3, <1>4, <1>6, <1>8 DEF GuardsOK
<1>10. \A g \in guards'[t] : frame[g.frame].page_id = g.page /\ frame[g.frame].state = "Resident"
  BY <1>3, <1>5, <1>6, <1>8 DEF PinnedOK
<1>11. \A x \in Frames : ~PinnedBy("idle", NoCall, x) /\ (PinnedBy(at(t), loc[t], x) <=> x = f)
  BY <1>2 DEF PinnedBy, PinsFrameAt, PinsVictimAt, f
<1>12. CallOK("idle", NoCall)
  BY DEF CallOK, FetchAt, ReclaimAt, FlushAt, NeedsFrame, OnFrame, OnPage, PinsFrameAt, PinsVictimAt, DeleteHolds, Fetches, Reclaims, NoCall
<1>13. QED
  BY SMTT(30), <1>2, <1>4, <1>6, <1>8, <1>9, <1>10, <1>11, <1>12, Trade

\* A read guard is dropped: the pin is the call's again.
LEMMA DropReadKeeps ==
    ASSUME Structure, Counting, NEW t \in Threads, NEW g \in guards[t], DropRead(t, g)
    PROVE  Structure'
<1> DEFINE l == [NoCall EXCEPT !.op = "drop", !.page = g.page, !.frame = g.frame]
<1>1. /\ UNCHANGED <<frame, table, free_list, evictable, status, disk, phase, err>>
      /\ Goto(t, "unpin") /\ Local(t, l) /\ at(t) = "idle"
      /\ guards' = [guards EXCEPT ![t] = @ \ {g}]
  BY DEF DropRead, pool, storage, owner, at, Awake
<1>2. GuardsOK(t) /\ PinnedOK(t) /\ guards \in [Threads -> SUBSET GuardType] /\ g \in GuardType
  BY DEF Structure, TypeOK
<1>3. g.frame \in Frames /\ g.page \in Pages
  BY <1>2 DEF GuardType
<1>4. l \in CallType /\ l.op = "drop" /\ l.page = g.page /\ l.frame = g.frame /\ l.victim = None
  BY <1>3 DEF CallType, NoCall
<1> HIDE DEF l
<1>5. /\ guards' \in [Threads -> SUBSET GuardType] /\ guards'[t] = guards[t] \ {g}
      /\ \A u \in Threads \ {t} : guards'[u] = guards[u]
  BY <1>1, <1>2
<1>6. /\ \A h, k \in guards'[t] : h.frame = k.frame => h = k
      /\ \A h \in guards'[t] : h.frame # g.frame
      /\ \A h \in guards'[t] : frame[h.frame].page_id = h.page /\ frame[h.frame].state = "Resident"
      /\ frame[g.frame].page_id = g.page /\ frame[g.frame].state = "Resident"
  BY <1>2, <1>5 DEF GuardsOK, PinnedOK
<1>7. \A x \in Frames : ~PinnedBy(at(t), loc[t], x) /\ (PinnedBy("unpin", l, x) <=> x = g.frame)
  BY <1>1, <1>4 DEF PinnedBy, PinsFrameAt, PinsVictimAt
<1>8. CallOK("unpin", l)
  BY <1>3, <1>4 DEF CallOK, FetchAt, ReclaimAt, FlushAt, NeedsFrame, OnFrame, OnPage, PinsFrameAt, PinsVictimAt, DeleteHolds, Fetches, Reclaims
<1>9. QED
  BY SMTT(30), <1>1, <1>3, <1>4, <1>5, <1>6, <1>7, <1>8, Trade

\* A write guard is dropped, after its latch.
LEMMA UnlatchKeeps ==
    ASSUME Structure, Counting, NEW t \in Threads, Unlatch(t)
    PROVE  Structure'
<1> DEFINE f == loc[t].frame
<1>1. /\ UNCHANGED <<frame, table, free_list, evictable, status, disk, phase, err, loc>>
      /\ Goto(t, "unpin") /\ at(t) = "unlatch"
      /\ guards' = [guards EXCEPT ![t] = {g \in guards[t] : g.frame # f}]
  BY DEF Unlatch, pool, storage, owner, at, Awake
<1>2. /\ CallOK("unlatch", loc[t]) /\ GuardsOK(t) /\ PinnedOK(t) /\ guards \in [Threads -> SUBSET GuardType]
      /\ loc[t] \in CallType
  BY <1>1 DEF Structure, TypeOK
<1>3. f \in Frames /\ \E g \in guards[t] : g.frame = f /\ g.page = loc[t].page
  BY <1>1, <1>2 DEF CallOK, GuardsOK
<1>4. /\ guards' \in [Threads -> SUBSET GuardType] /\ guards'[t] = {g \in guards[t] : g.frame # f}
      /\ \A u \in Threads \ {t} : guards'[u] = guards[u]
  BY <1>1, <1>2
<1>5. /\ \A h, k \in guards'[t] : h.frame = k.frame => h = k
      /\ \A h \in guards'[t] : frame[h.frame].page_id = h.page /\ frame[h.frame].state = "Resident"
      /\ frame[f].page_id = loc[t].page /\ frame[f].state = "Resident"
  BY <1>2, <1>3, <1>4 DEF GuardsOK, PinnedOK
<1>6. \A x \in Frames : ~PinnedBy(at(t), loc[t], x) /\ (PinnedBy("unpin", loc[t], x) <=> x = f)
  BY <1>1 DEF PinnedBy, PinsFrameAt, PinsVictimAt
<1>7. CallOK("unpin", loc[t])
  BY <1>2 DEF CallOK, FetchAt, ReclaimAt, FlushAt, NeedsFrame, OnFrame, OnPage, PinsFrameAt, PinsVictimAt, DeleteHolds, Fetches, Reclaims
<1>8. \A x \in Frames \ {f} : (\E g \in guards'[t] : g.frame = x) <=> (\E g \in guards[t] : g.frame = x)
  BY <1>4
<1>9. \A g \in guards'[t] : g.frame # f
  BY <1>4
<1> HIDE DEF f
<1>10. \A x \in Frames \ {f} : /\ PinnedBy("unpin", loc[t], x) <=> PinnedBy(at(t), loc[t], x)
                               /\ (\E g \in guards'[t] : g.frame = x) <=> (\E g \in guards[t] : g.frame = x)
  BY <1>6, <1>8
<1>11. /\ ~PinnedBy(at(t), loc[t], f) /\ PinnedBy("unpin", loc[t], f)
       /\ (\E g \in guards[t] : g.frame = f) /\ (\A g \in guards'[t] : g.frame # f)
  BY <1>3, <1>6, <1>9
<1>12. frame[loc[t].frame].page_id = loc[t].page /\ frame[loc[t].frame].state = "Resident"
  BY <1>5 DEF f
<1>13. QED
  BY SMTT(30), <1>1, <1>2, <1>3, <1>4, <1>5, <1>7, <1>10, <1>11, <1>12, Trade

\* The holder of a write guard has changed its page, and bumps the epoch.
LEMMA DropWriteKeeps ==
    ASSUME Structure, NEW t \in Threads, NEW g \in guards[t], DropWrite(t, g)
    PROVE  Structure'
<1> DEFINE l == [NoCall EXCEPT !.op = "drop", !.page = g.page, !.frame = g.frame]
<1>1. /\ UNCHANGED <<table, free_list, evictable, status, phase, err, guards>>
      /\ Goto(t, "unlatch") /\ Local(t, l) /\ at(t) = "idle"
  BY DEF DropWrite, owner, at, Awake
<1>2. g \in GuardType
  BY DEF Structure, TypeOK
<1>3. g.frame \in Frames /\ g.page \in Pages
  BY <1>2 DEF GuardType
<1>4. l \in CallType /\ l.op = "drop" /\ l.page = g.page /\ l.frame = g.frame /\ l.victim = None
  BY <1>3 DEF CallType, NoCall
<1> HIDE DEF l
<1>5. CallOK("unlatch", l)
  BY <1>3, <1>4 DEF CallOK, FetchAt, ReclaimAt, FlushAt, NeedsFrame, OnFrame, OnPage, PinsFrameAt, PinsVictimAt, DeleteHolds, Fetches, Reclaims
<1>6. frame' \in [Frames -> FrameType] /\ \A f \in Frames : SameShape(f) /\ frame'[f].pin_count = frame[f].pin_count
  <2>1. frame \in [Frames -> FrameType]
    BY DEF Structure, TypeOK
  <2>2. ASSUME NEW f \in Frames
        PROVE  frame'[f] \in FrameType /\ SameShape(f) /\ frame'[f].pin_count = frame[f].pin_count
    <3>1. CASE f = g.frame
      <4> DEFINE n == frame[f].dirty_epoch + 1
      <4>1. frame'[f] = [frame[f] EXCEPT !.dirty_epoch = n, !.data = "latest"] /\ n \in Nat /\ frame[f] \in FrameType
        <5>1. frame'[f] = [frame[f] EXCEPT !.dirty_epoch = n, !.data = "latest"]
          BY <3>1 DEF DropWrite
        <5>2. n \in Nat /\ frame[f] \in FrameType
          BY SMTT(30), <2>1 DEF FrameType
        <5>3. QED
          BY <5>1, <5>2
      <4> HIDE DEF n
      <4>2. QED
        BY <4>1 DEF FrameType, SameShape, Content
    <3>2. CASE f # g.frame
      <4>1. frame'[f] = [frame[f] EXCEPT !.data = "stale"] \/ frame'[f] = frame[f]
        BY <3>2 DEF DropWrite
      <4>2. QED
        BY <2>1, <4>1 DEF FrameType, SameShape, Content
    <3>3. QED
      BY <3>1, <3>2
  <2>3. QED
    BY <2>2 DEF DropWrite
<1>7. RestTyped'
  <2>1. disk' \in [Pages -> Content]
    BY <1>3 DEF DropWrite, Structure, TypeOK, Content
  <2>2. QED
    BY <1>1, <2>1 DEF Structure, TypeOK, RestTyped
<1>8. "unlatch" \in Labels /\ "unlatch" = Awake("unlatch")
  BY DEF Labels, Awake
<1>9. /\ \A f \in Frames : PinnedBy("unlatch", l, f) <=> PinnedBy(at(t), loc[t], f)
      /\ Role("unlatch", l) = "none" /\ Role(at(t), loc[t]) = "none"
      /\ "unlatch" \notin PinsFrameAt \cup PinsVictimAt \cup FetchAt \cup ReclaimAt \cup FlushAt
  BY <1>1 DEF PinnedBy, PinsFrameAt, PinsVictimAt, Role, PrivateAt, LoadAt, FetchAt, ReclaimAt, FlushAt
<1>10. QED
  BY <1>1, <1>4, <1>5, <1>6, <1>7, <1>8, <1>9, Calm

(***************************************************************************)
(* Steps of a thread that has a frame to itself.                           *)
(***************************************************************************)

\* The thread keeps its Free frame, and goes on preparing it or disposing of it.
LEMMA PrivateMoves ==
    ASSUME Structure, NEW t \in Threads, NEW b \in {"stamp", "deallocate", "list", "giveback"}, NEW l \in CallType,
           at(t) \in {"allocate", "unevict", "deallocate", "list"}, Goto(t, b),
           Local(t, l) \/ (UNCHANGED loc /\ l = loc[t]), l.frame = loc[t].frame, CallOK(b, l),
           UNCHANGED <<frame, table, free_list, guards>>, RestTyped',
           \A f \in evictable \ evictable' : frame[f].state = "Free"
    PROVE  Structure'
<1>1. b \in Labels /\ b = Awake(b)
  BY DEF Labels, Awake, DeleteHolds
<1>2. /\ \A f \in Frames : PinnedBy(b, l, f) <=> PinnedBy(at(t), loc[t], f)
      /\ Role(b, l) = Role(at(t), loc[t])
      /\ b \notin PinsFrameAt \cup PinsVictimAt \cup FetchAt \cup ReclaimAt \cup FlushAt \cup {"unlatch"}
      /\ b \notin {"load", "loaded", "abandon", "fail", "insert"} /\ at(t) \notin {"peek", "revalidate"}
  BY DEF PinnedBy, PinsFrameAt, PinsVictimAt, Role, PrivateAt, LoadAt, FetchAt, ReclaimAt, FlushAt
<1>3. QED
  BY <1>1, <1>2, Calm, SameFrames

\* AllocatePage returns a page for the frame.
LEMMA AllocateKeeps ==
    ASSUME Structure, NEW t \in Threads, NEW p \in Pages, Allocate(t, p)
    PROVE  Structure'
<1> DEFINE l == [loc[t] EXCEPT !.page = p]
<1>1. UNCHANGED <<frame, table, free_list, evictable, guards, phase, err>> /\ Goto(t, "stamp") /\ Local(t, l) /\ at(t) = "allocate"
  BY DEF Allocate, pool, owner, at, Awake
<1>2. CallOK("allocate", loc[t]) /\ loc[t] \in CallType
  BY <1>1 DEF Structure, TypeOK
<1>3. l \in CallType /\ l.page = p /\ l.frame = loc[t].frame /\ l.op = loc[t].op
  BY <1>2 DEF CallType
<1> HIDE DEF l
<1>4. CallOK("stamp", l)
  BY <1>2, <1>3 DEF CallOK, FetchAt, ReclaimAt, FlushAt, NeedsFrame, OnFrame, OnPage, PinsFrameAt, PinsVictimAt, DeleteHolds, Fetches, Reclaims
<1>5. RestTyped'
  <2>1. status' \in [Pages -> Disk!Status] /\ disk' \in [Pages -> Content]
    BY DEF Allocate, Disk!Take, Structure, TypeOK, Disk!Status, Content
  <2>2. QED
    BY <1>1, <2>1 DEF Structure, TypeOK, RestTyped
<1>6. QED
  BY <1>1, <1>2, <1>3, <1>4, <1>5, PrivateMoves

\* DeletePage takes its frame out of the candidate set and deallocates the page.
LEMMA DeallocateKeeps ==
    ASSUME Structure, NEW t \in Threads, Unevict(t) \/ Deallocate(t) \/ DeallocateList(t) \/ DeallocateFails(t)
    PROVE  Structure'
<1>1. PICK b \in {"deallocate", "list", "giveback"} : Goto(t, b)
  BY DEF Unevict, Deallocate, DeallocateList, DeallocateFails
<1>2. /\ UNCHANGED <<frame, table, free_list, guards, loc, disk, phase, err>> /\ at(t) \in {"unevict", "deallocate", "list"}
  BY DEF Unevict, Deallocate, DeallocateList, DeallocateFails, pool, storage, owner, at, Awake
<1>3. CallOK(at(t), loc[t]) /\ loc[t] \in CallType
  BY DEF Structure, TypeOK
<1>4. CallOK(b, loc[t])
  BY <1>2, <1>3 DEF CallOK, FetchAt, ReclaimAt, FlushAt, NeedsFrame, OnFrame, OnPage, PinsFrameAt, PinsVictimAt, DeleteHolds, Fetches, Reclaims
<1>5. RestTyped'
  <2>1. status' \in [Pages -> Disk!Status] /\ evictable' \subseteq evictable
    BY <1>3 DEF Unevict, Deallocate, DeallocateList, DeallocateFails, Disk!Release, Disk!List, Structure, TypeOK,
       Disk!Status, storage, Candidates!Remove, pool
  <2>2. QED
    BY <1>2, <2>1 DEF Structure, TypeOK, RestTyped
<1>6. \A f \in evictable \ evictable' : frame[f].state = "Free"
  <2>1. CASE Unevict(t)
    <3>1. evictable' = evictable \ {loc[t].frame} /\ at(t) = "unevict"
      BY <2>1 DEF Unevict, Candidates!Remove, at, Awake
    <3>2. loc[t].frame \in Frames
      BY <1>3, <3>1 DEF CallOK
    <3>3. Role(at(t), loc[t]) = "private"
      <4>1. loc[t].frame # None
        BY <3>2, Names
      <4>2. QED
        BY <3>1, <4>1 DEF Role, PrivateAt, LoadAt
    <3>4. frame[loc[t].frame].state = "Free"
      BY <3>3 DEF Structure, OwnerOK
    <3>5. QED
      BY <3>1, <3>4
  <2>2. CASE ~Unevict(t)
    BY <2>2 DEF Deallocate, DeallocateList, DeallocateFails, pool
  <2>3. QED
    BY <2>1, <2>2
<1>7. QED
  BY <1>1, <1>2, <1>3, <1>4, <1>5, <1>6, PrivateMoves

\* DeletePage of a page that is not cached.
LEMMA VacateNoneKeeps ==
    ASSUME Structure, NEW t \in Threads, Vacate(t), table[loc[t].page] = None
    PROVE  Structure'
<1>1. UNCHANGED <<frame, table, free_list, evictable, guards, loc, status, phase, err>> /\ Goto(t, "deallocate") /\ at(t) = "delete"
  BY DEF Vacate, owner, at, Awake
<1>2. CallOK("delete", loc[t]) /\ loc[t] \in CallType
  BY <1>1 DEF Structure, TypeOK
<1>3. CallOK("deallocate", loc[t]) /\ loc[t].frame = None
  BY <1>2 DEF CallOK, FetchAt, ReclaimAt, FlushAt, NeedsFrame, OnFrame, OnPage, PinsFrameAt, PinsVictimAt, DeleteHolds, Fetches, Reclaims
<1>4. RestTyped'
  <2>1. disk' \in [Pages -> Content]
    BY DEF Vacate, Structure, TypeOK, Content
  <2>2. QED
    BY <1>1, <2>1 DEF Structure, TypeOK, RestTyped
<1>5. /\ \A f \in Frames : PinnedBy("deallocate", loc[t], f) <=> PinnedBy(at(t), loc[t], f)
      /\ Role("deallocate", loc[t]) = "none" /\ Role(at(t), loc[t]) = "none" /\ "deallocate" = Awake("deallocate")
      /\ "deallocate" \notin PinsFrameAt \cup PinsVictimAt \cup FetchAt \cup ReclaimAt \cup FlushAt /\ "deallocate" \in Labels
  BY <1>1, <1>3 DEF PinnedBy, PinsFrameAt, PinsVictimAt, Role, PrivateAt, LoadAt, FetchAt, ReclaimAt, FlushAt, Awake, Labels,
     DeleteHolds
<1>6. QED
  BY <1>1, <1>2, <1>3, <1>4, <1>5, Calm, SameFrames

\* DeletePage returns, with no frame to give back.
LEMMA GiveBackNoneKeeps ==
    ASSUME Structure, NEW t \in Threads, GiveBack(t), loc[t].frame = None
    PROVE  Structure'
<1>1. /\ UNCHANGED <<frame, table, free_list, evictable, guards>> /\ Goto(t, "idle") /\ at(t) = "giveback" /\ RestTyped'
      /\ Local(t, NoCall) /\ NoCall \in CallType
  BY NoCallTyped DEF GiveBack, Return, storage, owner, at, Awake, Structure, TypeOK, RestTyped
<1>2. CallOK("idle", NoCall)
  BY DEF CallOK, FetchAt, ReclaimAt, FlushAt, NeedsFrame, OnFrame, OnPage, PinsFrameAt, PinsVictimAt, DeleteHolds, Fetches, Reclaims, NoCall
<1>3. /\ \A f \in Frames : PinnedBy("idle", NoCall, f) <=> PinnedBy(at(t), loc[t], f)
      /\ Role("idle", NoCall) = "none" /\ Role(at(t), loc[t]) = "none" /\ "idle" = Awake("idle") /\ "idle" \in Labels
      /\ "idle" \notin PinsFrameAt \cup PinsVictimAt \cup FetchAt \cup ReclaimAt \cup FlushAt
  BY <1>1 DEF PinnedBy, PinsFrameAt, PinsVictimAt, Role, PrivateAt, LoadAt, FetchAt, ReclaimAt, FlushAt, Awake, Labels
<1>4. QED
  BY <1>1, <1>2, <1>3, Calm, SameFrames

\* A loader whose waiters have not all left sleeps on; NewPage aborts.
LEMMA StayKeeps ==
    ASSUME Structure, NEW t \in Threads, at(t) \in {"drain", "insert"}, UNCHANGED <<frame, table, free_list, evictable, guards, loc>>,
           NEW label \in Labels, Awake(label) = at(t), Goto(t, label), RestTyped'
    PROVE  Structure'
<1>1. CallOK(at(t), loc[t]) /\ GuardsOK(t) /\ PinnedOK(t) /\ OwnerOK(t) /\ loc[t] \in CallType
  BY DEF Structure, TypeOK
<1>2. at(t) \in PinsFrameAt \ {"unpin"} /\ at(t) \notin PinsVictimAt
  BY DEF PinsFrameAt, PinsVictimAt
<1>3. /\ frame[loc[t].frame].page_id = loc[t].page /\ frame[loc[t].frame].state \in StatesAt(at(t))
      /\ \A g \in guards[t] : g.frame # loc[t].frame
      /\ at(t) \in FetchAt \cup ReclaimAt \cup FlushAt /\ loc[t].op \in Fetches => \A g \in guards[t] : g.page # loc[t].page
      /\ at(t) = "insert" => table[loc[t].page] # loc[t].frame
  BY <1>1, <1>2 DEF GuardsOK, PinnedOK, OwnerOK
<1>4. QED
  BY <1>1, <1>2, <1>3, Calm, SameFrames

\* A frame is pushed onto the free list, or popped.
LEMMA Pushed ==
    ASSUME Structure, NEW f \in Frames, ~Listed(f), free_list' = Append(free_list, f)
    PROVE  /\ free_list' \in Seq(Frames) /\ ListOK'
           /\ \A x \in Frames : Listed(x)' <=> Listed(x) \/ x = f
<1>1. free_list \in Seq(Frames)
  BY DEF Structure, TypeOK
<1>2. /\ free_list' \in Seq(Frames) /\ Len(free_list) \in Nat /\ Len(free_list') = Len(free_list) + 1
      /\ \A i \in 1 .. Len(free_list) : free_list'[i] = free_list[i]
      /\ free_list'[Len(free_list) + 1] = f
  BY <1>1
<1>3. \A i \in 1 .. Len(free_list') : i \in 1 .. Len(free_list) \/ i = Len(free_list) + 1
  BY <1>2
<1>4. \A x \in Frames : Listed(x)' <=> Listed(x) \/ x = f
  BY <1>2, <1>3 DEF Listed
<1>5. ListOK'
  <2> SUFFICES ASSUME NEW i \in 1 .. Len(free_list'), NEW j \in 1 .. Len(free_list'), free_list'[i] = free_list'[j] PROVE i = j
    BY DEF ListOK
  <2>1. CASE i \in 1 .. Len(free_list) /\ j \in 1 .. Len(free_list)
    BY <1>2, <2>1 DEF Structure, ListOK
  <2>2. CASE i = Len(free_list) + 1 /\ j \in 1 .. Len(free_list)
    BY <1>2, <2>2 DEF Listed
  <2>3. CASE i \in 1 .. Len(free_list) /\ j = Len(free_list) + 1
    BY <1>2, <2>3 DEF Listed
  <2>4. QED
    BY <1>3, <2>1, <2>2, <2>3
<1>6. QED
  BY <1>2, <1>4, <1>5

\* The free list loses its last frame, and only that one.
LEMMA Popped ==
    ASSUME Structure, free_list # <<>>, free_list' = SubSeq(free_list, 1, Len(free_list) - 1)
    PROVE  /\ free_list' \in Seq(Frames) /\ ListOK'
           /\ free_list[Len(free_list)] \in Frames /\ Listed(free_list[Len(free_list)])
           /\ \A x \in Frames : Listed(x)' <=> Listed(x) /\ x # free_list[Len(free_list)]
<1> DEFINE n == Len(free_list)
<1>1. free_list \in Seq(Frames)
  BY DEF Structure, TypeOK
<1>2. n \in Nat \ {0}
  BY <1>1
<1>3. n - 1 \in Nat /\ \A i \in 1 .. n - 1 : i \in 1 .. n
  BY <1>2
<1>4. free_list' \in Seq(Frames) /\ Len(free_list') = n - 1 /\ \A i \in 1 .. n - 1 : free_list'[i] = free_list[i]
  <2> DEFINE s == SubSeq(free_list, 1, n - 1)
  <2>1. s = [i \in 1 .. n - 1 |-> free_list[i]]
    BY <1>1, <1>2, <1>3
  <2>2. s \in Seq(Frames)
    <3>1. \A i \in 1 .. n - 1 : free_list[i] \in Frames
      BY <1>1, <1>3
    <3> HIDE DEF s, n
    <3>2. s \in [1 .. n - 1 -> Frames]
      BY <2>1, <3>1
    <3>3. QED
      BY SMTT(30), <1>3, <3>2
  <2>3. Len(s) = n - 1
    <3>1. DOMAIN s = 1 .. n - 1 /\ DOMAIN s = 1 .. Len(s) /\ Len(s) \in Nat
      <4> HIDE DEF s, n
      <4>1. DOMAIN s = 1 .. n - 1
        BY <2>1
      <4>2. DOMAIN s = 1 .. Len(s)
        BY <2>2
      <4>3. Len(s) \in Nat
        BY <2>2
      <4>4. QED
        BY <4>1, <4>2, <4>3
    <3> HIDE DEF s, n
    <3>2. QED
      BY <1>3, <3>1
  <2>4. \A i \in 1 .. n - 1 : s[i] = free_list[i]
    BY <2>1
  <2>5. QED
    BY <2>2, <2>3, <2>4
<1>5. n \in 1 .. n /\ free_list[n] \in Frames
  BY <1>1, <1>2
<1>6. Listed(free_list[n])
  BY <1>5 DEF Listed
<1>7. ListOK' 
  BY SMTT(30), <1>2, <1>4 DEF Structure, ListOK
<1>8. ASSUME NEW x \in Frames PROVE Listed(x)' <=> Listed(x) /\ x # free_list[n]
  <2>1. ASSUME Listed(x)' PROVE Listed(x) /\ x # free_list[n]
    <3>1. PICK i \in 1 .. Len(free_list') : free_list'[i] = x
      BY <2>1 DEF Listed
    <3>2. i \in 1 .. n /\ i # n /\ free_list[i] = x
      BY <1>2, <1>4, <3>1
    <3>3. QED
      BY <1>5, <3>2 DEF Listed, Structure, ListOK
  <2>2. ASSUME Listed(x), x # free_list[n] PROVE Listed(x)'
    <3>1. PICK i \in 1 .. n : free_list[i] = x
      BY <2>2 DEF Listed
    <3>2. i \in 1 .. n - 1
      BY <1>2, <2>2, <3>1
    <3>3. QED
      BY <1>4, <3>1, <3>2 DEF Listed
  <2>3. QED
    BY <2>1, <2>2
<1>9. QED
  BY <1>4, <1>5, <1>6, <1>7, <1>8

\* What is known of a frame nobody can reach but its owner: it is Free, so that
\* no page is mapped to it and nobody pins it.
LEMMA FreeIsAlone ==
    ASSUME Structure, Counting, NEW f \in Frames, frame[f].state = "Free"
    PROVE  /\ \A u \in Threads : /\ ~PinnedBy(at(u), loc[u], f)
                                 /\ \A g \in guards[u] : g.frame # f
           /\ \A p \in Pages : table[p] # f
           /\ frame[f].pin_count = 0 /\ frame[f].page_id = None
<1>1. frame[f].pin_count = 0 /\ frame[f].page_id = None
  BY DEF Structure, FrameOK
<1>2. PinsOf(f) = {} /\ GuardPins(f) = {}
  BY <1>1, NoPins
<1>3. \A p \in Pages : table[p] # f
  BY Names DEF Structure, MappedOK
<1>4. QED
  BY <1>1, <1>2, <1>3 DEF PinsOf, GuardPins

\* A frame of its own that a thread pushes onto the free list.
LEMMA PushKeeps ==
    ASSUME Structure, Counting, NEW t \in Threads, NEW b \in {"idle", "lookup"}, NEW l \in CallType,
           at(t) \in {"publish", "allocate", "push", "giveback"}, NEW f \in Frames, f = loc[t].frame,
           free_list' = Append(free_list, f), Goto(t, b), Local(t, l), CallOK(b, l),
           b = "lookup" => \A g \in guards[t] : g.page # l.page,
           UNCHANGED <<frame, table, evictable, guards, status, disk, phase, err>>
    PROVE  Structure'
<1>1. b \in Labels /\ Awake(b) = b
  BY DEF Labels, Awake
<1>2. Role(at(t), loc[t]) = "private" /\ Role(b, l) = "none"
  <2>1. loc[t].frame # None
    BY Names
  <2>2. QED
    BY <2>1 DEF Role, PrivateAt, LoadAt
<1>3. frame[f].state = "Free" /\ ~Listed(f) /\ \A u \in Threads \ {t} : ~Owns(u, f)
  <2>1. Owns(t, f)
    BY <1>2 DEF Owns
  <2>2. QED
    BY <1>2, <2>1 DEF Structure, OwnerOK, ListedOK, OwnersDiffer
<1>4. free_list' \in Seq(Frames) /\ ListOK' /\ \A x \in Frames : Listed(x)' <=> Listed(x) \/ x = f
  BY <1>3, Pushed
<1>5. Moves(t, b, l) /\ TypeOK'
  <2>1. Moves(t, b, l) /\ pc' \in [Threads -> Labels] /\ loc' \in [Threads -> CallType]
    BY <1>1, Go DEF Structure
  <2>2. QED
    BY <1>4, <2>1 DEF Structure, TypeOK
<1>6. at(t)' = b /\ loc'[t] = l /\ guards'[t] = guards[t]
  BY <1>5 DEF Moves
<1>7. \A x \in Frames : SameShape(x)
  BY DEF SameShape
<1>8. PinnedOK(t)' /\ GuardsOK(t)' /\ OwnerOK(t)'
  <2>1. /\ b \notin PinsFrameAt \cup PinsVictimAt \cup ReclaimAt \cup FlushAt
        /\ b \notin {"unlatch", "load", "loaded", "abandon", "fail", "insert"}
        /\ b \in FetchAt => b = "lookup"
    BY DEF PinsFrameAt, PinsVictimAt, ReclaimAt, FlushAt, FetchAt
  <2>2. PinnedOK(t)'
    BY <1>6, <2>1 DEF Structure, PinnedOK
  <2>3. GuardsOK(t)'
    BY <1>6, <2>1 DEF Structure, GuardsOK
  <2>4. OwnerOK(t)'
    BY <1>2, <1>6, <2>1 DEF OwnerOK
  <2>5. QED
    BY <2>2, <2>3, <2>4
<1>9. ASSUME NEW x \in Frames PROVE FrameOK(x)' /\ Counted(x)' /\ Evictable(x)'
  <2>1. FrameOK(x)'
    BY DEF Structure, FrameOK
  <2>2. PinnedBy(b, l, x) <=> PinnedBy(at(t), loc[t], x)
    BY DEF PinnedBy, PinsFrameAt, PinsVictimAt
  <2>3. Counted(x)'
    BY <1>5, <2>2, CountKept
  <2>4. Evictable(x)'
    BY <1>5, <1>7, EvictableKept DEF WillFind
  <2>5. QED
    BY <2>1, <2>3, <2>4
<1>10. Home(f)'
  BY <1>3, <1>4 DEF Home
<1>11. \A p \in Pages : table[p] # f
  BY <1>3, FreeIsAlone
<1>12. Rehomed(t, b, l, f)
  BY <1>2, <1>3, <1>4, <1>5, <1>7, <1>11 DEF Rehomed
<1>13. QED
  BY <1>4, <1>5, <1>8, <1>9, <1>10, <1>12, Rehome

\* The calls that give their frame back.
LEMMA GivesBackKeep ==
    ASSUME Structure, Counting, NEW t \in Threads,
           AbandonPush(t) \/ AllocateFails(t) \/ (GiveBack(t) /\ loc[t].frame # None)
    PROVE  Structure'
<1>1. /\ UNCHANGED <<frame, table, evictable, guards, status, disk, phase, err>> /\ Goto(t, "idle") /\ Local(t, NoCall)
      /\ at(t) \in {"allocate", "push", "giveback"} /\ free_list' = Append(free_list, loc[t].frame) /\ NoCall \in CallType
  BY NoCallTyped DEF AbandonPush, AllocateFails, GiveBack, Return, storage, owner, at, Awake
<1>2. loc[t].frame \in Frames
  <2>1. CallOK(at(t), loc[t])
    BY DEF Structure
  <2>2. at(t) = "giveback" => loc[t].frame # None
    BY DEF AbandonPush, AllocateFails, at, Awake
  <2>3. QED
    BY <1>1, <2>1, <2>2 DEF CallOK, DeleteHolds
<1>3. CallOK("idle", NoCall)
  BY DEF CallOK, FetchAt, ReclaimAt, FlushAt, NeedsFrame, OnFrame, OnPage, PinsFrameAt, PinsVictimAt, DeleteHolds, Fetches, Reclaims, NoCall
<1>4. QED
  BY <1>1, <1>2, <1>3, PushKeeps

\* A fetch that has lost the race to map its page.
LEMMA PublishLostKeeps ==
    ASSUME Structure, Counting, NEW t \in Threads, PublishLost(t)
    PROVE  Structure'
<1> DEFINE l == [loc[t] EXCEPT !.frame = None]
<1>1. /\ UNCHANGED <<frame, table, evictable, guards, status, disk, phase, err>> /\ Goto(t, "lookup") /\ Local(t, l)
      /\ at(t) = "publish" /\ free_list' = Append(free_list, loc[t].frame)
  BY DEF PublishLost, storage, owner, at, Awake
<1>2. CallOK("publish", loc[t]) /\ GuardsOK(t) /\ loc[t] \in CallType
  BY <1>1 DEF Structure, TypeOK
<1>3. loc[t].frame \in Frames /\ \A g \in guards[t] : g.page # loc[t].page
  BY <1>1, <1>2 DEF CallOK, GuardsOK, FetchAt
<1>4. l \in CallType /\ l.op = loc[t].op /\ l.page = loc[t].page
  BY <1>2 DEF CallType
<1> HIDE DEF l
<1>5. CallOK("lookup", l)
  BY <1>2, <1>4 DEF CallOK, FetchAt, ReclaimAt, FlushAt, NeedsFrame, OnFrame, OnPage, PinsFrameAt, PinsVictimAt, DeleteHolds, Fetches, Reclaims
<1>6. QED
  BY <1>1, <1>3, <1>4, <1>5, PushKeeps

(***************************************************************************)
(* Steps that give a frame another state, page or home.                    *)
(***************************************************************************)

\* Frame f becomes r, and of the threads only t, at label a with locals l, has a
\* part in it: what the others pin stays what it is, ...
Apart(t, f, r) ==
    /\ \A u \in Threads \ {t} :
          /\ ~Owns(u, f)
          /\ PinnedBy(at(u), loc[u], f) => \/ r.state = frame[f].state /\ r.page_id = frame[f].page_id
                                           \/ at(u) = "wait" /\ r.state # "Free" /\ r.page_id = frame[f].page_id
    /\ \/ r.state = frame[f].state /\ r.page_id = frame[f].page_id
       \/ \A u \in Threads : \A g \in guards[u] : g.frame # f

\* ... the table and the free list change for f alone, ...
Filed(t, a, l, f, r) ==
    /\ table' \in [Pages -> Frames \cup {None}] /\ free_list' \in Seq(Frames) /\ ListOK'
    /\ \A p \in Pages : table'[p] # table[p] => {table[p], table'[p]} = {None, f}
    /\ \A p \in Pages : table'[p] = f => r.page_id = p /\ r.state \in {"Loading", "Resident"}
    /\ \A x \in Frames \ {f} : Listed(x)' <=> Listed(x)
    /\ Listed(f)' => r.state = "Free" /\ Role(a, l) = "none"
    /\ a \in {"load", "loaded", "abandon"} => table'[l.page] = f
    /\ a \in {"fail", "insert"} => table'[l.page] # f
    /\ r.state = "Free" => (Listed(f)' \/ Role(a, l) = "private") /\ r.page_id = None /\ r.pin_count = 0
    /\ r.state = "Resident" => (table'[r.page_id] = f \/ Role(a, l) = "insert") /\ r.pin_count # 0

\* ... t plays the part that the new state asks for, ...
Parted(t, a, l, f, r) ==
    /\ Role(at(t), loc[t]) # "none" => loc[t].frame = f
    /\ Role(a, l) # "none" => l.frame = f
    /\ a \in PinsFrameAt => /\ l.frame = f /\ r.page_id = l.page /\ r.state \in StatesAt(a)
                            /\ \A g \in guards[t] : g.frame # f
    /\ a \in FetchAt => \A g \in guards[t] : g.page # l.page
    /\ Role(a, l) = "private" => r.state = "Free"
    /\ r.state = "Loading" => Role(a, l) = "load"
    /\ r.state = "Failed" => Role(a, l) = "drain"
    /\ r.state # "Free" => r.page_id \in Pages
    /\ a \notin PinsVictimAt \cup ReclaimAt \cup FlushAt \cup {"unlatch", "unpin"}
    /\ at(t) \in {"peek", "revalidate"} => loc[t].victim = f

\* ... and the pins still add up.
Balanced(t, a, l, f, r) ==
    /\ \A x \in Frames \ {f} : PinnedBy(a, l, x) <=> PinnedBy(at(t), loc[t], x)
    /\ \/ /\ PinnedBy(a, l, f) <=> PinnedBy(at(t), loc[t], f)
          /\ r.pin_count = frame[f].pin_count
       \/ PinnedBy(a, l, f) /\ ~PinnedBy(at(t), loc[t], f) /\ r.pin_count = frame[f].pin_count + 1
       \/ PinsOf(f) \subseteq {t} /\ GuardPins(f) = {} /\ ~PinnedBy(a, l, f) /\ r.pin_count = 0

\* A frame is given another state, page or home.
LEMMA Resettle ==
    ASSUME Structure, Counting, NEW t \in Threads, NEW label \in Labels, NEW l \in CallType, NEW a, a = Awake(label),
           Goto(t, label) \/ (\E x : NotifyAll(t, x, label)), Local(t, l) \/ (UNCHANGED loc /\ l = loc[t]), CallOK(a, l),
           NEW f \in Frames, NEW r \in FrameType, frame' = [frame EXCEPT ![f] = r], UNCHANGED <<guards, evictable>>,
           RestTyped', Apart(t, f, r), Filed(t, a, l, f, r), Parted(t, a, l, f, r), Balanced(t, a, l, f, r)
    PROVE  Structure'
<1>1. frame' \in [Frames -> FrameType] /\ frame'[f] = r /\ \A x \in Frames \ {f} : frame'[x] = frame[x]
  BY DEF Structure, TypeOK
<1>2. Moves(t, a, l) /\ TypeOK'
  <2>1. Moves(t, a, l) /\ pc' \in [Threads -> Labels] /\ loc' \in [Threads -> CallType]
    BY Go DEF Structure
  <2>2. QED
    BY <1>1, <2>1 DEF Structure, TypeOK, RestTyped, Filed
<1>3. at(t)' = a /\ loc'[t] = l /\ guards'[t] = guards[t]
  BY <1>2 DEF Moves
<1>4. /\ \A x \in Frames \ {f} : SameShape(x) /\ frame'[x].pin_count = frame[x].pin_count
      /\ SameShape(f) <=> r.state = frame[f].state /\ r.page_id = frame[f].page_id
  BY <1>1 DEF SameShape
<1>5. PinnedOK(t)'
  <2>1. \A g \in guards[t] : frame'[g.frame].page_id = g.page /\ frame'[g.frame].state = "Resident"
    <3> SUFFICES ASSUME NEW g \in guards[t] PROVE frame'[g.frame].page_id = g.page /\ frame'[g.frame].state = "Resident"
      OBVIOUS
    <3>1. g.frame \in Frames /\ frame[g.frame].page_id = g.page /\ frame[g.frame].state = "Resident"
      BY Names DEF Structure, PinnedOK
    <3>2. SameShape(g.frame)
      BY <1>4, <3>1 DEF Apart
    <3>3. QED
      BY <3>1, <3>2 DEF SameShape
  <2>2. QED
    BY <1>1, <1>3, <2>1 DEF PinnedOK, Parted
<1>6. GuardsOK(t)'
  BY <1>3 DEF Structure, GuardsOK, Parted
<1>7. OwnerOK(t)'
  <2>1. a \in {"load", "loaded", "abandon", "fail", "insert"} => l.frame = f
    BY DEF Role, PrivateAt, LoadAt, Parted
  <2>2. QED
    BY <1>1, <1>3, <2>1 DEF OwnerOK, Parted, Filed
<1>8. Home(f)'
  <2>1. \A role : role # "none" /\ Role(a, l) = role => Plays(role, f)'
    BY <1>3 DEF Plays, Parted
  <2>2. QED
    BY <1>1, <2>1 DEF Home, Parted, Filed
<1>9. ASSUME NEW x \in Frames PROVE FrameOK(x)' /\ Counted(x)' /\ Evictable(x)'
  <2>1. CASE x = f
    <3>1. FrameOK(f)' /\ Evictable(f)'
      BY <1>1 DEF FrameOK, Evictable, Parted, Filed
    <3>2. Counted(f)'
      <4>1. CASE (PinnedBy(a, l, f) <=> PinnedBy(at(t), loc[t], f)) /\ r.pin_count = frame[f].pin_count
        BY <1>1, <1>2, <4>1, CountKept
      <4>2. CASE PinnedBy(a, l, f) /\ ~PinnedBy(at(t), loc[t], f) /\ r.pin_count = frame[f].pin_count + 1
        BY <1>1, <1>2, <4>2, CountUp
      <4>3. CASE PinsOf(f) \subseteq {t} /\ GuardPins(f) = {} /\ ~PinnedBy(a, l, f) /\ r.pin_count = 0
        BY <1>1, <1>2, <4>3, CountFreed
      <4>4. QED
        BY <4>1, <4>2, <4>3 DEF Balanced
    <3>3. QED
      BY <2>1, <3>1, <3>2
  <2>2. CASE x # f
    <3>1. FrameOK(x)'
      BY <1>1, <2>2 DEF Structure, FrameOK
    <3>2. Counted(x)'
      BY <1>2, <1>4, <2>2, CountKept DEF Balanced
    <3>3. Evictable(x)'
      BY <1>2, <1>4, <2>2, EvictableKept DEF WillFind, Parted
    <3>4. QED
      BY <3>1, <3>2, <3>3
  <2>3. QED
    BY <2>1, <2>2
<1>10. ASSUME NEW u \in Threads \ {t}
       PROVE  /\ ~Owns(u, f)
              /\ PinnedBy(at(u), loc[u], f) => \/ SameShape(f)
                                               \/ /\ at(u) = "wait" /\ frame'[f].state # "Free"
                                                  /\ frame'[f].page_id = frame[f].page_id
              /\ \A g \in guards[u] : g.frame = f => SameShape(f)
  BY <1>1, <1>4 DEF Apart
<1>11. /\ \A p \in Pages : table'[p] = f => frame'[f].page_id = p /\ frame'[f].state \in {"Loading", "Resident"}
       /\ Listed(f)' => frame'[f].state = "Free" /\ Role(a, l) = "none"
       /\ UNCHANGED guards
  BY <1>1 DEF Filed
<1>12. \A x \in Frames \ {f} : SameShape(x)
  BY <1>4
<1>13. \A x \in Frames : FrameOK(x)' /\ Counted(x)' /\ Evictable(x)'
  BY <1>9
<1>14. Rehomed(t, a, l, f)
  BY <1>2, <1>10, <1>11, <1>12 DEF Rehomed, Filed, Parted
<1>15. QED
  BY <1>2, <1>5, <1>6, <1>7, <1>8, <1>13, <1>14, Rehome DEF Filed

\* AcquireFrame takes a frame off the free list.
LEMMA TryPopKeeps ==
    ASSUME Structure, Counting, NEW t \in Threads, TryPop(t)
    PROVE  Structure'
<1>1. PICK f : f = free_list[Len(free_list)]
  OBVIOUS
<1> DEFINE l == [loc[t] EXCEPT !.frame = f, !.victim = None, !.peeked = None]
           a == IF loc[t].op = "new" THEN "allocate" ELSE "publish"
<1>2. /\ UNCHANGED <<frame, table, evictable, guards, status, disk, phase, err>> /\ at(t) = "acquire"
      /\ Goto(t, a) /\ Local(t, l)
  BY <1>1 DEF TryPop, Acquired, storage, owner, at, Awake
<1>3. /\ free_list' \in Seq(Frames) /\ ListOK' /\ f \in Frames /\ Listed(f)
      /\ \A x \in Frames : Listed(x)' <=> Listed(x) /\ x # f
  BY <1>1, Popped DEF TryPop
<1>4. /\ frame[f].state = "Free" /\ (\A u \in Threads : ~Owns(u, f)) /\ frame[f] \in FrameType
      /\ frame' = [frame EXCEPT ![f] = frame[f]] /\ f # None
  BY <1>2, <1>3, Names DEF Structure, ListedOK, TypeOK
<1>5. CallOK("acquire", loc[t]) /\ GuardsOK(t) /\ loc[t] \in CallType
  BY <1>2 DEF Structure, TypeOK
<1>6. l \in CallType /\ l.op = loc[t].op /\ l.page = loc[t].page /\ l.frame = f
  BY <1>3, <1>5 DEF CallType
<1>7. a \in {"allocate", "publish"} /\ (a = "publish" <=> l.op # "new")
  BY <1>6
<1> HIDE DEF l, a
<1>8. a \in Labels /\ a = Awake(a) /\ a \notin PinsFrameAt \cup PinsVictimAt \cup ReclaimAt \cup FlushAt \cup {"unlatch", "unpin"}
      /\ a \notin {"load", "loaded", "abandon", "fail", "insert"}
  BY <1>7 DEF Labels, Awake, PinsFrameAt, PinsVictimAt, ReclaimAt, FlushAt
<1>9. CallOK(a, l) /\ (a = "publish" => l.op \in Fetches)
  BY <1>3, <1>5, <1>6, <1>7 DEF CallOK, FetchAt, ReclaimAt, FlushAt, NeedsFrame, OnFrame, OnPage, PinsFrameAt, PinsVictimAt, DeleteHolds, Fetches, Reclaims
<1>10. Role(a, l) = "private" /\ Role(at(t), loc[t]) = "none"
  BY <1>2, <1>4, <1>6, <1>7 DEF Role, PrivateAt, LoadAt
<1>11. a \in FetchAt => \A g \in guards[t] : g.page # l.page
  BY <1>2, <1>5, <1>6, <1>7, <1>9 DEF GuardsOK, ReclaimAt, FetchAt
<1>12. \A x \in Frames : ~PinnedBy(a, l, x) /\ ~PinnedBy(at(t), loc[t], x)
  BY <1>2, <1>7 DEF PinnedBy, PinsFrameAt, PinsVictimAt
<1>13. /\ \A u \in Threads : ~PinnedBy(at(u), loc[u], f) /\ \A g \in guards[u] : g.frame # f
       /\ \A p \in Pages : table[p] # f
       /\ frame[f].pin_count = 0 /\ frame[f].page_id = None
  BY <1>3, <1>4, FreeIsAlone
<1>14. table' \in [Pages -> Frames \cup {None}] /\ RestTyped'
  BY <1>2 DEF Structure, TypeOK, RestTyped
<1>15. Apart(t, f, frame[f])
  BY <1>4 DEF Apart
<1>16. Filed(t, a, l, f, frame[f])
  BY <1>2, <1>3, <1>4, <1>8, <1>10, <1>13, <1>14 DEF Filed
<1>17. Parted(t, a, l, f, frame[f])
  BY <1>2, <1>4, <1>6, <1>8, <1>10, <1>11 DEF Parted
<1>18. Balanced(t, a, l, f, frame[f])
  BY <1>3, <1>12 DEF Balanced
<1>19. QED
  BY <1>2, <1>3, <1>4, <1>6, <1>8, <1>9, <1>14, <1>15, <1>16, <1>17, <1>18, Resettle

\* A page is mapped to a frame that has been stamped with it.
LEMMA PublishKeeps ==
    ASSUME Structure, Counting, NEW t \in Threads, Publish(t)
    PROVE  Structure'
<1>1. PICK f, p : f = loc[t].frame /\ p = loc[t].page
  OBVIOUS
<1> DEFINE r == Stamped("Loading", p, "dead")
<1>2. /\ UNCHANGED <<free_list, evictable, guards, loc, status, disk, phase, err>> /\ at(t) = "publish" /\ Goto(t, "load")
      /\ frame' = [frame EXCEPT ![f] = r] /\ table[p] = None /\ table' = [table EXCEPT ![p] = f]
  BY <1>1 DEF Publish, storage, owner, at, Awake
<1>3. CallOK("publish", loc[t]) /\ GuardsOK(t) /\ OwnerOK(t) /\ loc[t] \in CallType
  BY <1>2 DEF Structure, TypeOK
<1>4. f \in Frames /\ p \in Pages /\ f # None /\ loc[t].op \in Fetches
  BY <1>1, <1>3, Names DEF CallOK, FetchAt
<1>5. r \in FrameType /\ r.state = "Loading" /\ r.page_id = p /\ r.pin_count = 1
  BY <1>4 DEF Stamped, FreeFrame, FrameType, Content
<1> HIDE DEF r
<1>6. Role("load", loc[t]) = "load" /\ Role(at(t), loc[t]) = "private"
  BY <1>1, <1>2, <1>4 DEF Role, PrivateAt, LoadAt
<1>7. Owns(t, f) /\ frame[f].state = "Free"
  BY <1>1, <1>3, <1>6 DEF OwnerOK, Owns
<1>8. ~Listed(f) /\ \A u \in Threads \ {t} : ~Owns(u, f)
  BY <1>1, <1>4, <1>6, <1>7 DEF Structure, ListedOK, OwnersDiffer
<1>9. /\ \A u \in Threads : ~PinnedBy(at(u), loc[u], f) /\ \A g \in guards[u] : g.frame # f
      /\ \A q \in Pages : table[q] # f
      /\ frame[f].pin_count = 0
  BY <1>4, <1>7, FreeIsAlone
<1>10. /\ table' \in [Pages -> Frames \cup {None}] /\ RestTyped' /\ free_list' \in Seq(Frames) /\ ListOK'
       /\ \A x \in Frames : Listed(x)' <=> Listed(x)
  BY <1>2, <1>4 DEF Structure, TypeOK, RestTyped, ListOK, Listed
<1>11. /\ table'[p] = f /\ \A q \in Pages : table'[q] # table[q] => {table[q], table'[q]} = {None, f}
       /\ \A q \in Pages : table'[q] = f => q = p
  BY <1>2, <1>4, <1>9 DEF Structure, TypeOK
<1>12. /\ "load" \in Labels /\ "load" = Awake("load") /\ "load" \in PinsFrameAt
       /\ "load" \notin PinsVictimAt \cup ReclaimAt \cup FlushAt \cup {"unlatch", "unpin", "fail", "insert"}
       /\ r.state \in StatesAt("load")
  BY <1>5 DEF Labels, Awake, PinsFrameAt, PinsVictimAt, ReclaimAt, FlushAt, StatesAt, LoadAt
<1>13. CallOK("load", loc[t])
  BY <1>1, <1>3, <1>4 DEF CallOK, FetchAt, ReclaimAt, FlushAt, NeedsFrame, OnFrame, OnPage, PinsFrameAt, PinsVictimAt, DeleteHolds, Fetches, Reclaims
<1>14. \A g \in guards[t] : g.page # p
  BY <1>1, <1>2, <1>3, <1>4 DEF GuardsOK, FetchAt
<1>15. \A x \in Frames : ~PinnedBy(at(t), loc[t], x) /\ (PinnedBy("load", loc[t], x) <=> x = f)
  BY <1>1, <1>2 DEF PinnedBy, PinsFrameAt, PinsVictimAt
<1>16. Apart(t, f, r)
  BY <1>8, <1>9 DEF Apart
<1>17. Filed(t, "load", loc[t], f, r)
  BY <1>1, <1>4, <1>5, <1>8, <1>10, <1>11 DEF Filed
<1>18. Parted(t, "load", loc[t], f, r)
  BY <1>1, <1>2, <1>4, <1>5, <1>6, <1>9, <1>12, <1>14 DEF Parted
<1>19. Balanced(t, "load", loc[t], f, r)
  <2>1. r.pin_count = frame[f].pin_count + 1
    BY <1>5, <1>9
  <2>2. QED
    BY <1>4, <1>15, <2>1 DEF Balanced
<1>20. QED
  BY <1>2, <1>3, <1>4, <1>5, <1>10, <1>12, <1>13, <1>16, <1>17, <1>18, <1>19, Resettle

\* NewPage stamps its frame Resident, and maps it later.
LEMMA StampNewKeeps ==
    ASSUME Structure, Counting, NEW t \in Threads, StampNew(t)
    PROVE  Structure'
<1>1. PICK f, p : f = loc[t].frame /\ p = loc[t].page
  OBVIOUS
<1> DEFINE r == Stamped("Resident", p, "latest")
<1>2. /\ UNCHANGED <<table, free_list, evictable, guards, loc, status, disk, phase, err>> /\ at(t) = "stamp" /\ Goto(t, "insert")
      /\ frame' = [frame EXCEPT ![f] = r]
  BY <1>1 DEF StampNew, storage, owner, at, Awake
<1>3. CallOK("stamp", loc[t]) /\ OwnerOK(t) /\ loc[t] \in CallType
  BY <1>2 DEF Structure, TypeOK
<1>4. f \in Frames /\ p \in Pages /\ f # None
  BY <1>1, <1>3, Names DEF CallOK
<1>5. r \in FrameType /\ r.state = "Resident" /\ r.page_id = p /\ r.pin_count = 1
  BY <1>4 DEF Stamped, FreeFrame, FrameType, Content
<1> HIDE DEF r
<1>6. Role("insert", loc[t]) = "insert" /\ Role(at(t), loc[t]) = "private"
  BY <1>1, <1>2, <1>4 DEF Role, PrivateAt, LoadAt
<1>7. Owns(t, f) /\ frame[f].state = "Free"
  BY <1>1, <1>3, <1>6 DEF OwnerOK, Owns
<1>8. ~Listed(f) /\ \A u \in Threads \ {t} : ~Owns(u, f)
  BY <1>1, <1>4, <1>6, <1>7 DEF Structure, ListedOK, OwnersDiffer
<1>9. /\ \A u \in Threads : ~PinnedBy(at(u), loc[u], f) /\ \A g \in guards[u] : g.frame # f
      /\ \A q \in Pages : table[q] # f
      /\ frame[f].pin_count = 0
  BY <1>4, <1>7, FreeIsAlone
<1>10. /\ table' \in [Pages -> Frames \cup {None}] /\ RestTyped' /\ free_list' \in Seq(Frames) /\ ListOK'
       /\ \A x \in Frames : Listed(x)' <=> Listed(x)
  BY <1>2, <1>4 DEF Structure, TypeOK, RestTyped, ListOK, Listed
<1>11. /\ "insert" \in Labels /\ "insert" = Awake("insert") /\ "insert" \in PinsFrameAt
       /\ "insert" \notin PinsVictimAt \cup ReclaimAt \cup FlushAt \cup FetchAt \cup {"unlatch", "unpin"}
       /\ r.state \in StatesAt("insert")
  BY <1>5 DEF Labels, Awake, PinsFrameAt, PinsVictimAt, ReclaimAt, FlushAt, FetchAt, StatesAt, LoadAt
<1>12. CallOK("insert", loc[t])
  BY <1>1, <1>3, <1>4 DEF CallOK, FetchAt, ReclaimAt, FlushAt, NeedsFrame, OnFrame, OnPage, PinsFrameAt, PinsVictimAt, DeleteHolds, Fetches, Reclaims
<1>13. \A x \in Frames : ~PinnedBy(at(t), loc[t], x) /\ (PinnedBy("insert", loc[t], x) <=> x = f)
  BY <1>1, <1>2 DEF PinnedBy, PinsFrameAt, PinsVictimAt
<1>14. Apart(t, f, r)
  BY <1>8, <1>9 DEF Apart
<1>15. Filed(t, "insert", loc[t], f, r)
  BY SMTT(30), <1>1, <1>2, <1>4, <1>5, <1>6, <1>8, <1>9, <1>10 DEF Filed
<1>16. Parted(t, "insert", loc[t], f, r)
  BY <1>1, <1>2, <1>4, <1>5, <1>6, <1>9, <1>11 DEF Parted
<1>17. Balanced(t, "insert", loc[t], f, r)
  <2>1. r.pin_count = frame[f].pin_count + 1
    BY <1>5, <1>9
  <2>2. QED
    BY <1>4, <1>13, <2>1 DEF Balanced
<1>18. QED
  BY <1>2, <1>3, <1>4, <1>5, <1>10, <1>11, <1>12, <1>14, <1>15, <1>16, <1>17, Resettle

\* Thread t loads page p into frame f, or drains f: it pins f, and the others who know f wait.
Loads(t, f, p) ==
    /\ f \in Frames /\ (at(t) = "drain" => frame[f].state = "Failed") /\ (at(t) \in LoadAt => frame[f].state = "Loading")
    /\ frame[f].page_id = p /\ p \in Pages /\ loc[t].op \in Fetches
    /\ \A u \in Threads \ {t} : ~Owns(u, f) /\ (PinnedBy(at(u), loc[u], f) => at(u) = "wait" \/ at(t) = "drain")
    /\ \A q \in Pages : table[q] = f => q = p /\ at(t) \in LoadAt
    /\ \A u \in Threads : \A g \in guards[u] : g.frame # f
    /\ \A g \in guards[t] : g.page # p
    /\ ~Listed(f) /\ PinnedBy(at(t), loc[t], f) /\ Owns(t, f)
    /\ \A x : ~(x # f /\ PinnedBy(at(t), loc[t], x))

\* While a page is loaded, the others who know its frame wait for it.
LEMMA LoadIsWaitedFor ==
    ASSUME Structure, NEW t \in Threads, at(t) \in LoadAt \cup {"drain"}, NEW f, f = loc[t].frame, NEW p, p = loc[t].page
    PROVE  Loads(t, f, p)
<1>1. /\ CallOK(at(t), loc[t]) /\ PinnedOK(t) /\ GuardsOK(t) /\ at(t) \in PinsFrameAt /\ at(t) \in FetchAt
      /\ at(t) \notin PinsVictimAt /\ Role(at(t), loc[t]) = IF at(t) = "drain" THEN "drain" ELSE "load"
  BY DEF Structure, LoadAt, PinsFrameAt, FetchAt, PinsVictimAt, Role, PrivateAt
<1>2. f \in Frames /\ loc[t].page \in Pages /\ loc[t].op \in Fetches
  BY <1>1 DEF CallOK
<1>3. /\ frame[f].page_id = loc[t].page
      /\ (at(t) = "drain" => frame[f].state = "Failed") /\ (at(t) \in LoadAt => frame[f].state = "Loading")
  BY <1>1 DEF PinnedOK, StatesAt, LoadAt
<1>4. Owns(t, f)
  BY <1>1 DEF Owns
<1>5. ~Listed(f) /\ \A u \in Threads \ {t} : ~Owns(u, f)
  BY <1>1, <1>2, <1>4 DEF Structure, ListedOK, OwnersDiffer
<1>6. ASSUME NEW u \in Threads \ {t}, PinnedBy(at(u), loc[u], f)
      PROVE  at(u) = "wait" \/ at(t) = "drain"
  <2>1. PinnedOK(u)
    BY DEF Structure
  <2>2. at(u) \in PinsFrameAt /\ loc[u].frame = f /\ frame[f].state \in StatesAt(at(u))
    BY <1>3, <1>6, <2>1 DEF PinnedBy, PinnedOK
  <2>3. at(u) \notin LoadAt \cup {"drain"}
    BY <1>5, <2>2 DEF Owns, Role, PrivateAt, LoadAt
  <2>4. QED
    BY <1>3, <2>2, <2>3 DEF StatesAt, PinsFrameAt
<1>7. \A u \in Threads : \A g \in guards[u] : g.frame # f
  BY <1>3 DEF Structure, PinnedOK
<1>8. \A g \in guards[t] : g.page # loc[t].page
  BY <1>1, <1>2 DEF GuardsOK
<1>9. \A x : PinnedBy(at(t), loc[t], x) <=> x = f
  BY <1>1 DEF PinnedBy
<1>10. ASSUME NEW q \in Pages, table[q] = f PROVE q = loc[t].page /\ at(t) \in LoadAt
  <2>1. MappedOK(q) /\ f # None
    BY <1>2, Names DEF Structure
  <2>2. frame[f].page_id = q /\ frame[f].state # "Failed"
    BY <1>10, <2>1 DEF MappedOK
  <2>3. QED
    BY <1>3, <2>2
<1>11. QED
  BY <1>2, <1>3, <1>4, <1>5, <1>6, <1>7, <1>8, <1>9, <1>10 DEF Loads

\* The free list and the types when they are left alone.
LEMMA SameList ==
    ASSUME Structure, UNCHANGED <<free_list, evictable, status, disk, phase, err>>
    PROVE  /\ free_list' \in Seq(Frames) /\ ListOK' /\ RestTyped'
           /\ \A x \in Frames : Listed(x)' <=> Listed(x)
BY DEF Structure, TypeOK, RestTyped, ListOK, Listed

\* The page has been read: the frame is Resident, and its waiters are notified.
LEMMA LoadedKeeps ==
    ASSUME Structure, Counting, NEW t \in Threads, Loaded(t)
    PROVE  Structure'
<1>1. PICK f, p : f = loc[t].frame /\ p = loc[t].page
  OBVIOUS
<1> DEFINE r == [frame[f] EXCEPT !.state = "Resident"]
<1>2. /\ UNCHANGED <<table, free_list, evictable, guards, loc, status, disk, phase, err>> /\ at(t) = "loaded"
      /\ NotifyAll(t, f, "latch") /\ frame' = [frame EXCEPT ![f] = r]
  BY <1>1 DEF Loaded, storage, owner, at, Awake
<1>3. /\ f \in Frames /\ frame[f].state = "Loading" /\ frame[f].page_id = p /\ p \in Pages /\ loc[t].op \in Fetches
      /\ \A u \in Threads \ {t} : ~Owns(u, f) /\ (PinnedBy(at(u), loc[u], f) => at(u) = "wait")
      /\ \A u \in Threads : \A g \in guards[u] : g.frame # f
      /\ ~Listed(f) /\ PinnedBy(at(t), loc[t], f) /\ (\A q \in Pages : table[q] = f => q = p)
      /\ \A x : ~(x # f /\ PinnedBy(at(t), loc[t], x))
  <2>1. at(t) \in LoadAt /\ at(t) # "drain"
    BY <1>2 DEF LoadAt
  <2>2. Loads(t, f, p)
    BY <1>1, <2>1, LoadIsWaitedFor
  <2>3. QED
    BY <2>1, <2>2 DEF Loads
<1>4. CallOK("loaded", loc[t]) /\ OwnerOK(t) /\ loc[t] \in CallType /\ frame[f] \in FrameType
  BY <1>2, <1>3 DEF Structure, TypeOK
<1>5. r \in FrameType /\ r.state = "Resident" /\ r.page_id = p /\ r.pin_count = frame[f].pin_count
  BY <1>3, <1>4 DEF FrameType
<1>6. r.pin_count # 0
  <2>1. t \in PinsOf(f)
    BY <1>3 DEF PinsOf
  <2>2. QED
    BY <1>3, <1>5, <2>1, SomePin
<1> HIDE DEF r
<1>7. table[p] = f /\ table' \in [Pages -> Frames \cup {None}]
  BY <1>1, <1>2, <1>4 DEF OwnerOK, Structure, TypeOK
<1>8. /\ "latch" \in Labels /\ "latch" = Awake("latch") /\ "latch" \in PinsFrameAt
      /\ "latch" \notin PinsVictimAt \cup ReclaimAt \cup FlushAt \cup FetchAt \cup {"unlatch", "unpin"}
      /\ r.state \in StatesAt("latch") /\ Role("latch", loc[t]) = "none" /\ PinnedBy("latch", loc[t], f)
      /\ \A x : ~(x # f /\ PinnedBy("latch", loc[t], x))
  BY <1>1, <1>5 DEF Labels, Awake, PinsFrameAt, PinsVictimAt, ReclaimAt, FlushAt, FetchAt, StatesAt, LoadAt, Role, PrivateAt, PinnedBy
<1>9. CallOK("latch", loc[t])
  BY <1>1, <1>3, <1>4 DEF CallOK, FetchAt, ReclaimAt, FlushAt, NeedsFrame, OnFrame, OnPage, PinsFrameAt, PinsVictimAt, DeleteHolds, Fetches, Reclaims
<1>10. /\ free_list' \in Seq(Frames) /\ ListOK' /\ RestTyped' /\ \A x \in Frames : Listed(x)' <=> Listed(x)
  BY <1>2, SameList
<1>11. Apart(t, f, r)
  BY <1>3, <1>5 DEF Apart
<1>12. Filed(t, "latch", loc[t], f, r)
  BY <1>2, <1>3, <1>5, <1>6, <1>7, <1>10 DEF Filed
<1>13. Parted(t, "latch", loc[t], f, r)
  BY <1>1, <1>2, <1>3, <1>5, <1>8 DEF Parted
<1>14. Balanced(t, "latch", loc[t], f, r)
  BY <1>3, <1>5, <1>8 DEF Balanced
<1>15. QED
  BY <1>2, <1>3, <1>4, <1>5, <1>8, <1>9, <1>10, <1>11, <1>12, <1>13, <1>14, Resettle

\* A page that could not be read is unmapped.
LEMMA AbandonEraseKeeps ==
    ASSUME Structure, Counting, NEW t \in Threads, AbandonErase(t)
    PROVE  Structure'
<1>1. PICK f, p : f = loc[t].frame /\ p = loc[t].page
  OBVIOUS
<1>2. /\ UNCHANGED <<frame, free_list, evictable, guards, loc, status, disk, phase, err>> /\ at(t) = "abandon"
      /\ Goto(t, "fail") /\ table' = [table EXCEPT ![p] = None]
  BY <1>1 DEF AbandonErase, storage, owner, at, Awake
<1>3. /\ f \in Frames /\ frame[f].state = "Loading" /\ frame[f].page_id = p /\ p \in Pages /\ loc[t].op \in Fetches
      /\ \A u \in Threads \ {t} : ~Owns(u, f)
      /\ \A u \in Threads : \A g \in guards[u] : g.frame # f
      /\ (\A g \in guards[t] : g.page # p)
      /\ ~Listed(f) /\ PinnedBy(at(t), loc[t], f) /\ (\A q \in Pages : table[q] = f => q = p)
      /\ \A x : ~(x # f /\ PinnedBy(at(t), loc[t], x))
  <2>1. at(t) \in LoadAt /\ at(t) # "drain"
    BY <1>2 DEF LoadAt
  <2>2. Loads(t, f, p)
    BY <1>1, <2>1, LoadIsWaitedFor
  <2>3. QED
    BY <2>1, <2>2 DEF Loads
<1>4. CallOK("abandon", loc[t]) /\ OwnerOK(t) /\ loc[t] \in CallType /\ frame[f] \in FrameType
  BY <1>2, <1>3 DEF Structure, TypeOK
<1>5. frame' = [frame EXCEPT ![f] = frame[f]]
  BY <1>2 DEF Structure, TypeOK
<1>6. /\ table[p] = f /\ table' \in [Pages -> Frames \cup {None}]
      /\ \A q \in Pages : table'[q] = IF q = p THEN None ELSE table[q]
  BY <1>1, <1>2, <1>4 DEF OwnerOK, Structure, TypeOK
<1>7. /\ "fail" \in Labels /\ "fail" = Awake("fail") /\ "fail" \in PinsFrameAt
      /\ "fail" \notin PinsVictimAt \cup ReclaimAt \cup FlushAt \cup {"unlatch", "unpin"}
      /\ "Loading" \in StatesAt("fail") /\ Role("fail", loc[t]) = "load" /\ PinnedBy("fail", loc[t], f)
      /\ \A x : ~(x # f /\ PinnedBy("fail", loc[t], x))
  BY <1>1 DEF Labels, Awake, PinsFrameAt, PinsVictimAt, ReclaimAt, FlushAt, StatesAt, LoadAt, Role, PrivateAt, PinnedBy
<1>8. CallOK("fail", loc[t])
  BY <1>1, <1>3, <1>4 DEF CallOK, FetchAt, ReclaimAt, FlushAt, NeedsFrame, OnFrame, OnPage, PinsFrameAt, PinsVictimAt, DeleteHolds, Fetches, Reclaims
<1>9. /\ free_list' \in Seq(Frames) /\ ListOK' /\ RestTyped' /\ \A x \in Frames : Listed(x)' <=> Listed(x)
  BY <1>2, SameList
<1>10. Apart(t, f, frame[f])
  BY <1>3 DEF Apart
<1>11. f # None
  BY <1>3, Names
<1>12. Filed(t, "fail", loc[t], f, frame[f])
  BY <1>1, <1>2, <1>3, <1>6, <1>9, <1>11 DEF Filed
<1>13. Parted(t, "fail", loc[t], f, frame[f])
  BY <1>1, <1>2, <1>3, <1>7 DEF Parted
<1>14. Balanced(t, "fail", loc[t], f, frame[f])
  BY <1>3, <1>7 DEF Balanced
<1>15. QED
  BY <1>2, <1>3, <1>4, <1>5, <1>7, <1>8, <1>9, <1>10, <1>12, <1>13, <1>14, Resettle

\* The frame of a failed load that others wait for is Failed, until they have left.
LEMMA FailedKeeps ==
    ASSUME Structure, Counting, NEW t \in Threads, AbandonFail(t), frame[loc[t].frame].pin_count # 1
    PROVE  Structure'
<1>1. PICK f, p : f = loc[t].frame /\ p = loc[t].page
  OBVIOUS
<1> DEFINE r == [frame[f] EXCEPT !.state = "Failed"]
<1>2. /\ UNCHANGED <<table, free_list, evictable, guards, loc, status, disk, phase, err>> /\ at(t) = "fail"
      /\ NotifyAll(t, f, "drain_asleep") /\ frame' = [frame EXCEPT ![f] = r]
  BY <1>1 DEF AbandonFail, storage, owner, at, Awake
<1>3. /\ f \in Frames /\ frame[f].state = "Loading" /\ frame[f].page_id = p /\ p \in Pages /\ loc[t].op \in Fetches
      /\ \A u \in Threads \ {t} : ~Owns(u, f) /\ (PinnedBy(at(u), loc[u], f) => at(u) = "wait")
      /\ \A u \in Threads : \A g \in guards[u] : g.frame # f
      /\ (\A g \in guards[t] : g.page # p)
      /\ ~Listed(f) /\ PinnedBy(at(t), loc[t], f) /\ (\A q \in Pages : table[q] = f => q = p)
      /\ \A x : ~(x # f /\ PinnedBy(at(t), loc[t], x))
  <2>1. at(t) \in LoadAt /\ at(t) # "drain"
    BY <1>2 DEF LoadAt
  <2>2. Loads(t, f, p)
    BY <1>1, <2>1, LoadIsWaitedFor
  <2>3. QED
    BY <2>1, <2>2 DEF Loads
<1>4. CallOK("fail", loc[t]) /\ OwnerOK(t) /\ loc[t] \in CallType /\ frame[f] \in FrameType
  BY <1>2, <1>3 DEF Structure, TypeOK
<1>5. r \in FrameType /\ r.state = "Failed" /\ r.page_id = p /\ r.pin_count = frame[f].pin_count
  BY <1>3, <1>4 DEF FrameType
<1> HIDE DEF r
<1>6. (\A q \in Pages : table[q] # f) /\ table' \in [Pages -> Frames \cup {None}]
  BY <1>1, <1>2, <1>3, <1>4 DEF OwnerOK, Structure, TypeOK
<1>7. /\ "drain_asleep" \in Labels /\ "drain" = Awake("drain_asleep") /\ "drain" \in PinsFrameAt
      /\ "drain" \notin PinsVictimAt \cup ReclaimAt \cup FlushAt \cup {"unlatch", "unpin"}
      /\ r.state \in StatesAt("drain") /\ Role("drain", loc[t]) = "drain" /\ PinnedBy("drain", loc[t], f)
      /\ \A x : ~(x # f /\ PinnedBy("drain", loc[t], x))
  BY <1>1, <1>5 DEF Labels, Awake, PinsFrameAt, PinsVictimAt, ReclaimAt, FlushAt, StatesAt, LoadAt, Role, PrivateAt, PinnedBy
<1>8. CallOK("drain", loc[t])
  BY <1>1, <1>3, <1>4 DEF CallOK, FetchAt, ReclaimAt, FlushAt, NeedsFrame, OnFrame, OnPage, PinsFrameAt, PinsVictimAt, DeleteHolds, Fetches, Reclaims
<1>9. /\ free_list' \in Seq(Frames) /\ ListOK' /\ RestTyped' /\ \A x \in Frames : Listed(x)' <=> Listed(x)
  BY <1>2, SameList
<1>10. Apart(t, f, r)
  BY <1>3, <1>5 DEF Apart
<1>11. Filed(t, "drain", loc[t], f, r)
  BY <1>2, <1>3, <1>5, <1>6, <1>9 DEF Filed
<1>12. Parted(t, "drain", loc[t], f, r)
  BY <1>1, <1>2, <1>3, <1>5, <1>7 DEF Parted
<1>13. Balanced(t, "drain", loc[t], f, r)
  BY <1>3, <1>5, <1>7 DEF Balanced
<1>14. QED
  BY <1>2, <1>3, <1>4, <1>5, <1>7, <1>8, <1>9, <1>10, <1>11, <1>12, <1>13, Resettle

\* A frame turns Free in the hands of the only thread that knows of it.
LEMMA FreeUp ==
    ASSUME Structure, Counting, NEW t \in Threads, NEW a \in {"push", "publish", "allocate", "unevict"}, NEW l \in CallType,
           NEW f \in Frames, Goto(t, a), Local(t, l) \/ (UNCHANGED loc /\ l = loc[t]), CallOK(a, l), l.frame = f,
           frame' = [frame EXCEPT ![f] = FreeFrame], PinsOf(f) \subseteq {t}, GuardPins(f) = {}, ~Listed(f),
           \A u \in Threads \ {t} : ~Owns(u, f), Role(at(t), loc[t]) # "none" => loc[t].frame = f,
           table' \in [Pages -> Frames \cup {None}],
           \A p \in Pages : table'[p] = IF table[p] = f THEN None ELSE table[p],
           UNCHANGED <<free_list, evictable, guards>>, RestTyped',
           \A x \in Frames \ {f} : ~PinnedBy(at(t), loc[t], x),
           at(t) \in {"peek", "revalidate"} => loc[t].victim = f,
           a \in {"push", "publish"} => \A g \in guards[t] : g.page # l.page
    PROVE  Structure'
<1>1. FreeFrame \in FrameType /\ FreeFrame.state = "Free" /\ FreeFrame.page_id = None /\ FreeFrame.pin_count = 0
  BY DEF FreeFrame, FrameType, Content
<1>2. f # None
  BY Names
<1>3. /\ a \in Labels /\ a = Awake(a) /\ a \notin PinsFrameAt /\ Role(a, l) = "private" /\ (\A x : ~PinnedBy(a, l, x))
      /\ a \notin PinsVictimAt \cup ReclaimAt \cup FlushAt \cup {"unlatch", "unpin"}
      /\ a \notin {"load", "loaded", "abandon", "fail", "insert"} /\ (a \in FetchAt => a \in {"push", "publish"})
  BY <1>2 DEF Labels, Awake, PinsFrameAt, PinsVictimAt, ReclaimAt, FlushAt, FetchAt, LoadAt, Role, PrivateAt, PinnedBy, DeleteHolds
<1>4. free_list' \in Seq(Frames) /\ ListOK' /\ \A x \in Frames : Listed(x)' <=> Listed(x)
  BY DEF Structure, TypeOK, ListOK, Listed
<1>5. /\ \A u \in Threads \ {t} : ~PinnedBy(at(u), loc[u], f)
      /\ \A u \in Threads : \A g \in guards[u] : g.frame # f
  BY DEF PinsOf, GuardPins
<1>6. Apart(t, f, FreeFrame)
  BY <1>5 DEF Apart
<1>7. Filed(t, a, l, f, FreeFrame)
  BY <1>1, <1>2, <1>3, <1>4 DEF Filed
<1>8. Parted(t, a, l, f, FreeFrame)
  BY <1>1, <1>3 DEF Parted
<1>9. Balanced(t, a, l, f, FreeFrame)
  BY <1>1, <1>3 DEF Balanced
<1>10. QED
  BY <1>1, <1>3, <1>6, <1>7, <1>8, <1>9, Resettle

\* The loader frees its frame when its own pin is the last.
LEMMA DrainedKeeps ==
    ASSUME Structure, Counting, NEW t \in Threads, AbandonFail(t) \/ AbandonDrained(t), frame[loc[t].frame].pin_count = 1
    PROVE  Structure'
<1>1. PICK f, p : f = loc[t].frame /\ p = loc[t].page
  OBVIOUS
<1>2. /\ UNCHANGED <<table, free_list, evictable, guards, loc, status, disk, phase, err>> /\ at(t) \in {"fail", "drain"}
      /\ Goto(t, "push") /\ frame' = [frame EXCEPT ![f] = FreeFrame]
  BY <1>1 DEF AbandonFail, AbandonDrained, storage, owner, at, Awake
<1>3. /\ f \in Frames /\ p \in Pages /\ loc[t].op \in Fetches
      /\ \A u \in Threads \ {t} : ~Owns(u, f)
      /\ (\A g \in guards[t] : g.page # p)
      /\ ~Listed(f) /\ PinnedBy(at(t), loc[t], f) /\ (\A q \in Pages : table[q] = f => q = p /\ at(t) \in LoadAt)
      /\ \A x : ~(x # f /\ PinnedBy(at(t), loc[t], x))
  <2>1. at(t) \in LoadAt \cup {"drain"}
    BY <1>2 DEF LoadAt
  <2>2. Loads(t, f, p)
    BY <1>1, <2>1, LoadIsWaitedFor
  <2>3. QED
    BY <2>1, <2>2 DEF Loads
<1>4. CallOK(at(t), loc[t]) /\ OwnerOK(t) /\ loc[t] \in CallType
  BY DEF Structure, TypeOK
<1>5. \A q \in Pages : table[q] # f
  BY <1>1, <1>2, <1>3, <1>4 DEF OwnerOK, LoadAt
<1>6. PinsOf(f) \subseteq {t} /\ GuardPins(f) = {}
  <2>1. t \in PinsOf(f)
    BY <1>3 DEF PinsOf
  <2>2. QED
    BY <1>1, <1>3, <2>1, OnePin
<1>7. CallOK("push", loc[t])
  BY <1>1, <1>3, <1>4 DEF CallOK, FetchAt, ReclaimAt, FlushAt, NeedsFrame, OnFrame, OnPage, PinsFrameAt, PinsVictimAt, DeleteHolds, Fetches, Reclaims
<1>8. table' \in [Pages -> Frames \cup {None}] /\ RestTyped'
  BY <1>2 DEF Structure, TypeOK, RestTyped
<1>9. at(t) \notin {"peek", "revalidate"}
  BY <1>2
<1>10. QED
  BY <1>1, <1>2, <1>3, <1>4, <1>5, <1>6, <1>7, <1>8, <1>9, FreeUp

\* A loader's last waiters have not left: it sleeps on.
LEMMA AbandonKeeps ==
    ASSUME Structure, Counting, NEW t \in Threads, AbandonFail(t) \/ AbandonDrained(t)
    PROVE  Structure'
<1>1. CASE frame[loc[t].frame].pin_count = 1
  BY <1>1, DrainedKeeps
<1>2. CASE frame[loc[t].frame].pin_count # 1 /\ AbandonFail(t)
  BY <1>2, FailedKeeps
<1>3. CASE frame[loc[t].frame].pin_count # 1 /\ AbandonDrained(t)
  <2>1. /\ UNCHANGED <<frame, table, free_list, evictable, guards, loc>> /\ at(t) = "drain" /\ RestTyped'
        /\ Goto(t, "drain_asleep")
    BY <1>3 DEF AbandonDrained, storage, owner, at, Awake, Structure, TypeOK, RestTyped
  <2>2. "drain_asleep" \in Labels /\ Awake("drain_asleep") = "drain"
    BY DEF Labels, Awake
  <2>3. QED
    BY <2>1, <2>2, StayKeeps
<1>4. QED
  BY <1>1, <1>2, <1>3

\* ReclaimFrame unmaps its victim and has it to itself.
LEMMA ReclaimedKeeps ==
    ASSUME Structure, Counting, NEW t \in Threads, Reclaimed(t),
           \/ at(t) = "revalidate" /\ StillVictim(t, 0)
           \/ at(t) = "recheck" /\ StillVictim(t, 1),
           UNCHANGED <<free_list, evictable, guards, status, disk, phase, err>>
    PROVE  Structure'
<1>1. PICK f, p : f = loc[t].victim /\ p = loc[t].peeked
  OBVIOUS
<1> DEFINE l == [loc[t] EXCEPT !.frame = f, !.victim = None, !.peeked = None]
           a == IF loc[t].op = "new" THEN "allocate" ELSE "publish"
<1>2. /\ Goto(t, a) /\ Local(t, l) /\ frame' = [frame EXCEPT ![f] = FreeFrame] /\ table' = [table EXCEPT ![p] = None]
      /\ frame[f].state = "Resident" /\ frame[f].page_id = p
  BY <1>1 DEF Reclaimed, Acquired, StillVictim
<1>3. CallOK(at(t), loc[t]) /\ GuardsOK(t) /\ loc[t] \in CallType
  BY DEF Structure, TypeOK
<1>4. f \in Frames /\ p \in Pages /\ NeedsFrame(loc[t])
  BY <1>1, <1>3 DEF CallOK, PinsVictimAt, ReclaimAt
<1>5. l \in CallType /\ l.op = loc[t].op /\ l.page = loc[t].page /\ l.frame = f
  BY <1>3, <1>4 DEF CallType
<1>6. a \in {"allocate", "publish"} /\ (a = "publish" <=> l.op # "new")
  BY <1>5
<1> HIDE DEF l, a
<1>7. CallOK(a, l) /\ (a = "publish" => l.op \in Fetches)
  BY <1>4, <1>5, <1>6 DEF CallOK, FetchAt, ReclaimAt, FlushAt, NeedsFrame, OnFrame, OnPage, PinsFrameAt, PinsVictimAt, DeleteHolds, Fetches, Reclaims
<1>8. a \in {"push", "publish"} => \A g \in guards[t] : g.page # l.page
  BY <1>3, <1>5, <1>6, <1>7 DEF GuardsOK, ReclaimAt
<1>9. PinsOf(f) \subseteq {t} /\ GuardPins(f) = {} /\ \A x \in Frames \ {f} : ~PinnedBy(at(t), loc[t], x)
  <2>1. CASE at(t) = "revalidate" /\ StillVictim(t, 0)
    <3>1. frame[f].pin_count = 0
      BY <1>1, <2>1 DEF StillVictim
    <3>2. QED
      BY <1>4, <2>1, <3>1, NoPins DEF PinnedBy, PinsFrameAt, PinsVictimAt
  <2>2. CASE at(t) = "recheck" /\ StillVictim(t, 1)
    <3>1. frame[f].pin_count = 1
      BY <1>1, <2>2 DEF StillVictim
    <3>2. t \in PinsOf(f) /\ \A x \in Frames \ {f} : ~PinnedBy(at(t), loc[t], x)
      BY <1>1, <2>2 DEF PinsOf, PinnedBy, PinsFrameAt, PinsVictimAt
    <3>3. QED
      BY <1>4, <3>1, <3>2, OnePin
  <2>3. QED
    BY <2>1, <2>2
<1>10. Role(at(t), loc[t]) = "none"
  BY DEF Role, PrivateAt, LoadAt
<1>11. (\A u \in Threads : ~Owns(u, f)) /\ (\A q \in Pages : table[q] = f <=> q = p) /\ ~Listed(f)
  BY <1>2, <1>4, <1>9, <1>10, Vacant
<1>12. table' \in [Pages -> Frames \cup {None}] /\ \A q \in Pages : table'[q] = IF table[q] = f THEN None ELSE table[q]
  BY <1>2, <1>4, <1>11 DEF Structure, TypeOK
<1>13. RestTyped'
  BY DEF Structure, TypeOK, RestTyped
<1>14. a \in {"push", "publish", "allocate", "unevict"} /\ (at(t) \in {"peek", "revalidate"} => loc[t].victim = f)
  BY <1>1, <1>6
<1>15. /\ \A u \in Threads \ {t} : ~Owns(u, f)
       /\ ~Listed(f) /\ (Role(at(t), loc[t]) # "none" => loc[t].frame = f)
       /\ UNCHANGED <<free_list, evictable, guards>>
  BY <1>10, <1>11
<1>16. Goto(t, a) /\ (Local(t, l) \/ (UNCHANGED loc /\ l = loc[t])) /\ frame' = [frame EXCEPT ![f] = FreeFrame]
  BY <1>2
<1>17. f \in Frames /\ l \in CallType /\ l.frame = f /\ CallOK(a, l)
  BY <1>4, <1>5, <1>7
<1>18. QED
  BY <1>8, <1>9, <1>12, <1>13, <1>14, <1>15, <1>16, <1>17, FreeUp

\* ReclaimFrame under the shard: it declines, reclaims, or pins a dirty victim.
LEMMA RevalidateKeeps ==
    ASSUME Structure, Counting, NEW t \in Threads, Revalidate(t)
    PROVE  Structure'
<1>1. UNCHANGED <<free_list, evictable, guards, status, disk, phase, err>> /\ at(t) = "revalidate" /\ RestTyped'
  BY DEF Revalidate, storage, owner, at, Awake, Structure, TypeOK, RestTyped
<1>2. CallOK("revalidate", loc[t]) /\ GuardsOK(t) /\ loc[t] \in CallType
  BY <1>1 DEF Structure, TypeOK
<1>3. CASE ~StillVictim(t, 0) /\ Decline(t) /\ Goto(t, "evict") /\ UNCHANGED <<frame, table>>
  <2>1. frame[loc[t].victim].state = "Resident" /\ frame[loc[t].victim].pin_count = 0 => ~WillFind(t, loc[t].victim)
    BY <1>1, <1>3 DEF StillVictim, WillFind
  <2>2. QED
    BY <1>1, <1>3, <2>1, DeclineKeeps
<1>4. CASE StillVictim(t, 0) /\ Reclaimed(t)
  BY <1>1, <1>4, ReclaimedKeeps
<1>5. CASE /\ StillVictim(t, 0) /\ frame' = [frame EXCEPT ![loc[t].victim].pin_count = @ + 1]
           /\ Goto(t, "flush") /\ UNCHANGED <<table, loc>>
  <2>1. loc[t].victim \in Frames /\ NeedsFrame(loc[t]) /\ loc[t].peeked \in Pages
    BY <1>2 DEF CallOK, ReclaimAt
  <2>2. frame[loc[t].victim].state = "Resident" /\ frame[loc[t].victim].page_id = loc[t].peeked
    BY <1>5 DEF StillVictim
  <2>3. CallOK("flush", loc[t]) /\ "flush" \in Labels /\ Awake("flush") = "flush"
    BY <1>2, <2>1 DEF CallOK, FetchAt, ReclaimAt, FlushAt, NeedsFrame, OnFrame, OnPage, PinsFrameAt, PinsVictimAt, DeleteHolds, Fetches, Reclaims, Labels, Awake
  <2>4. loc[t].op \in Fetches => \A g \in guards[t] : g.page # loc[t].page
    BY <1>1, <1>2 DEF GuardsOK, ReclaimAt
  <2>5. at(t) \in FreeAt
    BY <1>1 DEF FreeAt
  <2>6. QED
    BY <1>1, <1>2, <1>5, <2>1, <2>2, <2>3, <2>4, <2>5, PinUp
<1>6. QED
  BY <1>3, <1>4, <1>5 DEF Revalidate

\* ReclaimFrame after the writeback.
LEMMA RecheckKeeps ==
    ASSUME Structure, Counting, NEW t \in Threads, Recheck(t)
    PROVE  Structure'
<1>1. UNCHANGED <<free_list, evictable, guards, status, disk, phase, err>> /\ at(t) = "recheck"
  BY DEF Recheck, storage, owner, at, Awake
<1>2. CASE StillVictim(t, 1) /\ Reclaimed(t)
  BY <1>1, <1>2, ReclaimedKeeps
<1>3. CASE Goto(t, "unpin_victim") /\ UNCHANGED <<frame, table, loc>>
  BY <1>3, FlushKeeps
<1>4. QED
  BY <1>2, <1>3 DEF Recheck

\* DeletePage vacates the frame of a cached page.
LEMMA VacateKeeps ==
    ASSUME Structure, Counting, NEW t \in Threads, Vacate(t)
    PROVE  Structure'
<1>1. CASE table[loc[t].page] = None
  BY <1>1, VacateNoneKeeps
<1>2. CASE table[loc[t].page] # None
  <2>1. PICK f, p : f = table[loc[t].page] /\ p = loc[t].page
    OBVIOUS
  <2> DEFINE l == [loc[t] EXCEPT !.frame = f]
  <2>2. /\ frame[f].pin_count = 0 /\ frame' = [frame EXCEPT ![f] = FreeFrame] /\ table' = [table EXCEPT ![p] = None]
        /\ Local(t, l) /\ Goto(t, "unevict") /\ at(t) = "delete"
        /\ UNCHANGED <<free_list, evictable, guards, status, phase, err>>
    BY <1>2, <2>1 DEF Vacate, owner, at, Awake
  <2>3. CallOK("delete", loc[t]) /\ loc[t] \in CallType
    BY <2>2 DEF Structure, TypeOK
  <2>4. p \in Pages
    BY <2>1, <2>3 DEF CallOK
  <2>5. f \in Frames /\ frame[f].state \in {"Loading", "Resident"} /\ frame[f].page_id = p
    BY <1>2, <2>1, <2>4, Names DEF Structure, MappedOK
  <2>6. l \in CallType /\ l.op = loc[t].op /\ l.page = loc[t].page /\ l.frame = f
    BY <2>3, <2>5 DEF CallType
  <2> HIDE DEF l
  <2>7. CallOK("unevict", l)
    BY <2>3, <2>5, <2>6 DEF CallOK, FetchAt, ReclaimAt, FlushAt, NeedsFrame, OnFrame, OnPage, PinsFrameAt, PinsVictimAt, DeleteHolds, Fetches, Reclaims
  <2>8. PinsOf(f) = {} /\ GuardPins(f) = {}
    BY <2>2, <2>5, NoPins
  <2>9. /\ Role(at(t), loc[t]) = "none" /\ (\A x : ~PinnedBy(at(t), loc[t], x))
    BY <2>2 DEF Role, PrivateAt, LoadAt, PinnedBy, PinsFrameAt, PinsVictimAt
  <2>10. (\A u \in Threads : ~Owns(u, f)) /\ (\A q \in Pages : table[q] = f <=> q = p) /\ ~Listed(f)
    BY <2>5, <2>8, <2>9, Vacant
  <2>11. table' \in [Pages -> Frames \cup {None}] /\ \A q \in Pages : table'[q] = IF table[q] = f THEN None ELSE table[q]
    BY <2>2, <2>4, <2>10 DEF Structure, TypeOK
  <2>12. RestTyped'
    <3>1. disk' \in [Pages -> Content]
      BY DEF Vacate, Structure, TypeOK, Content
    <3>2. QED
      BY <2>2, <3>1 DEF Structure, TypeOK, RestTyped
  <2>13. PinsOf(f) \subseteq {t} /\ at(t) \notin {"peek", "revalidate"}
    BY <2>2, <2>8
  <2>14. QED
    BY <2>2, <2>5, <2>6, <2>7, <2>8, <2>9, <2>10, <2>11, <2>12, <2>13, FreeUp
<1>3. QED
  BY <1>1, <1>2

\* NewPage maps its page.
LEMMA InsertNewKeeps ==
    ASSUME Structure, Counting, NEW t \in Threads, InsertNew(t)
    PROVE  Structure'
<1>1. UNCHANGED <<frame, free_list, evictable, guards, loc, status, disk, err>> /\ at(t) = "insert" /\ pc[t] = "insert"
  BY DEF InsertNew, storage, at, Awake
<1>2. CallOK("insert", loc[t]) /\ GuardsOK(t) /\ PinnedOK(t) /\ OwnerOK(t) /\ loc[t] \in CallType /\ pc \in [Threads -> Labels]
  BY <1>1 DEF Structure, TypeOK
<1>3. CASE table[loc[t].page] # None
  <2>1. UNCHANGED <<table, pc>> /\ phase' = "aborted"
    BY <1>3 DEF InsertNew
  <2>2. Goto(t, "insert") /\ "insert" \in Labels /\ Awake("insert") = at(t) /\ RestTyped'
    BY <1>1, <1>2, <2>1 DEF Goto, Labels, Awake, RestTyped, Structure, TypeOK
  <2>3. QED
    BY <1>1, <2>1, <2>2, StayKeeps
<1>4. CASE table[loc[t].page] = None
  <2>1. PICK f, p : f = loc[t].frame /\ p = loc[t].page
    OBVIOUS
  <2>2. table' = [table EXCEPT ![p] = f] /\ Goto(t, "latch") /\ UNCHANGED phase
    BY <1>4, <2>1 DEF InsertNew
  <2>3. f \in Frames /\ p \in Pages /\ loc[t].op = "new"
    BY <1>2, <2>1 DEF CallOK, PinsFrameAt
  <2>4. /\ frame[f].page_id = p /\ frame[f].state = "Resident" /\ (\A g \in guards[t] : g.frame # f)
        /\ frame[f] \in FrameType
    BY <1>1, <1>2, <2>1, <2>3 DEF PinnedOK, PinsFrameAt, StatesAt, LoadAt, GuardsOK, Structure, TypeOK
  <2>5. Role(at(t), loc[t]) = "insert" /\ Role("latch", loc[t]) = "none"
    BY <1>1 DEF Role, PrivateAt, LoadAt
  <2>6. ~Listed(f) /\ \A u \in Threads \ {t} : ~Owns(u, f)
    <3>1. Owns(t, f)
      BY <2>1, <2>5 DEF Owns
    <3>2. QED
      BY <2>1, <2>3, <2>5, <3>1 DEF Structure, ListedOK, OwnersDiffer
  <2>7. \A q \in Pages : table[q] # f
    <3>1. \A q \in Pages : table[q] = f => q = p
      BY <2>3, <2>4, Names DEF Structure, MappedOK
    <3>2. QED
      BY <1>4, <2>1, <2>3, <3>1, Names
  <2>8. table' \in [Pages -> Frames \cup {None}] /\ \A q \in Pages : table'[q] = IF q = p THEN f ELSE table[q]
    BY <2>2, <2>3 DEF Structure, TypeOK
  <2>9. \A x : /\ PinnedBy(at(t), loc[t], x) <=> x = f
               /\ PinnedBy("latch", loc[t], x) <=> x = f
    BY <1>1, <2>1 DEF PinnedBy, PinsFrameAt, PinsVictimAt
  <2>10. frame[f].pin_count # 0
    <3>1. t \in PinsOf(f)
      BY <2>9 DEF PinsOf
    <3>2. QED
      BY <2>3, <3>1, SomePin
  <2>11. /\ free_list' \in Seq(Frames) /\ ListOK' /\ RestTyped' /\ \A x \in Frames : Listed(x)' <=> Listed(x)
    BY <1>1, <2>2, SameList
  <2>12. /\ "latch" \in Labels /\ "latch" = Awake("latch") /\ "latch" \in PinsFrameAt
         /\ "latch" \notin PinsVictimAt \cup ReclaimAt \cup FlushAt \cup FetchAt \cup {"unlatch", "unpin"}
         /\ "Resident" \in StatesAt("latch")
    BY DEF Labels, Awake, PinsFrameAt, PinsVictimAt, ReclaimAt, FlushAt, FetchAt, StatesAt, LoadAt
  <2>13. CallOK("latch", loc[t])
    BY <1>2, <2>1, <2>3 DEF CallOK, FetchAt, ReclaimAt, FlushAt, NeedsFrame, OnFrame, OnPage, PinsFrameAt, PinsVictimAt, DeleteHolds, Fetches, Reclaims
  <2>14. Apart(t, f, frame[f])
    BY <2>6 DEF Apart
  <2>15. Filed(t, "latch", loc[t], f, frame[f])
    BY <1>4, <2>1, <2>3, <2>4, <2>6, <2>7, <2>8, <2>10, <2>11 DEF Filed
  <2>16. Parted(t, "latch", loc[t], f, frame[f])
    BY <1>1, <2>1, <2>3, <2>4, <2>5, <2>12 DEF Parted
  <2>17. Balanced(t, "latch", loc[t], f, frame[f])
    BY <2>9 DEF Balanced
  <2>18. frame' = [frame EXCEPT ![f] = frame[f]]
    BY <1>1 DEF Structure, TypeOK
  <2>19. QED
    BY <1>1, <1>2, <2>2, <2>3, <2>4, <2>11, <2>12, <2>13, <2>14, <2>15, <2>16, <2>17, <2>18, Resettle
<1>5. QED
  BY <1>3, <1>4

(***************************************************************************)
(* The whole.                                                              *)
(***************************************************************************)

\* The pool starts with every frame on the free list.
LEMMA StructureInit ==
    ASSUME Init, Counting
    PROVE  Structure
<1>1. /\ frame = [f \in Frames |-> FreeFrame] /\ table = [p \in Pages |-> None]
      /\ free_list = [i \in 1 .. Capacity |-> i - 1] /\ guards = [t \in Threads |-> {}]
      /\ pc = [t \in Threads |-> "idle"] /\ loc = [t \in Threads |-> NoCall]
  BY DEF Init
<1>2. \A t \in Threads : at(t) = "idle" /\ loc[t] = NoCall /\ guards[t] = {} /\ Role(at(t), loc[t]) = "none"
  BY <1>1 DEF at, Awake, Role, PrivateAt, LoadAt
<1>3. free_list \in Seq(Frames) /\ Len(free_list) = Capacity /\ \A i \in 1 .. Capacity : free_list[i] = i - 1
  <2>1. free_list \in [1 .. Capacity -> Frames]
    BY <1>1, CapacityAssumption DEF Frames
  <2>2. QED
    BY <1>1, <2>1, CapacityAssumption
<1>4. TypeOK
  <2>1. frame \in [Frames -> FrameType]
    BY <1>1 DEF FreeFrame, FrameType, Content
  <2>2. pc \in [Threads -> Labels] /\ loc \in [Threads -> CallType] /\ guards \in [Threads -> SUBSET GuardType]
    BY <1>1, NoCallTyped DEF Labels
  <2>3. table \in [Pages -> Frames \cup {None}] /\ evictable \subseteq Frames
    BY <1>1 DEF Init
  <2>4. status \in [Pages -> Disk!Status] /\ disk \in [Pages -> Content]
    BY DEF Init, Disk!Status, Content
  <2>5. QED
    BY <1>3, <2>1, <2>2, <2>3, <2>4 DEF TypeOK, Init
<1>5. \A t \in Threads : CallOK(at(t), loc[t])
  BY SMTT(30), <1>2 DEF CallOK, FetchAt, ReclaimAt, FlushAt, NeedsFrame, OnFrame, OnPage, PinsFrameAt, PinsVictimAt, DeleteHolds, Fetches, Reclaims, NoCall
<1>6. \A t \in Threads : PinnedOK(t) /\ GuardsOK(t) /\ OwnerOK(t)
  BY <1>2 DEF PinnedOK, GuardsOK, OwnerOK, PinsFrameAt, PinsVictimAt, FetchAt, ReclaimAt, FlushAt
<1>7. ASSUME NEW f \in Frames PROVE FrameOK(f) /\ Counted(f) /\ Home(f) /\ Evictable(f) /\ Listed(f)
  <2>1. frame[f].state = "Free" /\ frame[f].page_id = None /\ frame[f].pin_count = 0
    BY <1>1 DEF FreeFrame
  <2>2. PinsOf(f) = {} /\ GuardPins(f) = {}
    BY <1>2 DEF PinsOf, GuardPins, PinnedBy, PinsFrameAt, PinsVictimAt
  <2>3. Counted(f)
    BY SMTT(30), <2>1, <2>2 DEF Counted, Counting
  <2>4. Listed(f)
    <3>1. f + 1 \in 1 .. Capacity /\ free_list[f + 1] = f
      BY <1>3, CapacityAssumption DEF Frames
    <3>2. QED
      BY <1>3, <3>1 DEF Listed
  <2>5. QED
    BY <2>1, <2>3, <2>4 DEF FrameOK, Home, Evictable
<1>8. (\A p \in Pages : MappedOK(p)) /\ ListOK /\ OwnersDiffer
  BY SMTT(30), <1>1, <1>2, <1>3, CapacityAssumption DEF MappedOK, ListOK, OwnersDiffer
<1>9. ListedOK
  BY <1>1, <1>2 DEF ListedOK, Owns, FreeFrame
<1>10. QED
  BY <1>4, <1>5, <1>6, <1>7, <1>8, <1>9 DEF Structure

\* Every step of the pool keeps the structure.
LEMMA StructureNext ==
    ASSUME Structure, Counting, [Next]_vars
    PROVE  Structure'
<1>1. ASSUME NEW t \in Threads, Step(t) PROVE Structure'
  <2>1. CASE Unpin(t) \/ FetchHit(t) \/ FetchMiss(t) \/ WakeUp(t) \/ Touch(t) \/ Latch(t) \/ Unlatch(t)
    BY <2>1, UnpinKeeps, FetchHitKeeps, MissKeeps, WakeUpKeeps, TouchKeeps, LatchKeeps, UnlatchKeeps
  <2>2. CASE PublishLost(t) \/ Publish(t) \/ Load(t) \/ LoadFails(t) \/ Loaded(t)
    BY <2>2, PublishLostKeeps, PublishKeeps, LoadKeeps, LoadedKeeps
  <2>3. CASE AbandonErase(t) \/ AbandonFail(t) \/ AbandonDrained(t) \/ AbandonPush(t)
    BY <2>3, AbandonEraseKeeps, AbandonKeeps, GivesBackKeep
  <2>4. CASE TryPop(t) \/ TryPopEmpty(t) \/ Evict(t) \/ EvictNone(t) \/ Peek(t) \/ Revalidate(t) \/ Recheck(t)
             \/ UnpinVictim(t) \/ GiveUp(t)
    BY <2>4, TryPopKeeps, MissKeeps, EvictKeeps, ReturnsKeep, PeekKeeps, RevalidateKeeps, RecheckKeeps,
       UnpinVictimKeeps, UnpinKeeps
  <2>5. CASE FlushCheck(t) \/ FlushSample(t) \/ FlushWrite(t) \/ FlushWriteFails(t) \/ FlushMark(t)
    BY <2>5, FlushKeeps, FlushDoneKeeps
  <2>6. CASE PinForFlush(t) \/ Scan(t) \/ ScanNext(t) \/ ScanDone(t) \/ SyncDone(t)
    BY <2>6, PinForFlushKeeps, ScanKeeps, ScanNextKeeps, ReturnsKeep
  <2>7. CASE (\E p \in Pages : Allocate(t, p)) \/ AllocateFails(t) \/ StampNew(t) \/ InsertNew(t)
    BY <2>7, AllocateKeeps, GivesBackKeep, StampNewKeeps, InsertNewKeeps
  <2>8. CASE DeletePinned(t) \/ Vacate(t) \/ Unevict(t) \/ Deallocate(t) \/ DeallocateList(t) \/ DeallocateFails(t)
             \/ GiveBack(t)
    BY <2>8, ReturnsKeep, VacateKeeps, DeallocateKeeps, GiveBackNoneKeeps, GivesBackKeep
  <2>9. QED
    BY <1>1, <2>1, <2>2, <2>3, <2>4, <2>5, <2>6, <2>7, <2>8 DEF Step
<1>2. ASSUME NEW t \in Threads, Drop(t) PROVE Structure'
  BY <1>2, DropReadKeeps, DropWriteKeeps DEF Drop
<1>3. ASSUME NEW t \in Threads, Call(t) \/ Shutdown(t) \/ SpuriousWakeup(t) PROVE Structure'
  BY <1>3, StartKeeps, SpuriousKeeps
<1>4. ASSUME StopAccepting \/ Over \/ UNCHANGED vars PROVE Structure'
  BY <1>4, OthersKeep DEF Over
<1>5. QED
  BY <1>1, <1>2, <1>3, <1>4 DEF Next

=============================================================================
