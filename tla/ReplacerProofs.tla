---------------------------- MODULE ReplacerProofs ----------------------------
(***************************************************************************)
(* The clock of Replacer, for every capacity and every cap of the counts:    *)
(* its inductive invariant, and that it implements CandidateSet.             *)
(***************************************************************************)
EXTENDS Replacer, FiniteSetTheorems, TLAPS

\* Any set of frames is finite, with at most Capacity members.
LEMMA FramesFinite ==
    ASSUME NEW S \in SUBSET Frames
    PROVE  IsFiniteSet(S) /\ Cardinality(S) \in 0 .. Capacity
<1>1. IsFiniteSet(Frames) /\ Cardinality(Frames) = Capacity
  <2>1. 0 \in Int /\ Capacity - 1 \in Int
    BY CapacityAssumption
  <2>2. IsFiniteSet(0 .. Capacity - 1)
        /\ Cardinality(0 .. Capacity - 1) = IF 0 > Capacity - 1 THEN 0 ELSE Capacity - 1 - 0 + 1
    BY <2>1, FS_Interval
  <2>3. QED
    BY <2>2, CapacityAssumption DEF Frames
<1>2. IsFiniteSet(S) /\ Cardinality(S) <= Cardinality(Frames)
  BY <1>1, FS_Subset
<1>3. Cardinality(S) \in Nat
  BY <1>2, FS_CardinalityType
<1>4. QED
  BY <1>1, <1>2, <1>3, CapacityAssumption

\* hand_ moves around the frames.
LEMMA AdvanceType ==
    ASSUME hand \in Frames, Advance
    PROVE  hand' \in Frames
BY CapacityAssumption DEF Frames, Advance

\* The bound of the sweep is a number.
LEMMA SweepBoundType == SweepBound \in Nat
BY CapacityAssumption, kMaxUsageCountAssumption DEF SweepBound

\* A fresh replacer, with no candidate, satisfies the invariant.
LEMMA InductiveInit == Init => Inductive
<1> SUFFICES ASSUME Init PROVE Inductive
  OBVIOUS
<1>1. TypeOK
  BY SweepBoundType, CapacityAssumption, kMaxUsageCountAssumption DEF Init, TypeOK, Frames
<1>2. CountAgrees
  BY FS_EmptySet DEF Init, CountAgrees
<1>3. QED
  BY <1>1, <1>2 DEF Init, Inductive

\* Every step of RecordAccess, SetEvictable and Evict preserves the invariant.
LEMMA InductiveNext == Inductive /\ [Next]_vars => Inductive'
<1> SUFFICES ASSUME Inductive, [Next]_vars PROVE Inductive'
  OBVIOUS
<1> USE CapacityAssumption, kMaxUsageCountAssumption, SweepBoundType
<1>1. IsFiniteSet(evictable) /\ Cardinality(evictable) \in 0 .. Capacity
  BY FramesFinite DEF Inductive, TypeOK
<1>2. ASSUME NEW f \in Frames, RecordAccess(f) PROVE Inductive'
  <2>1. TypeOK'
    BY <1>2 DEF Inductive, TypeOK, RecordAccess
  <2>2. CountAgrees'
    BY <1>2 DEF Inductive, CountAgrees, RecordAccess
  <2>3. (pc = "decrement" => usage_count[hand] > 0 /\ scanned < SweepBound)'
    BY <1>2 DEF Inductive, TypeOK, RecordAccess, SweepBound
  <2>4. (pc \in {"decrement", "claim"} => hand \in evictable)'
    BY <1>2 DEF Inductive, RecordAccess
  <2>5. QED
    BY <2>1, <2>2, <2>3, <2>4 DEF Inductive
<1>3. ASSUME NEW f \in Frames, NEW flag \in BOOLEAN, SetEvictable(f, flag) PROVE Inductive'
  <2>1. evictable' \in SUBSET Frames
    BY <1>3 DEF Inductive, TypeOK, SetEvictable
  <2>2. Cardinality(evictable') \in 0 .. Capacity
    BY <2>1, FramesFinite
  <2>3. evictable_count' = Cardinality(evictable')
    <3>1. CASE flag
      <4>1. f \notin evictable /\ evictable' = evictable \cup {f}
            /\ evictable_count' = evictable_count + 1
        BY Zenon, <1>3, <3>1 DEF SetEvictable
      <4>2. Cardinality(evictable \cup {f}) = Cardinality(evictable) + 1
        BY <1>1, <4>1, FS_AddElement
      <4>3. QED
        BY <4>1, <4>2 DEF Inductive, CountAgrees
    <3>2. CASE ~flag
      <4>1. f \in evictable /\ evictable' = evictable \ {f}
            /\ evictable_count' = evictable_count - 1
        BY <1>3, <3>2 DEF SetEvictable
      <4>2. Cardinality(evictable \ {f}) = Cardinality(evictable) - 1
        BY Zenon, <1>1, <4>1, FS_RemoveElement
      <4>3. QED
        BY <4>1, <4>2 DEF Inductive, CountAgrees
    <3>3. QED
      BY <3>1, <3>2
  <2>4. pc = "idle" /\ pc' = "idle"
    BY <1>3 DEF SetEvictable
  <2>5. TypeOK'
    BY <1>3, <2>1, <2>2, <2>3 DEF Inductive, TypeOK, SetEvictable, SweepBound
  <2>6. QED
    BY <2>3, <2>4, <2>5 DEF Inductive, CountAgrees
<1>4. CASE Evict
  <2>1. TypeOK'
    BY <1>4 DEF Inductive, TypeOK, Evict, SweepBound
  <2>2. evictable_count # 0 => evictable # {}
    BY FS_EmptySet DEF Inductive, CountAgrees
  <2>3. CountAgrees'
    BY <1>4, <2>2 DEF Inductive, CountAgrees, Evict
  <2>4. pc' \in {"idle", "sweep"}
    BY <1>4 DEF Evict
  <2>5. QED
    BY <2>1, <2>3, <2>4 DEF Inductive
<1>5. CASE Sweep
  <2>1. hand' \in Frames
    BY <1>5, AdvanceType DEF Inductive, TypeOK, Sweep
  <2>2. TypeOK'
    BY <1>5, <2>1 DEF Inductive, TypeOK, Sweep, SweepBound
  <2>3. CountAgrees'
    BY <1>5 DEF Inductive, CountAgrees, Sweep
  <2>4. (pc = "decrement" => usage_count[hand] > 0 /\ scanned < SweepBound)'
    BY <1>5 DEF Inductive, TypeOK, Sweep, SweepBound
  <2>5. (pc \in {"decrement", "claim"} => hand \in evictable)'
    BY <1>5 DEF Inductive, Sweep
  <2>6. QED
    BY <2>2, <2>3, <2>4, <2>5 DEF Inductive
<1>6. CASE Decrement
  <2>1. hand' \in Frames
    BY <1>6, AdvanceType DEF Inductive, TypeOK, Decrement
  <2>2. usage_count' \in [Frames -> 0 .. kMaxUsageCount]
    BY <1>6 DEF Inductive, TypeOK, Decrement
  <2>3. scanned' \in 0 .. SweepBound
    BY <1>6 DEF Inductive, TypeOK, Decrement
  <2>4. TypeOK'
    BY <1>6, <2>1, <2>2, <2>3 DEF Inductive, TypeOK, Decrement, SweepBound
  <2>5. CountAgrees'
    BY <1>6 DEF Inductive, CountAgrees, Decrement
  <2>6. pc' = "sweep"
    BY <1>6 DEF Decrement
  <2>7. QED
    BY <2>4, <2>5, <2>6 DEF Inductive
<1>7. CASE Fallback
  <2>1. hand' \in Frames
    BY <1>7, AdvanceType DEF Inductive, TypeOK, Fallback
  <2>2. TypeOK'
    BY <1>7, <2>1 DEF Inductive, TypeOK, Fallback, SweepBound
  <2>3. CountAgrees'
    BY <1>7 DEF Inductive, CountAgrees, Fallback
  <2>4. pc' # "decrement"
    BY <1>7 DEF Fallback
  <2>5. (pc \in {"decrement", "claim"} => hand \in evictable)'
    BY <1>7 DEF Inductive, Fallback
  <2>6. QED
    BY <2>2, <2>3, <2>4, <2>5 DEF Inductive
<1>8. CASE ClaimVictim
  <2>1. hand' \in Frames
    BY <1>8, AdvanceType DEF Inductive, TypeOK, ClaimVictim
  <2>2. hand \in evictable /\ evictable' = evictable \ {hand}
        /\ evictable_count' = evictable_count - 1
    BY <1>8 DEF Inductive, ClaimVictim
  <2>3. Cardinality(evictable \ {hand}) = Cardinality(evictable) - 1
    BY Zenon, <1>1, <2>2, FS_RemoveElement
  <2>4. evictable_count' = Cardinality(evictable')
    BY <2>2, <2>3 DEF Inductive, CountAgrees
  <2>5. evictable' \in SUBSET Frames
    BY <2>2 DEF Inductive, TypeOK
  <2>6. evictable_count' \in 0 .. Capacity
    BY <2>4, <2>5, FramesFinite
  <2>7. usage_count' \in [Frames -> 0 .. kMaxUsageCount]
    BY <1>8 DEF Inductive, TypeOK, ClaimVictim
  <2>8. pc' = "idle" /\ scanned' = 0 /\ evicted' = hand
    BY <1>8 DEF ClaimVictim
  <2>9. TypeOK'
    BY <2>1, <2>5, <2>6, <2>7, <2>8 DEF Inductive, TypeOK, SweepBound
  <2>10. QED
    BY <2>4, <2>8, <2>9 DEF Inductive, CountAgrees
<1>9. CASE UNCHANGED vars
  BY <1>9 DEF Inductive, TypeOK, CountAgrees, vars, SweepBound
<1>10. QED
  BY <1>2, <1>3, <1>4, <1>5, <1>6, <1>7, <1>8, <1>9 DEF Next, Sweeping

\* The invariant holds in every state of every clock: no count leaves its range
\* and evictable_count_ always counts the flags, whatever accesses race a sweep.
THEOREM InductiveInvariance == Spec => []Inductive
<1>1. QED
  BY InductiveInit, InductiveNext, PTL DEF Spec

\* evictable_count_ is exact, so Evict gives up only when nothing is evictable.
THEOREM CountSafety == Spec => []CountAgrees
<1>1. Inductive => CountAgrees
  BY DEF Inductive
<1>2. QED
  BY <1>1, InductiveInvariance, PTL

\* The clock implements the set of candidates that the pool is built on.
THEOREM Refinement == Spec => ImplementsCandidateSet
<1>1. Init => Candidates!CInit
  BY DEF Init, Candidates!CInit
<1>2. ASSUME Inductive, [Next]_vars PROVE [Candidates!CNext]_Candidates!cvars
  <2> SUFFICES ASSUME ~(evictable' = evictable /\ evicted' = evicted) PROVE Candidates!CNext
    BY DEF Candidates!cvars
  <2>1. ASSUME NEW f \in Frames, NEW flag \in BOOLEAN, SetEvictable(f, flag)
        PROVE  Candidates!CNext
    BY <2>1 DEF SetEvictable, Candidates!CNext, Candidates!Add, Candidates!Remove
  <2>2. CASE Evict
    <3>1. evictable_count = 0 /\ evicted' = NoFrame /\ evictable' = evictable
      BY <2>2 DEF Evict
    <3>2. IsFiniteSet(evictable) /\ Cardinality(evictable) = 0
      BY <1>2, <3>1, FramesFinite DEF Inductive, TypeOK, CountAgrees
    <3>3. evictable = {}
      BY <3>2, FS_EmptySet
    <3>4. QED
      BY <3>1, <3>3 DEF Candidates!CNext, Candidates!NothingToEvict
  <2>3. CASE ClaimVictim
    <3>1. hand \in Frames /\ hand \in evictable
      BY <1>2, <2>3 DEF Inductive, TypeOK, ClaimVictim
    <3>2. evictable' = evictable \ {hand} /\ evicted' = hand
      BY <2>3 DEF ClaimVictim
    <3>3. QED
      BY <3>1, <3>2 DEF Candidates!CNext, Candidates!Evicted, Candidates!Claim
  <2>4. QED
    BY <1>2, <2>1, <2>2, <2>3
    DEF Next, Sweeping, RecordAccess, Sweep, Decrement, Fallback, vars
<1>3. QED
  BY <1>1, <1>2, InductiveInvariance, PTL DEF Spec, ImplementsCandidateSet, Candidates!CSpec

=============================================================================
