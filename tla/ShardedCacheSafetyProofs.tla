----------------------- MODULE ShardedCacheSafetyProofs -----------------------
(***************************************************************************)
(* What the shards promise, for every value of the constants: capacity     *)
(* (CapacityHolds), counters (CountersHold), complete scans                *)
(* (ScansAreComplete), no early expiry (ExpiryIsNeverEarly), eviction of   *)
(* the entry used longest ago (EvictionIsLRU), the memory counter          *)
(* (MemoryHolds), and all in all what ExpiringMap does                     *)
(* (CacheIsExpiringMap).                                                   *)
(*                                                                         *)
(* The first five follow from the invariant Safe, kept on top of IInv: a *)
(* shard is over its capacity only while the set that overfilled it is at  *)
(* work, a list runs from the last use to the first, a thread's reading of *)
(* the clock is past, a scan has collected what it should up to its shard, *)
(* and the hit and miss counters lag the look-ups by the calls under way.  *)
(* The sum over the shards needs no induction: what is cached is put, one  *)
(* to one, into the slots i * NumShards + s below max_keys that the        *)
(* constructor gave to shard s.  The memory counter does need the sum (of  *)
(* InductionLemmas): every step moves it as it moves one key's charge      *)
(* (MemorySteps), and what is to be charged is there (ChargedIsThere).     *)
(*                                                                         *)
(* An initial state is one of the map, and each step takes effect as one   *)
(* operation of the map, on the key and at the time the call is about, or  *)
(* as nothing.  The map's steps are guarded by what the threads' frames    *)
(* say, so this part has IInv (the frames' types, the list that names what *)
(* an eviction takes), Safe (clock readings are past) and Mapped.          *)
(***************************************************************************)
EXTENDS ShardedCacheProofs, InductionLemmas, FunctionTheorems

-----------------------------------------------------------------------------
(* The invariants *)

\* The set that has written its entry into s may still have to evict for it.
Overflowing(s) ==
  \E t \in Threads : /\ pc[t] \in {"set_charge", "set_evict"}
                     /\ ShardOf[frame[t].key] = s

\* A shard is over its capacity by one entry at most, and only while the set
\* that wrote the entry is at work.
FullAtMost ==
  \A s \in Shards :
    Cardinality(Cached(s)) <= Capacity[s] + (IF Overflowing(s) THEN 1 ELSE 0)

\* What thread t has collected in shard s.
Collected(t, s) == {i \in frame[t].items : ShardOf[i.key] = s}

\* A scan has collected from the shards it is past, from each no more than
\* that shard may hold.
CollectedFits ==
  \A t \in Threads :
    /\ IsFiniteSet(frame[t].items)
    /\ \A s \in Shards : /\ Cardinality(Collected(t, s)) <= Capacity[s]
                         /\ s >= frame[t].shard => Collected(t, s) = {}

\* Nobody acts on a time to come.
TimesArePast == rnow <= clock /\ \A t \in Threads : frame[t].now <= clock

\* The list is in the order of last use.
UsedInOrder ==
  /\ \A k \in Keys : lastUse[k] <= uses
  /\ \A s \in Shards : \A i, j \in 1 .. Len(lru[s]) :
       i < j => lastUse[lru[s][j]] < lastUse[lru[s][i]]

LookingUp == {t \in Threads : pc[t] \in {"get_peek", "get_take"}}

ScansSince == \A t \in Threads : frame[t].since <= uses

Safe == /\ FullAtMost /\ CollectedFits /\ TimesArePast /\ UsedInOrder /\ ScansSince
        /\ CountersAgree /\ IsFiniteSet(LookingUp) /\ ScanMissesNothingSteady

-----------------------------------------------------------------------------
(* The shares of the shards add up to max_keys *)

\* The place of the i-th entry of shard s when the shards take turns.
Slot(s, i) == i * NumShards + s

\* Entries of two shards, or two entries of one, have places of their own.
LEMMA SlotsDiffer ==
  ASSUME NEW s \in Shards, NEW u \in Shards, NEW i \in Nat, NEW j \in Nat,
         Slot(s, i) = Slot(u, j)
  PROVE  s = u /\ i = j
<1> DEFINE N == NumShards
<1>1. N \in Nat \ {0} /\ s \in 0 .. N - 1 /\ u \in 0 .. N - 1
  BY ConstantsOK DEF Shards
<1>2. i * N + s = j * N + u
  BY DEF Slot
<1> HIDE DEF N
<1>3. ASSUME NEW a \in Nat, NEW b \in Nat, a < b PROVE a * N + N <= b * N
  <2>1. b - a - 1 \in Nat /\ b = a + 1 + (b - a - 1)
    BY <1>3
  <2>2. ASSUME NEW c \in Nat PROVE a * N + N <= (a + 1 + c) * N
    <3>1. (a + 1 + c) * N = a * N + N + c * N
      BY <1>1
    <3>2. c * N \in Nat /\ a * N \in Nat
      BY <1>1
    <3> QED BY <3>1, <3>2, <1>1
  <2> QED BY <2>1, <2>2
<1>4. i * N \in Nat /\ j * N \in Nat
  BY <1>1
<1>5. ~(i < j)
  BY <1>1, <1>2, <1>3, <1>4
<1>6. ~(j < i)
  BY <1>1, <1>2, <1>3, <1>4
<1>7. i = j
  BY <1>5, <1>6
<1> QED BY <1>1, <1>2, <1>4, <1>7

\* An entry within the capacity of its shard has its place below max_keys.
LEMMA SlotsFit ==
  ASSUME NEW s \in Shards, NEW i \in Nat, i < Capacity[s]
  PROVE  Slot(s, i) \in 0 .. MaxKeys - 1
<1> DEFINE N == NumShards
           q == MaxKeys \div NumShards
           r == MaxKeys % NumShards
<1>1. N \in Nat \ {0} /\ s \in 0 .. N - 1 /\ MaxKeys \in Nat
  BY ConstantsOK DEF Shards
<1>2. q \in Nat
  BY <1>1, QuotientType
<1>3. r \in Nat /\ MaxKeys = q * N + r
  BY <1>1, Z3
<1>4. i < q + (IF s < r THEN 1 ELSE 0)
  BY DEF Capacity
<1>5. Slot(s, i) = i * N + s
  BY DEF Slot
<1> HIDE DEF N, q, r
<1>6. i * N \in Nat /\ q * N \in Nat
  BY <1>1, <1>2
<1>7. CASE i = q
  <2>1. s < r
    BY <1>2, <1>4, <1>7
  <2> QED BY <2>1, <1>1, <1>3, <1>5, <1>6, <1>7
<1>8. CASE i # q
  <2>1. q - i - 1 \in Nat /\ q = i + 1 + (q - i - 1)
    BY <1>2, <1>3, <1>4, <1>8
  <2>2. ASSUME NEW c \in Nat PROVE i * N + N <= (i + 1 + c) * N
    <3>1. (i + 1 + c) * N = i * N + N + c * N /\ c * N \in Nat
      BY <1>1
    <3> QED BY <3>1, <1>1, <1>6
  <2>3. i * N + N <= q * N
    BY <2>1, <2>2
  <2> QED BY <2>3, <1>1, <1>3, <1>5, <1>6
<1> QED BY <1>7, <1>8

\* If every shard has its share of X, and those of E one more, then X has
\* max_keys elements and one for each of E at most.
LEMMA SumOfShares ==
  ASSUME NEW X, IsFiniteSet(X), NEW home \in [X -> Shards], NEW E \in SUBSET Shards,
         \A s \in Shards : Cardinality({x \in X : home[x] = s})
                             <= Capacity[s] + (IF s \in E THEN 1 ELSE 0)
  PROVE  Cardinality(X) <= MaxKeys + Cardinality(E)
<1> DEFINE Of(s) == {x \in X : home[x] = s}
           n(s) == Cardinality(Of(s))
<1>1. ASSUME NEW s \in Shards
      PROVE  /\ IsFiniteSet(Of(s)) /\ n(s) \in Nat
             /\ n(s) <= Capacity[s] + (IF s \in E THEN 1 ELSE 0)
             /\ ExistsBijection(1 .. n(s), Of(s))
  <2>1. Of(s) \in SUBSET X
    OBVIOUS
  <2>2. IsFiniteSet(Of(s))
    BY <2>1, FS_Subset
  <2> QED BY <2>2, FS_CardinalityType
\* place[s] numbers the elements of s from 1
<1> DEFINE number(s) == CHOOSE f : f \in Bijection(1 .. n(s), Of(s))
           place == [x \in X |-> CHOOSE i \in 1 .. n(home[x]) : number(home[x])[i] = x]
<1>2. ASSUME NEW s \in Shards PROVE number(s) \in Bijection(1 .. n(s), Of(s))
  BY <1>1 DEF ExistsBijection
<1>3. ASSUME NEW x \in X
      PROVE  place[x] \in 1 .. n(home[x]) /\ number(home[x])[place[x]] = x
  <2>1. home[x] \in Shards /\ x \in Of(home[x])
    OBVIOUS
  <2>2. \E i \in 1 .. n(home[x]) : number(home[x])[i] = x
    <3> DEFINE f == number(home[x])
               S == 1 .. n(home[x])
               T == Of(home[x])
    <3>1. f \in Bijection(S, T) /\ x \in T
      BY <1>2, <2>1
    <3> HIDE DEF f, S, T
    <3>2. \E i \in S : f[i] = x
      BY <3>1 DEF Bijection, Surjection
    <3> QED BY <3>2 DEF f, S
  <2> QED BY <2>2
<1>4. ASSUME NEW x \in X, NEW y \in X, home[x] = home[y], place[x] = place[y] PROVE x = y
  <2>1. number(home[x])[place[x]] = x /\ number(home[y])[place[y]] = y
    BY <1>3
  <2> HIDE DEF number, place
  <2> QED BY <2>1, <1>4
<1>5. \A s \in Shards : Capacity[s] \in Nat
  BY CapacityType
<1>6. \A x \in X : /\ place[x] \in Nat \ {0}
                   /\ place[x] <= Capacity[home[x]] + (IF home[x] \in E THEN 1 ELSE 0)
  <2> SUFFICES ASSUME NEW x \in X
               PROVE  /\ place[x] \in Nat \ {0}
                      /\ place[x] <= Capacity[home[x]] + (IF home[x] \in E THEN 1 ELSE 0)
    OBVIOUS
  <2> DEFINE s == home[x]
  <2>1. s \in Shards
    OBVIOUS
  <2>2. /\ n(s) \in Nat /\ n(s) <= Capacity[s] + (IF s \in E THEN 1 ELSE 0)
        /\ place[x] \in 1 .. n(s) /\ Capacity[s] \in Nat
    BY <1>1, <1>3, <1>5, <2>1
  <2> HIDE DEF place, n
  <2> QED BY <2>2
<1> HIDE DEF place
<1> DEFINE In  == {x \in X : place[x] <= Capacity[home[x]]}
           Out == X \ In
<1>7. IsFiniteSet(In) /\ IsFiniteSet(Out) /\ Cardinality(X) <= Cardinality(In) + Cardinality(Out)
  <2>1. In \in SUBSET X /\ Out \in SUBSET X
    OBVIOUS
  <2>2. IsFiniteSet(In) /\ IsFiniteSet(Out)
    BY <2>1, FS_Subset
  <2>3. X = In \cup Out /\ In \cap Out = {}
    OBVIOUS
  <2> HIDE DEF In, Out
  <2>4. Cardinality(X) = Cardinality(In) + Cardinality(Out) - Cardinality({})
    BY <2>2, <2>3, FS_Union
  <2> QED BY <2>2, <2>4, FS_EmptySet, FS_CardinalityType
<1>8. Cardinality(In) <= MaxKeys
  <2> DEFINE f == [x \in In |-> Slot(home[x], place[x] - 1)]
  <2>1. ASSUME NEW x \in In
        PROVE  home[x] \in Shards /\ place[x] - 1 \in Nat /\ place[x] - 1 < Capacity[home[x]]
    BY <1>5, <1>6
  <2>2. f \in [In -> 0 .. MaxKeys - 1]
    BY <2>1, SlotsFit
  <2>3. ASSUME NEW x \in In, NEW y \in In, f[x] = f[y] PROVE x = y
    <3>1. home[x] = home[y] /\ place[x] - 1 = place[y] - 1
      BY <2>1, <2>3, SlotsDiffer
    <3>2. place[x] = place[y]
      BY <3>1, <1>6
    <3> QED BY <3>1, <3>2, <1>4
  <2> HIDE DEF f, In
  <2>4. f \in Injection(In, 0 .. MaxKeys - 1)
    BY <2>2, <2>3, Fun_IsInj
  <2>5. /\ IsFiniteSet(0 .. MaxKeys - 1)
        /\ Cardinality(0 .. MaxKeys - 1) = IF 0 > MaxKeys - 1 THEN 0 ELSE MaxKeys - 1 - 0 + 1
        /\ MaxKeys \in Nat
    BY FS_Interval, ConstantsOK
  <2>6. Cardinality(In) <= Cardinality(0 .. MaxKeys - 1)
    BY <2>4, <2>5, FS_Injection
  <2>7. Cardinality(0 .. MaxKeys - 1) = MaxKeys
    BY <2>5
  <2> QED BY <2>6, <2>7
<1>9. Cardinality(Out) <= Cardinality(E) /\ Cardinality(E) \in Nat
  <2> DEFINE f == [x \in Out |-> home[x]]
  <2>1. ASSUME NEW x \in Out PROVE home[x] \in E /\ place[x] = Capacity[home[x]] + 1
    BY <1>5, <1>6
  <2>2. f \in [Out -> E]
    BY <2>1
  <2>3. ASSUME NEW x \in Out, NEW y \in Out, f[x] = f[y] PROVE x = y
    BY <2>1, <2>3, <1>4
  <2> HIDE DEF f, Out
  <2>4. f \in Injection(Out, E)
    BY <2>2, <2>3, Fun_IsInj
  <2>5. IsFiniteSet(E)
    <3>1. IsFiniteSet(Shards)
      BY FS_Interval, ConstantsOK DEF Shards
    <3> QED BY <3>1, FS_Subset
  <2> QED BY <2>4, <2>5, FS_Injection, FS_CardinalityType
<1>10. Cardinality(In) \in Nat /\ Cardinality(Out) \in Nat /\ Cardinality(X) \in Nat
  BY <1>7, FS_CardinalityType
<1> HIDE DEF In, Out
<1> QED BY <1>7, <1>8, <1>9, <1>10, ConstantsOK

-----------------------------------------------------------------------------
(* Capacity *)

\* A set that has written stays at it, on the same key, until it unlocks.
LEMMA StaysInside ==
  ASSUME IInv, [Next]_vars, NEW u \in Threads,
         pc[u] \in {"set_charge", "set_evict"}, ~SetUnlock(u)
  PROVE  pc'[u] \in {"set_charge", "set_evict"} /\ frame'[u].key = frame[u].key
<1> USE DEF Goto
<1>0. pc \in [Threads -> Keyed \cup Scanning \cup {"idle", "done"}]
      /\ frame \in [Threads -> Frame]
  BY DEF IInv, TypeOK
<1>1. CASE UNCHANGED <<pc, frame>>
  BY <1>1
<1>2. ASSUME NEW t \in Threads, Call(t) PROVE t # u /\ UNCHANGED <<pc[u], frame[u]>>
  BY <1>0, <1>2 DEF Call, CallSet, CallGet, CallDel, CallScan, Begin
<1>3. ASSUME NEW t \in Threads,
             SetRefused(t) \/ SetLock(t) \/ SetWrite(t) \/ SetUnlock(t)
      PROVE  t # u /\ UNCHANGED <<pc[u], frame[u]>>
  BY <1>0, <1>3 DEF SetRefused, SetLock, SetWrite, SetUnlock, Finish
<1>4. ASSUME NEW t \in Threads,
             \/ GetPeek(t) \/ GetMiss(t) \/ GetExpired(t) \/ GetHit(t)
             \/ DelErase(t) \/ DelAbsent(t) \/ ScanShard(t) \/ ScanReturn(t) \/ Return(t)
      PROVE  t # u /\ UNCHANGED <<pc[u], frame[u]>>
  BY <1>0, <1>4 DEF GetPeek, GetMiss, GetExpired, GetHit, DelErase, DelAbsent,
     ScanShard, ScanReturn, Return, Finish
<1>5. ASSUME NEW t \in Threads, SetCharge(t) \/ SetEvict(t)
      PROVE  pc'[u] \in {"set_charge", "set_evict"} /\ frame'[u].key = frame[u].key
  BY <1>0, <1>5 DEF SetCharge, SetEvict
<1>6. CASE Reap \/ Destroy \/ Tick \/ UNCHANGED vars
  BY <1>1, <1>6 DEF Reap, ReaperTest, ReaperWake, ReapLock, ReapErase, ReapUnlock,
     Destroy, Tick, vars
<1> QED BY <1>2, <1>3, <1>4, <1>5, <1>6 DEF Next, Work

\* The cached keys of a shard are finitely many.
LEMMA CachedFinite ==
  ASSUME NEW s PROVE IsFiniteSet(Cached(s)) /\ Cardinality(Cached(s)) \in Nat
<1>1. Cached(s) \in SUBSET Keys
  BY DEF Cached
<1> QED BY <1>1, ConstantsOK, FS_Subset, FS_CardinalityType

\* A set writes into a shard that has room for what is there, and leaves it
\* when that is so again.
LEMMA FullAtMostKept ==
  ASSUME IInv, FullAtMost, [Next]_vars PROVE FullAtMost'
<1> SUFFICES ASSUME NEW s \in Shards
             PROVE  Cardinality(Cached(s)') <= Capacity[s] + (IF Overflowing(s)' THEN 1 ELSE 0)
  BY DEF FullAtMost, Capacity
<1> DEFINE old == Cardinality(Cached(s))
           new == Cardinality(Cached(s)')
<1>1. /\ IsFiniteSet(Cached(s)) /\ old \in Nat /\ Capacity[s] \in Nat
      /\ old <= Capacity[s] + (IF Overflowing(s) THEN 1 ELSE 0)
  BY CachedFinite, CapacityType DEF FullAtMost
<1>2. ASSUME Cached(s)' \subseteq Cached(s) PROVE new \in Nat /\ new <= old
  <2> DEFINE C == Cached(s)'
  <2>1. C \in SUBSET Cached(s)
    BY <1>2
  <2> HIDE DEF C
  <2>2. IsFiniteSet(C) /\ Cardinality(C) <= old /\ Cardinality(C) \in Nat
    BY <1>1, <2>1, FS_Subset, FS_CardinalityType
  <2> QED BY <2>2 DEF C
<1>3. ASSUME NEW t \in Threads, SetWrite(t), ShardOf[frame[t].key] = s,
             Cached(s)' = Cached(s) \cup {frame[t].key}
      PROVE  new <= Capacity[s] + (IF Overflowing(s)' THEN 1 ELSE 0)
  <2>1. pc[t] = "set_write" /\ writer[s] = t
    BY <1>3 DEF SetWrite, Goto, IInv, WriterIsInside, Writing, Setting
  <2>2. ~Overflowing(s)
    BY <2>1 DEF Overflowing, IInv, WriterIsInside, Writing, Setting
  <2>3. Overflowing(s)'
    <3>1. pc'[t] = "set_charge" /\ frame' = frame
      BY <1>3 DEF SetWrite, Goto, IInv, TypeOK
    <3> QED BY <1>3, <3>1 DEF Overflowing
  <2>4. new <= old + 1 /\ new \in Nat
    <3> DEFINE k == frame[t].key
    <3> HIDE DEF k
    <3>1. Cardinality(Cached(s) \cup {k}) \in {old, old + 1}
      BY <1>1, FS_AddElement
    <3> QED BY <3>1, <1>1, <1>3 DEF k
  <2> QED BY <1>1, <2>2, <2>3, <2>4
<1>4. ASSUME Cached(s)' \subseteq Cached(s)
      PROVE  new <= Capacity[s] + (IF Overflowing(s)' THEN 1 ELSE 0)
  <2>1. CASE Overflowing(s) => Overflowing(s)'
    BY <1>1, <1>2, <1>4, <2>1
  <2>2. CASE Overflowing(s) /\ ~Overflowing(s)'
    <3>1. PICK u \in Threads : /\ pc[u] \in {"set_charge", "set_evict"}
                               /\ ShardOf[frame[u].key] = s
      BY <2>2 DEF Overflowing
    <3>2. SetUnlock(u)
      BY <2>2, <3>1, StaysInside DEF Overflowing
    <3>3. old <= Capacity[s]
      BY <1>1, <3>1, <3>2 DEF SetUnlock, Over
    <3> QED BY <1>1, <1>2, <1>4, <3>3
  <2> QED BY <2>1, <2>2
<1> QED BY <1>3, <1>4, CachedSteps

-----------------------------------------------------------------------------
(* Times *)

\* The clock only advances, and the reaper takes its time from the clock.
LEMMA ClockSteps ==
  ASSUME IInv, [Next]_vars
  PROVE  clock' \in {clock, clock + 1} /\ rnow' \in {rnow, clock}
<1> USE DEF reaper
<1>1. ASSUME NEW t \in Threads, Call(t) PROVE UNCHANGED <<clock, rnow>>
  BY <1>1 DEF Call, CallSet, CallGet, CallDel, CallScan, Begin
<1>2. ASSUME NEW t \in Threads, Work(t) PROVE UNCHANGED <<clock, rnow>>
  BY <1>2 DEF Work, SetRefused, SetLock, SetWrite, SetCharge, SetEvict, SetUnlock,
     GetPeek, GetMiss, GetExpired, GetHit, DelErase, DelAbsent,
     ScanShard, ScanReturn, Return
<1>3. CASE Reap \/ Destroy \/ Tick \/ UNCHANGED vars
  BY <1>3 DEF Reap, ReaperTest, ReaperWake, ReapLock, ReapErase, ReapUnlock,
     Destroy, Tick, vars
<1> QED BY <1>1, <1>2, <1>3 DEF Next

\* No call, and no sweep, has a time later than the clock's.
LEMMA TimesKept ==
  ASSUME IInv, TimesArePast, [Next]_vars PROVE TimesArePast'
<1>1. clock \in Nat /\ clock' \in {clock, clock + 1} /\ rnow' \in {rnow, clock}
  BY ClockSteps DEF IInv, TypeOK
<1>2. rnow \in Nat /\ rnow <= clock
  BY DEF IInv, TypeOK, TimesArePast
<1>3. ASSUME NEW u \in Threads PROVE frame'[u].now \in {frame[u].now, clock, 0}
  <2>1. ASSUME ScanShard(u) PROVE frame'[u].now = frame[u].now
    BY <2>1, ScanShardFacts
  <2> QED BY <2>1, FrameSteps
<1>4. ASSUME NEW u \in Threads PROVE frame[u].now \in Nat /\ frame[u].now <= clock
  BY DEF IInv, TypeOK, Frame, TimesArePast
<1> QED BY <1>1, <1>2, <1>3, <1>4 DEF TimesArePast

\* Only these steps count an expiry, and only this one an eviction.
LEMMA CountingSteps ==
  ASSUME [Next]_vars
  PROVE  /\ expirations' # expirations => ReapErase \/ \E t \in Threads : GetExpired(t)
         /\ evictions' # evictions => \E t \in Threads : SetEvict(t)
<1> USE DEF tallies
<1>1. ASSUME NEW t \in Threads, Call(t) PROVE UNCHANGED <<evictions, expirations>>
  BY <1>1 DEF Call, CallSet, CallGet, CallDel, CallScan, Begin
<1>2. ASSUME NEW t \in Threads, Work(t)
      PROVE  /\ expirations' # expirations => GetExpired(t)
             /\ evictions' # evictions => SetEvict(t)
  BY <1>2 DEF Work, SetRefused, SetLock, SetWrite, SetCharge, SetEvict, SetUnlock,
     GetPeek, GetMiss, GetExpired, GetHit, DelErase, DelAbsent,
     ScanShard, ScanReturn, Return
<1>3. CASE Reap \/ Destroy \/ Tick \/ UNCHANGED vars
  BY <1>3 DEF Reap, ReaperTest, ReaperWake, ReapLock, ReapErase, ReapUnlock,
     Destroy, Tick, vars
<1> QED BY <1>1, <1>2, <1>3 DEF Next

\* An expiry takes an entry whose deadline the clock has reached.
LEMMA ExpiryIsDue ==
  ASSUME IInv, TimesArePast, [Next]_vars, expirations' # expirations
  PROVE  \E k \in Keys : /\ map[k] # None /\ map' = [map EXCEPT ![k] = None]
                         /\ map[k].expiry \in 0 .. clock
<1>0. map \in [Keys -> Entry \cup {None}] /\ clock \in Nat /\ rnow \in Nat
  BY DEF IInv, TypeOK
<1>1. PICK k \in Keys, now \in Nat :
        map[k] # None /\ Erase(k) /\ Expired(map[k], now) /\ now <= clock
  <2>1. ASSUME ReapErase
        PROVE  \E k \in Keys : map[k] # None /\ Erase(k) /\ Expired(map[k], rnow) /\ rnow <= clock
    BY <2>1 DEF ReapErase, Cached, TimesArePast
  <2>2. ASSUME NEW t \in Threads, GetExpired(t)
        PROVE  \E k \in Keys : \E now \in Nat :
                 map[k] # None /\ Erase(k) /\ Expired(map[k], now) /\ now <= clock
    <3> DEFINE k == frame[t].key
               now == frame[t].now
    <3>1. map[k] # None /\ Erase(k) /\ Expired(map[k], now) /\ pc[t] = "get_take"
      BY <2>2 DEF GetExpired, Finish, Goto
    <3>2. k \in Keys /\ now \in Nat /\ now <= clock
      BY <3>1 DEF IInv, TypeOK, Keyed, Frame, TimesArePast
    <3> HIDE DEF k, now
    <3> QED BY <3>1, <3>2
  <2> QED BY <1>0, <2>1, <2>2, CountingSteps
<1>2. map[k].expiry \in Nat \cup {None} /\ map[k].expiry # None /\ now >= map[k].expiry
  BY <1>0, <1>1 DEF Expired, Entry
<1>3. map[k].expiry \in 0 .. clock
  BY <1>0, <1>1, <1>2
<1> QED BY <1>1, <1>3 DEF Erase

-----------------------------------------------------------------------------
(* Counters *)

\* A get is begun, or counts a hit or a miss, or the look-ups go on.
LEMMA LookSteps ==
  ASSUME IInv, [Next]_vars
  PROVE  \/ LookingUp' = LookingUp /\ UNCHANGED <<gets, hits, misses>>
         \/ \E t \in Threads \ LookingUp :
              /\ LookingUp' = LookingUp \cup {t}
              /\ gets' = gets + 1 /\ UNCHANGED <<hits, misses>>
         \/ \E t \in LookingUp :
              /\ LookingUp' = LookingUp \ {t} /\ UNCHANGED gets
              /\ \/ hits' = hits + 1 /\ UNCHANGED misses
                 \/ misses' = misses + 1 /\ UNCHANGED hits
<1> USE DEF LookingUp, Goto, tallies, history
<1>0. pc \in [Threads -> Keyed \cup Scanning \cup {"idle", "done"}]
  BY DEF IInv, TypeOK
<1> DEFINE Same == LookingUp' = LookingUp /\ UNCHANGED <<gets, hits, misses>>
           Asks == \E t \in Threads \ LookingUp :
                     /\ LookingUp' = LookingUp \cup {t}
                     /\ gets' = gets + 1 /\ UNCHANGED <<hits, misses>>
           Ends == \E t \in LookingUp :
                     /\ LookingUp' = LookingUp \ {t} /\ UNCHANGED gets
                     /\ \/ hits' = hits + 1 /\ UNCHANGED misses
                        \/ misses' = misses + 1 /\ UNCHANGED hits
<1>1. ASSUME NEW t \in Threads, CallSet(t) \/ CallDel(t) \/ CallScan(t) PROVE Same
  BY <1>0, <1>1 DEF CallSet, CallDel, CallScan, Begin
<1>2. ASSUME NEW t \in Threads, CallGet(t) PROVE Asks
  BY <1>0, <1>2 DEF CallGet, Begin
<1>3. ASSUME NEW t \in Threads, \/ SetRefused(t) \/ SetLock(t) \/ SetWrite(t) \/ SetCharge(t)
                                \/ SetEvict(t) \/ SetUnlock(t)
      PROVE  Same
  BY <1>0, <1>3 DEF SetRefused, SetLock, SetWrite, SetCharge, SetEvict, SetUnlock, Finish
<1>4. ASSUME NEW t \in Threads, GetPeek(t) PROVE Same \/ Ends
  <2>1. CASE Finish(t, "get_peek", None) /\ misses' = misses + 1
    BY <1>0, <1>4, <2>1 DEF GetPeek, Finish
  <2>2. CASE Goto(t, "get_peek", "get_take") /\ UNCHANGED <<frame, misses>>
    BY <1>0, <1>4, <2>2 DEF GetPeek
  <2> QED BY <1>4, <2>1, <2>2 DEF GetPeek
<1>5. ASSUME NEW t \in Threads, GetMiss(t) \/ GetExpired(t) \/ GetHit(t) PROVE Ends
  BY <1>0, <1>5 DEF GetMiss, GetExpired, GetHit, Finish
<1>6. ASSUME NEW t \in Threads, \/ DelErase(t) \/ DelAbsent(t)
                                \/ ScanShard(t) \/ ScanReturn(t) \/ Return(t)
      PROVE  Same
  BY <1>0, <1>6 DEF DelErase, DelAbsent, ScanShard, ScanReturn, Return, Finish
<1>7. CASE Reap \/ Destroy \/ Tick \/ UNCHANGED vars
  BY <1>7 DEF Reap, ReaperTest, ReaperWake, ReapLock, ReapErase, ReapUnlock,
     Destroy, Tick, vars
<1> QED BY <1>1, <1>2, <1>3, <1>4, <1>5, <1>6, <1>7 DEF Next, Call, Work

\* A get is counted when it ends its look-up.
LEMMA LooksCounted ==
  ASSUME IInv, IsFiniteSet(LookingUp), gets = hits + misses + Cardinality(LookingUp), [Next]_vars
  PROVE  IsFiniteSet(LookingUp') /\ gets' = hits' + misses' + Cardinality(LookingUp')
<1> DEFINE L == LookingUp
<1>1. /\ gets \in Nat /\ hits \in Nat /\ misses \in Nat
      /\ IsFiniteSet(L) /\ Cardinality(L) \in Nat /\ gets = hits + misses + Cardinality(L)
  BY FS_CardinalityType DEF IInv, TypeOK
<1>2. ASSUME NEW t \in Threads \ LookingUp, LookingUp' = LookingUp \cup {t},
             gets' = gets + 1, UNCHANGED <<hits, misses>>
      PROVE  IsFiniteSet(LookingUp') /\ gets' = hits' + misses' + Cardinality(LookingUp')
  <2>1. t \notin L /\ LookingUp' = L \cup {t}
    BY <1>2
  <2> HIDE DEF L
  <2>2. IsFiniteSet(L \cup {t}) /\ Cardinality(L \cup {t}) = Cardinality(L) + 1
    BY <1>1, <2>1, FS_AddElement
  <2>3. IsFiniteSet(LookingUp') /\ Cardinality(LookingUp') = Cardinality(L) + 1
    BY <2>1, <2>2
  <2>4. gets' = gets + 1 /\ hits' = hits /\ misses' = misses
    BY <1>2
  <2> QED BY <1>1, <2>3, <2>4
<1>3. ASSUME NEW t \in LookingUp, LookingUp' = LookingUp \ {t}, UNCHANGED gets,
             \/ hits' = hits + 1 /\ UNCHANGED misses
             \/ misses' = misses + 1 /\ UNCHANGED hits
      PROVE  IsFiniteSet(LookingUp') /\ gets' = hits' + misses' + Cardinality(LookingUp')
  <2>1. t \in L /\ LookingUp' = L \ {t}
    BY <1>3
  <2> HIDE DEF L
  <2>2. IsFiniteSet(L \ {t}) /\ Cardinality(L \ {t}) = Cardinality(L) - 1
    BY <1>1, <2>1, FS_RemoveElement
  <2> QED BY <1>1, <1>3, <2>1, <2>2
<1> HIDE DEF L
<1> QED BY <1>1, <1>2, <1>3, LookSteps DEF L

Stored == {k \in Keys : map[k] # None}

\* The stored keys are finitely many.
LEMMA StoredFinite == IsFiniteSet(Stored) /\ Cardinality(Stored) \in Nat
<1>1. Stored \in SUBSET Keys
  BY DEF Stored
<1> QED BY <1>1, ConstantsOK, FS_Subset, FS_CardinalityType

\* An insertion is counted when the entry comes and what took it when it goes.
LEMMA EntriesCounted ==
  ASSUME IInv, inserted = Cardinality(Stored) + deleted + evictions + expirations, [Next]_vars
  PROVE  inserted' = Cardinality(Stored') + deleted' + evictions' + expirations'
<1> DEFINE M == Stored
<1>0. map \in [Keys -> Entry \cup {None}]
  BY DEF IInv, TypeOK
<1>1. /\ inserted \in Nat /\ deleted \in Nat /\ evictions \in Nat /\ expirations \in Nat
      /\ IsFiniteSet(M) /\ Cardinality(M) \in Nat
      /\ inserted = Cardinality(M) + deleted + evictions + expirations
  BY StoredFinite DEF IInv, TypeOK
<1>2. CASE UNCHANGED <<map, inserted, deleted, evictions, expirations>>
  BY <1>1, <1>2 DEF Stored
<1>3. ASSUME NEW k \in Keys, Leaves(k)
      PROVE  inserted' = Cardinality(Stored') + deleted' + evictions' + expirations'
  <2>1. k \in M /\ Stored' = M \ {k}
    BY <1>0, <1>3 DEF Leaves, Erase, Stored
  <2> HIDE DEF M
  <2>2. Cardinality(M \ {k}) = Cardinality(M) - 1
    BY <1>1, <2>1, FS_RemoveElement
  <2> QED BY <1>1, <1>3, <2>1, <2>2 DEF Leaves
<1>4. ASSUME NEW t \in Threads, SetWrite(t)
      PROVE  inserted' = Cardinality(Stored') + deleted' + evictions' + expirations'
  <2> DEFINE k == frame[t].key
  <2>1. k \in Keys /\ map' = [map EXCEPT ![k] = NewEntry(t)] /\ NewEntry(t) # None
        /\ UNCHANGED <<deleted, evictions, expirations>>
    BY <1>4, SetWriteFacts
  <2>2. Stored' = M \cup {k}
    BY <1>0, <2>1 DEF Stored
  <2>3. inserted' = inserted + (IF k \in M THEN 0 ELSE 1)
    BY <1>1, <1>4, <2>1 DEF SetWrite, Stored, history
  <2> HIDE DEF M, k
  <2>4. Cardinality(M \cup {k}) = IF k \in M THEN Cardinality(M) ELSE Cardinality(M) + 1
    BY <1>1, FS_AddElement
  <2>5. CASE k \in M
    BY <1>1, <2>1, <2>2, <2>3, <2>4, <2>5
  <2>6. CASE k \notin M
    BY <1>1, <2>1, <2>2, <2>3, <2>4, <2>6
  <2> QED BY <2>5, <2>6
<1>5. ASSUME NEW t \in Threads, GetHit(t)
      PROVE  UNCHANGED <<map, inserted, deleted, evictions, expirations>>
  BY <1>5 DEF GetHit
<1> QED BY <1>2, <1>3, <1>4, <1>5, EntrySteps

-----------------------------------------------------------------------------
(* Scans *)

\* A shard that no set or sweep is inside is within its capacity.
LEMMA UnlockedFits ==
  ASSUME IInv, FullAtMost, NEW s \in Shards, Unlocked(s)
  PROVE  Cardinality(Cached(s)) <= Capacity[s]
<1>1. ~Overflowing(s)
  BY ConstantsOK DEF IInv, WriterIsInside, Overflowing, Unlocked, Writing, Setting
<1> QED BY <1>1, CapacityType, CachedFinite DEF FullAtMost

\* What a scan collects of a shard is no more than the shard holds under the
\* shared lock.
LEMMA CollectedKept ==
  ASSUME IInv, FullAtMost, CollectedFits, [Next]_vars PROVE CollectedFits'
<1> SUFFICES ASSUME NEW t \in Threads
             PROVE  /\ IsFiniteSet(frame'[t].items)
                    /\ \A r \in Shards : /\ Cardinality(Collected(t, r)') <= Capacity[r]
                                         /\ r >= frame'[t].shard => Collected(t, r)' = {}
  BY DEF CollectedFits, Capacity
<1>1. /\ IsFiniteSet(frame[t].items)
      /\ \A r \in Shards : /\ Cardinality(Collected(t, r)) <= Capacity[r]
                           /\ r >= frame[t].shard => Collected(t, r) = {}
  BY DEF CollectedFits
<1>2. CASE frame'[t].items = frame[t].items /\ frame'[t].shard = frame[t].shard
  BY <1>1, <1>2 DEF Collected
<1>3. CASE frame'[t].items = {}
  <2>1. \A r \in Shards : Collected(t, r)' = {} /\ Capacity[r] \in Nat
    BY <1>3, CapacityType DEF Collected
  <2> QED BY <1>3, <2>1, FS_EmptySet
<1>4. CASE ScanShard(t)
  <2> DEFINE s == frame[t].shard
             now == frame[t].now
  <2>1. s \in Shards /\ Unlocked(s) /\ frame'[t].shard = s + 1
    BY <1>4, ScanShardFacts
  <2>2. PICK kept \in SUBSET Cached(s) :
          frame'[t].items = frame[t].items \cup {ItemOf(k, now) : k \in kept}
    BY <1>4, ScanShardFacts
  <2> DEFINE new == {ItemOf(k, now) : k \in kept}
  <2>3. IsFiniteSet(new) /\ Cardinality(new) <= Capacity[s]
    <3> DEFINE f == [i \in new |-> i.key]
    <3>1. \A i \in new : i.key \in kept /\ i = ItemOf(i.key, now)
      BY DEF ItemOf
    <3> HIDE DEF new
    <3>2. f \in [new -> Cached(s)] /\ \A i, j \in new : f[i] = f[j] => i = j
      BY <3>1, <2>2
    <3> HIDE DEF f
    <3>3. f \in Injection(new, Cached(s))
      BY <3>2, Fun_IsInj
    <3>4. IsFiniteSet(new) /\ Cardinality(new) <= Cardinality(Cached(s))
      BY <3>3, CachedFinite, FS_Injection
    <3>5. Cardinality(Cached(s)) <= Capacity[s] /\ Capacity[s] \in Nat
      BY <2>1, UnlockedFits, CapacityType
    <3> QED BY <3>4, <3>5, CachedFinite, FS_CardinalityType
  <2>4. \A i \in new : ShardOf[i.key] = s
    BY <2>2 DEF ItemOf, Cached
  <2>5. IsFiniteSet(frame'[t].items)
    BY <1>1, <2>2, <2>3, FS_Union
  <2> HIDE DEF new
  <2>6. frame'[t].items = frame[t].items \cup new
    BY <2>2 DEF new
  <2>7. ASSUME NEW r \in Shards
        PROVE  Collected(t, r)' = IF r = s THEN Collected(t, s) \cup new ELSE Collected(t, r)
    BY <2>4, <2>6 DEF Collected
  <2>8. Collected(t, s) = {}
    BY <1>1, <2>1, ConstantsOK DEF Shards
  <2>9. ASSUME NEW r \in Shards
        PROVE  /\ Cardinality(Collected(t, r)') <= Capacity[r]
               /\ r >= frame'[t].shard => Collected(t, r)' = {}
    <3>1. CASE r = s
      <4>1. Collected(t, r)' = new
        BY <2>7, <2>8, <3>1
      <4>2. ~(r >= frame'[t].shard)
        BY <2>1, <3>1, ConstantsOK DEF Shards
      <4> QED BY <2>3, <3>1, <4>1, <4>2
    <3>2. CASE r # s
      <4>1. r >= frame'[t].shard => r >= s
        BY <2>1, <3>2, ConstantsOK DEF Shards
      <4> QED BY <1>1, <2>7, <3>2, <4>1
    <3> QED BY <3>1, <3>2
  <2> QED BY <2>5, <2>9
<1> QED BY <1>2, <1>3, <1>4, FrameSteps

\* An entry that was not used since is the entry it was.
LEMMA SteadyEntry ==
  ASSUME IInv, [Next]_vars, NEW k \in Keys, map'[k] # None, lastUse'[k] <= uses
  PROVE  map'[k] = map[k] /\ lastUse'[k] = lastUse[k]
<1>0. /\ map \in [Keys -> Entry \cup {None}] /\ lastUse \in [Keys -> Nat] /\ uses \in Nat
      /\ pc \in [Threads -> Keyed \cup Scanning \cup {"idle", "done"}]
  BY DEF IInv, TypeOK
<1>1. CASE UNCHANGED <<map, lastUse>>
  BY <1>1
<1>2. ASSUME NEW j \in Keys, Leaves(j) PROVE map'[k] = map[k] /\ lastUse'[k] = lastUse[k]
  <2>1. map' = [map EXCEPT ![j] = None] /\ lastUse' = lastUse
    BY <1>2 DEF Leaves, Erase
  <2> QED BY <1>0, <2>1
<1>3. ASSUME NEW t \in Threads, SetWrite(t) PROVE map'[k] = map[k] /\ lastUse'[k] = lastUse[k]
  <2> DEFINE j == frame[t].key
  <2>1. /\ j \in Keys /\ map' = [map EXCEPT ![j] = NewEntry(t)]
        /\ lastUse' = [lastUse EXCEPT ![j] = uses + 1]
    BY <1>3, SetWriteFacts
  <2> HIDE DEF j
  <2>2. k # j
    BY <1>0, <2>1
  <2> QED BY <1>0, <2>1, <2>2
<1>4. ASSUME NEW t \in Threads, GetHit(t) PROVE map'[k] = map[k] /\ lastUse'[k] = lastUse[k]
  <2> DEFINE j == frame[t].key
  <2>1. map' = map /\ lastUse' = [lastUse EXCEPT ![j] = uses + 1]
    BY <1>4 DEF GetHit, Use
  <2> HIDE DEF j
  <2>2. k # j
    BY <1>0, <2>1
  <2> QED BY <1>0, <2>1, <2>2
<1> QED BY <1>1, <1>2, <1>3, <1>4, EntrySteps

\* Uses are only counted up.
LEMMA UsesGrow ==
  ASSUME IInv, [Next]_vars PROVE uses' \in {uses, uses + 1}
<1>1. ASSUME NEW t \in Threads, SetWrite(t) \/ GetHit(t) PROVE uses' = uses + 1
  BY <1>1 DEF SetWrite, GetHit, Use
<1> QED BY <1>1, EntrySteps DEF Leaves

\* A scan in progress began at a use that has been made.
LEMMA SinceKept ==
  ASSUME IInv, ScansSince, [Next]_vars PROVE ScansSince'
<1>1. uses \in Nat /\ uses' \in {uses, uses + 1}
  BY UsesGrow DEF IInv, TypeOK
<1>2. ASSUME NEW t \in Threads PROVE frame'[t].since \in {frame[t].since, 0, uses}
  <2>1. ASSUME ScanShard(t) PROVE frame'[t].since = frame[t].since
    BY <2>1, ScanShardFacts
  <2> QED BY <2>1, FrameSteps
<1>3. ASSUME NEW t \in Threads PROVE frame[t].since \in Nat /\ frame[t].since <= uses
  BY DEF IInv, TypeOK, Frame, ScansSince
<1> QED BY <1>1, <1>2, <1>3 DEF ScansSince

\* What thread t's scan has to have listed of key k, and that it has it.
Due(t, k) ==
  /\ ShardOf[k] < frame[t].shard
  /\ map[k] # None /\ lastUse[k] <= frame[t].since
  /\ ~Expired(map[k], frame[t].now)
  /\ MsLeft(map[k], frame[t].now) # 0

\* The scan passes a shard with everything that is due of it; what changes
\* behind its back has been used since, or is gone.
LEMMA ScansKept ==
  ASSUME IInv, CollectedFits, ScansSince, ScanMissesNothingSteady, [Next]_vars
  PROVE  ScanMissesNothingSteady'
<1> SUFFICES ASSUME NEW t \in Threads, pc'[t] \in Scanning
             PROVE  /\ \A k \in Keys :
                         Due(t, k)' => ItemOf(k, frame[t].now)' \in frame'[t].items
                    /\ \A i, j \in frame'[t].items : i.key = j.key => i = j
  BY DEF ScanMissesNothingSteady, Due
<1>1. frame[t] \in Frame /\ uses \in Nat /\ frame[t].since <= uses /\ lastUse \in [Keys -> Nat]
  BY DEF IInv, TypeOK, ScansSince
<1>2. ASSUME pc[t] \in Scanning
      PROVE  /\ \A k \in Keys : Due(t, k) => ItemOf(k, frame[t].now) \in frame[t].items
             /\ \A i, j \in frame[t].items : i.key = j.key => i = j
  BY <1>2 DEF ScanMissesNothingSteady, Due
<1>3. ASSUME NEW k \in Keys, map'[k] # None, lastUse'[k] <= frame[t].since
      PROVE  map'[k] = map[k] /\ lastUse'[k] = lastUse[k]
  <2>1. lastUse'[k] \in Nat
    BY NextKeepsIInv DEF IInv, TypeOK
  <2>2. frame[t].since \in Nat
    BY <1>1 DEF Frame
  <2>3. lastUse'[k] <= uses
    BY <1>1, <1>3, <2>1, <2>2
  <2> QED BY <1>3, <2>3, SteadyEntry
<1>4. CASE /\ frame'[t].items = frame[t].items /\ frame'[t].shard = frame[t].shard
           /\ frame'[t].now = frame[t].now /\ frame'[t].since = frame[t].since
           /\ pc[t] \in Scanning
  <2>1. ASSUME NEW k \in Keys, Due(t, k)'
        PROVE  ItemOf(k, frame[t].now)' \in frame'[t].items
    <3>1. map'[k] = map[k] /\ lastUse'[k] = lastUse[k]
      BY <1>3, <1>4, <2>1 DEF Due
    <3>2. Due(t, k)
      BY <1>4, <2>1, <3>1 DEF Due, Expired, MsLeft
    <3>3. ItemOf(k, frame[t].now)' = ItemOf(k, frame[t].now)
      BY <1>4, <3>1 DEF ItemOf, MsLeft
    <3> QED BY <1>2, <1>4, <3>2, <3>3
  <2> QED BY <1>2, <1>4, <2>1
<1>5. CASE frame'[t].items = {} /\ frame'[t].shard = 0
  <2>1. ASSUME NEW k \in Keys PROVE ~Due(t, k)'
    <3>1. ShardOf[k] \in Nat
      BY ConstantsOK DEF Shards
    <3> QED BY <1>5, <3>1 DEF Due
  <2> QED BY <1>5, <2>1
<1>6. CASE ScanShard(t)
  <2> DEFINE s == frame[t].shard
             now == frame[t].now
             old == frame[t].items
  <2>1. /\ s \in Shards /\ pc[t] \in Scanning
        /\ frame'[t].shard = s + 1 /\ frame'[t].now = now
        /\ frame'[t].since = frame[t].since
        /\ UNCHANGED <<map, lastUse>>
    BY <1>6, ScanShardFacts
  <2>2. PICK kept \in SUBSET Cached(s) :
          /\ \A k \in Cached(s) : ~Expired(map[k], now) /\ MsLeft(map[k], now) # 0
                                => k \in kept
          /\ frame'[t].items = old \cup {ItemOf(k, now) : k \in kept}
    BY <1>6, ScanShardFacts
  <2>3. ASSUME NEW k \in Keys, Due(t, k)'
        PROVE  ItemOf(k, frame[t].now)' \in frame'[t].items
    <3>1. ItemOf(k, frame[t].now)' = ItemOf(k, now)
      BY <2>1 DEF ItemOf, MsLeft
    <3>2. /\ ShardOf[k] < s + 1 /\ map[k] # None /\ lastUse[k] <= frame[t].since
          /\ ~Expired(map[k], now) /\ MsLeft(map[k], now) # 0
      BY <2>1, <2>3 DEF Due, Expired, MsLeft
    <3>3. CASE ShardOf[k] = s
      <4>1. k \in kept
        BY <2>2, <3>2, <3>3 DEF Cached
      <4> QED BY <2>2, <3>1, <4>1
    <3>4. CASE ShardOf[k] # s
      <4>1. ShardOf[k] < s
        BY <2>1, <3>2, <3>4, ConstantsOK DEF Shards
      <4>2. ItemOf(k, now) \in old
        BY <1>2, <2>1, <3>2, <4>1 DEF Due
      <4> QED BY <2>2, <3>1, <4>2
    <3> QED BY <3>3, <3>4
  <2>4. Collected(t, s) = {}
    BY <2>1, ConstantsOK DEF CollectedFits, Shards
  <2> DEFINE new == {ItemOf(k, now) : k \in kept}
  <2>5. \A i \in new : ShardOf[i.key] = s /\ i = ItemOf(i.key, now)
    BY <2>2 DEF ItemOf, Cached
  <2>6. \A i \in old : ShardOf[i.key] # s
    BY <2>4 DEF Collected
  <2>7. frame'[t].items = old \cup new
    BY <2>2
  <2>8. \A i, j \in old : i.key = j.key => i = j
    BY <1>2, <2>1
  <2> HIDE DEF new, old
  <2>9. \A i, j \in old \cup new : i.key = j.key => i = j
    BY <2>5, <2>6, <2>8
  <2> QED BY <2>3, <2>7, <2>9
<1> QED BY <1>4, <1>5, <1>6, FrameSteps

-----------------------------------------------------------------------------
(* The order of use *)

\* The keys of a list stand in the order of their last use, the latest first.
Ordered(list, last) ==
  \A i, j \in 1 .. Len(list) : i < j => last[list[j]] < last[list[i]]

\* Unlinking a node leaves the others in their order.
LEMMA UnlinkOrdered ==
  ASSUME NEW list \in Seq(Keys), IsInjective(list), NEW k \in ToSet(list),
         NEW last, Ordered(list, last)
  PROVE  Ordered(Unlink(list, k), last)
<1> DEFINE new == Unlink(list, k)
           p   == LruPos(list, k)
           old(i) == IF i < p THEN i ELSE i + 1
<1>1. /\ p \in 1 .. Len(list) /\ Len(new) = Len(list) - 1 /\ Len(list) \in Nat
      /\ \A i \in 1 .. Len(list) - 1 : new[i] = IF i < p THEN list[i] ELSE list[i + 1]
  BY UnlinkFacts, LenProperties
<1> HIDE DEF new, p
<1>2. \A i \in 1 .. Len(new) : old(i) \in 1 .. Len(list) /\ new[i] = list[old(i)]
  BY <1>1
<1>3. \A i, j \in 1 .. Len(new) : i < j => old(i) < old(j)
  BY <1>1
<1> HIDE DEF old
<1>4. Ordered(new, last)
  BY <1>2, <1>3 DEF Ordered
<1> QED BY <1>4 DEF new

\* A key pushed to the front as the latest used leads an ordered list.
LEMMA PushOrdered ==
  ASSUME NEW list \in Seq(Keys), IsInjective(list), NEW k \in Keys, k \notin ToSet(list),
         NEW last \in [Keys -> Nat], Ordered(list, last),
         NEW n \in Nat, \A j \in Keys : last[j] <= n
  PROVE  Ordered(<<k>> \o list, [last EXCEPT ![k] = n + 1])
<1> DEFINE new  == <<k>> \o list
           late == [last EXCEPT ![k] = n + 1]
<1>1. /\ Len(new) = Len(list) + 1 /\ Len(list) \in Nat /\ new[1] = k
      /\ \A i \in 2 .. Len(list) + 1 : new[i] = list[i - 1]
  BY PushFacts, LenProperties
<1>2. \A i \in 1 .. Len(list) : list[i] \in Keys /\ list[i] # k
  BY ElementOfSeq, LenProperties DEF ToSet
<1>3. late[k] = n + 1 /\ \A j \in Keys : j # k => late[j] = last[j]
  OBVIOUS
<1> HIDE DEF new, late
<1> SUFFICES ASSUME NEW i \in 1 .. Len(new), NEW j \in 1 .. Len(new), i < j
             PROVE  late[new[j]] < late[new[i]]
  BY DEF Ordered, new, late
<1>4. /\ j - 1 \in 1 .. Len(list) /\ new[j] = list[j - 1]
      /\ late[new[j]] = last[list[j - 1]] /\ last[list[j - 1]] \in Nat
      /\ last[list[j - 1]] <= n
  <2>1. j - 1 \in 1 .. Len(list) /\ j \in 2 .. Len(list) + 1
    BY <1>1
  <2> QED BY <2>1, <1>1, <1>2, <1>3
<1>5. CASE i = 1
  BY <1>1, <1>3, <1>4, <1>5
<1>6. CASE i # 1
  <2>1. i - 1 \in 1 .. Len(list) /\ i \in 2 .. Len(list) + 1 /\ i - 1 < j - 1
    BY <1>1, <1>6
  <2>2. late[new[i]] = last[list[i - 1]]
    BY <2>1, <1>1, <1>2, <1>3
  <2>3. last[list[j - 1]] < last[list[i - 1]]
    BY <2>1, <1>4 DEF Ordered
  <2> QED BY <2>2, <2>3, <1>4
<1> QED BY <1>5, <1>6

\* A set and a hit put their key, unlinked if it was there, to the front.
LEMMA UseSteps ==
  ASSUME IInv, NEW t \in Threads, SetWrite(t) \/ GetHit(t)
  PROVE  LET k    == frame[t].key
             s    == ShardOf[k]
             rest == IF map[k] = None THEN lru[s] ELSE Unlink(lru[s], k)
         IN  /\ k \in Keys /\ s \in Shards
             /\ lru' = [lru EXCEPT ![s] = <<k>> \o rest]
             /\ uses' = uses + 1 /\ lastUse' = [lastUse EXCEPT ![k] = uses + 1]
<1> DEFINE k == frame[t].key
           s == ShardOf[k]
           rest == IF map[k] = None THEN lru[s] ELSE Unlink(lru[s], k)
<1>1. pc[t] \in {"set_write", "get_take"}
  BY DEF SetWrite, GetHit, Goto
<1>2. k \in Keys /\ s \in Shards
  BY <1>1, ConstantsOK DEF IInv, TypeOK, Keyed, Setting
<1>3. uses' = uses + 1 /\ lastUse' = [lastUse EXCEPT ![k] = uses + 1]
  BY DEF SetWrite, GetHit, Use
<1>4. lru' = [lru EXCEPT ![s] = <<k>> \o rest]
  BY DEF SetWrite, GetHit, Touched
<1> QED BY <1>2, <1>3, <1>4

\* Every list stays in the order of use.
LEMMA OrderKept ==
  ASSUME IInv, UsedInOrder, [Next]_vars PROVE UsedInOrder'
<1> USE ConstantsOK
<1>0. /\ lru \in [Shards -> Seq(Keys)] /\ lastUse \in [Keys -> Nat] /\ uses \in Nat
      /\ \A s \in Shards : IsInjective(lru[s]) /\ ToSet(lru[s]) = Cached(s)
      /\ \A s \in Shards : Ordered(lru[s], lastUse)
      /\ \A k \in Keys : lastUse[k] <= uses
  BY DEF IInv, TypeOK, ListMatchesMap, UsedInOrder, Ordered
<1> SUFFICES /\ \A s \in Shards : Ordered(lru'[s], lastUse')
             /\ \A k \in Keys : lastUse'[k] <= uses'
  BY DEF UsedInOrder, Ordered
<1>1. CASE UNCHANGED <<lru, uses, lastUse>>
  BY <1>0, <1>1
<1>2. ASSUME NEW k \in Keys, Leaves(k)
      PROVE  /\ \A s \in Shards : Ordered(lru'[s], lastUse')
             /\ \A j \in Keys : lastUse'[j] <= uses'
  <2> DEFINE r == ShardOf[k]
  <2>1. /\ r \in Shards /\ k \in ToSet(lru[r]) /\ UNCHANGED <<uses, lastUse>>
        /\ lru' = [lru EXCEPT ![r] = Unlink(lru[r], k)]
    BY <1>0, <1>2 DEF Leaves, Erase, Cached
  <2>2. Ordered(Unlink(lru[r], k), lastUse)
    BY <1>0, <2>1, UnlinkOrdered
  <2> HIDE DEF r
  <2> QED BY <1>0, <2>1, <2>2
<1>3. ASSUME NEW t \in Threads, SetWrite(t) \/ GetHit(t)
      PROVE  /\ \A s \in Shards : Ordered(lru'[s], lastUse')
             /\ \A j \in Keys : lastUse'[j] <= uses'
  <2> DEFINE k == frame[t].key
             r == ShardOf[k]
             rest == IF map[k] = None THEN lru[r] ELSE Unlink(lru[r], k)
             late == [lastUse EXCEPT ![k] = uses + 1]
  <2>1. /\ k \in Keys /\ r \in Shards
        /\ lru' = [lru EXCEPT ![r] = <<k>> \o rest]
        /\ uses' = uses + 1 /\ lastUse' = late
    BY <1>3, UseSteps
  <2>2. /\ rest \in Seq(Keys) /\ IsInjective(rest) /\ k \notin ToSet(rest)
        /\ Ordered(rest, lastUse)
    <3>1. CASE map[k] = None
      <4>1. rest = lru[r] /\ k \notin Cached(r)
        BY <3>1 DEF Cached
      <4> HIDE DEF rest
      <4> QED BY <1>0, <2>1, <4>1
    <3>2. CASE map[k] # None
      <4>1. rest = Unlink(lru[r], k) /\ k \in ToSet(lru[r])
        BY <1>0, <2>1, <3>2 DEF Cached
      <4> HIDE DEF rest
      <4>2. /\ Unlink(lru[r], k) \in Seq(Keys) /\ IsInjective(Unlink(lru[r], k))
            /\ ToSet(Unlink(lru[r], k)) = ToSet(lru[r]) \ {k}
        <5> DEFINE list == lru[r]
        <5>1. list \in Seq(Keys) /\ IsInjective(list) /\ k \in ToSet(list)
          BY <1>0, <2>1, <4>1
        <5> HIDE DEF list, k
        <5>2. /\ Unlink(list, k) \in Seq(Keys) /\ IsInjective(Unlink(list, k))
              /\ ToSet(Unlink(list, k)) = ToSet(list) \ {k}
          BY <5>1, UnlinkFacts
        <5> QED BY <5>2 DEF list
      <4>3. Ordered(Unlink(lru[r], k), lastUse)
        BY <1>0, <2>1, <4>1, UnlinkOrdered
      <4> QED BY <4>1, <4>2, <4>3
    <3> QED BY <3>1, <3>2
  <2> HIDE DEF rest
  <2>3. Ordered(<<k>> \o rest, late)
    BY <1>0, <2>1, <2>2, PushOrdered
  <2>4. ASSUME NEW s \in Shards, s # r PROVE Ordered(lru[s], late)
    <3>1. \A i \in 1 .. Len(lru[s]) : lru[s][i] \in Keys /\ lru[s][i] # k
      <4>1. \A i \in 1 .. Len(lru[s]) : lru[s][i] \in Cached(s)
        BY <1>0, LenProperties DEF ToSet
      <4> QED BY <2>4, <4>1 DEF Cached
    <3> QED BY <1>0, <3>1 DEF Ordered
  <2>5. \A j \in Keys : lastUse'[j] <= uses'
    BY <1>0, <2>1
  <2> HIDE DEF k, r, late
  <2> QED BY <1>0, <2>1, <2>3, <2>4, <2>5
<1> QED BY <1>1, <1>2, <1>3, EntrySteps

\* What is evicted was used before everything else in its shard.
LEMMA EvictedIsOldest ==
  ASSUME IInv, UsedInOrder, NEW t \in Threads, SetEvict(t)
  PROVE  LET s == ShardOf[frame[t].key]
             k == lru[s][Len(lru[s])]
         IN  \A j \in Cached(s) \ {k} : lastUse[k] < lastUse[j]
<1> DEFINE s == ShardOf[frame[t].key]
           k == lru[s][Len(lru[s])]
<1>1. s \in Shards /\ Len(lru[s]) > 0
  BY EvictLeaves
<1>2. lru[s] \in Seq(Keys) /\ ToSet(lru[s]) = Cached(s)
  BY <1>1 DEF IInv, TypeOK, ListMatchesMap
<1> SUFFICES ASSUME NEW j \in Cached(s) \ {k} PROVE lastUse[k] < lastUse[j]
  OBVIOUS
<1>3. PICK i \in 1 .. Len(lru[s]) : lru[s][i] = j
  BY <1>2, LenProperties DEF ToSet
<1>4. Len(lru[s]) \in 1 .. Len(lru[s]) /\ i < Len(lru[s])
  BY <1>1, <1>2, <1>3, LenProperties
<1> QED BY <1>1, <1>3, <1>4 DEF UsedInOrder

-----------------------------------------------------------------------------
(* Memory: what a step adds to the counter, it adds to the charge of one key. *)

\* What the counter has of each key.
Charges == [k \in Keys |-> Charged(k)]

\* What a set has written is there until it is charged.
ChargedIsThere ==
  \A t \in Threads : pc[t] = "set_charge" => map[frame[t].key] # None

\* One set at a time is at work on a key, and nobody else on its shard.
LEMMA AloneOnShard ==
  ASSUME IInv, NEW t \in Threads, NEW s \in Shards, writer[s] = t,
         NEW u \in Threads, pc[u] \in Writing, ShardOf[frame[u].key] = s
  PROVE  u = t
BY DEF IInv, WriterIsInside

\* Only SetWrite and SetCharge begin and end the time between.
LEMMA ChargingSteps ==
  ASSUME IInv, [Next]_vars, ~(\E t \in Threads : SetWrite(t) \/ SetCharge(t)), NEW u \in Threads
  PROVE  /\ pc'[u] = "set_charge" <=> pc[u] = "set_charge"
         /\ pc[u] = "set_charge" => frame'[u].key = frame[u].key
<1> USE DEF Goto
<1> DEFINE Kept == /\ pc'[u] = "set_charge" <=> pc[u] = "set_charge"
                   /\ pc[u] = "set_charge" => frame'[u].key = frame[u].key
<1>0. pc \in [Threads -> Keyed \cup Scanning \cup {"idle", "done"}]
      /\ frame \in [Threads -> Frame]
  BY DEF IInv, TypeOK
<1>1. CASE UNCHANGED <<pc, frame>>
  BY <1>1
<1>2. ASSUME NEW t \in Threads, Call(t) PROVE Kept
  BY <1>0, <1>2 DEF Call, CallSet, CallGet, CallDel, CallScan, Begin
<1>3. ASSUME NEW t \in Threads,
             SetRefused(t) \/ SetLock(t) \/ SetUnlock(t)
      PROVE  Kept
  BY <1>0, <1>3 DEF SetRefused, SetLock, SetUnlock, Finish
<1>4. ASSUME NEW t \in Threads,
             \/ GetPeek(t) \/ GetMiss(t) \/ GetExpired(t) \/ GetHit(t)
             \/ DelErase(t) \/ DelAbsent(t) \/ ScanShard(t) \/ ScanReturn(t) \/ Return(t)
      PROVE  Kept
  BY <1>0, <1>4 DEF GetPeek, GetMiss, GetExpired, GetHit, DelErase, DelAbsent,
     ScanShard, ScanReturn, Return, Finish
<1>5. ASSUME NEW t \in Threads, SetEvict(t) PROVE Kept
  BY <1>1, <1>5, EvictLeaves
<1>6. CASE Reap \/ Destroy \/ Tick \/ UNCHANGED vars
  BY <1>1, <1>6 DEF Reap, ReaperTest, ReaperWake, ReapLock, ReapErase, ReapUnlock,
     Destroy, Tick, vars
<1> QED BY <1>2, <1>3, <1>4, <1>5, <1>6 DEF Next, Work

\* Who erases an entry, erases one that no set is about to charge.
LEMMA ErasedIsCharged ==
  ASSUME IInv, [Next]_vars, NEW k \in Keys, map[k] # None, map'[k] = None,
         NEW u \in Threads, pc[u] = "set_charge"
  PROVE  frame[u].key # k
<1> SUFFICES ASSUME frame[u].key = k PROVE FALSE
  OBVIOUS
<1> DEFINE s == ShardOf[k]
<1>0. s \in Shards /\ pc[u] \in Writing /\ ShardOf[frame[u].key] = s /\ writer[s] = u
  BY ConstantsOK DEF Writing, Setting, IInv, WriterIsInside
<1>1. writer[s] # None /\ writer[s] # Reaper
  BY <1>0, ConstantsOK
<1>m. map \in [Keys -> Entry \cup {None}]
  BY DEF IInv, TypeOK
<1> HIDE DEF s
<1>2. UNCHANGED map => FALSE
  OBVIOUS
<1>3. ASSUME NEW t \in Threads, SetWrite(t) PROVE FALSE
  <2>1. map' = [map EXCEPT ![frame[t].key] = NewEntry(t)] /\ NewEntry(t) # None
    BY <1>3, SetWriteFacts
  <2> QED BY <2>1, <1>m
<1>4. ASSUME NEW t \in Threads, SetEvict(t) PROVE FALSE
  <2> DEFINE r == ShardOf[frame[t].key]
             j == lru[r][Len(lru[r])]
  <2>1. r \in Shards /\ j \in Cached(r) /\ Leaves(j)
    BY <1>4, EvictLeaves
  <2> HIDE DEF j
  <2>2. j = k /\ r = s
    BY <2>1, <1>m DEF Leaves, Erase, Cached, s
  <2>3. writer[r] = t /\ pc[t] = "set_evict"
    BY <1>4, <2>1 DEF SetEvict, Writing, Setting, IInv, WriterIsInside
  <2> QED BY <2>2, <2>3, <1>0
<1>5. ASSUME NEW t \in Threads, GetExpired(t) \/ DelErase(t) PROVE FALSE
  <2>1. Unlocked(ShardOf[frame[t].key]) /\ Erase(frame[t].key)
    BY <1>5 DEF GetExpired, DelErase
  <2>2. frame[t].key = k
    BY <2>1, <1>m DEF Erase
  <2> QED BY <2>1, <2>2, <1>1 DEF Unlocked, s
<1>6. ASSUME ReapErase PROVE FALSE
  <2>1. PICK j \in Cached(rshard) : Erase(j)
    BY <1>6 DEF ReapErase
  <2>2. j = k /\ rshard = s
    BY <2>1, <1>m DEF Erase, Cached, s
  <2>3. writer[s] = Reaper
    BY <1>0, <1>6, <2>2 DEF ReapErase, IInv, WriterIsInside
  <2> QED BY <2>3, <1>1
<1> USE DEF shared
<1>7. ASSUME NEW t \in Threads, Call(t) PROVE UNCHANGED map
  BY <1>7 DEF Call, CallSet, CallGet, CallDel, CallScan, Begin
<1>8. ASSUME NEW t \in Threads,
             \/ SetRefused(t) \/ SetLock(t) \/ SetCharge(t) \/ SetUnlock(t)
             \/ GetPeek(t) \/ GetMiss(t) \/ GetHit(t) \/ DelAbsent(t)
             \/ ScanShard(t) \/ ScanReturn(t) \/ Return(t)
      PROVE  UNCHANGED map
  BY <1>8 DEF SetRefused, SetLock, SetCharge, SetUnlock, GetPeek, GetMiss, GetHit, DelAbsent,
     ScanShard, ScanReturn, Return
<1>9. ASSUME ReaperTest \/ ReaperWake \/ ReapLock \/ ReapUnlock \/ Destroy \/ Tick
             \/ UNCHANGED vars
      PROVE  UNCHANGED map
  BY <1>9 DEF ReaperTest, ReaperWake, ReapLock, ReapUnlock, Destroy, Tick, vars
<1> QED BY <1>2, <1>3, <1>4, <1>5, <1>6, <1>7, <1>8, <1>9 DEF Next, Work, Reap

\* What a set has written stays until it has charged it.
LEMMA ChargedStays ==
  ASSUME IInv, ChargedIsThere, [Next]_vars PROVE ChargedIsThere'
<1> SUFFICES ASSUME NEW u \in Threads, pc'[u] = "set_charge"
             PROVE  map'[frame'[u].key] # None
  BY DEF ChargedIsThere
<1>0. pc \in [Threads -> Keyed \cup Scanning \cup {"idle", "done"}]
      /\ map \in [Keys -> Entry \cup {None}]
  BY DEF IInv, TypeOK
<1>1. ASSUME NEW t \in Threads, SetWrite(t) PROVE map'[frame'[u].key] # None
  <2>1. /\ map' = [map EXCEPT ![frame[t].key] = NewEntry(t)] /\ NewEntry(t) # None
        /\ pc' = [pc EXCEPT ![t] = "set_charge"] /\ frame' = frame
    BY <1>1, SetWriteFacts
  <2>2. u = t \/ pc[u] = "set_charge"
    BY <1>0, <2>1
  <2>3. frame[u].key \in Keys
    BY <2>1, <2>2, <1>1, SetWriteFacts DEF IInv, TypeOK, Keyed, Setting
  <2>4. u # t => map[frame[u].key] # None
    BY <2>2 DEF ChargedIsThere
  <2> QED BY <1>0, <1>1, <2>1, <2>3, <2>4, SetWriteFacts
<1>2. ASSUME NEW t \in Threads, SetCharge(t) PROVE map'[frame'[u].key] # None
  <2>1. UNCHANGED <<map, frame>> /\ pc' = [pc EXCEPT ![t] = "set_evict"]
    BY <1>2 DEF SetCharge, Goto
  <2>2. pc[u] = "set_charge"
    BY <1>0, <2>1
  <2> QED BY <2>1, <2>2 DEF ChargedIsThere
<1>3. ASSUME ~(\E t \in Threads : SetWrite(t) \/ SetCharge(t)) PROVE map'[frame'[u].key] # None
  <2>1. pc[u] = "set_charge" /\ frame'[u].key = frame[u].key
    BY <1>3, ChargingSteps
  <2>2. frame[u].key \in Keys /\ map[frame[u].key] # None
    BY <2>1 DEF ChargedIsThere, IInv, TypeOK, Keyed, Setting
  <2> QED BY <2>1, <2>2, ErasedIsCharged
<1> QED BY <1>1, <1>2, <1>3

\* What a step does to the counter it does to the charge of one key.
Recharged(k, v) ==
  /\ Charges' = [Charges EXCEPT ![k] = v]
  /\ memory' = memory - Charges[k] + v

\* The charge of a key is a size.
LEMMA ChargesType ==
  ASSUME IInv
  PROVE  /\ IsFiniteSet(Keys) /\ Charges \in [Keys -> Nat] /\ Charges \in [Keys -> Int]
         /\ \A k \in Keys : Charges[k] = Charged(k)
<1>1. ASSUME NEW k \in Keys PROVE Charged(k) \in Nat
  BY DEF IInv, TypeOK, Entry, Charged
<1>2. Charges \in [Keys -> Nat] /\ \A k \in Keys : Charges[k] = Charged(k)
  BY <1>1 DEF Charges
<1>3. \A n \in Nat : n \in Int
  OBVIOUS
<1> QED BY <1>2, <1>3, ConstantsOK

\* Of two functions on the keys that differ at k only, one is the other
\* changed at k.
LEMMA OneCharge ==
  ASSUME NEW k \in Keys, NEW v, Charged(k)' = v,
         \A j \in Keys \ {k} : Charged(j)' = Charged(j)
  PROVE  Charges' = [Charges EXCEPT ![k] = v]
<1>1. Charges' = [j \in Keys |-> Charged(j)']
  BY DEF Charges
<1> QED BY <1>1 DEF Charges

\* An entry that leaves takes its charge along.
LEMMA LeavesRecharges ==
  ASSUME IInv, ChargedIsThere, [Next]_vars, NEW k \in Keys, map[k] # None, Erase(k),
         ~(\E t \in Threads : SetWrite(t) \/ SetCharge(t))
  PROVE  Recharged(k, 0)
<1>0. map \in [Keys -> Entry \cup {None}] /\ memory \in Int
  BY DEF IInv, TypeOK
<1>1. map' = [map EXCEPT ![k] = None] /\ memory' = memory - map[k].bytes
  BY DEF Erase
<1>2. map'[k] = None
  BY <1>0, <1>1
<1>3. \A t \in Threads : pc[t] = "set_charge" => frame[t].key # k
  BY <1>2, ErasedIsCharged
<1>4. Charged(k) = map[k].bytes /\ map[k].bytes \in Nat
  BY <1>0, <1>3 DEF Charged, Entry
<1>5. Charged(k)' = 0
  BY <1>2 DEF Charged
<1>6. ASSUME NEW j \in Keys \ {k} PROVE Charged(j)' = Charged(j)
  <2>1. map'[j] = map[j]
    BY <1>0, <1>1
  <2>2. (\E t \in Threads : pc'[t] = "set_charge" /\ frame'[t].key = j)
        <=> (\E t \in Threads : pc[t] = "set_charge" /\ frame[t].key = j)
    BY ChargingSteps
  <2> QED BY <2>1, <2>2 DEF Charged
<1>7. Charges' = [Charges EXCEPT ![k] = 0]
  BY <1>5, <1>6, OneCharge
<1>8. memory' = memory - Charges[k] + 0
  BY <1>0, <1>1, <1>4, ChargesType
<1> QED BY <1>7, <1>8 DEF Recharged

\* Writing takes out what the old entry, if any, was charged.
LEMMA WriteRecharges ==
  ASSUME IInv, NEW t \in Threads, SetWrite(t)
  PROVE  Recharged(frame[t].key, 0) /\ frame[t].key \in Keys
<1> DEFINE k == frame[t].key
           e == NewEntry(t)
<1>0. /\ map \in [Keys -> Entry \cup {None}] /\ memory \in Int
      /\ pc \in [Threads -> Keyed \cup Scanning \cup {"idle", "done"}]
  BY DEF IInv, TypeOK
<1>1. /\ k \in Keys /\ ShardOf[k] \in Shards /\ e # None
      /\ pc[t] = "set_write" /\ writer[ShardOf[k]] = t
      /\ pc' = [pc EXCEPT ![t] = "set_charge"]
      /\ map' = [map EXCEPT ![k] = e]
      /\ frame' = frame
  BY SetWriteFacts
<1>2. ASSUME NEW u \in Threads, pc[u] = "set_charge" PROVE frame[u].key # k
  <2>1. pc[u] \in Writing /\ u # t
    BY <1>1, <1>2 DEF Writing, Setting
  <2> QED BY <1>1, <2>1, AloneOnShard
<1>3. memory' = memory - Charged(k)
  <2>1. CASE map[k] = None
    <3>1. memory' = memory /\ Charged(k) = 0
      BY <2>1 DEF SetWrite, Charged
    <3> QED BY <1>0, <3>1
  <2>2. CASE map[k] # None
    <3>1. memory' = memory - map[k].bytes /\ Charged(k) = map[k].bytes
      BY <1>2, <2>2 DEF SetWrite, Charged
    <3> QED BY <3>1
  <2> QED BY <2>1, <2>2
<1> HIDE DEF e
<1>4. Charged(k)' = 0
  <2>1. pc'[t] = "set_charge" /\ frame'[t].key = k
    BY <1>0, <1>1
  <2> QED BY <2>1 DEF Charged
<1>5. ASSUME NEW j \in Keys \ {k} PROVE Charged(j)' = Charged(j)
  <2>1. map'[j] = map[j]
    BY <1>0, <1>1
  <2>2. (\E u \in Threads : pc'[u] = "set_charge" /\ frame'[u].key = j)
        <=> (\E u \in Threads : pc[u] = "set_charge" /\ frame[u].key = j)
    BY <1>0, <1>1
  <2> QED BY <2>1, <2>2 DEF Charged
<1>6. Charges' = [Charges EXCEPT ![k] = 0]
  BY <1>1, <1>4, <1>5, OneCharge
<1>7. Charges[k] = Charged(k) /\ Charges[k] \in Nat
  BY <1>1, ChargesType
<1>8. memory' = memory - Charges[k] + 0
  BY <1>0, <1>3, <1>7
<1> QED BY <1>1, <1>6, <1>8 DEF Recharged

\* Charging puts in what the new entry is to be charged.
LEMMA ChargeRecharges ==
  ASSUME IInv, ChargedIsThere, NEW t \in Threads, SetCharge(t)
  PROVE  LET k == frame[t].key
         IN  Recharged(k, map[k].bytes) /\ k \in Keys /\ map[k].bytes \in Nat
<1> DEFINE k == frame[t].key
           n == map[k].bytes
<1>0. /\ map \in [Keys -> Entry \cup {None}] /\ memory \in Int
      /\ pc \in [Threads -> Keyed \cup Scanning \cup {"idle", "done"}]
  BY DEF IInv, TypeOK
<1>1. /\ pc[t] = "set_charge" /\ pc' = [pc EXCEPT ![t] = "set_evict"]
      /\ memory' = memory + n /\ UNCHANGED <<map, frame>>
  BY DEF SetCharge, Goto
<1>2. k \in Keys /\ map[k] # None
  BY <1>1 DEF IInv, TypeOK, Keyed, Setting, ChargedIsThere
<1>3. n \in Nat
  BY <1>0, <1>2 DEF Entry
<1>4. ASSUME NEW u \in Threads, u # t, pc[u] = "set_charge" PROVE frame[u].key # k
  <2> SUFFICES ASSUME frame[u].key = k PROVE FALSE
    OBVIOUS
  <2>1. pc[u] \in Writing /\ pc[t] \in Writing
    BY <1>1, <1>4 DEF Writing, Setting
  <2>2. ShardOf[k] \in Shards
    BY <1>2, ConstantsOK
  <2>3. writer[ShardOf[k]] = t /\ writer[ShardOf[k]] = u
    BY <2>1, <2>2 DEF IInv, WriterIsInside
  <2> QED BY <2>3, <1>4
<1>5. Charged(k) = 0
  BY <1>1 DEF Charged
<1>6. Charged(k)' = n
  <2>1. ~ \E u \in Threads : pc'[u] = "set_charge" /\ frame'[u].key = k
    BY <1>0, <1>1, <1>4
  <2>2. map'[k] = map[k]
    BY <1>1
  <2> QED BY <1>1, <1>2, <2>1, <2>2 DEF Charged
<1>7. ASSUME NEW j \in Keys \ {k} PROVE Charged(j)' = Charged(j)
  <2>1. map'[j] = map[j]
    BY <1>1
  <2>2. (\E u \in Threads : pc'[u] = "set_charge" /\ frame'[u].key = j)
        <=> (\E u \in Threads : pc[u] = "set_charge" /\ frame[u].key = j)
    BY <1>0, <1>1
  <2> QED BY <2>1, <2>2 DEF Charged
<1>8. Charges' = [Charges EXCEPT ![k] = n]
  <2> SUFFICES ASSUME NEW i \in Keys, NEW v, i = k, v = n
               PROVE  Charges' = [Charges EXCEPT ![i] = v]
    BY <1>2
  <2>1. Charged(i)' = v
    BY <1>1, <1>6
  <2>2. \A j \in Keys \ {i} : Charged(j)' = Charged(j)
    BY <1>7
  <2> QED BY <2>1, <2>2, OneCharge
<1>9. memory' = memory - Charges[k] + n
  BY <1>0, <1>1, <1>2, <1>3, <1>5, ChargesType
<1> QED BY <1>2, <1>3, <1>8, <1>9 DEF Recharged

\* A step changes the charge of one key at most, and the counter with it.
LEMMA MemorySteps ==
  ASSUME IInv, ChargedIsThere, [Next]_vars
  PROVE  \/ Charges' = Charges /\ memory' = memory
         \/ \E k \in Keys, v \in Nat : Recharged(k, v)
<1>1. ASSUME NEW t \in Threads, SetWrite(t) PROVE \E k \in Keys, v \in Nat : Recharged(k, v)
  <2> DEFINE i == frame[t].key
  <2>1. Recharged(i, 0) /\ i \in Keys
    BY <1>1, WriteRecharges
  <2> HIDE DEF i
  <2> QED BY <2>1
<1>2. ASSUME NEW t \in Threads, SetCharge(t) PROVE \E k \in Keys, v \in Nat : Recharged(k, v)
  <2> DEFINE i == frame[t].key
             n == map[i].bytes
  <2>1. Recharged(i, n) /\ i \in Keys /\ n \in Nat
    BY <1>2, ChargeRecharges
  <2> HIDE DEF i, n
  <2> QED BY <2>1
<1>3. ASSUME ~(\E t \in Threads : SetWrite(t) \/ SetCharge(t)),
             NEW k \in Keys, map[k] # None, Erase(k)
      PROVE  \E j \in Keys, v \in Nat : Recharged(j, v)
  BY <1>3, LeavesRecharges
<1>4. ASSUME ~(\E t \in Threads : SetWrite(t) \/ SetCharge(t)), UNCHANGED <<map, memory>>
      PROVE  Charges' = Charges /\ memory' = memory
  <2>1. ASSUME NEW k \in Keys PROVE Charged(k)' = Charged(k)
    <3>1. (\E t \in Threads : pc'[t] = "set_charge" /\ frame'[t].key = k)
          <=> (\E t \in Threads : pc[t] = "set_charge" /\ frame[t].key = k)
      BY <1>4, ChargingSteps
    <3> QED BY <1>4, <3>1 DEF Charged
  <2>2. Charges' = [k \in Keys |-> Charged(k)']
    BY DEF Charges
  <2> QED BY <1>4, <2>1, <2>2 DEF Charges
<1> DEFINE Gone == \E k \in Keys : map[k] # None /\ Erase(k)
           Same == UNCHANGED <<map, memory>>
<1>5. ASSUME NEW t \in Threads, SetEvict(t) PROVE Gone
  <2> DEFINE r == ShardOf[frame[t].key]
             j == lru[r][Len(lru[r])]
  <2>1. j \in Cached(r) /\ Leaves(j)
    BY <1>5, EvictLeaves
  <2> HIDE DEF j
  <2> QED BY <2>1 DEF Cached, Leaves
<1>6. ASSUME NEW t \in Threads, GetExpired(t) \/ DelErase(t) PROVE Gone
  <2> DEFINE i == frame[t].key
  <2>1. map[i] # None /\ Erase(i) /\ pc[t] \in {"get_take", "del"}
    BY <1>6 DEF GetExpired, DelErase, Finish, Goto
  <2>2. i \in Keys
    BY <2>1 DEF IInv, TypeOK, Keyed
  <2> HIDE DEF i
  <2> QED BY <2>1, <2>2
<1>7. ASSUME ReapErase PROVE Gone
  BY <1>7 DEF ReapErase, Cached
<1> USE DEF shared
<1>8. ASSUME NEW t \in Threads, Call(t) PROVE Same
  BY <1>8 DEF Call, CallSet, CallGet, CallDel, CallScan, Begin
<1>9. ASSUME NEW t \in Threads,
             \/ SetRefused(t) \/ SetLock(t) \/ SetUnlock(t)
             \/ GetPeek(t) \/ GetMiss(t) \/ GetHit(t) \/ DelAbsent(t)
             \/ ScanShard(t) \/ ScanReturn(t) \/ Return(t)
      PROVE  Same
  BY <1>9 DEF SetRefused, SetLock, SetUnlock, GetPeek, GetMiss, GetHit, DelAbsent,
     ScanShard, ScanReturn, Return
<1>10. ASSUME ReaperTest \/ ReaperWake \/ ReapLock \/ ReapUnlock \/ Destroy \/ Tick
              \/ UNCHANGED vars
       PROVE  Same
  BY <1>10 DEF ReaperTest, ReaperWake, ReapLock, ReapUnlock, Destroy, Tick, vars
<1>11. \/ Gone \/ Same \/ \E t \in Threads : SetWrite(t) \/ SetCharge(t)
  <2> HIDE DEF Gone, Same
  <2> QED BY <1>5, <1>6, <1>7, <1>8, <1>9, <1>10 DEF Next, Work, Reap
<1> QED BY <1>1, <1>2, <1>3, <1>4, <1>11

\* The counter follows the sum of the charges.
LEMMA MemoryKept ==
  ASSUME IInv, IInv', ChargedIsThere, MemoryIsAccounted, [Next]_vars
  PROVE  MemoryIsAccounted'
<1>0. memory = SumFunction(Charges)
  BY DEF MemoryIsAccounted, Charges
<1> SUFFICES memory' = SumFunction(Charges')
  BY DEF MemoryIsAccounted, Charges
<1>1. CASE Charges' = Charges /\ memory' = memory
  BY <1>0, <1>1
<1>2. ASSUME NEW k \in Keys, NEW v \in Nat, Recharged(k, v)
      PROVE  memory' = SumFunction(Charges')
  <2>1. /\ Charges' = [Charges EXCEPT ![k] = v]
        /\ memory' = memory - Charges[k] + v
    BY <1>2 DEF Recharged
  <2>2. IsFiniteSet(Keys) /\ Charges \in [Keys -> Int] /\ v \in Int
    BY ChargesType
  <2>3. SumFunction([Charges EXCEPT ![k] = v]) = SumFunction(Charges) - Charges[k] + v
    BY <2>2, SumChanges
  <2> QED BY <1>0, <2>1, <2>3
<1> QED BY <1>1, <1>2, MemorySteps

\* An empty cache has no bytes.
LEMMA InitMemory == Init => ChargedIsThere /\ MemoryIsAccounted
<1> SUFFICES ASSUME Init PROVE ChargedIsThere /\ MemoryIsAccounted
  OBVIOUS
<1>1. ChargedIsThere
  BY DEF Init, ChargedIsThere
<1>2. [k \in Keys |-> Charged(k)] = [k \in Keys |-> 0]
  BY DEF Init, Charged
<1>3. SumFunction([k \in Keys |-> 0]) = 0
  BY ConstantsOK, SumOfNone
<1>4. memory = 0
  BY DEF Init
<1> QED BY <1>1, <1>2, <1>3, <1>4 DEF MemoryIsAccounted

-----------------------------------------------------------------------------
(* The theorems *)

\* At the beginning there is nothing to bound, to count or to order.
LEMMA InitSafe == Init => Safe
<1> SUFFICES ASSUME Init PROVE Safe
  OBVIOUS
<1> USE DEF Init
<1>0. IsFiniteSet({}) /\ Cardinality({}) = 0
  BY FS_EmptySet
<1>1. FullAtMost
  <2>1. \A s \in Shards : Cached(s) = {} /\ Capacity[s] \in Nat
    BY CapacityType DEF Cached
  <2>2. \A s \in Shards : Cardinality(Cached(s)) = 0
    BY <2>1, <1>0
  <2> HIDE DEF Init
  <2> QED BY <2>1, <2>2 DEF FullAtMost
<1>2. CollectedFits
  <2>1. \A t \in Threads : frame[t].items = {}
    BY DEF NoFrame
  <2>2. \A t \in Threads, s \in Shards : Collected(t, s) = {} /\ Capacity[s] \in Nat
    BY <2>1, CapacityType DEF Collected
  <2>3. \A t \in Threads : IsFiniteSet(frame[t].items)
    BY <1>0, <2>1
  <2>4. \A t \in Threads, s \in Shards : Cardinality(Collected(t, s)) = 0
    BY <1>0, <2>2
  <2> HIDE DEF Init
  <2> QED BY <2>2, <2>3, <2>4 DEF CollectedFits
<1>3. TimesArePast /\ ScansSince
  BY DEF TimesArePast, ScansSince, NoFrame
<1>4. UsedInOrder
  BY EmptySeq DEF UsedInOrder
<1>5. CountersAgree /\ IsFiniteSet(LookingUp)
  <2>1. {k \in Keys : map[k] # None} = {} /\ LookingUp = {}
    BY DEF LookingUp
  <2>2. /\ Cardinality({k \in Keys : map[k] # None}) = 0
        /\ Cardinality(LookingUp) = 0 /\ IsFiniteSet(LookingUp)
    BY <1>0, <2>1
  <2> QED BY <2>2 DEF CountersAgree, LookingUp
<1>6. ScanMissesNothingSteady
  BY DEF ScanMissesNothingSteady, Scanning
<1> QED BY <1>1, <1>2, <1>3, <1>4, <1>5, <1>6 DEF Safe

\* Every step keeps the invariant.
LEMMA NextKeepsSafe == IInv /\ Safe /\ [Next]_vars => Safe'
<1> SUFFICES ASSUME IInv, Safe, [Next]_vars PROVE Safe'
  OBVIOUS
<1>1. FullAtMost' /\ CollectedFits' /\ TimesArePast' /\ UsedInOrder' /\ ScansSince'
  BY FullAtMostKept, CollectedKept, TimesKept, OrderKept, SinceKept DEF Safe
<1>2. CountersAgree' /\ IsFiniteSet(LookingUp)'
  <2>1. /\ inserted = Cardinality(Stored) + deleted + evictions + expirations
        /\ gets = hits + misses + Cardinality(LookingUp) /\ IsFiniteSet(LookingUp)
    BY DEF Safe, CountersAgree, Stored, LookingUp
  <2>2. /\ inserted' = Cardinality(Stored') + deleted' + evictions' + expirations'
        /\ gets' = hits' + misses' + Cardinality(LookingUp') /\ IsFiniteSet(LookingUp')
    BY <2>1, EntriesCounted, LooksCounted
  <2> QED BY <2>2 DEF CountersAgree, Stored, LookingUp
<1>3. ScanMissesNothingSteady'
  BY ScansKept DEF Safe
<1> QED BY <1>1, <1>2, <1>3 DEF Safe

\* The shares of the shards bound the whole cache, and what a scan has.
LEMMA SafeWithinMaxKeys ==
  ASSUME IInv, Safe PROVE CacheWithinMaxKeys
<1> USE ConstantsOK
<1>1. ASSUME NEW s \in Shards, Overflowing(s) PROVE writer[s] \in Threads
  BY <1>1 DEF Overflowing, IInv, WriterIsInside, Writing, Setting
<1> DEFINE W == {s \in Shards : writer[s] \in Threads}
<1>2. ASSUME NEW s \in Shards
      PROVE  Cardinality(Cached(s)) <= Capacity[s] + (IF s \in W THEN 1 ELSE 0)
  BY <1>1, CachedFinite, CapacityType DEF Safe, FullAtMost
<1>3. ShardWithinCapacity
  BY <1>2 DEF ShardWithinCapacity
<1>4. Cardinality(Stored) <= MaxKeys + Cardinality(W)
  <2> DEFINE X == Stored
             home == [k \in X |-> ShardOf[k]]
  <2>1. IsFiniteSet(X) /\ home \in [X -> Shards] /\ W \in SUBSET Shards
    BY StoredFinite DEF Stored
  <2>2. \A s \in Shards : {k \in X : home[k] = s} = Cached(s)
    BY DEF Stored, Cached
  <2>3. \A s \in Shards : Cardinality({k \in X : home[k] = s})
                          <= Capacity[s] + (IF s \in W THEN 1 ELSE 0)
    BY <1>2, <2>2
  <2> HIDE DEF X, home, W
  <2>4. Cardinality(X) <= MaxKeys + Cardinality(W)
    BY <2>1, <2>3, SumOfShares
  <2> QED BY <2>4 DEF X
<1>5. ASSUME NEW t \in Threads PROVE Cardinality(frame[t].items) <= MaxKeys
  <2> DEFINE X == frame[t].items
             home == [i \in X |-> ShardOf[i.key]]
  <2>1. X \in SUBSET Item
    BY DEF IInv, TypeOK, Frame
  <2>2. IsFiniteSet(X) /\ home \in [X -> Shards]
    BY <2>1 DEF Safe, CollectedFits, Item
  <2>3. \A s \in Shards : {i \in X : home[i] = s} = Collected(t, s)
    BY DEF Collected
  <2>4. ASSUME NEW s \in Shards
        PROVE  /\ Cardinality({i \in X : home[i] = s}) <= Capacity[s]
               /\ Capacity[s] + 0 = Capacity[s]
    <3>1. Cardinality(Collected(t, s)) <= Capacity[s] /\ Capacity[s] + 0 = Capacity[s]
      BY CapacityType DEF Safe, CollectedFits
    <3>2. {i \in X : home[i] = s} = Collected(t, s)
      BY <2>3
    <3> HIDE DEF X, home
    <3> QED BY <3>1, <3>2
  <2> HIDE DEF X, home
  <2>5. \A s \in Shards : Cardinality({i \in X : home[i] = s})
                          <= Capacity[s] + (IF s \in {} THEN 1 ELSE 0)
    BY <2>4
  <2>6. Cardinality(X) <= MaxKeys + Cardinality({})
    BY <2>2, <2>5, SumOfShares
  <2> QED BY <2>6, FS_EmptySet, ConstantsOK DEF X
<1> QED BY <1>3, <1>4, <1>5 DEF CacheWithinMaxKeys, Stored

\* Of any number of threads, keys and shards: the cache keeps to max_keys and
\* each shard to its share of it.
THEOREM CapacityHolds == Spec => []CacheWithinMaxKeys
<1>1. IInv /\ [Next]_vars => IInv'
  BY NextKeepsIInv
<1>2. IInv /\ Safe => CacheWithinMaxKeys
  BY SafeWithinMaxKeys
<1> QED BY InitIInv, InitSafe, NextKeepsSafe, <1>1, <1>2, PTL DEF Spec

\* The counters add up: an insertion is cached or has left in one of three
\* counted ways, and a get that looked is a hit or a miss.
THEOREM CountersHold == Spec => []CountersAgree
<1>1. IInv /\ [Next]_vars => IInv'
  BY NextKeepsIInv
<1>2. Safe => CountersAgree
  BY DEF Safe
<1> QED BY InitIInv, InitSafe, NextKeepsSafe, <1>1, <1>2, PTL DEF Spec

\* A scan that is not atomic still lists, once, what was there all the time.
THEOREM ScansAreComplete == Spec => []ScanMissesNothingSteady
<1>1. IInv /\ [Next]_vars => IInv'
  BY NextKeepsIInv
<1>2. Safe => ScanMissesNothingSteady
  BY DEF Safe
<1> QED BY InitIInv, InitSafe, NextKeepsSafe, <1>1, <1>2, PTL DEF Spec

\* No entry is taken as expired before its deadline, whenever the time was
\* read that it was compared with.
THEOREM ExpiryIsNeverEarly == Spec => NoEarlyExpiry
<1> DEFINE A == expirations' # expirations =>
                  \E k \in Keys : /\ map[k] # None /\ map' = [map EXCEPT ![k] = None]
                                  /\ map[k].expiry \in 0 .. clock
<1>1. IInv /\ [Next]_vars => IInv'
  BY NextKeepsIInv
<1>2. IInv /\ Safe /\ [Next]_vars => [A]_vars
  BY ExpiryIsDue DEF Safe
<1> QED BY InitIInv, InitSafe, NextKeepsSafe, <1>1, <1>2, PTL DEF Spec, NoEarlyExpiry

\* The key that an eviction takes was used before every other of its shard.
THEOREM EvictionIsLRU == Spec => OnlyTheOldestIsEvicted
<1> DEFINE A == evictions' # evictions =>
                  \E k \in Keys :
                    /\ map[k] # None /\ map' = [map EXCEPT ![k] = None]
                    /\ \A j \in Cached(ShardOf[k]) \ {k} : lastUse[k] < lastUse[j]
<1>1. IInv /\ [Next]_vars => IInv'
  BY NextKeepsIInv
<1>2. IInv /\ Safe /\ [Next]_vars => [A]_vars
  <2> SUFFICES ASSUME IInv, Safe, [Next]_vars, evictions' # evictions
               PROVE  \E k \in Keys :
                        /\ map[k] # None /\ map' = [map EXCEPT ![k] = None]
                        /\ \A j \in Cached(ShardOf[k]) \ {k} : lastUse[k] < lastUse[j]
    OBVIOUS
  <2>1. PICK t \in Threads : SetEvict(t)
    BY CountingSteps
  <2> DEFINE s == ShardOf[frame[t].key]
             k == lru[s][Len(lru[s])]
  <2>2. k \in Cached(s) /\ Leaves(k)
    BY <2>1, EvictLeaves
  <2>3. \A j \in Cached(s) \ {k} : lastUse[k] < lastUse[j]
    BY <2>1, EvictedIsOldest DEF Safe
  <2> HIDE DEF k
  <2>4. k \in Keys /\ ShardOf[k] = s
    BY <2>2 DEF Cached
  <2>5. map[k] # None /\ map' = [map EXCEPT ![k] = None]
    BY <2>2 DEF Leaves, Erase
  <2> QED BY <2>3, <2>4, <2>5
<1> QED BY InitIInv, InitSafe, NextKeepsSafe, <1>1, <1>2, PTL DEF Spec, OnlyTheOldestIsEvicted

\* The memory counter is what is cached, less what a set is between its two
\* changes of the counter with; it never goes below zero.
THEOREM MemoryHolds == Spec => [](MemoryIsAccounted /\ memory >= 0)
<1> DEFINE M == ChargedIsThere /\ MemoryIsAccounted
<1>1. IInv /\ [Next]_vars => IInv'
  BY NextKeepsIInv
<1>2. IInv /\ M /\ [Next]_vars => M'
  BY <1>1, ChargedStays, MemoryKept
<1>3. IInv /\ M => MemoryIsAccounted /\ memory >= 0
  <2> SUFFICES ASSUME IInv, MemoryIsAccounted PROVE memory >= 0
    OBVIOUS
  <2>1. IsFiniteSet(Keys) /\ Charges \in [Keys -> Nat]
    BY ChargesType
  <2>2. SumFunction(Charges) \in Nat
    BY <2>1, SumIsNatural
  <2> QED BY <2>2 DEF MemoryIsAccounted, Charges
<1> QED BY InitIInv, InitMemory, <1>1, <1>2, <1>3, PTL DEF Spec

-----------------------------------------------------------------------------
(* ShardedCache implements ExpiringMap *)

\* A scan is about no key, and a set that is about to write found room.
Mapped ==
  \A t \in Threads :
    /\ pc[t] \in Scanning => frame[t].key = None
    /\ pc[t] = "set_write" => Capacity[ShardOf[frame[t].key]] # 0

RInv == IInv /\ Safe /\ Mapped

\* A call keeps its key, and it takes a lock before it writes.
LEMMA MappedKept ==
  ASSUME IInv, Mapped, [Next]_vars PROVE Mapped'
<1> USE DEF Goto
<1>0. /\ pc \in [Threads -> Keyed \cup Scanning \cup {"idle", "done"}]
      /\ frame \in [Threads -> Frame]
  BY DEF IInv, TypeOK
<1> SUFFICES ASSUME NEW u \in Threads
             PROVE  /\ pc'[u] \in Scanning => frame'[u].key = None
                    /\ pc'[u] = "set_write" => Capacity[ShardOf[frame'[u].key]] # 0
  BY DEF Mapped, Capacity
<1> DEFINE Fine == /\ pc'[u] \in Scanning => frame'[u].key = None
                   /\ pc'[u] = "set_write" => Capacity[ShardOf[frame'[u].key]] # 0
<1>1. /\ pc[u] \in Scanning => frame[u].key = None
      /\ pc[u] = "set_write" => Capacity[ShardOf[frame[u].key]] # 0
  BY DEF Mapped
<1>2. CASE UNCHANGED <<pc[u], frame[u]>>
  BY <1>1, <1>2
<1>3. ASSUME pc'[u] \notin Scanning, pc'[u] # "set_write" PROVE Fine
  BY <1>3
<1>4. ASSUME NEW t \in Threads, CallSet(t) \/ CallGet(t) \/ CallDel(t) PROVE Fine
  BY <1>0, <1>2, <1>3, <1>4 DEF CallSet, CallGet, CallDel, Begin, Scanning
<1>5. ASSUME NEW t \in Threads, CallScan(t) PROVE Fine
  <2>1. PICK op \in {"count", "snapshot"} :
          Begin(t, op, [NoFrame EXCEPT !.now = clock, !.since = uses])
    BY <1>5 DEF CallScan
  <2> DEFINE f == [NoFrame EXCEPT !.now = clock, !.since = uses]
  <2>2. f.key = None /\ pc' = [pc EXCEPT ![t] = op] /\ frame' = [frame EXCEPT ![t] = f]
    BY <2>1 DEF NoFrame, Begin
  <2> HIDE DEF f
  <2>3. CASE t = u
    <3>1. pc'[u] = op /\ frame'[u] = f
      BY <1>0, <2>2, <2>3
    <3> QED BY <2>2, <3>1
  <2>4. CASE t # u
    BY <1>0, <1>2, <2>2, <2>4
  <2> QED BY <2>3, <2>4
<1>6. ASSUME NEW t \in Threads, SetLock(t) PROVE Fine
  BY <1>0, <1>1, <1>6 DEF SetLock, Scanning
<1>7. ASSUME NEW t \in Threads, SetWrite(t) \/ SetCharge(t) \/ SetEvict(t) PROVE Fine
  BY <1>0, <1>1, <1>7 DEF SetWrite, SetCharge, SetEvict, Scanning
<1>8. ASSUME NEW t \in Threads,
             \/ SetRefused(t) \/ SetUnlock(t) \/ GetMiss(t) \/ GetExpired(t)
             \/ GetHit(t) \/ GetPeek(t) \/ DelErase(t) \/ DelAbsent(t)
             \/ ScanReturn(t) \/ Return(t)
      PROVE  Fine
  <2>1. CASE t = u
    <3>1. pc'[u] \in {"done", "idle", "get_take"}
      BY <1>0, <1>8, <2>1 DEF SetRefused, SetUnlock, GetMiss, GetExpired, GetHit, GetPeek,
         DelErase, DelAbsent, ScanReturn, Return, Finish
    <3> QED BY <1>3, <3>1 DEF Scanning
  <2>2. CASE t # u
    BY <1>0, <1>2, <1>8, <2>2 DEF SetRefused, SetUnlock, GetMiss, GetExpired, GetHit, GetPeek,
       DelErase, DelAbsent, ScanReturn, Return, Finish
  <2> QED BY <2>1, <2>2
<1>9. ASSUME NEW t \in Threads, ScanShard(t) PROVE Fine
  <2>1. frame'[u].key = frame[u].key /\ pc' = pc
    BY <1>0, <1>9 DEF ScanShard, Frame
  <2> QED BY <1>1, <2>1
<1>10. CASE Reap \/ Destroy \/ Tick \/ UNCHANGED vars
  BY <1>2, <1>10 DEF Reap, ReaperTest, ReaperWake, ReapLock, ReapErase, ReapUnlock,
     Destroy, Tick, vars
<1> QED BY <1>4, <1>5, <1>6, <1>7, <1>8, <1>9, <1>10 DEF Next, Call, Work

-----------------------------------------------------------------------------
(* The mapping *)

Store == [k \in Keys |-> StoredAt(k)]
Calls == [t \in Threads |-> CallOf(t)]

\* A key is stored if it is cached.
LEMMA StoredIffCached ==
  ASSUME TypeOK
  PROVE  /\ \A k \in Keys : StoredAt(k) = None <=> map[k] = None
         /\ \A s : Promise!Stored(s) = Cached(s)
<1>1. ASSUME NEW k \in Keys PROVE StoredAt(k) = None <=> map[k] = None
  <2>1. ASSUME map[k] # None
        PROVE  [value |-> map[k].value, expiry |-> map[k].expiry]
                 \in [value : Values, expiry : Nat \cup {None}]
    BY <2>1 DEF TypeOK, Entry
  <2> QED BY <2>1, NoneIsNoRecord DEF StoredAt
<1>2. ASSUME NEW s PROVE Promise!Stored(s) = Cached(s)
  BY <1>1 DEF Promise!Stored, Cached
<1> QED BY <1>1, <1>2

\* The group of a shard that nobody is inside is settled, and so is that of a
\* set which is about to write.
LEMMA SettledShards ==
  ASSUME RInv, NEW s \in Shards,
         Unlocked(s) \/ \E t \in Threads : writer[s] = t /\ pc[t] = "set_write"
  PROVE  Promise!Settled(s)
<1>1. Cardinality(Cached(s)) <= Capacity[s]
  <2>1. CASE Unlocked(s)
    BY <2>1, UnlockedFits DEF RInv, Safe
  <2>2. ASSUME NEW t \in Threads, writer[s] = t, pc[t] = "set_write"
        PROVE  ~Overflowing(s)
    BY <2>2 DEF Overflowing, RInv, IInv, WriterIsInside, Writing, Setting
  <2> QED BY <2>1, <2>2, CapacityType, CachedFinite DEF RInv, Safe, FullAtMost
<1>2. Promise!Stored(s) = Cached(s)
  BY StoredIffCached DEF RInv, IInv
<1>3. Promise!Cardinality(Cached(s)) = Cardinality(Cached(s))
  BY Zenon DEF Promise!Cardinality, Cardinality, Promise!IsFiniteSet, IsFiniteSet
<1> QED BY <1>1, <1>2, <1>3 DEF Promise!Settled

\* An entry that is erased is no longer stored.
LEMMA ErasedIsDropped ==
  ASSUME TypeOK, NEW k \in Keys, map' = [map EXCEPT ![k] = None]
  PROVE  Store' = [Store EXCEPT ![k] = None]
<1>1. \A j \in Keys : StoredAt(j)' = IF j = k THEN None ELSE StoredAt(j)
  BY DEF TypeOK, StoredAt
<1> QED BY <1>1 DEF Store

\* A step of one thread changes one call.
LEMMA OneCallSteps ==
  ASSUME NEW t \in Threads, NEW r, CallOf(t)' = r,
         \A u \in Threads \ {t} : UNCHANGED <<pc[u], frame[u]>>
  PROVE  Calls' = [Calls EXCEPT ![t] = r]
<1>1. \A u \in Threads \ {t} : CallOf(u)' = CallOf(u)
  BY DEF CallOf
<1> QED BY <1>1 DEF Calls

\* The end of a call of set, get or del is its answer.
LEMMA FinishIsAnswer ==
  ASSUME TypeOK, NEW t \in Threads, NEW from, from \in Keyed,
         NEW reply \in Values \cup BOOLEAN \cup {None}, Finish(t, from, reply)
  PROVE  Promise!Answer(t, reply) /\ Calls' = [Calls EXCEPT ![t] = [reply |-> reply]]
<1>1. /\ pc[t] = from /\ pc' = [pc EXCEPT ![t] = "done"]
      /\ frame' = [frame EXCEPT ![t].reply = reply]
  BY DEF Finish, Goto
<1>2. frame[t].key \in Keys /\ frame \in [Threads -> Frame]
      /\ pc \in [Threads -> Keyed \cup Scanning \cup {"idle", "done"}]
  BY <1>1 DEF TypeOK
<1>3. pc'[t] = "done" /\ frame'[t].key # None /\ frame'[t].reply = reply
  BY <1>1, <1>2, ConstantsOK DEF Frame
<1>4. CallOf(t)' = [reply |-> reply]
  BY <1>3 DEF CallOf
<1>5. \A u \in Threads \ {t} : UNCHANGED <<pc[u], frame[u]>>
  BY <1>1, <1>2
<1> QED BY <1>4, <1>5, OneCallSteps DEF Promise!Answer, Calls

\* The requests as the abstract map sees them.
LEMMA Asking ==
  ASSUME TypeOK, NEW t \in Threads
  PROVE  /\ pc[t] \in {"set_lock", "set_write"} =>
              /\ Promise!Asked(t, "set") /\ Calls[t].key = frame[t].key
              /\ Calls[t].value = frame[t].value /\ Calls[t].ttl = frame[t].ttl
         /\ pc[t] \in {"get_peek", "get_take"} =>
              /\ Promise!Asked(t, "get") /\ Calls[t].key = frame[t].key
              /\ Calls[t].since = frame[t].now
         /\ pc[t] = "del" => Promise!Asked(t, "del") /\ Calls[t].key = frame[t].key
<1> DEFINE f == frame[t]
<1>1. /\ f \in Frame
      /\ pc[t] \in Keyed => f.key \in Keys
      /\ pc[t] \in Setting => f.value \in Values
  BY DEF TypeOK
<1>2. CASE pc[t] \in {"set_lock", "set_write"}
  <2> DEFINE r == [op |-> "set", key |-> f.key, value |-> f.value, ttl |-> f.ttl]
  <2>1. CallOf(t) = r
    BY <1>2 DEF CallOf
  <2>2. r \in [op : {"set"}, key : Keys, value : Values, ttl : TTLs \cup {None}]
    BY <1>1, <1>2 DEF Keyed, Setting, Frame
  <2>3. r # None
    BY <2>2, NoneIsNoRecord
  <2>4. Calls[t] = r
    BY <2>1 DEF Calls
  <2>5. "op" \in DOMAIN r /\ r.op = "set" /\ r.key = f.key /\ r.value = f.value /\ r.ttl = f.ttl
    OBVIOUS
  <2> HIDE DEF r
  <2> QED BY <1>2, <2>3, <2>4, <2>5 DEF Promise!Asked, Calls
<1>3. CASE pc[t] \in {"get_peek", "get_take"}
  <2> DEFINE r == [op |-> "get", key |-> f.key, since |-> f.now]
  <2>1. CallOf(t) = r
    BY <1>3 DEF CallOf
  <2>2. r \in [op : {"get"}, key : Keys, since : Nat]
    BY <1>1, <1>3 DEF Keyed, Frame
  <2>3. r # None
    BY <2>2, NoneIsNoRecord
  <2>4. Calls[t] = r
    BY <2>1 DEF Calls
  <2>5. "op" \in DOMAIN r /\ r.op = "get" /\ r.key = f.key /\ r.since = f.now
    OBVIOUS
  <2> HIDE DEF r
  <2> QED BY <1>3, <2>3, <2>4, <2>5 DEF Promise!Asked, Calls
<1>4. CASE pc[t] = "del"
  <2> DEFINE r == [op |-> "del", key |-> f.key]
  <2>1. CallOf(t) = r
    BY <1>4 DEF CallOf
  <2>2. r \in [op : {"del"}, key : Keys]
    BY <1>1, <1>4 DEF Keyed
  <2>3. r # None
    BY <2>2, NoneIsNoRecord
  <2>4. Calls[t] = r
    BY <2>1 DEF Calls
  <2>5. "op" \in DOMAIN r /\ r.op = "del" /\ r.key = f.key
    OBVIOUS
  <2> HIDE DEF r
  <2> QED BY <1>4, <2>3, <2>4, <2>5 DEF Promise!Asked, Calls
<1> QED BY <1>2, <1>3, <1>4

-----------------------------------------------------------------------------
(* Each step of the cache is a step of the abstract map, or none *)

\* Nothing that the abstract map sees has changed.
LEMMA UnseenSteps ==
  ASSUME UNCHANGED <<clock, Store, Calls, uses, lastUse>>
  PROVE  [Promise!Next]_(Promise!vars)
BY DEF Promise!vars, Store, Calls

\* The store is a matter of the map alone.
LEMMA SameMapSameStore == ASSUME UNCHANGED map PROVE UNCHANGED Store
BY DEF Store, StoredAt

\* The calls are a matter of the places and the locals.
LEMMA SameCalls ==
  ASSUME \A u \in Threads : UNCHANGED CallOf(u) PROVE UNCHANGED Calls
BY DEF Calls

\* A client that calls set, get or del asks.
LEMMA CallIsAsk ==
  ASSUME RInv, NEW t \in Threads, CallSet(t) \/ CallGet(t) \/ CallDel(t)
  PROVE  Promise!Ask(t)
<1> USE DEF RInv, IInv
<1>0. /\ pc \in [Threads -> Keyed \cup Scanning \cup {"idle", "done"}]
      /\ frame \in [Threads -> Frame] /\ clock \in Nat
  BY DEF TypeOK
<1>1. PICK label, f, r :
        /\ Begin(t, label, f)
        /\ r \in [op : {"set"}, key : Keys, value : Values, ttl : TTLs \cup {None}]
                   \cup [op : {"get"}, key : Keys, since : {clock}]
                   \cup [op : {"del"}, key : Keys]
        /\ \/ /\ label = "set_lock"
              /\ r = [op |-> "set", key |-> f.key, value |-> f.value, ttl |-> f.ttl]
           \/ label = "get_peek" /\ r = [op |-> "get", key |-> f.key, since |-> f.now]
           \/ label = "del" /\ r = [op |-> "del", key |-> f.key]
  <2>1. CASE CallSet(t)
    <3>1. PICK k \in Keys, v \in Values, ttl \in TTLs \cup {None} :
            Begin(t, "set_lock", [NoFrame EXCEPT !.key = k, !.value = v, !.ttl = ttl])
      BY <2>1 DEF CallSet
    <3> DEFINE f == [NoFrame EXCEPT !.key = k, !.value = v, !.ttl = ttl]
    <3>2. f.key = k /\ f.value = v /\ f.ttl = ttl
      BY DEF NoFrame
    <3> HIDE DEF f
    <3>3. Begin(t, "set_lock", f)
      BY <3>1 DEF f
    <3> QED BY <3>2, <3>3
  <2>2. CASE CallGet(t)
    <3>1. PICK k \in Keys : Begin(t, "get_peek", [NoFrame EXCEPT !.key = k, !.now = clock])
      BY <2>2 DEF CallGet
    <3> DEFINE f == [NoFrame EXCEPT !.key = k, !.now = clock]
    <3>2. f.key = k /\ f.now = clock
      BY DEF NoFrame
    <3> HIDE DEF f
    <3>3. Begin(t, "get_peek", f)
      BY <3>1 DEF f
    <3> QED BY <3>2, <3>3
  <2>3. CASE CallDel(t)
    <3>1. PICK k \in Keys : Begin(t, "del", [NoFrame EXCEPT !.key = k])
      BY <2>3 DEF CallDel
    <3> DEFINE f == [NoFrame EXCEPT !.key = k]
    <3>2. f.key = k
      BY DEF NoFrame
    <3> HIDE DEF f
    <3>3. Begin(t, "del", f)
      BY <3>1 DEF f
    <3> QED BY <3>2, <3>3
  <2> QED BY <2>1, <2>2, <2>3
<1>2. /\ pc[t] = "idle" /\ pc' = [pc EXCEPT ![t] = label] /\ frame' = [frame EXCEPT ![t] = f]
      /\ UNCHANGED <<clock, map, uses, lastUse>>
  BY <1>1 DEF Begin, Goto, shared
<1>3. CallOf(t) = None
  BY <1>2 DEF CallOf
<1>4. CallOf(t)' = r
  <2>1. pc'[t] = label /\ frame'[t] = f
    BY <1>0, <1>2
  <2> QED BY <1>1, <2>1 DEF CallOf
<1>5. Calls' = [Calls EXCEPT ![t] = r]
  <2>1. \A u \in Threads \ {t} : UNCHANGED <<pc[u], frame[u]>>
    BY <1>0, <1>2
  <2> QED BY <1>4, <2>1, OneCallSteps
<1>6. r \in Promise!Requests
  BY <1>1 DEF Promise!Requests
<1>7. Calls'[t] = r /\ Calls[t] = None
  BY <1>3, <1>5 DEF Calls
<1>8. UNCHANGED Store
  BY <1>2, SameMapSameStore
<1> QED BY <1>2, <1>5, <1>6, <1>7, <1>8 DEF Promise!Ask, Calls, Store

\* A reply that is taken ends the call; a scan's end is not seen.
LEMMA ReturnIsTake ==
  ASSUME RInv, NEW t \in Threads, Return(t) PROVE [Promise!Next]_(Promise!vars)
<1> USE DEF RInv, IInv
<1>0. /\ pc \in [Threads -> Keyed \cup Scanning \cup {"idle", "done"}]
      /\ frame \in [Threads -> Frame]
  BY DEF TypeOK
<1>1. /\ pc[t] = "done" /\ pc' = [pc EXCEPT ![t] = "idle"]
      /\ frame' = [frame EXCEPT ![t] = NoFrame]
      /\ UNCHANGED <<clock, map, uses, lastUse>>
  BY DEF Return, Goto, shared, history
<1>2. CallOf(t)' = None
  BY <1>0, <1>1 DEF CallOf
<1>3. \A u \in Threads \ {t} : UNCHANGED <<pc[u], frame[u]>>
  BY <1>0, <1>1
<1>4. UNCHANGED Store
  BY <1>1, SameMapSameStore
<1>5. CASE frame[t].key = None
  <2>1. CallOf(t) = None
    BY <1>1, <1>5 DEF CallOf
  <2>2. \A u \in Threads \ {t} : UNCHANGED CallOf(u)
    BY <1>3 DEF CallOf
  <2>3. UNCHANGED Calls
    BY <1>2, <2>1, <2>2, SameCalls
  <2> QED BY <1>1, <1>4, <2>3, UnseenSteps
<1>6. CASE frame[t].key # None
  <2> DEFINE r == [reply |-> frame[t].reply]
  <2>1. CallOf(t) = r
    BY <1>1, <1>6 DEF CallOf
  <2>2. r # None /\ "reply" \in DOMAIN r
    <3>1. r \in [reply : Values \cup BOOLEAN \cup {None}]
      BY <1>0 DEF Frame
    <3> QED BY <3>1, NoneIsNoRecord
  <2>3. Calls' = [Calls EXCEPT ![t] = None]
    BY <1>2, <1>3, OneCallSteps
  <2>4. Calls[t] = r
    BY <2>1 DEF Calls
  <2> HIDE DEF r
  <2>5. Promise!Take(t)
    BY <1>1, <1>4, <2>2, <2>3, <2>4 DEF Promise!Take, Calls, Store
  <2> QED BY <2>5 DEF Promise!Next
<1> QED BY <1>5, <1>6

\* The write of a set puts its entry.
LEMMA WriteIsPut ==
  ASSUME RInv, NEW t \in Threads, SetWrite(t) PROVE Promise!Put(t)
<1> USE DEF RInv, IInv
<1> DEFINE k == frame[t].key
           s == ShardOf[k]
           e == [value  |-> frame[t].value,
                 expiry |-> IF frame[t].ttl = None THEN None
                            ELSE clock + frame[t].ttl * TicksPerMs]
<1>0. /\ pc \in [Threads -> Keyed \cup Scanning \cup {"idle", "done"}]
      /\ frame \in [Threads -> Frame] /\ map \in [Keys -> Entry \cup {None}]
  BY DEF TypeOK
<1>1. /\ k \in Keys /\ s \in Shards /\ NewEntry(t) # None
      /\ pc[t] = "set_write" /\ writer[s] = t
      /\ pc' = [pc EXCEPT ![t] = "set_charge"]
      /\ map' = [map EXCEPT ![k] = NewEntry(t)]
      /\ uses' = uses + 1 /\ lastUse' = [lastUse EXCEPT ![k] = uses + 1]
      /\ UNCHANGED <<clock, frame>>
  BY SetWriteFacts
<1>2. /\ Promise!Asked(t, "set") /\ Calls[t].key = k
      /\ Calls[t].value = frame[t].value /\ Calls[t].ttl = frame[t].ttl
  BY <1>1, Asking
<1>3. Promise!Settled(s)
  BY <1>1, SettledShards
<1>4. Capacity[s] > 0
  BY <1>1, CapacityType DEF Mapped
<1>5. Store' = [Store EXCEPT ![k] = e]
  <2>1. [value |-> NewEntry(t).value, expiry |-> NewEntry(t).expiry] = e
    BY DEF NewEntry, Deadline
  <2> HIDE DEF e
  <2>2. \A j \in Keys : StoredAt(j)' = IF j = k THEN e ELSE StoredAt(j)
    BY <1>0, <1>1, <2>1 DEF StoredAt
  <2> QED BY <2>2 DEF Store
<1>6. Calls' = [Calls EXCEPT ![t] = [reply |-> TRUE]]
  <2>1. CallOf(t)' = [reply |-> TRUE]
    BY <1>0, <1>1 DEF CallOf
  <2>2. \A u \in Threads \ {t} : UNCHANGED <<pc[u], frame[u]>>
    BY <1>0, <1>1
  <2> QED BY <2>1, <2>2, OneCallSteps
<1>7. Promise!Use(k) /\ Promise!Answer(t, TRUE)
  BY <1>1, <1>6 DEF Promise!Use, Promise!Answer, Calls
<1> HIDE DEF k, s
<1> QED BY <1>1, <1>2, <1>3, <1>4, <1>5, <1>7 DEF Promise!Put, Calls, Store, s

\* A shard without room refuses.
LEMMA RefusedIsRefuse ==
  ASSUME RInv, NEW t \in Threads, SetRefused(t) PROVE Promise!Refuse(t)
<1> USE DEF RInv, IInv
<1>1. /\ Finish(t, "set_lock", FALSE) /\ pc[t] = "set_lock"
      /\ Capacity[ShardOf[frame[t].key]] = 0
      /\ UNCHANGED <<clock, map, uses, lastUse>>
  BY DEF SetRefused, Finish, Goto, shared, history
<1>2. Promise!Asked(t, "set") /\ Calls[t].key = frame[t].key
  BY <1>1, Asking
<1>3. Promise!Answer(t, FALSE)
  BY <1>1, FinishIsAnswer DEF Keyed, Setting
<1>4. UNCHANGED Store
  BY <1>1, SameMapSameStore
<1> QED BY <1>1, <1>2, <1>3, <1>4 DEF Promise!Refuse, Calls, Store

\* A hit finds an entry that was alive when the get was called.
LEMMA HitIsHit ==
  ASSUME RInv, NEW t \in Threads, GetHit(t) PROVE Promise!Hit(t)
<1> USE DEF RInv, IInv
<1> DEFINE k == frame[t].key
<1>1. /\ Finish(t, "get_take", map[k].value) /\ pc[t] = "get_take"
      /\ Unlocked(ShardOf[k]) /\ map[k] # None /\ ~Expired(map[k], frame[t].now)
      /\ uses' = uses + 1 /\ lastUse' = [lastUse EXCEPT ![k] = uses + 1]
      /\ UNCHANGED <<clock, map>>
  BY DEF GetHit, Finish, Goto, Use
<1>2. k \in Keys /\ ShardOf[k] \in Shards /\ map[k].value \in Values
  BY <1>1, ConstantsOK DEF TypeOK, Keyed, Entry
<1>3. Promise!Asked(t, "get") /\ Calls[t].key = k /\ Calls[t].since = frame[t].now
  BY <1>1, Asking
<1>4. Promise!Settled(ShardOf[k])
  BY <1>1, <1>2, SettledShards
<1>5. Promise!Answer(t, map[k].value)
  BY <1>1, <1>2, FinishIsAnswer DEF Keyed
<1>6. UNCHANGED Store
  BY <1>1, SameMapSameStore
<1>7. /\ Store[k] = [value |-> map[k].value, expiry |-> map[k].expiry] /\ Store[k] # None
  BY <1>1, <1>2, StoredIffCached DEF Store, StoredAt
<1>8. ~Promise!Past(Store[k], frame[t].now)
  BY <1>1, <1>7 DEF Promise!Past, Expired
<1>9. Promise!Use(k)
  BY <1>1 DEF Promise!Use
<1>10. Store[k].value = map[k].value
  BY <1>7
<1> HIDE DEF k
<1> QED BY <1>1, <1>3, <1>4, <1>5, <1>6, <1>7, <1>8, <1>9, <1>10 DEF Promise!Hit, Calls, Store

\* Both looks of a get that find nothing, and the one that finds an entry past
\* its deadline and takes it, are misses.
LEMMA MissIsMiss ==
  ASSUME RInv, NEW t \in Threads,
         \/ GetPeek(t) /\ map[frame[t].key] = None
         \/ GetMiss(t)
         \/ GetExpired(t)
  PROVE  Promise!Miss(t)
<1> USE DEF RInv, IInv
<1> DEFINE k == frame[t].key
<1>1. PICK from \in {"get_peek", "get_take"} :
        /\ Finish(t, from, None) /\ pc[t] = from
        /\ Unlocked(ShardOf[k]) /\ UNCHANGED <<clock, uses, lastUse>>
        /\ \/ map[k] = None /\ map' = map
           \/ /\ map[k] # None /\ Expired(map[k], frame[t].now)
              /\ map' = [map EXCEPT ![k] = None]
  BY DEF GetPeek, GetMiss, GetExpired, Finish, Goto, Erase, shared, history
<1>2. k \in Keys /\ ShardOf[k] \in Shards
  BY <1>1, ConstantsOK DEF TypeOK, Keyed
<1>3. Promise!Asked(t, "get") /\ Calls[t].key = k /\ Calls[t].since = frame[t].now
  BY <1>1, Asking
<1>4. Promise!Settled(ShardOf[k])
  BY <1>1, <1>2, SettledShards
<1>5. Promise!Answer(t, None)
  BY <1>1, FinishIsAnswer DEF Keyed
<1>6. Store' = [Store EXCEPT ![k] = None]
  <2>1. map' = [map EXCEPT ![k] = None]
    BY <1>1, <1>2 DEF TypeOK
  <2> QED BY <1>2, <2>1, ErasedIsDropped
<1>7. Store[k] # None => Promise!Past(Store[k], frame[t].now)
  BY <1>1, <1>2, StoredIffCached DEF Store, StoredAt, Promise!Past, Expired
<1> HIDE DEF k
<1> QED BY <1>1, <1>3, <1>4, <1>5, <1>6, <1>7 DEF Promise!Miss, Promise!Drop, Calls, Store

\* A del answers whether the key was there, and it is no longer.
LEMMA DelIsRemove ==
  ASSUME RInv, NEW t \in Threads, DelErase(t) \/ DelAbsent(t) PROVE Promise!Remove(t)
<1> USE DEF RInv, IInv
<1> DEFINE k == frame[t].key
<1>1. /\ Finish(t, "del", map[k] # None) /\ pc[t] = "del" /\ Unlocked(ShardOf[k])
      /\ UNCHANGED <<clock, uses, lastUse>>
      /\ \/ map[k] = None /\ map' = map
         \/ map' = [map EXCEPT ![k] = None]
  <2>1. CASE DelErase(t)
    <3>1. (map[k] # None) = TRUE
      BY <2>1 DEF DelErase
    <3> QED BY <2>1, <3>1 DEF DelErase, Finish, Goto, Erase
  <2>2. CASE DelAbsent(t)
    <3>1. (map[k] # None) = FALSE
      BY <2>2 DEF DelAbsent
    <3> QED BY <2>2, <3>1 DEF DelAbsent, Finish, Goto, shared, history
  <2> QED BY <2>1, <2>2
<1>2. k \in Keys /\ ShardOf[k] \in Shards
  BY <1>1, ConstantsOK DEF TypeOK, Keyed
<1>3. Promise!Asked(t, "del") /\ Calls[t].key = k
  BY <1>1, Asking
<1>4. Promise!Settled(ShardOf[k])
  BY <1>1, <1>2, SettledShards
<1>5. Promise!Answer(t, map[k] # None)
  BY <1>1, FinishIsAnswer DEF Keyed
<1>6. Store' = [Store EXCEPT ![k] = None]
  <2>1. map' = [map EXCEPT ![k] = None]
    BY <1>1, <1>2 DEF TypeOK
  <2> QED BY <1>2, <2>1, ErasedIsDropped
<1>7. (Store[k] # None) = (map[k] # None)
  BY <1>2, StoredIffCached DEF Store
<1>8. Promise!Answer(t, Store[k] # None)
  BY <1>5, <1>7
<1> HIDE DEF k
<1> QED BY <1>1, <1>3, <1>4, <1>6, <1>8 DEF Promise!Remove, Promise!Drop, Calls, Store

\* The eviction takes the oldest entry of a group that is over its room.
LEMMA EvictIsEvict ==
  ASSUME RInv, NEW t \in Threads, SetEvict(t) PROVE \E k \in Keys : Promise!Evict(k)
<1> USE DEF RInv, IInv
<1> DEFINE s == ShardOf[frame[t].key]
           k == lru[s][Len(lru[s])]
<1>1. /\ s \in Shards /\ k \in Cached(s) /\ Leaves(k) /\ Over(s)
      /\ UNCHANGED <<clock, pc, frame>>
  BY EvictLeaves
<1>2. \A j \in Cached(s) \ {k} : lastUse[k] < lastUse[j]
  BY EvictedIsOldest DEF Safe
<1> HIDE DEF k, s
<1>3. k \in Keys /\ ShardOf[k] = s /\ map[k] # None
  BY <1>1 DEF Cached
<1>4. Store[k] # None
  BY <1>3, StoredIffCached DEF Store
<1>5. Promise!Stored(s) = Cached(s)
  BY StoredIffCached
<1>6. ~Promise!Settled(s)
  <2>1. Promise!Cardinality(Cached(s)) = Cardinality(Cached(s))
    BY Zenon DEF Promise!Cardinality, Cardinality, Promise!IsFiniteSet, IsFiniteSet
  <2>2. Cardinality(Cached(s)) > Capacity[s]
    BY <1>1 DEF Over
  <2> QED BY <1>1, <1>5, <2>1, <2>2, CachedFinite, CapacityType DEF Promise!Settled
<1>7. Store' = [Store EXCEPT ![k] = None]
  <2>1. map' = [map EXCEPT ![k] = None]
    BY <1>1 DEF Leaves, Erase
  <2> QED BY <1>3, <2>1, ErasedIsDropped
<1>8. UNCHANGED Calls
  BY <1>1, SameCalls DEF CallOf
<1>9. UNCHANGED <<uses, lastUse>>
  BY <1>1 DEF Leaves
<1>10. Promise!Evict(k)
  BY <1>1, <1>2, <1>3, <1>4, <1>5, <1>6, <1>7, <1>8, <1>9
  DEF Promise!Evict, Promise!Drop, Calls, Store
<1> QED BY <1>3, <1>10

\* The reaper takes an entry that is past its deadline.
LEMMA ReapIsExpire ==
  ASSUME RInv, ReapErase PROVE \E k \in Keys : Promise!Expire(k)
<1> USE DEF RInv, IInv
<1>1. PICK k \in Keys : map[k] # None /\ Expired(map[k], rnow) /\ map' = [map EXCEPT ![k] = None]
  BY DEF ReapErase, Cached, Erase
<1>2. UNCHANGED <<clock, pc, frame, uses, lastUse>>
  BY DEF ReapErase, history
<1>3. /\ Store[k] = [value |-> map[k].value, expiry |-> map[k].expiry] /\ Store[k] # None
  BY <1>1, StoredIffCached DEF Store, StoredAt
<1>4. map[k].expiry # None /\ rnow >= map[k].expiry /\ map[k].expiry \in Nat
  BY <1>1 DEF Expired, TypeOK, Entry
<1>5. rnow \in Nat /\ clock \in Nat /\ rnow <= clock
  BY DEF TypeOK, Safe, TimesArePast
<1>6. Promise!Past(Store[k], clock)
  BY <1>3, <1>4, <1>5 DEF Promise!Past
<1>7. Store' = [Store EXCEPT ![k] = None]
  BY <1>1, ErasedIsDropped
<1>8. UNCHANGED Calls
  BY <1>2, SameCalls DEF CallOf
<1>9. Promise!Expire(k)
  BY <1>2, <1>3, <1>6, <1>7, <1>8 DEF Promise!Expire, Promise!Drop, Calls, Store
<1> QED BY <1>9

\* Locks, charges, scans and the reaper's own steps are not seen.
LEMMA UnseenWork ==
  ASSUME RInv, NEW t \in Threads,
         \/ CallScan(t) \/ SetLock(t) \/ SetCharge(t) \/ SetUnlock(t)
         \/ GetPeek(t) /\ map[frame[t].key] # None
         \/ ScanShard(t) \/ ScanReturn(t)
  PROVE  [Promise!Next]_(Promise!vars)
<1> USE DEF RInv, IInv, Goto
<1>0. /\ pc \in [Threads -> Keyed \cup Scanning \cup {"idle", "done"}]
      /\ frame \in [Threads -> Frame]
      /\ \A u \in Threads : pc[u] \in Keyed => frame[u].key \in Keys
  BY DEF TypeOK
<1>1. UNCHANGED <<clock, map, uses, lastUse>>
  BY DEF CallScan, Begin, SetLock, SetCharge, SetUnlock, GetPeek, ScanShard, ScanReturn,
     shared, history
<1>2. \A u \in Threads \ {t} : UNCHANGED <<pc[u], frame[u]>>
  BY <1>0 DEF CallScan, Begin, SetLock, SetCharge, SetUnlock, GetPeek, ScanShard, ScanReturn, Finish
<1>3. UNCHANGED CallOf(t)
  <2>1. CASE CallScan(t)
    <3>1. pc[t] = "idle" /\ pc'[t] \in {"count", "snapshot"}
      BY <1>0, <2>1 DEF CallScan, Begin
    <3> QED BY <3>1 DEF CallOf
  <2>2. CASE SetLock(t) \/ (GetPeek(t) /\ map[frame[t].key] # None)
    <3>1. /\ UNCHANGED frame[t]
          /\ \/ pc[t] = "set_lock" /\ pc'[t] = "set_write"
             \/ pc[t] = "get_peek" /\ pc'[t] = "get_take"
      BY <1>0, <2>2 DEF SetLock, GetPeek
    <3> QED BY <3>1 DEF CallOf
  <2>3. CASE SetCharge(t)
    <3>1. pc[t] = "set_charge" /\ pc'[t] = "set_evict"
      BY <1>0, <2>3 DEF SetCharge
    <3> QED BY <3>1 DEF CallOf
  <2>4. CASE SetUnlock(t)
    <3>1. Finish(t, "set_evict", TRUE) /\ pc[t] = "set_evict"
      BY <2>4 DEF SetUnlock, Finish
    <3>2. pc'[t] = "done" /\ frame'[t].reply = TRUE /\ frame'[t].key \in Keys
      BY <1>0, <3>1 DEF Finish, Frame, Keyed, Setting
    <3>3. frame'[t].key # None
      BY <3>2, ConstantsOK
    <3> QED BY <3>1, <3>2, <3>3 DEF CallOf
  <2>5. CASE ScanShard(t)
    <3>1. pc[t] \in {"count", "snapshot"} /\ pc'[t] = pc[t]
      BY <2>5 DEF ScanShard
    <3> QED BY <3>1 DEF CallOf
  <2>6. CASE ScanReturn(t)
    <3>1. pc[t] \in {"count", "snapshot"} /\ pc'[t] = "done" /\ frame'[t].key = None
      BY <1>0, <2>6 DEF ScanReturn, Mapped, Scanning
    <3> QED BY <3>1 DEF CallOf
  <2> QED BY <2>1, <2>2, <2>3, <2>4, <2>5, <2>6
<1>4. \A u \in Threads \ {t} : UNCHANGED CallOf(u)
  BY <1>2 DEF CallOf
<1>5. UNCHANGED Calls
  BY <1>3, <1>4, SameCalls
<1> QED BY <1>1, <1>5, SameMapSameStore, UnseenSteps

\* Every step of the cache is one of the abstract map or is not seen there.
LEMMA StepOfExpiringMap ==
  ASSUME RInv, [Next]_vars PROVE [Promise!Next]_(Promise!vars)
<1>1. ASSUME NEW t \in Threads, Call(t) PROVE [Promise!Next]_(Promise!vars)
  BY <1>1, CallIsAsk, UnseenWork DEF Call, Promise!Next
<1>2. ASSUME NEW t \in Threads, Work(t) PROVE [Promise!Next]_(Promise!vars)
  <2>1. CASE SetRefused(t)
    BY <2>1, RefusedIsRefuse DEF Promise!Next
  <2>2. CASE SetWrite(t)
    BY <2>2, WriteIsPut DEF Promise!Next
  <2>3. CASE SetEvict(t)
    BY <2>3, EvictIsEvict DEF Promise!Next
  <2>4. CASE GetPeek(t)
    BY <2>4, MissIsMiss, UnseenWork DEF Promise!Next
  <2>5. CASE GetMiss(t) \/ GetExpired(t)
    BY <2>5, MissIsMiss DEF Promise!Next
  <2>6. CASE GetHit(t)
    BY <2>6, HitIsHit DEF Promise!Next
  <2>7. CASE DelErase(t) \/ DelAbsent(t)
    BY <2>7, DelIsRemove DEF Promise!Next
  <2>8. CASE Return(t)
    BY <2>8, ReturnIsTake
  <2>9. CASE SetLock(t) \/ SetCharge(t) \/ SetUnlock(t) \/ ScanShard(t) \/ ScanReturn(t)
    BY <2>9, UnseenWork
  <2> QED BY <1>2, <2>1, <2>2, <2>3, <2>4, <2>5, <2>6, <2>7, <2>8, <2>9 DEF Work
<1>3. CASE ReapErase
  BY <1>3, ReapIsExpire DEF Promise!Next
<1>4. CASE \/ ReaperTest \/ ReaperWake \/ ReapLock \/ ReapUnlock \/ Destroy
           \/ UNCHANGED vars
  <2>1. UNCHANGED <<clock, map, pc, frame, uses, lastUse>>
    BY <1>4 DEF ReaperTest, ReaperWake, ReapLock, ReapUnlock, Destroy, vars, shared, history
  <2>2. UNCHANGED Calls
    BY <2>1, SameCalls DEF CallOf
  <2> QED BY <2>1, <2>2, SameMapSameStore, UnseenSteps
<1>5. CASE Tick
  <2>1. clock' = clock + 1 /\ UNCHANGED <<map, pc, frame, uses, lastUse>>
    BY <1>5 DEF Tick, shared, history
  <2>2. UNCHANGED Calls
    BY <2>1, SameCalls DEF CallOf
  <2>3. UNCHANGED Store
    BY <2>1, SameMapSameStore
  <2>4. Promise!Tick
    BY <2>1, <2>2, <2>3 DEF Promise!Tick, Calls, Store
  <2> QED BY <2>4 DEF Promise!Next
<1> QED BY <1>1, <1>2, <1>3, <1>4, <1>5 DEF Next, Reap

\* The cache begins as the empty map without calls.
LEMMA InitRefines == Init => RInv /\ Promise!Init
<1> SUFFICES ASSUME Init PROVE RInv /\ Promise!Init
  OBVIOUS
<1>1. RInv
  <2>1. Mapped
    BY DEF Init, Mapped, Scanning
  <2> QED BY <2>1, InitIInv, InitSafe DEF RInv
<1>2. \A k \in Keys : StoredAt(k) = None
  BY DEF Init, StoredAt
<1>3. \A t \in Threads : CallOf(t) = None
  <2>1. \A t \in Threads : pc[t] = "idle"
    BY DEF Init
  <2> QED BY <2>1 DEF CallOf
<1>4. clock = 0 /\ uses = 0 /\ lastUse = [k \in Keys |-> 0]
  BY DEF Init
<1>5. Promise!Init
  BY <1>2, <1>3, <1>4 DEF Promise!Init
<1> QED BY <1>1, <1>5

\* For any threads, keys, capacities and times, with or without the reaper, the
\* sharded cache is the expiring map: sets, gets and dels are linearizable, and
\* only what the map lets go is evicted or expires.
THEOREM CacheIsExpiringMap == Spec => ImplementsExpiringMap
<1>1. Init => RInv /\ Promise!Init
  BY InitRefines
<1>2. RInv /\ [Next]_vars => RInv'
  BY NextKeepsIInv, NextKeepsSafe, MappedKept DEF RInv
<1>3. RInv /\ [Next]_vars => [Promise!Next]_(Promise!vars)
  BY StepOfExpiringMap
<1> QED BY <1>1, <1>2, <1>3, PTL DEF Spec, ImplementsExpiringMap, Promise!Spec
=============================================================================
