-------------------------- MODULE ShardedCacheProofs --------------------------
(***************************************************************************)
(* For every value of the constants of ShardedCache: its states keep their *)
(* types, its writer locks exclude, and its recency lists match its map.   *)
(*                                                                         *)
(* The three hold together or not at all.  The list is seen to stay free   *)
(* of doubles only with the map it matches, an eviction finds an entry     *)
(* under back() only because the list matches the map, and the types of    *)
(* the entries a step removes come from TypeOK.  The lemmas go from lists  *)
(* (Unlink, push_front, Touched) to the helpers of the actions (Finish,    *)
(* Erase) and to one lemma for each group of actions; then to what a step  *)
(* does to the entries and to a scan, which later proofs go by.            *)
(***************************************************************************)
EXTENDS ShardedCacheProperties, SequenceTheorems, FiniteSetTheorems, TLAPS

\* A list without doubles, less the node lru_pos points at, keeps every other
\* node in its place and loses that key only (lru.erase).
LEMMA UnlinkFacts ==
  ASSUME NEW S, NEW list \in Seq(S), IsInjective(list), NEW k \in ToSet(list)
  PROVE  /\ LruPos(list, k) \in 1 .. Len(list)
         /\ list[LruPos(list, k)] = k
         /\ Unlink(list, k) \in Seq(S)
         /\ Len(Unlink(list, k)) = Len(list) - 1
         /\ \A i \in 1 .. Len(list) - 1 :
              Unlink(list, k)[i] = IF i < LruPos(list, k) THEN list[i] ELSE list[i + 1]
         /\ IsInjective(Unlink(list, k))
         /\ ToSet(Unlink(list, k)) = ToSet(list) \ {k}
<1> DEFINE p == LruPos(list, k)
           new == Unlink(list, k)
<1>1. p \in 1 .. Len(list) /\ list[p] = k
  BY DEF LruPos, ToSet
<1>2. /\ new \in Seq(S)
      /\ Len(new) = Len(list) - 1
      /\ \A i \in 1 .. Len(list) - 1 :
              new[i] = IF i < p THEN list[i] ELSE list[i + 1]
  <2> DEFINE front == SubSeq(list, 1, p - 1)
             back  == SubSeq(list, p + 1, Len(list))
  <2> HIDE DEF p
  <2>1. /\ front \in Seq(S) /\ Len(front) = p - 1
        /\ \A i \in 1 .. p - 1 : front[i] = list[i]
    BY <1>1, SubSeqProperties
  <2>2. /\ back \in Seq(S) /\ Len(back) = Len(list) - p
        /\ \A i \in 1 .. Len(list) - p : back[i] = list[p + i]
    BY <1>1, SubSeqProperties
  <2>3. new = front \o back
    BY DEF Unlink, RemoveAt, p
  <2> HIDE DEF front, back, new
  <2>4. /\ new \in Seq(S)
        /\ Len(new) = Len(front) + Len(back)
        /\ \A i \in 1 .. Len(front) + Len(back) :
             new[i] = IF i <= Len(front) THEN front[i] ELSE back[i - Len(front)]
    BY <2>1, <2>2, <2>3, ConcatProperties
  <2>5. Len(new) = Len(list) - 1
    BY <1>1, <2>1, <2>2, <2>4
  <2>6. ASSUME NEW i \in 1 .. Len(list) - 1
        PROVE  new[i] = IF i < p THEN list[i] ELSE list[i + 1]
    <3>1. i \in 1 .. Len(front) + Len(back) /\ Len(front) = p - 1 /\ p \in Nat
      BY <1>1, <2>1, <2>2
    <3>2. CASE i < p
      BY <3>1, <3>2, <2>1, <2>4
    <3>3. CASE ~(i < p)
      <4>1. i - Len(front) \in 1 .. Len(list) - p /\ p + (i - Len(front)) = i + 1
        BY <3>1, <3>3, <1>1
      <4>2. new[i] = back[i - Len(front)]
        BY <3>1, <3>3, <2>4
      <4> QED BY <4>1, <4>2, <3>3, <2>2
    <3> QED BY <3>2, <3>3
  <2> QED BY <2>4, <2>5, <2>6
<1> HIDE DEF p, new
<1> DEFINE old(i) == IF i < p THEN i ELSE i + 1
<1>0. /\ DOMAIN new = 1 .. Len(list) - 1 /\ DOMAIN list = 1 .. Len(list)
      /\ Len(list) \in Nat
  BY <1>2, LenProperties
<1>a. ASSUME NEW i \in 1 .. Len(list) - 1
      PROVE  old(i) \in 1 .. Len(list) /\ old(i) # p /\ new[i] = list[old(i)]
  BY <1>0, <1>1, <1>2
<1>b. ASSUME NEW i \in 1 .. Len(list) - 1, NEW j \in 1 .. Len(list) - 1, old(i) = old(j)
      PROVE  i = j
  BY <1>0, <1>1, <1>b
<1> HIDE DEF old
<1>c. \A i, j \in 1 .. Len(list) : list[i] = list[j] => i = j
  BY <1>0 DEF IsInjective
<1>3. IsInjective(new)
  <2> SUFFICES ASSUME NEW i \in 1 .. Len(list) - 1, NEW j \in 1 .. Len(list) - 1,
                      new[i] = new[j]
               PROVE  i = j
    BY <1>0 DEF IsInjective
  <2>1. list[old(i)] = list[old(j)] /\ old(i) \in 1 .. Len(list) /\ old(j) \in 1 .. Len(list)
    BY <1>a
  <2>2. old(i) = old(j)
    BY <2>1, <1>c
  <2> QED BY <2>2, <1>b
<1>4. ToSet(new) \subseteq ToSet(list) \ {k}
  <2> SUFFICES ASSUME NEW i \in 1 .. Len(list) - 1
               PROVE  new[i] \in ToSet(list) /\ new[i] # k
    BY <1>0 DEF ToSet
  <2>1. old(i) \in 1 .. Len(list) /\ old(i) # p /\ new[i] = list[old(i)]
    BY <1>a
  <2> QED BY <2>1, <1>0, <1>1, <1>c DEF ToSet
<1>5. ASSUME NEW x \in ToSet(list) \ {k} PROVE x \in ToSet(new)
  <2>1. PICK i \in 1 .. Len(list) : list[i] = x
    BY DEF ToSet
  <2>2. CASE i < p
    <3>1. i \in 1 .. Len(list) - 1 /\ new[i] = x
      BY <2>1, <2>2, <1>0, <1>1, <1>2
    <3> QED BY <3>1, <1>0 DEF ToSet
  <2>3. CASE i > p
    <3>1. i - 1 \in 1 .. Len(list) - 1 /\ new[i - 1] = x
      BY <2>1, <2>3, <1>0, <1>1, <1>2
    <3> QED BY <3>1, <1>0 DEF ToSet
  <2> QED BY <2>1, <2>2, <2>3, <1>0, <1>1
<1> QED BY <1>1, <1>2, <1>3, <1>4, <1>5 DEF p, new

\* push_front of a key that is not there makes a longer list without doubles.
LEMMA PushFacts ==
  ASSUME NEW S, NEW list \in Seq(S), IsInjective(list), NEW k \in S, k \notin ToSet(list)
  PROVE  /\ <<k>> \o list \in Seq(S)
         /\ Len(<<k>> \o list) = Len(list) + 1
         /\ (<<k>> \o list)[1] = k
         /\ \A i \in 2 .. Len(list) + 1 : (<<k>> \o list)[i] = list[i - 1]
         /\ IsInjective(<<k>> \o list)
         /\ ToSet(<<k>> \o list) = ToSet(list) \cup {k}
<1> DEFINE new == <<k>> \o list
<1>1. /\ new \in Seq(S)
      /\ Len(new) = Len(list) + 1
      /\ new[1] = k
      /\ \A i \in 2 .. Len(list) + 1 : new[i] = list[i - 1]
  BY ConcatProperties, <<k>> \in Seq(S)
<1> HIDE DEF new
<1>a. /\ DOMAIN new = 1 .. Len(list) + 1 /\ DOMAIN list = 1 .. Len(list)
      /\ Len(list) \in Nat
  BY <1>1, LenProperties
<1>b. \A i \in 1 .. Len(list) : list[i] \in ToSet(list)
  BY <1>a DEF ToSet
<1>2. IsInjective(new)
  <2> SUFFICES ASSUME NEW i \in 1 .. Len(list) + 1, NEW j \in 1 .. Len(list) + 1,
                      new[i] = new[j]
               PROVE  i = j
    BY <1>a DEF IsInjective
  <2>1. \A m \in 2 .. Len(list) + 1 : m - 1 \in 1 .. Len(list) /\ new[m] = list[m - 1] /\ new[m] # k
    BY <1>1, <1>a, <1>b
  <2>2. CASE i = 1 \/ j = 1
    BY <2>1, <2>2, <1>1, <1>a
  <2>3. CASE i \in 2 .. Len(list) + 1 /\ j \in 2 .. Len(list) + 1
    <3>1. i - 1 = j - 1
      BY <2>1, <2>3, <1>a DEF IsInjective
    <3> QED BY <3>1, <1>a
  <2> QED BY <2>2, <2>3, <1>a
<1>3. ToSet(new) \subseteq ToSet(list) \cup {k}
  <2> SUFFICES ASSUME NEW i \in 1 .. Len(list) + 1
               PROVE  new[i] \in ToSet(list) \cup {k}
    BY <1>a DEF ToSet
  <2>1. CASE i = 1
    BY <2>1, <1>1
  <2>2. CASE i \in 2 .. Len(list) + 1
    <3>1. i - 1 \in 1 .. Len(list) /\ new[i] = list[i - 1]
      BY <2>2, <1>1, <1>a
    <3> QED BY <3>1, <1>b
  <2> QED BY <2>1, <2>2, <1>a
<1>4. ASSUME NEW x \in ToSet(list) PROVE x \in ToSet(new)
  <2>1. PICK i \in 1 .. Len(list) : list[i] = x
    BY <1>a DEF ToSet
  <2>2. i + 1 \in DOMAIN new /\ new[i + 1] = x
    BY <1>1, <1>a, <2>1
  <2> QED BY <2>2 DEF ToSet
<1>5. k \in ToSet(new)
  <2>1. 1 \in DOMAIN new
    BY <1>a
  <2> QED BY <2>1, <1>1 DEF ToSet
<1>6. ToSet(new) = ToSet(list) \cup {k}
  BY <1>3, <1>4, <1>5
<1> QED BY <1>1, <1>2, <1>6, Zenon DEF new

\* The share of max_keys that every shard has is a natural number.
LEMMA QuotientType == \A m \in Nat : \A n \in Nat \ {0} : m \div n \in Nat
BY Z3

\* The constructor gives every shard a capacity.
LEMMA CapacityType == Capacity \in [Shards -> Nat]
<1> DEFINE share == MaxKeys \div NumShards
           extra(s) == IF s < MaxKeys % NumShards THEN 1 ELSE 0
<1>1. share \in Nat
  BY ConstantsOK, QuotientType
<1>2. ASSUME NEW s \in Shards PROVE extra(s) \in Nat
  OBVIOUS
<1>3. Capacity = [s \in Shards |-> share + extra(s)]
  BY DEF Capacity
<1> HIDE DEF share, extra
<1> QED BY <1>1, <1>2, <1>3

\* touch_lru_locked puts a listed key first and keeps the keys of the list.
LEMMA TouchedFacts ==
  ASSUME NEW S, NEW list \in Seq(S), IsInjective(list), NEW k \in ToSet(list)
  PROVE  /\ Touched(list, k) \in Seq(S)
         /\ IsInjective(Touched(list, k))
         /\ ToSet(Touched(list, k)) = ToSet(list)
<1> DEFINE rest == Unlink(list, k)
<1>1. rest \in Seq(S) /\ IsInjective(rest) /\ ToSet(rest) = ToSet(list) \ {k}
  BY UnlinkFacts
<1>2. k \in S
  BY DEF ToSet
<1> HIDE DEF rest
<1>3. /\ <<k>> \o rest \in Seq(S)
      /\ IsInjective(<<k>> \o rest)
      /\ ToSet(<<k>> \o rest) = ToSet(rest) \cup {k}
  BY <1>1, <1>2, PushFacts
<1> QED BY <1>1, <1>3 DEF Touched, rest

-----------------------------------------------------------------------------
(* The inductive invariant.  What has a type depends on what the lists       *)
(* hold: unlinking a key that is not in the list would be no list at all.    *)

\* The inductive invariant.
IInv == TypeOK /\ WriterIsInside /\ ListMatchesMap

\* An empty cache satisfies the invariant.
LEMMA InitIInv == Init => IInv
<1> SUFFICES ASSUME Init PROVE IInv
  OBVIOUS
<1> USE ConstantsOK DEF Init
<1>1. TypeOK
  <2>1. NoFrame \in Frame
    BY DEF NoFrame, Frame
  <2>2. 0 \in Shards
    BY DEF Shards
  <2>3. lru \in [Shards -> Seq(Keys)]
    BY EmptySeq
  <2>4. map \in [Keys -> Entry \cup {None}] /\ writer \in [Shards -> Threads \cup {Reaper, None}]
    OBVIOUS
  <2>5. /\ pc \in [Threads -> Keyed \cup Scanning \cup {"idle", "done"}]
        /\ \A t \in Threads : pc[t] \notin Keyed /\ pc[t] \notin Setting
    BY DEF Keyed, Setting, Scanning
  <2>6. rpc \in {"test", "asleep", "lock", "erase", "exited"}
    OBVIOUS
  <2>7. frame \in [Threads -> Frame]
    BY <2>1
  <2>8. stopping \in BOOLEAN
    OBVIOUS
  <2>9. /\ clock \in Nat /\ rnow \in Nat /\ rshard \in Shards
        /\ hits \in Nat /\ misses \in Nat /\ evictions \in Nat /\ expirations \in Nat
        /\ memory \in Int
        /\ begun \in Nat /\ gets \in Nat /\ inserted \in Nat /\ deleted \in Nat
        /\ uses \in Nat /\ lastUse \in [Keys -> Nat]
    BY <2>2
  <2> HIDE DEF Init
  <2> QED BY <2>3, <2>4, <2>5, <2>6, <2>7, <2>8, <2>9 DEF TypeOK
<1>2. WriterIsInside
  BY DEF WriterIsInside, Writing, Setting, Shards
<1>3. ListMatchesMap
  BY DEF ListMatchesMap, Cached, ToSet, IsInjective
<1> QED BY <1>1, <1>2, <1>3 DEF IInv

-----------------------------------------------------------------------------
(* What the helpers of the actions do *)

\* The last step of a call keeps the types of the threads' frames.
LEMMA FinishFacts ==
  ASSUME TypeOK, NEW t \in Threads, NEW from,
         NEW reply \in Values \cup BOOLEAN \cup {None}, Finish(t, from, reply)
  PROVE  /\ pc[t] = from
         /\ pc' = [pc EXCEPT ![t] = "done"]
         /\ frame' \in [Threads -> Frame]
         /\ \A u \in Threads : /\ frame'[u].key = frame[u].key
                               /\ frame'[u].value = frame[u].value
                               /\ frame'[u].now = frame[u].now
                               /\ frame'[u].shard = frame[u].shard
                               /\ frame'[u].items = frame[u].items
<1>1. frame \in [Threads -> Frame]
  BY DEF TypeOK
<1>2. pc[t] = from /\ pc' = [pc EXCEPT ![t] = "done"]
  BY DEF Finish, Goto
<1>3. frame' = [frame EXCEPT ![t].reply = reply]
  BY DEF Finish
<1>4. [frame[t] EXCEPT !.reply = reply] \in Frame
  BY <1>1 DEF Frame
<1> QED BY <1>1, <1>2, <1>3, <1>4 DEF Frame

\* erase_entry_locked takes a key out of map and list alike, whichever of its
\* callers runs it (get, del, eviction, reaper).
LEMMA EraseFacts ==
  ASSUME TypeOK, ListMatchesMap, NEW k \in Keys, map[k] # None, Erase(k)
  PROVE  /\ map' \in [Keys -> Entry \cup {None}]
         /\ lru' \in [Shards -> Seq(Keys)]
         /\ memory' \in Int
         /\ ListMatchesMap'
<1> DEFINE s == ShardOf[k]
<1> USE ConstantsOK
<1>1. s \in Shards /\ k \in ToSet(lru[s])
  BY DEF ListMatchesMap, Cached
<1>2. lru[s] \in Seq(Keys) /\ IsInjective(lru[s])
  BY <1>1 DEF TypeOK, ListMatchesMap
<1>3. /\ Unlink(lru[s], k) \in Seq(Keys)
      /\ IsInjective(Unlink(lru[s], k))
      /\ ToSet(Unlink(lru[s], k)) = ToSet(lru[s]) \ {k}
  BY <1>1, <1>2, UnlinkFacts
<1>4. /\ lru' = [lru EXCEPT ![s] = Unlink(lru[s], k)]
      /\ map' = [map EXCEPT ![k] = None]
      /\ memory' = memory - map[k].bytes
  BY DEF Erase
<1>5. map' \in [Keys -> Entry \cup {None}] /\ lru' \in [Shards -> Seq(Keys)]
  BY <1>1, <1>3, <1>4 DEF TypeOK
<1>6. memory' \in Int
  BY <1>4 DEF TypeOK, Entry
<1>7. ASSUME NEW r \in Shards
      PROVE  IsInjective(lru'[r]) /\ ToSet(lru'[r]) = Cached(r)'
  <2>1. Cached(r)' = Cached(r) \ {k}
    BY <1>4 DEF TypeOK, Cached
  <2>2. CASE r = s
    BY <2>1, <2>2, <1>1, <1>3, <1>4 DEF TypeOK, ListMatchesMap
  <2>3. CASE r # s
    <3>1. lru'[r] = lru[r] /\ Cached(r)' = Cached(r)
      BY <2>1, <2>3, <1>4 DEF TypeOK, Cached
    <3> QED BY <3>1 DEF ListMatchesMap
  <2> QED BY <2>2, <2>3
<1> QED BY <1>5, <1>6, <1>7 DEF ListMatchesMap

-----------------------------------------------------------------------------
(* One lemma per group of actions that disturb the same conjuncts *)

\* A thread without a call has an empty frame.
LEMMA NoFrameType == NoFrame \in Frame /\ NoFrame.key = None /\ NoFrame.value = None
BY ConstantsOK DEF NoFrame, Frame

\* Shards, list and map left alone.
LEMMA ListKept ==
  ASSUME ListMatchesMap, UNCHANGED <<map, lru>> PROVE ListMatchesMap'
BY DEF ListMatchesMap, Cached

\* No one takes or gives back a writer lock.
LEMMA WriterKept ==
  ASSUME WriterIsInside, UNCHANGED <<writer, rpc, rshard>>,
         \A u \in Threads : /\ pc'[u] \in Writing <=> pc[u] \in Writing
                            /\ pc[u] \in Writing => frame'[u].key = frame[u].key
  PROVE  WriterIsInside'
BY DEF WriterIsInside

\* A call begins: set, get, del or a scan.
LEMMA CallKeepsIInv ==
  ASSUME IInv, NEW t \in Threads, Call(t) PROVE IInv'
<1> USE DEF IInv
<1>1. PICK label \in {"set_lock", "get_peek", "del", "count", "snapshot"}, f \in Frame :
        /\ Begin(t, label, f) /\ gets' \in Nat
        /\ label \in Keyed => f.key \in Keys
        /\ label \in Setting => f.value \in Values
  <2>1. CASE CallSet(t)
    <3>1. PICK k \in Keys, v \in Values, ttl \in TTLs \cup {None} :
            /\ Begin(t, "set_lock", [NoFrame EXCEPT !.key = k, !.value = v, !.ttl = ttl])
            /\ UNCHANGED gets
      BY <2>1 DEF CallSet
    <3> DEFINE f == [NoFrame EXCEPT !.key = k, !.value = v, !.ttl = ttl]
    <3>2. f \in Frame /\ f.key = k /\ f.value = v
      BY NoFrameType DEF Frame
    <3> QED BY <3>1, <3>2 DEF TypeOK
  <2>2. CASE CallGet(t)
    <3>1. PICK k \in Keys :
            /\ Begin(t, "get_peek", [NoFrame EXCEPT !.key = k, !.now = clock])
            /\ gets' = gets + 1
      BY <2>2 DEF CallGet
    <3> DEFINE f == [NoFrame EXCEPT !.key = k, !.now = clock]
    <3>2. f \in Frame /\ f.key = k
      BY NoFrameType DEF Frame, TypeOK
    <3>3. "get_peek" \notin Setting /\ gets' \in Nat
      BY <3>1 DEF Setting, TypeOK
    <3> HIDE DEF f
    <3> QED BY <3>1, <3>2, <3>3 DEF f
  <2>3. CASE CallDel(t)
    <3>1. PICK k \in Keys :
            /\ Begin(t, "del", [NoFrame EXCEPT !.key = k])
            /\ UNCHANGED gets
      BY <2>3 DEF CallDel
    <3> DEFINE f == [NoFrame EXCEPT !.key = k]
    <3>2. f \in Frame /\ f.key = k
      BY NoFrameType DEF Frame
    <3>3. "del" \notin Setting /\ gets' \in Nat
      BY <3>1 DEF Setting, TypeOK
    <3> QED BY <3>1, <3>2, <3>3
  <2>4. CASE CallScan(t)
    <3>1. PICK op \in {"count", "snapshot"} :
            /\ Begin(t, op, [NoFrame EXCEPT !.now = clock, !.since = uses])
            /\ UNCHANGED gets
      BY <2>4 DEF CallScan
    <3>2. [NoFrame EXCEPT !.now = clock, !.since = uses] \in Frame
      BY NoFrameType DEF Frame, TypeOK
    <3> QED BY <3>1, <3>2 DEF TypeOK, Keyed, Setting
  <2> QED BY <2>1, <2>2, <2>3, <2>4 DEF Call
<1>2. /\ pc[t] = "idle" /\ pc' = [pc EXCEPT ![t] = label]
      /\ frame' = [frame EXCEPT ![t] = f]
      /\ begun' = begun + 1
      /\ UNCHANGED <<clock, map, lru, memory, writer, rpc, rnow, rshard, stopping,
                     hits, misses, evictions, expirations,
                     inserted, deleted, uses, lastUse>>
  BY <1>1 DEF Begin, Goto, shared, reaper, tallies
<1>3. TypeOK'
  <2>1. /\ pc' \in [Threads -> Keyed \cup Scanning \cup {"idle", "done"}]
        /\ frame' \in [Threads -> Frame]
    BY <1>1, <1>2 DEF TypeOK, Keyed, Setting, Scanning
  <2>2. \A u \in Threads : /\ pc'[u] \in Keyed => frame'[u].key \in Keys
                           /\ pc'[u] \in Setting => frame'[u].value \in Values
    BY <1>1, <1>2 DEF TypeOK
  <2> QED BY <1>1, <1>2, <2>1, <2>2 DEF TypeOK
<1>4. WriterIsInside'
  <2>1. label \notin Writing /\ pc[t] \notin Writing
    BY <1>2 DEF Writing, Setting
  <2> QED BY <1>2, <2>1 DEF WriterIsInside, TypeOK
<1> QED BY <1>2, <1>3, <1>4, ListKept

\* A call that leaves the map as it is and goes, without the writer lock, on
\* or to its end.
LEMMA QuietKeepsIInv ==
  ASSUME IInv, NEW t \in Threads,
         SetRefused(t) \/ GetPeek(t) \/ GetMiss(t) \/ DelAbsent(t)
  PROVE  IInv'
<1> USE DEF IInv
<1>1. CASE GetPeek(t) /\ Goto(t, "get_peek", "get_take") /\ UNCHANGED <<frame, misses>>
  <2>1. /\ pc[t] = "get_peek" /\ pc' = [pc EXCEPT ![t] = "get_take"]
        /\ UNCHANGED <<clock, map, lru, memory, writer, frame, rpc, rnow, rshard, stopping,
                       hits, misses, evictions, expirations,
                       begun, gets, inserted, deleted, uses, lastUse>>
    BY <1>1 DEF GetPeek, Goto, shared, reaper, tallies, history
  <2>2. TypeOK'
    BY <2>1 DEF TypeOK, Keyed, Setting
  <2>3. WriterIsInside'
    BY <2>1 DEF WriterIsInside, Writing, Setting, TypeOK
  <2> QED BY <2>1, <2>2, <2>3, ListKept
<1>2. CASE \E from \in {"set_lock", "get_peek", "get_take", "del"}, r \in BOOLEAN \cup {None} :
             /\ Finish(t, from, r)
             /\ misses' \in Nat
             /\ UNCHANGED <<clock, map, lru, memory, writer, rpc, rnow, rshard, stopping,
                            hits, evictions, expirations,
                            begun, gets, inserted, deleted, uses, lastUse>>
  <2>1. PICK from \in {"set_lock", "get_peek", "get_take", "del"}, r \in BOOLEAN \cup {None} :
          /\ Finish(t, from, r)
          /\ misses' \in Nat
          /\ UNCHANGED <<clock, map, lru, memory, writer, rpc, rnow, rshard, stopping,
                         hits, evictions, expirations,
                         begun, gets, inserted, deleted, uses, lastUse>>
    BY <1>2
  <2>2. /\ pc[t] = from /\ pc' = [pc EXCEPT ![t] = "done"]
        /\ frame' \in [Threads -> Frame]
        /\ \A u \in Threads : /\ frame'[u].key = frame[u].key
                              /\ frame'[u].value = frame[u].value
    BY <2>1, FinishFacts
  <2>3. TypeOK'
    BY <2>1, <2>2 DEF TypeOK, Keyed, Setting
  <2>4. from \notin Writing /\ "done" \notin Writing
    BY DEF Writing, Setting
  <2>5. WriterIsInside'
    BY <2>1, <2>2, <2>4, WriterKept DEF TypeOK
  <2> QED BY <2>1, <2>3, <2>5, ListKept
<1>3. misses + 1 \in Nat /\ misses \in Nat
  BY DEF TypeOK
<1>4. CASE SetRefused(t)
  BY <1>2, <1>3, <1>4 DEF SetRefused, shared, reaper, tallies, history
<1>5. CASE GetPeek(t)
  BY <1>1, <1>2, <1>3, <1>5 DEF GetPeek, shared, reaper, tallies, history
<1>6. CASE GetMiss(t)
  BY <1>2, <1>3, <1>6 DEF GetMiss, shared, reaper, tallies, history
<1>7. CASE DelAbsent(t)
  BY <1>2, <1>3, <1>7 DEF DelAbsent, shared, reaper, tallies, history
<1> QED BY <1>4, <1>5, <1>6, <1>7

\* The steps that erase one entry: a client's or the reaper's.
LEMMA ErasingKeepsIInv ==
  ASSUME IInv, (\E t \in Threads : GetExpired(t) \/ DelErase(t)) \/ ReapErase
  PROVE  IInv'
<1> USE DEF IInv
<1> DEFINE Erasure == \E k \in Keys :
             /\ map[k] # None /\ Erase(k)
             /\ UNCHANGED <<clock, writer, rpc, rnow, rshard, stopping,
                            evictions, hits, begun, gets, inserted, uses, lastUse>>
             /\ misses' \in Nat /\ expirations' \in Nat /\ deleted' \in Nat
<1>1. Erasure
  <2>1. ASSUME NEW t \in Threads, GetExpired(t) \/ DelErase(t)
        PROVE  frame[t].key \in Keys
    BY <2>1 DEF GetExpired, DelErase, TypeOK, Keyed, Finish, Goto
  <2>2. ASSUME NEW t \in Threads, GetExpired(t) PROVE Erasure
    <3>1. /\ map[frame[t].key] # None /\ Erase(frame[t].key)
          /\ expirations' = expirations + 1 /\ misses' = misses + 1
          /\ UNCHANGED <<clock, writer, reaper, stopping, hits, evictions, history>>
      BY <2>2 DEF GetExpired
    <3> QED BY <3>1, <2>1, <2>2 DEF TypeOK, reaper, history
  <2>4. ASSUME NEW t \in Threads, DelErase(t) PROVE Erasure
    <3>1. /\ map[frame[t].key] # None /\ Erase(frame[t].key)
          /\ deleted' = deleted + 1
          /\ UNCHANGED <<clock, writer, reaper, stopping, tallies,
                         begun, gets, inserted, uses, lastUse>>
      BY <2>4 DEF DelErase
    <3> QED BY <3>1, <2>1, <2>4 DEF TypeOK, reaper, tallies
  <2>3. CASE ReapErase
    BY <2>3 DEF ReapErase, TypeOK, Cached, reaper, history
  <2> QED BY <2>2, <2>3, <2>4
<1>2. \/ UNCHANGED <<pc, frame>>
      \/ \E t \in Threads :
           /\ pc[t] \in {"get_take", "del"} /\ pc' = [pc EXCEPT ![t] = "done"]
           /\ frame' \in [Threads -> Frame]
           /\ \A u \in Threads : /\ frame'[u].key = frame[u].key
                                 /\ frame'[u].value = frame[u].value
  <2>1. ASSUME NEW t \in Threads, GetExpired(t) PROVE Finish(t, "get_take", None)
    BY <2>1 DEF GetExpired
  <2>2. ASSUME NEW t \in Threads, DelErase(t) PROVE Finish(t, "del", TRUE)
    BY <2>2 DEF DelErase
  <2> QED BY <2>1, <2>2, FinishFacts DEF ReapErase
<1>3. /\ map' \in [Keys -> Entry \cup {None}]
      /\ lru' \in [Shards -> Seq(Keys)]
      /\ memory' \in Int
      /\ ListMatchesMap'
  BY <1>1, EraseFacts
<1>4. TypeOK'
  <2>1. /\ pc' \in [Threads -> Keyed \cup Scanning \cup {"idle", "done"}]
        /\ frame' \in [Threads -> Frame]
        /\ \A u \in Threads : /\ pc'[u] \in Keyed => frame'[u].key \in Keys
                              /\ pc'[u] \in Setting => frame'[u].value \in Values
    BY <1>2 DEF TypeOK, Keyed, Setting, Scanning
  <2> QED BY <1>1, <1>3, <2>1 DEF TypeOK
<1>5. WriterIsInside'
  BY <1>1, <1>2 DEF WriterIsInside, Writing, Setting, TypeOK
<1> QED BY <1>3, <1>4, <1>5

\* A hit moves its key to the front of the list.
LEMMA GetHitKeepsIInv ==
  ASSUME IInv, NEW t \in Threads, GetHit(t) PROVE IInv'
<1> USE ConstantsOK DEF IInv
<1> DEFINE k == frame[t].key
           s == ShardOf[k]
<1>1. /\ pc[t] = "get_take" /\ map[k] # None
      /\ Finish(t, "get_take", map[k].value)
      /\ lru' = [lru EXCEPT ![s] = Touched(@, k)]
      /\ hits' = hits + 1 /\ uses' = uses + 1
      /\ lastUse' = [lastUse EXCEPT ![k] = uses + 1]
      /\ UNCHANGED <<clock, map, memory, writer, rpc, rnow, rshard, stopping,
                     misses, evictions, expirations, begun, gets, inserted, deleted>>
  BY DEF GetHit, Use, reaper
<1>2. k \in Keys /\ s \in Shards /\ map[k].value \in Values
  BY <1>1 DEF TypeOK, Keyed, Entry
<1> HIDE DEF k, s
<1>3. /\ pc' = [pc EXCEPT ![t] = "done"]
      /\ frame' \in [Threads -> Frame]
      /\ \A u \in Threads : /\ frame'[u].key = frame[u].key
                            /\ frame'[u].value = frame[u].value
  BY <1>1, <1>2, FinishFacts
<1>4. /\ lru[s] \in Seq(Keys) /\ IsInjective(lru[s]) /\ k \in ToSet(lru[s])
  BY <1>1, <1>2 DEF TypeOK, ListMatchesMap, Cached, k, s
<1>5. /\ Touched(lru[s], k) \in Seq(Keys)
      /\ IsInjective(Touched(lru[s], k))
      /\ ToSet(Touched(lru[s], k)) = ToSet(lru[s])
  BY <1>4, TouchedFacts
<1>6. TypeOK'
  <2>1. /\ lru' \in [Shards -> Seq(Keys)] /\ lastUse' \in [Keys -> Nat]
        /\ hits' \in Nat /\ uses' \in Nat
    BY <1>1, <1>2, <1>5 DEF TypeOK
  <2>2. /\ pc' \in [Threads -> Keyed \cup Scanning \cup {"idle", "done"}]
        /\ \A u \in Threads : /\ pc'[u] \in Keyed => frame'[u].key \in Keys
                              /\ pc'[u] \in Setting => frame'[u].value \in Values
    BY <1>1, <1>3 DEF TypeOK, Keyed, Setting
  <2> QED BY <1>1, <1>3, <2>1, <2>2 DEF TypeOK
<1>7. WriterIsInside'
  <2>1. "get_take" \notin Writing /\ "done" \notin Writing
    BY DEF Writing, Setting
  <2> QED BY <1>1, <1>3, <2>1, WriterKept DEF TypeOK
<1>8. ListMatchesMap'
  BY <1>1, <1>2, <1>5 DEF ListMatchesMap, Cached, TypeOK
<1> QED BY <1>6, <1>7, <1>8

\* set_impl overwrites an entry and touches it, or inserts one and lists it.
LEMMA SetWriteKeepsIInv ==
  ASSUME IInv, NEW t \in Threads, SetWrite(t) PROVE IInv'
<1> USE ConstantsOK DEF IInv
<1> DEFINE k == frame[t].key
           s == ShardOf[k]
           e == [value  |-> frame[t].value,
                 expiry |-> Deadline(frame[t].ttl, clock),
                 bytes  |-> Bytes[k][frame[t].value]]
           rest == IF map[k] = None THEN lru[s] ELSE Unlink(lru[s], k)
<1>1. /\ pc[t] = "set_write" /\ pc' = [pc EXCEPT ![t] = "set_charge"]
      /\ map' = [map EXCEPT ![k] = e]
      /\ lru' = [lru EXCEPT ![s] = <<k>> \o rest]
      /\ (memory' = memory) \/ (memory' = memory - map[k].bytes /\ map[k] # None)
      /\ (inserted' = inserted) \/ (inserted' = inserted + 1)
      /\ uses' = uses + 1 /\ lastUse' = [lastUse EXCEPT ![k] = uses + 1]
      /\ UNCHANGED <<clock, writer, frame, rpc, rnow, rshard, stopping,
                     hits, misses, evictions, expirations, begun, gets, deleted>>
  <2>1. /\ Goto(t, "set_write", "set_charge")
        /\ map' = [map EXCEPT ![k] = e]
        /\ \/ /\ map[k] # None
              /\ memory' = memory - map[k].bytes
              /\ lru' = [lru EXCEPT ![s] = Touched(@, k)]
              /\ UNCHANGED inserted
           \/ /\ map[k] = None
              /\ lru' = [lru EXCEPT ![s] = <<k>> \o @]
              /\ inserted' = inserted + 1
              /\ UNCHANGED memory
        /\ Use(k)
        /\ UNCHANGED <<clock, writer, frame, reaper, stopping, tallies,
                       begun, gets, deleted>>
    BY DEF SetWrite
  <2> HIDE DEF k, s, e
  <2>2. lru' = [lru EXCEPT ![s] = <<k>> \o rest]
    BY <2>1 DEF Touched
  <2>3. /\ (memory' = memory) \/ (memory' = memory - map[k].bytes /\ map[k] # None)
        /\ (inserted' = inserted) \/ (inserted' = inserted + 1)
    BY <2>1
  <2>4. pc[t] = "set_write" /\ pc' = [pc EXCEPT ![t] = "set_charge"]
    BY <2>1 DEF Goto
  <2>5. uses' = uses + 1 /\ lastUse' = [lastUse EXCEPT ![k] = uses + 1]
    BY <2>1 DEF Use
  <2>6. UNCHANGED <<clock, writer, frame, rpc, rnow, rshard, stopping,
                   hits, misses, evictions, expirations, begun, gets, deleted>>
    BY <2>1 DEF reaper, tallies
  <2> QED BY <2>1, <2>2, <2>3, <2>4, <2>5, <2>6
<1>2. k \in Keys /\ s \in Shards /\ frame[t].value \in Values /\ frame[t] \in Frame
  BY <1>1 DEF TypeOK, Keyed, Setting
<1>3. e \in Entry
  <2>1. Deadline(frame[t].ttl, clock) \in Nat \cup {None}
    <3>1. frame[t].ttl \in TTLs \cup {None}
      BY <1>2 DEF Frame
    <3>2. \A n \in TTLs : n * TicksPerMs \in Nat
      OBVIOUS
    <3>3. \A n \in Nat : clock + n \in Nat
      BY DEF TypeOK
    <3> QED BY <3>1, <3>2, <3>3 DEF Deadline
  <2>2. Bytes[k][frame[t].value] \in Nat
    BY <1>2
  <2> QED BY <1>2, <2>1, <2>2 DEF Entry
<1>4. memory' \in Int
  <2>1. memory \in Int /\ (map[k] # None => map[k].bytes \in Nat)
    BY <1>2 DEF TypeOK, Entry
  <2>2. (memory' = memory) \/ (memory' = memory - map[k].bytes /\ map[k] # None)
    BY <1>1
  <2> HIDE DEF k
  <2> QED BY <2>1, <2>2
<1> HIDE DEF k, s, e
<1>5. /\ lru[s] \in Seq(Keys) /\ IsInjective(lru[s])
      /\ k \in ToSet(lru[s]) <=> map[k] # None
  BY <1>2 DEF TypeOK, ListMatchesMap, Cached, k, s
<1>6. rest \in Seq(Keys) /\ IsInjective(rest) /\ ToSet(rest) = ToSet(lru[s]) \ {k}
  <2>1. CASE map[k] = None
    BY <2>1, <1>5
  <2>2. CASE map[k] # None
    BY <2>2, <1>5, UnlinkFacts
  <2> QED BY <2>1, <2>2
<1> HIDE DEF rest
<1>7. /\ <<k>> \o rest \in Seq(Keys)
      /\ IsInjective(<<k>> \o rest)
      /\ ToSet(<<k>> \o rest) = ToSet(lru[s]) \cup {k}
  BY <1>2, <1>6, PushFacts
<1>8. TypeOK'
  <2>1. /\ map' \in [Keys -> Entry \cup {None}]
        /\ lru' \in [Shards -> Seq(Keys)]
        /\ lastUse' \in [Keys -> Nat]
    BY <1>1, <1>2, <1>3, <1>7 DEF TypeOK
  <2>2. pc' \in [Threads -> Keyed \cup Scanning \cup {"idle", "done"}]
    BY <1>1 DEF TypeOK, Keyed, Setting
  <2>3. \A u \in Threads : /\ pc'[u] \in Keyed => frame'[u].key \in Keys
                           /\ pc'[u] \in Setting => frame'[u].value \in Values
    BY <1>1, <1>2 DEF TypeOK, k
  <2>4. inserted' \in Nat /\ uses' \in Nat
    BY <1>1 DEF TypeOK
  <2>5. /\ clock' \in Nat /\ writer' \in [Shards -> Threads \cup {Reaper, None}]
        /\ frame' \in [Threads -> Frame]
        /\ rpc' \in {"test", "asleep", "lock", "erase", "exited"}
        /\ rnow' \in Nat /\ rshard' \in Shards /\ stopping' \in BOOLEAN
        /\ hits' \in Nat /\ misses' \in Nat /\ evictions' \in Nat /\ expirations' \in Nat
        /\ begun' \in Nat /\ gets' \in Nat /\ deleted' \in Nat
    BY <1>1 DEF TypeOK
  <2> HIDE ConstantsOK DEF IInv
  <2> QED BY <1>4, <2>1, <2>2, <2>3, <2>4, <2>5 DEF TypeOK
<1>9. WriterIsInside'
  <2>1. "set_write" \in Writing /\ "set_charge" \in Writing
    BY DEF Writing, Setting
  <2> QED BY <1>1, <2>1, WriterKept DEF TypeOK
<1>10. ListMatchesMap'
  <2> SUFFICES ASSUME NEW r \in Shards
               PROVE  IsInjective(lru'[r]) /\ ToSet(lru'[r]) = Cached(r)'
    BY DEF ListMatchesMap
  <2>1. CASE r = s
    <3>1. Cached(r)' = Cached(r) \cup {k}
      BY <2>1, <1>1, <1>2, <1>3 DEF TypeOK, Cached, s
    <3> QED BY <3>1, <2>1, <1>1, <1>2, <1>7 DEF TypeOK, ListMatchesMap
  <2>2. CASE r # s
    <3>1. Cached(r)' = Cached(r) /\ lru'[r] = lru[r]
      BY <2>2, <1>1, <1>2 DEF TypeOK, Cached, s
    <3> QED BY <3>1 DEF ListMatchesMap
  <2> QED BY <2>1, <2>2
<1> QED BY <1>8, <1>9, <1>10

\* A set takes its shard's lock, charges its bytes, and gives the lock back.
LEMMA SetLockingKeepsIInv ==
  ASSUME IInv, NEW t \in Threads, SetLock(t) \/ SetCharge(t) \/ SetUnlock(t)
  PROVE  IInv'
<1> USE ConstantsOK DEF IInv
<1>1. CASE SetLock(t)
  <2> DEFINE s == ShardOf[frame[t].key]
  <2>1. /\ writer[s] = None /\ writer' = [writer EXCEPT ![s] = t]
        /\ pc[t] = "set_lock" /\ pc' = [pc EXCEPT ![t] = "set_write"]
        /\ UNCHANGED <<clock, map, lru, memory, frame, rpc, rnow, rshard, stopping,
                       hits, misses, evictions, expirations,
                       begun, gets, inserted, deleted, uses, lastUse>>
    BY <1>1 DEF SetLock, Unlocked, Goto, shared, reaper, tallies, history
  <2>2. s \in Shards
    BY <2>1 DEF TypeOK, Keyed, Setting
  <2>3. TypeOK'
    BY <2>1, <2>2 DEF TypeOK, Keyed, Setting
  <2>4. WriterIsInside'
    BY <2>1, <2>2 DEF WriterIsInside, Writing, Setting, TypeOK
  <2> QED BY <2>1, <2>3, <2>4, ListKept
<1>2. CASE SetCharge(t)
  <2>1. /\ pc[t] = "set_charge" /\ pc' = [pc EXCEPT ![t] = "set_evict"]
        /\ memory' = memory + map[frame[t].key].bytes
        /\ UNCHANGED <<clock, map, lru, frame, writer, rpc, rnow, rshard, stopping,
                       hits, misses, evictions, expirations,
                       begun, gets, inserted, deleted, uses, lastUse>>
    BY <1>2 DEF SetCharge, Goto, reaper, tallies, history
  <2>2. TypeOK'
    <3>1. memory' \in Int
      BY <2>1 DEF TypeOK
    <3> QED BY <2>1, <3>1 DEF TypeOK, Keyed, Setting
  <2>3. WriterIsInside'
    <3>1. "set_charge" \in Writing /\ "set_evict" \in Writing
      BY DEF Writing, Setting
    <3> QED BY <2>1, <3>1, WriterKept DEF TypeOK
  <2> QED BY <2>1, <2>2, <2>3, ListKept
<1>3. CASE SetUnlock(t)
  <2> DEFINE s == ShardOf[frame[t].key]
  <2>1. /\ Finish(t, "set_evict", TRUE)
        /\ writer' = [writer EXCEPT ![s] = None]
        /\ UNCHANGED <<clock, map, lru, memory, rpc, rnow, rshard, stopping,
                       hits, misses, evictions, expirations,
                       begun, gets, inserted, deleted, uses, lastUse>>
    BY <1>3 DEF SetUnlock, Release, shared, reaper, tallies, history
  <2>2. /\ pc[t] = "set_evict" /\ pc' = [pc EXCEPT ![t] = "done"]
        /\ frame' \in [Threads -> Frame]
        /\ \A u \in Threads : /\ frame'[u].key = frame[u].key
                              /\ frame'[u].value = frame[u].value
    BY <2>1, FinishFacts
  <2>3. s \in Shards /\ writer[s] = t
    BY <2>2 DEF TypeOK, Keyed, Setting, WriterIsInside, Writing
  <2>4. TypeOK'
    BY <2>1, <2>2, <2>3 DEF TypeOK, Keyed, Setting
  <2>5. ASSUME NEW r \in Shards
        PROVE  /\ \A u \in Threads :
                    writer'[r] = u <=> pc'[u] \in Writing /\ ShardOf[frame'[u].key] = r
               /\ writer'[r] = Reaper <=> rpc' = "erase" /\ rshard' = r
    <3> HIDE DEF s
    <3>1. /\ \A u \in Threads :
               writer[r] = u <=> pc[u] \in Writing /\ ShardOf[frame[u].key] = r
          /\ writer[r] = Reaper <=> rpc = "erase" /\ rshard = r
      BY DEF WriterIsInside
    <3>2. /\ \A u \in Threads \ {t} : pc'[u] \in Writing <=> pc[u] \in Writing
          /\ pc'[t] \notin Writing
          /\ pc[t] \in Writing
      BY <2>2 DEF TypeOK, Writing, Setting
    <3>3. CASE r = s
      <4>1. writer'[r] = None /\ writer[r] = t
        BY <3>3, <2>1, <2>3 DEF TypeOK
      <4> QED BY <4>1, <3>1, <3>2, <2>1, <2>2
    <3>4. CASE r # s
      <4>1. writer'[r] = writer[r] /\ ShardOf[frame[t].key] # r
        BY <3>4, <2>1, <2>3 DEF TypeOK, s
      <4> QED BY <4>1, <3>1, <3>2, <2>1, <2>2
    <3> QED BY <3>3, <3>4
  <2>6. WriterIsInside'
    BY <2>5 DEF WriterIsInside
  <2> QED BY <2>1, <2>4, <2>6, ListKept
<1> QED BY <1>1, <1>2, <1>3

\* A shard that is over its capacity has a last key, and it has an entry.
LEMMA OldestIsCached ==
  ASSUME IInv, NEW s \in Shards, Cardinality(Cached(s)) > Capacity[s]
  PROVE  /\ Len(lru[s]) > 0
         /\ Last(lru[s]) = lru[s][Len(lru[s])]
         /\ Last(lru[s]) \in Cached(s)
<1>1. Cached(s) # {}
  BY FS_EmptySet, CapacityType
<1>2. lru[s] \in Seq(Keys) /\ ToSet(lru[s]) = Cached(s)
  BY DEF IInv, TypeOK, ListMatchesMap
<1>3. Len(lru[s]) > 0
  BY <1>1, <1>2 DEF ToSet
<1> QED BY <1>2, <1>3 DEF ToSet, Last

\* The eviction loop takes the last key of a list, which has an entry.
LEMMA SetEvictKeepsIInv ==
  ASSUME IInv, NEW t \in Threads, SetEvict(t) PROVE IInv'
<1> USE ConstantsOK DEF IInv
<1> DEFINE k == Last(lru[ShardOf[frame[t].key]])
<1>1. /\ pc[t] = "set_evict"
      /\ Cardinality(Cached(ShardOf[frame[t].key])) > Capacity[ShardOf[frame[t].key]]
      /\ UNCHANGED <<clock, writer, pc, frame, rpc, rnow, rshard, stopping,
                     hits, misses, expirations,
                     begun, gets, inserted, deleted, uses, lastUse>>
  BY DEF SetEvict, Over, reaper, history
<1>2. ShardOf[frame[t].key] \in Shards
  BY <1>1 DEF TypeOK, Keyed, Setting
<1>3. k \in Keys /\ map[k] # None
  BY <1>1, <1>2, OldestIsCached DEF Cached
<1>4. Erase(k) /\ evictions' = evictions + 1
  BY <1>3 DEF SetEvict, Oldest
<1> HIDE DEF k
<1>5. /\ map' \in [Keys -> Entry \cup {None}]
      /\ lru' \in [Shards -> Seq(Keys)]
      /\ memory' \in Int
      /\ ListMatchesMap'
  BY <1>3, <1>4, EraseFacts
<1>6. TypeOK'
  BY <1>1, <1>4, <1>5 DEF TypeOK
<1>7. WriterIsInside'
  BY <1>1, WriterKept
<1> QED BY <1>5, <1>6, <1>7

\* A scan goes over a shard or ends, and a thread takes its reply.
LEMMA ScanAndReturnKeepIInv ==
  ASSUME IInv, NEW t \in Threads, ScanShard(t) \/ ScanReturn(t) \/ Return(t)
  PROVE  IInv'
<1> USE ConstantsOK DEF IInv
<1>1. /\ UNCHANGED <<clock, map, lru, memory, writer, rpc, rnow, rshard, stopping,
                     hits, misses, evictions, expirations,
                     begun, gets, inserted, deleted, uses, lastUse>>
      /\ pc[t] \in Scanning \cup {"done"}
      /\ pc' = pc \/ \E l \in {"idle", "done"} : pc' = [pc EXCEPT ![t] = l]
      /\ \A u \in Threads \ {t} : frame'[u] = frame[u]
  BY DEF ScanShard, ScanReturn, Return, Goto, Scanning, TypeOK,
         shared, reaper, tallies, history
<1>2. frame' \in [Threads -> Frame]
  <2>1. CASE ScanShard(t)
    <3> DEFINE s == frame[t].shard
               now == frame[t].now
               live == {k \in Cached(s) : ~Expired(map[k], now)}
    <3>1. frame[t] \in Frame /\ now \in Nat /\ s \in 0 .. NumShards /\ frame[t].items \subseteq Item
      BY DEF TypeOK, Frame
    <3>2. PICK kept \in SUBSET live :
            /\ s < NumShards
            /\ frame' = [frame EXCEPT ![t].items = @ \cup {ItemOf(k, now) : k \in kept},
                                      ![t].shard = s + 1]
      BY <2>1 DEF ScanShard, Listed
    <3>3. ASSUME NEW k \in live PROVE ItemOf(k, now) \in Item
      <4>1. map[k] \in Entry /\ k \in Keys /\ ~Expired(map[k], now)
        BY DEF Cached, TypeOK
      <4>2. MsLeft(map[k], now) \in Nat \cup {None}
        <5>1. CASE map[k].expiry = None
          BY <5>1 DEF MsLeft
        <5>2. CASE map[k].expiry # None
          <6>1. map[k].expiry \in Nat /\ map[k].expiry - now \in Nat
            BY <4>1, <5>2, <3>1 DEF Expired, Entry
          <6>2. \A n \in Nat : n \div TicksPerMs \in Nat
            OBVIOUS
          <6> QED BY <5>2, <6>1, <6>2 DEF MsLeft
        <5> QED BY <5>1, <5>2
      <4> QED BY <4>1, <4>2 DEF ItemOf, Item, Entry
    <3> DEFINE more == {ItemOf(k, now) : k \in kept}
    <3>4. more \subseteq Item
      BY <3>3
    <3> HIDE DEF more
    <3> DEFINE f == [frame[t] EXCEPT !.items = @ \cup more]
    <3>5. [f EXCEPT !.shard = s + 1] \in Frame
      <4>1. f \in Frame
        BY <3>1, <3>4 DEF Frame
      <4>2. s + 1 \in 0 .. NumShards
        BY <3>1, <3>2
      <4> HIDE DEF f, s
      <4> QED BY <4>1, <4>2 DEF Frame
    <3>6. frame' = [frame EXCEPT ![t] = [f EXCEPT !.shard = s + 1]]
      BY <3>2 DEF more, TypeOK
    <3> QED BY <3>5, <3>6 DEF TypeOK
  <2>2. CASE ScanReturn(t)
    BY <2>2 DEF ScanReturn, TypeOK
  <2>3. CASE Return(t)
    BY <2>3, NoFrameType DEF Return, TypeOK
  <2> QED BY <2>1, <2>2, <2>3
<1>3. \A u \in Threads : u # t => pc'[u] = pc[u]
  BY <1>1 DEF TypeOK
<1>4. pc[t] \notin Keyed /\ pc'[t] \notin Keyed /\ pc'[t] \in Scanning \cup {"idle", "done"}
  BY <1>1 DEF TypeOK, Scanning, Keyed, Setting
<1>5. TypeOK'
  <2>1. pc' \in [Threads -> Keyed \cup Scanning \cup {"idle", "done"}]
    BY <1>1 DEF TypeOK
  <2>2. \A u \in Threads : /\ pc'[u] \in Keyed => frame'[u].key \in Keys
                           /\ pc'[u] \in Setting => frame'[u].value \in Values
    BY <1>1, <1>3, <1>4 DEF TypeOK, Keyed
  <2> QED BY <1>1, <1>2, <2>1, <2>2 DEF TypeOK
<1>6. WriterIsInside'
  <2>1. pc[t] \notin Writing /\ pc'[t] \notin Writing
    BY <1>4 DEF Writing, Keyed
  <2> QED BY <1>1, <1>3, <2>1, WriterKept
<1> QED BY <1>1, <1>5, <1>6, ListKept

\* The reaper outside its erasing, the destructor and the clock.
LEMMA ReaperAndWorldKeepIInv ==
  ASSUME IInv,
         \/ ReaperTest \/ ReaperWake \/ ReapLock \/ ReapUnlock
         \/ Destroy \/ Tick \/ UNCHANGED vars
  PROVE  IInv'
<1> USE ConstantsOK DEF IInv
<1>1. UNCHANGED <<map, lru, memory, pc, frame,
                 hits, misses, evictions, expirations,
                 begun, gets, inserted, deleted, uses, lastUse>>
  BY DEF ReaperTest, ReaperWake, ReapLock, ReapUnlock, Destroy, Tick,
         vars, shared, tallies, history
<1>2. /\ writer' \in [Shards -> Threads \cup {Reaper, None}]
      /\ rpc' \in {"test", "asleep", "lock", "erase", "exited"}
      /\ clock' \in Nat /\ rnow' \in Nat /\ rshard' \in Shards
      /\ stopping' \in BOOLEAN
  <2>1. CASE ReaperTest
    BY <2>1 DEF ReaperTest, ReaperStep, TypeOK
  <2>2. CASE ReaperWake
    BY <2>2 DEF ReaperWake, ReaperStep, TypeOK, Shards
  <2>3. CASE ReapLock
    BY <2>3 DEF ReapLock, ReaperStep, TypeOK
  <2>4. CASE ReapUnlock
    BY <2>4 DEF ReapUnlock, ReaperStep, Release, IsLast, TypeOK, Shards, reaper
  <2>5. CASE Destroy
    BY <2>5 DEF Destroy, TypeOK, reaper
  <2>6. CASE Tick
    BY <2>6 DEF Tick, TypeOK, reaper
  <2>7. CASE UNCHANGED vars
    BY <2>7 DEF vars, TypeOK, reaper
  <2> QED BY <2>1, <2>2, <2>3, <2>4, <2>5, <2>6, <2>7
<1>3. TypeOK'
  BY <1>1, <1>2 DEF TypeOK
<1>4. WriterIsInside'
  <2>1. CASE ReapLock
    <3>1. /\ writer[rshard] = None /\ rpc = "lock" /\ rpc' = "erase"
          /\ writer' = [writer EXCEPT ![rshard] = Reaper]
          /\ UNCHANGED rshard
      BY <2>1 DEF ReapLock, ReaperStep, Unlocked
    <3> QED BY <3>1, <1>1 DEF WriterIsInside, TypeOK
  <2>2. CASE ReapUnlock
    <3>1. /\ rpc = "erase" /\ rpc' # "erase"
          /\ writer' = [writer EXCEPT ![rshard] = None]
      BY <2>2 DEF ReapUnlock, ReaperStep, Release, IsLast
    <3>2. writer[rshard] = Reaper
      BY <3>1 DEF WriterIsInside, TypeOK
    <3> QED BY <3>1, <3>2, <1>1 DEF WriterIsInside, TypeOK
  <2>3. CASE writer' = writer /\ rpc # "erase" /\ rpc' # "erase"
    BY <2>3, <1>1 DEF WriterIsInside
  <2>4. CASE UNCHANGED <<writer, rpc, rshard>>
    BY <2>4, <1>1, WriterKept
  <2> QED BY <2>1, <2>2, <2>3, <2>4
         DEF ReaperTest, ReaperWake, ReaperStep, Destroy, Tick, vars, reaper
<1> QED BY <1>1, <1>3, <1>4, ListKept

\* Every step keeps the invariant.
LEMMA NextKeepsIInv ==
  ASSUME IInv, [Next]_vars PROVE IInv'
<1>1. ASSUME NEW t \in Threads, Work(t) PROVE IInv'
  BY <1>1, QuietKeepsIInv, ErasingKeepsIInv, GetHitKeepsIInv, SetWriteKeepsIInv,
     SetLockingKeepsIInv, SetEvictKeepsIInv, ScanAndReturnKeepIInv DEF Work
<1> QED BY <1>1, CallKeepsIInv, ErasingKeepsIInv, ReaperAndWorldKeepIInv DEF Next, Reap

-----------------------------------------------------------------------------
(* What a step does to the entries *)

\* An entry leaves, by a deletion, an eviction or an expiry.
Leaves(k) ==
  /\ map[k] # None /\ Erase(k)
  /\ UNCHANGED <<inserted, uses, lastUse>>
  /\ \/ deleted' = deleted + 1 /\ UNCHANGED <<evictions, expirations>>
     \/ evictions' = evictions + 1 /\ UNCHANGED <<deleted, expirations>>
     \/ expirations' = expirations + 1 /\ UNCHANGED <<deleted, evictions>>

\* The back of the list of a shard that is over its capacity is a cached key,
\* which the eviction erases.
LEMMA EvictLeaves ==
  ASSUME IInv, NEW t \in Threads, SetEvict(t)
  PROVE  LET s == ShardOf[frame[t].key]
             k == lru[s][Len(lru[s])]
         IN  /\ s \in Shards /\ k \in Cached(s) /\ Len(lru[s]) > 0
             /\ Leaves(k) /\ evictions' = evictions + 1 /\ Over(s)
             /\ UNCHANGED <<clock, pc, frame, writer>>
<1> DEFINE s == ShardOf[frame[t].key]
           k == lru[s][Len(lru[s])]
<1>1. pc[t] = "set_evict" /\ Cardinality(Cached(s)) > Capacity[s]
  BY DEF SetEvict, Over
<1>2. s \in Shards
  BY <1>1, ConstantsOK DEF IInv, TypeOK, Keyed, Setting
<1>3. Len(lru[s]) > 0 /\ Last(lru[s]) = k /\ k \in Cached(s)
  BY <1>1, <1>2, OldestIsCached
<1>4. map[k] # None
  BY <1>3 DEF Cached
<1>5. Erase(k) /\ evictions' = evictions + 1
  BY <1>3, <1>4 DEF SetEvict, Oldest
<1>6. UNCHANGED <<clock, pc, frame, writer, inserted, uses, lastUse, deleted, expirations>>
  BY DEF SetEvict, history
<1> QED BY <1>1, <1>2, <1>3, <1>4, <1>5, <1>6 DEF Leaves, Over

\* An entry leaves, is written, is read, or nothing happens to the entries.
LEMMA EntrySteps ==
  ASSUME IInv, [Next]_vars
  PROVE  \/ UNCHANGED <<map, lru, inserted, uses, lastUse, deleted, evictions, expirations>>
         \/ \E k \in Keys : Leaves(k)
         \/ \E t \in Threads : SetWrite(t) \/ GetHit(t)
<1> DEFINE Same == UNCHANGED <<map, lru, inserted, uses, lastUse,
                               deleted, evictions, expirations>>
           Left == \E k \in Keys : Leaves(k)
<1> USE DEF shared, tallies, history
<1>1. ASSUME NEW t \in Threads, Call(t) PROVE Same
  BY <1>1 DEF Call, CallSet, CallGet, CallDel, CallScan, Begin
<1>2. ASSUME NEW t \in Threads,
             \/ SetRefused(t) \/ SetLock(t) \/ SetCharge(t) \/ SetUnlock(t)
             \/ GetPeek(t) \/ GetMiss(t) \/ DelAbsent(t)
             \/ ScanShard(t) \/ ScanReturn(t) \/ Return(t)
      PROVE  Same
  BY <1>2 DEF SetRefused, SetLock, SetCharge, SetUnlock, GetPeek, GetMiss, DelAbsent,
     ScanShard, ScanReturn, Return
<1>3. ASSUME NEW t \in Threads, SetEvict(t) PROVE Left
  <2> DEFINE s == ShardOf[frame[t].key]
             k == lru[s][Len(lru[s])]
  <2>1. k \in Cached(s) /\ Leaves(k)
    BY <1>3, EvictLeaves
  <2>2. k \in Keys
    BY <2>1 DEF Cached
  <2> HIDE DEF k
  <2> QED BY <2>1, <2>2
<1>4. ASSUME NEW t \in Threads, GetExpired(t) \/ DelErase(t) PROVE Left
  <2> DEFINE k == frame[t].key
  <2>1. Leaves(k) /\ pc[t] \in {"get_take", "del"}
    BY <1>4 DEF GetExpired, DelErase, Leaves, Finish, Goto
  <2>2. k \in Keys
    BY <2>1 DEF IInv, TypeOK, Keyed
  <2> HIDE DEF k
  <2> QED BY <2>1, <2>2
<1>5. ASSUME ReapErase PROVE Left
  <2>1. PICK k \in Cached(rshard) : Erase(k)
    BY <1>5 DEF ReapErase
  <2>2. k \in Keys /\ Leaves(k)
    BY <1>5, <2>1 DEF ReapErase, Leaves, Cached
  <2> QED BY <2>2
<1>6. ASSUME ReaperTest \/ ReaperWake \/ ReapLock \/ ReapUnlock \/ Destroy \/ Tick
             \/ UNCHANGED vars
      PROVE  Same
  BY <1>6 DEF ReaperTest, ReaperWake, ReapLock, ReapUnlock, Destroy, Tick, vars
<1> QED BY <1>1, <1>2, <1>3, <1>4, <1>5, <1>6 DEF Next, Work, Reap

\* The entry that set_impl makes.
NewEntry(t) == [value  |-> frame[t].value,
                expiry |-> Deadline(frame[t].ttl, clock),
                bytes  |-> Bytes[frame[t].key][frame[t].value]]

\* The writing step of a set gives its key an entry and makes it the one that
\* was used last.
LEMMA SetWriteFacts ==
  ASSUME IInv, NEW t \in Threads, SetWrite(t)
  PROVE  LET k == frame[t].key
             s == ShardOf[k]
         IN  /\ k \in Keys /\ s \in Shards /\ NewEntry(t) \in Entry /\ NewEntry(t) # None
             /\ pc[t] = "set_write" /\ writer[s] = t
             /\ pc' = [pc EXCEPT ![t] = "set_charge"]
             /\ map' = [map EXCEPT ![k] = NewEntry(t)]
             /\ uses' = uses + 1 /\ lastUse' = [lastUse EXCEPT ![k] = uses + 1]
             /\ UNCHANGED <<clock, frame, writer, gets, hits, misses,
                            deleted, evictions, expirations>>
<1> USE ConstantsOK
<1> DEFINE k == frame[t].key
<1>1. /\ pc[t] = "set_write" /\ pc' = [pc EXCEPT ![t] = "set_charge"]
      /\ map' = [map EXCEPT ![k] = NewEntry(t)]
  BY DEF SetWrite, NewEntry, Goto
<1>2. uses' = uses + 1 /\ lastUse' = [lastUse EXCEPT ![k] = uses + 1]
  BY DEF SetWrite, Use
<1>3. UNCHANGED <<clock, frame, writer, gets, hits, misses, deleted, evictions, expirations>>
  BY DEF SetWrite, tallies
<1>4. /\ k \in Keys /\ frame[t] \in Frame /\ frame[t].value \in Values
      /\ clock \in Nat
  BY <1>1 DEF IInv, TypeOK, Keyed, Setting
<1>5. ShardOf[k] \in Shards /\ writer[ShardOf[k]] = t
  BY <1>1, <1>4 DEF IInv, WriterIsInside, Writing, Setting
<1>6. NewEntry(t) \in Entry
  <2>1. frame[t].ttl \in TTLs \cup {None}
    BY <1>4 DEF Frame
  <2>2. \A n \in TTLs : n * TicksPerMs \in Nat
    OBVIOUS
  <2>3. \A n \in Nat : clock + n \in Nat
    BY <1>4
  <2>4. Deadline(frame[t].ttl, clock) \in Nat \cup {None}
    BY <2>1, <2>2, <2>3 DEF Deadline
  <2>5. Bytes[k][frame[t].value] \in Nat
    BY <1>4
  <2> QED BY <1>4, <2>4, <2>5 DEF NewEntry, Entry
<1>7. NewEntry(t) # None
  BY <1>6
<1> QED BY <1>1, <1>2, <1>3, <1>4, <1>5, <1>6, <1>7

\* What a step does to the set of the cached keys.
LEMMA CachedSteps ==
  ASSUME IInv, [Next]_vars, NEW s \in Shards
  PROVE  \/ Cached(s)' \subseteq Cached(s)
         \/ \E t \in Threads : /\ SetWrite(t) /\ ShardOf[frame[t].key] = s
                               /\ Cached(s)' = Cached(s) \cup {frame[t].key}
<1> USE ConstantsOK
<1>0. map \in [Keys -> Entry \cup {None}]
  BY DEF IInv, TypeOK
<1>1. CASE UNCHANGED map
  BY <1>1 DEF Cached
<1>2. ASSUME NEW k \in Keys, Leaves(k) PROVE Cached(s)' \subseteq Cached(s)
  BY <1>0, <1>2 DEF Leaves, Erase, Cached
<1>3. ASSUME NEW t \in Threads, GetHit(t) PROVE Cached(s)' \subseteq Cached(s)
  BY <1>3 DEF GetHit, Cached
<1>4. ASSUME NEW t \in Threads, SetWrite(t)
      PROVE  \/ Cached(s)' \subseteq Cached(s)
             \/ /\ ShardOf[frame[t].key] = s
                /\ Cached(s)' = Cached(s) \cup {frame[t].key}
  <2> DEFINE k == frame[t].key
             e == NewEntry(t)
  <2>1. map' = [map EXCEPT ![k] = e] /\ k \in Keys
    BY <1>4, SetWriteFacts
  <2>2. e # None
    BY <1>4, SetWriteFacts
  <2> HIDE DEF e
  <2>3. CASE ShardOf[k] = s
    BY <1>0, <2>1, <2>2, <2>3 DEF Cached
  <2>4. CASE ShardOf[k] # s
    BY <1>0, <2>1, <2>4 DEF Cached
  <2> QED BY <2>3, <2>4
<1> QED BY <1>1, <1>2, <1>3, <1>4, EntrySteps

-----------------------------------------------------------------------------
(* What a step does to a scan *)

\* Apart from beginning and ending a call, only ScanShard changes the locals
\* of a thread, except for its reply.
LEMMA FrameSteps ==
  ASSUME IInv, [Next]_vars, NEW u \in Threads
  PROVE  \/ /\ frame'[u].items = frame[u].items /\ frame'[u].shard = frame[u].shard
            /\ frame'[u].now = frame[u].now /\ frame'[u].since = frame[u].since
            /\ pc'[u] \in Scanning => pc[u] \in Scanning
            /\ ~ScanShard(u)
         \/ /\ pc'[u] \notin Scanning /\ ~ScanShard(u)
            /\ frame'[u].items = {} /\ frame'[u].shard = 0
            /\ frame'[u].now \in {0, clock} /\ frame'[u].since = 0
         \/ /\ CallScan(u) /\ ~ScanShard(u)
            /\ frame'[u].items = {} /\ frame'[u].shard = 0
            /\ frame'[u].now = clock /\ frame'[u].since = uses
         \/ /\ ScanShard(u)
<1> USE DEF Goto
<1>0. /\ pc \in [Threads -> Keyed \cup Scanning \cup {"idle", "done"}]
      /\ frame \in [Threads -> Frame]
  BY DEF IInv, TypeOK
<1> DEFINE Alike == /\ frame'[u].items = frame[u].items /\ frame'[u].shard = frame[u].shard
                    /\ frame'[u].now = frame[u].now /\ frame'[u].since = frame[u].since
                    /\ pc'[u] \in Scanning => pc[u] \in Scanning
           Fresh == /\ pc'[u] \notin Scanning
                    /\ frame'[u].items = {} /\ frame'[u].shard = 0
                    /\ frame'[u].now \in {0, clock} /\ frame'[u].since = 0
           Begun == /\ CallScan(u)
                    /\ frame'[u].items = {} /\ frame'[u].shard = 0
                    /\ frame'[u].now = clock /\ frame'[u].since = uses
<1> SUFFICES ASSUME ~ScanShard(u) PROVE Alike \/ Fresh \/ Begun
  OBVIOUS
<1>1. CASE UNCHANGED <<pc, frame>>
  BY <1>1
<1>2. ASSUME NEW t \in Threads, CallSet(t) \/ CallGet(t) \/ CallDel(t) PROVE Alike \/ Fresh
  <2>1. PICK label \in {"set_lock", "get_peek", "del"}, f \in [key : Keys, value : Values \cup {None},
                 ttl : TTLs \cup {None}, now : {0, clock}, shard : {0}, items : {{}},
                 since : {0}, reply : {None}] :
          Begin(t, label, f)
    <3> DEFINE F == [key : Keys, value : Values \cup {None},
                     ttl : TTLs \cup {None}, now : {0, clock}, shard : {0}, items : {{}},
                     since : {0}, reply : {None}]
    <3>1. ASSUME NEW k \in Keys PROVE [NoFrame EXCEPT !.key = k] \in F
      BY DEF NoFrame
    <3>2. ASSUME NEW k \in Keys PROVE [NoFrame EXCEPT !.key = k, !.now = clock] \in F
      BY DEF NoFrame
    <3>3. ASSUME NEW k \in Keys, NEW v \in Values, NEW ttl \in TTLs \cup {None}
          PROVE  [NoFrame EXCEPT !.key = k, !.value = v, !.ttl = ttl] \in F
      BY DEF NoFrame
    <3> HIDE DEF F
    <3>4. \E label \in {"set_lock", "get_peek", "del"}, f \in F : Begin(t, label, f)
      BY <1>2, <3>1, <3>2, <3>3 DEF CallSet, CallGet, CallDel
    <3> QED BY <3>4 DEF F
  <2>2. pc' = [pc EXCEPT ![t] = label] /\ frame' = [frame EXCEPT ![t] = f]
    BY <2>1 DEF Begin
  <2>3. CASE t = u
    <3>1. pc'[u] = label /\ frame'[u] = f
      BY <1>0, <2>2, <2>3
    <3> QED BY <3>1 DEF Scanning
  <2>4. CASE t # u
    BY <1>0, <2>2, <2>4
  <2> QED BY <2>3, <2>4
<1>3. ASSUME NEW t \in Threads, CallScan(t) PROVE Alike \/ Begun
  <2>1. PICK op \in {"count", "snapshot"} :
          Begin(t, op, [NoFrame EXCEPT !.now = clock, !.since = uses])
    BY <1>3 DEF CallScan
  <2> DEFINE f == [NoFrame EXCEPT !.now = clock, !.since = uses]
  <2>2. pc' = [pc EXCEPT ![t] = op] /\ frame' = [frame EXCEPT ![t] = f]
    BY <2>1 DEF Begin
  <2>3. f.items = {} /\ f.shard = 0 /\ f.now = clock /\ f.since = uses
    BY DEF NoFrame
  <2> HIDE DEF f
  <2>4. CASE t = u
    <3>1. frame'[u] = f
      BY <1>0, <2>2, <2>4
    <3> QED BY <1>3, <2>3, <2>4, <3>1
  <2>5. CASE t # u
    BY <1>0, <2>2, <2>5
  <2> QED BY <2>4, <2>5
<1>4. ASSUME NEW t \in Threads, SetLock(t) \/ SetWrite(t) \/ SetCharge(t) \/ SetEvict(t)
      PROVE  Alike
  BY <1>0, <1>4 DEF SetLock, SetWrite, SetCharge, SetEvict, Scanning
<1>5. ASSUME NEW t \in Threads,
             \/ SetRefused(t) \/ SetUnlock(t) \/ GetMiss(t) \/ GetExpired(t)
             \/ DelErase(t) \/ DelAbsent(t) \/ GetPeek(t) \/ GetHit(t) \/ ScanReturn(t)
      PROVE  Alike
  <2>1. pc'[u] \in Scanning => pc[u] \in Scanning
    BY <1>0, <1>5 DEF SetRefused, SetUnlock, GetMiss, GetExpired, DelErase, DelAbsent,
       GetPeek, GetHit, ScanReturn, Finish, Scanning
  <2>2. frame' = frame \/ \E reply : frame' = [frame EXCEPT ![t].reply = reply]
    BY <1>5 DEF SetRefused, SetUnlock, GetMiss, GetExpired, DelErase, DelAbsent,
       GetPeek, GetHit, ScanReturn, Finish
  <2> QED BY <1>0, <2>1, <2>2 DEF Frame
<1>6. ASSUME NEW t \in Threads, Return(t) PROVE Alike \/ Fresh
  BY <1>0, <1>6 DEF Return, NoFrame, Scanning
<1>7. ASSUME NEW t \in Threads, ScanShard(t) PROVE Alike
  <2>0. t # u
    BY <1>7
  <2>1. frame'[u] = frame[u] /\ pc' = pc
    BY <1>0, <1>7, <2>0 DEF ScanShard
  <2> QED BY <2>1
<1>8. CASE Reap \/ Destroy \/ Tick \/ UNCHANGED vars
  BY <1>1, <1>8 DEF Reap, ReaperTest, ReaperWake, ReapLock, ReapErase, ReapUnlock,
     Destroy, Tick, vars
<1> QED BY <1>2, <1>3, <1>4, <1>5, <1>6, <1>7, <1>8 DEF Next, Call, Work

\* The scan of a shard adds, for the keys it lists, their items.
LEMMA ScanShardFacts ==
  ASSUME IInv, NEW t \in Threads, ScanShard(t)
  PROVE  LET s   == frame[t].shard
             now == frame[t].now
         IN  /\ s \in Shards /\ Unlocked(s) /\ pc[t] \in Scanning
             /\ \E kept \in SUBSET Cached(s) :
                  /\ \A k \in Cached(s) : ~Expired(map[k], now) /\ MsLeft(map[k], now) # 0
                                          => k \in kept
                  /\ frame'[t].items = frame[t].items \cup {ItemOf(k, now) : k \in kept}
             /\ frame'[t].shard = s + 1
             /\ frame'[t].now = now /\ frame'[t].since = frame[t].since
             /\ UNCHANGED <<clock, map, pc, uses, lastUse>>
<1> DEFINE s    == frame[t].shard
           now  == frame[t].now
           live == Listed(s, now)
           kept == IF pc[t] = "count" THEN live
                   ELSE {k \in live : MsLeft(map[k], now) # 0}
           items == frame[t].items \cup {ItemOf(k, now) : k \in kept}
<1>1. /\ pc[t] \in {"count", "snapshot"} /\ s < NumShards /\ Unlocked(s)
      /\ frame' = [frame EXCEPT ![t].items = @ \cup {ItemOf(k, now) : k \in kept},
                                ![t].shard = s + 1]
      /\ UNCHANGED <<clock, map, pc, uses, lastUse>>
  BY DEF ScanShard, shared, history
<1>2. frame[t] \in Frame /\ frame \in [Threads -> Frame]
  BY DEF IInv, TypeOK
<1>3. s \in Shards
  BY <1>1, <1>2, ConstantsOK DEF Frame, Shards
<1>4. kept \in SUBSET Cached(s)
  BY DEF Listed
<1>5. \A k \in Cached(s) : ~Expired(map[k], now) /\ MsLeft(map[k], now) # 0 => k \in kept
  BY DEF Listed
<1> HIDE DEF kept
<1>6. /\ frame'[t].items = frame[t].items \cup {ItemOf(k, now) : k \in kept}
      /\ frame'[t].shard = s + 1 /\ frame'[t].now = now /\ frame'[t].since = frame[t].since
  BY <1>1, <1>2 DEF Frame
<1> QED BY <1>1, <1>3, <1>4, <1>5, <1>6 DEF Scanning

-----------------------------------------------------------------------------
\* The reachable states have their types, a shard's writer lock is held by
\* whoever is inside it, and its recency list names each key of its map once.
THEOREM InvariantHolds == Spec => [](TypeOK /\ WriterIsInside /\ ListMatchesMap)
<1>1. IInv /\ [Next]_vars => IInv'
  BY NextKeepsIInv
<1> QED BY InitIInv, <1>1, PTL DEF Spec, IInv
=============================================================================
