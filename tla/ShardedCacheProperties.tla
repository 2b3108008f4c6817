------------------------ MODULE ShardedCacheProperties ------------------------
(***************************************************************************)
(* What ShardedCache has to keep: the invariants of its shards, what its   *)
(* counters and scans report, what its steps may never do, what must       *)
(* happen in the end, and the abstract map it implements.                  *)
(***************************************************************************)
EXTENDS ShardedCache

-----------------------------------------------------------------------------
(* Safety *)

\* A shard's writer lock is held by exactly the set that is between its lock
\* and its unlock on that shard, or by the reaper that is sweeping it
\* (unique_lock in set_impl and cleanup_expired).
WriterIsInside ==
  \A s \in Shards :
    /\ \A t \in Threads :
         writer[s] = t <=> pc[t] \in Writing /\ ShardOf[frame[t].key] = s
    /\ writer[s] = Reaper <=> rpc = "erase" /\ rshard = s

\* The recency list of a shard names exactly the keys of its map, each once,
\* so that lru_pos is always valid and back() always has an entry to evict
\* (set_impl, touch_lru_locked, erase_entry_locked).
ListMatchesMap ==
  \A s \in Shards : IsInjective(lru[s]) /\ ToSet(lru[s]) = Cached(s)

\* A shard that no set is writing is within its capacity, and one that is
\* being written is over by one entry at most (evict_if_needed_locked).
ShardWithinCapacity ==
  \A s \in Shards :
    Cardinality(Cached(s)) <=
      Capacity[s] + (IF writer[s] \in Threads THEN 1 ELSE 0)

\* What CapacityNeverExceedsConfiguredMaximum of tests/cache_tests.cpp asks:
\* each shard keeps to its share, the shares add up to max_keys, so the cache
\* as a whole never settles above it, and a count or snapshot in progress never
\* lists more (constructor, set_impl, active_key_count).
CacheWithinMaxKeys ==
  /\ ShardWithinCapacity
  /\ Cardinality({k \in Keys : map[k] # None})
       <= MaxKeys + Cardinality({s \in Shards : writer[s] \in Threads})
  /\ \A t \in Threads : Cardinality(frame[t].items) <= MaxKeys

\* What memory_bytes_ has of key k: a set that is between its two changes of
\* the counter has taken the old entry out and not yet put the new one in.
Charged(k) ==
  IF map[k] = None \/ \E t \in Threads : pc[t] = "set_charge" /\ frame[t].key = k
    THEN 0 ELSE map[k].bytes

\* memory_bytes_ is the size of the cached entries less those of the sets
\* that have inserted an entry and not charged it yet, whatever the threads
\* did in between; so a lock-free reader never sees it below zero, where a
\* size_t would wrap (set_impl, erase_entry_locked, memory_usage_bytes).
MemoryIsAccounted == memory = SumFunction([k \in Keys |-> Charged(k)])

\* Every insertion is cached, deleted, evicted or expired, and is counted
\* once; every get that is past its look-ups is one hit or one miss (the
\* counters of stats against the operations that feed them).
CountersAgree ==
  /\ inserted = Cardinality({k \in Keys : map[k] # None})
                  + deleted + evictions + expirations
  /\ gets = hits + misses
              + Cardinality({t \in Threads : pc[t] \in {"get_peek", "get_take"}})

\* A scan has, of the shards it is past, every entry that was there when it
\* began and has been left alone since, and is still to live at the scan's now;
\* and it has no key twice (active_key_count, snapshot_items).
ScanMissesNothingSteady ==
  \A t \in Threads : pc[t] \in Scanning =>
    /\ \A k \in Keys :
         (/\ ShardOf[k] < frame[t].shard
          /\ map[k] # None /\ lastUse[k] <= frame[t].since
          /\ ~Expired(map[k], frame[t].now)
          /\ MsLeft(map[k], frame[t].now) # 0)
         => ItemOf(k, frame[t].now) \in frame[t].items
    /\ \A i, j \in frame[t].items : i.key = j.key => i = j

-----------------------------------------------------------------------------
(* Action properties *)

\* An eviction takes the entry of its shard that was set or hit longest ago
\* (evict_if_needed_locked; README "LRU").
OnlyTheOldestIsEvicted ==
  [][evictions' # evictions =>
       \E k \in Keys :
         /\ map[k] # None /\ map' = [map EXCEPT ![k] = None]
         /\ \A j \in Cached(ShardOf[k]) \ {k} : lastUse[k] < lastUse[j]]_vars

\* An entry whose deadline has not passed is never removed as expired, though
\* get and the reaper act on a time they read before they had the lock
\* (get, cleanup_expired).
NoEarlyExpiry ==
  [][expirations' # expirations =>
       \E k \in Keys :
         /\ map[k] # None /\ map' = [map EXCEPT ![k] = None]
         /\ map[k].expiry \in 0 .. clock]_vars

-----------------------------------------------------------------------------
(* Liveness *)

\* Every call returns: no lock is kept, the eviction loop ends, the scans end.
EveryCallReturns == \A t \in Threads : pc[t] # "idle" ~> pc[t] = "idle"

\* An expired entry does not stay: the reaper takes it unless a client does or
\* the cache is being destroyed (reaper_loop, cleanup_expired).
ExpiredIsReaped ==
  \A k \in Keys :
    (map[k] # None /\ Expired(map[k], clock))
      ~> (map[k] = None \/ ~Expired(map[k], clock) \/ stopping)

\* The destructor's join ends: once it has asked, the reaper leaves
\* (~ShardedCache, reaper_loop).
DestructorReturns == stopping ~> rpc = "exited"

-----------------------------------------------------------------------------
(* Refinement *)

\* A set that holds the lock and has written its entry has had its effect;
\* a scan is no request of the abstract map.
CallOf(t) ==
  LET f == frame[t] IN
  CASE pc[t] \in {"set_lock", "set_write"} ->
         [op |-> "set", key |-> f.key, value |-> f.value, ttl |-> f.ttl]
    [] pc[t] \in {"get_peek", "get_take"} ->
         [op |-> "get", key |-> f.key, since |-> f.now]
    [] pc[t] = "del" -> [op |-> "del", key |-> f.key]
    [] pc[t] \in {"set_charge", "set_evict"} -> [reply |-> TRUE]
    [] pc[t] = "done" /\ f.key # None -> [reply |-> f.reply]
    [] OTHER -> None

StoredAt(k) == IF map[k] = None THEN None
               ELSE [value |-> map[k].value, expiry |-> map[k].expiry]

\* No entry and no call are nothing.
ASSUME NoneIsNoRecord ==
  /\ None \notin [value : Values, expiry : Nat \cup {None}]
  /\ None \notin [op : {"set"}, key : Keys, value : Values, ttl : TTLs \cup {None}]
  /\ None \notin [op : {"get"}, key : Keys, since : Nat]
  /\ None \notin [op : {"del"}, key : Keys]
  /\ None \notin [reply : Values \cup BOOLEAN \cup {None}]

Promise == INSTANCE ExpiringMap WITH
  GroupOf <- ShardOf, Room <- Capacity,
  store <- [k \in Keys |-> StoredAt(k)],
  call <- [t \in Threads |-> CallOf(t)]

\* Behind its locks, its list and its reaper the cache is the expiring map:
\* set, get and del each take effect at one moment, the eviction and the two
\* expiry paths take only what the map allows, and nobody looks at a shard
\* that is over its capacity (set, get, del, cleanup_expired).
ImplementsExpiringMap == Promise!Spec
=============================================================================
