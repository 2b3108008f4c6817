---------------------------- MODULE ShardedCache ----------------------------
(***************************************************************************)
(* The class template ShardedCache of include/mini_redis/sharded_cache.hpp *)
(* without get_or_compute (module RequestCollapsing): client threads call  *)
(* set, get, del and the two full scans (active_key_count, snapshot_items) *)
(* while the reaper thread sweeps expired entries out.                     *)
(*                                                                         *)
(* Every shard has one shared_mutex.  A section that only reads, or that   *)
(* changes the shard without looping, is one action that needs the mutex   *)
(* free of a writer; set (its eviction loop) and the reaper (its erase     *)
(* loop) take the mutex, work in several actions and give it back, so that *)
(* the lock-free counters and the other shards are seen in between.        *)
(***************************************************************************)
EXTENDS Integers, FiniteSets, SequencesExt

CONSTANTS
  Keys, Values,
  TTLs,        \* the time-to-live values a set may ask for
  Threads,     \* client threads
  Reaper,      \* the background thread
  None,        \* no entry, no expiry, no argument, no lock holder
  NumShards,   \* template parameter NumShards
  MaxKeys,     \* constructor argument max_keys
  WithReaper,  \* constructor argument enable_background_reaper
  ShardOf,     \* hasher_(key) % NumShards
  Bytes,       \* estimate_entry_bytes: [Keys -> [Values -> Nat]]
  TicksPerMs,  \* clock ticks in a millisecond (steady_clock is finer)
  MaxTime,     \* bound: last tick of the clock
  MaxCalls     \* bound: number of calls the clients make

Shards == 0 .. NumShards - 1

\* A map entry.  has_expiry = false is expiry = None; the iterator lru_pos is
\* the place of the key in its shard's list.
Entry == [value : Values, expiry : Nat \cup {None}, bytes : Nat]

\* What a scan collects: a SnapshotItem.
Item == [key : Keys, value : Values, left : Nat \cup {None}]

\* The locals of a call in progress.
Frame == [key   : Keys \cup {None},
          value : Values \cup {None},
          ttl   : TTLs \cup {None},
          now   : Nat,
          shard : 0 .. NumShards,
          items : SUBSET Item,
          since : Nat,             \* auxiliary: uses before the call
          reply : Values \cup BOOLEAN \cup {None}]

ASSUME ConstantsOK ==
  /\ NumShards \in Nat \ {0}
  /\ MaxKeys \in Nat
  /\ TicksPerMs \in Nat \ {0}
  /\ MaxTime \in Nat /\ MaxCalls \in Nat
  /\ TTLs \subseteq Nat
  /\ WithReaper \in BOOLEAN
  /\ IsFiniteSet(Keys)
  /\ ShardOf \in [Keys -> Shards]
  /\ Bytes \in [Keys -> [Values -> Nat]]
  /\ Reaper \notin Threads /\ None \notin Threads \cup {Reaper}
  /\ None \notin Entry /\ None \notin Nat /\ None \notin Keys /\ None \notin Values

\* Mutant: the remainder is handed to one shard too many.
CapacityRoundedUp == [s \in Shards |->
               (MaxKeys \div NumShards) + (IF s <= MaxKeys % NumShards THEN 1 ELSE 0)]

\* The constructor spreads max_keys over the shards.
Capacity == [s \in Shards |->
               (MaxKeys \div NumShards) + (IF s < MaxKeys % NumShards THEN 1 ELSE 0)]

VARIABLES
  clock,       \* steady_clock, in ticks
  map,         \* map[k]: the entry of k in its shard, or None
  lru,         \* lru[s]: the list of keys, most recently used first
  writer,      \* writer[s]: who holds shard s's mutex exclusively
  pc, frame,   \* where each client thread is, and its locals
  rpc, rnow, rshard,   \* the reaper: place, now of this sweep, shard
  stopping,    \* stop_reaper_
  hits, misses, evictions, expirations, memory,   \* the atomics
  \* auxiliary: calls and gets begun, map insertions, erasures by del, uses
  \* of a key by set and get, and for each key the number of its last use
  begun, gets, inserted, deleted, uses, lastUse

shared  == <<map, lru, memory>>
tallies == <<hits, misses, evictions, expirations>>
history == <<begun, gets, inserted, deleted, uses, lastUse>>
reaper  == <<rpc, rnow, rshard>>
vars    == <<clock, shared, writer, pc, frame, reaper, stopping, tallies, history>>

-----------------------------------------------------------------------------
\* Mutants of Expired and Unlocked: a tick early, a tick late; never locked.
ExpiredEarly(e, now) == e.expiry # None /\ now + 1 >= e.expiry
ExpiredLate(e, now)  == e.expiry # None /\ now > e.expiry
NeverLocked(s)       == TRUE

Cached(s)      == {k \in Keys : ShardOf[k] = s /\ map[k] # None}
Expired(e, now) == e.expiry # None /\ now >= e.expiry
Unlocked(s)    == writer[s] = None

\* Mutant: the difference is taken the wrong way round.
MsLeftSwapped(e, now) == IF e.expiry = None THEN None
                         ELSE (now - e.expiry) \div TicksPerMs

\* The entries of shard s that a scan lists.  Mutant: by the time of the visit.
ListedAtVisit(s, now) == {k \in Cached(s) : ~Expired(map[k], clock)}
Listed(s, now)        == {k \in Cached(s) : ~Expired(map[k], now)}

\* The loop condition of evict_if_needed_locked.
Over(s) == Cardinality(Cached(s)) > Capacity[s]

\* The exclusive lock of s is given back.  Mutant: it is kept.
ReleaseNot(s) == UNCHANGED writer
Release(s)    == writer' = [writer EXCEPT ![s] = None]

Deadline(ttl, now) == IF ttl = None THEN None ELSE now + ttl * TicksPerMs
MsLeft(e, now)     == IF e.expiry = None THEN None
                      ELSE (e.expiry - now) \div TicksPerMs

\* lru_pos of key k, and the list operations through it.
LruPos(list, k) == CHOOSE i \in 1 .. Len(list) : list[i] = k
Unlink(list, k) == RemoveAt(list, LruPos(list, k))

\* Mutants: a touch that leaves the old node, or does nothing.
TouchedTwice(list, k) == <<k>> \o list
TouchedNot(list, k)   == list

Oldest(list)     == Last(list)
Touched(list, k) == <<k>> \o Unlink(list, k)

\* Mutant: the bytes of the entry stay charged.
EraseCharged(k) ==
  /\ lru' = [lru EXCEPT ![ShardOf[k]] = Unlink(@, k)]
  /\ map' = [map EXCEPT ![k] = None]
  /\ UNCHANGED memory

\* erase_entry_locked
Erase(k) ==
  /\ memory' = memory - map[k].bytes
  /\ lru' = [lru EXCEPT ![ShardOf[k]] = Unlink(@, k)]
  /\ map' = [map EXCEPT ![k] = None]

\* Auxiliary: k is now the most recently used key of all.
Use(k) ==
  /\ uses' = uses + 1
  /\ lastUse' = [lastUse EXCEPT ![k] = uses + 1]

NoFrame == [key |-> None, value |-> None, ttl |-> None, now |-> 0,
            shard |-> 0, items |-> {}, since |-> 0, reply |-> None]

Goto(t, from, to) == pc[t] = from /\ pc' = [pc EXCEPT ![t] = to]

Finish(t, from, reply) ==
  /\ Goto(t, from, "done")
  /\ frame' = [frame EXCEPT ![t].reply = reply]

\* A client makes a call; its arguments and first locals are f.
Begin(t, label, f) ==
  /\ Goto(t, "idle", label)
  /\ ~stopping
  /\ begun < MaxCalls
  /\ frame' = [frame EXCEPT ![t] = f]
  /\ begun' = begun + 1
  /\ UNCHANGED <<clock, shared, writer, reaper, stopping, tallies,
                 inserted, deleted, uses, lastUse>>

Return(t) ==
  /\ Goto(t, "done", "idle")
  /\ frame' = [frame EXCEPT ![t] = NoFrame]
  /\ UNCHANGED <<clock, shared, writer, reaper, stopping, tallies, history>>

-----------------------------------------------------------------------------
(* set / set_impl *)

CallSet(t) ==
  \E k \in Keys, v \in Values, ttl \in TTLs \cup {None} :
    /\ Begin(t, "set_lock", [NoFrame EXCEPT !.key = k, !.value = v, !.ttl = ttl])
    /\ UNCHANGED gets

\* A shard without room refuses the entry.
SetRefused(t) ==
  LET s == ShardOf[frame[t].key] IN
  /\ Finish(t, "set_lock", FALSE)
  /\ Unlocked(s)
  /\ Capacity[s] = 0
  /\ UNCHANGED <<clock, shared, writer, reaper, stopping, tallies, history>>

SetLock(t) ==
  LET s == ShardOf[frame[t].key] IN
  /\ Goto(t, "set_lock", "set_write")
  /\ Unlocked(s)
  /\ Capacity[s] # 0
  /\ writer' = [writer EXCEPT ![s] = t]
  /\ UNCHANGED <<clock, shared, frame, reaper, stopping, tallies, history>>

\* Overwrite the entry and splice its node to the front, or push a new node
\* and insert.  The new entry's bytes are charged in a later step.
SetWrite(t) ==
  LET k == frame[t].key
      s == ShardOf[k]
      e == [value  |-> frame[t].value,
            expiry |-> Deadline(frame[t].ttl, clock),
            bytes  |-> Bytes[k][frame[t].value]]
  IN
  /\ Goto(t, "set_write", "set_charge")
  /\ map' = [map EXCEPT ![k] = e]
  /\ \/ /\ map[k] # None
        /\ memory' = memory - map[k].bytes
        /\ lru' = [lru EXCEPT ![s] = Touched(@, k)]
        /\ UNCHANGED inserted
     \/ /\ map[k] = None
        /\ lru' = [lru EXCEPT ![s] = <<k>> \o @]
        /\ inserted' = inserted + 1
        /\ UNCHANGED memory
  /\ Use(k)
  /\ UNCHANGED <<clock, writer, frame, reaper, stopping, tallies,
                 begun, gets, deleted>>

SetCharge(t) ==
  /\ Goto(t, "set_charge", "set_evict")
  /\ memory' = memory + map[frame[t].key].bytes
  /\ UNCHANGED <<clock, map, lru, writer, frame, reaper, stopping, tallies, history>>

\* One turn of evict_if_needed_locked: the back of the list goes.  No step of
\* this module leaves a list node without an entry; the code expects one.
SetEvict(t) ==
  LET s == ShardOf[frame[t].key]
      oldest == Oldest(lru[s])
  IN
  /\ pc[t] = "set_evict"
  /\ Over(s)
  /\ IF map[oldest] # None
       THEN Erase(oldest) /\ evictions' = evictions + 1
       ELSE /\ lru' = [lru EXCEPT ![s] = Front(@)]
            /\ UNCHANGED <<map, memory, evictions>>
  /\ UNCHANGED <<clock, writer, pc, frame, reaper, stopping,
                 hits, misses, expirations, history>>

SetUnlock(t) ==
  LET s == ShardOf[frame[t].key] IN
  /\ Finish(t, "set_evict", TRUE)
  /\ ~Over(s)
  /\ Release(s)
  /\ UNCHANGED <<clock, shared, reaper, stopping, tallies, history>>

-----------------------------------------------------------------------------
(* get: now is read before the first lock and used under the second. *)

CallGet(t) ==
  \E k \in Keys :
    /\ Begin(t, "get_peek", [NoFrame EXCEPT !.key = k, !.now = clock])
    /\ gets' = gets + 1

\* The look-up under the shared lock.
GetPeek(t) ==
  LET k == frame[t].key IN
  /\ pc[t] = "get_peek"
  /\ Unlocked(ShardOf[k])
  /\ \/ /\ map[k] = None
        /\ Finish(t, "get_peek", None)
        /\ misses' = misses + 1
     \/ /\ map[k] # None
        /\ Goto(t, "get_peek", "get_take")
        /\ UNCHANGED <<frame, misses>>
  /\ UNCHANGED <<clock, shared, writer, reaper, stopping,
                 hits, evictions, expirations, history>>

\* Mutant: the second look-up counts no miss.
GetMissUncounted(t) ==
  /\ Finish(t, "get_take", None)
  /\ Unlocked(ShardOf[frame[t].key]) /\ map[frame[t].key] = None
  /\ UNCHANGED <<clock, shared, writer, reaper, stopping, tallies, history>>

\* The second look-up, under the exclusive lock: the entry may have gone or
\* changed since.
GetMiss(t) ==
  LET k == frame[t].key IN
  /\ Finish(t, "get_take", None)
  /\ Unlocked(ShardOf[k])
  /\ map[k] = None
  /\ misses' = misses + 1
  /\ UNCHANGED <<clock, shared, writer, reaper, stopping,
                 hits, evictions, expirations, history>>

GetExpired(t) ==
  LET k == frame[t].key IN
  /\ Finish(t, "get_take", None)
  /\ Unlocked(ShardOf[k])
  /\ map[k] # None
  /\ Expired(map[k], frame[t].now)
  /\ Erase(k)
  /\ expirations' = expirations + 1
  /\ misses' = misses + 1
  /\ UNCHANGED <<clock, writer, reaper, stopping, hits, evictions, history>>

GetHit(t) ==
  LET k == frame[t].key IN
  /\ pc[t] = "get_take"
  /\ Unlocked(ShardOf[k])
  /\ map[k] # None
  /\ ~Expired(map[k], frame[t].now)
  /\ Finish(t, "get_take", map[k].value)
  /\ lru' = [lru EXCEPT ![ShardOf[k]] = Touched(@, k)]
  /\ hits' = hits + 1
  /\ Use(k)
  /\ UNCHANGED <<clock, map, memory, writer, reaper, stopping,
                 misses, evictions, expirations, begun, gets, inserted, deleted>>

-----------------------------------------------------------------------------
(* del *)

CallDel(t) ==
  \E k \in Keys :
    /\ Begin(t, "del", [NoFrame EXCEPT !.key = k])
    /\ UNCHANGED gets

DelErase(t) ==
  LET k == frame[t].key IN
  /\ Finish(t, "del", TRUE)
  /\ Unlocked(ShardOf[k])
  /\ map[k] # None
  /\ Erase(k)
  /\ deleted' = deleted + 1
  /\ UNCHANGED <<clock, writer, reaper, stopping, tallies,
                 begun, gets, inserted, uses, lastUse>>

DelAbsent(t) ==
  LET k == frame[t].key IN
  /\ Finish(t, "del", FALSE)
  /\ Unlocked(ShardOf[k])
  /\ map[k] = None
  /\ UNCHANGED <<clock, shared, writer, reaper, stopping, tallies, history>>

-----------------------------------------------------------------------------
(* active_key_count ("count") and snapshot_items ("snapshot"): one shard    *)
(* after the other under its shared lock, against the now of the call.      *)

CallScan(t) ==
  \E op \in {"count", "snapshot"} :
    /\ Begin(t, op, [NoFrame EXCEPT !.now = clock, !.since = uses])
    /\ UNCHANGED gets

ItemOf(k, now) == [key |-> k, value |-> map[k].value, left |-> MsLeft(map[k], now)]

\* snapshot_items drops an entry that has less than a millisecond left.
ScanShard(t) ==
  LET s    == frame[t].shard
      now  == frame[t].now
      live == Listed(s, now)
      kept == IF pc[t] = "count" THEN live
              ELSE {k \in live : MsLeft(map[k], now) # 0}
  IN
  /\ pc[t] \in {"count", "snapshot"}
  /\ s < NumShards
  /\ Unlocked(s)
  /\ frame' = [frame EXCEPT ![t].items = @ \cup {ItemOf(k, now) : k \in kept},
                            ![t].shard = s + 1]
  /\ UNCHANGED <<clock, shared, writer, pc, reaper, stopping, tallies, history>>

ScanReturn(t) ==
  /\ pc[t] \in {"count", "snapshot"}
  /\ frame[t].shard = NumShards
  /\ pc' = [pc EXCEPT ![t] = "done"]
  /\ UNCHANGED <<clock, shared, writer, frame, reaper, stopping, tallies, history>>

-----------------------------------------------------------------------------
(* reaper_loop and cleanup_expired, and the destructor that stops them. *)

ReaperStep(from, to) == rpc = from /\ rpc' = to

\* Mutant: the stop flag is not looked at.
ReaperTestForever ==
  /\ ReaperStep("test", "asleep")
  /\ UNCHANGED <<clock, shared, writer, pc, frame, rnow, rshard, stopping, tallies, history>>

\* The loop test: sleep again, or leave.
ReaperTest ==
  /\ ReaperStep("test", IF stopping THEN "exited" ELSE "asleep")
  /\ UNCHANGED <<clock, shared, writer, pc, frame, rnow, rshard, stopping, tallies, history>>

\* The sleep ends and cleanup_expired reads its clock, once for all shards.
ReaperWake ==
  /\ ReaperStep("asleep", "lock")
  /\ rnow' = clock
  /\ rshard' = 0
  /\ UNCHANGED <<clock, shared, writer, pc, frame, stopping, tallies, history>>

ReapLock ==
  /\ ReaperStep("lock", "erase")
  /\ Unlocked(rshard)
  /\ writer' = [writer EXCEPT ![rshard] = Reaper]
  /\ UNCHANGED <<clock, shared, pc, frame, rnow, rshard, stopping, tallies, history>>

\* The order of an unordered_map is unspecified: any expired entry is next.
ReapErase ==
  /\ rpc = "erase"
  /\ \E k \in Cached(rshard) : Expired(map[k], rnow) /\ Erase(k)
  /\ expirations' = expirations + 1
  /\ UNCHANGED <<clock, writer, pc, frame, reaper, stopping,
                 hits, misses, evictions, history>>

\* The sweep ends at the last shard.  Mutant: it ends before it.
EndsShort(s) == s + 2 >= NumShards
IsLast(s)    == s + 1 = NumShards

ReapUnlock ==
  /\ ReaperStep("erase", IF IsLast(rshard) THEN "test" ELSE "lock")
  /\ \A k \in Cached(rshard) : ~Expired(map[k], rnow)
  /\ Release(rshard)
  /\ rshard' = (rshard + 1) % NumShards
  /\ UNCHANGED <<clock, shared, pc, frame, rnow, stopping, tallies, history>>

\* ~ShardedCache, which C++ allows only once no call is in progress.
Destroy ==
  /\ \A t \in Threads : pc[t] = "idle"
  /\ ~stopping
  /\ stopping' = TRUE
  /\ UNCHANGED <<clock, shared, writer, pc, frame, reaper, tallies, history>>

Tick ==
  /\ clock < MaxTime
  /\ clock' = clock + 1
  /\ UNCHANGED <<shared, writer, pc, frame, reaper, stopping, tallies, history>>

-----------------------------------------------------------------------------
Init ==
  /\ clock = 0
  /\ map = [k \in Keys |-> None]
  /\ lru = [s \in Shards |-> <<>>]
  /\ writer = [s \in Shards |-> None]
  /\ pc = [t \in Threads |-> "idle"]
  /\ frame = [t \in Threads |-> NoFrame]
  /\ rpc = IF WithReaper THEN "test" ELSE "exited"
  /\ rnow = 0 /\ rshard = 0
  /\ stopping = FALSE
  /\ hits = 0 /\ misses = 0 /\ evictions = 0 /\ expirations = 0 /\ memory = 0
  /\ begun = 0 /\ gets = 0 /\ inserted = 0 /\ deleted = 0 /\ uses = 0
  /\ lastUse = [k \in Keys |-> 0]

Call(t) == CallSet(t) \/ CallGet(t) \/ CallDel(t) \/ CallScan(t)

\* The steps of a call that is under way.
Work(t) ==
  \/ SetRefused(t) \/ SetLock(t) \/ SetWrite(t) \/ SetCharge(t)
  \/ SetEvict(t) \/ SetUnlock(t)
  \/ GetPeek(t) \/ GetMiss(t) \/ GetExpired(t) \/ GetHit(t)
  \/ DelErase(t) \/ DelAbsent(t)
  \/ ScanShard(t) \/ ScanReturn(t)
  \/ Return(t)

Reap == ReaperTest \/ ReaperWake \/ ReapLock \/ ReapErase \/ ReapUnlock

Next ==
  \/ \E t \in Threads : Call(t) \/ Work(t)
  \/ Reap
  \/ Destroy
  \/ Tick

Spec == Init /\ [][Next]_vars

\* A mutex that is released again and again is in the end granted to each
\* thread that waits for it, and a running thread is scheduled.
Fairness ==
  /\ \A t \in Threads : SF_vars(Work(t))
  /\ SF_vars(Reap)

FairSpec == Spec /\ Fairness

-----------------------------------------------------------------------------
(* Type correctness *)

Setting  == {"set_lock", "set_write", "set_charge", "set_evict"}
Keyed    == Setting \cup {"get_peek", "get_take", "del"}
Scanning == {"count", "snapshot"}
Writing  == Setting \ {"set_lock"}

\* Every variable has its type, and a call in progress has the arguments its
\* place in the code reads.
TypeOK ==
  /\ clock \in Nat
  /\ map \in [Keys -> Entry \cup {None}]
  /\ lru \in [Shards -> Seq(Keys)]
  /\ writer \in [Shards -> Threads \cup {Reaper, None}]
  /\ pc \in [Threads -> Keyed \cup Scanning \cup {"idle", "done"}]
  /\ frame \in [Threads -> Frame]
  /\ \A t \in Threads : /\ pc[t] \in Keyed => frame[t].key \in Keys
                        /\ pc[t] \in Setting => frame[t].value \in Values
  /\ rpc \in {"test", "asleep", "lock", "erase", "exited"}
  /\ rnow \in Nat /\ rshard \in Shards
  /\ stopping \in BOOLEAN
  /\ hits \in Nat /\ misses \in Nat /\ evictions \in Nat /\ expirations \in Nat
  /\ memory \in Int
  /\ begun \in Nat /\ gets \in Nat /\ inserted \in Nat /\ deleted \in Nat
  /\ uses \in Nat /\ lastUse \in [Keys -> Nat]
=============================================================================
