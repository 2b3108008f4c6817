----------------------------- MODULE ExpiringMap -----------------------------
(***************************************************************************)
(* What ShardedCache promises the threads that call it, with no locks, no  *)
(* list, no counters and no reaper: every set, get and del takes effect in *)
(* one step between its call and its return, on a map whose entries have   *)
(* deadlines.  Keys are grouped, a group has room for a number of entries, *)
(* and entries leave by themselves in two ways only: the least recently    *)
(* used one of a group that is over its room, and one past its deadline.   *)
(* While a group is over its room no client can look at it.                *)
(***************************************************************************)
EXTENDS Integers, FiniteSets

CONSTANTS Keys, Values, TTLs, Threads, None, GroupOf, Room, TicksPerMs

VARIABLES
  clock,
  store,           \* store[k]: [value, expiry] or None
  call,            \* call[t]: None, a request, or [reply |-> ...]
  uses, lastUse    \* the order in which keys were last set or hit

vars == <<clock, store, call, uses, lastUse>>

Stored(g)     == {k \in Keys : GroupOf[k] = g /\ store[k] # None}
Settled(g)    == Cardinality(Stored(g)) <= Room[g]
Past(e, now)  == e.expiry # None /\ now >= e.expiry

Requests ==
  [op : {"set"}, key : Keys, value : Values, ttl : TTLs \cup {None}]
    \cup [op : {"get"}, key : Keys, since : {clock}]
    \cup [op : {"del"}, key : Keys]

Asked(t, op) ==
  /\ call[t] # None /\ "op" \in DOMAIN call[t]
  /\ call[t].op = op

Answer(t, r) == call' = [call EXCEPT ![t] = [reply |-> r]]

Drop(k) == store' = [store EXCEPT ![k] = None]

Use(k) ==
  /\ uses' = uses + 1
  /\ lastUse' = [lastUse EXCEPT ![k] = uses + 1]

-----------------------------------------------------------------------------
Ask(t) ==
  /\ call[t] = None
  /\ call'[t] \in Requests
  /\ call' = [call EXCEPT ![t] = call'[t]]
  /\ UNCHANGED <<clock, store, uses, lastUse>>

Take(t) ==
  /\ call[t] # None /\ "reply" \in DOMAIN call[t]
  /\ call' = [call EXCEPT ![t] = None]
  /\ UNCHANGED <<clock, store, uses, lastUse>>

Put(t) ==
  LET k == call[t].key
      e == [value  |-> call[t].value,
            expiry |-> IF call[t].ttl = None THEN None
                       ELSE clock + call[t].ttl * TicksPerMs]
  IN
  /\ Asked(t, "set")
  /\ Settled(GroupOf[k])
  /\ Room[GroupOf[k]] > 0
  /\ store' = [store EXCEPT ![k] = e]
  /\ Use(k)
  /\ Answer(t, TRUE)
  /\ UNCHANGED clock

Refuse(t) ==
  /\ Asked(t, "set")
  /\ Room[GroupOf[call[t].key]] = 0
  /\ Answer(t, FALSE)
  /\ UNCHANGED <<clock, store, uses, lastUse>>

\* A hit needs an entry that was alive when the get was called.
Hit(t) ==
  LET k == call[t].key IN
  /\ Asked(t, "get")
  /\ Settled(GroupOf[k])
  /\ store[k] # None
  /\ ~Past(store[k], call[t].since)
  /\ Answer(t, store[k].value)
  /\ Use(k)
  /\ UNCHANGED <<clock, store>>

\* A miss needs its absence, or an entry that was past its deadline then.
Miss(t) ==
  LET k == call[t].key IN
  /\ Asked(t, "get")
  /\ Settled(GroupOf[k])
  /\ store[k] # None => Past(store[k], call[t].since)
  /\ Answer(t, None)
  /\ Drop(k)
  /\ UNCHANGED <<clock, uses, lastUse>>

Remove(t) ==
  LET k == call[t].key IN
  /\ Asked(t, "del")
  /\ Settled(GroupOf[k])
  /\ Answer(t, store[k] # None)
  /\ Drop(k)
  /\ UNCHANGED <<clock, uses, lastUse>>

Evict(k) ==
  /\ store[k] # None
  /\ ~Settled(GroupOf[k])
  /\ \A j \in Stored(GroupOf[k]) \ {k} : lastUse[k] < lastUse[j]
  /\ Drop(k)
  /\ UNCHANGED <<clock, call, uses, lastUse>>

Expire(k) ==
  /\ store[k] # None
  /\ Past(store[k], clock)
  /\ Drop(k)
  /\ UNCHANGED <<clock, call, uses, lastUse>>

Tick ==
  /\ clock' = clock + 1
  /\ UNCHANGED <<store, call, uses, lastUse>>

-----------------------------------------------------------------------------
Init ==
  /\ clock = 0
  /\ store = [k \in Keys |-> None]
  /\ call = [t \in Threads |-> None]
  /\ uses = 0
  /\ lastUse = [k \in Keys |-> 0]

Next ==
  \/ \E t \in Threads : \/ Ask(t) \/ Take(t)
                        \/ Put(t) \/ Refuse(t) \/ Hit(t) \/ Miss(t) \/ Remove(t)
  \/ \E k \in Keys : Evict(k) \/ Expire(k)
  \/ Tick

Spec == Init /\ [][Next]_vars
=============================================================================
