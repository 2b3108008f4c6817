-------------------------- MODULE RequestCollapsing --------------------------
(***************************************************************************)
(* get_or_compute of include/mini_redis/sharded_cache.hpp: threads that    *)
(* miss the same key share one run of the loader.  The first of them owns  *)
(* an InFlight registered in the shard, the others wait on its future.     *)
(*                                                                         *)
(* The map is the one ExpiringMap promises, where get, set and the look-up *)
(* under the lock are one step each and an entry may leave at any moment   *)
(* (del, eviction, expiry); other clients may set the key meanwhile.  A    *)
(* loaded value is named by the flight that loaded it.  The loader returns *)
(* or throws after any delay; before that it may itself ask for keys that  *)
(* its own needs, one after the other, which are calls like any other.     *)
(***************************************************************************)
EXTENDS Integers, FiniteSets

CONSTANTS
  Keys,
  Threads,     \* activations of the function, those inside loaders included
  Needs,       \* Needs[k]: the keys that the loader of k may ask for
  Flights,     \* the InFlight objects; bound: as many calls are made
  None,        \* no entry, no flight, no key, not set
  Written,     \* a value another client has set
  Storable,    \* the keys whose shard has capacity
  MaxLosses    \* bound: entries that leave, of each key

VARIABLES
  store,       \* store[k]: the value cached for k, or None
  inflight,    \* Shard::inflight: the flight registered for k, or None
  promise,     \* promise[f]: "unused", "pending", "error" or "value"
  pc, key, mine,   \* each thread's place, argument and InFlight
  reply,       \* what each thread's call has to return
  inner,       \* the call that each thread's loader is waiting for, or None
  \* auxiliary: calls begun, loader runs begun and thrown, entries lost, the
  \* flights whose owner has returned, and those that had when a call began
  calls, loads, failures, losses, landed, before

vars == <<store, inflight, promise, pc, key, mine, reply, inner,
          calls, loads, failures, losses, landed, before>>

ASSUME ConstantsOK ==
  /\ Storable \subseteq Keys
  /\ Needs \in [Keys -> SUBSET Keys]
  /\ MaxLosses \in Nat
  /\ None \notin Flights /\ None \notin Keys /\ None \notin Threads /\ None # Written
  /\ Written \notin Flights
  /\ "error" \notin Flights /\ "error" # None /\ "error" # Written

\* A thread with is_owner set, and those of them whose load is not stored yet.
Loading == {"load", "store"}
Owning  == Loading \cup {"publish", "erase", "fail", "fail_erase"}

Goto(t, from, to) == pc[t] = from /\ pc' = [pc EXCEPT ![t] = to]

Finish(t, from, r) ==
  /\ Goto(t, from, "done")
  /\ reply' = [reply EXCEPT ![t] = r]

history == <<calls, loads, failures, losses, landed, before>>

-----------------------------------------------------------------------------
Begin(t, k) ==
  /\ calls < Cardinality(Flights)
  /\ calls' = calls + 1
  /\ Goto(t, "idle", "get")
  /\ key' = [key EXCEPT ![t] = k]
  /\ before' = [before EXCEPT ![t] = landed]
  /\ UNCHANGED <<store, inflight, promise, mine, reply,
                 loads, failures, losses, landed>>

Call(t) == \E k \in Keys : Begin(t, k) /\ UNCHANGED inner

\* The loader of t asks for a key in its turn, on t's own stack.
CallInside(t) ==
  /\ pc[t] = "load" /\ inner[t] = None
  /\ \E u \in Threads, k \in Needs[key[t]] :
       Begin(u, k) /\ inner' = [inner EXCEPT ![t] = u]

GetHit(t) ==
  /\ pc[t] = "get" /\ store[key[t]] # None
  /\ Finish(t, "get", store[key[t]])
  /\ UNCHANGED <<store, inflight, promise, key, mine, inner, history>>

GetMiss(t) ==
  /\ Goto(t, "get", "join")
  /\ store[key[t]] = None
  /\ UNCHANGED <<store, inflight, promise, key, mine, reply, inner, history>>

\* Under the shard's lock the key is looked up again.
JoinHit(t) ==
  /\ pc[t] = "join" /\ store[key[t]] # None
  /\ Finish(t, "join", store[key[t]])
  /\ UNCHANGED <<store, inflight, promise, key, mine, inner, history>>

\* Mutants: the first look-up is taken for granted; the registration is made,
\* or one is joined, without a look.
StillMissingAssumed(t) == TRUE
UnregisteredAssumed(t) == TRUE
RegisteredAssumed(t)   == FALSE

StillMissing(t) == store[key[t]] = None
Unregistered(t) == inflight[key[t]] = None

\* Mutant: the registrations of a shard are not told apart by their keys.
JoinAnyFlight(t) ==
  /\ Goto(t, "join", "wait")
  /\ StillMissing(t)
  /\ \E k \in Keys : inflight[k] # None /\ mine' = [mine EXCEPT ![t] = inflight[k]]
  /\ UNCHANGED <<store, inflight, promise, key, reply, inner, history>>

JoinFlight(t) ==
  /\ Goto(t, "join", "wait")
  /\ StillMissing(t)
  /\ ~Unregistered(t)
  /\ mine' = [mine EXCEPT ![t] = inflight[key[t]]]
  /\ UNCHANGED <<store, inflight, promise, key, reply, inner, history>>

\* make_shared: objects that no one has seen are alike.
NewFlight == CHOOSE f \in Flights : promise[f] = "unused"

\* A new InFlight is registered and the loader starts.
JoinAsOwner(t) ==
  /\ Goto(t, "join", "load")
  /\ StillMissing(t)
  /\ Unregistered(t)
  /\ \E f \in Flights :
       /\ f = NewFlight /\ promise[f] = "unused"
       /\ promise' = [promise EXCEPT ![f] = "pending"]
       /\ inflight' = [inflight EXCEPT ![key[t]] = f]
       /\ mine' = [mine EXCEPT ![t] = f]
  /\ loads' = [loads EXCEPT ![key[t]] = @ + 1]
  /\ UNCHANGED <<store, key, reply, inner, calls, failures, losses, landed, before>>

-----------------------------------------------------------------------------
(* The owner *)

LoaderReturns(t) ==
  /\ Goto(t, "load", "store")
  /\ inner[t] = None
  /\ UNCHANGED <<store, inflight, promise, key, mine, reply, inner, history>>

LoaderThrows(t) ==
  /\ Goto(t, "load", "fail")
  /\ inner[t] = None
  /\ failures' = [failures EXCEPT ![key[t]] = @ + 1]
  /\ UNCHANGED <<store, inflight, promise, key, mine, reply, inner,
                 calls, loads, losses, landed, before>>

\* set: a shard without capacity refuses, which the owner does not look at.
Store(t) ==
  /\ Goto(t, "store", "publish")
  /\ store' = IF key[t] \in Storable THEN [store EXCEPT ![key[t]] = mine[t]]
              ELSE store
  /\ UNCHANGED <<inflight, promise, key, mine, reply, inner, history>>

\* Mutant: set_value is left out.
PublishNothing(t) ==
  /\ Goto(t, "publish", "erase")
  /\ UNCHANGED <<store, inflight, promise, key, mine, reply, inner, history>>

Publish(t) ==
  /\ Goto(t, "publish", "erase")
  /\ promise' = [promise EXCEPT ![mine[t]] = "value"]
  /\ UNCHANGED <<store, inflight, key, mine, reply, inner, history>>

PublishError(t) ==
  /\ Goto(t, "fail", "fail_erase")
  /\ promise' = [promise EXCEPT ![mine[t]] = "error"]
  /\ UNCHANGED <<store, inflight, key, mine, reply, inner, history>>

\* Mutant: the handler of an exception leaves the registration behind.
EraseOnSuccess(t) ==
  /\ \/ /\ Finish(t, "erase", mine[t])
        /\ inflight' = [inflight EXCEPT ![key[t]] = None]
     \/ /\ Finish(t, "fail_erase", "error")
        /\ UNCHANGED inflight
  /\ landed' = landed \cup {mine[t]}
  /\ UNCHANGED <<store, promise, key, mine, inner,
                 calls, loads, failures, losses, before>>

\* The registration is erased by key, and the owner returns or rethrows.
Erase(t) ==
  /\ \/ Finish(t, "erase", mine[t])
     \/ Finish(t, "fail_erase", "error")
  /\ inflight' = [inflight EXCEPT ![key[t]] = None]
  /\ landed' = landed \cup {mine[t]}
  /\ UNCHANGED <<store, promise, key, mine, inner,
                 calls, loads, failures, losses, before>>

-----------------------------------------------------------------------------
\* future.get(): blocks until the promise is set, then returns or throws.
Wake(t) ==
  /\ pc[t] = "wait" /\ promise[mine[t]] \in {"value", "error"}
  /\ Finish(t, "wait", IF promise[mine[t]] = "value" THEN mine[t] ELSE "error")
  /\ UNCHANGED <<store, inflight, promise, key, mine, inner, history>>

\* Control is back with the client, or with the loader that called.
Return(t) ==
  /\ Goto(t, "done", "idle")
  /\ inner' = [u \in Threads |-> IF inner[u] = t THEN None ELSE inner[u]]
  /\ key' = [key EXCEPT ![t] = None]
  /\ mine' = [mine EXCEPT ![t] = None]
  /\ reply' = [reply EXCEPT ![t] = None]
  /\ before' = [before EXCEPT ![t] = {}]
  /\ UNCHANGED <<store, inflight, promise, calls, loads, failures, losses, landed>>

-----------------------------------------------------------------------------
(* The rest of the cache *)

Lose(k) ==
  /\ store[k] # None
  /\ losses[k] < MaxLosses
  /\ store' = [store EXCEPT ![k] = None]
  /\ losses' = [losses EXCEPT ![k] = @ + 1]
  /\ UNCHANGED <<inflight, promise, pc, key, mine, reply, inner,
                 calls, loads, failures, landed, before>>

SetByOther(k) ==
  /\ k \in Storable
  /\ store' = [store EXCEPT ![k] = Written]
  /\ UNCHANGED <<inflight, promise, pc, key, mine, reply, inner, history>>

-----------------------------------------------------------------------------
Init ==
  /\ store = [k \in Keys |-> None]
  /\ inflight = [k \in Keys |-> None]
  /\ promise = [f \in Flights |-> "unused"]
  /\ pc = [t \in Threads |-> "idle"]
  /\ key = [t \in Threads |-> None]
  /\ mine = [t \in Threads |-> None]
  /\ reply = [t \in Threads |-> None]
  /\ inner = [t \in Threads |-> None]
  /\ calls = 0
  /\ loads = [k \in Keys |-> 0]
  /\ failures = [k \in Keys |-> 0]
  /\ losses = [k \in Keys |-> 0]
  /\ landed = {}
  /\ before = [t \in Threads |-> {}]

Work(t) ==
  \/ GetHit(t) \/ GetMiss(t) \/ JoinHit(t) \/ JoinFlight(t) \/ JoinAsOwner(t)
  \/ LoaderReturns(t) \/ LoaderThrows(t) \/ Store(t) \/ Publish(t)
  \/ PublishError(t) \/ Erase(t) \/ Wake(t) \/ Return(t)

Next ==
  \/ \E t \in Threads : Call(t) \/ CallInside(t) \/ Work(t)
  \/ \E k \in Keys : Lose(k) \/ SetByOther(k)

Spec == Init /\ [][Next]_vars

\* A running thread is scheduled, the shard's lock is granted in the end, and
\* a loader that has been started comes to an end.
FairSpec == Spec /\ \A t \in Threads : WF_vars(Work(t))

-----------------------------------------------------------------------------
(* Type correctness *)

\* Every variable has its type; a thread in a call has a key, and one that
\* owns or waits has an InFlight.
TypeOK ==
  /\ store \in [Keys -> Flights \cup {None, Written}]
  /\ inflight \in [Keys -> Flights \cup {None}]
  /\ promise \in [Flights -> {"unused", "pending", "value", "error"}]
  /\ pc \in [Threads -> Owning \cup {"idle", "get", "join", "wait", "done"}]
  /\ key \in [Threads -> Keys \cup {None}]
  /\ mine \in [Threads -> Flights \cup {None}]
  /\ reply \in [Threads -> Flights \cup {None, Written, "error"}]
  /\ inner \in [Threads -> Threads \cup {None}]
  /\ calls \in Nat
  /\ loads \in [Keys -> Nat] /\ failures \in [Keys -> Nat] /\ losses \in [Keys -> Nat]
  /\ landed \subseteq Flights
  /\ before \in [Threads -> SUBSET Flights]
  /\ \A t \in Threads :
       /\ pc[t] # "idle" => key[t] \in Keys
       /\ pc[t] \in Owning \cup {"wait"} => mine[t] \in Flights
       /\ inner[t] # None => pc[t] = "load"

-----------------------------------------------------------------------------
(* Safety *)

\* A key has a registered flight exactly while one call owns it, and never
\* two: the owner's erase by key removes its own registration and no other
\* (get_or_compute, from shard.inflight.emplace to shard.inflight.erase).
SingleFlight ==
  /\ \A t \in Threads : pc[t] \in Owning => inflight[key[t]] = mine[t]
  /\ \A t, u \in Threads :
       pc[t] \in Owning /\ pc[u] \in Owning /\ key[t] = key[u] => t = u
  /\ \A k \in Keys : inflight[k] # None =>
       \E t \in Threads : pc[t] \in Owning /\ key[t] = k

\* Whoever waits on a promise that is not set waits for a call, on the same
\* key, that still has it to set: no future is abandoned, whichever way the
\* loader ended (set_value and set_exception before the erase).
WaiterHasOwner ==
  \A t \in Threads :
    pc[t] = "wait" /\ promise[mine[t]] = "pending" =>
      \E u \in Threads :
        /\ pc[u] \in Loading \cup {"publish", "fail"}
        /\ mine[u] = mine[t] /\ key[u] = key[t]

\* What the collapsing is for, and RequestCollapsingPreventsThunderingHerd of
\* tests/cache_tests.cpp counts: the loader of a key runs again only because
\* a run threw or the entry it left was lost since (the second look-up under
\* the lock, set before inflight.erase).
LoadsAreAccounted ==
  \A k \in Storable : loads[k] <= 1 + failures[k] + losses[k]

\* A call never shares a flight whose owner had returned before the call
\* began: a thrown or deleted result is not handed to later callers.
NoLandedFlightIsShared ==
  \A t \in Threads : pc[t] = "wait" => mine[t] \notin before[t]

\* t goes on only after u has: its loader has called u, or u is to set the
\* promise that t waits on.
Awaits(t, u) ==
  \/ inner[t] = u
  \/ /\ pc[t] = "wait" /\ promise[mine[t]] = "pending"
     /\ pc[u] \in Owning /\ mine[u] = mine[t]

\* No loader needs, through others, its own key.
Layered ==
  \E depth \in [Keys -> 0 .. Cardinality(Keys)] :
    \A k \in Keys : \A j \in Needs[k] : depth[j] < depth[k]

\* No future is abandoned, and loaders that call the cache back do not make a
\* ring of calls that wait for each other, unless the keys themselves need each
\* other: among any calls one waits for none of them (set_value, set_exception,
\* loader() and future.get() in get_or_compute).
NobodyWaitsInVain ==
  /\ WaiterHasOwner
  /\ Layered => \A T \in (SUBSET Threads) \ {{}} : \E t \in T : \A u \in T : ~Awaits(t, u)

-----------------------------------------------------------------------------
(* Liveness *)

\* Every call returns, the waiters and the calls inside loaders as well, when
\* loaders end either way.
EveryCallReturns == \A t \in Threads : pc[t] # "idle" ~> pc[t] = "idle"
=============================================================================
