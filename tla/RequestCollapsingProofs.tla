----------------------- MODULE RequestCollapsingProofs -----------------------
(***************************************************************************)
(* For any keys, threads and flights: get_or_compute runs one loader per   *)
(* key at a time, leaves no waiter without an owner, hands no finished     *)
(* flight to a later call, and runs no loader without a reason.            *)
(*                                                                         *)
(* The proof needs to know of every flight who can point at it.  A new one *)
(* is pointed at by no one (FreshIsUnknown), one that is registered is     *)
(* registered once (FlightsAreDistinct) and has not landed                 *)
(* (RegisteredIsAloft), and an owner on its way to the erase has set its   *)
(* promise (ErasersHavePublished).  Loads are counted against what         *)
(* excuses them, with one more while a loader runs (LoadsAreExcused).      *)
(* That waits make no ring needs what a loader may wait for                *)
(* (InnerIsNeeded); the call of the lowest rank can go on.                 *)
(***************************************************************************)
EXTENDS RequestCollapsing, InductionLemmas

\* No one knows a flight that has not been made.
FreshIsUnknown ==
  \A f \in Flights : promise[f] = "unused" =>
    /\ f \notin landed
    /\ \A k \in Keys : inflight[k] # f
    /\ \A t \in Threads : mine[t] # f

\* A flight is registered for one key.
FlightsAreDistinct ==
  \A j, k \in Keys : inflight[j] = inflight[k] /\ inflight[j] # None => j = k

\* What is registered has not landed, and calls remember landed flights only.
RegisteredIsAloft ==
  /\ \A k \in Keys : inflight[k] \notin landed
  /\ \A t \in Threads : before[t] \subseteq landed

\* The promise is set before the registration is erased.
ErasersHavePublished ==
  \A t \in Threads :
    pc[t] \in {"erase", "fail_erase"} => promise[mine[t]] # "pending"

BeingLoaded(k) == \E t \in Threads : pc[t] \in Loading /\ key[t] = k

\* A run of the loader that is under way, or its entry, accounts for one load.
LoadsAreExcused ==
  \A k \in Storable :
    loads[k] <= failures[k] + losses[k]
                  + (IF BeingLoaded(k) \/ store[k] # None THEN 1 ELSE 0)

\* The call that a loader waits for is under way, and on a key that the
\* loader's key needs.
InnerIsNeeded ==
  \A t \in Threads : inner[t] # None =>
    pc[inner[t]] # "idle" /\ key[inner[t]] \in Needs[key[t]]

\* What the steps of the owner and its waiters keep among themselves.
Flying == /\ FreshIsUnknown /\ FlightsAreDistinct /\ RegisteredIsAloft
          /\ ErasersHavePublished
          /\ SingleFlight /\ WaiterHasOwner /\ NoLandedFlightIsShared

\* The inductive invariant.
IInv == TypeOK /\ Flying /\ InnerIsNeeded /\ LoadsAreExcused

-----------------------------------------------------------------------------
\* Before any call the cache is empty and every flight unused.
LEMMA InitIInv == Init => IInv
<1> SUFFICES ASSUME Init PROVE IInv
  OBVIOUS
<1> USE ConstantsOK DEF Init
<1>1. TypeOK
  BY DEF TypeOK, Owning, Loading
<1>2. Flying
  BY DEF Flying, FreshIsUnknown, FlightsAreDistinct, RegisteredIsAloft,
         ErasersHavePublished, SingleFlight, WaiterHasOwner, NoLandedFlightIsShared,
         Owning, Loading
<1>3. LoadsAreExcused
  BY DEF LoadsAreExcused
<1>4. InnerIsNeeded
  BY DEF InnerIsNeeded
<1> QED BY <1>1, <1>2, <1>3, <1>4 DEF IInv

\* Every step of a call, and of the other clients, keeps the types.
LEMMA TypeKept == TypeOK /\ [Next]_vars => TypeOK'
<1> SUFFICES ASSUME TypeOK, [Next]_vars PROVE TypeOK'
  OBVIOUS
<1> USE ConstantsOK DEF TypeOK, history, Goto, Finish, Owning, Loading
<1>1. ASSUME NEW t \in Threads, Call(t) PROVE TypeOK'
  BY <1>1 DEF Call, Begin
<1>0. ASSUME NEW t \in Threads, CallInside(t) PROVE TypeOK'
  BY <1>0 DEF CallInside, Begin
<1>2. ASSUME NEW t \in Threads, GetHit(t) PROVE TypeOK'
  BY <1>2 DEF GetHit
<1>3. ASSUME NEW t \in Threads, GetMiss(t) PROVE TypeOK'
  BY <1>3 DEF GetMiss
<1>4. ASSUME NEW t \in Threads, JoinHit(t) PROVE TypeOK'
  BY <1>4 DEF JoinHit, StillMissing, Unregistered
<1>5. ASSUME NEW t \in Threads, JoinFlight(t) PROVE TypeOK'
  BY <1>5 DEF JoinFlight, StillMissing, Unregistered
<1>6. ASSUME NEW t \in Threads, JoinAsOwner(t) PROVE TypeOK'
  BY <1>6 DEF JoinAsOwner, StillMissing, Unregistered
<1>7. ASSUME NEW t \in Threads, LoaderReturns(t) PROVE TypeOK'
  BY <1>7 DEF LoaderReturns
<1>8. ASSUME NEW t \in Threads, LoaderThrows(t) PROVE TypeOK'
  BY <1>8 DEF LoaderThrows
<1>9. ASSUME NEW t \in Threads, Store(t) PROVE TypeOK'
  BY <1>9 DEF Store
<1>10. ASSUME NEW t \in Threads, Publish(t) PROVE TypeOK'
  BY <1>10 DEF Publish
<1>11. ASSUME NEW t \in Threads, PublishError(t) PROVE TypeOK'
  BY <1>11 DEF PublishError
<1>12. ASSUME NEW t \in Threads, Erase(t) PROVE TypeOK'
  BY <1>12 DEF Erase
<1>13. ASSUME NEW t \in Threads, Wake(t) PROVE TypeOK'
  BY <1>13 DEF Wake
<1>14. ASSUME NEW t \in Threads, Return(t) PROVE TypeOK'
  BY <1>14 DEF Return
<1>15. ASSUME NEW k \in Keys, Lose(k) PROVE TypeOK'
  BY <1>15 DEF Lose
<1>16. ASSUME NEW k \in Keys, SetByOther(k) PROVE TypeOK'
  BY <1>16 DEF SetByOther
<1>17. CASE UNCHANGED vars
  BY <1>17 DEF vars
<1> QED
  BY <1>0, <1>1, <1>2, <1>3, <1>4, <1>5, <1>6, <1>7, <1>8, <1>9, <1>10, <1>11, <1>12,
     <1>13, <1>14, <1>15, <1>16, <1>17 DEF Next, Work

-----------------------------------------------------------------------------
(* Flights *)

\* A step that leaves flights and their registrations alone, and makes no one
\* an owner or a waiter, keeps what is known of them: a hit, a miss, the end of
\* the loader, the store, a return, and the other clients.
LEMMA QuietKeepsFlying ==
  ASSUME IInv,
         UNCHANGED <<inflight, promise, landed>>,
         \A t \in Threads :
           /\ mine'[t] \in {mine[t], None}
           /\ before'[t] \subseteq landed
           /\ pc[t] \in Owning <=> pc'[t] \in Owning
           /\ pc[t] \in Loading \cup {"publish", "fail"} =>
                pc'[t] \in Loading \cup {"publish", "fail"}
           /\ pc'[t] \in {"erase", "fail_erase"} => pc[t] = pc'[t]
           /\ pc'[t] = "wait" => pc[t] = "wait"
           /\ pc'[t] \in Owning \cup {"wait"} =>
                mine'[t] = mine[t] /\ key'[t] = key[t] /\ before'[t] = before[t]
  PROVE  Flying'
<1> USE ConstantsOK DEF IInv, TypeOK, Flying
<1>1. FreshIsUnknown'
  BY DEF FreshIsUnknown
<1>2. FlightsAreDistinct'
  BY DEF FlightsAreDistinct
<1>3. RegisteredIsAloft'
  BY DEF RegisteredIsAloft
<1>4. ErasersHavePublished'
  BY DEF ErasersHavePublished, Owning, Loading
<1>5. SingleFlight'
  BY DEF SingleFlight, Owning, Loading
<1>6. WaiterHasOwner'
  BY DEF WaiterHasOwner, Owning, Loading
<1>7. NoLandedFlightIsShared'
  BY DEF NoLandedFlightIsShared
<1> QED BY <1>1, <1>2, <1>3, <1>4, <1>5, <1>6, <1>7

\* The steps that are quiet in this sense.
LEMMA QuietStepsKeepFlying ==
  ASSUME IInv,
         \/ \E t \in Threads :
              \/ Call(t) \/ CallInside(t) \/ GetHit(t) \/ GetMiss(t) \/ JoinHit(t)
              \/ LoaderReturns(t) \/ LoaderThrows(t) \/ Store(t) \/ Wake(t) \/ Return(t)
         \/ \E k \in Keys : Lose(k) \/ SetByOther(k)
         \/ UNCHANGED vars
  PROVE  Flying'
<1> USE DEF IInv, TypeOK, Flying, RegisteredIsAloft, history, Goto, Finish, Owning, Loading
<1>0. ASSUME NEW t \in Threads, NEW k \in Keys, Begin(t, k) PROVE Flying'
  BY <1>0, QuietKeepsFlying DEF Begin
<1>1. ASSUME NEW t \in Threads, Call(t) \/ CallInside(t) PROVE Flying'
  BY <1>1, <1>0, ConstantsOK DEF Call, CallInside
<1>2. ASSUME NEW t \in Threads, GetHit(t) PROVE Flying'
  BY <1>2, QuietKeepsFlying DEF GetHit
<1>3. ASSUME NEW t \in Threads, GetMiss(t) PROVE Flying'
  BY <1>3, QuietKeepsFlying DEF GetMiss
<1>4. ASSUME NEW t \in Threads, JoinHit(t) PROVE Flying'
  BY <1>4, QuietKeepsFlying DEF JoinHit, StillMissing
<1>5. ASSUME NEW t \in Threads, LoaderReturns(t) PROVE Flying'
  BY <1>5, QuietKeepsFlying DEF LoaderReturns
<1>6. ASSUME NEW t \in Threads, LoaderThrows(t) PROVE Flying'
  BY <1>6, QuietKeepsFlying DEF LoaderThrows
<1>7. ASSUME NEW t \in Threads, Store(t) PROVE Flying'
  BY <1>7, QuietKeepsFlying DEF Store
<1>8. ASSUME NEW t \in Threads, Wake(t) PROVE Flying'
  BY <1>8, QuietKeepsFlying DEF Wake
<1>9. ASSUME NEW t \in Threads, Return(t) PROVE Flying'
  BY <1>9, QuietKeepsFlying DEF Return
<1>10. ASSUME NEW k \in Keys, Lose(k) \/ SetByOther(k) PROVE Flying'
  BY <1>10, QuietKeepsFlying DEF Lose, SetByOther
<1>11. CASE UNCHANGED vars
  BY <1>11, QuietKeepsFlying DEF vars
<1> QED BY <1>1, <1>2, <1>3, <1>4, <1>5, <1>6, <1>7, <1>8, <1>9, <1>10, <1>11

\* A thread finds a flight registered and waits on it: its owner has not landed
\* and, if the promise is not set, is still to set it.
LEMMA JoinFlightKeepsFlying ==
  ASSUME IInv, NEW t \in Threads, JoinFlight(t) PROVE Flying'
<1> USE ConstantsOK DEF IInv, TypeOK, Flying, history, Goto, Finish, Owning, Loading,
           StillMissing, Unregistered
<1>1. FreshIsUnknown'
  BY DEF JoinFlight, FreshIsUnknown
<1>2. FlightsAreDistinct'
  BY DEF JoinFlight, FlightsAreDistinct
<1>3. RegisteredIsAloft'
  BY DEF JoinFlight, RegisteredIsAloft
<1>4. ErasersHavePublished'
  BY DEF JoinFlight, ErasersHavePublished
<1>5. SingleFlight'
  BY DEF JoinFlight, SingleFlight
<1>6. WaiterHasOwner'
  BY DEF JoinFlight, WaiterHasOwner, SingleFlight, ErasersHavePublished
<1>7. NoLandedFlightIsShared'
  BY DEF JoinFlight, NoLandedFlightIsShared, RegisteredIsAloft
<1> QED BY <1>1, <1>2, <1>3, <1>4, <1>5, <1>6, <1>7

\* A thread finds none and registers a new flight, which no one knew.
LEMMA JoinAsOwnerKeepsFlying ==
  ASSUME IInv, NEW t \in Threads, JoinAsOwner(t) PROVE Flying'
<1> USE ConstantsOK DEF IInv, TypeOK, Flying, history, Goto, Finish, Owning, Loading,
           StillMissing, Unregistered
<1>1. FreshIsUnknown'
  BY DEF JoinAsOwner, FreshIsUnknown
<1>2. FlightsAreDistinct'
  BY DEF JoinAsOwner, FlightsAreDistinct, FreshIsUnknown
<1>3. RegisteredIsAloft'
  BY DEF JoinAsOwner, RegisteredIsAloft, FreshIsUnknown
<1>4. ErasersHavePublished'
  BY DEF JoinAsOwner, ErasersHavePublished, FreshIsUnknown
<1>5. SingleFlight'
  BY DEF JoinAsOwner, SingleFlight
<1>6. WaiterHasOwner'
  BY DEF JoinAsOwner, WaiterHasOwner, FreshIsUnknown
<1>7. NoLandedFlightIsShared'
  BY DEF JoinAsOwner, NoLandedFlightIsShared
<1> QED BY <1>1, <1>2, <1>3, <1>4, <1>5, <1>6, <1>7

\* The owner sets the promise, to a value or to the loader's exception: its
\* waiters wait on nothing pending.
LEMMA PublishKeepsFlying ==
  ASSUME IInv, NEW t \in Threads, Publish(t) \/ PublishError(t) PROVE Flying'
<1> USE ConstantsOK DEF IInv, TypeOK, Flying, history, Goto, Finish, Owning, Loading
<1>1. FreshIsUnknown'
  BY DEF Publish, PublishError, FreshIsUnknown
<1>2. FlightsAreDistinct'
  BY DEF Publish, PublishError, FlightsAreDistinct
<1>3. RegisteredIsAloft'
  BY DEF Publish, PublishError, RegisteredIsAloft
<1>4. ErasersHavePublished'
  BY DEF Publish, PublishError, ErasersHavePublished
<1>5. SingleFlight'
  <2>1. PICK next \in {"erase", "fail_erase"} : pc' = [pc EXCEPT ![t] = next]
    BY DEF Publish, PublishError
  <2>2. UNCHANGED <<key, mine, inflight>> /\ pc[t] \in {"publish", "fail"}
    BY DEF Publish, PublishError
  <2>3. \A u \in Threads : pc'[u] \in Owning <=> pc[u] \in Owning
    BY <2>1, <2>2
  <2>4. SingleFlight
    OBVIOUS
  <2> QED BY <2>2, <2>3, <2>4 DEF SingleFlight
<1>6. WaiterHasOwner'
  BY DEF Publish, PublishError, WaiterHasOwner
<1>7. NoLandedFlightIsShared'
  BY DEF Publish, PublishError, NoLandedFlightIsShared
<1> QED BY <1>1, <1>2, <1>3, <1>4, <1>5, <1>6, <1>7

\* The owner erases its registration, which is the only one of its flight.
LEMMA EraseKeepsFlying ==
  ASSUME IInv, NEW t \in Threads, Erase(t) PROVE Flying'
<1> USE ConstantsOK DEF IInv, TypeOK, Flying, history, Goto, Finish, Owning, Loading
<1>1. FreshIsUnknown'
  BY DEF Erase, FreshIsUnknown, ErasersHavePublished
<1>2. FlightsAreDistinct'
  BY DEF Erase, FlightsAreDistinct
<1>3. RegisteredIsAloft'
  BY DEF Erase, RegisteredIsAloft, SingleFlight, FlightsAreDistinct
<1>4. ErasersHavePublished'
  BY DEF Erase, ErasersHavePublished
<1>5. SingleFlight'
  BY DEF Erase, SingleFlight
<1>6. WaiterHasOwner'
  BY DEF Erase, WaiterHasOwner, ErasersHavePublished
<1>7. NoLandedFlightIsShared'
  BY DEF Erase, NoLandedFlightIsShared
<1> QED BY <1>1, <1>2, <1>3, <1>4, <1>5, <1>6, <1>7

-----------------------------------------------------------------------------
(* Loads *)

\* A load begins only for a key without entry and owner, and from then on the
\* loader at work, the entry it leaves, its failure or the entry's loss
\* excuses it.
LEMMA LoadsKept ==
  ASSUME IInv, [Next]_vars PROVE LoadsAreExcused'
<1> USE ConstantsOK DEF IInv, TypeOK, LoadsAreExcused, BeingLoaded, Goto, Finish, Loading
<1>1. ASSUME NEW t \in Threads, Call(t) \/ CallInside(t) PROVE LoadsAreExcused'
  BY <1>1 DEF Call, CallInside, Begin
<1>11. ASSUME NEW t \in Threads, Return(t) PROVE LoadsAreExcused'
  BY <1>11 DEF Return
<1>2. ASSUME NEW t \in Threads, GetHit(t) \/ GetMiss(t) \/ JoinHit(t) \/ Wake(t)
      PROVE  LoadsAreExcused'
  BY <1>2 DEF GetHit, GetMiss, JoinHit, Wake, history
<1>3. ASSUME NEW t \in Threads, JoinFlight(t) PROVE LoadsAreExcused'
  BY <1>3 DEF JoinFlight, history
<1>4. ASSUME NEW t \in Threads, JoinAsOwner(t) PROVE LoadsAreExcused'
  BY <1>4 DEF JoinAsOwner, StillMissing, Unregistered, Flying, SingleFlight, Owning, history
<1>5. ASSUME NEW t \in Threads, LoaderReturns(t) PROVE LoadsAreExcused'
  BY <1>5 DEF LoaderReturns, history
<1>6. ASSUME NEW t \in Threads, LoaderThrows(t) PROVE LoadsAreExcused'
  BY <1>6 DEF LoaderThrows, Flying, SingleFlight, Owning, history
<1>7. ASSUME NEW t \in Threads, Store(t) PROVE LoadsAreExcused'
  BY <1>7 DEF Store, history
<1>8. ASSUME NEW t \in Threads, Publish(t) \/ PublishError(t) \/ Erase(t)
      PROVE  LoadsAreExcused'
  BY <1>8 DEF Publish, PublishError, Erase, history
<1>9. ASSUME NEW k \in Keys, Lose(k) \/ SetByOther(k) PROVE LoadsAreExcused'
  BY <1>9 DEF Lose, SetByOther, history
<1>10. CASE UNCHANGED vars
  BY <1>10 DEF vars
<1> QED
  BY <1>1, <1>2, <1>3, <1>4, <1>5, <1>6, <1>7, <1>8, <1>9, <1>10, <1>11 DEF Next, Work

-----------------------------------------------------------------------------
(* Rings *)

\* Loaders ask for the keys they need only, and the call they wait for keeps
\* its key until it returns to them.
LEMMA InnerKept ==
  ASSUME IInv, [Next]_vars PROVE InnerIsNeeded'
<1> USE ConstantsOK DEF IInv, TypeOK, InnerIsNeeded, Goto, Finish, Owning, Loading
<1>1. ASSUME NEW t \in Threads, Call(t) PROVE InnerIsNeeded'
  BY <1>1 DEF Call, Begin
<1>2. ASSUME NEW t \in Threads, CallInside(t) PROVE InnerIsNeeded'
  BY <1>2 DEF CallInside, Begin
<1>3. ASSUME NEW t \in Threads, Return(t) PROVE InnerIsNeeded'
  BY <1>3 DEF Return
<1>4. ASSUME NEW t \in Threads,
             \/ GetHit(t) \/ GetMiss(t) \/ JoinHit(t) \/ JoinFlight(t) \/ JoinAsOwner(t)
             \/ LoaderReturns(t) \/ LoaderThrows(t) \/ Store(t) \/ Publish(t)
             \/ PublishError(t) \/ Erase(t) \/ Wake(t)
      PROVE  InnerIsNeeded'
  <2>1. UNCHANGED <<key, inner>>
    BY <1>4 DEF GetHit, GetMiss, JoinHit, JoinFlight, JoinAsOwner, LoaderReturns,
                LoaderThrows, Store, Publish, PublishError, Erase, Wake
  <2>2. \A u \in Threads : pc[u] # "idle" => pc'[u] # "idle"
    BY <1>4 DEF GetHit, GetMiss, JoinHit, JoinFlight, JoinAsOwner, LoaderReturns,
                LoaderThrows, Store, Publish, PublishError, Erase, Wake
  <2> QED BY <2>1, <2>2
<1>5. ASSUME NEW k \in Keys, Lose(k) \/ SetByOther(k) PROVE InnerIsNeeded'
  BY <1>5 DEF Lose, SetByOther
<1>6. CASE UNCHANGED vars
  BY <1>6 DEF vars
<1> QED BY <1>1, <1>2, <1>3, <1>4, <1>5, <1>6 DEF Next, Work

\* Of two calls that share a flight one is on the other's key.
LEMMA WaiterSharesTheKey ==
  ASSUME IInv, NEW t \in Threads, NEW u \in Threads,
         pc[t] = "wait", promise[mine[t]] = "pending", pc[u] \in Owning, mine[u] = mine[t]
  PROVE  key[u] = key[t]
<1> USE DEF IInv, TypeOK, Flying
<1>1. PICK o \in Threads : /\ pc[o] \in Loading \cup {"publish", "fail"}
                           /\ mine[o] = mine[t] /\ key[o] = key[t]
  BY DEF WaiterHasOwner
<1>2. inflight[key[o]] = mine[o] /\ inflight[key[u]] = mine[u]
  BY <1>1 DEF SingleFlight, Owning
<1>3. key[o] \in Keys /\ key[u] \in Keys /\ mine[t] # None
  BY <1>1, ConstantsOK DEF Owning, Loading
<1> QED BY <1>1, <1>2, <1>3 DEF FlightsAreDistinct

\* With keys in layers, a call waits only for calls of lower rank: a waiter for
\* the owner on its layer, a loader for calls on layers below.
LEMMA NoRing ==
  ASSUME IInv, Layered, NEW T \in SUBSET Threads, T # {}
  PROVE  \E t \in T : \A u \in T : ~Awaits(t, u)
<1>1. PICK depth \in [Keys -> 0 .. Cardinality(Keys)] :
        \A k \in Keys : \A j \in Needs[k] : depth[j] < depth[k]
  BY DEF Layered
<1> DEFINE layer(t) == IF key[t] \in Keys THEN depth[key[t]] ELSE 0
           rank(t) == 2 * layer(t) + (IF pc[t] = "wait" THEN 1 ELSE 0)
<1>2. \A t \in Threads : layer(t) \in Nat /\ rank(t) \in Nat
  BY <1>1
<1>3. ASSUME NEW t \in Threads, NEW u \in Threads, Awaits(t, u) PROVE rank(u) < rank(t)
  <2>1. CASE inner[t] = u
    <3>1. pc[t] = "load" /\ key[t] \in Keys /\ key[u] \in Needs[key[t]]
      BY <2>1, ConstantsOK DEF IInv, TypeOK, InnerIsNeeded, Owning, Loading
    <3>2. key[u] \in Keys /\ depth[key[u]] < depth[key[t]]
      BY <3>1, <1>1, ConstantsOK
    <3> QED BY <3>1, <3>2, <1>1, <1>2
  <2>2. CASE /\ pc[t] = "wait" /\ promise[mine[t]] = "pending"
             /\ pc[u] \in Owning /\ mine[u] = mine[t]
    <3>1. key[u] = key[t]
      BY <2>2, WaiterSharesTheKey
    <3>2. pc[u] # "wait"
      BY <2>2 DEF Owning, Loading
    <3> QED BY <2>2, <3>1, <3>2, <1>2
  <2> QED BY <1>3, <2>1, <2>2 DEF Awaits
<1> HIDE DEF rank
<1>4. PICK t \in T : \A u \in T : rank(t) <= rank(u)
  <2> DEFINE R == {rank(u) : u \in T}
  <2>1. R \in SUBSET Nat /\ R # {}
    BY <1>2
  <2>2. \E m \in R : \A n \in R : m <= n
    <3> HIDE DEF R
    <3> QED BY <2>1, LeastExists
  <2> QED BY <2>2
<1> QED BY <1>2, <1>3, <1>4

-----------------------------------------------------------------------------
\* Every step keeps the invariant.
LEMMA NextKeepsIInv == IInv /\ [Next]_vars => IInv'
<1> SUFFICES ASSUME IInv, [Next]_vars PROVE IInv'
  OBVIOUS
<1>1. TypeOK'
  BY TypeKept DEF IInv
<1>2. Flying'
  BY QuietStepsKeepFlying, JoinFlightKeepsFlying, JoinAsOwnerKeepsFlying,
     PublishKeepsFlying, EraseKeepsFlying DEF Next, Work
<1>3. LoadsAreExcused' /\ InnerIsNeeded'
  BY LoadsKept, InnerKept
<1> QED BY <1>1, <1>2, <1>3 DEF IInv

\* The reachable states have their types, no key is loaded twice at once, no
\* waiter is abandoned, no finished flight is handed to a later call, and every
\* load of a storable key but the first is excused by a failure or a loss.
THEOREM CollapsingIsSound ==
  Spec => [](TypeOK /\ SingleFlight /\ WaiterHasOwner /\ NoLandedFlightIsShared
               /\ LoadsAreAccounted)
<1>1. IInv => TypeOK /\ SingleFlight /\ WaiterHasOwner /\ NoLandedFlightIsShared
                /\ LoadsAreAccounted
  <2> SUFFICES ASSUME IInv PROVE LoadsAreAccounted
    BY DEF IInv, Flying
  <2> QED BY ConstantsOK DEF IInv, TypeOK, LoadsAreExcused, LoadsAreAccounted
<1> QED BY InitIInv, NextKeepsIInv, <1>1, PTL DEF Spec

\* Whatever calls wait: no future is abandoned, and where no key needs itself
\* the waits make no ring, so that among any calls one can go on.
THEOREM NoCallWaitsInVain == Spec => []NobodyWaitsInVain
<1>1. IInv => NobodyWaitsInVain
  BY NoRing DEF NobodyWaitsInVain, IInv, Flying
<1> QED BY InitIInv, NextKeepsIInv, <1>1, PTL DEF Spec
=============================================================================
