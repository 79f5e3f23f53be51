--------------------------- MODULE BundlesProofs ---------------------------
(***************************************************************************)
(* Proofs about ServiceRegistry, for every set of users, bundles and       *)
(* callers.  The safety properties need each other: the deferred delete by *)
(* user id is right because a bundle that has returned is still the one in *)
(* the map, the WaitGroup is right because a bundle is counted once, and   *)
(* DrainAll is right because the WaitGroup is.  Then about Supervisor, the *)
(* bundle that MCBundles runs beside it, for any services and any tuning.  *)
(***************************************************************************)
EXTENDS MCBundles, FiniteSetTheorems, WellFoundedInduction, TLAPS

\* A bundle that has been inserted and not counted is in the hands of the one
\* Spawn that inserted it (registry.go:174-177).
PendingInserted ==
  /\ \A c \in Callers : caller[c] # None => life[caller[c]] = "inserted"
  /\ boot.bundle # None => life[boot.bundle] = "inserted"

PendingDistinct ==
  \A c \in Callers : caller[c] # None =>
    /\ caller[c] # boot.bundle
    /\ \A d \in Callers : caller[c] = caller[d] => c = d

OwnersKnown == \A b \in Bundles : life[b] = "unused" \/ owner[b] \in Users

\* What DrainAll waits for was counted when it began and stays so to its end.
CoveredCounted == \A b \in covered : life[b] \in Counted \union {"gone"}

\* The inductive invariant.
Inv ==
  /\ TypeOK
  /\ OwnersKnown
  /\ PendingInserted
  /\ PendingDistinct
  /\ AliveIsReachable
  /\ WaitGroupCounts
  /\ CoveredCounted
  /\ DrainNilCoversCounted

CountedBundles == {b \in Bundles : life[b] \in Counted}

-------------------------------------------------------------------------------
(* The WaitGroup.                                                          *)

LEMMA CountedFinite ==
  IsFiniteSet(CountedBundles) /\ Cardinality(CountedBundles) \in Nat
<1>1. CountedBundles \in SUBSET Bundles
  BY DEF CountedBundles
<1>2. QED
  BY <1>1, BundlesAssumption, FS_Subset, FS_CardinalityType

\* A step that counts no bundle in or out leaves wg right.
LEMMA WaitGroupKept ==
  ASSUME WaitGroupCounts, UNCHANGED wg,
         \A b \in Bundles : life'[b] \in Counted <=> life[b] \in Counted
  PROVE  WaitGroupCounts'
<1>1. CountedBundles' = CountedBundles
  BY DEF CountedBundles
<1>2. QED
  BY <1>1 DEF WaitGroupCounts, CountedBundles

\* wg.Add(1) before the goroutine (registry.go:177).
LEMMA WaitGroupAdd ==
  ASSUME TypeOK, WaitGroupCounts, NEW b \in Bundles, life[b] = "inserted", Count(b)
  PROVE  WaitGroupCounts'
<1>1. CountedBundles' = CountedBundles \union {b}
  BY DEF Count, Counted, CountedBundles, TypeOK
<1>2. b \notin CountedBundles
  BY DEF Counted, CountedBundles
<1>3. Cardinality(CountedBundles') = Cardinality(CountedBundles) + 1
  BY <1>1, <1>2, CountedFinite, FS_AddElement
<1>4. QED
  BY <1>3 DEF WaitGroupCounts, CountedBundles, Count

\* wg.Done in the deferred function (registry.go:179).
LEMMA WaitGroupDone ==
  ASSUME TypeOK, WaitGroupCounts, NEW b \in Bundles, Done(b)
  PROVE  WaitGroupCounts' /\ wg' \in Nat
<1>1. CountedBundles' = CountedBundles \ {b}
  BY DEF Done, Counted, CountedBundles, TypeOK
<1>2. b \in CountedBundles
  BY DEF Done, Counted, CountedBundles
<1>3. Cardinality(CountedBundles') = Cardinality(CountedBundles) - 1
  BY <1>1, <1>2, CountedFinite, FS_RemoveElement
<1>4. IsFiniteSet(CountedBundles') /\ Cardinality(CountedBundles') \in Nat
  BY <1>1, CountedFinite, FS_RemoveElement, FS_CardinalityType
<1>5. wg' = Cardinality(CountedBundles')
  BY <1>3 DEF WaitGroupCounts, CountedBundles, Done
<1>6. QED
  BY <1>4, <1>5 DEF WaitGroupCounts, CountedBundles

\* wg.Wait returns when nothing is counted any more.
LEMMA ZeroMeansGone ==
  ASSUME WaitGroupCounts, wg = 0, NEW b \in Bundles
  PROVE  life[b] \notin Counted
<1>1. CountedBundles = {}
  BY CountedFinite, FS_EmptySet DEF WaitGroupCounts, CountedBundles
<1>2. QED
  BY <1>1 DEF CountedBundles

-------------------------------------------------------------------------------
(* The steps of Spawn.                                                     *)

\* Spawn up to the unlock, by whom ever: what it leaves of the invariant that
\* does not depend on who holds the bundle.
LEMMA InsertStep ==
  ASSUME Inv, NEW u \in Users, NEW b \in Bundles \union {None}, Insert(u, b),
         UNCHANGED <<cancelled, wg, drain, covered>>
  PROVE  /\ bundles' \in [Users -> Bundles \union {None}]
         /\ life' \in [Bundles -> Lives] /\ owner' \in [Bundles -> Users \union {None}]
         /\ OwnersKnown' /\ AliveIsReachable' /\ WaitGroupCounts'
         /\ CoveredCounted' /\ DrainNilCoversCounted'
         /\ \A d \in Bundles : life[d] = "inserted" => life'[d] = "inserted" /\ d # b
         /\ b # None => b \in Bundles /\ life'[b] = "inserted"
<1> USE NoneAssumption
<1>1. CASE b = None
  <2>1. UNCHANGED <<bundles, life, owner>>
    BY <1>1 DEF Insert
  <2>2. WaitGroupCounts'
    BY <2>1, WaitGroupKept DEF Inv
  <2>3. QED
    BY <1>1, <2>1, <2>2 DEF Inv, TypeOK, OwnersKnown, AliveIsReachable,
       CoveredCounted, DrainNilCoversCounted
<1>2. CASE b # None
  <2>1. /\ bundles[u] = None /\ b \in Bundles /\ life[b] = "unused"
        /\ bundles' = [bundles EXCEPT ![u] = b]
        /\ life' = [life EXCEPT ![b] = "inserted"]
        /\ owner' = [owner EXCEPT ![b] = u]
    BY <1>2 DEF Insert
  <2>2. TypeOK
    BY DEF Inv
  <2>3. /\ bundles' \in [Users -> Bundles \union {None}]
        /\ life' \in [Bundles -> Lives] /\ owner' \in [Bundles -> Users \union {None}]
    BY <2>1, <2>2 DEF TypeOK, Lives
  <2>4. OwnersKnown'
    BY <2>1, <2>2 DEF Inv, OwnersKnown, TypeOK
  <2>5. AliveIsReachable'
    BY <2>1, <2>2 DEF Inv, AliveIsReachable, OwnersKnown, Alive, TypeOK
  <2>6. WaitGroupCounts'
    <3>1. \A d \in Bundles : life'[d] \in Counted <=> life[d] \in Counted
      BY <2>1, <2>2 DEF TypeOK, Counted
    <3>2. QED
      BY <3>1, WaitGroupKept DEF Inv
  <2>7. CoveredCounted' /\ DrainNilCoversCounted'
    BY <2>1, <2>2 DEF Inv, TypeOK, CoveredCounted, DrainNilCoversCounted, Counted
  <2>8. QED
    BY <2>1, <2>2, <2>3, <2>4, <2>5, <2>6, <2>7 DEF TypeOK
<1>3. QED
  BY <1>1, <1>2

\* The rest of Spawn.
LEMMA CountStep ==
  ASSUME Inv, NEW b \in Bundles, life[b] = "inserted", Count(b),
         UNCHANGED <<bundles, owner, cancelled, drain, covered>>
  PROVE  /\ life' \in [Bundles -> Lives] /\ wg' \in Nat
         /\ OwnersKnown' /\ AliveIsReachable' /\ WaitGroupCounts'
         /\ CoveredCounted' /\ DrainNilCoversCounted'
         /\ \A d \in Bundles : life[d] = "inserted" /\ d # b => life'[d] = "inserted"
<1>1. TypeOK /\ life' = [life EXCEPT ![b] = "running"] /\ wg' = wg + 1
  BY DEF Inv, Count
<1>2. life' \in [Bundles -> Lives] /\ wg' \in Nat
  BY <1>1 DEF TypeOK, Lives
<1>3. OwnersKnown' /\ AliveIsReachable'
  BY <1>1 DEF Inv, TypeOK, OwnersKnown, AliveIsReachable, Alive
<1>4. WaitGroupCounts'
  BY WaitGroupAdd DEF Inv
<1>5. CoveredCounted' /\ DrainNilCoversCounted'
  BY <1>1 DEF Inv, TypeOK, CoveredCounted, DrainNilCoversCounted, Counted
<1>6. QED
  BY <1>1, <1>2, <1>3, <1>4, <1>5 DEF TypeOK

-------------------------------------------------------------------------------
(* Every step preserves the invariant.                                     *)

LEMMA InvStep == Inv /\ [Next]_vars => Inv'
<1> SUFFICES ASSUME Inv, [Next]_vars PROVE Inv'
  OBVIOUS
<1> USE NoneAssumption
<1>0. TypeOK
  BY DEF Inv
<1>1. ASSUME NEW c \in Callers, NEW u \in Users, CallerSpawns(c, u) PROVE Inv'
  <2>1. PICK b \in Bundles \union {None} :
          Insert(u, b) /\ caller' = [caller EXCEPT ![c] = b]
    BY <1>1 DEF CallerSpawns
  <2>2. UNCHANGED <<cancelled, wg, boot, drain, covered>> /\ caller[c] = None
    BY <1>1 DEF CallerSpawns
  <2>3. /\ bundles' \in [Users -> Bundles \union {None}]
        /\ life' \in [Bundles -> Lives] /\ owner' \in [Bundles -> Users \union {None}]
        /\ OwnersKnown' /\ AliveIsReachable' /\ WaitGroupCounts'
        /\ CoveredCounted' /\ DrainNilCoversCounted'
        /\ \A d \in Bundles : life[d] = "inserted" => life'[d] = "inserted" /\ d # b
        /\ b # None => b \in Bundles /\ life'[b] = "inserted"
    BY <2>1, <2>2, InsertStep
  <2>4. TypeOK'
    BY <1>0, <2>1, <2>2, <2>3 DEF TypeOK
  <2>5. PendingInserted' /\ PendingDistinct'
    BY <1>0, <2>1, <2>2, <2>3 DEF Inv, TypeOK, PendingInserted, PendingDistinct
  <2>6. QED
    BY <2>3, <2>4, <2>5 DEF Inv
<1>2. ASSUME NEW u \in Users, BootInserts(u) PROVE Inv'
  <2>1. PICK b \in Bundles \union {None} :
          Insert(u, b) /\ boot' = [boot EXCEPT !.todo = @ \ {u}, !.bundle = b]
    BY <1>2 DEF BootInserts
  <2>2. UNCHANGED <<cancelled, wg, caller, drain, covered>> /\ boot.bundle = None
    BY <1>2 DEF BootInserts
  <2>3. /\ bundles' \in [Users -> Bundles \union {None}]
        /\ life' \in [Bundles -> Lives] /\ owner' \in [Bundles -> Users \union {None}]
        /\ OwnersKnown' /\ AliveIsReachable' /\ WaitGroupCounts'
        /\ CoveredCounted' /\ DrainNilCoversCounted'
        /\ \A d \in Bundles : life[d] = "inserted" => life'[d] = "inserted" /\ d # b
        /\ b # None => b \in Bundles /\ life'[b] = "inserted"
    BY <2>1, <2>2, InsertStep
  <2>4. TypeOK'
    BY <1>0, <2>1, <2>2, <2>3 DEF TypeOK
  <2>5. PendingInserted' /\ PendingDistinct'
    BY <1>0, <2>1, <2>2, <2>3 DEF Inv, TypeOK, PendingInserted, PendingDistinct
  <2>6. QED
    BY <2>3, <2>4, <2>5 DEF Inv
<1>3. ASSUME NEW c \in Callers, CallerCounts(c) PROVE Inv'
  <2>1. /\ caller[c] \in Bundles /\ Count(caller[c]) /\ caller' = [caller EXCEPT ![c] = None]
        /\ UNCHANGED <<bundles, owner, cancelled, boot, drain, covered>>
    BY <1>0, <1>3 DEF CallerCounts, TypeOK
  <2>2. life[caller[c]] = "inserted"
    BY <2>1 DEF Inv, PendingInserted
  <2>3. /\ life' \in [Bundles -> Lives] /\ wg' \in Nat
        /\ OwnersKnown' /\ AliveIsReachable' /\ WaitGroupCounts'
        /\ CoveredCounted' /\ DrainNilCoversCounted'
        /\ \A d \in Bundles : life[d] = "inserted" /\ d # caller[c] => life'[d] = "inserted"
    BY <2>1, <2>2, CountStep
  <2>4. TypeOK'
    BY <1>0, <2>1, <2>3 DEF TypeOK
  <2>5. PendingInserted' /\ PendingDistinct'
    BY <1>0, <2>1, <2>3 DEF Inv, TypeOK, PendingInserted, PendingDistinct
  <2>6. QED
    BY <2>3, <2>4, <2>5 DEF Inv
<1>4. CASE BootCounts
  <2>1. /\ boot.bundle \in Bundles /\ Count(boot.bundle)
        /\ boot' = [boot EXCEPT !.bundle = None]
        /\ UNCHANGED <<bundles, owner, cancelled, caller, drain, covered>>
    BY <1>0, <1>4 DEF BootCounts, TypeOK
  <2>2. life[boot.bundle] = "inserted"
    BY <2>1 DEF Inv, PendingInserted
  <2>3. /\ life' \in [Bundles -> Lives] /\ wg' \in Nat
        /\ OwnersKnown' /\ AliveIsReachable' /\ WaitGroupCounts'
        /\ CoveredCounted' /\ DrainNilCoversCounted'
        /\ \A d \in Bundles : life[d] = "inserted" /\ d # boot.bundle => life'[d] = "inserted"
    BY <2>1, <2>2, CountStep
  <2>4. TypeOK'
    BY <1>0, <2>1, <2>3 DEF TypeOK
  <2>5. PendingInserted' /\ PendingDistinct'
    BY <1>0, <2>1, <2>3 DEF Inv, TypeOK, PendingInserted, PendingDistinct
  <2>6. QED
    BY <2>3, <2>4, <2>5 DEF Inv
<1>5. ASSUME NEW b \in Bundles, RunReturns(b) PROVE Inv'
  <2>1. /\ life[b] = "running" /\ life' = [life EXCEPT ![b] = "returned"]
        /\ UNCHANGED <<bundles, owner, cancelled, wg, boot, caller, drain, covered>>
    BY <1>5 DEF RunReturns
  <2>2. TypeOK'
    BY <1>0, <2>1 DEF TypeOK, Lives
  <2>3. \A d \in Bundles : life'[d] \in Counted <=> life[d] \in Counted
    BY <1>0, <2>1 DEF TypeOK, Counted
  <2>4. WaitGroupCounts'
    BY <2>1, <2>3, WaitGroupKept DEF Inv
  <2>5. OwnersKnown' /\ AliveIsReachable'
    BY <1>0, <2>1 DEF Inv, TypeOK, OwnersKnown, AliveIsReachable, Alive
  <2>6. PendingInserted' /\ PendingDistinct'
    BY <1>0, <2>1 DEF Inv, TypeOK, PendingInserted, PendingDistinct
  <2>7. CoveredCounted' /\ DrainNilCoversCounted'
    BY <1>0, <2>1 DEF Inv, TypeOK, CoveredCounted, DrainNilCoversCounted, Counted
  <2>8. QED
    BY <2>2, <2>4, <2>5, <2>6, <2>7 DEF Inv
<1>6. ASSUME NEW b \in Bundles, Remove(b) PROVE Inv'
  <2>1. /\ life[b] = "returned" /\ life' = [life EXCEPT ![b] = "removed"]
        /\ bundles' = [bundles EXCEPT ![owner[b]] = None]
        /\ UNCHANGED <<owner, cancelled, wg, boot, caller, drain, covered>>
    BY <1>6 DEF Remove
  <2>2. TypeOK'
    BY <1>0, <2>1 DEF TypeOK, Lives
  <2>3. \A d \in Bundles : life'[d] \in Counted <=> life[d] \in Counted
    BY <1>0, <2>1 DEF TypeOK, Counted
  <2>4. WaitGroupCounts'
    BY <2>1, <2>3, WaitGroupKept DEF Inv
  <2>5. OwnersKnown'
    BY <1>0, <2>1 DEF Inv, TypeOK, OwnersKnown
  <2>6. AliveIsReachable'
    <3>1. bundles[owner[b]] = b /\ owner[b] \in Users
      BY <2>1 DEF Inv, AliveIsReachable, OwnersKnown
    <3>2. QED
      BY <1>0, <2>1, <3>1 DEF Inv, TypeOK, OwnersKnown, AliveIsReachable, Alive
  <2>7. PendingInserted' /\ PendingDistinct'
    BY <1>0, <2>1 DEF Inv, TypeOK, PendingInserted, PendingDistinct
  <2>8. CoveredCounted' /\ DrainNilCoversCounted'
    BY <1>0, <2>1 DEF Inv, TypeOK, CoveredCounted, DrainNilCoversCounted, Counted
  <2>9. QED
    BY <2>2, <2>4, <2>5, <2>6, <2>7, <2>8 DEF Inv
<1>7. ASSUME NEW b \in Bundles, Done(b) PROVE Inv'
  <2>1. /\ life[b] = "removed" /\ life' = [life EXCEPT ![b] = "gone"]
        /\ UNCHANGED <<bundles, owner, cancelled, boot, caller, drain, covered>>
    BY <1>7 DEF Done
  <2>2. WaitGroupCounts' /\ wg' \in Nat
    BY <1>0, <1>7, WaitGroupDone DEF Inv
  <2>3. TypeOK'
    BY <1>0, <2>1, <2>2 DEF TypeOK, Lives
  <2>4. OwnersKnown' /\ AliveIsReachable'
    BY <1>0, <2>1 DEF Inv, TypeOK, OwnersKnown, AliveIsReachable, Alive
  <2>5. PendingInserted' /\ PendingDistinct'
    BY <1>0, <2>1 DEF Inv, TypeOK, PendingInserted, PendingDistinct
  <2>6. CoveredCounted' /\ DrainNilCoversCounted'
    BY <1>0, <2>1 DEF Inv, TypeOK, CoveredCounted, DrainNilCoversCounted, Counted
  <2>7. QED
    BY <2>2, <2>3, <2>4, <2>5, <2>6 DEF Inv
<1>8. ASSUME UNCHANGED <<bundles, life, owner, wg, caller>>, boot.bundle = boot'.bundle,
             TypeOK', CoveredCounted', DrainNilCoversCounted'
      PROVE  Inv'
  <2>1. WaitGroupCounts'
    BY <1>8, WaitGroupKept DEF Inv
  <2>2. OwnersKnown' /\ AliveIsReachable' /\ PendingInserted' /\ PendingDistinct'
    BY <1>8 DEF Inv, OwnersKnown, AliveIsReachable, PendingInserted, PendingDistinct
  <2>3. QED
    BY <1>8, <2>1, <2>2 DEF Inv
<1>9. CASE BootQuery \/ BootDone \/ \E u \in Users : Stop(u)
  <2>1. UNCHANGED <<bundles, life, owner, wg, caller, drain, covered>>
    BY <1>9 DEF BootQuery, BootDone, Stop
  <2>2. TypeOK' /\ boot.bundle = boot'.bundle
    BY <1>0, <1>9 DEF BootQuery, BootDone, Stop, TypeOK
  <2>3. QED
    BY <1>8, <2>1, <2>2 DEF Inv, CoveredCounted, DrainNilCoversCounted
<1>10. CASE DrainStops
  <2>1. TypeOK' /\ UNCHANGED <<bundles, life, owner, wg, caller, boot>>
    BY <1>0, <1>10 DEF DrainStops, TypeOK
  <2>2. CoveredCounted' /\ DrainNilCoversCounted'
    BY <1>10 DEF DrainStops, CoveredCounted, DrainNilCoversCounted
  <2>3. QED
    BY <1>8, <2>1, <2>2
<1>11. CASE DrainReturns
  <2>1. TypeOK' /\ UNCHANGED <<bundles, life, owner, wg, caller, boot, covered>> /\ wg = 0
    BY <1>0, <1>11 DEF DrainReturns, TypeOK
  <2>2. \A b \in covered : life[b] = "gone"
    BY <1>0, <2>1, ZeroMeansGone DEF Inv, CoveredCounted, TypeOK
  <2>3. QED
    BY <1>8, <2>1, <2>2 DEF Inv, CoveredCounted, DrainNilCoversCounted
<1>12. CASE DrainTimesOut
  <2>1. TypeOK' /\ UNCHANGED <<bundles, life, owner, wg, caller, boot, covered>>
    BY <1>0, <1>12 DEF DrainTimesOut, TypeOK
  <2>2. drain' = "timeout"
    BY <1>12 DEF DrainTimesOut
  <2>3. QED
    BY <1>8, <2>1, <2>2 DEF Inv, CoveredCounted, DrainNilCoversCounted
<1>13. CASE UNCHANGED vars
  <2>1. TypeOK' /\ UNCHANGED <<bundles, life, owner, wg, caller, boot, drain, covered>>
    BY <1>0, <1>13 DEF vars, TypeOK
  <2>2. QED
    BY <1>8, <2>1 DEF Inv, CoveredCounted, DrainNilCoversCounted
<1>14. QED
  BY <1>1, <1>2, <1>3, <1>4, <1>5, <1>6, <1>7, <1>9, <1>10, <1>11, <1>12, <1>13
     DEF Next, Boot, Goroutine, DrainAll

LEMMA InvInit == Init => Inv
<1> SUFFICES ASSUME Init PROVE Inv
  OBVIOUS
<1>1. TypeOK
  BY DEF Init, TypeOK, Lives
<1>2. WaitGroupCounts
  <2>1. CountedBundles = {}
    BY DEF Init, CountedBundles, Counted
  <2>2. QED
    BY <2>1, FS_EmptySet DEF Init, WaitGroupCounts, CountedBundles
<1>3. OwnersKnown /\ AliveIsReachable /\ PendingInserted /\ PendingDistinct
  BY DEF Init, OwnersKnown, AliveIsReachable, Alive, PendingInserted, PendingDistinct
<1>4. CoveredCounted /\ DrainNilCoversCounted
  BY DEF Init, CoveredCounted, DrainNilCoversCounted
<1>5. QED
  BY <1>1, <1>2, <1>3, <1>4 DEF Inv

LEMMA InvHolds == Spec => []Inv
  BY InvInit, InvStep, PTL DEF Spec

-------------------------------------------------------------------------------
(* The theorems.                                                           *)

\* The state keeps its shape: in particular wg.Done never makes the counter
\* negative, which would be a panic.
THEOREM TypeCorrect == Spec => []TypeOK
<1>1. Inv => TypeOK
  BY DEF Inv
<1>2. QED
  BY <1>1, InvHolds, PTL

\* Stop and DrainAll find every bundle that is alive or about to be deleted in
\* the map, under its own user (registry.go:174-184).
THEOREM Reachable == Spec => []AliveIsReachable
<1>1. Inv => AliveIsReachable
  BY DEF Inv
<1>2. QED
  BY <1>1, InvHolds, PTL

\* The services of a user never run twice (registry.go:159-186).
THEOREM OneBundle == Spec => []OneBundlePerUser
<1>1. Inv => OneBundlePerUser
  BY DEF Inv, AliveIsReachable, OneBundlePerUser
<1>2. QED
  BY <1>1, InvHolds, PTL

\* The counter is the number of goroutines that have yet to call Done.
THEOREM WaitGroupIsCount == Spec => []WaitGroupCounts
<1>1. Inv => WaitGroupCounts
  BY DEF Inv
<1>2. QED
  BY <1>1, InvHolds, PTL

\* DrainAll returns nil only when all that was counted before it is over
\* (registry.go:266-281).
THEOREM DrainCovers == Spec => []DrainNilCoversCounted
<1>1. Inv => DrainNilCoversCounted
  BY DEF Inv
<1>2. QED
  BY <1>1, InvHolds, PTL

-------------------------------------------------------------------------------
(* The inside of a bundle.  That nothing happens after Run has returned    *)
(* needs what Run has waited for; the shape of the state needs that a      *)
(* service with MaxFailures failures is over.                              *)

SvcRecords == [pc : S!SvcPCs, failures : 0 .. MaxFailures + 1, backoff : Base .. MaxBackoff]

\* A service that may run again has failures left.
FailuresLeft ==
  \A s \in Services : svc[s].pc \in {"check", "running", "failed", "backoff"}
                        => svc[s].failures = 0 \/ svc[s].failures < MaxFailures

\* What Run has waited for.
ReturnedIsOver ==
  returned => done /\ beat.pc = "exited" /\ \A s \in Services : svc[s].pc = "exited"

BundleInv == S!TypeOK /\ FailuresLeft /\ ReturnedIsOver

-------------------------------------------------------------------------------
(* Steps of a supervisor: one record is rewritten.                         *)

\* svc after a step that makes s's record d.
LEMMA OneRecord ==
  ASSUME svc \in [Services -> SvcRecords], FailuresLeft,
         NEW s \in Services, NEW d \in SvcRecords,
         d.pc \in {"check", "running", "failed", "backoff"}
           => d.failures = 0 \/ d.failures < MaxFailures,
         svc' = [svc EXCEPT ![s] = d]
  PROVE  svc' \in [Services -> SvcRecords] /\ FailuresLeft'
  BY DEF FailuresLeft

LEMMA GotoStep ==
  ASSUME svc \in [Services -> SvcRecords], FailuresLeft,
         NEW s \in Services, NEW pc \in S!SvcPCs,
         pc = "exited" \/ svc[s].pc \in {"check", "running", "failed", "backoff"},
         S!Goto(s, pc)
  PROVE  svc' \in [Services -> SvcRecords] /\ FailuresLeft'
<1> DEFINE d == [svc[s] EXCEPT !.pc = pc]
<1>1. d \in SvcRecords /\ d.failures = svc[s].failures /\ d.pc = pc
  BY DEF SvcRecords
<1>2. svc' = [svc EXCEPT ![s] = d]
  BY DEF S!Goto
<1>3. d.pc \in {"check", "running", "failed", "backoff"}
        => d.failures = 0 \/ d.failures < MaxFailures
  BY <1>1 DEF FailuresLeft
<1>4. QED
  BY <1>1, <1>2, <1>3, OneRecord

LEMMA SuperviseStep ==
  ASSUME S!SupervisorAssumption, BundleInv, NEW s \in Services, S!Supervise(s) PROVE BundleInv'
<1> USE DEF S!SupervisorAssumption
<1>0. svc \in [Services -> SvcRecords] /\ FailuresLeft /\ status \in S!Snapshots
  BY DEF BundleInv, S!TypeOK, SvcRecords
<1>1. ~returned /\ UNCHANGED <<done, beat, row, returned>>
  BY DEF BundleInv, ReturnedIsOver, S!Supervise, S!Call, S!ReturnsCancelled, S!ReturnsNil,
     S!ReturnsError, S!DeadLetter, S!Backoff, S!Restart, S!BackoffCancelled, S!At
<1>2. status' \in S!Snapshots
  BY <1>0 DEF S!Snapshots, S!Statuses, S!SetStatus, S!Exit, S!Supervise, S!Call,
     S!ReturnsCancelled,
     S!ReturnsNil, S!ReturnsError, S!DeadLetter, S!Backoff, S!Restart, S!BackoffCancelled
<1>3. ASSUME S!Call(s) \/ S!ReturnsCancelled(s) \/ S!DeadLetter(s) \/ S!Backoff(s) \/ S!BackoffCancelled(s)
      PROVE  svc' \in [Services -> SvcRecords] /\ FailuresLeft'
  <2>1. \E pc \in S!SvcPCs :
          /\ pc = "exited" \/ svc[s].pc \in {"check", "running", "failed", "backoff"}
          /\ S!Goto(s, pc)
    BY <1>3 DEF S!Call, S!ReturnsCancelled, S!DeadLetter, S!Backoff, S!BackoffCancelled,
       S!Exit, S!At, S!SvcPCs
  <2>2. QED
    BY <1>0, <2>1, GotoStep
<1>4. ASSUME S!ReturnsNil(s) PROVE svc' \in [Services -> SvcRecords] /\ FailuresLeft'
  <2> DEFINE d == [pc |-> "check", failures |-> 0, backoff |-> Base]
  <2>1. d \in SvcRecords
    BY DEF SvcRecords, S!SvcPCs
  <2>2. svc' = [svc EXCEPT ![s] = d]
    BY <1>4 DEF S!ReturnsNil
  <2>3. QED
    BY <1>0, <2>1, <2>2, OneRecord
<1>5. ASSUME S!ReturnsError(s) PROVE svc' \in [Services -> SvcRecords] /\ FailuresLeft'
  <2>1. PICK stable \in BOOLEAN : S!Counters(s, stable)
    BY <1>5 DEF S!ReturnsError
  <2> DEFINE f == (IF stable THEN 0 ELSE svc[s].failures) + 1
             d == [pc |-> IF f >= MaxFailures THEN "deadletter" ELSE "failed",
                   failures |-> f,
                   backoff |-> IF stable THEN Base ELSE svc[s].backoff]
  <2>2. svc[s] \in SvcRecords /\ svc[s].pc = "running"
    BY <1>0, <1>5 DEF S!ReturnsError, S!At
  <2>3. svc[s].failures \in Nat /\ (svc[s].failures = 0 \/ svc[s].failures < MaxFailures)
        /\ svc[s].backoff \in Base .. MaxBackoff
    BY <1>0, <2>2 DEF FailuresLeft, SvcRecords
  <2>4. f \in 1 .. MaxFailures + 1
    BY <2>3
  <2>5. d \in SvcRecords
    BY <2>3, <2>4 DEF SvcRecords, S!SvcPCs
  <2>6. svc' = [svc EXCEPT ![s] = d]
    BY <2>1 DEF S!Counters
  <2>7. d.pc \in {"check", "running", "failed", "backoff"} => d.failures < MaxFailures
    BY <2>4
  <2>8. QED
    BY <1>0, <2>5, <2>6, <2>7, OneRecord
<1>6. ASSUME S!Restart(s) PROVE svc' \in [Services -> SvcRecords] /\ FailuresLeft'
  <2> DEFINE d == [pc |-> "check", failures |-> svc[s].failures,
                   backoff |-> S!NextBackoffCapped(svc[s].backoff)]
  <2>1. svc[s] \in SvcRecords /\ svc[s].pc = "backoff"
    BY <1>0, <1>6 DEF S!Restart, S!At
  <2>2. S!NextBackoffCapped(svc[s].backoff) \in Base .. MaxBackoff
    BY <2>1 DEF SvcRecords, S!NextBackoffCapped
  <2>3. d \in SvcRecords /\ d.failures = svc[s].failures
    BY <2>1, <2>2 DEF SvcRecords, S!SvcPCs
  <2>4. svc' = [svc EXCEPT ![s] = d]
    BY <1>6 DEF S!Restart
  <2>5. d.failures = 0 \/ d.failures < MaxFailures
    BY <1>0, <2>1, <2>3 DEF FailuresLeft
  <2>6. QED
    BY <1>0, <2>3, <2>4, <2>5, OneRecord
<1>7. svc' \in [Services -> SvcRecords] /\ FailuresLeft'
  BY <1>3, <1>4, <1>5, <1>6 DEF S!Supervise
<1>8. QED
  BY <1>1, <1>2, <1>7 DEF BundleInv, S!TypeOK, ReturnedIsOver, SvcRecords

-------------------------------------------------------------------------------
(* The invariant.                                                          *)

LEMMA BundleInvStep ==
  ASSUME S!SupervisorAssumption PROVE BundleInv /\ [S!Next]_S!vars => BundleInv'
<1> SUFFICES ASSUME BundleInv, [S!Next]_S!vars PROVE BundleInv'
  OBVIOUS
<1>1. ASSUME NEW s \in Services, S!Supervise(s) PROVE BundleInv'
  BY <1>1, SuperviseStep
<1>2. CASE S!Reporter \/ S!HeartbeatFails
  <2>1. UNCHANGED <<done, svc, status, returned>> /\ (beat.pc # "exited")
    BY <1>2 DEF S!Reporter, S!Heartbeat, S!WriteHeartbeat, S!ReporterExits, S!HeartbeatFails
  <2>2. /\ beat' \in [pc : {"wait", "write", "exited"}, snapshot : S!Snapshots]
        /\ row' \in S!Snapshots
    BY <1>2 DEF S!Reporter, S!Heartbeat, S!WriteHeartbeat, S!ReporterExits,
       S!HeartbeatFails, BundleInv, S!TypeOK
  <2>3. QED
    BY <2>1, <2>2 DEF BundleInv, S!TypeOK, FailuresLeft, ReturnedIsOver
<1>3. CASE S!Stop
  BY <1>3 DEF S!Stop, BundleInv, S!TypeOK, FailuresLeft, ReturnedIsOver
<1>4. CASE S!RunReturns
  <2>1. UNCHANGED <<done, svc, status, beat, row>> /\ returned' \in BOOLEAN /\ ReturnedIsOver'
    BY <1>4 DEF S!RunReturns, S!At, ReturnedIsOver
  <2>2. QED
    BY <2>1 DEF BundleInv, S!TypeOK, FailuresLeft
<1>5. CASE UNCHANGED S!vars
  BY <1>5 DEF S!vars, BundleInv, S!TypeOK, FailuresLeft, ReturnedIsOver
<1>6. QED
  BY <1>1, <1>2, <1>3, <1>4, <1>5 DEF S!Next

\* A step of the bundle is one of Supervisor; the registry leaves it alone.
LEMMA BundleNext == [BundlesNext]_all => [S!Next]_S!vars
  BY DEF BundlesNext, OfBundle, OfRegistry, all, bundle, S!vars

LEMMA BundleInvHolds ==
  ASSUME S!SupervisorAssumption PROVE BundlesSpec => []BundleInv
<1>1. BundlesInit => BundleInv
  <2> SUFFICES ASSUME S!Init PROVE BundleInv
    BY DEF BundlesInit
  <2>1. S!NoRow \in S!Snapshots
    BY DEF S!NoRow, S!Snapshots, S!Statuses
  <2>2. svc \in [Services -> SvcRecords]
    BY DEF S!SupervisorAssumption, S!Init, SvcRecords, S!SvcPCs
  <2>3. FailuresLeft /\ ReturnedIsOver
    BY DEF S!Init, FailuresLeft, ReturnedIsOver
  <2>4. QED
    BY <2>1, <2>2, <2>3 DEF S!Init, BundleInv, S!TypeOK, SvcRecords
<1>2. QED
  BY <1>1, BundleInvStep, BundleNext, PTL DEF BundlesSpec

\* The state keeps its shape: failures never pass MaxFailures (1 if it is 0)
\* and waits stay between the base and the cap (supervisor.go:54-113).
THEOREM BundleTypes ==
  ASSUME S!SupervisorAssumption PROVE BundlesSpec => []S!TypeOK
<1>1. BundleInv => S!TypeOK
  BY DEF BundleInv
<1>2. QED
  BY <1>1, BundleInvHolds, PTL

\* Once Run has returned nothing of the bundle changes its statuses or writes
\* its row, so another bundle of the user has both to itself
\* (bundle.go:116-118).
THEOREM BundleQuiet ==
  ASSUME S!SupervisorAssumption PROVE BundlesSpec => NothingAfterReturn
<1>1. BundleInv /\ [S!Next]_S!vars => [returned => UNCHANGED <<svc, status, beat, row>>]_S!vars
  <2> SUFFICES ASSUME BundleInv, S!Next, returned PROVE UNCHANGED <<svc, status, beat, row>>
    BY DEF S!vars
  <2>1. done /\ beat.pc = "exited" /\ \A s \in Services : svc[s].pc = "exited"
    BY DEF BundleInv, ReturnedIsOver
  <2>2. ~S!Reporter /\ ~S!HeartbeatFails /\ ~S!RunReturns /\ ~S!Stop
    BY <2>1 DEF S!Reporter, S!Heartbeat, S!WriteHeartbeat, S!ReporterExits,
       S!HeartbeatFails,
       S!RunReturns, S!Stop
  <2>3. \A s \in Services : ~S!Supervise(s)
    BY <2>1 DEF S!Supervise, S!Call, S!ReturnsCancelled, S!ReturnsNil, S!ReturnsError,
       S!DeadLetter,
       S!Backoff, S!Restart, S!BackoffCancelled, S!At
  <2>4. QED
    BY <2>2, <2>3 DEF S!Next
<1>2. QED
  BY <1>1, BundleInvHolds, BundleNext, PTL DEF BundlesSpec, NothingAfterReturn,
     S!NothingAfterReturn

-------------------------------------------------------------------------------
(* The waits.  Doubled is defined by recursion, so it must be shown to be   *)
(* a function that satisfies its equations; induction is by the least       *)
(* number for which a claim fails.                                          *)

\* A nonempty set of natural numbers has a least one.
LEMMA LeastOne ==
  ASSUME NEW Numbers \in SUBSET Nat, Numbers # {}
  PROVE  \E m \in Numbers : \A n \in Numbers : m <= n
<1> DEFINE R == OpToRel(<, Nat)
<1>1. IsWellFoundedOn(R, Nat)
  BY NatLessThanWellFounded
<1>2. \A x, y \in Nat : y < x => <<y, x>> \in R
  BY DEF OpToRel
<1> HIDE DEF R
<1>3. PICK m \in Numbers : \A n \in Numbers : ~ (<<n, m>> \in R)
  BY <1>1, WFMin
<1>4. ASSUME NEW n \in Numbers PROVE m <= n
  <2>1. m \in Nat /\ n \in Nat
    OBVIOUS
  <2>2. ~ (n < m)
    BY <1>2, <1>3, <2>1
  <2>3. QED
    BY <2>1, <2>2
<1>5. QED
  BY <1>4

\* g satisfies the equations of Doubled up to n.
DoublesTo(g, n) ==
  /\ g \in [0 .. n -> Nat]
  /\ g[0] = Base
  /\ \A i \in 1 .. n : g[i] = 2 * g[i - 1]

\* Such a g exists for every n.
LEMMA DoublesExist ==
  ASSUME S!SupervisorAssumption, NEW n \in Nat
  PROVE  \E g : DoublesTo(g, n)
<1> DEFINE Numbers == {k \in Nat : ~ \E g : DoublesTo(g, k)}
<1>1. SUFFICES ASSUME Numbers # {} PROVE FALSE
  OBVIOUS
<1>2. PICK m \in Numbers : \A k \in Numbers : m <= k
  <2> HIDE DEF Numbers
  <2>1. Numbers \in SUBSET Nat
    BY DEF Numbers
  <2>2. QED
    BY <1>1, <2>1, LeastOne
<1>3. m # 0
  <2> DEFINE g == [i \in 0 .. 0 |-> Base]
  <2>1. DoublesTo(g, 0)
    BY DEF DoublesTo, S!SupervisorAssumption
  <2>2. 0 \notin Numbers
    BY <2>1
  <2>3. QED
    BY <2>2
<1>4. m \in Nat /\ m - 1 \in Nat /\ m - 1 \notin Numbers
  BY <1>2, <1>3
<1>5. PICK g : DoublesTo(g, m - 1)
  BY <1>4
<1> DEFINE h == [i \in 0 .. m |-> IF i = m THEN 2 * g[m - 1] ELSE g[i]]
<1>6. g \in [0 .. m - 1 -> Nat] /\ g[0] = Base /\ \A i \in 1 .. m - 1 : g[i] = 2 * g[i - 1]
  BY <1>5 DEF DoublesTo
<1>7. h \in [0 .. m -> Nat]
  <2>1. \A i \in 0 .. m : (i = m \/ i \in 0 .. m - 1) /\ m - 1 \in 0 .. m - 1
    BY <1>4
  <2>2. QED
    BY <1>6, <2>1
<1>8. h[0] = Base
  BY <1>3, <1>4, <1>6
<1>9. ASSUME NEW i \in 1 .. m PROVE h[i] = 2 * h[i - 1]
  <2>1. i - 1 \in 0 .. m /\ i - 1 # m /\ i \in 0 .. m /\ h[i - 1] = g[i - 1]
    BY <1>4
  <2>2. CASE i = m
    BY <2>1, <2>2
  <2>3. CASE i # m
    BY <1>4, <1>6, <2>1, <2>3
  <2>4. QED
    BY <2>2, <2>3
<1> HIDE DEF h
<1>10. \E f : DoublesTo(f, m)
  BY <1>7, <1>8, <1>9 DEF DoublesTo
<1>11. QED
  BY <1>2, <1>10

\* Two such functions agree where both are defined.
LEMMA DoublesAgree ==
  ASSUME NEW m \in Nat, NEW n \in Nat, NEW g, NEW h, DoublesTo(g, m), DoublesTo(h, n),
         NEW i \in Nat, i <= m, i <= n
  PROVE  g[i] = h[i]
<1> DEFINE Numbers == {k \in Nat : k <= m /\ k <= n /\ g[k] # h[k]}
<1>1. SUFFICES ASSUME Numbers # {} PROVE FALSE
  OBVIOUS
<1>2. PICK k \in Numbers : \A j \in Numbers : k <= j
  <2> HIDE DEF Numbers
  <2>1. Numbers \in SUBSET Nat
    BY DEF Numbers
  <2>2. QED
    BY <1>1, <2>1, LeastOne
<1>3. g[0] = h[0]
  BY DEF DoublesTo
<1>4. k \in 1 .. m /\ k \in 1 .. n /\ k - 1 \in Nat /\ k - 1 <= m /\ k - 1 <= n /\ k - 1 \notin Numbers
  BY <1>2, <1>3
<1>5. g[k - 1] = h[k - 1]
  BY <1>4
<1>6. g[k] = 2 * g[k - 1] /\ h[k] = 2 * h[k - 1]
  BY <1>4 DEF DoublesTo
<1>7. QED
  BY <1>2, <1>5, <1>6

\* Doubled satisfies its equations, and its values are natural numbers.
LEMMA DoubledDefined ==
  ASSUME S!SupervisorAssumption
  PROVE  /\ S!Doubled[0] = Base
         /\ \A n \in Nat : S!Doubled[n] \in Nat /\ S!Doubled[n + 1] = 2 * S!Doubled[n]
<1> DEFINE G(n) == CHOOSE g : DoublesTo(g, n)
           F == [n \in Nat |-> G(n)[n]]
<1>1. \A n \in Nat : DoublesTo(G(n), n)
  BY DoublesExist
<1> HIDE DEF G
<1>2. F[0] = Base /\ \A n \in Nat : F[n] \in Nat
  <2>1. \A n \in Nat : F[n] = G(n)[n] /\ n \in 0 .. n
    OBVIOUS
  <2>2. QED
    BY <1>1, <2>1 DEF DoublesTo
<1>3. ASSUME NEW n \in Nat, n # 0 PROVE F[n] = 2 * F[n - 1]
  <2>1. n - 1 \in Nat /\ n \in 1 .. n /\ n - 1 <= n /\ n - 1 <= n - 1
    BY <1>3
  <2>2. DoublesTo(G(n), n) /\ DoublesTo(G(n - 1), n - 1)
    BY <1>1, <2>1
  <2>3. G(n)[n] = 2 * G(n)[n - 1]
    BY <2>1, <2>2 DEF DoublesTo
  <2>4. G(n)[n - 1] = G(n - 1)[n - 1]
    BY <2>1, <2>2, DoublesAgree
  <2>5. QED
    BY <2>1, <2>3, <2>4
<1> HIDE DEF F
<1>4. F = [n \in Nat |-> IF n = 0 THEN Base ELSE 2 * F[n - 1]]
  <2>1. \A n \in Nat : F[n] = IF n = 0 THEN Base ELSE 2 * F[n - 1]
    BY <1>2, <1>3
  <2>2. F = [n \in Nat |-> F[n]]
    BY DEF F
  <2>3. QED
    BY <2>1, <2>2
<1>5. S!Doubled = [n \in Nat |-> IF n = 0 THEN Base ELSE 2 * S!Doubled[n - 1]]
  BY <1>4 DEF S!Doubled
<1>6. \A n \in Nat : S!Doubled[n] = IF n = 0 THEN Base ELSE 2 * S!Doubled[n - 1]
  BY <1>5
<1> DEFINE Numbers == {n \in Nat : S!Doubled[n] \notin Nat}
<1>7. Numbers = {}
  <2>1. SUFFICES ASSUME Numbers # {} PROVE FALSE
    OBVIOUS
  <2>2. PICK m \in Numbers : \A k \in Numbers : m <= k
    <3> HIDE DEF Numbers
    <3>1. Numbers \in SUBSET Nat
      BY DEF Numbers
    <3>2. QED
      BY <2>1, <3>1, LeastOne
  <2>3. m # 0
    BY <1>6, <2>2 DEF S!SupervisorAssumption
  <2>4. m - 1 \in Nat /\ m - 1 \notin Numbers
    BY <2>2, <2>3
  <2>5. S!Doubled[m - 1] \in Nat /\ S!Doubled[m] = 2 * S!Doubled[m - 1]
    BY <1>6, <2>2, <2>3, <2>4
  <2>6. QED
    BY <2>2, <2>5
<1>8. ASSUME NEW n \in Nat PROVE S!Doubled[n + 1] = 2 * S!Doubled[n]
  <2>1. n + 1 \in Nat /\ n + 1 # 0 /\ (n + 1) - 1 = n
    OBVIOUS
  <2>2. QED
    BY <1>6, <2>1
<1>9. QED
  BY <1>6, <1>7, <1>8

\* What the wait of a service is at each place: after an error that of its
\* last failure, before the next call that of the one to come.
WaitRight(d) ==
  /\ d.pc \in {"failed", "backoff"} => d.failures > 0 /\ d.backoff = S!Capped(S!Doubled[d.failures - 1])
  /\ d.pc \in {"check", "running"} => d.backoff = S!Capped(S!Doubled[d.failures])

WaitsRight == \A s \in Services : WaitRight(svc[s])

\* Doubling the capped wait gives the next one.
LEMMA NextWait ==
  ASSUME S!SupervisorAssumption, NEW n \in Nat
  PROVE  S!NextBackoffCapped(S!Capped(S!Doubled[n])) = S!Capped(S!Doubled[n + 1])
<1>1. S!Doubled[n] \in Nat /\ S!Doubled[n + 1] = 2 * S!Doubled[n] /\ MaxBackoff \in Nat
  BY DoubledDefined DEF S!SupervisorAssumption
<1>2. QED
  BY <1>1 DEF S!NextBackoffCapped, S!Capped

LEMMA WaitStep ==
  ASSUME S!SupervisorAssumption, BundleInv, WaitsRight, NEW s \in Services, S!Supervise(s)
  PROVE  WaitsRight'
<1>0. svc \in [Services -> SvcRecords] /\ svc[s] \in SvcRecords /\ WaitRight(svc[s])
  BY DEF BundleInv, S!TypeOK, SvcRecords, WaitsRight
<1>1. S!Capped(S!Doubled[0]) = Base
  BY DoubledDefined DEF S!Capped, S!SupervisorAssumption
<1>2. SUFFICES ASSUME NEW d, svc' = [svc EXCEPT ![s] = d] PROVE WaitRight(d)
  <2>1. \E d : svc' = [svc EXCEPT ![s] = d]
    BY DEF S!Supervise, S!Call, S!ReturnsCancelled, S!ReturnsNil, S!ReturnsError,
       S!Counters, S!DeadLetter,
       S!Backoff, S!Restart, S!BackoffCancelled, S!Exit, S!Goto
  <2>2. PICK d : svc' = [svc EXCEPT ![s] = d]
    BY <2>1
  <2>3. WaitRight(d)
    BY <1>2, <2>2
  <2>4. \A o \in Services : svc'[o] = IF o = s THEN d ELSE svc[o]
    BY <1>0, <2>2
  <2>5. \A o \in Services : WaitRight(svc'[o])
    BY <2>3, <2>4 DEF WaitsRight
  <2>6. QED
    BY <2>5 DEF WaitsRight, WaitRight, S!Capped, S!Doubled
<1>3. svc'[s] = d
  BY <1>0, <1>2
<1>4. CASE S!Call(s) \/ S!ReturnsCancelled(s) \/ S!DeadLetter(s) \/ S!Backoff(s) \/ S!BackoffCancelled(s)
  <2>1. /\ d.failures = svc[s].failures /\ d.backoff = svc[s].backoff
        /\ \/ d.pc = "exited"
           \/ d.pc = "running" /\ svc[s].pc = "check"
           \/ d.pc = "backoff" /\ svc[s].pc = "failed"
    <3>1. PICK pc \in {"exited", "running", "backoff"} :
            /\ svc' = [svc EXCEPT ![s].pc = pc]
            /\ pc = "running" => svc[s].pc = "check"
            /\ pc = "backoff" => svc[s].pc = "failed"
      BY <1>4 DEF S!Call, S!ReturnsCancelled, S!DeadLetter, S!Backoff, S!BackoffCancelled,
         S!Exit, S!Goto, S!At
    <3>2. d = [svc[s] EXCEPT !.pc = pc]
      BY <1>0, <1>3, <3>1
    <3>3. QED
      BY <1>0, <3>1, <3>2 DEF SvcRecords
  <2>2. QED
    BY <1>0, <2>1 DEF WaitRight
<1>5. CASE S!ReturnsNil(s)
  <2>1. d = [pc |-> "check", failures |-> 0, backoff |-> Base]
    BY <1>0, <1>3, <1>5 DEF S!ReturnsNil
  <2>2. QED
    BY <1>1, <2>1 DEF WaitRight
<1>6. CASE S!ReturnsError(s)
  <2>1. PICK stable \in BOOLEAN : S!Counters(s, stable)
    BY <1>6 DEF S!ReturnsError
  <2> DEFINE f == (IF stable THEN 0 ELSE svc[s].failures) + 1
  <2>2. d = [pc |-> IF f >= MaxFailures THEN "deadletter" ELSE "failed",
             failures |-> f,
             backoff |-> IF stable THEN Base ELSE svc[s].backoff]
    BY <1>0, <1>3, <2>1 DEF S!Counters
  <2>3. svc[s].failures \in Nat /\ svc[s].backoff = S!Capped(S!Doubled[svc[s].failures])
    BY <1>0, <1>6 DEF S!ReturnsError, S!At, WaitRight, SvcRecords
  <2>4. d.failures = f /\ d.failures > 0 /\ d.failures - 1 = IF stable THEN 0 ELSE svc[s].failures
    BY <2>2, <2>3
  <2>5. d.backoff = S!Capped(S!Doubled[d.failures - 1])
    BY <1>1, <2>2, <2>3, <2>4
  <2>6. QED
    BY <2>2, <2>4, <2>5 DEF WaitRight
<1>7. CASE S!Restart(s)
  <2>1. d = [pc |-> "check", failures |-> svc[s].failures,
             backoff |-> S!NextBackoffCapped(svc[s].backoff)]
    BY <1>0, <1>3, <1>7 DEF S!Restart
  <2>2. svc[s].failures > 0 /\ svc[s].failures \in Nat
        /\ svc[s].backoff = S!Capped(S!Doubled[svc[s].failures - 1])
    BY <1>0, <1>7 DEF S!Restart, S!At, WaitRight, SvcRecords
  <2>3. svc[s].failures - 1 \in Nat /\ (svc[s].failures - 1) + 1 = svc[s].failures
    BY <2>2
  <2>4. S!NextBackoffCapped(svc[s].backoff) = S!Capped(S!Doubled[svc[s].failures])
    BY <2>2, <2>3, NextWait
  <2>5. QED
    BY <2>1, <2>4 DEF WaitRight
<1>8. QED
  BY <1>4, <1>5, <1>6, <1>7 DEF S!Supervise

\* Every wait before a restart is the base doubled once for each further
\* failure in a row, up to the cap, for any base, cap and number of failures
\* (supervisor.go:54-113).
THEOREM BundleWaits ==
  ASSUME S!SupervisorAssumption PROVE BundlesSpec => []WaitDoubles
<1>1. BundlesInit => WaitsRight
  <2> SUFFICES ASSUME S!Init PROVE WaitsRight
    BY DEF BundlesInit
  <2>1. S!Capped(S!Doubled[0]) = Base
    BY DoubledDefined DEF S!Capped, S!SupervisorAssumption
  <2>2. QED
    BY <2>1 DEF S!Init, WaitsRight, WaitRight
<1>2. BundleInv /\ WaitsRight /\ [S!Next]_S!vars => WaitsRight'
  <2> SUFFICES ASSUME BundleInv, WaitsRight, [S!Next]_S!vars PROVE WaitsRight'
    OBVIOUS
  <2>1. ASSUME NEW s \in Services, S!Supervise(s) PROVE WaitsRight'
    BY <2>1, WaitStep
  <2>2. ASSUME UNCHANGED svc PROVE WaitsRight'
    BY <2>2 DEF WaitsRight, WaitRight, S!Capped, S!Doubled
  <2>3. QED
    BY <2>1, <2>2 DEF S!Next, S!vars, S!Reporter, S!Heartbeat, S!WriteHeartbeat,
       S!ReporterExits,
       S!HeartbeatFails, S!Stop, S!RunReturns
<1>3. WaitsRight => WaitDoubles
  BY DEF WaitsRight, WaitRight, WaitDoubles, S!WaitDoubles
<1>4. QED
  BY <1>1, <1>2, <1>3, BundleInvHolds, BundleNext, PTL DEF BundlesSpec
===============================================================================
