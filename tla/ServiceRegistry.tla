---------------------------- MODULE ServiceRegistry ----------------------------
(***************************************************************************)
(* The registry of user service bundles (orchestrator/registry.go): Boot   *)
(* spawns a bundle for every active user, other callers may Spawn and Stop *)
(* bundles, and DrainAll stops everything when the process shuts down.     *)
(*                                                                         *)
(* A section under the mutex is one step.  Spawn is two: the bundle enters *)
(* the map under the lock, the WaitGroup is incremented after the unlock.  *)
(***************************************************************************)
EXTENDS Naturals, FiniteSets

CONSTANTS
  Users,     \* the users the boot query finds active
  Bundles,   \* bundles that may be created (bound)
  Callers,   \* goroutines other than Boot that call Spawn and Stop
  None       \* no bundle, no user

ASSUME NoneAssumption == None \notin Bundles \union Users
ASSUME BundlesAssumption == IsFiniteSet(Bundles)

VARIABLES
  bundles,    \* bundles[u]: the registry's map
  life,       \* life[b]: how far bundle b has come
  owner,      \* owner[b]: the user of b
  cancelled,  \* cancelled[b]: the context of b is cancelled
  wg,         \* the counter of the registry's WaitGroup
  boot,       \* Boot: where it is, the users left, the bundle being spawned
  caller,     \* caller[c]: the bundle c has inserted and not yet counted
  drain,      \* DrainAll: not called, waiting, or what it returned
  covered     \* the counted bundles that were alive when DrainAll began

vars == <<bundles, life, owner, cancelled, wg, boot, caller, drain, covered>>

\* "inserted": in the map, its goroutine not yet started; "running": inside
\* Run; "returned": Run is over; "removed": deleted from the map; "gone":
\* wg.Done is called.
Lives == {"unused", "inserted", "running", "returned", "removed", "gone"}
Alive == {"inserted", "running"}
Counted == {"running", "returned", "removed"}

\* The shape of the state.
TypeOK ==
  /\ bundles \in [Users -> Bundles \union {None}]
  /\ life \in [Bundles -> Lives]
  /\ owner \in [Bundles -> Users \union {None}]
  /\ cancelled \in [Bundles -> BOOLEAN]
  /\ wg \in Nat
  /\ boot \in [pc : {"delay", "spawn", "done"}, todo : SUBSET Users,
               bundle : Bundles \union {None}]
  /\ caller \in [Callers -> Bundles \union {None}]
  /\ drain \in {"none", "waiting", "nil", "timeout"}
  /\ covered \subseteq Bundles

Init ==
  /\ bundles = [u \in Users |-> None]
  /\ life = [b \in Bundles |-> "unused"]
  /\ owner = [b \in Bundles |-> None]
  /\ cancelled = [b \in Bundles |-> FALSE]
  /\ wg = 0
  /\ boot = [pc |-> "delay", todo |-> {}, bundle |-> None]
  /\ caller = [c \in Callers |-> None]
  /\ drain = "none"
  /\ covered = {}

-------------------------------------------------------------------------------
(* Spawn and Stop.                                                           *)

\* Variant: the map is written without a look at it.
InsertUnchecked(u, b) ==
  /\ b \in Bundles
  /\ life[b] = "unused"
  /\ bundles' = [bundles EXCEPT ![u] = b]
  /\ life' = [life EXCEPT ![b] = "inserted"]
  /\ owner' = [owner EXCEPT ![b] = u]

\* Spawn up to the unlock: nothing when the user has a bundle, otherwise a
\* new bundle enters the map.  b is None or that bundle.
Insert(u, b) ==
  \/ /\ bundles[u] # None
     /\ b = None
     /\ UNCHANGED <<bundles, life, owner>>
  \/ /\ bundles[u] = None
     /\ b \in Bundles
     /\ life[b] = "unused"
     /\ bundles' = [bundles EXCEPT ![u] = b]
     /\ life' = [life EXCEPT ![b] = "inserted"]
     /\ owner' = [owner EXCEPT ![b] = u]

\* Variant: no wg.Add before the goroutine.
CountMissing(b) == UNCHANGED wg /\ life' = [life EXCEPT ![b] = "running"]

\* The rest of Spawn: wg.Add(1), then the goroutine.
Count(b) ==
  /\ wg' = wg + 1
  /\ life' = [life EXCEPT ![b] = "running"]

CallerSpawns(c, u) ==
  /\ caller[c] = None
  /\ \E b \in Bundles \union {None} :
       /\ Insert(u, b)
       /\ caller' = [caller EXCEPT ![c] = b]
  /\ UNCHANGED <<cancelled, wg, boot, drain, covered>>

CallerCounts(c) ==
  /\ caller[c] # None
  /\ Count(caller[c])
  /\ caller' = [caller EXCEPT ![c] = None]
  /\ UNCHANGED <<bundles, owner, cancelled, boot, drain, covered>>

Stop(u) ==
  /\ bundles[u] # None
  /\ cancelled' = [cancelled EXCEPT ![bundles[u]] = TRUE]
  /\ UNCHANGED <<bundles, life, owner, wg, boot, caller, drain, covered>>

-------------------------------------------------------------------------------
(* The goroutine of a bundle.                                                *)

\* Run returns when the context is cancelled and the services have ended
\* (Supervisor).
RunReturns(b) ==
  /\ life[b] = "running"
  /\ cancelled[b]
  /\ life' = [life EXCEPT ![b] = "returned"]
  /\ UNCHANGED <<bundles, owner, cancelled, wg, boot, caller, drain, covered>>

\* Variant: DrainAll keeps the read lock while it waits.
RemoveLockedOut(b) ==
  /\ life[b] = "returned"
  /\ drain # "waiting"
  /\ bundles' = [bundles EXCEPT ![owner[b]] = None]
  /\ life' = [life EXCEPT ![b] = "removed"]
  /\ UNCHANGED <<owner, cancelled, wg, boot, caller, drain, covered>>

\* The deferred delete: by the user, whatever bundle the map holds.
Remove(b) ==
  /\ life[b] = "returned"
  /\ bundles' = [bundles EXCEPT ![owner[b]] = None]
  /\ life' = [life EXCEPT ![b] = "removed"]
  /\ UNCHANGED <<owner, cancelled, wg, boot, caller, drain, covered>>

Done(b) ==
  /\ life[b] = "removed"
  /\ wg' = wg - 1
  /\ life' = [life EXCEPT ![b] = "gone"]
  /\ UNCHANGED <<bundles, owner, cancelled, boot, caller, drain, covered>>

-------------------------------------------------------------------------------
(* Boot, a goroutine of its own (main.go), and DrainAll.                     *)

\* After the delay: the query for the active users.  No user ends Boot.
BootQuery ==
  /\ boot.pc = "delay"
  /\ boot' = [boot EXCEPT !.pc = IF Users = {} THEN "done" ELSE "spawn", !.todo = Users]
  /\ UNCHANGED <<bundles, life, owner, cancelled, wg, caller, drain, covered>>

BootInserts(u) ==
  /\ boot.pc = "spawn" /\ boot.bundle = None
  /\ u \in boot.todo
  /\ \E b \in Bundles \union {None} :
       /\ Insert(u, b)
       /\ boot' = [boot EXCEPT !.todo = @ \ {u}, !.bundle = b]
  /\ UNCHANGED <<cancelled, wg, caller, drain, covered>>

BootCounts ==
  /\ boot.bundle # None
  /\ Count(boot.bundle)
  /\ boot' = [boot EXCEPT !.bundle = None]
  /\ UNCHANGED <<bundles, owner, cancelled, caller, drain, covered>>

\* The loop is over; the AI worker pool is started and Boot returns.
BootDone ==
  /\ boot.pc = "spawn" /\ boot.todo = {} /\ boot.bundle = None
  /\ boot' = [boot EXCEPT !.pc = "done"]
  /\ UNCHANGED <<bundles, life, owner, cancelled, wg, caller, drain, covered>>

\* The loop over the map under the read lock.
DrainStops ==
  /\ drain = "none"
  /\ drain' = "waiting"
  /\ cancelled' = [b \in Bundles |-> cancelled[b] \/ \E u \in Users : bundles[u] = b]
  /\ covered' = {b \in Bundles : life[b] \in Counted}
  /\ UNCHANGED <<bundles, life, owner, wg, boot, caller>>

\* Variant: the wait ends as soon as the map is empty.
DrainReturnsOnEmptyMap ==
  /\ drain = "waiting"
  /\ \A u \in Users : bundles[u] = None
  /\ drain' = "nil"
  /\ UNCHANGED <<bundles, life, owner, cancelled, wg, boot, caller, covered>>

DrainReturns ==
  /\ drain = "waiting"
  /\ wg = 0
  /\ drain' = "nil"
  /\ UNCHANGED <<bundles, life, owner, cancelled, wg, boot, caller, covered>>

DrainTimesOut ==
  /\ drain = "waiting"
  /\ drain' = "timeout"
  /\ UNCHANGED <<bundles, life, owner, cancelled, wg, boot, caller, covered>>

-------------------------------------------------------------------------------
Boot == BootQuery \/ (\E u \in Users : BootInserts(u)) \/ BootCounts \/ BootDone
Goroutine(b) == RunReturns(b) \/ Remove(b) \/ Done(b)
DrainAll == DrainStops \/ DrainReturns \/ DrainTimesOut

Next ==
  \/ Boot
  \/ \E c \in Callers : (\E u \in Users : CallerSpawns(c, u)) \/ CallerCounts(c)
  \/ Callers # {} /\ \E u \in Users : Stop(u)
  \/ \E b \in Bundles : Goroutine(b)
  \/ DrainAll

Spec == Init /\ [][Next]_vars

\* Goroutines that can run do, the services of a bundle obey its context, and
\* a stagger delay ends.  Nobody has to call Spawn, Stop or DrainAll.
FairSpec ==
  /\ Spec
  /\ WF_vars(Boot)
  /\ \A c \in Callers : WF_vars(CallerCounts(c))
  /\ \A b \in Bundles : WF_vars(Goroutine(b))

-------------------------------------------------------------------------------
(* Properties.                                                               *)

\* The services of a user never run twice: two bundles that are alive belong
\* to different users, though Boot, callers and bundles that wind down race
\* for the map (registry.go:159-186).
OneBundlePerUser ==
  \A b1, b2 \in Bundles :
    life[b1] \in Alive /\ life[b2] \in Alive /\ owner[b1] = owner[b2] => b1 = b2

\* Stop and DrainAll reach every bundle that is alive: it is in the map under
\* its user, and the deferred delete by user id never takes out another
\* bundle (registry.go:174-184).
AliveIsReachable ==
  \A b \in Bundles : life[b] \in Alive \union {"returned"} => bundles[owner[b]] = b

\* The counter of the WaitGroup is the number of goroutines that still have
\* to call Done: it never goes negative (a panic), nor ends too late.
WaitGroupCounts == wg = Cardinality({b \in Bundles : life[b] \in Counted})

\* What DrainAll can promise: when it returns nil, every bundle whose
\* goroutine had been counted when it began is over, whatever was spawned or
\* stopped meanwhile (registry.go:266-281).
DrainNilCoversCounted ==
  drain = "nil" => \A b \in covered : life[b] = "gone"

\* A bundle whose context is cancelled, by Stop or by DrainAll, ends, and its
\* user can be spawned again (registry.go:245-256).
CancelledEnds ==
  \A b \in Bundles : cancelled[b] ~> life[b] = "gone"
===============================================================================
