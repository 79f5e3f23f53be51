------------------------------- MODULE MCBundles -------------------------------
(***************************************************************************)
(* The registry of the bundles and the inside of one bundle, each on a     *)
(* small instance of its own.  The registry has two users and a bundle     *)
(* more, so that one of them is spawned a second time; the bundle has two  *)
(* services.  A behaviour is of the one it begins as, and the state of the *)
(* other stays at its Init.                                                *)
(***************************************************************************)
EXTENDS ServiceRegistry

CONSTANTS Services, MaxFailures, Base, MaxBackoff

VARIABLES part, done, svc, status, beat, row, returned

registry == vars
bundle == <<done, svc, status, beat, row, returned>>

S == INSTANCE Supervisor

ASSUME S!SupervisorAssumption

BundlesInit == part \in {"registry", "bundle"} /\ Init /\ S!Init

OfRegistry(A) == part = "registry" /\ A /\ UNCHANGED <<part, bundle>>
OfBundle(A) == part = "bundle" /\ A /\ UNCHANGED <<part, registry>>
BundlesNext == OfRegistry(Next) \/ OfBundle(S!Next)

all == <<part, registry, bundle>>

\* The fairness of each (FairSpec of ServiceRegistry and of Supervisor).
BundlesSpec ==
  /\ BundlesInit /\ [][BundlesNext]_all
  /\ WF_all(OfRegistry(Boot))
  /\ \A c \in Callers : WF_all(OfRegistry(CallerCounts(c)))
  /\ \A b \in Bundles : WF_all(OfRegistry(Goroutine(b)))
  /\ \A s \in Services :
       /\ WF_all(OfBundle(S!Call(s))) /\ WF_all(OfBundle(S!ReturnsCancelled(s)))
       /\ WF_all(OfBundle(S!DeadLetter(s))) /\ WF_all(OfBundle(S!Backoff(s)))
       /\ WF_all(OfBundle(S!Restart(s) \/ S!BackoffCancelled(s)))
  /\ WF_all(OfBundle(S!Reporter))
  /\ SF_all(OfBundle(S!WriteHeartbeat))
  /\ WF_all(OfBundle(S!RunReturns))

-------------------------------------------------------------------------------
\* Waits before restarts double up to the cap (Supervisor; supervisor.go:54-113).
WaitDoubles == S!WaitDoubles
\* Nothing changes once Run has returned (Supervisor; bundle.go:116-118).
NothingAfterReturn == S!NothingAfterReturn
\* What was given up is shown as paused (Supervisor; health.go:96-140).
PausedIsReported == S!PausedIsReported
\* A bundle that is cancelled leaves the registry, and inside of it every
\* service ends (ServiceRegistry, Supervisor; bundle.go:125-129).
StoppedEnds == CancelledEnds /\ S!StopEnds
===============================================================================
