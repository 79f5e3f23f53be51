------------------------------ MODULE Supervisor ------------------------------
(***************************************************************************)
(* One user service bundle (orchestrator/bundle.go Run): its services,     *)
(* each restarted by runWithSupervisor (supervisor.go), and the health     *)
(* reporter that writes their statuses to user_service_status (health.go). *)
(*                                                                         *)
(* A service is a function that may return an error, return nil, or run    *)
(* until the context is cancelled.  Durations are multiples of the base    *)
(* backoff; the jitter only moves the end of a wait.                       *)
(***************************************************************************)
EXTENDS Naturals

CONSTANTS
  Services,      \* the supervised services: imap and cron, ai, briefing
  MaxFailures,   \* SupervisorMaxFailures
  Base,          \* SupervisorBaseBackoff
  MaxBackoff     \* SupervisorMaxBackoff

SupervisorAssumption ==
  /\ MaxFailures \in Nat
  /\ Base \in Nat
  /\ MaxBackoff \in Nat
  /\ Base <= MaxBackoff

VARIABLES
  done,       \* the bundle's context is cancelled
  svc,        \* svc[s]: where the supervisor of s is, and its two counters
  status,     \* status[s]: the health reporter's statuses
  beat,       \* the reporter's goroutine: its snapshot while it writes
  row,        \* the statuses in user_service_status
  returned    \* Run has returned

vars == <<done, svc, status, beat, row, returned>>

Statuses == {"stopped", "running", "error", "paused"}
SvcPCs == {"check", "running", "failed", "deadletter", "backoff", "exited"}
Snapshots == [Services -> Statuses]
NoRow == [s \in Services |-> "stopped"]

\* The shape of the state.
TypeOK ==
  /\ done \in BOOLEAN
  /\ svc \in [Services -> [pc : SvcPCs, failures : 0 .. MaxFailures + 1,
                           backoff : Base .. MaxBackoff]]
  /\ status \in Snapshots
  /\ beat \in [pc : {"wait", "write", "exited"}, snapshot : Snapshots]
  /\ row \in Snapshots
  /\ returned \in BOOLEAN

Init ==
  /\ done = FALSE
  /\ svc = [s \in Services |-> [pc |-> "check", failures |-> 0, backoff |-> Base]]
  /\ status = NoRow
  /\ beat = [pc |-> "wait", snapshot |-> NoRow]
  /\ row = NoRow
  /\ returned = FALSE

-------------------------------------------------------------------------------
(* runWithSupervisor.                                                        *)

At(s, pc) == svc[s].pc = pc
Goto(s, pc) == svc' = [svc EXCEPT ![s].pc = pc]
SetStatus(s, v) == status' = [status EXCEPT ![s] = v]
Exit(s) == Goto(s, "exited") /\ UNCHANGED status

\* The check of the context, the status and the call.
Call(s) ==
  /\ At(s, "check")
  /\ IF done THEN Exit(s) ELSE Goto(s, "running") /\ SetStatus(s, "running")
  /\ UNCHANGED <<done, beat, row, returned>>

\* The function returns after the context was cancelled.
ReturnsCancelled(s) ==
  /\ At(s, "running")
  /\ done
  /\ Exit(s)
  /\ UNCHANGED <<done, beat, row, returned>>

\* It returns nil: the counters are reset, it is called again at once.
ReturnsNil(s) ==
  /\ At(s, "running")
  /\ ~done
  /\ svc' = [svc EXCEPT ![s] = [pc |-> "check", failures |-> 0, backoff |-> Base]]
  /\ UNCHANGED <<done, status, beat, row, returned>>

\* Variant: a stable run resets the count of failures and not the backoff.
CountersKeepBackoff(s, stable) ==
  svc' = [svc EXCEPT ![s] =
            [pc |-> IF (IF stable THEN 1 ELSE @.failures + 1) >= MaxFailures
                      THEN "deadletter" ELSE "failed",
             failures |-> IF stable THEN 1 ELSE @.failures + 1,
             backoff |-> @.backoff]]

\* An error: a run that was stable resets the counters first, then the
\* failure counts, and at MaxFailures the service is given up.
Counters(s, stable) ==
  LET failures == (IF stable THEN 0 ELSE svc[s].failures) + 1 IN
  svc' = [svc EXCEPT ![s] =
            [pc |-> IF failures >= MaxFailures THEN "deadletter" ELSE "failed",
             failures |-> failures,
             backoff |-> IF stable THEN Base ELSE @.backoff]]

\* The error and the status that goes with it; SetError sets "error" too.
ReturnsError(s) ==
  /\ At(s, "running")
  /\ ~done
  /\ \E stable \in BOOLEAN : Counters(s, stable)
  /\ SetStatus(s, "error")
  /\ UNCHANGED <<done, beat, row, returned>>

\* Variant: the goroutine is parked instead of ended.
DeadLetterParks(s) ==
  /\ At(s, "deadletter")
  /\ SetStatus(s, "paused")
  /\ UNCHANGED <<done, svc, beat, row, returned>>

DeadLetter(s) ==
  /\ At(s, "deadletter")
  /\ Goto(s, "exited")
  /\ SetStatus(s, "paused")
  /\ UNCHANGED <<done, beat, row, returned>>

\* The wait begins.
Backoff(s) ==
  /\ At(s, "failed")
  /\ Goto(s, "backoff")
  /\ UNCHANGED <<done, status, beat, row, returned>>

NextBackoffCapped(b) == IF 2 * b > MaxBackoff THEN MaxBackoff ELSE 2 * b

\* The timer wins, or the cancelled context does.
Restart(s) ==
  /\ At(s, "backoff")
  /\ svc' = [svc EXCEPT ![s] =
               [pc |-> "check", failures |-> @.failures,
                backoff |-> NextBackoffCapped(@.backoff)]]
  /\ UNCHANGED <<done, status, beat, row, returned>>

BackoffCancelled(s) ==
  /\ At(s, "backoff")
  /\ done
  /\ Exit(s)
  /\ UNCHANGED <<done, beat, row, returned>>

Supervise(s) ==
  \/ Call(s) \/ ReturnsCancelled(s) \/ ReturnsNil(s) \/ ReturnsError(s)
  \/ DeadLetter(s) \/ Backoff(s) \/ Restart(s) \/ BackoffCancelled(s)

-------------------------------------------------------------------------------
(* The health reporter, Run and Stop.                                        *)

\* getSnapshot under the mutex.
Heartbeat ==
  /\ beat.pc = "wait"
  /\ ~done
  /\ beat' = [pc |-> "write", snapshot |-> status]
  /\ UNCHANGED <<done, svc, status, row, returned>>

\* Variant: ON CONFLICT DO NOTHING.
WriteFirstHeartbeat ==
  /\ beat.pc = "write"
  /\ row' = IF row = NoRow THEN beat.snapshot ELSE row
  /\ beat' = [beat EXCEPT !.pc = "wait"]
  /\ UNCHANGED <<done, svc, status, returned>>

\* The upsert; without a connection, or on an error, it is only logged.
WriteHeartbeat ==
  /\ beat.pc = "write"
  /\ row' = beat.snapshot
  /\ beat' = [beat EXCEPT !.pc = "wait"]
  /\ UNCHANGED <<done, svc, status, returned>>

HeartbeatFails ==
  /\ beat.pc = "write"
  /\ beat' = [beat EXCEPT !.pc = "wait"]
  /\ UNCHANGED <<done, svc, status, row, returned>>

ReporterExits ==
  /\ beat.pc = "wait"
  /\ done
  /\ beat' = [beat EXCEPT !.pc = "exited"]
  /\ UNCHANGED <<done, svc, status, row, returned>>

Stop ==
  /\ ~done
  /\ done' = TRUE
  /\ UNCHANGED <<svc, status, beat, row, returned>>

\* Variant: Run waits for the services only while the context lives.
RunReturnsEarly ==
  /\ done
  /\ ~returned
  /\ returned' = TRUE
  /\ UNCHANGED <<done, svc, status, beat, row>>

\* The context is done and every goroutine of the bundle has exited.
RunReturns ==
  /\ done
  /\ beat.pc = "exited"
  /\ \A s \in Services : At(s, "exited")
  /\ ~returned
  /\ returned' = TRUE
  /\ UNCHANGED <<done, svc, status, beat, row>>

Reporter == Heartbeat \/ WriteHeartbeat \/ ReporterExits

Next ==
  \/ \E s \in Services : Supervise(s)
  \/ Reporter \/ HeartbeatFails
  \/ Stop
  \/ RunReturns

Spec == Init /\ [][Next]_vars

\* The supervisors and the reporter run; a service obeys its context but need
\* not fail; a heartbeat that is tried again and again succeeds.
FairSpec ==
  /\ Spec
  /\ \A s \in Services :
       /\ WF_vars(Call(s)) /\ WF_vars(ReturnsCancelled(s)) /\ WF_vars(DeadLetter(s))
       /\ WF_vars(Backoff(s)) /\ WF_vars(Restart(s) \/ BackoffCancelled(s))
  /\ WF_vars(Reporter)
  /\ SF_vars(WriteHeartbeat)
  /\ WF_vars(RunReturns)

-------------------------------------------------------------------------------
(* Properties.                                                               *)

Doubled[n \in Nat] == IF n = 0 THEN Base ELSE 2 * Doubled[n - 1]
Capped(b) == IF b > MaxBackoff THEN MaxBackoff ELSE b

\* The wait before a restart is the base doubled once for every further
\* failure in a row, up to the cap, whatever mixture of clean exits, stable
\* runs and failures went before (supervisor.go:54-113).
WaitDoubles ==
  \A s \in Services : svc[s].pc \in {"failed", "backoff"} =>
    svc[s].backoff = Capped(Doubled[svc[s].failures - 1])

\* When Run returns, nothing of the bundle is left that could change its
\* statuses or write its row: the registry may start another bundle for the
\* user (bundle.go:116-118).
NothingAfterReturn ==
  [][returned => UNCHANGED <<svc, status, beat, row>>]_vars

\* A service that was given up is shown as paused to those who read the
\* table, although heartbeats race with the status and may fail
\* (supervisor.go:83-92, health.go:96-140).
PausedIsReported ==
  \A s \in Services : status[s] = "paused" ~> row[s] = "paused" \/ done

\* A cancelled bundle ends, wherever its services are (bundle.go:125-129).
StopEnds == done ~> returned
===============================================================================
