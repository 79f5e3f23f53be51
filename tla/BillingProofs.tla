----------------------------- MODULE BillingProofs -----------------------------
(***************************************************************************)
(* Proofs about Billing for every number of requests, events and readers.  *)
(* Each safety property is inductive once it is said what a request that   *)
(* is between two statements knows: a request that has counted a failure   *)
(* finds the count and the days on record unless they were reset.          *)
(***************************************************************************)
EXTENDS Billing, TLAPS

PCs == {"idle", "dedup", "handle", "first", "decide", "invalidate", "answer"}

\* TypeOK without the requests, and the requests.
StateOK ==
  /\ type \in [Events -> Types] /\ refused \subseteq Refusable
  /\ acked \subseteq Events /\ seen \subseteq Events
  /\ tenant \in TenantRows
  /\ applied \subseteq Events /\ overtaken \subseteq Workers
  /\ cache \in Plans \union {NoPlan}
  /\ reader \in [Readers -> [pc : {"idle", "query", "set"}, plan : Plans \union {NoPlan}]]
  /\ expiry \in {"idle", "downgrade", "invalidate"}
  /\ day \in 1 .. MaxDay /\ faults \in 0 .. MaxFaults

RequestOK(r) ==
  /\ r \in Requests
  /\ r.pc # "idle" => r.ev \in Events
  /\ r.pc \in {"first", "decide"} => r.count > 0

WorkersOK == worker \in [Workers -> Requests] /\ \A w \in Workers : RequestOK(worker[w])

LEMMA TypeParts == TypeOK <=> StateOK /\ WorkersOK
  BY DEF TypeOK, StateOK, WorkersOK, RequestOK

LEMMA TypePartsPrime == TypeOK' <=> StateOK' /\ WorkersOK'
  BY DEF TypeOK, StateOK, WorkersOK, RequestOK

\* A step that rewrites one request.
LEMMA OneRequest ==
  ASSUME WorkersOK, NEW w \in Workers, NEW r, RequestOK(r),
         worker' = [worker EXCEPT ![w] = r]
  PROVE  WorkersOK'
  BY DEF WorkersOK, RequestOK

LEMMA GotoStep ==
  ASSUME WorkersOK, NEW w \in Workers, NEW pc \in PCs, worker[w].pc # "idle",
         pc \in {"first", "decide"} => worker[w].count > 0,
         Goto(w, pc)
  PROVE  WorkersOK'
<1> DEFINE r == [worker[w] EXCEPT !.pc = pc]
<1>1. RequestOK(worker[w])
  BY DEF WorkersOK
<1>2. RequestOK(r)
  BY <1>1 DEF RequestOK, Requests, PCs
<1>3. worker' = [worker EXCEPT ![w] = r]
  BY DEF Goto
<1>4. QED
  BY <1>2, <1>3, OneRequest

LEMMA IdleOK == RequestOK(Idle)
  BY DEF Idle, RequestOK, Requests

LEMMA FaultStep == StateOK /\ Fault => faults' \in 0 .. MaxFaults /\ faults' > 0
  BY ParametersAssumption DEF StateOK, Fault

-------------------------------------------------------------------------------
(* The shape of the state.                                                 *)

LEMMA TypeStep == TypeOK /\ [Next]_vars => TypeOK'
<1> SUFFICES ASSUME TypeOK, [Next]_vars PROVE StateOK' /\ WorkersOK'
  BY TypePartsPrime
<1>0. StateOK /\ WorkersOK
  BY TypeParts
<1> USE ParametersAssumption
<1>1. ASSUME NEW w \in Workers, NEW e \in Events, Deliver(w, e)
      PROVE  StateOK' /\ WorkersOK'
  <2> DEFINE r == [pc |-> "dedup", ev |-> e, count |-> 0, days |-> 0]
  <2>1. RequestOK(r)
    BY DEF RequestOK, Requests
  <2>2. worker' = [worker EXCEPT ![w] = r]
    BY <1>1 DEF Deliver
  <2>3. WorkersOK'
    BY <1>0, <2>1, <2>2, OneRequest
  <2>4. QED
    BY <1>0, <1>1, <2>3 DEF Deliver, StateOK, othersVars, schemaVars
<1>2. ASSUME NEW w \in Workers, worker[w].pc # "idle" PROVE worker[w].ev \in Events
  BY <1>0, <1>2 DEF WorkersOK, RequestOK
<1>3. ASSUME NEW w \in Workers, worker[w].pc # "idle", Apply(w)
      PROVE  applied' \subseteq Events
  BY <1>0, <1>2, <1>3 DEF Apply, StateOK
<1>4. ASSUME NEW w \in Workers, Dedup(w) \/ DedupFails(w)
      PROVE  StateOK' /\ WorkersOK'
  <2>1. worker[w].pc = "dedup" /\ worker[w].ev \in Events
    BY <1>2, <1>4 DEF Dedup, DedupFails
  <2>2. \E pc \in {"answer", "handle"} : Goto(w, pc)
    BY <1>4 DEF Dedup, DedupFails
  <2>3. WorkersOK'
    BY <1>0, <2>1, <2>2, GotoStep DEF PCs
  <2>4. seen' \subseteq Events
    BY <1>0, <1>4, <2>1 DEF Dedup, DedupFails, StateOK
  <2>5. faults' \in 0 .. MaxFaults
    BY <1>0, <1>4, FaultStep DEF Dedup, DedupFails, StateOK
  <2>6. QED
    BY <1>0, <1>4, <2>3, <2>4, <2>5 DEF Dedup, DedupFails, StateOK, othersVars, schemaVars
<1>5. ASSUME NEW w \in Workers, ProvisionPlan(w) PROVE StateOK' /\ WorkersOK'
  <2>1. worker[w].pc = "handle"
    BY <1>5 DEF ProvisionPlan, Handling
  <2>2. WorkersOK'
    BY <1>0, <1>5, <2>1, GotoStep DEF ProvisionPlan, PCs
  <2>3. tenant' \in TenantRows
    BY <1>5 DEF ProvisionPlan, TenantRows, Plans, Statuses, Null
  <2>4. applied' \subseteq Events /\ overtaken' \subseteq Workers
    BY <1>0, <1>3, <1>5, <2>1 DEF ProvisionPlan, ResetFailures, StateOK
  <2>5. QED
    BY <1>0, <1>5, <2>2, <2>3, <2>4 DEF ProvisionPlan, StateOK, othersVars, schemaVars
<1>6. ASSUME NEW w \in Workers, InvoicePaid(w) PROVE StateOK' /\ WorkersOK'
  <2>1. worker[w].pc = "handle"
    BY <1>6 DEF InvoicePaid, Handling
  <2>2. WorkersOK'
    BY <1>0, <1>6, <2>1, GotoStep DEF InvoicePaid, PCs
  <2>3. tenant' \in TenantRows
    <3>1. [tenant EXCEPT !.status = "active", !.failures = 0, !.grace = Null] \in TenantRows
      BY <1>0 DEF StateOK, TenantRows, Statuses, Null
    <3>2. QED
      BY <1>0, <1>6, <3>1 DEF InvoicePaid, StateOK
  <2>4. applied' \subseteq Events /\ overtaken' \subseteq Workers
    BY <1>0, <1>3, <1>6, <2>1 DEF InvoicePaid, ResetFailures, StateOK
  <2>5. QED
    BY <1>0, <1>6, <2>2, <2>3, <2>4 DEF InvoicePaid, StateOK, othersVars, schemaVars
<1>7. ASSUME NEW w \in Workers, AdjustLimits(w) PROVE StateOK' /\ WorkersOK'
  <2>1. worker[w].pc = "handle"
    BY <1>7 DEF AdjustLimits, Handling
  <2>2. WorkersOK'
    BY <1>0, <1>7, <2>1, GotoStep DEF AdjustLimits, PCs
  <2>3. tenant' \in TenantRows
    BY <1>0, <1>7 DEF AdjustLimits, StateOK, TenantRows, Plans
  <2>4. applied' \subseteq Events
    BY <1>3, <1>7, <2>1 DEF AdjustLimits
  <2>5. QED
    BY <1>0, <1>7, <2>2, <2>3, <2>4 DEF AdjustLimits, StateOK, othersVars, schemaVars
<1>8. ASSUME NEW w \in Workers, StartGracePeriod(w) PROVE StateOK' /\ WorkersOK'
  <2>1. worker[w].pc = "handle"
    BY <1>8 DEF StartGracePeriod, Handling
  <2>2. WorkersOK'
    BY <1>0, <1>8, <2>1, GotoStep DEF StartGracePeriod, PCs
  <2>3. tenant' \in TenantRows
    <3>1. day + GraceDays \in Nat
      BY <1>0 DEF StateOK
    <3>2. [tenant EXCEPT !.status = "grace_period", !.grace = day + GraceDays] \in TenantRows
      BY <1>0, <3>1 DEF StateOK, TenantRows, Statuses
    <3>3. QED
      BY <1>0, <1>8, <3>2 DEF StartGracePeriod, StateOK
  <2>4. applied' \subseteq Events
    BY <1>0, <1>3, <1>8, <2>1 DEF StartGracePeriod, StateOK
  <2>5. QED
    BY <1>0, <1>8, <2>2, <2>3, <2>4 DEF StartGracePeriod, StateOK, othersVars, schemaVars
<1>9. ASSUME NEW w \in Workers, CountFailure(w) PROVE StateOK' /\ WorkersOK'
  <2> DEFINE n == tenant.failures + 1
             r == [worker[w] EXCEPT
                     !.pc = IF n = 1 THEN "first" ELSE "decide", !.count = n,
                     !.days = IF tenant.first = Null THEN 0 ELSE day - tenant.first]
  <2>1. worker[w].pc = "handle" /\ RequestOK(worker[w])
    BY <1>0, <1>9 DEF CountFailure, Handling, WorkersOK
  <2>2. n \in Nat \ {0} /\ tenant.first \in Nat /\ day \in Nat
    BY <1>0 DEF StateOK, TenantRows
  <2>3. RequestOK(r)
    <3>1. worker[w] \in Requests /\ worker[w].ev \in Events
      BY <2>1 DEF RequestOK
    <3>2. (IF tenant.first = Null THEN 0 ELSE day - tenant.first) \in Int
      BY <2>2
    <3>3. r \in Requests /\ r.ev = worker[w].ev /\ r.count = n
      BY <2>2, <3>1, <3>2 DEF Requests
    <3>4. QED
      BY <2>2, <3>1, <3>3 DEF RequestOK
  <2>4. worker' = [worker EXCEPT ![w] = r]
    BY <1>9 DEF CountFailure
  <2>5. WorkersOK'
    BY <1>0, <2>3, <2>4, OneRequest
  <2>6. tenant' \in TenantRows
    BY <1>0, <1>9, <2>2 DEF CountFailure, StateOK, TenantRows, Statuses
  <2>7. applied' \subseteq Events
    BY <1>3, <1>9, <2>1 DEF CountFailure
  <2>8. QED
    BY <1>0, <1>9, <2>5, <2>6, <2>7 DEF CountFailure, StateOK, othersVars, schemaVars
<1>10. ASSUME NEW w \in Workers, SetFirstFailure(w) \/ SetFirstFailureFails(w)
       PROVE  StateOK' /\ WorkersOK'
  <2>1. worker[w].pc = "first" /\ worker[w].count > 0
    BY <1>0, <1>10 DEF SetFirstFailure, SetFirstFailureFails, WorkersOK, RequestOK
  <2>2. WorkersOK'
    BY <1>0, <1>10, <2>1, GotoStep DEF SetFirstFailure, SetFirstFailureFails, PCs
  <2>3. tenant' \in TenantRows
    BY <1>0, <1>10 DEF SetFirstFailure, SetFirstFailureFails, StateOK, TenantRows
  <2>4. faults' \in 0 .. MaxFaults
    BY <1>0, <1>10, FaultStep DEF SetFirstFailure, SetFirstFailureFails, StateOK
  <2>5. QED
    BY <1>0, <1>10, <2>2, <2>3, <2>4
       DEF SetFirstFailure, SetFirstFailureFails, StateOK, othersVars, schemaVars
<1>11. ASSUME NEW w \in Workers, Decide(w) PROVE StateOK' /\ WorkersOK'
  <2>1. worker[w].pc = "decide" /\ \E pc \in {"invalidate", "answer"} : Goto(w, pc)
    BY <1>11 DEF Decide
  <2>2. WorkersOK'
    BY <1>0, <2>1, GotoStep DEF PCs
  <2>3. tenant' \in TenantRows
    BY <1>0, <1>11 DEF Decide, StateOK, TenantRows, Statuses, Plans
  <2>4. overtaken' \subseteq Workers
    BY <1>0, <1>11 DEF Decide, StateOK
  <2>5. QED
    BY <1>0, <1>11, <2>2, <2>3, <2>4 DEF Decide, StateOK, othersVars, schemaVars
<1>12. ASSUME NEW w \in Workers, Invalidate(w) \/ InvalidateFails(w)
       PROVE  StateOK' /\ WorkersOK'
  <2>1. worker[w].pc = "invalidate" /\ Goto(w, "answer")
    BY <1>12 DEF Invalidate, InvalidateFails
  <2>2. WorkersOK'
    BY <1>0, <2>1, GotoStep DEF PCs
  <2>3. faults' \in 0 .. MaxFaults
    BY <1>0, <1>12, FaultStep DEF Invalidate, InvalidateFails, StateOK
  <2>4. QED
    BY <1>0, <1>12, <2>2, <2>3 DEF Invalidate, InvalidateFails, StateOK, othersVars, schemaVars
<1>13. ASSUME NEW w \in Workers, Answer(w) \/ HandlerErrors(w) \/ RequestFails(w)
       PROVE  StateOK' /\ WorkersOK'
  <2>1. worker' = [worker EXCEPT ![w] = Idle] /\ worker[w].pc # "idle"
    BY <1>13 DEF Answer, HandlerErrors, RequestFails, Handling
  <2>2. WorkersOK'
    BY <1>0, <2>1, IdleOK, OneRequest
  <2>3. acked' \subseteq Events
    BY <1>0, <1>2, <1>13, <2>1 DEF Answer, HandlerErrors, RequestFails, StateOK
  <2>4. faults' \in 0 .. MaxFaults
    BY <1>0, <1>13, FaultStep DEF Answer, HandlerErrors, RequestFails, StateOK
  <2>5. overtaken' \subseteq Workers
    BY <1>0, <1>13 DEF Answer, HandlerErrors, RequestFails, StateOK
  <2>6. QED
    BY <1>0, <1>13, <2>2, <2>3, <2>4, <2>5
       DEF Answer, HandlerErrors, RequestFails, StateOK, othersVars, schemaVars
<1>14. ASSUME NEW r \in Readers, Read(r) PROVE StateOK' /\ WorkersOK'
  <2>1. tenant.plan \in Plans /\ reader[r].plan \in Plans \union {NoPlan}
    BY <1>0 DEF StateOK, TenantRows
  <2>2. reader' \in [Readers -> [pc : {"idle", "query", "set"}, plan : Plans \union {NoPlan}]]
    BY <1>0, <1>14, <2>1 DEF Read, ReadCache, QueryPlan, FillCache, SetReader, StateOK
  <2>3. cache' \in Plans \union {NoPlan}
    BY <1>0, <1>14, <2>1 DEF Read, ReadCache, QueryPlan, FillCache, StateOK
  <2>4. QED
    BY <1>0, <1>14, <2>2, <2>3
       DEF Read, ReadCache, QueryPlan, FillCache, StateOK, WorkersOK, RequestOK, stripeVars, schemaVars
<1>15. CASE CacheExpires \/ FindExpired \/ DowngradeFails \/ ExpiryInvalidates \/ NextDay
  <2>1. UNCHANGED <<schemaVars, stripeVars, tenant, reader>>
    BY <1>15 DEF CacheExpires, FindExpired, DowngradeFails, ExpiryInvalidates, NextDay
  <2>2. cache' \in Plans \union {NoPlan} /\ expiry' \in {"idle", "downgrade", "invalidate"}
    BY <1>0, <1>15 DEF CacheExpires, FindExpired, DowngradeFails, ExpiryInvalidates,
       NextDay, StateOK
  <2>3. day' \in 1 .. MaxDay
    BY <1>0, <1>15 DEF CacheExpires, FindExpired, DowngradeFails, ExpiryInvalidates,
       NextDay, StateOK
  <2>4. faults' \in 0 .. MaxFaults
    BY <1>0, <1>15, FaultStep DEF CacheExpires, FindExpired, DowngradeFails,
       ExpiryInvalidates, NextDay, StateOK
  <2>5. QED
    BY <1>0, <2>1, <2>2, <2>3, <2>4 DEF StateOK, WorkersOK, RequestOK, stripeVars, schemaVars
<1>16. CASE Downgrade
  <2>1. tenant' \in TenantRows
    BY <1>0, <1>16 DEF Downgrade, StateOK, TenantRows, Statuses, Plans, Null
  <2>2. QED
    BY <1>0, <1>16, <2>1
       DEF Downgrade, ResetFailures, StateOK, WorkersOK, RequestOK, schemaVars
<1>17. CASE UNCHANGED vars
  BY <1>0, <1>17 DEF vars, StateOK, WorkersOK, RequestOK
<1>18. QED
  BY <1>1, <1>4, <1>5, <1>6, <1>7, <1>8, <1>9, <1>10, <1>11, <1>12, <1>13, <1>14,
     <1>15, <1>16, <1>17 DEF Next, Request, Failure, Handle

LEMMA TypeInit == Init => TypeOK
<1> SUFFICES ASSUME Init PROVE StateOK /\ WorkersOK
  BY TypeParts
<1>1. tenant \in TenantRows
  <2>1. NewTenant \in TenantRows
    BY DEF TenantRows, NewTenant, Plans, Statuses, Null
  <2>2. \A p \in PaidPlans : Subscriber(p) \in TenantRows
    BY <2>1 DEF TenantRows, Subscriber, Plans
  <2>3. QED
    BY <2>1, <2>2 DEF Init
<1>2. WorkersOK
  BY IdleOK DEF Init, WorkersOK, RequestOK
<1>3. type \in [Events -> Types] /\ refused \subseteq Refusable
  BY HistoriesAssumption DEF Init
<1>4. reader \in [Readers -> [pc : {"idle", "query", "set"}, plan : Plans \union {NoPlan}]]
  BY DEF Init
<1>5. applied \subseteq Events /\ overtaken \subseteq Workers /\ day \in 1 .. MaxDay /\ faults \in 0 .. MaxFaults
  BY ParametersAssumption DEF Init
<1>6. QED
  BY <1>1, <1>2, <1>3, <1>4, <1>5 DEF Init, StateOK

\* The state keeps its shape: rows of the declared columns, requests that have
\* an event once they have started and a count once they have counted.
THEOREM TypeCorrect == Spec => []TypeOK
  BY TypeInit, TypeStep, PTL DEF Spec

LEMMA Fresh == Init => tenant.status = "active" /\ tenant.failures = 0
<1>1. NewTenant \in TenantRows /\ NewTenant.status = "active" /\ NewTenant.failures = 0
  BY DEF NewTenant, TenantRows, Plans, Statuses, Null
<1>2. \A p \in PaidPlans :
        Subscriber(p).status = "active" /\ Subscriber(p).failures = 0
  BY <1>1 DEF Subscriber, TenantRows
<1>3. QED
  BY <1>1, <1>2 DEF Init

\* What each statement leaves in the row.
LEMMA Paid ==
  ASSUME tenant \in TenantRows, NEW w \in Workers, InvoicePaid(w)
  PROVE  \/ UNCHANGED <<tenant, overtaken>>
         \/ /\ tenant'.status = "active" /\ tenant'.failures = 0
            /\ tenant'.first = tenant.first
  BY DEF InvoicePaid, TenantRows

LEMMA Adjusted ==
  ASSUME tenant \in TenantRows, NEW w \in Workers, AdjustLimits(w)
  PROVE  /\ tenant'.status = tenant.status /\ tenant'.failures = tenant.failures
         /\ tenant'.first = tenant.first /\ tenant'.grace = tenant.grace
  BY DEF AdjustLimits, TenantRows

LEMMA Graced ==
  ASSUME tenant \in TenantRows, NEW w \in Workers, StartGracePeriod(w)
  PROVE  \/ UNCHANGED tenant
         \/ /\ tenant'.status = "grace_period" /\ tenant'.grace = day + GraceDays
            /\ tenant'.failures = tenant.failures /\ tenant'.first = tenant.first
  BY DEF StartGracePeriod, TenantRows

LEMMA Counted ==
  ASSUME tenant \in TenantRows, NEW w \in Workers, CountFailure(w)
  PROVE  /\ tenant'.failures = tenant.failures + 1 /\ tenant'.first = tenant.first
         /\ tenant'.status \in {"suspended", "failing"}
         /\ tenant'.status = "suspended" => tenant'.failures >= SuspendAfter
  BY DEF CountFailure, TenantRows

LEMMA Stamped ==
  ASSUME tenant \in TenantRows, NEW w \in Workers, SetFirstFailure(w)
  PROVE  /\ tenant'.status = tenant.status /\ tenant'.failures = tenant.failures
         /\ tenant'.first = (IF tenant.first = Null THEN day ELSE tenant.first)
         /\ tenant'.grace = tenant.grace
  BY DEF SetFirstFailure, TenantRows

LEMMA Decided ==
  ASSUME tenant \in TenantRows, NEW w \in Workers, Decide(w)
  PROVE  \/ UNCHANGED tenant
         \/ /\ tenant'.status = "suspended" /\ Suspends(w)
            /\ tenant'.failures = tenant.failures /\ tenant'.first = tenant.first
  BY DEF Decide, TenantRows

-------------------------------------------------------------------------------
(* Grace periods.                                                          *)

LEMMA GraceStep == TypeOK /\ GracePeriodHasEnd /\ [Next]_vars => GracePeriodHasEnd'
<1> SUFFICES ASSUME TypeOK, GracePeriodHasEnd, [Next]_vars PROVE GracePeriodHasEnd'
  OBVIOUS
<1> USE DEF GracePeriodHasEnd
<1>0. tenant \in TenantRows /\ day \in Nat \ {0} /\ GraceDays \in Nat
  BY ParametersAssumption DEF TypeOK
<1>1. day + GraceDays # Null
  BY <1>0 DEF Null
<1>2. ASSUME NEW w \in Workers, ProvisionPlan(w) PROVE GracePeriodHasEnd'
  BY <1>2 DEF ProvisionPlan
<1>3. ASSUME NEW w \in Workers,
             InvoicePaid(w) \/ AdjustLimits(w) \/ StartGracePeriod(w)
             \/ CountFailure(w) \/ SetFirstFailure(w) \/ Decide(w)
      PROVE  GracePeriodHasEnd'
  BY <1>0, <1>1, <1>3, Paid, Adjusted, Graced, Counted, Stamped, Decided
<1>4. CASE Downgrade
  BY <1>0, <1>4 DEF Downgrade, TenantRows
<1>5. CASE UNCHANGED tenant
  BY <1>5
<1>6. QED
  BY <1>2, <1>3, <1>4, <1>5 DEF Next, Request, Failure, Handle, Read, Deliver,
     Dedup, DedupFails, HandlerErrors, SetFirstFailureFails, Invalidate,
     InvalidateFails, Answer, RequestFails, ReadCache, QueryPlan, FillCache,
     CacheExpires, FindExpired, DowngradeFails, ExpiryInvalidates, NextDay, vars

\* Whatever order checkouts, payments, failures and cancellations are handled
\* in, a tenant in its grace period has an end CheckGraceExpiry will find
\* (lifecycle.go:17-22, 44).
THEOREM GraceEnds == Spec => []GracePeriodHasEnd
<1>1. Init => GracePeriodHasEnd
  BY Fresh DEF GracePeriodHasEnd
<1>2. QED
  BY <1>1, GraceStep, TypeCorrect, PTL DEF Spec

-------------------------------------------------------------------------------
(* Dunning.                                                                *)

\* A request that is to date the first failure stays so while other requests
\* move.
LEMMA DatedStep == TypeOK /\ FailuresAreDated /\ [Next]_vars => FailuresAreDated'
<1> SUFFICES ASSUME TypeOK, FailuresAreDated, [Next]_vars,
                    faults' = 0, tenant'.failures > 0, tenant'.first = Null
             PROVE  \E w \in Workers : worker'[w].pc = "first"
  BY DEF FailuresAreDated
<1>0. StateOK /\ WorkersOK /\ tenant \in TenantRows /\ day \in Nat \ {0}
  BY TypeParts, ParametersAssumption DEF StateOK
<1>1. ~Fault
  BY <1>0, FaultStep
<1>2. ASSUME faults = 0, tenant.failures > 0, tenant.first = Null,
             NEW w \in Workers, NEW r, worker' = [worker EXCEPT ![w] = r],
             worker[w].pc # "first"
      PROVE  \E v \in Workers : worker'[v].pc = "first"
  <2>1. PICK v \in Workers : worker[v].pc = "first"
    BY <1>2 DEF FailuresAreDated
  <2>2. v # w /\ worker'[v] = worker[v]
    BY <1>0, <1>2, <2>1 DEF WorkersOK
  <2>3. QED
    BY <2>1, <2>2
<1>3. ASSUME NEW w \in Workers, CountFailure(w)
      PROVE  \E v \in Workers : worker'[v].pc = "first"
  <2>1. tenant.failures \in Nat /\ tenant'.first = tenant.first /\ faults = 0
        /\ worker[w].pc = "handle"
    BY <1>0, <1>3 DEF CountFailure, TenantRows, Handling
  <2>2. CASE tenant.failures = 0
    <3>1. worker'[w].pc = "first"
      BY <1>0, <1>3, <2>2 DEF CountFailure, WorkersOK, Requests
    <3>2. QED
      BY <3>1
  <2>3. CASE tenant.failures > 0
    BY <1>2, <1>3, <2>1, <2>3 DEF CountFailure
  <2>4. QED
    BY <2>1, <2>2, <2>3
<1>4. ASSUME NEW w \in Workers, SetFirstFailure(w) PROVE FALSE
  BY <1>0, <1>4 DEF SetFirstFailure, TenantRows, Null
<1>5. ASSUME NEW w \in Workers, ProvisionPlan(w) PROVE FALSE
  BY <1>5 DEF ProvisionPlan
<1>6. CASE Downgrade
  BY <1>0, <1>6 DEF Downgrade, TenantRows
<1>7. ASSUME NEW w \in Workers, UNCHANGED faults,
             tenant'.failures = tenant.failures, tenant'.first = tenant.first,
             \E r : worker' = [worker EXCEPT ![w] = r], worker[w].pc # "first"
      PROVE  \E v \in Workers : worker'[v].pc = "first"
  BY <1>2, <1>7
<1>8. ASSUME NEW w \in Workers,
             InvoicePaid(w) \/ AdjustLimits(w) \/ StartGracePeriod(w) \/ Decide(w)
      PROVE  \E v \in Workers : worker'[v].pc = "first"
  <2>1. tenant'.failures = tenant.failures /\ tenant'.first = tenant.first
    BY <1>0, <1>8, Paid, Adjusted, Graced, Counted, Stamped, Decided
  <2>2. \E r : worker' = [worker EXCEPT ![w] = r]
    BY <1>8 DEF InvoicePaid, AdjustLimits, StartGracePeriod, Decide, Goto
  <2>3. UNCHANGED faults /\ worker[w].pc # "first"
    BY <1>8 DEF InvoicePaid, AdjustLimits, StartGracePeriod, Decide, Handling
  <2>4. QED
    BY <1>7, <2>1, <2>2, <2>3
<1>9. ASSUME NEW w \in Workers,
             Dedup(w) \/ HandlerErrors(w) \/ Invalidate(w) \/ Answer(w)
             \/ \E e \in Events : Deliver(w, e)
      PROVE  \E v \in Workers : worker'[v].pc = "first"
  <2>1. \E r : worker' = [worker EXCEPT ![w] = r]
    BY <1>9 DEF Dedup, HandlerErrors, Invalidate, Answer, Deliver, Goto
  <2>2. UNCHANGED <<tenant, faults>> /\ worker[w].pc # "first"
    BY <1>9 DEF Dedup, HandlerErrors, Invalidate, Answer, Deliver, Handling, Idle
  <2>3. QED
    BY <1>7, <2>1, <2>2
<1>10. ASSUME UNCHANGED <<tenant, worker, faults>>
       PROVE  \E v \in Workers : worker'[v].pc = "first"
  BY <1>10 DEF FailuresAreDated
<1>11. QED
  BY <1>1, <1>3, <1>4, <1>5, <1>6, <1>8, <1>9, <1>10
     DEF Next, Request, Failure, Handle, Read, DedupFails, SetFirstFailureFails,
     InvalidateFails, RequestFails, ReadCache, QueryPlan, FillCache, stripeVars,
     CacheExpires, FindExpired, DowngradeFails, ExpiryInvalidates, NextDay, vars

\* While nothing fails every counted failure has a date, or a request that is
\* about to give it one, for any number of requests (dunning.go:27-59).
THEOREM Dated == Spec => []FailuresAreDated
<1>1. Init => FailuresAreDated
  BY Fresh DEF FailuresAreDated
<1>2. QED
  BY <1>1, DatedStep, TypeCorrect, PTL DEF Spec

\* What a request knows between its count and its decision: the failures and
\* the days it counted are on record, unless they were reset meanwhile.
CountsOnRecord ==
  \A w \in Workers \ overtaken :
    worker[w].pc \in {"first", "decide"}
      => worker[w].count <= tenant.failures /\ worker[w].days <= DaysOnRecord

\* The row keeps the failures and the days it has.
RecordKept ==
  /\ tenant'.failures \in Nat /\ tenant'.failures >= tenant.failures
  /\ DaysOnRecord' \in Int /\ DaysOnRecord' >= DaysOnRecord

LEMMA DaysType == StateOK => DaysOnRecord \in Int /\ tenant.failures \in Nat
  BY DEF StateOK, TenantRows, DaysOnRecord

\* A request moves on, past its decision or not, while the record is kept.
LEMMA MovesOn ==
  ASSUME StateOK, WorkersOK, CountsOnRecord, NEW w \in Workers, NEW r,
         worker' = [worker EXCEPT ![w] = r], RecordKept, overtaken \ {w} \subseteq overtaken',
         \/ r.pc \notin {"first", "decide"}
         \/ /\ worker[w].pc \in {"first", "decide"} /\ r.count = worker[w].count
            /\ r.days = worker[w].days /\ overtaken \subseteq overtaken'
  PROVE  CountsOnRecord'
<1>1. DaysOnRecord \in Int /\ tenant.failures \in Nat
  BY DaysType
<1>2. \A v \in Workers : worker[v].count \in Nat /\ worker[v].days \in Int
                         /\ worker'[v] = IF v = w THEN r ELSE worker[v]
  BY DEF WorkersOK, Requests
<1> SUFFICES ASSUME NEW v \in Workers \ overtaken', worker'[v].pc \in {"first", "decide"}
             PROVE  /\ worker'[v].count <= tenant'.failures
                    /\ worker'[v].days <= DaysOnRecord'
  BY DEF CountsOnRecord
<1>3. /\ v \notin overtaken /\ worker[v].pc \in {"first", "decide"}
      /\ worker'[v].count = worker[v].count /\ worker'[v].days = worker[v].days
  BY <1>2
<1>4. QED
  BY <1>1, <1>2, <1>3 DEF CountsOnRecord, RecordKept

\* Who has counted when the failures are reset is overtaken.
LEMMA Resets ==
  ASSUME WorkersOK, NEW w \in Workers, NEW r, worker' = [worker EXCEPT ![w] = r],
         r.pc \notin {"first", "decide"}, ResetFailures
  PROVE  CountsOnRecord'
<1>1. \A v \in Workers : worker'[v].pc \in {"first", "decide"} => worker'[v] = worker[v]
  BY DEF WorkersOK
<1>2. QED
  BY <1>1 DEF ResetFailures, CountsOnRecord

LEMMA RecordStep == TypeOK /\ CountsOnRecord /\ [Next]_vars => CountsOnRecord'
<1> SUFFICES ASSUME TypeOK, CountsOnRecord, [Next]_vars PROVE CountsOnRecord'
  OBVIOUS
<1>0. /\ StateOK /\ WorkersOK /\ tenant \in TenantRows /\ DaysOnRecord \in Int
      /\ tenant.failures \in Nat /\ day \in Nat
  BY TypeParts, DaysType DEF StateOK
<1>1. UNCHANGED <<tenant, day>> => RecordKept
  BY <1>0 DEF RecordKept, DaysOnRecord
<1>2. ASSUME UNCHANGED day, tenant'.failures = tenant.failures, tenant'.first = tenant.first
      PROVE  RecordKept
  BY <1>0, <1>2 DEF RecordKept, DaysOnRecord
<1>3. ASSUME NEW w \in Workers, NEW pc \in PCs, Goto(w, pc)
      PROVE  \E r : /\ worker' = [worker EXCEPT ![w] = r] /\ r.pc = pc
                    /\ r.count = worker[w].count /\ r.days = worker[w].days
  <2> DEFINE r == [worker[w] EXCEPT !.pc = pc]
  <2>1. r.pc = pc /\ r.count = worker[w].count /\ r.days = worker[w].days
    BY <1>0 DEF WorkersOK, Requests
  <2>2. worker' = [worker EXCEPT ![w] = r]
    BY <1>3 DEF Goto
  <2>3. QED
    BY <2>1, <2>2
<1>4. ASSUME NEW w \in Workers,
             ProvisionPlan(w) \/ InvoicePaid(w) \/ AdjustLimits(w) \/ StartGracePeriod(w)
      PROVE  CountsOnRecord'
  <2>1. /\ UNCHANGED day
        /\ \E pc \in {"invalidate", "answer"} : Goto(w, pc)
        /\ ResetFailures \/ UNCHANGED overtaken
    BY <1>4 DEF ProvisionPlan, InvoicePaid, AdjustLimits, StartGracePeriod, othersVars
  <2>2. ResetFailures \/ (tenant'.failures = tenant.failures /\ tenant'.first = tenant.first)
    BY <1>0, <1>4, Adjusted, Graced DEF ProvisionPlan, InvoicePaid
  <2>3. PICK r : worker' = [worker EXCEPT ![w] = r] /\ r.pc \notin {"first", "decide"}
    BY <1>3, <2>1 DEF PCs
  <2>4. QED
    BY <1>0, <1>2, <2>1, <2>2, <2>3, Resets, MovesOn
<1>5. ASSUME NEW w \in Workers, CountFailure(w) PROVE CountsOnRecord'
  <2> DEFINE n == tenant.failures + 1
             r == [worker[w] EXCEPT
                     !.pc = IF n = 1 THEN "first" ELSE "decide", !.count = n,
                     !.days = IF tenant.first = Null THEN 0 ELSE day - tenant.first]
  <2>1. /\ tenant'.failures = n /\ tenant'.first = tenant.first
        /\ UNCHANGED <<overtaken, day>> /\ worker' = [worker EXCEPT ![w] = r]
    BY <1>0, <1>5, Counted DEF CountFailure, othersVars
  <2>2. r.count = n /\ r.days = DaysOnRecord
    BY <1>0 DEF WorkersOK, Requests, DaysOnRecord
  <2>3. DaysOnRecord' = DaysOnRecord
    BY <2>1 DEF DaysOnRecord
  <2>4. /\ worker'[w].count = n /\ worker'[w].days = DaysOnRecord
        /\ \A v \in Workers : v # w => worker'[v] = worker[v]
    BY <1>0, <2>1, <2>2 DEF WorkersOK
  <2>5. \A v \in Workers : worker[v].count \in Nat
    BY <1>0 DEF WorkersOK, Requests
  <2>6. QED
    BY <1>0, <2>1, <2>3, <2>4, <2>5 DEF CountsOnRecord
<1>6. ASSUME NEW w \in Workers, SetFirstFailure(w) \/ SetFirstFailureFails(w)
      PROVE  CountsOnRecord'
  <2>1. /\ worker[w].pc = "first" /\ Goto(w, "decide") /\ UNCHANGED <<overtaken, day>>
    BY <1>6 DEF SetFirstFailure, SetFirstFailureFails, othersVars
  <2>2. /\ tenant'.failures = tenant.failures
        /\ tenant'.first = tenant.first \/ (tenant.first = Null /\ tenant'.first = day)
    BY <1>0, <1>6, Stamped DEF SetFirstFailureFails
  <2>3. RecordKept
    BY <1>0, <2>1, <2>2 DEF RecordKept, DaysOnRecord
  <2>4. QED
    BY <1>0, <1>3, <2>1, <2>3, MovesOn DEF PCs
<1>7. ASSUME NEW w \in Workers,
             \/ Dedup(w) \/ DedupFails(w) \/ Invalidate(w) \/ InvalidateFails(w)
             \/ HandlerErrors(w) \/ RequestFails(w) \/ Answer(w) \/ Decide(w)
             \/ \E e \in Events : Deliver(w, e)
      PROVE  CountsOnRecord'
  <2>1. overtaken \ {w} \subseteq overtaken' /\ UNCHANGED day
    BY <1>7 DEF Dedup, DedupFails, Invalidate, InvalidateFails, HandlerErrors,
       RequestFails, Answer, Decide, Deliver, othersVars
  <2>2. \/ \E pc \in {"answer", "handle", "invalidate"} : Goto(w, pc)
        \/ \E r : worker' = [worker EXCEPT ![w] = r] /\ r.pc \notin {"first", "decide"}
    BY <1>7 DEF Dedup, DedupFails, Invalidate, InvalidateFails, HandlerErrors,
       RequestFails, Answer, Decide, Deliver, Idle
  <2>3. PICK r : worker' = [worker EXCEPT ![w] = r] /\ r.pc \notin {"first", "decide"}
    BY <1>3, <2>2 DEF PCs
  <2>4. tenant'.failures = tenant.failures /\ tenant'.first = tenant.first
    BY <1>0, <1>7, Decided DEF Dedup, DedupFails, Invalidate, InvalidateFails,
       HandlerErrors, RequestFails, Answer, Deliver
  <2>5. QED
    BY <1>0, <1>2, <2>1, <2>3, <2>4, MovesOn
<1>8. CASE Downgrade
  <2>1. ResetFailures /\ UNCHANGED worker
    BY <1>8 DEF Downgrade
  <2>2. QED
    BY <2>1 DEF ResetFailures, CountsOnRecord
<1>9. CASE UNCHANGED <<worker, tenant, overtaken>> /\ day' \in Nat /\ day' >= day
  <2>1. tenant.first \in Nat /\ DaysOnRecord' \in Int /\ DaysOnRecord' >= DaysOnRecord
    BY <1>0, <1>9 DEF TenantRows, DaysOnRecord
  <2>2. \A v \in Workers : worker[v].days \in Int
    BY <1>0 DEF WorkersOK, Requests
  <2>3. QED
    BY <1>0, <1>9, <2>1, <2>2 DEF CountsOnRecord
<1>10. CASE NextDay
  BY <1>0, <1>9, <1>10 DEF NextDay, stripeVars
<1>11. CASE \/ \E r \in Readers : Read(r)
            \/ CacheExpires \/ FindExpired \/ DowngradeFails \/ ExpiryInvalidates
            \/ UNCHANGED vars
  <2>1. UNCHANGED <<worker, tenant, overtaken, day>>
    BY <1>11 DEF Read, ReadCache, QueryPlan, FillCache, CacheExpires, FindExpired,
       DowngradeFails, ExpiryInvalidates, stripeVars, vars
  <2>2. QED
    BY <1>0, <1>9, <2>1
<1>12. QED
  BY <1>4, <1>5, <1>6, <1>7, <1>8, <1>10, <1>11 DEF Next, Request, Failure, Handle

\* Of the statements that write the row only the decision suspends and takes
\* the plan.
LEMMA TakenStep ==
  ASSUME TypeOK, CountsOnRecord, [Next]_vars,
         tenant.plan # Free, tenant'.plan = Free, tenant'.status = "suspended"
  PROVE  \/ tenant.failures >= SuspendAfter /\ DaysOnRecord >= DunningDays
         \/ \E w \in overtaken : worker[w].pc = "decide" /\ worker'[w] # worker[w]
<1>0. /\ StateOK /\ WorkersOK /\ tenant \in TenantRows /\ DaysOnRecord \in Int
      /\ tenant.failures \in Nat /\ overtaken \subseteq Workers
  BY TypeParts, DaysType DEF StateOK
<1>1. ASSUME NEW w \in Workers, Decide(w)
      PROVE  \/ tenant.failures >= SuspendAfter /\ DaysOnRecord >= DunningDays
             \/ \E v \in overtaken : worker[v].pc = "decide" /\ worker'[v] # worker[v]
  <2>1. worker[w].pc = "decide" /\ Suspends(w) /\ Goto(w, "invalidate")
    BY <1>1 DEF Decide
  <2>2. worker'[w].pc = "invalidate" /\ worker[w].count \in Nat /\ worker[w].days \in Int
    BY <1>0, <2>1 DEF Goto, WorkersOK, Requests
  <2>3. CASE w \in overtaken
    BY <2>1, <2>2, <2>3
  <2>4. CASE w \notin overtaken
    BY <1>0, <2>1, <2>2, <2>4, ParametersAssumption DEF CountsOnRecord, Suspends
  <2>5. QED
    BY <2>3, <2>4
<1>2. ASSUME NEW w \in Workers,
             ProvisionPlan(w) \/ InvoicePaid(w) \/ StartGracePeriod(w)
      PROVE  FALSE
  BY <1>0, <1>2, Paid, Graced DEF ProvisionPlan
<1>3. ASSUME NEW w \in Workers,
             AdjustLimits(w) \/ CountFailure(w) \/ SetFirstFailure(w)
      PROVE  FALSE
  BY <1>0, <1>3, HistoriesAssumption
     DEF AdjustLimits, CountFailure, SetFirstFailure, TenantRows
<1>4. ~Downgrade
  BY <1>0 DEF Downgrade, TenantRows
<1>5. ~UNCHANGED tenant
  OBVIOUS
<1>6. QED
  BY <1>1, <1>2, <1>3, <1>4, <1>5 DEF Next, Request, Failure, Handle, Read, Deliver,
     Dedup, DedupFails, HandlerErrors, SetFirstFailureFails, Invalidate,
     InvalidateFails, Answer, RequestFails, ReadCache, QueryPlan, FillCache,
     CacheExpires, FindExpired, DowngradeFails, ExpiryInvalidates, NextDay, vars

\* Dunning takes a plan only with the failures and the days on record, unless a
\* payment, a checkout or a downgrade came between a count and its decision, for
\* every number of requests, every threshold and every schema (dunning.go:28-77).
THEOREM TakenByDunning == Spec => PlanTakenByDunning
<1>1. Init => CountsOnRecord
  BY DEF Init, CountsOnRecord, Idle
<1>2. TypeOK /\ CountsOnRecord /\ [Next]_vars
        => [ tenant.plan # Free /\ tenant'.plan = Free /\ tenant'.status = "suspended"
               => \/ tenant.failures >= SuspendAfter /\ DaysOnRecord >= DunningDays
                  \/ \E w \in overtaken : worker[w].pc = "decide" /\ worker'[w] # worker[w] ]_vars
  BY TakenStep
<1>3. QED
  BY <1>1, <1>2, RecordStep, TypeCorrect, PTL DEF Spec, PlanTakenByDunning
===============================================================================
