-------------------------------- MODULE Billing --------------------------------
(***************************************************************************)
(* The billing state of a tenant (src/internal/billing): Stripe's webhook  *)
(* events, delivered at least once and in any order to concurrent requests *)
(* (webhooks.go, webhook_handlers.go), dunning, plans and grace periods    *)
(* (dunning.go, provision.go, lifecycle.go) and the plan cached in Redis   *)
(* for the gates (cache.go).                                               *)
(*                                                                         *)
(* Each SQL statement and each Redis command is an action.  A statement    *)
(* may be written for another schema than the one that is deployed:        *)
(* migration 041 has no webhook_events.event_id and 038 neither            *)
(* tenants.first_failure_at nor the statuses 'failing', 'grace_period' and *)
(* 'none'.  The schema of a behaviour is the set of those statements it    *)
(* refuses, at every execution.                                            *)
(***************************************************************************)
EXTENDS Integers

CONSTANTS
  Workers,       \* requests served at the same time
  Events,        \* Stripe's events for this customer
  Histories,     \* the functions from Events to their types that may happen
  PaidPlans,     \* the plans on sale
  Schemas,       \* the sets of statements that a deployed schema refuses
  Readers,       \* requests at a gate
  SuspendAfter,  \* failures before suspension (3)
  DunningDays,   \* days before suspension (7)
  GraceDays,     \* days of grace (7)
  MaxDay,        \* bound: days that pass
  MaxFaults      \* bound: failed statements, failed commands and crashes

Types == {"checkout", "paid", "failed", "updated", "deleted"}
\* The INSERT of the event, the first UPDATE for three of the types, and the
\* downgrade.
Refusable == {"dedup", "checkout", "failed", "deleted", "downgrade"}
Free == "free"
Plans == PaidPlans \union {Free}
NoPlan == "none"
NoEvent == "none"
Null == 0         \* days are counted from 1

ASSUME HistoriesAssumption ==
  /\ Histories \subseteq [Events -> Types] /\ Schemas \subseteq SUBSET Refusable
  /\ NoEvent \notin Events /\ NoPlan \notin Plans /\ Free \notin PaidPlans
ASSUME ParametersAssumption ==
  /\ SuspendAfter \in Nat \ {0} /\ DunningDays \in Nat /\ GraceDays \in Nat
  /\ MaxDay \in Nat \ {0} /\ MaxFaults \in Nat

VARIABLES
  type,       \* type[e]: event.Type
  refused,    \* the statements that the schema refuses
  acked,      \* the events answered with 200: Stripe does not send them again
  seen,       \* webhook_events
  worker,     \* worker[w]: where the request w is
  tenant,     \* the row of tenants
  applied,    \* the events whose UPDATE found the tenant
  overtaken,  \* the requests whose count was reset before they decided on it
  cache,      \* plan:{tenant} in Redis
  reader,     \* reader[r]: where GetCachedPlan is, with the plan it read
  expiry,     \* where CheckGraceExpiry is
  day,        \* NOW()
  faults      \* faults so far

vars == <<type, refused, acked, seen, worker, tenant, applied, overtaken, cache, reader,
          expiry, day, faults>>
schemaVars == <<type, refused>>
othersVars == <<schemaVars, reader, expiry, day>>
stripeVars == <<acked, seen, worker, applied, overtaken>>

Idle == [pc |-> "idle", ev |-> NoEvent, count |-> 0, days |-> 0]

NewTenant == [plan |-> Free, status |-> "active", failures |-> 0, first |-> Null,
              grace |-> Null, customer |-> FALSE]

Subscriber(p) == [NewTenant EXCEPT !.plan = p, !.customer = TRUE]

\* A new tenant has to check out first; a subscriber may check out again, and
\* there is none where the schema refuses the checkout.
Init ==
  /\ type \in Histories /\ refused \in Schemas
  /\ acked = {} /\ seen = {}
  /\ worker = [w \in Workers |-> Idle]
  /\ \/ tenant = NewTenant /\ \E e \in Events : type[e] = "checkout"
     \/ "checkout" \notin refused /\ \E p \in PaidPlans : tenant = Subscriber(p)
  /\ applied = {} /\ overtaken = {}
  /\ cache = NoPlan
  /\ reader = [r \in Readers |-> [pc |-> "idle", plan |-> NoPlan]]
  /\ expiry = "idle"
  /\ day = 1 /\ faults = 0

Fault ==
  /\ faults < MaxFaults
  /\ faults' = faults + 1

Goto(w, pc) == worker' = [worker EXCEPT ![w].pc = pc]

-------------------------------------------------------------------------------
(* HandleStripeWebhook.                                                    *)

\* Stripe sends an event until it is answered, to several requests if the
\* answer is late.
Deliver(w, e) ==
  /\ worker[w] = Idle
  /\ e \notin acked
  /\ worker' = [worker EXCEPT ![w] = [pc |-> "dedup", ev |-> e, count |-> 0, days |-> 0]]
  /\ UNCHANGED <<acked, seen, applied, overtaken, tenant, cache, faults, othersVars>>

\* INSERT ... ON CONFLICT DO NOTHING: no row inserted means a duplicate, and an
\* error, as of a schema without the column, lets the event through.
Dedup(w) ==
  /\ worker[w].pc = "dedup"
  /\ \/ "dedup" \in refused /\ Goto(w, "handle") /\ UNCHANGED seen
     \/ /\ "dedup" \notin refused
        /\ Goto(w, IF worker[w].ev \in seen THEN "answer" ELSE "handle")
        /\ seen' = seen \union {worker[w].ev}
  /\ UNCHANGED <<acked, applied, overtaken, tenant, cache, faults, othersVars>>

\* An error before or after the row is inserted.
DedupFails(w) ==
  /\ worker[w].pc = "dedup"
  /\ Fault
  /\ Goto(w, "handle")
  /\ seen' = seen \/ ("dedup" \notin refused /\ seen' = seen \union {worker[w].ev})
  /\ UNCHANGED <<acked, applied, overtaken, tenant, cache, othersVars>>

\* w is about to run the first statement for an event of type t, which the
\* schema takes.
Handling(w, t) ==
  worker[w].pc = "handle" /\ type[worker[w].ev] = t /\ t \notin refused

\* The UPDATE for w's event finds the tenant.
Apply(w) == applied' = applied \union {worker[w].ev}

\* The counter is set to zero; a request that has counted and not yet decided
\* does not learn of it.
ResetFailures ==
  overtaken' = overtaken \union {w \in Workers : worker[w].pc \in {"first", "decide"}}

\* Variant: provisioning forgets failure_count.
ProvisionKeepsCount(w) ==
  /\ Handling(w, "checkout")
  /\ \E p \in PaidPlans : tenant' =
       [tenant EXCEPT !.plan = p, !.status = "active", !.first = Null,
                      !.grace = Null, !.customer = TRUE]
  /\ Apply(w) /\ ResetFailures
  /\ Goto(w, "invalidate")
  /\ UNCHANGED <<acked, seen, cache, faults, othersVars>>

\* checkout.session.completed: ProvisionPlan, with the free plan for a session
\* that names none.
ProvisionPlan(w) ==
  /\ Handling(w, "checkout")
  /\ \E p \in Plans : tenant' =
       [plan |-> p, status |-> "active", failures |-> 0, first |-> Null,
        grace |-> Null, customer |-> TRUE]
  /\ Apply(w) /\ ResetFailures
  /\ Goto(w, "invalidate")
  /\ UNCHANGED <<acked, seen, cache, faults, othersVars>>

\* invoice.paid; an unknown customer is only logged.
InvoicePaid(w) ==
  /\ Handling(w, "paid")
  /\ \/ /\ tenant.customer
        /\ tenant' = [tenant EXCEPT !.status = "active", !.failures = 0, !.grace = Null]
        /\ Apply(w) /\ ResetFailures
     \/ /\ ~tenant.customer
        /\ UNCHANGED <<tenant, applied, overtaken>>
  /\ Goto(w, "answer")
  /\ UNCHANGED <<acked, seen, cache, faults, othersVars>>

\* customer.subscription.updated: AdjustLimits, after finding the tenant.
AdjustLimits(w) ==
  /\ Handling(w, "updated") /\ tenant.customer
  /\ \E p \in PaidPlans : tenant' = [tenant EXCEPT !.plan = p]
  /\ Apply(w)
  /\ Goto(w, "invalidate")
  /\ UNCHANGED <<acked, seen, overtaken, cache, faults, othersVars>>

\* Variant: the end of the period is left to another statement.
StartGraceStatusOnly(w) ==
  /\ Handling(w, "deleted")
  /\ \/ /\ tenant.customer
        /\ tenant' = [tenant EXCEPT !.status = "grace_period"]
        /\ Apply(w)
     \/ /\ ~tenant.customer
        /\ UNCHANGED <<tenant, applied>>
  /\ Goto(w, "answer")
  /\ UNCHANGED <<acked, seen, overtaken, cache, faults, othersVars>>

\* customer.subscription.deleted: StartGracePeriod.
StartGracePeriod(w) ==
  /\ Handling(w, "deleted")
  /\ \/ /\ tenant.customer
        /\ tenant' = [tenant EXCEPT !.status = "grace_period", !.grace = day + GraceDays]
        /\ Apply(w)
     \/ /\ ~tenant.customer
        /\ UNCHANGED <<tenant, applied>>
  /\ Goto(w, "answer")
  /\ UNCHANGED <<acked, seen, overtaken, cache, faults, othersVars>>

\* invoice.payment_failed: HandlePaymentFailure counts and learns the count
\* and the days since the first failure from one statement.
CountFailure(w) ==
  LET n == tenant.failures + 1 IN
  /\ Handling(w, "failed")
  /\ tenant.customer
  /\ tenant' = [tenant EXCEPT !.failures = n,
                  !.status = IF n >= SuspendAfter THEN "suspended" ELSE "failing"]
  /\ Apply(w)
  /\ worker' = [worker EXCEPT ![w] =
       [@ EXCEPT !.pc = IF n = 1 THEN "first" ELSE "decide", !.count = n,
                 !.days = IF tenant.first = Null THEN 0 ELSE day - tenant.first]]
  /\ UNCHANGED <<acked, seen, overtaken, cache, faults, othersVars>>

\* The second statement dates the first failure, unless it is dated.
SetFirstFailure(w) ==
  /\ worker[w].pc = "first"
  /\ tenant' = [tenant EXCEPT !.first = IF @ = Null THEN day ELSE @]
  /\ Goto(w, "decide")
  /\ UNCHANGED <<acked, seen, applied, overtaken, cache, faults, othersVars>>

SetFirstFailureFails(w) ==
  /\ worker[w].pc = "first"
  /\ Fault
  /\ Goto(w, "decide")
  /\ UNCHANGED <<acked, seen, applied, overtaken, tenant, cache, othersVars>>

\* Variant: the days since the first failure are forgotten.
SuspendsEarly(w) == worker[w].count >= SuspendAfter

Suspends(w) == worker[w].count >= SuspendAfter /\ worker[w].days >= DunningDays

\* suspendAccount when the count and the days say so, as they were counted.
\* The other counts send a notification, whose failure is ignored.
Decide(w) ==
  /\ worker[w].pc = "decide"
  /\ \/ /\ Suspends(w)
        /\ tenant' = [tenant EXCEPT !.status = "suspended", !.plan = Free]
        /\ Goto(w, "invalidate")
     \/ /\ ~Suspends(w)
        /\ Goto(w, "answer")
        /\ UNCHANGED tenant
  /\ overtaken' = overtaken \ {w}
  /\ UNCHANGED <<acked, seen, applied, cache, faults, othersVars>>

\* InvalidatePlanCache: DEL; its failure is only logged.
Invalidate(w) ==
  /\ worker[w].pc = "invalidate"
  /\ cache' = NoPlan
  /\ Goto(w, "answer")
  /\ UNCHANGED <<acked, seen, applied, overtaken, tenant, faults, othersVars>>

InvalidateFails(w) ==
  /\ worker[w].pc = "invalidate"
  /\ Fault
  /\ Goto(w, "answer")
  /\ UNCHANGED <<acked, seen, applied, overtaken, tenant, cache, othersVars>>

\* 200.
Answer(w) ==
  /\ worker[w].pc = "answer"
  /\ acked' = acked \union {worker[w].ev}
  /\ worker' = [worker EXCEPT ![w] = Idle]
  /\ UNCHANGED <<seen, applied, overtaken, tenant, cache, faults, othersVars>>

\* 500: the tenant of the customer is not known (yet), or the schema refuses the
\* statement.  The row in webhook_events stays.
HandlerErrors(w) ==
  /\ worker[w].pc = "handle"
  /\ \/ type[worker[w].ev] \in refused
     \/ type[worker[w].ev] \in {"failed", "updated"} /\ ~tenant.customer
  /\ worker' = [worker EXCEPT ![w] = Idle]
  /\ UNCHANGED <<acked, seen, applied, overtaken, tenant, cache, faults, othersVars>>

\* 500 because a statement failed, or no answer because the process died.
RequestFails(w) ==
  /\ worker[w].pc # "idle"
  /\ Fault
  /\ worker' = [worker EXCEPT ![w] = Idle]
  /\ overtaken' = overtaken \ {w}
  /\ UNCHANGED <<acked, seen, applied, tenant, cache, othersVars>>

-------------------------------------------------------------------------------
(* The plan cache: GetCachedPlan.                                          *)

SetReader(r, pc, plan) == reader' = [reader EXCEPT ![r] = [pc |-> pc, plan |-> plan]]

\* GET: a hit is the answer; a miss and an error of Redis ask the database.
ReadCache(r) ==
  /\ reader[r].pc = "idle" /\ cache = NoPlan
  /\ SetReader(r, "query", NoPlan)
  /\ UNCHANGED <<schemaVars, stripeVars, tenant, cache, expiry, day, faults>>

QueryPlan(r) ==
  /\ reader[r].pc = "query"
  /\ SetReader(r, "set", tenant.plan)
  /\ UNCHANGED <<schemaVars, stripeVars, tenant, cache, expiry, day, faults>>

\* SET with the plan as it was when it was queried.
FillCache(r) ==
  /\ reader[r].pc = "set"
  /\ cache' = reader[r].plan
  /\ SetReader(r, "idle", NoPlan)
  /\ UNCHANGED <<schemaVars, stripeVars, tenant, expiry, day, faults>>

\* Variant: SET without an expiry; the key goes only when it is evicted fresh.
CacheKept ==
  /\ cache = tenant.plan
  /\ cache' = NoPlan
  /\ UNCHANGED <<schemaVars, stripeVars, tenant, reader, expiry, day, faults>>

\* planCacheTTL.
CacheExpires ==
  /\ cache # NoPlan
  /\ cache' = NoPlan
  /\ UNCHANGED <<schemaVars, stripeVars, tenant, reader, expiry, day, faults>>

-------------------------------------------------------------------------------
(* CheckGraceExpiry and the calendar.                                      *)

FindExpired ==
  /\ expiry = "idle"
  /\ tenant.grace # Null /\ tenant.grace < day /\ tenant.plan # Free
  /\ expiry' = "downgrade"
  /\ UNCHANGED <<schemaVars, stripeVars, tenant, cache, reader, day, faults>>

\* DowngradeToPlan(free) does not look at the row again.
Downgrade ==
  /\ expiry = "downgrade" /\ "downgrade" \notin refused
  /\ tenant' = [tenant EXCEPT !.plan = Free, !.status = "none", !.failures = 0,
                              !.first = Null, !.grace = Null]
  /\ ResetFailures
  /\ expiry' = "invalidate"
  /\ UNCHANGED <<schemaVars, acked, seen, worker, applied, cache, reader, day, faults>>

\* An error is only logged.
DowngradeFails ==
  /\ expiry = "downgrade"
  /\ IF "downgrade" \in refused THEN UNCHANGED faults ELSE Fault
  /\ expiry' = "idle"
  /\ UNCHANGED <<schemaVars, stripeVars, tenant, cache, reader, day>>

ExpiryInvalidates ==
  /\ expiry = "invalidate"
  /\ \/ cache' = NoPlan /\ UNCHANGED faults
     \/ Fault /\ UNCHANGED cache
  /\ expiry' = "idle"
  /\ UNCHANGED <<schemaVars, stripeVars, tenant, reader, day>>

NextDay ==
  /\ day < MaxDay
  /\ day' = day + 1
  /\ UNCHANGED <<schemaVars, stripeVars, tenant, cache, reader, expiry, faults>>

-------------------------------------------------------------------------------
Handle(w) ==
  \/ ProvisionPlan(w) \/ InvoicePaid(w) \/ AdjustLimits(w) \/ StartGracePeriod(w)
  \/ CountFailure(w) \/ HandlerErrors(w)

Request(w) ==
  \/ \E e \in Events : Deliver(w, e)
  \/ Dedup(w) \/ Handle(w) \/ SetFirstFailure(w) \/ Decide(w) \/ Invalidate(w)
  \/ Answer(w)

Failure(w) ==
  DedupFails(w) \/ SetFirstFailureFails(w) \/ InvalidateFails(w) \/ RequestFails(w)

Read(r) == ReadCache(r) \/ QueryPlan(r) \/ FillCache(r)

Next ==
  \/ \E w \in Workers : Request(w) \/ Failure(w)
  \/ \E r \in Readers : Read(r)
  \/ CacheExpires
  \/ FindExpired \/ Downgrade \/ DowngradeFails \/ ExpiryInvalidates
  \/ NextDay

Spec == Init /\ [][Next]_vars

\* Redis deletes a key whose time is over.
FairSpec == Spec /\ WF_vars(CacheExpires)

-------------------------------------------------------------------------------
(* Properties.                                                             *)

Statuses == {"active", "failing", "suspended", "grace_period", "none"}
TenantRows == [plan : Plans, status : Statuses, failures : Nat, first : Nat,
               grace : Nat, customer : BOOLEAN]
Requests == [pc : {"idle", "dedup", "handle", "first", "decide", "invalidate", "answer"},
             ev : Events \union {NoEvent}, count : Nat, days : Int]

\* The shape of the state.  A request past its start has an event, and one
\* about to decide has counted a failure.
TypeOK ==
  /\ type \in [Events -> Types] /\ refused \subseteq Refusable /\ acked \subseteq Events /\ seen \subseteq Events
  /\ worker \in [Workers -> Requests]
  /\ \A w \in Workers :
       /\ worker[w].pc # "idle" => worker[w].ev \in Events
       /\ worker[w].pc \in {"first", "decide"} => worker[w].count > 0
  /\ tenant \in TenantRows
  /\ applied \subseteq Events /\ overtaken \subseteq Workers
  /\ cache \in Plans \union {NoPlan}
  /\ reader \in [Readers -> [pc : {"idle", "query", "set"}, plan : Plans \union {NoPlan}]]
  /\ expiry \in {"idle", "downgrade", "invalidate"}
  /\ day \in 1 .. MaxDay /\ faults \in 0 .. MaxFaults

\* A counted failure has its date: while nothing fails, a tenant with failures
\* and without first_failure_at has a request that is about to set it, and
\* dunning can reach its last step (dunning.go:27-59, provision.go:30-38).
FailuresAreDated ==
  faults = 0 /\ tenant.failures > 0 /\ tenant.first = Null
    => \E w \in Workers : worker[w].pc = "first"

\* A grace period has an end, whichever of payments, failures, checkouts and
\* expiry wrote the row last: CheckGraceExpiry finds it (lifecycle.go:17-22, 44).
GracePeriodHasEnd == tenant.status = "grace_period" => tenant.grace # Null

\* The days since the first failure on record.
DaysOnRecord == IF tenant.first = Null THEN 0 ELSE day - tenant.first

\* Dunning takes a plan only with SuspendAfter failures and DunningDays since
\* the first one on record at that moment, as dunning.go:19 has it, whatever
\* other requests count, date and decide meanwhile.  The exception is a request
\* that acts on a count that a payment, a checkout or a downgrade has reset
\* since (dunning.go:28-77).  The status is another matter: it becomes
\* 'suspended' by the count alone (dunning.go:31), whatever the days.
PlanTakenByDunning ==
  [][ tenant.plan # Free /\ tenant'.plan = Free /\ tenant'.status = "suspended"
        => \/ tenant.failures >= SuspendAfter /\ DaysOnRecord >= DunningDays
           \/ \E w \in overtaken : worker[w].pc = "decide" /\ worker'[w] # worker[w] ]_vars

\* The cached plan does not stay wrong, although the writer's DEL may fail or
\* come before the SET of a reader that queried the old plan (cache.go:33-62).
StaleCacheExpires == []<>(cache \in {NoPlan, tenant.plan})

\* "better to process twice than miss an event" (webhooks.go:59): while nothing
\* fails, an event that Stripe will not send again, and that no request has in
\* hand, has changed the tenant.
NoEventMissed ==
  faults = 0 =>
    \A e \in acked : type[e] \in {"failed", "updated"}
                   => e \in applied \/ \E w \in Workers : worker[w].ev = e
===============================================================================
