------------------------------ MODULE PlanLimits ------------------------------
(***************************************************************************)
(* What a plan lets one tenant do: the gates in front of the handlers      *)
(* (billing/gates.go, middleware/plan_gate.go, billing/features.go), the   *)
(* usage they compare with the limits (billing/usage.go, limits.go), and   *)
(* the quota of AI calls in Redis (ai/metering/quota.go).                  *)
(***************************************************************************)
EXTENDS Naturals, FiniteSets

CONSTANTS
  Requests, Routes,     \* requests, and the sets of gates they may go through
  Top,                  \* plans are 0 .. Top in the order of planOrder
  FeaturesOf,           \* FeaturesOf[p]: the features of the plan p
  AccountLimit, TokenLimit, PremiumLimit,  \* limits of each plan, 0 for none
  Amount,               \* tokens of one request
  MaxUse, MaxDay, MaxChanges, MaxFaults    \* bounds

Plans == 0 .. Top
Features == UNION {FeaturesOf[p] : p \in Plans}
LimitsAssumption ==
  /\ IsFiniteSet(Requests) /\ Requests # {} /\ Amount \in Nat \ {0}
  /\ {Top, MaxUse, MaxDay, MaxChanges, MaxFaults} \subseteq Nat
  /\ {AccountLimit, TokenLimit, PremiumLimit} \subseteq [Plans -> Nat]
  /\ \A p \in Plans \ {0} : FeaturesOf[p - 1] \subseteq FeaturesOf[p]

VARIABLES
  gates,    \* the gates in front of the handlers, as the router was built
  plan,     \* tenants.plan
  cached,   \* what GetCachedPlan finds: the plan in Redis if there is one
  used,     \* tenant_usage.tokens_consumed of today
  quota,    \* Redis' count of today's tokens, and of the month's premium calls
  accounts, \* accounts connected
  request,  \* request[r]: the gate, how far it is, what it saw, and the plan it is told
  day, changes, faults

vars == <<gates, plan, cached, used, quota, accounts, request, day, changes, faults>>

None == "none"
Idle == [pc |-> "idle", gate |-> None, feature |-> None, saw |-> 0, read |-> 0, limit |-> 0, upgrade |-> {}]

\* The shape of the state.
TypeOK ==
  /\ gates \in Routes /\ plan \in Plans /\ cached \in {{}} \cup {{p} : p \in Plans}
  /\ used \in Nat /\ quota \in [tokens : Nat, premium : Nat] /\ accounts \in Nat
  /\ request \in
       [Requests ->
          [pc : {"idle", "fill", "seen", "decide", "count", "premium", "call", "allowed", "refused"},
           gate : {None, "feature", "plan", "accounts", "tokens", "quota"}, feature : Features \cup {None},
           saw : Plans, read : Nat, limit : Nat, upgrade : SUBSET Plans]]
  /\ day \in 0 .. MaxDay /\ changes \in 0 .. MaxChanges /\ faults \in 0 .. MaxFaults

Init ==
  /\ gates \in Routes /\ plan \in Plans /\ cached = {} /\ used = 0 /\ quota = [tokens |-> 0, premium |-> 0]
  /\ accounts = 0 /\ request = [r \in Requests |-> Idle] /\ day = 0 /\ changes = 0 /\ faults = 0

Fault == faults < MaxFaults /\ faults' = faults + 1
Set(r, v) == request' = [request EXCEPT ![r] = v]
At(r, gate, pc) == request[r].gate = gate /\ request[r].pc = pc
Goto(r, pc) == Set(r, [request[r] EXCEPT !.pc = pc])

-------------------------------------------------------------------------------
(* The plan: webhooks change it and drop the cache afterwards (Billing).     *)

UpdatePlan(p) ==
  /\ p # plan /\ changes < MaxChanges /\ plan' = p /\ changes' = changes + 1
  /\ UNCHANGED <<cached, used, quota, accounts, request, day, faults>>
InvalidatePlanCache ==
  /\ cached # {} /\ cached' = {}
  /\ UNCHANGED <<plan, used, quota, accounts, request, day, changes, faults>>

HasFeature(p, feature) == feature \in FeaturesOf[p]
PlanAtLeast(p, q) == p >= q
\* The lowest plan above that has the feature.
SuggestUpgrade(p, feature) ==
  LET above == {q \in Plans : ~PlanAtLeast(p, q) /\ HasFeature(q, feature)}
  IN {q \in above : \A o \in above : PlanAtLeast(o, q)}
NextPlan(p) == IF p = Top THEN {} ELSE {p + 1}

\* An error of Redis falls back to the database; without a plan from there
\* every gate lets the request through.
GetCachedPlan(r, gate, feature) ==
  /\ request[r].pc = "idle"
  /\ LET start == [Idle EXCEPT !.gate = gate, !.feature = feature] IN
     \/ UNCHANGED faults /\ \E p \in cached : Set(r, [start EXCEPT !.pc = "seen", !.saw = p])
     \/ /\ IF cached = {} THEN UNCHANGED faults ELSE Fault
        /\ Set(r, [start EXCEPT !.pc = "fill", !.saw = plan])
     \/ Fault /\ Set(r, [start EXCEPT !.pc = "allowed"])
  /\ UNCHANGED <<plan, cached, used, quota, accounts, day, changes>>
SetCachedPlan(r) ==
  /\ request[r].pc = "fill" /\ Goto(r, "seen")
  /\ \/ cached' = {request[r].saw} /\ UNCHANGED faults
     \/ Fault /\ UNCHANGED cached
  /\ UNCHANGED <<plan, used, quota, accounts, day, changes>>

-------------------------------------------------------------------------------
(* The gates.                                                                *)

Quiet == UNCHANGED <<plan, cached, used, quota, accounts, day, changes>>
Refuse(r, upgrade) == Set(r, [request[r] EXCEPT !.pc = "refused", !.upgrade = upgrade])

\* The router's routes have PlanGate; RequireFeature decides the same.
PlanGate(r) ==
  /\ At(r, "feature", "seen")
  /\ LET q == request[r] IN
       IF HasFeature(q.saw, q.feature) THEN Goto(r, "allowed")
       ELSE Refuse(r, SuggestUpgrade(q.saw, q.feature))
  /\ Quiet /\ UNCHANGED faults
RequireFeature(r) == PlanGate(r)
RequirePlan(r) ==
  /\ At(r, "plan", "seen")
  /\ LET q == request[r] IN
       IF PlanAtLeast(q.saw, Top) THEN Goto(r, "allowed") ELSE Refuse(r, {Top})
  /\ Quiet /\ UNCHANGED faults
RequireAccounts(r) ==
  /\ At(r, "accounts", "seen")
  /\ LET limit == AccountLimit[request[r].saw] IN
     \/ /\ IF limit = 0 \/ accounts < limit THEN Goto(r, "allowed") ELSE Refuse(r, NextPlan(request[r].saw))
        /\ UNCHANGED faults
     \/ limit > 0 /\ Fault /\ Goto(r, "allowed")
  /\ Quiet

\* CheckDailyTokenLimit: the tokens of today, then the plan, read anew.  An error
\* of the first read counts as no tokens, any other lets the request through.
ReadTokens(r) ==
  /\ At(r, "tokens", "seen")
  /\ IF TokenLimit[request[r].saw] = 0 THEN UNCHANGED faults /\ Goto(r, "allowed")
     ELSE \/ UNCHANGED faults /\ Set(r, [request[r] EXCEPT !.pc = "decide", !.read = used])
          \/ Fault /\ Set(r, [request[r] EXCEPT !.pc = "decide", !.read = 0])
          \/ Fault /\ Goto(r, "allowed")
  /\ Quiet
CheckDailyTokenLimit(read) == [allowed |-> TokenLimit[plan] = 0 \/ read < TokenLimit[plan], limit |-> TokenLimit[plan]]
\* The sum is compared with a limit of 0 as with any other.
RequireTokens(r) ==
  /\ At(r, "tokens", "decide")
  /\ LET c == CheckDailyTokenLimit(request[r].read)
         q == [request[r] EXCEPT !.limit = c.limit]
     IN Set(r, IF ~c.allowed \/ q.read + Amount > c.limit
               THEN [q EXCEPT !.pc = "refused", !.upgrade = NextPlan(q.saw)]
               ELSE [q EXCEPT !.pc = "allowed"])
  /\ Quiet /\ UNCHANGED faults

\* The handler behind the gate connects an account or uses tokens.
AddAccount(r) ==
  /\ At(r, "accounts", "allowed") /\ accounts < MaxUse /\ accounts' = accounts + 1 /\ Set(r, Idle)
  /\ UNCHANGED <<plan, cached, used, quota, day, changes, faults>>
IncrementUsage(r) ==
  /\ At(r, "tokens", "allowed") /\ used < MaxUse /\ Set(r, Idle)
  /\ \/ used' = used + Amount /\ UNCHANGED faults
     \/ Fault /\ UNCHANGED used
  /\ UNCHANGED <<plan, cached, quota, accounts, day, changes>>
\* A row of its own for every day.
GetUsage == [tokens |-> used, limit |-> TokenLimit[IF cached = {} THEN plan ELSE CHOOSE p \in cached : TRUE]]
Done(r) ==
  /\ \/ request[r].pc = "refused"
     \/ request[r].pc = "allowed" /\ request[r].gate \notin {"accounts", "tokens"}
  /\ Set(r, Idle) /\ Quiet /\ UNCHANGED faults
NextDay ==
  /\ day < MaxDay /\ day' = day + 1 /\ used' = 0 /\ quota' = [quota EXCEPT !.tokens = 0]
  /\ UNCHANGED <<plan, cached, accounts, request, changes, faults>>

-------------------------------------------------------------------------------
(* QuotaChecker.CheckAndIncrement: read, refuse or add, and the same again   *)
(* for the premium calls; only the highest plan is not counted.              *)

CheckQuota(r) ==
  /\ request[r].pc = "idle" /\ "quota" \in gates
  /\ LET q == [Idle EXCEPT !.gate = "quota", !.saw = plan, !.read = quota.tokens] IN
     \/ UNCHANGED faults
        /\ Set(r, [q EXCEPT !.pc = IF plan = Top /\ TokenLimit[plan] = 0 THEN "allowed"
                                   ELSE IF TokenLimit[plan] > 0 /\ quota.tokens >= TokenLimit[plan]
                                   THEN "refused" ELSE "count"])
     \/ Fault /\ Set(r, [q EXCEPT !.pc = "allowed"])
  /\ Quiet
\* The tokens stay counted when the premium call is then refused.
Increment(r, premium) ==
  /\ At(r, "quota", "count") /\ Goto(r, IF premium THEN "premium" ELSE "allowed")
  /\ \/ quota' = [quota EXCEPT !.tokens = @ + Amount] /\ UNCHANGED faults
     \/ Fault /\ UNCHANGED quota
  /\ UNCHANGED <<plan, cached, used, accounts, day, changes>>
\* A limit of 0 is none, for the lowest plan too.
CheckPremium(r) ==
  /\ At(r, "quota", "premium")
  /\ LET limit == PremiumLimit[request[r].saw] IN
       Goto(r, IF limit > 0 /\ quota.premium >= limit THEN "refused" ELSE "call")
  /\ Quiet /\ UNCHANGED faults
IncrementPremium(r) ==
  /\ At(r, "quota", "call") /\ quota.premium < MaxUse /\ Goto(r, "allowed")
  /\ \/ quota' = [quota EXCEPT !.premium = @ + 1] /\ UNCHANGED faults
     \/ Fault /\ UNCHANGED quota
  /\ UNCHANGED <<plan, cached, used, accounts, day, changes>>

Next ==
  /\ UNCHANGED gates
  /\ \/ \E p \in Plans : UpdatePlan(p)
     \/ InvalidatePlanCache \/ NextDay
     \/ \E r \in Requests :
          \/ \E g \in gates \cap {"plan", "accounts", "tokens"} : GetCachedPlan(r, g, None)
          \/ "feature" \in gates /\ \E f \in Features : GetCachedPlan(r, "feature", f)
          \/ SetCachedPlan(r) \/ PlanGate(r) \/ RequireFeature(r) \/ RequirePlan(r) \/ RequireAccounts(r)
          \/ ReadTokens(r) \/ RequireTokens(r) \/ AddAccount(r) \/ IncrementUsage(r) \/ Done(r)
          \/ CheckQuota(r) \/ CheckPremium(r) \/ IncrementPremium(r)
          \/ \E premium \in BOOLEAN : Increment(r, premium)

Spec == Init /\ [][Next]_vars

-------------------------------------------------------------------------------
Others == Cardinality(Requests) - 1

\* While the plan stays and no store fails, an account or a token over the limit
\* is one of a request that had looked before another added its own: one each
\* (gates.go:122-133, limits.go:126, quota.go:51-94).
OverByRace ==
  changes = 0 /\ faults = 0 =>
    /\ AccountLimit[plan] > 0 => accounts <= AccountLimit[plan] + Others
    /\ TokenLimit[plan] > 0 =>
         /\ GetUsage.tokens <= GetUsage.limit + Others * Amount
         /\ quota.tokens < TokenLimit[plan] + Cardinality(Requests) * Amount
    /\ PremiumLimit[plan] > 0 => quota.premium <= PremiumLimit[plan] + Others

\* While the plan stays, a request is refused only for what the plan lacks, and
\* is told a higher plan that has it; a plan without a limit refuses tokens only
\* after it changed, when the cache still holds another (gates.go:172-186).
RefusedForCause ==
  \A r \in Requests : LET q == request[r] IN q.pc = "refused" =>
    /\ changes = 0 => q.saw = plan
    /\ q.gate = "feature" => ~HasFeature(q.saw, q.feature)
    /\ \A p \in q.upgrade : p > q.saw /\ (q.gate = "feature" => HasFeature(p, q.feature))
    /\ q.gate = "tokens" /\ q.limit = 0 => changes > 0

\* The shape of the state, and the two above.
PlanLimitsHold == TypeOK /\ OverByRace /\ RefusedForCause
===============================================================================
