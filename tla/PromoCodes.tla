------------------------------ MODULE PromoCodes ------------------------------
(***************************************************************************)
(* Promo codes and trials (billing/promo.go, promo_trial.go,               *)
(* promo_stripe.go): a code is looked up, claimed with its redemption in   *)
(* one transaction, and the discount or the trial is given afterwards,     *)
(* outside of it; a sweep ends the trials.                                 *)
(***************************************************************************)
EXTENDS Naturals, FiniteSets

CONSTANTS
  Codes,      \* rows of promo_codes
  Trial,      \* those of type "trial"; the others are discounts
  PlanOf,     \* PlanOf[c]: the plan of a code, not "free"
  MaxUses,    \* MaxUses[c]
  ValidUntil, \* ValidUntil[c]: the last time it is valid
  Days,       \* how long a trial runs
  Users, Tenants, TenantOf,
  Plans,      \* the plans one can buy
  Applies,    \* requests of HandleApplyPromo
  MaxTime     \* bound of the clock

PromoAssumption ==
  /\ Trial \subseteq Codes /\ "free" \notin Plans /\ {PlanOf[c] : c \in Codes} \subseteq Plans
  /\ TenantOf \in [Users -> Tenants] /\ MaxUses \in [Codes -> Nat]
  /\ Codes # {} /\ Users # {} /\ Days \in Nat /\ MaxTime \in Nat

VARIABLES
  code,      \* code[c]: current_uses and active
  redeemed,  \* rows of promo_redemptions
  tenant,    \* tenant[t]: the plan, and whether there is a subscription
  apply,     \* apply[a]: the request a
  sweep,     \* CheckTrialExpiry: what is left to downgrade
  now

vars == <<code, redeemed, tenant, apply, sweep, now>>

NoApply == [pc |-> "idle", code |-> CHOOSE c \in Codes : TRUE, user |-> CHOOSE u \in Users : TRUE]

\* The shape of the state.
TypeOK ==
  /\ code \in [Codes -> [uses : Nat, active : BOOLEAN]]
  /\ \A c \in Codes : code[c].uses <= MaxUses[c]
  /\ redeemed \subseteq [code : Codes, user : Users, plan : Plans, end : 0 .. MaxTime + Days]
  /\ tenant \in [Tenants -> [plan : Plans \cup {"free"}, bought : BOOLEAN]]
  /\ apply \in [Applies -> [pc : {"idle", "check", "claim", "give", "applied", "failed"},
                            code : Codes, user : Users]]
  /\ sweep \subseteq [tenant : Tenants, plan : Plans] /\ now \in 0 .. MaxTime

Init ==
  /\ code = [c \in Codes |-> [uses |-> 0, active |-> TRUE]]
  /\ redeemed = {} /\ tenant = [t \in Tenants |-> [plan |-> "free", bought |-> FALSE]]
  /\ apply = [a \in Applies |-> NoApply] /\ sweep = {} /\ now = 0

Tick == now < MaxTime /\ now' = now + 1 /\ UNCHANGED <<code, redeemed, tenant, apply, sweep>>

Deactivate(c) ==
  /\ code[c].active
  /\ code' = [code EXCEPT ![c].active = FALSE]
  /\ UNCHANGED <<redeemed, tenant, apply, sweep, now>>

\* What the webhooks do to the plan when a subscription begins and ends.
Buy(t, p) ==
  /\ ~tenant[t].bought
  /\ tenant' = [tenant EXCEPT ![t] = [plan |-> p, bought |-> TRUE]]
  /\ UNCHANGED <<code, redeemed, apply, sweep, now>>
Cancel(t) ==
  /\ tenant[t].bought
  /\ tenant' = [tenant EXCEPT ![t] = [plan |-> "free", bought |-> FALSE]]
  /\ UNCHANGED <<code, redeemed, apply, sweep, now>>

-------------------------------------------------------------------------------
(* Apply.                                                                    *)

To(a, pc) == apply' = [apply EXCEPT ![a].pc = pc]

\* lookupCode and the part of checkEligibility that looks at the row.
LookupCode(a, c, u) ==
  /\ apply[a].pc = "idle"
  /\ LET valid == code[c].active /\ now <= ValidUntil[c] /\ code[c].uses < MaxUses[c]
     IN apply' = [apply EXCEPT ![a] = [pc |-> IF valid THEN "check" ELSE "failed",
                                       code |-> c, user |-> u]]
  /\ UNCHANGED <<code, redeemed, tenant, sweep, now>>

Redeemed(c, u) == \E r \in redeemed : r.code = c /\ r.user = u

CheckEligibility(a) ==
  /\ apply[a].pc = "check"
  /\ To(a, IF Redeemed(apply[a].code, apply[a].user) THEN "failed" ELSE "claim")
  /\ UNCHANGED <<code, redeemed, tenant, sweep, now>>

Redemption(a) ==
  LET c == apply[a].code IN
  [code |-> c, user |-> apply[a].user, plan |-> PlanOf[c],
   end |-> IF c \in Trial THEN now + Days ELSE 0]

\* Variant: the trial is given before the transaction commits, which fails.
ClaimGivesFirst(a) ==
  LET c == apply[a].code
      t == TenantOf[apply[a].user]
      ok == code[c].uses < MaxUses[c] /\ ~Redeemed(c, apply[a].user)
  IN /\ apply[a].pc = "claim"
     /\ tenant' = IF c \in Trial THEN [tenant EXCEPT ![t].plan = PlanOf[c]] ELSE tenant
     /\ code' = IF ok THEN [code EXCEPT ![c].uses = @ + 1] ELSE code
     /\ redeemed' = IF ok THEN redeemed \cup {Redemption(a)} ELSE redeemed
     /\ To(a, IF ok THEN "applied" ELSE "failed")
     /\ UNCHANGED <<sweep, now>>

\* The transaction: the claim counts the uses again, the unique key of the
\* redemptions rejects a second one, and either rejection undoes both.
\* Neither the activity nor the validity is looked at again.
Claim(a) ==
  LET c == apply[a].code
      ok == code[c].uses < MaxUses[c] /\ ~Redeemed(c, apply[a].user)
  IN /\ apply[a].pc = "claim"
     /\ code' = IF ok THEN [code EXCEPT ![c].uses = @ + 1] ELSE code
     /\ redeemed' = IF ok THEN redeemed \cup {Redemption(a)} ELSE redeemed
     /\ To(a, IF ok THEN "give" ELSE "failed")
     /\ UNCHANGED <<tenant, sweep, now>>

\* provisionTrial, whatever the plan is by now; applyDiscount needs a
\* subscription.
Give(a) ==
  LET c == apply[a].code
      t == TenantOf[apply[a].user]
  IN /\ apply[a].pc = "give"
     /\ tenant' = IF c \in Trial THEN [tenant EXCEPT ![t].plan = PlanOf[c]] ELSE tenant
     /\ To(a, IF c \in Trial \/ tenant[t].bought THEN "applied" ELSE "failed")
     /\ UNCHANGED <<code, redeemed, sweep, now>>

\* A statement or a call to Stripe fails, or the process ends; what was
\* committed before stays.
ApplyFails(a) ==
  /\ apply[a].pc \in {"check", "claim", "give"}
  /\ To(a, "failed")
  /\ UNCHANGED <<code, redeemed, tenant, sweep, now>>

-------------------------------------------------------------------------------
(* CheckTrialExpiry.                                                         *)

Expired(t) ==
  {r \in redeemed : TenantOf[r.user] = t /\ r.code \in Trial /\ r.end < now}

Query ==
  /\ sweep = {}
  /\ sweep' = {[tenant |-> t, plan |-> tenant[t].plan] :
                 t \in {u \in Tenants : tenant[u].plan \in {r.plan : r \in Expired(u)}}}
  /\ sweep' # {}
  /\ UNCHANGED <<code, redeemed, tenant, apply, now>>

\* Variant: the plan is not compared.
DowngradeAnyPlan(e) ==
  /\ e \in sweep /\ sweep' = sweep \ {e}
  /\ tenant' = [tenant EXCEPT ![e.tenant].plan = "free"]
  /\ UNCHANGED <<code, redeemed, apply, now>>

\* WHERE id = $2 AND plan = $3; a subscription is not looked at.
Downgrade(e) ==
  /\ e \in sweep /\ sweep' = sweep \ {e}
  /\ tenant' = [tenant EXCEPT ![e.tenant].plan = IF @ = e.plan THEN "free" ELSE @]
  /\ UNCHANGED <<code, redeemed, apply, now>>

DowngradeFails(e) ==
  /\ e \in sweep /\ sweep' = sweep \ {e}
  /\ UNCHANGED <<code, redeemed, tenant, apply, now>>

Next ==
  \/ Tick \/ Query
  \/ \E c \in Codes : Deactivate(c)
  \/ \E t \in Tenants : Cancel(t) \/ \E p \in Plans : Buy(t, p)
  \/ \E a \in Applies :
       \/ \E c \in Codes, u \in Users : LookupCode(a, c, u)
       \/ CheckEligibility(a) \/ Claim(a) \/ Give(a) \/ ApplyFails(a)
  \/ \E e \in sweep : Downgrade(e) \/ DowngradeFails(e)

Spec == Init /\ [][Next]_vars

-------------------------------------------------------------------------------
(* Properties.                                                               *)

Of(rows, c) == {r \in rows : r.code = c}

\* The uses of a code are its redemptions, one of a user and no more than it
\* allows, whatever the requests do that had all found it free
\* (promo.go:101).
UsesAreRedemptions ==
  \A c \in Codes :
    /\ code[c].uses = Cardinality(Of(redeemed, c)) /\ code[c].uses <= MaxUses[c]
    /\ \A r, s \in Of(redeemed, c) : r.user = s.user => r = s

\* A plan that is neither free nor bought was given for a redemption with an
\* end, so that a sweep can find it (promo.go:144).
GrantedIsRecorded ==
  \A t \in Tenants :
    tenant[t].plan # "free" /\ ~tenant[t].bought =>
      \E r \in redeemed : TenantOf[r.user] = t /\ r.code \in Trial /\ r.plan = tenant[t].plan

\* A sweep ends a plan only if a trial of it has expired, even if the tenant
\* changed its plan after the query (promo_trial.go:100).
OnlyTrialsEnd ==
  [][\A t \in Tenants :
       tenant[t].plan # "free" /\ tenant'[t].plan = "free" /\ tenant'[t].bought = tenant[t].bought
       => \E r \in Expired(t) : r.plan = tenant[t].plan]_vars

\* Uses, redemptions and plans that were given agree (promo.go:95-160).
CodesAccounted == TypeOK /\ UsesAreRedemptions /\ GrantedIsRecorded
===============================================================================
