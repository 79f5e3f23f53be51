----------------------------- MODULE TablesProofs -----------------------------
(***************************************************************************)
(* Proofs about the parts of MCTables, each for any values of its          *)
(* constants: a part's steps keep its invariant, and a step of another     *)
(* part leaves its variables alone.                                        *)
(***************************************************************************)
EXTENDS MCTables, FiniteSetTheorems, WellFoundedInduction, TLAPS
-------------------------------------------------------------------------------
(* Promo codes.                                                            *)

\* The cardinality of PromoCodes is the cardinality.
LEMMA PromoCardinality == ASSUME NEW set PROVE P!Cardinality(set) = Cardinality(set)
  BY Zenon DEF P!Cardinality, Cardinality

\* The redemption of a's code by a's user is on record.
OnRecord(a) ==
  \E r \in redeemed : r.code = apply[a].code /\ r.user = apply[a].user
                      /\ r.plan = PlanOf[apply[a].code]

\* What is about to be given is on record, and what the sweep is about to end
\* has expired.
PromoInv ==
  /\ P!TypeOK
  /\ P!UsesAreRedemptions
  /\ P!GrantedIsRecorded
  /\ \A c \in Codes : IsFiniteSet(P!Of(redeemed, c))
  /\ \A a \in Processes : apply[a].pc = "give" => OnRecord(a)
  /\ \A e \in sweep : \E r \in P!Expired(e.tenant) : r.plan = e.plan

Redemptions == [code : Codes, user : Users, plan : Plans, end : 0 .. PromoTime + Days]
Requested == [pc : {"idle", "check", "claim", "give", "applied", "failed"},
              code : Codes, user : Users]

\* A step that changes only the request a, and not to "give".
LEMMA RequestStep ==
  ASSUME P!PromoAssumption, PromoInv, NEW a \in Processes, NEW d \in Requested,
         d.pc # "give", apply' = [apply EXCEPT ![a] = d],
         UNCHANGED <<code, redeemed, tenant, sweep, week>>
  PROVE  PromoInv'
<1>1. apply \in [Processes -> Requested] /\ apply' \in [Processes -> Requested]
  BY DEF PromoInv, P!TypeOK, Requested
<1>2. \A o \in Processes : apply'[o].pc = "give" => o # a /\ apply'[o] = apply[o]
  BY <1>1
<1>3. \A o \in Processes : apply'[o].pc = "give" => OnRecord(o)'
  BY <1>2 DEF PromoInv, OnRecord
<1>4. P!TypeOK'
  BY <1>1 DEF PromoInv, P!TypeOK, Requested
<1>5. QED
  BY <1>3, <1>4 DEF PromoInv, P!UsesAreRedemptions, P!GrantedIsRecorded, P!Expired

LEMMA ToStep ==
  ASSUME P!PromoAssumption, PromoInv, NEW a \in Processes,
         NEW pc \in {"idle", "check", "claim", "applied", "failed"}, P!To(a, pc),
         UNCHANGED <<code, redeemed, tenant, sweep, week>>
  PROVE  PromoInv'
<1> DEFINE d == [apply[a] EXCEPT !.pc = pc]
<1>1. apply \in [Processes -> Requested]
  BY DEF PromoInv, P!TypeOK, Requested
<1>2. d \in Requested /\ d.pc = pc /\ apply' = [apply EXCEPT ![a] = d]
  BY <1>1 DEF P!To, Requested
<1>3. QED
  BY <1>2, RequestStep

\* The tenants' plans change, and each that is not free and not bought is on
\* record.
LEMMA TenantStep ==
  ASSUME P!PromoAssumption, PromoInv, NEW t \in Tenants,
         NEW d \in [plan : Plans \cup {"free"}, bought : BOOLEAN],
         tenant' = [tenant EXCEPT ![t] = d],
         d.plan # "free" /\ ~d.bought =>
           \E r \in redeemed : TenantOf[r.user] = t /\ r.code \in Trial /\ r.plan = d.plan,
         UNCHANGED <<code, redeemed, week>>
  PROVE  P!UsesAreRedemptions' /\ P!GrantedIsRecorded'
         /\ tenant' \in [Tenants -> [plan : Plans \cup {"free"}, bought : BOOLEAN]]
<1>1. tenant \in [Tenants -> [plan : Plans \cup {"free"}, bought : BOOLEAN]]
  BY DEF PromoInv, P!TypeOK
<1>2. tenant' \in [Tenants -> [plan : Plans \cup {"free"}, bought : BOOLEAN]]
      /\ \A o \in Tenants : tenant'[o] = IF o = t THEN d ELSE tenant[o]
  BY <1>1
<1>3. P!GrantedIsRecorded'
  BY <1>2 DEF PromoInv, P!GrantedIsRecorded
<1>4. QED
  BY <1>2, <1>3 DEF PromoInv, P!UsesAreRedemptions

LEMMA ClaimStep ==
  ASSUME P!PromoAssumption, PromoInv, NEW a \in Processes, P!Claim(a)
  PROVE  PromoInv'
<1> DEFINE c == apply[a].code
           u == apply[a].user
           new == P!Redemption(a)
<1>1. /\ apply \in [Processes -> Requested] /\ c \in Codes /\ u \in Users
      /\ redeemed \subseteq Redemptions
      /\ code \in [Codes -> [uses : Nat, active : BOOLEAN]]
      /\ week \in 0 .. PromoTime
      /\ MaxUses[c] \in Nat
  BY DEF PromoInv, P!TypeOK, Requested, Redemptions, P!PromoAssumption
<1>2. CASE ~ (code[c].uses < MaxUses[c] /\ ~ P!Redeemed(c, u))
  <2>1. P!To(a, "failed") /\ UNCHANGED <<code, redeemed, tenant, sweep, week>>
    BY <1>2 DEF P!Claim
  <2>2. QED
    BY <2>1, ToStep
<1>3. CASE code[c].uses < MaxUses[c] /\ ~ P!Redeemed(c, u)
  <2>1. /\ code' = [code EXCEPT ![c].uses = @ + 1]
        /\ redeemed' = redeemed \cup {new}
        /\ P!To(a, "give")
        /\ UNCHANGED <<tenant, sweep, week>>
    BY <1>3 DEF P!Claim
  <2>2. new.code = c /\ new.user = u /\ new.plan = PlanOf[c] /\ new \in Redemptions
    <3>1. PlanOf[c] \in Plans
      BY <1>1 DEF P!PromoAssumption
    <3>2. (IF c \in Trial THEN week + Days ELSE 0) \in 0 .. PromoTime + Days
      BY <1>1 DEF P!PromoAssumption
    <3>3. QED
      BY <1>1, <3>1, <3>2 DEF P!Redemption, Redemptions
  <2>3. \A r \in redeemed : ~ (r.code = c /\ r.user = u)
    BY <1>3 DEF P!Redeemed
  <2> HIDE DEF new
  <2>4. /\ code' \in [Codes -> [uses : Nat, active : BOOLEAN]]
        /\ code'[c].uses = code[c].uses + 1 /\ code'[c].uses <= MaxUses[c]
        /\ \A o \in Codes : o # c => code'[o] = code[o]
    <3>1. code[c].uses \in Nat /\ code[c].active \in BOOLEAN
      BY <1>1
    <3>2. code' = [code EXCEPT ![c] = [code[c] EXCEPT !.uses = code[c].uses + 1]]
      BY <2>1
    <3>3. [code[c] EXCEPT !.uses = code[c].uses + 1] \in [uses : Nat, active : BOOLEAN]
      BY <1>1, <3>1
    <3>4. code'[c].uses = code[c].uses + 1
      BY <1>1, <3>2
    <3>5. QED
      BY <1>1, <1>3, <3>1, <3>2, <3>3, <3>4
  <2>5. /\ apply' \in [Processes -> Requested]
        /\ apply'[a].code = c /\ apply'[a].user = u
        /\ \A o \in Processes : o # a => apply'[o] = apply[o]
    BY <1>1, <2>1 DEF P!To, Requested
  <2>6. P!TypeOK'
    <3>1. \A o \in Codes : code'[o].uses <= MaxUses[o]
      BY <2>4 DEF PromoInv, P!TypeOK
    <3>2. redeemed' \subseteq Redemptions
      BY <1>1, <2>1, <2>2
    <3>3. QED
      BY <2>1, <2>4, <2>5, <3>1, <3>2 DEF PromoInv, P!TypeOK, Requested, Redemptions
  <2>7. /\ P!Of(redeemed', c) = P!Of(redeemed, c) \cup {new} /\ new \notin P!Of(redeemed, c)
        /\ \A o \in Codes : o # c => P!Of(redeemed', o) = P!Of(redeemed, o)
    BY <2>1, <2>2, <2>3 DEF P!Of
  <2>8. IsFiniteSet(P!Of(redeemed', c)) /\ Cardinality(P!Of(redeemed', c)) = Cardinality(P!Of(redeemed, c)) + 1
    <3>1. IsFiniteSet(P!Of(redeemed, c))
      BY <1>1 DEF PromoInv
    <3>2. QED
      BY <2>7, <3>1, FS_AddElement
  <2>9. P!UsesAreRedemptions'
    <3>1. ASSUME NEW o \in Codes PROVE code'[o].uses = Cardinality(P!Of(redeemed', o))
      <4>1. code[o].uses = Cardinality(P!Of(redeemed, o))
        BY PromoCardinality DEF PromoInv, P!UsesAreRedemptions
      <4>2. QED
        BY <2>4, <2>7, <2>8, <4>1
    <3>2. ASSUME NEW o \in Codes, NEW r \in P!Of(redeemed', o), NEW s \in P!Of(redeemed', o), r.user = s.user
          PROVE  r = s
      <4>1. \A x, y \in P!Of(redeemed, o) : x.user = y.user => x = y
        BY DEF PromoInv, P!UsesAreRedemptions
      <4>2. \A x \in P!Of(redeemed, c) : x.user # u
        BY <2>3 DEF P!Of
      <4>3. QED
        BY <2>2, <2>7, <3>2, <4>1, <4>2
    <3>3. \A o \in Codes : code'[o].uses <= MaxUses[o]
      BY <2>6 DEF P!TypeOK
    <3>4. QED
      BY <3>1, <3>2, <3>3, PromoCardinality DEF P!UsesAreRedemptions
  <2>10. P!GrantedIsRecorded'
    BY <2>1 DEF PromoInv, P!GrantedIsRecorded
  <2>11. \A o \in Codes : IsFiniteSet(P!Of(redeemed', o))
    BY <2>7, <2>8 DEF PromoInv
  <2>12. \A o \in Processes : apply'[o].pc = "give" => OnRecord(o)'
    BY <2>1, <2>2, <2>5 DEF PromoInv, OnRecord
  <2>13. \A e \in sweep' : \E r \in P!Expired(e.tenant)' : r.plan = e.plan
    BY <2>1 DEF PromoInv, P!Expired
  <2>14. QED
    BY <2>6, <2>9, <2>10, <2>11, <2>12, <2>13 DEF PromoInv
<1>4. QED
  BY <1>2, <1>3

LEMMA GiveStep ==
  ASSUME P!PromoAssumption, PromoInv, NEW a \in Processes, P!Give(a)
  PROVE  PromoInv'
<1> DEFINE c == apply[a].code
           t == TenantOf[apply[a].user]
           pc == IF c \in Trial \/ tenant[t].bought THEN "applied" ELSE "failed"
<1>1. /\ apply \in [Processes -> Requested] /\ c \in Codes /\ apply[a].user \in Users
      /\ t \in Tenants /\ PlanOf[c] \in Plans
  BY DEF PromoInv, P!TypeOK, Requested, P!PromoAssumption
<1>2. P!To(a, pc) /\ UNCHANGED <<code, redeemed, sweep, week>> /\ apply[a].pc = "give"
  BY DEF P!Give
<1>3. PICK r \in redeemed : r.code = c /\ r.user = apply[a].user /\ r.plan = PlanOf[c]
  BY <1>2 DEF PromoInv, OnRecord
<1>4. /\ tenant' \in [Tenants -> [plan : Plans \cup {"free"}, bought : BOOLEAN]]
      /\ P!UsesAreRedemptions' /\ P!GrantedIsRecorded'
  <2>1. CASE c \in Trial
    <3> DEFINE d == [tenant[t] EXCEPT !.plan = PlanOf[c]]
    <3>1. tenant' = [tenant EXCEPT ![t] = d]
      BY <2>1 DEF P!Give
    <3>2. d \in [plan : Plans \cup {"free"}, bought : BOOLEAN] /\ d.plan = PlanOf[c]
      BY <1>1, SMTT(20) DEF PromoInv, P!TypeOK
    <3>3. TenantOf[r.user] = t /\ r.code \in Trial /\ r.plan = PlanOf[c]
      BY <1>3, <2>1
    <3> HIDE DEF d
    <3>4. QED
      BY <1>1, <1>2, <3>1, <3>2, <3>3, TenantStep
  <2>2. CASE c \notin Trial
    <3>1. UNCHANGED tenant
      BY <2>2 DEF P!Give
    <3>2. QED
      BY <1>2, <3>1 DEF PromoInv, P!TypeOK, P!UsesAreRedemptions, P!GrantedIsRecorded
  <2>3. QED
    BY <2>1, <2>2
<1>5. /\ apply' \in [Processes -> Requested] /\ apply'[a].pc # "give"
      /\ \A o \in Processes : o # a => apply'[o] = apply[o]
  <2>1. pc \in {"applied", "failed"}
    OBVIOUS
  <2> HIDE DEF pc
  <2>2. QED
    BY <1>1, <1>2, <2>1 DEF P!To, Requested
<1>6. P!TypeOK'
  BY <1>2, <1>4, <1>5 DEF PromoInv, P!TypeOK, Requested
<1>7. \A o \in Processes : apply'[o].pc = "give" => OnRecord(o)'
  BY <1>2, <1>5 DEF PromoInv, OnRecord
<1>8. QED
  BY <1>2, <1>4, <1>6, <1>7 DEF PromoInv, P!Expired

LEMMA SweepStep ==
  ASSUME P!PromoAssumption, PromoInv, NEW e \in sweep, P!Downgrade(e) \/ P!DowngradeFails(e)
  PROVE  PromoInv'
<1> DEFINE t == e.tenant
<1>1. t \in Tenants /\ sweep' \subseteq sweep /\ UNCHANGED <<code, redeemed, apply, week>>
  BY DEF PromoInv, P!TypeOK, P!Downgrade, P!DowngradeFails
<1>2. /\ tenant' \in [Tenants -> [plan : Plans \cup {"free"}, bought : BOOLEAN]]
      /\ P!UsesAreRedemptions' /\ P!GrantedIsRecorded'
  <2>1. CASE UNCHANGED tenant
    BY <1>1, <2>1 DEF PromoInv, P!TypeOK, P!UsesAreRedemptions, P!GrantedIsRecorded
  <2>2. CASE P!Downgrade(e)
    <3> DEFINE d == [tenant[t] EXCEPT !.plan = IF @ = e.plan THEN "free" ELSE @]
    <3>1. tenant' = [tenant EXCEPT ![t] = d]
      BY <2>2 DEF P!Downgrade
    <3>2. tenant[t] \in [plan : Plans \cup {"free"}, bought : BOOLEAN]
      BY <1>1 DEF PromoInv, P!TypeOK
    <3>3. /\ d \in [plan : Plans \cup {"free"}, bought : BOOLEAN]
          /\ d.plan # "free" => d.plan = tenant[t].plan
          /\ d.bought = tenant[t].bought
      BY <3>2
    <3>4. d.plan # "free" /\ ~d.bought =>
            \E r \in redeemed : TenantOf[r.user] = t /\ r.code \in Trial /\ r.plan = d.plan
      BY <1>1, <3>3 DEF PromoInv, P!GrantedIsRecorded
    <3> HIDE DEF d
    <3>5. QED
      BY <1>1, <3>1, <3>3, <3>4, TenantStep
  <2>3. QED
    BY <2>1, <2>2 DEF P!DowngradeFails
<1>3. QED
  BY <1>1, <1>2 DEF PromoInv, P!TypeOK, OnRecord, P!Expired

LEMMA QueryStep ==
  ASSUME P!PromoAssumption, PromoInv, P!Query PROVE PromoInv'
<1>1. UNCHANGED <<code, redeemed, tenant, apply, week>>
  BY DEF P!Query
<1>2. ASSUME NEW e \in sweep'
      PROVE  /\ e \in [tenant : Tenants, plan : Plans]
             /\ \E r \in P!Expired(e.tenant)' : r.plan = e.plan
  <2>1. PICK t \in Tenants : /\ tenant[t].plan \in {r.plan : r \in P!Expired(t)}
                             /\ e = [tenant |-> t, plan |-> tenant[t].plan]
    BY <1>2 DEF P!Query
  <2>2. PICK r \in P!Expired(t) : r.plan = tenant[t].plan
    BY <2>1
  <2>3. r \in redeemed /\ r.plan \in Plans
    BY <2>2 DEF PromoInv, P!TypeOK, P!Expired
  <2>4. P!Expired(e.tenant)' = P!Expired(t)
    BY <1>1, <2>1 DEF P!Expired
  <2>5. QED
    BY <2>1, <2>2, <2>3, <2>4
<1>3. sweep' \subseteq [tenant : Tenants, plan : Plans]
  BY <1>2
<1>4. QED
  BY <1>1, <1>2, <1>3 DEF PromoInv, P!TypeOK, OnRecord, P!UsesAreRedemptions,
     P!GrantedIsRecorded

LEMMA PromoStep ==
  ASSUME P!PromoAssumption PROVE PromoInv /\ [P!Next]_promo => PromoInv'
<1> SUFFICES ASSUME PromoInv, [P!Next]_promo PROVE PromoInv'
  OBVIOUS
<1>1. CASE P!Tick
  <2>1. week' = week + 1 /\ week' \in 0 .. PromoTime /\ UNCHANGED <<code, redeemed, tenant, apply, sweep>>
    BY <1>1 DEF P!Tick, PromoInv, P!TypeOK, P!PromoAssumption
  <2>2. ASSUME NEW e \in sweep PROVE \E r \in P!Expired(e.tenant)' : r.plan = e.plan
    <3>1. PICK r \in P!Expired(e.tenant) : r.plan = e.plan
      BY DEF PromoInv
    <3>2. r \in redeemed /\ r.end \in Nat /\ week \in Nat /\ r.end < week
      BY <3>1 DEF PromoInv, P!TypeOK, P!Expired, P!PromoAssumption
    <3>3. r \in P!Expired(e.tenant)'
      BY <2>1, <3>1, <3>2 DEF P!Expired
    <3>4. QED
      BY <3>1, <3>3
  <2>3. QED
    BY <2>1, <2>2 DEF PromoInv, P!TypeOK, OnRecord, P!UsesAreRedemptions, P!GrantedIsRecorded
<1>2. CASE P!Query
  BY <1>2, QueryStep
<1>3. ASSUME NEW c \in Codes, P!Deactivate(c) PROVE PromoInv'
  <2>1. /\ code' \in [Codes -> [uses : Nat, active : BOOLEAN]]
        /\ \A o \in Codes : code'[o].uses = code[o].uses
    BY <1>3 DEF P!Deactivate, PromoInv, P!TypeOK
  <2>2. UNCHANGED <<redeemed, tenant, apply, sweep, week>>
    BY <1>3 DEF P!Deactivate
  <2>3. QED
    BY <2>1, <2>2 DEF PromoInv, P!TypeOK, OnRecord, P!UsesAreRedemptions, P!GrantedIsRecorded,
       P!Expired
<1>4. ASSUME NEW t \in Tenants, P!Cancel(t) \/ \E p \in Plans : P!Buy(t, p) PROVE PromoInv'
  <2>1. PICK d \in [plan : Plans \cup {"free"}, bought : BOOLEAN] :
          /\ tenant' = [tenant EXCEPT ![t] = d] /\ (d.plan = "free" \/ d.bought)
    <3>1. CASE P!Cancel(t)
      <4>1. [plan |-> "free", bought |-> FALSE] \in [plan : Plans \cup {"free"}, bought : BOOLEAN]
        OBVIOUS
      <4>2. QED
        BY <3>1, <4>1 DEF P!Cancel
    <3>2. ASSUME NEW p \in Plans, P!Buy(t, p)
          PROVE  \E d \in [plan : Plans \cup {"free"}, bought : BOOLEAN] :
                   /\ tenant' = [tenant EXCEPT ![t] = d] /\ (d.plan = "free" \/ d.bought)
      <4>1. [plan |-> p, bought |-> TRUE] \in [plan : Plans \cup {"free"}, bought : BOOLEAN]
        OBVIOUS
      <4>2. QED
        BY <3>2, <4>1 DEF P!Buy
    <3>3. QED
      BY <1>4, <3>1, <3>2
  <2>2. UNCHANGED <<code, redeemed, apply, sweep, week>>
    BY <1>4 DEF P!Cancel, P!Buy
  <2>3. /\ tenant' \in [Tenants -> [plan : Plans \cup {"free"}, bought : BOOLEAN]]
        /\ P!UsesAreRedemptions' /\ P!GrantedIsRecorded'
    BY <2>1, <2>2, TenantStep
  <2>4. QED
    BY <2>2, <2>3 DEF PromoInv, P!TypeOK, OnRecord, P!Expired
<1>5. ASSUME NEW a \in Processes, NEW c \in Codes, NEW u \in Users, P!LookupCode(a, c, u)
      PROVE  PromoInv'
  <2>1. PICK pc \in {"check", "failed"} :
          apply' = [apply EXCEPT ![a] = [pc |-> pc, code |-> c, user |-> u]]
    BY <1>5 DEF P!LookupCode
  <2>2. [pc |-> pc, code |-> c, user |-> u] \in Requested
    BY DEF Requested
  <2>3. UNCHANGED <<code, redeemed, tenant, sweep, week>>
    BY <1>5 DEF P!LookupCode
  <2>4. QED
    BY <2>1, <2>2, <2>3, RequestStep
<1>6. ASSUME NEW a \in Processes, P!CheckEligibility(a) \/ P!ApplyFails(a) PROVE PromoInv'
  <2>1. \E pc \in {"idle", "check", "claim", "applied", "failed"} : P!To(a, pc)
    BY <1>6 DEF P!CheckEligibility, P!ApplyFails
  <2>2. UNCHANGED <<code, redeemed, tenant, sweep, week>>
    BY <1>6 DEF P!CheckEligibility, P!ApplyFails
  <2>3. QED
    BY <2>1, <2>2, ToStep
<1>7. ASSUME NEW a \in Processes, P!Claim(a) \/ P!Give(a) PROVE PromoInv'
  BY <1>7, ClaimStep, GiveStep
<1>8. ASSUME NEW e \in sweep, P!Downgrade(e) \/ P!DowngradeFails(e) PROVE PromoInv'
  BY <1>8, SweepStep
<1>9. CASE UNCHANGED promo
  BY <1>9 DEF promo, PromoInv, P!TypeOK, OnRecord, P!UsesAreRedemptions, P!GrantedIsRecorded,
     P!Expired
<1>10. QED
  BY <1>1, <1>2, <1>3, <1>4, <1>5, <1>6, <1>7, <1>8, <1>9 DEF P!Next

LEMMA PromoInit ==
  ASSUME P!PromoAssumption, P!Init PROVE PromoInv
<1>1. apply \in [Processes -> Requested] /\ \A a \in Processes : apply[a].pc = "idle"
  <2>1. (CHOOSE c \in Codes : TRUE) \in Codes /\ (CHOOSE u \in Users : TRUE) \in Users
    BY DEF P!PromoAssumption
  <2>2. P!NoApply \in Requested /\ P!NoApply.pc = "idle"
    BY <2>1 DEF P!NoApply, Requested
  <2> HIDE DEF P!NoApply
  <2>3. QED
    BY <2>2 DEF P!Init
<1>2. P!TypeOK
  BY <1>1 DEF P!Init, P!TypeOK, Requested, P!PromoAssumption
<1>3. \A c \in Codes : P!Of(redeemed, c) = {}
  BY DEF P!Init, P!Of
<1>4. P!UsesAreRedemptions /\ \A c \in Codes : IsFiniteSet(P!Of(redeemed, c))
  <2>1. Cardinality({}) = 0 /\ IsFiniteSet({})
    BY FS_EmptySet
  <2>2. QED
    BY <1>2, <1>3, <2>1, PromoCardinality DEF P!Init, P!UsesAreRedemptions, P!TypeOK
<1>5. P!GrantedIsRecorded
  BY DEF P!Init, P!GrantedIsRecorded
<1>6. QED
  BY <1>1, <1>2, <1>4, <1>5 DEF PromoInv, P!Init

\* Only the sweep makes a plan free whose subscription does not change.
LEMMA PlanEnds ==
  ASSUME P!PromoAssumption, PromoInv, P!Next, NEW t \in Tenants,
         tenant[t].plan # "free", tenant'[t].plan = "free", tenant'[t].bought = tenant[t].bought
  PROVE  \E r \in P!Expired(t) : r.plan = tenant[t].plan
<1>1. tenant \in [Tenants -> [plan : Plans \cup {"free"}, bought : BOOLEAN]] /\ "free" \notin Plans
  BY DEF PromoInv, P!TypeOK, P!PromoAssumption
<1>2. ASSUME NEW o \in Tenants PROVE ~P!Cancel(o) /\ \A p \in Plans : ~P!Buy(o, p)
  BY <1>1 DEF P!Cancel, P!Buy
<1>3. ASSUME NEW a \in Processes, P!Give(a) PROVE FALSE
  <2>1. PlanOf[apply[a].code] \in Plans
    BY DEF PromoInv, P!TypeOK, P!PromoAssumption
  <2>2. QED
    BY <1>1, <1>3, <2>1 DEF P!Give
<1>4. tenant' # tenant
  OBVIOUS
<1>5. PICK e \in sweep : P!Downgrade(e)
  BY <1>2, <1>3, <1>4 DEF P!Next, P!Tick, P!Query, P!Deactivate, P!LookupCode,
     P!CheckEligibility, P!Claim, P!ApplyFails, P!DowngradeFails
<1>6. e.tenant = t /\ e.plan = tenant[t].plan
  BY <1>1, <1>5 DEF P!Downgrade, PromoInv, P!TypeOK
<1>7. QED
  BY <1>6 DEF PromoInv

\* Every step of the whole is one of the promo codes or leaves them alone.
LEMMA PromoOfAll == Init /\ [][Next]_vars => P!Init /\ [][P!Next]_promo
<1>1. Init => P!Init
  BY DEF Init
<1>2. [Next]_vars => [P!Next]_promo
  BY DEF Next, vars, promo
<1>3. QED
  BY <1>1, <1>2, PTL

\* The uses of a code are its redemptions, one of a user, and no more than it
\* allows; a plan neither free nor bought has its redemption on record; and the
\* sweep ends only a plan of which a trial has expired: whatever codes,
\* tenants and requests there are (promo.go:95-160, promo_trial.go:100).
THEOREM CodesStayKept ==
  ASSUME P!PromoAssumption PROVE Spec => CodesKept
<1>1. P!Init => PromoInv
  BY PromoInit
<1>2. PromoInv /\ [P!Next]_promo => PromoInv'
  BY PromoStep
<1>3. PromoInv => P!CodesAccounted
  BY DEF PromoInv, P!CodesAccounted
<1>4. PromoInv /\ [P!Next]_promo =>
        [\A t \in Tenants :
           tenant[t].plan # "free" /\ tenant'[t].plan = "free" /\ tenant'[t].bought = tenant[t].bought
           => \E r \in P!Expired(t) : r.plan = tenant[t].plan]_P!vars
  BY PlanEnds DEF P!vars, promo
<1>5. QED
  BY <1>1, <1>2, <1>3, <1>4, PromoOfAll, PTL DEF Spec, CodesKept, P!OnlyTrialsEnd
-------------------------------------------------------------------------------
(* Extraction of tasks.                                                    *)

TitleOf(d) == Items[d.email][d.item]
Looked == {"similar", "insert"}

\* A worker that processes an email is at one of its items.
WorkShape(d) ==
  \/ d = E!Idle
  \/ /\ d \in [pc : {"check", "similar", "insert"}, email : Emails, item : Nat]
     /\ d.item \in DOMAIN Items[d.email]

\* Who has found no task of its email is the only one of it, and there is
\* still none.
AloneWithEmail ==
  \A w \in Processes :
    work[w].pc \in Looked /\ work[w].email \notin loose \cup {Manual} =>
      /\ \A i \in DOMAIN rows : rows[i].email # work[w].email
      /\ \A o \in Processes : work[o].pc \in Looked /\ work[o].email = work[w].email => o = w

\* Who has found no similar task is the only one about to insert its title,
\* and what has been open all the time is older than the window.
AloneWithTitle ==
  \A w \in Processes :
    work[w].pc = "insert" /\ TitleOf(work[w]) \notin loose =>
      /\ \A i \in DOMAIN rows :
           rows[i].title = TitleOf(work[w]) /\ ~rows[i].ever => time - rows[i].created >= Window
      /\ \A o \in Processes :
           work[o].pc = "insert" /\ TitleOf(work[o]) = TitleOf(work[w]) => o = w

Shaped == DOMAIN work = Processes /\ work = [w \in Processes |-> work[w]]
          /\ \A w \in Processes : WorkShape(work[w])

ExtractionInv ==
  /\ E!TypeOK
  /\ E!OnePerEmail
  /\ E!SimilarOnce
  /\ Shaped
  /\ \A i \in DOMAIN rows : ~rows[i].ever => rows[i].open
  /\ AloneWithEmail
  /\ AloneWithTitle

Rows == [email : Emails \cup {Manual}, title : E!Titles, open : BOOLEAN,
         created : Nat, ever : BOOLEAN]

LEMMA RowsShape ==
  ASSUME E!TypeOK
  PROVE  /\ rows \in Seq(Rows) /\ Len(rows) \in Nat /\ DOMAIN rows = 1 .. Len(rows)
         /\ \A i \in DOMAIN rows : rows[i] \in Rows
<1>1. rows \in Seq(Rows)
  BY DEF E!TypeOK, Rows
<1>2. QED
  BY <1>1

\* What is extracted is a title.
LEMMA TitleIsTitle ==
  ASSUME E!ExtractionAssumption, NEW d, WorkShape(d), d.pc # "idle"
  PROVE  d.email \in Emails /\ TitleOf(d) \in E!Titles
<1>1. Items \in [Emails -> Seq(E!Titles)]
  BY DEF E!ExtractionAssumption
<1>2. d.email \in Emails /\ d.item \in DOMAIN Items[d.email]
  BY DEF WorkShape, E!Idle
<1>3. QED
  BY <1>1, <1>2 DEF TitleOf

\* A step that moves one worker and may add to loose.
LEMMA WorkMoves ==
  ASSUME ExtractionInv, NEW w \in Processes, NEW d, WorkShape(d),
         work' = [work EXCEPT ![w] = d], UNCHANGED <<rows, time>>,
         loose \subseteq loose', loose' \subseteq Emails \cup E!Titles,
         errors' \in 0 .. MaxErrors,
         d.pc \in Looked /\ d.email \notin loose' \cup {Manual} =>
           /\ \A i \in DOMAIN rows : rows[i].email # d.email
           /\ \A o \in Processes : work[o].pc \in Looked /\ work[o].email = d.email => o = w,
         d.pc = "insert" /\ TitleOf(d) \notin loose' =>
           /\ \A i \in DOMAIN rows :
                rows[i].title = TitleOf(d) /\ ~rows[i].ever => time - rows[i].created >= Window
           /\ \A o \in Processes : work[o].pc = "insert" /\ TitleOf(work[o]) = TitleOf(d) => o = w
  PROVE  ExtractionInv'
<1>1. \A o \in Processes : work'[o] = IF o = w THEN d ELSE work[o]
  BY DEF ExtractionInv, Shaped
<1>2. Shaped'
  <2>1. DOMAIN work' = Processes /\ work' = [o \in Processes |-> work'[o]]
    BY DEF ExtractionInv, Shaped
  <2>2. \A o \in Processes : WorkShape(work'[o])
    BY <1>1 DEF ExtractionInv, Shaped
  <2>3. QED
    BY <2>1, <2>2 DEF Shaped, WorkShape, E!Idle
<1>3. E!TypeOK'
  <2>1. \A o \in Processes : work'[o].pc \in {"idle", "check", "similar", "insert"}
    BY <1>1 DEF ExtractionInv, E!TypeOK, WorkShape, E!Idle
  <2>2. QED
    BY <2>1 DEF ExtractionInv, E!TypeOK
<1>4. AloneWithEmail'
  BY <1>1 DEF ExtractionInv, AloneWithEmail
<1>5. AloneWithTitle'
  <2>1. \A o \in Processes : TitleOf(work'[o]) = IF o = w THEN TitleOf(d) ELSE TitleOf(work[o])
    BY <1>1
  <2>2. \A o \in Processes : TitleOf(work[o])' = TitleOf(work'[o])
    BY DEF TitleOf
  <2>3. QED
    BY <1>1, <2>1, <2>2 DEF ExtractionInv, AloneWithTitle
<1>6. E!OnePerEmail' /\ E!SimilarOnce'
  BY DEF ExtractionInv, E!OnePerEmail, E!SimilarOnce
<1>7. QED
  BY <1>2, <1>3, <1>4, <1>5, <1>6 DEF ExtractionInv

\* The worker w, when it is not idle.
LEMMA Working ==
  ASSUME E!ExtractionAssumption, ExtractionInv, NEW w \in Processes, work[w].pc # "idle"
  PROVE  /\ work[w] \in [pc : {"check", "similar", "insert"}, email : Emails, item : Nat]
         /\ work[w].item \in DOMAIN Items[work[w].email]
         /\ TitleOf(work[w]) \in E!Titles /\ E!Title(w) = TitleOf(work[w])
         /\ Len(Items[work[w].email]) \in Nat
         /\ DOMAIN Items[work[w].email] = 1 .. Len(Items[work[w].email])
<1>1. WorkShape(work[w])
  BY DEF ExtractionInv, Shaped
<1>2. work[w] \in [pc : {"check", "similar", "insert"}, email : Emails, item : Nat]
      /\ work[w].item \in DOMAIN Items[work[w].email]
  BY <1>1 DEF WorkShape, E!Idle
<1>3. TitleOf(work[w]) \in E!Titles
  BY <1>1, TitleIsTitle
<1>4. Items[work[w].email] \in Seq(E!Titles)
  BY <1>2 DEF E!ExtractionAssumption
<1>5. E!Title(w) = TitleOf(work[w])
  BY DEF E!Title, TitleOf
<1>6. QED
  BY <1>2, <1>3, <1>4, <1>5

\* The next item begins with its check, and after the last one w is idle.
LEMMA NextItemMoves ==
  ASSUME E!ExtractionAssumption, ExtractionInv, NEW w \in Processes, work[w].pc # "idle",
         E!NextItem(w)
  PROVE  \E d : WorkShape(d) /\ d.pc \in {"idle", "check"} /\ work' = [work EXCEPT ![w] = d]
<1> DEFINE d == IF work[w].item < Len(Items[work[w].email])
                  THEN [work[w] EXCEPT !.pc = "check", !.item = work[w].item + 1] ELSE E!Idle
<1>1. work' = [work EXCEPT ![w] = d]
  BY DEF E!NextItem, ExtractionInv, Shaped
<1>2. CASE work[w].item < Len(Items[work[w].email])
  <2>1. d = [pc |-> "check", email |-> work[w].email, item |-> work[w].item + 1]
    BY <1>2, Working
  <2>2. work[w].item + 1 \in 1 .. Len(Items[work[w].email])
    BY <1>2, Working
  <2>3. WorkShape(d) /\ d.pc = "check"
    BY <2>1, <2>2, Working DEF WorkShape
  <2>4. QED
    BY <1>1, <2>3
<1>3. CASE ~ (work[w].item < Len(Items[work[w].email]))
  <2>1. d = E!Idle /\ WorkShape(E!Idle) /\ E!Idle.pc = "idle"
    BY <1>3 DEF WorkShape, E!Idle
  <2>2. QED
    BY <1>1, <2>1
<1>4. QED
  BY <1>2, <1>3

\* A worker that only changes its place.
LEMMA PlaceMoves ==
  ASSUME E!ExtractionAssumption, ExtractionInv, NEW w \in Processes, work[w].pc # "idle",
         NEW pc \in {"check", "similar", "insert"}, work' = [work EXCEPT ![w].pc = pc]
  PROVE  \E d : /\ WorkShape(d) /\ d.pc = pc /\ d.email = work[w].email
                /\ TitleOf(d) = TitleOf(work[w]) /\ work' = [work EXCEPT ![w] = d]
<1> DEFINE d == [work[w] EXCEPT !.pc = pc]
<1>1. d.pc = pc /\ d.email = work[w].email /\ d.item = work[w].item
      /\ d \in [pc : {"check", "similar", "insert"}, email : Emails, item : Nat]
  BY Working
<1>2. work' = [work EXCEPT ![w] = d]
  OBVIOUS
<1> HIDE DEF d
<1>3. WorkShape(d) /\ TitleOf(d) = TitleOf(work[w])
  BY <1>1, Working DEF WorkShape, TitleOf
<1>4. QED
  BY <1>1, <1>2, <1>3

LEMMA ProcessStep ==
  ASSUME E!ExtractionAssumption, ExtractionInv, NEW w \in Processes, NEW e \in Emails,
         E!Process(w, e)
  PROVE  ExtractionInv'
<1> DEFINE d == [pc |-> "check", email |-> e, item |-> 1]
<1>1. Items[e] \in Seq(E!Titles) /\ Items[e] # <<>>
  BY DEF E!Process, E!ExtractionAssumption
<1>2. 1 \in DOMAIN Items[e]
  BY <1>1
<1>3. WorkShape(d) /\ d.pc = "check"
  BY <1>2 DEF WorkShape
<1>4. work' = [work EXCEPT ![w] = d] /\ UNCHANGED <<rows, loose, time, errors>>
  BY DEF E!Process
<1>5. loose \subseteq Emails \cup E!Titles /\ errors \in 0 .. MaxErrors
  BY DEF ExtractionInv, E!TypeOK
<1> HIDE DEF d
<1>6. QED
  BY <1>3, <1>4, <1>5, WorkMoves DEF Looked

LEMMA CheckEmailStep ==
  ASSUME E!ExtractionAssumption, ExtractionInv, NEW w \in Processes, E!CheckEmail(w)
  PROVE  ExtractionInv'
<1> DEFINE e == work[w].email
           raced == \E o \in Processes : work[o].email = e /\ work[o].pc \in {"similar", "insert"}
<1>1. work[w].pc = "check" /\ UNCHANGED <<rows, time>> /\ e \in Emails
      /\ TitleOf(work[w]) \in E!Titles /\ E!Title(w) = TitleOf(work[w])
  BY Working DEF E!CheckEmail
<1>2. loose \subseteq Emails \cup E!Titles /\ errors \in 0 .. MaxErrors /\ MaxErrors \in Nat
  BY DEF ExtractionInv, E!TypeOK, E!ExtractionAssumption
<1>3. CASE /\ UNCHANGED errors
           /\ IF E!OfEmail(e) THEN E!NextItem(w) ELSE work' = [work EXCEPT ![w].pc = "similar"]
           /\ loose' = IF raced THEN loose \cup {e} ELSE loose
  <2>1. loose \subseteq loose' /\ loose' \subseteq Emails \cup E!Titles /\ (raced => e \in loose')
    BY <1>1, <1>2, <1>3
  <2>2. CASE E!OfEmail(e)
    <3>1. PICK d : WorkShape(d) /\ d.pc \in {"idle", "check"} /\ work' = [work EXCEPT ![w] = d]
      BY <1>1, <1>3, <2>2, NextItemMoves
    <3>2. QED
      BY <1>1, <1>2, <1>3, <2>1, <3>1, WorkMoves DEF Looked
  <2>3. CASE ~E!OfEmail(e)
    <3>1. PICK d : /\ WorkShape(d) /\ d.pc = "similar" /\ d.email = e
                   /\ work' = [work EXCEPT ![w] = d]
      BY <1>1, <1>3, <2>3, PlaceMoves
    <3>2. \A i \in DOMAIN rows : rows[i].email # e
      BY <2>3 DEF E!OfEmail
    <3>3. QED
      BY <1>1, <1>2, <1>3, <2>1, <3>1, <3>2, WorkMoves DEF Looked
  <2>4. QED
    BY <2>2, <2>3
<1>4. CASE /\ errors < MaxErrors /\ errors' = errors + 1
           /\ work' = [work EXCEPT ![w].pc = "insert"]
           /\ loose' = loose \cup {e, E!Title(w)}
  <2>1. PICK d : /\ WorkShape(d) /\ d.pc = "insert" /\ d.email = e
                 /\ TitleOf(d) = TitleOf(work[w]) /\ work' = [work EXCEPT ![w] = d]
    BY <1>1, <1>4, PlaceMoves
  <2>2. loose \subseteq loose' /\ loose' \subseteq Emails \cup E!Titles /\ errors' \in 0 .. MaxErrors
        /\ d.email \in loose' /\ TitleOf(d) \in loose'
    BY <1>1, <1>2, <1>4, <2>1
  <2>3. QED
    BY <1>1, <2>1, <2>2, WorkMoves
<1>5. QED
  BY <1>3, <1>4 DEF E!CheckEmail, E!Works, E!Fails

LEMMA CheckSimilarStep ==
  ASSUME E!ExtractionAssumption, ExtractionInv, NEW w \in Processes, E!CheckSimilar(w)
  PROVE  ExtractionInv'
<1> DEFINE topic == TitleOf(work[w])
<1>1. work[w].pc = "similar" /\ UNCHANGED <<rows, time>> /\ topic \in E!Titles /\ E!Title(w) = topic
  BY Working DEF E!CheckSimilar
<1>2. loose \subseteq Emails \cup E!Titles /\ errors \in 0 .. MaxErrors /\ MaxErrors \in Nat
  BY DEF ExtractionInv, E!TypeOK, E!ExtractionAssumption
<1>3. work[w].email \notin loose \cup {Manual} =>
        /\ \A i \in DOMAIN rows : rows[i].email # work[w].email
        /\ \A o \in Processes : work[o].pc \in Looked /\ work[o].email = work[w].email => o = w
  BY <1>1 DEF ExtractionInv, AloneWithEmail, Looked
<1>4. loose \subseteq loose' /\ loose' \subseteq Emails \cup E!Titles /\ errors' \in 0 .. MaxErrors
  BY <1>1, <1>2 DEF E!CheckSimilar, E!Works, E!Fails
<1>5. CASE E!NextItem(w)
  <2>1. PICK d : WorkShape(d) /\ d.pc \in {"idle", "check"} /\ work' = [work EXCEPT ![w] = d]
    BY <1>1, <1>5, NextItemMoves
  <2>2. QED
    BY <1>1, <1>4, <2>1, WorkMoves DEF Looked
<1>6. CASE /\ work' = [work EXCEPT ![w].pc = "insert"]
           /\ topic \in loose' \/ (~E!Similar(topic) /\ ~E!Inserting(topic))
  <2>1. PICK d : /\ WorkShape(d) /\ d.pc = "insert" /\ d.email = work[w].email
                 /\ TitleOf(d) = topic /\ work' = [work EXCEPT ![w] = d]
    BY <1>1, <1>6, PlaceMoves
  <2>2. ASSUME topic \notin loose', NEW i \in DOMAIN rows, rows[i].title = topic, ~rows[i].ever
        PROVE  time - rows[i].created >= Window
    <3>1. ~E!Similar(topic) /\ rows[i].open
      BY <1>6, <2>2 DEF ExtractionInv
    <3>2. rows[i].created \in Nat /\ time \in Nat /\ Window \in Nat
      BY <2>2, RowsShape DEF ExtractionInv, E!TypeOK, E!ExtractionAssumption, Rows
    <3>3. ~ (time - rows[i].created < Window)
      BY <2>2, <3>1 DEF E!Similar, E!Open
    <3>4. QED
      BY <3>2, <3>3
  <2>3. ASSUME topic \notin loose', NEW o \in Processes, work[o].pc = "insert", TitleOf(work[o]) = topic
        PROVE  o = w
    BY <1>6, <2>3 DEF E!Inserting, E!Title, TitleOf
  <2>4. QED
    BY <1>1, <1>3, <1>4, <2>1, <2>2, <2>3, WorkMoves DEF Looked
<1>7. E!NextItem(w) \/ /\ work' = [work EXCEPT ![w].pc = "insert"]
                       /\ topic \in loose' \/ (~E!Similar(topic) /\ ~E!Inserting(topic))
  BY <1>1 DEF E!CheckSimilar
<1>8. QED
  BY <1>5, <1>6, <1>7

\* The table grows by one row.
LEMMA RowAdded ==
  ASSUME E!TypeOK, NEW r \in Rows, rows' = Append(rows, r)
  PROVE  /\ rows' \in Seq(Rows)
         /\ DOMAIN rows' = DOMAIN rows \cup {Len(rows) + 1}
         /\ \A i \in DOMAIN rows : rows'[i] = rows[i] /\ i < Len(rows) + 1 /\ i \in Nat
         /\ rows'[Len(rows) + 1] = r
  BY RowsShape

\* A row of an email or a title that is loose, or that its inserter was alone
\* with, leaves the properties of the rows as they were.
LEMMA RowsKept ==
  ASSUME E!ExtractionAssumption, ExtractionInv, NEW r \in Rows, rows' = Append(rows, r),
         loose \subseteq loose', UNCHANGED time, r.created = time, r.open,
         r.email \notin loose' \cup {Manual} => \A i \in DOMAIN rows : rows[i].email # r.email,
         r.email # Manual /\ r.title \notin loose' =>
           \A i \in DOMAIN rows :
             rows[i].title = r.title /\ ~rows[i].ever => time - rows[i].created >= Window
  PROVE  /\ E!OnePerEmail' /\ E!SimilarOnce'
         /\ \A i \in DOMAIN rows' : ~rows'[i].ever => rows'[i].open
<1> DEFINE n == Len(rows) + 1
<1>0. E!TypeOK
  BY DEF ExtractionInv
<1>1. /\ DOMAIN rows' = DOMAIN rows \cup {n}
      /\ \A i \in DOMAIN rows : rows'[i] = rows[i] /\ i < n /\ i \in Nat
      /\ rows'[n] = r /\ n \in Nat
  BY <1>0, RowAdded, RowsShape
<1> HIDE DEF n
<1>2. ASSUME NEW i \in DOMAIN rows', NEW j \in DOMAIN rows',
             rows'[i].email = rows'[j].email, rows'[i].email \notin loose' \cup {Manual}
      PROVE  i = j
  <2>1. CASE i # n /\ j # n
    BY <1>1, <1>2, <2>1 DEF ExtractionInv, E!OnePerEmail
  <2>2. CASE i = n \/ j = n
    BY <1>1, <1>2, <2>2
  <2>3. QED
    BY <2>1, <2>2
<1>3. ASSUME NEW i \in DOMAIN rows', NEW j \in DOMAIN rows', i < j, rows'[j].email # Manual,
             rows'[i].title = rows'[j].title, rows'[i].title \notin loose', ~rows'[i].ever
      PROVE  rows'[j].created - rows'[i].created >= Window
  <2>1. i # n
    BY <1>1, <1>3
  <2>2. CASE j # n
    BY <1>1, <1>3, <2>1, <2>2 DEF ExtractionInv, E!SimilarOnce
  <2>3. CASE j = n
    BY <1>1, <1>3, <2>1, <2>3
  <2>4. QED
    BY <2>2, <2>3
<1>4. E!OnePerEmail'
  BY <1>2 DEF E!OnePerEmail
<1>5. E!SimilarOnce'
  BY <1>3 DEF E!SimilarOnce
<1>6. \A i \in DOMAIN rows' : ~rows'[i].ever => rows'[i].open
  BY <1>1 DEF ExtractionInv
<1>7. QED
  BY <1>4, <1>5, <1>6

LEMMA InsertStep ==
  ASSUME E!ExtractionAssumption, ExtractionInv, NEW w \in Processes, E!Insert(w)
  PROVE  ExtractionInv'
<1> DEFINE e == work[w].email
           topic == TitleOf(work[w])
           r == E!NewRow(e, topic)
<1>1. /\ work[w].pc = "insert" /\ UNCHANGED <<loose, time>> /\ e \in Emails /\ topic \in E!Titles
      /\ E!Title(w) = topic
  BY Working DEF E!Insert
<1>2. loose \subseteq Emails \cup E!Titles /\ errors \in 0 .. MaxErrors /\ MaxErrors \in Nat
      /\ time \in 0 .. TaskTime /\ TaskTime \in Nat /\ E!TypeOK
  BY DEF ExtractionInv, E!TypeOK, E!ExtractionAssumption
<1>3. CASE errors < MaxErrors /\ errors' = errors + 1 /\ work' = [work EXCEPT ![w] = E!Idle]
           /\ UNCHANGED rows
  <2>1. WorkShape(E!Idle) /\ E!Idle.pc = "idle"
    BY DEF WorkShape, E!Idle
  <2>2. errors' \in 0 .. MaxErrors
    BY <1>2, <1>3
  <2>3. QED
    BY <1>1, <1>2, <1>3, <2>1, <2>2, WorkMoves DEF Looked
<1>4. CASE UNCHANGED errors /\ rows' = Append(rows, r) /\ E!NextItem(w)
  <2>1. r \in Rows /\ r.email = e /\ r.title = topic /\ r.created = time /\ r.open
    BY <1>1, <1>2 DEF E!NewRow, Rows
  <2> HIDE DEF r
  <2>2. e \notin loose \cup {Manual} =>
          /\ \A i \in DOMAIN rows : rows[i].email # e
          /\ \A o \in Processes : work[o].pc \in Looked /\ work[o].email = e => o = w
    BY <1>1 DEF ExtractionInv, AloneWithEmail, Looked
  <2>3. topic \notin loose =>
          /\ \A i \in DOMAIN rows :
               rows[i].title = topic /\ ~rows[i].ever => time - rows[i].created >= Window
          /\ \A o \in Processes : work[o].pc = "insert" /\ TitleOf(work[o]) = topic => o = w
    BY <1>1 DEF ExtractionInv, AloneWithTitle
  <2>4. /\ E!OnePerEmail' /\ E!SimilarOnce'
        /\ \A i \in DOMAIN rows' : ~rows'[i].ever => rows'[i].open
    BY <1>1, <1>4, <2>1, <2>2, <2>3, RowsKept
  <2>5. PICK d : WorkShape(d) /\ d.pc \in {"idle", "check"} /\ work' = [work EXCEPT ![w] = d]
    BY <1>1, <1>4, NextItemMoves
  <2>6. \A o \in Processes : work'[o] = IF o = w THEN d ELSE work[o]
    BY <2>5 DEF ExtractionInv, Shaped
  <2>7. Shaped'
    <3>1. DOMAIN work' = Processes /\ work' = [o \in Processes |-> work'[o]]
      BY <2>5 DEF ExtractionInv, Shaped
    <3>2. \A o \in Processes : WorkShape(work'[o])
      BY <2>5, <2>6 DEF ExtractionInv, Shaped
    <3>3. QED
      BY <3>1, <3>2 DEF Shaped, WorkShape, E!Idle
  <2>8. /\ rows' \in Seq(Rows) /\ DOMAIN rows' = DOMAIN rows \cup {Len(rows) + 1}
        /\ \A i \in DOMAIN rows : rows'[i] = rows[i]
        /\ rows'[Len(rows) + 1] = r
    BY <1>2, <1>4, <2>1, RowAdded
  <2>9. E!TypeOK'
    <3>1. \A o \in Processes : work'[o].pc \in {"idle", "check", "similar", "insert"}
      BY <2>5, <2>6, <1>2 DEF E!TypeOK
    <3>2. QED
      BY <1>1, <1>2, <1>4, <2>8, <3>1 DEF E!TypeOK, Rows
  <2>10. AloneWithEmail'
    <3>1. ASSUME NEW o \in Processes, work'[o].pc \in Looked, work'[o].email \notin loose \cup {Manual}
          PROVE  /\ \A i \in DOMAIN rows' : rows'[i].email # work'[o].email
                 /\ \A p \in Processes :
                      work'[p].pc \in Looked /\ work'[p].email = work'[o].email => p = o
      <4>1. o # w /\ work'[o] = work[o]
        BY <2>5, <2>6, <3>1 DEF Looked
      <4>2. /\ \A i \in DOMAIN rows : rows[i].email # work[o].email
            /\ \A p \in Processes : work[p].pc \in Looked /\ work[p].email = work[o].email => p = o
        BY <3>1, <4>1 DEF ExtractionInv, AloneWithEmail
      <4>3. work[o].email # e
        BY <1>1, <4>1, <4>2 DEF Looked
      <4>4. \A p \in Processes : work'[p].pc \in Looked => work'[p] = work[p]
        BY <2>5, <2>6 DEF Looked
      <4>5. QED
        BY <2>1, <2>8, <4>1, <4>2, <4>3, <4>4
    <3>2. QED
      BY <1>1, <3>1 DEF AloneWithEmail
  <2>11. AloneWithTitle'
    <3>1. ASSUME NEW o \in Processes, work'[o].pc = "insert", TitleOf(work'[o]) \notin loose
          PROVE  /\ \A i \in DOMAIN rows' :
                      rows'[i].title = TitleOf(work'[o]) /\ ~rows'[i].ever
                        => time - rows'[i].created >= Window
                 /\ \A p \in Processes :
                      work'[p].pc = "insert" /\ TitleOf(work'[p]) = TitleOf(work'[o]) => p = o
      <4>1. o # w /\ work'[o] = work[o]
        BY <2>5, <2>6, <3>1
      <4>2. /\ \A i \in DOMAIN rows :
                 rows[i].title = TitleOf(work[o]) /\ ~rows[i].ever => time - rows[i].created >= Window
            /\ \A p \in Processes :
                 work[p].pc = "insert" /\ TitleOf(work[p]) = TitleOf(work[o]) => p = o
        BY <3>1, <4>1 DEF ExtractionInv, AloneWithTitle
      <4>3. TitleOf(work[o]) # topic
        BY <1>1, <4>1, <4>2
      <4>4. \A p \in Processes : work'[p].pc = "insert" => work'[p] = work[p]
        BY <2>5, <2>6
      <4>5. QED
        BY <2>1, <2>8, <4>1, <4>2, <4>3, <4>4
    <3>2. \A o \in Processes : TitleOf(work[o])' = TitleOf(work'[o])
      BY DEF TitleOf
    <3>3. QED
      BY <1>1, <3>1, <3>2 DEF AloneWithTitle
  <2>12. QED
    BY <2>4, <2>7, <2>9, <2>10, <2>11 DEF ExtractionInv
<1>5. QED
  BY <1>1, <1>3, <1>4 DEF E!Insert, E!Works, E!Fails

LEMMA CreateStep ==
  ASSUME E!ExtractionAssumption, ExtractionInv, NEW topic \in E!Titles, E!Create(topic)
  PROVE  ExtractionInv'
<1> DEFINE r == E!NewRow(Manual, topic)
<1>1. loose \subseteq Emails \cup E!Titles /\ time \in 0 .. TaskTime /\ TaskTime \in Nat /\ E!TypeOK
  BY DEF ExtractionInv, E!TypeOK, E!ExtractionAssumption
<1>2. /\ rows' = Append(rows, r) /\ UNCHANGED <<work, time, errors>>
      /\ loose' = IF E!Inserting(topic) THEN loose \cup {topic} ELSE loose
  BY DEF E!Create
<1>3. r \in Rows /\ r.email = Manual /\ r.title = topic /\ r.created = time /\ r.open
  BY <1>1 DEF E!NewRow, Rows
<1> HIDE DEF r
<1>4. loose \subseteq loose' /\ loose' \subseteq Emails \cup E!Titles
  BY <1>1, <1>2
<1>5. /\ E!OnePerEmail' /\ E!SimilarOnce'
      /\ \A i \in DOMAIN rows' : ~rows'[i].ever => rows'[i].open
  BY <1>2, <1>3, <1>4, RowsKept
<1>6. /\ rows' \in Seq(Rows) /\ DOMAIN rows' = DOMAIN rows \cup {Len(rows) + 1}
      /\ \A i \in DOMAIN rows : rows'[i] = rows[i]
      /\ rows'[Len(rows) + 1] = r
  BY <1>1, <1>2, <1>3, RowAdded
<1>7. E!TypeOK'
  BY <1>1, <1>2, <1>4, <1>6 DEF E!TypeOK, Rows
<1>8. AloneWithEmail'
  BY <1>2, <1>3, <1>4, <1>6 DEF ExtractionInv, AloneWithEmail
<1>9. AloneWithTitle'
  <2>1. ASSUME NEW o \in Processes, work[o].pc = "insert", TitleOf(work[o]) \notin loose'
        PROVE  TitleOf(work[o]) # topic /\ TitleOf(work[o]) \notin loose
    BY <1>2, <2>1 DEF E!Inserting, E!Title, TitleOf
  <2>2. \A o \in Processes : TitleOf(work[o])' = TitleOf(work[o])
    BY <1>2 DEF TitleOf
  <2>3. QED
    BY <1>2, <1>3, <1>6, <2>1, <2>2 DEF ExtractionInv, AloneWithTitle
<1>10. Shaped'
  BY <1>2 DEF ExtractionInv, Shaped, WorkShape, E!Idle
<1>11. QED
  BY <1>5, <1>7, <1>8, <1>9, <1>10 DEF ExtractionInv

LEMMA SetOpenStep ==
  ASSUME E!ExtractionAssumption, ExtractionInv, NEW k \in DOMAIN rows, NEW open \in BOOLEAN,
         E!SetOpen(k, open)
  PROVE  ExtractionInv'
<1>1. E!TypeOK /\ UNCHANGED <<work, loose, time, errors>>
      /\ rows' = [rows EXCEPT ![k].open = open, ![k].ever = TRUE]
  BY DEF ExtractionInv, E!SetOpen
<1> DEFINE r == [[rows[k] EXCEPT !.open = open] EXCEPT !.ever = TRUE]
<1>2. rows[k] \in Rows
  BY <1>1, RowsShape
<1>3. r \in Rows /\ r.email = rows[k].email /\ r.title = rows[k].title /\ r.created = rows[k].created
      /\ r.ever
  BY <1>2 DEF Rows
<1>4. rows' = [rows EXCEPT ![k] = r]
  BY <1>1, RowsShape
<1> HIDE DEF r
<1>5. /\ rows' \in Seq(Rows) /\ DOMAIN rows' = DOMAIN rows
      /\ \A i \in DOMAIN rows : rows'[i] = IF i = k THEN r ELSE rows[i]
  <2>1. rows \in Seq(Rows) /\ k \in 1 .. Len(rows) /\ Len(rows) \in Nat /\ DOMAIN rows = 1 .. Len(rows)
    BY <1>1, RowsShape
  <2>2. [rows EXCEPT ![k] = r] \in Seq(Rows)
    BY <1>3, <2>1
  <2>3. DOMAIN rows' = DOMAIN rows /\ \A i \in DOMAIN rows : rows'[i] = IF i = k THEN r ELSE rows[i]
    BY <1>4, <2>1
  <2>4. QED
    BY <1>4, <2>2, <2>3
<1>6. \A i \in DOMAIN rows : /\ rows'[i].email = rows[i].email /\ rows'[i].title = rows[i].title
                             /\ rows'[i].created = rows[i].created
                             /\ ~rows'[i].ever => rows'[i] = rows[i]
  BY <1>3, <1>5
<1>7. E!TypeOK'
  BY <1>1, <1>5 DEF E!TypeOK, Rows
<1>8. E!OnePerEmail' /\ E!SimilarOnce' /\ \A i \in DOMAIN rows' : ~rows'[i].ever => rows'[i].open
  BY <1>1, <1>5, <1>6 DEF ExtractionInv, E!OnePerEmail, E!SimilarOnce
<1>9. AloneWithEmail'
  BY <1>1, <1>5, <1>6 DEF ExtractionInv, AloneWithEmail
<1>10. AloneWithTitle'
  <2>1. \A o \in Processes : TitleOf(work[o])' = TitleOf(work[o])
    BY <1>1 DEF TitleOf
  <2>2. QED
    BY <1>1, <1>5, <1>6, <2>1 DEF ExtractionInv, AloneWithTitle
<1>11. Shaped'
  BY <1>1 DEF ExtractionInv, Shaped, WorkShape, E!Idle
<1>12. QED
  BY <1>7, <1>8, <1>9, <1>10, <1>11 DEF ExtractionInv

LEMMA ExtractionStep ==
  ASSUME E!ExtractionAssumption PROVE ExtractionInv /\ [E!Next]_extraction => ExtractionInv'
<1> SUFFICES ASSUME ExtractionInv, [E!Next]_extraction PROVE ExtractionInv'
  OBVIOUS
<1>1. ASSUME NEW w \in Processes, E!ProcessTasks(w) PROVE ExtractionInv'
  BY <1>1, CheckEmailStep, CheckSimilarStep, InsertStep DEF E!ProcessTasks
<1>2. ASSUME NEW w \in Processes, NEW e \in Emails, E!Process(w, e) PROVE ExtractionInv'
  BY <1>2, ProcessStep
<1>3. ASSUME NEW topic \in E!Titles, E!Create(topic) PROVE ExtractionInv'
  BY <1>3, CreateStep
<1>4. ASSUME NEW i \in DOMAIN rows, NEW open \in BOOLEAN, E!SetOpen(i, open)
      PROVE  ExtractionInv'
  BY <1>4, SetOpenStep
<1>5. CASE UNCHANGED extraction \/ E!Clock
  <2>1. UNCHANGED <<rows, work, loose, errors>> /\ time' \in 0 .. TaskTime /\ time' \in Nat
        /\ time \in Nat /\ time' >= time /\ E!TypeOK
    BY <1>5 DEF extraction, E!Clock, ExtractionInv, E!TypeOK, E!ExtractionAssumption
  <2>2. E!TypeOK' /\ E!OnePerEmail' /\ E!SimilarOnce' /\ AloneWithEmail' /\ Shaped'
        /\ \A i \in DOMAIN rows' : ~rows'[i].ever => rows'[i].open
    BY <2>1 DEF ExtractionInv, E!TypeOK, E!OnePerEmail, E!SimilarOnce, AloneWithEmail, Shaped,
       WorkShape, E!Idle
  <2>3. AloneWithTitle'
    <3>1. \A o \in Processes : TitleOf(work[o])' = TitleOf(work[o])
      BY <2>1 DEF TitleOf
    <3>2. ASSUME NEW i \in DOMAIN rows, time - rows[i].created >= Window
          PROVE  time' - rows[i].created >= Window
      <4>1. rows[i].created \in Nat /\ Window \in Nat
        BY <2>1, RowsShape DEF Rows, E!ExtractionAssumption
      <4>2. QED
        BY <2>1, <3>2, <4>1
    <3>3. QED
      BY <2>1, <3>1, <3>2 DEF ExtractionInv, AloneWithTitle
  <2>4. QED
    BY <2>2, <2>3 DEF ExtractionInv
<1>6. QED
  BY <1>1, <1>2, <1>3, <1>4, <1>5 DEF E!Next

LEMMA ExtractionInit ==
  ASSUME E!ExtractionAssumption, E!Init PROVE ExtractionInv
<1>1. rows = <<>> /\ DOMAIN rows = {} /\ rows \in Seq(Rows)
  BY DEF E!Init
<1>2. Shaped /\ \A w \in Processes : work[w].pc = "idle"
  <2>1. WorkShape(E!Idle) /\ E!Idle.pc = "idle"
    BY DEF WorkShape, E!Idle
  <2>2. work = [w \in Processes |-> E!Idle]
    BY DEF E!Init
  <2>3. \A w \in Processes : work[w] = E!Idle
    BY <2>2
  <2>4. DOMAIN work = Processes /\ work = [w \in Processes |-> work[w]]
    BY <2>2
  <2>5. QED
    BY <2>1, <2>3, <2>4 DEF Shaped
<1>3. E!TypeOK
  BY <1>1, <1>2 DEF E!Init, E!TypeOK, E!ExtractionAssumption, Rows
<1>4. E!OnePerEmail /\ E!SimilarOnce
  BY <1>1 DEF E!OnePerEmail, E!SimilarOnce
<1>5. AloneWithEmail /\ AloneWithTitle
  BY <1>2 DEF AloneWithEmail, AloneWithTitle, Looked
<1>6. QED
  BY <1>1, <1>2, <1>3, <1>4, <1>5 DEF ExtractionInv

LEMMA ExtractionOfAll == Init /\ [][Next]_vars => E!Init /\ [][E!Next]_extraction
<1>1. Init => E!Init
  BY DEF Init
<1>2. [Next]_vars => [E!Next]_extraction
  BY DEF Next, vars, tasks, extraction
<1>3. QED
  BY <1>1, <1>2, PTL

LEMMA ExtractedOnce ==
  ASSUME E!ExtractionAssumption PROVE Spec => []E!StoredOnce
<1>1. E!Init => ExtractionInv
  BY ExtractionInit
<1>2. ExtractionInv /\ [E!Next]_extraction => ExtractionInv'
  BY ExtractionStep
<1>3. ExtractionInv => E!StoredOnce
  BY DEF ExtractionInv, E!StoredOnce
<1>4. QED
  BY <1>1, <1>2, <1>3, ExtractionOfAll, PTL DEF Spec
-------------------------------------------------------------------------------
(* Recurring tasks.                                                        *)

Series == [parent : Nat, deadline : Nat, period : Periods \cup {R!NoRule}, next : Nat, ended : BOOLEAN]

\* A run has read rows with a rule; the one whose instance it has inserted is
\* among them.
JobShape(d) ==
  /\ d = [pc |-> d.pc, todo |-> d.todo, row |-> d.row]
  /\ d.pc \in {"idle", "insert", "move"}
  /\ \A i \in DOMAIN d.todo :
       i \in DOMAIN series /\ series[i].period # R!NoRule /\ d.todo[i] \in Nat
  /\ d.pc = "idle" => DOMAIN d.todo = {}
  /\ d.pc = "move" => d.row \in DOMAIN d.todo

JobsShaped ==
  /\ job = [p \in Processes |-> job[p]]
  /\ \A p \in Processes : JobShape(job[p])

\* A row that only one run has read has the date it was read with.
ReadAlone ==
  \A p \in Processes : \A i \in DOMAIN job[p].todo : i \notin shared =>
    /\ job[p].todo[i] = series[i].next
    /\ \A o \in Processes : i \in DOMAIN job[o].todo => o = p

\* An instance's parent is a row with a rule; a row without a rule has no date.
Rules ==
  \A j \in DOMAIN series :
    /\ series[j].parent # R!Original =>
         series[j].parent \in DOMAIN series /\ series[series[j].parent].period # R!NoRule
    /\ series[j].period = R!NoRule => series[j].next = 0

Moving(jobs, i) == \E p \in Processes : jobs[p].pc = "move" /\ jobs[p].row = i

\* The date of the next instance of a row.
NextDate(rule) == rule.next + rule.period

\* No instance of a row is due after the date of its next one.  There is one for
\* a date and one for each failure; for the next date there is none but for the
\* failures, unless the date is about to move.
DatesUsed ==
  /\ \A j \in DOMAIN series : series[j].parent \notin shared \cup {R!Original} =>
       series[j].deadline <= NextDate(series[series[j].parent])
  /\ \A i \in DOMAIN series \ shared : \A d \in Nat :
       Cardinality(R!Instances(i, d)) <=
         IF d = NextDate(series[i]) /\ ~Moving(job, i) THEN lost ELSE 1 + lost

SeriesInv ==
  /\ R!TypeOK
  /\ Len(series) \in 1 .. SeriesRows
  /\ JobsShaped
  /\ ReadAlone
  /\ Rules
  /\ DatesUsed

LEMMA SeriesShape ==
  ASSUME R!TypeOK
  PROVE  /\ series \in Seq(Series) /\ Len(series) \in Nat /\ DOMAIN series = 1 .. Len(series)
         /\ \A i \in DOMAIN series : series[i] \in Series
<1>1. series \in Seq(Series)
  BY DEF R!TypeOK, Series
<1>2. QED
  BY <1>1

LEMMA RecurrenceCardinality == ASSUME NEW set PROVE R!Cardinality(set) = Cardinality(set)
  BY Zenon DEF R!Cardinality, Cardinality

\* The instances of a row for a date are a finite set.
LEMMA InstancesFinite ==
  ASSUME R!TypeOK, NEW i, NEW d
  PROVE  /\ R!Instances(i, d) \subseteq 1 .. Len(series) /\ IsFiniteSet(R!Instances(i, d))
         /\ Cardinality(R!Instances(i, d)) \in Nat
<1>1. R!Instances(i, d) \subseteq 1 .. Len(series) /\ Len(series) \in Nat
  BY SeriesShape DEF R!Instances
<1>2. IsFiniteSet(1 .. Len(series))
  BY <1>1, FS_Interval
<1>3. QED
  BY <1>1, <1>2, FS_Subset, FS_CardinalityType

LEMMA InstancesPrimed ==
  ASSUME R!TypeOK', NEW i, NEW d
  PROVE  (IsFiniteSet(R!Instances(i, d)) /\ Cardinality(R!Instances(i, d)) \in Nat)'
<1>1. (R!TypeOK => IsFiniteSet(R!Instances(i, d)) /\ Cardinality(R!Instances(i, d)) \in Nat)'
  BY InstancesFinite, PTL
<1>2. QED
  BY <1>1

\* They stay while the rows keep their parents and deadlines.
LEMMA InstancesSame ==
  ASSUME DOMAIN series' = DOMAIN series,
         \A j \in DOMAIN series : /\ series'[j].parent = series[j].parent
                                 /\ series'[j].deadline = series[j].deadline
  PROVE  \A i, d : (R!Instances(i, d))' = R!Instances(i, d)
  BY DEF R!Instances

\* A new row is one more instance of its parent for its deadline at most.
LEMMA InstancesAppend ==
  ASSUME R!TypeOK, NEW n, n \notin DOMAIN series, DOMAIN series' = DOMAIN series \cup {n},
         \A j \in DOMAIN series : series'[j] = series[j], NEW i, NEW d
  PROVE  LET mine == series'[n].parent = i /\ series'[n].deadline = d IN
           /\ ~mine => (R!Instances(i, d))' = R!Instances(i, d)
           /\ Cardinality((R!Instances(i, d))') <= Cardinality(R!Instances(i, d)) + 1
<1> DEFINE mine == series'[n].parent = i /\ series'[n].deadline = d
<1>1. (R!Instances(i, d))' = R!Instances(i, d) \cup (IF mine THEN {n} ELSE {})
  BY DEF R!Instances
<1>2. IsFiniteSet(R!Instances(i, d)) /\ Cardinality(R!Instances(i, d)) \in Nat
  BY InstancesFinite
<1>3. Cardinality(R!Instances(i, d) \cup {n}) =
        IF n \in R!Instances(i, d) THEN Cardinality(R!Instances(i, d)) ELSE Cardinality(R!Instances(i, d)) + 1
  BY <1>2, FS_AddElement, Zenon
<1>4. Cardinality(R!Instances(i, d) \cup {n}) <= Cardinality(R!Instances(i, d)) + 1
  BY <1>2, <1>3
<1>5. CASE mine
  BY <1>1, <1>4, <1>5
<1>6. CASE ~mine
  <2>1. (R!Instances(i, d))' = R!Instances(i, d)
    BY <1>1, <1>6
  <2>2. QED
    BY <1>2, <1>6, <2>1
<1>7. QED
  BY <1>5, <1>6

\* A step that moves one run and leaves the rows alone; a row stops moving only
\* when the step fails.
LEMMA JobMoves ==
  ASSUME SeriesInv, NEW p \in Processes, NEW d, JobShape(d), job' = [job EXCEPT ![p] = d],
         UNCHANGED <<series, day>>, lost' \in 0 .. MaxErrors,
         shared \subseteq shared', shared' \subseteq 1 .. SeriesRows,
         \A i \in DOMAIN d.todo : i \notin shared' =>
           /\ d.todo[i] = series[i].next
           /\ \A o \in Processes : i \in DOMAIN job[o].todo => o = p,
         lost' >= lost, job[p].pc = "move" => lost' > lost
  PROVE  SeriesInv'
<1>1. \A o \in Processes : job'[o] = IF o = p THEN d ELSE job[o]
  BY DEF SeriesInv, JobsShaped
<1>2. JobsShaped'
  <2>1. job' = [o \in Processes |-> job'[o]]
    BY DEF SeriesInv, JobsShaped
  <2>2. \A o \in Processes : JobShape(job'[o])
    BY <1>1 DEF SeriesInv, JobsShaped
  <2>3. QED
    BY <2>1, <2>2 DEF JobsShaped, JobShape
<1>3. R!TypeOK'
  <2>1. \A o \in Processes : job'[o].pc \in {"idle", "insert", "move"}
    BY <1>1 DEF SeriesInv, R!TypeOK, JobShape
  <2>2. QED
    BY <2>1 DEF SeriesInv, R!TypeOK
<1>4. ReadAlone'
  <2> SUFFICES ASSUME NEW o \in Processes, NEW i \in DOMAIN job'[o].todo, i \notin shared'
               PROVE  /\ job'[o].todo[i] = series[i].next
                      /\ \A q \in Processes : i \in DOMAIN job'[q].todo => q = o
    BY DEF ReadAlone
  <2>1. CASE o = p
    <3>1. job'[o] = d /\ i \in DOMAIN d.todo
      BY <1>1, <2>1
    <3>2. QED
      BY <1>1, <2>1, <3>1
  <2>2. CASE o # p
    <3>1. job'[o] = job[o] /\ i \in DOMAIN job[o].todo
      BY <1>1, <2>2
    <3>2. job[o].todo[i] = series[i].next /\ \A q \in Processes : i \in DOMAIN job[q].todo => q = o
      BY <3>1 DEF SeriesInv, ReadAlone
    <3>3. i \notin DOMAIN d.todo
      BY <2>2, <3>1
    <3>4. QED
      BY <1>1, <3>1, <3>2, <3>3
  <2>3. QED
    BY <2>1, <2>2
<1>5. Rules' /\ (Len(series) \in 1 .. SeriesRows)'
  BY DEF SeriesInv, Rules
<1>6. ASSUME NEW i, Moving(job, i), ~Moving(job', i) PROVE lost' > lost
  BY <1>1, <1>6 DEF Moving
<1>7. DatesUsed'
  <2>1. \A j \in DOMAIN series : series[j].parent \notin shared' \cup {R!Original} =>
          series[j].deadline <= NextDate(series[series[j].parent])
    BY DEF SeriesInv, DatesUsed
  <2>2. ASSUME NEW i \in DOMAIN series \ shared', NEW date \in Nat
        PROVE  Cardinality(R!Instances(i, date)) <=
                 IF date = NextDate(series[i]) /\ ~Moving(job', i) THEN lost' ELSE 1 + lost'
    <3>1. Cardinality(R!Instances(i, date)) <=
            IF date = NextDate(series[i]) /\ ~Moving(job, i) THEN lost ELSE 1 + lost
      BY DEF SeriesInv, DatesUsed
    <3>2. Cardinality(R!Instances(i, date)) \in Nat /\ lost \in Nat /\ lost' \in Nat
      BY InstancesFinite DEF SeriesInv, R!TypeOK
    <3>3. CASE date = NextDate(series[i]) /\ ~Moving(job, i)
      BY <3>1, <3>2, <3>3
    <3>4. CASE Moving(job, i) /\ ~Moving(job', i)
      <4>1. lost' > lost
        BY <1>6, <3>4
      <4>2. QED
        BY <3>1, <3>2, <4>1
    <3>5. CASE date # NextDate(series[i]) \/ Moving(job', i)
      BY <3>1, <3>2, <3>5
    <3>6. QED
      BY <3>3, <3>4, <3>5
  <2>3. \A i, date : (R!Instances(i, date))' = R!Instances(i, date)
    BY InstancesSame
  <2>4. QED
    BY <2>1, <2>2, <2>3 DEF DatesUsed
<1>8. QED
  BY <1>2, <1>3, <1>4, <1>5, <1>7 DEF SeriesInv

\* The run of p goes on without i.
LEMMA DoneMoves ==
  ASSUME SeriesInv, NEW p \in Processes, NEW i, R!Done(p, i)
  PROVE  \E d : /\ JobShape(d) /\ d.pc # "move" /\ job' = [job EXCEPT ![p] = d]
                /\ DOMAIN d.todo \subseteq DOMAIN job[p].todo \ {i}
                /\ \A k \in DOMAIN d.todo : d.todo[k] = job[p].todo[k]
<1> DEFINE left == DOMAIN job[p].todo \ {i}
           g == R!Restrict(job[p].todo, left)
           d == IF left = {} THEN R!Idle ELSE [job[p] EXCEPT !.pc = "insert", !.todo = g]
<1>1. job' = [job EXCEPT ![p] = d]
  BY DEF R!Done, SeriesInv, JobsShaped
<1>2. JobShape(job[p])
  BY DEF SeriesInv, JobsShaped
<1>3. CASE left = {}
  <2>1. d = R!Idle /\ JobShape(R!Idle) /\ R!Idle.pc = "idle" /\ DOMAIN R!Idle.todo = {}
    BY <1>3 DEF R!Idle, JobShape
  <2>2. QED
    BY <1>1, <2>1
<1>4. CASE left # {}
  <2>1. DOMAIN g = left /\ \A k \in left : g[k] = job[p].todo[k]
    BY DEF R!Restrict
  <2> HIDE DEF g
  <2>2. d = [pc |-> "insert", todo |-> g, row |-> job[p].row]
    BY <1>2, <1>4 DEF JobShape
  <2>3. JobShape(d)
    BY <1>2, <2>1, <2>2 DEF JobShape
  <2>4. d.pc # "move" /\ DOMAIN d.todo = left /\ \A k \in left : d.todo[k] = job[p].todo[k]
    BY <2>1, <2>2
  <2> HIDE DEF d, left
  <2>5. DOMAIN d.todo \subseteq DOMAIN job[p].todo \ {i}
    BY <2>4 DEF left
  <2>6. QED
    BY <1>1, <2>3, <2>4, <2>5
<1>5. QED
  BY <1>3, <1>4

LEMMA BeginStep ==
  ASSUME R!RecurrenceAssumption, SeriesInv, NEW p \in Processes, R!Begin(p)
  PROVE  SeriesInv'
<1> DEFINE d == [pc |-> "insert", todo |-> [i \in R!Due |-> series[i].next], row |-> 0]
<1>1. /\ job[p].pc = "idle" /\ job' = [job EXCEPT ![p] = d]
      /\ shared' = shared \cup {i \in R!Due : \E o \in Processes : i \in DOMAIN job[o].todo}
      /\ UNCHANGED <<series, day, lost>>
  BY DEF R!Begin
<1>2. \A i \in R!Due : /\ i \in DOMAIN series /\ series[i].period # R!NoRule
                       /\ series[i].next \in Nat /\ i \in 1 .. SeriesRows
  BY SeriesShape DEF R!Due, Series, SeriesInv, R!RecurrenceAssumption
<1>3. DOMAIN d.todo = R!Due /\ \A i \in R!Due : d.todo[i] = series[i].next
  OBVIOUS
<1>4. JobShape(d)
  BY <1>2, <1>3 DEF JobShape
<1>5. /\ shared \subseteq shared' /\ shared' \subseteq 1 .. SeriesRows /\ lost' \in 0 .. MaxErrors
      /\ lost' >= lost
  <2>1. lost \in 0 .. MaxErrors /\ MaxErrors \in Nat /\ shared \subseteq 1 .. SeriesRows
    BY DEF SeriesInv, R!TypeOK, R!RecurrenceAssumption
  <2>2. shared \subseteq shared' /\ shared' \subseteq 1 .. SeriesRows
    BY <1>1, <1>2, <2>1
  <2>3. lost' = lost
    BY <1>1
  <2>4. QED
    BY <2>1, <2>2, <2>3
<1>6. ASSUME NEW i \in DOMAIN d.todo, i \notin shared'
      PROVE  d.todo[i] = series[i].next /\ \A o \in Processes : i \in DOMAIN job[o].todo => o = p
  BY <1>1, <1>3, <1>6
<1> HIDE DEF d
<1>7. QED
  BY <1>1, <1>4, <1>5, <1>6, JobMoves

\* A statement fails, or the process stops: the run goes on without i, or not
\* at all.
LEMMA FailStep ==
  ASSUME R!RecurrenceAssumption, SeriesInv, NEW p \in Processes, R!Fails,
         UNCHANGED <<series, shared, day>>,
         (\E i : R!Done(p, i)) \/ job' = [job EXCEPT ![p] = R!Idle]
  PROVE  SeriesInv'
<1>1. lost' > lost /\ lost' >= lost /\ lost' \in 0 .. MaxErrors
  BY DEF R!Fails, SeriesInv, R!TypeOK, R!RecurrenceAssumption
<1>2. PICK d : /\ JobShape(d) /\ job' = [job EXCEPT ![p] = d]
               /\ DOMAIN d.todo \subseteq DOMAIN job[p].todo
               /\ \A k \in DOMAIN d.todo : d.todo[k] = job[p].todo[k]
  <2>1. CASE \E i : R!Done(p, i)
    BY <2>1, DoneMoves
  <2>2. CASE job' = [job EXCEPT ![p] = R!Idle]
    <3>1. JobShape(R!Idle) /\ DOMAIN R!Idle.todo = {}
      BY DEF JobShape, R!Idle
    <3>2. QED
      BY <2>2, <3>1
  <2>3. QED
    BY <2>1, <2>2
<1>3. shared' \subseteq 1 .. SeriesRows
  BY DEF SeriesInv, R!TypeOK
<1>4. \A i \in DOMAIN d.todo : i \notin shared' =>
        /\ d.todo[i] = series[i].next
        /\ \A o \in Processes : i \in DOMAIN job[o].todo => o = p
  BY <1>2 DEF SeriesInv, ReadAlone
<1>5. QED
  BY <1>1, <1>2, <1>3, <1>4, JobMoves

\* The instance that is inserted is the first for the date that was read, but for
\* those of failures.
LEMMA InsertInstanceStep ==
  ASSUME R!RecurrenceAssumption, SeriesInv, NEW p \in Processes, NEW i \in DOMAIN job[p].todo,
         R!InsertInstance(p, i), ~R!Fails
  PROVE  SeriesInv'
<1> DEFINE r == R!Instance(i, job[p].todo[i])
           n == Len(series) + 1
           d == [pc |-> "move", todo |-> job[p].todo, row |-> i]
<1>1. /\ job[p].pc = "insert" /\ Len(series) < SeriesRows /\ series' = Append(series, r)
      /\ job' = [job EXCEPT ![p] = d]
      /\ UNCHANGED <<shared, day, lost>>
  BY DEF R!InsertInstance, R!Works
<1>2. /\ R!TypeOK /\ JobsShaped /\ ReadAlone /\ Rules /\ DatesUsed
      /\ JobShape(job[p])
  BY DEF SeriesInv, JobsShaped
<1>3. /\ i \in DOMAIN series /\ series[i].period \in Periods /\ series[i].period \in Nat \ {0}
      /\ series[i].period # R!NoRule /\ job[p].todo[i] \in Nat
  BY <1>2, SeriesShape DEF JobShape, Series, R!RecurrenceAssumption
<1>4. /\ r \in Series /\ r.parent = i /\ r.period = series[i].period
      /\ r.deadline = job[p].todo[i] + series[i].period
  <2>1. i \in Nat
    BY <1>2, <1>3, SeriesShape
  <2>2. QED
    BY <1>3, <2>1 DEF R!Instance, R!Task, R!NextOccurrence, Series
<1> HIDE DEF r
<1>5. /\ series' \in Seq(Series) /\ Len(series') = n /\ DOMAIN series' = DOMAIN series \cup {n}
      /\ n \notin DOMAIN series /\ series'[n] = r /\ \A j \in DOMAIN series : series'[j] = series[j]
  BY <1>1, <1>2, <1>4, SeriesShape
<1>6. job' = [job EXCEPT ![p] = d]
  BY <1>1
<1>7. job'[p] = d /\ \A o \in Processes : o # p => job'[o] = job[o]
  BY <1>2, <1>6 DEF JobsShaped
<1>8. \A o \in Processes : job'[o].todo = job[o].todo
  BY <1>7
<1>9. JobsShaped'
  <2>1. job' = [o \in Processes |-> job'[o]]
    BY <1>2, <1>6 DEF JobsShaped
  <2>2. \A o \in Processes : (JobShape(job[o]))'
    <3> SUFFICES ASSUME NEW o \in Processes PROVE (JobShape(job[o]))'
      OBVIOUS
    <3>1. \A k \in DOMAIN job'[o].todo : /\ k \in DOMAIN series' /\ series'[k].period # R!NoRule
                                         /\ job'[o].todo[k] \in Nat
      BY <1>2, <1>5, <1>8 DEF JobsShaped, JobShape
    <3>2. CASE o = p
      BY <1>7, <3>1, <3>2 DEF JobShape
    <3>3. CASE o # p
      BY <1>2, <1>7, <3>1, <3>3 DEF JobsShaped, JobShape
    <3>4. QED
      BY <3>2, <3>3
  <2>3. QED
    BY <2>1, <2>2 DEF JobsShaped
<1>10. R!TypeOK'
  <2>1. \A o \in Processes : job[o].pc \in {"idle", "insert", "move"}
    BY <1>2 DEF R!TypeOK
  <2>2. job'[p].pc \in {"idle", "insert", "move"}
    BY <1>7
  <2>3. \A o \in Processes : job'[o].pc \in {"idle", "insert", "move"}
    BY <1>7, <2>1, <2>2
  <2>4. QED
    BY <1>1, <1>2, <1>5, <2>3 DEF R!TypeOK, Series
<1>11. ReadAlone'
  BY <1>1, <1>2, <1>5, <1>8 DEF ReadAlone, JobsShaped, JobShape
<1>12. Rules'
  BY <1>2, <1>3, <1>4, <1>5 DEF Rules
<1>13. \A k : Moving(job, k) => Moving(job', k)
  BY <1>1, <1>7 DEF Moving
<1>14. i \notin shared => job[p].todo[i] = series[i].next /\ ~Moving(job, i)
  <2>1. ASSUME NEW q \in Processes, job[q].pc = "move", job[q].row = i PROVE i \in DOMAIN job[q].todo
    BY <1>2, <2>1 DEF JobsShaped, JobShape
  <2>2. QED
    BY <1>1, <1>2, <2>1 DEF ReadAlone, Moving
<1>15. ASSUME NEW j \in DOMAIN series', series'[j].parent \notin shared \cup {R!Original}
       PROVE  series'[j].deadline <= NextDate(series'[series'[j].parent])
  <2>1. CASE j \in DOMAIN series
    <3>1. series'[j] = series[j] /\ series[j].parent \in DOMAIN series
      BY <1>2, <1>5, <1>15, <2>1 DEF Rules
    <3>2. series'[series[j].parent] = series[series[j].parent]
      BY <1>5, <3>1
    <3>3. QED
      BY <1>2, <1>15, <2>1, <3>1, <3>2 DEF DatesUsed
  <2>2. CASE j = n
    <3>1. series'[j] = r /\ series'[i] = series[i] /\ i \notin shared
      BY <1>3, <1>4, <1>5, <1>15, <2>2
    <3>2. r.deadline = NextDate(series[i]) /\ series[i].next \in Nat
      BY <1>3, <1>4, <1>14, <3>1 DEF NextDate
    <3>3. QED
      BY <1>3, <1>4, <3>1, <3>2 DEF NextDate
  <2>3. QED
    BY <1>5, <2>1, <2>2
<1>16. DatesUsed'
  <2>1. ASSUME NEW k \in DOMAIN series' \ shared, NEW date \in Nat
        PROVE  Cardinality((R!Instances(k, date))') <=
                 IF date = NextDate(series'[k]) /\ ~Moving(job', k) THEN lost ELSE 1 + lost
    <3>1. CASE k = n
      <4>1. (R!Instances(k, date))' = {}
        BY <1>2, <1>3, <1>4, <1>5, <3>1 DEF R!Instances, Rules, R!Original
      <4>2. Cardinality((R!Instances(k, date))') = 0 /\ lost \in Nat
        BY <1>2, <4>1, FS_EmptySet DEF R!TypeOK
      <4>3. QED
        BY <4>2
    <3>2. CASE k \in DOMAIN series
      <4>1. series'[k] = series[k]
        BY <1>5, <3>2
      <4>2. /\ Cardinality(R!Instances(k, date)) <=
                 IF date = NextDate(series[k]) /\ ~Moving(job, k) THEN lost ELSE 1 + lost
            /\ Cardinality(R!Instances(k, date)) \in Nat /\ lost \in Nat
        BY <1>2, <2>1, <3>2, InstancesFinite DEF DatesUsed, R!TypeOK
      <4>3. CASE ~(r.parent = k /\ r.deadline = date)
        <5>1. (R!Instances(k, date))' = R!Instances(k, date)
          BY <1>2, <1>5, <4>3, InstancesAppend
        <5>2. QED
          BY <1>13, <4>1, <4>2, <5>1
      <4>4. CASE r.parent = k /\ r.deadline = date
        <5>1. date = NextDate(series[k]) /\ ~Moving(job, k) /\ Moving(job', k)
          BY <1>4, <1>7, <1>14, <2>1, <4>4 DEF NextDate, Moving
        <5>2. /\ Cardinality((R!Instances(k, date))') <= Cardinality(R!Instances(k, date)) + 1
              /\ Cardinality((R!Instances(k, date))') \in Nat
          <6>1. Cardinality((R!Instances(k, date))') <= Cardinality(R!Instances(k, date)) + 1
            BY <1>2, <1>5, InstancesAppend
          <6>2. (IsFiniteSet(R!Instances(k, date)) /\ Cardinality(R!Instances(k, date)) \in Nat)'
            BY <1>10, InstancesPrimed
          <6>3. QED
            BY <6>1, <6>2
        <5>3. QED
          BY <4>2, <5>1, <5>2
      <4>5. QED
        BY <4>3, <4>4
    <3>3. QED
      BY <1>5, <2>1, <3>1, <3>2
  <2>2. QED
    BY <1>1, <1>15, <2>1 DEF DatesUsed
<1>17. Len(series') \in 1 .. SeriesRows
  BY <1>1, <1>2, <1>5, SeriesShape DEF SeriesInv, R!RecurrenceAssumption
<1>18. QED
  BY <1>9, <1>10, <1>11, <1>12, <1>16, <1>17 DEF SeriesInv

\* What a change of one row does.
LEMMA RowChanges ==
  ASSUME R!TypeOK, NEW k \in DOMAIN series, NEW r \in Series, series' = [series EXCEPT ![k] = r]
  PROVE  /\ series' \in Seq(Series) /\ Len(series') = Len(series) /\ DOMAIN series' = DOMAIN series
         /\ \A i \in DOMAIN series : series'[i] = IF i = k THEN r ELSE series[i]
<1>1. series \in Seq(Series) /\ DOMAIN series = 1 .. Len(series)
  BY SeriesShape
<1>2. [series EXCEPT ![k] = r] \in Seq(Series)
  BY <1>1
<1>3. QED
  BY <1>1, <1>2

\* A change of one row that keeps its parent, its deadline and its rule if it
\* has one, and does not take back its date, keeps what the rows promise.
LEMMA RowKept ==
  ASSUME R!RecurrenceAssumption, SeriesInv, NEW k \in DOMAIN series, NEW r \in Series,
         series' = [series EXCEPT ![k] = r],
         UNCHANGED <<shared, lost>>, r.parent = series[k].parent, r.deadline = series[k].deadline,
         r.period # R!NoRule, r.period # series[k].period => series[k].period = R!NoRule,
         k \notin shared /\ series[k].period # R!NoRule /\ r.next # series[k].next => r.next > series[k].next,
         \A i : i # k /\ Moving(job, i) => Moving(job', i),
         k \notin shared /\ Moving(job, k) /\ ~Moving(job', k) => r.next > series[k].next
  PROVE  Rules' /\ DatesUsed' /\ Len(series') \in 1 .. SeriesRows
<1>1. /\ R!TypeOK /\ Rules /\ DatesUsed
  BY DEF SeriesInv
<1>2. /\ series' \in Seq(Series) /\ Len(series') = Len(series) /\ DOMAIN series' = DOMAIN series
      /\ \A i \in DOMAIN series : series'[i] = IF i = k THEN r ELSE series[i]
  BY <1>1, RowChanges
<1>3. \A i \in DOMAIN series : /\ series'[i].parent = series[i].parent
                               /\ series'[i].deadline = series[i].deadline
  BY <1>2
<1>4. \A i, d : (R!Instances(i, d))' = R!Instances(i, d)
  BY <1>2, <1>3, InstancesSame
<1>5. Rules'
  BY <1>1, <1>2, <1>3 DEF Rules
<1>6. ASSUME series[k].period # R!NoRule, k \notin shared
      PROVE  /\ r.period = series[k].period /\ NextDate(r) \in Nat /\ NextDate(series[k]) \in Nat
             /\ NextDate(r) >= NextDate(series[k])
             /\ Moving(job, k) /\ ~Moving(job', k) => NextDate(r) > NextDate(series[k])
             /\ NextDate(r) # NextDate(series[k]) => NextDate(r) > NextDate(series[k])
  <2>1. r.period = series[k].period /\ r.period \in Nat /\ r.next \in Nat /\ series[k].next \in Nat
    BY <1>1, <1>6, SeriesShape DEF Series, R!RecurrenceAssumption
  <2>2. QED
    BY <1>6, <2>1 DEF NextDate
<1>7. ASSUME NEW j \in DOMAIN series, series[j].parent \notin shared \cup {R!Original}
      PROVE  series[j].deadline <= NextDate(series'[series[j].parent])
  <2> DEFINE i == series[j].parent
  <2>1. /\ i \in DOMAIN series /\ series[i].period # R!NoRule
        /\ series[j].deadline <= NextDate(series[i]) /\ series[j].deadline \in Nat
    BY <1>1, <1>7, SeriesShape DEF Rules, DatesUsed, Series
  <2>2. CASE i # k
    BY <1>2, <2>1, <2>2
  <2>3. CASE i = k
    BY <1>2, <1>6, <1>7, <2>1, <2>3
  <2>4. QED
    BY <2>2, <2>3
<1>8. ASSUME NEW i \in DOMAIN series \ shared, NEW d \in Nat
      PROVE  Cardinality(R!Instances(i, d)) <=
               IF d = NextDate(series'[i]) /\ ~Moving(job', i) THEN lost ELSE 1 + lost
  <2>1. /\ Cardinality(R!Instances(i, d)) <=
             IF d = NextDate(series[i]) /\ ~Moving(job, i) THEN lost ELSE 1 + lost
        /\ Cardinality(R!Instances(i, d)) \in Nat /\ lost \in Nat
    <3>1. Cardinality(R!Instances(i, d)) \in Nat /\ lost \in Nat
      BY <1>1, InstancesFinite DEF R!TypeOK
    <3>2. QED
      BY <1>1, <1>8, <3>1 DEF DatesUsed
  <2>2. CASE i # k
    BY <1>2, <2>1, <2>2
  <2>3. CASE i = k /\ (series[k].period = R!NoRule \/ (NextDate(r) > NextDate(series[k]) /\ d = NextDate(r)))
    <3>1. R!Instances(i, d) = {}
      <4> SUFFICES ASSUME NEW j \in DOMAIN series, series[j].parent = i, series[j].deadline = d
                   PROVE  FALSE
        BY DEF R!Instances
      <4>1. i # R!Original
        BY <1>1, SeriesShape DEF R!Original
      <4>2. series[i].period # R!NoRule
        BY <1>1, <4>1 DEF Rules
      <4>3. series[j].deadline <= NextDate(series[i])
        BY <1>1, <1>8, <4>1 DEF DatesUsed
      <4>4. QED
        BY <1>6, <1>8, <2>3, <4>2, <4>3
    <3>2. QED
      BY <2>1, <3>1, FS_EmptySet
  <2>4. CASE i = k /\ ~(series[k].period = R!NoRule \/ (NextDate(r) > NextDate(series[k]) /\ d = NextDate(r)))
    <3>1. series'[i] = r
      BY <1>2, <2>4
    <3>2. d = NextDate(r) => NextDate(r) = NextDate(series[k]) /\ (Moving(job, k) => Moving(job', k))
      BY <1>6, <1>8, <2>4
    <3>3. QED
      BY <2>1, <2>4, <3>1, <3>2
  <2>5. QED
    BY <2>2, <2>3, <2>4, Zenon
<1>9. DatesUsed'
  BY <1>2, <1>3, <1>4, <1>7, <1>8 DEF DatesUsed
<1>10. QED
  BY <1>2, <1>5, <1>9 DEF SeriesInv

LEMMA MoveStep ==
  ASSUME R!RecurrenceAssumption, SeriesInv, NEW p \in Processes, R!Move(p), ~R!Fails
  PROVE  SeriesInv' /\ \A i \in DOMAIN series : i \notin shared => series'[i].next >= series[i].next
<1> DEFINE i == job[p].row
           period == series[i].period
           later == job[p].todo[i] + period + period
           r == [series[i] EXCEPT !.next = later]
<1>1. /\ job[p].pc = "move" /\ series' = [series EXCEPT ![i].next = later] /\ R!Done(p, i)
      /\ UNCHANGED <<shared, day, lost>>
  BY DEF R!Move, R!Works, R!NextOccurrence
<1>2. /\ R!TypeOK /\ JobsShaped /\ ReadAlone /\ JobShape(job[p])
  BY DEF SeriesInv, JobsShaped
<1>3. /\ i \in DOMAIN job[p].todo /\ i \in DOMAIN series /\ period \in Nat \ {0}
      /\ series[i] \in Series /\ series[i].next \in Nat /\ job[p].todo[i] \in Nat
      /\ period # R!NoRule
  BY <1>1, <1>2, SeriesShape DEF JobShape, Series, R!RecurrenceAssumption
<1>4. r \in Series /\ series' = [series EXCEPT ![i] = r]
  <2>1. later \in Nat
    BY <1>3
  <2>2. QED
    BY <1>1, <1>3, <2>1 DEF Series
<1>5. r.parent = series[i].parent /\ r.deadline = series[i].deadline /\ r.period = period /\ r.next = later
  BY <1>3 DEF Series
<1>6. i \notin shared => later > series[i].next
  BY <1>2, <1>3 DEF ReadAlone
<1>7. PICK d : /\ JobShape(d) /\ d.pc # "move" /\ job' = [job EXCEPT ![p] = d]
               /\ DOMAIN d.todo \subseteq DOMAIN job[p].todo \ {i}
               /\ \A k \in DOMAIN d.todo : d.todo[k] = job[p].todo[k]
  BY <1>1, DoneMoves
<1> HIDE DEF i, later, r
<1>8. \A o \in Processes : job'[o] = IF o = p THEN d ELSE job[o]
  BY <1>2, <1>7 DEF JobsShaped
<1>9. /\ \A k : k # i /\ Moving(job, k) => Moving(job', k)
  BY <1>8 DEF Moving, i
<1>10. Rules' /\ DatesUsed' /\ Len(series') \in 1 .. SeriesRows
  <2>1. later \in Nat
    BY <1>4, <1>5 DEF Series
  <2>2. i \notin shared => r.next > series[i].next
    BY <1>3, <1>5, <1>6, <2>1
  <2>3. /\ r.parent = series[i].parent /\ r.deadline = series[i].deadline
        /\ r.period # R!NoRule /\ r.period = series[i].period
    BY <1>3, <1>5
  <2> HIDE DEF period
  <2>4. QED
    BY <1>1, <1>3, <1>4, <1>9, <2>2, <2>3, RowKept
<1>11. /\ series' \in Seq(Series) /\ Len(series') = Len(series) /\ DOMAIN series' = DOMAIN series
       /\ \A k \in DOMAIN series : series'[k] = IF k = i THEN r ELSE series[k]
  BY <1>2, <1>3, <1>4, RowChanges
<1>12. JobsShaped'
  <2>1. job' = [o \in Processes |-> job'[o]]
    BY <1>2, <1>7 DEF JobsShaped
  <2>2. \A o \in Processes : (JobShape(job[o]))'
    <3> SUFFICES ASSUME NEW o \in Processes PROVE (JobShape(job[o]))'
      OBVIOUS
    <3>1. JobShape(job'[o])
      BY <1>2, <1>7, <1>8 DEF JobsShaped
    <3>2. \A k \in DOMAIN series : series'[k].period = series[k].period
      BY <1>5, <1>11
    <3>3. QED
      BY <1>11, <3>1, <3>2 DEF JobShape
  <2>3. QED
    BY <2>1, <2>2 DEF JobsShaped
<1>13. R!TypeOK'
  <2>1. \A o \in Processes : job'[o].pc \in {"idle", "insert", "move"}
    BY <1>2, <1>7, <1>8 DEF R!TypeOK, JobShape
  <2>2. QED
    BY <1>1, <1>2, <1>11, <2>1 DEF R!TypeOK, Series
<1>14. ReadAlone'
  <2> SUFFICES ASSUME NEW o \in Processes, NEW k \in DOMAIN job'[o].todo, k \notin shared
               PROVE  /\ job'[o].todo[k] = series'[k].next
                      /\ \A q \in Processes : k \in DOMAIN job'[q].todo => q = o
    BY <1>1 DEF ReadAlone
  <2>1. k \in DOMAIN job[o].todo /\ job'[o].todo[k] = job[o].todo[k]
    BY <1>7, <1>8
  <2>2. job[o].todo[k] = series[k].next /\ \A q \in Processes : k \in DOMAIN job[q].todo => q = o
    BY <1>2, <2>1 DEF ReadAlone
  <2>3. k # i
    BY <1>3, <1>7, <1>8, <2>2
  <2>4. k \in DOMAIN series
    BY <1>2, <2>1 DEF JobsShaped, JobShape
  <2>5. \A q \in Processes : DOMAIN job'[q].todo \subseteq DOMAIN job[q].todo
    BY <1>7, <1>8
  <2>6. QED
    BY <1>11, <2>1, <2>2, <2>3, <2>4, <2>5
<1>15. ASSUME NEW k \in DOMAIN series, k \notin shared PROVE series'[k].next >= series[k].next
  <2>1. series[k].next \in Nat /\ later \in Nat
    BY <1>2, <1>4, <1>5, SeriesShape DEF Series
  <2>2. QED
    BY <1>3, <1>5, <1>6, <1>11, <1>15, <2>1
<1>16. QED
  BY <1>10, <1>12, <1>13, <1>14, <1>15 DEF SeriesInv

\* A change of a row that no run of the job makes.
LEMMA RowStep ==
  ASSUME R!RecurrenceAssumption, SeriesInv, NEW k \in DOMAIN series, NEW r \in Series,
         series' = [series EXCEPT ![k] = r],
         UNCHANGED <<job, shared, day, lost>>, r.parent = series[k].parent,
         r.deadline = series[k].deadline, r.period # R!NoRule,
         r.period # series[k].period => series[k].period = R!NoRule,
         r.next # series[k].next => series[k].period = R!NoRule
  PROVE  SeriesInv'
<1>1. R!TypeOK /\ JobsShaped /\ ReadAlone
  BY DEF SeriesInv
<1>2. /\ series' \in Seq(Series) /\ Len(series') = Len(series) /\ DOMAIN series' = DOMAIN series
      /\ \A i \in DOMAIN series : series'[i] = IF i = k THEN r ELSE series[i]
  BY <1>1, RowChanges
<1>3. \A o \in Processes : \A i \in DOMAIN job[o].todo : i \in DOMAIN series /\ series[i].period # R!NoRule
  BY <1>1 DEF JobsShaped, JobShape
<1>4. \A i \in DOMAIN series : series[i].period # R!NoRule =>
        series'[i].period # R!NoRule /\ series'[i].next = series[i].next
  BY <1>2
<1>5. JobsShaped'
  <2>1. \A o \in Processes : (JobShape(job[o]))'
    <3> SUFFICES ASSUME NEW o \in Processes PROVE (JobShape(job[o]))'
      OBVIOUS
    <3>1. JobShape(job[o]) /\ job'[o] = job[o]
      BY <1>1 DEF JobsShaped
    <3>2. QED
      BY <1>2, <1>3, <1>4, <3>1 DEF JobShape
  <2>2. QED
    BY <1>1, <2>1 DEF JobsShaped
<1>6. ReadAlone'
  BY <1>1, <1>3, <1>4 DEF ReadAlone
<1>7. R!TypeOK'
  BY <1>1, <1>2 DEF R!TypeOK, Series
<1>8. Rules' /\ DatesUsed' /\ Len(series') \in 1 .. SeriesRows
  <2>1. \A i : Moving(job, i) => Moving(job', i)
    OBVIOUS
  <2>2. QED
    BY <2>1, RowKept
<1>9. QED
  BY <1>5, <1>6, <1>7, <1>8 DEF SeriesInv

LEMMA DetectStep ==
  ASSUME R!RecurrenceAssumption, SeriesInv, NEW period \in Periods, R!Detect(period)
  PROVE  SeriesInv' /\ \A i \in DOMAIN series : series'[i].next >= series[i].next
<1> DEFINE q == [series[1] EXCEPT !.period = period]
           r == [q EXCEPT !.next = day + period]
<1>1. /\ R!TypeOK /\ 1 \in DOMAIN series /\ series[1].period = R!NoRule /\ series[1].next = 0
      /\ series[1] \in Series
  BY SeriesShape DEF SeriesInv, Rules, R!Detect
<1>2. day + period \in Nat /\ period \in Nat \ {0} /\ period # R!NoRule
  BY <1>1 DEF R!TypeOK, R!RecurrenceAssumption, R!NoRule
<1>3. /\ r \in Series /\ r.parent = series[1].parent /\ r.deadline = series[1].deadline
      /\ r.period = period /\ r.next = day + period
  <2>1. /\ q \in Series /\ q.parent = series[1].parent /\ q.deadline = series[1].deadline
        /\ q.period = period
    BY <1>1 DEF Series
  <2>2. QED
    BY <1>2, <2>1 DEF Series
<1>4. series' = [series EXCEPT ![1] = r] /\ UNCHANGED <<job, shared, day, lost>>
  <2>1. series' = [series EXCEPT ![1].period = period, ![1].next = day + period]
        /\ UNCHANGED <<job, shared, day, lost>>
    BY DEF R!Detect, R!NextOccurrence
  <2>2. QED
    BY <1>1, <2>1
<1> HIDE DEF r
<1>5. SeriesInv'
  BY <1>1, <1>2, <1>3, <1>4, RowStep
<1>6. ASSUME NEW i \in DOMAIN series PROVE series'[i].next >= series[i].next
  <2>1. series'[i] = IF i = 1 THEN r ELSE series[i]
    BY <1>1, <1>3, <1>4, RowChanges
  <2>2. series[i].next \in Nat
    BY <1>1, SeriesShape DEF Series
  <2>3. QED
    BY <1>1, <1>2, <1>3, <2>1, <2>2
<1>7. QED
  BY <1>5, <1>6
\* A dismissed task keeps its dates, and so do its instances.
LEMMA DismissStep ==
  ASSUME R!RecurrenceAssumption, SeriesInv, NEW k \in DOMAIN series, R!Dismiss(k)
  PROVE  SeriesInv' /\ \A i \in DOMAIN series : series'[i].next >= series[i].next
<1> DEFINE r == [series[k] EXCEPT !.ended = TRUE]
<1>1. /\ R!TypeOK /\ series[k] \in Series /\ series' = [series EXCEPT ![k] = r]
      /\ UNCHANGED <<job, shared, day, lost>>
  BY SeriesShape DEF SeriesInv, R!Dismiss
<1>2. /\ r \in Series /\ r.parent = series[k].parent /\ r.deadline = series[k].deadline
      /\ r.period = series[k].period /\ r.next = series[k].next
  BY <1>1 DEF Series
<1> HIDE DEF r
<1>3. /\ series' \in Seq(Series) /\ Len(series') = Len(series) /\ DOMAIN series' = DOMAIN series
      /\ \A i \in DOMAIN series : series'[i] = IF i = k THEN r ELSE series[i]
  BY <1>1, <1>2, RowChanges
<1>4. \A i \in DOMAIN series : /\ series'[i].parent = series[i].parent
                               /\ series'[i].deadline = series[i].deadline
                               /\ series'[i].period = series[i].period
                               /\ series'[i].next = series[i].next
  BY <1>2, <1>3
<1>5. /\ JobsShaped /\ ReadAlone /\ Rules /\ DatesUsed
      /\ Len(series) \in 1 .. SeriesRows
  BY DEF SeriesInv
<1>6. \A o \in Processes : \A i \in DOMAIN job[o].todo : i \in DOMAIN series
  BY <1>5 DEF JobsShaped, JobShape
<1>7. JobsShaped'
  <2>1. \A o \in Processes : (JobShape(job[o]))'
    <3> SUFFICES ASSUME NEW o \in Processes PROVE (JobShape(job[o]))'
      OBVIOUS
    <3>1. JobShape(job[o]) /\ job'[o] = job[o]
      BY <1>1, <1>5 DEF JobsShaped
    <3>2. QED
      BY <1>3, <1>4, <1>6, <3>1 DEF JobShape
  <2>2. QED
    BY <1>1, <1>5, <2>1 DEF JobsShaped
<1>8. ReadAlone'
  BY <1>1, <1>4, <1>5, <1>6 DEF ReadAlone
<1>9. R!TypeOK' /\ Len(series') \in 1 .. SeriesRows
  BY <1>1, <1>3, <1>5 DEF R!TypeOK, Series
<1>10. Rules'
  BY <1>1, <1>3, <1>4, <1>5 DEF Rules
<1>11. DatesUsed'
  <2>1. \A i, d : (R!Instances(i, d))' = R!Instances(i, d)
    BY <1>3, <1>4, InstancesSame
  <2>2. \A i \in DOMAIN series : NextDate(series'[i]) = NextDate(series[i])
    BY <1>4 DEF NextDate
  <2>3. \A j \in DOMAIN series : series[j].parent # R!Original => series[j].parent \in DOMAIN series
    BY <1>5 DEF Rules
  <2>4. QED
    BY <1>1, <1>3, <1>4, <1>5, <2>1, <2>2, <2>3 DEF DatesUsed
<1>12. ASSUME NEW i \in DOMAIN series PROVE series'[i].next >= series[i].next
  BY <1>1, <1>4, SeriesShape DEF Series
<1>13. QED
  BY <1>7, <1>8, <1>9, <1>10, <1>11, <1>12 DEF SeriesInv

LEMMA SeriesStep ==
  ASSUME R!RecurrenceAssumption, SeriesInv, [R!Next]_recurrence
  PROVE  /\ SeriesInv'
         /\ \A i \in DOMAIN series : i \notin shared => series'[i].next >= series[i].next
<1>1. \A i \in DOMAIN series : series[i].next >= series[i].next
  BY SeriesShape DEF SeriesInv, Series
<1>2. ASSUME NEW p \in Processes, R!Begin(p) PROVE SeriesInv' /\ UNCHANGED series
  BY <1>2, BeginStep DEF R!Begin
<1>3. ASSUME NEW p \in Processes, NEW i \in DOMAIN job[p].todo, R!InsertInstance(p, i)
      PROVE  SeriesInv' /\ \A k \in DOMAIN series : series'[k].next = series[k].next
  <2>1. CASE R!Fails
    <3>1. UNCHANGED <<series, shared, day>> /\ R!Done(p, i)
      BY <1>3, <2>1 DEF R!InsertInstance, R!Fails, R!Works, SeriesInv, R!TypeOK,
         R!RecurrenceAssumption
    <3>2. QED
      BY <2>1, <3>1, FailStep
  <2>2. CASE ~R!Fails
    <3>1. series' = Append(series, R!Instance(i, job[p].todo[i]))
      BY <1>3, <2>2 DEF R!InsertInstance
    <3>2. \A k \in DOMAIN series : series'[k] = series[k]
      BY <3>1, SeriesShape DEF SeriesInv
    <3>3. QED
      BY <1>3, <2>2, <3>2, InsertInstanceStep
  <2>3. QED
    BY <2>1, <2>2
<1>4. ASSUME NEW p \in Processes, R!Move(p)
      PROVE  SeriesInv' /\ \A i \in DOMAIN series : i \notin shared => series'[i].next >= series[i].next
  <2>1. CASE R!Fails
    <3>1. UNCHANGED <<series, shared, day>> /\ R!Done(p, job[p].row)
      BY <1>4, <2>1 DEF R!Move, R!Fails, R!Works, SeriesInv, R!TypeOK, R!RecurrenceAssumption
    <3>2. QED
      BY <1>1, <2>1, <3>1, FailStep
  <2>2. CASE ~R!Fails
    BY <1>4, <2>2, MoveStep
  <2>3. QED
    BY <2>1, <2>2
<1>5. ASSUME NEW p \in Processes, R!Stop(p) PROVE SeriesInv' /\ UNCHANGED series
  BY <1>5, FailStep DEF R!Stop
<1>6. CASE UNCHANGED recurrence \/ R!Clock
  <2>1. UNCHANGED <<series, job, shared, lost>> /\ day' \in 0 .. SeriesTime
    BY <1>6 DEF recurrence, R!Clock, SeriesInv, R!TypeOK, R!RecurrenceAssumption
  <2>2. \A o \in Processes : JobShape(job[o]) => (JobShape(job[o]))'
    BY <2>1 DEF JobShape
  <2>3. \A i, date : (R!Instances(i, date))' = R!Instances(i, date)
    BY <2>1, InstancesSame
  <2>4. SeriesInv'
    BY <2>1, <2>2, <2>3 DEF SeriesInv, R!TypeOK, JobsShaped, ReadAlone, Rules, DatesUsed
  <2>5. QED
    BY <1>1, <2>1, <2>4
<1>7. ASSUME NEW period \in Periods, R!Detect(period)
      PROVE  SeriesInv' /\ \A i \in DOMAIN series : series'[i].next >= series[i].next
  BY <1>7, DetectStep
<1>8. ASSUME NEW i \in DOMAIN series, R!Dismiss(i)
      PROVE  SeriesInv' /\ \A k \in DOMAIN series : series'[k].next >= series[k].next
  BY <1>8, DismissStep
<1>9. QED
  BY <1>1, <1>2, <1>3, <1>4, <1>5, <1>6, <1>7, <1>8 DEF R!Next, R!ProcessRecurrence

LEMMA SeriesInit ==
  ASSUME R!RecurrenceAssumption, R!Init PROVE SeriesInv
<1> DEFINE first == [parent |-> 0, deadline |-> 0, period |-> 0, next |-> 0, ended |-> FALSE]
<1>1. series = <<first>> /\ job = [p \in Processes |-> R!Idle] /\ shared = {} /\ day = 0 /\ lost = 0
  BY DEF R!Init, R!Task, R!Original, R!NoRule
<1>2. first \in Series /\ Len(series) = 1 /\ DOMAIN series = {1} /\ series[1] = first
      /\ series \in Seq(Series)
  BY <1>1 DEF Series, R!NoRule
<1>3. JobShape(R!Idle) /\ DOMAIN R!Idle.todo = {} /\ R!Idle.pc = "idle"
  BY DEF JobShape, R!Idle
<1>4. JobsShaped /\ \A p \in Processes : job[p] = R!Idle
  BY <1>1, <1>3 DEF JobsShaped
<1>5. R!TypeOK
  BY <1>1, <1>2, <1>3, <1>4 DEF R!TypeOK, R!RecurrenceAssumption, Series
<1>6. ReadAlone
  BY <1>3, <1>4 DEF ReadAlone
<1>7. Rules
  BY <1>2 DEF Rules, R!Original
<1>8. DatesUsed
  <2>1. ASSUME NEW d PROVE R!Instances(1, d) = {} /\ Cardinality(R!Instances(1, d)) = 0
    <3>1. R!Instances(1, d) = {}
      BY <1>2 DEF R!Instances
    <3>2. QED
      BY <3>1, FS_EmptySet
  <2>2. QED
    BY <1>1, <1>2, <2>1 DEF DatesUsed, R!Original
<1>9. QED
  BY <1>2, <1>4, <1>5, <1>6, <1>7, <1>8 DEF SeriesInv, R!RecurrenceAssumption

LEMMA RowsOnce ==
  ASSUME SeriesInv PROVE R!TypeOK /\ R!OncePerRow
<1>1. R!TypeOK /\ DatesUsed
  BY DEF SeriesInv
<1>2. ASSUME NEW i \in DOMAIN series \ shared, NEW j \in DOMAIN series
      PROVE  R!Cardinality(R!Instances(i, series[j].deadline)) <= 1 + lost
  <2> DEFINE d == series[j].deadline
  <2>1. d \in Nat /\ lost \in Nat /\ Cardinality(R!Instances(i, d)) \in Nat
    BY <1>1, SeriesShape, InstancesFinite DEF Series, R!TypeOK
  <2>2. Cardinality(R!Instances(i, d)) <=
          IF d = NextDate(series[i]) /\ ~Moving(job, i) THEN lost ELSE 1 + lost
    BY <1>1, <2>1 DEF DatesUsed
  <2>3. QED
    BY <2>1, <2>2, RecurrenceCardinality
<1>3. QED
  BY <1>1, <1>2 DEF R!OncePerRow

LEMMA RecurrenceOfAll == Init /\ [][Next]_vars => R!Init /\ [][R!Next]_recurrence
<1>1. Init => R!Init
  BY DEF Init
<1>2. [Next]_vars => [R!Next]_recurrence
  BY DEF Next, vars, tasks, recurrence
<1>3. QED
  BY <1>1, <1>2, PTL

\* One open task of an email and of a title that nobody else was creating, one
\* instance of a row of a recurring task for a date, but for one each failure, and
\* no date that moves back.
THEOREM TasksStayOnce ==
  ASSUME E!ExtractionAssumption, R!RecurrenceAssumption PROVE Spec => TasksStoredOnce
<1>1. R!Init => SeriesInv
  BY SeriesInit
<1>2. SeriesInv /\ [R!Next]_recurrence => SeriesInv'
  BY SeriesStep
<1>3. SeriesInv /\ [R!Next]_recurrence =>
        [\A i \in DOMAIN series : i \notin shared => series'[i].next >= series[i].next]_recurrence
  BY SeriesStep
<1>4. SeriesInv => R!TypeOK /\ R!OncePerRow
  BY RowsOnce
<1>5. recurrence = R!vars
  BY DEF recurrence, R!vars
<1>6. Spec => R!DatesUsedOnce
  BY <1>1, <1>2, <1>3, <1>4, <1>5, RecurrenceOfAll, PTL DEF Spec, R!DatesUsedOnce, R!DatesAdvance, recurrence, R!vars
<1>7. QED
  BY <1>6, ExtractedOnce DEF TasksStoredOnce
-------------------------------------------------------------------------------
(* The calendar.                                                           *)

SyncPCs == {"idle", "state", "client", "list", "clear", "apply"}

SyncShape(d) ==
  /\ d = [pc |-> d.pc, token |-> d.token, tries |-> d.tries, todo |-> d.todo, upto |-> d.upto]
  /\ d.pc \in SyncPCs /\ d.token \in Nat /\ d.upto \in Nat
  /\ DOMAIN d.todo \subseteq Events
  /\ d.pc = "idle" => d.token = S!NoToken

\* What the row of e should be when the events are these.
Shown(events, e) ==
  IF events[e].status = "cancelled" THEN S!NoRow ELSE events[e].changed

\* A sync that applies what it has listed: what changed up to the moment of the
\* list and is not among the items left is shown by its row, and an item that
\* has not changed since is the event as it is.
Listing(d, stored, newest, events, shown, hidden) ==
  /\ stored <= d.upto /\ d.upto <= newest
  /\ \A e \in DOMAIN d.todo : d.todo[e] \in S!Event /\ d.todo[e].changed <= d.upto
  /\ \A e \in Events : events[e].changed <= d.upto =>
       IF e \in DOMAIN d.todo THEN d.todo[e] = events[e]
       ELSE e \in hidden \/ shown[e] = Shown(events, e)

\* The advisory lock, and the token that was read under it.
OneSync == \A s, o \in Processes : sync[s].pc # "idle" /\ sync[o].pc # "idle" => s = o
TokenRead == \A s \in Processes : sync[s].token # S!NoToken => sync[s].token = token

CalendarInv ==
  /\ S!TypeOK
  /\ S!Mirrored
  /\ sync = [s \in Processes |-> sync[s]] /\ \A s \in Processes : SyncShape(sync[s])
  /\ OneSync
  /\ TokenRead
  /\ \A e \in Events : up[e].changed <= clock
  /\ \A s \in Processes : sync[s].pc = "apply" =>
       Listing(sync[s], token, clock, up, cached, missed \cup unlisted)

\* A step of the one sync that goes on.
LEMMA SyncMoves ==
  ASSUME CalendarInv, NEW s \in Processes, NEW d, SyncShape(d), sync' = [sync EXCEPT ![s] = d],
         \A o \in Processes : o # s => sync[o].pc = "idle",
         UNCHANGED <<provider, up, clock, oldest>>, token' \in 0 .. clock,
         consent' \in {"granted", "revoked", "marked"}, cached' \in [Events -> 0 .. clock],
         missed' \subseteq Events, unlisted' \subseteq Events, faults' \in 0 .. MaxErrors,
         S!Mirrored', d.token # S!NoToken => d.token = token',
         d.pc = "apply" => Listing(d, token', clock, up, cached', missed' \cup unlisted')
  PROVE  CalendarInv'
<1>1. \A o \in Processes : sync'[o] = IF o = s THEN d ELSE sync[o]
  BY DEF CalendarInv
<1>2. sync' = [o \in Processes |-> sync'[o]]
  BY DEF CalendarInv
<1>3. \A o \in Processes : SyncShape(sync'[o])
  BY <1>1 DEF CalendarInv
<1>4. \A o \in Processes : o # s => sync'[o].pc = "idle" /\ sync'[o].token = S!NoToken
  BY <1>1 DEF CalendarInv, SyncShape
<1>5. OneSync' /\ TokenRead'
  BY <1>1, <1>4 DEF OneSync, TokenRead
<1>6. S!TypeOK'
  <2>1. \A o \in Processes : sync'[o].pc \in SyncPCs
    BY <1>3 DEF SyncShape
  <2>2. QED
    BY <2>1 DEF CalendarInv, S!TypeOK, SyncPCs
<1>7. \A o \in Processes : sync'[o].pc = "apply" =>
        Listing(sync'[o], token', clock', up', cached', missed' \cup unlisted')
  BY <1>1, <1>4
<1>8. \A e \in Events : up'[e].changed <= clock'
  BY DEF CalendarInv
<1>9. QED
  BY <1>2, <1>3, <1>5, <1>6, <1>7, <1>8 DEF CalendarInv

\* The one that goes on is alone.
LEMMA OthersIdle ==
  ASSUME CalendarInv, NEW s \in Processes, sync[s].pc # "idle"
  PROVE  \A o \in Processes : o # s => sync[o].pc = "idle"
  BY DEF CalendarInv, OneSync

\* A step of a sync that leaves the rows and the token alone.
LEMMA QuietMoves ==
  ASSUME S!CalendarAssumption, CalendarInv, NEW s \in Processes, NEW d, SyncShape(d),
         sync' = [sync EXCEPT ![s] = d], \A o \in Processes : o # s => sync[o].pc = "idle",
         UNCHANGED <<provider, up, clock, oldest, token, cached, missed, unlisted>>,
         consent' \in {"granted", "revoked", "marked"}, S!Fails \/ S!Works,
         d.token \in {S!NoToken, token}, d.pc # "apply"
  PROVE  CalendarInv'
<1>1. S!TypeOK /\ S!Mirrored
  BY DEF CalendarInv
<1>2. faults' \in 0 .. MaxErrors
  BY <1>1 DEF S!TypeOK, S!Fails, S!Works, S!CalendarAssumption
<1>3. S!Mirrored'
  BY <1>1 DEF S!Mirrored, S!Shown
<1>4. token' \in 0 .. clock /\ cached' \in [Events -> 0 .. clock] /\ missed' \subseteq Events
      /\ unlisted' \subseteq Events
  BY <1>1 DEF S!TypeOK
<1>5. QED
  BY <1>2, <1>3, <1>4, SyncMoves

LEMMA SyncIdle == SyncShape(S!Idle) /\ S!Idle.pc = "idle" /\ S!Idle.token = S!NoToken
<1>1. DOMAIN S!Idle.todo = {}
  BY DEF S!Idle
<1>2. QED
  BY <1>1 DEF SyncShape, S!Idle, SyncPCs, S!NoToken

\* A sync at another step, and a sync with another token.
LEMMA SyncAt ==
  ASSUME NEW d, SyncShape(d), NEW pc \in SyncPCs, pc # "idle"
  PROVE  /\ SyncShape([d EXCEPT !.pc = pc]) /\ [d EXCEPT !.pc = pc].pc = pc
         /\ [d EXCEPT !.pc = pc].token = d.token
<1>1. d = [pc |-> d.pc, token |-> d.token, tries |-> d.tries, todo |-> d.todo, upto |-> d.upto]
  BY DEF SyncShape
<1>2. [d EXCEPT !.pc = pc] = [pc |-> pc, token |-> d.token, tries |-> d.tries, todo |-> d.todo,
                              upto |-> d.upto]
  BY <1>1
<1>3. QED
  BY <1>2 DEF SyncShape

LEMMA SyncReads ==
  ASSUME NEW d, SyncShape(d), d.pc # "idle", NEW seen \in Nat
  PROVE  /\ SyncShape([d EXCEPT !.token = seen]) /\ [d EXCEPT !.token = seen].pc = d.pc
         /\ [d EXCEPT !.token = seen].token = seen
<1>1. d = [pc |-> d.pc, token |-> d.token, tries |-> d.tries, todo |-> d.todo, upto |-> d.upto]
  BY DEF SyncShape
<1>2. [d EXCEPT !.token = seen] = [pc |-> d.pc, token |-> seen, tries |-> d.tries, todo |-> d.todo,
                                   upto |-> d.upto]
  BY <1>1
<1>3. QED
  BY <1>2 DEF SyncShape

\* Steps of a sync before it has listed anything, and its end.
LEMMA QuietSync ==
  ASSUME S!CalendarAssumption, CalendarInv, NEW s \in Processes,
         \/ S!Begin(s) \/ S!GetSyncState(s) \/ S!BuildClient(s) \/ S!PageFails(s) \/ S!Crash(s)
         \/ S!List(s) /\ sync'[s].pc # "apply"
  PROVE  CalendarInv'
<1>1. /\ S!TypeOK /\ sync = [o \in Processes |-> sync[o]] /\ SyncShape(sync[s]) /\ TokenRead
      /\ \A o \in Processes : SyncShape(sync[o])
  BY DEF CalendarInv
<1>2. token \in Nat /\ consent \in {"granted", "revoked", "marked"}
  BY <1>1 DEF S!TypeOK, S!CalendarAssumption
<1>3. sync[s].token \in {S!NoToken, token}
  BY <1>1 DEF TokenRead
<1>4. ASSUME NEW pc \in SyncPCs \ {"idle", "apply"}, S!Goto(s, pc), S!Fails \/ S!Works,
             \A o \in Processes : o # s => sync[o].pc = "idle",
             UNCHANGED <<provider, up, clock, oldest, consent, token, cached, missed, unlisted>>
      PROVE  CalendarInv'
  <2> DEFINE d == [sync[s] EXCEPT !.pc = pc]
  <2>1. sync' = [sync EXCEPT ![s] = d]
    BY <1>4 DEF S!Goto
  <2>2. SyncShape(d) /\ d.pc = pc /\ d.token = sync[s].token
    BY <1>1, <1>4, SyncAt
  <2> HIDE DEF d
  <2>3. QED
    BY <1>2, <1>3, <1>4, <2>1, <2>2, QuietMoves
<1>5. ASSUME S!End(s), S!Fails \/ S!Works, sync[s].pc # "idle",
             UNCHANGED <<provider, up, clock, oldest, token, cached, missed, unlisted>>,
             consent' \in {"granted", "revoked", "marked"}
      PROVE  CalendarInv'
  <2>1. sync' = [sync EXCEPT ![s] = S!Idle]
    BY <1>5 DEF S!End
  <2>2. \A o \in Processes : o # s => sync[o].pc = "idle"
    BY <1>5, OthersIdle
  <2>3. QED
    BY <1>5, <2>1, <2>2, QuietMoves, SyncIdle
<1>6. CASE S!Begin(s)
  <2>1. /\ S!Goto(s, "state") /\ \A o \in Processes : sync[o].pc = "idle"
        /\ UNCHANGED <<provider, up, clock, oldest, consent, token, cached, missed, unlisted, faults>>
    BY <1>6 DEF S!Begin, S!At
  <2>2. S!Works
    BY <2>1 DEF S!Works
  <2>3. QED
    BY <1>4, <2>1, <2>2 DEF SyncPCs
<1>7. CASE S!GetSyncState(s)
  <2>1. /\ sync[s].pc = "state" /\ \A o \in Processes : o # s => sync[o].pc = "idle"
        /\ UNCHANGED <<provider, up, clock, oldest, consent, token, cached, missed, unlisted>>
    BY <1>7, OthersIdle DEF S!GetSyncState, S!At
  <2>2. CASE S!Fails /\ S!Goto(s, "client")
    BY <1>4, <2>1, <2>2 DEF SyncPCs
  <2>3. CASE S!Works /\ sync' = [sync EXCEPT ![s].pc = "client", ![s].token = token]
    <3> DEFINE q == [sync[s] EXCEPT !.pc = "client"]
               d == [q EXCEPT !.token = token]
    <3>1. SyncShape(q) /\ q.pc = "client"
      BY <1>1, SyncAt DEF SyncPCs
    <3>2. sync' = [sync EXCEPT ![s] = d]
      BY <1>1, <2>3
    <3> HIDE DEF q
    <3>3. SyncShape(d) /\ d.pc = "client" /\ d.token = token
      BY <1>2, <3>1, SyncReads
    <3> HIDE DEF d
    <3>4. QED
      BY <1>2, <2>1, <2>3, <3>2, <3>3, QuietMoves
  <2>4. QED
    BY <1>7, <2>2, <2>3 DEF S!GetSyncState
<1>8. CASE S!BuildClient(s)
  <2>1. /\ sync[s].pc = "client" /\ \A o \in Processes : o # s => sync[o].pc = "idle"
        /\ UNCHANGED <<provider, up, clock, oldest, consent, token, cached, missed, unlisted>>
        /\ (S!Works /\ S!Goto(s, "list")) \/ (S!Fails /\ S!End(s))
    BY <1>8, OthersIdle DEF S!BuildClient, S!At
  <2>2. QED
    BY <1>2, <1>4, <1>5, <2>1 DEF SyncPCs
<1>9. CASE S!PageFails(s) \/ S!Crash(s)
  <2>1. /\ sync[s].pc # "idle" /\ S!Fails /\ S!End(s)
        /\ UNCHANGED <<provider, up, clock, oldest, consent, token, cached, missed, unlisted>>
    BY <1>9 DEF S!PageFails, S!Crash, S!At
  <2>2. QED
    BY <1>2, <1>5, <2>1
<1>10. CASE S!List(s) /\ sync'[s].pc # "apply"
  <2>1. /\ sync[s].pc = "list" /\ UNCHANGED <<provider, up, clock, oldest, token, cached, missed>>
        /\ \A o \in Processes : o # s => sync[o].pc = "idle"
    BY <1>10, OthersIdle DEF S!List, S!At
  <2>2. CASE S!Works /\ S!Refused(s)
    BY <1>5, <2>1, <2>2 DEF S!Refused
  <2>3. CASE S!Works /\ S!Expired(s)
    BY <1>4, <2>1, <2>3 DEF S!Expired, SyncPCs
  <2>4. CASE S!Fails /\ S!Retried(s) /\ UNCHANGED <<consent, unlisted>>
    <3>1. CASE S!End(s)
      BY <1>2, <1>5, <2>1, <2>4, <3>1
    <3>2. CASE sync' = [sync EXCEPT ![s].tries = @ + 1]
      <4> DEFINE d == [sync[s] EXCEPT !.tries = sync[s].tries + 1]
      <4>1. sync' = [sync EXCEPT ![s] = d]
        BY <3>2
      <4>2. d = [pc |-> sync[s].pc, token |-> sync[s].token, tries |-> sync[s].tries + 1,
                 todo |-> sync[s].todo, upto |-> sync[s].upto]
        BY <1>1 DEF SyncShape
      <4>3. SyncShape(d) /\ d.pc = "list" /\ d.token = sync[s].token
        BY <1>1, <2>1, <4>2 DEF SyncShape
      <4> HIDE DEF d
      <4>4. QED
        BY <1>2, <1>3, <2>1, <2>4, <4>1, <4>3, QuietMoves
    <3>3. QED
      BY <2>4, <3>1, <3>2 DEF S!Retried
  <2>5. ASSUME NEW window
        PROVE  sync' # [sync EXCEPT ![s].pc = "apply", ![s].upto = clock,
                                    ![s].todo = [e \in S!Listed(s, window) |-> up[e]]]
    <3> DEFINE todo == [e \in S!Listed(s, window) |-> up[e]]
    <3> HIDE DEF todo
    <3>1. [sync EXCEPT ![s].pc = "apply", ![s].upto = clock, ![s].todo = todo][s].pc = "apply"
      BY <1>1 DEF SyncShape
    <3>2. QED
      BY <1>10, <3>1 DEF todo
  <2>6. QED
    BY <1>10, <2>2, <2>3, <2>4, <2>5 DEF S!List
<1>11. QED
  BY <1>6, <1>7, <1>8, <1>9, <1>10

LEMMA ClearStep ==
  ASSUME S!CalendarAssumption, CalendarInv, NEW s \in Processes, S!ClearSyncState(s)
  PROVE  CalendarInv'
<1>1. /\ S!TypeOK /\ SyncShape(sync[s]) /\ sync = [o \in Processes |-> sync[o]]
  BY DEF CalendarInv
<1>2. /\ sync[s].pc = "clear" /\ \A o \in Processes : o # s => sync[o].pc = "idle"
      /\ UNCHANGED <<provider, up, clock, oldest, consent, cached, missed, unlisted>>
  BY OthersIdle DEF S!ClearSyncState, S!At
<1>3. CASE S!Fails /\ S!End(s) /\ UNCHANGED token
  <2>1. sync' = [sync EXCEPT ![s] = S!Idle] /\ consent' \in {"granted", "revoked", "marked"}
    BY <1>1, <1>2, <1>3 DEF S!End, S!TypeOK
  <2>2. QED
    BY <1>2, <1>3, <2>1, QuietMoves, SyncIdle
<1>4. CASE /\ S!Works /\ token' = S!NoToken
           /\ sync' = [sync EXCEPT ![s].pc = "list", ![s].token = S!NoToken, ![s].tries = 0]
  <2> DEFINE q == [sync[s] EXCEPT !.pc = "list"]
             r == [q EXCEPT !.token = S!NoToken]
             d == [r EXCEPT !.tries = 0]
  <2>1. SyncShape(q) /\ q.pc = "list"
    BY <1>1, SyncAt DEF SyncPCs
  <2>2. sync' = [sync EXCEPT ![s] = d]
    BY <1>1, <1>4
  <2> HIDE DEF q
  <2>3. SyncShape(r) /\ r.pc = "list" /\ r.token = S!NoToken
    BY <2>1, SyncReads DEF S!NoToken
  <2> HIDE DEF r
  <2>4. d = [pc |-> r.pc, token |-> r.token, tries |-> 0, todo |-> r.todo, upto |-> r.upto]
    BY <2>3 DEF SyncShape
  <2>5. SyncShape(d) /\ d.pc = "list" /\ d.token = S!NoToken
    BY <2>3, <2>4 DEF SyncShape
  <2> HIDE DEF d
  <2>6. token' \in 0 .. clock /\ faults' \in 0 .. MaxErrors /\ S!Mirrored'
    BY <1>1, <1>4 DEF S!TypeOK, S!Works, S!NoToken, S!Mirrored, S!Shown, S!CalendarAssumption
  <2>7. consent' \in {"granted", "revoked", "marked"} /\ cached' \in [Events -> 0 .. clock]
        /\ missed' \subseteq Events /\ unlisted' \subseteq Events
    BY <1>1, <1>2 DEF S!TypeOK
  <2>8. QED
    BY <1>2, <2>2, <2>5, <2>6, <2>7, SyncMoves
<1>5. QED
  BY <1>3, <1>4 DEF S!ClearSyncState

\* What is neither listed nor left out is shown.
LEMMA ListStep ==
  ASSUME S!CalendarAssumption, CalendarInv, NEW s \in Processes, S!List(s), sync'[s].pc = "apply"
  PROVE  CalendarInv'
<1>1. /\ S!TypeOK /\ S!Mirrored /\ TokenRead /\ SyncShape(sync[s])
      /\ sync = [o \in Processes |-> sync[o]] /\ \A e \in Events : up[e].changed <= clock
  BY DEF CalendarInv
<1>2. /\ sync[s].pc = "list" /\ \A o \in Processes : o # s => sync[o].pc = "idle"
      /\ UNCHANGED <<provider, up, clock, oldest, token, cached, missed>>
  BY OthersIdle DEF S!List, S!At
<1>3. ~S!End(s) /\ ~S!Goto(s, "clear") /\ ~S!Retried(s)
  <2>1. ASSUME S!End(s) PROVE FALSE
    BY <1>1, <2>1, SyncIdle DEF S!End
  <2>2. ASSUME S!Goto(s, "clear") PROVE FALSE
    <3>1. sync'[s] = [sync[s] EXCEPT !.pc = "clear"]
      BY <1>1, <2>2 DEF S!Goto
    <3>2. QED
      BY <1>1, <3>1, SyncAt DEF SyncPCs
  <2>3. ASSUME sync' = [sync EXCEPT ![s].tries = @ + 1] PROVE FALSE
    <3>1. sync'[s] = [sync[s] EXCEPT !.tries = sync[s].tries + 1]
      BY <1>1, <2>3
    <3>2. sync'[s].pc = sync[s].pc
      BY <1>1, <3>1 DEF SyncShape
    <3>3. QED
      BY <1>2, <3>2
  <2>4. QED
    BY <2>1, <2>2, <2>3 DEF S!Retried
<1>4. /\ S!Works /\ UNCHANGED consent
      /\ \E window \in S!Windows(s) :
           /\ sync' = [sync EXCEPT ![s].pc = "apply", ![s].upto = clock,
                                   ![s].todo = [e \in S!Listed(s, window) |-> up[e]]]
           /\ unlisted' = unlisted \cup S!LeftOut(s, window)
  BY <1>3 DEF S!List, S!Refused, S!Expired
<1>16. PICK window \in S!Windows(s) :
         /\ sync' = [sync EXCEPT ![s].pc = "apply", ![s].upto = clock,
                                 ![s].todo = [e \in S!Listed(s, window) |-> up[e]]]
         /\ unlisted' = unlisted \cup S!LeftOut(s, window)
  BY <1>4
<1> DEFINE todo == [e \in S!Listed(s, window) |-> up[e]]
           q == [sync[s] EXCEPT !.pc = "apply"]
           r == [q EXCEPT !.upto = clock]
           d == [r EXCEPT !.todo = todo]
<1>5. DOMAIN todo = S!Listed(s, window) /\ \A e \in S!Listed(s, window) : todo[e] = up[e]
  OBVIOUS
<1>6. S!Listed(s, window) \subseteq Events
  BY DEF S!Listed, S!Windows
<1>7. clock \in Nat /\ token \in Nat /\ token <= clock
  BY <1>1 DEF S!TypeOK, S!CalendarAssumption
<1> HIDE DEF todo
<1>8. sync' = [sync EXCEPT ![s] = d]
  BY <1>1, <1>16 DEF todo
<1>9. SyncShape(d) /\ d.pc = "apply" /\ d.token = sync[s].token /\ d.upto = clock /\ d.todo = todo
  <2>1. q = [pc |-> "apply", token |-> sync[s].token, tries |-> sync[s].tries,
             todo |-> sync[s].todo, upto |-> sync[s].upto]
    BY <1>1 DEF SyncShape
  <2> HIDE DEF q
  <2>2. r = [pc |-> "apply", token |-> sync[s].token, tries |-> sync[s].tries,
             todo |-> sync[s].todo, upto |-> clock]
    BY <2>1
  <2> HIDE DEF r
  <2>3. d = [pc |-> "apply", token |-> sync[s].token, tries |-> sync[s].tries,
             todo |-> todo, upto |-> clock]
    BY <2>2
  <2>4. QED
    BY <1>1, <1>5, <1>6, <1>7, <2>3 DEF SyncShape, SyncPCs
<1> HIDE DEF d
<1>10. Listing(d, token, clock, up, cached, missed \cup unlisted')
  <2>1. \A e \in S!Listed(s, window) : up[e] \in S!Event /\ up[e].changed <= clock
    BY <1>1, <1>6 DEF S!TypeOK
  <2>2. ASSUME NEW e \in Events, e \notin S!Listed(s, window), e \notin missed \cup unlisted'
        PROVE  cached[e] = Shown(up, e)
    <3>1. e \notin S!LeftOut(s, window) /\ e \notin unlisted
      BY <1>16, <2>2
    <3>2. CASE sync[s].token = S!NoToken \/ up[e].changed > sync[s].token
      BY <2>2, <3>1, <3>2 DEF S!LeftOut, S!Shown, Shown
    <3>3. CASE sync[s].token # S!NoToken /\ ~(up[e].changed > sync[s].token)
      <4>1. sync[s].token = token
        BY <1>1, <3>3 DEF TokenRead
      <4>2. up[e].changed \in Nat
        BY <1>1 DEF S!TypeOK, S!Event
      <4>3. up[e].changed <= token
        BY <1>7, <3>3, <4>1, <4>2
      <4>4. QED
        BY <1>1, <2>2, <3>1, <3>3, <4>1, <4>3 DEF S!Mirrored, S!Shown, Shown
    <3>4. QED
      BY <3>2, <3>3
  <2>3. QED
    BY <1>5, <1>7, <1>9, <2>1, <2>2 DEF Listing
<1>11. S!Mirrored'
  BY <1>1, <1>2, <1>16 DEF S!Mirrored, S!Shown
<1>12. /\ token' \in 0 .. clock /\ cached' \in [Events -> 0 .. clock] /\ missed' \subseteq Events
       /\ unlisted' \subseteq Events /\ faults' \in 0 .. MaxErrors
       /\ consent' \in {"granted", "revoked", "marked"}
  BY <1>1, <1>2, <1>4, <1>16 DEF S!TypeOK, S!Works, S!LeftOut
<1>13. d.token # S!NoToken => d.token = token'
  BY <1>1, <1>2, <1>9 DEF TokenRead
<1>14. Listing(d, token', clock, up, cached', missed' \cup unlisted')
  BY <1>2, <1>10
<1>15. QED
  BY <1>2, <1>8, <1>9, <1>11, <1>12, <1>13, <1>14, SyncMoves

LEMMA ApplyStep ==
  ASSUME S!CalendarAssumption, CalendarInv, NEW s \in Processes, NEW e \in Events, S!Apply(s, e)
  PROVE  CalendarInv'
<1> DEFINE old == sync[s].todo
           left == DOMAIN old \ {e}
           todo == [i \in left |-> old[i]]
           d == [sync[s] EXCEPT !.todo = todo]
           v == IF old[e].status = "cancelled" THEN S!NoRow ELSE old[e].changed
           upto == sync[s].upto
<1>1. /\ S!TypeOK /\ S!Mirrored /\ TokenRead /\ SyncShape(sync[s])
      /\ sync = [o \in Processes |-> sync[o]]
  BY DEF CalendarInv
<1>2. /\ sync[s].pc = "apply" /\ \A o \in Processes : o # s => sync[o].pc = "idle"
      /\ UNCHANGED <<provider, up, clock, oldest, consent, token>>
      /\ e \in DOMAIN old /\ sync' = [sync EXCEPT ![s] = d]
  BY OthersIdle DEF S!Apply, S!At
<1>3. Listing(sync[s], token, clock, up, cached, missed \cup unlisted)
  BY <1>2 DEF CalendarInv
<1>4. \/ /\ cached' = [cached EXCEPT ![e] = v] /\ missed' = missed \ {e} /\ unlisted' = unlisted \ {e}
      \/ cached' = cached /\ missed' = missed \cup {e} /\ unlisted' = unlisted
  BY DEF S!Apply, S!Item
<1>5. S!Works \/ S!Fails
  BY DEF S!Apply, S!Item
<1>6. old[e] \in S!Event /\ old[e].changed <= upto /\ token <= upto /\ upto <= clock
  BY <1>2, <1>3 DEF Listing
<1>7. clock \in Nat /\ token \in Nat /\ upto \in Nat /\ v \in 0 .. clock
  BY <1>1, <1>6 DEF S!TypeOK, S!CalendarAssumption, SyncShape, S!Event, S!NoRow
<1>8. DOMAIN todo = left /\ \A i \in left : todo[i] = old[i]
  OBVIOUS
<1> HIDE DEF todo
<1>9. SyncShape(d) /\ d.pc = "apply" /\ d.token = sync[s].token /\ d.upto = upto /\ d.todo = todo
  <2>1. d = [pc |-> "apply", token |-> sync[s].token, tries |-> sync[s].tries, todo |-> todo,
             upto |-> upto]
    BY <1>1, <1>2 DEF SyncShape
  <2>2. QED
    BY <1>1, <1>8, <2>1 DEF SyncShape, SyncPCs
<1>10. up[e].changed <= upto => v = Shown(up, e)
  BY <1>2, <1>3 DEF Listing, Shown
<1> HIDE DEF d, v
<1>11. cached' \in [Events -> 0 .. clock] /\ missed' \subseteq Events /\ unlisted' \subseteq Events
  BY <1>1, <1>4, <1>7 DEF S!TypeOK
<1>12. \A f \in Events : f # e =>
         cached'[f] = cached[f] /\ (f \in missed' \cup unlisted' <=> f \in missed \cup unlisted)
  BY <1>1, <1>4 DEF S!TypeOK
<1>13. up[e].changed <= upto => e \in missed' \/ cached'[e] = Shown(up, e)
  BY <1>1, <1>4, <1>10 DEF S!TypeOK
<1>14. Listing(d, token, clock, up, cached', missed' \cup unlisted')
  <2>1. \A f \in DOMAIN todo : todo[f] \in S!Event /\ todo[f].changed <= upto
    BY <1>3, <1>8 DEF Listing
  <2>2. ASSUME NEW f \in Events, up[f].changed <= upto
        PROVE  IF f \in DOMAIN todo THEN todo[f] = up[f]
               ELSE f \in missed' \cup unlisted' \/ cached'[f] = Shown(up, f)
    <3>1. CASE f = e
      BY <1>8, <1>13, <2>2, <3>1
    <3>2. CASE f # e
      BY <1>3, <1>8, <1>12, <2>2, <3>2 DEF Listing
    <3>3. QED
      BY <3>1, <3>2
  <2>3. QED
    BY <1>6, <1>9, <2>1, <2>2 DEF Listing
<1>15. S!Mirrored'
  <2> SUFFICES ASSUME NEW f \in Events, token # S!NoToken, up[f].changed <= token,
                      f \notin missed' \cup unlisted'
               PROVE  cached'[f] = Shown(up, f)
    BY <1>2 DEF S!Mirrored, S!Shown, Shown
  <2>1. CASE f = e
    <3>1. up[e].changed \in Nat
      BY <1>1 DEF S!TypeOK, S!Event
    <3>2. up[e].changed <= upto
      BY <1>6, <1>7, <2>1, <3>1
    <3>3. QED
      BY <1>13, <2>1, <3>2
  <2>2. CASE f # e
    BY <1>1, <1>12, <2>2 DEF S!Mirrored, S!Shown, Shown
  <2>3. QED
    BY <2>1, <2>2
<1>16. /\ token' \in 0 .. clock /\ faults' \in 0 .. MaxErrors
       /\ consent' \in {"granted", "revoked", "marked"}
  BY <1>1, <1>2, <1>5 DEF S!TypeOK, S!Works, S!Fails, S!CalendarAssumption
<1>17. d.token # S!NoToken => d.token = token'
  BY <1>1, <1>2, <1>9 DEF TokenRead
<1>18. Listing(d, token', clock, up, cached', missed' \cup unlisted')
  BY <1>2, <1>14
<1>19. QED
  BY <1>2, <1>9, <1>11, <1>15, <1>16, <1>17, <1>18, SyncMoves

\* The new token stands for what has been applied.
LEMMA SaveStep ==
  ASSUME S!CalendarAssumption, CalendarInv, NEW s \in Processes, S!SaveSyncState(s)
  PROVE  CalendarInv'
<1>1. /\ S!TypeOK /\ S!Mirrored /\ SyncShape(sync[s]) /\ sync = [o \in Processes |-> sync[o]]
  BY DEF CalendarInv
<1>2. /\ sync[s].pc = "apply" /\ \A o \in Processes : o # s => sync[o].pc = "idle"
      /\ UNCHANGED <<provider, up, clock, oldest, consent, cached, missed, unlisted>>
      /\ sync[s].todo = S!Idle.todo /\ sync' = [sync EXCEPT ![s] = S!Idle]
      /\ (S!Works /\ token' = sync[s].upto) \/ (S!Fails /\ UNCHANGED token)
  BY OthersIdle DEF S!SaveSyncState, S!At, S!End
<1>3. Listing(sync[s], token, clock, up, cached, missed \cup unlisted)
  BY <1>2 DEF CalendarInv
<1>4. DOMAIN sync[s].todo = {}
  BY <1>2 DEF S!Idle
<1>5. S!Mirrored'
  <2>1. CASE token' = sync[s].upto
    <3>1. \A e \in Events : up[e].changed <= token' =>
            e \in missed \cup unlisted \/ cached[e] = Shown(up, e)
      BY <1>3, <1>4, <2>1 DEF Listing
    <3>2. QED
      BY <1>2, <3>1 DEF S!Mirrored, S!Shown, Shown
  <2>2. CASE UNCHANGED token
    BY <1>1, <1>2, <2>2 DEF S!Mirrored, S!Shown
  <2>3. QED
    BY <1>2, <2>1, <2>2
<1>6. token' \in 0 .. clock
  BY <1>1, <1>2, <1>3 DEF Listing, S!TypeOK, SyncShape, S!CalendarAssumption
<1>7. /\ cached' \in [Events -> 0 .. clock] /\ missed' \subseteq Events /\ unlisted' \subseteq Events
      /\ consent' \in {"granted", "revoked", "marked"} /\ faults' \in 0 .. MaxErrors
  BY <1>1, <1>2 DEF S!TypeOK, S!Works, S!Fails, S!CalendarAssumption
<1>8. QED
  BY <1>2, <1>5, <1>6, <1>7, SyncIdle, SyncMoves

\* A change is newer than every token and than every list.
LEMMA ChangeStep ==
  ASSUME S!CalendarAssumption, CalendarInv, NEW e \in Events,
         NEW status \in {"busy", "free", "cancelled"}, S!Change(e, status)
  PROVE  CalendarInv'
<1> DEFINE r == [status |-> status, changed |-> clock + 1]
<1>1. S!TypeOK /\ S!Mirrored /\ \A s \in Processes : SyncShape(sync[s])
  BY DEF CalendarInv
<1>2. /\ clock <= CalendarChanges /\ clock' = clock + 1 /\ up' = [up EXCEPT ![e] = r]
      /\ UNCHANGED <<provider, oldest, consent, token, cached, sync, missed, unlisted, faults>>
  BY DEF S!Change
<1>3. clock \in Nat /\ clock' \in 1 .. CalendarChanges + 1 /\ token \in Nat /\ token <= clock
      /\ CalendarChanges \in Nat
  BY <1>1, <1>2 DEF S!TypeOK, S!CalendarAssumption
<1>4. \A f \in Events : up'[f] = IF f = e THEN r ELSE up[f]
  BY <1>1, <1>2 DEF S!TypeOK
<1>5. r \in S!Event /\ up' \in [Events -> S!Event]
  BY <1>1, <1>2, <1>3 DEF S!TypeOK, S!Event
<1>6. \A f \in Events : up[f].changed \in Nat /\ up[f].changed <= clock
  BY <1>1 DEF CalendarInv, S!TypeOK, S!Event
<1>7. \A f \in Events : up'[f].changed <= clock'
  BY <1>2, <1>3, <1>4, <1>6
<1>8. S!TypeOK'
  <2>1. cached' \in [Events -> 0 .. clock']
    BY <1>1, <1>2, <1>3 DEF S!TypeOK
  <2>2. oldest' \in 0 .. clock' /\ token' \in 0 .. clock'
    BY <1>1, <1>2, <1>3 DEF S!TypeOK
  <2>3. QED
    BY <1>1, <1>2, <1>3, <1>5, <2>1, <2>2 DEF S!TypeOK
<1>9. S!Mirrored'
  <2> SUFFICES ASSUME NEW f \in Events, token # S!NoToken, up'[f].changed <= token,
                      f \notin missed \cup unlisted
               PROVE  cached[f] = Shown(up', f)
    BY <1>2 DEF S!Mirrored, S!Shown, Shown
  <2>1. f # e
    BY <1>3, <1>4
  <2>2. up'[f] = up[f]
    BY <1>4, <2>1
  <2>3. QED
    BY <1>1, <2>2 DEF S!Mirrored, S!Shown, Shown
<1>10. ASSUME NEW s \in Processes, sync[s].pc = "apply"
       PROVE  Listing(sync[s], token, clock', up', cached, missed \cup unlisted)
  <2>1. Listing(sync[s], token, clock, up, cached, missed \cup unlisted) /\ sync[s].upto \in Nat
    BY <1>1, <1>10 DEF CalendarInv, SyncShape
  <2>2. sync[s].upto <= clock'
    BY <1>2, <1>3, <2>1 DEF Listing
  <2>3. ASSUME NEW f \in Events, up'[f].changed <= sync[s].upto
        PROVE  /\ up'[f] = up[f] /\ up[f].changed <= sync[s].upto
               /\ Shown(up', f) = Shown(up, f)
    <3>1. f # e
      BY <1>3, <1>4, <2>1, <2>3 DEF Listing
    <3>2. QED
      BY <1>4, <2>3, <3>1 DEF Shown
  <2>4. QED
    BY <2>1, <2>2, <2>3 DEF Listing
<1>11. OneSync' /\ TokenRead'
  BY <1>2 DEF CalendarInv, OneSync, TokenRead
<1>12. \A s \in Processes : sync'[s].pc = "apply" =>
         Listing(sync'[s], token', clock', up', cached', missed' \cup unlisted')
  BY <1>2, <1>10
<1>13. sync' = [s \in Processes |-> sync'[s]] /\ \A s \in Processes : SyncShape(sync'[s])
  BY <1>2 DEF CalendarInv
<1>14. QED
  BY <1>7, <1>8, <1>9, <1>11, <1>12, <1>13 DEF CalendarInv

LEMMA CalendarStep ==
  ASSUME S!CalendarAssumption, CalendarInv, [S!Next]_calendar PROVE CalendarInv'
<1>1. ASSUME NEW s \in Processes, S!Sync(s) PROVE CalendarInv'
  <2>1. CASE S!Begin(s) \/ S!GetSyncState(s) \/ S!BuildClient(s)
    BY <2>1, QuietSync
  <2>2. CASE S!List(s)
    BY <2>2, QuietSync, ListStep
  <2>3. QED
    BY <1>1, <2>1, <2>2, ClearStep, ApplyStep, SaveStep DEF S!Sync
<1>2. ASSUME NEW s \in Processes, S!PageFails(s) \/ S!Crash(s) PROVE CalendarInv'
  BY <1>2, QuietSync
<1>3. CASE UNCHANGED calendar \/ S!ExpireTokens \/ S!Revoke
  <2>1. /\ UNCHANGED <<provider, up, clock, token, cached, sync, missed, unlisted, faults>>
        /\ oldest' \in 0 .. clock /\ consent' \in {"granted", "revoked", "marked"}
    BY <1>3 DEF calendar, S!ExpireTokens, S!Revoke, CalendarInv, S!TypeOK, S!CalendarAssumption
  <2>2. S!TypeOK' /\ S!Mirrored' /\ OneSync' /\ TokenRead'
    BY <2>1 DEF CalendarInv, S!TypeOK, S!Mirrored, S!Shown, OneSync, TokenRead
  <2>3. \A s \in Processes : sync'[s].pc = "apply" =>
          Listing(sync'[s], token', clock', up', cached', missed' \cup unlisted')
    BY <2>1 DEF CalendarInv
  <2>4. QED
    BY <2>1, <2>2, <2>3 DEF CalendarInv
<1>4. QED
  BY <1>1, <1>2, <1>3, ChangeStep DEF S!Next

LEMMA CalendarInit ==
  ASSUME S!CalendarAssumption, S!Init PROVE CalendarInv
<1>1. sync = [s \in Processes |-> S!Idle] /\ \A s \in Processes : sync[s] = S!Idle
  BY DEF S!Init
<1>2. \A s \in Processes : SyncShape(sync[s]) /\ sync[s].pc = "idle" /\ sync[s].token = S!NoToken
  BY <1>1, SyncIdle
<1>3. \A e \in Events : up[e] = [status |-> "busy", changed |-> 1]
  BY DEF S!Init
<1>4. S!TypeOK
  <2>1. [status |-> "busy", changed |-> 1] \in S!Event
    BY DEF S!Event
  <2>2. QED
    BY <1>2, <2>1 DEF S!TypeOK, S!Init, S!CalendarAssumption, S!NoRow, S!NoToken
<1>5. S!Mirrored /\ OneSync /\ TokenRead
  BY <1>2 DEF S!Init, S!Mirrored, S!Shown, OneSync, TokenRead
<1>6. \A e \in Events : up[e].changed <= clock
  BY <1>3 DEF S!Init
<1>7. QED
  BY <1>1, <1>2, <1>4, <1>5, <1>6 DEF CalendarInv

\* Every row of the calendar shows its event as of the token, but for what was
\* refused or failed to be stored and what a listing left out: events outside
\* the window of a full listing and those deleted before it, through expired
\* tokens, crashes and syncs of several processes (sync.go:194, google.go:86).
THEOREM CalendarMirrored ==
  ASSUME S!CalendarAssumption PROVE Spec => []RowsMirrorEvents
<1>1. Init => CalendarInv
  BY CalendarInit DEF Init
<1>2. CalendarInv /\ [Next]_vars => CalendarInv'
  <2>1. [Next]_vars => [S!Next]_calendar
    BY DEF Next, vars, calendar
  <2>2. QED
    BY <2>1, CalendarStep
<1>3. CalendarInv => RowsMirrorEvents
  BY DEF CalendarInv, RowsMirrorEvents, S!RowsMirrorEvents
<1>4. QED
  BY <1>1, <1>2, <1>3, PTL DEF Spec
-------------------------------------------------------------------------------
(* The cron scheduler.                                                     *)

\* The clock modulo an interval: it goes up by one, or starts again.
LEMMA Remainder == ASSUME NEW a \in Nat, NEW n \in Nat \ {0} PROVE a % n \in 0 .. n - 1
  OBVIOUS

LEMMA Quotient ==
  ASSUME NEW a \in Nat, NEW n \in Nat \ {0}
  PROVE  a = n * (a \div n) + (a % n) /\ (a \div n) \in Nat
  OBVIOUS

LEMMA NextRemainder ==
  ASSUME NEW a \in Nat, NEW n \in Nat \ {0}
  PROVE  (a + 1) % n = 0 \/ (a + 1) % n = (a % n) + 1
<1> DEFINE p == a \div n
           q == (a+1) \div n
           r == a % n
           s == (a+1) % n
<1>1. a = n * p + r /\ r \in 0 .. n - 1 /\ p \in Nat
  BY Remainder, Quotient
<1>2. a + 1 = n * q + s /\ s \in 0 .. n - 1 /\ q \in Nat
  <2>1. a + 1 \in Nat
    OBVIOUS
  <2>2. QED
    BY <2>1, Remainder, Quotient
<1> HIDE DEF p, q, r, s
<1>3. n * (q - p) = r + 1 - s
  BY <1>1, <1>2
<1>4. CASE q = p
  BY <1>1, <1>2, <1>4
<1>5. CASE q > p
  <2>1. n * (q - p) >= n
    BY <1>1, <1>2, <1>5
  <2>2. QED
    BY <1>1, <1>2, <1>3, <2>1 DEF r, s
<1>6. CASE q < p
  <2>1. n * (p - q) >= n
    BY <1>1, <1>2, <1>6
  <2>2. n * (p - q) = s - r - 1
    BY <1>1, <1>2
  <2>3. QED
    BY <1>1, <1>2, <2>1, <2>2
<1>7. QED
  BY <1>1, <1>2, <1>4, <1>5, <1>6 DEF r, s

\* A permutation of a finite set of jobs has every one of them.
InTodo(todo, j) == \E i \in 1 .. Len(todo) : todo[i] = j

LEMMA Orders ==
  ASSUME C!CronAssumption, NEW set \in SUBSET Jobs, NEW order \in C!SetToSeqs(set)
  PROVE  order \in Seq(Jobs) /\ \A j \in set : InTodo(order, j)
<1>1. C!Cardinality(set) = Cardinality(set)
  BY Zenon DEF C!Cardinality, Cardinality
<1>2. IsFiniteSet(Jobs)
  <2>1. C!IsFiniteSet(Jobs)
    BY DEF C!CronAssumption
  <2>2. QED
    BY <2>1, Zenon DEF C!IsFiniteSet, IsFiniteSet
<1>3. IsFiniteSet(set) /\ Cardinality(set) \in Nat
  BY <1>2, FS_Subset, FS_CardinalityType
<1> DEFINE n == Cardinality(set)
<1>4. order \in [1 .. n -> set] /\ \A i, j \in 1 .. n : i # j => order[i] # order[j]
  BY <1>1 DEF C!SetToSeqs
<1>5. order \in Injection(1 .. n, set)
  BY <1>4 DEF Injection, IsInjective
<1>6. Cardinality(1 .. n) = n
  BY <1>3, FS_Interval
<1> HIDE DEF n
<1>7. order \in Surjection(1 .. n, set)
  BY <1>3, <1>5, <1>6, FS_Injection DEF n
<1>8. n \in Nat
  BY <1>3 DEF n
<1>9. order \in Seq(set) /\ Len(order) = n
  BY <1>4, <1>8
<1>10. order \in Seq(Jobs)
  BY <1>4, <1>8
<1>11. \A j \in set : \E i \in 1 .. n : order[i] = j
  BY <1>7 DEF Surjection
<1>12. QED
  BY <1>9, <1>10, <1>11 DEF InTodo

LEMMA TodoParts ==
  ASSUME NEW todo \in Seq(Jobs), todo # <<>>
  PROVE  /\ Head(todo) \in Jobs /\ Tail(todo) \in Seq(Jobs)
         /\ \A j : InTodo(todo, j) => j = Head(todo) \/ InTodo(Tail(todo), j)
<1>1. Len(todo) \in Nat \ {0} /\ Head(todo) = todo[1] /\ Tail(todo) \in Seq(Jobs)
      /\ Len(Tail(todo)) = Len(todo) - 1
      /\ \A i \in 1 .. Len(Tail(todo)) : Tail(todo)[i] = todo[i + 1]
  OBVIOUS
<1>2. ASSUME NEW i \in 1 .. Len(todo), i # 1
      PROVE  i - 1 \in 1 .. Len(Tail(todo)) /\ Tail(todo)[i - 1] = todo[i]
  BY <1>1, <1>2
<1>3. Head(todo) \in Jobs
  BY <1>1
<1>4. QED
  BY <1>1, <1>2, <1>3 DEF InTodo

LEMMA TodoEmpty == \A j : ~InTodo(<<>>, j)
  BY DEF InTodo

CronRow == [status : C!Statuses \cup {"none"}, next : Nat]

\* The last tick of a job's ticker, at time t.
LastTick(d, t, j) == t - ((t - d.since) % Interval[j])

\* What a row that completed and has the next run n keeps of it, when the job
\* was last called at c: one that is overdue is still to run while recovery
\* lasts, unless an error kept it out; in the loop it was not before the last
\* tick, or has been called since, or that tick has not been dealt with.
JobKept(d, n, c, k, t, j) ==
  /\ n <= c + Interval[j]
  /\ d.pc = "overdue" => n >= t \/ InTodo(d.todo, j) \/ j \in d.missed
  /\ d.pc = "start" => n >= t \/ j \in d.missed
  /\ d.pc = "loop" =>
       /\ n >= d.since \/ j \in d.missed
       /\ \/ j \in k \/ InTodo(d.todo, j)
          \/ n >= LastTick(d, t, j) \/ c >= LastTick(d, t, j)
          \/ j \in d.missed /\ LastTick(d, t, j) = d.since

\* The scheduler of a user, the user's rows, calls and ticks, at time t.
CronUser(d, r, c, k, t) ==
  /\ d \in C!Scheduler /\ r \in [Jobs -> CronRow] /\ c \in [Jobs -> Nat] /\ k \subseteq Jobs
  /\ d.since <= t
  /\ d.todo = <<>> => d.at = "mark"
  /\ d.pc \in {"down", "recover"} => d.todo = <<>>
  /\ d.at \in {"failed", "completed"} => c[Head(d.todo)] = t
  /\ \A j \in Jobs : c[j] <= t
  /\ \A j \in Jobs : r[j].status = "completed" /\ r[j].next # C!NoNext =>
       JobKept(d, r[j].next, c[j], k, t, j)

\* The jobs of a user whose rows say running while nobody runs them.
CutOf(d, r) ==
  {j \in Jobs : r[j].status = "running" /\ ~(d.todo # <<>> /\ Head(d.todo) = j /\ d.at # "mark")}

CutOffs == {uj \in Users \X Jobs : C!CutOff(uj[1], uj[2])}

CronInv ==
  /\ C!TypeOK
  /\ ran \in [Users -> [Jobs -> Nat]]
  /\ \A u \in Users : CronUser(sched[u], row[u], ran[u], ticked[u], now)
  /\ IsFiniteSet(CutOffs) /\ Cardinality(CutOffs) <= stops + wrong

LEMMA CutOffsAre == CutOffs = {uj \in Users \X Jobs : uj[2] \in CutOf(sched[uj[1]], row[uj[1]])}
  BY DEF CutOffs, CutOf, C!CutOff, C!Job

\* A step of one user's scheduler.
LEMMA CronSteps ==
  ASSUME CronInv, NEW u \in Users, NEW d, NEW r, NEW c, NEW k,
         sched' = [sched EXCEPT ![u] = d], row' = [row EXCEPT ![u] = r],
         ran' = [ran EXCEPT ![u] = c], ticked' = [ticked EXCEPT ![u] = k],
         UNCHANGED now, stops' \in 0 .. MaxStops, failures' \in 0 .. MaxFailures,
         wrong' \in 0 .. MaxErrors, CronUser(d, r, c, k, now)
  PROVE  /\ C!TypeOK' /\ ran' \in [Users -> [Jobs -> Nat]]
         /\ \A o \in Users : CronUser(sched'[o], row'[o], ran'[o], ticked'[o], now')
         /\ CutOffs' = {uj \in Users \X Jobs : uj[2] \in CutOf(sched'[uj[1]], row'[uj[1]])}
         /\ \A o \in Users : CutOf(sched'[o], row'[o])
                               = IF o = u THEN CutOf(d, r) ELSE CutOf(sched[o], row[o])
<1>1. /\ sched \in [Users -> C!Scheduler] /\ row \in [Users -> [Jobs -> CronRow]]
      /\ ran \in [Users -> [Jobs -> Nat]] /\ ticked \in [Users -> SUBSET Jobs]
  BY DEF CronInv, C!TypeOK, CronRow
<1>2. \A o \in Users : /\ sched'[o] = IF o = u THEN d ELSE sched[o]
                       /\ row'[o] = IF o = u THEN r ELSE row[o]
                       /\ ran'[o] = IF o = u THEN c ELSE ran[o]
                       /\ ticked'[o] = IF o = u THEN k ELSE ticked[o]
  BY <1>1
<1>3. d \in C!Scheduler /\ r \in [Jobs -> CronRow] /\ c \in [Jobs -> Nat] /\ k \subseteq Jobs
  BY DEF CronUser
<1>4. C!TypeOK'
  BY <1>1, <1>3 DEF CronInv, C!TypeOK, CronRow
<1>5. ran' \in [Users -> [Jobs -> Nat]]
  BY <1>1, <1>3
<1>6. \A o \in Users : CronUser(sched'[o], row'[o], ran'[o], ticked'[o], now')
  BY <1>2 DEF CronInv
<1>7. CutOffs' = {uj \in Users \X Jobs : uj[2] \in CutOf(sched'[uj[1]], row'[uj[1]])}
  BY DEF CutOffs, CutOf, C!CutOff, C!Job
<1>8. QED
  BY <1>2, <1>4, <1>5, <1>6, <1>7

\* A step of one user's scheduler that leaves no more rows running.
LEMMA CronMoves ==
  ASSUME C!CronAssumption, CronInv, NEW u \in Users, NEW d, NEW r, NEW c, NEW k,
         sched' = [sched EXCEPT ![u] = d], row' = [row EXCEPT ![u] = r],
         ran' = [ran EXCEPT ![u] = c], ticked' = [ticked EXCEPT ![u] = k],
         UNCHANGED <<now, stops>>, failures' \in 0 .. MaxFailures,
         C!Error \/ UNCHANGED wrong,
         CronUser(d, r, c, k, now), CutOf(d, r) \subseteq CutOf(sched[u], row[u])
  PROVE  CronInv'
<1>1. stops' \in 0 .. MaxStops /\ UNCHANGED <<now, stops>> /\ stops \in Nat
  BY DEF CronInv, C!TypeOK, C!CronAssumption
<1>10. wrong \in Nat /\ wrong' \in 0 .. MaxErrors /\ wrong' >= wrong
  BY DEF CronInv, C!TypeOK, C!CronAssumption, C!Error
<1>2. /\ C!TypeOK' /\ ran' \in [Users -> [Jobs -> Nat]]
      /\ \A o \in Users : CronUser(sched'[o], row'[o], ran'[o], ticked'[o], now')
  BY <1>1, <1>10, CronSteps
<1>3. CutOffs' \subseteq CutOffs
  <2>1. CutOffs' = {uj \in Users \X Jobs : uj[2] \in CutOf(sched'[uj[1]], row'[uj[1]])}
    BY <1>1, <1>10, CronSteps
  <2>2. \A o \in Users : CutOf(sched'[o], row'[o])
                          = IF o = u THEN CutOf(d, r) ELSE CutOf(sched[o], row[o])
    BY <1>1, <1>10, CronSteps
  <2>3. \A o \in Users : CutOf(sched'[o], row'[o]) \subseteq CutOf(sched[o], row[o])
    BY <2>2
  <2>4. QED
    BY <2>1, <2>3, CutOffsAre
<1>4. IsFiniteSet(CutOffs') /\ Cardinality(CutOffs') <= stops' + wrong'
  <2>1. IsFiniteSet(CutOffs) /\ Cardinality(CutOffs) <= stops + wrong
    BY DEF CronInv
  <2>2. IsFiniteSet(CutOffs') /\ Cardinality(CutOffs') <= Cardinality(CutOffs)
    BY <1>3, <2>1, FS_Subset
  <2>3. Cardinality(CutOffs') \in Nat /\ Cardinality(CutOffs) \in Nat
    BY <2>1, <2>2, FS_CardinalityType
  <2>4. QED
    BY <1>1, <1>10, <2>1, <2>2, <2>3
<1>5. QED
  BY <1>2, <1>4 DEF CronInv

LEMMA OneMore ==
  ASSUME NEW m \in Nat, NEW n \in Nat, NEW a \in Nat, NEW b \in Nat, NEW c \in Nat, NEW d \in Nat,
         m <= n, n <= a + b + 1, c + d = a + b + 1
  PROVE  m <= c + d
  OBVIOUS

\* A stop or an error that leaves at most the row of the job under way.
LEMMA CronCutsOff ==
  ASSUME C!CronAssumption, CronInv, NEW u \in Users, NEW d, NEW r, NEW c, NEW k,
         sched' = [sched EXCEPT ![u] = d], row' = [row EXCEPT ![u] = r],
         ran' = [ran EXCEPT ![u] = c], ticked' = [ticked EXCEPT ![u] = k],
         UNCHANGED now, failures' \in 0 .. MaxFailures,
         \/ C!Error /\ UNCHANGED stops
         \/ stops < MaxStops /\ stops' = stops + 1 /\ UNCHANGED wrong,
         CronUser(d, r, c, k, now),
         NEW j, CutOf(d, r) \subseteq CutOf(sched[u], row[u]) \cup {j}
  PROVE  CronInv'
<1> DEFINE h == <<u, j>>
<1>1. /\ stops \in Nat /\ stops' \in 0 .. MaxStops /\ wrong \in Nat /\ wrong' \in 0 .. MaxErrors
      /\ stops' + wrong' = stops + wrong + 1
  <2>1. /\ stops \in 0 .. MaxStops /\ wrong \in 0 .. MaxErrors
        /\ MaxStops \in Nat /\ MaxErrors \in Nat
    BY DEF CronInv, C!TypeOK, C!CronAssumption
  <2>2. CASE C!Error /\ UNCHANGED stops
    BY <2>1, <2>2 DEF C!Error
  <2>3. CASE stops < MaxStops /\ stops' = stops + 1 /\ UNCHANGED wrong
    BY <2>1, <2>3
  <2>4. QED
    BY <2>2, <2>3
<1>2. /\ C!TypeOK' /\ ran' \in [Users -> [Jobs -> Nat]]
      /\ \A o \in Users : CronUser(sched'[o], row'[o], ran'[o], ticked'[o], now')
      /\ CutOffs' = {uj \in Users \X Jobs : uj[2] \in CutOf(sched'[uj[1]], row'[uj[1]])}
      /\ \A o \in Users : CutOf(sched'[o], row'[o])
                            = IF o = u THEN CutOf(d, r) ELSE CutOf(sched[o], row[o])
  BY <1>1, CronSteps
<1>3. CutOffs' \subseteq CutOffs \cup {h}
  <2> SUFFICES ASSUME NEW uj \in CutOffs' PROVE uj \in CutOffs \cup {h}
    OBVIOUS
  <2>1. /\ uj \in Users \X Jobs /\ uj[1] \in Users /\ uj[2] \in CutOf(sched'[uj[1]], row'[uj[1]])
        /\ uj = <<uj[1], uj[2]>>
    BY <1>2
  <2>2. CASE uj[1] = u
    BY <1>2, <2>1, <2>2, CutOffsAre
  <2>3. CASE uj[1] # u
    BY <1>2, <2>1, <2>3, CutOffsAre
  <2>4. QED
    BY <2>2, <2>3
<1>4. IsFiniteSet(CutOffs \cup {h}) /\ Cardinality(CutOffs \cup {h}) <= stops + wrong + 1
  <2>1. IsFiniteSet(CutOffs) /\ Cardinality(CutOffs) <= stops + wrong
    BY DEF CronInv
  <2>2. Cardinality(CutOffs) \in Nat
    BY <2>1, FS_CardinalityType
  <2>3. /\ IsFiniteSet(CutOffs \cup {h})
        /\ Cardinality(CutOffs \cup {h})
             = IF h \in CutOffs THEN Cardinality(CutOffs) ELSE Cardinality(CutOffs) + 1
    BY <2>1, FS_AddElement
  <2>4. QED
    BY <1>1, <2>1, <2>2, <2>3
<1>5. IsFiniteSet(CutOffs') /\ Cardinality(CutOffs') <= stops' + wrong'
  <2>1. /\ IsFiniteSet(CutOffs') /\ Cardinality(CutOffs') <= Cardinality(CutOffs \cup {h})
    BY <1>3, <1>4, FS_Subset
  <2>2. Cardinality(CutOffs') \in Nat /\ Cardinality(CutOffs \cup {h}) \in Nat
    BY <1>4, <2>1, FS_CardinalityType
  <2>3. stops' \in Nat /\ wrong' \in Nat
    BY <1>1
  <2> DEFINE m == Cardinality(CutOffs')
             n == Cardinality(CutOffs \cup {h})
  <2>4. m \in Nat /\ n \in Nat /\ m <= n /\ n <= stops + wrong + 1
    BY <1>4, <2>1, <2>2
  <2> HIDE DEF m, n
  <2>5. m <= stops' + wrong'
    BY <1>1, <2>3, <2>4, OneMore
  <2>6. QED
    BY <2>1, <2>5 DEF m
<1>6. QED
  BY <1>2, <1>5 DEF CronInv

\* What CronInv says of one user.
LEMMA CronOf ==
  ASSUME CronInv, NEW u \in Users
  PROVE  /\ CronUser(sched[u], row[u], ran[u], ticked[u], now)
         /\ sched = [sched EXCEPT ![u] = sched[u]] /\ row = [row EXCEPT ![u] = row[u]]
         /\ ran = [ran EXCEPT ![u] = ran[u]] /\ ticked = [ticked EXCEPT ![u] = ticked[u]]
         /\ now \in Nat /\ failures \in 0 .. MaxFailures
         /\ sched[u] \in C!Scheduler /\ row[u] \in [Jobs -> CronRow] /\ ran[u] \in [Jobs -> Nat]
  BY DEF CronInv, C!TypeOK, CronUser

LEMMA DownIs ==
  /\ C!Down \in C!Scheduler /\ C!Down.pc = "down" /\ C!Down.todo = <<>>
  /\ C!Down.at = "mark" /\ C!Down.since = 0
<1>1. <<>> \in Seq(Jobs)
  OBVIOUS
<1>2. QED
  BY <1>1 DEF C!Down, C!Scheduler, C!PCs, C!Steps

LEMMA SpawnStep ==
  ASSUME C!CronAssumption, CronInv, NEW u \in Users, C!Spawn(u) PROVE CronInv'
<1> DEFINE q == [C!Down EXCEPT !.pc = "recover"]
           d == [q EXCEPT !.since = now]
<1>1. /\ sched[u].pc = "down" /\ ticked' = [ticked EXCEPT ![u] = {}]
      /\ UNCHANGED <<row, now, ran, stops, failures, wrong>>
      /\ sched' = [sched EXCEPT ![u] = d]
  BY DEF C!Spawn
<1>2. /\ CronUser(sched[u], row[u], ran[u], ticked[u], now) /\ now \in Nat
      /\ row' = [row EXCEPT ![u] = row[u]] /\ ran' = [ran EXCEPT ![u] = ran[u]]
      /\ failures' \in 0 .. MaxFailures
  BY <1>1, CronOf
<1>3. /\ d \in C!Scheduler /\ d.pc = "recover" /\ d.todo = <<>> /\ d.at = "mark" /\ d.since = now
  <2>1. q \in C!Scheduler /\ q.pc = "recover" /\ q.todo = <<>> /\ q.at = "mark"
    BY DownIs DEF C!Scheduler, C!PCs
  <2> HIDE DEF q
  <2>2. QED
    BY <1>2, <2>1 DEF C!Scheduler
<1> HIDE DEF d
<1>4. CronUser(d, row[u], ran[u], {}, now)
  BY <1>2, <1>3 DEF CronUser, JobKept
<1>5. CutOf(d, row[u]) \subseteq CutOf(sched[u], row[u])
  BY <1>1, <1>2, <1>3 DEF CutOf, CronUser
<1>6. QED
  BY <1>1, <1>2, <1>4, <1>5, CronMoves

\* What is overdue is on the list of the recovery, or an error kept it out.
Taken(d, set) ==
  \/ d.pc = "overdue" /\ \A j \in set : InTodo(d.todo, j) \/ j \in d.missed
  \/ d.pc = "start" /\ set \subseteq d.missed

LEMMA Recovering ==
  ASSUME C!CronAssumption, CronInv, NEW u \in Users, sched[u].pc = "recover",
         NEW d \in C!Scheduler, d.at = "mark", d.since = sched[u].since, Taken(d, C!Overdue(u))
  PROVE  /\ CronUser(d, row[u], ran[u], ticked[u], now)
         /\ CutOf(d, row[u]) \subseteq CutOf(sched[u], row[u])
<1>1. /\ CronUser(sched[u], row[u], ran[u], ticked[u], now) /\ now \in Nat
      /\ row[u] \in [Jobs -> CronRow] /\ ran[u] \in [Jobs -> Nat]
  BY CronOf
<1>2. ASSUME NEW j \in Jobs, row[u][j].status = "completed", row[u][j].next # C!NoNext
      PROVE  JobKept(d, row[u][j].next, ran[u][j], ticked[u], now, j)
  <2>1. row[u][j].next \in Nat /\ row[u][j].next <= ran[u][j] + Interval[j]
    BY <1>1, <1>2 DEF CronUser, JobKept, CronRow
  <2>2. row[u][j].next >= now \/ j \in C!Overdue(u)
    BY <1>1, <1>2, <2>1 DEF C!Overdue
  <2>3. QED
    BY <2>1, <2>2 DEF JobKept, Taken
<1>3. sched[u].since <= now /\ \A j \in Jobs : ran[u][j] <= now
  BY <1>1 DEF CronUser
<1>4. CronUser(d, row[u], ran[u], ticked[u], now)
  BY <1>1, <1>2, <1>3 DEF CronUser, Taken
<1>5. CutOf(d, row[u]) \subseteq CutOf(sched[u], row[u])
  BY <1>1 DEF CutOf, CronUser
<1>6. QED
  BY <1>4, <1>5

LEMMA RecoverStep ==
  ASSUME C!CronAssumption, CronInv, NEW u \in Users, C!Recover(u) PROVE CronInv'
<1>1. PICK order \in C!SetToSeqs(C!Overdue(u)) :
        sched' = [sched EXCEPT ![u].pc = "overdue", ![u].todo = order]
  BY DEF C!Recover
<1> DEFINE q == [sched[u] EXCEPT !.pc = "overdue"]
           d == [q EXCEPT !.todo = order]
<1>2. sched[u].pc = "recover" /\ UNCHANGED <<row, ticked, now, ran, stops, failures, wrong>>
  BY DEF C!Recover
<1>3. /\ CronUser(sched[u], row[u], ran[u], ticked[u], now) /\ sched[u] \in C!Scheduler
      /\ row' = [row EXCEPT ![u] = row[u]] /\ ran' = [ran EXCEPT ![u] = ran[u]]
      /\ ticked' = [ticked EXCEPT ![u] = ticked[u]] /\ failures' \in 0 .. MaxFailures
  BY <1>2, CronOf
<1>4. C!Overdue(u) \in SUBSET Jobs
  BY DEF C!Overdue
<1>5. order \in Seq(Jobs) /\ \A j \in C!Overdue(u) : InTodo(order, j)
  BY <1>1, <1>4, Orders
<1>6. sched[u].at = "mark"
  BY <1>2, <1>3 DEF CronUser
<1>7. sched' = [sched EXCEPT ![u] = d]
  BY <1>1, <1>3 DEF C!Scheduler
<1>8. /\ d \in C!Scheduler /\ d.pc = "overdue" /\ d.todo = order /\ d.at = "mark"
      /\ d.since = sched[u].since
  BY <1>3, <1>5, <1>6 DEF C!Scheduler, C!PCs
<1> HIDE DEF d
<1>9. /\ CronUser(d, row[u], ran[u], ticked[u], now)
      /\ CutOf(d, row[u]) \subseteq CutOf(sched[u], row[u])
  BY <1>2, <1>5, <1>8, Recovering DEF Taken
<1>10. QED
  BY <1>2, <1>3, <1>7, <1>9, CronMoves

LEMMA RecoverFailsStep ==
  ASSUME C!CronAssumption, CronInv, NEW u \in Users, C!RecoverFails(u) PROVE CronInv'
<1>1. /\ sched[u].pc = "recover" /\ C!Error /\ UNCHANGED <<row, ticked, now, ran, stops, failures>>
  BY DEF C!RecoverFails
<1>2. /\ CronUser(sched[u], row[u], ran[u], ticked[u], now) /\ sched[u] \in C!Scheduler
      /\ row' = [row EXCEPT ![u] = row[u]] /\ ran' = [ran EXCEPT ![u] = ran[u]]
      /\ ticked' = [ticked EXCEPT ![u] = ticked[u]] /\ failures' \in 0 .. MaxFailures
  BY <1>1, CronOf
<1>3. C!Overdue(u) \subseteq Jobs
  BY DEF C!Overdue
<1>4. sched[u].at = "mark" /\ AtStart \in Seq(Jobs)
  BY <1>1, <1>2 DEF CronUser, C!CronAssumption
<1>5. CASE sched' = [sched EXCEPT ![u].pc = "start", ![u].todo = AtStart,
                                  ![u].missed = C!Overdue(u)]
  <2> DEFINE p == [sched[u] EXCEPT !.pc = "start"]
             q == [p EXCEPT !.todo = AtStart]
             d == [q EXCEPT !.missed = C!Overdue(u)]
  <2>1. sched' = [sched EXCEPT ![u] = d]
    BY <1>2, <1>5 DEF C!Scheduler
  <2>2. /\ d \in C!Scheduler /\ d.pc = "start" /\ d.missed = C!Overdue(u) /\ d.at = "mark"
        /\ d.since = sched[u].since
    BY <1>2, <1>3, <1>4 DEF C!Scheduler, C!PCs
  <2> HIDE DEF d
  <2>3. /\ CronUser(d, row[u], ran[u], ticked[u], now)
        /\ CutOf(d, row[u]) \subseteq CutOf(sched[u], row[u])
    BY <1>1, <2>2, Recovering DEF Taken
  <2>4. QED
    BY <1>1, <1>2, <2>1, <2>3, CronMoves
<1>6. ASSUME NEW set \in SUBSET C!Overdue(u), NEW order \in C!SetToSeqs(set),
             sched' = [sched EXCEPT ![u].pc = "overdue", ![u].todo = order,
                                    ![u].missed = C!Overdue(u) \ set]
      PROVE  CronInv'
  <2> DEFINE p == [sched[u] EXCEPT !.pc = "overdue"]
             q == [p EXCEPT !.todo = order]
             d == [q EXCEPT !.missed = C!Overdue(u) \ set]
  <2>1. order \in Seq(Jobs) /\ \A j \in set : InTodo(order, j)
    BY <1>3, Orders
  <2>2. sched' = [sched EXCEPT ![u] = d]
    BY <1>2, <1>6 DEF C!Scheduler
  <2>3. /\ d \in C!Scheduler /\ d.pc = "overdue" /\ d.todo = order
        /\ d.missed = C!Overdue(u) \ set /\ d.at = "mark" /\ d.since = sched[u].since
    BY <1>2, <1>3, <1>4, <2>1 DEF C!Scheduler, C!PCs
  <2> HIDE DEF d
  <2>4. \A j \in C!Overdue(u) : InTodo(d.todo, j) \/ j \in d.missed
    BY <2>1, <2>3
  <2>5. /\ CronUser(d, row[u], ran[u], ticked[u], now)
        /\ CutOf(d, row[u]) \subseteq CutOf(sched[u], row[u])
    BY <1>1, <2>3, <2>4, Recovering DEF Taken
  <2>6. QED
    BY <1>1, <1>2, <2>2, <2>5, CronMoves
<1>7. QED
  BY <1>5, <1>6 DEF C!RecoverFails

LEMMA NextPhaseStep ==
  ASSUME C!CronAssumption, CronInv, NEW u \in Users, C!NextPhase(u) PROVE CronInv'
<1>1. sched[u].todo = <<>> /\ UNCHANGED <<row, ticked, now, ran, stops, failures, wrong>>
  BY DEF C!NextPhase
<1>2. /\ CronUser(sched[u], row[u], ran[u], ticked[u], now) /\ now \in Nat
      /\ row' = [row EXCEPT ![u] = row[u]] /\ ran' = [ran EXCEPT ![u] = ran[u]]
      /\ ticked' = [ticked EXCEPT ![u] = ticked[u]] /\ failures' \in 0 .. MaxFailures
      /\ sched[u] \in C!Scheduler /\ row[u] \in [Jobs -> CronRow] /\ ran[u] \in [Jobs -> Nat]
  BY <1>1, CronOf
<1>3. sched[u].at = "mark" /\ AtStart \in Seq(Jobs)
  BY <1>1, <1>2 DEF CronUser, C!CronAssumption
<1>4. CASE sched[u].pc = "overdue" /\ sched' = [sched EXCEPT ![u].pc = "start", ![u].todo = AtStart]
  <2> DEFINE q == [sched[u] EXCEPT !.pc = "start"]
             d == [q EXCEPT !.todo = AtStart]
  <2>1. sched' = [sched EXCEPT ![u] = d]
    BY <1>2, <1>4 DEF C!Scheduler
  <2>2. /\ d \in C!Scheduler /\ d.pc = "start" /\ d.todo = AtStart /\ d.at = "mark"
        /\ d.since = sched[u].since /\ d.missed = sched[u].missed
    BY <1>2, <1>3 DEF C!Scheduler, C!PCs
  <2> HIDE DEF d
  <2>3. CronUser(d, row[u], ran[u], ticked[u], now)
    BY <1>1, <1>2, <1>4, <2>2, TodoEmpty DEF CronUser, JobKept
  <2>4. CutOf(d, row[u]) \subseteq CutOf(sched[u], row[u])
    BY <1>3, <2>2 DEF CutOf
  <2>5. QED
    BY <1>1, <1>2, <2>1, <2>3, <2>4, CronMoves
<1>5. CASE sched[u].pc = "start" /\ sched' = [sched EXCEPT ![u].pc = "loop", ![u].since = now]
  <2> DEFINE q == [sched[u] EXCEPT !.pc = "loop"]
             d == [q EXCEPT !.since = now]
  <2>1. sched' = [sched EXCEPT ![u] = d]
    BY <1>2, <1>5 DEF C!Scheduler
  <2>2. /\ d \in C!Scheduler /\ d.pc = "loop" /\ d.todo = <<>> /\ d.at = "mark" /\ d.since = now
        /\ d.missed = sched[u].missed
    BY <1>1, <1>2, <1>3 DEF C!Scheduler, C!PCs
  <2> HIDE DEF d
  <2>3. ASSUME NEW j \in Jobs, row[u][j].status = "completed", row[u][j].next # C!NoNext
        PROVE  JobKept(d, row[u][j].next, ran[u][j], ticked[u], now, j)
    <3>1. /\ row[u][j].next >= now \/ j \in sched[u].missed
          /\ row[u][j].next <= ran[u][j] + Interval[j]
      BY <1>2, <1>5, <2>3 DEF CronUser, JobKept
    <3>2. Interval[j] \in Nat \ {0}
      BY DEF C!CronAssumption
    <3>3. now - now = 0 /\ 0 % Interval[j] = 0
      BY <1>2, <3>2
    <3>4. LastTick(d, now, j) = now
      BY <1>2, <2>2, <3>3 DEF LastTick
    <3>5. QED
      BY <2>2, <3>1, <3>4 DEF JobKept
  <2>4. CronUser(d, row[u], ran[u], ticked[u], now)
    BY <1>2, <2>2, <2>3 DEF CronUser
  <2>5. CutOf(d, row[u]) \subseteq CutOf(sched[u], row[u])
    BY <1>1, <2>2 DEF CutOf
  <2>6. QED
    BY <1>1, <1>2, <2>1, <2>4, <2>5, CronMoves
<1>6. QED
  BY <1>4, <1>5 DEF C!NextPhase

\* What has fired is on the list of the round.
LEMMA PollStep ==
  ASSUME C!CronAssumption, CronInv, NEW u \in Users, C!Poll(u) PROVE CronInv'
<1>1. PICK order \in C!SetToSeqs(ticked[u]) : sched' = [sched EXCEPT ![u].todo = order]
  BY DEF C!Poll
<1> DEFINE d == [sched[u] EXCEPT !.todo = order]
<1>2. /\ sched[u].pc = "loop" /\ sched[u].todo = <<>> /\ ticked' = [ticked EXCEPT ![u] = {}]
      /\ UNCHANGED <<row, now, ran, stops, failures, wrong>>
  BY DEF C!Poll
<1>3. /\ CronUser(sched[u], row[u], ran[u], ticked[u], now) /\ now \in Nat
      /\ row' = [row EXCEPT ![u] = row[u]] /\ ran' = [ran EXCEPT ![u] = ran[u]]
      /\ failures' \in 0 .. MaxFailures
      /\ sched[u] \in C!Scheduler /\ row[u] \in [Jobs -> CronRow] /\ ran[u] \in [Jobs -> Nat]
  BY <1>2, CronOf
<1>4. ticked[u] \in SUBSET Jobs /\ sched[u].at = "mark"
  BY <1>2, <1>3 DEF CronUser
<1>5. order \in Seq(Jobs) /\ \A j \in ticked[u] : InTodo(order, j)
  BY <1>1, <1>4, Orders
<1>6. sched' = [sched EXCEPT ![u] = d]
  BY <1>1
<1>7. /\ d \in C!Scheduler /\ d.pc = "loop" /\ d.todo = order /\ d.at = "mark"
      /\ d.since = sched[u].since /\ d.missed = sched[u].missed
  BY <1>2, <1>3, <1>4, <1>5 DEF C!Scheduler
<1> HIDE DEF d
<1>11. ASSUME NEW j \in Jobs, row[u][j].status = "completed", row[u][j].next # C!NoNext
       PROVE  JobKept(d, row[u][j].next, ran[u][j], {}, now, j)
  <2>1. JobKept(sched[u], row[u][j].next, ran[u][j], ticked[u], now, j)
    BY <1>3, <1>11 DEF CronUser
  <2>2. LastTick(d, now, j) = LastTick(sched[u], now, j)
    BY <1>7 DEF LastTick
  <2>3. ~InTodo(sched[u].todo, j) /\ (j \in ticked[u] => InTodo(d.todo, j))
    BY <1>2, <1>5, <1>7, TodoEmpty
  <2>4. QED
    BY <1>2, <1>7, <2>1, <2>2, <2>3 DEF JobKept
<1>8. CronUser(d, row[u], ran[u], {}, now)
  BY <1>3, <1>7, <1>11 DEF CronUser
<1>9. CutOf(d, row[u]) \subseteq CutOf(sched[u], row[u])
  BY <1>2, <1>7, SMTT(20) DEF CutOf
<1>10. QED
  BY <1>2, <1>3, <1>6, <1>8, <1>9, CronMoves

\* The job under way: it is marked running, or that fails.
LEMMA Under ==
  ASSUME CronInv, NEW u \in Users, sched[u].todo # <<>>
  PROVE  /\ Head(sched[u].todo) \in Jobs /\ Tail(sched[u].todo) \in Seq(Jobs)
         /\ \A i : InTodo(sched[u].todo, i)
                     => i = Head(sched[u].todo) \/ InTodo(Tail(sched[u].todo), i)
         /\ sched[u].pc \notin {"down", "recover"}
<1>1. CronUser(sched[u], row[u], ran[u], ticked[u], now) /\ sched[u] \in C!Scheduler
  BY CronOf
<1>2. sched[u].todo \in Seq(Jobs)
  BY <1>1 DEF C!Scheduler
<1>3. QED
  BY <1>1, <1>2, TodoParts DEF CronUser

\* What a row keeps does not depend on the step of runJob, and a later call of
\* the job disturbs nothing.
LEMMA KeptWhile ==
  ASSUME NEW d, NEW q, NEW n \in Nat, NEW c \in Nat, NEW b \in Nat, b <= c, NEW k, NEW t, NEW j \in Jobs,
         C!CronAssumption, NEW m \in Nat, LastTick(d, t, j) = m,
         q.pc = d.pc, q.since = d.since, q.missed = d.missed,
         InTodo(d.todo, j) => InTodo(q.todo, j),
         JobKept(d, n, b, k, t, j)
  PROVE  JobKept(q, n, c, k, t, j)
<1>1. LastTick(q, t, j) = m
  BY DEF LastTick
<1>2. Interval[j] \in Nat
  BY DEF C!CronAssumption
<1>3. n <= c + Interval[j]
  BY <1>2 DEF JobKept
<1>4. b >= m => c >= m
  OBVIOUS
<1>5. QED
  BY <1>1, <1>3, <1>4 DEF JobKept

\* The last tick is not before the loop began and not after now.
LEMMA TickOf ==
  ASSUME C!CronAssumption, NEW d \in C!Scheduler, NEW t \in Nat, d.since <= t, NEW j \in Jobs
  PROVE  LastTick(d, t, j) \in Nat /\ LastTick(d, t, j) <= t
<1> DEFINE a == t - d.since
           n == Interval[j]
<1>1. a \in Nat /\ d.since \in Nat /\ t = a + d.since
  BY DEF C!Scheduler
<1>2. n \in Nat \ {0}
  BY DEF C!CronAssumption
<1> HIDE DEF n
<1>3. a = n * (a \div n) + (a % n) /\ (a \div n) \in Nat /\ a % n \in 0 .. n - 1
  <2> HIDE DEF a
  <2>1. QED
    BY <1>1, <1>2, Quotient, Remainder
<1> DEFINE m == a % n
           p == n * (a \div n)
<1>4. p \in Nat /\ m \in Nat
  BY <1>2, <1>3
<1>5. a = p + m
  BY <1>3
<1>6. LastTick(d, t, j) = t - m
  BY DEF LastTick, n
<1> HIDE DEF a, m, p
<1>7. QED
  BY <1>1, <1>4, <1>5, <1>6

LEMMA MarkStep ==
  ASSUME C!CronAssumption, CronInv, NEW u \in Users, C!MarkRunning(u) \/ C!MarkFails(u)
  PROVE  CronInv'
<1> DEFINE j == Head(sched[u].todo)
           d == [sched[u] EXCEPT !.at = "call"]
           e == [row[u][j] EXCEPT !.status = "running"]
           r == [row[u] EXCEPT ![j] = e]
<1>1. /\ sched[u].todo # <<>> /\ sched[u].at = "mark"
      /\ row' = [row EXCEPT ![u][j].status = "running"] \/ row' = row
      /\ sched' = [sched EXCEPT ![u] = d]
      /\ UNCHANGED <<ticked, now, ran, stops, failures>> /\ (C!Error \/ UNCHANGED wrong)
  BY DEF C!MarkRunning, C!MarkFails, C!Running, C!Job, C!Goto
<1>2. /\ CronUser(sched[u], row[u], ran[u], ticked[u], now) /\ now \in Nat
      /\ ran' = [ran EXCEPT ![u] = ran[u]] /\ ticked' = [ticked EXCEPT ![u] = ticked[u]]
      /\ row = [row EXCEPT ![u] = row[u]] /\ failures' \in 0 .. MaxFailures
      /\ sched[u] \in C!Scheduler /\ row[u] \in [Jobs -> CronRow] /\ ran[u] \in [Jobs -> Nat]
  BY <1>1, CronOf
<1>3. j \in Jobs /\ sched[u].pc \notin {"down", "recover"}
  BY <1>1, Under
<1>4. PICK s \in {r, row[u]} : row' = [row EXCEPT ![u] = s]
  BY <1>1, <1>2
<1>5. e \in CronRow /\ e.status = "running"
  BY <1>2, <1>3 DEF CronRow, C!Statuses
<1> HIDE DEF e
<1>6. s \in [Jobs -> CronRow] /\ \A i \in Jobs : s[i] = row[u][i] \/ (i = j /\ s[i] = e)
  BY <1>2, <1>3, <1>5
<1>7. /\ d \in C!Scheduler /\ d.pc = sched[u].pc /\ d.todo = sched[u].todo /\ d.at = "call"
      /\ d.since = sched[u].since /\ d.missed = sched[u].missed
  BY <1>2 DEF C!Scheduler, C!Steps
<1> HIDE DEF d, r
<1>8. ASSUME NEW i \in Jobs, s[i].status = "completed", s[i].next # C!NoNext
      PROVE  JobKept(d, s[i].next, ran[u][i], ticked[u], now, i)
  <2>1. s[i] = row[u][i] /\ s[i].next \in Nat /\ ran[u][i] \in Nat
    BY <1>2, <1>5, <1>6, <1>8 DEF CronRow
  <2>2. JobKept(sched[u], s[i].next, ran[u][i], ticked[u], now, i)
    BY <1>2, <1>8, <2>1 DEF CronUser
  <2>3. LastTick(d, now, i) = LastTick(sched[u], now, i)
    BY <1>7 DEF LastTick
  <2>4. QED
    BY <1>7, <2>2, <2>3 DEF JobKept
<1>9. CronUser(d, s, ran[u], ticked[u], now)
  BY <1>1, <1>2, <1>3, <1>6, <1>7, <1>8 DEF CronUser
<1>10. CutOf(d, s) \subseteq CutOf(sched[u], row[u])
  BY <1>1, <1>5, <1>6, <1>7 DEF CutOf
<1>11. UNCHANGED <<now, stops>>
  BY <1>1
<1>12. QED
  BY <1>1, <1>2, <1>4, <1>9, <1>10, <1>11, CronMoves

LEMMA MarkFailsStep ==
  ASSUME C!CronAssumption, CronInv, NEW u \in Users, C!MarkFails(u) PROVE CronInv'
  BY MarkStep

LEMMA CallStep ==
  ASSUME C!CronAssumption, CronInv, NEW u \in Users, C!Call(u) PROVE CronInv'
<1> DEFINE j == Head(sched[u].todo)
           c == [ran[u] EXCEPT ![j] = now]
<1>1. /\ sched[u].todo # <<>> /\ sched[u].at = "call" /\ ran' = [ran EXCEPT ![u][j] = now]
      /\ UNCHANGED <<row, ticked, now, stops, wrong>>
  BY DEF C!Call, C!Running, C!Job
<1>2. PICK at \in {"failed", "completed"} : sched' = [sched EXCEPT ![u].at = at]
  BY DEF C!Call, C!Goto
<1>3. failures' \in 0 .. MaxFailures
  BY DEF C!Call, CronInv, C!TypeOK, C!CronAssumption
<1> DEFINE d == [sched[u] EXCEPT !.at = at]
<1>4. /\ CronUser(sched[u], row[u], ran[u], ticked[u], now) /\ now \in Nat
      /\ row' = [row EXCEPT ![u] = row[u]] /\ ticked' = [ticked EXCEPT ![u] = ticked[u]]
      /\ sched[u] \in C!Scheduler /\ row[u] \in [Jobs -> CronRow] /\ ran[u] \in [Jobs -> Nat]
  BY <1>1, CronOf
<1>5. j \in Jobs /\ sched[u].pc \notin {"down", "recover"}
  BY <1>1, Under
<1>6. ran' = [ran EXCEPT ![u] = c] /\ sched' = [sched EXCEPT ![u] = d]
  BY <1>1, <1>2
<1>7. c \in [Jobs -> Nat] /\ c[j] = now /\ \A i \in Jobs : i # j => c[i] = ran[u][i]
  BY <1>4, <1>5
<1>8. /\ d \in C!Scheduler /\ d.pc = sched[u].pc /\ d.todo = sched[u].todo /\ d.at = at
      /\ d.since = sched[u].since /\ d.missed = sched[u].missed
  BY <1>4 DEF C!Scheduler, C!Steps
<1> HIDE DEF c, d
<1>9. sched[u].since <= now /\ \A i \in Jobs : ran[u][i] <= now
  BY <1>4 DEF CronUser
<1>14. \A i \in Jobs : c[i] <= now /\ ran[u][i] <= c[i]
  BY <1>4, <1>7, <1>9
<1>15. ASSUME NEW i \in Jobs, row[u][i].status = "completed", row[u][i].next # C!NoNext
       PROVE  JobKept(d, row[u][i].next, c[i], ticked[u], now, i)
  <2>1. row[u][i].next \in Nat /\ c[i] \in Nat /\ ran[u][i] \in Nat
    BY <1>4, <1>7 DEF CronRow
  <2>2. JobKept(sched[u], row[u][i].next, ran[u][i], ticked[u], now, i)
    BY <1>4, <1>15 DEF CronUser
  <2>3. LastTick(sched[u], now, i) \in Nat
    BY <1>4, <1>9, TickOf
  <2>4. QED
    BY <1>8, <1>14, <2>1, <2>2, <2>3, KeptWhile
<1>10. CronUser(d, row[u], c, ticked[u], now)
  BY <1>1, <1>4, <1>5, <1>7, <1>8, <1>9, <1>14, <1>15 DEF CronUser
<1>11. CutOf(d, row[u]) \subseteq CutOf(sched[u], row[u])
  BY <1>1, <1>8 DEF CutOf
<1>12. UNCHANGED <<now, stops>> /\ (C!Error \/ UNCHANGED wrong)
  BY <1>1
<1>13. QED
  BY <1>3, <1>4, <1>6, <1>10, <1>11, <1>12, CronMoves

\* The row gets its next run from the call, if it was there.
LEMMA ResultStep ==
  ASSUME C!CronAssumption, CronInv, NEW u \in Users, C!Result(u) PROVE CronInv'
<1> DEFINE j == Head(sched[u].todo)
           p == [sched[u] EXCEPT !.todo = Tail(sched[u].todo)]
           q == [p EXCEPT !.at = "mark"]
           d == [q EXCEPT !.missed = sched[u].missed \ {j}]
           x == IF row[u][j].status = "none" THEN C!NoNext ELSE now + Interval[j]
<1>1. PICK status \in {"failed", "completed"} :
        /\ sched[u].todo # <<>> /\ sched[u].at = status
        /\ row' = [row EXCEPT ![u][j] =
                     [status |-> status,
                      next |-> IF @.status = "none" THEN C!NoNext ELSE now + Interval[j]]]
  BY DEF C!Result, C!Running, C!Job
<1> DEFINE e == [status |-> status, next |-> x]
           r == [row[u] EXCEPT ![j] = e]
<1>2. /\ sched' = [sched EXCEPT ![u].todo = Tail(@), ![u].at = "mark", ![u].missed = @ \ {j}]
      /\ UNCHANGED <<ticked, now, ran, stops, failures, wrong>>
  BY DEF C!Result, C!Job
<1>3. /\ CronUser(sched[u], row[u], ran[u], ticked[u], now) /\ now \in Nat
      /\ ran' = [ran EXCEPT ![u] = ran[u]] /\ ticked' = [ticked EXCEPT ![u] = ticked[u]]
      /\ failures' \in 0 .. MaxFailures
      /\ sched[u] \in C!Scheduler /\ row[u] \in [Jobs -> CronRow] /\ ran[u] \in [Jobs -> Nat]
      /\ row = [row EXCEPT ![u] = row[u]]
  BY <1>2, CronOf
<1>4. /\ j \in Jobs /\ Tail(sched[u].todo) \in Seq(Jobs)
      /\ \A i : InTodo(sched[u].todo, i) => i = j \/ InTodo(Tail(sched[u].todo), i)
      /\ sched[u].pc \notin {"down", "recover"}
  BY <1>1, Under
<1>5. sched' = [sched EXCEPT ![u] = d]
  BY <1>2, <1>3 DEF C!Scheduler
<1>6. row' = [row EXCEPT ![u] = r]
  BY <1>1, <1>3, <1>4
<1>7. Interval[j] \in Nat \ {0} /\ now + Interval[j] \in Nat
  <2>1. Interval \in [Jobs -> Nat \ {0}]
    BY DEF C!CronAssumption
  <2> HIDE DEF j
  <2>2. Interval[j] \in Nat \ {0}
    BY <1>4, <2>1
  <2>3. QED
    BY <1>3, <2>2
<1>8. /\ x \in Nat /\ e \in CronRow /\ e.status = status /\ e.next = x
      /\ x # C!NoNext => x = now + Interval[j]
  BY <1>7 DEF CronRow, C!Statuses, C!NoNext
<1> HIDE DEF e, x
<1>9. r \in [Jobs -> CronRow] /\ r[j] = e /\ \A i \in Jobs : i # j => r[i] = row[u][i]
  BY <1>3, <1>4, <1>8
<1>10. /\ d \in C!Scheduler /\ d.pc = sched[u].pc /\ d.todo = Tail(sched[u].todo)
       /\ d.at = "mark" /\ d.since = sched[u].since /\ d.missed = sched[u].missed \ {j}
  BY <1>3, <1>4 DEF C!Scheduler, C!Steps
<1> HIDE DEF d, r
<1>11. ran[u][j] = now /\ sched[u].since \in Nat /\ sched[u].since <= now
  BY <1>1, <1>3 DEF CronUser, C!Scheduler
<1>12. ASSUME r[j].next # C!NoNext PROVE JobKept(d, r[j].next, ran[u][j], ticked[u], now, j)
  <2>1. r[j].next = now + Interval[j]
    BY <1>8, <1>9, <1>12
  <2>2. LastTick(d, now, j) \in Nat /\ LastTick(d, now, j) <= now
    BY <1>3, <1>4, <1>10, <1>11, TickOf
  <2>3. r[j].next >= now /\ r[j].next >= d.since /\ r[j].next <= ran[u][j] + Interval[j]
    BY <1>3, <1>7, <1>10, <1>11, <2>1
  <2>4. ran[u][j] >= LastTick(d, now, j)
    BY <1>11, <2>2
  <2>5. QED
    BY <2>3, <2>4 DEF JobKept
<1>13. ASSUME NEW i \in Jobs, r[i].status = "completed", r[i].next # C!NoNext
       PROVE  JobKept(d, r[i].next, ran[u][i], ticked[u], now, i)
  <2>1. CASE i = j
    BY <1>12, <1>13, <2>1
  <2>2. CASE i # j
    <3>1. r[i] = row[u][i] /\ JobKept(sched[u], r[i].next, ran[u][i], ticked[u], now, i)
      BY <1>3, <1>9, <1>13, <2>2 DEF CronUser
    <3>2. LastTick(d, now, i) = LastTick(sched[u], now, i)
      BY <1>10 DEF LastTick
    <3>3. (InTodo(sched[u].todo, i) => InTodo(d.todo, i)) /\ (i \in sched[u].missed => i \in d.missed)
      BY <1>4, <1>10, <2>2
    <3>4. QED
      BY <1>10, <3>1, <3>2, <3>3 DEF JobKept
  <2>3. QED
    BY <2>1, <2>2
<1>17. \A i \in Jobs : ran[u][i] <= now
  BY <1>3 DEF CronUser
<1>14. CronUser(d, r, ran[u], ticked[u], now)
  BY <1>3, <1>4, <1>9, <1>10, <1>11, <1>13, <1>17 DEF CronUser
<1>15. CutOf(d, r) \subseteq CutOf(sched[u], row[u])
  BY <1>1, <1>8, <1>9, <1>10 DEF CutOf
<1>16. QED
  BY <1>2, <1>3, <1>5, <1>6, <1>14, <1>15, CronMoves

\* A result that is not written: the row is as it was, perhaps running.
LEMMA ResultFailsStep ==
  ASSUME C!CronAssumption, CronInv, NEW u \in Users, C!ResultFails(u) PROVE CronInv'
<1> DEFINE j == Head(sched[u].todo)
           p == [sched[u] EXCEPT !.todo = Tail(sched[u].todo)]
           q == [p EXCEPT !.at = "mark"]
           d == [q EXCEPT !.missed = sched[u].missed \cup {j}]
<1>1. /\ sched[u].todo # <<>> /\ sched[u].at \in {"failed", "completed"} /\ C!Error
      /\ sched' = [sched EXCEPT ![u].todo = Tail(@), ![u].at = "mark", ![u].missed = @ \cup {j}]
      /\ UNCHANGED <<row, ticked, now, ran, stops, failures>>
  BY DEF C!ResultFails, C!Running, C!Job
<1>2. /\ CronUser(sched[u], row[u], ran[u], ticked[u], now) /\ now \in Nat
      /\ ran' = [ran EXCEPT ![u] = ran[u]] /\ ticked' = [ticked EXCEPT ![u] = ticked[u]]
      /\ failures' \in 0 .. MaxFailures /\ row' = [row EXCEPT ![u] = row[u]]
      /\ sched[u] \in C!Scheduler /\ row[u] \in [Jobs -> CronRow] /\ ran[u] \in [Jobs -> Nat]
  BY <1>1, CronOf
<1>3. /\ j \in Jobs /\ Tail(sched[u].todo) \in Seq(Jobs)
      /\ \A i : InTodo(sched[u].todo, i) => i = j \/ InTodo(Tail(sched[u].todo), i)
      /\ sched[u].pc \notin {"down", "recover"}
  BY <1>1, Under
<1>4. sched' = [sched EXCEPT ![u] = d]
  BY <1>1, <1>2 DEF C!Scheduler
<1>5. /\ d \in C!Scheduler /\ d.pc = sched[u].pc /\ d.todo = Tail(sched[u].todo)
      /\ d.at = "mark" /\ d.since = sched[u].since /\ d.missed = sched[u].missed \cup {j}
  BY <1>2, <1>3 DEF C!Scheduler, C!Steps
<1> HIDE DEF d
<1>6. /\ ran[u][j] = now /\ sched[u].since <= now /\ \A i \in Jobs : ran[u][i] <= now
  BY <1>1, <1>2 DEF CronUser
<1>7. ASSUME NEW i \in Jobs, row[u][i].status = "completed", row[u][i].next # C!NoNext
      PROVE  JobKept(d, row[u][i].next, ran[u][i], ticked[u], now, i)
  <2>1. JobKept(sched[u], row[u][i].next, ran[u][i], ticked[u], now, i)
    BY <1>2, <1>7 DEF CronUser
  <2>2. LastTick(d, now, i) = LastTick(sched[u], now, i)
    BY <1>5 DEF LastTick
  <2>3. CASE i = j
    <3>1. LastTick(d, now, j) <= now
      BY <1>2, <1>3, <1>5, <1>6, TickOf
    <3>2. ran[u][j] >= LastTick(d, now, j) /\ j \in d.missed
      BY <1>5, <1>6, <3>1, <1>2, <1>3, TickOf
    <3>3. QED
      BY <1>5, <2>1, <2>3, <3>2 DEF JobKept
  <2>4. CASE i # j
    <3>1. (InTodo(sched[u].todo, i) => InTodo(d.todo, i)) /\ (i \in sched[u].missed => i \in d.missed)
      BY <1>3, <1>5, <2>4
    <3>2. QED
      BY <1>5, <2>1, <2>2, <3>1 DEF JobKept
  <2>5. QED
    BY <2>3, <2>4
<1>8. CronUser(d, row[u], ran[u], ticked[u], now)
  BY <1>2, <1>3, <1>5, <1>6, <1>7 DEF CronUser
<1>9. CutOf(d, row[u]) \subseteq CutOf(sched[u], row[u]) \cup {j}
  BY <1>5 DEF CutOf
<1>10. UNCHANGED <<now, stops>> /\ C!Error
  BY <1>1
<1>11. QED
  BY <1>2, <1>4, <1>8, <1>9, <1>10, CronCutsOff

\* A stop leaves at most the row of the job that was under way.
LEMMA StopStep ==
  ASSUME C!CronAssumption, CronInv, NEW u \in Users, C!Stop(u) PROVE CronInv'
<1>1. /\ sched' = [sched EXCEPT ![u] = C!Down] /\ ticked' = [ticked EXCEPT ![u] = {}]
      /\ stops < MaxStops /\ stops' = stops + 1
      /\ UNCHANGED <<row, now, ran, failures, wrong>>
  BY DEF C!Stop
<1>2. /\ CronUser(sched[u], row[u], ran[u], ticked[u], now) /\ now \in Nat
      /\ row' = [row EXCEPT ![u] = row[u]] /\ ran' = [ran EXCEPT ![u] = ran[u]]
      /\ failures' \in 0 .. MaxFailures
  BY <1>1, CronOf
<1>4. CronUser(C!Down, row[u], ran[u], {}, now)
  BY <1>2, DownIs DEF CronUser, JobKept
<1>5. CutOf(C!Down, row[u]) \subseteq CutOf(sched[u], row[u]) \cup {Head(sched[u].todo)}
  BY DEF CutOf
<1>6. QED
  BY <1>1, <1>2, <1>4, <1>5, CronCutsOff

\* A tick of the clock: the tickers whose interval is over fire.
LEMMA ClockOfUser ==
  ASSUME C!CronAssumption, NEW d, NEW r, NEW c, NEW k, NEW t \in Nat, NEW next, next = t + 1,
         CronUser(d, r, c, k, t),
         d.pc = "down" \/ (d.pc = "loop" /\ d.todo = <<>> /\ k = {})
  PROVE  CronUser(d, r, c, IF d.pc = "loop"
                             THEN {j \in Jobs : (next - d.since) % Interval[j] = 0} ELSE {}, next)
<1> DEFINE fired == IF d.pc = "loop" THEN {j \in Jobs : (next - d.since) % Interval[j] = 0} ELSE {}
<1>1. d \in C!Scheduler /\ d.since \in Nat /\ d.since <= t /\ d.todo = <<>> /\ d.at = "mark"
      /\ next \in Nat /\ d.since <= next /\ fired \subseteq Jobs
  BY DEF CronUser, C!Scheduler
<1>2. ASSUME NEW j \in Jobs, r[j].status = "completed", r[j].next # C!NoNext
      PROVE  JobKept(d, r[j].next, c[j], fired, next, j)
  <2>1. JobKept(d, r[j].next, c[j], k, t, j)
    BY <1>2 DEF CronUser
  <2>2. CASE d.pc = "down"
    BY <2>1, <2>2 DEF JobKept
  <2>3. CASE d.pc = "loop" /\ (next - d.since) % Interval[j] # 0
    <3> DEFINE a == t - d.since
               n == Interval[j]
    <3>1. a \in Nat /\ next - d.since = a + 1
      BY <1>1
    <3>2. n \in Nat \ {0}
      <4>1. Interval \in [Jobs -> Nat \ {0}]
        BY DEF C!CronAssumption
      <4>2. QED
        BY <4>1
    <3> HIDE DEF a, n
    <3>3. (a + 1) % n # 0
      BY <2>3, <3>1 DEF n
    <3>4. (a + 1) % n = (a % n) + 1
      BY <3>1, <3>2, <3>3, NextRemainder
    <3>5. a % n \in 0 .. n - 1
      BY <3>1, <3>2, Remainder
    <3> DEFINE m == a % n
    <3>6. (a + 1) % n = m + 1
      BY <3>4
    <3>7. m \in Nat
      BY <3>2, <3>5
    <3> HIDE DEF m
    <3>8. next - (m + 1) = t - m
      BY <3>7
    <3>9. LastTick(d, next, j) = next - (m + 1)
      BY <3>1, <3>6 DEF LastTick, n
    <3>10. LastTick(d, t, j) = t - m
      BY DEF LastTick, a, n, m
    <3>11. LastTick(d, next, j) = LastTick(d, t, j)
      BY <3>8, <3>9, <3>10
    <3>12. k = {} /\ ~InTodo(d.todo, j)
      BY <1>1, <2>3, TodoEmpty
    <3>13. QED
      BY <2>1, <2>3, <3>11, <3>12 DEF JobKept
  <2>4. CASE d.pc = "loop" /\ (next - d.since) % Interval[j] = 0
    <3>1. j \in fired
      BY <2>4
    <3> HIDE DEF fired
    <3>2. QED
      BY <2>1, <2>4, <3>1 DEF JobKept
  <2>5. QED
    BY <2>2, <2>3, <2>4
<1> HIDE DEF fired
<1>5. \A j \in Jobs : c[j] <= next
  BY DEF CronUser
<1>3. CronUser(d, r, c, fired, next)
  BY <1>1, <1>2, <1>5 DEF CronUser
<1>4. QED
  BY <1>3 DEF fired

LEMMA ClockStep ==
  ASSUME C!CronAssumption, CronInv, C!Clock PROVE CronInv'
<1>1. /\ now < CronTime /\ now' = now + 1 /\ \A u \in Users : C!Quiet(u)
      /\ ticked' = [u \in Users |-> IF sched[u].pc = "loop"
                                      THEN {j \in Jobs : (now' - sched[u].since) % Interval[j] = 0}
                                      ELSE {}]
      /\ UNCHANGED <<row, sched, ran, stops, failures, wrong>>
  BY DEF C!Clock, C!Fires
<1>2. now \in Nat /\ now' \in 0 .. CronTime
  BY <1>1 DEF CronInv, C!TypeOK, C!CronAssumption
<1>3. \A u \in Users : CronUser(sched[u], row[u], ran[u], ticked'[u], now')
  <2> SUFFICES ASSUME NEW u \in Users PROVE CronUser(sched[u], row[u], ran[u], ticked'[u], now')
    OBVIOUS
  <2>1. CronUser(sched[u], row[u], ran[u], ticked[u], now)
    BY DEF CronInv
  <2>2. sched[u].pc = "down" \/ (sched[u].pc = "loop" /\ sched[u].todo = <<>> /\ ticked[u] = {})
    BY <1>1 DEF C!Quiet
  <2>3. ticked'[u] = IF sched[u].pc = "loop"
                       THEN {j \in Jobs : (now' - sched[u].since) % Interval[j] = 0} ELSE {}
    BY <1>1
  <2>4. QED
    BY <1>1, <1>2, <2>1, <2>2, <2>3, ClockOfUser
<1>4. ticked' \in [Users -> SUBSET Jobs]
  <2>1. \A u \in Users :
          (IF sched[u].pc = "loop"
             THEN {j \in Jobs : (now' - sched[u].since) % Interval[j] = 0} ELSE {}) \in SUBSET Jobs
    OBVIOUS
  <2>2. QED
    BY <1>1, <2>1
<1>5. C!TypeOK' /\ ran' \in [Users -> [Jobs -> Nat]]
  BY <1>1, <1>2, <1>4 DEF CronInv, C!TypeOK
<1>6. CutOffs' = CutOffs
  BY <1>1 DEF CutOffs, C!CutOff, C!Job
<1>7. QED
  BY <1>1, <1>3, <1>5, <1>6 DEF CronInv

LEMMA CronStep ==
  ASSUME C!CronAssumption, CronInv, [C!Next]_cron PROVE CronInv'
<1>1. CASE UNCHANGED cron
  <2>1. CutOffs' = CutOffs
    BY <1>1 DEF cron, CutOffs, C!CutOff, C!Job
  <2>2. C!TypeOK'
    BY <1>1 DEF cron, CronInv, C!TypeOK
  <2>3. QED
    BY <1>1, <2>1, <2>2 DEF cron, CronInv
<1>2. ASSUME NEW u \in Users, C!Run(u) PROVE CronInv'
  BY <1>2, RecoverStep, NextPhaseStep, PollStep, MarkStep, CallStep, ResultStep DEF C!Run
<1>4. ASSUME NEW u \in Users, C!Fails(u) PROVE CronInv'
  BY <1>4, RecoverFailsStep, MarkFailsStep, ResultFailsStep DEF C!Fails
<1>3. QED
  BY <1>1, <1>2, <1>4, SpawnStep, StopStep, ClockStep DEF C!Next

LEMMA CronInit ==
  ASSUME C!CronAssumption, C!Init PROVE CronInv
<1>1. PICK known \in SUBSET Users :
        /\ ran = [u \in Users |-> [j \in Jobs |-> IF u \in known THEN 1 ELSE 0]]
        /\ row = [u \in Users |-> [j \in Jobs |->
                     IF u \in known
                       THEN [status |-> "completed", next |-> 1 + Interval[j]]
                       ELSE C!NoRow]]
  BY DEF C!Init
<1>2. /\ now = Boot /\ sched = [u \in Users |-> C!Down] /\ ticked = [u \in Users |-> {}]
      /\ stops = 0 /\ failures = 0 /\ wrong = 0
  BY DEF C!Init
<1>3. Interval \in [Jobs -> Nat \ {0}] /\ Boot \in Nat /\ Boot >= 1
  BY DEF C!CronAssumption
<1>4. /\ C!Down \in C!Scheduler /\ C!Down.pc = "down" /\ C!Down.todo = <<>>
      /\ C!Down.at = "mark" /\ C!Down.since = 0
  BY DownIs
<1>5. C!NoRow \in CronRow /\ C!NoRow.status = "none"
  BY DEF C!NoRow, CronRow
<1>6. \A j \in Jobs : /\ [status |-> "completed", next |-> 1 + Interval[j]] \in CronRow
                      /\ Interval[j] \in Nat
  BY <1>3 DEF CronRow, C!Statuses
<1>7. \A u \in Users : row[u] \in [Jobs -> CronRow] /\ ran[u] \in [Jobs -> Nat]
  BY <1>1, <1>5, <1>6
<1>8. \A u \in Users, j \in Jobs :
        /\ row[u][j].status # "running" /\ ran[u][j] <= Boot
        /\ row[u][j].status = "completed" => row[u][j].next <= ran[u][j] + Interval[j]
  BY <1>1, <1>3, <1>5, <1>6
<1>9. row \in [Users -> [Jobs -> CronRow]] /\ ran \in [Users -> [Jobs -> Nat]]
  BY <1>1, <1>7
<1>10. C!TypeOK
  <2>1. now \in 0 .. CronTime /\ stops \in 0 .. MaxStops /\ failures \in 0 .. MaxFailures
        /\ wrong \in 0 .. MaxErrors
    BY <1>2 DEF C!CronAssumption
  <2>2. sched \in [Users -> C!Scheduler] /\ ticked \in [Users -> SUBSET Jobs]
    BY <1>2, <1>4
  <2>3. QED
    BY <1>9, <2>1, <2>2 DEF C!TypeOK, CronRow
<1>11. \A u \in Users : CronUser(sched[u], row[u], ran[u], ticked[u], now)
  <2> SUFFICES ASSUME NEW u \in Users PROVE CronUser(sched[u], row[u], ran[u], ticked[u], now)
    OBVIOUS
  <2>1. sched[u] = C!Down /\ ticked[u] = {} /\ now \in Nat
    BY <1>2, <1>3
  <2>2. CronUser(C!Down, row[u], ran[u], {}, now)
    BY <1>2, <1>4, <1>7, <1>8, <2>1 DEF CronUser, JobKept
  <2>3. QED
    BY <2>1, <2>2
<1>12. CutOffs = {}
  BY <1>8 DEF CutOffs, C!CutOff
<1>13. QED
  BY <1>2, <1>9, <1>10, <1>11, <1>12, FS_EmptySet DEF CronInv

\* What the recovery promises of the rows of cron_jobs, however often the
\* processes restart, whatever order the jobs run in and whichever statements
\* fail: what was overdue has run before the tickers count, unless an error kept
\* it out or unrecorded; a job that completed and has a next run is called again
\* within two intervals; and one stop or error leaves at most one row running
\* (cron.go:146-314).
THEOREM JobsRecovered ==
  ASSUME C!CronAssumption PROVE Spec => []JobsAreRecovered
<1>1. CronInv => C!OverdueIsRecovered
  BY DEF CronInv, CronUser, JobKept, C!OverdueIsRecovered
<1>2. CronInv => C!CompletedJobsReturn
  <2> SUFFICES ASSUME CronInv, NEW u \in Users, NEW j \in Jobs, sched[u].pc = "loop", C!Quiet(u),
                      row[u][j].status = "completed", row[u][j].next # C!NoNext
               PROVE  \/ now - ran[u][j] <= 2 * Interval[j]
                      \/ j \in sched[u].missed /\ now - sched[u].since < Interval[j]
    BY DEF C!CompletedJobsReturn
  <2> DEFINE n == Interval[j]
             m == (now - sched[u].since) % n
             c == ran[u][j]
             x == row[u][j].next
  <2>1. CronUser(sched[u], row[u], ran[u], ticked[u], now) /\ now \in Nat
        /\ sched[u] \in C!Scheduler /\ row[u] \in [Jobs -> CronRow] /\ ran[u] \in [Jobs -> Nat]
    BY CronOf
  <2>2. sched[u].todo = <<>> /\ ticked[u] = {}
    BY DEF C!Quiet
  <2>3. JobKept(sched[u], x, c, ticked[u], now, j)
    BY <2>1 DEF CronUser
  <2>4. n \in Nat \ {0} /\ c \in Nat /\ x \in Nat
    <3>1. Interval \in [Jobs -> Nat \ {0}]
      BY DEF C!CronAssumption
    <3>2. QED
      BY <2>1, <3>1 DEF CronRow
  <2>5. now - sched[u].since \in Nat /\ sched[u].since \in Nat
    BY <2>1 DEF CronUser, C!Scheduler
  <2>6. LastTick(sched[u], now, j) = now - m
    BY DEF LastTick
  <2>7. /\ x <= c + n
        /\ x >= now - m \/ c >= now - m \/ (j \in sched[u].missed /\ now - m = sched[u].since)
    BY <2>2, <2>3, <2>6, TodoEmpty DEF JobKept
  <2> HIDE DEF n, c, x
  <2>8. m \in 0 .. n - 1
    BY <2>4, <2>5, Remainder
  <2> HIDE DEF m
  <2>9. now - c <= 2 * n \/ (j \in sched[u].missed /\ now - sched[u].since < n)
    BY <2>1, <2>4, <2>5, <2>7, <2>8
  <2>10. QED
    BY <2>9 DEF n, c
<1>3. CronInv => C!CutOffByStops
  <2>1. C!Cardinality(CutOffs) = Cardinality(CutOffs)
    BY Zenon DEF C!Cardinality, Cardinality
  <2>2. QED
    BY <2>1 DEF CronInv, C!CutOffByStops, CutOffs
<1>4. CronInv => JobsAreRecovered
  BY <1>1, <1>2, <1>3 DEF JobsAreRecovered, C!JobsAreRecovered, CronInv
<1>5. Init => CronInv
  BY CronInit DEF Init
<1>6. CronInv /\ [Next]_vars => CronInv'
  <2>1. [Next]_vars => [C!Next]_cron
    BY DEF Next, vars, cron
  <2>2. QED
    BY <2>1, CronStep
<1>7. QED
  BY <1>4, <1>5, <1>6, PTL DEF Spec
-------------------------------------------------------------------------------
(* Reminders.                                                              *)

TaskRow == [status : N!Statuses \cup {"absent"}, extracted : BOOLEAN, deadline : Nat \cup {N!Null},
            top : BOOLEAN, ended : Nat \cup {N!Null}, reminder : [N!AllKinds -> Int]]

\* A task a check still has to remind of was open when the check began, or was
\* closed since: its row stays, and a row closes at the time of the clock.
RemindInv ==
  /\ N!TypeOK
  /\ N!RemindedWhileOpen
  /\ notify \in [todo : SUBSET (Tasks \X N!AllKinds), since : 0 .. RemindTime]
  /\ notify.since <= hour
  /\ \A tk \in notify.todo : N!Row(tk[1])


LEMMA RemindShape ==
  ASSUME RemindInv
  PROVE  /\ task \in [Tasks -> TaskRow] /\ hour \in Nat /\ hour # N!Null
         /\ \A t \in Tasks : task[t].status \in N!Closed => task[t].ended # N!Null
  BY DEF RemindInv, N!TypeOK, TaskRow, N!Null

\* A step that replaces the row of a task by one that is open, is closed now or
\* is as closed as before.
LEMMA RowReplaced ==
  ASSUME N!RemindersAssumption, RemindInv, NEW t \in Tasks, NEW d \in TaskRow,
         task' = [task EXCEPT ![t] = d], UNCHANGED <<notify, hour>>, skipped' \in 0 .. MaxErrors,
         d.status # "absent",
         d.status \in N!Closed => \/ d.ended = hour
                                  \/ d.status = task[t].status /\ d.ended = task[t].ended
  PROVE  RemindInv'
<1>1. /\ task \in [Tasks -> TaskRow] /\ hour \in Nat /\ hour # N!Null
      /\ \A o \in Tasks : task[o].status \in N!Closed => task[o].ended # N!Null
  BY RemindShape
<1>2. \A o \in Tasks : task'[o] = IF o = t THEN d ELSE task[o]
  BY <1>1
<1>3. d.status \in N!Closed => d.ended # N!Null
  BY <1>1
<1>4. N!TypeOK'
  <2>1. task' \in [Tasks -> TaskRow]
    BY <1>1
  <2>2. \A o \in Tasks : task'[o].status \in N!Closed => task'[o].ended # N!Null
    BY <1>1, <1>2, <1>3
  <2>3. QED
    BY <2>1, <2>2 DEF RemindInv, N!TypeOK, TaskRow
<1>5. ASSUME NEW tk \in notify.todo
      PROVE  /\ task'[tk[1]].status # "absent"
             /\ task'[tk[1]].status \in N!Closed => task'[tk[1]].ended >= notify.since
  <2>1. tk[1] \in Tasks /\ notify.since \in Nat /\ hour >= notify.since
    BY <1>1 DEF RemindInv, N!RemindersAssumption
  <2>2. task[tk[1]].status # "absent"
        /\ (task[tk[1]].status \in N!Closed => task[tk[1]].ended >= notify.since)
    BY DEF RemindInv, N!Row, N!RemindedWhileOpen, N!Open
  <2>3. QED
    BY <1>2, <2>1, <2>2
<1>6. QED
  BY <1>4, <1>5 DEF RemindInv, N!Row, N!RemindedWhileOpen, N!Open

\* The rows the operations on a task write.
LEMMA StatusWritten ==
  ASSUME RemindInv, NEW t \in Tasks, NEW s \in N!Statuses
  PROVE  [task[t] EXCEPT !.status = s, !.ended = IF s \in N!Closed THEN hour ELSE @] \in TaskRow
<1> DEFINE f == IF s \in N!Closed THEN hour ELSE task[t].ended
<1>1. task[t] \in TaskRow
  BY RemindShape
<1>2. f \in Nat \cup {N!Null}
  BY <1>1, RemindShape DEF TaskRow
<1>3. [task[t] EXCEPT !.status = s, !.ended = IF s \in N!Closed THEN hour ELSE @]
        = [task[t] EXCEPT !.status = s, !.ended = f]
  BY <1>1 DEF TaskRow
<1> HIDE DEF f
<1>4. QED
  BY <1>1, <1>2, <1>3 DEF TaskRow

LEMMA ReminderWritten ==
  ASSUME NEW d \in TaskRow, NEW date \in Int
  PROVE  [d EXCEPT !.reminder["follow_up"] = date] \in TaskRow
<1> DEFINE r == [d.reminder EXCEPT !["follow_up"] = date]
<1>1. r \in [N!AllKinds -> Int]
  BY DEF TaskRow
<1>2. [d EXCEPT !.reminder["follow_up"] = date] = [d EXCEPT !.reminder = r]
  BY DEF TaskRow
<1> HIDE DEF r
<1>3. QED
  BY <1>1, <1>2 DEF TaskRow

LEMMA RemindStep ==
  ASSUME N!RemindersAssumption PROVE RemindInv /\ [N!Next]_reminders => RemindInv'
<1> SUFFICES ASSUME RemindInv, [N!Next]_reminders PROVE RemindInv'
  OBVIOUS
<1>1. /\ task \in [Tasks -> TaskRow] /\ task = [t \in Tasks |-> task[t]] /\ hour \in Nat
      /\ Deadlines \subseteq Nat /\ Offset \in [Kinds -> Nat] /\ skipped \in 0 .. MaxErrors
      /\ MaxErrors \in Nat
  BY RemindShape DEF RemindInv, N!TypeOK, N!RemindersAssumption
<1>2. /\ N!Fails => skipped' \in 0 .. MaxErrors
      /\ N!Works => skipped' \in 0 .. MaxErrors
  BY <1>1 DEF N!Fails, N!Works
<1>3. /\ {"to_do", "waiting"} \subseteq N!Statuses \ N!Closed /\ N!NoReminders \in [N!AllKinds -> Int]
      /\ N!Closed \subseteq N!Statuses /\ "absent" \notin N!Statuses
  BY DEF N!Statuses, N!Closed, N!NoReminders, N!Null
<1>4. ASSUME NEW t \in Tasks, NEW d \in Deadlines, N!Extract(t, d) PROVE RemindInv'
  <2>1. PICK kinds \in SUBSET Kinds :
          /\ skipped' \in 0 .. MaxErrors
          /\ task' = [task EXCEPT ![t] = N!Inserted(TRUE, d, N!Schedule(d, kinds))]
    BY <1>2, <1>4 DEF N!Extract
  <2> DEFINE r == N!Schedule(d, kinds)
             e == [status |-> "to_do", extracted |-> TRUE, deadline |-> d, top |-> FALSE,
                   ended |-> N!Null, reminder |-> r]
  <2>2. \A k \in N!AllKinds : r[k] \in Int
    BY <1>1 DEF N!Schedule, N!Null, N!AllKinds
  <2>3. r \in [N!AllKinds -> Int]
    <3>1. r = [k \in N!AllKinds |-> r[k]]
      BY DEF N!Schedule
    <3> HIDE DEF r
    <3>2. QED
      BY <2>2, <3>1
  <2>4. task' = [task EXCEPT ![t] = e]
    BY <2>1 DEF N!Inserted
  <2> HIDE DEF r
  <2>5. e \in TaskRow /\ e.status = "to_do"
    BY <1>1, <1>3, <2>3 DEF TaskRow
  <2> HIDE DEF e
  <2>6. QED
    BY <1>3, <1>4, <2>1, <2>4, <2>5, RowReplaced DEF N!Extract
<1>5. ASSUME NEW t \in Tasks, NEW d \in Deadlines, N!Create(t, d) PROVE RemindInv'
  <2> DEFINE e == [status |-> "to_do", extracted |-> FALSE, deadline |-> d, top |-> FALSE,
                   ended |-> N!Null, reminder |-> N!NoReminders]
  <2>1. task' = [task EXCEPT ![t] = e]
    BY <1>5 DEF N!Create, N!Inserted
  <2>2. e \in TaskRow /\ e.status = "to_do"
    BY <1>1, <1>3 DEF TaskRow
  <2> HIDE DEF e
  <2>3. QED
    BY <1>1, <1>3, <1>5, <2>1, <2>2, RowReplaced DEF N!Create
<1>6. ASSUME NEW t \in Tasks, NEW s \in N!Statuses, N!UpdateStatus(t, s) PROVE RemindInv'
  <2> DEFINE e == [task[t] EXCEPT !.status = s, !.ended = IF s \in N!Closed THEN hour ELSE @]
  <2>1. task' = [task EXCEPT ![t] = e]
    BY <1>1, <1>6 DEF N!UpdateStatus, N!WithStatus
  <2>2. e \in TaskRow
    BY StatusWritten, Zenon
  <2>3. e.status = s /\ (s \in N!Closed => e.ended = hour)
    BY <1>1 DEF TaskRow
  <2> HIDE DEF e
  <2>4. QED
    BY <1>1, <1>3, <1>6, <2>1, <2>2, <2>3, RowReplaced DEF N!UpdateStatus
<1>7. ASSUME NEW t \in Tasks, NEW d \in Deadlines, NEW top \in BOOLEAN, N!UpdateTask(t, d, top)
      PROVE  RemindInv'
  <2> DEFINE e == [task[t] EXCEPT !.deadline = d, !.top = top]
  <2>1. task' = [task EXCEPT ![t] = e]
    BY <1>1, <1>7 DEF N!UpdateTask
  <2>2. e \in TaskRow
    <3>1. task[t] \in TaskRow /\ d \in Nat
      BY <1>1
    <3>2. QED
      BY <3>1 DEF TaskRow
  <2>3. e.status = task[t].status /\ e.ended = task[t].ended /\ task[t].status # "absent"
    BY <1>1, <1>7 DEF TaskRow, N!UpdateTask, N!Row
  <2> HIDE DEF e
  <2>4. QED
    BY <1>1, <1>7, <2>1, <2>2, <2>3, RowReplaced DEF N!UpdateTask
<1>8. ASSUME NEW t \in Tasks, N!Delegate(t, hour) PROVE RemindInv'
  <2> DEFINE w == [task[t] EXCEPT !.status = "waiting",
                                  !.ended = IF "waiting" \in N!Closed THEN hour ELSE @]
             e == [w EXCEPT !.reminder["follow_up"] = hour]
  <2>1. N!WithStatus(t, "waiting") = [task EXCEPT ![t] = w]
    BY <1>1 DEF N!WithStatus
  <2>2. w \in TaskRow /\ w.status = "waiting"
    <3>1. task[t] \in TaskRow /\ "waiting" \in N!Statuses
      BY <1>1, <1>3
    <3>2. w \in TaskRow
      BY <3>1, StatusWritten, Zenon
    <3>3. w.status = "waiting"
      BY <3>1 DEF TaskRow
    <3>4. QED
      BY <3>2, <3>3
  <2> HIDE DEF w
  <2>3. e \in TaskRow /\ e.status = "waiting"
    <3>1. e.status = w.status
      BY <2>2 DEF TaskRow
    <3>2. e \in TaskRow
      BY <1>1, <2>2, ReminderWritten
    <3>3. QED
      BY <2>2, <3>1, <3>2
  <2>4. [N!WithStatus(t, "waiting") EXCEPT ![t].reminder["follow_up"] = hour] = [task EXCEPT ![t] = e]
    BY <1>1, <2>1
  <2> HIDE DEF e
  <2>5. task' = [task EXCEPT ![t] = w] \/ task' = [task EXCEPT ![t] = e]
    BY <1>8, <2>1, <2>4 DEF N!Delegate
  <2>6. skipped' \in 0 .. MaxErrors /\ UNCHANGED <<notify, hour>>
    BY <1>2, <1>8 DEF N!Delegate
  <2>7. QED
    BY <1>1, <1>3, <2>2, <2>3, <2>5, <2>6, RowReplaced
<1>9. CASE N!CheckReminders
  <2>1. notify' = [todo |-> N!Due, since |-> hour] /\ UNCHANGED <<task, hour, skipped>>
    BY <1>9 DEF N!CheckReminders
  <2>2. N!Due \subseteq Tasks \X N!AllKinds /\ \A tk \in N!Due : N!Open(tk[1])
    BY DEF N!Due
  <2>3. QED
    BY <1>1, <2>1, <2>2 DEF RemindInv, N!TypeOK, N!RemindedWhileOpen, N!Row, N!Open
<1>10. ASSUME NEW tk \in notify.todo, N!Send(tk) PROVE RemindInv'
  <2>1. notify' = [todo |-> notify.todo \ {tk}, since |-> notify.since]
    BY <1>10 DEF N!Send, RemindInv
  <2>2. QED
    BY <1>10, <2>1 DEF RemindInv, N!TypeOK, N!RemindedWhileOpen, N!Row, N!Open, N!Send
<1>11. CASE N!OverdueUpgrade
  <2>1. \A t \in Tasks : task'[t] = [task[t] EXCEPT !.top = @ \/ N!Upgraded(t)]
    BY <1>11 DEF N!OverdueUpgrade
  <2>2. ASSUME NEW t \in Tasks
        PROVE  /\ task'[t] \in TaskRow /\ task'[t].status = task[t].status
               /\ task'[t].ended = task[t].ended
    <3> DEFINE top == task[t].top \/ N!Upgraded(t)
    <3>1. task'[t] = [task[t] EXCEPT !.top = top] /\ top \in BOOLEAN /\ task[t] \in TaskRow
      BY <1>1, <2>1
    <3> HIDE DEF top
    <3>2. QED
      BY <3>1 DEF TaskRow
  <2>3. task' \in [Tasks -> TaskRow]
    BY <1>11, <2>2 DEF N!OverdueUpgrade
  <2>4. N!TypeOK'
    BY <1>11, <2>2, <2>3 DEF N!OverdueUpgrade, RemindInv, N!TypeOK, TaskRow
  <2>5. \A tk \in notify.todo : tk[1] \in Tasks
    BY DEF RemindInv
  <2>6. QED
    BY <1>11, <2>2, <2>4, <2>5 DEF N!OverdueUpgrade, RemindInv, N!RemindedWhileOpen, N!Row, N!Open
<1>12. CASE N!Clock
  BY <1>12 DEF N!Clock, RemindInv, N!TypeOK, N!RemindedWhileOpen, N!Row, N!Open, N!RemindersAssumption
<1>13. CASE UNCHANGED reminders
  BY <1>13 DEF reminders, RemindInv, N!TypeOK, N!RemindedWhileOpen, N!Row, N!Open
<1>14. QED
  BY <1>4, <1>5, <1>6, <1>7, <1>8, <1>9, <1>10, <1>11, <1>12, <1>13 DEF N!Next

LEMMA RemindInit ==
  ASSUME N!RemindersAssumption, N!Init PROVE RemindInv
<1>1. N!Absent \in TaskRow /\ N!Absent.status = "absent"
  BY DEF N!Absent, TaskRow, N!NoReminders, N!Null
<1>2. task \in [Tasks -> TaskRow] /\ \A t \in Tasks : task[t].status = "absent"
  BY <1>1 DEF N!Init
<1>3. N!TypeOK
  BY <1>2 DEF N!Init, N!TypeOK, TaskRow, N!Closed, N!RemindersAssumption
<1>4. QED
  BY <1>3 DEF N!Init, RemindInv, N!RemindedWhileOpen, N!RemindersAssumption
-------------------------------------------------------------------------------
(* Follow-ups.                                                             *)

\* What a check has read: the counts of some delegations.
Readings == UNION {[set -> Nat] : set \in SUBSET Delegations}

\* A check is marking what it has just sent the last follow-up of.
CheckShape(d) ==
  /\ d \in [pc : {"idle", "send", "mark"}, todo : Readings,
            item : Delegations \cup {Nobody}, since : Nat]
  /\ d.pc = "idle" => DOMAIN d.todo = {}
  /\ d.pc = "mark" => d.item \in DOMAIN d.todo

Checked(c, e) == e \in DOMAIN follow[c].todo

\* The checks that will still send a follow-up of e.
Reads(d, e) == e \in DOMAIN d.todo /\ ~(d.pc = "mark" /\ d.item = e)
Readers(e) == {c \in Processes : Reads(follow[c], e)}

\* A row nobody has inserted has no follow-up.
Unsent == \A e \in Delegations : deleg[e].pc = "unused" =>
            mails[e] = 0 /\ \A c \in Processes : ~Checked(c, e)

\* Each mail has raised the count or met a statement that failed.
MailsCounted == \A e \in Delegations : mails[e] <= deleg[e].count + slips

\* The follow-ups sent and those that readers may still send.
Overlap(e) == IF e \in read THEN Cardinality(Processes) - 1 ELSE 0
SendersLimited ==
  \A e \in Delegations : deleg[e].count + Cardinality(Readers(e)) <= MaxFollowUps + Overlap(e)

\* Without an overlap a delegation is in the hands of one check.
OneCheck ==
  \A e \in Delegations \ read, c \in Processes, o \in Processes :
    Checked(c, e) /\ Checked(o, e) => c = o

\* What it has read is then still so.
ReadIsFresh ==
  slips = 0 => \A e \in Delegations \ read, c \in Processes :
    Reads(follow[c], e) => follow[c].todo[e] = deleg[e].count /\ deleg[e].count < MaxFollowUps

FollowInv ==
  /\ D!TypeOK
  /\ \A c \in Processes : CheckShape(follow[c])
  /\ follow = [c \in Processes |-> follow[c]]
  /\ mails \in [Delegations -> Nat]
  /\ D!DelegateeIsRecorded /\ D!ExhaustedIsOverdue
  /\ Unsent /\ MailsCounted /\ SendersLimited /\ OneCheck /\ ReadIsFresh

LEMMA FollowCardinality == ASSUME NEW set PROVE D!Cardinality(set) = Cardinality(set)
  BY Zenon DEF D!Cardinality, Cardinality

LEMMA ProcessesFinite == ASSUME D!DelegationAssumption PROVE IsFiniteSet(Processes)
<1>1. D!IsFiniteSet(Processes)
  BY DEF D!DelegationAssumption
<1>2. QED
  BY <1>1, Zenon DEF D!IsFiniteSet, IsFiniteSet

\* Readers are processes, so they can be counted.
LEMMA ReadersFinite ==
  ASSUME D!DelegationAssumption, NEW e \in Delegations
  PROVE  /\ IsFiniteSet(Readers(e)) /\ Cardinality(Readers(e)) \in Nat
         /\ Cardinality(Processes) \in Nat
<1>1. IsFiniteSet(Processes) /\ Readers(e) \subseteq Processes
  BY ProcessesFinite DEF Readers
<1>2. QED
  BY <1>1, FS_Subset, FS_CardinalityType

\* A delegation's row.
DelegRow == [pc : {"unused", "update", "done"}, task : Tasks,
             status : {"pending", "overdue"}, date : Nat, count : Nat]

\* A check that goes from d to n gives up some of what it has read.
Gives(d, n) ==
  /\ DOMAIN n.todo \subseteq DOMAIN d.todo
  /\ \A e \in Delegations : Reads(n, e) => Reads(d, e) /\ n.todo[e] = d.todo[e]

\* The checks after one of them is replaced.
LEMMA CheckReplaced ==
  ASSUME FollowInv, NEW c \in Processes, NEW n, CheckShape(n), follow' = [follow EXCEPT ![c] = n]
  PROVE  /\ \A o \in Processes : follow'[o] = IF o = c THEN n ELSE follow[o]
         /\ follow' = [o \in Processes |-> follow'[o]]
         /\ \A o \in Processes : CheckShape(follow'[o])
  BY DEF FollowInv

\* A check that gives up work leaves no more readers, and one less of what it
\* would have sent.
LEMMA FewerReaders ==
  ASSUME D!DelegationAssumption, FollowInv, NEW c \in Processes, NEW n, CheckShape(n),
         Gives(follow[c], n), follow' = [follow EXCEPT ![c] = n], NEW e \in Delegations
  PROVE  /\ Cardinality(Readers(e)') \in Nat
         /\ Cardinality(Readers(e)') <= Cardinality(Readers(e))
         /\ Reads(follow[c], e) /\ ~Reads(n, e) =>
              Cardinality(Readers(e)') <= Cardinality(Readers(e)) - 1
<1>1. \A o \in Processes : follow'[o] = IF o = c THEN n ELSE follow[o]
  BY CheckReplaced
<1>2. Readers(e)' = {o \in Processes : Reads(follow'[o], e)}
  BY DEF Readers, Reads
<1>3. Readers(e)' \subseteq Readers(e)
  BY <1>1, <1>2 DEF Gives, Readers
<1>4. IsFiniteSet(Readers(e)) /\ Cardinality(Readers(e)) \in Nat
  BY ReadersFinite
<1>5. Cardinality(Readers(e)') \in Nat /\ Cardinality(Readers(e)') <= Cardinality(Readers(e))
  BY <1>3, <1>4, FS_Subset, FS_CardinalityType
<1>6. ASSUME Reads(follow[c], e), ~Reads(n, e)
      PROVE  Cardinality(Readers(e)') <= Cardinality(Readers(e)) - 1
  <2>1. c \in Readers(e) /\ Readers(e)' \subseteq Readers(e) \ {c}
    BY <1>1, <1>2, <1>3, <1>6 DEF Readers
  <2>2. /\ IsFiniteSet(Readers(e) \ {c})
        /\ Cardinality(Readers(e) \ {c}) = Cardinality(Readers(e)) - 1
    BY <1>4, <2>1, FS_RemoveElement
  <2>3. Cardinality(Readers(e)') <= Cardinality(Readers(e) \ {c})
    BY <2>1, <2>2, FS_Subset
  <2>4. QED
    BY <2>2, <2>3
<1>7. QED
  BY <1>5, <1>6

\* What a step that gives up work keeps of the readers' alone-ness.
LEMMA StillOneCheck ==
  ASSUME FollowInv, NEW c \in Processes, NEW n, CheckShape(n), Gives(follow[c], n),
         follow' = [follow EXCEPT ![c] = n], UNCHANGED read
  PROVE  OneCheck' /\ \A o \in Processes, e \in Delegations : Checked(o, e)' => Checked(o, e)
<1>1. \A o \in Processes : follow'[o] = IF o = c THEN n ELSE follow[o]
  BY CheckReplaced
<1>2. \A o \in Processes, e \in Delegations : Checked(o, e)' => Checked(o, e)
  BY <1>1 DEF Checked, Gives
<1>3. OneCheck'
  BY <1>2 DEF FollowInv, OneCheck
<1>4. QED
  BY <1>2, <1>3

\* The end of a check's work on e, and its pause before the alert.
LEMMA WorkDone ==
  ASSUME FollowInv, NEW c \in Processes, NEW e \in Delegations, Checked(c, e),
         follow[c].pc = "mark" => follow[c].item = e,
         D!Done(c, e)
  PROVE  \E n : /\ follow' = [follow EXCEPT ![c] = n] /\ CheckShape(n) /\ Gives(follow[c], n)
                /\ ~Reads(n, e) /\ n.pc # "mark"
<1> DEFINE d == follow[c]
           rest == DOMAIN d.todo \ {e}
           t == [o \in rest |-> d.todo[o]]
           n == IF rest = {} THEN D!Idle
                ELSE [pc |-> "send", todo |-> t, item |-> Nobody, since |-> d.since]
<1>1. CheckShape(d) /\ follow = [o \in Processes |-> follow[o]]
  BY DEF FollowInv
<1>2. d = [pc |-> d.pc, todo |-> d.todo, item |-> d.item, since |-> d.since]
      /\ d.item \in Delegations \cup {Nobody} /\ d.since \in Nat
  BY <1>1 DEF CheckShape
<1>3. PICK set \in SUBSET Delegations : d.todo \in [set -> Nat]
  BY <1>1 DEF CheckShape, Readings
<1>4. t \in Readings
  <2>1. rest \in SUBSET Delegations /\ \A o \in rest : d.todo[o] \in Nat
    BY <1>3
  <2>2. t \in [rest -> Nat]
    BY <2>1
  <2> HIDE DEF t, rest
  <2>3. QED
    BY <2>1, <2>2 DEF Readings
<1>5. follow' = [follow EXCEPT ![c] = n]
  BY DEF D!Done, D!Restrict
<1>6. CheckShape(n)
  <2>1. CASE rest = {}
    <3>1. [o \in {} |-> 0] \in [{} -> Nat]
      OBVIOUS
    <3>2. QED
      BY <2>1, <3>1 DEF CheckShape, D!Idle, Readings
  <2>2. CASE rest # {}
    BY <1>2, <1>4, <2>2 DEF CheckShape
  <2>3. QED
    BY <2>1, <2>2
<1>7. DOMAIN n.todo = rest /\ \A o \in rest : n.todo[o] = d.todo[o]
  BY DEF D!Idle
<1>8. n.pc # "mark"
  BY DEF D!Idle
<1> HIDE DEF n
<1>9. Gives(d, n) /\ ~Reads(n, e)
  BY <1>7 DEF Gives, Reads
<1>10. QED
  BY <1>5, <1>6, <1>8, <1>9

\* The parts of the invariant a step that gives up work keeps by itself.
LEMMA GivingUp ==
  ASSUME D!DelegationAssumption, FollowInv, NEW c \in Processes, NEW n, CheckShape(n),
         Gives(follow[c], n), follow' = [follow EXCEPT ![c] = n], UNCHANGED <<to, read, tick>>,
         slips' \in 0 .. MaxErrors, slips' >= slips,
         deleg' \in [Delegations -> DelegRow], mails' \in [Delegations -> Nat],
         \A e \in Delegations :
           /\ deleg'[e].pc = deleg[e].pc /\ deleg'[e].task = deleg[e].task
           /\ mails'[e] - deleg'[e].count - slips' <= mails[e] - deleg[e].count - slips
           /\ \/ UNCHANGED <<deleg[e].count, mails[e]>>
              \/ /\ Reads(follow[c], e) /\ ~Reads(n, e) /\ deleg'[e].count <= deleg[e].count + 1
  PROVE  /\ D!TypeOK' /\ \A o \in Processes : CheckShape(follow'[o])
         /\ follow' = [o \in Processes |-> follow'[o]]
         /\ D!DelegateeIsRecorded' /\ Unsent' /\ MailsCounted' /\ SendersLimited' /\ OneCheck'
<1>1. /\ \A o \in Processes : CheckShape(follow'[o])
      /\ follow' = [o \in Processes |-> follow'[o]]
  BY CheckReplaced
<1>2. D!TypeOK'
  BY <1>1 DEF FollowInv, D!TypeOK, DelegRow, CheckShape
<1>3. D!DelegateeIsRecorded'
  <2>1. to \in [Tasks -> Delegations \cup {Nobody}]
    BY DEF FollowInv, D!TypeOK
  <2>2. QED
    BY <2>1 DEF FollowInv, D!DelegateeIsRecorded
<1>4. OneCheck' /\ \A o \in Processes, e \in Delegations : Checked(o, e)' => Checked(o, e)
  BY StillOneCheck
<1>5. \A e \in Delegations : Reads(follow[c], e) => Checked(c, e)
  BY DEF Reads, Checked
<1>6. Unsent'
  <2> SUFFICES ASSUME NEW e \in Delegations, deleg'[e].pc = "unused"
               PROVE  mails'[e] = 0 /\ \A o \in Processes : ~Checked(o, e)'
    BY DEF Unsent, Checked
  <2>1. mails[e] = 0 /\ \A o \in Processes : ~Checked(o, e)
    BY DEF FollowInv, Unsent
  <2>2. QED
    BY <1>4, <1>5, <2>1
<1>7. \A e \in Delegations : /\ deleg[e] \in DelegRow /\ deleg'[e] \in DelegRow
                             /\ mails[e] \in Nat /\ mails'[e] \in Nat
  BY DEF FollowInv, D!TypeOK, DelegRow
<1>8. slips \in Nat /\ slips' \in Nat
  BY DEF FollowInv, D!TypeOK, D!DelegationAssumption
<1>9. MailsCounted'
  <2> SUFFICES ASSUME NEW e \in Delegations PROVE mails'[e] <= deleg'[e].count + slips'
    BY DEF MailsCounted
  <2>1. mails[e] <= deleg[e].count + slips
    BY DEF FollowInv, MailsCounted
  <2>2. deleg[e].count \in Nat /\ deleg'[e].count \in Nat
    BY <1>7 DEF DelegRow
  <2>3. QED
    BY <1>7, <1>8, <2>1, <2>2
<1>10. SendersLimited'
  <2> SUFFICES ASSUME NEW e \in Delegations
               PROVE  deleg'[e].count + Cardinality(Readers(e)') <= MaxFollowUps + Overlap(e)'
    BY DEF SendersLimited
  <2>1. deleg[e].count + Cardinality(Readers(e)) <= MaxFollowUps + Overlap(e)
    BY DEF FollowInv, SendersLimited
  <2>2. Overlap(e)' = Overlap(e) /\ Overlap(e) \in Int /\ MaxFollowUps \in Nat
    BY ReadersFinite DEF Overlap, D!DelegationAssumption
  <2>3. deleg[e].count \in Nat /\ deleg'[e].count \in Nat
    BY <1>7 DEF DelegRow
  <2>4. Cardinality(Readers(e)) \in Nat
    BY ReadersFinite
  <2>5. /\ Cardinality(Readers(e)') \in Nat
        /\ Cardinality(Readers(e)') <= Cardinality(Readers(e))
        /\ Reads(follow[c], e) /\ ~Reads(n, e) =>
             Cardinality(Readers(e)') <= Cardinality(Readers(e)) - 1
    BY FewerReaders
  <2>6. QED
    BY <2>1, <2>2, <2>3, <2>4, <2>5
<1>11. QED
  BY <1>1, <1>2, <1>3, <1>4, <1>6, <1>9, <1>10

\* A follow-up raises the count it adds a mail to, and a check that read the
\* count without an overlap knows whether it is the last one.
LEMMA FollowUpStep ==
  ASSUME D!DelegationAssumption, FollowInv, NEW c \in Processes, NEW e \in Delegations,
         D!FollowUp(c, e)
  PROVE  FollowInv'
<1> DEFINE last == follow[c].todo[e] + 1 >= MaxFollowUps
           counted == D!Row(e, deleg[e].status, follow[c].since + 1, deleg[e].count + 1)
<1>1. /\ Checked(c, e) /\ follow[c].pc = "send" /\ mails' = [mails EXCEPT ![e] = @ + 1]
      /\ \/ slips' = slips /\ deleg' = [deleg EXCEPT ![e] = counted]
         \/ slips < MaxErrors /\ slips' = slips + 1 /\ deleg' = deleg
      /\ IF last
           THEN follow' = [follow EXCEPT ![c] = [pc |-> "mark", todo |-> follow[c].todo, item |-> e,
                                                 since |-> follow[c].since]]
           ELSE D!Done(c, e)
      /\ UNCHANGED <<to, read, tick>>
  BY DEF D!FollowUp, D!SendAndUpdate, D!Read, D!Works, D!Fails, Checked
<1>2. /\ deleg \in [Delegations -> DelegRow] /\ mails \in [Delegations -> Nat]
      /\ slips \in 0 .. MaxErrors /\ MaxErrors \in Nat /\ CheckShape(follow[c])
      /\ follow = [o \in Processes |-> follow[o]] /\ MaxFollowUps \in Nat
  BY DEF FollowInv, D!TypeOK, DelegRow, D!DelegationAssumption
<1>3. PICK n : /\ follow' = [follow EXCEPT ![c] = n] /\ CheckShape(n) /\ Gives(follow[c], n)
               /\ ~Reads(n, e) /\ (last => n.pc = "mark" /\ n.item = e)
  <2>1. CASE last
    <3> DEFINE n == [pc |-> "mark", todo |-> follow[c].todo, item |-> e, since |-> follow[c].since]
    <3>1. CheckShape(n)
      BY <1>1, <1>2 DEF CheckShape, Checked
    <3>2. Gives(follow[c], n) /\ ~Reads(n, e)
      BY <1>1 DEF Gives, Reads
    <3>3. follow' = [follow EXCEPT ![c] = n] /\ n.pc = "mark" /\ n.item = e
      BY <1>1, <2>1
    <3> HIDE DEF n
    <3>4. QED
      BY <3>1, <3>2, <3>3
  <2>2. CASE ~last
    <3>1. D!Done(c, e)
      BY <1>1, <2>2
    <3>2. \E n : /\ follow' = [follow EXCEPT ![c] = n] /\ CheckShape(n) /\ Gives(follow[c], n)
                 /\ ~Reads(n, e) /\ n.pc # "mark"
      BY <1>1, <3>1, WorkDone
    <3>3. QED
      BY <2>2, <3>2
  <2>3. QED
    BY <2>1, <2>2
<1>4. \A o \in Processes : follow'[o] = IF o = c THEN n ELSE follow[o]
  BY <1>2, <1>3
<1>5. Reads(follow[c], e)
  BY <1>1 DEF Reads, Checked
<1>6. /\ counted \in DelegRow /\ counted.pc = deleg[e].pc /\ counted.task = deleg[e].task
      /\ counted.status = deleg[e].status /\ counted.count = deleg[e].count + 1
  <2>1. /\ deleg[e].pc \in {"unused", "update", "done"} /\ deleg[e].task \in Tasks
        /\ deleg[e].status \in {"pending", "overdue"} /\ deleg[e].count + 1 \in Nat
        /\ follow[c].since + 1 \in Nat
    BY <1>2 DEF DelegRow, CheckShape
  <2>2. QED
    BY <2>1 DEF D!Row, DelegRow
<1> HIDE DEF counted, last
<1>7. /\ deleg' \in [Delegations -> DelegRow] /\ mails' \in [Delegations -> Nat]
      /\ slips' \in 0 .. MaxErrors /\ slips' >= slips
      /\ \A o \in Delegations : /\ mails'[o] = IF o = e THEN mails[e] + 1 ELSE mails[o]
                                /\ o # e => deleg'[o] = deleg[o]
  BY <1>1, <1>2, <1>6
<1>8. \/ slips' = slips /\ deleg'[e] = counted
      \/ slips' = slips + 1 /\ deleg'[e] = deleg[e]
  BY <1>1, <1>2
<1>9. deleg[e].count \in Nat /\ mails[e] \in Nat /\ slips \in Nat
      /\ \A o \in Delegations : deleg[o].count \in Nat /\ mails[o] \in Nat
  BY <1>2 DEF DelegRow
<1>10. ASSUME NEW o \in Delegations
       PROVE  /\ deleg'[o].pc = deleg[o].pc /\ deleg'[o].task = deleg[o].task
              /\ mails'[o] - deleg'[o].count - slips' <= mails[o] - deleg[o].count - slips
              /\ \/ UNCHANGED <<deleg[o].count, mails[o]>>
                 \/ Reads(follow[c], o) /\ ~Reads(n, o) /\ deleg'[o].count <= deleg[o].count + 1
  <2>1. CASE o = e
    <3>1. mails'[e] = mails[e] + 1
      BY <1>7
    <3>2. CASE slips' = slips /\ deleg'[e] = counted
      BY <1>3, <1>5, <1>6, <1>9, <2>1, <3>1, <3>2
    <3>3. CASE slips' = slips + 1 /\ deleg'[e] = deleg[e]
      BY <1>3, <1>5, <1>9, <2>1, <3>1, <3>3
    <3>4. QED
      BY <1>8, <3>2, <3>3
  <2>2. CASE o # e
    BY <1>7, <1>8, <1>9, <2>2
  <2>3. QED
    BY <2>1, <2>2
<1>11. /\ D!TypeOK' /\ \A o \in Processes : CheckShape(follow'[o])
       /\ follow' = [o \in Processes |-> follow'[o]]
       /\ D!DelegateeIsRecorded' /\ Unsent' /\ MailsCounted' /\ SendersLimited' /\ OneCheck'
  BY <1>1, <1>3, <1>7, <1>10, GivingUp
<1>12. ReadIsFresh'
  <2> SUFFICES ASSUME slips' = 0, NEW d \in Delegations \ read, NEW o \in Processes,
                      Reads(follow'[o], d)
               PROVE  follow'[o].todo[d] = deleg'[d].count /\ deleg'[d].count < MaxFollowUps
    BY <1>1 DEF ReadIsFresh, Reads
  <2>1. slips = 0
    BY <1>7, <1>9
  <2>2. Reads(follow[o], d) /\ follow'[o].todo[d] = follow[o].todo[d]
    BY <1>3, <1>4 DEF Gives
  <2>3. d # e
    <3> SUFFICES ASSUME d = e PROVE FALSE
      OBVIOUS
    <3>1. o # c
      BY <1>3, <1>4
    <3>2. Checked(o, d)
      BY <2>2 DEF Reads, Checked
    <3>3. QED
      BY <1>1, <3>1, <3>2 DEF FollowInv, OneCheck
  <2>4. QED
    BY <1>7, <2>1, <2>2, <2>3 DEF FollowInv, ReadIsFresh
<1>13. D!ExhaustedIsOverdue'
  <2> SUFFICES ASSUME NEW d \in Delegations, deleg'[d].status = "pending",
                      deleg'[d].count >= MaxFollowUps, d \notin read, slips' = 0
               PROVE  \E o \in Processes : follow'[o].pc = "mark" /\ follow'[o].item = d
    BY <1>1 DEF D!ExhaustedIsOverdue, D!Exhausted
  <2>1. slips = 0 /\ slips' = slips
    BY <1>7, <1>9
  <2>2. CASE d = e
    <3>1. follow[c].todo[e] = deleg[e].count
      BY <1>5, <2>1, <2>2 DEF FollowInv, ReadIsFresh
    <3>2. deleg'[e].count = deleg[e].count + 1
      BY <1>6, <1>8, <1>9, <2>1
    <3>3. last
      BY <1>9, <2>2, <3>1, <3>2 DEF last
    <3>4. QED
      BY <1>3, <1>4, <2>2, <3>3
  <2>3. CASE d # e
    <3>1. deleg[d].status = "pending" /\ deleg[d].count >= MaxFollowUps
      BY <1>7, <2>3
    <3>2. PICK o \in Processes : follow[o].pc = "mark" /\ follow[o].item = d
      BY <2>1, <3>1 DEF FollowInv, D!ExhaustedIsOverdue, D!Exhausted
    <3>3. o # c
      BY <1>1, <3>2
    <3>4. QED
      BY <1>4, <3>2, <3>3
  <2>4. QED
    BY <2>2, <2>3
<1>14. QED
  BY <1>7, <1>11, <1>12, <1>13 DEF FollowInv

\* After the alert's statement the check has no more to do with the delegation.
LEMMA MarkOverdueStep ==
  ASSUME D!DelegationAssumption, FollowInv, NEW c \in Processes, D!MarkOverdue(c)
  PROVE  FollowInv'
<1> DEFINE e == follow[c].item
           written == D!Row(e, "overdue", D!Never, deleg[e].count)
<1>1. /\ follow[c].pc = "mark" /\ D!Done(c, e) /\ UNCHANGED <<to, mails, read, tick>>
      /\ \/ slips' = slips /\ deleg' = [deleg EXCEPT ![e] = written]
         \/ slips < MaxErrors /\ slips' = slips + 1 /\ deleg' = deleg
  BY DEF D!MarkOverdue, D!Works, D!Fails
<1>2. /\ deleg \in [Delegations -> DelegRow] /\ mails \in [Delegations -> Nat]
      /\ slips \in 0 .. MaxErrors /\ MaxErrors \in Nat /\ D!Never \in Nat
      /\ CheckShape(follow[c]) /\ follow = [o \in Processes |-> follow[o]]
  BY DEF FollowInv, D!TypeOK, DelegRow, D!DelegationAssumption, D!Never
<1>3. e \in Delegations /\ Checked(c, e)
  BY <1>1, <1>2 DEF CheckShape, Readings, Checked
<1>4. PICK n : /\ follow' = [follow EXCEPT ![c] = n] /\ CheckShape(n) /\ Gives(follow[c], n)
               /\ ~Reads(n, e) /\ n.pc # "mark"
  BY <1>1, <1>3, WorkDone
<1>5. \A o \in Processes : follow'[o] = IF o = c THEN n ELSE follow[o]
  BY <1>2, <1>4
<1>6. /\ written \in DelegRow /\ written.pc = deleg[e].pc /\ written.task = deleg[e].task
      /\ written.status = "overdue" /\ written.count = deleg[e].count
  <2>1. /\ deleg[e].pc \in {"unused", "update", "done"} /\ deleg[e].task \in Tasks
        /\ deleg[e].count \in Nat
    BY <1>2, <1>3 DEF DelegRow
  <2>2. QED
    BY <1>2, <2>1 DEF D!Row, DelegRow
<1> HIDE DEF written
<1>7. /\ deleg' \in [Delegations -> DelegRow] /\ slips' \in 0 .. MaxErrors /\ slips' >= slips
      /\ \A o \in Delegations : o # e => deleg'[o] = deleg[o]
      /\ \/ slips' = slips /\ deleg'[e] = written
         \/ slips' = slips + 1 /\ deleg'[e] = deleg[e]
  BY <1>1, <1>2, <1>3, <1>6
<1>8. \A o \in Delegations : deleg[o].count \in Nat /\ mails[o] \in Nat
  BY <1>2 DEF DelegRow
<1>9. ASSUME NEW o \in Delegations
      PROVE  /\ deleg'[o].pc = deleg[o].pc /\ deleg'[o].task = deleg[o].task
             /\ deleg'[o].count = deleg[o].count /\ mails'[o] = mails[o]
             /\ mails'[o] - deleg'[o].count - slips' <= mails[o] - deleg[o].count - slips
  <2>1. /\ deleg'[o].pc = deleg[o].pc /\ deleg'[o].task = deleg[o].task
        /\ deleg'[o].count = deleg[o].count /\ mails'[o] = mails[o]
    BY <1>1, <1>6, <1>7
  <2>2. slips' \in Nat /\ slips \in Nat /\ slips' >= slips
    BY <1>2, <1>7
  <2>3. QED
    BY <1>8, <2>1, <2>2
<1>10. mails' \in [Delegations -> Nat]
  BY <1>1, <1>2
<1>11. /\ D!TypeOK' /\ \A o \in Processes : CheckShape(follow'[o])
       /\ follow' = [o \in Processes |-> follow'[o]]
       /\ D!DelegateeIsRecorded' /\ Unsent' /\ MailsCounted' /\ SendersLimited' /\ OneCheck'
  BY <1>1, <1>4, <1>7, <1>9, <1>10, GivingUp
<1>12. ReadIsFresh'
  <2> SUFFICES ASSUME slips' = 0, NEW d \in Delegations \ read, NEW o \in Processes,
                      Reads(follow'[o], d)
               PROVE  follow'[o].todo[d] = deleg'[d].count /\ deleg'[d].count < MaxFollowUps
    BY <1>1 DEF ReadIsFresh, Reads
  <2>1. slips = 0
    BY <1>2, <1>7
  <2>2. Reads(follow[o], d) /\ follow'[o].todo[d] = follow[o].todo[d]
    BY <1>4, <1>5 DEF Gives
  <2>3. QED
    BY <1>9, <2>1, <2>2 DEF FollowInv, ReadIsFresh
<1>13. D!ExhaustedIsOverdue'
  <2> SUFFICES ASSUME NEW d \in Delegations, deleg'[d].status = "pending",
                      deleg'[d].count >= MaxFollowUps, d \notin read, slips' = 0
               PROVE  \E o \in Processes : follow'[o].pc = "mark" /\ follow'[o].item = d
    BY <1>1 DEF D!ExhaustedIsOverdue, D!Exhausted
  <2>1. slips = 0 /\ slips' = slips
    BY <1>2, <1>7
  <2>2. d # e
    BY <1>6, <1>7, <2>1, <1>2
  <2>3. deleg[d].status = "pending" /\ deleg[d].count >= MaxFollowUps
    BY <1>7, <2>2
  <2>4. PICK o \in Processes : follow[o].pc = "mark" /\ follow[o].item = d
    BY <2>1, <2>3 DEF FollowInv, D!ExhaustedIsOverdue, D!Exhausted
  <2>5. o # c
    BY <2>2, <2>4
  <2>6. QED
    BY <1>5, <2>4, <2>5
<1>14. QED
  BY <1>7, <1>10, <1>11, <1>12, <1>13 DEF FollowInv

\* A process that is replaced leaves its delegations to a later check.
LEMMA StopCheckStep ==
  ASSUME D!DelegationAssumption, FollowInv, NEW c \in Processes, D!Stop(c)
  PROVE  FollowInv'
<1>1. /\ slips < MaxErrors /\ slips' = slips + 1 /\ follow' = [follow EXCEPT ![c] = D!Idle]
      /\ UNCHANGED <<to, deleg, mails, read, tick>>
  BY DEF D!Stop, D!Fails
<1>2. /\ deleg \in [Delegations -> DelegRow] /\ mails \in [Delegations -> Nat]
      /\ slips \in 0 .. MaxErrors /\ MaxErrors \in Nat
  BY DEF FollowInv, D!TypeOK, DelegRow, D!DelegationAssumption
<1>3. CheckShape(D!Idle)
  <2>1. [o \in {} |-> 0] \in [{} -> Nat]
    OBVIOUS
  <2>2. QED
    BY <2>1 DEF CheckShape, D!Idle, Readings
<1>4. Gives(follow[c], D!Idle)
  BY DEF Gives, D!Idle, Reads
<1>5. /\ slips' \in 0 .. MaxErrors /\ slips' >= slips /\ slips' # 0
      /\ deleg' \in [Delegations -> DelegRow] /\ mails' \in [Delegations -> Nat]
  BY <1>1, <1>2
<1>6. ASSUME NEW o \in Delegations
      PROVE  /\ deleg'[o].pc = deleg[o].pc /\ deleg'[o].task = deleg[o].task
             /\ mails'[o] - deleg'[o].count - slips' <= mails[o] - deleg[o].count - slips
             /\ UNCHANGED <<deleg[o].count, mails[o]>>
  <2>1. deleg[o].count \in Nat /\ mails[o] \in Nat
    BY <1>2 DEF DelegRow
  <2>2. QED
    BY <1>1, <1>2, <2>1
<1>7. /\ D!TypeOK' /\ \A o \in Processes : CheckShape(follow'[o])
      /\ follow' = [o \in Processes |-> follow'[o]]
      /\ D!DelegateeIsRecorded' /\ Unsent' /\ MailsCounted' /\ SendersLimited' /\ OneCheck'
  BY <1>1, <1>3, <1>4, <1>5, <1>6, GivingUp
<1>8. ReadIsFresh' /\ D!ExhaustedIsOverdue'
  BY <1>5 DEF ReadIsFresh, D!ExhaustedIsOverdue
<1>9. QED
  BY <1>5, <1>7, <1>8 DEF FollowInv

\* A check reads what is due: the counts as they are, and the delegations that
\* another check has too are noted.
LEMMA BeginCheckStep ==
  ASSUME D!DelegationAssumption, FollowInv, NEW c \in Processes, D!Begin(c)
  PROVE  FollowInv'
<1> DEFINE due == D!Pending
           n == [pc |-> "send", todo |-> [d \in due |-> deleg[d].count], item |-> Nobody,
                 since |-> tick]
           noted == {d \in due : \E o \in Processes : d \in DOMAIN follow[o].todo}
<1>1. /\ follow[c].pc = "idle" /\ follow' = [follow EXCEPT ![c] = n] /\ read' = read \cup noted
      /\ UNCHANGED <<to, deleg, mails, tick, slips>>
  BY DEF D!Begin
<1>2. /\ deleg \in [Delegations -> DelegRow] /\ mails \in [Delegations -> Nat]
      /\ read \subseteq Delegations /\ tick \in Nat /\ MaxFollowUps \in Nat
      /\ CheckShape(follow[c]) /\ follow = [o \in Processes |-> follow[o]]
  BY DEF FollowInv, D!TypeOK, DelegRow, D!DelegationAssumption
<1>3. /\ due \subseteq Delegations
      /\ \A d \in due : deleg[d].pc # "unused" /\ deleg[d].count < MaxFollowUps
      /\ \A d \in Delegations : deleg[d].count \in Nat
  BY <1>2 DEF D!Pending, DelegRow
<1>4. /\ DOMAIN n.todo = due /\ \A d \in due : n.todo[d] = deleg[d].count
      /\ n.pc = "send"
  OBVIOUS
<1> HIDE DEF due
<1>5. CheckShape(n)
  <2>1. n.todo \in [due -> Nat]
    BY <1>3
  <2>2. n.todo \in Readings
    BY <1>3, <2>1 DEF Readings
  <2>3. QED
    BY <1>2, <2>2 DEF CheckShape
<1>6. /\ \A o \in Processes : follow'[o] = IF o = c THEN n ELSE follow[o]
      /\ follow' = [o \in Processes |-> follow'[o]]
      /\ \A o \in Processes : CheckShape(follow'[o])
  BY <1>1, <1>5, CheckReplaced
<1>7. \A d \in Delegations : ~Checked(c, d) /\ ~Reads(follow[c], d)
  BY <1>1, <1>2 DEF CheckShape, Checked, Reads
<1>8. \A d \in noted : \E o \in Processes : Checked(o, d)
  BY DEF Checked
<1>9. /\ \A d \in due \ read' : \A o \in Processes : ~Checked(o, d)
      /\ \A d \in Delegations \ due : d \in read' <=> d \in read
      /\ read \subseteq read' /\ read' \subseteq Delegations
  BY <1>1, <1>2, <1>3 DEF Checked
<1> HIDE DEF n, noted
<1>10. D!TypeOK'
  BY <1>1, <1>2, <1>6, <1>9 DEF FollowInv, D!TypeOK, CheckShape
<1>11. D!DelegateeIsRecorded' /\ MailsCounted'
  BY <1>1 DEF FollowInv, D!DelegateeIsRecorded, MailsCounted
<1>12. Unsent'
  <2> SUFFICES ASSUME NEW d \in Delegations, deleg[d].pc = "unused"
               PROVE  mails[d] = 0 /\ \A o \in Processes : d \notin DOMAIN follow'[o].todo
    BY <1>1 DEF Unsent, Checked
  <2>1. mails[d] = 0 /\ d \notin due /\ \A o \in Processes : d \notin DOMAIN follow[o].todo
    BY <1>3 DEF FollowInv, Unsent, Checked
  <2>2. QED
    BY <1>4, <1>6, <2>1
<1>13. SendersLimited'
  <2> SUFFICES ASSUME NEW d \in Delegations
               PROVE  deleg[d].count + Cardinality(Readers(d)') <= MaxFollowUps + Overlap(d)'
    BY <1>1 DEF SendersLimited
  <2>1. deleg[d].count + Cardinality(Readers(d)) <= MaxFollowUps + Overlap(d)
    BY DEF FollowInv, SendersLimited
  <2>2. Readers(d)' = {o \in Processes : Reads(follow'[o], d)}
    BY DEF Readers, Reads
  <2>3. /\ IsFiniteSet(Processes) /\ Cardinality(Processes) \in Nat /\ deleg[d].count \in Nat
    BY <1>3, ProcessesFinite, ReadersFinite
  <2>4. CASE d \notin due
    <3>1. ~Reads(n, d)
      BY <1>4, <2>4 DEF Reads
    <3>2. Readers(d)' = Readers(d)
      BY <1>6, <1>7, <2>2, <3>1 DEF Readers
    <3>3. Overlap(d)' = Overlap(d)
      BY <1>9, <2>4 DEF Overlap
    <3>4. QED
      BY <2>1, <3>2, <3>3
  <2>5. CASE d \in due /\ d \in read'
    <3>1. Readers(d)' \subseteq Processes
      BY <2>2
    <3>2. Cardinality(Readers(d)') \in Nat /\ Cardinality(Readers(d)') <= Cardinality(Processes)
      BY <2>3, <3>1, FS_Subset, FS_CardinalityType
    <3>3. Overlap(d)' = Cardinality(Processes) - 1 /\ deleg[d].count < MaxFollowUps
      BY <1>3, <2>5 DEF Overlap
    <3>4. QED
      BY <1>2, <2>3, <3>2, <3>3
  <2>6. CASE d \in due /\ d \notin read'
    <3>1. \A o \in Processes : ~Reads(follow[o], d)
      BY <1>9, <2>6 DEF Reads, Checked
    <3>2. Readers(d)' \subseteq {c}
      BY <1>6, <2>2, <3>1
    <3>3. IsFiniteSet({c}) /\ Cardinality({c}) = 1
      BY FS_Singleton
    <3>4. Cardinality(Readers(d)') \in Nat /\ Cardinality(Readers(d)') <= 1
      BY <3>2, <3>3, FS_Subset, FS_CardinalityType
    <3>5. Overlap(d)' = 0 /\ deleg[d].count < MaxFollowUps
      BY <1>3, <2>6 DEF Overlap
    <3>6. QED
      BY <1>2, <2>3, <3>4, <3>5
  <2>7. QED
    BY <2>4, <2>5, <2>6
<1>14. OneCheck'
  <2> SUFFICES ASSUME NEW d \in Delegations \ read', NEW o \in Processes, NEW u \in Processes,
                      d \in DOMAIN follow'[o].todo, d \in DOMAIN follow'[u].todo
               PROVE  o = u
    BY DEF OneCheck, Checked
  <2>1. CASE d \in due
    BY <1>6, <1>9, <2>1 DEF Checked
  <2>2. CASE d \notin due
    <3>1. o # c /\ u # c
      BY <1>4, <1>6, <2>2
    <3>2. Checked(o, d) /\ Checked(u, d) /\ d \notin read
      BY <1>6, <1>9, <3>1 DEF Checked
    <3>3. QED
      BY <3>2 DEF FollowInv, OneCheck
  <2>3. QED
    BY <2>1, <2>2
<1>15. ReadIsFresh'
  <2> SUFFICES ASSUME slips = 0, NEW d \in Delegations \ read', NEW o \in Processes,
                      Reads(follow'[o], d)
               PROVE  follow'[o].todo[d] = deleg[d].count /\ deleg[d].count < MaxFollowUps
    BY <1>1 DEF ReadIsFresh, Reads
  <2>1. CASE o = c
    <3>1. Reads(n, d)
      BY <1>6, <2>1
    <3>2. d \in due
      BY <1>4, <3>1 DEF Reads
    <3>3. QED
      BY <1>3, <1>4, <1>6, <2>1, <3>2
  <2>2. CASE o # c
    BY <1>6, <1>9, <2>2 DEF FollowInv, ReadIsFresh
  <2>3. QED
    BY <2>1, <2>2
<1>16. D!ExhaustedIsOverdue'
  <2> SUFFICES ASSUME NEW d \in Delegations, deleg[d].status = "pending",
                      deleg[d].count >= MaxFollowUps, d \notin read', slips = 0
               PROVE  \E o \in Processes : follow'[o].pc = "mark" /\ follow'[o].item = d
    BY <1>1 DEF D!ExhaustedIsOverdue, D!Exhausted
  <2>1. PICK o \in Processes : follow[o].pc = "mark" /\ follow[o].item = d
    BY <1>9 DEF FollowInv, D!ExhaustedIsOverdue, D!Exhausted
  <2>2. o # c
    BY <1>1, <2>1
  <2>3. QED
    BY <1>6, <2>1, <2>2
<1>17. mails' \in [Delegations -> Nat]
  BY <1>1, <1>2
<1>18. QED
  BY <1>6, <1>10, <1>11, <1>12, <1>13, <1>14, <1>15, <1>16, <1>17 DEF FollowInv

\* A statement of a request changes no count and no status, or fills a row
\* nobody has read; the clock changes no row.
LEMMA DelegWritten ==
  ASSUME D!DelegationAssumption, FollowInv, UNCHANGED <<follow, mails, read>>,
         deleg' \in [Delegations -> DelegRow], to' \in [Tasks -> Delegations \cup {Nobody}],
         slips' \in 0 .. MaxErrors, slips' >= slips, tick' \in 0 .. FollowTime,
         \A e \in Delegations :
           \/ /\ deleg'[e].count = deleg[e].count /\ deleg'[e].status = deleg[e].status
              /\ deleg'[e].pc = "unused" => deleg[e].pc = "unused"
           \/ deleg[e].pc = "unused" /\ deleg'[e].count = 0 /\ deleg'[e].pc # "unused",
         D!DelegateeIsRecorded'
  PROVE  FollowInv'
<1>1. /\ deleg \in [Delegations -> DelegRow] /\ slips \in Nat /\ slips' \in Nat
      /\ MaxFollowUps \in Nat \ {0} /\ mails \in [Delegations -> Nat]
  BY DEF FollowInv, D!TypeOK, DelegRow, D!DelegationAssumption
<1>2. D!TypeOK'
  BY DEF FollowInv, D!TypeOK, DelegRow
<1>3. \A e \in Delegations : deleg[e].pc = "unused" =>
        mails[e] = 0 /\ \A o \in Processes : ~Checked(o, e) /\ ~Reads(follow[o], e)
  BY DEF FollowInv, Unsent, Checked, Reads
<1>4. Unsent'
  BY <1>3 DEF Unsent, Checked
<1>5. MailsCounted'
  <2> SUFFICES ASSUME NEW e \in Delegations PROVE mails[e] <= deleg'[e].count + slips'
    BY DEF MailsCounted
  <2>1. mails[e] <= deleg[e].count + slips /\ mails[e] \in Nat
    BY <1>1 DEF FollowInv, MailsCounted
  <2>2. deleg[e].count \in Nat
    BY <1>1 DEF DelegRow
  <2>3. QED
    BY <1>1, <1>3, <2>1, <2>2
<1>6. SendersLimited'
  <2> SUFFICES ASSUME NEW e \in Delegations
               PROVE  deleg'[e].count + Cardinality(Readers(e)) <= MaxFollowUps + Overlap(e)
    BY DEF SendersLimited, Readers, Reads, Overlap
  <2>1. CASE deleg'[e].count = deleg[e].count
    BY <2>1 DEF FollowInv, SendersLimited
  <2>2. CASE deleg[e].pc = "unused" /\ deleg'[e].count = 0
    <3>1. Readers(e) = {}
      BY <1>3, <2>2 DEF Readers
    <3>2. Cardinality(Readers(e)) = 0
      BY <3>1, FS_EmptySet
    <3>3. Overlap(e) \in Int /\ Overlap(e) >= -1
      BY ReadersFinite DEF Overlap
    <3>4. QED
      BY <1>1, <2>2, <3>2, <3>3
  <2>3. QED
    BY <2>1, <2>2
<1>7. OneCheck'
  BY DEF FollowInv, OneCheck, Checked
<1>8. ReadIsFresh'
  <2> SUFFICES ASSUME slips' = 0, NEW d \in Delegations \ read, NEW o \in Processes,
                      Reads(follow[o], d)
               PROVE  follow[o].todo[d] = deleg'[d].count /\ deleg'[d].count < MaxFollowUps
    BY DEF ReadIsFresh, Reads
  <2>1. slips = 0
    BY <1>1
  <2>2. deleg'[d].count = deleg[d].count
    BY <1>3
  <2>3. QED
    BY <2>1, <2>2 DEF FollowInv, ReadIsFresh
<1>9. D!ExhaustedIsOverdue'
  <2> SUFFICES ASSUME NEW d \in Delegations, deleg'[d].status = "pending",
                      deleg'[d].count >= MaxFollowUps, d \notin read, slips' = 0
               PROVE  \E o \in Processes : follow[o].pc = "mark" /\ follow[o].item = d
    BY DEF D!ExhaustedIsOverdue, D!Exhausted
  <2>1. slips = 0 /\ deleg'[d].count # 0
    BY <1>1
  <2>2. deleg[d].status = "pending" /\ deleg[d].count >= MaxFollowUps
    BY <2>1
  <2>3. QED
    BY <2>1, <2>2 DEF FollowInv, D!ExhaustedIsOverdue, D!Exhausted
<1>10. QED
  BY <1>2, <1>4, <1>5, <1>6, <1>7, <1>8, <1>9 DEF FollowInv

\* A delegation is inserted, and then the task says so.
LEMMA InsertDelegationStep ==
  ASSUME D!DelegationAssumption, FollowInv, NEW d \in Delegations, NEW t \in Tasks,
         D!Insert(d, t, tick)
  PROVE  FollowInv'
<1> DEFINE written == [pc |-> "update", task |-> t, status |-> "pending", date |-> tick, count |-> 0]
<1>1. /\ deleg[d].pc = "unused" /\ deleg' = [deleg EXCEPT ![d] = written]
      /\ UNCHANGED <<to, follow, mails, read, tick, slips>>
  BY DEF D!Insert
<1>2. /\ deleg \in [Delegations -> DelegRow] /\ to \in [Tasks -> Delegations \cup {Nobody}]
      /\ slips \in 0 .. MaxErrors /\ tick \in 0 .. FollowTime
  BY DEF FollowInv, D!TypeOK, DelegRow
<1>3. written \in DelegRow /\ written.count = 0 /\ written.pc = "update"
  <2>1. tick \in Nat
    BY <1>2 DEF D!DelegationAssumption
  <2>2. QED
    BY <2>1 DEF DelegRow
<1> HIDE DEF written
<1>4. deleg' \in [Delegations -> DelegRow] /\ deleg'[d] = written
      /\ \A e \in Delegations : e # d => deleg'[e] = deleg[e]
  BY <1>1, <1>2, <1>3
<1>5. \A e \in Delegations :
        \/ /\ deleg'[e].count = deleg[e].count /\ deleg'[e].status = deleg[e].status
           /\ deleg'[e].pc = "unused" => deleg[e].pc = "unused"
        \/ deleg[e].pc = "unused" /\ deleg'[e].count = 0 /\ deleg'[e].pc # "unused"
  BY <1>1, <1>3, <1>4
<1>6. D!DelegateeIsRecorded'
  <2> SUFFICES ASSUME NEW u \in Tasks, to[u] # Nobody
               PROVE  deleg'[to[u]].pc # "unused" /\ deleg'[to[u]].task = u
    BY <1>1 DEF D!DelegateeIsRecorded
  <2>1. deleg[to[u]].pc # "unused" /\ deleg[to[u]].task = u
    BY DEF FollowInv, D!DelegateeIsRecorded
  <2>2. to[u] \in Delegations /\ to[u] # d
    BY <1>1, <1>2, <2>1
  <2>3. QED
    BY <1>4, <2>1, <2>2
<1>7. slips' \in 0 .. MaxErrors /\ slips' >= slips /\ tick' \in 0 .. FollowTime
      /\ to' \in [Tasks -> Delegations \cup {Nobody}] /\ UNCHANGED <<follow, mails, read>>
  BY <1>1, <1>2 DEF D!DelegationAssumption
<1>8. QED
  BY <1>4, <1>5, <1>6, <1>7, DelegWritten

LEMMA AssignStep ==
  ASSUME D!DelegationAssumption, FollowInv, NEW d \in Delegations, D!Assign(d)
  PROVE  FollowInv'
<1>1. /\ deleg[d].pc = "update" /\ deleg' = [deleg EXCEPT ![d].pc = "done"]
      /\ \/ slips' = slips /\ to' = [to EXCEPT ![deleg[d].task] = d]
         \/ slips < MaxErrors /\ slips' = slips + 1 /\ to' = to
      /\ UNCHANGED <<follow, mails, read, tick>>
  BY DEF D!Assign, D!Works, D!Fails
<1>2. /\ deleg \in [Delegations -> DelegRow] /\ to \in [Tasks -> Delegations \cup {Nobody}]
      /\ slips \in 0 .. MaxErrors /\ tick \in 0 .. FollowTime /\ MaxErrors \in Nat
  BY DEF FollowInv, D!TypeOK, DelegRow, D!DelegationAssumption
<1>3. \A e \in Delegations :
        /\ deleg'[e] \in DelegRow
        /\ deleg'[e].count = deleg[e].count /\ deleg'[e].status = deleg[e].status
        /\ deleg'[e].task = deleg[e].task
        /\ deleg'[e].pc = IF e = d THEN "done" ELSE deleg[e].pc
  BY <1>1, <1>2 DEF DelegRow
<1>4. deleg' \in [Delegations -> DelegRow]
  BY <1>1, <1>2, <1>3
<1>5. deleg[d].task \in Tasks
  BY <1>2 DEF DelegRow
<1>6. D!DelegateeIsRecorded'
  <2> SUFFICES ASSUME NEW u \in Tasks, to'[u] # Nobody
               PROVE  deleg'[to'[u]].pc # "unused" /\ deleg'[to'[u]].task = u
    BY DEF D!DelegateeIsRecorded
  <2>1. CASE to'[u] = to[u]
    <3>1. deleg[to[u]].pc # "unused" /\ deleg[to[u]].task = u /\ to[u] \in Delegations
      BY <1>2, <2>1 DEF FollowInv, D!DelegateeIsRecorded
    <3>2. QED
      BY <1>3, <2>1, <3>1
  <2>2. CASE to'[u] # to[u]
    <3>1. to'[u] = d /\ u = deleg[d].task
      BY <1>1, <1>2, <1>5, <2>2
    <3>2. QED
      BY <1>3, <3>1
  <2>3. QED
    BY <2>1, <2>2
<1>7. /\ slips' \in 0 .. MaxErrors /\ slips' >= slips /\ tick' \in 0 .. FollowTime
      /\ to' \in [Tasks -> Delegations \cup {Nobody}]
  BY <1>1, <1>2, <1>5
<1>8. \A e \in Delegations :
        /\ deleg'[e].count = deleg[e].count /\ deleg'[e].status = deleg[e].status
        /\ deleg'[e].pc = "unused" => deleg[e].pc = "unused"
  BY <1>3
<1>9. QED
  BY <1>1, <1>4, <1>6, <1>7, <1>8, DelegWritten

LEMMA FollowStep ==
  ASSUME D!DelegationAssumption PROVE FollowInv /\ [D!Next]_followUps => FollowInv'
<1> SUFFICES ASSUME FollowInv, [D!Next]_followUps PROVE FollowInv'
  OBVIOUS
<1>1. ASSUME NEW d \in Delegations, D!Assign(d) \/ \E t \in Tasks : D!Insert(d, t, tick)
      PROVE  FollowInv'
  BY <1>1, AssignStep, InsertDelegationStep
<1>2. ASSUME NEW c \in Processes, D!Check(c) \/ D!Stop(c) PROVE FollowInv'
  <2>1. ASSUME NEW d \in Delegations, D!FollowUp(c, d) PROVE FollowInv'
    BY <2>1, FollowUpStep
  <2>2. QED
    BY <1>2, <2>1, BeginCheckStep, MarkOverdueStep, StopCheckStep DEF D!Check
<1>3. ASSUME UNCHANGED <<to, deleg, follow, mails, read, slips>>, tick' \in 0 .. FollowTime
      PROVE  FollowInv'
  <2>1. /\ deleg' \in [Delegations -> DelegRow] /\ to' \in [Tasks -> Delegations \cup {Nobody}]
        /\ slips' \in 0 .. MaxErrors /\ slips' >= slips
    BY <1>3 DEF FollowInv, D!TypeOK, DelegRow, D!DelegationAssumption
  <2>2. D!DelegateeIsRecorded'
    BY <1>3 DEF FollowInv, D!DelegateeIsRecorded
  <2>3. QED
    BY <1>3, <2>1, <2>2, DelegWritten
<1>4. CASE D!Clock
  <2>1. tick' \in 0 .. FollowTime
    BY <1>4 DEF D!Clock, FollowInv, D!TypeOK, D!DelegationAssumption
  <2>2. QED
    BY <1>3, <1>4, <2>1 DEF D!Clock
<1>5. CASE UNCHANGED followUps
  <2>1. tick' \in 0 .. FollowTime
    BY <1>5 DEF followUps, FollowInv, D!TypeOK
  <2>2. QED
    BY <1>3, <1>5, <2>1 DEF followUps
<1>6. QED
  BY <1>1, <1>2, <1>4, <1>5 DEF D!Next

LEMMA FollowInit ==
  ASSUME D!DelegationAssumption, D!Init PROVE FollowInv
<1>1. /\ to = [t \in Tasks |-> Nobody] /\ deleg = [d \in Delegations |-> D!Unused]
      /\ follow = [c \in Processes |-> D!Idle] /\ mails = [d \in Delegations |-> 0]
      /\ read = {} /\ tick = 0 /\ slips = 0
  BY DEF D!Init
<1>2. D!Unused \in DelegRow /\ D!Unused.pc = "unused" /\ D!Unused.count = 0
  <2>1. (CHOOSE t \in Tasks : TRUE) \in Tasks /\ D!Never \in Nat
    BY DEF D!DelegationAssumption, D!Never
  <2>2. QED
    BY <2>1 DEF D!Unused, DelegRow
<1>3. CheckShape(D!Idle) /\ DOMAIN D!Idle.todo = {} /\ D!Idle.pc = "idle"
  <2>1. [o \in {} |-> 0] \in [{} -> Nat]
    OBVIOUS
  <2>2. QED
    BY <2>1 DEF CheckShape, D!Idle, Readings
<1>4. D!TypeOK
  BY <1>1, <1>2, <1>3 DEF D!TypeOK, DelegRow, D!DelegationAssumption
<1>5. \A c \in Processes, d \in Delegations : ~Checked(c, d) /\ ~Reads(follow[c], d)
  BY <1>1, <1>3 DEF Checked, Reads
<1>6. SendersLimited
  <2> SUFFICES ASSUME NEW d \in Delegations
               PROVE  deleg[d].count + Cardinality(Readers(d)) <= MaxFollowUps + Overlap(d)
    BY DEF SendersLimited
  <2>1. Readers(d) = {}
    BY <1>5 DEF Readers
  <2>2. Cardinality(Readers(d)) = 0
    BY <2>1, FS_EmptySet
  <2>3. deleg[d].count = 0 /\ Overlap(d) = 0 /\ MaxFollowUps \in Nat
    BY <1>1, <1>2 DEF Overlap, D!DelegationAssumption
  <2>4. QED
    BY <2>2, <2>3
<1>7. Unsent /\ MailsCounted
  BY <1>1, <1>2, <1>5 DEF Unsent, MailsCounted
<1>8. OneCheck /\ ReadIsFresh
  BY <1>5 DEF OneCheck, ReadIsFresh
<1>9. D!DelegateeIsRecorded /\ D!ExhaustedIsOverdue
  <2>1. \A d \in Delegations : deleg[d].count = 0
    BY <1>1, <1>2
  <2>2. QED
    BY <1>1, <2>1 DEF D!DelegateeIsRecorded, D!ExhaustedIsOverdue, D!Exhausted,
                      D!DelegationAssumption
<1>10. /\ follow = [c \in Processes |-> follow[c]] /\ mails \in [Delegations -> Nat]
       /\ \A c \in Processes : CheckShape(follow[c])
  BY <1>1, <1>3
<1>11. QED
  BY <1>4, <1>6, <1>7, <1>8, <1>9, <1>10 DEF FollowInv

\* What a delegatee gets: each mail raised the count or met an error, and the
\* count cannot pass the limit but by the checks that had read it below.
LEMMA MailsLimited ==
  ASSUME D!DelegationAssumption, FollowInv PROVE D!FollowUpsAreLimited
<1> SUFFICES ASSUME NEW d \in Delegations PROVE mails[d] <= MaxFollowUps + slips + Overlap(d)
  BY FollowCardinality DEF D!FollowUpsAreLimited, Overlap
<1>1. /\ mails[d] <= deleg[d].count + slips
      /\ deleg[d].count + Cardinality(Readers(d)) <= MaxFollowUps + Overlap(d)
  BY DEF FollowInv, MailsCounted, SendersLimited
<1>2. mails[d] \in Nat /\ deleg[d].count \in Nat /\ slips \in Nat
  BY DEF FollowInv, D!TypeOK, D!DelegationAssumption
<1>3. Cardinality(Readers(d)) \in Nat /\ MaxFollowUps \in Nat /\ Overlap(d) \in Int
  BY ReadersFinite DEF Overlap, D!DelegationAssumption
<1>4. QED
  BY <1>1, <1>2, <1>3
-------------------------------------------------------------------------------
\* For every number of tasks, delegations, processes, deadlines and kinds of
\* reminders: what is still to be reminded of is open or was closed since the
\* list was read (reminders.go:94), a delegatee is on record, gets no more
\* follow-ups than the limit and what failed or overlapped, and what is
\* exhausted is about to be marked overdue (delegation_followup.go:93-136).
THEOREM RemindedWell ==
  ASSUME N!RemindersAssumption, D!DelegationAssumption PROVE Spec => []RemindedWithinLimits
<1>1. RemindInv /\ FollowInv => RemindedWithinLimits
  BY MailsLimited DEF RemindInv, FollowInv, RemindedWithinLimits, D!FollowedUpWithinLimits
<1>2. Init => RemindInv /\ FollowInv
  BY RemindInit, FollowInit DEF Init
<1>3. RemindInv /\ FollowInv /\ [Next]_vars => RemindInv' /\ FollowInv'
  <2>1. [Next]_vars => [N!Next]_reminders
    BY DEF Next, vars, tasks, reminders
  <2>2. [Next]_vars => [D!Next]_followUps
    BY DEF Next, vars, tasks, followUps
  <2>3. QED
    BY <2>1, <2>2, RemindStep, FollowStep
<1>4. QED
  BY <1>1, <1>2, <1>3, PTL DEF Spec
-------------------------------------------------------------------------------
(* Approval of drafts.                                                     *)

Answering == [pc : A!PCs, draft : Drafts \cup {NoDraft}, body : 0 .. MaxEdits,
          since : 0 .. MaxEdits, expired : BOOLEAN, error : BOOLEAN]
Early == {"idle", "load", "account", "credential", "smtp", "failed"}

\* What has not reached SMTP has no mail; a request without a draft marks none,
\* and what has marked its draft left it decided.
ReplyShape(r) ==
  /\ reply[r].pc \in Early => ~ mail[r].ok
  /\ reply[r].pc = "idle" => reply[r].draft = NoDraft
  /\ reply[r].pc \in {"load", "mark"} => reply[r].draft \in Drafts
  /\ reply[r].pc = "answered" => reply[r].draft = NoDraft
  /\ reply[r].pc = "marked" => reply[r].draft \in Drafts /\ draft[reply[r].draft].status # "pending"
\* What is sent has the edits made before its request, and is sent without an
\* error only if it was accepted.
ReplySends(r) ==
  /\ reply[r].pc = "load" =>
       \/ draft[reply[r].draft].status = "deleted"
       \/ draft[reply[r].draft].body >= reply[r].since
  /\ reply[r].pc \in {"account", "credential", "smtp"} /\ reply[r].draft # NoDraft =>
       reply[r].body >= reply[r].since
  /\ mail[r].ok /\ reply[r].draft # NoDraft => mail[r].body >= reply[r].since
  /\ reply[r].pc \in {"record", "log", "mark"} /\ ~ reply[r].error => mail[r].ok
  /\ reply[r].pc = "log" => sent[r].ms # 0
  /\ sent[r].log = "sent" => mail[r].ok
SentOnRecord ==
  \A d \in Drafts : draft[d].status = "sent" => \E r \in Processes : reply[r].draft = d /\ mail[r].ok

ApprovalInv ==
  /\ A!TypeOK
  /\ \A r \in Processes : ReplyShape(r) /\ ReplySends(r)
  /\ SentOnRecord

LEMMA ApprovalTypes ==
  ASSUME A!ApprovalAssumption, A!TypeOK
  PROVE  /\ draft \in [Drafts -> [status : {"pending", "approved", "sent", "deleted"}, body : 0 .. MaxEdits]]
         /\ reply \in [Processes -> Answering]
         /\ mail \in [Processes -> [ok : BOOLEAN, body : 0 .. MaxEdits]]
         /\ sent \in [Processes -> [ms : 0 .. MaxMs, log : {"none", "sent", "failed"}]]
         /\ \A r \in Processes : sent[r].log # "none" => sent[r].ms # 0
         /\ ms \in 1 .. MaxMs /\ MaxMs \in Nat \ {0} /\ MaxEdits \in Nat /\ NoDraft \notin Drafts
  BY DEF A!TypeOK, A!ApprovalAssumption, Answering, A!Bodies

LEMMA ApprovalInit ==
  ASSUME A!ApprovalAssumption, A!Init
  PROVE  ApprovalInv
<1>1. A!TypeOK
  BY DEF A!Init, A!TypeOK, A!ApprovalAssumption, A!Bodies, A!Idle, A!NoMail, A!NoRecord, A!PCs
<1>2. ASSUME NEW r \in Processes
      PROVE  ReplyShape(r) /\ ReplySends(r)
  BY DEF A!Init, ReplyShape, ReplySends, A!Idle, A!NoMail, A!NoRecord, Early
<1>3. SentOnRecord
  BY DEF A!Init, SentOnRecord
<1>4. QED
  BY <1>1, <1>2, <1>3 DEF ApprovalInv

LEMMA ApprovalKeeps ==
  ASSUME A!ApprovalAssumption, ApprovalInv
  PROVE  A!TypeOK /\ A!OfferedIsUnsent /\ A!MailHasTheEdits /\ A!SentWasAccepted
<1>1. A!OfferedIsUnsent
  <2>1. ASSUME NEW d \in Drafts, draft[d].status = "pending",
               NEW r \in Processes, reply[r].draft = d, mail[r].ok
        PROVE  A!InFlight(r) \/ A!At(r, "lost")
    BY <2>1, ApprovalTypes DEF ApprovalInv, ReplyShape, Early, A!InFlight, A!At, A!Ended
  <2>2. QED
    BY <2>1, Zenon DEF A!OfferedIsUnsent, A!ListDrafts, A!Of
<1>2. A!MailHasTheEdits
  BY DEF ApprovalInv, ReplySends, A!MailHasTheEdits
<1>3. A!SentWasAccepted
  BY DEF ApprovalInv, ReplySends, SentOnRecord, A!SentWasAccepted, A!ListSent, A!ListDrafts, A!Of
<1>4. QED
  BY <1>1, <1>2, <1>3 DEF ApprovalInv

\* A request that moves alone, to d, and of the same draft but from idle.
LEMMA ReplyMoves ==
  ASSUME A!ApprovalAssumption, ApprovalInv, NEW r \in Processes, NEW d \in Answering,
         reply' = [reply EXCEPT ![r] = d],
         d.draft = reply[r].draft \/ ~ mail[r].ok,
         UNCHANGED <<draft, ms>>,
         mail' \in [Processes -> [ok : BOOLEAN, body : 0 .. MaxEdits]],
         sent' \in [Processes -> [ms : 0 .. MaxMs, log : {"none", "sent", "failed"}]],
         mail[r].ok => mail'[r].ok,
         \A o \in Processes \ {r} : mail'[o] = mail[o] /\ sent'[o] = sent[o],
         sent'[r].log # "none" => sent'[r].ms # 0,
         (ReplyShape(r) /\ ReplySends(r))'
  PROVE  ApprovalInv'
<1>1. \A o \in Processes : reply'[o] = IF o = r THEN d ELSE reply[o]
  BY ApprovalTypes DEF ApprovalInv
<1>2. A!TypeOK'
  BY <1>1, ApprovalTypes DEF ApprovalInv, A!TypeOK, Answering, A!Bodies
<1>3. ASSUME NEW o \in Processes, o # r
      PROVE  (ReplyShape(o) /\ ReplySends(o))'
  BY <1>1, <1>3 DEF ApprovalInv, ReplyShape, ReplySends
<1>4. SentOnRecord'
  <2>1. ASSUME NEW x \in Drafts, draft[x].status = "sent"
        PROVE  \E o \in Processes : reply'[o].draft = x /\ mail'[o].ok
    <3>1. PICK o \in Processes : reply[o].draft = x /\ mail[o].ok
      BY <2>1 DEF ApprovalInv, SentOnRecord
    <3>2. QED
      BY <1>1, <3>1
  <2>2. QED
    BY <2>1 DEF SentOnRecord
<1>5. QED
  BY <1>2, <1>3, <1>4 DEF ApprovalInv

\* The record with another place, and the same otherwise.
LEMMA Places ==
  ASSUME A!ApprovalAssumption, ApprovalInv, NEW r \in Processes, NEW pc \in A!PCs
  PROVE  /\ [reply[r] EXCEPT !.pc = pc] \in Answering
         /\ [reply[r] EXCEPT !.pc = pc].pc = pc
         /\ [reply[r] EXCEPT !.pc = pc].draft = reply[r].draft
         /\ [reply[r] EXCEPT !.pc = pc].body = reply[r].body
         /\ [reply[r] EXCEPT !.pc = pc].since = reply[r].since
         /\ [reply[r] EXCEPT !.pc = pc].error = reply[r].error
<1>1. reply[r] \in Answering
  BY ApprovalTypes DEF ApprovalInv
<1>2. QED
  BY <1>1 DEF Answering

\* Where a request goes when Send returns.
LEMMA SendReturning ==
  ASSUME A!ApprovalAssumption, ApprovalInv, NEW r \in Processes, NEW error \in BOOLEAN,
         A!SendReturns(r, error)
  PROVE  \E d \in Answering :
           /\ reply' = [reply EXCEPT ![r] = d]
           /\ d.pc = IF reply[r].draft = NoDraft THEN "answered" ELSE "mark"
           /\ d.draft = reply[r].draft /\ d.body = reply[r].body /\ d.since = reply[r].since
           /\ d.error = error
<1> DEFINE pc == IF reply[r].draft = NoDraft THEN "answered" ELSE "mark"
           d == [reply[r] EXCEPT !.pc = pc, !.error = error]
<1>1. reply[r] \in Answering /\ pc \in A!PCs
  BY ApprovalTypes DEF ApprovalInv, A!PCs
<1>2. /\ d \in Answering /\ d.pc = pc /\ d.draft = reply[r].draft /\ d.body = reply[r].body
      /\ d.since = reply[r].since /\ d.error = error
  BY <1>1 DEF Answering
<1>3. reply' = [reply EXCEPT ![r] = d]
  BY DEF A!SendReturns
<1>4. QED
  BY <1>2, <1>3

LEMMA ComposeStep ==
  ASSUME A!ApprovalAssumption, ApprovalInv, NEW r \in Processes, A!Compose(r)
  PROVE  ApprovalInv'
<1>1. reply[r].pc = "idle" /\ ReplyShape(r) /\ ReplySends(r) /\ reply[r].draft = NoDraft /\ ~ mail[r].ok
  BY DEF A!Compose, A!At, ApprovalInv, ReplyShape, Early
<1>2. UNCHANGED <<draft, mail, sent, ms>>
      /\ reply' = [reply EXCEPT ![r] = [reply[r] EXCEPT !.pc = "account"]]
  BY DEF A!Compose, A!Goto
<1>3. PICK d \in Answering : /\ reply' = [reply EXCEPT ![r] = d] /\ d.pc = "account" /\ d.draft = NoDraft
  BY <1>1, <1>2, Places DEF A!PCs
<1>4. reply'[r] = d
  BY <1>3, ApprovalTypes DEF ApprovalInv
<1>5. (ReplyShape(r) /\ ReplySends(r))'
  BY <1>1, <1>2, <1>3, <1>4 DEF ReplyShape, ReplySends, Early
<1>6. QED
  BY <1>1, <1>2, <1>3, <1>5, ReplyMoves, ApprovalTypes DEF ApprovalInv

LEMMA ApproveStep ==
  ASSUME A!ApprovalAssumption, ApprovalInv, NEW r \in Processes, NEW x \in Drafts, A!Approve(r, x)
  PROVE  ApprovalInv'
<1>1. reply[r].pc = "idle" /\ ReplyShape(r) /\ ReplySends(r) /\ ~ mail[r].ok
  BY DEF A!Approve, A!At, ApprovalInv, ReplyShape, Early
<1>2. draft[x].body \in 0 .. MaxEdits /\ MaxEdits \in Nat
  BY ApprovalTypes DEF ApprovalInv
<1>3. PICK d \in Answering : /\ reply' = [reply EXCEPT ![r] = d] /\ d.pc = "load" /\ d.draft = x
                             /\ d.since = draft[x].body
  <2> DEFINE d == [A!Idle EXCEPT !.pc = "load", !.draft = x, !.since = draft[x].body]
  <2>1. d \in Answering /\ d.pc = "load" /\ d.draft = x /\ d.since = draft[x].body
    <3>1. A!Idle \in Answering
      BY <1>2 DEF Answering, A!Idle, A!PCs
    <3>2. QED
      BY <1>2, <3>1 DEF Answering, A!PCs
  <2>2. QED
    BY <2>1 DEF A!Approve
<1>4. UNCHANGED <<draft, mail, sent, ms>> /\ reply'[r] = d
  BY <1>3, ApprovalTypes DEF A!Approve, ApprovalInv
<1>5. (ReplyShape(r) /\ ReplySends(r))'
  BY <1>1, <1>2, <1>3, <1>4 DEF ReplyShape, ReplySends, Early
<1>6. QED
  BY <1>1, <1>3, <1>4, <1>5, ReplyMoves, ApprovalTypes DEF ApprovalInv

LEMMA ExpireStep ==
  ASSUME A!ApprovalAssumption, ApprovalInv, NEW r \in Processes, A!Expire(r)
  PROVE  ApprovalInv'
<1>1. ReplyShape(r) /\ ReplySends(r) /\ reply[r] \in Answering
  BY ApprovalTypes DEF ApprovalInv
<1>2. UNCHANGED <<draft, mail, sent, ms>>
      /\ reply' = [reply EXCEPT ![r] = [reply[r] EXCEPT !.expired = TRUE]]
  BY DEF A!Expire
<1>3. PICK d \in Answering : /\ reply' = [reply EXCEPT ![r] = d] /\ d.pc = reply[r].pc
                             /\ d.draft = reply[r].draft /\ d.body = reply[r].body
                             /\ d.since = reply[r].since /\ d.error = reply[r].error
  <2>1. /\ [reply[r] EXCEPT !.expired = TRUE] \in Answering
        /\ \A f \in {"pc", "draft", "body", "since", "error"} :
             [reply[r] EXCEPT !.expired = TRUE][f] = reply[r][f]
    BY <1>1 DEF Answering
  <2>2. QED
    BY <1>2, <2>1
<1>4. reply'[r] = d
  BY <1>3, ApprovalTypes DEF ApprovalInv
<1>5. (ReplyShape(r) /\ ReplySends(r))'
  BY <1>1, <1>2, <1>3, <1>4 DEF ReplyShape, ReplySends, Early
<1>6. QED
  BY <1>2, <1>3, <1>5, ReplyMoves, ApprovalTypes DEF ApprovalInv

LEMMA LoadStep ==
  ASSUME A!ApprovalAssumption, ApprovalInv, NEW r \in Processes, A!Load(r)
  PROVE  ApprovalInv'
<1>1. /\ reply[r].pc = "load" /\ ReplyShape(r) /\ ReplySends(r) /\ reply[r] \in Answering
      /\ reply[r].draft \in Drafts /\ ~ mail[r].ok /\ draft[reply[r].draft].body \in 0 .. MaxEdits
  BY ApprovalTypes DEF A!Load, A!At, ApprovalInv, ReplyShape, Early
<1>2. UNCHANGED <<draft, mail, sent, ms>>
  BY DEF A!Load
<1>3. PICK d \in Answering :
        /\ reply' = [reply EXCEPT ![r] = d] /\ d.draft = reply[r].draft /\ d.since = reply[r].since
        /\ \/ d.pc = "failed"
           \/ /\ d.pc = "account" /\ d.body = draft[reply[r].draft].body
              /\ draft[reply[r].draft].status = "pending"
  <2>1. CASE reply' = [reply EXCEPT ![r] = [reply[r] EXCEPT !.pc = "failed"]]
    BY <2>1, Places DEF A!PCs
  <2>2. CASE /\ reply' = [reply EXCEPT ![r] = [reply[r] EXCEPT !.pc = "account",
                                                 !.body = draft[reply[r].draft].body]]
             /\ draft[reply[r].draft].status = "pending"
    <3> DEFINE d == [reply[r] EXCEPT !.pc = "account", !.body = draft[reply[r].draft].body]
    <3>1. /\ d \in Answering /\ d.draft = reply[r].draft /\ d.since = reply[r].since
          /\ d.pc = "account" /\ d.body = draft[reply[r].draft].body
      BY <1>1 DEF Answering, A!PCs
    <3>2. QED
      BY <2>2, <3>1
  <2>3. QED
    BY <2>1, <2>2 DEF A!Load, A!Goto
<1>4. reply'[r] = d
  BY <1>3, ApprovalTypes DEF ApprovalInv
<1>5. (ReplyShape(r) /\ ReplySends(r))'
  BY <1>1, <1>2, <1>3, <1>4 DEF ReplyShape, ReplySends, Early
<1>6. QED
  BY <1>2, <1>3, <1>5, ReplyMoves, ApprovalTypes DEF ApprovalInv

LEMMA SendQueryStep ==
  ASSUME A!ApprovalAssumption, ApprovalInv, NEW r \in Processes,
         A!LoadAccount(r) \/ A!GetCredential(r)
  PROVE  ApprovalInv'
<1>1. /\ reply[r].pc \in {"account", "credential"} /\ ReplyShape(r) /\ ReplySends(r)
      /\ reply[r] \in Answering /\ ~ mail[r].ok /\ UNCHANGED <<draft, mail, sent, ms>>
  <2>1. reply[r].pc = "account" \/ reply[r].pc = "credential"
    BY Zenon DEF A!LoadAccount, A!GetCredential, A!Query, A!At
  <2>2. UNCHANGED <<draft, mail, sent, ms>>
    BY Zenon DEF A!LoadAccount, A!GetCredential, A!Query
  <2>3. ReplyShape(r) /\ ReplySends(r) /\ reply[r] \in Answering
    BY ApprovalTypes DEF ApprovalInv
  <2>4. ~ mail[r].ok
    BY <2>1, <2>3 DEF ReplyShape, Early
  <2>5. QED
    BY <2>1, <2>2, <2>3, <2>4
<1>2. PICK d \in Answering :
        /\ reply' = [reply EXCEPT ![r] = d] /\ d.draft = reply[r].draft /\ d.since = reply[r].since
        /\ d.body = reply[r].body
        /\ \/ d.pc \in {"credential", "smtp"}
           \/ d.pc = (IF reply[r].draft = NoDraft THEN "answered" ELSE "mark") /\ d.error
  <2>1. ASSUME NEW pc \in {"credential", "smtp"}, A!Goto(r, pc)
        PROVE  \E d \in Answering :
                 /\ reply' = [reply EXCEPT ![r] = d] /\ d.draft = reply[r].draft /\ d.since = reply[r].since
                 /\ d.body = reply[r].body /\ d.pc \in {"credential", "smtp"}
    <3>1. reply' = [reply EXCEPT ![r] = [reply[r] EXCEPT !.pc = pc]]
      BY <2>1 DEF A!Goto
    <3>2. pc \in A!PCs
      BY <2>1 DEF A!PCs
    <3>3. QED
      BY <2>1, <3>1, <3>2, Places
  <2>2. CASE A!SendReturns(r, TRUE)
    BY <2>2, SendReturning
  <2>3. A!SendReturns(r, TRUE) \/ A!Goto(r, "credential") \/ A!Goto(r, "smtp")
    BY DEF A!LoadAccount, A!GetCredential, A!Query
  <2>4. QED
    BY <2>1, <2>2, <2>3
<1>3. reply'[r] = d
  BY <1>2, ApprovalTypes DEF ApprovalInv
<1>4. (ReplyShape(r) /\ ReplySends(r))'
  BY <1>1, <1>2, <1>3 DEF ReplyShape, ReplySends, Early, Answering
<1>5. QED
  BY <1>1, <1>2, <1>4, ReplyMoves, ApprovalTypes DEF ApprovalInv

LEMMA SendViaSMTPStep ==
  ASSUME A!ApprovalAssumption, ApprovalInv, NEW r \in Processes, A!SendViaSMTP(r)
  PROVE  ApprovalInv'
<1>1. /\ reply[r].pc = "smtp" /\ ReplyShape(r) /\ ReplySends(r) /\ reply[r] \in Answering
      /\ ~ mail[r].ok /\ UNCHANGED <<draft, sent, ms>>
  BY ApprovalTypes DEF A!SendViaSMTP, A!At, ApprovalInv, ReplyShape, Early
<1>2. PICK accepted, error \in BOOLEAN :
        /\ accepted \/ error
        /\ mail' = [mail EXCEPT ![r] = [ok |-> accepted, body |-> reply[r].body]]
        /\ reply' = [reply EXCEPT ![r].pc = "record", ![r].error = error]
  BY Zenon DEF A!SendViaSMTP
<1>3. PICK d \in Answering :
        /\ reply' = [reply EXCEPT ![r] = d] /\ d.draft = reply[r].draft /\ d.since = reply[r].since
        /\ d.body = reply[r].body /\ d.pc = "record" /\ d.error = error
  <2> DEFINE d == [reply[r] EXCEPT !.pc = "record", !.error = error]
  <2>1. /\ d \in Answering /\ d.draft = reply[r].draft /\ d.since = reply[r].since
        /\ d.body = reply[r].body /\ d.pc = "record" /\ d.error = error
    BY <1>1 DEF Answering, A!PCs
  <2>2. reply' = [reply EXCEPT ![r] = d]
    BY <1>2
  <2>3. QED
    BY <2>1, <2>2
<1>4. [ok |-> accepted, body |-> reply[r].body] \in [ok : BOOLEAN, body : 0 .. MaxEdits]
  BY <1>1 DEF Answering
<1>5. /\ mail' \in [Processes -> [ok : BOOLEAN, body : 0 .. MaxEdits]]
      /\ mail'[r].ok = accepted /\ mail'[r].body = reply[r].body
      /\ \A o \in Processes \ {r} : mail'[o] = mail[o]
  BY <1>2, <1>4, ApprovalTypes DEF ApprovalInv
<1>6. reply'[r] = d
  BY <1>3, ApprovalTypes DEF ApprovalInv
<1>7. ReplyShape(r)'
  BY <1>3, <1>6 DEF ReplyShape, Early
<1>8. ReplySends(r)'
  BY <1>1, <1>2, <1>3, <1>5, <1>6 DEF ReplySends
<1>9. QED
  BY <1>1, <1>3, <1>5, <1>7, <1>8, ReplyMoves, ApprovalTypes DEF ApprovalInv

LEMMA RecordSentStep ==
  ASSUME A!ApprovalAssumption, ApprovalInv, NEW r \in Processes, A!RecordSent(r)
  PROVE  ApprovalInv'
<1>1. /\ reply[r].pc = "record" /\ ReplyShape(r) /\ ReplySends(r) /\ reply[r] \in Answering
      /\ UNCHANGED <<draft, mail, ms>>
  BY ApprovalTypes DEF A!RecordSent, A!At, ApprovalInv
<1>2. CASE A!SendReturns(r, reply[r].error) /\ UNCHANGED sent
  <2>1. PICK d \in Answering :
           /\ reply' = [reply EXCEPT ![r] = d]
           /\ d.pc = IF reply[r].draft = NoDraft THEN "answered" ELSE "mark"
           /\ d.draft = reply[r].draft /\ d.body = reply[r].body /\ d.since = reply[r].since
           /\ d.error = reply[r].error
    <3>1. reply[r].error \in BOOLEAN
      BY <1>1 DEF Answering
    <3>2. QED
      BY <1>2, <3>1, SendReturning
  <2>2. reply'[r] = d
    BY <2>1, ApprovalTypes DEF ApprovalInv
  <2>3. (ReplyShape(r) /\ ReplySends(r))'
    BY <1>1, <1>2, <2>1, <2>2 DEF ReplyShape, ReplySends, Early, Answering
  <2>4. QED
    BY <1>1, <1>2, <2>1, <2>3, ReplyMoves, ApprovalTypes DEF ApprovalInv
<1>3. CASE sent' = [sent EXCEPT ![r].ms = ms] /\ A!Goto(r, "log")
  <2>1. PICK d \in Answering :
           /\ reply' = [reply EXCEPT ![r] = d] /\ d.pc = "log"
           /\ d.draft = reply[r].draft /\ d.body = reply[r].body /\ d.since = reply[r].since
           /\ d.error = reply[r].error
    <3>1. reply' = [reply EXCEPT ![r] = [reply[r] EXCEPT !.pc = "log"]]
      BY <1>3 DEF A!Goto
    <3>2. QED
      BY <3>1, Places DEF A!PCs
  <2>2. reply'[r] = d
    BY <2>1, ApprovalTypes DEF ApprovalInv
  <2>3. /\ sent' \in [Processes -> [ms : 0 .. MaxMs, log : {"none", "sent", "failed"}]]
        /\ sent'[r].ms # 0 /\ sent'[r].log = sent[r].log
        /\ \A o \in Processes \ {r} : sent'[o] = sent[o]
    <3>1. /\ sent \in [Processes -> [ms : 0 .. MaxMs, log : {"none", "sent", "failed"}]]
          /\ ms \in 1 .. MaxMs /\ MaxMs \in Nat
      BY ApprovalTypes DEF ApprovalInv
    <3>2. /\ [sent[r] EXCEPT !.ms = ms] \in [ms : 0 .. MaxMs, log : {"none", "sent", "failed"}]
          /\ [sent[r] EXCEPT !.ms = ms].ms # 0 /\ [sent[r] EXCEPT !.ms = ms].log = sent[r].log
      BY <3>1
    <3>3. sent' = [sent EXCEPT ![r] = [sent[r] EXCEPT !.ms = ms]]
      BY <1>3
    <3>4. QED
      BY <3>1, <3>2, <3>3
  <2>4. (ReplyShape(r) /\ ReplySends(r))'
    BY <1>1, <2>1, <2>2, <2>3 DEF ReplyShape, ReplySends, Early
  <2>5. QED
    BY <1>1, <2>1, <2>3, <2>4, ReplyMoves, ApprovalTypes DEF ApprovalInv
<1>4. QED
  BY <1>2, <1>3 DEF A!RecordSent

LEMMA LogSendStep ==
  ASSUME A!ApprovalAssumption, ApprovalInv, NEW r \in Processes, A!LogSend(r)
  PROVE  ApprovalInv'
<1>1. /\ reply[r].pc = "log" /\ ReplyShape(r) /\ ReplySends(r) /\ reply[r] \in Answering
      /\ UNCHANGED <<draft, mail, ms>> /\ sent[r].ms # 0
  BY ApprovalTypes DEF A!LogSend, A!At, ApprovalInv, ReplySends
<1>2. PICK d \in Answering :
         /\ reply' = [reply EXCEPT ![r] = d]
         /\ d.pc = IF reply[r].draft = NoDraft THEN "answered" ELSE "mark"
         /\ d.draft = reply[r].draft /\ d.body = reply[r].body /\ d.since = reply[r].since
         /\ d.error = reply[r].error
  <2>1. reply[r].error \in BOOLEAN
    BY <1>1 DEF Answering
  <2>2. QED
    BY <2>1, SendReturning DEF A!LogSend
<1>3. reply'[r] = d
  BY <1>2, ApprovalTypes DEF ApprovalInv
<1>4. /\ sent' \in [Processes -> [ms : 0 .. MaxMs, log : {"none", "sent", "failed"}]]
      /\ sent'[r].ms = sent[r].ms
      /\ sent'[r].log \in {sent[r].log, IF reply[r].error THEN "failed" ELSE "sent"}
      /\ \A o \in Processes \ {r} : sent'[o] = sent[o]
  <2>1. sent \in [Processes -> [ms : 0 .. MaxMs, log : {"none", "sent", "failed"}]]
    BY ApprovalTypes DEF ApprovalInv
  <2>2. CASE sent' = sent
    BY <2>1, <2>2
  <2>3. ASSUME NEW log \in {"sent", "failed"}, log = (IF reply[r].error THEN "failed" ELSE "sent"),
               sent' = [sent EXCEPT ![r].log = log]
        PROVE  /\ sent' \in [Processes -> [ms : 0 .. MaxMs, log : {"none", "sent", "failed"}]]
               /\ sent'[r].ms = sent[r].ms /\ sent'[r].log = log
               /\ \A o \in Processes \ {r} : sent'[o] = sent[o]
    <3>1. /\ [sent[r] EXCEPT !.log = log] \in [ms : 0 .. MaxMs, log : {"none", "sent", "failed"}]
          /\ [sent[r] EXCEPT !.log = log].log = log /\ [sent[r] EXCEPT !.log = log].ms = sent[r].ms
      BY <2>1
    <3>2. sent' = [sent EXCEPT ![r] = [sent[r] EXCEPT !.log = log]]
      BY <2>3
    <3>3. QED
      BY <2>1, <3>1, <3>2
  <2>4. QED
    BY <2>2, <2>3 DEF A!LogSend
<1>5. (ReplyShape(r) /\ ReplySends(r))'
  BY <1>1, <1>2, <1>3, <1>4 DEF ReplyShape, ReplySends, Early, Answering
<1>6. QED
  BY <1>1, <1>2, <1>4, <1>5, ReplyMoves, ApprovalTypes DEF ApprovalInv

\* A draft that moves to v: it does not become pending again, comes back, or
\* loses an edit, and is called sent after a request whose mail was accepted.
LEMMA DraftMoves ==
  ASSUME A!ApprovalAssumption, ApprovalInv, NEW x \in Drafts,
         NEW v \in [status : {"pending", "approved", "sent", "deleted"}, body : 0 .. MaxEdits],
         draft' = [draft EXCEPT ![x] = v], UNCHANGED <<mail, sent, ms>>,
         v.status = "pending" => draft[x].status = "pending",
         v.status = "deleted" \/ (draft[x].status # "deleted" /\ v.body >= draft[x].body),
         v.status = "sent" /\ draft[x].status # "sent" =>
           \E o \in Processes : reply[o].draft = x /\ mail[o].ok,
         reply' \in [Processes -> Answering],
         \A o \in Processes : reply'[o].draft = reply[o].draft,
         \A o \in Processes : reply'[o] = reply[o] \/ (ReplyShape(o) /\ ReplySends(o))'
  PROVE  ApprovalInv'
<1>1. /\ draft' \in [Drafts -> [status : {"pending", "approved", "sent", "deleted"}, body : 0 .. MaxEdits]]
      /\ \A y \in Drafts : draft'[y] = IF y = x THEN v ELSE draft[y]
      /\ \A y \in Drafts : draft[y].body \in 0 .. MaxEdits
      /\ MaxEdits \in Nat /\ reply \in [Processes -> Answering]
  BY ApprovalTypes DEF ApprovalInv
<1>2. A!TypeOK'
  BY <1>1, ApprovalTypes DEF ApprovalInv, A!TypeOK, Answering, A!Bodies
<1>3. ASSUME NEW o \in Processes
      PROVE  (ReplyShape(o) /\ ReplySends(o))'
  <2>1. CASE reply'[o] = reply[o]
    <3>1. ReplyShape(o) /\ ReplySends(o)
      BY DEF ApprovalInv
    <3>2. ReplyShape(o)'
      BY <1>1, <2>1, <3>1 DEF ReplyShape
    <3>3. reply[o].pc = "load" => \/ draft'[reply[o].draft].status = "deleted"
                                  \/ draft'[reply[o].draft].body >= reply[o].since
      <4>1. SUFFICES ASSUME reply[o].pc = "load", draft'[reply[o].draft].status # "deleted"
                     PROVE  draft'[reply[o].draft].body >= reply[o].since
        OBVIOUS
      <4>2. reply[o].draft \in Drafts /\ reply[o].since \in 0 .. MaxEdits
        BY <1>1, <3>1, <4>1 DEF ReplyShape, Answering
      <4>3. draft[reply[o].draft].status # "deleted" /\ draft'[reply[o].draft].body >= draft[reply[o].draft].body
        BY <1>1, <4>1, <4>2
      <4>4. draft[reply[o].draft].body >= reply[o].since
        BY <3>1, <4>1, <4>3 DEF ReplySends
      <4>5. draft'[reply[o].draft].body \in 0 .. MaxEdits
        BY <1>1, <4>2
      <4>6. QED
        BY <1>1, <4>2, <4>3, <4>4, <4>5
    <3>4. ReplySends(o)'
      BY <2>1, <3>1, <3>3 DEF ReplySends
    <3>5. QED
      BY <3>2, <3>4
  <2>2. QED
    BY <2>1
<1>4. SentOnRecord'
  BY <1>1 DEF ApprovalInv, SentOnRecord
<1>5. QED
  BY <1>2, <1>3, <1>4 DEF ApprovalInv

LEMMA MarkDraftStep ==
  ASSUME A!ApprovalAssumption, ApprovalInv, NEW r \in Processes, A!Mark(r)
  PROVE  ApprovalInv'
<1>1. /\ reply[r].pc = "mark" /\ ReplyShape(r) /\ ReplySends(r) /\ reply \in [Processes -> Answering]
      /\ UNCHANGED <<mail, sent, ms>> /\ reply[r].draft \in Drafts
      /\ draft[reply[r].draft] \in [status : {"pending", "approved", "sent", "deleted"}, body : 0 .. MaxEdits]
      /\ MaxEdits \in Nat
  BY ApprovalTypes DEF A!Mark, A!At, ApprovalInv, ReplyShape
<1>2. PICK d \in Answering :
        /\ reply' = [reply EXCEPT ![r] = d] /\ d.draft = reply[r].draft /\ d.since = reply[r].since
        /\ d.body = reply[r].body /\ d.error = reply[r].error
        /\ d.pc = IF reply[r].expired THEN "lost" ELSE "marked"
  <2> DEFINE pc == IF reply[r].expired THEN "lost" ELSE "marked"
  <2>1. reply' = [reply EXCEPT ![r] = [reply[r] EXCEPT !.pc = pc]]
    BY DEF A!Mark, A!Goto
  <2>2. pc \in A!PCs
    BY DEF A!PCs
  <2>3. pc = IF reply[r].expired THEN "lost" ELSE "marked"
    OBVIOUS
  <2> HIDE DEF pc
  <2>4. QED
    BY <2>1, <2>2, <2>3, Places
<1>3. reply'[r] = d /\ reply' \in [Processes -> Answering] /\ \A o \in Processes \ {r} : reply'[o] = reply[o]
  BY <1>1, <1>2
<1>4. CASE reply[r].expired
  <2>1. UNCHANGED draft
    BY <1>4 DEF A!Mark
  <2>2. (ReplyShape(r) /\ ReplySends(r))'
    BY <1>1, <1>2, <1>3, <1>4, <2>1 DEF ReplyShape, ReplySends, Early
  <2>3. QED
    BY <1>1, <1>2, <2>1, <2>2, ReplyMoves, ApprovalTypes DEF ApprovalInv
<1>5. CASE ~ reply[r].expired
  <2> DEFINE x == reply[r].draft
             status == IF draft[x].status = "deleted" THEN "deleted"
                       ELSE IF reply[r].error THEN "approved" ELSE "sent"
             v == [draft[x] EXCEPT !.status = status]
  <2>1. /\ v \in [status : {"pending", "approved", "sent", "deleted"}, body : 0 .. MaxEdits]
        /\ v.status = status /\ v.body = draft[x].body
    BY <1>1
  <2>2. draft' = [draft EXCEPT ![x] = v]
    BY <1>5 DEF A!Mark
  <2>3. draft'[x] = v
    BY <1>1, <2>1, <2>2, ApprovalTypes DEF ApprovalInv
  <2>4. (ReplyShape(r) /\ ReplySends(r))'
    BY <1>1, <1>2, <1>3, <1>5, <2>1, <2>3 DEF ReplyShape, ReplySends, Early
  <2>5. v.status = "sent" /\ draft[x].status # "sent" => mail[r].ok
    BY <1>1, <2>1 DEF ReplySends
  <2>6. v.status = "deleted" \/ (draft[x].status # "deleted" /\ v.body >= draft[x].body)
    BY <1>1, <2>1
  <2>7. v.status # "pending"
    BY <2>1
  <2>8. \A o \in Processes : reply'[o].draft = reply[o].draft
    BY <1>2, <1>3
  <2>9. \A o \in Processes : reply'[o] = reply[o] \/ (ReplyShape(o) /\ ReplySends(o))'
    BY <1>3, <2>4
  <2> HIDE DEF x, v
  <2>10. x \in Drafts /\ x = reply[r].draft
    BY <1>1 DEF x
  <2>11. QED
    BY <1>1, <1>3, <2>1, <2>2, <2>5, <2>6, <2>7, <2>8, <2>9, <2>10, DraftMoves
<1>6. QED
  BY <1>4, <1>5

LEMMA UserStep ==
  ASSUME A!ApprovalAssumption, ApprovalInv, NEW x \in Drafts, A!Reject(x) \/ A!UpdateDraft(x)
  PROVE  ApprovalInv'
<1>1. /\ draft[x] \in [status : {"pending", "approved", "sent", "deleted"}, body : 0 .. MaxEdits]
      /\ MaxEdits \in Nat /\ reply \in [Processes -> Answering]
  BY ApprovalTypes DEF ApprovalInv
<1>2. UNCHANGED <<reply, mail, sent, ms>>
  BY Zenon DEF A!Reject, A!UpdateDraft
<1>3. CASE A!Reject(x)
  <2>1. /\ A!Deleted \in [status : {"pending", "approved", "sent", "deleted"}, body : 0 .. MaxEdits]
        /\ A!Deleted.status = "deleted" /\ draft' = [draft EXCEPT ![x] = A!Deleted]
    BY <1>1, <1>3 DEF A!Reject, A!Deleted
  <2>2. QED
    BY <1>1, <1>2, <2>1, DraftMoves
<1>4. CASE A!UpdateDraft(x)
  <2> DEFINE v == [draft[x] EXCEPT !.body = draft[x].body + 1]
  <2>1. /\ v \in [status : {"pending", "approved", "sent", "deleted"}, body : 0 .. MaxEdits]
        /\ v.status = draft[x].status /\ v.body >= draft[x].body
    BY <1>1, <1>4 DEF A!UpdateDraft
  <2>2. draft' = [draft EXCEPT ![x] = v]
    BY <1>4 DEF A!UpdateDraft
  <2>3. v.status = "deleted" \/ draft[x].status # "deleted"
    BY <2>1
  <2> HIDE DEF v
  <2>4. QED
    BY <1>1, <1>2, <2>1, <2>2, <2>3, DraftMoves
<1>5. QED
  BY <1>3, <1>4

LEMMA TickOrCrashStep ==
  ASSUME A!ApprovalAssumption, ApprovalInv, A!Tick \/ A!Crash
  PROVE  ApprovalInv'
<1>1. CASE A!Tick
  <2>1. UNCHANGED <<draft, reply, mail, sent>> /\ ms' \in 1 .. MaxMs
    BY <1>1, ApprovalTypes DEF A!Tick, ApprovalInv
  <2>2. A!TypeOK'
    BY <2>1 DEF ApprovalInv, A!TypeOK
  <2>3. QED
    BY <2>1, <2>2 DEF ApprovalInv, ReplyShape, ReplySends, SentOnRecord
<1>2. CASE A!Crash
  <2>1. /\ UNCHANGED <<draft, mail, sent, ms>>
        /\ reply' = [r \in Processes |-> IF A!InFlight(r) THEN [reply[r] EXCEPT !.pc = "lost"]
                                                          ELSE reply[r]]
    BY <1>2 DEF A!Crash
  <2>2. ASSUME NEW r \in Processes
        PROVE  /\ reply'[r] \in Answering /\ reply'[r].draft = reply[r].draft
               /\ (ReplyShape(r) /\ ReplySends(r))'
    <3>1. ReplyShape(r) /\ ReplySends(r) /\ reply[r] \in Answering
      BY ApprovalTypes DEF ApprovalInv
    <3>2. CASE reply'[r] = [reply[r] EXCEPT !.pc = "lost"]
      <4>1. PICK d \in Answering : reply'[r] = d /\ d.pc = "lost" /\ d.draft = reply[r].draft
                                   /\ d.since = reply[r].since
        BY <3>2, Places DEF A!PCs
      <4>2. QED
        BY <2>1, <3>1, <4>1 DEF ReplyShape, ReplySends, Early
    <3>3. CASE reply'[r] = reply[r]
      BY <2>1, <3>1, <3>3 DEF ReplyShape, ReplySends
    <3>4. QED
      BY <2>1, <3>2, <3>3
  <2>3. reply' \in [Processes -> Answering]
    BY <2>1, <2>2
  <2>4. A!TypeOK'
    BY <2>1, <2>3 DEF ApprovalInv, A!TypeOK, Answering, A!Bodies
  <2>5. SentOnRecord'
    BY <2>1, <2>2 DEF ApprovalInv, SentOnRecord
  <2>6. QED
    BY <2>2, <2>4, <2>5 DEF ApprovalInv
<1>3. QED
  BY <1>1, <1>2

LEMMA ApprovalStep ==
  ASSUME A!ApprovalAssumption, ApprovalInv, [A!Next]_approval
  PROVE  ApprovalInv'
<1>1. ASSUME NEW r \in Processes, A!Handle(r)
      PROVE  ApprovalInv'
  <2>1. CASE A!Load(r)
    BY <2>1, LoadStep
  <2>2. CASE A!LoadAccount(r) \/ A!GetCredential(r)
    BY <2>2, SendQueryStep
  <2>3. CASE A!SendViaSMTP(r)
    BY <2>3, SendViaSMTPStep
  <2>4. CASE A!RecordSent(r)
    BY <2>4, RecordSentStep
  <2>5. CASE A!LogSend(r)
    BY <2>5, LogSendStep
  <2>6. CASE A!Mark(r)
    BY <2>6, MarkDraftStep
  <2>7. QED
    BY <1>1, <2>1, <2>2, <2>3, <2>4, <2>5, <2>6, Zenon DEF A!Handle, A!HandleButSend
<1>2. ASSUME NEW r \in Processes, A!Compose(r)
      PROVE  ApprovalInv'
  BY <1>2, ComposeStep
<1>3. ASSUME NEW r \in Processes, A!Expire(r)
      PROVE  ApprovalInv'
  BY <1>3, ExpireStep
<1>4. ASSUME NEW r \in Processes, NEW d \in Drafts, A!Approve(r, d)
      PROVE  ApprovalInv'
  BY <1>4, ApproveStep
<1>5. ASSUME NEW d \in Drafts, A!Reject(d) \/ A!UpdateDraft(d)
      PROVE  ApprovalInv'
  BY <1>5, UserStep
<1>6. CASE A!Tick \/ A!Crash
  BY <1>6, TickOrCrashStep
<1>7. CASE UNCHANGED approval
  BY <1>7 DEF approval, ApprovalInv, A!TypeOK, ReplyShape, ReplySends, SentOnRecord
<1>8. QED
  BY <1>1, <1>2, <1>3, <1>4, <1>5, <1>6, <1>7, Zenon DEF A!Next

\* A step of a request changes that request only.
LEMMA RequestAlone ==
  ASSUME NEW o \in Processes, A!Compose(o) \/ A!Handle(o) \/ A!Expire(o) \/ \E d \in Drafts : A!Approve(o, d)
  PROVE  \E e : reply' = [reply EXCEPT ![o] = e]
<1>1. ASSUME NEW pc, A!Goto(o, pc)
      PROVE  \E e : reply' = [reply EXCEPT ![o] = e]
  <2>1. reply' = [reply EXCEPT ![o] = [reply[o] EXCEPT !.pc = pc]]
    BY <1>1 DEF A!Goto
  <2>2. QED
    BY <2>1
<1>2. ASSUME NEW error, A!SendReturns(o, error)
      PROVE  \E e : reply' = [reply EXCEPT ![o] = e]
  <2>1. reply' = [reply EXCEPT ![o] = [reply[o] EXCEPT
                    !.pc = IF reply[o].draft = NoDraft THEN "answered" ELSE "mark", !.error = error]]
    BY <1>2 DEF A!SendReturns
  <2>2. QED
    BY <2>1
<1>3. CASE A!Compose(o)
  BY <1>1, <1>3, Zenon DEF A!Compose
<1>4. CASE A!Load(o)
  <2>1. CASE reply' = [reply EXCEPT ![o].pc = "account", ![o].body = draft[reply[o].draft].body]
    <3>1. reply' = [reply EXCEPT ![o] = [reply[o] EXCEPT !.pc = "account", !.body = draft[reply[o].draft].body]]
      BY <2>1
    <3>2. QED
      BY <3>1
  <2>2. QED
    BY <1>1, <1>4, <2>1, Zenon DEF A!Load
<1>5. CASE A!LoadAccount(o)
  BY <1>1, <1>2, <1>5, Zenon DEF A!LoadAccount, A!Query
<1>6. CASE A!GetCredential(o)
  BY <1>1, <1>2, <1>6, Zenon DEF A!GetCredential, A!Query
<1>7. CASE A!SendViaSMTP(o)
  <2>1. PICK error : reply' = [reply EXCEPT ![o].pc = "record", ![o].error = error]
    BY <1>7 DEF A!SendViaSMTP
  <2>2. reply' = [reply EXCEPT ![o] = [reply[o] EXCEPT !.pc = "record", !.error = error]]
    BY <2>1
  <2>3. QED
    BY <2>2
<1>8. CASE A!RecordSent(o)
  BY <1>1, <1>2, <1>8, Zenon DEF A!RecordSent
<1>9. CASE A!LogSend(o)
  BY <1>2, <1>9, Zenon DEF A!LogSend
<1>10. CASE A!Mark(o)
  BY <1>1, <1>10, Zenon DEF A!Mark
<1>11. CASE A!Expire(o)
  <2>1. reply' = [reply EXCEPT ![o] = [reply[o] EXCEPT !.expired = TRUE]]
    BY <1>11 DEF A!Expire
  <2>2. QED
    BY <2>1
<1>12. CASE \E d \in Drafts : A!Approve(o, d)
  <2>1. PICK d \in Drafts : A!Approve(o, d)
    BY <1>12
  <2> DEFINE e == [A!Idle EXCEPT !.pc = "load", !.draft = d, !.since = draft[d].body]
  <2>2. reply' = [reply EXCEPT ![o] = e]
    BY <2>1 DEF A!Approve
  <2> HIDE DEF e
  <2>3. QED
    BY <2>2
<1>13. QED
  BY <1>3, <1>4, <1>5, <1>6, <1>7, <1>8, <1>9, <1>10, <1>11, <1>12, Zenon DEF A!Handle, A!HandleButSend

\* A request that begins to send has read its draft as pending.
LEMMA DecidedStays ==
  ASSUME A!ApprovalAssumption, ApprovalInv, [A!Next]_approval, NEW r \in Processes,
         A!At(r, "load"), reply'[r].pc = "account"
  PROVE  ~ \E o \in A!Of(reply[r].draft) : A!At(o, "marked")
<1>1. reply \in [Processes -> Answering] /\ reply[r].pc = "load"
  BY ApprovalTypes DEF ApprovalInv, A!At
<1>2. ~ UNCHANGED reply
  BY <1>1
<1>3. PICK o \in Processes : A!Compose(o) \/ A!Handle(o) \/ A!Expire(o) \/ \E d \in Drafts : A!Approve(o, d)
  <2>1. ~ UNCHANGED approval
    BY <1>2 DEF approval
  <2>2. ASSUME NEW d \in Drafts
        PROVE  ~ (A!Reject(d) \/ A!UpdateDraft(d))
    BY <1>2, Zenon DEF A!Reject, A!UpdateDraft
  <2>3. ~ A!Tick
    BY <1>2, Zenon DEF A!Tick
  <2>4. ~ A!Crash
    <3>1. ASSUME A!Crash
          PROVE  FALSE
      <4>1. reply'[r] = IF A!InFlight(r) THEN [reply[r] EXCEPT !.pc = "lost"] ELSE reply[r]
        BY <3>1 DEF A!Crash
      <4>2. reply[r] \in Answering
        BY <1>1
      <4>3. [reply[r] EXCEPT !.pc = "lost"].pc = "lost"
        BY <4>2 DEF Answering
      <4>4. QED
        BY <1>1, <4>1, <4>3
    <3>2. QED
      BY <3>1
  <2>5. QED
    BY <2>1, <2>2, <2>3, <2>4, Zenon DEF A!Next
<1>4. PICK e : reply' = [reply EXCEPT ![o] = e]
  BY <1>3, RequestAlone, Zenon
<1>5. o = r
  BY <1>1, <1>4
<1>6. A!Load(r)
  <2>1. A!At(r, "load")
    OBVIOUS
  <2>2. ~ A!Compose(r) /\ ~ \E d \in Drafts : A!Approve(r, d)
    BY <1>1 DEF A!Compose, A!Approve, A!At
  <2>3. /\ ~ A!LoadAccount(r) /\ ~ A!GetCredential(r) /\ ~ A!SendViaSMTP(r)
        /\ ~ A!RecordSent(r) /\ ~ A!LogSend(r) /\ ~ A!Mark(r)
    BY <1>1 DEF A!LoadAccount, A!GetCredential, A!Query, A!SendViaSMTP, A!RecordSent, A!LogSend, A!Mark, A!At
  <2>4. ~ A!Expire(r)
    <3>1. ASSUME A!Expire(r)
          PROVE  FALSE
      <4>1. reply[r] \in Answering
        BY <1>1
      <4>2. [reply[r] EXCEPT !.expired = TRUE].pc = "load"
        BY <1>1, <4>1 DEF Answering
      <4>3. reply' = [reply EXCEPT ![r] = [reply[r] EXCEPT !.expired = TRUE]]
        BY <3>1 DEF A!Expire
      <4>4. QED
        BY <1>1, <4>2, <4>3
    <3>2. QED
      BY <3>1
  <2>5. QED
    BY <1>3, <1>5, <2>2, <2>3, <2>4, Zenon DEF A!Handle, A!HandleButSend
<1>7. draft[reply[r].draft].status = "pending"
  <2>1. CASE A!Goto(r, "failed")
    <3>1. reply[r] \in Answering
      BY <1>1
    <3>2. [reply[r] EXCEPT !.pc = "failed"].pc = "failed"
      BY <3>1 DEF Answering
    <3>3. reply' = [reply EXCEPT ![r] = [reply[r] EXCEPT !.pc = "failed"]]
      BY <2>1 DEF A!Goto
    <3>4. QED
      BY <1>1, <3>2, <3>3
  <2>2. QED
    BY <1>6, <2>1, Zenon DEF A!Load
<1>8. QED
  BY <1>7 DEF ApprovalInv, ReplyShape, A!Of, A!At

\* DraftApproval: what is mailed, recorded and offered agrees with what the
\* user decided, for any requests on any drafts, whichever of them expire or
\* die with the process (send_handlers.go:133-213).
THEOREM MailedAsDecided ==
  ASSUME A!ApprovalAssumption
  PROVE  Spec => SentAsDecided
<1>1. Init => ApprovalInv
  BY ApprovalInit DEF Init
<1>2. [Next]_vars => [A!Next]_approval
  BY DEF Next, vars, approval
<1>3. ApprovalInv /\ [Next]_vars => ApprovalInv'
  BY <1>2, ApprovalStep
<1>4. ApprovalInv => A!TypeOK /\ A!OfferedIsUnsent /\ A!MailHasTheEdits /\ A!SentWasAccepted
  BY ApprovalKeeps
<1>5. ApprovalInv /\ [Next]_vars =>
        [\A r \in Processes : A!At(r, "load") /\ reply'[r].pc = "account" =>
           ~ \E o \in A!Of(reply[r].draft) : A!At(o, "marked")]_approval
  BY <1>2, DecidedStays
<1>6. QED
  BY <1>1, <1>3, <1>4, <1>5, PTL DEF Spec, SentAsDecided, A!SentAsDecided, A!DecidedOnce, A!vars, approval
-------------------------------------------------------------------------------
(* Conflicts.  The scan goes through the events in the order of their       *)
(* starts: that there is such an order is shown with a least set that has   *)
(* none.                                                                    *)

LEMMA LeastOne ==
  ASSUME NEW Numbers \in SUBSET Nat, Numbers # {}
  PROVE  \E m \in Numbers : \A n \in Numbers : m <= n
<1> DEFINE Below == OpToRel(<, Nat)
<1>1. IsWellFoundedOn(Below, Nat)
  BY NatLessThanWellFounded
<1>2. \A x, y \in Nat : y < x => <<y, x>> \in Below
  BY DEF OpToRel
<1> HIDE DEF Below
<1>3. PICK m \in Numbers : \A n \in Numbers : ~ (<<n, m>> \in Below)
  BY <1>1, WFMin
<1>4. ASSUME NEW n \in Numbers PROVE m <= n
  <2>1. m \in Nat /\ n \in Nat
    OBVIOUS
  <2>2. ~ (n < m)
    BY <1>2, <1>3, <2>1
  <2>3. QED
    BY <2>1, <2>2
<1>5. QED
  BY <1>4

\* s goes through the events once, earlier starts first.
InOrder(s, at, events) ==
  /\ s \in [1 .. Cardinality(events) -> events]
  /\ \A i, j \in 1 .. Cardinality(events) : i # j => s[i] # s[j]
  /\ \A i, j \in 1 .. Cardinality(events) : i < j => at[s[i]].start <= at[s[j]].start

LEMMA OrderExists ==
  ASSUME NEW events, IsFiniteSet(events), NEW at, \A e \in events : at[e].start \in Nat
  PROVE  \E s : InOrder(s, at, events)
<1> DEFINE Less == StrictSubsetOrdering(events)
           Sets == FiniteSubsetsOf(events)
           Bad == {set \in Sets : ~ \E s : InOrder(s, at, set)}
<1>1. IsWellFoundedOn(Less, Sets)
  BY FS_StrictSubsetOrderingWellFounded
<1>2. Bad \subseteq Sets
  OBVIOUS
<1>3. events \in Sets
  BY DEF FiniteSubsetsOf
<1>4. \A set \in Sets : set \subseteq events /\ IsFiniteSet(set)
  BY DEF FiniteSubsetsOf
<1>5. \A set, sub \in Sets : sub \subseteq set /\ sub # set => <<sub, set>> \in Less
  BY <1>4 DEF StrictSubsetOrdering
<1>6. \A set \in Sets : \A sub \in SUBSET set : sub \in Sets
  BY <1>4, FS_Subset DEF FiniteSubsetsOf
<1>7. \A set \in Sets : set \in Bad <=> ~ \E s : InOrder(s, at, set)
  OBVIOUS
<1> HIDE DEF Less, Sets, Bad
<1>8. SUFFICES ASSUME Bad # {} PROVE FALSE
  BY <1>3, <1>7
<1>9. PICK set \in Bad : \A sub \in Bad : ~ (<<sub, set>> \in Less)
  BY <1>1, <1>2, <1>8, WFMin
<1>10. set \in Sets /\ set \subseteq events /\ IsFiniteSet(set) /\ Cardinality(set) \in Nat
  BY <1>2, <1>4, <1>9, FS_CardinalityType
<1>11. CASE set = {}
  <2>1. Cardinality(set) = 0
    BY <1>11, FS_EmptySet
  <2>2. InOrder([i \in {} |-> 0], at, set)
    BY <2>1 DEF InOrder
  <2>3. QED
    BY <1>7, <1>9, <1>10, <2>2
<1>12. CASE set # {}
  <2>1. PICK x \in set : \A y \in set : at[x].start <= at[y].start
    <3>1. {at[y].start : y \in set} \in SUBSET Nat /\ {at[y].start : y \in set} # {}
      BY <1>10, <1>12
    <3>2. PICK m \in {at[y].start : y \in set} : \A n \in {at[y].start : y \in set} : m <= n
      BY <3>1, LeastOne
    <3>3. QED
      BY <3>2
  <2>2. /\ set \ {x} \in Sets /\ Cardinality(set \ {x}) = Cardinality(set) - 1
        /\ <<set \ {x}, set>> \in Less
    BY <1>5, <1>6, <1>10, <2>1, FS_RemoveElement
  <2>3. PICK t : InOrder(t, at, set \ {x})
    BY <1>7, <1>9, <2>2
  <2> DEFINE n == Cardinality(set)
             s == [i \in 1 .. n |-> IF i = 1 THEN x ELSE t[i - 1]]
  <2>4. n \in Nat /\ n # 0
    BY <1>10, <1>12, FS_EmptySet
  <2>5. /\ t \in [1 .. n - 1 -> set \ {x}]
        /\ \A i, j \in 1 .. n - 1 : i # j => t[i] # t[j]
        /\ \A i, j \in 1 .. n - 1 : i < j => at[t[i]].start <= at[t[j]].start
    BY <2>2, <2>3 DEF InOrder
  <2>6. s = [i \in 1 .. n |-> IF i = 1 THEN x ELSE t[i - 1]]
    OBVIOUS
  <2>7. n = Cardinality(set)
    OBVIOUS
  <2> HIDE DEF n, s
  <2>8. ASSUME NEW i \in 1 .. n
        PROVE  /\ i # 1 => i - 1 \in 1 .. n - 1 /\ s[i] = t[i - 1] /\ s[i] \in set \ {x}
               /\ i = 1 => s[i] = x
    BY <2>4, <2>5, <2>6
  <2>9. s \in [1 .. n -> set]
    BY <2>1, <2>6, <2>8
  <2>10. ASSUME NEW i \in 1 .. n, NEW j \in 1 .. n, i # j PROVE s[i] # s[j]
    <3>1. CASE i = 1 \/ j = 1
      BY <2>8, <2>10, <3>1
    <3>2. CASE i # 1 /\ j # 1
      <4>1. i - 1 \in 1 .. n - 1 /\ j - 1 \in 1 .. n - 1 /\ i - 1 # j - 1
        BY <2>4, <2>8, <2>10, <3>2
      <4>2. QED
        BY <2>5, <2>8, <3>2, <4>1
    <3>3. QED
      BY <3>1, <3>2
  <2>11. ASSUME NEW i \in 1 .. n, NEW j \in 1 .. n, i < j PROVE at[s[i]].start <= at[s[j]].start
    <3>1. j # 1
      BY <2>4, <2>11
    <3>2. CASE i = 1
      BY <2>1, <2>8, <3>1, <3>2
    <3>3. CASE i # 1
      <4>1. i - 1 \in 1 .. n - 1 /\ j - 1 \in 1 .. n - 1 /\ i - 1 < j - 1
        BY <2>4, <2>8, <2>11, <3>1, <3>3
      <4>2. QED
        BY <2>5, <2>8, <3>1, <3>3, <4>1
    <3>4. QED
      BY <3>2, <3>3
  <2>12. InOrder(s, at, set)
    BY <2>7, <2>9, <2>10, <2>11 DEF InOrder
  <2>13. QED
    BY <1>7, <1>9, <1>10, <2>12
<1>13. QED
  BY <1>11, <1>12

\* The order the scan has, and that no event is left out of it.
LEMMA SortedInOrder ==
  ASSUME NEW events, IsFiniteSet(events), NEW at, \A e \in events : at[e].start \in Nat
  PROVE  /\ InOrder(T!Sorted(at, events), at, events)
         /\ \A e \in events : \E i \in 1 .. Cardinality(events) : T!Sorted(at, events)[i] = e
<1> DEFINE n == Cardinality(events)
           s == T!Sorted(at, events)
<1>1. T!Cardinality(events) = n
  BY Zenon DEF T!Cardinality, Cardinality
<1>2. PICK t : InOrder(t, at, events)
  BY OrderExists
<1>3. t \in [1 .. n -> events] /\ DOMAIN t = 1 .. n
  BY <1>2 DEF InOrder
<1>4. /\ \A i, j \in DOMAIN t : i # j => t[i] # t[j]
      /\ \A i, j \in DOMAIN t : i < j => at[t[i]].start <= at[t[j]].start
  BY <1>2, <1>3 DEF InOrder
<1>5. /\ s \in [1 .. n -> events]
      /\ \A i, j \in DOMAIN s : i # j => s[i] # s[j]
      /\ \A i, j \in DOMAIN s : i < j => at[s[i]].start <= at[s[j]].start
  BY <1>1, <1>3, <1>4, Zenon DEF T!Sorted
<1>6. DOMAIN s = 1 .. n
  BY <1>5
<1>7. InOrder(s, at, events)
  BY <1>5, <1>6 DEF InOrder
<1>8. n \in Nat /\ n = Cardinality(events)
  BY FS_CardinalityType
<1> HIDE DEF n, s
<1>9. IsFiniteSet(1 .. n) /\ Cardinality(1 .. n) = n
  BY <1>8, FS_Interval
<1>10. s \in Injection(1 .. n, events)
  <2>1. \A i, j \in 1 .. n : s[i] = s[j] => i = j
    BY <1>5, <1>6
  <2>2. QED
    BY <1>5, <2>1 DEF Injection, IsInjective
<1>11. s \in Surjection(1 .. n, events)
  BY <1>8, <1>9, <1>10, FS_Injection
<1>12. \A e \in events : \E i \in 1 .. n : s[i] = e
  BY <1>11 DEF Surjection
<1>13. QED
  BY <1>7, <1>8, <1>12 DEF s

\* Two events with less than gap between them.
NearBy(at, a, b, gap) ==
  /\ ~at[a].allDay /\ ~at[b].allDay
  /\ at[a].start < at[b].end + gap /\ at[b].start < at[a].end + gap

\* Events with the times that events have.
TimesOf(at, events) ==
  \A e \in events : /\ at[e].start \in Nat /\ at[e].end \in Nat /\ at[e].start < at[e].end
                    /\ at[e].allDay \in BOOLEAN

\* The pairs that DetectConflicts finds are those that are near, each once, and
\* those are hard that overlap.
PairsExact(found, at, events, gap) ==
  /\ \A pair \in found :
       /\ pair \in [a : events, b : events, type : {"hard", "soft"}]
       /\ pair.a # pair.b /\ NearBy(at, pair.a, pair.b, gap)
       /\ pair.type = "hard" => NearBy(at, pair.a, pair.b, 0)
  /\ \A a, b \in events : a # b /\ NearBy(at, a, b, gap) =>
       \E pair \in found :
         /\ {pair.a, pair.b} = {a, b}
         /\ NearBy(at, a, b, 0) => pair.type = "hard"
LEMMA PairsFound ==
  ASSUME NEW events, IsFiniteSet(events), NEW at, TimesOf(at, events), NEW gap \in Nat
  PROVE  PairsExact(T!PairConflicts(at, events, gap), at, events, gap)
<1> DEFINE n == Cardinality(events)
           s == T!Sorted(at, events)
           pairs == {p \in (DOMAIN s) \X (DOMAIN s) :
                      /\ p[1] < p[2] /\ T!Scanned(at, s, p[1], p[2], gap)
                      /\ ~at[s[p[1]]].allDay /\ ~at[s[p[2]]].allDay}
           Row(p) == [a |-> s[p[1]], b |-> s[p[2]],
                      type |-> IF at[s[p[2]]].start < at[s[p[1]]].end THEN "hard" ELSE "soft"]
<1>1. n \in Nat
  BY FS_CardinalityType
<1>2. /\ \A e \in events : at[e].start \in Nat /\ at[e].end \in Nat /\ at[e].start < at[e].end
      /\ \A e \in events : at[e].allDay \in BOOLEAN
  BY DEF TimesOf
<1>3. /\ s \in [1 .. n -> events]
      /\ \A i, j \in 1 .. n : i # j => s[i] # s[j]
      /\ \A i, j \in 1 .. n : i < j => at[s[i]].start <= at[s[j]].start
      /\ \A e \in events : \E i \in 1 .. n : s[i] = e
  <2>1. /\ InOrder(s, at, events)
        /\ \A e \in events : \E i \in 1 .. n : s[i] = e
    <3>1. \A e \in events : at[e].start \in Nat
      BY <1>2
    <3>2. QED
      BY <3>1, SortedInOrder
  <2>2. QED
    BY <2>1, Zenon DEF InOrder
<1>4. DOMAIN s = 1 .. n
  BY <1>3
<1>5. T!PairConflicts(at, events, gap) = {Row(p) : p \in pairs}
  BY Zenon DEF T!PairConflicts
<1>6. \A i, j, k : T!Scanned(at, s, i, j, gap) <=> \A m \in i + 1 .. j : at[s[m]].start < at[s[i]].end + gap
  BY DEF T!Scanned
<1>7. \A i, j \in 1 .. n : <<i, j>> \in pairs <=>
        /\ i < j /\ T!Scanned(at, s, i, j, gap)
        /\ ~at[s[i]].allDay /\ ~at[s[j]].allDay
  BY <1>4
<1>8. \A p \in pairs : \E i, j \in 1 .. n : p = <<i, j>>
  BY <1>4
<1>9. \A pair : pair \in T!PairConflicts(at, events, gap) <=>
        \E i, j \in 1 .. n : /\ <<i, j>> \in pairs
                             /\ pair = [a |-> s[i], b |-> s[j],
                                        type |-> IF at[s[j]].start < at[s[i]].end THEN "hard" ELSE "soft"]
  <2>1. \A i, j : Row(<<i, j>>) = [a |-> s[i], b |-> s[j],
                                    type |-> IF at[s[j]].start < at[s[i]].end THEN "hard" ELSE "soft"]
    OBVIOUS
  <2> HIDE DEF n, s, pairs, Row
  <2>2. \A pair : pair \in T!PairConflicts(at, events, gap) <=> \E p \in pairs : pair = Row(p)
    BY <1>5, Zenon
  <2>3. ASSUME NEW pair \in T!PairConflicts(at, events, gap)
        PROVE  \E i, j \in 1 .. n : /\ <<i, j>> \in pairs
                                    /\ pair = [a |-> s[i], b |-> s[j],
                                               type |-> IF at[s[j]].start < at[s[i]].end THEN "hard" ELSE "soft"]
    <3>1. PICK p \in pairs : pair = Row(p)
      BY <2>2
    <3>2. PICK i, j \in 1 .. n : p = <<i, j>>
      BY <1>8, <3>1
    <3>3. pair = [a |-> s[i], b |-> s[j],
                  type |-> IF at[s[j]].start < at[s[i]].end THEN "hard" ELSE "soft"]
      BY <2>1, <3>1, <3>2, Zenon
    <3>4. QED
      BY <3>1, <3>2, <3>3, Zenon
  <2>4. ASSUME NEW pair, NEW i \in 1 .. n, NEW j \in 1 .. n, <<i, j>> \in pairs,
               pair = [a |-> s[i], b |-> s[j],
                       type |-> IF at[s[j]].start < at[s[i]].end THEN "hard" ELSE "soft"]
        PROVE  pair \in T!PairConflicts(at, events, gap)
    BY <2>1, <2>2, <2>4, Zenon
  <2>5. QED
    BY <2>3, <2>4, Zenon
<1> HIDE DEF n, s, pairs, Row
<1>10. ASSUME NEW pair \in T!PairConflicts(at, events, gap)
       PROVE  /\ pair \in [a : events, b : events, type : {"hard", "soft"}]
              /\ pair.a # pair.b /\ NearBy(at, pair.a, pair.b, gap)
              /\ pair.type = "hard" => NearBy(at, pair.a, pair.b, 0)
  <2>1. PICK i \in 1 .. n, j \in 1 .. n :
          /\ <<i, j>> \in pairs
          /\ pair = [a |-> s[i], b |-> s[j],
                     type |-> IF at[s[j]].start < at[s[i]].end THEN "hard" ELSE "soft"]
    BY <1>9, Zenon
  <2>2. /\ i < j /\ T!Scanned(at, s, i, j, gap) /\ ~at[s[i]].allDay /\ ~at[s[j]].allDay
    BY <1>7, <2>1
  <2>3. s[i] \in events /\ s[j] \in events /\ s[i] # s[j] /\ at[s[i]].start <= at[s[j]].start
    BY <1>1, <1>3, <2>2
  <2>4. j \in i + 1 .. j
    BY <1>1, <2>2
  <2>5. at[s[j]].start < at[s[i]].end + gap
    BY <1>6, <2>2, <2>4
  <2>6. /\ at[s[i]].start \in Nat /\ at[s[i]].end \in Nat /\ at[s[j]].start \in Nat /\ at[s[j]].end \in Nat
        /\ at[s[j]].start < at[s[j]].end
    BY <1>2, <2>3
  <2>7. at[s[i]].start < at[s[j]].end /\ at[s[i]].start < at[s[j]].end + gap
    BY <2>3, <2>6
  <2>8. pair.a = s[i] /\ pair.b = s[j] /\ pair.type = IF at[s[j]].start < at[s[i]].end THEN "hard" ELSE "soft"
    BY <2>1
  <2>9. pair \in [a : events, b : events, type : {"hard", "soft"}]
    BY <2>1, <2>3
  <2>10. NearBy(at, pair.a, pair.b, gap)
    BY <2>2, <2>5, <2>7, <2>8 DEF NearBy
  <2>11. pair.type = "hard" => NearBy(at, pair.a, pair.b, 0)
    <3>1. ASSUME pair.type = "hard" PROVE NearBy(at, pair.a, pair.b, 0)
      <4>1. at[s[j]].start < at[s[i]].end
        BY <2>8, <3>1
      <4>2. at[s[j]].start < at[s[i]].end + 0 /\ at[s[i]].start < at[s[j]].end + 0
        BY <2>6, <2>7, <4>1
      <4>3. QED
        BY <2>2, <2>8, <4>2 DEF NearBy
    <3>2. QED
      BY <3>1
  <2>12. QED
    BY <2>3, <2>8, <2>9, <2>10, <2>11
<1>11. ASSUME NEW i \in 1 .. n, NEW j \in 1 .. n, i < j, NearBy(at, s[i], s[j], gap)
       PROVE  \E pair \in T!PairConflicts(at, events, gap) :
                /\ {pair.a, pair.b} = {s[i], s[j]}
                /\ NearBy(at, s[i], s[j], 0) => pair.type = "hard"
  <2>1. s[i] \in events /\ s[j] \in events
    BY <1>3
  <2>2. at[s[i]].end \in Nat /\ at[s[j]].start \in Nat
    BY <1>2, <2>1
  <2>3. ASSUME NEW m \in i + 1 .. j PROVE at[s[m]].start < at[s[i]].end + gap
    <3>1. m \in 1 .. n /\ (m = j \/ m < j)
      BY <1>1, <2>3
    <3>2. at[s[m]].start <= at[s[j]].start /\ at[s[m]].start \in Nat
      BY <1>2, <1>3, <2>2, <3>1
    <3>3. at[s[j]].start < at[s[i]].end + gap
      BY <1>11 DEF NearBy
    <3>4. QED
      BY <2>2, <3>2, <3>3
  <2>4. <<i, j>> \in pairs
    BY <1>6, <1>7, <1>11, <2>3 DEF NearBy
  <2>5. PICK pair : pair = [a |-> s[i], b |-> s[j],
                            type |-> IF at[s[j]].start < at[s[i]].end THEN "hard" ELSE "soft"]
    OBVIOUS
  <2>6. pair \in T!PairConflicts(at, events, gap)
    BY <1>9, <2>4, <2>5, Zenon
  <2>7. pair.a = s[i] /\ pair.b = s[j] /\ (at[s[j]].start < at[s[i]].end => pair.type = "hard")
    BY <2>5
  <2>8. NearBy(at, s[i], s[j], 0) => at[s[j]].start < at[s[i]].end
    BY <2>2 DEF NearBy
  <2>9. QED
    BY <2>6, <2>7, <2>8
<1>12. ASSUME NEW a \in events, NEW b \in events, a # b, NearBy(at, a, b, gap)
       PROVE  \E pair \in T!PairConflicts(at, events, gap) :
                /\ {pair.a, pair.b} = {a, b}
                /\ NearBy(at, a, b, 0) => pair.type = "hard"
  <2>1. PICK i \in 1 .. n, j \in 1 .. n : s[i] = a /\ s[j] = b
    BY <1>3
  <2>2. i # j /\ (i < j \/ j < i)
    BY <1>1, <1>12, <2>1
  <2>3. NearBy(at, b, a, gap) /\ (NearBy(at, a, b, 0) <=> NearBy(at, b, a, 0))
    BY <1>12 DEF NearBy
  <2>4. CASE i < j
    BY <1>11, <1>12, <2>1, <2>4
  <2>5. CASE j < i
    <3>1. PICK pair \in T!PairConflicts(at, events, gap) :
            /\ {pair.a, pair.b} = {b, a}
            /\ NearBy(at, b, a, 0) => pair.type = "hard"
      BY <1>11, <2>1, <2>3, <2>5
    <3>2. {b, a} = {a, b}
      OBVIOUS
    <3>3. QED
      BY <2>3, <3>1, <3>2
  <2>6. QED
    BY <2>2, <2>4, <2>5
<1>13. QED
  BY <1>10, <1>12, Zenon DEF PairsExact
-------------------------------------------------------------------------------
(* The table of conflicts.                                                  *)

Check == [pc : {"idle", "prefs", "delete", "commit", "done"}, range : Ranges,
          read : UNION {[set -> Times] : set \in SUBSET Events}, defaults : BOOLEAN,
          found : SUBSET T!Rows, doubled : BOOLEAN, gone : SUBSET T!Rows,
          quiet : BOOLEAN, failed : BOOLEAN]

\* What is stored as hard or soft is of two events.
TwoEvents(pairs) == \A pair \in pairs : pair.type # "preference" => pair.a # pair.b

\* The preferences a check goes by.
Known(d, preferred) == IF d.defaults THEN Default ELSE preferred

\* A check that nothing disturbed has events of its range, the conflicts among
\* them, and will delete what is stored about the range.
CheckOK(d, at, preferred, stored) ==
  /\ TwoEvents(d.found)
  /\ d.quiet =>
       /\ d.pc \in {"prefs", "delete", "commit"} =>
            /\ DOMAIN d.read \subseteq T!InRange(at, d.range.start, d.range.end)
            /\ \A e \in DOMAIN d.read : d.read[e] = at[e]
       /\ d.pc \in {"delete", "commit"} =>
            d.found = T!PairConflicts(d.read, DOMAIN d.read, Known(d, preferred).buffer)
                        \cup T!PreferenceRows(d.read, Known(d, preferred))
       /\ d.pc = "commit" =>
            d.gone = {pair \in stored : pair.a \in T!InRange(at, d.range.start, d.range.end)}

TableInv ==
  /\ DOMAIN entry \subseteq Events /\ \A e \in DOMAIN entry : entry[e] \in Times
  /\ prefs \in PrefRows \cup {Default}
  /\ table \subseteq T!Rows /\ TwoEvents(table)
  /\ check \in [Processes -> Check]
  /\ changes \in 0 .. TableChanges /\ broken \in 0 .. TableFaults
  /\ \A c \in Processes : CheckOK(check[c], entry, prefs, table)

LEMMA TableType ==
  ASSUME TableInv
  PROVE  T!TypeOK
<1>1. \A c \in Processes :
        /\ check[c].pc \in {"idle", "prefs", "delete", "commit", "done"}
        /\ check[c].found \subseteq T!Rows /\ check[c].gone \subseteq T!Rows
  BY DEF TableInv, Check
<1>2. QED
  BY <1>1 DEF TableInv, T!TypeOK

LEMMA IdleCheck ==
  ASSUME T!TableAssumption
  PROVE  /\ T!Idle \in Check /\ T!Idle.pc = "idle" /\ T!Idle.found = {}
         /\ T!Idle.gone = {} /\ ~T!Idle.failed
<1>1. (CHOOSE r \in Ranges : TRUE) \in Ranges
  BY DEF T!TableAssumption
<1>2. T!NoRows \in [{} -> Times]
  BY DEF T!NoRows
<1>3. T!NoRows \in UNION {[set -> Times] : set \in SUBSET Events}
  BY <1>2
<1>4. QED
  BY <1>1, <1>3 DEF T!Idle, Check

LEMMA TableInit ==
  ASSUME T!TableAssumption, T!Init
  PROVE  TableInv
<1>1. /\ entry \in UNION {[set -> Times] : set \in SUBSET Events}
      /\ prefs \in PrefRows \cup {Default} /\ table = {}
      /\ check = [c \in Processes |-> T!Idle] /\ changes = 0 /\ broken = 0
  BY DEF T!Init
<1>2. DOMAIN entry \subseteq Events /\ \A e \in DOMAIN entry : entry[e] \in Times
  <2>1. PICK set \in SUBSET Events : entry \in [set -> Times]
    BY <1>1
  <2>2. QED
    BY <2>1
<1>3. check \in [Processes -> Check] /\ \A c \in Processes : CheckOK(check[c], entry, prefs, table)
  BY <1>1, IdleCheck DEF CheckOK, TwoEvents
<1>4. TableChanges \in Nat /\ TableFaults \in Nat
  BY DEF T!TableAssumption
<1>5. QED
  BY <1>1, <1>2, <1>3, <1>4 DEF TableInv, TwoEvents

\* What a step of the table does, beyond the invariant.
Kept(inRange, seen, types, gap) ==
  {{pair.a, pair.b} : pair \in {r \in table' : {r.a, r.b} \subseteq inRange /\ r.type \in types}}
    = {p \in T!kSubset(2, seen) : \E a, b \in p : a # b /\ T!Near(a, b, gap)}
StoresExactly ==
  \A c \in Processes : T!Ends(c) /\ check[c].quiet /\ ~check'[c].failed =>
    /\ Kept(T!InRange(entry, check[c].range.start, check[c].range.end), DOMAIN check[c].read,
            {"hard"}, 0)
    /\ Kept(T!InRange(entry, check[c].range.start, check[c].range.end), DOMAIN check[c].read,
            {"hard", "soft"}, T!PrefsRead(check[c].defaults).buffer)
Unseen(c, pair) ==
  check[c].quiet =>
    /\ pair.a \in T!InRange(entry, check[c].range.start, check[c].range.end)
    /\ ~({pair.a, pair.b} \subseteq DOMAIN check[c].read)
KeepsHard ==
  \A pair \in table \ table' :
       \/ ~({pair.a, pair.b} \subseteq DOMAIN entry') \/ pair.type # "hard"
       \/ ~T!Near(pair.a, pair.b, 0)
       \/ \E new \in table' : {new.a, new.b} = {pair.a, pair.b}
       \/ \E c \in Processes : T!Ends(c) /\ Unseen(c, pair)

\* The user or the sync changes what the checks read.
LEMMA CalendarChangeStep ==
  ASSUME T!TableAssumption, TableInv,
         \/ \E e \in Events : T!DeleteEvent(e) \/ \E interval \in Times : T!Upsert(e, interval)
         \/ \E new \in PrefRows : T!UpdatePreferences(new)
  PROVE  TableInv' /\ StoresExactly /\ KeepsHard
<1>1. changes \in Nat /\ changes < TableChanges /\ changes' = changes + 1 /\ UNCHANGED broken /\ TableChanges \in Nat
  <2>1. changes \in Nat /\ TableChanges \in Nat
    BY DEF TableInv, T!TableAssumption
  <2>2. changes < TableChanges /\ changes' = changes + 1 /\ UNCHANGED broken
    BY DEF T!DeleteEvent, T!Upsert, T!UpdatePreferences
  <2>3. QED
    BY <2>1, <2>2
<1>2. check' = [c \in Processes |-> [check[c] EXCEPT !.quiet = FALSE]]
  BY DEF T!DeleteEvent, T!Upsert, T!UpdatePreferences, T!Disturbed
<1>3. check \in [Processes -> Check]
  BY DEF TableInv
<1>4. \A d \in Check : [d EXCEPT !.quiet = FALSE] \in Check
  BY DEF Check
<1>5. check' \in [Processes -> Check]
  BY <1>2, <1>3, <1>4
<1>6. \A c \in Processes : /\ check'[c].pc = check[c].pc /\ check'[c].found = check[c].found
                           /\ ~check'[c].quiet
  BY <1>2, <1>3 DEF Check
<1>7. \A c \in Processes : TwoEvents(check[c].found)
  BY DEF TableInv, CheckOK
<1>8. \A c \in Processes : CheckOK(check'[c], entry', prefs', table')
  BY <1>6, <1>7 DEF CheckOK
<1>9. prefs' \in PrefRows \cup {Default}
  BY DEF TableInv, T!DeleteEvent, T!Upsert, T!UpdatePreferences
<1>10. DOMAIN entry' \subseteq Events /\ \A e \in DOMAIN entry' : entry'[e] \in Times
  BY DEF TableInv, T!DeleteEvent, T!Upsert, T!UpdatePreferences
<1>11. /\ table' \subseteq table
       /\ \A pair \in table \ table' : ~({pair.a, pair.b} \subseteq DOMAIN entry')
  <2>1. CASE table' = table
    BY <2>1
  <2>2. ASSUME NEW e \in Events, T!DeleteEvent(e)
        PROVE  /\ table' \subseteq table
               /\ \A pair \in table \ table' : ~({pair.a, pair.b} \subseteq DOMAIN entry')
    <3>1. table' = {pair \in table : e \notin {pair.a, pair.b}} /\ e \notin DOMAIN entry'
      BY <2>2 DEF T!DeleteEvent
    <3>2. QED
      BY <3>1
  <2>3. QED
    BY <2>1, <2>2 DEF T!Upsert, T!UpdatePreferences
<1>12. table' \subseteq T!Rows /\ TwoEvents(table')
  BY <1>11 DEF TableInv, TwoEvents
<1>13. KeepsHard
  BY <1>11, Zenon DEF KeepsHard
<1>14. StoresExactly
  BY <1>6 DEF StoresExactly, T!Ends
<1>15. changes' \in 0 .. TableChanges /\ broken' \in 0 .. TableFaults
  BY <1>1 DEF TableInv
<1>16. TableInv'
  BY <1>5, <1>8, <1>9, <1>10, <1>12, <1>15 DEF TableInv
<1>17. QED
  BY <1>13, <1>14, <1>16

\* One check goes on and changes none of the tables.
LEMMA CheckGoesOn ==
  ASSUME TableInv, NEW c \in Processes, NEW d \in Check, check' = [check EXCEPT ![c] = d],
         UNCHANGED <<entry, prefs, table, changes>>, broken' \in 0 .. TableFaults,
         CheckOK(d, entry, prefs, table), d.pc = "done" => d.failed
  PROVE  TableInv' /\ StoresExactly /\ KeepsHard
<1>1. check \in [Processes -> Check]
  BY DEF TableInv
<1>2. check' \in [Processes -> Check] /\ \A o \in Processes : check'[o] = IF o = c THEN d ELSE check[o]
  BY <1>1
<1>3. \A o \in Processes : CheckOK(check'[o], entry, prefs, table)
  BY <1>2, Zenon DEF TableInv
<1>4. \A o \in Processes : CheckOK(check'[o], entry', prefs', table')
  BY <1>3
<1>5. TableInv'
  BY <1>2, <1>4 DEF TableInv
<1>6. StoresExactly
  <2>1. ASSUME NEW o \in Processes, T!Ends(o) PROVE check'[o].failed
    BY <1>2, <2>1 DEF T!Ends
  <2>2. QED
    BY <2>1, Zenon DEF StoresExactly
<1>7. KeepsHard
  BY DEF KeepsHard
<1>8. QED
  BY <1>5, <1>6, <1>7

\* The events that are read have the times of events.
LEMMA ReadTimes ==
  ASSUME T!TableAssumption, NEW d \in Check
  PROVE  /\ DOMAIN d.read \subseteq Events /\ IsFiniteSet(DOMAIN d.read)
         /\ TimesOf(d.read, DOMAIN d.read)
<1>1. PICK set \in SUBSET Events : d.read \in [set -> Times]
  BY DEF Check
<1>2. DOMAIN d.read = set /\ \A e \in set : d.read[e] \in Times
  BY <1>1
<1>3. IsFiniteSet(Events)
  <2>1. T!IsFiniteSet(Events)
    BY DEF T!TableAssumption
  <2>2. QED
    BY <2>1, Zenon DEF T!IsFiniteSet, IsFiniteSet
<1>4. IsFiniteSet(set)
  BY <1>3, FS_Subset
<1>5. \A i \in Times : i.start \in Nat /\ i.end \in Nat /\ i.start < i.end /\ i.allDay \in BOOLEAN
  BY DEF T!TableAssumption
<1>6. QED
  BY <1>2, <1>4, <1>5 DEF TimesOf

LEMMA BufferType ==
  ASSUME T!TableAssumption, TableInv
  PROVE  prefs.buffer \in Nat /\ Default.buffer \in Nat
         /\ \A d : Known(d, prefs).buffer \in Nat
  BY DEF T!TableAssumption, TableInv, Known

LEMMA ReadStep ==
  ASSUME T!TableAssumption, TableInv, NEW c \in Processes, NEW range \in Ranges,
         T!GetEventsInRange(c, range)
  PROVE  TableInv' /\ StoresExactly /\ KeepsHard
<1>0. PICK at \in T!Read(entry, range.start, range.end) :
        /\ IF DOMAIN at = T!InRange(entry, range.start, range.end) THEN T!Works ELSE T!Fails
        /\ check' = [check EXCEPT ![c] =
             [T!Idle EXCEPT !.pc = "prefs", !.range = range, !.read = at]]
  BY DEF T!GetEventsInRange
<1>1. PICK d : d = [T!Idle EXCEPT !.pc = "prefs", !.range = range, !.read = at]
  OBVIOUS
<1>2. /\ check' = [check EXCEPT ![c] = d] /\ UNCHANGED <<entry, prefs, table, changes>>
      /\ T!Works \/ T!Fails
  BY <1>0, <1>1 DEF T!GetEventsInRange
<1>9. PICK seen \in SUBSET T!InRange(entry, range.start, range.end) : at = [e \in seen |-> entry[e]]
  BY <1>0 DEF T!Read
<1>10. DOMAIN at = seen /\ \A e \in seen : at[e] = entry[e]
  BY <1>9
<1>3. at \in UNION {[set -> Times] : set \in SUBSET Events}
  <2>1. /\ T!InRange(entry, range.start, range.end) \subseteq DOMAIN entry /\ DOMAIN entry \subseteq Events
        /\ \A e \in DOMAIN entry : entry[e] \in Times
    BY DEF T!InRange, TableInv
  <2>2. at \in [seen -> Times] /\ seen \subseteq Events
    BY <1>9, <2>1
  <2>3. QED
    BY <2>2
<1>4. T!Idle \in Check /\ T!Idle.found = {}
  BY IdleCheck
<1>5. /\ d \in Check /\ d.pc = "prefs" /\ d.range = range /\ d.found = {}
      /\ d.read = at
  BY <1>1, <1>3, <1>4 DEF Check
<1>6. CheckOK(d, entry, prefs, table)
  BY <1>5, <1>10 DEF CheckOK, TwoEvents
<1>7. broken' \in 0 .. TableFaults
  BY <1>2 DEF TableInv, T!Works, T!Fails, T!TableAssumption
<1>8. QED
  BY <1>2, <1>5, <1>6, <1>7, CheckGoesOn

LEMMA ConflictsDetectStep ==
  ASSUME T!TableAssumption, TableInv, NEW c \in Processes, NEW defaults \in BOOLEAN,
         T!Detect(c, defaults)
  PROVE  TableInv' /\ StoresExactly /\ KeepsHard
<1>1. check \in [Processes -> Check] /\ check[c] \in Check /\ CheckOK(check[c], entry, prefs, table)
  BY DEF TableInv
<1>0. PICK p : p = T!PrefsRead(defaults)
  OBVIOUS
<1>11. p \in {prefs, Default} /\ p.buffer \in Nat
  BY <1>0, BufferType DEF T!PrefsRead
<1>2. PICK pairs : pairs = T!PairConflicts(check[c].read, DOMAIN check[c].read, p.buffer)
                             \cup T!PreferenceRows(check[c].read, p)
  OBVIOUS
<1>3. PICK twice \in BOOLEAN : twice = \E e \in DOMAIN check[c].read :
                                         T!Cardinality(T!Violations(check[c].read[e], p)) > 1
  OBVIOUS
<1>4. PICK d : d = [check[c] EXCEPT !.pc = "delete", !.defaults = defaults, !.found = pairs, !.doubled = twice]
  OBVIOUS
<1>5. /\ check[c].pc = "prefs" /\ check' = [check EXCEPT ![c] = d]
      /\ UNCHANGED <<entry, prefs, table, changes>>
  BY <1>0, <1>1, <1>2, <1>3, <1>4 DEF T!Detect
<1>6. pairs \subseteq T!Rows /\ TwoEvents(pairs)
  <2>1. /\ DOMAIN check[c].read \subseteq Events /\ IsFiniteSet(DOMAIN check[c].read)
        /\ TimesOf(check[c].read, DOMAIN check[c].read)
    BY <1>1, ReadTimes
  <2>2. p.buffer \in Nat
    BY <1>11
  <2>3. \A pair \in T!PairConflicts(check[c].read, DOMAIN check[c].read, p.buffer) :
          /\ pair \in [a : DOMAIN check[c].read, b : DOMAIN check[c].read, type : {"hard", "soft"}]
          /\ pair.a # pair.b
    <3>1. PairsExact(T!PairConflicts(check[c].read, DOMAIN check[c].read, p.buffer),
                     check[c].read, DOMAIN check[c].read, p.buffer)
      BY <2>1, <2>2, PairsFound
    <3>2. QED
      BY <3>1, Zenon DEF PairsExact
  <2>4. \A pair \in T!PreferenceRows(check[c].read, p) :
          pair \in T!Rows /\ pair.type = "preference"
    BY <2>1 DEF T!PreferenceRows, T!Rows
  <2>5. \A pair \in [a : DOMAIN check[c].read, b : DOMAIN check[c].read, type : {"hard", "soft"}] :
          pair \in T!Rows
    BY <2>1 DEF T!Rows
  <2>6. QED
    BY <1>2, <2>3, <2>4, <2>5 DEF TwoEvents
<1>7. /\ d \in Check /\ d.pc = "delete" /\ d.found = pairs /\ d.read = check[c].read
      /\ d.range = check[c].range /\ d.quiet = check[c].quiet /\ d.defaults = defaults
  BY <1>1, <1>4, <1>6 DEF Check
<1>8. CheckOK(d, entry, prefs, table)
  <2>1. Known(d, prefs) = p
    BY <1>0, <1>7 DEF Known, T!PrefsRead
  <2>2. QED
    BY <1>1, <1>2, <1>5, <1>6, <1>7, <2>1 DEF CheckOK
<1>9. broken' \in 0 .. TableFaults
  BY DEF TableInv, T!Detect, T!Works, T!Fails, T!TableAssumption
<1>10. QED
  BY <1>5, <1>7, <1>8, <1>9, CheckGoesOn

LEMMA DeleteStep ==
  ASSUME T!TableAssumption, TableInv, NEW c \in Processes, T!DeleteOld(c)
  PROVE  TableInv' /\ StoresExactly /\ KeepsHard
<1>1. check \in [Processes -> Check] /\ check[c] \in Check /\ CheckOK(check[c], entry, prefs, table)
  BY DEF TableInv
<1>2. PICK old : old = {pair \in table : pair.a \in T!InRange(entry, check[c].range.start, check[c].range.end)}
  OBVIOUS
<1>3. PICK d : d = [check[c] EXCEPT !.pc = "commit", !.gone = old]
  OBVIOUS
<1>4. check[c].pc = "delete" /\ check' = [check EXCEPT ![c] = d] /\ UNCHANGED <<entry, prefs, table, changes, broken>>
  BY <1>1, <1>2, <1>3 DEF T!DeleteOld
<1>5. old \subseteq T!Rows
  BY <1>2 DEF TableInv
<1>6. /\ d \in Check /\ d.pc = "commit" /\ d.found = check[c].found /\ d.read = check[c].read
      /\ d.range = check[c].range /\ d.quiet = check[c].quiet /\ d.gone = old
      /\ d.defaults = check[c].defaults
  BY <1>1, <1>3, <1>5 DEF Check
<1>7. CheckOK(d, entry, prefs, table)
  BY <1>1, <1>2, <1>4, <1>6 DEF CheckOK, Known
<1>8. broken' \in 0 .. TableFaults
  BY <1>4 DEF TableInv
<1>9. QED
  BY <1>4, <1>6, <1>7, <1>8, CheckGoesOn

LEMMA FaultStep ==
  ASSUME T!TableAssumption, TableInv, NEW c \in Processes, T!Fault(c)
  PROVE  TableInv' /\ StoresExactly /\ KeepsHard
<1>1. check \in [Processes -> Check] /\ check[c] \in Check /\ CheckOK(check[c], entry, prefs, table)
  BY DEF TableInv
<1>2. PICK d : d = [check[c] EXCEPT !.pc = "done", !.failed = TRUE]
  OBVIOUS
<1>3. /\ check' = [check EXCEPT ![c] = d] /\ UNCHANGED <<entry, prefs, table, changes>>
      /\ broken < TableFaults /\ broken' = broken + 1
  BY <1>1, <1>2 DEF T!Fault, T!Fails
<1>4. d \in Check /\ d.pc = "done" /\ d.found = check[c].found /\ d.failed
  BY <1>1, <1>2 DEF Check
<1>5. CheckOK(d, entry, prefs, table)
  BY <1>1, <1>4 DEF CheckOK
<1>6. broken' \in 0 .. TableFaults
  BY <1>3 DEF TableInv, T!TableAssumption
<1>7. QED
  BY <1>3, <1>4, <1>5, <1>6, CheckGoesOn

LEMMA PairsOfTwo ==
  ASSUME NEW set, IsFiniteSet(set)
  PROVE  /\ \A a, b \in set : a # b => {a, b} \in T!kSubset(2, set)
         /\ \A p \in T!kSubset(2, set) : p \subseteq set /\ \A a, b \in p : a # b => p = {a, b}
<1>1. \A s : T!Cardinality(s) = Cardinality(s)
  BY Zenon DEF T!Cardinality, Cardinality
<1>2. ASSUME NEW a, NEW b, a # b PROVE IsFiniteSet({a, b}) /\ Cardinality({a, b}) = 2
  <2>1. IsFiniteSet({a}) /\ Cardinality({a}) = 1
    BY FS_Singleton
  <2>2. IsFiniteSet({a} \cup {b}) /\ Cardinality({a} \cup {b}) = 1 + 1
    BY <1>2, <2>1, FS_AddElement
  <2>3. {a} \cup {b} = {a, b}
    OBVIOUS
  <2>4. QED
    BY <2>2, <2>3
<1>3. ASSUME NEW a \in set, NEW b \in set, a # b PROVE {a, b} \in T!kSubset(2, set)
  BY <1>1, <1>2, <1>3 DEF T!kSubset
<1>4. ASSUME NEW p \in T!kSubset(2, set), NEW a \in p, NEW b \in p, a # b PROVE p = {a, b}
  <2>1. p \subseteq set /\ Cardinality(p) = 2
    BY <1>1 DEF T!kSubset
  <2>2. IsFiniteSet(p)
    BY <2>1, FS_Subset
  <2>3. {a, b} \in SUBSET p /\ Cardinality({a, b}) = 2
    BY <1>2, <1>4
  <2>4. QED
    BY <2>1, <2>2, <2>3, FS_Subset
<1>5. \A p \in T!kSubset(2, set) : p \subseteq set
  BY DEF T!kSubset
<1>6. QED
  BY <1>3, <1>4, <1>5, Zenon

\* What a check that nothing disturbed stores about the events it has seen.
StoredExact(inRange, seen, gap) ==
  /\ IsFiniteSet(seen) /\ seen \subseteq inRange /\ inRange \subseteq DOMAIN entry
  /\ \A pair \in table' : {pair.a, pair.b} \subseteq inRange /\ pair.type \in {"hard", "soft"} =>
       /\ pair.a \in seen /\ pair.b \in seen
       /\ pair.a # pair.b /\ T!Near(pair.a, pair.b, gap)
       /\ pair.type = "hard" => T!Near(pair.a, pair.b, 0)
  /\ \A a, b \in seen : a # b /\ T!Near(a, b, gap) =>
       \E pair \in table' :
         /\ {pair.a, pair.b} = {a, b} /\ pair.type \in {"hard", "soft"}
         /\ T!Near(a, b, 0) => pair.type = "hard"
LEMMA StoredPairs ==
  ASSUME T!TableAssumption, TableInv, NEW c \in Processes, check[c].pc = "commit", check[c].quiet,
         table' = T!Upserted(table \ check[c].gone, check[c].found),
         NEW inRange, inRange = T!InRange(entry, check[c].range.start, check[c].range.end),
         NEW gap, gap = Known(check[c], prefs).buffer
  PROVE  StoredExact(inRange, DOMAIN check[c].read, gap)
<1>1. /\ check[c] \in Check /\ CheckOK(check[c], entry, prefs, table) /\ gap \in Nat
  BY BufferType DEF TableInv
<1>2. PICK at : at = check[c].read
  OBVIOUS
<1> DEFINE seen == DOMAIN at
<1>3. /\ seen \subseteq inRange /\ \A e \in seen : at[e] = entry[e]
      /\ check[c].found = T!PairConflicts(at, seen, gap) \cup T!PreferenceRows(at, Known(check[c], prefs))
      /\ check[c].gone = {pair \in table : pair.a \in inRange}
  BY <1>1, <1>2 DEF CheckOK
<1>4. IsFiniteSet(seen) /\ TimesOf(at, seen)
  BY <1>1, <1>2, ReadTimes
<1>5. inRange \subseteq DOMAIN entry
  BY DEF T!InRange
<1>6. \A a, b \in seen : \A g : NearBy(at, a, b, g) <=> T!Near(a, b, g)
  BY <1>3 DEF NearBy, T!Near
<1>7. \A pair \in T!PreferenceRows(at, Known(check[c], prefs)) : pair.type = "preference"
  BY DEF T!PreferenceRows
<1> HIDE DEF seen
<1>8. PICK pairs : /\ pairs = T!PairConflicts(at, seen, gap)
                   /\ PairsExact(pairs, at, seen, gap)
  BY <1>1, <1>4, PairsFound
<1>10. \A pair : pair \in table' <=>
         \/ pair \in check[c].found
         \/ /\ pair \in table \ check[c].gone
            /\ \A new \in check[c].found : <<pair.a, pair.b>> # <<new.a, new.b>>
  BY DEF T!Upserted
<1>11. ASSUME NEW pair \in table', {pair.a, pair.b} \subseteq inRange, pair.type \in {"hard", "soft"}
       PROVE  /\ pair.a \in seen /\ pair.b \in seen
              /\ pair.a # pair.b /\ T!Near(pair.a, pair.b, gap)
              /\ pair.type = "hard" => T!Near(pair.a, pair.b, 0)
  <2>1. pair \in check[c].found
    BY <1>3, <1>10, <1>11
  <2>2. pair \in pairs
    BY <1>3, <1>7, <1>8, <1>11, <2>1
  <2>3. pair \in [a : seen, b : seen, type : {"hard", "soft"}]
    BY <1>8, <2>2, Zenon DEF PairsExact
  <2>4. pair.a \in seen /\ pair.b \in seen
    BY <2>3
  <2>5. QED
    BY <1>6, <1>8, <2>2, <2>4, Zenon DEF PairsExact
<1>12. ASSUME NEW a \in seen, NEW b \in seen, a # b, T!Near(a, b, gap)
       PROVE  \E pair \in table' :
                /\ {pair.a, pair.b} = {a, b} /\ pair.type \in {"hard", "soft"}
                /\ T!Near(a, b, 0) => pair.type = "hard"
  <2>1. PICK pair \in pairs :
          /\ {pair.a, pair.b} = {a, b}
          /\ NearBy(at, a, b, 0) => pair.type = "hard"
    BY <1>6, <1>8, <1>12, Zenon DEF PairsExact
  <2>2. pair \in table' /\ pair.type \in {"hard", "soft"}
    BY <1>3, <1>8, <1>10, <2>1 DEF PairsExact
  <2>3. QED
    BY <1>6, <2>1, <2>2
<1>13. StoredExact(inRange, seen, gap)
  BY <1>3, <1>4, <1>5, <1>11, <1>12, Zenon DEF StoredExact
<1>14. QED
  BY <1>2, <1>13 DEF seen

LEMMA CommitStep ==
  ASSUME T!TableAssumption, TableInv, NEW c \in Processes, T!Commit(c)
  PROVE  TableInv' /\ StoresExactly /\ KeepsHard
<1>1. check \in [Processes -> Check] /\ check[c] \in Check /\ CheckOK(check[c], entry, prefs, table)
  BY DEF TableInv
<1>2. PICK fails \in BOOLEAN : fails = T!InsertFails(c)
  BY DEF T!InsertFails
<1>3. PICK d : d = [check[c] EXCEPT !.pc = "done", !.failed = fails]
  OBVIOUS
<1>4. /\ check[c].pc = "commit" /\ UNCHANGED <<entry, prefs, changes, broken>>
      /\ table' = IF fails THEN table ELSE T!Upserted(table \ check[c].gone, check[c].found)
      /\ check' = [[o \in Processes |-> [check[o] EXCEPT !.quiet = FALSE]] EXCEPT ![c] = d]
  BY <1>2, <1>3, Zenon DEF T!Commit, T!Disturbed
<1>5. d \in Check /\ d.pc = "done" /\ d.found = check[c].found /\ d.failed = fails
  BY <1>1, <1>2, <1>3 DEF Check
<1>6. \A e \in Check : /\ [e EXCEPT !.quiet = FALSE] \in Check /\ ~[e EXCEPT !.quiet = FALSE].quiet
                       /\ [e EXCEPT !.quiet = FALSE].pc = e.pc /\ [e EXCEPT !.quiet = FALSE].found = e.found
  BY DEF Check
<1>7. \A o \in Processes : check'[o] = IF o = c THEN d ELSE [check[o] EXCEPT !.quiet = FALSE]
  BY <1>4
<1>8. check' \in [Processes -> Check]
  BY <1>1, <1>4, <1>5, <1>6
<1>9. \A o \in Processes : TwoEvents(check[o].found)
  BY DEF TableInv, CheckOK
<1>10. CheckOK(d, entry', prefs', table')
  BY <1>5, <1>9 DEF CheckOK
<1>11. \A o \in Processes : CheckOK(check'[o], entry', prefs', table')
  <2>1. ASSUME NEW o \in Processes, o # c PROVE CheckOK(check'[o], entry', prefs', table')
    <3>1. check'[o] = [check[o] EXCEPT !.quiet = FALSE] /\ check[o] \in Check
      BY <1>1, <1>7, <2>1
    <3>2. ~check'[o].quiet /\ check'[o].found = check[o].found
      BY <1>6, <3>1
    <3>3. QED
      BY <1>9, <3>2 DEF CheckOK
  <2>2. QED
    BY <1>7, <1>10, <2>1
<1>12. table' \subseteq T!Rows /\ TwoEvents(table')
  <2>1. table' \subseteq table \cup check[c].found
    BY <1>4 DEF T!Upserted
  <2>2. QED
    BY <1>1, <1>9, <2>1 DEF TableInv, TwoEvents, Check
<1>13. TableInv'
  BY <1>4, <1>8, <1>11, <1>12 DEF TableInv
<1>14. \A o \in Processes : T!Ends(o) => o = c
  <2>1. ASSUME NEW o \in Processes, o # c PROVE check'[o].pc = check[o].pc
    BY <1>1, <1>6, <1>7, <2>1
  <2>2. QED
    BY <2>1 DEF T!Ends
<1>15. PICK inRange : inRange = T!InRange(entry, check[c].range.start, check[c].range.end)
  OBVIOUS
<1>16. check'[c].failed = fails
  BY <1>5, <1>7
<1>20. PICK seen : seen = DOMAIN check[c].read
  OBVIOUS
<1>21. PICK gap : gap = T!PrefsRead(check[c].defaults).buffer
  OBVIOUS
<1>22. gap \in Nat /\ gap = Known(check[c], prefs).buffer
  BY <1>21, BufferType DEF Known, T!PrefsRead
<1>23. ASSUME check[c].quiet, ~fails PROVE StoredExact(inRange, seen, gap)
  <2>1. table' = T!Upserted(table \ check[c].gone, check[c].found) /\ check[c].pc = "commit"
    BY <1>4, <1>23
  <2>2. QED
    BY <1>15, <1>20, <1>22, <1>23, <2>1, StoredPairs
<1>24. \A a, b \in DOMAIN entry : T!Near(a, b, 0) => T!Near(a, b, gap)
  <2>1. ASSUME NEW a \in DOMAIN entry, NEW b \in DOMAIN entry, T!Near(a, b, 0)
        PROVE  T!Near(a, b, gap)
    <3>1. entry[a] \in Times /\ entry[b] \in Times
      BY DEF TableInv
    <3>2. entry[a].start \in Nat /\ entry[a].end \in Nat /\ entry[b].start \in Nat /\ entry[b].end \in Nat
      BY <3>1 DEF T!TableAssumption
    <3>3. QED
      BY <1>22, <2>1, <3>2 DEF T!Near
  <2>2. QED
    BY <2>1
<1>17. StoresExactly
  <2>1. ASSUME check[c].quiet, ~fails
        PROVE  Kept(inRange, seen, {"hard"}, 0) /\ Kept(inRange, seen, {"hard", "soft"}, gap)
    <3>2. StoredExact(inRange, seen, gap)
      BY <1>23, <2>1
    <3>3. /\ \A a, b \in seen : a # b => {a, b} \in T!kSubset(2, seen)
          /\ \A p \in T!kSubset(2, seen) : p \subseteq seen /\ \A a, b \in p : a # b => p = {a, b}
      BY <3>2, PairsOfTwo DEF StoredExact
    <3>4. \A a, b \in seen : T!Near(a, b, 0) => T!Near(a, b, gap)
      BY <1>24, <3>2 DEF StoredExact
    <3>5. ASSUME NEW types, NEW g, \/ types = {"hard"} /\ g = 0
                                   \/ types = {"hard", "soft"} /\ g = gap
          PROVE  Kept(inRange, seen, types, g)
      <4>1. ASSUME NEW pair \in table', {pair.a, pair.b} \subseteq inRange, pair.type \in types
            PROVE  /\ {pair.a, pair.b} \in T!kSubset(2, seen)
                   /\ \E a, b \in {pair.a, pair.b} : a # b /\ T!Near(a, b, g)
        <5>1. pair.a \in seen /\ pair.b \in seen /\ pair.a # pair.b
          BY <3>2, <3>5, <4>1 DEF StoredExact
        <5>2. T!Near(pair.a, pair.b, g)
          BY <3>2, <3>5, <4>1 DEF StoredExact
        <5>3. QED
          BY <3>3, <5>1, <5>2
      <4>2. ASSUME NEW p \in T!kSubset(2, seen), NEW a \in p, NEW b \in p, a # b, T!Near(a, b, g)
            PROVE  \E pair \in table' : /\ {pair.a, pair.b} \subseteq inRange /\ pair.type \in types
                                        /\ p = {pair.a, pair.b}
        <5>1. p = {a, b} /\ a \in seen /\ b \in seen /\ seen \subseteq inRange
          BY <3>2, <3>3, <4>2 DEF StoredExact
        <5>2. T!Near(a, b, gap)
          BY <3>4, <3>5, <4>2, <5>1
        <5>3. PICK pair \in table' :
                 /\ {pair.a, pair.b} = {a, b} /\ pair.type \in {"hard", "soft"}
                 /\ T!Near(a, b, 0) => pair.type = "hard"
          BY <3>2, <4>2, <5>1, <5>2, Zenon DEF StoredExact
        <5>4. pair.type \in types
          BY <3>5, <4>2, <5>3
        <5>5. QED
          BY <5>1, <5>3, <5>4
      <4>3. QED
        BY <4>1, <4>2 DEF Kept
    <3>6. QED
      BY <3>5
  <2>2. ASSUME NEW o \in Processes, T!Ends(o), check[o].quiet, ~check'[o].failed
        PROVE  o = c /\ check[c].quiet /\ ~fails
    BY <1>14, <1>16, <2>2, Zenon
  <2>3. QED
    BY <1>15, <1>20, <1>21, <2>1, <2>2, Zenon DEF StoresExactly
<1>18. KeepsHard
  <2>1. ASSUME NEW pair \in table \ table', {pair.a, pair.b} \subseteq DOMAIN entry', pair.type = "hard",
               T!Near(pair.a, pair.b, 0), ~ \E new \in table' : {new.a, new.b} = {pair.a, pair.b}
        PROVE  T!Ends(c) /\ Unseen(c, pair)
    <3>1. T!Ends(c)
      BY <1>4, <1>5, <1>7 DEF T!Ends
    <3>2. ~fails /\ table' = T!Upserted(table \ check[c].gone, check[c].found)
      BY <1>4, <2>1
    <3>3. pair \in check[c].gone
      <4>1. \A new \in check[c].found : new \in table'
        BY <3>2 DEF T!Upserted
      <4>2. \A new \in check[c].found : <<pair.a, pair.b>> # <<new.a, new.b>>
        BY <2>1, <4>1
      <4>3. QED
        BY <2>1, <3>2, <4>2 DEF T!Upserted
    <3>4. ASSUME check[c].quiet PROVE pair.a \in inRange /\ ~({pair.a, pair.b} \subseteq seen)
      <4>1. pair.a \in inRange
        BY <1>1, <1>4, <1>15, <3>3, <3>4 DEF CheckOK
      <4>2. pair.a # pair.b
        BY <2>1 DEF TableInv, TwoEvents
      <4>3. ASSUME pair.a \in seen, pair.b \in seen PROVE FALSE
        <5>1. \A a, b \in seen : a # b /\ T!Near(a, b, gap) =>
                \E new \in table' : {new.a, new.b} = {a, b}
          <6>1. StoredExact(inRange, seen, gap)
            BY <1>23, <3>2, <3>4
          <6>2. QED
            BY <6>1, Zenon DEF StoredExact
        <5>2. T!Near(pair.a, pair.b, gap)
          BY <1>4, <1>24, <2>1
        <5>3. QED
          BY <2>1, <4>2, <4>3, <5>1, <5>2
      <4>4. QED
        BY <4>1, <4>3
    <3>5. QED
      BY <1>15, <1>20, <3>1, <3>4 DEF Unseen
  <2>2. QED
    BY <2>1, Zenon DEF KeepsHard
<1>19. QED
  BY <1>13, <1>17, <1>18

LEMMA TableNext ==
  ASSUME T!TableAssumption, TableInv, T!Next
  PROVE  TableInv' /\ StoresExactly /\ KeepsHard
  BY CalendarChangeStep, ReadStep, ConflictsDetectStep, DeleteStep, FaultStep, CommitStep, Zenon DEF T!Next

LEMMA TableStutter ==
  ASSUME TableInv, UNCHANGED <<entry, prefs, table, check, changes, broken>>
  PROVE  TableInv'
  BY DEF TableInv

LEMMA TableStays ==
  ASSUME UNCHANGED <<entry, prefs, table, check, changes, broken>>
  PROVE  StoresExactly /\ KeepsHard
<1>1. \A c \in Processes : ~T!Ends(c)
  BY DEF T!Ends
<1>2. StoresExactly
  BY <1>1, Zenon DEF StoresExactly
<1>3. QED
  BY <1>2 DEF KeepsHard
-------------------------------------------------------------------------------
(* Scheduling.  A suggestion under way and an approval under way: the        *)
(* request of a suggestion is only detected; the request of an approval is   *)
(* suggested, or another approval of it was faster and it is late.           *)

Request == [status : {"none", "detected", "suggested", "accepted"},
            slots : SUBSET L!Slots, accepted : L!Slots \cup {NoSlot}]
Suggesting == [pc : {"idle", "find", "store", "done"}, slots : SUBSET L!Slots, search : Searches,
               defaults : BOOLEAN]
Approving == [pc : {"idle", "check", "update", "done"}, req : Requests \cup {L!NoApproval.req},
              slot : L!Slots \cup {NoSlot}, late : BOOLEAN]

SuggestionOK(d, status) ==
  /\ status = "none" => d.pc = "idle"
  /\ d.pc \in {"find", "store"} => status = "detected"
  /\ d.pc \in {"idle", "find"} => d.slots = {}
  /\ \A slot \in d.slots : L!WithinHours(slot, L!PrefsRead(d.defaults))

ApprovalOK(d, requests) ==
  d.pc \in {"check", "update"} =>
    /\ d.req \in Requests /\ d.slot \in L!Slots
    /\ \/ requests[d.req].status = "suggested"
       \/ requests[d.req].status = "accepted" /\ d.late

SchedInv ==
  /\ DOMAIN event \subseteq Events /\ \A e \in DOMAIN event : event[e] \in Meetings
  /\ req \in [Requests -> Request] /\ auto \in [Requests -> Suggesting]
  /\ appr \in [Processes -> Approving]
  /\ \A r \in Requests : SuggestionOK(auto[r], req[r].status)
  /\ \A a \in Processes : ApprovalOK(appr[a], req)

StandsAccepted ==
  \A r \in Requests : req[r].status = "accepted" =>
    /\ req'[r].status = "accepted"
    /\ req'[r] # req[r] =>
         \E a \in Processes : appr[a].req = r /\ appr[a].late /\ appr'[a].pc # appr[a].pc

\* No slot in a focus block, or every free one as well.
FreeOnes(chosen, search, p) ==
  (\E slot \in chosen : L!Blocked(slot, p) # {}) =>
    \A slot \in L!Candidates(event, p, search.start, search.end, search.duration) :
      L!Blocked(slot, p) = {} => slot \in chosen
FreeFirst ==
  \A r \in Requests : auto[r].pc = "find" =>
    FreeOnes(auto'[r].slots, auto[r].search, L!PrefsRead(auto'[r].defaults))

LEMMA KnownPrefs ==
  ASSUME L!SchedulingAssumption, NEW p \in {SlotPrefs, Default}
  PROVE  {p.startHour, p.endHour, p.buffer} \subseteq Nat /\ IsFiniteSet(p.focusBlocks)
<1>1. {p.startHour, p.endHour, p.buffer} \subseteq Nat /\ L!IsFiniteSet(p.focusBlocks)
  BY DEF L!SchedulingAssumption
<1>2. QED
  BY <1>1, Zenon DEF L!IsFiniteSet, IsFiniteSet

LEMMA DayParts ==
  ASSUME NEW t \in Nat, NEW d \in Nat \ {0}
  PROVE  /\ t % d \in Nat /\ t \div d \in Nat /\ t % d < d
         /\ t = d * (t \div d) + (t % d)
<1>1. t % d \in Nat /\ t \div d \in Nat
  OBVIOUS
<1>2. t % d < d
  OBVIOUS
<1>3. PICK q \in Int, x \in Int : q = t \div d /\ x = t % d
  BY <1>1
<1>4. t = d * q + x
  BY <1>3
<1>5. QED
  BY <1>1, <1>2, <1>3, <1>4, Zenon

LEMMA SameDay ==
  ASSUME NEW t \in Nat, NEW u \in Nat, NEW d \in Nat \ {0}, t <= u, u < t - (t % d) + d
  PROVE  u % d = u - (t - (t % d))
<1>1. PICK q \in Nat, x \in Nat : t = d * q + x /\ x = t % d /\ x < d
  BY DayParts
<1>2. PICK p \in Nat, y \in Nat : u = d * p + y /\ y = u % d /\ y < d
  BY DayParts
<1>3. PICK dq \in Nat, dp \in Nat : dq = d * q /\ dp = d * p
  OBVIOUS
<1>4. dp < dq + d /\ dq < dp + d
  <2>1. t = dq + x /\ u = dp + y /\ u < t - x + d
    BY <1>1, <1>2, <1>3
  <2>2. dp <= u /\ dq <= t /\ t <= u /\ u < dp + d /\ u < dq + d /\ dq <= u
    BY <1>1, <1>2, <2>1
  <2>3. QED
    BY <2>2
<1>5. p = q
  <2>1. CASE p > q
    <3>1. PICK k \in Nat : p = q + 1 + k
      <4>1. p - q - 1 \in Nat /\ p = q + 1 + (p - q - 1)
        BY <2>1
      <4>2. QED
        BY <4>1
    <3>2. dp = dq + d + d * k /\ d * k \in Nat
      BY <1>3, <3>1
    <3>3. QED
      BY <1>4, <3>2
  <2>2. CASE q > p
    <3>1. PICK k \in Nat : q = p + 1 + k
      <4>1. q - p - 1 \in Nat /\ q = p + 1 + (q - p - 1)
        BY <2>2
      <4>2. QED
        BY <4>1
    <3>2. dq = dp + d + d * k /\ d * k \in Nat
      BY <1>3, <3>1
    <3>3. QED
      BY <1>4, <3>2
  <2>3. QED
    BY <2>1, <2>2
<1>6. t = dq + x /\ u = dq + y
  BY <1>1, <1>2, <1>3, <1>5
<1>7. y = u - (t - x)
  BY <1>6
<1>8. QED
  BY <1>1, <1>2, <1>7

LEMMA TimesGrow ==
  ASSUME NEW n \in Nat, NEW m \in Nat, NEW d \in Nat, n <= m
  PROVE  d * n <= d * m /\ d * n \in Nat /\ d * m \in Nat
<1>1. PICK k \in Nat : m = n + k
  <2>1. m - n \in Nat /\ m = n + (m - n)
    OBVIOUS
  <2>2. QED
    BY <2>1
<1>2. d * m = d * n + d * k /\ d * k \in Nat /\ d * n \in Nat
  BY <1>1
<1>3. QED
  BY <1>2

LEMMA HoursKept ==
  ASSUME L!SchedulingAssumption, NEW p \in {SlotPrefs, Default},
         NEW slot, slot.start \in Nat, slot.end \in Nat, slot.start <= slot.end,
         L!BusinessHours(slot, p)
  PROVE  L!WithinHours(slot, p)
<1>1. /\ PerHour \in Nat \ {0} /\ p.startHour \in Nat /\ p.endHour \in Nat
  BY KnownPrefs DEF L!SchedulingAssumption, L!RulesAssumption
<1>2. PICK length \in Nat \ {0} : length = L!Day
  BY <1>1 DEF L!Day
<1>3. PICK s \in Nat, e \in Nat : s = slot.start % length /\ s < length /\ e = slot.end % length /\ e < length
  BY DayParts
<1>4. PICK h \in Nat, i \in Nat : h = s \div PerHour /\ i = s % PerHour /\ s = PerHour * h + i
  BY <1>1, DayParts
<1>5. PICK k \in Nat, j \in Nat : k = e \div PerHour /\ j = e % PerHour /\ e = PerHour * k + j /\ j < PerHour
  BY <1>1, DayParts
<1>6. h >= p.startHour /\ (IF j > 0 THEN k + 1 ELSE k) <= p.endHour
  BY <1>2, <1>3, <1>4, <1>5 DEF L!BusinessHours, L!Hour, L!EndHour, L!OfDay
<1>7. PerHour * p.startHour <= s /\ PerHour * p.startHour \in Nat
  <2>1. PerHour * p.startHour <= PerHour * h /\ PerHour * p.startHour \in Nat /\ PerHour * h \in Nat
    BY <1>1, <1>6, TimesGrow
  <2>2. QED
    BY <1>4, <2>1
<1>8. e <= PerHour * p.endHour /\ PerHour * p.endHour \in Nat
  <2>1. CASE j > 0
    <3>1. PerHour * (k + 1) <= PerHour * p.endHour /\ PerHour * p.endHour \in Nat
      BY <1>1, <1>6, <2>1, TimesGrow
    <3>2. PerHour * (k + 1) = PerHour * k + PerHour /\ PerHour * k \in Nat
      BY <1>1
    <3>3. QED
      BY <1>1, <1>5, <3>1, <3>2
  <2>2. CASE j = 0
    <3>1. PerHour * k <= PerHour * p.endHour /\ PerHour * p.endHour \in Nat /\ PerHour * k \in Nat
      BY <1>1, <1>6, <2>2, TimesGrow
    <3>2. QED
      BY <1>5, <2>2, <3>1
  <2>3. QED
    BY <2>1, <2>2
<1>9. slot.start % length <= slot.start
  <2>1. PICK q \in Nat : slot.start = length * q + s
    BY <1>3, DayParts
  <2>2. length * q \in Nat
    OBVIOUS
  <2>3. QED
    BY <1>3, <2>1, <2>2
<1>10. PICK midnight \in Nat : midnight = slot.start - s
  BY <1>3, <1>9
<1>11. slot.start >= midnight + PerHour * p.startHour
  BY <1>7, <1>10
<1>12. slot.end <= midnight + PerHour * p.endHour \/ slot.end >= midnight + length
  <2>1. CASE slot.end < midnight + length
    <3>1. slot.end % length = slot.end - (slot.start - (slot.start % length))
      <4>1. slot.end < slot.start - (slot.start % length) + length
        BY <1>3, <1>10, <2>1
      <4>2. QED
        BY <4>1, SameDay
    <3>2. e = slot.end - midnight
      BY <1>3, <1>10, <3>1
    <3>3. QED
      BY <1>8, <1>10, <3>2
  <2>2. CASE slot.end >= midnight + length
    BY <2>2
  <2>3. QED
    BY <2>1, <2>2
<1>13. /\ PerHour * p.startHour = p.startHour * PerHour
       /\ PerHour * p.endHour = p.endHour * PerHour
  BY <1>1
<1>14. QED
  BY <1>2, <1>3, <1>10, <1>11, <1>12, <1>13 DEF L!WithinHours, L!OfDay

\* What SuggestSlots returns are slots that keep the hours, and none in a
\* focus block while a free one is left out.
LEMMA CandidateKept ==
  ASSUME L!SchedulingAssumption, NEW p \in {SlotPrefs, Default}, NEW s \in Searches, NEW given,
         NEW slot \in L!Candidates(given, p, s.start, s.end, s.duration)
  PROVE  slot \in L!Slots /\ L!WithinHours(slot, p)
<1>1. /\ s.start \in Nat /\ s.end \in Nat /\ s.duration \in Nat
  BY DEF L!SchedulingAssumption
<1>2. PICK t \in s.start .. s.end : slot = L!Slot(t, s.duration) /\ L!BusinessHours(slot, p)
  BY DEF L!Candidates
<1>3. t \in Nat /\ slot.start = t /\ slot.end = t + s.duration
  BY <1>1, <1>2 DEF L!Slot
<1>4. L!WithinHours(slot, p)
  <2>1. slot.start \in Nat /\ slot.end \in Nat /\ slot.start <= slot.end
    BY <1>1, <1>3
  <2>2. QED
    BY <1>2, <2>1, HoursKept
<1>5. slot \in L!Slots
  BY <1>2 DEF L!Slots
<1>6. QED
  BY <1>4, <1>5

LEMMA TimeOfDayScores ==
  ASSUME L!RulesAssumption, NEW slot, slot.start \in Nat, NEW type
  PROVE  L!ScoreTimeOfDay(slot, type) \in 50 .. 100
<1>1. PICK h : h = L!Hour(slot.start)
  OBVIOUS
<1>2. L!ScoreTimeOfDay(slot, type) \in {100, 80, 70, 60, 50}
  BY <1>1 DEF L!ScoreTimeOfDay
<1>3. QED
  BY <1>2

LEMMA FreeScores ==
  ASSUME L!SchedulingAssumption, NEW p \in {SlotPrefs, Default},
         NEW slot, slot.start \in Nat, NEW type,
         L!Blocked(slot, p) = {}
  PROVE  L!ScoreSlot(slot, p, type) \in Nat /\ L!ScoreSlot(slot, p, type) >= 3500
<1>1. L!Cardinality({}) = 0
  <2>1. L!Cardinality({}) = Cardinality({})
    BY Zenon DEF L!Cardinality, Cardinality
  <2>2. QED
    BY <2>1, FS_EmptySet
<1>2. L!ScorePreference(slot, p) = 100
  BY <1>1 DEF L!ScorePreference
<1>3. L!ScoreTimeOfDay(slot, type) \in 50 .. 100
  BY TimeOfDayScores DEF L!SchedulingAssumption
<1>4. QED
  BY <1>2, <1>3 DEF L!ScoreSlot

LEMMA BlockedScores ==
  ASSUME L!SchedulingAssumption, NEW p \in {SlotPrefs, Default},
         NEW slot, slot.start \in Nat, NEW type,
         L!Blocked(slot, p) # {}
  PROVE  L!ScoreSlot(slot, p, type) \in Nat /\ L!ScoreSlot(slot, p, type) < 3500
<1>1. PICK blocks : blocks = L!Blocked(slot, p)
  OBVIOUS
<1>2. IsFiniteSet(p.focusBlocks)
  BY KnownPrefs
<1>3. IsFiniteSet(blocks) /\ blocks # {}
  <2>1. blocks \subseteq p.focusBlocks
    BY <1>1 DEF L!Blocked
  <2>2. QED
    BY <1>1, <1>2, <2>1, FS_Subset
<1>4. Cardinality(blocks) \in Nat /\ Cardinality(blocks) # 0
  BY <1>3, FS_CardinalityType, FS_EmptySet
<1>5. PICK n \in Nat : n = L!Cardinality(blocks) /\ n >= 1
  <2>1. L!Cardinality(blocks) = Cardinality(blocks)
    BY Zenon DEF L!Cardinality, Cardinality
  <2>2. QED
    BY <1>4, <2>1
<1>6. L!ScorePreference(slot, p) \in 0 .. 50
  <2>1. L!ScorePreference(slot, p) = IF 100 - 50 * n < 0 THEN 0 ELSE 100 - 50 * n
    BY <1>1, <1>5 DEF L!ScorePreference
  <2>2. QED
    BY <1>5, <2>1
<1>7. L!ScoreTimeOfDay(slot, type) \in 50 .. 100
  BY TimeOfDayScores DEF L!SchedulingAssumption
<1>8. QED
  BY <1>6, <1>7 DEF L!ScoreSlot

\* With fewer events no candidate goes.
LEMMA FewerEvents ==
  ASSUME NEW p \in {SlotPrefs, Default}, NEW s \in Searches, NEW given \in L!Read(event, s.start, s.end)
  PROVE  L!Candidates(event, p, s.start, s.end, s.duration)
           \subseteq L!Candidates(given, p, s.start, s.end, s.duration)
<1>1. PICK seen \in SUBSET L!InRange(event, s.start, s.end) : given = [e \in seen |-> event[e]]
  BY DEF L!Read
<1>2. DOMAIN given = seen /\ \A e \in seen : given[e] = event[e]
  BY <1>1
<1>3. L!InRange(given, s.start, s.end) \subseteq seen
  BY <1>2 DEF L!InRange
<1>4. ASSUME NEW slot, L!HasConflict(slot, given, L!InRange(given, s.start, s.end), p)
      PROVE  L!HasConflict(slot, event, L!InRange(event, s.start, s.end), p)
  <2>1. PICK e \in seen :
          /\ ~given[e].allDay
          /\ slot.start < given[e].end + p.buffer /\ slot.end > given[e].start - p.buffer
    BY <1>3, <1>4 DEF L!HasConflict
  <2>2. given[e] = event[e] /\ e \in L!InRange(event, s.start, s.end)
    BY <1>1, <1>2
  <2>3. QED
    BY <2>1, <2>2 DEF L!HasConflict
<1>5. QED
  BY <1>4 DEF L!Candidates

LEMMA BestSlots ==
  ASSUME L!SchedulingAssumption, NEW p \in {SlotPrefs, Default}, NEW s \in Searches,
         NEW given \in L!Read(event, s.start, s.end),
         NEW best \in L!Suggestions(given, p, s.start, s.end, s.duration, s.type)
  PROVE  /\ best \subseteq L!Slots /\ \A slot \in best : L!WithinHours(slot, p)
         /\ FreeOnes(best, s, p)
<1>1. PICK found : found = L!Candidates(given, p, s.start, s.end, s.duration)
  OBVIOUS
<1>2. /\ best \subseteq found
      /\ \A slot \in best, other \in found \ best :
           L!ScoreSlot(slot, p, s.type) >= L!ScoreSlot(other, p, s.type)
  BY <1>1 DEF L!Suggestions, L!kSubset
<1>3. \A slot \in found : slot \in L!Slots /\ L!WithinHours(slot, p)
  BY <1>1, CandidateKept
<1>4. \A slot \in L!Slots : slot.start \in Nat
  <2>1. ASSUME NEW r \in Searches, NEW t \in r.start .. r.end
        PROVE  L!Slot(t, r.duration).start \in Nat
    <3>1. r.start \in Nat /\ r.end \in Nat
      BY DEF L!SchedulingAssumption
    <3>2. QED
      BY <3>1 DEF L!Slot
  <2>2. QED
    BY <2>1 DEF L!Slots
<1>5. ASSUME NEW slot \in best, L!Blocked(slot, p) # {},
             NEW other \in found, L!Blocked(other, p) = {}, other \notin best
      PROVE  FALSE
  <2>1. slot.start \in Nat /\ other.start \in Nat
    BY <1>2, <1>3, <1>4, <1>5
  <2>2. PICK m \in Nat : m = L!ScoreSlot(slot, p, s.type) /\ m < 3500
    BY <1>5, <2>1, BlockedScores
  <2>3. PICK n \in Nat : n = L!ScoreSlot(other, p, s.type) /\ n >= 3500
    BY <1>5, <2>1, FreeScores
  <2>4. m >= n
    BY <1>2, <1>5, <2>2, <2>3
  <2>5. QED
    BY <2>2, <2>3, <2>4
<1>6. L!Candidates(event, p, s.start, s.end, s.duration) \subseteq found
  BY <1>1, FewerEvents
<1>7. FreeOnes(best, s, p)
  BY <1>5, <1>6 DEF FreeOnes
<1>8. QED
  BY <1>2, <1>3, <1>7

LEMMA SchedInit ==
  ASSUME L!SchedulingAssumption, L!Init
  PROVE  SchedInv
<1>1. L!NoRequest \in Request /\ L!NoRequest.status = "none"
  BY DEF L!NoRequest, Request
<1>2. L!NoApproval \in Approving /\ L!NoApproval.pc = "idle"
  BY DEF L!NoApproval, Approving
<1>3. PICK idle : idle = [pc |-> "idle", slots |-> {}, search |-> CHOOSE s \in Searches : TRUE,
                        defaults |-> FALSE]
  OBVIOUS
<1>4. idle \in Suggesting /\ idle.pc = "idle" /\ idle.slots = {}
  <2>1. (CHOOSE s \in Searches : TRUE) \in Searches
    BY DEF L!SchedulingAssumption
  <2>2. QED
    BY <1>3, <2>1 DEF Suggesting
<1>5. /\ event = [e \in {} |-> 0] /\ req = [r \in Requests |-> L!NoRequest]
      /\ auto = [r \in Requests |-> idle] /\ appr = [a \in Processes |-> L!NoApproval]
  BY <1>3 DEF L!Init, L!NoSuggestion
<1>6. DOMAIN event = {}
  BY <1>5
<1>7. /\ req \in [Requests -> Request] /\ auto \in [Requests -> Suggesting]
      /\ appr \in [Processes -> Approving]
  BY <1>1, <1>2, <1>4, <1>5
<1>8. \A r \in Requests : SuggestionOK(auto[r], req[r].status)
  BY <1>1, <1>4, <1>5 DEF SuggestionOK
<1>9. \A a \in Processes : ApprovalOK(appr[a], req)
  BY <1>2, <1>5 DEF ApprovalOK
<1>10. QED
  BY <1>6, <1>7, <1>8, <1>9 DEF SchedInv

\* A suggestion goes on, and the row of its request may with it: no approval of
\* the request is under way before it is suggested.
LEMMA SuggestionGoesOn ==
  ASSUME SchedInv, NEW r \in Requests, NEW d \in Suggesting, NEW written \in Request,
         auto' = [auto EXCEPT ![r] = d], req' = [req EXCEPT ![r] = written], UNCHANGED <<event, appr>>,
         SuggestionOK(d, written.status),
         written = req[r] \/ req[r].status \in {"none", "detected"}
  PROVE  SchedInv' /\ StandsAccepted
<1>1. /\ auto' \in [Requests -> Suggesting] /\ req' \in [Requests -> Request]
      /\ appr' \in [Processes -> Approving]
  BY DEF SchedInv
<1>2. \A o \in Requests : SuggestionOK(auto'[o], req'[o].status)
  <2>1. auto'[r] = d /\ req'[r] = written
    BY DEF SchedInv
  <2>2. \A o \in Requests \ {r} : auto'[o] = auto[o] /\ req'[o] = req[o]
    BY DEF SchedInv
  <2>3. QED
    BY <2>1, <2>2 DEF SchedInv
<1>3. \A a \in Processes : ApprovalOK(appr'[a], req')
  <2>1. ASSUME NEW a \in Processes, appr[a].pc \in {"check", "update"}
        PROVE  req'[appr[a].req] = req[appr[a].req]
    <3>1. appr[a].req \in Requests /\ req[appr[a].req].status \in {"suggested", "accepted"}
      BY <2>1 DEF SchedInv, ApprovalOK
    <3>2. written = req[r] \/ appr[a].req # r
      BY <3>1
    <3>3. QED
      BY <3>1, <3>2 DEF SchedInv
  <2>2. QED
    BY <2>1 DEF SchedInv, ApprovalOK
<1>4. StandsAccepted
  <2>1. \A o \in Requests : req[o].status = "accepted" => req'[o] = req[o]
    BY DEF SchedInv
  <2>2. QED
    BY <2>1 DEF StandsAccepted
<1>5. QED
  BY <1>1, <1>2, <1>3, <1>4 DEF SchedInv

\* An approval goes on.
LEMMA ApprovalGoesOn ==
  ASSUME SchedInv, NEW a \in Processes, NEW d \in Approving,
         appr' = [appr EXCEPT ![a] = d], UNCHANGED <<event, req, auto>>, ApprovalOK(d, req)
  PROVE  SchedInv' /\ StandsAccepted /\ FreeFirst
<1>1. appr' \in [Processes -> Approving]
  BY DEF SchedInv
<1>2. \A o \in Processes : ApprovalOK(appr'[o], req')
  <2>1. \A o \in Processes : appr'[o] = IF o = a THEN d ELSE appr[o]
    BY DEF SchedInv
  <2>2. QED
    BY <2>1 DEF SchedInv
<1>3. StandsAccepted
  BY DEF StandsAccepted
<1>4. FreeFirst
  BY DEF FreeFirst, FreeOnes, SchedInv, SuggestionOK
<1>5. QED
  BY <1>1, <1>2, <1>3, <1>4 DEF SchedInv

\* Where the slots of a suggestion do not change, none is found for one that
\* still looks for them.
LEMMA NoneFound ==
  ASSUME SchedInv, \A r \in Requests : auto'[r].slots = auto[r].slots
  PROVE  FreeFirst
  BY DEF FreeFirst, FreeOnes, SchedInv, SuggestionOK

LEMMA UpsertStep ==
  ASSUME SchedInv, NEW e \in Events, NEW interval \in Meetings, L!Upsert(e, interval)
  PROVE  SchedInv' /\ StandsAccepted /\ FreeFirst
<1>1. UNCHANGED <<req, auto, appr>> /\ event' = [d \in DOMAIN event \cup {e} |-> IF d = e THEN interval ELSE event[d]]
  BY DEF L!Upsert
<1>2. DOMAIN event' \subseteq Events /\ \A d \in DOMAIN event' : event'[d] \in Meetings
  BY <1>1 DEF SchedInv
<1>3. SchedInv'
  BY <1>1, <1>2 DEF SchedInv
<1>4. StandsAccepted
  BY <1>1 DEF StandsAccepted
<1>5. QED
  BY <1>1, <1>3, <1>4, NoneFound

LEMMA AnalysisStep ==
  ASSUME SchedInv, NEW r \in Requests, NEW s \in Searches, NEW confident \in BOOLEAN,
         L!ProcessAnalysis(r, s, confident)
  PROVE  SchedInv' /\ StandsAccepted /\ FreeFirst
<1>1. auto[r] \in Suggesting /\ req[r] \in Request /\ SuggestionOK(auto[r], req[r].status)
  BY DEF SchedInv
<1>2. PICK written : written = [req[r] EXCEPT !.status = "detected"]
  OBVIOUS
<1>3. PICK d : d = [auto[r] EXCEPT !.pc = IF confident THEN "find" ELSE "done", !.search = s]
  OBVIOUS
<1>4. /\ req[r].status = "none" /\ UNCHANGED <<event, appr>>
      /\ req' = [req EXCEPT ![r] = written] /\ auto' = [auto EXCEPT ![r] = d]
  BY <1>2, <1>3 DEF L!ProcessAnalysis, SchedInv
<1>5. written \in Request /\ written.status = "detected"
  BY <1>1, <1>2 DEF Request
<1>6. d \in Suggesting /\ d.slots = auto[r].slots /\ d.defaults = auto[r].defaults /\ d.pc \in {"find", "done"}
  BY <1>1, <1>3 DEF Suggesting
<1>7. SuggestionOK(d, written.status)
  BY <1>1, <1>4, <1>5, <1>6 DEF SuggestionOK
<1>8. \A o \in Requests : auto'[o].slots = auto[o].slots
  BY <1>4, <1>6 DEF SchedInv
<1>9. QED
  BY <1>4, <1>5, <1>6, <1>7, <1>8, SuggestionGoesOn, NoneFound

LEMMA SuggestStep ==
  ASSUME L!SchedulingAssumption, SchedInv, NEW r \in Requests, NEW defaults \in BOOLEAN,
         L!Suggest(r, defaults)
  PROVE  SchedInv' /\ StandsAccepted /\ FreeFirst
<1>1. /\ auto[r] \in Suggesting /\ req[r] \in Request /\ SuggestionOK(auto[r], req[r].status)
      /\ auto[r].search \in Searches
  BY DEF SchedInv, Suggesting
<1>2. PICK s \in Searches : s = auto[r].search
  BY <1>1
<1>11. PICK p \in {SlotPrefs, Default} : p = L!PrefsRead(defaults)
  BY DEF L!PrefsRead
<1>12. PICK given \in L!Read(event, s.start, s.end) :
         \E slots \in L!Suggestions(given, p, s.start, s.end, s.duration, s.type) :
           auto' = [auto EXCEPT ![r].pc = IF slots = {} THEN "done" ELSE "store", ![r].slots = slots,
                                ![r].defaults = defaults]
  BY <1>2, <1>11 DEF L!Suggest
<1>3. PICK best \in L!Suggestions(given, p, s.start, s.end, s.duration, s.type) :
        auto' = [auto EXCEPT ![r].pc = IF best = {} THEN "done" ELSE "store", ![r].slots = best,
                             ![r].defaults = defaults]
  BY <1>12
<1>0. PICK pc \in {"store", "done"} : pc = IF best = {} THEN "done" ELSE "store"
  OBVIOUS
<1>4. PICK d : d = [auto[r] EXCEPT !.pc = pc, !.slots = best, !.defaults = defaults]
  OBVIOUS
<1>5. /\ auto[r].pc = "find" /\ UNCHANGED <<event, req, appr>>
      /\ req' = [req EXCEPT ![r] = req[r]] /\ auto' = [auto EXCEPT ![r] = d]
  <2>1. auto[r].pc = "find" /\ UNCHANGED <<event, req, appr>>
    BY DEF L!Suggest
  <2>2. auto' = [auto EXCEPT ![r] = d]
    BY <1>0, <1>3, <1>4 DEF SchedInv
  <2>3. QED
    BY <2>1, <2>2 DEF SchedInv
<1>6. /\ best \subseteq L!Slots /\ \A slot \in best : L!WithinHours(slot, p)
      /\ FreeOnes(best, s, p)
  BY <1>3, BestSlots, Zenon
<1>7. d \in Suggesting /\ d.slots = best /\ d.pc \in {"store", "done"} /\ d.defaults = defaults
  BY <1>1, <1>4, <1>6 DEF Suggesting
<1>8. SuggestionOK(d, req[r].status)
  BY <1>1, <1>5, <1>6, <1>7, <1>11 DEF SuggestionOK
<1>9. FreeFirst
  <2>1. auto'[r] = d /\ \A o \in Requests \ {r} : auto'[o] = auto[o]
    BY <1>5 DEF SchedInv
  <2>2. FreeOnes(auto'[r].slots, auto[r].search, L!PrefsRead(auto'[r].defaults))
    BY <1>2, <1>6, <1>7, <1>11, <2>1, Zenon
  <2>3. ASSUME NEW o \in Requests, auto[o].pc = "find", o # r
        PROVE  FreeOnes(auto'[o].slots, auto[o].search, L!PrefsRead(auto'[o].defaults))
    <3>1. auto'[o].slots = {}
      BY <2>1, <2>3 DEF SchedInv, SuggestionOK
    <3>2. QED
      BY <3>1 DEF FreeOnes
  <2>4. QED
    BY <2>2, <2>3, Zenon DEF FreeFirst
<1>10. QED
  BY <1>1, <1>5, <1>7, <1>8, <1>9, SuggestionGoesOn

LEMMA StoreStep ==
  ASSUME SchedInv, NEW r \in Requests, L!StoreSuggestions(r)
  PROVE  SchedInv' /\ StandsAccepted /\ FreeFirst
<1>1. auto[r] \in Suggesting /\ req[r] \in Request /\ SuggestionOK(auto[r], req[r].status)
  BY DEF SchedInv
<1>2. PICK written : written = [req[r] EXCEPT !.slots = auto[r].slots, !.status = "suggested"]
  OBVIOUS
<1>3. PICK d : d = [auto[r] EXCEPT !.pc = "done"]
  OBVIOUS
<1>4. /\ auto[r].pc = "store" /\ UNCHANGED <<event, appr>>
      /\ req' = [req EXCEPT ![r] = written] /\ auto' = [auto EXCEPT ![r] = d]
  BY <1>2, <1>3 DEF L!StoreSuggestions, SchedInv
<1>5. written \in Request /\ written.status = "suggested"
  BY <1>1, <1>2 DEF Request, Suggesting
<1>6. d \in Suggesting /\ d.slots = auto[r].slots /\ d.defaults = auto[r].defaults /\ d.pc = "done"
  BY <1>1, <1>3 DEF Suggesting
<1>7. SuggestionOK(d, written.status) /\ req[r].status = "detected"
  BY <1>1, <1>4, <1>5, <1>6 DEF SuggestionOK
<1>8. \A o \in Requests : auto'[o].slots = auto[o].slots
  BY <1>4, <1>6 DEF SchedInv
<1>9. QED
  BY <1>4, <1>5, <1>6, <1>7, <1>8, SuggestionGoesOn, NoneFound

LEMMA SuggestFailsStep ==
  ASSUME SchedInv, NEW r \in Requests, L!SuggestFails(r)
  PROVE  SchedInv' /\ StandsAccepted /\ FreeFirst
<1>1. auto[r] \in Suggesting /\ req[r] \in Request /\ SuggestionOK(auto[r], req[r].status)
  BY DEF SchedInv
<1>2. PICK d : d = [auto[r] EXCEPT !.pc = "done"]
  OBVIOUS
<1>3. /\ auto[r].pc \in {"find", "store"} /\ UNCHANGED <<event, appr>>
      /\ req' = [req EXCEPT ![r] = req[r]] /\ auto' = [auto EXCEPT ![r] = d]
  BY <1>2 DEF L!SuggestFails, SchedInv
<1>4. d \in Suggesting /\ d.slots = auto[r].slots /\ d.defaults = auto[r].defaults /\ d.pc = "done"
  BY <1>1, <1>2 DEF Suggesting
<1>5. SuggestionOK(d, req[r].status)
  BY <1>1, <1>3, <1>4 DEF SuggestionOK
<1>6. \A o \in Requests : auto'[o].slots = auto[o].slots
  BY <1>3, <1>4 DEF SchedInv
<1>7. QED
  BY <1>1, <1>3, <1>4, <1>5, <1>6, SuggestionGoesOn, NoneFound

LEMMA SlotLoadStep ==
  ASSUME SchedInv, NEW a \in Processes, NEW r \in Requests, L!Load(a, r)
  PROVE  SchedInv' /\ StandsAccepted /\ FreeFirst
<1>1. L!NoApproval \in Approving
  BY DEF L!NoApproval, Approving
<1>2. PICK slot \in req[r].slots :
        appr' = [appr EXCEPT ![a] = [L!NoApproval EXCEPT !.pc = "check", !.req = r, !.slot = slot]]
  BY Zenon DEF L!Load
<1>3. req[r].status = "suggested" /\ UNCHANGED <<event, req, auto>>
  BY DEF L!Load
<1>4. slot \in L!Slots
  BY <1>2 DEF SchedInv, Request
<1>5. PICK d : d = [L!NoApproval EXCEPT !.pc = "check", !.req = r, !.slot = slot]
  OBVIOUS
<1>6. d \in Approving /\ d.req = r /\ d.slot = slot
  BY <1>1, <1>4, <1>5 DEF Approving
<1>7. ApprovalOK(d, req)
  BY <1>3, <1>4, <1>6 DEF ApprovalOK
<1>8. QED
  BY <1>2, <1>3, <1>5, <1>6, <1>7, ApprovalGoesOn

\* The conflicts decide whether the approval goes on.
LEMMA CheckConflictsStep ==
  ASSUME SchedInv, NEW a \in Processes, L!CheckConflicts(a)
  PROVE  SchedInv' /\ StandsAccepted /\ FreeFirst
<1>1. appr[a] \in Approving /\ ApprovalOK(appr[a], req)
  BY DEF SchedInv
<1>0. PICK given \in L!Read(event, appr[a].slot.start, appr[a].slot.end) :
        appr' = [appr EXCEPT ![a].pc = IF L!Hard(given) THEN "done" ELSE "update"]
  BY DEF L!CheckConflicts
<1>2. PICK pc \in {"done", "update"} : pc = IF L!Hard(given) THEN "done" ELSE "update"
  OBVIOUS
<1>3. PICK d : d = [appr[a] EXCEPT !.pc = pc]
  OBVIOUS
<1>4. appr[a].pc = "check" /\ appr' = [appr EXCEPT ![a] = d] /\ UNCHANGED <<event, req, auto>>
  BY <1>0, <1>2, <1>3 DEF L!CheckConflicts, SchedInv
<1>5. d \in Approving /\ d.req = appr[a].req /\ d.slot = appr[a].slot /\ d.late = appr[a].late
  BY <1>1, <1>3 DEF Approving
<1>6. ApprovalOK(d, req)
  BY <1>1, <1>4, <1>5 DEF ApprovalOK
<1>7. QED
  BY <1>4, <1>5, <1>6, ApprovalGoesOn

LEMMA ApproveFailsStep ==
  ASSUME SchedInv, NEW a \in Processes, L!ApproveFails(a)
  PROVE  SchedInv' /\ StandsAccepted /\ FreeFirst
<1>1. appr[a] \in Approving
  BY DEF SchedInv
<1>2. PICK d : d = [appr[a] EXCEPT !.pc = "done"]
  OBVIOUS
<1>3. appr' = [appr EXCEPT ![a] = d] /\ UNCHANGED <<event, req, auto>>
  BY <1>2 DEF L!ApproveFails
<1>4. d \in Approving /\ d.pc = "done"
  BY <1>1, <1>2 DEF Approving
<1>5. ApprovalOK(d, req)
  BY <1>4 DEF ApprovalOK
<1>6. QED
  BY <1>3, <1>4, <1>5, ApprovalGoesOn

\* The update makes every other approval of the request late.
LEMMA UpdateStep ==
  ASSUME SchedInv, NEW a \in Processes, L!Update(a)
  PROVE  SchedInv' /\ StandsAccepted /\ FreeFirst
<1>1. /\ appr[a] \in Approving /\ ApprovalOK(appr[a], req) /\ appr[a].pc = "update"
      /\ UNCHANGED <<event, auto>>
  BY DEF L!Update, SchedInv
<1>2. PICK r \in Requests : r = appr[a].req
  BY <1>1 DEF ApprovalOK
<1>3. req[r] \in Request /\ appr[a].slot \in L!Slots
  BY <1>1 DEF SchedInv, ApprovalOK
<1>4. PICK written : written = [req[r] EXCEPT !.status = "accepted", !.accepted = appr[a].slot]
  OBVIOUS
<1>5. written \in Request /\ written.status = "accepted"
  BY <1>3, <1>4 DEF Request
<1>6. req' = [req EXCEPT ![r] = written]
  BY <1>2, <1>4 DEF L!Update, SchedInv
<1>7. req' \in [Requests -> Request] /\ req'[r] = written /\ \A o \in Requests \ {r} : req'[o] = req[o]
  BY <1>5, <1>6 DEF SchedInv
<1>8. \A o \in Processes :
        appr'[o] = IF o = a THEN [appr[o] EXCEPT !.pc = "done"]
                   ELSE IF appr[o].req = r /\ appr[o].pc \in {"check", "update"}
                          THEN [appr[o] EXCEPT !.late = TRUE] ELSE appr[o]
  BY <1>2 DEF L!Update
<1>9. \A d \in Approving :
        /\ [d EXCEPT !.pc = "done"] \in Approving /\ [d EXCEPT !.pc = "done"].pc = "done"
        /\ [d EXCEPT !.late = TRUE] \in Approving /\ [d EXCEPT !.late = TRUE].late
        /\ [d EXCEPT !.late = TRUE].pc = d.pc /\ [d EXCEPT !.late = TRUE].req = d.req
        /\ [d EXCEPT !.late = TRUE].slot = d.slot
  BY DEF Approving
<1>10. appr \in [Processes -> Approving]
  BY DEF SchedInv
<1>11. appr' \in [Processes -> Approving]
  <2>1. appr' = [o \in Processes |-> appr'[o]]
    BY DEF L!Update
  <2>2. \A o \in Processes : appr'[o] \in Approving
    <3>1. ASSUME NEW o \in Processes PROVE appr'[o] \in Approving
      <4>1. appr[o] \in Approving
        BY <1>10
      <4>2. \/ appr'[o] = [appr[o] EXCEPT !.pc = "done"]
            \/ appr'[o] = [appr[o] EXCEPT !.late = TRUE]
            \/ appr'[o] = appr[o]
        BY <1>8, Zenon
      <4>3. QED
        BY <1>9, <4>1, <4>2, Zenon
    <3>2. QED
      BY <3>1
  <2>3. QED
    BY <2>1, <2>2
<1>12. ASSUME NEW o \in Processes PROVE ApprovalOK(appr'[o], req')
  <2>1. appr[o] \in Approving /\ ApprovalOK(appr[o], req)
    BY DEF SchedInv
  <2>2. CASE o = a
    BY <1>8, <1>9, <2>1, <2>2 DEF ApprovalOK
  <2>3. CASE o # a /\ appr[o].req = r /\ appr[o].pc \in {"check", "update"}
    <3>1. appr'[o] = [appr[o] EXCEPT !.late = TRUE]
      BY <1>8, <2>3
    <3>2. appr'[o].late /\ appr'[o].req = r /\ appr'[o].slot = appr[o].slot
      BY <1>9, <2>1, <2>3, <3>1
    <3>3. QED
      BY <1>5, <1>7, <2>1, <2>3, <3>2 DEF ApprovalOK
  <2>4. CASE o # a /\ ~(appr[o].req = r /\ appr[o].pc \in {"check", "update"})
    <3>1. appr'[o] = appr[o]
      BY <1>8, <2>4
    <3>2. QED
      BY <1>7, <2>1, <2>4, <3>1 DEF ApprovalOK
  <2>5. QED
    BY <2>2, <2>3, <2>4
<1>13. \A o \in Requests : SuggestionOK(auto'[o], req'[o].status)
  <2>1. req[r].status \in {"suggested", "accepted"}
    BY <1>1, <1>2 DEF ApprovalOK
  <2>2. SuggestionOK(auto[r], written.status)
    <3>1. SuggestionOK(auto[r], req[r].status)
      BY DEF SchedInv
    <3>2. auto[r].pc \notin {"find", "store"}
      BY <2>1, <3>1 DEF SuggestionOK
    <3>3. QED
      BY <1>5, <3>1, <3>2 DEF SuggestionOK
  <2>3. QED
    BY <1>1, <1>7, <2>2 DEF SchedInv
<1>14. StandsAccepted
  <2>1. ASSUME req[r].status = "accepted"
        PROVE  appr[a].late /\ appr'[a].pc # appr[a].pc
    <3>1. appr[a].late
      BY <1>1, <1>2, <2>1 DEF ApprovalOK
    <3>2. appr'[a].pc = "done"
      <4>1. appr'[a] = [appr[a] EXCEPT !.pc = "done"]
        BY <1>8
      <4>2. QED
        BY <1>1, <1>9, <4>1, Zenon
    <3>3. QED
      BY <1>1, <3>1, <3>2
  <2>2. QED
    BY <1>2, <1>5, <1>7, <2>1 DEF StandsAccepted
<1>15. QED
  BY <1>1, <1>7, <1>11, <1>12, <1>13, <1>14, NoneFound DEF SchedInv

LEMMA SchedNext ==
  ASSUME L!SchedulingAssumption, SchedInv, L!Next
  PROVE  SchedInv' /\ StandsAccepted /\ FreeFirst
  BY UpsertStep, AnalysisStep, SuggestStep, StoreStep, SuggestFailsStep, SlotLoadStep,
     CheckConflictsStep, UpdateStep, ApproveFailsStep, Zenon DEF L!Next

LEMMA SchedStays ==
  ASSUME SchedInv, UNCHANGED <<event, req, auto, appr>>
  PROVE  SchedInv' /\ StandsAccepted /\ FreeFirst
<1>1. SchedInv'
  BY DEF SchedInv
<1>2. StandsAccepted
  BY DEF StandsAccepted
<1>3. QED
  BY <1>1, <1>2, NoneFound

LEMMA SchedKeeps ==
  ASSUME SchedInv
  PROVE  L!TypeOK /\ L!SuggestedWithinHours
<1>1. /\ \A r \in Requests : auto[r].pc \in {"idle", "find", "store", "done"}
      /\ \A a \in Processes : appr[a].pc \in {"idle", "check", "update", "done"}
  BY DEF SchedInv, Suggesting, Approving
<1>2. L!TypeOK
  BY <1>1 DEF SchedInv, Request, L!TypeOK
<1>3. L!SuggestedWithinHours
  BY DEF SchedInv, SuggestionOK, L!SuggestedWithinHours
<1>4. QED
  BY <1>2, <1>3

\* Scheduling and ConflictTable: suggested slots keep the hours and the free
\* ones come first, an accepted request stands, and what a check stores is
\* what overlaps among the events it could read, for any calendar, preferences
\* and searches and any number of approvals, checks and failed reads (slot_engine.go:26-118, slot_approve.go:25-99,
\* conflict_realtime.go:22-161).
THEOREM CalendarInAgreement ==
  ASSUME L!SchedulingAssumption, T!TableAssumption
  PROVE  Spec => CalendarAgrees
<1> DEFINE Held == SchedInv /\ TableInv
<1>1. Init => Held
  BY SchedInit, TableInit DEF Init
<1>2. ASSUME Held, [Next]_vars
      PROVE  Held' /\ StandsAccepted /\ FreeFirst /\ StoresExactly /\ KeepsHard
  <2>1. SchedInv' /\ StandsAccepted /\ FreeFirst
    <3>1. L!Next \/ UNCHANGED scheduling
      BY <1>2 DEF Next, vars
    <3>2. QED
      BY <1>2, <3>1, SchedNext, SchedStays DEF scheduling
  <2>2. TableInv' /\ StoresExactly /\ KeepsHard
    <3>1. T!Next \/ UNCHANGED conflicts
      BY <1>2 DEF Next, vars
    <3>2. QED
      BY <1>2, <3>1, TableNext, TableStutter, TableStays DEF conflicts
  <2>3. QED
    BY <2>1, <2>2
<1>3. (Held /\ [Next]_vars) => Held'
  BY <1>2
<1>4. Held => (L!TypeOK /\ L!SuggestedWithinHours /\ T!TypeOK)
  BY SchedKeeps, TableType
<1>5. (Held /\ [Next]_vars) =>
        ([\A r \in Requests : req[r].status = "accepted" =>
            /\ req'[r].status = "accepted"
            /\ req'[r] # req[r] =>
                 \E a \in Processes : appr[a].req = r /\ appr[a].late /\ appr'[a].pc # appr[a].pc]_(L!vars))
  BY <1>2 DEF StandsAccepted
<1>6. (Held /\ [Next]_vars) =>
        ([\A r \in Requests :
            LET s == auto[r].search
                chosen == auto'[r].slots
                preferred == L!PrefsRead(auto'[r].defaults)
            IN /\ auto[r].pc = "find"
               /\ \E slot \in chosen : L!Blocked(slot, preferred) # {}
               => \A slot \in L!Candidates(event, preferred, s.start, s.end, s.duration) :
                    L!Blocked(slot, preferred) = {} => slot \in chosen]_(L!vars))
  BY <1>2 DEF FreeFirst, FreeOnes
<1>7. (Held /\ [Next]_vars) =>
        ([\A c \in Processes : T!Ends(c) /\ check[c].quiet /\ ~check'[c].failed =>
            LET inRange == T!InRange(entry, check[c].range.start, check[c].range.end)
                Stored(types) == {{pair.a, pair.b} : pair \in
                  {r \in table' : {r.a, r.b} \subseteq inRange /\ r.type \in types}}
                Pairs(gap) == {p \in T!kSubset(2, DOMAIN check[c].read) :
                                 \E a, b \in p : a # b /\ T!Near(a, b, gap)}
            IN /\ Stored({"hard"}) = Pairs(0)
               /\ Stored({"hard", "soft"}) = Pairs(T!PrefsRead(check[c].defaults).buffer)]_(T!vars))
  BY <1>2 DEF StoresExactly, Kept
<1>8. (Held /\ [Next]_vars) =>
        ([\A pair \in table \ table' :
            \/ ~({pair.a, pair.b} \subseteq DOMAIN entry') \/ pair.type # "hard"
            \/ ~T!Near(pair.a, pair.b, 0)
            \/ \E new \in table' : {new.a, new.b} = {pair.a, pair.b}
            \/ \E c \in Processes :
                 LET inRange == T!InRange(entry, check[c].range.start, check[c].range.end)
                 IN /\ T!Ends(c)
                    /\ check[c].quiet => /\ pair.a \in inRange
                                         /\ ~({pair.a, pair.b} \subseteq DOMAIN check[c].read)]_(T!vars))
  BY <1>2 DEF KeepsHard, Unseen
<1> HIDE DEF Held
<1>9. Spec => L!SlotsStand
  <2>1. Spec => [](L!TypeOK /\ L!SuggestedWithinHours)
    BY <1>1, <1>3, <1>4, PTL DEF Spec
  <2>2. Spec => L!AcceptedStands
    BY <1>1, <1>3, <1>5, PTL DEF Spec, L!AcceptedStands
  <2>3. Spec => L!FreeBeforeFocus
    BY <1>1, <1>3, <1>6, PTL DEF Spec, L!FreeBeforeFocus
  <2>4. QED
    BY <2>1, <2>2, <2>3, PTL DEF L!SlotsStand
<1>10. Spec => T!ConflictsMatch
  <2>1. Spec => []T!TypeOK
    BY <1>1, <1>3, <1>4, PTL DEF Spec
  <2>2. Spec => T!ConflictsExact
    BY <1>1, <1>3, <1>7, PTL DEF Spec, T!ConflictsExact
  <2>3. Spec => T!ConflictsStay
    BY <1>1, <1>3, <1>8, PTL DEF Spec, T!ConflictsStay
  <2>4. QED
    BY <2>1, <2>2, <2>3, PTL DEF T!ConflictsMatch
<1>11. QED
  BY <1>9, <1>10, PTL DEF CalendarAgrees

===============================================================================
