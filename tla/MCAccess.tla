------------------------------- MODULE MCAccess -------------------------------
(***************************************************************************)
(* What stands around the user: what the AI remembers and learns, the mail *)
(* accounts and their watchers and connections, signing in, the limits of  *)
(* the plan and of a minute, and what is computed about the behaviour.     *)
(* Each is a small instance of its own, without fairness; they             *)
(* share nothing but a clock and a count of faults.  A behaviour is of the *)
(* one it begins as, and the state of the others stays at its Init.  Where *)
(* a module holds two things that do not meet, they are two parts.         *)
(***************************************************************************)
EXTENDS Integers, Sequences, TLC

CONSTANTS
  Processes,
  Rules, Briefs, Scopes, Categories, Prompts, RuleBudget, MemoryTime, MemoryErrors, \* of the memory
  ManyRules, RuleScopes, RuleLimit,                          \* of the rules
  Enough, ExampleCap, LearningWeek, LearningDays, MaxSignals, \* of learning
  Ids, Addresses, Providers, Deletes, MaxFaults,             \* of the accounts
  MaxUid, NoId, Broken, MailWindow, MailDays, MailFaults,    \* of the watchers
  Mailboxes, Clients, MaxConns, MaxAttempts,                 \* of the connections
  SignIns, SignOuts, FailedLimit, LockTime, SessionLimit, SignInTime, MaxRaces, \* of signing in
  GateSets, TopPlan, FeaturesOf, AccountLimit, TokenLimit, PremiumLimit, TokensEach,
  MaxUse, LimitDays, MaxChanges,                             \* of the limits
  Clientele, MinuteTicks, BucketRpm, BucketOld, WindowLimit, BurstMax, RateTime, \* of the rates
  Loads, CalmLoads, LateWorker, WeekendOk, MailLevels, MetricWeek, AlertDays, AlertWindow, KeepDays,
  HasAI, BehaviorDays                                        \* of the behaviour

VARIABLES part, hour, fault,
          rule, brief, patterns, inject, writer,                        \* memory
          signals, examples, learner,                                   \* learning
          account, secret, mail, session, connect, delete, popup, tokens, \* accounts
          signedIn, live, tracker, raced, revoke, failed, until, login, \* sign-in
          gates, plan, planCache, used, quota, accounts, request, moves, \* limits
          strategy, arrived, stored, queued, watch, exists, gmail, cursor, history, \* watchers
          connections, status, open, reconnect,                         \* connections
          buckets, windows, zset, worker, passed, merged,               \* rates
          past, daily, weekly, snapshot, alerted, contact, compute, alerts, overlapped \* behaviour

memory == <<rule, brief, patterns, inject, writer>>
learning == <<signals, examples, learner>>
mailboxes == <<account, secret, mail, session, connect, delete, popup, tokens>>
signIn == <<signedIn, live, tracker, raced, revoke, failed, until, login>>
limits == <<gates, plan, planCache, used, quota, accounts, request, moves>>
watchers == <<strategy, arrived, stored, queued, watch, exists, gmail, cursor, history>>
sockets == <<connections, status, open, reconnect>>
rates == <<buckets, windows, zset, worker, passed, merged>>
behaviour == <<past, daily, weekly, snapshot, alerted, contact, compute, alerts, overlapped>>
vars == <<part, hour, fault, memory, learning, mailboxes, signIn, limits, watchers, sockets,
          rates, behaviour>>

M == INSTANCE UserMemory WITH
       now <- hour, errors <- fault, RuleIds <- Rules, BriefIds <- Briefs,
       Limit <- 0, Budget <- RuleBudget, Injections <- Prompts, Writers <- {},
       MaxTime <- MemoryTime, MaxErrors <- MemoryErrors
Q == INSTANCE UserMemory WITH
       now <- hour, errors <- fault, RuleIds <- ManyRules, BriefIds <- Briefs,
       Scopes <- RuleScopes, Categories <- {}, Limit <- RuleLimit, Budget <- RuleBudget,
       Injections <- Prompts, Writers <- Processes, MaxTime <- 0, MaxErrors <- 0
G == INSTANCE Learning WITH
       day <- hour, Learners <- Processes, Cap <- ExampleCap, Week <- LearningWeek,
       MaxDay <- LearningDays
A == INSTANCE Accounts WITH
       faults <- fault, Connects <- Processes, Popups <- Processes
U == INSTANCE AuthSessions WITH
       now <- hour, faults <- fault, rows <- signedIn, Sessions <- SignIns,
       Logins <- Processes, Trackers <- Processes, Revokes <- SignOuts,
       MaxFailed <- FailedLimit, Lockout <- LockTime, MaxSessions <- SessionLimit, MaxTime <- SignInTime
H == INSTANCE PlanLimits WITH
       day <- hour, faults <- fault, cached <- planCache, changes <- moves,
       Requests <- Processes, Routes <- GateSets, Top <- TopPlan, Amount <- TokensEach, MaxDay <- LimitDays
W == INSTANCE MailWatch WITH
       day <- hour, faults <- fault, rows <- stored,
       Window <- MailWindow, MaxDay <- MailDays, MaxFaults <- MailFaults
I == INSTANCE ImapConnections WITH
       Accounts <- Mailboxes, Reconnects <- Processes, replaced <- fault, MaxReplaced <- MaxFaults
R == INSTANCE RateLimits WITH
       now <- hour, faults <- fault, Addresses <- Clientele, Workers <- Processes,
       Minute <- MinuteTicks, Rpm <- BucketRpm, Old <- BucketOld, Limit <- WindowLimit, MaxTime <- RateTime
B == INSTANCE NightlyBehavior WITH
       today <- hour, faults <- fault, run <- compute, Runs <- Processes, Levels <- MailLevels,
       Week <- MetricWeek, Window <- AlertWindow, Keep <- KeepDays, MaxDay <- BehaviorDays

ASSUME M!MemoryAssumption /\ Q!MemoryAssumption /\ G!LearningAssumption /\ A!AccountsAssumption
ASSUME U!AuthAssumption /\ H!LimitsAssumption /\ W!WatchAssumption /\ I!ConnectionsAssumption
ASSUME R!RateLimitsAssumption /\ B!BehaviorAssumption /\ CalmLoads \subseteq Loads

Parts == {"memory", "rules", "learning", "accounts", "popups", "sessions", "logins",
          "limits", "watchers", "sockets", "addresses", "workers", "balance", "contacts"}

\* One initial state of a module is enough while another part runs.
Init ==
  /\ part \in Parts
  /\ IF part = "rules" THEN Q!Init ELSE M!Init
  /\ G!Init /\ A!Init /\ U!Init /\ H!Init /\ W!Init /\ I!Init /\ R!Init /\ B!Init
  /\ live = IF part = "sessions" THEN SignIns ELSE {}
  /\ part # "limits" => plan = 0 /\ gates = CHOOSE g \in GateSets : TRUE
  /\ part # "watchers" => strategy = "poll"

\* A behaviour about the balance meets no contact, one about a contact no hard day.
WithoutContact(days) == \A d \in DOMAIN days : days[d].level = B!None
CalmDays(days) == \A d \in DOMAIN days : days[d].load \in CalmLoads

Is(p) == part = p /\ UNCHANGED part
Next ==
  \/ /\ Is("memory") /\ M!Next
     /\ UNCHANGED <<learning, mailboxes, signIn, limits, watchers, sockets, rates, behaviour>>
  \/ /\ Is("rules") /\ Q!Next
     /\ UNCHANGED <<brief, patterns, inject, learning, mailboxes, signIn, limits, watchers, sockets, rates, behaviour>>
  \/ /\ Is("learning") /\ G!Next
     /\ UNCHANGED <<fault, memory, mailboxes, signIn, limits, watchers, sockets, rates, behaviour>>
  \/ /\ Is("accounts") /\ A!Next /\ UNCHANGED A!oauth
     /\ UNCHANGED <<hour, memory, learning, signIn, limits, watchers, sockets, rates, behaviour>>
  \/ /\ Is("popups") /\ A!Next /\ UNCHANGED A!imap
     /\ UNCHANGED <<hour, memory, learning, signIn, limits, watchers, sockets, rates, behaviour>>
  \/ /\ Is("sessions") /\ U!Next /\ UNCHANGED <<failed, until, login, hour>>
     /\ UNCHANGED <<memory, learning, mailboxes, limits, watchers, sockets, rates, behaviour>>
  \/ /\ Is("logins") /\ U!Next /\ UNCHANGED <<signedIn, tracker, raced, revoke>>
     /\ UNCHANGED <<memory, learning, mailboxes, limits, watchers, sockets, rates, behaviour>>
  \/ /\ Is("limits") /\ H!Next
     /\ UNCHANGED <<memory, learning, mailboxes, signIn, watchers, sockets, rates, behaviour>>
  \/ /\ Is("watchers") /\ W!Next
     /\ UNCHANGED <<memory, learning, mailboxes, signIn, limits, sockets, rates, behaviour>>
  \/ /\ Is("sockets") /\ I!Next
     /\ UNCHANGED <<hour, memory, learning, mailboxes, signIn, limits, watchers, rates, behaviour>>
  \/ /\ part \in {"addresses", "workers"} /\ UNCHANGED part /\ R!Next
     /\ IF part = "addresses" THEN UNCHANGED worker ELSE UNCHANGED <<buckets, windows>>
     /\ UNCHANGED <<memory, learning, mailboxes, signIn, limits, watchers, sockets, behaviour>>
  \/ /\ \/ Is("balance") /\ B!Next /\ WithoutContact(past')
        \/ Is("contacts") /\ B!Next /\ CalmDays(past') /\ UNCHANGED fault
     /\ UNCHANGED <<memory, learning, mailboxes, signIn, limits, watchers, sockets, rates>>

Spec == Init /\ [][Next]_vars

-------------------------------------------------------------------------------
(* Values for the runs.                                                      *)

MCFeaturesOf == [p \in 0 .. 2 |-> IF p = 0 THEN {} ELSE IF p = 1 THEN {"f1"} ELSE {"f1", "f2"}]
MCAccountLimit == [p \in 0 .. 2 |-> (p + 1) % 3]
MCTokenLimit == [p \in 0 .. 2 |-> (2 * p + 2) % 6]
MCPremiumLimit == [p \in 0 .. 2 |-> p % 2]
Calm == [after |-> 0, weekend |-> 0, first |-> 9, last |-> 17, sent |-> 1, received |-> 1]
Hard == [after |-> 60, weekend |-> 6, first |-> 6, last |-> 23, sent |-> 5, received |-> 1]
MCLoads == {Calm, Hard}
MCCalmLoads == {Calm}

\* The processes are interchangeable: no part chooses among them.
Symmetry == Permutations(Processes)

-------------------------------------------------------------------------------
\* The limit of rules is passed by one per overlapping call at most, a prompt
\* loses its memory only to a rule without a filter, and only the synthesis
\* takes examples away (UserMemory; rules.go:69, injector.go:29, Learning;
\* quick_update.go:93).
MemoryKept ==
  /\ []/\ part = "memory" => M!MemoryKept
       /\ part = "rules" => Q!MemoryKept
       /\ part = "learning" => G!TypeOK
  /\ M!LostOnlyByNull /\ G!OldestStay
\* An account without a password is being connected or deleted, was cut off, or
\* could not be deleted for its mail; what was answered as connected stands
\* (Accounts; account_handlers.go:196-269).
AccountsKept == part \in {"accounts", "popups"} => A!AccountsKept
\* Sessions, failed logins, accounts, tokens, premium calls, requests in a minute
\* and alerts in a week pass their limits by what overlaps at most, and who is
\* refused was so for a cause (AuthSessions; sessions.go:46, lockout.go:41,
\* PlanLimits; gates.go:122, quota.go:51, RateLimits; ai/queue/ratelimit.go:35,
\* NightlyBehavior; wlb_alerts.go:30, relationships.go:204).
LimitsHold ==
  /\ part \in {"sessions", "logins"} => U!LimitsHold
  /\ part = "limits" => H!PlanLimitsHold
  /\ part \in {"addresses", "workers"} => R!RatesHold
  /\ part \in {"balance", "contacts"} => B!BehaviorHolds
\* The watermark passes no message that could be stored and that its fetch gave,
\* and a lost connection is one overwritten (MailWatch; idle.go:147, ImapConnections;
\* manager.go:105, reconnect.go:46).
MailSeen ==
  /\ []/\ part = "watchers" => W!MailSeen
       /\ part = "sockets" => I!ConnectionsHeld
  /\ W!NonePassed
===============================================================================
