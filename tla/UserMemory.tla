------------------------------ MODULE UserMemory ------------------------------
(***************************************************************************)
(* What the AI remembers of one user: the rules and briefs the user        *)
(* writes, the patterns derived from the mail (api/memory_handlers.go,     *)
(* ai/memory), and how all three reach a prompt (injector.go).             *)
(***************************************************************************)
EXTENDS Naturals, FiniteSets

CONSTANTS
  RuleIds, BriefIds, Scopes,
  Categories,  \* what the check of learned_patterns.category admits (migration 027)
  Limit,       \* rules of the plan, 0 for no limit
  Budget,      \* rules that fit into 200 tokens
  Injections,  \* prompts being built, for the scope "email"
  Writers,     \* calls of UserRuleStore.Create
  MaxTime, MaxErrors  \* bounds

MemoryAssumption ==
  /\ {Limit, Budget, MaxTime, MaxErrors} \subseteq Nat
  /\ IsFiniteSet(RuleIds) /\ IsFiniteSet(Writers)

NoRow == [row |-> FALSE]

VARIABLES
  rule,      \* rule[r]: the row of user_rules; filter says whether it is
             \* not NULL, counted whether the limit was looked at
  brief,     \* brief[b]: the row of context_briefs, or NoRow
  patterns,  \* categories of learned_patterns
  inject,    \* inject[i]: Inject and what it read so far
  writer,    \* writer[w]: Create between its count and its insert
  now, errors

vars == <<rule, brief, patterns, inject, writer, now, errors>>

Rows == [row : {TRUE}, scope : Scopes, filter : BOOLEAN, active : BOOLEAN, counted : BOOLEAN]

\* The shape of the state.
TypeOK ==
  /\ rule \in [RuleIds -> Rows \cup {NoRow}]
  /\ brief \in [BriefIds -> [row : {TRUE}, expires : 0 .. MaxTime + 1, match : BOOLEAN] \cup {NoRow}]
  /\ patterns \subseteq Categories
  /\ \A i \in Injections :
       /\ inject[i].pc \in {"idle", "briefs", "patterns", "done", "none"}
       /\ inject[i].rules \subseteq RuleIds /\ inject[i].briefs \subseteq BriefIds
  /\ writer \in [Writers -> {"idle", "insert"}]
  /\ now \in 0 .. MaxTime /\ errors \in 0 .. MaxErrors

-------------------------------------------------------------------------------
(* Rules, briefs and patterns.                                               *)

HandleListUserRules == {r \in RuleIds : rule[r].row}
Active == {r \in HandleListUserRules : rule[r].active}
\* GetActive for the scope "email".
Applicable == {r \in Active : rule[r].scope \in {"email", "all"}}

Insert(r, scope, filter, counted) ==
  /\ ~rule[r].row
  /\ rule' = [rule EXCEPT ![r] = [row |-> TRUE, scope |-> scope, filter |-> filter,
                                 active |-> TRUE, counted |-> counted]]

\* An empty contact_filter is stored as NULL; no limit is looked at.
HandleCreateUserRule(r, scope, filter) ==
  /\ Insert(r, scope, filter, FALSE)
  /\ UNCHANGED <<brief, patterns, inject, writer, now, errors>>

\* Variant: the limit itself is let through.
CountLate(w) ==
  /\ writer[w] = "idle" /\ (Limit = 0 \/ Cardinality(Active) <= Limit)
  /\ writer' = [writer EXCEPT ![w] = "insert"]
  /\ UNCHANGED <<rule, brief, patterns, inject, now, errors>>
\* The store counts first; it stores an empty filter as such.
Count(w) ==
  /\ writer[w] = "idle" /\ (Limit = 0 \/ Cardinality(Active) < Limit)
  /\ writer' = [writer EXCEPT ![w] = "insert"]
  /\ UNCHANGED <<rule, brief, patterns, inject, now, errors>>
Create(w, r, scope) ==
  /\ writer[w] = "insert" /\ Insert(r, scope, TRUE, TRUE)
  /\ writer' = [writer EXCEPT ![w] = "idle"]
  /\ UNCHANGED <<brief, patterns, inject, now, errors>>

HandleUpdateUserRule(r, scope, filter, active) ==
  /\ rule[r].row
  /\ rule' = [rule EXCEPT ![r].scope = scope, ![r].filter = filter, ![r].active = active,
                         ![r].counted = @ /\ (active => rule[r].active)]
  /\ UNCHANGED <<brief, patterns, inject, writer, now, errors>>
HandleDeleteUserRule(r) ==
  /\ rule[r].row /\ rule' = [rule EXCEPT ![r] = NoRow]
  /\ UNCHANGED <<brief, patterns, inject, writer, now, errors>>

\* match says whether a keyword of the mail is among those of the brief.
HandleCreateContextBrief(b, expires, match) ==
  /\ ~brief[b].row
  /\ brief' = [brief EXCEPT ![b] = [row |-> TRUE, expires |-> expires, match |-> match]]
  /\ UNCHANGED <<rule, patterns, inject, writer, now, errors>>
HandleDeleteContextBrief(b) ==
  /\ brief[b].row /\ brief' = [brief EXCEPT ![b] = NoRow]
  /\ UNCHANGED <<rule, patterns, inject, writer, now, errors>>
HandleListContextBriefs == {b \in BriefIds : brief[b].row}
\* Match leaves out what has expired.
Match == {b \in HandleListContextBriefs : brief[b].expires > now /\ brief[b].match}

Upsert(c) ==
  /\ c \in Categories /\ patterns' = patterns \cup {c}
  /\ UNCHANGED <<rule, brief, inject, writer, now, errors>>
\* The old patterns go first; of the new ones the table refuses each, for the
\* names of their categories, which is only logged.
Derived == {"communication", "priority", "reply", "schedule"}
HandleGeneratePatterns ==
  /\ patterns' = Derived \cap Categories
  /\ UNCHANGED <<rule, brief, inject, writer, now, errors>>

-------------------------------------------------------------------------------
(* Inject: three stores, one after the other; an error of one drops all.     *)

Set(i, v) == inject' = [inject EXCEPT ![i] = v]
Nothing == [pc |-> "none", rules |-> {}, briefs |-> {}, patterns |-> {}]
Fails(i) ==
  /\ inject[i].pc \in {"idle", "briefs", "patterns"} /\ errors < MaxErrors
  /\ Set(i, Nothing) /\ errors' = errors + 1
  /\ UNCHANGED <<rule, brief, patterns, writer, now>>

\* scanRules has no place for a NULL.
ScanFails == \E r \in Applicable : ~rule[r].filter
\* As many as fit; the order is that of the priority, which no handler sets.
Fitting(rows) == IF Cardinality(rows) < Budget THEN Cardinality(rows) ELSE Budget
Formatted(rows) == {s \in SUBSET rows : Cardinality(s) = Fitting(rows)}

GetActive(i) ==
  /\ inject[i].pc = "idle"
  /\ IF ScanFails THEN Set(i, Nothing)
     ELSE \E s \in Formatted(Applicable) : Set(i, [Nothing EXCEPT !.pc = "briefs", !.rules = s])
  /\ UNCHANGED <<rule, brief, patterns, writer, now, errors>>
MatchBriefs(i) ==
  /\ inject[i].pc = "briefs"
  /\ Set(i, [inject[i] EXCEPT !.pc = "patterns", !.briefs = Match])
  /\ UNCHANGED <<rule, brief, patterns, writer, now, errors>>
GetConfident(i) ==
  /\ inject[i].pc = "patterns"
  /\ Set(i, [inject[i] EXCEPT !.pc = "done", !.patterns = patterns])
  /\ UNCHANGED <<rule, brief, patterns, writer, now, errors>>

Tick == now < MaxTime /\ now' = now + 1 /\ UNCHANGED <<rule, brief, patterns, inject, writer, errors>>

-------------------------------------------------------------------------------
Init ==
  /\ rule = [r \in RuleIds |-> NoRow] /\ brief = [b \in BriefIds |-> NoRow] /\ patterns = {}
  /\ inject = [i \in Injections |-> [Nothing EXCEPT !.pc = "idle"]]
  /\ writer = [w \in Writers |-> "idle"] /\ now = 0 /\ errors = 0

Next ==
  \/ \E r \in RuleIds, s \in Scopes, f \in BOOLEAN : HandleCreateUserRule(r, s, f)
  \/ \E r \in RuleIds, s \in Scopes, f, a \in BOOLEAN : HandleUpdateUserRule(r, s, f, a)
  \/ \E r \in RuleIds : HandleDeleteUserRule(r)
  \/ \E w \in Writers : Count(w) \/ \E r \in RuleIds, s \in Scopes : Create(w, r, s)
  \/ \E b \in BriefIds : HandleDeleteContextBrief(b)
       \/ \E t \in 0 .. MaxTime + 1, m \in BOOLEAN : HandleCreateContextBrief(b, t, m)
  \/ HandleGeneratePatterns \/ \E c \in Categories : Upsert(c)
  \/ \E i \in Injections : GetActive(i) \/ MatchBriefs(i) \/ GetConfident(i) \/ Fails(i)
  \/ Tick

Spec == Init /\ [][Next]_vars

-------------------------------------------------------------------------------
\* Of the rules that went through the count of UserRuleStore.Create no more are
\* active than the plan allows, and one more for each further call that counted
\* at the same time (rules.go:69-83); the handlers count nothing.
RulesWithinLimit ==
  Limit > 0 => Cardinality({r \in Active : rule[r].counted}) <= Limit + Cardinality(Writers) - 1

\* Without an error of the database a prompt goes without its memory only when
\* an active rule for its scope was created without a filter (injector.go:29,
\* memory_handlers.go:133), and what it gets is still among what is listed or
\* was removed while it was built.
LostOnlyByNull ==
  [][\A i \in Injections :
       /\ inject'[i].pc = "none" /\ inject[i].pc # "none" /\ errors' = errors
            => \E r \in HandleListUserRules : rule[r].active /\ ~rule[r].filter
       /\ inject[i].pc = "idle" /\ inject'[i].pc = "briefs"
            => Cardinality(inject'[i].rules) >= Fitting(Applicable)]_vars

\* The shape of the state, and the limit.
MemoryKept == TypeOK /\ RulesWithinLimit
===============================================================================
