------------------------------- MODULE Learning -------------------------------
(***************************************************************************)
(* What is learnt from the user's corrections (ai/learning): a quick       *)
(* update appends examples when a day had many signals, the weekly         *)
(* synthesis replaces them.  Both read the signals, call the model, and    *)
(* store its answer in one statement.                                      *)
(***************************************************************************)
EXTENDS Naturals, Sequences

CONSTANTS
  Learners,             \* runs of QuickUpdater and Synthesizer
  Enough,               \* a quick update needs more signals of the day (5)
  Cap,                  \* examples a quick update keeps (20)
  Week,                 \* days the synthesis looks back
  MaxDay, MaxSignals    \* bounds

LearningAssumption ==
  {Cap, Week} \subseteq Nat \ {0} /\ {MaxDay, MaxSignals} \subseteq Nat /\ Enough < MaxSignals

VARIABLES
  signals,   \* signals[d]: rows of preference_signals of the day d
  examples,  \* user_prompt_config.few_shot_examples: a list, the JSON Null or
             \* SQL's Absent; None without a row
  learner,   \* learner[l]: what the run l has asked for
  day

vars == <<signals, examples, learner, day>>

Kinds == {"quick", "weekly"}
None == <<"none">>
Null == <<"null">>
Absent == <<"absent">>
Lists == UNION {[1 .. n -> Kinds] : n \in 0 .. Cap}

\* The shape of the state.
TypeOK ==
  /\ signals \in [0 .. MaxDay -> 0 .. MaxSignals] /\ day \in 0 .. MaxDay
  /\ examples \in Lists \cup {None, Null, Absent}
  /\ learner \in [Learners -> Kinds \cup {"idle"}]

Init ==
  /\ signals = [d \in 0 .. MaxDay |-> 0] /\ day = 0
  /\ examples = None /\ learner = [l \in Learners |-> "idle"]

RecordSignal ==
  /\ signals[day] < MaxSignals
  /\ signals' = [signals EXCEPT ![day] = @ + 1]
  /\ UNCHANGED <<examples, learner, day>>
Tick == day < MaxDay /\ day' = day + 1 /\ UNCHANGED <<signals, examples, learner>>

\* Nothing marks the signals of a run as used: the next one finds them again.
CountToday == signals[day]
GetRecent(days) == {d \in 0 .. day : d + days >= day /\ signals[d] > 0}
Asked(l, kind) ==
  /\ learner[l] = "idle"
  /\ learner' = [learner EXCEPT ![l] = kind]
  /\ UNCHANGED <<signals, examples, day>>
RunIfNeeded(l) == CountToday > Enough /\ Asked(l, "quick")
RunWeeklySynthesis(l) == GetRecent(Week) # {} /\ Asked(l, "weekly")
CallFails(l) ==
  /\ learner[l] # "idle" /\ learner' = [learner EXCEPT ![l] = "idle"]
  /\ UNCHANGED <<signals, examples, day>>

\* An answer that names no examples is marshalled as null.
Answers(kind) == {Null} \cup {e \in Lists : \A k \in DOMAIN e : e[k] = kind}

Stored(l, value) ==
  /\ examples' = value /\ learner' = [learner EXCEPT ![l] = "idle"]
  /\ UNCHANGED <<signals, day>>

\* The first of old and new, up to the cap.  A JSON null is no array: the
\* statement fails and the row stays as it is.  SQL's NULL has no elements, and
\* what jsonb_agg makes of none is that NULL.
Elements(value) == IF value = Absent THEN <<>> ELSE value
Merged(old, new) ==
  IF old = None THEN new
  ELSE IF Null \in {old, new} THEN old
  ELSE LET all == Elements(old) \o new IN
       IF all = <<>> THEN Absent ELSE SubSeq(all, 1, IF Len(all) < Cap THEN Len(all) ELSE Cap)
AppendExamples(l) ==
  /\ learner[l] = "quick"
  /\ \E new \in Answers("quick") : Stored(l, Merged(examples, new))
StoreConfig(l) ==
  /\ learner[l] = "weekly"
  /\ \E new \in Answers("weekly") : Stored(l, new)

Next ==
  \/ RecordSignal \/ Tick
  \/ \E l \in Learners :
       RunIfNeeded(l) \/ RunWeeklySynthesis(l) \/ CallFails(l) \/ AppendExamples(l) \/ StoreConfig(l)

Spec == Init /\ [][Next]_vars

-------------------------------------------------------------------------------
KeepsOldest(old, new) == Len(old) <= Len(new) /\ SubSeq(new, 1, Len(old)) = old

\* Only the synthesis takes examples away, or ends a JSON null: whatever quick
\* updates overlap with it or with each other append at most, and keep the
\* oldest when the list is full; an answer without examples may make the empty
\* list SQL's NULL, which the next one ends (quick_update.go:93-107,
\* synthesis.go:101).
OldestStay ==
  [][examples' # examples =>
       \/ examples = None
       \/ \E l \in Learners : learner[l] = "weekly" /\ learner'[l] = "idle"
       \/ /\ {None, Null} \cap {examples, examples'} = {}
          /\ KeepsOldest(Elements(examples), Elements(examples'))]_vars
===============================================================================
