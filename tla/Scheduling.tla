------------------------------ MODULE Scheduling ------------------------------
(***************************************************************************)
(* Scheduling requests (calendar/scheduling_detect.go, auto_suggest.go,    *)
(* slot_approve.go): a request is detected, gets suggested slots and is    *)
(* approved, each in statements of its own while events come and go and    *)
(* other approvals run.  A statement that fails ends its request, but for  *)
(* the reads of getPreferences and getEventsInRange.                       *)
(***************************************************************************)
EXTENDS CalendarRules

CONSTANTS
  Requests,   \* rows of scheduling_requests
  Approvals,  \* requests to approve a slot
  Events,     \* rows of calendar_events
  Intervals,  \* when events may be
  Searches,   \* what is looked for: start, end, duration, type
  Prefs,      \* calendar_preferences of the user
  Default,    \* those of a user whose row cannot be read
  NoSlot

SchedulingAssumption ==
  /\ RulesAssumption
  /\ \A i \in Intervals : {i.start, i.end} \subseteq Nat /\ i.start < i.end
  /\ Searches # {} /\ \A s \in Searches :
       {s.start, s.end, s.duration} \subseteq Nat /\ s.start <= s.end /\ s.duration > 0
  /\ \A p \in {Prefs, Default} :
       {p.startHour, p.endHour, p.buffer} \subseteq Nat /\ IsFiniteSet(p.focusBlocks)
  /\ IsFiniteSet(Events)

VARIABLES
  event,   \* event[e]: the rows there are
  req,     \* req[r]: the row
  auto,    \* auto[r]: the suggestion of r under way
  appr     \* appr[a]: the approval a

vars == <<event, req, auto, appr>>

NoRequest == [status |-> "none", slots |-> {}, accepted |-> NoSlot]
NoSuggestion == [pc |-> "idle", slots |-> {}, search |-> CHOOSE s \in Searches : TRUE,
                 defaults |-> FALSE]
NoApproval == [pc |-> "idle", req |-> CHOOSE r \in Requests : TRUE, slot |-> NoSlot, late |-> FALSE]

Slots == UNION {{Slot(t, s.duration) : t \in s.start .. s.end} : s \in Searches}

\* The shape of the state.
TypeOK ==
  /\ DOMAIN event \subseteq Events /\ \A e \in DOMAIN event : event[e] \in Intervals
  /\ req \in [Requests -> [status : {"none", "detected", "suggested", "accepted"},
                           slots : SUBSET Slots, accepted : Slots \cup {NoSlot}]]
  /\ \A r \in Requests : auto[r].pc \in {"idle", "find", "store", "done"}
  /\ \A a \in Approvals : appr[a].pc \in {"idle", "check", "update", "done"}

Init ==
  /\ event = [e \in {} |-> 0]
  /\ req = [r \in Requests |-> NoRequest]
  /\ auto = [r \in Requests |-> NoSuggestion]
  /\ appr = [a \in Approvals |-> NoApproval]

\* An event as the sync stores it.
Upsert(e, interval) ==
  /\ event' = [d \in DOMAIN event \cup {e} |-> IF d = e THEN interval ELSE event[d]]
  /\ event' # event
  /\ UNCHANGED <<req, auto, appr>>

-------------------------------------------------------------------------------
(* Detection and suggestion.                                                 *)

\* ProcessAnalysis; a request of high confidence goes on to the suggestions.
ProcessAnalysis(r, s, confident) ==
  /\ req[r].status = "none"
  /\ req' = [req EXCEPT ![r].status = "detected"]
  /\ auto' = [auto EXCEPT ![r].pc = IF confident THEN "find" ELSE "done", ![r].search = s]
  /\ UNCHANGED <<event, appr>>

\* getPreferences: a row that cannot be read counts as no row.
PrefsRead(defaults) == IF defaults THEN Default ELSE Prefs

\* SuggestSlots, over the events that could be read; nothing is stored without
\* slots or after an error.
Suggest(r, defaults) ==
  /\ auto[r].pc = "find"
  /\ LET s == auto[r].search IN
     \E row \in Read(event, s.start, s.end) :
     \E slots \in Suggestions(row, PrefsRead(defaults), s.start, s.end, s.duration, s.type) :
       auto' = [auto EXCEPT ![r].pc = IF slots = {} THEN "done" ELSE "store", ![r].slots = slots,
                            ![r].defaults = defaults]
  /\ UNCHANGED <<event, req, appr>>

StoreSuggestions(r) ==
  /\ auto[r].pc = "store"
  /\ req' = [req EXCEPT ![r].slots = auto[r].slots, ![r].status = "suggested"]
  /\ auto' = [auto EXCEPT ![r].pc = "done"]
  /\ UNCHANGED <<event, appr>>

\* No connection, or the query of the events or the UPDATE fails.
SuggestFails(r) ==
  /\ auto[r].pc \in {"find", "store"}
  /\ auto' = [auto EXCEPT ![r].pc = "done"]
  /\ UNCHANGED <<event, req, appr>>

-------------------------------------------------------------------------------
(* ApproveSlot.                                                              *)

\* Variant: the status of the request is not looked at.
LoadAnyStatus(a, r) ==
  /\ appr[a].pc = "idle" /\ req[r].slots # {}
  /\ \E slot \in req[r].slots :
       appr' = [appr EXCEPT ![a] = [NoApproval EXCEPT !.pc = "check", !.req = r, !.slot = slot]]
  /\ UNCHANGED <<event, req, auto>>

\* The request must be "suggested" and the index one of its slots.
Load(a, r) ==
  /\ appr[a].pc = "idle" /\ req[r].status = "suggested"
  /\ \E slot \in req[r].slots :
       appr' = [appr EXCEPT ![a] = [NoApproval EXCEPT !.pc = "check", !.req = r, !.slot = slot]]
  /\ UNCHANGED <<event, req, auto>>

Hard(row) == \E c \in PairConflicts(row, DOMAIN row, Prefs.buffer) : c.type = "hard"

\* The conflicts among the events in the slot that could be read; the slot is
\* not one of them.  The preferences say nothing about the hard ones.
CheckConflicts(a) ==
  /\ appr[a].pc = "check"
  /\ \E row \in Read(event, appr[a].slot.start, appr[a].slot.end) :
       appr' = [appr EXCEPT ![a].pc = IF Hard(row) THEN "done" ELSE "update"]
  /\ UNCHANGED <<event, req, auto>>

\* By id, whatever the status is by now.  late is a history variable: another
\* approval of the request was faster.  No event is created.
Update(a) ==
  /\ appr[a].pc = "update"
  /\ req' = [req EXCEPT ![appr[a].req].status = "accepted", ![appr[a].req].accepted = appr[a].slot]
  /\ appr' = [o \in Approvals |->
                IF o = a THEN [appr[o] EXCEPT !.pc = "done"]
                ELSE IF appr[o].req = appr[a].req /\ appr[o].pc \in {"check", "update"}
                       THEN [appr[o] EXCEPT !.late = TRUE] ELSE appr[o]]
  /\ UNCHANGED <<event, auto>>

\* Also a panic of DetectConflicts, which gets no preferences when there is no
\* connection for them.
ApproveFails(a) ==
  /\ appr[a].pc \in {"check", "update"}
  /\ appr' = [appr EXCEPT ![a].pc = "done"]
  /\ UNCHANGED <<event, req, auto>>

Next ==
  \/ \E e \in Events, interval \in Intervals : Upsert(e, interval)
  \/ \E r \in Requests :
       \/ \E s \in Searches, confident \in BOOLEAN : ProcessAnalysis(r, s, confident)
       \/ \E defaults \in BOOLEAN : Suggest(r, defaults)
       \/ StoreSuggestions(r) \/ SuggestFails(r)
  \/ \E a \in Approvals :
       (\E r \in Requests : Load(a, r)) \/ CheckConflicts(a) \/ Update(a) \/ ApproveFails(a)

Spec == Init /\ [][Next]_vars

-------------------------------------------------------------------------------
(* Properties.                                                               *)

\* An accepted request stays accepted, and its slot only changes for an
\* approval that had read the request before: the last of those that overlap
\* wins (slot_approve.go:47).
AcceptedStands ==
  [][\A r \in Requests : req[r].status = "accepted" =>
       /\ req'[r].status = "accepted"
       /\ req'[r] # req[r] =>
            \E a \in Approvals : appr[a].req = r /\ appr[a].late /\ appr'[a].pc # appr[a].pc]_vars

\* A suggested slot lies between the preferred hours of its first day, or
\* ends on a later day: the end hour of such a slot is small again, so a long
\* meeting may run through the night (slot_engine.go:66).  The hours are the
\* default ones for a suggestion that could not read the row.
WithinHours(slot, prefs) ==
  LET midnight == slot.start - OfDay(slot.start)
  IN /\ slot.start >= midnight + prefs.startHour * PerHour
     /\ slot.end <= midnight + prefs.endHour * PerHour \/ slot.end >= midnight + Day
SuggestedWithinHours ==
  \A r \in Requests : \A slot \in auto[r].slots : WithinHours(slot, PrefsRead(auto[r].defaults))

\* A slot inside a focus block is suggested only if all free ones are too,
\* whatever the time of day does to their scores and whichever events were
\* read (slot_scoring.go:12).
FreeBeforeFocus ==
  [][\A r \in Requests :
       LET s == auto[r].search
           chosen == auto'[r].slots
           prefs == PrefsRead(auto'[r].defaults)
       IN /\ auto[r].pc = "find"
          /\ \E slot \in chosen : Blocked(slot, prefs) # {}
          => \A slot \in Candidates(event, prefs, s.start, s.end, s.duration) :
               Blocked(slot, prefs) = {} => slot \in chosen]_vars

\* What is suggested keeps the preferences, and what was accepted stands
\* (slot_engine.go:26-118, slot_approve.go:25-99).
SlotsStand == [](TypeOK /\ SuggestedWithinHours) /\ AcceptedStands /\ FreeBeforeFocus
===============================================================================
