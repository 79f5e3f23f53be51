----------------------------- MODULE ConflictTable -----------------------------
(***************************************************************************)
(* The table of conflicts (calendar/conflict_realtime.go): a check reads   *)
(* the events of a range, then the preferences, computes the conflicts and *)
(* replaces those of the range in one transaction.  Events and preferences *)
(* change meanwhile, and checks overlap.                                   *)
(***************************************************************************)
EXTENDS CalendarRules

CONSTANTS
  Events,     \* rows of calendar_events
  Intervals,  \* when events may be
  Ranges,     \* the ranges that are checked
  PrefRows,   \* the preferences the user may set
  Default,    \* those of a user without a row
  Checks,     \* calls of CheckAfterSync
  MaxChanges, MaxFaults  \* bounds: changes by the user, faults

TableAssumption ==
  /\ RulesAssumption
  /\ \A i \in Intervals : {i.start, i.end} \subseteq Nat /\ i.allDay \in BOOLEAN /\ i.start < i.end
  /\ Ranges # {} /\ \A r \in Ranges : {r.start, r.end} \subseteq Nat /\ r.start < r.end
  /\ \A p \in PrefRows \cup {Default} : p.buffer \in Nat
  /\ IsFiniteSet(Events) /\ {MaxChanges, MaxFaults} \subseteq Nat

VARIABLES
  event,    \* event[e]: the rows there are
  prefs,    \* the row of calendar_preferences, or Default
  table,    \* the rows of calendar_conflicts; b = a stands for no second event
  check,    \* check[c]: the check c
  changes, faults

vars == <<event, prefs, table, check, changes, faults>>

NoRows == [e \in {} |-> 0]
Idle == [pc |-> "idle", range |-> CHOOSE r \in Ranges : TRUE, read |-> NoRows,
         defaults |-> FALSE, found |-> {}, doubled |-> FALSE, gone |-> {},
         quiet |-> TRUE, failed |-> FALSE]

Rows == [a : Events, b : Events, type : {"hard", "soft", "preference"}]

\* The shape of the state.
TypeOK ==
  /\ DOMAIN event \subseteq Events /\ \A e \in DOMAIN event : event[e] \in Intervals
  /\ prefs \in PrefRows \cup {Default}
  /\ table \subseteq Rows
  /\ \A c \in Checks :
       /\ check[c].pc \in {"idle", "prefs", "delete", "commit", "done"}
       /\ check[c].found \subseteq Rows /\ check[c].gone \subseteq Rows
  /\ changes \in 0 .. MaxChanges /\ faults \in 0 .. MaxFaults

\* The calendar has been synced, and nothing checked.
Init ==
  /\ event \in UNION {[set -> Intervals] : set \in SUBSET Events}
  /\ prefs \in PrefRows \cup {Default}
  /\ table = {}
  /\ check = [c \in Checks |-> Idle] /\ changes = 0 /\ faults = 0

Fails == faults < MaxFaults /\ faults' = faults + 1
Works == UNCHANGED faults

\* quiet is a history variable: nothing changed since the check began.
Disturbed(checks) == [c \in Checks |-> [checks[c] EXCEPT !.quiet = FALSE]]

-------------------------------------------------------------------------------
(* The events and the preferences.                                           *)

Upsert(e, interval) ==
  /\ changes < MaxChanges /\ changes' = changes + 1
  /\ event' = [d \in DOMAIN event \cup {e} |-> IF d = e THEN interval ELSE event[d]]
  /\ event' # event
  /\ check' = Disturbed(check)
  /\ UNCHANGED <<prefs, table, faults>>

\* The conflicts of a deleted event go with it.
DeleteEvent(e) ==
  /\ e \in DOMAIN event /\ changes < MaxChanges /\ changes' = changes + 1
  /\ event' = [d \in DOMAIN event \ {e} |-> event[d]]
  /\ table' = {row \in table : e \notin {row.a, row.b}}
  /\ check' = Disturbed(check)
  /\ UNCHANGED <<prefs, faults>>

UpdatePreferences(row) ==
  /\ changes < MaxChanges /\ changes' = changes + 1
  /\ prefs' = row /\ prefs' # prefs
  /\ check' = Disturbed(check)
  /\ UNCHANGED <<event, table, faults>>

-------------------------------------------------------------------------------
(* CheckAfterSync.                                                           *)

\* The events of the range, or those of them that could be read.
GetEventsInRange(c, range) ==
  /\ check[c].pc = "idle"
  /\ \E read \in Read(event, range.start, range.end) :
       /\ IF DOMAIN read = InRange(event, range.start, range.end) THEN Works ELSE Fails
       /\ check' = [check EXCEPT ![c] =
            [Idle EXCEPT !.pc = "prefs", !.range = range, !.read = read]]
  /\ UNCHANGED <<event, prefs, table, changes>>

PreferenceRows(row, p) ==
  {[a |-> e, b |-> e, type |-> "preference"] : e \in {d \in DOMAIN row : Violations(row[d], p) # {}}}

\* getPreferences: a row that cannot be read counts as no row.
PrefsRead(defaults) == IF defaults THEN Default ELSE prefs

\* The preferences and DetectConflicts.  doubled: an event violates two of
\* them, which makes two rows with one key.
Detect(c, defaults) ==
  /\ check[c].pc = "prefs"
  /\ IF defaults THEN Fails ELSE Works
  /\ LET row == check[c].read
         p == PrefsRead(defaults)
     IN check' = [check EXCEPT ![c].pc = "delete", ![c].defaults = defaults,
          ![c].found = PairConflicts(row, DOMAIN row, p.buffer) \cup PreferenceRows(row, p),
          ![c].doubled = \E e \in DOMAIN row : Cardinality(Violations(row[e], p)) > 1]
  /\ UNCHANGED <<event, prefs, table, changes>>

\* Variant: the rows of the whole calendar.
DeleteOldOfAll(c) ==
  /\ check[c].pc = "delete"
  /\ check' = [check EXCEPT ![c].pc = "commit", ![c].gone = table]
  /\ UNCHANGED <<event, prefs, table, changes, faults>>

\* Begin and DELETE: the rows whose first event is in the range by now.
DeleteOld(c) ==
  /\ check[c].pc = "delete"
  /\ LET events == InRange(event, check[c].range.start, check[c].range.end) IN
     check' = [check EXCEPT ![c].pc = "commit", ![c].gone = {row \in table : row.a \in events}]
  /\ UNCHANGED <<event, prefs, table, changes, faults>>

\* Rows of one pair replace each other.
Upserted(rows, found) ==
  {row \in rows : \A new \in found : <<row.a, row.b>> # <<new.a, new.b>>} \cup found

\* An INSERT fails, and with it the transaction: an event is gone, or a row
\* about preferences is there already, which ON CONFLICT does not cover.
InsertFails(c) ==
  \/ check[c].doubled
  \/ \E row \in check[c].found : ~({row.a, row.b} \subseteq DOMAIN event)
  \/ \E row \in check[c].found : row.type = "preference" /\ row \in table \ check[c].gone

Commit(c) ==
  /\ check[c].pc = "commit"
  /\ table' = IF InsertFails(c) THEN table ELSE Upserted(table \ check[c].gone, check[c].found)
  /\ check' = [Disturbed(check) EXCEPT ![c] =
       [check[c] EXCEPT !.pc = "done", !.failed = InsertFails(c)]]
  /\ UNCHANGED <<event, prefs, changes, faults>>

\* No connection, or a statement of the transaction fails: the check ends.
Fault(c) ==
  /\ check[c].pc \in {"prefs", "delete", "commit"}
  /\ check' = [check EXCEPT ![c].pc = "done", ![c].failed = TRUE]
  /\ Fails
  /\ UNCHANGED <<event, prefs, table, changes>>

Next ==
  \/ \E e \in Events : DeleteEvent(e) \/ \E interval \in Intervals : Upsert(e, interval)
  \/ \E row \in PrefRows : UpdatePreferences(row)
  \/ \E c \in Checks :
       \/ \E range \in Ranges : GetEventsInRange(c, range)
       \/ \E defaults \in BOOLEAN : Detect(c, defaults)
       \/ DeleteOld(c) \/ Commit(c) \/ Fault(c)

Spec == Init /\ [][Next]_vars

-------------------------------------------------------------------------------
(* Properties.                                                               *)

Ends(c) == check[c].pc = "commit" /\ check'[c].pc = "done"

\* The events between whose ends and starts less than gap lies; 0 is overlap.
Near(a, b, gap) ==
  /\ ~event[a].allDay /\ ~event[b].allDay
  /\ event[a].start < event[b].end + gap /\ event[b].start < event[a].end + gap

\* What a check stores that nothing disturbed is what the definition says:
\* of the pairs it has read those that overlap, and those nearer than the
\* buffer, and no other of its range.  A read that failed is not seen: the
\* check goes by the default buffer, and pairs with an event that was not read
\* lose their rows (conflicts.go:25, conflict_realtime.go:68, :103).
ConflictsExact ==
  [][\A c \in Checks : Ends(c) /\ check[c].quiet /\ ~check'[c].failed =>
       LET inRange == InRange(event, check[c].range.start, check[c].range.end)
           Stored(types) == {{pair.a, pair.b} : pair \in
             {r \in table' : {r.a, r.b} \subseteq inRange /\ r.type \in types}}
           Pairs(gap) == {p \in kSubset(2, DOMAIN check[c].read) :
                            \E a, b \in p : a # b /\ Near(a, b, gap)}
       IN /\ Stored({"hard"}) = Pairs(0)
          /\ Stored({"hard", "soft"}) = Pairs(PrefsRead(check[c].defaults).buffer)]_vars

\* Two events that overlap stay a conflict once they are one, except for a
\* check that was disturbed after it read them, one that could not read both,
\* or one whose range ends between their starts: it deletes what it cannot see
\* (conflict_realtime.go:76, :136).
ConflictsStay ==
  [][\A pair \in table \ table' :
       \/ ~({pair.a, pair.b} \subseteq DOMAIN event') \/ pair.type # "hard"
       \/ ~Near(pair.a, pair.b, 0)
       \/ \E new \in table' : {new.a, new.b} = {pair.a, pair.b}
       \/ \E c \in Checks :
            LET inRange == InRange(event, check[c].range.start, check[c].range.end)
            IN /\ Ends(c)
               /\ check[c].quiet => /\ pair.a \in inRange
                                    /\ ~({pair.a, pair.b} \subseteq DOMAIN check[c].read)]_vars

\* The table has the conflicts of the events that were read (conflict_realtime.go:22-161).
ConflictsMatch == []TypeOK /\ ConflictsExact /\ ConflictsStay
===============================================================================
