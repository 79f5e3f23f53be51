---------------------------- MODULE CalendarRules ----------------------------
(***************************************************************************)
(* What the calendar computes (calendar/conflicts.go, slot_engine.go,      *)
(* slot_scoring.go): the conflicts among events and the slots it suggests. *)
(* Times are numbers of units since a Sunday; an event and a slot are      *)
(* records with start and end.                                             *)
(***************************************************************************)
EXTENDS Integers, Sequences, FiniteSets, FiniteSetsExt

CONSTANTS
  PerHour,         \* units of an hour
  Increment,       \* SlotIncrementMinutes
  MaxSuggestions   \* MaxSlotSuggestions

RulesAssumption == {PerHour, Increment, MaxSuggestions} \subseteq Nat \ {0}

\* CalendarPreference: preferred hours, buffer, days without meetings and
\* focus blocks, which are intervals of the day.
Preferences(startHour, endHour, buffer, noMeetingDays, focusBlocks) ==
  [startHour |-> startHour, endHour |-> endHour, buffer |-> buffer,
   noMeetingDays |-> noMeetingDays, focusBlocks |-> focusBlocks]

Day == 24 * PerHour
OfDay(t) == t % Day                      \* the clock reading of t
Hour(t) == OfDay(t) \div PerHour
Weekday(t) == (t \div Day) % 7

Timed(start, end, allDay) == [start |-> start, end |-> end, allDay |-> allDay]

\* The rows the queries select for a range: what overlaps it.
InRange(row, start, end) ==
  {e \in DOMAIN row : row[e].start < end /\ row[e].end > start}

\* What getEventsInRange returns: a row that does not scan is left out, and so
\* is what a connection that breaks had still to send.  There is no error.
Read(row, start, end) == {[e \in seen |-> row[e]] : seen \in SUBSET InRange(row, start, end)}

-------------------------------------------------------------------------------
(* DetectConflicts.                                                          *)

\* The events in the order of their starts; equal starts in any order.
Sorted(row, events) ==
  CHOOSE s \in [1 .. Cardinality(events) -> events] :
    /\ \A i, j \in DOMAIN s : i # j => s[i] # s[j]
    /\ \A i, j \in DOMAIN s : i < j => row[s[i]].start <= row[s[j]].start

\* The inner loop reaches j from i: it breaks at the first event that starts
\* no earlier than the buffer after the end of i.
Scanned(row, s, i, j, buffer) ==
  \A k \in i + 1 .. j : row[s[k]].start < row[s[i]].end + buffer

PairConflicts(row, events, buffer) ==
  LET s == Sorted(row, events)
      pairs == {p \in (DOMAIN s) \X (DOMAIN s) :
                  /\ p[1] < p[2] /\ Scanned(row, s, p[1], p[2], buffer)
                  /\ ~row[s[p[1]]].allDay /\ ~row[s[p[2]]].allDay}
  IN {[a |-> s[p[1]], b |-> s[p[2]],
       type |-> IF row[s[p[2]]].start < row[s[p[1]]].end THEN "hard" ELSE "soft"] : p \in pairs}

\* checkPreferences; the end hour is compared without its minutes.
Violations(e, prefs) ==
  IF e.allDay THEN {} ELSE
    {v \in {<<"early">>, <<"late">>, <<"day">>} \cup prefs.focusBlocks :
      CASE v = <<"early">> -> Hour(e.start) < prefs.startHour
        [] v = <<"late">> -> Hour(e.end) > prefs.endHour
        [] v = <<"day">> -> Weekday(e.start) \in prefs.noMeetingDays
        [] OTHER -> OfDay(e.start) < v[2] /\ OfDay(e.end) > v[1]}

-------------------------------------------------------------------------------
(* SuggestSlots.                                                             *)

Slot(start, duration) == [start |-> start, end |-> start + duration]

\* hasConflict: the buffer counts on both sides; all-day events do not.
HasConflict(slot, row, events, prefs) ==
  \E e \in events :
    /\ ~row[e].allDay
    /\ slot.start < row[e].end + prefs.buffer /\ slot.end > row[e].start - prefs.buffer

EndHour(t) == IF OfDay(t) % PerHour > 0 THEN Hour(t) + 1 ELSE Hour(t)

BusinessHours(slot, prefs) ==
  Hour(slot.start) >= prefs.startHour /\ EndHour(slot.end) <= prefs.endHour

Candidates(row, prefs, start, end, duration) ==
  LET events == InRange(row, start, end)
      starts == {t \in start .. end : (t - start) % Increment = 0 /\ t + duration <= end}
  IN {slot \in {Slot(t, duration) : t \in starts} :
        /\ Weekday(slot.start) \notin prefs.noMeetingDays
        /\ BusinessHours(slot, prefs)
        /\ ~HasConflict(slot, row, events, prefs)}

\* Of the five scores two differ between candidates.  In hundredths:
Blocked(slot, prefs) ==
  {fb \in prefs.focusBlocks : OfDay(slot.start) < fb[2] /\ OfDay(slot.end) > fb[1]}
ScorePreference(slot, prefs) ==
  LET score == 100 - 50 * Cardinality(Blocked(slot, prefs)) IN IF score < 0 THEN 0 ELSE score

ScoreTimeOfDay(slot, meetingType) ==
  LET hour == Hour(slot.start) IN
  CASE meetingType = "call_30m" ->
         IF hour \in 9 .. 11 THEN 100 ELSE IF hour \in 12 .. 13 THEN 70 ELSE 50
    [] meetingType = "workshop_2h" ->
         IF hour \in 13 .. 15 THEN 100 ELSE IF hour \in 10 .. 12 THEN 70 ELSE 50
    [] OTHER ->
         IF hour \in 10 .. 13 THEN 100 ELSE IF hour \in 9 .. 15 THEN 80 ELSE 60

ScoreSlot(slot, prefs, meetingType) ==
  25 * ScorePreference(slot, prefs) + 20 * ScoreTimeOfDay(slot, meetingType)

\* The first MaxSuggestions by score; the sort is not stable, so of equal
\* ones any.
Suggestions(row, prefs, start, end, duration, meetingType) ==
  LET candidates == Candidates(row, prefs, start, end, duration)
      score(slot) == ScoreSlot(slot, prefs, meetingType)
      number == IF Cardinality(candidates) < MaxSuggestions
                  THEN Cardinality(candidates) ELSE MaxSuggestions
  IN {best \in kSubset(number, candidates) :
        \A slot \in best, other \in candidates \ best : score(slot) >= score(other)}
===============================================================================
