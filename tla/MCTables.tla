------------------------------- MODULE MCTables -------------------------------
(***************************************************************************)
(* What must hold at every moment, each module on a small instance of its  *)
(* own and without fairness: the cron scheduler, the calendar, the tasks,  *)
(* the approval of drafts and the promo codes.  The parts share no         *)
(* variable; a behaviour is of the one it begins as, and the state of the  *)
(* others stays at its Init.                                               *)
(***************************************************************************)
EXTENDS Integers, Sequences, TLC

CONSTANTS
  Users, Processes, Requests, Emails, NoSlot,
  Jobs, AtStart, Pooled, Interval, Conns, Boot, CronTime, MaxStops, MaxFailures,  \* cron
  Events, Malformed, MaxRetries, CalendarChanges,          \* calendar
  Manual, Items, Window, TaskTime, TaskRows,               \* extraction
  Periods, SeriesTime, SeriesRows,                         \* recurrence
  Tasks, Kinds, Offset, Deadlines, RemindTime,             \* reminders
  Delegations, Nobody, MaxFollowUps, FollowTime,           \* follow-ups
  PerHour, Increment, MaxSuggestions,                      \* what the calendar counts in
  Meetings, Searches, SlotPrefs,                           \* scheduling
  Times, Ranges, PrefRows, Default, TableChanges, TableFaults, \* conflicts
  Drafts, NoDraft, MaxEdits, MaxMs,                        \* approval
  Tenants, TenantOf, Codes, Trial, Plans, PlanOf, MaxUses, ValidUntil, Days, PromoTime,
  MaxErrors                                                \* of each part

\* Values for the constants that are functions.
MCAtStart == <<"poll">>
MCInterval == [j \in Jobs |-> IF j = "poll" THEN 1 ELSE 2]
MCOffset == [k \in Kinds |-> IF k = "48h" THEN 1 ELSE 0]
MCTenantOf == [u \in Users |-> u]
MCItems == [e \in Emails |-> IF e = "e1" THEN <<"A", "B">> ELSE <<"A">>]
MCPlanOf == [c \in Codes |-> "attache"]
MCMaxUses == [c \in Codes |-> IF c \in Trial THEN 1 ELSE 2]
MCValidUntil == [c \in Codes |-> 1]

\* The calendar counts in half hours.
Timed(start, end) == [start |-> start, end |-> end, allDay |-> FALSE]
AllDay(start, end) == [start |-> start, end |-> end, allDay |-> TRUE]
Preferences(startHour, endHour, buffer, days, blocks) ==
  [startHour |-> startHour, endHour |-> endHour, buffer |-> buffer,
   noMeetingDays |-> days, focusBlocks |-> blocks]
MCMeetings == {Timed(18, 20), Timed(19, 23), AllDay(0, 96)}
MCSearches == {[start |-> 22, end |-> 34, duration |-> 3, type |-> "workshop_2h"],
               [start |-> 34, end |-> 52, duration |-> 9, type |-> "custom"]}
MCSlotPrefs == Preferences(9, 16, 1, {3}, {<<26, 30>>})
MCTimes == {Timed(18, 22), Timed(20, 24), Timed(25, 27), AllDay(0, 96)}
MCRanges == {[start |-> 16, end |-> 30], [start |-> 16, end |-> 19]}
MCPrefRows == {Preferences(9, 12, 2, {}, {<<20, 26>>})}
MCDefault == Preferences(9, 18, 1, {}, {})

VARIABLES part,
          row, sched, ticked, now, ran, stops, failures, wrong,    \* cron
          provider, up, clock, oldest, consent, token, cached, sync, missed, unlisted, faults,
          rows, work, loose, time, errors,                         \* extraction
          series, job, shared, day, lost,                          \* recurrence
          task, notify, hour, skipped,                             \* reminders
          to, deleg, follow, mails, read, tick, slips,             \* follow-ups
          event, req, auto, appr,                                  \* scheduling
          entry, prefs, table, check, changes, broken,             \* conflicts
          draft, reply, mail, sent, ms,                            \* approval
          code, redeemed, tenant, apply, sweep, week               \* promo codes

cron == <<row, sched, ticked, now, ran, stops, failures, wrong>>
calendar == <<provider, up, clock, oldest, consent, token, cached, sync, missed, unlisted, faults>>
extraction == <<rows, work, loose, time, errors>>
recurrence == <<series, job, shared, day, lost>>
reminders == <<task, notify, hour, skipped>>
followUps == <<to, deleg, follow, mails, read, tick, slips>>
tasks == <<extraction, recurrence, reminders, followUps>>
scheduling == <<event, req, auto, appr>>
conflicts == <<entry, prefs, table, check, changes, broken>>
approval == <<draft, reply, mail, sent, ms>>
promo == <<code, redeemed, tenant, apply, sweep, week>>
vars == <<part, cron, calendar, tasks, scheduling, conflicts, approval, promo>>

C == INSTANCE CronScheduler WITH errors <- wrong, MaxTime <- CronTime
S == INSTANCE CalendarSync WITH
       row <- cached, Syncs <- Processes, MaxChanges <- CalendarChanges, MaxFaults <- MaxErrors
E == INSTANCE TaskExtraction WITH
       now <- time, Workers <- Processes, MaxTime <- TaskTime, MaxRows <- TaskRows
R == INSTANCE TaskRecurrence WITH
       rows <- series, now <- day, errors <- lost, Processors <- Processes,
       MaxTime <- SeriesTime, MaxRows <- SeriesRows
N == INSTANCE TaskReminders WITH now <- hour, errors <- skipped, MaxTime <- RemindTime
D == INSTANCE TaskDelegation WITH
       check <- follow, shared <- read, now <- tick, errors <- slips,
       Checkers <- Processes, MaxTime <- FollowTime

L == INSTANCE Scheduling WITH
       Approvals <- Processes, Intervals <- Meetings, Prefs <- SlotPrefs
T == INSTANCE ConflictTable WITH
       event <- entry, faults <- broken, Checks <- Processes, Intervals <- Times,
       MaxChanges <- TableChanges, MaxFaults <- TableFaults
A == INSTANCE DraftApproval WITH row <- draft, req <- reply, Requests <- Processes
P == INSTANCE PromoCodes WITH now <- week, Applies <- Processes, MaxTime <- PromoTime

ASSUME C!CronAssumption /\ S!CalendarAssumption /\ E!ExtractionAssumption
ASSUME R!RecurrenceAssumption /\ N!RemindersAssumption /\ D!DelegationAssumption
ASSUME L!SchedulingAssumption /\ T!TableAssumption /\ A!ApprovalAssumption /\ P!PromoAssumption

\* Of the initial states of a part one is enough while another part runs.
Init ==
  /\ part \in {"cron", "calendar", "extraction", "recurrence", "reminders", "followUps",
                "scheduling", "conflicts", "approval", "promo"}
  /\ C!Init /\ S!Init /\ E!Init /\ R!Init /\ N!Init /\ D!Init /\ L!Init /\ T!Init
  /\ A!Init /\ P!Init
  /\ part # "cron" => \A u \in Users, j \in Jobs : ran[u][j] = 0
  /\ part # "calendar" => provider = "google"
  /\ part # "conflicts" => DOMAIN entry = {} /\ prefs = Default

Is(p) == part = p /\ UNCHANGED part
Next ==
  \/ Is("cron") /\ C!Next /\ UNCHANGED <<calendar, tasks, scheduling, conflicts, approval, promo>>
  \/ Is("calendar") /\ S!Next /\ UNCHANGED <<cron, tasks, scheduling, conflicts, approval, promo>>
  \/ /\ UNCHANGED <<cron, calendar, scheduling, conflicts, approval, promo>>
     /\ \/ Is("extraction") /\ E!Next /\ UNCHANGED <<recurrence, reminders, followUps>>
        \/ Is("recurrence") /\ R!Next /\ UNCHANGED <<extraction, reminders, followUps>>
        \/ Is("reminders") /\ N!Next /\ UNCHANGED <<extraction, recurrence, followUps>>
        \/ Is("followUps") /\ D!Next /\ UNCHANGED <<extraction, recurrence, reminders>>
  \/ Is("scheduling") /\ L!Next /\ UNCHANGED <<cron, calendar, tasks, conflicts, approval, promo>>
  \/ Is("conflicts") /\ T!Next /\ UNCHANGED <<cron, calendar, tasks, scheduling, approval, promo>>
  \/ Is("approval") /\ A!Next /\ UNCHANGED <<cron, calendar, tasks, scheduling, conflicts, promo>>
  \/ Is("promo") /\ P!Next /\ UNCHANGED <<cron, calendar, tasks, scheduling, conflicts, approval>>

Spec == Init /\ [][Next]_vars

\* The schedulers alone.  A goroutine that can run does, and the pool serves
\* its waiters in order.
RecoverySpec ==
  /\ part = "cron" /\ Spec
  /\ \A u \in Users :
       SF_vars(/\ Is("cron") /\ C!Run(u)
               /\ UNCHANGED <<calendar, tasks, scheduling, conflicts, approval, promo>>)

\* The processes are interchangeable: no part chooses among them.
Symmetry == Permutations(Processes)

-------------------------------------------------------------------------------
\* The recovery calls what was overdue, what completed returns, and one stop
\* leaves at most one row running (CronScheduler; cron.go:146-217).
JobsAreRecovered == C!JobsAreRecovered
\* Every recovery ends, as cron.go:144 has it (CronScheduler; cron.go:159).
RecoveryEnds == C!RecoveryEnds
\* The rows are the events, but for what was lost (CalendarSync; sync.go:194).
RowsMirrorEvents == S!RowsMirrorEvents
\* Uses, redemptions and the plans given agree, and only trials that expired are
\* ended (PromoCodes; promo.go:95-160, promo_trial.go:100).
CodesKept == []P!CodesAccounted /\ P!OnlyTrialsEnd
\* One task of an email and of a title, one instance of a recurring row for a
\* date (TaskExtraction; dedup.go:26, TaskRecurrence; recurrence.go:79).
TasksStoredOnce == []E!StoredOnce /\ R!DatesUsedOnce
\* Reminders go to open tasks, follow-ups stay within their limit and end in
\* the alert (TaskReminders; reminders.go:77, TaskDelegation;
\* delegation_followup.go:84).
RemindedWithinLimits == N!TypeOK /\ N!RemindedWhileOpen /\ D!FollowedUpWithinLimits
\* Suggested slots keep the preferences, the accepted one stands, and the
\* conflicts are what overlaps (Scheduling; slot_engine.go:66, slot_approve.go:47,
\* ConflictTable; conflict_realtime.go:136).
CalendarAgrees == L!SlotsStand /\ T!ConflictsMatch
\* What is mailed, recorded and offered agrees with what the user decided
\* (DraftApproval; send_handlers.go:168).
SentAsDecided == A!SentAsDecided
===============================================================================
