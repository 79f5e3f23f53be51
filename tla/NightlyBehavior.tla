---------------------------- MODULE NightlyBehavior ----------------------------
(***************************************************************************)
(* The computations about a user's behaviour (behavior/nightly.go): the    *)
(* metrics of yesterday and of its week, the work-life balance with its    *)
(* alert, the relations to contacts with theirs.  RunNightly goes through  *)
(* them whatever fails; the handler that starts it may be called again     *)
(* while it runs, and its statements are not in one transaction.           *)
(***************************************************************************)
EXTENDS Integers, FiniteSets, FiniteSetsExt, Functions

CONSTANTS
  Runs,          \* calls of HandleCompute
  Loads,         \* what a day's mail may be like: the numbers of WLBInput
  LateWorker, WeekendOk,  \* the user's calibration
  Levels,        \* frequencies a contact may have, 0 the most frequent
  Week,          \* days of an aggregated period
  AlertDays,     \* days between alerts (7)
  Window,        \* days of the snapshots an alert looks at (7)
  Keep,          \* days snapshots are kept
  HasAI,         \* whether the service has a provider (router.go:330 gives it none)
  MaxDay, MaxFaults  \* bounds

BehaviorAssumption ==
  /\ \A l \in Loads : l \in [after : 0 .. 100, weekend : Nat, first : 0 .. 23, last : 0 .. 23,
                             sent : Nat, received : Nat]
  /\ {LateWorker, WeekendOk, HasAI} \subseteq BOOLEAN /\ Levels \subseteq 0 .. 4
  /\ {Week, AlertDays, Window} \subseteq Nat \ {0} /\ {Keep, MaxDay, MaxFaults} \subseteq Nat
  /\ IsFiniteSet(Runs) /\ Runs # {}

None == -1
VARIABLES
  past,      \* past[d]: the load of day d, and the level of the contact's mail
  daily,     \* communication_metrics of days
  weekly,    \* and of weeks: the number of mails
  snapshot,  \* wlb_snapshots: the score of a day
  alerted,   \* behavior_profiles.last_wlb_alert, as a set of at most one day
  contact,   \* the contact's row: level, is_declining, and the day of updated_at
  run,       \* run[r]: the step, the day it is about, when it began, what it read
  alerts,    \* history: the alerts about the balance, those of a day numbered
  overlapped, \* history: whether two runs were under way at once
  today, faults

vars == <<past, daily, weekly, snapshot, alerted, contact, run, alerts, overlapped, today, faults>>

NoContact == [level |-> None, declining |-> FALSE, at |-> None]
Idle == [pc |-> "idle", day |-> 0, began |-> 0, read |-> 0]

\* The shape of the state.
TypeOK ==
  /\ DOMAIN past = 0 .. today - 1 /\ DOMAIN daily \subseteq DOMAIN past
  /\ DOMAIN snapshot \subseteq DOMAIN daily /\ \A d \in DOMAIN snapshot : snapshot[d] \in 20 .. 100
  /\ alerted \in {{}} \cup {{d} : d \in 0 .. today} /\ contact.level \in Levels \cup {None}
  /\ \A r \in Runs : run[r].pc = "idle" \/ (run[r].day = run[r].began - 1 /\ run[r].began \in 1 .. today)
  /\ \A a \in alerts : a.day \in 0 .. today
  /\ today \in 0 .. MaxDay /\ faults \in 0 .. MaxFaults

Init ==
  /\ past = <<>> /\ daily = <<>> /\ weekly = <<>> /\ snapshot = <<>> /\ alerted = {}
  /\ contact = NoContact /\ run = [r \in Runs |-> Idle] /\ alerts = {}
  /\ overlapped = FALSE /\ today = 0 /\ faults = 0

\* A row of a table keyed by days or weeks.
With(f, k, v) == [x \in DOMAIN f \cup {k} |-> IF x = k THEN v ELSE f[x]]
Fault == faults < MaxFaults /\ faults' = faults + 1
Goto(r, pc) == run' = [run EXCEPT ![r].pc = pc]
Reads(r, pc, v) == run' = [run EXCEPT ![r].pc = pc, ![r].read = v]

\* A day passes; level None is a contact with fewer than two mails in 90 days.
NextDay ==
  /\ today < MaxDay /\ today' = today + 1
  /\ \E l \in Loads, v \in Levels \cup {None} :
       past' = With(past, today, [load |-> l, level |-> v])
  /\ UNCHANGED <<daily, weekly, snapshot, alerted, contact, run, alerts, overlapped, faults>>

\* HandleCompute: yesterday, as the user's timezone has it.
Begin(r) ==
  /\ run[r].pc = "idle" /\ today > 0
  /\ run' = [run EXCEPT ![r] = [Idle EXCEPT !.pc = "daily", !.day = today - 1, !.began = today]]
  /\ overlapped' = (overlapped \/ \E o \in Runs \ {r} : run[o].pc # "idle")
  /\ UNCHANGED <<past, daily, weekly, snapshot, alerted, contact, alerts, today, faults>>

-------------------------------------------------------------------------------
(* Metrics.                                                                  *)

\* The mail of a day that is over does not change: reading it and the upsert
\* are one step.
StoreDaily(r) ==
  /\ run[r].pc = "daily" /\ daily' = With(daily, run[r].day, past[run[r].day].load) /\ Goto(r, "sum")
  /\ UNCHANGED <<past, weekly, snapshot, alerted, contact, alerts, overlapped, today, faults>>

Mails(l) == l.sent + l.received
WeekOf(d) == d \div Week
DaysOf(w) == {d \in DOMAIN daily : WeekOf(d) = w}
Total(f) == FoldFunction(LAMBDA m, n : m + n, 0, f)
MailsOf(days) == Total([d \in days |-> Mails(daily[d])])

\* aggregatePeriod, once more for the month.
SumWeek(r) ==
  /\ run[r].pc = "sum" /\ Reads(r, "week", MailsOf(DaysOf(WeekOf(run[r].day))))
  /\ UNCHANGED <<past, daily, weekly, snapshot, alerted, contact, alerts, overlapped, today, faults>>
StoreWeek(r) ==
  /\ run[r].pc = "week" /\ weekly' = With(weekly, WeekOf(run[r].day), run[r].read)
  /\ Goto(r, "balance")
  /\ UNCHANGED <<past, daily, snapshot, alerted, contact, alerts, overlapped, today, faults>>

-------------------------------------------------------------------------------
(* The balance.                                                              *)

\* The sent mail of the day against the mail, sent and received, of an average day.
Busy(d) ==
  LET month == {e \in DOMAIN daily : e < d /\ e + 30 >= d} IN
  MailsOf(month) > 0 /\ 2 * daily[d].sent * Cardinality(month) > 3 * MailsOf(month)

\* ComputeWLBScore, in hundredths; the lunch break always counts as kept.
Score(l, busy) ==
  LET after == Min({l.after * 60, 3000}) \div (IF LateWorker THEN 2 ELSE 1)
      weekend == Min({l.weekend * 200, 2000}) \div (IF WeekendOk THEN 2 ELSE 1)
      boundary == (IF l.first < 7 THEN 1000 ELSE 0) + (IF l.last >= 22 THEN 1000 ELSE 0)
      total == after + weekend + boundary + (IF busy THEN 1000 ELSE 0)
  IN Max({0, 100 - (total + 50) \div 100})

\* Without the day's metrics there is nothing to store.
ComputeWLB(r) ==
  /\ run[r].pc = "balance"
  /\ LET d == run[r].day IN
     IF d \in DOMAIN daily THEN Reads(r, "snapshot", Score(daily[d], Busy(d))) ELSE Goto(r, "alert")
  /\ UNCHANGED <<past, daily, weekly, snapshot, alerted, contact, alerts, overlapped, today, faults>>
StoreSnapshot(r) ==
  /\ run[r].pc = "snapshot" /\ snapshot' = With(snapshot, run[r].day, run[r].read) /\ Goto(r, "alert")
  /\ UNCHANGED <<past, daily, weekly, alerted, contact, alerts, overlapped, today, faults>>

Recent == \E d \in alerted : today < d + AlertDays
\* The snapshots of the last days; rows, not days, are counted.
Triggered ==
  LET days == {d \in DOMAIN snapshot : d + Window >= today}
      Low(ds) == \A d \in ds : snapshot[d] < 50
  IN /\ Cardinality(days) >= 2
     /\ \/ snapshot[Min(days)] - snapshot[Max(days)] > 10
        \/ \E d \in days : LET last == {e \in days : e >= d} IN Cardinality(last) >= 3 /\ Low(last)

\* A read that fails does not keep the alert back.
CheckWLBAlerts(r) ==
  /\ run[r].pc = "alert"
  /\ \/ Goto(r, IF Recent THEN "contacts" ELSE "trigger") /\ UNCHANGED faults
     \/ Recent /\ Goto(r, "trigger") /\ Fault
  /\ UNCHANGED <<past, daily, weekly, snapshot, alerted, contact, alerts, overlapped, today>>
ReadSnapshots(r) ==
  /\ run[r].pc = "trigger" /\ Goto(r, IF Triggered THEN "publish" ELSE "contacts")
  /\ UNCHANGED <<past, daily, weekly, snapshot, alerted, contact, alerts, overlapped, today, faults>>
\* An event that cannot be published is only logged; without a provider there
\* is none, and the mark is set all the same.
PublishAlert(r) ==
  /\ run[r].pc = "publish" /\ Goto(r, "mark")
  /\ \/ /\ HasAI /\ UNCHANGED faults
        /\ alerts' = alerts \cup {[day |-> today, n |-> Cardinality({a \in alerts : a.day = today})]}
     \/ ~HasAI /\ UNCHANGED <<alerts, faults>>
     \/ HasAI /\ UNCHANGED alerts /\ Fault
  /\ UNCHANGED <<past, daily, weekly, snapshot, alerted, contact, overlapped, today>>
MarkAlert(r) ==
  /\ run[r].pc = "mark" /\ Goto(r, "contacts") /\ alerted' = {today}
  /\ UNCHANGED <<past, daily, weekly, snapshot, contact, alerts, overlapped, today, faults>>

-------------------------------------------------------------------------------
(* Contacts.                                                                 *)

\* checkDeclining reads the level the last run stored, also if it was today's;
\* a contact with too few mails is not looked at.
ReadContact(r) ==
  /\ run[r].pc = "contacts"
  /\ IF past[run[r].day].level = None THEN Goto(r, "declines") ELSE Reads(r, "upsert", contact.level)
  /\ UNCHANGED <<past, daily, weekly, snapshot, alerted, contact, alerts, overlapped, today, faults>>
UpsertContact(r) ==
  /\ run[r].pc = "upsert" /\ Goto(r, "declines")
  /\ contact' = [level |-> past[run[r].day].level, at |-> today,
                 declining |-> run[r].read # None /\ past[run[r].day].level - run[r].read >= 2]
  /\ UNCHANGED <<past, daily, weekly, snapshot, alerted, alerts, overlapped, today, faults>>

\* CheckRelationshipAlerts publishes every row with the flag, then the old
\* snapshots go.
CleanupWLBSnapshots(r) ==
  /\ run[r].pc = "declines" /\ Goto(r, "idle")
  /\ snapshot' = [d \in {e \in DOMAIN snapshot : e + Keep >= today} |-> snapshot[d]]
  /\ UNCHANGED <<past, daily, weekly, alerted, contact, alerts, overlapped, today, faults>>

-------------------------------------------------------------------------------
\* A statement fails and RunNightly goes on with the next computation.
After(pc) ==
  CASE pc = "daily" -> "sum"
    [] pc \in {"sum", "week"} -> "balance"
    [] pc \in {"balance", "snapshot"} -> "alert"
    [] pc \in {"alert", "trigger", "mark"} -> "contacts"
    [] pc \in {"contacts", "upsert"} -> "declines"
    [] OTHER -> "idle"
StepFails(r) ==
  /\ run[r].pc \notin {"idle", "publish"}
  /\ Fault /\ Goto(r, After(run[r].pc))
  /\ UNCHANGED <<past, daily, weekly, snapshot, alerted, contact, alerts, overlapped, today>>

\* The request is cancelled, or the process ends.
Cut(r) ==
  /\ run[r].pc # "idle" /\ Fault /\ Goto(r, "idle")
  /\ UNCHANGED <<past, daily, weekly, snapshot, alerted, contact, alerts, overlapped, today>>

Next ==
  \/ NextDay
  \/ \E r \in Runs :
       \/ Begin(r) \/ StoreDaily(r) \/ SumWeek(r) \/ StoreWeek(r) \/ ComputeWLB(r) \/ StoreSnapshot(r)
       \/ CheckWLBAlerts(r) \/ ReadSnapshots(r) \/ PublishAlert(r) \/ MarkAlert(r)
       \/ ReadContact(r) \/ UpsertContact(r) \/ CleanupWLBSnapshots(r) \/ StepFails(r) \/ Cut(r)

Spec == Init /\ [][Next]_vars

-------------------------------------------------------------------------------
(* Properties.                                                               *)

\* However often a day is computed a week counts it once, and a day is missing
\* only after a failure, an overlap, or while a run is about to add it
\* (communication.go:162-177).
WeekIsASum ==
  \A w \in DOMAIN weekly :
    /\ \E days \in SUBSET DaysOf(w) : weekly[w] = MailsOf(days)
    /\ faults = 0 /\ ~overlapped /\ (\A r \in Runs : run[r].pc \notin {"sum", "week"}) =>
         weekly[w] = MailsOf(DaysOf(w))

\* Of the alerts about the balance, one in so many days was meant: more come
\* from runs that had read before the mark, and from failures
\* (wlb_alerts.go:30-38, 150).
AlertsAreSpaced ==
  Cardinality({a \in alerts : a.day + AlertDays > today}) <= Cardinality(Runs) + faults

\* A decline is announced by the run that found it, or with one that did: only
\* a contact without mail keeps the flag for later runs (relationships.go:57, 204-220).
DeclineIsRecent ==
  \A r \in Runs :
    run[r].pc = "declines" /\ contact.declining =>
      contact.at >= run[r].began \/ past[run[r].day].level = None \/ faults > 0

\* What the runs leave behind is of their days.
BehaviorHolds == TypeOK /\ WeekIsASum /\ AlertsAreSpaced /\ DeclineIsRecent
===============================================================================
