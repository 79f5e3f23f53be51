# A verification of the Regent backend

TLA+ models of the Go server in `src/`, the TLC runs that check them on small
instances, and TLAPS proofs for every instance. All line numbers are those of
the files under `src/internal/` unless a path says otherwise.

`PROJECT.json` is the index: components, runs, mutants, the map from each
definition to its lines, findings, hazards and theorems. This file explains it.

* [1. The system](#1-the-system) - the inventory
* [2. The modules](#2-the-modules) - how state and actions correspond to the code
* [3. The runs](#3-the-runs) - what is checked, with which bounds and fairness
* [4. The proofs](#4-the-proofs)
* [5. Findings](#5-findings) - where code and its own words differ
* [6. What is not modelled](#6-what-is-not-modelled) and hazards beyond the list
* [7. The plan](#7-the-plan)

Check a run with `tlc -config MCJobQueue.cfg MCJobQueue.tla`, a proof with
`tlapm BillingProofs.tla`.

## 1. The system

`cmd/regent/main.go` builds one process: an HTTP server, a bundle of background
services for every active user, one AI worker pool and one briefing dispatcher.
Processes share PostgreSQL (25 connections per process) and Redis and nothing
else; nothing elects a leader, so every process does everything.

```
 Stripe --webhook--> billing --------> tenants, webhook_events, plan:{tenant}
 user --REST--> api ---> send, drafts, tasks, calendar, promo codes
 boot --Spawn--> registry ---> bundle(user) = supervised { imap, cron, ai, briefing }
                                 |                          + health reporter
                  imap: watch, sync --> emails        cron: jobs of the user
                                                        | aiQueueProcess
   worker pool <--Dequeue-- ai queue (Redis) <--Enqueue-+
      | pipeline: categorise, summarise, draft
      +--> email_ai_status, draft_replies, XADD --> dispatcher --> channels
                                                     callbacks --> notification_log
```

### Parts with behaviour over time

| Part | State it keeps | Operations | What makes it hard | What makes it correct |
|---|---|---|---|---|
| AI job queue (`ai/queue/queue.go`) | a Redis list per user; one sorted set of users scored by plan | `Enqueue` = LPUSH + ZADD; `Dequeue` = ZREVRANGE, RPOP, LLEN, ZREM | five separate commands, any process, any of them may fail | FIFO per user, a job is handed out once, no accepted job is hidden |
| AI worker pool and pipeline (`ai/queue/worker.go`, `pipeline.go`) | semaphore, goroutines, `email_ai_status`, `draft_replies` | `Run`, `Process` | duplicate copies of a job, failed status writes, crashes in any stage | slots conserved, no draft out of nothing, every email settles, a settled one stays |
| Cron scheduler (`orchestrator/cron.go`) | `cron_jobs` rows, tickers, connections | recovery, jobs at start, tickers; mark, call, result | rows outlive the process; a recovery that holds a connection while its jobs take more | what was overdue is called, what completed returns, a stop or an error costs one row at most |
| Service registry (`orchestrator/registry.go`) | map user -> bundle, WaitGroup | `Boot`, `Spawn`, `Stop`, `DrainAll`, a bundle's goroutine | map under a mutex, `wg.Add` after the unlock, delete by user id | one bundle per user, reachable while alive, drain waits for all |
| Supervisor and health (`supervisor.go`, `bundle.go`, `health.go`) | failure count and backoff per service, statuses, `user_service_status` | run, back off, give up; heartbeat | the reporter races with statuses; cancellation in every state | waits double, what was given up is shown, a stopped bundle ends |
| Briefing dispatcher (`briefings/`) | Redis stream and group, hourly counters, `notification_log` | publish, trim, read, evaluate, route, limit, send, log, ack, reclaim, callbacks | several servers, at-most-once or at-least-once, a trimmed stream, an hour that ends in between | no channel asked twice, the permissions of an hour keep the limit and few are used later, every send is logged, nothing waits for ever |
| Billing (`billing/`) | `tenants`, `webhook_events`, plan cache | five webhook events, dunning, grace expiry, cached plan | Stripe repeats and reorders; two statements per event; cache filled by a slow reader | an event is not lost, a plan is taken with its cause only, dunning reaches its end, the cache heals |
| Promo codes and trials (`billing/promo*.go`) | `promo_codes`, `promo_redemptions`, `tenants` | look up, claim, give the trial or discount, deactivate; the sweep of expired trials | look and claim under concurrency; the effect comes after the commit | uses are redemptions, a given plan is on record, a sweep ends trials only |
| Limits, gates and quota (`billing/gates.go`, `limits.go`, `usage.go`, `middleware/plan_gate.go`, `ai/metering/quota.go`) | cached plan, `usage`, Redis counters | gates, count, `CheckAndIncrement` | the plan may be the cached one, the count may change after the look, every store fails open | a limit is passed by what overlaps at most, a refusal has its cause |
| Email sync (`email/sync/`, `email/imap`, `email/threading.go`, `dedup.go`) | `sync_cursors`, `emails`, `user_accounts.sync_status` | poll, first sync, batches, threads | batches and messages fail one by one, every server syncs the account | the cursor leaves no gap, past mail stays out, replies join their thread, a failed sync recovers |
| Watchers and Gmail (`email/realtime/`, `email/gmail/`, `email/sync/gmail_sync.go`) | watermark of UIDs, history id, queue of new mail | IDLE, NOOP, fetch since yesterday, list, history, push | a watermark beside a window of days, messages that fail alone | what the watermark passes was stored or cannot be |
| IMAP connections (`email/connection/`) | map of connections | register, remove, reconnect, close all | remove-then-register in two critical sections, a register that overwrites | the limit holds; a lost connection is one that was overwritten |
| Mail accounts (`api/account_handlers.go`, `api/oauth_popup_handlers.go`, `auth/providers.go`, `email/credentials.go`) | `user_accounts`, `email_credentials`, `oauth_tokens`, popup states | connect, delete, OAuth start and callback, disconnect | several statements without a transaction, foreign keys and checks that refuse | an account has its password or is on its way; what was answered as connected stands |
| Drafts and sending (`api/send_handlers.go`, `draft_handlers.go`, `email/send/`) | `draft_replies`, `email_send_log`, `emails` | approve, compose, edit, reject, list; load, send, record, mark | SMTP in the middle, three connections held at once, a context that ends | what is sent carries the user's edits and was accepted; a decided draft is not decided again |
| Tasks (`tasks/`, `api/task_handlers.go`) | `tasks`, `task_reminders`, `task_delegations` | extract, detect recurrence, next instance, remind, upgrade, delegate, follow up | looks and inserts in two statements, checks of two processes overlap | one task per email and title, one instance per row and date; reminders and follow-ups reach who they should, as often as they should |
| Calendar (`calendar/`, `api/calendar_handlers.go`) | `calendar_events`, sync tokens, `scheduling_requests`, `calendar_conflicts`, preferences | sync both providers, detect and store conflicts, suggest and approve slots | tokens expire, pages and items fail, conflicts are computed from what was read earlier | rows are the provider's events, but for what was never listed or stored; conflicts are what overlaps; an accepted slot stands |
| Memory and learning (`ai/memory/`, `ai/learning/`, `api/memory_handlers.go`) | `user_rules`, `context_briefs`, `learned_patterns`, signals, few-shot examples | create, update, delete, inject; quick update, weekly synthesis | limits in two statements, NULLs, a budget that cuts, a whole list written at once | a prompt gets what the user wrote unless one named thing is wrong with it |
| Signing in (`auth/`, `api/auth_handlers.go`) | `auth_lockouts`, `auth_sessions`, the provider's sessions | log in, record a failure, track, list, revoke, log out, change the password | count-then-insert; a lock that ends without a reset; two stores of sessions | a lock after N failures; who is told to be signed out is, unless the provider refused |
| Limits of a minute (`middleware/ratelimit.go`, `auth_ratelimit.go`, `ai/queue/ratelimit.go`) | buckets, windows, a sorted set | allow, cleanup, wait for a slot | forgetting while counting; count and add in two commands | no address gets more than its minute, forgetting gives nobody more |
| Behaviour (`behavior/`, `api/behavior_handlers.go`) | metrics, snapshots, marks, contacts | one run after another through all computations | may be started twice a day, each step fails alone | a day counts once, an alert is not repeated, a decline is told once |
| Digests (`briefings/digest*.go`) | last digest, schedule | `isDue` each 15 minutes | a window wider than the tick | no caller; not modelled |

The other parts (providers, prompts, retrieval, analytics, configuration, models,
observability) have no behaviour over time that a property could be about, or
are not wired; section 6 says which and why.

### How they interact

* Boot spawns one bundle per active user with a delay between two; nobody else
  in the repository calls `Spawn` or `Stop`. The worker pool starts after the
  last spawn, with `context.Background()`, and not at all when there are no
  active users (registry.go:97); `DrainAll` does not wait for it.
* `aiQueueProcess` of a user's cron scheduler is what keeps the AI going: it
  selects emails by their `email_ai_status` and enqueues them. Nothing marks an
  email as enqueued, so it is selected again at each tick until a worker writes
  its first status.
* The pipeline publishes the categorised email to the stream of the briefings.
* `main.go` hands the dispatcher an empty map of channels ("Channels will be
  registered as they're configured", src/cmd/regent/main.go:98), so at this
  commit nothing is sent; the model takes the registered channels as a constant.
* Billing writes the plan the gates, the cron scheduler and the pipeline read,
  the gates through a cache of five minutes.
* The router builds the services of tasks, calendar, memory, accounts, drafts and
  behaviour per request and hands them the pool: they meet in the tables and in
  the pool's connections only. Most of the jobs the cron scheduler names are stubs
  (cron.go:640-741), so the checks of tasks, trials, graces, digests and behaviour
  have no timer yet; the models run them as the job that is meant to call them would.

## 2. The modules

| Module | Lines | Models |
|---|---|---|
| `WorkQueue` | 65 | the abstract queue: a FIFO per user, a job is taken once; faults may lose jobs |
| `JobQueue` | 260 | the Redis commands of `Enqueue` and `Dequeue`; implements `WorkQueue` |
| `AIPipeline` | 179 | `Process` of one email and the row of `email_ai_status` |
| `AISystem` | 283 | cron selection, `JobQueue` (INSTANCE), semaphore and `Run`, `AIPipeline` (EXTENDS), crashes |
| `ServiceRegistry` | 254 | `Boot`, `Spawn`, `Stop`, a bundle's goroutine, `DrainAll` |
| `Supervisor` | 253 | one bundle: supervised services, health reporter, `Run`, `Stop` |
| `CronScheduler` | 281 | the rows of `cron_jobs`, recovery, tickers, and the pool's connections, for all users |
| `BriefingDispatcher` | 484 | stream, consumer group, dispatchers of all servers, limiter, sends, callbacks |
| `Billing` | 441 | webhook requests, dunning, grace periods, plan cache |
| `PromoCodes` | 206 | codes, redemptions, trials and their sweep |
| `PlanLimits` | 232 | the gates before handlers, usage, and the quota of AI calls |
| `EmailSync` | 460 | the IMAP sync of one account by all servers: cursor, batches, threads, emails |
| `MailWatch` | 225 | IDLE and NOOP watchers, Gmail's list, history and push |
| `ImapConnections` | 130 | the registry of connections and the reconnector |
| `Accounts` | 214 | connecting and deleting mailboxes, the OAuth popup, tokens |
| `DraftApproval` | 272 | approve, compose, edit, reject; `send.Service`; the connections they hold |
| `TaskExtraction` | 171 | emails to tasks, with the look for duplicates |
| `TaskReminders` | 173 | reminders, overdue tasks, the API's operations on a task |
| `TaskRecurrence` | 165 | rules found, instances made |
| `TaskDelegation` | 205 | delegations and their follow-ups |
| `CalendarSync` | 265 | the sync of one account with Google or Microsoft |
| `CalendarRules` | 120 | pure: conflicts among events, free slots and their scores |
| `Scheduling` | 196 | a request from its detection to the slot accepted (EXTENDS `CalendarRules`) |
| `ConflictTable` | 209 | the stored conflicts (EXTENDS `CalendarRules`) |
| `UserMemory` | 183 | rules, briefs, patterns, and what `Inject` makes of them |
| `Learning` | 108 | signals, quick updates and the weekly synthesis of examples |
| `AuthSessions` | 213 | lockout, rows of sessions, the provider's sessions |
| `RateLimits` | 181 | token bucket, sliding window, the sorted set in Redis |
| `NightlyBehavior` | 240 | the computations about behaviour, in their order |
| `JobQueueProofs`, `AISystemProofs`, `BriefingDispatcherProofs`, `BillingProofs`, `EmailSyncProofs` | | the proofs about the module they are named after |
| `BundlesProofs` | | the proofs about `ServiceRegistry` and `Supervisor`, the parts of `MCBundles` |
| `TablesProofs` | | the proofs about `CronScheduler`, `CalendarSync`, `DraftApproval`, `PromoCodes`, `TaskExtraction`, `TaskRecurrence`, `TaskReminders`, `TaskDelegation`, `Scheduling` and `ConflictTable`, the parts of `MCTables` |
| `AccessProofs` | | the proofs about `Accounts`, `MailWatch`, `ImapConnections`, `UserMemory`, `Learning`, `AuthSessions`, `PlanLimits`, `RateLimits` and `NightlyBehavior`, the parts of `MCAccess` |
| `MC...` | | values of the constants for TLC |

Conventions. One action is one step another actor can come between: a Redis
command, an SQL statement, a call to a provider, a critical section of a mutex.
What Go code does between two such steps belongs to the action before or after
it. A fault is the failure of one such step or the death of a process; the
constant `MaxFaults` (`MaxErrors`, `MaxFailures`) bounds their number, and a property that
says "while nothing fails" says `faults = 0`. A property that says "unless two
overlapped" names the overlap by a history variable (`shared`, `loose`, `merged`,
`overlapped`) or by the number of those that can overlap. A definition whose comment
begins "Variant:" is a
plausible bug of the definition after it; no specification uses it, and
`PROJECT.json` names the property that finds it. The invariant a run checks is often a
conjunction of named parts, with the module's `TypeOK` as the first of them.

### JobQueue

`list[u]` is `ai:queue:{u}`, `meta[u]` the score of u in `ai:queue:users` (0: not
a member), `enq[c]` the job whose LPUSH was executed and whose ZADD was not (the
pipeline is no transaction), `deq[p]` where the Dequeue of pool p is. The four
commands of Dequeue are four actions, and each may fail: an RPOP that fails may
have been executed, an LLEN that fails counts as 0, a ZREM that fails is ignored. `WorkQueue` is what remains if only the lists and the hands are looked
at: `fifo <- list`, `hand <- the job in deq`.

### AIPipeline and AISystem

A worker's `pc` walks through the stages in the order of `Process`; every
`updateStatus` is a step, and every call of the provider succeeds, fails or does
nothing, with the branches of the code for plans without a stage, noreply
senders and categories that need no reply. The clock is two booleans per row,
those the scheduler's query asks for: `stale` (started_at more than ten minutes
ago) and `rested` (completed_at more than five minutes ago); `AgeStart` and
`AgeError` set them. `AISystem` adds `aiQueueProcess` as a selection (the UNION
ALL with its branches and limits) followed by one Enqueue per selected email, and
`WorkerPool.Run` with its slot, which goes from Run to a goroutine. A crash
forgets the process and keeps Redis and the tables.

### ServiceRegistry

`bundles` is the map, `life[b]` where bundle b is between its insertion and its
`wg.Done`, `wg` the WaitGroup. Spawn is two actions, the critical section
(`Insert`) and what comes after the unlock (`Count`); Remove is the delete by
user id of the deferred function. `covered` is a history variable: the bundles
DrainAll found counted.

### Supervisor

`svc[s]` holds the place in `runWithSupervisor`, the consecutive failures and the
backoff. Durations are multiples of the base; jitter only moves the end of a
wait, and the stable-run threshold is a choice of the run's end. The reporter
takes its snapshot and writes it in two steps.

### CronScheduler

`row[u][j]` is the row of `cron_jobs`, `sched[u]` the loop of user u: what is left
to do, where in mark, call, result it is, and what an error kept from it (`missed`). A statement
is one step that needs a free connection of the pool; `Held` counts those kept across steps, among
them the open rows of the recovery (cron.go:159). Every statement, and the wait for its connection,
may fail, which is logged and nothing else: `RecoverFails` ends the recovery or leaves rows unread,
after `MarkFails` the job runs all the same, and `ResultFails` leaves the row as it is, which is
running. Jobs are short: time passes when nobody has anything to do. A stop may leave a row running
as well, and a tick nobody takes is dropped.

### BriefingDispatcher

`stream` keeps all entries ever added and `trimmed` how many are gone, `delivered`
is the group's last id, `pending` its pending entries list. `disp[s]` is the
dispatcher of server s: batch, priority after the rules, channels still to try,
the hour of the permission it holds. `calls` has, of each call of `Send`, the hour it was permitted in,
the hour it was made in and the server; `log` is the table. A callback without the id of a
message overwrites the status of every row that has none, which are the dispatcher's own. Which rule matches and what preferences say are choices; the
routing table and its thresholds are as in the code.

### Billing

`worker[w]` is a webhook request, `seen` the table `webhook_events`, `acked` the
events Stripe will not send again, `tenant` the row, `cache` the key in Redis,
`reader[r]` a gate inside `GetCachedPlan`. A failed payment is what it is in the
code: an UPDATE that returns count and days, an UPDATE of the date, and a decision
on the values returned by the first. `applied` and `overtaken` are history
variables: the events whose UPDATE found the tenant, and the requests whose count was reset
before they decided on it.

The statements are not written for the tables the repository creates: migration 041 has no
`webhook_events.event_id`, 038 has neither `tenants.first_failure_at` nor, in its CHECK, the
statuses failing, grace_period and none. `refused`, chosen from `Schemas` in `Init`, are the statements the
deployed schema refuses at every execution: the INSERT of the event, which then lets every
delivery through; checkout and deletion, whose status violates the CHECK; the UPDATE of a failed
payment; the downgrade. With the repository's migrations all five are refused, and what is left of
billing are the events paid and updated, applied at each delivery. The properties hold under
every schema; that an event is applied once does not, and is not stated.

### EmailSync

`mailbox` is INBOX with its UIDs, `cursor` the row of `sync_cursors` (`uid` 0 is a
NULL `last_uid`), `thread[m]` the `thread_id` of the row of `emails` with uid m,
`sync[s]` the sync of server s: its place, the UIDs left (`todo`), the fetched
messages left (`got`), the highest UID processed in the batch. Each statement and
each IMAP command is a step, so new mail, deletions and other servers come
between any two. A failed command returns an error, is logged or is ignored as in
the code; `Broken` are the messages whose body cannot be parsed at any attempt,
`NoId` those without a Message-ID, which the sync passes over and counts.
Past is what the first sync finds: `Existing` before the account is connected, and
`baseline`, a history variable, up to where some sync has declared mail past.
`failed`, a history variable, are the messages a failure kept from being stored
(a later sync may store them all the same). An MC module gives citations and
subjects; `Nested` are subjects the SQL normalises less than `NormalizeSubject`
does.

Left out: the SINCE window (mail older than 30 days that was never fetched is
not looked for), a mailbox whose UIDVALIDITY changes (the code never looks at
it, and the new UIDs would be compared with the old cursor), the folder, and the
Gmail sync, which is in `MailWatch`: the scheduler has no service to hand over to it
(cron.go:431).

### DraftApproval

`row[d]` is the draft, `req[r]` a request: approve, compose, edit or reject. An approval reads, sends,
records and marks; the handler holds one connection, `send.Service` a second,
its credentials a third. A context that ends (`Expire`) fails each statement that
follows, not SMTP, and a process may die anywhere. `mail[r]` is what the server accepted,
`sent[r]` the row in `emails`, keyed by a millisecond.

### The tasks

Four modules that meet in the table `tasks` only. In `TaskExtraction` a worker
looks for the email, then for a similar title, then inserts: three statements, and a
look that fails finds nothing. In `TaskRecurrence` the row of an instance is inserted
with a date of its own before the original's date moves, and is a row that recurs from then on:
its dates are those of its original, so that a series doubles. `OncePerRow` therefore speaks of one
row at a time. `TaskReminders` reads what is
due and sends it while the user closes, reopens and moves tasks; its
`OverdueUpgrade` is one statement. In `TaskDelegation` the count of follow-ups is
read with the delegation, the mail is sent, and the count is raised.

### The calendar

`CalendarSync`: a change of an event is the number of the provider's clock at which it
was made, a sync token is a number of it too, and `oldest` is where tokens begin
to be answered with 410. A sync takes the lock, refreshes the consent's token, lists by token or
all, applies items one by one and stores the token; pages are retried, an item that cannot be
stored (`Malformed`, or a status the table refuses) is logged. A full listing is bounded by a window around now,
and Microsoft's token is one of that window: `Windows` lets any of the events be outside. `missed` and
`unlisted` are history: what failed, and what a listing left out though its row is not the event - what was
outside the window, or deleted before all was listed anew (nothing deletes those rows).
`CalendarRules` is the arithmetic of conflicts, slots and scores, translated function by function; days and
hours are units since a Sunday. Its `Read` is what `getEventsInRange` returns: any part of the events, as a row that
does not scan and a connection that breaks are no errors. `Scheduling` and `ConflictTable` are the two users of it,
with every read and write a step. A read of the preferences that fails gives the `Default`s and the request goes on
(conflict_realtime.go:103); only without a connection it ends. `ConflictTable`'s transaction is one step of its own,
with its deletion taken back when an insert fails.

### PromoCodes and PlanLimits

`apply[a]` of `PromoCodes` is a request after its look at the code, after its transaction and
after the plan was given; `sweep` is `CheckTrialExpiry` with what it has read.
In `PlanLimits` a request's gate looks (at the cached plan or the row), and its handler acts
in a later step. A store that fails lets pass, but for the cache, behind which the table is asked, and for the tokens of
today, which then count as 0, as in the code. `CheckAndIncrement` is a GET and an
INCRBY, for tokens and for premium calls.

### Accounts and AuthSessions

A connect is the look, the test, the insert, the storing of the password and, if that
fails, the rollback; a delete is two statements, of which the second is refused while the account has
mail, and may fail. A popup whose provider tells no address stores its tokens under the empty one and makes no account;
another one stores them, or is refused for its scopes, then tries to make the account, which the table's
CHECK refuses. `AuthSessions` keeps the two stores of sessions apart: `rows` are ours,
`live` those of the identity provider; the provider decides who is let in. A call of it that fails may end no session and
is a success all the same, as its status is not looked at (supabase.go:113) and a change of the password ignores it
(auth_handlers.go:232); `LeftAlive` are the sign-outs answered so. Attempts go
from the look at the lock to the count. A tracker makes one call of `TrackSession` after
another, whose errors end the request or, of the DELETE, are not looked at; `raced` is
history, the calls that began while another was under way.

### MailWatch and ImapConnections

The watcher's `watch` has its place, `last` UID and what it fetched of the messages since
yesterday; a fetch returns any part of what it was asked for (`skipped` is the rest), as a message that is
not collected is passed over and a FETCH may end early without an error. `failed` is history. Gmail's list stores each message with uid 0; the
history is the number up to which messages were handed on. `ImapConnections` has the
registry's map, the clients with an open socket, and reconnects between `Remove` and
`Register`. `Register` has no look at the entry it overwrites; `replaced`, history, counts those.

### UserMemory and Learning

A rule's `filter` says whether `contact_filter` is not NULL: `GetActive` scans into a
string and fails on a NULL. `Inject` reads rules, briefs and patterns in three steps
and cuts to its budget. In `Learning` a list of examples is read, and written whole
in a later statement, by the quick update up to a cap. A synthesis without examples stores the JSON `Null`, on which
the update's statement fails; an update of no elements by none stores SQL's NULL (`Absent`), as `jsonb_agg` over no rows
does, and the next one takes that for an empty list.

### RateLimits and NightlyBehavior

Bucket and window are one step under their mutex, with cleanup as another; the Redis
limiter is two steps of several workers. A bucket's tokens are counted in parts of which `Minute`
make one, so that nothing is rounded. What a limiter has let through, and what its window or
sorted set holds, is a set of times in which requests of one time are numbered, as the code only
counts them and drops the old ones. `NightlyBehavior` runs through
yesterday's metrics, the week's sum, the balance and its alert, the contacts and their alerts, a
statement or loop each; each may fail and the next goes on. What is computed from a
mailbox is chosen from `Loads`, which the MC module gives as a calm and a hard
day.

## 3. The runs

Passing runs, with the distinct states TLC finds. Every property has a mutant of
the mapped code that violates it in the same run.

| Run | States | What it shows |
|---|---|---|
| `queue` | 61 thousand | `ImplementsWorkQueue`: the command protocol implements the FIFO. `StrandedOnlyByZRemOrCutEnqueue`: only a late ZREM and a cut Enqueue can hide a user's jobs. `MetaQueueDrains`: a member with an empty list does not block those behind it |
| `ai_system` | 252 thousand | `DraftsAccounted`: the semaphore's slots are free, with Run or with a goroutine, and after its LPUSH a copy of an email yields at most one draft. `SettledAndQuietStays`: a settled email of which no copy is left is left alone. `EveryEmailSettles`: in spite of a fault or a crash every email is completed or uses up its retries |
| `bundles` | 174 thousand | the registry: `AliveIsReachable` (one bundle per user, and the delete by user id never takes out another one), `WaitGroupCounts`, `DrainNilCoversCounted`. One bundle: `WaitDoubles` through any mixture of failures, clean exits and stable runs; `NothingAfterReturn`; `PausedIsReported` although heartbeats race and fail. `StoppedEnds` for both |
| `briefings` | 927 thousand | `SendsAreLimited`: no channel is asked twice; all servers together permit an hour no more messages than the limit (`PermittedLimit`), and each carries at most one of them over into a later hour (`OneLatePerServer`), so that an hour sees at most the limit and one per server; every send for an email is logged. `LeftPendingOnlyByFault`, `EveryEventEnds` |
| `billing` | 2.1 million | `FailuresAreDated`, `GracePeriodHasEnd`, `StaleCacheExpires`; `PlanTakenByDunning`: whatever requests do at once, dunning takes a plan only with the failures and the days on record at that moment, or on a count that was reset since the request read it |
| `sync` | 2.7 million | `NoGap`: no message that could have been stored is below the cursor without a row. `PastMailSkipped`. `ReplyJoinsThread`: without failures a reply has the thread of what it cites, although lookup and insert are two statements of two servers |
| `sync_recovery` | 171 thousand | `EveryMailArrives`: what arrives is stored in the end, or has failed, was deleted or cannot be stored. `StatusRecovers` |
| `progress` | 143 thousand | `TasksGetOn`: what is due is sent, what is overdue becomes urgent, what is due for a follow-up is followed up. `CatchesUp`: the calendar's token reaches the last change through expired tokens, failed pages and crashes. `RequestsReturn`: approvals that hold all connections and wait for more are released by their contexts, unless they are in a send that does not come back |
| `tables` | 1.2 million | `JobsAreRecovered` (each stop or error leaves at most one row running, what was overdue has been called unless an error kept it out, what completed returns), `RowsMirrorEvents`, `CodesKept`, `TasksStoredOnce`, `CalendarAgrees` (slots within the preferences, an accepted one stands, conflicts are what overlaps). `RemindedWithinLimits`: reminders name open tasks, follow-ups stay within their number and end in the alert. `SentAsDecided`: a draft offered as pending is unsent or in flight, a mail has the edits answered before, what is called sent was accepted, and nobody sends what is already marked |
| `access` | 1.6 million | `AccountsKept`, `LimitsHold` (sessions, attempts, plans, minutes, alerts), `MemoryKept`, `MailSeen` |

`TypeOK` of every module is checked with them, as a part of the property named above
or, for `JobQueue`, `ServiceRegistry`, `Supervisor`, `Billing` and `EmailSync`, proved
(section 4). The runs `billing_missed` and
`connections` end in violations, the findings of section 5.

### Runs that hold several modules

`MCBundles`, `MCProgress`, `MCTables` and `MCAccess` instantiate modules that share no
variable except, in some, a clock and a count of faults that only one of them moves. The variable
`part` is chosen in `Init` and never changes: a behaviour is a behaviour of its part, while the
others stay at their initial state. The states of such a run are the sum of those of its parts,
not their product, and each property is what it would be in a run of its own. This is one
run for many questions of the same kind, not a composition: modules that act on
each other are composed in `AISystem` (cron selection, queue, pool, pipeline) and in
`CronScheduler` and `DraftApproval`, whose actors share the pool. `MCTables` serves two
runs: `connections` names `RecoverySpec`, the schedulers alone with their fairness.
The constants of a part that theorems are about are constants of its MC module, with their values in
the `.cfg`, so that a theorem about a run's property is about all values of them.
`Processes` is a symmetry in `MCTables` and `MCAccess`, which check no liveness, and where
no part chooses among its processes.

### Bounds, and why they are enough

* `queue`: 2 users of different plans with a job each, 2 clients, 2 pools, lists
  of 2, 1 fault. The races are between two actors on one list or on the
  meta-queue; jobs are pushed again and again, so the state space is cyclic and
  nothing is bounded but the length of a list.
* `ai_system`: 1 email of the plan with all stages, 2 workers, 2 slots, lists of
  2, 1 fault or crash, two retries instead of three. One email is the hard case:
  all its copies meet on one row. `EnqueueSaturated` drops a copy beyond a list of
  two, so that a stranded list does not block the scheduler in
  the model alone. `DraftCap` 1 and `RetryCap` 2 are where counters saturate; the
  tokens of `OneDraftPerEnqueue` count drafts as they are made.
* `bundles`: 2 users, 3 bundles (one user is spawned a second time), 1 caller
  besides Boot; 2 services, 3 failures, base 2 and cap 3 (doubling and cap both
  happen).
* `briefings`: 2 servers, 2 events of one user, one about an email and urgent,
  one neither; a limited and an unlimited channel, a limit of 1, a stream cut to
  1 entry, batches of 2, 2 hours, 1 fault, 1 callback. Each bound is the least at
  which its case happens: a second message over the limit, an entry trimmed
  before it is read, an hour that ends between permission and send, a server
  that dies with a batch or with a permission of the hour before.
* `billing`: 2 requests, 3 events in three histories chosen so that the types
  that write the same columns meet (two failures and a payment; checkout, failure,
  cancellation; change, cancellation, payment), a new tenant or a subscriber,
  suspension at 2 failures and 1 day instead of 3 and 7, grace of 1 day, 3 days,
  1 fault, 1 gate; three schemas: one that takes every statement, one that refuses the INSERT of the event and the
  UPDATE of a failure, and the repository's.
* `sync`: 2 servers (interchangeable, so a symmetry), 1 past message and 3 more, the
  last a reply to the first of them, batches of 2, 1 deletion, 1 fault. Four UIDs make
  two batches, and a second sync that starts anywhere in the first.
* `sync_recovery`: 1 server, 5 UIDs of which one has no Message-ID and one cannot be
  parsed, 3 faults: enough to fail before, in and after a batch. One server is the
  case that has nobody to make up for it.
* `progress`: 1 task with 2 kinds of reminders, deadlines now and later; 2 checks and
  2 delegations with 2 follow-ups each; a calendar of 2 events, one of which can never be
  stored, 2 syncs, 1 retry, 1 change, 1 fault; 2 approvals of 1 draft with a pool of 2 connections, fewer than
  the two hold together. The second process is the one that reads what the first is about to change.
* `connections`: 2 schedulers that start with an overdue job each, and a pool of 2: the code's 25 connections and 25
  users at the smallest scale. No stop, no error: nothing has to go wrong.
* `tables`: the cron instance with 1 failing job and 1 error; the calendar with 2 events of which one is malformed, any of them
  outside a window, 1 change, 1 fault; 2 emails with the
  tasks A, B and A, 2 workers, a window of 1; recurrence up to 4 rows and time 4;
  1 task with 2 kinds of reminders, 2 checks and 2 delegations with 2 follow-ups; 2 requests on 1 draft,
  1 edit, 2 milliseconds;
  half-hour units, 2 events, 2 searches (one of which passes midnight), 2 approvals of 1 request; conflicts with 4
  intervals, 2 ranges, 1 change after any set of initial events; 2 codes, a trial used once and a
  discount used twice, 2 requests.
* `access`: 2 processes in every race, and for each limit the least number
  (1 or 2) with one more to pass it: 4 rules with a limit of 1, 3 sessions with a limit
  of 1 and 1 call that overlaps, 2 accounts and addresses, plans 0 to 2 with growing
  limits, the last one "unlimited", 4 UIDs with one unstorable and one without an id, 3 clients for 2 accounts, 2
  requests in a minute of 2 units, 4 days with weeks of 2.

Deadlock is checked in `queue`, `ai_system` and the syncs, whose loops never end. It is not
checked where the system may stop: after a drain, after `Run` of a bundle has
returned, when all events are published or answered, when the clock of a part has
reached its bound.

### Fairness, and why the code justifies it

* `JobQueue`: a started pipeline reaches its ZADD (it is one round trip) and the
  pool's loop never stops calling Dequeue (worker.go:38).
* `AISystem`: the cron scheduler ticks every five minutes, `Run` polls, an AI call
  has a timeout (ai/ollama.go:67), the database answers or fails, and time passes.
  Faults and crashes are not fair.
* `ServiceRegistry`: goroutines that can run do, services obey their context, the
  stagger delay ends. Nobody has to call Spawn, Stop or DrainAll. (`BundlesSpec` states
  this and the next for the part that runs.)
* `Supervisor`: as before, and strong fairness of the heartbeat's write: the ticker
  tries again for ever, and the database is not down at every attempt.
* `BriefingDispatcher`: a dispatcher's loop goes on; a process that died is started
  again.
* `EmailSync`: the scheduler of a server polls for ever and every command ends
  (`WF` of `Step`); failures, new mail and deletions are not fair.
* `Billing`: only Redis' expiry of the cached plan (cache.go, five minutes).
* `TaskReminders`, `TaskDelegation`, `CalendarSync`: each check, upgrade and sync is repeated by its
  job and each of its statements ends (`WF`). Faults, the user and the provider are not fair.
* `CronScheduler`: strong fairness of a scheduler's step, because it is enabled only while a
  connection is free: pgxpool serves its waiters in order, so who waits gets one that is
  returned again and again. (The run `connections` fails in spite of it.)
* `DraftApproval`: `WF` of the handler's step or the end of its context (chi's Timeout), whichever is possible. The
  step of SMTP is not fair: it dials without a timeout (smtp.go:35).

## 4. The proofs

All are checked by TLAPS with Z3, Zenon and LS4, for every value of the constants
that satisfies the assumptions named in the modules: no bound of section 3 enters a
proof. A theorem of a module that runs as a part of `MCBundles`, `MCTables` or `MCAccess` is about
the specification of that MC module and takes the part's assumption (`PromoAssumption`,
`CronAssumption`, ...) as its hypothesis; the MC module states it as an `ASSUME`, and
the run evaluates it.

| Theorem | Property of a run | Argument |
|---|---|---|
| `JobQueueProofs!TypeCorrect` | | `TypeOK` is inductive: a Dequeue past its RPOP has a job, or is about to remove the user |
| `!QueueImplementsWorkQueue` | `ImplementsWorkQueue` | each command is a step of `WorkQueue` or a stutter under the mapping; `TypeOK` gives the hand that a step fills or empties |
| `!HiddenOnlyByZRemOrCutEnqueue` | `StrandedOnlyByZRemOrCutEnqueue` | an action property from `TypeOK`, command by command |
| `AISystemProofs!SlotsAndDraftsAccounted` | `DraftsAccounted` | `Slots`: free slots, the one Run holds and the busy workers are a sum; a draft uses up the token its LPUSH made (`Tokens`), and each worker works on an email of its own user (`Mine`) |
| `!QuietForEver` | `SettledAndQuietStays` | no query selects a settled row, and without a copy nothing else can reach it |
| `BundlesProofs!TypeCorrect`, `OneBundle`, `Reachable`, `WaitGroupIsCount`, `DrainCovers` | `AliveIsReachable`, `WaitGroupCounts`, `DrainNilCoversCounted` | one inductive invariant `Inv` of the registry, below |
| `!BundleTypes`, `BundleQuiet` | `NothingAfterReturn` | `FailuresLeft`: a service that may run again has failed less than MaxFailures times; `ReturnedIsOver`: what Run has waited for stays over |
| `!BundleWaits` | `WaitDoubles` | the wait of a state is the wait of the state before, doubled or cut to the cap; the powers of two are a recursive function, and what is needed of them is had from a least counterexample |
| `BriefingDispatcherProofs!SendsLimited` | `SendsAreLimited` | five invariants: each place of a dispatcher has the record it may have (`Typed`); a message is in one hand (`Once`); an outcome is of a send (`Outcome`); every send is logged or about to be (`EverySendLogged`); the permissions of an hour bound what was and may still be sent under it (`ClaimsLimited`); a server holds one permission at a time, and after a late send none of an earlier hour (`Lates`), so that no two of its late sends fall in one (`LatesApart`) |
| `!LeftPending` | `LeftPendingOnlyByFault` | of the steps that let go of a message, all but the faults acknowledge it |
| `BillingProofs!TypeCorrect`, `GraceEnds` | `GracePeriodHasEnd` | inductive with `TypeOK`: days start at 1, so an end is never NULL |
| `!Dated` | `FailuresAreDated` | the request that owes the date keeps its place while others move, and only a fault lets it skip |
| `!TakenByDunning` | `PlanTakenByDunning` | needs `CountsOnRecord`: the failures and days a request has counted are on record until it decides, or were reset |
| `EmailSyncProofs!TypeCorrect` | | inductive with the record each place of a sync may have (`SyncOK`) |
| `!CursorLeavesNoGap` | `NoGap` | `NoGap` and `SyncsKeepUp`, below |
| `!PastStaysOut` | `PastMailSkipped` | `PastInv`: until the cursor is read the list has all past mail that is left, afterwards none, and a non-NULL cursor is above it |
| `!RepliesJoinThreads` | `ReplyJoinsThread` | `RepliesOK`: while nothing has failed or was deleted (`Calm`), a message is stored after all those below it, by whichever server, so whoever looks for a cited one finds its row; rests on `SyncsKeepUp` |
| `TablesProofs!JobsRecovered` | `JobsAreRecovered` | `CronUser`, for each user: a completed row has its next run an interval after its last call; an overdue one is still in the recovery's list, or missed by an error; in the loop none lies before the last tick that was dealt with. And no more rows are cut off (`CutOffs`) than there were stops and errors |
| `!CalendarMirrored` | `RowsMirrorEvents` | `CalendarInv`: one sync holds the lock (`OneSync`) and its token is the one stored (`TokenRead`); what it has still to apply, what it has applied and what its listing left out make up the events since the token (`Listing`) |
| `!TasksStayOnce` | `TasksStoredOnce` | `ExtractionInv`: a worker that found no task of its email, or none similar, is alone with it unless they overlapped (`AloneWithEmail`, `AloneWithTitle`). `SeriesInv`: a check that read a row alone has its date (`ReadAlone`), and the instances of that row are due before the date it has now, but for one per error (`DatesUsed`) |
| `!RemindedWell` | `RemindedWithinLimits` | `FollowInv`, for each delegation: its count and the checks that may still raise it stay within the limit and the overlap (`SendersLimited`), the mails within the count and the faults (`MailsCounted`). `RemindInv`: what is to be sent was open when it was read or closed since |
| `!CodesStayKept` | `CodesKept` | `PromoInv`: the uses of a code are the cardinality of its redemptions, changed by one transaction, and a plan is given after its redemption is on record |
| `!MailedAsDecided` | `SentAsDecided` | `ApprovalInv`: by the place of a request, whether its mail is out, which version it has read and what its draft may be called (`ReplyShape`, `ReplySends`); a draft called sent has an accepted mail (`SentOnRecord`) |
| `!CalendarInAgreement` | `CalendarAgrees` | `SchedInv`: the slots a request waits to store lie within the hours, and only of a request that is detected; an approval under way is of a suggested request, or of an accepted one it is late for. `TableInv`, of a check whose range and preferences nothing has changed since it read them: it has found exactly the pairs near each other among the events it read, by the preferences or the defaults it read (`PairsExact`), which its sorted walk finds because an event that starts too late ends it for all that follow; the transaction then stores exactly those (`StoredExact`) |
| `AccessProofs!MailboxesKept` | `AccountsKept` | `AccountsInv`: each row has one connect it came from (`OwnRow`), a password is stored before the answer (`StoredFirst`), and tokens are those of a consent (`ConsentOK`, `Brought`) |
| `!MailIsSeen` | `MailSeen` | `WatchInv`: the batch a watcher works on, and what its fetch left out, have all of the last day between the watermark and its members but what failed (`BatchWhole`), and what is stored but not enqueued is bounded by the faults (`QueuedFirst`). `SocketsInv`: a client is registered for one account or in the hands of one reconnect (`ClientHeld`), and what nobody holds grows only with a Register that overwrites |
| `!MemoryIsKept` | `MemoryKept` | `RulesInv`: the rules that were counted and the calls that have counted stay within the limit and one per other call. `PromptKept`: what a prompt loses is lost in one scan. Learning: a list of examples is a sequence, and a quick update cuts the old list, SQL's NULL being the empty one, with the new one behind it at a cap the old one is within, so that the old one is a prefix (`MergedKeepsOldest`) |
| `!LimitsAreHeld` | `LimitsHold` | `LimitsInv`, of the part that runs: `SignInInv`, `PlansInv`, `RatesInv` or `BehaviorInv`, below |

A property that is a conjunction is proved as a whole, with the `TypeOK`s and action properties in it:
the theorem names the very definition the run checks. Most of the inductive invariants were
given to TLC as invariants of the run before they were proved.

`SyncsKeepUp` of the email sync says of each sync, by its place: the list of a
search has everything below its members that is in the mailbox; below a member of
a list that is worked on, everything is settled (stored or excused) or still in the
list; a batch lies below the rest of the list; and up to the highest UID processed
everything is settled. It is what lets the cursor be written unconditionally, by
whichever sync comes last: each may only move it to a UID below which all is
settled, and what is settled stays so (`SettledGrows`).

`Inv` of the registry. `OneBundlePerUser` follows from `AliveIsReachable`, since
the map is a function; `AliveIsReachable` needs that whoever is between the two
halves of a Spawn holds a bundle that is inserted (`PendingInserted`) and no two
hold the same (`PendingDistinct`), and that bundles in use have an owner
(`OwnersKnown`). `WaitGroupCounts` is a cardinality: each step adds or removes one
element of the counted set. `DrainNilCoversCounted` needs `CoveredCounted`: what
was counted when the drain began can only be counted still or gone, so a WaitGroup
at 0 means gone.

`LimitsInv` bounds what is there by what is still to come. Sessions: the rows and the calls
under way stay within the limit, the races and the faults, and one more only while a call
under way is going to make room (`RowsLimited`). Failures: while the lock holds, only the
logins that had looked before may add one, and each lock that has run out lets that many in again
(`FailuresLimited`). A sign-out leaves sessions alive at the step in which the provider
refuses it, so those that have are no more than the faults; while it waits or is done, sessions that begin are not among those
it was to end. Plans: what is on record and what the requests past their gate will add is
below the limit and one addition for each request (`WithinPlan`), because a gate that lets pass has
seen a number below the limit, when its own request was not counted. Rates: what a bucket has let
through and what it holds is at most what it held and gained (`BucketsInv`), a window is what it let
through (`WindowsInv`), and in Redis only what is not counted, at most one for each fault and each
member that coincides, is missing from the sorted set (`EntriesInv`). Behaviour: a sum is of
the days it has read (`WeeksInv`), and an alert that no mark has followed is of a run that is about
to mark, or was a fault (`AlertsInv`).

What the assumptions ask of the constants beyond their types: users, codes and tasks exist; the sets
that are counted (emails, jobs, checkers, popups, rules and their writers) or searched for a next one (events,
focus blocks), and the processes whose overlaps are counted, are finite; the scheduler's boot lies within
its time; and the values that stand for "none" (`NoJob`, `NoDraft`, `NoRow`, ...) are not elements of the
sets they are left out of. The number of faults, crashes, stops and changes is arbitrary.

Only model-checked, and why:

* Liveness and fairness, which the prover does not reach: `MetaQueueDrains`, `EveryEmailSettles`,
  `StoppedEnds`, `PausedIsReported`, `EveryEventEnds`, `StaleCacheExpires`, `EveryMailArrives`,
  `StatusRecovers`, `TasksGetOn`, `CatchesUp`, `RequestsReturn`.
* That `AISystem` implements `JobQueue`: its bound action `EnqueueSaturated` drops a copy that finds the list
  full, which is no step of `JobQueue`. The queue's theorems therefore do not carry
  over by refinement, and `AISystemProofs` proves what it needs of the lists itself.

What a model cannot tell stays open in both: the content of messages, time beyond
the ages and days named, and the behaviour of PostgreSQL and Redis below one command.

## 5. Findings

Two runs end in a violation of what a comment says; the quotations are in `PROJECT.json`.

| Run | The text | The code |
|---|---|---|
| `billing_missed` | `NoEventMissed`; webhooks.go:59: better to process twice than miss an event | the event is marked before it is handled: after a 500 the retry is a duplicate (under a schema that has the event's column) |
| `connections` | `RecoveryEnds`; cron.go:144: recoverMissedJobs runs overdue jobs immediately | a recovery keeps its connection while its jobs acquire others: as many recoveries as connections, and each waits for ever |

What follows was met while modelling. It has no run of its own, because a passing property
already admits exactly that case by name, or because two texts disagree and no behaviour is in question.

Boot, queue and briefings:

* cron.go:549 calls stale the jobs "that crashed in the middle"; the update of a row keeps
  `started_at` (pipeline.go:238), so a second run that starts ten minutes after the first is
  selected as stuck from its first step on.
* registry.go:258: DrainAll cancels all bundles and waits for them; Boot goes on with a
  context nobody cancels, and bundles it spawns later are neither cancelled nor waited for
  (`DrainNilCoversCounted` speaks of the bundles counted before).
* dispatcher.go:133: not acknowledged means "will be retried via XAUTOCLAIM"; runAutoClaim
  takes the message over and does not process it (`EveryEventEnds` lets it stay pending).
* queue.go:67 says a user is removed if the queue is empty after the pop, but ZREM is a
  command of its own after LLEN, and a job pushed in between stays in a list no Dequeue
  looks at until the user's next Enqueue (`StrandedOnlyByZRemOrCutEnqueue` admits exactly
  that step).
* src/README.md:84 promises "2s base, 5min max, 10 failures", but `main.go` leaves the
  supervisor's fields 0, so that the first failure ends a service.
* A cron job that failed, or whose row says running because its process stopped or the result was not written, is not
  selected by the recovery; with restarts more frequent than its interval it never runs.
* ratelimit.go:17 promises "maximum notifications per hour"; the permission and the send are two steps, so that a
  message permitted in one hour may go out in the next, on top of that one's limit (`OneLatePerServer` bounds how many).
* Twilio's handler does not look for an empty message id (webhook_whatsapp.go:45): such a callback overwrites the status
  of every row that has none.

Billing, plans, codes:

* The SQL is written for columns and statuses that migrations 038 and 041 do not have (section 2): against them no event
  is a duplicate, and checkout, failure, deletion and downgrade fail.
* dunning.go:19 asks for three failures and seven days before suspension; `payment_status = 'suspended'` is set at the third failure whatever the
  days say (dunning.go:31), while plan and cache follow only after them (`PlanTakenByDunning` is about the plan);
  `first_failure_at` survives invoice.paid, so a later series of failures is dated by
  the first one ever.
* The grace period and trial checks of the cron scheduler are placeholders
  (cron.go:665-685), so `CheckGraceExpiry` and `CheckTrialExpiry` have no caller.
* A trial code of a lower plan replaces a higher plan that was bought, and the sweep ends a bought plan
  equal to the trial's. A failed provisioning leaves a used code without effect.
* Only `PlanGate` is wired (router.go:337-429); `RequireFeature`, `RequireAccounts`,
  `RequireTokens`, `NewQuotaChecker` and `IncrementUsage` have no caller. A stale cached plan against
  an unlimited plan in the table refuses every token; the free plan's premium limit of 0 means "none" in
  the comment and "unlimited" in the code (quota.go:16, 80); a refused premium call
  still counts its tokens.

Mail:

* A mailbox that is empty at the first sync gets no baseline (imap_sync.go:61), and the mail that
  arrives before the next poll counts as past.
* Gmail stores every message with uid 0 under a unique key of account and uid: one row per account, the others
  counted as synced. Nothing calls it, nor the watchers of `email/realtime`. idle.go enqueues an id that is not the row's;
  `lastUID` begins at 0 and passes messages that a fetch left out (client.go:57); the history passes over messages whose handler failed.
* `Register`, and with it two overlapping reconnects, overwrite an entry of the connection manager without closing its
  client; and `Register` refuses at the limit even to replace an entry.
* An account that has mail cannot be deleted (`emails.account_id` has no cascade), but its password
  goes first: afterwards it can be neither used, deleted nor connected again
  (`PasswordKept` admits it, and the account whose DELETE failed). An OAuth popup without an address keeps its tokens
  under the empty one. Nothing makes an address unique, so two connects make two
  rows. An OAuth popup never makes an account although it is answered as connected
  (auth_handlers.go:395): the ON CONFLICT has no key and the provider's name violates a CHECK.
* A draft is marked after SMTP: an approval whose context ends in between leaves it pending,
  and a second one sends it again. send_handlers.go:195 lets the user retry a failed send,
  but the draft is then approved and no longer found. The INSERT of a scheduled send always fails,
  and two sends of one millisecond collide in `emails`, so that one is sent and not recorded.

Tasks and calendar:

* Only the first task of an email is stored: the second finds the email already used.
  `sent_at` of a reminder is never set, since its UPDATE finds the connection busy, so it is sent
  at each check; a deadline that is moved keeps its old reminders. An instance of a recurring task
  recurs itself, besides its original: both insert the next date, and a series doubles at every interval. Overlapping follow-up checks can leave a delegation pending
  with its count used up; follow-ups go on after the task is closed.
* The statuses free and outOfOffice of Microsoft violate the CHECK of migration 051;
  `calendar_accounts` is in no migration. What is deleted while a token expires keeps its row,
  and so does what changed outside the window of a full listing. A row of the preferences that cannot be read is replaced by the
  defaults, events that cannot be read are not there, both without an error (conflict_realtime.go:68, 103).
* A long slot may pass midnight; an approval looks only at conflicts already stored and makes no
  event; two requests of one email are both kept, as ON CONFLICT has no key.
* conflict_realtime.go "clears the old and inserts the new", but two preference violations of one event
  abort the whole replacement, and a check of a part of the range deletes conflicts it cannot find again.

Memory, sign-in, limits, behaviour:

* A rule created by the handler without a filter stores a NULL that `scanRules` cannot read: the whole
  memory is then missing from every prompt, and `ApplyOverrides` lets everything pass
  (`LostOnlyByNull`). HandleGeneratePatterns deletes all patterns, and each insert is refused by a CHECK
  (migration 027), though it answers a number. A null list of examples stops quick updates until
  the next synthesis, while an empty one becomes an SQL NULL and goes on. The limit on rules is in `UserRuleStore.Create`, which has no caller.
* An expired lock leaves the count, so one more failure locks again. `TrackSession` has no caller, and the excess of
  overlapping ones stays, as each evicts one. `RevokeSession` deletes the row only, `Logout` ends the
  provider's session only. A sign-out the provider refuses is answered as done (supabase.go:113, auth_handlers.go:232).
* The Redis limiter's `maxPerMin` is never read, and a failed ZADD or two members of one nanosecond
  are not counted.
* The work-life alert is never published in the only call there is (its AI is nil, router.go:330), but its mark is set;
  a second run of a day clears `is_declining`; a contact without mail keeps it. The baseline query of
  relationship_alerts.go runs while rows are open on its connection and always fails.

## 6. What is not modelled

* Digests: `Build` begins with `SET LOCAL app.tenant_id = $1`, which PostgreSQL refuses, and
  `RunScheduledDigests` has no caller. The window of 30 minutes around a time is hit by several ticks of 15.
* Parts nothing calls and whose behaviour is one statement or a copy of what is modelled:
  `RecoverIncompleteJobs`, `ReprocessSkipped`, the response cache (its key leaves out the temperature
  and the format), the circuit breaker and health checker of the AI providers, `AIProcessor`,
  `StoreEmailBatch`, `SyncInvoice`, `CheckAndGenerateBriefs`, `CheckAfterSync`, `SyncWithLock`.
* `PromoCodes`: creation and listing of codes, single statements of an administrator.
* Calls to others and the formatting of their answers: AI providers, Stripe's API,
  calendar providers, SMTP and IMAP below one command, the parser of MIME. Their outcomes are
  choices of the models that use them.
* What text says: prompts, templates, retrieval, the statistics of analytics. A
  category, a summary or a score is a choice or not there at all.
* Single statements: most handlers of the REST API are one query; a model of them
  would be a copy of the query. Those that change what a module models are in it.
* Configuration, database set-up, cryptographic primitives, logging and metrics.

### Hazards beyond the list of PROJECT.json

The list names 40, each with a property. Others seen in the code:

* A query's rows left open while its loop takes a second connection: billing/lifecycle.go:44 and
  email/send/service.go, besides those of `CronScheduler` and `DraftApproval`; calendar/sync.go
  holds a connection for its lock while the sync takes others.
* briefings: `RegisterDeviceToken` moves a token between users, not tenants, while a send
  reads it (briefings/dispatcher.go:129); delivery.go applies callbacks in the order they arrive.
* ai/queue/pipeline.go: the briefing is published before the category is stored; a
  repeated run publishes it again. ai/cache: a summary is cached under its body alone.
* cron.go:546-577: five emails per tick in the order of the branches, so
  fresh mail can keep stale and failed ones waiting.
* Two statements write `invoice_history` with different columns, in the order the events arrive.
* api/draft_handlers.go: PUT changes the body of a draft of any status.

## 7. The plan

Done, in the order of importance: queue and its abstract specification; pipeline
and AI system; registry; supervisor; briefings; billing; email sync; the proofs of
section 4; cron scheduler and drafts with the connections they hold; tasks; calendar; promo codes;
accounts, sessions and limits; memory and learning; watchers and connections; limiters; behaviour.

Done in proofs: every safety property of the runs (section 4). Liveness stays with the runs.

Compositions and abstractions still worth stating: the cron scheduler of `AISystem`
replaced by `CronScheduler`; `Billing` refined from a tenant whose plan is a function
of the events applied, with `PromoCodes` and `PlanLimits` on the same tenant; the dispatcher refined
from an at-most-once mailbox.

Runs are few and each asks several properties of one instance. A new module of one
component joins the run of its kind as a further part, and a finding keeps a run of its own only
while no passing property tells the same.
