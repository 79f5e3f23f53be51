------------------------------ MODULE AIPipeline ------------------------------
(***************************************************************************)
(* The processing of one email by a worker (src/internal/ai/queue/         *)
(* pipeline.go Process) and the table email_ai_status it reports to.       *)
(*                                                                         *)
(* A worker is a goroutine of the worker pool with the job it was given.   *)
(* Every write of the table and every AI call is a step of its own: the    *)
(* cron scheduler and other workers read and write the same row meanwhile. *)
(* The clock is abstracted to the two ages the cron scheduler looks at.    *)
(***************************************************************************)
EXTENDS Naturals

CONSTANTS
  Emails,      \* the stored emails
  Plans,       \* the plans a tenant can be on
  PlanStages,  \* PlanStages[p]: the stages that run for plan p
  Workers,     \* goroutines that may run Process
  NoJob,       \* not a job
  RetryCap,    \* bound: retry_count saturates here
  DraftCap     \* bound: the number of drafts of an email saturates here

ASSUME PlanStagesAssumption ==
  PlanStages \in [Plans -> SUBSET {"categorizing", "summarizing", "drafting"}]
ASSUME CapsAssumption == RetryCap \in Nat \ {0} /\ DraftCap \in Nat \ {0}

VARIABLES
  row,      \* row[e]: the row of e in email_ai_status
  drafts,   \* drafts[e]: how many draft_replies e has
  proc      \* proc[w]: where worker w is inside Process

pipelineVars == <<row, drafts, proc>>

JobsOf == Emails \X Plans
Email(j) == j[1]
Plan(j) == j[2]

Working == {"categorizing", "summarizing", "drafting"}
Stages == {"none", "complete", "error"} \union Working

\* stage "none" is the absence of a row.  stale: started_at is more than ten
\* minutes ago; rested: completed_at is more than five minutes ago.
Rows == [stage : Stages, retries : 0 .. RetryCap, stale : BOOLEAN, rested : BOOLEAN]
NoRow == [stage |-> "none", retries |-> 0, stale |-> FALSE, rested |-> FALSE]

Asleep == [pc |-> "idle", job |-> NoJob]
ProcPCs == {"load", "setCategorizing", "categorize", "setSummarizing", "summarize",
            "setDrafting", "draft", "setComplete", "setError"}
ProcStates == {Asleep} \union [pc : ProcPCs, job : JobsOf]

Capped(n, cap) == IF n < cap THEN n ELSE cap

PipelineTypeOK ==
  /\ row \in [Emails -> Rows]
  /\ drafts \in [Emails -> 0 .. DraftCap]
  /\ proc \in [Workers -> ProcStates]

PipelineInit ==
  /\ row = [e \in Emails |-> NoRow]
  /\ drafts = [e \in Emails |-> 0]
  /\ proc = [w \in Workers |-> Asleep]

-------------------------------------------------------------------------------
(* updateStatus: INSERT ... ON CONFLICT (email_id) DO UPDATE.  The insert    *)
(* sets started_at and leaves retry_count 0, whatever the stage; the update  *)
(* keeps started_at and counts a retry for an error.                         *)

\* Variant: the update of an error counts no retry.
UpsertNoCount(r, s) ==
  [stage |-> s, retries |-> r.retries, stale |-> r.stale, rested |-> FALSE]

Upsert(r, s) ==
  IF r.stage = "none"
    THEN [stage |-> s, retries |-> 0, stale |-> FALSE, rested |-> FALSE]
    ELSE [stage |-> s,
          retries |-> IF s = "error" THEN Capped(r.retries + 1, RetryCap) ELSE r.retries,
          stale |-> r.stale,
          rested |-> FALSE]

\* What updateStatus(stage) may do to the table; an error is only logged.
StatusWritten(e, s) == row' = [row EXCEPT ![e] = Upsert(@, s)]

Goto(w, pc) == proc' = [proc EXCEPT ![w].pc = pc]

Start(w, j) ==
  /\ proc[w] = Asleep
  /\ proc' = [proc EXCEPT ![w] = [pc |-> "load", job |-> j]]

\* The next write of the status: which stage is reported, where Process goes
\* on.  "idle" is the return.
Report == [setCategorizing |-> "categorizing", setSummarizing |-> "summarizing",
           setDrafting |-> "drafting", setComplete |-> "complete", setError |-> "error"]
After(pc) == CASE pc = "setCategorizing" -> "categorize"
               [] pc = "setSummarizing" -> "summarize"
               [] pc = "setDrafting" -> "draft"
               [] pc \in {"setComplete", "setError"} -> "idle"

Reporting(w) == proc[w].pc \in DOMAIN Report

ReportDone(w) ==
  LET next == After(proc[w].pc) IN
  IF next = "idle" THEN proc' = [proc EXCEPT ![w] = Asleep] ELSE Goto(w, next)

UpdateStatus(w) ==
  /\ Reporting(w)
  /\ StatusWritten(Email(proc[w].job), Report[proc[w].pc])
  /\ ReportDone(w)
  /\ UNCHANGED drafts

\* No connection or a failed statement: Process goes on all the same.
UpdateStatusFails(w) ==
  /\ Reporting(w)
  /\ ReportDone(w)
  /\ UNCHANGED <<row, drafts>>

Runs(w, stage) == stage \in PlanStages[Plan(proc[w].job)]

-------------------------------------------------------------------------------
(* The stages.                                                               *)

AfterCategorize(w) == IF Runs(w, "summarizing") THEN "setSummarizing" ELSE "setComplete"

Load(w) ==
  /\ proc[w].pc = "load"
  /\ Goto(w, IF Runs(w, "categorizing") THEN "setCategorizing" ELSE AfterCategorize(w))
  /\ UNCHANGED <<row, drafts>>

LoadFails(w) ==
  /\ proc[w].pc = "load"
  /\ Goto(w, "setError")
  /\ UNCHANGED <<row, drafts>>

\* An error of the AI call, of its timeout or of the parser ends the run.
Categorize(w) ==
  /\ proc[w].pc = "categorize"
  /\ \E ok \in BOOLEAN : Goto(w, IF ok THEN AfterCategorize(w) ELSE "setError")
  /\ UNCHANGED <<row, drafts>>

\* shouldSkipDraft looks at the sender, the category, the summary and the
\* direction of the email: none of them is kept, either answer is possible.
ShouldSkipDraft == BOOLEAN

\* A failed summary is not fatal: the draft is then decided on without it.
Summarize(w) ==
  /\ proc[w].pc = "summarize"
  /\ \E skip \in ShouldSkipDraft :
       Goto(w, IF Runs(w, "drafting") /\ ~skip THEN "setDrafting" ELSE "setComplete")
  /\ UNCHANGED <<row, drafts>>

\* A plain INSERT: a second run of the email stores a second draft.  Neither
\* a failed call nor a failed INSERT is fatal.
GenerateDraft(w) ==
  LET e == Email(proc[w].job) IN
  /\ proc[w].pc = "draft"
  /\ \/ drafts' = [drafts EXCEPT ![e] = Capped(@ + 1, DraftCap)]
     \/ UNCHANGED drafts
  /\ Goto(w, "setComplete")
  /\ UNCHANGED row

Process(w) ==
  \/ Load(w) \/ Categorize(w) \/ Summarize(w) \/ GenerateDraft(w)
  \/ UpdateStatus(w)

ProcessFails(w) == LoadFails(w) \/ UpdateStatusFails(w)

-------------------------------------------------------------------------------
(* The clock.                                                                *)

AgeStart(e) ==
  /\ row[e].stage # "none"
  /\ ~row[e].stale
  /\ row' = [row EXCEPT ![e].stale = TRUE]
  /\ UNCHANGED <<drafts, proc>>

AgeError(e) ==
  /\ row[e].stage = "error"
  /\ ~row[e].rested
  /\ row' = [row EXCEPT ![e].rested = TRUE]
  /\ UNCHANGED <<drafts, proc>>
===============================================================================
