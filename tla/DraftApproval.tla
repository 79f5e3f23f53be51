---------------------------- MODULE DraftApproval ----------------------------
(***************************************************************************)
(* The reply queue and sending (api/send_handlers.go, draft_handlers.go,   *)
(* email/send).  An approval reads the pending draft, sends it over SMTP,  *)
(* records an outbound email and marks the draft, with one connection of   *)
(* the pool for the handler, a second one for send.Service and a third one *)
(* for the credentials, all three taken while the others are held.         *)
(*                                                                         *)
(* Every statement runs under the request's context, which chi's Timeout   *)
(* or a client that goes away cancels; SMTP does not look at it.           *)
(***************************************************************************)
EXTENDS Naturals, FiniteSets, Functions

CONSTANTS
  Requests,   \* requests to approve a draft or to send a composed mail
  Drafts,     \* the rows of draft_replies, all pending at first
  Conns,      \* MaxConns of the pool
  MaxEdits,   \* bound: versions of a draft's body
  MaxMs,      \* bound: milliseconds the model tells apart
  NoDraft     \* the draft of a composed mail

ApprovalAssumption ==
  /\ NoDraft \notin Drafts
  /\ Conns \in Nat /\ MaxEdits \in Nat /\ MaxMs \in Nat \ {0}

VARIABLES
  row,   \* row[d]: status and body of the draft, or Deleted
  req,   \* req[r]: where the handler of r is
  mail,  \* mail[r]: what the mail server accepted from r
  sent,  \* sent[r]: the outbound row of r in emails
  ms     \* the millisecond of the clock

vars == <<row, req, mail, sent, ms>>

Bodies == 0 .. MaxEdits
Deleted == [status |-> "deleted", body |-> 0]
NoMail == [ok |-> FALSE, body |-> 0]
NoRecord == [ms |-> 0, log |-> "none"]
Idle == [pc |-> "idle", draft |-> NoDraft, body |-> 0, since |-> 0,
         expired |-> FALSE, error |-> FALSE]

\* "load", "account" and "credential" need a connection; "lost" ended
\* without its update of the draft, "failed" before it had read one.
PCs == {"idle", "load", "account", "credential", "smtp", "record", "log", "mark",
        "marked", "failed", "lost", "answered"}

\* The shape of the state.
TypeOK ==
  /\ row \in [Drafts -> [status : {"pending", "approved", "sent", "deleted"}, body : Bodies]]
  /\ req \in [Requests -> [pc : PCs, draft : Drafts \cup {NoDraft}, body : Bodies,
                           since : Bodies, expired : BOOLEAN, error : BOOLEAN]]
  /\ mail \in [Requests -> [ok : BOOLEAN, body : Bodies]]
  /\ sent \in [Requests -> [ms : 0 .. MaxMs, log : {"none", "sent", "failed"}]]
  /\ \A r \in Requests : sent[r].log # "none" => sent[r].ms # 0
  /\ ms \in 1 .. MaxMs

Init ==
  /\ row = [d \in Drafts |-> [status |-> "pending", body |-> 0]]
  /\ req = [r \in Requests |-> Idle]
  /\ mail = [r \in Requests |-> NoMail]
  /\ sent = [r \in Requests |-> NoRecord]
  /\ ms = 1

-------------------------------------------------------------------------------
(* Requests.                                                                 *)

At(r, pc) == req[r].pc = pc
Goto(r, pc) == req' = [req EXCEPT ![r].pc = pc]
Ended(r) == req[r].pc \in {"marked", "failed", "lost", "answered"}
InFlight(r) == ~At(r, "idle") /\ ~Ended(r)

\* The handler's connection, until it returns, and Send's, until Send returns.
\* A composed mail has no handler's connection.
Held(r) ==
  (IF InFlight(r) /\ ~At(r, "load") /\ req[r].draft # NoDraft THEN 1 ELSE 0)
    + (IF req[r].pc \in {"credential", "smtp", "record", "log"} THEN 1 ELSE 0)
Free == Conns > FoldFunctionOnSet(+, 0, [r \in Requests |-> Held(r)], Requests)

\* HandleApproveDraftAndSend.
Approve(r, d) ==
  /\ At(r, "idle")
  /\ req' = [req EXCEPT ![r] = [Idle EXCEPT !.pc = "load", !.draft = d,
                                            !.since = row[d].body]]
  /\ UNCHANGED <<row, mail, sent, ms>>

\* HandleComposeSend without scheduled_at: Send and nothing else.
Compose(r) ==
  /\ At(r, "idle")
  /\ Goto(r, "account")
  /\ UNCHANGED <<row, mail, sent, ms>>

\* The 30 seconds are over or the client is gone.
Expire(r) ==
  /\ InFlight(r)
  /\ ~req[r].expired
  /\ req' = [req EXCEPT ![r].expired = TRUE]
  /\ UNCHANGED <<row, mail, sent, ms>>

\* The process dies.
Crash ==
  /\ \E r \in Requests : InFlight(r)
  /\ req' = [r \in Requests |-> IF InFlight(r) THEN [req[r] EXCEPT !.pc = "lost"]
                                               ELSE req[r]]
  /\ UNCHANGED <<row, mail, sent, ms>>

\* Variant: any status will do.
LoadAnyStatus(r) ==
  /\ At(r, "load")
  /\ \/ /\ ~req[r].expired /\ Free
        /\ IF row[req[r].draft].status # "deleted"
             THEN req' = [req EXCEPT ![r].pc = "account", ![r].body = row[req[r].draft].body]
             ELSE Goto(r, "failed")
     \/ req[r].expired /\ Goto(r, "failed")
  /\ UNCHANGED <<row, mail, sent, ms>>

\* The handler's connection and the draft, if it is pending; 404 or 500.
Load(r) ==
  /\ At(r, "load")
  /\ \/ /\ ~req[r].expired /\ Free
        /\ IF row[req[r].draft].status = "pending"
             THEN req' = [req EXCEPT ![r].pc = "account", ![r].body = row[req[r].draft].body]
             ELSE Goto(r, "failed")
     \/ req[r].expired /\ Goto(r, "failed")
  /\ UNCHANGED <<row, mail, sent, ms>>

-------------------------------------------------------------------------------
(* send.Service.Send.                                                        *)

\* Send returns: a composed mail is answered, a draft is marked.
SendReturns(r, error) ==
  req' = [req EXCEPT ![r].pc = IF req[r].draft = NoDraft THEN "answered" ELSE "mark",
                     ![r].error = error]

\* Variant: the wait for a connection does not look at the context.
QueryWithoutContext(r, pc, next) ==
  /\ At(r, pc)
  /\ Free
  /\ Goto(r, next) \/ SendReturns(r, TRUE)
  /\ UNCHANGED <<row, mail, sent, ms>>

\* A step that waits for a connection and may fail, at once if the context is
\* cancelled.
Query(r, pc, next) ==
  /\ At(r, pc)
  /\ \/ ~req[r].expired /\ Free /\ Goto(r, next)
     \/ (req[r].expired \/ Free) /\ SendReturns(r, TRUE)
  /\ UNCHANGED <<row, mail, sent, ms>>

\* Send's connection and the account; then the credential, through a
\* connection of the credential store.
LoadAccount(r) == Query(r, "account", "credential")
GetCredential(r) == Query(r, "credential", "smtp")

\* SendViaSMTP: an error may come after the server has taken the message
\* (w.Close, c.Quit); either way the attempt is recorded.
SendViaSMTP(r) ==
  /\ At(r, "smtp")
  /\ \E accepted, error \in BOOLEAN :
       /\ accepted \/ error
       /\ mail' = [mail EXCEPT ![r] = [ok |-> accepted, body |-> req[r].body]]
       /\ req' = [req EXCEPT ![r].pc = "record", ![r].error = error]
  /\ UNCHANGED <<row, sent, ms>>

\* The uid of an outbound row is its millisecond: UNIQUE(account_id, uid).
Collides == \E r \in Requests : sent[r].ms = ms

\* recordSent: the row in emails.  If it fails there is no log either, and
\* Send returns what SMTP returned.
RecordSent(r) ==
  /\ At(r, "record")
  /\ IF req[r].expired \/ Collides
       THEN SendReturns(r, req[r].error) /\ UNCHANGED sent
       ELSE /\ sent' = [sent EXCEPT ![r].ms = ms]
            /\ Goto(r, "log")
  /\ UNCHANGED <<row, mail, ms>>

\* email_send_log; its error is ignored.
LogSend(r) ==
  /\ At(r, "log")
  /\ sent' = IF req[r].expired THEN sent
             ELSE [sent EXCEPT ![r].log = IF req[r].error THEN "failed" ELSE "sent"]
  /\ SendReturns(r, req[r].error)
  /\ UNCHANGED <<row, mail, ms>>

-------------------------------------------------------------------------------
(* What happens to the draft.                                                *)

\* The update of the draft by id, whatever its status is by now; its error
\* is ignored, and so is a draft that is gone.
Mark(r) ==
  /\ At(r, "mark")
  /\ IF req[r].expired THEN UNCHANGED row
     ELSE row' = [row EXCEPT ![req[r].draft].status =
                    IF @ = "deleted" THEN @
                    ELSE IF req[r].error THEN "approved" ELSE "sent"]
  /\ Goto(r, IF req[r].expired THEN "lost" ELSE "marked")
  /\ UNCHANGED <<mail, sent, ms>>

\* HandleRejectDraft deletes the row in any status.
Reject(d) ==
  /\ row[d] # Deleted
  /\ row' = [row EXCEPT ![d] = Deleted]
  /\ UNCHANGED <<req, mail, sent, ms>>

\* HandleUpdateDraft writes the body in any status.
UpdateDraft(d) ==
  /\ row[d] # Deleted
  /\ row[d].body < MaxEdits
  /\ row' = [row EXCEPT ![d].body = @ + 1]
  /\ UNCHANGED <<req, mail, sent, ms>>

Tick == ms < MaxMs /\ ms' = ms + 1 /\ UNCHANGED <<row, req, mail, sent>>

HandleButSend(r) ==
  \/ Load(r) \/ LoadAccount(r) \/ GetCredential(r)
  \/ RecordSent(r) \/ LogSend(r) \/ Mark(r)
Handle(r) == HandleButSend(r) \/ SendViaSMTP(r)
Next ==
  \/ \E r \in Requests : Compose(r) \/ Handle(r) \/ Expire(r) \/ (\E d \in Drafts : Approve(r, d))
  \/ \E d \in Drafts : Reject(d) \/ UpdateDraft(d)
  \/ Tick \/ Crash

Spec == Init /\ [][Next]_vars

\* The handler's goroutine runs and the timer of the request fires.  SMTP dials
\* without a timeout and may never come back (smtp.go:35).
FairSpec == Spec /\ \A r \in Requests : WF_vars(HandleButSend(r) \/ Expire(r))

-------------------------------------------------------------------------------
(* What the API shows.                                                       *)

ListDrafts(status) == {d \in Drafts : row[d].status = status}
ListSent == {r \in Requests : sent[r].ms # 0}

-------------------------------------------------------------------------------
(* Properties.                                                               *)

Of(d) == {r \in Requests : req[r].draft = d}

\* A draft the queue still offers although its mail is out is in the hands
\* of an approval that has not returned, or of one whose update was lost
\* with its context or its process (send_handlers.go:199).
OfferedIsUnsent ==
  \A d \in ListDrafts("pending") :
    (\E r \in Of(d) : mail[r].ok) => \E r \in Of(d) : mail[r].ok /\ (InFlight(r) \/ At(r, "lost"))

\* No approval sends a draft that another one has already marked: two mails
\* of one draft are of approvals that overlapped, or that were cut off.
DecidedOnce ==
  [][\A r \in Requests : At(r, "load") /\ req'[r].pc = "account" =>
       ~\E o \in Of(req[r].draft) : At(o, "marked")]_vars

\* A mail carries every edit that was answered before its approval began.
MailHasTheEdits ==
  \A r \in Requests : mail[r].ok /\ req[r].draft # NoDraft => mail[r].body >= req[r].since

\* What the log and the draft call sent has been accepted by a mail server.
SentWasAccepted ==
  /\ \A r \in ListSent : sent[r].log = "sent" => mail[r].ok
  /\ \A d \in ListDrafts("sent") : \E r \in Of(d) : mail[r].ok

\* Every request returns or is in a send that does not come back: requests that
\* hold connections and wait for more are released by the timeout of their
\* contexts, even when sends that hang hold all the others.
RequestsReturn == \A r \in Requests : InFlight(r) ~> Ended(r) \/ At(r, "smtp")

\* What is mailed, recorded and offered agrees with what the user decided, for
\* requests that cross each other (send_handlers.go:133-213).
SentAsDecided ==
  /\ [](TypeOK /\ OfferedIsUnsent /\ MailHasTheEdits /\ SentWasAccepted)
  /\ DecidedOnce
=============================================================================
