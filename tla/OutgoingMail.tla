---------------------------- MODULE OutgoingMail ----------------------------
(***************************************************************************)
(* The delivery queue of the mail service: campaigns put one row per mail  *)
(* into email_messages, delivery workers claim rows, hand them to a mail   *)
(* server that may not answer, and write down what came of it (worker.go); *)
(* people release and call back scheduled sends (scheduled.go), requeue    *)
(* and abandon what failed (queries.go).                                   *)
(*                                                                         *)
(* Every statement commits on its own. A worker claims several rows in one *)
(* statement and then deals with them one at a time from memory; what it   *)
(* writes afterwards names the row by its id alone, whatever has become of *)
(* it meanwhile. Left out: the clock (next_retry_at, the decision window   *)
(* and the mailbox quota pass or not by choice), what the mail says, the   *)
(* per-recipient verdicts of a merged mail and the suppression list.       *)
(***************************************************************************)
EXTENDS Integers, FiniteSets

CONSTANTS
  Mails,        \* message rows
  CampaignOf,   \* CampaignOf[m]: the campaign m belongs to
  Merged,       \* mails that carry their recipients in a table of their own
  Workers,      \* processes that run RunWorker
  Callbacks,    \* requests to call back a scheduled send
  BatchSize,    \* rows one claim takes (20)
  Tries,        \* length of the backoff table (5)
  MaxAttempts,  \* bound: a row is not claimed more often in a row
  MaxRequeues,  \* bound: a person requeues a mail so often
  NoMail

ASSUME MailAssumption ==
  /\ DOMAIN CampaignOf = Mails /\ NoMail \notin Mails
  /\ Merged \subseteq Mails
  /\ BatchSize \in Nat \ {0} /\ Tries \in Nat \ {0}
  /\ MaxAttempts \in Nat /\ MaxRequeues \in Nat
  /\ IsFiniteSet(Workers)

VARIABLES
  mail,         \* mail[m]: the email_messages row
  worker,       \* worker[w]: the rows w claimed and has not dealt with, with
                \* their attempt_count as claimed, and the call it is in
  callback,     \* callback[r]: where a call-back request is, and its draft
  handed,       \* handed[m]: how often the mail server took m
  dialled,      \* dialled[m]: how often m was offered to it, up to Tries
  requeued      \* requeued[m]: how often a person put m back in the queue

vars == <<mail, worker, callback, handed, dialled, requeued>>

Campaigns == {CampaignOf[m] : m \in Mails}
Of(c) == {m \in Mails : CampaignOf[m] = c}

Statuses == {"none", "QUEUED", "SENDING", "ACCEPTED", "SEND_UNKNOWN",
             "NEEDS_ATTENTION", "HARD_BOUNCED", "FAILED", "CANCELLED"}
Reasons == {"", "variables", "recipients", "retries"}   \* attention_reason
Holds == {"none", "later", "due"}                       \* scheduled_at
Kinds == {"MARKETING", "TRANSACTIONAL"}

Outcomes == {"Accepted", "Retryable", "Permanent", "Unknown"}
NoCall == [mail |-> NoMail, attempt |-> 0, outcome |-> "none"]
NoBatch == [m \in {} |-> 0]
Resting == [batch |-> NoBatch, call |-> NoCall]

Init ==
  /\ mail = [m \in Mails |-> [status |-> "none", kind |-> "MARKETING", why |-> "", attempts |-> 0, hold |-> "none"]]
  /\ worker = [w \in Workers |-> Resting]
  /\ callback = [r \in Callbacks |-> [step |-> "new", of |-> "none", draft |-> {}]]
  /\ handed = [m \in Mails |-> 0]
  /\ dialled = [m \in Mails |-> 0]
  /\ requeued = [m \in Mails |-> 0]

With(status, S) == {m \in S : mail[m].status = status}

-----------------------------------------------------------------------------
(* Composing a campaign.                                                   *)

(* CreateCampaign: one row per recipient in one transaction; a mail with a *)
(* variable that has no value waits for a person instead of going out.     *)
NewMail(kind, hold, incomplete) ==
  [status |-> IF incomplete THEN "NEEDS_ATTENTION" ELSE "QUEUED", kind |-> kind,
   why |-> IF incomplete THEN "variables" ELSE "", attempts |-> 0, hold |-> hold]

CreateCampaign(c, kind, hold) ==
  /\ Of(c) = With("none", Of(c))
  /\ \E incomplete \in SUBSET Of(c) :
       mail' = [m \in Mails |-> IF m \in Of(c) THEN NewMail(kind, hold, m \in incomplete) ELSE mail[m]]
  /\ UNCHANGED <<worker, callback, handed, dialled, requeued>>

(* The time a send was scheduled for comes.                                *)
TimeComes(c) ==
  /\ \E m \in Of(c) : mail[m].hold = "later"
  /\ mail' = [m \in Mails |-> IF m \in Of(c) /\ mail[m].hold = "later"
                              THEN [mail[m] EXCEPT !.hold = "due"] ELSE mail[m]]
  /\ UNCHANGED <<worker, callback, handed, dialled, requeued>>

-----------------------------------------------------------------------------
(* The delivery worker.                                                    *)

IsResting(w) == worker[w] = Resting

(* Mutant: a row that has had all its tries is not claimed any more.       *)
DueWithTriesLeft == {m \in With("QUEUED", Mails) : mail[m].hold # "later" /\ mail[m].attempts < Tries}

Due == {m \in With("QUEUED", Mails) : mail[m].hold # "later" /\ mail[m].attempts < MaxAttempts}

(* Mutant: stuck rows are queued again.                                    *)
StuckGoesOutAgain(w, S) ==
  /\ IsResting(w)
  /\ S # {} /\ S \subseteq With("SENDING", Mails)
  /\ mail' = [m \in Mails |-> IF m \in S THEN [mail[m] EXCEPT !.status = "QUEUED"] ELSE mail[m]]
  /\ UNCHANGED <<worker, callback, handed, dialled, requeued>>

(* ReviveStuckSending, at the start of a pass: rows in SENDING whose       *)
(* decision window is over. The window counts from when the mail was       *)
(* queued, so any row that waited long enough before it was claimed is     *)
(* among them at once.                                                     *)
ReviveStuck(w, S) ==
  /\ IsResting(w)
  /\ S # {} /\ S \subseteq With("SENDING", Mails)
  /\ mail' = [m \in Mails |-> IF m \in S THEN [mail[m] EXCEPT !.status = "SEND_UNKNOWN"] ELSE mail[m]]
  /\ UNCHANGED <<worker, callback, handed, dialled, requeued>>

(* ClaimMessages: committed before any of them is handed over.             *)
Claim(w, S) ==
  /\ IsResting(w)
  /\ S # {} /\ S \subseteq Due /\ Cardinality(S) <= BatchSize
  /\ mail' = [m \in Mails |-> IF m \in S
                THEN [mail[m] EXCEPT !.status = "SENDING", !.attempts = @ + 1] ELSE mail[m]]
  /\ worker' = [worker EXCEPT ![w].batch = [m \in S |-> mail[m].attempts + 1]]
  /\ UNCHANGED <<callback, handed, dialled, requeued>>

Without(batch, m) == [n \in DOMAIN batch \ {m} |-> batch[n]]

IsNext(w, m) ==   \* m is the next mail of w's batch
  /\ worker[w].call = NoCall
  /\ m \in DOMAIN worker[w].batch

Done(w, m) == worker' = [worker EXCEPT ![w].batch = Without(@, m)]

(* Mutants: the attempt charged by the claim is kept; it is given back from *)
(* a count that a requeue has set to zero.                                 *)
DeferredAtCost(row) == [row EXCEPT !.status = "QUEUED"]
DeferredBelowZero(row) == [row EXCEPT !.status = "QUEUED", !.attempts = @ - 1]

(* The mailbox is over its quota: DeferForQuota gives the attempt back.    *)
Deferred(row) == [row EXCEPT !.status = "QUEUED", !.attempts = IF @ = 0 THEN 0 ELSE @ - 1]

Defer(w, m) ==
  /\ IsNext(w, m) /\ Done(w, m)
  /\ mail' = [mail EXCEPT ![m] = Deferred(@)]
  /\ UNCHANGED <<callback, handed, dialled, requeued>>

(* A merged mail whose recipients cannot be read.                          *)
Unreadable(w, m) ==
  /\ m \in Merged
  /\ IsNext(w, m) /\ Done(w, m)
  /\ mail' = [mail EXCEPT ![m].status = "NEEDS_ATTENTION", ![m].why = "recipients"]
  /\ UNCHANGED <<callback, handed, dialled, requeued>>

(* The mail server is called. It takes the mail or not; no answer leaves   *)
(* open which.                                                             *)
Call(w, m) ==
  /\ IsNext(w, m)
  /\ \E outcome \in Outcomes, taken \in {0, 1} :
       /\ outcome = "Accepted" => taken = 1
       /\ outcome \in {"Retryable", "Permanent"} => taken = 0
       /\ handed' = [handed EXCEPT ![m] = IF @ > MaxRequeues + 1 THEN @ ELSE @ + taken]
       /\ worker' = [worker EXCEPT ![w] =
            [batch |-> Without(@.batch, m),
             call |-> [mail |-> m, attempt |-> @.batch[m], outcome |-> outcome]]]
  /\ dialled' = [dialled EXCEPT ![m] = IF @ < Tries THEN @ + 1 ELSE @]
  /\ UNCHANGED <<mail, callback, requeued>>

Terminal(row, status, why) == [row EXCEPT !.status = status, !.why = why]

(* What deliver writes for an answer.                                      *)
After(row, call) ==
  CASE call.outcome = "Accepted" -> [row EXCEPT !.status = "ACCEPTED"]
    [] call.outcome = "Retryable" /\ call.attempt >= Tries -> Terminal(row, "NEEDS_ATTENTION", "retries")
    [] call.outcome = "Retryable" /\ call.attempt < Tries -> [row EXCEPT !.status = "QUEUED"]
    [] call.outcome = "Permanent" -> Terminal(row, "HARD_BOUNCED", "")
    [] call.outcome = "Unknown" /\ row.kind = "TRANSACTIONAL" -> [row EXCEPT !.status = "QUEUED"]
    [] call.outcome = "Unknown" /\ row.kind = "MARKETING" -> Terminal(row, "SEND_UNKNOWN", "")

Record(w) ==
  LET call == worker[w].call IN
  /\ call # NoCall
  /\ mail' = [mail EXCEPT ![call.mail] = After(@, call)]
  /\ worker' = [worker EXCEPT ![w].call = NoCall]
  /\ UNCHANGED <<callback, handed, dialled, requeued>>

(* The write fails: it is logged and the worker goes on.                   *)
RecordFails(w) ==
  /\ \/ /\ worker[w].call # NoCall
        /\ worker' = [worker EXCEPT ![w].call = NoCall]
     \/ \E m \in Mails : IsNext(w, m) /\ Done(w, m)
  /\ UNCHANGED <<mail, callback, handed, dialled, requeued>>

(* The process dies or is stopped; it starts again with nothing in hand.   *)
Crash(w) ==
  /\ ~IsResting(w)
  /\ worker' = [worker EXCEPT ![w] = Resting]
  /\ UNCHANGED <<mail, callback, handed, dialled, requeued>>

-----------------------------------------------------------------------------
(* What people do with failed mails.                                       *)

Requeue(m) ==
  /\ mail[m].status \in {"NEEDS_ATTENTION", "SEND_UNKNOWN", "HARD_BOUNCED", "FAILED"}
  /\ requeued[m] < MaxRequeues
  /\ mail' = [mail EXCEPT ![m] = [@ EXCEPT !.status = "QUEUED", !.attempts = 0, !.why = ""]]
  /\ requeued' = [requeued EXCEPT ![m] = @ + 1]
  /\ UNCHANGED <<worker, callback, handed, dialled>>

Abandon(m) ==
  /\ mail[m].status \in {"NEEDS_ATTENTION", "SEND_UNKNOWN", "HARD_BOUNCED"}
  /\ mail' = [mail EXCEPT ![m].status = "FAILED"]
  /\ UNCHANGED <<worker, callback, handed, dialled, requeued>>

-----------------------------------------------------------------------------
(* Scheduled sends: send now, and call back into a draft.                  *)

(* Mutant: what a worker has already claimed is called back as well.       *)
ScheduledOrSending(S) ==
  {m \in With("QUEUED", S) \union With("SENDING", S) : mail[m].hold # "none"}

Scheduled(S) == {m \in With("QUEUED", S) : mail[m].hold # "none"}

SendScheduledNow(c) ==
  /\ Scheduled(Of(c)) # {}
  /\ mail' = [m \in Mails |-> IF m \in Scheduled(Of(c)) THEN [mail[m] EXCEPT !.hold = "none"] ELSE mail[m]]
  /\ UNCHANGED <<worker, callback, handed, dialled, requeued>>

(* Mutant: the draft lists what is still queued when it is written.        *)
DraftOfQueued(r, c) ==
  /\ callback[r].step = "new"
  /\ Of(c) # With("none", Of(c))
  /\ callback' = [callback EXCEPT ![r] = [step |-> "drafted", of |-> c, draft |-> Scheduled(Of(c))]]
  /\ UNCHANGED <<mail, worker, handed, dialled, requeued>>

(* CancelScheduled, first: the draft is written, with every recipient of   *)
(* the campaign.                                                           *)
RestoreDraft(r, c) ==
  /\ callback[r].step = "new"
  /\ Of(c) # With("none", Of(c))
  /\ callback' = [callback EXCEPT ![r] = [step |-> "drafted", of |-> c, draft |-> Of(c)]]
  /\ UNCHANGED <<mail, worker, handed, dialled, requeued>>

(* Then what has not gone yet is stopped. Nothing to stop means the        *)
(* worker got there first.                                                 *)
StopQueued(r) ==
  /\ callback[r].step = "drafted"
  /\ LET stopped == Scheduled(Of(callback[r].of)) IN
       /\ mail' = [m \in Mails |-> IF m \in stopped
                     THEN [mail[m] EXCEPT !.status = "CANCELLED", !.hold = "none"] ELSE mail[m]]
       /\ callback' = [callback EXCEPT ![r].step = IF stopped = {} THEN "too late" ELSE "done"]
  /\ UNCHANGED <<worker, handed, dialled, requeued>>

(* ... and the draft is taken out again, which may fail.                   *)
DropDraft(r) ==
  /\ callback[r].step = "too late"
  /\ callback' = [callback EXCEPT ![r].step = "done", ![r].draft = {}]
  /\ UNCHANGED <<mail, worker, handed, dialled, requeued>>

CallbackFails(r) ==
  /\ callback[r].step \in {"drafted", "too late"}
  /\ callback' = [callback EXCEPT ![r].step = "done"]
  /\ UNCHANGED <<mail, worker, handed, dialled, requeued>>

-----------------------------------------------------------------------------
Next ==
  \/ \E c \in Campaigns :
       \/ \E kind \in Kinds, hold \in {"none", "later"} : CreateCampaign(c, kind, hold)
       \/ TimeComes(c) \/ SendScheduledNow(c)
  \/ \E w \in Workers :
       \/ \E S \in SUBSET Mails : ReviveStuck(w, S) \/ Claim(w, S)
       \/ \E m \in Mails : Defer(w, m) \/ Unreadable(w, m) \/ Call(w, m)
       \/ Record(w) \/ RecordFails(w) \/ Crash(w)
  \/ \E m \in Mails : Requeue(m) \/ Abandon(m)
  \/ \E r \in Callbacks :
       \/ \E c \in Campaigns : RestoreDraft(r, c)
       \/ StopQueued(r) \/ DropDraft(r) \/ CallbackFails(r)

Spec == Init /\ [][Next]_vars

(* Time passes, and a running worker goes on: it records what it was       *)
(* answered, a mail that stays due is claimed by some pass, one that is in *)
(* some batch again and again is dialled when the quota allows, and a pass *)
(* that finds a row stuck in SENDING past its window revives it.           *)
Fairness ==
  /\ \A c \in Campaigns : WF_vars(TimeComes(c))
  /\ \A w \in Workers : WF_vars(Record(w) \/ RecordFails(w))
  /\ \A m \in Mails :
       /\ SF_vars(\E w \in Workers, S \in SUBSET Mails : m \in S /\ Claim(w, S))
       /\ SF_vars(\E w \in Workers, S \in SUBSET Mails : m \in S /\ ReviveStuck(w, S))
       /\ SF_vars(\E w \in Workers : Call(w, m))

FairSpec == Spec /\ Fairness

-----------------------------------------------------------------------------
Rows == [status : Statuses, kind : Kinds, why : Reasons, attempts : 0..MaxAttempts, hold : Holds]
Batches == UNION {[S -> 1..MaxAttempts] : S \in SUBSET Mails}
Calls == [mail : Mails, attempt : 1..MaxAttempts, outcome : Outcomes] \union {NoCall}

TypeOK ==
  /\ mail \in [Mails -> Rows]
  /\ worker \in [Workers -> [batch : Batches, call : Calls]]
  /\ callback \in [Callbacks -> [step : {"new", "drafted", "too late", "done"},
                                of : Campaigns \union {"none"}, draft : SUBSET Mails]]
  /\ handed \in [Mails -> Nat]
  /\ dialled \in [Mails -> 0..Tries]
  /\ requeued \in [Mails -> 0..MaxRequeues]

InHand(m) == {w \in Workers : m \in DOMAIN worker[w].batch \/ worker[w].call.mail = m}

(* A marketing mail reaches its recipient once, and once more at most for  *)
(* every time a person looked at it and sent it again: no crash, lost      *)
(* answer, sweep of stuck rows or late write of another worker sends it a  *)
(* second time on its own.                                                 *)
NoSilentDuplicate ==
  \A m \in Mails : mail[m].kind = "MARKETING" => handed[m] <= 1 + requeued[m]

(* A call-back that found a mail still queued is final: nobody holds the   *)
(* mail any more and, if it is marketing, it never went out, unless a      *)
(* person had requeued it while an earlier attempt was still under way.    *)
CalledBackStaysHome ==
  \A m \in Mails : mail[m].status = "CANCELLED" /\ requeued[m] = 0 =>
    /\ InHand(m) = {}
    /\ mail[m].kind = "MARKETING" => handed[m] = 0

(* Whatever was called back can be edited again: a mail that was cancelled *)
(* is in a draft that is still there, however the request ended and        *)
(* whoever else was calling the same send back.                            *)
CalledBackIsADraft ==
  \A m \in Mails : mail[m].status = "CANCELLED" => \E r \in Callbacks : m \in callback[r].draft

(* "Could not be sent in so many tries" is said of a mail only after it    *)
(* was offered to the mail server that often: being paced by the quota, a  *)
(* crash before the call or a requeue does not use tries up.               *)
GivesUpAfterTries ==
  \A m \in Mails : mail[m].status = "NEEDS_ATTENTION" /\ mail[m].why = "retries" => dialled[m] = Tries

(* No marketing mail stays on its way for ever: it is sent, stopped, or in *)
(* front of a person.                                                      *)
Settled == {"ACCEPTED", "SEND_UNKNOWN", "NEEDS_ATTENTION", "HARD_BOUNCED", "FAILED", "CANCELLED"}
EveryMailSettles ==
  \A m \in Mails :
    (mail[m].kind = "MARKETING" /\ mail[m].status \in {"QUEUED", "SENDING"}) ~> mail[m].status \in Settled

-----------------------------------------------------------------------------
(* The inductive invariant behind NoSilentDuplicate, CalledBackStaysHome   *)
(* and CalledBackIsADraft.                                                 *)

(* Who may still bring m to the mail server, or back into the queue.       *)
Holders(m) ==
  {w \in Workers : \/ m \in DOMAIN worker[w].batch
                   \/ worker[w].call.mail = m /\ worker[w].call.outcome = "Retryable"}

OneAtATime ==
  \A w \in Workers : worker[w].call.mail \notin DOMAIN worker[w].batch

(* What went out and what still may add up to no more than people asked    *)
(* for.                                                                    *)
Budgeted ==
  \A m \in Mails : mail[m].kind = "MARKETING" =>
    handed[m] + Cardinality(Holders(m)) + (IF mail[m].status \in {"none", "QUEUED"} THEN 1 ELSE 0)
      <= 1 + requeued[m]

(* Until somebody requeues it, a mail is in one place.                     *)
AtHome == {"none", "QUEUED", "CANCELLED"}
InOnePlace ==
  \A m \in Mails : requeued[m] = 0 =>
    /\ mail[m].status \in AtHome => InHand(m) = {}
    /\ \A v, w \in InHand(m) : v = w
    /\ mail[m].kind = "MARKETING" /\ (mail[m].status \in AtHome \/ Holders(m) # {}) => handed[m] = 0

DraftsHold ==
  /\ \A r \in Callbacks : callback[r].step = "drafted" => callback[r].draft = Of(callback[r].of)
  /\ \A m \in Mails : mail[m].status = "CANCELLED" =>
       \E r \in Callbacks : callback[r].step = "done" /\ m \in callback[r].draft

NewIsMarketing == \A m \in Mails : mail[m].status = "none" => mail[m].kind = "MARKETING"

IInv == TypeOK /\ OneAtATime /\ Budgeted /\ InOnePlace /\ DraftsHold /\ NewIsMarketing
=============================================================================
