------------------------ MODULE OutgoingMail_proofs ------------------------
(* The delivery queue sends no marketing mail twice on its own, what was   *)
(* called back stays home and is in a draft, and a row gives up for its    *)
(* tries only when the tries were made: for any number of mails, workers,  *)
(* call-back requests, tries and requeues.                                 *)
EXTENDS OutgoingMail, FiniteSetTheorems, TLAPS

LEMMA StepCases ==
  ASSUME [Next]_vars
  PROVE  \/ UNCHANGED vars
         \/ \E c \in Campaigns :
              \/ \E kind \in Kinds, hold \in {"none", "later"} : CreateCampaign(c, kind, hold)
              \/ TimeComes(c) \/ SendScheduledNow(c)
         \/ \E w \in Workers :
              \/ \E S \in SUBSET Mails : ReviveStuck(w, S) \/ Claim(w, S)
              \/ \E m \in Mails : Defer(w, m) \/ Unreadable(w, m) \/ Call(w, m)
              \/ Record(w) \/ RecordFails(w) \/ Crash(w)
         \/ \E m \in Mails : Requeue(m) \/ Abandon(m)
         \/ \E r \in Callbacks :
              \/ \E c \in Campaigns : RestoreDraft(r, c)
              \/ StopQueued(r) \/ DropDraft(r) \/ CallbackFails(r)
  BY DEF Next

-----------------------------------------------------------------------------
(* Types.                                                                  *)

LEMMA RowUpdate ==
  ASSUME NEW row \in Rows, NEW status \in Statuses, NEW why \in Reasons, NEW hold \in Holds
  PROVE  /\ [row EXCEPT !.status = status] \in Rows
         /\ [row EXCEPT !.hold = hold] \in Rows
         /\ [row EXCEPT !.status = status, !.why = why] \in Rows
         /\ [row EXCEPT !.status = status, !.hold = hold] \in Rows
  BY DEF Rows

LEMMA RowCount ==
  ASSUME NEW row \in Rows, NEW status \in Statuses, NEW why \in Reasons, NEW attempts \in 0..MaxAttempts
  PROVE  /\ [row EXCEPT !.status = status, !.attempts = attempts] \in Rows
         /\ [row EXCEPT !.status = status, !.attempts = attempts, !.why = why] \in Rows
  BY DEF Rows

LEMMA Attempts ==
  ASSUME NEW row \in Rows
  PROVE  /\ row.attempts \in Nat /\ row.attempts \in 0..MaxAttempts
         /\ (IF row.attempts = 0 THEN 0 ELSE row.attempts - 1) \in 0..MaxAttempts
         /\ row.attempts < MaxAttempts => row.attempts + 1 \in 1..MaxAttempts /\ row.attempts + 1 \in 0..MaxAttempts
<1>1. row.attempts \in 0..MaxAttempts
  BY DEF Rows
<1> QED  BY <1>1, MailAssumption

LEMMA Words ==
  /\ {"none", "QUEUED", "SENDING", "ACCEPTED", "SEND_UNKNOWN",
      "NEEDS_ATTENTION", "HARD_BOUNCED", "FAILED", "CANCELLED"} \subseteq Statuses
  /\ {"", "variables", "recipients", "retries"} \subseteq Reasons
  /\ {"none", "later", "due"} \subseteq Holds
  BY DEF Statuses, Reasons, Holds

LEMMA BatchType ==
  ASSUME NEW S \in SUBSET Mails, NEW f \in [S -> 1..MaxAttempts]
  PROVE  f \in Batches
  BY DEF Batches

LEMMA BatchFacts ==
  ASSUME NEW b \in Batches
  PROVE  /\ DOMAIN b \in SUBSET Mails
         /\ \A m \in DOMAIN b : b[m] \in 1..MaxAttempts
         /\ \A m \in Mails : /\ Without(b, m) \in Batches
                             /\ DOMAIN Without(b, m) = DOMAIN b \ {m}
<1>1. PICK S \in SUBSET Mails : b \in [S -> 1..MaxAttempts]
  BY DEF Batches
<1>2. ASSUME NEW m \in Mails
      PROVE  Without(b, m) \in [S \ {m} -> 1..MaxAttempts] /\ DOMAIN Without(b, m) = DOMAIN b \ {m}
  BY <1>1 DEF Without
<1>3. ASSUME NEW m \in Mails
      PROVE  Without(b, m) \in Batches
  BY <1>2, BatchType
<1> QED  BY <1>1, <1>2, <1>3

LEMMA RestingType == Resting \in [batch : Batches, call : Calls]
<1>1. NoBatch \in [{} -> 1..MaxAttempts]
  BY DEF NoBatch
<1> QED  BY <1>1, BatchType DEF Resting, Calls

LEMMA CallFacts ==
  ASSUME NEW call \in Calls, call # NoCall
  PROVE  call \in [mail : Mails, attempt : 1..MaxAttempts, outcome : Outcomes]
  BY DEF Calls

LEMMA AfterType ==
  ASSUME NEW row \in Rows, NEW call \in [mail : Mails, attempt : 1..MaxAttempts, outcome : Outcomes]
  PROVE  /\ After(row, call) \in Rows
         /\ After(row, call).kind = row.kind
         /\ After(row, call).status \in AtHome =>
              call.outcome = "Retryable" \/ row.kind = "TRANSACTIONAL"
         /\ After(row, call).status \notin {"none", "CANCELLED"}
<1> DEFINE Fine == /\ After(row, call) \in Rows
                   /\ After(row, call).kind = row.kind
                   /\ After(row, call).status \in AtHome =>
                        call.outcome = "Retryable" \/ row.kind = "TRANSACTIONAL"
                   /\ After(row, call).status \notin {"none", "CANCELLED"}
<1>1. ASSUME call.outcome = "Accepted"
      PROVE  Fine
  BY <1>1, MailAssumption DEF Rows, After, Terminal, Statuses, Reasons, Kinds, AtHome
<1>2. ASSUME call.outcome = "Retryable" /\ call.attempt >= Tries
      PROVE  Fine
  BY <1>2, MailAssumption DEF Rows, After, Terminal, Statuses, Reasons, Kinds, AtHome
<1>3. ASSUME call.outcome = "Retryable" /\ call.attempt < Tries
      PROVE  Fine
  BY <1>3, MailAssumption DEF Rows, After, Terminal, Statuses, Reasons, Kinds, AtHome
<1>4. ASSUME call.outcome = "Permanent"
      PROVE  Fine
  BY <1>4, MailAssumption DEF Rows, After, Terminal, Statuses, Reasons, Kinds, AtHome
<1>5. ASSUME call.outcome = "Unknown" /\ row.kind = "TRANSACTIONAL"
      PROVE  Fine
  BY <1>5, MailAssumption DEF Rows, After, Terminal, Statuses, Reasons, Kinds, AtHome
<1>6. ASSUME call.outcome = "Unknown" /\ row.kind = "MARKETING"
      PROVE  Fine
  BY <1>6, MailAssumption DEF Rows, After, Terminal, Statuses, Reasons, Kinds, AtHome
<1>7. /\ call.outcome \in {"Accepted", "Retryable", "Permanent", "Unknown"}
      /\ row.kind \in {"MARKETING", "TRANSACTIONAL"}
      /\ call.attempt >= Tries \/ call.attempt < Tries
  BY MailAssumption DEF Outcomes, Kinds, Rows
<1> HIDE DEF Fine
<1>8. Fine
  BY <1>1, <1>2, <1>3, <1>4, <1>5, <1>6, <1>7
<1> QED  BY <1>8 DEF Fine

LEMMA ComposeType ==
  ASSUME TypeOK, NEW c \in Campaigns, NEW kind \in Kinds, NEW hold \in {"none", "later"},
         CreateCampaign(c, kind, hold)
  PROVE  TypeOK'
<1>1. \A incomplete \in SUBSET Of(c) : \A m \in Mails : NewMail(kind, hold, m \in incomplete) \in Rows
  BY MailAssumption DEF NewMail, Rows, Statuses, Reasons, Holds
<1>2. mail' \in [Mails -> Rows]
  <2>1. PICK incomplete \in SUBSET Of(c) :
          mail' = [m \in Mails |-> IF m \in Of(c) THEN NewMail(kind, hold, m \in incomplete) ELSE mail[m]]
    BY DEF CreateCampaign
  <2> QED  BY <1>1, <2>1 DEF TypeOK
<1> QED  BY <1>2 DEF CreateCampaign, TypeOK

LEMMA HandType ==
  ASSUME TypeOK, NEW w \in Workers, NEW m \in Mails
  PROVE  /\ worker[w] \in [batch : Batches, call : Calls]
         /\ m \in DOMAIN worker[w].batch => worker[w].batch[m] \in 1..MaxAttempts
         /\ [worker EXCEPT ![w].batch = Without(@, m)] \in [Workers -> [batch : Batches, call : Calls]]
         /\ [worker EXCEPT ![w].call = NoCall] \in [Workers -> [batch : Batches, call : Calls]]
         /\ [worker EXCEPT ![w] = Resting] \in [Workers -> [batch : Batches, call : Calls]]
<1>1. worker \in [Workers -> [batch : Batches, call : Calls]]
  BY DEF TypeOK
<1>2. Without(worker[w].batch, m) \in Batches
  BY <1>1, BatchFacts
<1>3. m \in DOMAIN worker[w].batch => worker[w].batch[m] \in 1..MaxAttempts
  BY <1>1, BatchFacts
<1>4. NoCall \in Calls
  BY DEF Calls
<1> QED  BY <1>1, <1>2, <1>3, <1>4, RestingType

LEMMA WorkerType ==
  ASSUME TypeOK, NEW w \in Workers,
         \/ \E S \in SUBSET Mails : ReviveStuck(w, S) \/ Claim(w, S)
         \/ \E m \in Mails : Defer(w, m) \/ Unreadable(w, m) \/ Call(w, m)
         \/ Record(w) \/ RecordFails(w) \/ Crash(w)
  PROVE  TypeOK'
<1> USE DEF TypeOK
<1>0. worker \in [Workers -> [batch : Batches, call : Calls]]
  OBVIOUS
<1>1. ASSUME NEW S \in SUBSET Mails, ReviveStuck(w, S)
      PROVE  TypeOK'
  <2>1. \A m \in Mails : [mail[m] EXCEPT !.status = "SEND_UNKNOWN"] \in Rows
    BY RowUpdate, Words
  <2> QED  BY <1>1, <2>1 DEF ReviveStuck
<1>2. ASSUME NEW S \in SUBSET Mails, Claim(w, S)
      PROVE  TypeOK'
  <2>1. \A m \in S : mail[m].attempts + 1 \in 1..MaxAttempts
    <3>1. \A m \in S : mail[m] \in Rows /\ mail[m].attempts < MaxAttempts
      BY <1>2 DEF Claim, Due, With
    <3> QED  BY <3>1, Attempts
  <2>2. [m \in S |-> mail[m].attempts + 1] \in Batches
    BY <2>1, BatchType
  <2>3. worker' \in [Workers -> [batch : Batches, call : Calls]]
    BY <1>0, <1>2, <2>2 DEF Claim
  <2>4. mail' \in [Mails -> Rows]
    <3>1. \A m \in S : [mail[m] EXCEPT !.status = "SENDING", !.attempts = @ + 1] \in Rows
      <4> SUFFICES ASSUME NEW m \in S
                   PROVE  [mail[m] EXCEPT !.status = "SENDING", !.attempts = @ + 1] \in Rows
        OBVIOUS
      <4>1. mail[m] \in Rows /\ mail[m].attempts < MaxAttempts
        BY <1>2 DEF Claim, Due, With
      <4>2. mail[m].attempts + 1 \in 0..MaxAttempts
        BY <4>1, Attempts
      <4> QED  BY <4>1, <4>2, RowCount, Words
    <3> QED  BY <1>2, <3>1 DEF Claim
  <2> QED  BY <1>2, <2>3, <2>4 DEF Claim
<1>3. ASSUME NEW m \in Mails, Defer(w, m)
      PROVE  TypeOK'
  <2>1. Deferred(mail[m]) \in Rows
    <3>1. mail[m] \in Rows
      OBVIOUS
    <3>2. (IF mail[m].attempts = 0 THEN 0 ELSE mail[m].attempts - 1) \in 0..MaxAttempts
      BY <3>1, Attempts
    <3> QED  BY <3>1, <3>2, RowCount, Words DEF Deferred
  <2> QED  BY <1>3, <2>1, HandType DEF Defer, Done
<1>4. ASSUME NEW m \in Mails, Unreadable(w, m)
      PROVE  TypeOK'
  <2>1. [mail[m] EXCEPT !.status = "NEEDS_ATTENTION", !.why = "recipients"] \in Rows
    BY RowUpdate, Words
  <2> QED  BY <1>4, <2>1, HandType DEF Unreadable, Done
<1>5. ASSUME NEW m \in Mails, Call(w, m)
      PROVE  TypeOK'
  <2>1. PICK outcome \in Outcomes, taken \in {0, 1} :
          /\ handed' = [handed EXCEPT ![m] = IF @ > MaxRequeues + 1 THEN @ ELSE @ + taken]
          /\ worker' = [worker EXCEPT ![w] =
               [batch |-> Without(@.batch, m),
                call |-> [mail |-> m, attempt |-> @.batch[m], outcome |-> outcome]]]
    BY <1>5 DEF Call
  <2>2. Without(worker[w].batch, m) \in Batches
    BY <1>0, BatchFacts
  <2>3. [mail |-> m, attempt |-> worker[w].batch[m], outcome |-> outcome] \in Calls
    BY <1>5, HandType DEF Call, IsNext, Calls
  <2>4. worker' \in [Workers -> [batch : Batches, call : Calls]]
    BY <1>0, <2>1, <2>2, <2>3
  <2>5. handed' \in [Mails -> Nat]
    <3>0. handed[m] \in Nat /\ handed \in [Mails -> Nat]
      OBVIOUS
    <3> HIDE DEF TypeOK
    <3>1. (IF handed[m] > MaxRequeues + 1 THEN handed[m] ELSE handed[m] + taken) \in Nat
      BY <3>0
    <3> QED  BY <2>1, <3>0, <3>1
  <2>6. dialled' \in [Mails -> 0..Tries]
    <3>1. dialled[m] \in 0..Tries /\ dialled \in [Mails -> 0..Tries]
      OBVIOUS
    <3> HIDE DEF TypeOK
    <3>2. (IF dialled[m] < Tries THEN dialled[m] + 1 ELSE dialled[m]) \in 0..Tries
      BY <3>1, MailAssumption
    <3> QED  BY <1>5, <3>1, <3>2 DEF Call
  <2> QED  BY <1>5, <2>4, <2>5, <2>6 DEF Call
<1>6. ASSUME Record(w)
      PROVE  TypeOK'
  <2> DEFINE call == worker[w].call
  <2>1. call \in [mail : Mails, attempt : 1..MaxAttempts, outcome : Outcomes]
    BY <1>0, <1>6, CallFacts DEF Record
  <2>2. call.mail \in Mails /\ After(mail[call.mail], call) \in Rows
    <3>1. mail[call.mail] \in Rows
      BY <2>1 DEF Rows
    <3> HIDE DEF call
    <3> QED  BY <2>1, <3>1, AfterType
  <2>3. mail' \in [Mails -> Rows]
    BY <1>6, <2>2 DEF Record
  <2> QED  BY <1>6, <2>2, <2>3, HandType DEF Record
<1>7. ASSUME RecordFails(w)
      PROVE  TypeOK'
  <2>1. CASE worker' = [worker EXCEPT ![w].call = NoCall]
    BY <1>0, <1>7, <2>1 DEF RecordFails, Calls
  <2>2. ASSUME NEW m \in Mails, Done(w, m)
        PROVE  TypeOK'
    BY <1>7, <2>2, HandType DEF RecordFails, Done
  <2> QED  BY <1>7, <2>1, <2>2 DEF RecordFails
<1>8. ASSUME Crash(w)
      PROVE  TypeOK'
  BY <1>0, <1>8, RestingType DEF Crash
<1> QED  BY <1>1, <1>2, <1>3, <1>4, <1>5, <1>6, <1>7, <1>8

LEMMA TypeStep ==
  ASSUME TypeOK, [Next]_vars
  PROVE  TypeOK'
<1>1. CASE UNCHANGED vars
  BY <1>1 DEF vars, TypeOK
<1>2. ASSUME NEW c \in Campaigns, TimeComes(c) \/ SendScheduledNow(c)
      PROVE  TypeOK'
  <2>1. \A m \in Mails : /\ [mail[m] EXCEPT !.hold = "due"] \in Rows
                         /\ [mail[m] EXCEPT !.hold = "none"] \in Rows
    BY RowUpdate, Words DEF TypeOK
  <2>2. CASE TimeComes(c)
    BY <2>1, <2>2 DEF TimeComes, TypeOK
  <2>3. CASE SendScheduledNow(c)
    BY <2>1, <2>3 DEF SendScheduledNow, TypeOK
  <2> QED  BY <1>2, <2>2, <2>3
<1>3. ASSUME NEW m \in Mails, Requeue(m) \/ Abandon(m)
      PROVE  TypeOK'
  <2>1. /\ [mail[m] EXCEPT !.status = "QUEUED", !.attempts = 0, !.why = ""] \in Rows
        /\ [mail[m] EXCEPT !.status = "FAILED"] \in Rows
    <3>1. mail[m] \in Rows
      BY DEF TypeOK
    <3>2. 0 \in 0..MaxAttempts
      BY MailAssumption
    <3> QED  BY <3>1, <3>2, RowUpdate, RowCount, Words
  <2>2. CASE Requeue(m)
    <3>1. requeued[m] + 1 \in 0..MaxRequeues
      <4>1. requeued[m] \in 0..MaxRequeues /\ requeued[m] < MaxRequeues
        BY <2>2 DEF Requeue, TypeOK
      <4> QED  BY <4>1, MailAssumption
    <3>2. requeued' \in [Mails -> 0..MaxRequeues] /\ mail' \in [Mails -> Rows]
      BY <2>1, <2>2, <3>1 DEF Requeue, TypeOK
    <3> QED  BY <2>2, <3>2 DEF Requeue, TypeOK
  <2>3. CASE Abandon(m)
    BY <2>1, <2>3 DEF Abandon, TypeOK
  <2> QED  BY <1>3, <2>2, <2>3
<1>4. ASSUME NEW r \in Callbacks, NEW c \in Campaigns, RestoreDraft(r, c)
      PROVE  TypeOK'
  BY <1>4 DEF RestoreDraft, TypeOK, Of
<1>5. ASSUME NEW r \in Callbacks, StopQueued(r) \/ DropDraft(r) \/ CallbackFails(r)
      PROVE  TypeOK'
  <2>1. \A m \in Mails : [mail[m] EXCEPT !.status = "CANCELLED", !.hold = "none"] \in Rows
    BY RowUpdate, Words DEF TypeOK
  <2>2. CASE StopQueued(r)
    BY <2>1, <2>2 DEF StopQueued, TypeOK
  <2>3. CASE DropDraft(r)
    BY <2>3 DEF DropDraft, TypeOK
  <2>4. CASE CallbackFails(r)
    BY <2>4 DEF CallbackFails, TypeOK
  <2> QED  BY <1>5, <2>2, <2>3, <2>4
<1> QED  BY <1>1, <1>2, <1>3, <1>4, <1>5, ComposeType, WorkerType, StepCases

-----------------------------------------------------------------------------
(* What a step does to one mail and to those who have it in hand.          *)

Has(W, m) == m \in DOMAIN W.batch \/ W.call.mail = m
Back(W, m) == m \in DOMAIN W.batch \/ (W.call.mail = m /\ W.call.outcome = "Retryable")

SameHands(m) == Holders(m)' = Holders(m) /\ InHand(m)' = InHand(m) /\ handed'[m] = handed[m]
SameRequests(m) == requeued'[m] = requeued[m] /\ (mail'[m].kind = "MARKETING" => mail[m].kind = "MARKETING")
SameStatus(m) == mail'[m].status = mail[m].status

Stays(m) ==
  /\ SameHands(m) /\ SameRequests(m)
  /\ SameStatus(m) \/ mail'[m].status \notin AtHome \/ mail[m].status \in {"none", "QUEUED"}

Taken(m, w) ==
  /\ SameRequests(m) /\ handed'[m] = handed[m]
  /\ mail[m].status = "QUEUED" /\ mail'[m].status = "SENDING"
  /\ w \notin InHand(m)
  /\ Holders(m)' = Holders(m) \union {w} /\ InHand(m)' = InHand(m) \union {w}

Left(m, w) ==
  /\ SameRequests(m) /\ handed'[m] = handed[m]
  /\ w \in InHand(m)
  /\ Holders(m)' = Holders(m) \ {w} /\ InHand(m)' = InHand(m) \ {w}
  /\ w \in Holders(m) \/ SameStatus(m) \/ mail'[m].status \notin AtHome \/ mail'[m].kind # "MARKETING"

Dialled(m, w) ==
  /\ SameRequests(m) /\ SameStatus(m)
  /\ w \in Holders(m) /\ InHand(m)' = InHand(m)
  /\ \/ Holders(m)' = Holders(m) \ {w} /\ handed'[m] \in {handed[m], handed[m] + 1}
     \/ Holders(m)' = Holders(m) /\ handed'[m] = handed[m]

Requeued(m) ==
  /\ SameHands(m) /\ mail'[m].kind = mail[m].kind
  /\ requeued'[m] = requeued[m] + 1

Moves(m) ==
  \/ Stays(m) \/ Requeued(m)
  \/ \E w \in Workers : Taken(m, w) \/ Left(m, w) \/ Dialled(m, w)

(* Only worker w has changed.                                              *)
LEMMA OnlyOne ==
  ASSUME NEW w \in Workers, NEW m \in Mails,
         \A v \in Workers : v # w => worker'[v] = worker[v]
  PROVE  /\ Holders(m)' = IF Back(worker'[w], m) THEN Holders(m) \union {w} ELSE Holders(m) \ {w}
         /\ InHand(m)' = IF Has(worker'[w], m) THEN InHand(m) \union {w} ELSE InHand(m) \ {w}
         /\ w \in Holders(m) <=> Back(worker[w], m)
         /\ w \in InHand(m) <=> Has(worker[w], m)
  BY DEF Holders, InHand, Has, Back

LEMMA NobodyChanged ==
  ASSUME NEW m \in Mails, worker' = worker
  PROVE  Holders(m)' = Holders(m) /\ InHand(m)' = InHand(m)
  BY DEF Holders, InHand

(* A worker for whom a mail is what it was.                                *)
LEMMA NothingToDo ==
  ASSUME NEW w \in Workers, NEW m \in Mails,
         \A v \in Workers : v # w => worker'[v] = worker[v],
         Back(worker'[w], m) <=> Back(worker[w], m),
         Has(worker'[w], m) <=> Has(worker[w], m)
  PROVE  Holders(m)' = Holders(m) /\ InHand(m)' = InHand(m)
<1>1. Holders(m)' = Holders(m)
  <2>1. CASE Back(worker[w], m)
    BY <2>1, OnlyOne, Holders(m) = Holders(m) \union {w}
  <2>2. CASE ~Back(worker[w], m)
    BY <2>2, OnlyOne, Holders(m) = Holders(m) \ {w}
  <2> QED  BY <2>1, <2>2
<1>2. InHand(m)' = InHand(m)
  <2>1. CASE Has(worker[w], m)
    BY <2>1, OnlyOne, InHand(m) = InHand(m) \union {w}
  <2>2. CASE ~Has(worker[w], m)
    BY <2>2, OnlyOne, InHand(m) = InHand(m) \ {w}
  <2> QED  BY <2>1, <2>2
<1> QED  BY <1>1, <1>2

LEMMA ClaimMoves ==
  ASSUME TypeOK, NEW w \in Workers, NEW S \in SUBSET Mails, Claim(w, S), NEW m \in Mails
  PROVE  Moves(m)
<1> DEFINE W == [batch |-> [n \in S |-> mail[n].attempts + 1], call |-> NoCall]
<1>1. worker[w] = Resting /\ worker'[w] = W /\ \A v \in Workers : v # w => worker'[v] = worker[v]
  <2>1. worker \in [Workers -> [batch : Batches, call : Calls]]
    BY DEF TypeOK
  <2>2. /\ worker[w] = [batch |-> NoBatch, call |-> NoCall]
        /\ worker' = [worker EXCEPT ![w].batch = [n \in S |-> mail[n].attempts + 1]]
    BY DEF Claim, IsResting, Resting
  <2>3. worker'[w] = W /\ \A v \in Workers : v # w => worker'[v] = worker[v]
    BY <2>1, <2>2
  <2> QED  BY <2>2, <2>3 DEF Resting
<1>2. ~Has(worker[w], m) /\ ~Back(worker[w], m)
  BY <1>1, MailAssumption DEF Has, Back, Resting, NoBatch, NoCall
<1>3. (Has(W, m) <=> m \in S) /\ (Back(W, m) <=> m \in S)
  BY MailAssumption DEF Has, Back, NoCall
<1>4. handed' = handed /\ requeued' = requeued /\ mail'[m].kind = mail[m].kind
  BY DEF Claim, TypeOK, Rows
<1>5. CASE m \in S
  <2>1. mail[m].status = "QUEUED" /\ mail'[m].status = "SENDING"
    BY <1>5 DEF Claim, Due, With, TypeOK, Rows
  <2>2. Taken(m, w)
    BY <1>1, <1>2, <1>3, <1>4, <1>5, <2>1, OnlyOne DEF Taken, SameRequests
  <2> QED  BY <2>2 DEF Moves
<1>6. CASE m \notin S
  <2>1. mail'[m] = mail[m]
    BY <1>6 DEF Claim
  <2>2. Stays(m)
    BY <1>1, <1>2, <1>3, <1>4, <1>6, <2>1, NothingToDo DEF Stays, SameHands, SameRequests, SameStatus
  <2> QED  BY <2>2 DEF Moves
<1> QED  BY <1>5, <1>6

LEMMA KindStays ==
  ASSUME NEW row \in Rows, NEW x, NEW y
  PROVE  /\ [row EXCEPT !.status = x].kind = row.kind
         /\ [row EXCEPT !.status = x, !.why = y].kind = row.kind
         /\ [row EXCEPT !.status = x, !.attempts = y].kind = row.kind
         /\ Deferred(row).kind = row.kind
  BY DEF Rows, Deferred

(* Mail n leaves the batch of w, whose row may change in passing.          *)
LEMMA DoneMoves ==
  ASSUME TypeOK, OneAtATime, NEW w \in Workers, NEW n \in Mails, IsNext(w, n), Done(w, n),
         \A k \in Mails : k # n => mail'[k] = mail[k],
         mail'[n].kind = mail[n].kind,
         handed' = handed, requeued' = requeued,
         NEW m \in Mails
  PROVE  Moves(m)
<1>1. /\ worker \in [Workers -> [batch : Batches, call : Calls]]
      /\ worker[w].call = NoCall /\ n \in DOMAIN worker[w].batch
  BY DEF TypeOK, IsNext
<1>2. /\ worker'[w] = [batch |-> Without(worker[w].batch, n), call |-> NoCall]
      /\ \A v \in Workers : v # w => worker'[v] = worker[v]
  BY <1>1 DEF Done
<1>3. DOMAIN worker'[w].batch = DOMAIN worker[w].batch \ {n}
  <2>1. worker[w].batch \in Batches /\ worker'[w].batch = Without(worker[w].batch, n)
    BY <1>1, <1>2
  <2>2. DOMAIN Without(worker[w].batch, n) = DOMAIN worker[w].batch \ {n}
    BY <2>1, BatchFacts
  <2> QED  BY <2>1, <2>2
<1>4. NoCall.mail # m
  BY MailAssumption DEF NoCall
<1>5. CASE m = n
  <2>1. Back(worker[w], m) /\ Has(worker[w], m) /\ ~Back(worker'[w], m) /\ ~Has(worker'[w], m)
    BY <1>1, <1>2, <1>3, <1>4, <1>5 DEF Back, Has
  <2>2. Left(m, w)
    BY <1>2, <1>5, <2>1, OnlyOne DEF Left, SameRequests
  <2> QED  BY <2>2 DEF Moves
<1>6. CASE m # n
  <2>1. (Back(worker[w], m) <=> Back(worker'[w], m)) /\ (Has(worker[w], m) <=> Has(worker'[w], m))
    BY <1>1, <1>2, <1>3, <1>4, <1>6 DEF Back, Has
  <2>2. Stays(m)
    BY <1>2, <1>6, <2>1, NothingToDo DEF Stays, SameHands, SameRequests, SameStatus
  <2> QED  BY <2>2 DEF Moves
<1> QED  BY <1>5, <1>6

LEMMA CallMoves ==
  ASSUME TypeOK, OneAtATime, NEW w \in Workers, NEW n \in Mails, Call(w, n), NEW m \in Mails
  PROVE  Moves(m)
<1>1. /\ worker \in [Workers -> [batch : Batches, call : Calls]]
      /\ worker[w].call = NoCall /\ n \in DOMAIN worker[w].batch
      /\ mail' = mail /\ requeued' = requeued
  BY DEF TypeOK, Call, IsNext
<1>2. PICK outcome \in Outcomes, taken \in {0, 1} :
        /\ outcome \in {"Retryable", "Permanent"} => taken = 0
        /\ handed' = [handed EXCEPT ![n] = IF @ > MaxRequeues + 1 THEN @ ELSE @ + taken]
        /\ worker' = [worker EXCEPT ![w] =
             [batch |-> Without(@.batch, n),
              call |-> [mail |-> n, attempt |-> @.batch[n], outcome |-> outcome]]]
  BY DEF Call
<1>3. /\ worker'[w].call.mail = n /\ worker'[w].call.outcome = outcome
      /\ worker'[w].batch = Without(worker[w].batch, n)
      /\ \A v \in Workers : v # w => worker'[v] = worker[v]
  BY <1>1, <1>2
<1>4. DOMAIN worker'[w].batch = DOMAIN worker[w].batch \ {n}
  <2>1. worker[w].batch \in Batches
    BY <1>1
  <2> QED  BY <1>3, <2>1, BatchFacts
<1>5. NoCall.mail # m
  BY MailAssumption DEF NoCall
<1>6. CASE m = n
  <2>1. Back(worker[w], m) /\ Has(worker[w], m) /\ Has(worker'[w], m)
    BY <1>1, <1>3, <1>6 DEF Back, Has
  <2>2. w \in Holders(m) /\ w \in InHand(m) /\ InHand(m)' = InHand(m)
    <3>1. InHand(m)' = InHand(m) \union {w} /\ w \in InHand(m) /\ w \in Holders(m)
      BY <1>3, <2>1, OnlyOne
    <3> QED  BY <3>1
  <2>3. handed'[m] \in {handed[m], handed[m] + 1} /\ (outcome = "Retryable" => handed'[m] = handed[m])
    <3>1. handed \in [Mails -> Nat] /\ handed[m] \in Nat
      BY DEF TypeOK
    <3>2. handed'[m] = IF handed[m] > MaxRequeues + 1 THEN handed[m] ELSE handed[m] + taken
      BY <1>2, <1>6, <3>1
    <3> QED  BY <1>2, <3>1, <3>2
  <2>4. CASE outcome = "Retryable"
    <3>1. Back(worker'[w], m)
      BY <1>3, <1>6, <2>4 DEF Back
    <3>2. Holders(m)' = Holders(m)
      <4>1. Holders(m)' = Holders(m) \union {w}
        BY <1>3, <3>1, OnlyOne
      <4> QED  BY <2>2, <4>1
    <3> QED  BY <1>1, <2>2, <2>3, <2>4, <3>2 DEF Moves, Dialled, SameRequests, SameStatus
  <2>5. CASE outcome # "Retryable"
    <3>1. ~Back(worker'[w], m)
      BY <1>3, <1>4, <1>6, <2>5 DEF Back
    <3>2. Holders(m)' = Holders(m) \ {w}
      BY <1>3, <3>1, OnlyOne
    <3> QED  BY <1>1, <2>2, <2>3, <3>2 DEF Moves, Dialled, SameRequests, SameStatus
  <2> QED  BY <2>4, <2>5
<1>7. CASE m # n
  <2>1. (Back(worker[w], m) <=> Back(worker'[w], m)) /\ (Has(worker[w], m) <=> Has(worker'[w], m))
    BY <1>1, <1>3, <1>4, <1>5, <1>7 DEF Back, Has
  <2>2. handed'[m] = handed[m]
    BY <1>2, <1>7 DEF TypeOK
  <2>3. Stays(m)
    BY <1>1, <1>3, <2>1, <2>2, NothingToDo DEF Stays, SameHands, SameRequests, SameStatus
  <2> QED  BY <2>3 DEF Moves
<1> QED  BY <1>6, <1>7

(* The call of w is over, with or without a trace in the row.              *)
LEMMA CallOverMoves ==
  ASSUME TypeOK, OneAtATime, NEW w \in Workers, worker[w].call # NoCall,
         worker' = [worker EXCEPT ![w].call = NoCall],
         handed' = handed, requeued' = requeued,
         \/ mail' = mail
         \/ mail' = [mail EXCEPT ![worker[w].call.mail] = After(@, worker[w].call)],
         NEW m \in Mails
  PROVE  Moves(m)
<1> DEFINE call == worker[w].call
<1>1. worker \in [Workers -> [batch : Batches, call : Calls]] /\ mail \in [Mails -> Rows]
  BY DEF TypeOK
<1>2. call \in [mail : Mails, attempt : 1..MaxAttempts, outcome : Outcomes] /\ call.mail \in Mails
  <2>1. call \in Calls
    BY <1>1
  <2> QED  BY <2>1, CallFacts
<1>3. /\ worker'[w].call = NoCall /\ worker'[w].batch = worker[w].batch
      /\ \A v \in Workers : v # w => worker'[v] = worker[v]
  BY <1>1
<1>4. NoCall.mail # m /\ call.mail \notin DOMAIN worker[w].batch
  BY MailAssumption DEF NoCall, OneAtATime
<1>5. CASE m = call.mail
  <2>1. Has(worker[w], m) /\ ~Has(worker'[w], m) /\ ~Back(worker'[w], m)
    BY <1>3, <1>4, <1>5 DEF Has, Back
  <2>2. call.outcome = "Retryable" => Back(worker[w], m)
    BY <1>5 DEF Back
  <2>3. /\ mail'[m].kind = mail[m].kind
        /\ SameStatus(m) \/ (mail'[m].status \in AtHome => call.outcome = "Retryable" \/ mail[m].kind = "TRANSACTIONAL")
    <3>1. mail' = mail \/ mail'[m] = After(mail[m], call)
      BY <1>1, <1>2, <1>5
    <3>2. mail[m] \in Rows
      BY <1>1
    <3> HIDE DEF call
    <3> QED  BY <1>2, <3>1, <3>2, AfterType DEF SameStatus
  <2>4. Left(m, w)
    BY <1>3, <2>1, <2>2, <2>3, OnlyOne DEF Left, SameRequests
  <2> QED  BY <2>4 DEF Moves
<1>6. CASE m # call.mail
  <2>1. (Back(worker[w], m) <=> Back(worker'[w], m)) /\ (Has(worker[w], m) <=> Has(worker'[w], m))
    BY <1>3, <1>4, <1>6 DEF Back, Has
  <2>2. mail'[m] = mail[m]
    BY <1>1, <1>6
  <2>3. Stays(m)
    BY <1>3, <2>1, <2>2, NothingToDo DEF Stays, SameHands, SameRequests, SameStatus
  <2> QED  BY <2>3 DEF Moves
<1> QED  BY <1>5, <1>6

LEMMA CrashMoves ==
  ASSUME TypeOK, NEW w \in Workers, Crash(w), NEW m \in Mails
  PROVE  Moves(m)
<1>1. /\ worker'[w] = Resting
      /\ \A v \in Workers : v # w => worker'[v] = worker[v]
      /\ mail' = mail /\ handed' = handed /\ requeued' = requeued
  BY DEF Crash, TypeOK
<1>2. ~Back(worker'[w], m) /\ ~Has(worker'[w], m)
  BY <1>1, MailAssumption DEF Back, Has, Resting, NoBatch, NoCall
<1>3. CASE Has(worker[w], m)
  <2>1. Left(m, w)
    BY <1>1, <1>2, <1>3, OnlyOne DEF Left, SameRequests, SameStatus
  <2> QED  BY <2>1 DEF Moves
<1>4. CASE ~Has(worker[w], m)
  <2>1. ~Back(worker[w], m)
    BY <1>4 DEF Has, Back
  <2>2. Stays(m)
    BY <1>1, <1>2, <1>4, <2>1, NothingToDo DEF Stays, SameHands, SameRequests, SameStatus
  <2> QED  BY <2>2 DEF Moves
<1> QED  BY <1>3, <1>4

(* Steps that no worker's hands are in.                                    *)
LEMMA RowMoves ==
  ASSUME NEW m \in Mails, worker' = worker, handed' = handed, SameRequests(m),
         SameStatus(m) \/ mail'[m].status \notin AtHome \/ mail[m].status \in {"none", "QUEUED"}
  PROVE  Moves(m)
<1>1. Stays(m)
  BY NobodyChanged DEF Stays, SameHands
<1> QED  BY <1>1 DEF Moves

LEMMA StepMoves ==
  ASSUME TypeOK, OneAtATime, NewIsMarketing, [Next]_vars, NEW m \in Mails
  PROVE  Moves(m)
<1>0. mail \in [Mails -> Rows] /\ mail[m] \in Rows
  BY DEF TypeOK
<1>1. CASE UNCHANGED vars
  BY <1>1, RowMoves DEF vars, SameRequests, SameStatus
<1>2. ASSUME NEW c \in Campaigns, NEW kind \in Kinds, NEW hold \in {"none", "later"},
             CreateCampaign(c, kind, hold)
      PROVE  Moves(m)
  <2>1. m \in Of(c) => mail[m].status = "none" /\ mail[m].kind = "MARKETING"
    BY <1>2 DEF CreateCampaign, With, NewIsMarketing
  <2>2. m \notin Of(c) => mail'[m] = mail[m]
    BY <1>2 DEF CreateCampaign
  <2> QED  BY <1>2, <2>1, <2>2, RowMoves DEF CreateCampaign, SameRequests, SameStatus
<1>3. ASSUME NEW c \in Campaigns, TimeComes(c) \/ SendScheduledNow(c)
      PROVE  Moves(m)
  <2>1. mail'[m].status = mail[m].status /\ mail'[m].kind = mail[m].kind
    BY <1>0, <1>3 DEF TimeComes, SendScheduledNow, Rows
  <2> QED  BY <1>3, <2>1, RowMoves DEF TimeComes, SendScheduledNow, SameRequests, SameStatus
<1>4. ASSUME NEW w \in Workers, NEW S \in SUBSET Mails, ReviveStuck(w, S)
      PROVE  Moves(m)
  <2>1. /\ mail'[m].kind = mail[m].kind
        /\ mail'[m].status = mail[m].status \/ mail'[m].status = "SEND_UNKNOWN"
    BY <1>0, <1>4 DEF ReviveStuck, Rows
  <2> QED  BY <1>4, <2>1, RowMoves DEF ReviveStuck, SameRequests, SameStatus, AtHome
<1>5. ASSUME NEW w \in Workers, NEW n \in Mails, Defer(w, n) \/ Unreadable(w, n)
      PROVE  Moves(m)
  <2>1. /\ IsNext(w, n) /\ Done(w, n) /\ handed' = handed /\ requeued' = requeued
        /\ \A k \in Mails : k # n => mail'[k] = mail[k]
    BY <1>0, <1>5 DEF Defer, Unreadable
  <2>2. mail'[n].kind = mail[n].kind
    <3>1. mail[n] \in Rows
      BY <1>0
    <3>2. CASE Defer(w, n)
      BY <1>0, <3>1, <3>2, KindStays DEF Defer
    <3>3. CASE Unreadable(w, n)
      BY <1>0, <3>1, <3>3, KindStays DEF Unreadable
    <3> QED  BY <1>5, <3>2, <3>3
  <2> QED  BY <2>1, <2>2, DoneMoves
<1>6. ASSUME NEW w \in Workers, Record(w)
      PROVE  Moves(m)
  BY <1>6, CallOverMoves DEF Record
<1>7. ASSUME NEW w \in Workers, RecordFails(w)
      PROVE  Moves(m)
  <2>1. CASE worker[w].call # NoCall /\ worker' = [worker EXCEPT ![w].call = NoCall]
    BY <1>7, <2>1, CallOverMoves DEF RecordFails
  <2>2. ASSUME NEW n \in Mails, IsNext(w, n), Done(w, n)
        PROVE  Moves(m)
    BY <1>7, <2>2, DoneMoves DEF RecordFails
  <2> QED  BY <1>7, <2>1, <2>2 DEF RecordFails
<1>8. ASSUME NEW n \in Mails, Requeue(n)
      PROVE  Moves(m)
  <2>1. CASE m = n
    <3>1. mail'[m].kind = mail[m].kind
      BY <1>0, <1>8, <2>1 DEF Requeue, Rows
    <3>2. requeued'[m] = requeued[m] + 1
      BY <1>8, <2>1 DEF Requeue, TypeOK
    <3>3. Requeued(m)
      BY <1>8, <3>1, <3>2, NobodyChanged DEF Requeue, Requeued, SameHands
    <3> QED  BY <3>3 DEF Moves
  <2>2. CASE m # n
    <3>1. mail'[m] = mail[m] /\ requeued'[m] = requeued[m]
      BY <1>8, <2>2 DEF Requeue, TypeOK
    <3> QED  BY <1>8, <3>1, RowMoves DEF Requeue, SameRequests, SameStatus
  <2> QED  BY <2>1, <2>2
<1>9. ASSUME NEW n \in Mails, Abandon(n)
      PROVE  Moves(m)
  <2>1. /\ mail'[m].kind = mail[m].kind
        /\ mail'[m].status = mail[m].status \/ mail'[m].status = "FAILED"
    BY <1>0, <1>9 DEF Abandon, Rows
  <2> QED  BY <1>9, <2>1, RowMoves DEF Abandon, SameRequests, SameStatus, AtHome
<1>10. ASSUME NEW r \in Callbacks, StopQueued(r)
       PROVE  Moves(m)
  <2>1. /\ mail'[m].kind = mail[m].kind
        /\ mail'[m].status = mail[m].status \/ mail[m].status = "QUEUED"
    BY <1>0, <1>10 DEF StopQueued, Scheduled, With, Rows
  <2> QED  BY <1>10, <2>1, RowMoves DEF StopQueued, SameRequests, SameStatus
<1>11. ASSUME NEW r \in Callbacks, (\E c \in Campaigns : RestoreDraft(r, c)) \/ DropDraft(r) \/ CallbackFails(r)
       PROVE  Moves(m)
  BY <1>11, RowMoves DEF RestoreDraft, DropDraft, CallbackFails, SameRequests, SameStatus
<1> QED  BY <1>1, <1>2, <1>3, <1>4, <1>5, <1>6, <1>7, <1>8, <1>9, <1>10, <1>11,
            ClaimMoves, CallMoves, CrashMoves, StepCases

-----------------------------------------------------------------------------
(* Every step keeps the invariant.                                         *)

LEMMA OneAtATimeStep ==
  ASSUME TypeOK, OneAtATime, [Next]_vars
  PROVE  OneAtATime'
<1> USE DEF OneAtATime
<1>0. worker \in [Workers -> [batch : Batches, call : Calls]]
  BY DEF TypeOK
<1>1. CASE worker' = worker
  BY <1>1
<1>2. ASSUME NEW w \in Workers, NEW S \in SUBSET Mails, Claim(w, S)
      PROVE  OneAtATime'
  <2>1. /\ worker'[w].call = NoCall /\ DOMAIN worker'[w].batch = S
        /\ \A v \in Workers : v # w => worker'[v] = worker[v]
    <3>1. /\ worker[w] = [batch |-> NoBatch, call |-> NoCall]
          /\ worker' = [worker EXCEPT ![w].batch = [m \in S |-> mail[m].attempts + 1]]
      BY <1>2 DEF Claim, IsResting, Resting
    <3> QED  BY <1>0, <3>1
  <2>2. NoCall.mail \notin S
    BY MailAssumption DEF NoCall
  <2> QED  BY <2>1, <2>2
<1>3. ASSUME NEW w \in Workers, NEW m \in Mails, IsNext(w, m), Done(w, m)
      PROVE  OneAtATime'
  <2>1. /\ worker'[w].call = worker[w].call /\ worker'[w].batch = Without(worker[w].batch, m)
        /\ \A v \in Workers : v # w => worker'[v] = worker[v]
    BY <1>0, <1>3 DEF Done
  <2>2. DOMAIN Without(worker[w].batch, m) = DOMAIN worker[w].batch \ {m}
    <3>1. worker[w].batch \in Batches
      BY <1>0
    <3> QED  BY <3>1, BatchFacts
  <2> QED  BY <2>1, <2>2
<1>4. ASSUME NEW w \in Workers, NEW m \in Mails, Call(w, m)
      PROVE  OneAtATime'
  <2>1. /\ worker'[w].call.mail = m /\ worker'[w].batch = Without(worker[w].batch, m)
        /\ \A v \in Workers : v # w => worker'[v] = worker[v]
    BY <1>0, <1>4 DEF Call
  <2>2. DOMAIN Without(worker[w].batch, m) = DOMAIN worker[w].batch \ {m}
    <3>1. worker[w].batch \in Batches
      BY <1>0
    <3> QED  BY <3>1, BatchFacts
  <2> QED  BY <2>1, <2>2
<1>5. ASSUME NEW w \in Workers, worker' = [worker EXCEPT ![w].call = NoCall]
      PROVE  OneAtATime'
  <2>1. /\ worker'[w].call = NoCall /\ worker'[w].batch = worker[w].batch
        /\ \A v \in Workers : v # w => worker'[v] = worker[v]
    BY <1>0, <1>5
  <2>2. NoCall.mail \notin DOMAIN worker[w].batch
    <3>1. DOMAIN worker[w].batch \subseteq Mails
      <4>1. worker[w].batch \in Batches
        BY <1>0
      <4> QED  BY <4>1, BatchFacts
    <3> QED  BY <3>1, MailAssumption DEF NoCall
  <2> QED  BY <2>1, <2>2
<1>6. ASSUME NEW w \in Workers, Crash(w)
      PROVE  OneAtATime'
  BY <1>0, <1>6 DEF Crash, Resting, NoBatch
<1>7. \/ worker' = worker
      \/ \E w \in Workers :
           \/ \E S \in SUBSET Mails : Claim(w, S)
           \/ \E m \in Mails : (IsNext(w, m) /\ Done(w, m)) \/ Call(w, m)
           \/ worker' = [worker EXCEPT ![w].call = NoCall]
           \/ Crash(w)
  BY StepCases DEF vars, CreateCampaign, TimeComes, SendScheduledNow, ReviveStuck, Defer, Unreadable,
     Record, RecordFails, Requeue, Abandon, RestoreDraft, StopQueued, DropDraft, CallbackFails
<1> QED  BY <1>1, <1>2, <1>3, <1>4, <1>5, <1>6, <1>7

LEMMA NewStep ==
  ASSUME TypeOK, NewIsMarketing, [Next]_vars
  PROVE  NewIsMarketing'
<1> SUFFICES ASSUME NEW m \in Mails, mail'[m].status = "none"
             PROVE  mail'[m] = mail[m] \/ (mail[m].status = "none" /\ mail'[m].kind = mail[m].kind)
  BY DEF NewIsMarketing
<1>0. mail \in [Mails -> Rows] /\ mail[m] \in Rows
  BY DEF TypeOK
<1>1. CASE mail' = mail
  BY <1>1
<1>2. ASSUME NEW c \in Campaigns, NEW kind \in Kinds, NEW hold \in {"none", "later"},
             CreateCampaign(c, kind, hold)
      PROVE  mail'[m] = mail[m]
  <2>1. PICK incomplete \in SUBSET Of(c) :
          mail' = [k \in Mails |-> IF k \in Of(c) THEN NewMail(kind, hold, k \in incomplete) ELSE mail[k]]
    BY <1>2 DEF CreateCampaign
  <2>2. NewMail(kind, hold, m \in incomplete).status # "none"
    BY DEF NewMail
  <2> QED  BY <2>1, <2>2
<1>3. ASSUME NEW c \in Campaigns, TimeComes(c) \/ SendScheduledNow(c)
      PROVE  mail[m].status = "none" /\ mail'[m].kind = mail[m].kind
  BY <1>0, <1>3 DEF TimeComes, SendScheduledNow, Rows
<1>4. ASSUME NEW w \in Workers, NEW S \in SUBSET Mails, ReviveStuck(w, S) \/ Claim(w, S)
      PROVE  mail'[m] = mail[m]
  BY <1>0, <1>4 DEF ReviveStuck, Claim, Rows
<1>5. ASSUME NEW w \in Workers, NEW n \in Mails, Defer(w, n) \/ Unreadable(w, n)
      PROVE  mail'[m] = mail[m]
  BY <1>0, <1>5 DEF Defer, Unreadable, Deferred, Rows
<1>6. ASSUME NEW w \in Workers, Record(w)
      PROVE  mail'[m] = mail[m]
  <2> DEFINE call == worker[w].call
  <2>1. call \in [mail : Mails, attempt : 1..MaxAttempts, outcome : Outcomes]
    BY <1>6, CallFacts DEF Record, TypeOK
  <2>2. mail' = [mail EXCEPT ![call.mail] = After(@, call)]
    BY <1>6 DEF Record
  <2> HIDE DEF call
  <2>3. After(mail[m], call).status # "none"
    BY <1>0, <2>1, AfterType
  <2> QED  BY <1>0, <2>1, <2>2, <2>3
<1>7. ASSUME NEW n \in Mails, Requeue(n) \/ Abandon(n)
      PROVE  mail'[m] = mail[m]
  BY <1>0, <1>7 DEF Requeue, Abandon, Rows
<1>8. ASSUME NEW r \in Callbacks, StopQueued(r)
      PROVE  mail'[m] = mail[m]
  BY <1>0, <1>8 DEF StopQueued, Rows
<1>9. \/ mail' = mail
      \/ \E c \in Campaigns :
           \/ \E kind \in Kinds, hold \in {"none", "later"} : CreateCampaign(c, kind, hold)
           \/ TimeComes(c) \/ SendScheduledNow(c)
      \/ \E w \in Workers :
           \/ \E S \in SUBSET Mails : ReviveStuck(w, S) \/ Claim(w, S)
           \/ \E n \in Mails : Defer(w, n) \/ Unreadable(w, n)
           \/ Record(w)
      \/ \E n \in Mails : Requeue(n) \/ Abandon(n)
      \/ \E r \in Callbacks : StopQueued(r)
  BY StepCases DEF vars, Call, RecordFails, Crash, RestoreDraft, DropDraft, CallbackFails
<1> QED  BY <1>1, <1>2, <1>3, <1>4, <1>5, <1>6, <1>7, <1>8, <1>9

LEMMA HoldersFinite ==
  ASSUME NEW m
  PROVE  /\ IsFiniteSet(Holders(m)) /\ Cardinality(Holders(m)) \in Nat
         /\ \A w \in Holders(m) : Cardinality(Holders(m) \ {w}) = Cardinality(Holders(m)) - 1
         /\ \A w \in Workers : w \notin Holders(m) =>
              Cardinality(Holders(m) \union {w}) = Cardinality(Holders(m)) + 1
         /\ \A w : w \notin Holders(m) => Holders(m) \ {w} = Holders(m)
<1>1. Holders(m) \subseteq Workers
  BY DEF Holders
<1>2. IsFiniteSet(Holders(m)) /\ Cardinality(Holders(m)) \in Nat
  BY <1>1, MailAssumption, FS_Subset, FS_CardinalityType
<1> HIDE DEF Holders
<1>3. \A w \in Holders(m) : Cardinality(Holders(m) \ {w}) = Cardinality(Holders(m)) - 1
  BY <1>2, FS_RemoveElement
<1>4. \A w : w \notin Holders(m) => Cardinality(Holders(m) \union {w}) = Cardinality(Holders(m)) + 1
  BY <1>2, FS_AddElement
<1> QED  BY <1>2, <1>3, <1>4

LEMMA HoldersHave ==
  ASSUME NEW m
  PROVE  Holders(m) \subseteq InHand(m)
  BY DEF Holders, InHand

LEMMA BudgetStep ==
  ASSUME TypeOK, OneAtATime, NewIsMarketing, Budgeted, [Next]_vars
  PROVE  Budgeted'
<1> SUFFICES ASSUME NEW m \in Mails, mail'[m].kind = "MARKETING"
             PROVE  handed'[m] + Cardinality(Holders(m)')
                      + (IF mail'[m].status \in {"none", "QUEUED"} THEN 1 ELSE 0) <= 1 + requeued'[m]
  BY DEF Budgeted
<1> DEFINE n == Cardinality(Holders(m))
           token == IF mail[m].status \in {"none", "QUEUED"} THEN 1 ELSE 0
           token1 == IF mail'[m].status \in {"none", "QUEUED"} THEN 1 ELSE 0
<1>1. Moves(m)
  BY StepMoves
<1>2. handed[m] \in Nat /\ requeued[m] \in Nat /\ n \in Nat /\ token \in {0, 1} /\ token1 \in {0, 1}
  <2>1. handed[m] \in Nat /\ requeued[m] \in 0..MaxRequeues
    BY DEF TypeOK
  <2>2. requeued[m] \in Nat
    BY <2>1, MailAssumption
  <2> QED  BY <2>1, <2>2, HoldersFinite
<1>3. mail[m].kind = "MARKETING"
  BY <1>1 DEF Moves, Stays, Taken, Left, Dialled, Requeued, SameRequests
<1>4. handed[m] + n + token <= 1 + requeued[m]
  BY <1>3 DEF Budgeted
<1>5. CASE Stays(m)
  <2>1. token1 <= token /\ Holders(m)' = Holders(m) /\ handed'[m] = handed[m] /\ requeued'[m] = requeued[m]
    BY <1>5 DEF Stays, SameHands, SameRequests, SameStatus, AtHome
  <2> QED  BY <1>2, <1>4, <2>1
<1>6. CASE Requeued(m)
  <2>1. Holders(m)' = Holders(m) /\ handed'[m] = handed[m] /\ requeued'[m] = requeued[m] + 1
    BY <1>6 DEF Requeued, SameHands
  <2> HIDE DEF token, token1
  <2> QED  BY <1>2, <1>4, <2>1 DEF token1
<1>7. ASSUME NEW w \in Workers, Taken(m, w)
      PROVE  handed'[m] + Cardinality(Holders(m)') + token1 <= 1 + requeued'[m]
  <2>1. Cardinality(Holders(m)') = n + 1 /\ token = 1 /\ token1 = 0
    BY <1>7, HoldersFinite, HoldersHave DEF Taken
  <2> QED  BY <1>2, <1>4, <1>7, <2>1 DEF Taken, SameRequests
<1>8. ASSUME NEW w \in Workers, Left(m, w)
      PROVE  handed'[m] + Cardinality(Holders(m)') + token1 <= 1 + requeued'[m]
  <2>0. handed'[m] = handed[m] /\ requeued'[m] = requeued[m]
    BY <1>8 DEF Left, SameRequests
  <2>1. CASE w \in Holders(m)
    <3>1. Cardinality(Holders(m)') = n - 1
      BY <1>8, <2>1, HoldersFinite DEF Left
    <3> QED  BY <1>2, <1>4, <2>0, <3>1
  <2>2. CASE w \notin Holders(m)
    <3>1. Cardinality(Holders(m)') = n
      BY <1>8, <2>2, HoldersFinite DEF Left
    <3>2. token1 <= token
      BY <1>8, <2>2 DEF Left, SameStatus, AtHome
    <3> QED  BY <1>2, <1>4, <2>0, <3>1, <3>2
  <2> QED  BY <2>1, <2>2
<1>9. ASSUME NEW w \in Workers, Dialled(m, w)
      PROVE  handed'[m] + Cardinality(Holders(m)') + token1 <= 1 + requeued'[m]
  <2>1. requeued'[m] = requeued[m] /\ token1 = token
    BY <1>9 DEF Dialled, SameRequests, SameStatus
  <2>2. CASE Holders(m)' = Holders(m) /\ handed'[m] = handed[m]
    BY <1>2, <1>4, <2>1, <2>2
  <2>3. CASE Holders(m)' = Holders(m) \ {w} /\ handed'[m] \in {handed[m], handed[m] + 1}
    <3>1. Cardinality(Holders(m)') = n - 1
      BY <1>9, <2>3, HoldersFinite DEF Dialled
    <3> QED  BY <1>2, <1>4, <2>1, <2>3, <3>1
  <2> QED  BY <1>9, <2>2, <2>3 DEF Dialled
<1> QED  BY <1>1, <1>5, <1>6, <1>7, <1>8, <1>9 DEF Moves

LEMMA PlaceStep ==
  ASSUME TypeOK, OneAtATime, NewIsMarketing, InOnePlace, [Next]_vars
  PROVE  InOnePlace'
<1> SUFFICES ASSUME NEW m \in Mails, requeued'[m] = 0
             PROVE  /\ mail'[m].status \in AtHome => InHand(m)' = {}
                    /\ \A v, w \in InHand(m)' : v = w
                    /\ mail'[m].kind = "MARKETING" /\ (mail'[m].status \in AtHome \/ Holders(m)' # {})
                         => handed'[m] = 0
  BY DEF InOnePlace
<1>1. Moves(m)
  BY StepMoves
<1>2. requeued[m] = 0 /\ ~Requeued(m)
  <2>1. requeued[m] \in 0..MaxRequeues
    BY DEF TypeOK
  <2>2. ~Requeued(m)
    BY <2>1, MailAssumption DEF Requeued
  <2> QED  BY <1>1, <2>2 DEF Moves, Stays, Taken, Left, Dialled, SameRequests
<1>3. /\ mail[m].status \in AtHome => InHand(m) = {}
      /\ \A v, w \in InHand(m) : v = w
      /\ mail[m].kind = "MARKETING" /\ (mail[m].status \in AtHome \/ Holders(m) # {}) => handed[m] = 0
  BY <1>2 DEF InOnePlace
<1>4. Holders(m) \subseteq InHand(m)
  BY HoldersHave
<1>5. CASE Stays(m)
  BY <1>3, <1>5 DEF Stays, SameHands, SameRequests, SameStatus, AtHome
<1>6. ASSUME NEW w \in Workers, Taken(m, w)
      PROVE  /\ mail'[m].status \notin AtHome /\ InHand(m)' = {w}
             /\ mail'[m].kind = "MARKETING" => handed'[m] = 0
  BY <1>3, <1>6 DEF Taken, SameRequests, AtHome
<1>7. ASSUME NEW w \in Workers, Left(m, w)
      PROVE  /\ InHand(m)' = {} /\ Holders(m)' = {}
             /\ mail'[m].kind = "MARKETING" /\ mail'[m].status \in AtHome => handed'[m] = 0
  <2>1. InHand(m)' = {} /\ Holders(m)' = {} /\ mail[m].status \notin AtHome
    BY <1>3, <1>4, <1>7 DEF Left
  <2> QED  BY <1>3, <1>7, <2>1 DEF Left, SameRequests, SameStatus
<1>8. ASSUME NEW w \in Workers, Dialled(m, w)
      PROVE  /\ mail'[m].status \notin AtHome /\ InHand(m)' = InHand(m)
             /\ mail'[m].kind = "MARKETING" /\ Holders(m)' # {} => handed'[m] = 0
  <2>1. InHand(m) = {w} /\ Holders(m) = {w} /\ mail[m].status \notin AtHome
    BY <1>3, <1>4, <1>8 DEF Dialled
  <2> QED  BY <1>3, <1>8, <2>1 DEF Dialled, SameRequests, SameStatus
<1> QED  BY <1>1, <1>2, <1>3, <1>5, <1>6, <1>7, <1>8 DEF Moves

(* A row becomes CANCELLED only by a call-back that stops it.              *)
LEMMA CancelledStep ==
  ASSUME TypeOK, [Next]_vars, NEW m \in Mails, mail'[m].status = "CANCELLED"
  PROVE  \/ mail[m].status = "CANCELLED"
         \/ \E r \in Callbacks : StopQueued(r) /\ m \in Scheduled(Of(callback[r].of))
<1>0. mail \in [Mails -> Rows] /\ mail[m] \in Rows
  BY DEF TypeOK
<1>1. CASE mail' = mail
  BY <1>1
<1>2. ASSUME NEW c \in Campaigns, NEW kind \in Kinds, NEW hold \in {"none", "later"},
             CreateCampaign(c, kind, hold)
      PROVE  mail'[m] = mail[m]
  <2>1. PICK incomplete \in SUBSET Of(c) :
          mail' = [k \in Mails |-> IF k \in Of(c) THEN NewMail(kind, hold, k \in incomplete) ELSE mail[k]]
    BY <1>2 DEF CreateCampaign
  <2>2. NewMail(kind, hold, m \in incomplete).status # "CANCELLED"
    BY DEF NewMail
  <2> QED  BY <2>1, <2>2
<1>3. ASSUME NEW c \in Campaigns, TimeComes(c) \/ SendScheduledNow(c)
      PROVE  mail[m].status = "CANCELLED"
  BY <1>0, <1>3 DEF TimeComes, SendScheduledNow, Rows
<1>4. ASSUME NEW w \in Workers, NEW S \in SUBSET Mails, ReviveStuck(w, S) \/ Claim(w, S)
      PROVE  mail'[m] = mail[m]
  BY <1>0, <1>4 DEF ReviveStuck, Claim, Rows
<1>5. ASSUME NEW w \in Workers, NEW n \in Mails, Defer(w, n) \/ Unreadable(w, n)
      PROVE  mail'[m] = mail[m]
  BY <1>0, <1>5 DEF Defer, Unreadable, Deferred, Rows
<1>6. ASSUME NEW w \in Workers, Record(w)
      PROVE  mail'[m] = mail[m]
  <2> DEFINE call == worker[w].call
  <2>1. call \in [mail : Mails, attempt : 1..MaxAttempts, outcome : Outcomes]
    BY <1>6, CallFacts DEF Record, TypeOK
  <2>2. mail' = [mail EXCEPT ![call.mail] = After(@, call)]
    BY <1>6 DEF Record
  <2> HIDE DEF call
  <2>3. After(mail[m], call).status # "CANCELLED"
    BY <1>0, <2>1, AfterType
  <2> QED  BY <1>0, <2>1, <2>2, <2>3
<1>7. ASSUME NEW n \in Mails, Requeue(n) \/ Abandon(n)
      PROVE  mail'[m] = mail[m]
  BY <1>0, <1>7 DEF Requeue, Abandon, Rows
<1>8. ASSUME NEW r \in Callbacks, StopQueued(r)
      PROVE  mail'[m] = mail[m] \/ m \in Scheduled(Of(callback[r].of))
  BY <1>8 DEF StopQueued
<1>9. \/ mail' = mail
      \/ \E c \in Campaigns :
           \/ \E kind \in Kinds, hold \in {"none", "later"} : CreateCampaign(c, kind, hold)
           \/ TimeComes(c) \/ SendScheduledNow(c)
      \/ \E w \in Workers :
           \/ \E S \in SUBSET Mails : ReviveStuck(w, S) \/ Claim(w, S)
           \/ \E n \in Mails : Defer(w, n) \/ Unreadable(w, n)
           \/ Record(w)
      \/ \E n \in Mails : Requeue(n) \/ Abandon(n)
      \/ \E r \in Callbacks : StopQueued(r)
  BY StepCases DEF vars, Call, RecordFails, Crash, RestoreDraft, DropDraft, CallbackFails
<1> QED  BY <1>1, <1>2, <1>3, <1>4, <1>5, <1>6, <1>7, <1>8, <1>9

LEMMA DraftsStep ==
  ASSUME TypeOK, DraftsHold, [Next]_vars
  PROVE  DraftsHold'
<1>0. \A r \in Callbacks : callback[r].step = "drafted" => callback[r].draft = Of(callback[r].of)
  BY DEF DraftsHold
<1>1. \A r \in Callbacks : callback'[r].step = "drafted" => callback'[r].draft = Of(callback'[r].of)
  <2>1. CASE callback' = callback
    BY <1>0, <2>1
  <2>2. ASSUME NEW r \in Callbacks, NEW c \in Campaigns, RestoreDraft(r, c)
        PROVE  \A q \in Callbacks : callback'[q].step = "drafted" => callback'[q].draft = Of(callback'[q].of)
    BY <1>0, <2>2 DEF RestoreDraft, TypeOK
  <2>3. ASSUME NEW r \in Callbacks, StopQueued(r) \/ DropDraft(r) \/ CallbackFails(r)
        PROVE  \A q \in Callbacks : callback'[q].step = "drafted" => callback'[q] = callback[q]
    BY <2>3 DEF StopQueued, DropDraft, CallbackFails, TypeOK
  <2>4. \/ callback' = callback
        \/ \E r \in Callbacks :
             \/ \E c \in Campaigns : RestoreDraft(r, c)
             \/ StopQueued(r) \/ DropDraft(r) \/ CallbackFails(r)
    BY StepCases DEF vars, CreateCampaign, TimeComes, SendScheduledNow, ReviveStuck, Claim, Defer, Unreadable,
       Call, Record, RecordFails, Crash, Requeue, Abandon
  <2> QED  BY <1>0, <2>1, <2>2, <2>3, <2>4
<1>2. \A r \in Callbacks : callback[r].step = "done" => callback'[r] = callback[r]
  BY StepCases DEF vars, CreateCampaign, TimeComes, SendScheduledNow, ReviveStuck, Claim, Defer, Unreadable,
     Call, Record, RecordFails, Crash, Requeue, Abandon, RestoreDraft, StopQueued, DropDraft, CallbackFails, TypeOK
<1>3. ASSUME NEW m \in Mails, mail'[m].status = "CANCELLED"
      PROVE  \E r \in Callbacks : callback'[r].step = "done" /\ m \in callback'[r].draft
  <2>1. CASE mail[m].status = "CANCELLED"
    BY <1>2, <2>1 DEF DraftsHold
  <2>2. ASSUME NEW r \in Callbacks, StopQueued(r), m \in Scheduled(Of(callback[r].of))
        PROVE  callback'[r].step = "done" /\ m \in callback'[r].draft
    <3>1. callback[r].draft = Of(callback[r].of) /\ m \in Of(callback[r].of)
      BY <1>0, <2>2 DEF StopQueued, Scheduled, With
    <3>2. callback'[r].step = "done" /\ callback'[r].draft = callback[r].draft
      BY <2>2 DEF StopQueued, TypeOK
    <3> QED  BY <3>1, <3>2
  <2> QED  BY <1>3, <2>1, <2>2, CancelledStep
<1> QED  BY <1>1, <1>3 DEF DraftsHold

LEMMA Begins ==
  ASSUME Init
  PROVE  IInv
<1>0. \A m \in Mails : Holders(m) = {} /\ InHand(m) = {}
  BY MailAssumption DEF Init, Holders, InHand, Resting, NoBatch, NoCall
<1>1. TypeOK
  <2>1. 0 \in 0..Tries /\ 0 \in 0..MaxRequeues /\ 0 \in 0..MaxAttempts
    BY MailAssumption
  <2>2. [status |-> "none", kind |-> "MARKETING", why |-> "", attempts |-> 0, hold |-> "none"] \in Rows
    BY <2>1, Words DEF Rows, Kinds
  <2> QED  BY <2>1, <2>2, RestingType DEF Init, TypeOK
<1>2. OneAtATime /\ NewIsMarketing
  BY DEF Init, OneAtATime, NewIsMarketing, Resting, NoBatch
<1>3. Budgeted
  <2>1. \A m \in Mails : handed[m] = 0 /\ requeued[m] = 0 /\ Cardinality(Holders(m)) = 0
    BY <1>0, FS_EmptySet DEF Init
  <2> QED  BY <2>1 DEF Budgeted
<1>4. InOnePlace
  BY <1>0 DEF Init, InOnePlace
<1>5. DraftsHold
  BY DEF Init, DraftsHold
<1> QED  BY <1>1, <1>2, <1>3, <1>4, <1>5 DEF IInv

LEMMA Goes ==
  ASSUME IInv, [Next]_vars
  PROVE  IInv'
  BY TypeStep, OneAtATimeStep, NewStep, BudgetStep, PlaceStep, DraftsStep DEF IInv

LEMMA Promises ==
  ASSUME IInv
  PROVE  TypeOK /\ NoSilentDuplicate /\ CalledBackStaysHome /\ CalledBackIsADraft
<1>1. NoSilentDuplicate
  <2> SUFFICES ASSUME NEW m \in Mails, mail[m].kind = "MARKETING"
               PROVE  handed[m] <= 1 + requeued[m]
    BY DEF NoSilentDuplicate
  <2>1. handed[m] \in Nat /\ requeued[m] \in 0..MaxRequeues
    BY DEF IInv, TypeOK
  <2>2. requeued[m] \in Nat
    BY <2>1, MailAssumption
  <2>3. handed[m] + Cardinality(Holders(m)) + (IF mail[m].status \in {"none", "QUEUED"} THEN 1 ELSE 0)
          <= 1 + requeued[m]
    BY DEF IInv, Budgeted
  <2> QED  BY <2>1, <2>2, <2>3, HoldersFinite
<1>2. CalledBackStaysHome
  BY DEF IInv, InOnePlace, CalledBackStaysHome, AtHome
<1>3. CalledBackIsADraft
  BY DEF IInv, DraftsHold, CalledBackIsADraft
<1> QED  BY <1>1, <1>2, <1>3 DEF IInv

(* Type correctness.                                                       *)
THEOREM TypeInvariant == Spec => []TypeOK
  BY Begins, Goes, Promises, PTL DEF Spec

(* For any number of mails, workers, tries and requeues: a marketing mail  *)
(* goes out once, and once more for every time a person sent it again.     *)
THEOREM NoMailGoesOutTwice == Spec => []NoSilentDuplicate
  BY Begins, Goes, Promises, PTL DEF Spec

(* What was called back is in nobody's hands and never went out.           *)
THEOREM CalledBackIsFinal == Spec => []CalledBackStaysHome
  BY Begins, Goes, Promises, PTL DEF Spec

(* ... and is in a draft, however the call-backs of one send overlap.      *)
THEOREM CalledBackCanBeEdited == Spec => []CalledBackIsADraft
  BY Begins, Goes, Promises, PTL DEF Spec
-----------------------------------------------------------------------------
(* Tries are counted honestly: the calls that are recorded in a row, those *)
(* still under way and the claim that is due to be dialled add up to no    *)
(* more than the mail server was offered. A call under way may be recorded *)
(* after the row was revived, requeued and claimed by others, which is why *)
(* it has to be set aside from the count.                                  *)

Pending(m) == {w \in Workers : worker[w].call.mail = m}
Slack(m) == IF mail[m].status = "QUEUED" THEN 0 ELSE 1

(* What W has of m was claimed for at most one try more than there were n. *)
OneCounted(W, m, n) ==
  /\ m \in DOMAIN W.batch => W.batch[m] <= n + 1
  /\ W.call.mail = m => W.call.attempt <= n

Counted(m) ==
  dialled[m] < Tries =>
    /\ Cardinality(Pending(m)) <= dialled[m]
    /\ mail[m].attempts + Cardinality(Pending(m)) <= dialled[m] + Slack(m)
    /\ \A w \in Workers : OneCounted(worker[w], m, dialled[m])

TriesInv ==
  /\ TypeOK /\ OneAtATime
  /\ \A m \in Mails : Counted(m)
  /\ GivesUpAfterTries

LEMMA PendingFinite ==
  ASSUME NEW m
  PROVE  IsFiniteSet(Pending(m)) /\ Cardinality(Pending(m)) \in Nat
<1>1. Pending(m) \in SUBSET Workers
  BY DEF Pending
<1> QED  BY <1>1, MailAssumption, FS_Subset, FS_CardinalityType

(* Calls under way, when only worker w has changed.                        *)
LEMMA PendingCount ==
  ASSUME NEW w \in Workers, NEW m, \A v \in Workers : v # w => worker'[v] = worker[v]
  PROVE  /\ Cardinality(Pending(m)) \in Nat /\ Cardinality(Pending(m)') \in Nat
         /\ Cardinality(Pending(m)') = Cardinality(Pending(m))
              + (IF worker'[w].call.mail = m THEN 1 ELSE 0) - (IF worker[w].call.mail = m THEN 1 ELSE 0)
<1> DEFINE P == Pending(m)
           Q == Pending(m)'
<1>1. /\ w \in P <=> worker[w].call.mail = m
      /\ Q = IF worker'[w].call.mail = m THEN P \union {w} ELSE P \ {w}
  BY DEF Pending
<1>2. IsFiniteSet(P) /\ Cardinality(P) \in Nat
  BY PendingFinite
<1> HIDE DEF P, Q
<1>3. /\ Cardinality(P \union {w}) = IF w \in P THEN Cardinality(P) ELSE Cardinality(P) + 1
      /\ Cardinality(P \ {w}) = IF w \in P THEN Cardinality(P) - 1 ELSE Cardinality(P)
      /\ IsFiniteSet(P \union {w}) /\ IsFiniteSet(P \ {w})
  BY <1>2, FS_AddElement, FS_RemoveElement
<1>4. Cardinality(Q) \in Nat
  BY <1>1, <1>3, FS_CardinalityType
<1>5. Cardinality(Q) = Cardinality(P) + (IF worker'[w].call.mail = m THEN 1 ELSE 0) - (IF w \in P THEN 1 ELSE 0)
  BY <1>1, <1>2, <1>3
<1> QED  BY <1>1, <1>2, <1>4, <1>5 DEF P, Q

LEMMA CountTypes ==
  ASSUME TypeOK, NEW m \in Mails
  PROVE  /\ mail[m] \in Rows /\ mail[m].attempts \in Nat /\ dialled[m] \in Nat /\ dialled[m] <= Tries
         /\ Cardinality(Pending(m)) \in Nat /\ Slack(m) \in {0, 1} /\ Tries \in Nat
<1>1. mail[m] \in Rows /\ mail[m].attempts \in 0..MaxAttempts /\ dialled[m] \in 0..Tries
  BY DEF TypeOK, Rows
<1> QED  BY <1>1, PendingFinite, MailAssumption DEF Slack

(* What it takes to keep the count of m.                                   *)
LEMMA CountKept ==
  ASSUME TypeOK, TypeOK', NEW m \in Mails, Counted(m),
         dialled[m] <= dialled'[m],
         NEW more \in Int, Cardinality(Pending(m)') = Cardinality(Pending(m)) + more,
         more <= dialled'[m] - dialled[m],
         \/ mail'[m].attempts = 0
         \/ mail'[m].attempts + more <= mail[m].attempts + Slack(m)' - Slack(m) + dialled'[m] - dialled[m],
         dialled[m] < Tries => \A w \in Workers : OneCounted(worker'[w], m, dialled'[m])
  PROVE  Counted(m)'
<1>1. /\ mail[m].attempts \in Nat /\ dialled[m] \in Nat /\ Slack(m) \in {0, 1} /\ Tries \in Nat
      /\ Cardinality(Pending(m)) \in Nat
  BY CountTypes
<1>2. mail'[m].attempts \in Nat /\ dialled'[m] \in Nat /\ Slack(m)' \in {0, 1}
  <2>1. mail'[m].attempts \in 0..MaxAttempts /\ dialled'[m] \in 0..Tries
    BY DEF TypeOK, Rows
  <2> QED  BY <2>1, MailAssumption DEF Slack
<1> SUFFICES ASSUME dialled'[m] < Tries
             PROVE  /\ Cardinality(Pending(m)') <= dialled'[m]
                    /\ mail'[m].attempts + Cardinality(Pending(m)') <= dialled'[m] + Slack(m)'
                    /\ \A w \in Workers : OneCounted(worker'[w], m, dialled'[m])
  BY DEF Counted, OneCounted
<1>3. dialled[m] < Tries
  BY <1>1, <1>2
<1>4. /\ Cardinality(Pending(m)) <= dialled[m]
      /\ mail[m].attempts + Cardinality(Pending(m)) <= dialled[m] + Slack(m)
  BY <1>3 DEF Counted
<1>5. Cardinality(Pending(m)') <= dialled'[m]
  BY <1>1, <1>2, <1>4
<1>6. mail'[m].attempts + Cardinality(Pending(m)') <= dialled'[m] + Slack(m)'
  BY <1>1, <1>2, <1>4, <1>5
<1> QED  BY <1>3, <1>5, <1>6

LEMMA HandsCounted ==
  ASSUME NEW m, Counted(m), dialled[m] < Tries
  PROVE  \A w \in Workers : OneCounted(worker[w], m, dialled[m])
  BY DEF Counted

(* The row gains no try and does not come back into the queue.             *)
NoTryMore(m) ==
  \/ mail'[m].attempts = 0
  \/ mail'[m].attempts <= mail[m].attempts /\ (mail'[m].status = "QUEUED" => mail[m].status = "QUEUED")

LEMMA RowCounted ==
  ASSUME TypeOK, TypeOK', NEW m \in Mails, Counted(m), worker' = worker, dialled' = dialled, NoTryMore(m)
  PROVE  Counted(m)'
<1>1. Pending(m)' = Pending(m)
  BY DEF Pending
<1>2. Cardinality(Pending(m)') = Cardinality(Pending(m)) + 0 /\ dialled'[m] = dialled[m]
      /\ dialled[m] \in Nat /\ mail[m].attempts \in Nat /\ Slack(m) \in {0, 1}
  BY <1>1, CountTypes
<1>3. Slack(m) <= Slack(m)' \/ (mail'[m].status = "QUEUED" /\ mail[m].status # "QUEUED")
  BY DEF Slack
<1>4. Slack(m)' \in {0, 1} /\ mail'[m].attempts \in Nat
  <2>1. mail'[m].attempts \in 0..MaxAttempts
    BY DEF TypeOK, Rows
  <2> QED  BY <2>1, MailAssumption DEF Slack
<1>5. \/ mail'[m].attempts = 0
      \/ mail'[m].attempts + 0 <= mail[m].attempts + Slack(m)' - Slack(m) + dialled'[m] - dialled[m]
  BY <1>2, <1>3, <1>4 DEF NoTryMore
<1>6. dialled[m] < Tries => \A w \in Workers : OneCounted(worker'[w], m, dialled'[m])
  BY <1>2, HandsCounted
<1>7. 0 \in Int /\ dialled[m] <= dialled'[m] /\ 0 <= dialled'[m] - dialled[m]
  BY <1>2
<1> QED  BY <1>2, <1>5, <1>6, <1>7, CountKept


(* Mail n leaves the batch of w: its row stays, waits for a person, or is  *)
(* given back the try it was claimed for.                                  *)
LEMMA DoneCounted ==
  ASSUME TypeOK, TypeOK', NEW w \in Workers, NEW n \in Mails, IsNext(w, n), Done(w, n), dialled' = dialled,
         NEW m \in Mails, Counted(m),
         \/ NoTryMore(m)
         \/ mail[m].attempts # 0 /\ mail'[m].attempts = mail[m].attempts - 1
  PROVE  Counted(m)'
<1>1. /\ worker \in [Workers -> [batch : Batches, call : Calls]] /\ worker[w].batch \in Batches
      /\ worker'[w] = [batch |-> Without(worker[w].batch, n), call |-> worker[w].call]
      /\ \A v \in Workers : v # w => worker'[v] = worker[v]
  BY DEF TypeOK, Done
<1>2. /\ DOMAIN worker'[w].batch = DOMAIN worker[w].batch \ {n}
      /\ \A k \in DOMAIN worker'[w].batch : worker'[w].batch[k] = worker[w].batch[k]
      /\ worker'[w].call = worker[w].call
  BY <1>1, BatchFacts DEF Without
<1>3. Cardinality(Pending(m)') = Cardinality(Pending(m)) + 0 /\ Cardinality(Pending(m)) \in Nat
  BY <1>1, <1>2, PendingCount
<1>4. dialled'[m] = dialled[m] /\ dialled[m] \in Nat /\ mail[m].attempts \in Nat /\ Slack(m) \in {0, 1}
  BY CountTypes
<1>5. /\ Slack(m)' \in {0, 1} /\ mail'[m].attempts \in Nat
      /\ Slack(m) <= Slack(m)' \/ (mail'[m].status = "QUEUED" /\ mail[m].status # "QUEUED")
  <2>1. mail'[m].attempts \in 0..MaxAttempts
    BY DEF TypeOK, Rows
  <2> QED  BY <2>1, MailAssumption DEF Slack
<1>6. \/ mail'[m].attempts = 0
      \/ mail'[m].attempts + 0 <= mail[m].attempts + Slack(m)' - Slack(m) + dialled'[m] - dialled[m]
  BY <1>4, <1>5 DEF NoTryMore
<1>7. dialled[m] < Tries => \A v \in Workers : OneCounted(worker'[v], m, dialled'[m])
  BY <1>1, <1>2, <1>4, HandsCounted DEF OneCounted
<1>8. 0 \in Int /\ dialled[m] <= dialled'[m] /\ 0 <= dialled'[m] - dialled[m]
  BY <1>4
<1> QED  BY <1>3, <1>6, <1>7, <1>8, CountKept

LEMMA ClaimCounted ==
  ASSUME TypeOK, TypeOK', NEW w \in Workers, NEW S \in SUBSET Mails, Claim(w, S),
         NEW m \in Mails, Counted(m)
  PROVE  Counted(m)'
<1>1. /\ worker[w] = Resting /\ dialled' = dialled
      /\ worker'[w] = [batch |-> [n \in S |-> mail[n].attempts + 1], call |-> NoCall]
      /\ \A v \in Workers : v # w => worker'[v] = worker[v]
  <2>1. worker \in [Workers -> [batch : Batches, call : Calls]]
    BY DEF TypeOK
  <2>2. /\ worker[w] = [batch |-> NoBatch, call |-> NoCall] /\ dialled' = dialled
        /\ worker' = [worker EXCEPT ![w].batch = [n \in S |-> mail[n].attempts + 1]]
    BY DEF Claim, IsResting, Resting
  <2> QED  BY <2>1, <2>2 DEF Resting
<1>2. worker[w].call.mail # m /\ worker'[w].call.mail # m
  BY <1>1, MailAssumption DEF Resting, NoCall
<1>3. Cardinality(Pending(m)') = Cardinality(Pending(m)) + 0 /\ Cardinality(Pending(m)) \in Nat
  BY <1>1, <1>2, PendingCount
<1>4. /\ mail[m] \in Rows /\ dialled'[m] = dialled[m] /\ dialled[m] \in Nat
      /\ mail[m].attempts \in Nat /\ Slack(m) \in {0, 1}
  BY <1>1, CountTypes
<1>5. /\ m \in S => /\ mail[m].status = "QUEUED" /\ mail'[m].status = "SENDING"
                    /\ mail'[m].attempts = mail[m].attempts + 1
      /\ m \notin S => mail'[m] = mail[m]
  BY <1>4 DEF Claim, Due, With, Rows
<1>6. mail'[m].attempts + 0 <= mail[m].attempts + Slack(m)' - Slack(m) + dialled'[m] - dialled[m]
  <2>1. CASE m \in S
    <3>1. Slack(m) = 0 /\ Slack(m)' = 1
      BY <1>5, <2>1 DEF Slack
    <3> QED  BY <1>4, <1>5, <2>1, <3>1
  <2>2. CASE m \notin S
    <3>1. Slack(m)' = Slack(m)
      BY <1>5, <2>2 DEF Slack
    <3> QED  BY <1>4, <1>5, <2>2, <3>1
  <2> QED  BY <2>1, <2>2
<1>7. ASSUME dialled[m] < Tries
      PROVE  \A v \in Workers : OneCounted(worker'[v], m, dialled'[m])
  <2>1. m \in S => mail[m].attempts <= dialled[m]
    <3>1. mail[m].attempts + Cardinality(Pending(m)) <= dialled[m] + Slack(m)
      BY <1>7 DEF Counted
    <3>2. m \in S => Slack(m) = 0
      BY <1>5 DEF Slack
    <3> QED  BY <1>3, <1>4, <3>1, <3>2
  <2>2. m \in S => worker'[w].batch[m] = mail[m].attempts + 1
    BY <1>1
  <2>3. DOMAIN worker'[w].batch = S
    BY <1>1
  <2>4. OneCounted(worker'[w], m, dialled'[m])
    BY <1>2, <1>4, <2>1, <2>2, <2>3 DEF OneCounted
  <2>5. \A v \in Workers : v # w => OneCounted(worker'[v], m, dialled'[m])
    BY <1>1, <1>4, <1>7, HandsCounted
  <2> QED  BY <2>4, <2>5
<1>8. 0 \in Int /\ dialled[m] <= dialled'[m] /\ 0 <= dialled'[m] - dialled[m]
  BY <1>4
<1> QED  BY <1>3, <1>6, <1>7, <1>8, CountKept

(* A mail is dialled, one call more is under way.                          *)
LEMMA CallCounted ==
  ASSUME TypeOK, TypeOK', OneAtATime, NEW w \in Workers, NEW n \in Mails, Call(w, n),
         NEW m \in Mails, Counted(m)
  PROVE  Counted(m)'
<1>1. /\ worker \in [Workers -> [batch : Batches, call : Calls]] /\ worker[w].batch \in Batches
      /\ worker[w].call = NoCall /\ n \in DOMAIN worker[w].batch
      /\ mail' = mail /\ dialled' = [dialled EXCEPT ![n] = IF @ < Tries THEN @ + 1 ELSE @]
  BY DEF TypeOK, Call, IsNext
<1>2. PICK outcome \in Outcomes :
        worker' = [worker EXCEPT ![w] =
             [batch |-> Without(@.batch, n),
              call |-> [mail |-> n, attempt |-> @.batch[n], outcome |-> outcome]]]
  BY DEF Call
<1>3. /\ worker'[w].call.mail = n /\ worker'[w].call.attempt = worker[w].batch[n]
      /\ worker'[w].batch = Without(worker[w].batch, n)
      /\ \A v \in Workers : v # w => worker'[v] = worker[v]
  BY <1>1, <1>2
<1>4. /\ DOMAIN worker'[w].batch = DOMAIN worker[w].batch \ {n}
      /\ \A k \in DOMAIN worker'[w].batch : worker'[w].batch[k] = worker[w].batch[k]
  BY <1>1, <1>3, BatchFacts DEF Without
<1>5. worker[w].call.mail # m
  BY <1>1, MailAssumption DEF NoCall
<1>6. /\ Cardinality(Pending(m)') = Cardinality(Pending(m)) + (IF m = n THEN 1 ELSE 0)
      /\ Cardinality(Pending(m)) \in Nat /\ Cardinality(Pending(m)') \in Nat
  BY <1>3, <1>5, PendingCount
<1>7. dialled[m] \in Nat /\ dialled[m] <= Tries /\ Tries \in Nat /\ mail[m].attempts \in Nat /\ Slack(m) \in {0, 1}
  BY CountTypes
<1>8. Slack(m)' = Slack(m) /\ mail'[m] = mail[m]
  BY <1>1 DEF Slack
<1>9. CASE m # n
  <2>1. dialled'[m] = dialled[m]
    BY <1>1, <1>9
  <2>2. dialled[m] < Tries => \A v \in Workers : OneCounted(worker'[v], m, dialled'[m])
    BY <1>3, <1>4, <1>9, <2>1, HandsCounted DEF OneCounted
  <2>3. /\ 0 \in Int /\ dialled[m] <= dialled'[m] /\ 0 <= dialled'[m] - dialled[m]
        /\ mail'[m].attempts + 0 <= mail[m].attempts + Slack(m)' - Slack(m) + dialled'[m] - dialled[m]
    BY <1>7, <1>8, <2>1
  <2>4. Cardinality(Pending(m)') = Cardinality(Pending(m)) + 0
    BY <1>6, <1>9
  <2> QED  BY <2>2, <2>3, <2>4, CountKept
<1>10. CASE m = n /\ dialled[m] < Tries
  <2>1. dialled'[m] = dialled[m] + 1
    <3>1. dialled \in [Mails -> 0..Tries]
      BY DEF TypeOK
    <3> QED  BY <1>1, <1>10, <3>1
  <2>2. \A v \in Workers : OneCounted(worker[v], m, dialled[m])
    BY <1>10, HandsCounted
  <2>3. OneCounted(worker'[w], m, dialled'[m])
    BY <1>1, <1>3, <1>4, <1>10, <2>1, <2>2 DEF OneCounted
  <2>4. ASSUME NEW v \in Workers, v # w
        PROVE  OneCounted(worker'[v], m, dialled'[m])
    <3>1. worker'[v] = worker[v] /\ worker[v] \in [batch : Batches, call : Calls]
      BY <1>1, <1>3, <2>4
    <3>2. m \in DOMAIN worker[v].batch => worker[v].batch[m] \in Int
      BY <3>1, BatchFacts
    <3>3. worker[v].call.mail = m => worker[v].call.attempt \in Int
      BY <3>1, MailAssumption, CallFacts DEF NoCall
    <3> QED  BY <1>7, <2>1, <2>2, <3>1, <3>2, <3>3 DEF OneCounted
  <2>5. /\ 1 \in Int /\ dialled[m] <= dialled'[m] /\ 1 <= dialled'[m] - dialled[m]
        /\ mail'[m].attempts + 1 <= mail[m].attempts + Slack(m)' - Slack(m) + dialled'[m] - dialled[m]
    BY <1>7, <1>8, <2>1
  <2>6. Cardinality(Pending(m)') = Cardinality(Pending(m)) + 1
    BY <1>6, <1>10
  <2>7. \A v \in Workers : OneCounted(worker'[v], m, dialled'[m])
    BY <2>3, <2>4
  <2> QED  BY <2>5, <2>6, <2>7, CountKept
<1>11. CASE m = n /\ ~(dialled[m] < Tries)
  <2>1. dialled'[m] = dialled[m]
    <3>1. dialled \in [Mails -> 0..Tries]
      BY DEF TypeOK
    <3> QED  BY <1>1, <1>11, <3>1
  <2> QED  BY <1>11, <2>1 DEF Counted
<1> QED  BY <1>9, <1>10, <1>11

(* A call is over, recorded or not.                                        *)
LEMMA CallOverCounted ==
  ASSUME TypeOK, TypeOK', NEW w \in Workers, worker[w].call # NoCall,
         worker' = [worker EXCEPT ![w].call = NoCall], dialled' = dialled,
         NEW m \in Mails, Counted(m),
         mail'[m].attempts = mail[m].attempts, m # worker[w].call.mail => mail'[m] = mail[m]
  PROVE  Counted(m)'
<1>1. /\ worker \in [Workers -> [batch : Batches, call : Calls]]
      /\ worker'[w].call = NoCall /\ worker'[w].batch = worker[w].batch
      /\ \A v \in Workers : v # w => worker'[v] = worker[v]
  BY DEF TypeOK
<1>2. NoCall.mail # m
  BY MailAssumption DEF NoCall
<1> DEFINE more == IF worker[w].call.mail = m THEN -1 ELSE 0
<1>3. Cardinality(Pending(m)') = Cardinality(Pending(m)) + more /\ Cardinality(Pending(m)) \in Nat
  BY <1>1, <1>2, PendingCount
<1>4. dialled'[m] = dialled[m] /\ dialled[m] \in Nat /\ mail[m].attempts \in Nat /\ Slack(m) \in {0, 1}
  BY CountTypes
<1>5. Slack(m)' \in {0, 1} /\ (m # worker[w].call.mail => Slack(m)' = Slack(m))
  BY DEF Slack
<1>6. mail'[m].attempts + more <= mail[m].attempts + Slack(m)' - Slack(m) + dialled'[m] - dialled[m]
  BY <1>4, <1>5
<1>7. dialled[m] < Tries => \A v \in Workers : OneCounted(worker'[v], m, dialled'[m])
  BY <1>1, <1>2, <1>4, HandsCounted DEF OneCounted
<1>8. more \in Int /\ dialled[m] <= dialled'[m] /\ more <= dialled'[m] - dialled[m]
  BY <1>4
<1> HIDE DEF more
<1> QED  BY <1>3, <1>6, <1>7, <1>8, CountKept

LEMMA CrashCounted ==
  ASSUME TypeOK, TypeOK', NEW w \in Workers, Crash(w), NEW m \in Mails, Counted(m)
  PROVE  Counted(m)'
<1>1. /\ worker'[w] = Resting
      /\ \A v \in Workers : v # w => worker'[v] = worker[v]
      /\ mail' = mail /\ dialled' = dialled
  BY DEF Crash, TypeOK
<1>2. worker'[w].call.mail # m /\ m \notin DOMAIN worker'[w].batch
  BY <1>1, MailAssumption DEF Resting, NoBatch, NoCall
<1> DEFINE more == IF worker[w].call.mail = m THEN -1 ELSE 0
<1>3. Cardinality(Pending(m)') = Cardinality(Pending(m)) + more /\ Cardinality(Pending(m)) \in Nat
  BY <1>1, <1>2, PendingCount
<1>4. dialled'[m] = dialled[m] /\ dialled[m] \in Nat /\ mail[m].attempts \in Nat /\ Slack(m) \in {0, 1}
  BY <1>1, CountTypes
<1>5. mail'[m] = mail[m] /\ Slack(m)' = Slack(m)
  BY <1>1 DEF Slack
<1>6. mail'[m].attempts + more <= mail[m].attempts + Slack(m)' - Slack(m) + dialled'[m] - dialled[m]
  BY <1>4, <1>5
<1>7. dialled[m] < Tries => \A v \in Workers : OneCounted(worker'[v], m, dialled'[m])
  BY <1>1, <1>2, <1>4, HandsCounted DEF OneCounted
<1>8. more \in Int /\ dialled[m] <= dialled'[m] /\ more <= dialled'[m] - dialled[m]
  BY <1>4
<1> HIDE DEF more
<1> QED  BY <1>3, <1>6, <1>7, <1>8, CountKept


LEMMA AfterKeepsAttempts ==
  ASSUME NEW row \in Rows, NEW call \in [mail : Mails, attempt : 1..MaxAttempts, outcome : Outcomes]
  PROVE  /\ After(row, call).attempts = row.attempts
         /\ After(row, call).status = "NEEDS_ATTENTION" =>
              \/ call.outcome = "Retryable" /\ call.attempt >= Tries
              \/ row.status = "NEEDS_ATTENTION" /\ After(row, call).why = row.why
<1> DEFINE Fine == /\ After(row, call).attempts = row.attempts
                   /\ After(row, call).status = "NEEDS_ATTENTION" =>
                        \/ call.outcome = "Retryable" /\ call.attempt >= Tries
                        \/ row.status = "NEEDS_ATTENTION" /\ After(row, call).why = row.why
<1>1. ASSUME call.outcome = "Accepted" PROVE Fine
  BY <1>1, MailAssumption DEF Rows, After, Terminal
<1>2. ASSUME call.outcome = "Retryable" /\ call.attempt >= Tries PROVE Fine
  BY <1>2, MailAssumption DEF Rows, After, Terminal
<1>3. ASSUME call.outcome = "Retryable" /\ call.attempt < Tries PROVE Fine
  BY <1>3, MailAssumption DEF Rows, After, Terminal
<1>4. ASSUME call.outcome = "Permanent" PROVE Fine
  BY <1>4, MailAssumption DEF Rows, After, Terminal
<1>5. ASSUME call.outcome = "Unknown" /\ row.kind = "TRANSACTIONAL" PROVE Fine
  BY <1>5, MailAssumption DEF Rows, After, Terminal
<1>6. ASSUME call.outcome = "Unknown" /\ row.kind = "MARKETING" PROVE Fine
  BY <1>6, MailAssumption DEF Rows, After, Terminal
<1>7. /\ call.outcome \in {"Accepted", "Retryable", "Permanent", "Unknown"}
      /\ row.kind \in {"MARKETING", "TRANSACTIONAL"}
      /\ call.attempt >= Tries \/ call.attempt < Tries
  BY MailAssumption DEF Outcomes, Kinds, Rows
<1> HIDE DEF Fine
<1>8. Fine
  BY <1>1, <1>2, <1>3, <1>4, <1>5, <1>6, <1>7
<1> QED  BY <1>8 DEF Fine

(* Every step keeps the count of every mail.                                *)
LEMMA CountStep ==
  ASSUME TypeOK, OneAtATime, [Next]_vars, NEW m \in Mails, Counted(m)
  PROVE  Counted(m)'
<1>0. mail \in [Mails -> Rows] /\ mail[m] \in Rows /\ TypeOK'
  BY TypeStep DEF TypeOK
<1>a. mail[m].attempts \in Nat
  BY CountTypes
<1>1. CASE UNCHANGED vars
  BY <1>0, <1>a, <1>1, RowCounted DEF vars, NoTryMore
<1>2. ASSUME NEW c \in Campaigns, NEW kind \in Kinds, NEW hold \in {"none", "later"},
             CreateCampaign(c, kind, hold)
      PROVE  Counted(m)'
  <2>0. PICK incomplete \in SUBSET Of(c) :
          mail' = [n \in Mails |-> IF n \in Of(c) THEN NewMail(kind, hold, n \in incomplete) ELSE mail[n]]
    BY <1>2 DEF CreateCampaign
  <2>4. m \in Of(c) => mail'[m] = NewMail(kind, hold, m \in incomplete)
    BY <2>0
  <2>5. NewMail(kind, hold, m \in incomplete).attempts = 0
    BY DEF NewMail
  <2>1. m \in Of(c) => mail'[m].attempts = 0
    BY <2>4, <2>5
  <2>2. m \notin Of(c) => mail'[m] = mail[m]
    BY <2>0
  <2>3. NoTryMore(m)
    BY <1>a, <2>1, <2>2 DEF NoTryMore
  <2> QED  BY <1>0, <1>2, <2>3, RowCounted DEF CreateCampaign
<1>3. ASSUME NEW c \in Campaigns, TimeComes(c) \/ SendScheduledNow(c)
      PROVE  Counted(m)'
  <2>1. mail'[m].status = mail[m].status /\ mail'[m].attempts = mail[m].attempts
    BY <1>0, <1>3 DEF TimeComes, SendScheduledNow, Rows
  <2>2. NoTryMore(m)
    BY <1>a, <2>1 DEF NoTryMore
  <2> QED  BY <1>0, <1>3, <2>2, RowCounted DEF TimeComes, SendScheduledNow
<1>4. ASSUME NEW w \in Workers, NEW S \in SUBSET Mails, ReviveStuck(w, S)
      PROVE  Counted(m)'
  <2>1. /\ mail'[m].attempts = mail[m].attempts
        /\ mail'[m].status = mail[m].status \/ mail'[m].status = "SEND_UNKNOWN"
    BY <1>0, <1>4 DEF ReviveStuck, Rows
  <2>2. NoTryMore(m)
    BY <1>a, <2>1 DEF NoTryMore
  <2> QED  BY <1>0, <1>4, <2>2, RowCounted DEF ReviveStuck
<1>5. ASSUME NEW w \in Workers, NEW n \in Mails, Defer(w, n)
      PROVE  Counted(m)'
  <2>1. CASE m = n
    <3>1. mail'[m] = Deferred(mail[m])
      BY <1>0, <1>5, <2>1 DEF Defer
    <3>2. Deferred(mail[m]).attempts = IF mail[m].attempts = 0 THEN 0 ELSE mail[m].attempts - 1
      BY <1>0 DEF Deferred, Rows
    <3>3. NoTryMore(m) \/ (mail[m].attempts # 0 /\ mail'[m].attempts = mail[m].attempts - 1)
      BY <3>1, <3>2 DEF NoTryMore
    <3> QED  BY <1>0, <1>5, <3>3, DoneCounted DEF Defer
  <2>2. CASE m # n
    <3>1. mail'[m] = mail[m]
      BY <1>0, <1>5, <2>2 DEF Defer
    <3>2. NoTryMore(m)
      BY <1>a, <3>1 DEF NoTryMore
    <3> QED  BY <1>0, <1>5, <3>2, DoneCounted DEF Defer
  <2> QED  BY <2>1, <2>2
<1>6. ASSUME NEW w \in Workers, NEW n \in Mails, Unreadable(w, n)
      PROVE  Counted(m)'
  <2>1. /\ mail'[m].attempts = mail[m].attempts
        /\ mail'[m].status = mail[m].status \/ mail'[m].status = "NEEDS_ATTENTION"
    BY <1>0, <1>6 DEF Unreadable, Rows
  <2>2. NoTryMore(m)
    BY <1>a, <2>1 DEF NoTryMore
  <2> QED  BY <1>0, <1>6, <2>2, DoneCounted DEF Unreadable
<1>7. ASSUME NEW w \in Workers, Record(w)
      PROVE  Counted(m)'
  <2> DEFINE call == worker[w].call
  <2>1. /\ call # NoCall /\ call \in [mail : Mails, attempt : 1..MaxAttempts, outcome : Outcomes]
        /\ mail' = [mail EXCEPT ![call.mail] = After(@, call)]
        /\ worker' = [worker EXCEPT ![w].call = NoCall] /\ dialled' = dialled
    BY <1>7, CallFacts DEF Record, TypeOK
  <2>2. m # call.mail => mail'[m] = mail[m]
    BY <1>0, <2>1
  <2>3. mail'[m].attempts = mail[m].attempts
    <3> HIDE DEF call
    <3>1. m = call.mail => mail'[m] = After(mail[m], call)
      BY <1>0, <2>1
    <3> QED  BY <1>0, <2>1, <2>2, <3>1, AfterKeepsAttempts
  <2> QED  BY <1>0, <2>1, <2>2, <2>3, CallOverCounted
<1>8. ASSUME NEW w \in Workers, RecordFails(w)
      PROVE  Counted(m)'
  <2>1. CASE worker[w].call # NoCall /\ worker' = [worker EXCEPT ![w].call = NoCall]
    BY <1>0, <1>8, <2>1, CallOverCounted DEF RecordFails
  <2>2. ASSUME NEW n \in Mails, IsNext(w, n), Done(w, n)
        PROVE  Counted(m)'
    <3>1. mail' = mail /\ dialled' = dialled
      BY <1>8 DEF RecordFails
    <3>2. NoTryMore(m)
      BY <1>a, <3>1 DEF NoTryMore
    <3> QED  BY <1>0, <2>2, <3>1, <3>2, DoneCounted
  <2> QED  BY <1>8, <2>1, <2>2 DEF RecordFails
<1>9. ASSUME NEW n \in Mails, Requeue(n) \/ Abandon(n)
      PROVE  Counted(m)'
  <2>1. \/ mail'[m].attempts = 0
        \/ /\ mail'[m].attempts = mail[m].attempts
           /\ mail'[m].status = mail[m].status \/ mail'[m].status = "FAILED"
    <3>1. CASE m # n
      BY <1>0, <1>9, <3>1 DEF Requeue, Abandon
    <3>2. CASE m = n /\ Requeue(n)
      <4>1. mail'[m].attempts = 0
        BY <1>0, <3>2 DEF Requeue, Rows
      <4> QED  BY <4>1
    <3>3. CASE m = n /\ Abandon(n)
      BY <1>0, <3>3 DEF Abandon, Rows
    <3> QED  BY <1>9, <3>1, <3>2, <3>3
  <2>2. NoTryMore(m)
    BY <1>a, <2>1 DEF NoTryMore
  <2> QED  BY <1>0, <1>9, <2>2, RowCounted DEF Requeue, Abandon
<1>10. ASSUME NEW r \in Callbacks, StopQueued(r)
       PROVE  Counted(m)'
  <2>1. /\ mail'[m].attempts = mail[m].attempts
        /\ mail'[m].status = mail[m].status \/ mail'[m].status = "CANCELLED"
    BY <1>0, <1>10 DEF StopQueued, Rows
  <2>2. NoTryMore(m)
    BY <1>a, <2>1 DEF NoTryMore
  <2> QED  BY <1>0, <1>10, <2>2, RowCounted DEF StopQueued
<1>11. ASSUME NEW r \in Callbacks, (\E c \in Campaigns : RestoreDraft(r, c)) \/ DropDraft(r) \/ CallbackFails(r)
       PROVE  Counted(m)'
  <2>1. mail' = mail /\ worker' = worker /\ dialled' = dialled
    BY <1>11 DEF RestoreDraft, DropDraft, CallbackFails
  <2>2. NoTryMore(m)
    BY <1>a, <2>1 DEF NoTryMore
  <2> QED  BY <1>0, <2>1, <2>2, RowCounted
<1> QED  BY <1>0, <1>1, <1>2, <1>3, <1>4, <1>5, <1>6, <1>7, <1>8, <1>9, <1>10, <1>11,
            ClaimCounted, CallCounted, CrashCounted, StepCases

(* Only the answer to a last try says that the tries are used up.          *)
LEMMA GivesUpStep ==
  ASSUME TypeOK, \A m \in Mails : Counted(m), GivesUpAfterTries, [Next]_vars
  PROVE  GivesUpAfterTries'
<1> SUFFICES ASSUME NEW m \in Mails, mail'[m].status = "NEEDS_ATTENTION", mail'[m].why = "retries"
             PROVE  dialled'[m] = Tries
  BY DEF GivesUpAfterTries
<1>0. /\ mail \in [Mails -> Rows] /\ mail[m] \in Rows
      /\ dialled \in [Mails -> 0..Tries] /\ dialled[m] \in 0..Tries /\ Tries \in Nat
  BY MailAssumption DEF TypeOK
<1> SUFFICES ASSUME dialled[m] # Tries
             PROVE  FALSE
  <2>1. dialled'[m] = dialled[m] \/ \E n \in Mails : dialled' = [dialled EXCEPT ![n] = IF @ < Tries THEN @ + 1 ELSE @]
    BY StepCases DEF vars, CreateCampaign, TimeComes, SendScheduledNow, ReviveStuck, Claim, Defer, Unreadable, Call,
       Record, RecordFails, Crash, Requeue, Abandon, RestoreDraft, StopQueued, DropDraft, CallbackFails
  <2>2. dialled[m] = Tries => dialled'[m] = Tries
    BY <1>0, <2>1
  <2> QED  BY <2>2
<1>1. CASE mail'[m] = mail[m]
  BY <1>1 DEF GivesUpAfterTries
<1>2. ASSUME NEW c \in Campaigns, NEW kind \in Kinds, NEW hold \in {"none", "later"},
             CreateCampaign(c, kind, hold)
      PROVE  mail'[m] = mail[m]
  <2>1. PICK incomplete \in SUBSET Of(c) :
          mail' = [k \in Mails |-> IF k \in Of(c) THEN NewMail(kind, hold, k \in incomplete) ELSE mail[k]]
    BY <1>2 DEF CreateCampaign
  <2>2. NewMail(kind, hold, m \in incomplete).why # "retries"
    BY DEF NewMail
  <2> QED  BY <2>1, <2>2
<1>3. ASSUME NEW c \in Campaigns, TimeComes(c) \/ SendScheduledNow(c)
      PROVE  mail'[m].status = mail[m].status /\ mail'[m].why = mail[m].why
  BY <1>0, <1>3 DEF TimeComes, SendScheduledNow, Rows
<1>4. ASSUME NEW w \in Workers, NEW S \in SUBSET Mails, ReviveStuck(w, S) \/ Claim(w, S)
      PROVE  mail'[m] = mail[m]
  BY <1>0, <1>4 DEF ReviveStuck, Claim, Rows
<1>5. ASSUME NEW w \in Workers, NEW n \in Mails, Defer(w, n) \/ Unreadable(w, n)
      PROVE  mail'[m] = mail[m]
  BY <1>0, <1>5 DEF Defer, Unreadable, Deferred, Rows
<1>6. ASSUME NEW w \in Workers, Record(w)
      PROVE  mail'[m].status = mail[m].status /\ mail'[m].why = mail[m].why
  <2> DEFINE call == worker[w].call
  <2>1. /\ call \in [mail : Mails, attempt : 1..MaxAttempts, outcome : Outcomes]
        /\ mail' = [mail EXCEPT ![call.mail] = After(@, call)]
    BY <1>6, CallFacts DEF Record, TypeOK
  <2>2. CASE m = call.mail
    <3>1. OneCounted(worker[w], m, dialled[m]) /\ dialled[m] < Tries
      BY <1>0 DEF Counted
    <3>2. call.attempt <= dialled[m]
      BY <2>2, <3>1 DEF OneCounted
    <3> HIDE DEF call
    <3>3. ~(call.attempt >= Tries)
      <4>1. call.attempt \in Nat /\ dialled[m] \in Nat
        BY <1>0, <2>1, MailAssumption
      <4> QED  BY <1>0, <3>1, <3>2, <4>1
    <3>4. mail'[m] = After(mail[m], call)
      BY <1>0, <2>1, <2>2
    <3> QED  BY <1>0, <2>1, <3>3, <3>4, AfterKeepsAttempts
  <2>3. CASE m # call.mail
    <3> HIDE DEF call
    <3> QED  BY <1>0, <2>1, <2>3
  <2> QED  BY <2>2, <2>3
<1>7. ASSUME NEW n \in Mails, Requeue(n) \/ Abandon(n)
      PROVE  mail'[m] = mail[m]
  BY <1>0, <1>7 DEF Requeue, Abandon, Rows
<1>8. ASSUME NEW r \in Callbacks, StopQueued(r)
      PROVE  mail'[m] = mail[m]
  BY <1>0, <1>8 DEF StopQueued, Rows
<1>9. \/ mail' = mail
      \/ \E c \in Campaigns :
           \/ \E kind \in Kinds, hold \in {"none", "later"} : CreateCampaign(c, kind, hold)
           \/ TimeComes(c) \/ SendScheduledNow(c)
      \/ \E w \in Workers :
           \/ \E S \in SUBSET Mails : ReviveStuck(w, S) \/ Claim(w, S)
           \/ \E n \in Mails : Defer(w, n) \/ Unreadable(w, n)
           \/ Record(w)
      \/ \E n \in Mails : Requeue(n) \/ Abandon(n)
      \/ \E r \in Callbacks : StopQueued(r)
  BY StepCases DEF vars, Call, RecordFails, Crash, RestoreDraft, DropDraft, CallbackFails
<1>10. mail'[m] = mail[m] \/ (mail'[m].status = mail[m].status /\ mail'[m].why = mail[m].why)
  BY <1>2, <1>3, <1>4, <1>5, <1>6, <1>7, <1>8, <1>9
<1> QED  BY <1>10 DEF GivesUpAfterTries

LEMMA TriesBegin ==
  ASSUME Init
  PROVE  TriesInv
<1>1. TypeOK /\ OneAtATime
  BY Begins DEF IInv
<1>2. \A m \in Mails : Pending(m) = {} /\ Cardinality(Pending(m)) = 0
  BY FS_EmptySet, MailAssumption DEF Init, Pending, Resting, NoCall
<1>3. \A m \in Mails : Counted(m)
  <2> SUFFICES ASSUME NEW m \in Mails PROVE Counted(m)
    OBVIOUS
  <2>1. dialled[m] = 0 /\ mail[m].attempts = 0 /\ Slack(m) = 1
    BY DEF Init, Slack
  <2>2. ASSUME NEW w \in Workers PROVE OneCounted(worker[w], m, 0)
    <3>1. worker[w].batch = NoBatch /\ worker[w].call = NoCall
      BY DEF Init, Resting
    <3>2. DOMAIN NoBatch = {} /\ NoCall.mail = NoMail
      BY DEF NoBatch, NoCall
    <3> QED  BY <3>1, <3>2, MailAssumption DEF OneCounted
  <2> QED  BY <1>2, <2>1, <2>2 DEF Counted
<1>4. GivesUpAfterTries
  BY DEF Init, GivesUpAfterTries
<1> QED  BY <1>1, <1>3, <1>4 DEF TriesInv

LEMMA TriesGo ==
  ASSUME TriesInv, [Next]_vars
  PROVE  TriesInv'
<1>1. TypeOK' /\ OneAtATime'
  BY TypeStep, OneAtATimeStep DEF TriesInv
<1>2. \A m \in Mails : Counted(m)'
  BY CountStep DEF TriesInv
<1>3. GivesUpAfterTries'
  BY GivesUpStep DEF TriesInv
<1> QED  BY <1>1, <1>2, <1>3 DEF TriesInv

(* For any number of tries, workers, requeues and mails: nothing but tries *)
(* uses tries up (ClaimMessages, DeferForQuota, deliver).                  *)
THEOREM GivesUpOnlyAfterTries == Spec => []GivesUpAfterTries
<1>1. TriesInv => GivesUpAfterTries
  BY DEF TriesInv
<1> QED  BY <1>1, TriesBegin, TriesGo, PTL DEF Spec
=============================================================================
