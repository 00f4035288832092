--------------------------- MODULE EventDelivery ---------------------------
(***************************************************************************)
(* One topic partition of the event pipeline and one consumer group on it: *)
(* outbox rows of the producing service (pkg/outbox), the relay processes  *)
(* that publish them, the partition, the group's consumers (pkg/kafkax)    *)
(* with their processed_events table (pkg/idempotency), and failed_events  *)
(* with the operator's replay (pkg/deadletter).                            *)
(*                                                                         *)
(* Every database statement and every broker call is a step of its own, so *)
(* crashes, other processes and lost answers fall between them.            *)
(***************************************************************************)
EXTENDS Integers, Sequences, FiniteSets

CONSTANTS
  Events,       \* outbox ids; created_at is ordered as the ids are
  Foreign,      \* events of a type this group's handler skips
  Relays,       \* processes that run Relay.Run against one outbox
  Consumers,    \* members of the consumer group
  Operators,    \* dead-letter console requests
  BatchSize,    \* rows one relay pass selects (100)
  Attempts,     \* handlerAttempts (5)
  MaxFaults,    \* how many failures one behaviour contains
  Unreliable,   \* statements of handleOne that may fail: "probe", "park"
  NoOne         \* no consumer, no event

ASSUME EventAssumption ==
  /\ Events \subseteq Nat
  /\ Foreign \subseteq Events

ASSUME BoundAssumption ==
  /\ BatchSize \in Nat \ {0}
  /\ Attempts \in Nat \ {0}
  /\ MaxFaults \in Nat

ASSUME NoOneAssumption == NoOne \notin Consumers /\ NoOne \notin Events

VARIABLES
  outbox,       \* outbox[e]: the row of e, by its published_at
  relayPc,      \* where a relay is in publishBatch
  batch,        \* the rows a relay has selected and not yet dealt with
  log,          \* the partition: the sequence of events the broker holds
  committed,    \* the group's committed offset: messages up to it are done
  owner,        \* the member the partition is assigned to
  pos,          \* pos[c]: the offset c's reader returns next
  pc,           \* where a consumer is in Consumer.Run and handleOne
  cur,          \* cur[c]: the offset c is handling
  tries,        \* tries[c]: attempts made at cur[c]
  claimed,      \* processed_events of the group
  applied,      \* applied[e]: how often the handler's writes were committed
  parked,       \* failed_events of the group
  replayPc,     \* where a replay request is in Store.Replay
  replaying,    \* the row a replay request loaded
  abandoned,    \* offsets handleOne gave back without a conclusion
  faults        \* failures so far

relayVars == <<outbox, relayPc, batch>>
brokerVars == <<log, committed, owner>>
consumerVars == <<pos, pc, cur, tries>>
storeVars == <<claimed, applied, parked>>
replayVars == <<replayPc, replaying>>
vars == <<relayVars, brokerVars, consumerVars, storeVars, replayVars, abandoned, faults>>

RelayStates == {"idle", "reading", "sending", "marking"}
ConsumerStates == {"idle", "probe", "handle", "park", "commit"}

Init ==
  /\ outbox = [e \in Events |-> "absent"]
  /\ relayPc = [r \in Relays |-> "idle"]
  /\ batch = [r \in Relays |-> {}]
  /\ log = <<>>
  /\ committed = 0
  /\ owner = NoOne
  /\ pos = [c \in Consumers |-> 1]
  /\ pc = [c \in Consumers |-> "idle"]
  /\ cur = [c \in Consumers |-> 0]
  /\ tries = [c \in Consumers |-> 0]
  /\ claimed = {}
  /\ applied = [e \in Events |-> 0]
  /\ parked = {}
  /\ replayPc = [o \in Operators |-> "idle"]
  /\ replaying = [o \in Operators |-> NoOne]
  /\ abandoned = {}
  /\ faults = 0

(* A fault uses up the budget; everything else leaves it.                  *)
Fault == faults < MaxFaults /\ faults' = faults + 1
NoFault == UNCHANGED faults

-----------------------------------------------------------------------------
(* The producing service and its relay.                                    *)

(* A business transaction commits with its outbox row. created_at is when  *)
(* it began, so rows may appear in any order.                              *)
Emit(e) ==
  /\ outbox[e] = "absent"
  /\ outbox' = [outbox EXCEPT ![e] = "pending"]
  /\ NoFault
  /\ UNCHANGED <<relayPc, batch, brokerVars, consumerVars, storeVars, replayVars, abandoned>>

(* The rows another relay's SELECT ... FOR UPDATE holds: only while it runs. *)
Locked(r) == UNION {batch[q] : q \in {q \in Relays \ {r} : relayPc[q] = "reading"}}

(* The pass goes through its rows in the order of the SELECT.              *)
UpNext(e, r) == e \in batch[r] /\ \A f \in batch[r] : e <= f

(* The SELECT of publishBatch: unpublished, unlocked rows, oldest first.   *)
Select(r, B) ==
  LET visible == {e \in Events : outbox[e] = "pending"} \ Locked(r)
  IN /\ relayPc[r] = "idle"
     /\ B # {} /\ B \subseteq visible
     /\ \A e \in B, f \in visible \ B : e < f
     /\ Cardinality(B) <= BatchSize
     /\ B = visible \/ Cardinality(B) = BatchSize
     /\ batch' = [batch EXCEPT ![r] = B]
     /\ relayPc' = [relayPc EXCEPT ![r] = "reading"]
     /\ NoFault
     /\ UNCHANGED <<outbox, brokerVars, consumerVars, storeVars, replayVars, abandoned>>

(* rows.Close: pool.Query ran outside a transaction, so the row locks end  *)
(* here, before anything has been sent.                                    *)
CloseRows(r) ==
  /\ relayPc[r] = "reading"
  /\ relayPc' = [relayPc EXCEPT ![r] = "sending"]
  /\ NoFault
  /\ UNCHANGED <<outbox, batch, brokerVars, consumerVars, storeVars, replayVars, abandoned>>

(* What is left of relay r's pass once it is done with event e.            *)
Advance(r, e) ==
  /\ batch' = [batch EXCEPT ![r] = @ \ {e}]
  /\ relayPc' = [relayPc EXCEPT ![r] = IF batch[r] = {e} THEN "idle" ELSE "sending"]

Publish(r, e) ==
  /\ relayPc[r] = "sending" /\ UpNext(e, r)
  /\ log' = Append(log, e)
  /\ relayPc' = [relayPc EXCEPT ![r] = "marking"]
  /\ NoFault
  /\ UNCHANGED <<outbox, batch, committed, owner, consumerVars, storeVars, replayVars, abandoned>>

(* Mutant: a row that could not be sent is marked like one that was.       *)
PublishFailsMarked(r, e) ==
  /\ relayPc[r] = "sending" /\ UpNext(e, r)
  /\ Fault
  /\ outbox' = [outbox EXCEPT ![e] = "published"]
  /\ Advance(r, e)
  /\ UNCHANGED <<log, committed, owner, consumerVars, storeVars, replayVars, abandoned>>

(* Publish returns an error, whether or not the broker kept the message:   *)
(* markFailed, and on to the next row of the batch.                        *)
PublishFails(r, e) ==
  /\ relayPc[r] = "sending" /\ UpNext(e, r)
  /\ Fault
  /\ \/ log' = Append(log, e)
     \/ log' = log
  /\ Advance(r, e)
  /\ UNCHANGED <<outbox, committed, owner, consumerVars, storeVars, replayVars, abandoned>>

MarkPublished(r, e) ==
  /\ relayPc[r] = "marking" /\ UpNext(e, r)
  /\ outbox' = [outbox EXCEPT ![e] = "published"]
  /\ Advance(r, e)
  /\ NoFault
  /\ UNCHANGED <<brokerVars, consumerVars, storeVars, replayVars, abandoned>>

(* The UPDATE fails: the row stays pending and a later pass re-sends it.   *)
MarkFails(r, e) ==
  /\ relayPc[r] = "marking" /\ UpNext(e, r)
  /\ Fault
  /\ Advance(r, e)
  /\ UNCHANGED <<outbox, brokerVars, consumerVars, storeVars, replayVars, abandoned>>

RelayCrash(r) ==
  /\ relayPc[r] # "idle"
  /\ Fault
  /\ relayPc' = [relayPc EXCEPT ![r] = "idle"]
  /\ batch' = [batch EXCEPT ![r] = {}]
  /\ UNCHANGED <<outbox, brokerVars, consumerVars, storeVars, replayVars, abandoned>>

-----------------------------------------------------------------------------
(* The broker's group coordinator: the partition has one owner, whose      *)
(* reader starts at the committed offset. The former owner may still be    *)
(* inside a handler.                                                       *)

Assign(c) ==
  /\ owner # c
  /\ IF owner = NoOne THEN NoFault ELSE Fault
  /\ owner' = c
  /\ pos' = [pos EXCEPT ![c] = committed + 1]
  /\ UNCHANGED <<relayVars, log, committed, pc, cur, tries, storeVars, replayVars, abandoned>>

-----------------------------------------------------------------------------
(* A consumer process.                                                     *)

Event(c) == log[cur[c]]

(* Mutant: ReadMessage instead, which commits what it returns.             *)
FetchCommitting(c) ==
  /\ pc[c] = "idle"
  /\ owner = c
  /\ pos[c] <= Len(log)
  /\ cur' = [cur EXCEPT ![c] = pos[c]]
  /\ pos' = [pos EXCEPT ![c] = @ + 1]
  /\ pc' = [pc EXCEPT ![c] = "probe"]
  /\ committed' = pos[c]
  /\ NoFault
  /\ UNCHANGED <<relayVars, log, owner, tries, storeVars, replayVars, abandoned>>

(* FetchMessage: the reader's own position moves on at once; only the      *)
(* commit tells the group.                                                 *)
Fetch(c) ==
  /\ pc[c] = "idle"
  /\ owner = c
  /\ pos[c] <= Len(log)
  /\ cur' = [cur EXCEPT ![c] = pos[c]]
  /\ pos' = [pos EXCEPT ![c] = @ + 1]
  /\ pc' = [pc EXCEPT ![c] = "probe"]
  /\ NoFault
  /\ UNCHANGED <<relayVars, brokerVars, tries, storeVars, replayVars, abandoned>>

(* AlreadyProcessed: the read-only fast path.                              *)
Probe(c) ==
  /\ pc[c] = "probe"
  /\ pc' = [pc EXCEPT ![c] = IF Event(c) \in claimed THEN "commit" ELSE "handle"]
  /\ tries' = [tries EXCEPT ![c] = 1]
  /\ NoFault
  /\ UNCHANGED <<relayVars, brokerVars, pos, cur, storeVars, replayVars, abandoned>>

(* handleOne returns false: no commit, and Run goes on to the next fetch.  *)
GiveBack(c) ==
  /\ pc' = [pc EXCEPT ![c] = "idle"]
  /\ abandoned' = abandoned \union {cur[c]}

ProbeFails(c) ==
  /\ pc[c] = "probe"
  /\ "probe" \in Unreliable
  /\ Fault
  /\ GiveBack(c)
  /\ UNCHANGED <<relayVars, brokerVars, pos, cur, tries, storeVars, replayVars>>

(* Mutant: the conflict on processed_events is not an error.               *)
ClaimOrNotAndApply(e) ==
  /\ claimed' = claimed \union {e}
  /\ applied' = [applied EXCEPT ![e] = @ + 1]
  /\ UNCHANGED parked

(* The handler's transaction on event e: the claim is its first statement, *)
(* so a claimed event raises ErrAlreadyClaimed and rolls everything back.  *)
ClaimAndApply(e) ==
  IF e \in claimed
    THEN UNCHANGED storeVars
    ELSE /\ claimed' = claimed \union {e}
         /\ applied' = [applied EXCEPT ![e] = @ + 1]
         /\ UNCHANGED parked

(* The handler returns nil or ErrAlreadyClaimed.                           *)
Handle(c) ==
  /\ pc[c] = "handle"
  /\ Event(c) \notin Foreign
  /\ ClaimAndApply(Event(c))
  /\ pc' = [pc EXCEPT ![c] = "commit"]
  /\ NoFault
  /\ UNCHANGED <<relayVars, brokerVars, pos, cur, tries, replayVars, abandoned>>

(* Another event type, or a document this service does not know: the       *)
(* handler returns nil without a transaction and without a claim.          *)
Skip(c) ==
  /\ pc[c] = "handle"
  /\ Event(c) \in Foreign
  /\ pc' = [pc EXCEPT ![c] = "commit"]
  /\ NoFault
  /\ UNCHANGED <<relayVars, brokerVars, pos, cur, tries, storeVars, replayVars, abandoned>>

(* Mutant: one attempt too many.                                           *)
RetryOnceMore(c) ==
  IF tries[c] <= Attempts
    THEN /\ tries' = [tries EXCEPT ![c] = @ + 1]
         /\ UNCHANGED pc
    ELSE /\ pc' = [pc EXCEPT ![c] = "park"]
         /\ UNCHANGED tries

(* After an error: the next attempt, or the dead-letter store.             *)
Retry(c) ==
  IF tries[c] < Attempts
    THEN /\ tries' = [tries EXCEPT ![c] = @ + 1]
         /\ UNCHANGED pc
    ELSE /\ pc' = [pc EXCEPT ![c] = "park"]
         /\ UNCHANGED tries

(* The transaction rolls back.                                             *)
HandleFails(c) ==
  /\ pc[c] = "handle"
  /\ Event(c) \notin Foreign \union claimed
  /\ Retry(c)
  /\ NoFault
  /\ UNCHANGED <<relayVars, brokerVars, pos, cur, storeVars, replayVars, abandoned>>

(* The transaction commits but its answer is lost, so the handler reports  *)
(* an error.                                                               *)
CommitAnswerLost(c) ==
  /\ pc[c] = "handle"
  /\ Event(c) \notin Foreign \union claimed
  /\ Fault
  /\ ClaimAndApply(Event(c))
  /\ Retry(c)
  /\ UNCHANGED <<relayVars, brokerVars, pos, cur, replayVars, abandoned>>

(* Mutant: the message is committed without its failed_events row.         *)
ParkNothing(c) ==
  /\ pc[c] = "park"
  /\ pc' = [pc EXCEPT ![c] = "commit"]
  /\ NoFault
  /\ UNCHANGED <<relayVars, brokerVars, pos, cur, tries, storeVars, replayVars, abandoned>>

(* Park: INSERT ... ON CONFLICT DO NOTHING.                                *)
Park(c) ==
  /\ pc[c] = "park"
  /\ parked' = parked \union {Event(c)}
  /\ pc' = [pc EXCEPT ![c] = "commit"]
  /\ NoFault
  /\ UNCHANGED <<relayVars, brokerVars, pos, cur, tries, claimed, applied, replayVars, abandoned>>

ParkFails(c) ==
  /\ pc[c] = "park"
  /\ "park" \in Unreliable
  /\ Fault
  /\ GiveBack(c)
  /\ UNCHANGED <<relayVars, brokerVars, pos, cur, tries, storeVars, replayVars>>

(* CommitMessages: the group's offset becomes this message's, whatever it  *)
(* was before. A member that lost the partition is refused or not.         *)
CommitOffset(c) ==
  /\ pc[c] = "commit"
  /\ committed' = cur[c]
  /\ pc' = [pc EXCEPT ![c] = "idle"]
  /\ NoFault
  /\ UNCHANGED <<relayVars, log, owner, pos, cur, tries, storeVars, replayVars, abandoned>>

(* The commit fails: a warning, and on to the next message.                *)
CommitFails(c) ==
  /\ pc[c] = "commit"
  /\ IF owner = c THEN Fault ELSE NoFault
  /\ pc' = [pc EXCEPT ![c] = "idle"]
  /\ UNCHANGED <<relayVars, brokerVars, pos, cur, tries, storeVars, replayVars, abandoned>>

(* The process is killed, or stopped in a back-off sleep: nothing that was *)
(* not committed is left of it.                                            *)
ConsumerCrash(c) ==
  /\ pc[c] # "idle" \/ owner = c
  /\ Fault
  /\ pc' = [pc EXCEPT ![c] = "idle"]
  /\ owner' = IF owner = c THEN NoOne ELSE owner
  /\ UNCHANGED <<relayVars, log, committed, pos, cur, tries, storeVars, replayVars, abandoned>>

-----------------------------------------------------------------------------
(* The dead-letter console: Store.Replay.                                  *)

(* Mutant: the row is taken off the table before the handler runs.         *)
TakeParked(o, e) ==
  /\ replayPc[o] = "idle"
  /\ e \in parked
  /\ replayPc' = [replayPc EXCEPT ![o] = "run"]
  /\ replaying' = [replaying EXCEPT ![o] = e]
  /\ parked' = parked \ {e}
  /\ NoFault
  /\ UNCHANGED <<relayVars, brokerVars, consumerVars, claimed, applied, abandoned>>

LoadParked(o, e) ==
  /\ replayPc[o] = "idle"
  /\ e \in parked
  /\ replayPc' = [replayPc EXCEPT ![o] = "run"]
  /\ replaying' = [replaying EXCEPT ![o] = e]
  /\ NoFault
  /\ UNCHANGED <<relayVars, brokerVars, consumerVars, storeVars, abandoned>>

(* The handler again, with a claim of its own. ErrAlreadyClaimed is an     *)
(* error like any other here, and leaves the row.                          *)
ReplayHandle(o) ==
  /\ replayPc[o] = "run"
  /\ ClaimAndApply(replaying[o])
  /\ replayPc' = [replayPc EXCEPT ![o] = IF replaying[o] \in claimed THEN "idle" ELSE "clear"]
  /\ NoFault
  /\ UNCHANGED <<relayVars, brokerVars, consumerVars, replaying, abandoned>>

ClearParked(o) ==
  /\ replayPc[o] = "clear"
  /\ parked' = parked \ {replaying[o]}
  /\ replayPc' = [replayPc EXCEPT ![o] = "idle"]
  /\ NoFault
  /\ UNCHANGED <<relayVars, brokerVars, consumerVars, claimed, applied, replaying, abandoned>>

(* Mutant: the row is deleted whatever the handler said.                   *)
ReplayFailsCleared(o) ==
  /\ replayPc[o] \in {"run", "clear"}
  /\ parked' = parked \ {replaying[o]}
  /\ replayPc' = [replayPc EXCEPT ![o] = "idle"]
  /\ NoFault
  /\ UNCHANGED <<relayVars, brokerVars, consumerVars, claimed, applied, replaying, abandoned>>

(* The handler fails, the DELETE fails, or the process dies in between.    *)
ReplayFails(o) ==
  /\ replayPc[o] \in {"run", "clear"}
  /\ replayPc' = [replayPc EXCEPT ![o] = "idle"]
  /\ NoFault
  /\ UNCHANGED <<relayVars, brokerVars, consumerVars, storeVars, replaying, abandoned>>

-----------------------------------------------------------------------------

RelayWorks(r) ==
  \/ \E B \in SUBSET Events : Select(r, B)
  \/ CloseRows(r)
  \/ \E e \in Events : Publish(r, e) \/ MarkPublished(r, e)

ConsumerWorks(c) ==
  \/ Fetch(c) \/ Probe(c)
  \/ Handle(c) \/ Skip(c) \/ HandleFails(c)
  \/ Park(c) \/ CommitOffset(c)

ProducerNext ==
  \/ \E e \in Events : Emit(e)
  \/ \E r \in Relays :
       \/ RelayWorks(r) \/ RelayCrash(r)
       \/ \E e \in Events : PublishFails(r, e) \/ MarkFails(r, e)

ConsumerNext ==
  \E c \in Consumers :
    \/ Assign(c) \/ ConsumerWorks(c) \/ ConsumerCrash(c)
    \/ ProbeFails(c) \/ CommitAnswerLost(c) \/ ParkFails(c) \/ CommitFails(c)

ConsoleNext ==
  \E o \in Operators :
    \/ \E e \in Events : LoadParked(o, e)
    \/ ReplayHandle(o) \/ ClearParked(o) \/ ReplayFails(o)

Next == ProducerNext \/ ConsumerNext \/ ConsoleNext

Spec == Init /\ [][Next]_vars

(* Relay.Run and Consumer.Run loop for ever and the coordinator hands a    *)
(* free partition to a member. Business transactions and operators owe     *)
(* nothing, and no fault is ever owed.                                     *)
Fairness ==
  /\ \A r \in Relays : WF_vars(RelayWorks(r))
  /\ \A c \in Consumers : WF_vars(ConsumerWorks(c))
  /\ WF_vars(\E c \in Consumers : owner = NoOne /\ Assign(c))

FairSpec == Spec /\ Fairness

-----------------------------------------------------------------------------
(* Properties.                                                             *)

TypeOK ==
  /\ outbox \in [Events -> {"absent", "pending", "published"}]
  /\ relayPc \in [Relays -> RelayStates]
  /\ batch \in [Relays -> SUBSET Events]
  /\ log \in Seq(Events)
  /\ committed \in Nat
  /\ owner \in Consumers \union {NoOne}
  /\ pos \in [Consumers -> Nat \ {0}]
  /\ pc \in [Consumers -> ConsumerStates]
  /\ cur \in [Consumers -> Nat]
  /\ tries \in [Consumers -> 0..Attempts]
  /\ claimed \in SUBSET Events
  /\ applied \in [Events -> Nat]
  /\ parked \in SUBSET Events
  /\ replayPc \in [Operators -> {"idle", "run", "clear"}]
  /\ replaying \in [Operators -> Events \union {NoOne}]
  /\ abandoned \in SUBSET Nat
  /\ faults \in Nat

Settled(e) == e \in Foreign \union claimed \union parked

InLog(e) == \E i \in 1..Len(log) : log[i] = e

(* The writes of an event's handler are committed exactly as often as its  *)
(* claim: never twice, however often the event is sent, fetched, retried,  *)
(* handled by two members at once or replayed (handleOne, ClaimInTx).      *)
AppliedOnce == \A e \in Events : applied[e] = IF e \in claimed THEN 1 ELSE 0

(* An event is traceable for ever: its outbox row is still pending, or the *)
(* group has not passed it, or it is settled, or handleOne once gave it    *)
(* back without a conclusion (relay, consumer and dead letter together).   *)
NoEventVanishes ==
  \A e \in Events :
    outbox[e] = "published" =>
      \/ Settled(e)
      \/ \E i \in 1..Len(log) : log[i] = e /\ (i > committed \/ i \in abandoned)

(* Consumer.Run, kafkax.go:181: a message that handleOne gave back "comes  *)
(* back"; so the committed offset never passes an event that is not settled. *)
UncommittedComesBack == \A i \in 1..Len(log) : i <= committed => Settled(log[i])

(* A row leaves failed_events only once its event was applied, so giving   *)
(* up on an event leaves evidence until somebody made good for it          *)
(* (deadletter.Store.Replay).                                              *)
RowsLeaveWhenApplied ==
  [][\A e \in parked : e \notin parked' => e \in claimed]_vars

(* The detailed pipeline implements the abstract promise.                  *)
Outcome(e) ==
  CASE e \in claimed -> "applied"
    [] e \notin claimed /\ e \in parked -> "aside"
    [] e \notin claimed \union parked /\ outbox[e] # "absent" -> "due"
    [] OTHER -> "none"

Promise == INSTANCE ExactlyOnce
  WITH Events <- Events \ Foreign,
       outcome <- [e \in Events \ Foreign |-> Outcome(e)]

ImplementsPromise == Promise!Spec

(* With a database that answers the probe and takes the parked row, every  *)
(* event that was committed to the outbox is applied or set aside.         *)
EveryEventSettles == Promise!Settles

-----------------------------------------------------------------------------
(* The inductive invariant behind AppliedOnce, NoEventVanishes and         *)
(* ImplementsPromise.                                                      *)

Busy(c) == pc[c] # "idle"

Offsets == 1..Len(log)

(* Offset i will not be missed if the group starts behind it.              *)
Accounted(i) == Settled(log[i]) \/ i \in abandoned

(* Positions lie inside the partition.                                     *)
InRange ==
  /\ committed <= Len(log)
  /\ \A c \in Consumers : Busy(c) => cur[c] \in Offsets
  /\ \A c \in Consumers : owner = c => pos[c] <= Len(log) + 1

(* Nothing is sent, claimed or parked that no business transaction wrote.  *)
OnlyEmitted ==
  /\ \A i \in Offsets : outbox[log[i]] # "absent"
  /\ \A r \in Relays : \A e \in batch[r] : outbox[e] # "absent"
  /\ \A e \in claimed \union parked : outbox[e] # "absent"

(* A row is marked published only after it was sent.                       *)
SentBeforeMarked ==
  /\ \A e \in Events : outbox[e] = "published" => InLog(e)
  /\ \A r \in Relays : \A e \in Events :
       relayPc[r] = "marking" /\ UpNext(e, r) => InLog(e)

(* A member about to commit has concluded its message.                     *)
ConcludedBeforeCommit ==
  \A c \in Consumers : pc[c] = "commit" => Settled(log[cur[c]])

(* Offsets behind the group, behind the owner's reader and behind a        *)
(* message in hand are accounted for.                                      *)
BehindAccounted ==
  /\ \A i \in Offsets : i <= committed => Accounted(i)
  /\ \A c \in Consumers : Busy(c) => \A i \in Offsets : i < cur[c] => Accounted(i)
  /\ \A c \in Consumers : owner = c =>
       \A i \in Offsets : i < pos[c] => Accounted(i) \/ (Busy(c) /\ i = cur[c])

(* A replay clears a row only after its handler committed.                 *)
ReplayedBeforeCleared ==
  \A o \in Operators :
    /\ replayPc[o] # "idle" => replaying[o] \in Events /\ outbox[replaying[o]] # "absent"
    /\ replayPc[o] = "clear" => replaying[o] \in claimed

IInv ==
  /\ TypeOK
  /\ InRange
  /\ OnlyEmitted
  /\ SentBeforeMarked
  /\ ConcludedBeforeCommit
  /\ BehindAccounted
  /\ ReplayedBeforeCleared
  /\ AppliedOnce
=============================================================================
