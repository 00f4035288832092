# TLA+ models of the ERP back end

The repository is the back end and front end of a foreign-trade ERP: ten Go
services around one PostgreSQL database per service, talking gRPC for commands
and Kafka for events. This directory holds TLA+ models of the parts whose
correctness depends on order, concurrency and failure, the TLC configurations
that check them on small instances, and TLAPS proofs of what matters most.

    tlc -workers 2 -config EventDelivery_safety.cfg MCEventDelivery     (a run)
    tlapm EventDelivery_proofs.tla                                      (proofs)

`PROJECT.json` lists the runs, the source lines of every definition, a mutation
of the code each property catches, the hazards and the theorems.

## 1. Inventory

How the parts interact: the gateway translates HTTP into gRPC. A service changes
its own database in a transaction and writes an *outbox* row in it; a relay
publishes the rows to Kafka, one topic per producing context; consumers of other
services apply them, each with a claim in its own transaction. Commands that
need an answer at once (submit for approval, withdraw an approval) are
synchronous gRPC calls, made in places while a local transaction is open. Redis
holds the gateway's idempotency keys, throttles and the live feed.

| Component | State | Operations | Hard behaviour | What makes it correct |
|---|---|---|---|---|
| Event delivery (`pkg/outbox`, `pkg/kafkax`, `pkg/idempotency`, `pkg/deadletter`) | outbox rows, the partition and its committed offset, readers' positions, `processed_events`, `failed_events` | append, relay pass, fetch, claim and apply, retry, park, commit, replay | crash or lost answer between any two calls, two relays, rebalance with a handler in flight, replay against redelivery | an event is applied at most once, never lost, eventually applied or set aside |
| Approval engine (`services/approval`) | instances, tasks, outbox | Submit, Act, Withdraw | reads before the transaction, concurrent deciders, retried submits, nobody to ask | one open step, consent of the assignees, one outcome, announced once |
| Approval definitions | definitions, nodes | SaveDefinition, DeleteBand, seeding | version number read outside the transaction, seeding at READ COMMITTED | one active version per band, base band stays, a version's steps stay as saved (but for seeding, section 4) |
| Export contract (`services/export`) | contract, versions, workflow actions | submit, apply decision, withdraw, sign, cancel, void, delete, edit, change, terminate, pause, resume, complete (also supplement) | remote call inside a local transaction, late and overtaking decisions, unlocked reads | contract and version agree, nothing signed without an approval of its key or linked instance, a termination is asked once and answered |
| Inventory (`services/inventory`) | stocks, reservations, outbound picks | receive, allocate for a contract version, release a superseded one, create/confirm/cancel outbound, freeze | events of versions out of order, many row locks, lost wake-ups between receipt and reservation | books balance, goods are conserved, no line draws on goods held for another |
| Export receipts and receivables (`services/export`) | receipt entries, closures, due dates, reminders; the bank line's claim in procurement | record, refund, reverse, close, reopen, rewrite a due date, clear and sweep reminders | unlocked reads before inserts, a report to another service after the lock, a worker that was down, a sweep's snapshot against a changed date, clearings under a date that stays | undoing leaves nothing behind, a bank line is never shown freer than it is, no reminder round is skipped |
| Export shipments | shipment lines | plan, ship | quantities against contract lines | shipped at most what was sold |
| Procurement (`services/procurement`) | orders, plans, sourcing rows, supplier invoices, reconciliations, payments, travel claims | order life cycle, source, invoice, reconcile, pay | approval round trip, late events of older contract versions | ordered at most what is needed; paid at most what was reconciled |
| Shipping | shipping orders, routes, documents | book, choose route, issue | two users choosing routes | one chosen route per order |
| Outgoing mail (`services/mail`) | message rows, workers' batches in memory, drafts of called-back sends | compose, claim, send, record, sweep stuck rows, defer, requeue, abandon, release, call back | crash or lost answer between the mail server and the row, writes by id alone, a call-back against a claim | nothing goes out twice unasked, what is called back stays home and can be edited, every mail settles |
| Mail ingestion, spreadsheets | folders, flags, excel jobs | ingest, sync flags, claim a job | IMAP UID validity, job leases | flags converge |
| Gateway keys (`services/gateway`) | idempotency placeholders and answers in Redis, throttle counters, revocations | begin/finish a keyed request, count a failure | placeholder expires under a slow handler, client disconnects before the answer is stored | one execution per key, and one more at most per fault |
| Access answers (`pkg/grpcx`, gateway) | remembered answers, epochs | look up, store, forget | an answer under way when permissions change | nobody is contradicted by an answer older than his own change |
| Identity (`services/iam`) | users, invitations, reset codes, token epochs | invite, accept, reset, revoke | two accepts of one invitation | codes are single-use |
| Exchange rates, master data | rates, numbered rows | fetch, publish, allocate a number | gaps in days, two allocators | the effective rate is the newest before the day; numbers are unique |

Behaviours shared by all services: every transaction runs at READ COMMITTED
(no service asks for more), so what was read before a lock may be old when it is
used; a `SELECT ... FOR UPDATE` on the aggregate's row is the usual serialisation
point; each gRPC answer may be lost after its effect is committed.

`PROJECT.json` lists the hazards of this code line by line; those without a
property yet name the planned module.

## 2. Modules

| Module | Models | Uses |
|---|---|---|
| `ExactlyOnce` | what delivery promises: an event is due once, then applied or set aside, a set-aside event may still be applied | |
| `EventDelivery` | outbox, relay, partition, consumer group, dead letters and their replay | implements `ExactlyOnce` |
| `EventDelivery_proofs` | theorems about `EventDelivery` for all constants | |
| `ApprovalDesk` | what a submitting service relies on: one running instance per document, one answer per key, one final verdict, announced with it | |
| `ApprovalEngine` | Submit, Act, Withdraw with flows, steps, tasks and concurrent deciders | implements `ApprovalDesk` |
| `ApprovalDefinitions` | the flow versions `ApprovalEngine` takes as given | |
| `Approval_proofs` | theorems about `ApprovalEngine` and `ApprovalDefinitions` for all constants | |
| `ContractApproval` | one export contract against `ApprovalDesk`, from draft to completion or termination | instantiates `ApprovalDesk` |
| `ContractApproval_proofs` | theorems about `ContractApproval` for all constants | |
| `InventoryReservation` | reservations per contract version, picking lists, receipts and frozen goods as concurrent transactions | extends `Sums` |
| `InventoryReservation_proofs` | theorems about `InventoryReservation` for all constants | `Sums_proofs` |
| `OutgoingMail` | the delivery queue, its workers, requeue and call-back | |
| `OutgoingMail_proofs` | theorems about `OutgoingMail` for all constants | |
| `RequestIdempotency` | requests of one idempotency key, the Redis entry, the handler | |
| `AccessAnswers` | the cache of iam's answers, calls and permission changes under way | |
| `Gateway_proofs` | theorems about `RequestIdempotency` and `AccessAnswers` for all constants | |
| `ReceiptLedger` | receipts, refunds, reversals and the bank line of one contract | extends `Sums` |
| `ReceivableReminders` | days, due dates, the reminder sweep and the inbox | extends `ReceiptLedger` |
| `ReceivableReminders_proofs` | theorems about `ReceivableReminders` and the ledger in it for all constants | `Sums_proofs` |
| `Sums` | the sum of a function over a finite set | |
| `Sums_proofs` | the laws of sums, by induction over finite sets | |
| `MC...` | constants and symmetry for TLC | |

`ContractApproval` talks to `ApprovalDesk` and not to `ApprovalEngine`: since the
engine is shown (by TLC and by proof) to implement the desk, nothing is lost, and
the composition stays small enough to explore with concurrent requests.

### EventDelivery

One partition of one topic and one consumer group on it. `outbox[e]` is the row's
`published_at` (`absent`, `pending`, `published`); `relayPc`/`batch` are the place
and the remaining rows of `publishBatch`; `log`, `committed`, `owner` are the
broker; `pos`, `pc`, `cur`, `tries` are `Consumer.Run` and `handleOne`; `claimed`
is `processed_events`; `applied` counts committed handler transactions; `parked`
is `failed_events`; `replayPc`/`replaying` are `Store.Replay`. `abandoned` and
`faults` are bookkeeping of the model: offsets `handleOne` gave back without a
conclusion, and failures so far.

Every statement and every broker call is an action, so that crashes fall between
them: `Select`, `CloseRows` (the query ran outside a transaction, so the row locks
of `FOR UPDATE SKIP LOCKED` end here), `Publish`, `PublishFails` (the broker may
have kept the message), `MarkPublished`, `MarkFails`, `RelayCrash`; `Assign` (a
rebalance; the former owner may still be in a handler), `Fetch` (moves the
reader, not the group's offset), `Probe`, `Handle`, `Skip`, `HandleFails`,
`CommitAnswerLost`, `Park`, `CommitOffset` (the group's offset becomes this
message's, whatever it was), `ConsumerCrash`; `LoadParked`, `ReplayHandle`,
`ClearParked`, `ReplayFails`.

Two modelling decisions. (a) Events are numbered in the order of `created_at`,
their rows may be committed in any order: a long transaction commits an early
row late. (b) The broker hands one partition to one member
and refuses or accepts a late commit of a former owner: both are explored.
`kafka-go`, the broker and the coordinator are external and modelled from how
`kafkax.go` uses them.

### ApprovalEngine

`status`, `doc`, `key`, `flow`, `current`, `task`, `events` are the columns of
`approval_instances`, `approval_tasks` and the outbox rows of an instance;
`loaded[r]` is what an `Act` request read before its transaction (task, rights,
next staffed step). `Load` is everything up to `BeginTx`; `TurnDown`,
`AwaitColleagues`, `Approve`, `PassOn` are the branches of the transaction;
`Abort` is every refusal or error. `Submit` is one step: what it reads first is a
flow version, taken as immutable (`ApprovalDefinitions` shows the one exception, section
4), and the directory's answer, arbitrary here: a step of a
flow carries the *set* of staffs the directory may answer, so staffing may change
between the submit and the decision. `Withdraw` is one transaction.
`FirstAsked` holds the special rules of contracts (superior, then a boss, or the
submitter if he may confirm himself) and purchase orders (buyers or
administrators when nobody is above).

### ApprovalDefinitions

`flowStatus`, `nodes` are `approval_definitions` and `approval_nodes` of one tenant
and business type.
`ReadVersion` and `Save` are the two parts of `SaveDefinition` around the start of
its transaction; `CountNone`, `SeedBand` (per band), `SeedCommit`, `SeedRollback`
are the seeding transaction, whose statements see what others commit in between;
`DeleteBand` retires a band; that the base band stays is modelled by the number, as
the statement has it (`min_amount > 0`): the check of the text before it
(`floor == "0"`) only catches an empty field, a typed zero has become `0.00` by then.

### ContractApproval

`contract` and `version` are the rows of one contract; `holder` is the request
that holds its row lock; `request[q]` is what a request has read or been answered
so far; `usedKeys` and `withdrawn` are the traces that later checks look at;
`verdict`, `doc`, `key`, `announced` are the approval service (`ApprovalDesk`);
`shown` remembers for which terms an instance was opened and `handled` is export's
`processed_events`. `SubmitContract` is six steps, with the remote call
(`SubmitServed`) under the row lock; `withdrawContract` three; `SignContract` and
`CancelContract` two each (an unlocked read, then the write).
`requestTermination` is four: `TerminateMark` writes the attempt (`termination`: the
row of `contract_workflows` with its key and what it interrupted) in a transaction of
its own, `TerminateLock` finds it again or finds it answered, `TerminateServed` asks
the approval service and `TerminateCommit` links the instance. Its decision goes to
`ApplyTermination`, told apart from the contract's own by the prefix of the key, which
is what `TerminationKeys` and `Keys` stand for. `Pause`, `Resume`, `Complete`, `Void`,
`Delete`, `Edit` and `Change` are one transaction each. `Fail(q)` ends a
request at any place: a refused check, a crash, a lost answer; whatever the
approval service did stays. Decisions are delivered in any order and as late as
one likes: what `EventDelivery` shows about it, exactly-once application, is used
here, and ordering is not.

### InventoryReservation

`stock[i]` is the `stocks` row of an item, `line[l]` the `stock_reservations` row
of a contract line, `outbound[o]` a picking list with what it picks of every
line, `claimed` the service's `processed_events`. `back` is bookkeeping of the
model: what a released reservation handed back, which the code does not record
(`reserved_qty` stays as it was).

Every operation is one transaction. Its statements are executed in one step on
the committed rows, and the rows it has locked or written are kept in `tx[w]`,
as the transaction has left them, until `Commit` writes them or `Rollback` drops
them. In between other workers neither see those rows nor can have them: an
operation is possible when every row it needs is free, which is what waiting for
a lock comes to. That is READ COMMITTED for transactions like these, which take
the rows their decisions depend on with `FOR UPDATE`; what is kept of the
interleaving is the part no lock covers, a row that does not exist yet or does
not qualify yet (`Candidates`, `Waiting`, `Superseded`).

`AllocateContract` is the whole handler: the reservations of the new version's
lines, `releaseSuperseded`, and `fillWaiting` with what was handed back. `Receive`
books a delivery (`ReceivePurchase`, and `ReceiveStock` for goods received by
hand, each once) and fills the waiting lines; `CreateOutbound`, `ConfirmOutbound`,
`CancelOutbound` and `Freeze`/`Unfreeze` are the requests of people. `Taken` is
`takeStock` in a loop: lines are numbered by due date, each takes what the earlier
ones left. The CHECK that a stock row's reserved counter is not negative is checked
after every statement, so it is a guard of `AllocateContract`, the one handler that takes
from the counter and adds to it again in the same transaction. The other operations need
no such guard: `TypeOK` says, and the theorem shows, that they never leave the counter
below zero.

Left out: a second warehouse (one stock row per item, so that where a
reservation's goods lie does not matter), costs, and the announcements. Line ids
are new in every version (export inserts the items of a changed version anew), so
a line is allocated once and the refresh of its snapshot is not modelled.

### OutgoingMail

`mail[m]` is the `email_messages` row (`hold` stands for `scheduled_at`: none, in
the future, come); `worker[w]` is what `drainOnce` holds in memory: the rows of its
batch with the `attempt_count` they were claimed with, and the call it is in;
`callback[r]` is a `CancelScheduled` request and the draft it wrote. `handed`,
`dialled` and `requeued` are bookkeeping: how often the mail server took a mail,
was offered it, and a person put it back.

`Claim` and `ReviveStuck` are the two statements at the start of a pass; `Defer`,
`Unreadable` and `Call` are the ways `deliver` begins with a mail, `Record` what it
writes for the server's answer, by id alone, whatever has become of the row.
`RecordFails` covers every write that is only logged when it fails; `Crash` leaves
the rows as they are. The sweep of stuck rows may take any row in SENDING: its
window counts from `queued_at`, so a mail that waited long (a scheduled one, for
instance) is stuck by that measure as soon as it is claimed. `RestoreDraft`,
`StopQueued`, `DropDraft` are the three steps of a call-back, each of which may be
the last (`CallbackFails`). The clock, the quota and the mail server decide by
choice.

### RequestIdempotency

`entry` is the Redis value under one key, `pc[r]` the place of a request in the
middleware. Every Redis command is a step. `effects` counts how often the
operation was carried out; `faults` counts what went wrong, of five kinds:
Redis does not answer, the placeholder expires under a handler, a successful
answer is not kept, an operation took effect and answered with an error, the
stored answer expires before the last retry. `Finish` overwrites or deletes the
key whoever's it is by then, as the code does.

### AccessAnswers

`entries`, `epochs`, `global` are the fields of `AnswerCache`; `call[c]` an
intercepted call between its miss and its store, with the ticket it took;
`change[w]` a write the gateway relays, between iam's commit and the forget.
`truth[t]` counts the committed changes of a company's permissions, and an answer
is the count it takes into account: what it says beyond that no property tells
apart. `seen[t]` is the latest change whose writer was answered.

### ReceiptLedger and ReceivableReminders

`entries` is `receipt_allocations` of one contract, `closed` a live closure,
`settled` a live settlement of the bank line, `claimed` the line's
`claimed_amount` in procurement's database. A request reads (`CheckReceipt`,
`CheckRefund`, `CheckReversal`) and then writes (`Record`, `Reverse`) as two
statements without a lock, as the code does; reversing an entry of a bank line
(`ReverseOld`) is one transaction under the line's advisory lock, and the report
to procurement comes after it (`ReportClaim`, `ReportFails`). The routes that
allocate and settle bank lines are gone from the gateway, so older entries are part
of the initial state, with line and ledger in agreement.

`ReceivableReminders` adds `day`, the due date, the salesperson's inbox keyed like
the table's unique key, and the sweep as a snapshot (`SweepRead`) and an insert
that leaves existing keys alone (`SweepWrite`). The due date of a contract in force is
rewritten in three ways, and `edit[x]` is such a call. `SetContractReceivableDue` reads
the old date without a lock (`ReadDue`), gives up if it is the new one, and else writes
and clears what nobody has read (`WriteDue`), by which time the date may already be the
new one. `UpdateManualReceivable` (`CorrectReceivable`), for a contract that was entered
as a running one (`TakenOver`), is one transaction under the row lock and clears unread
reminders whatever it corrects, the date or only a name. `UpdateContract` (which ends in
`supplementContract`, or in `correctExistingContract` for one taken over) writes the date
and clears nothing. `Wipe` is the clearing; `MarkRead` is the salesperson, who reads some
or all. Two variables are bookkeeping: `since`, the day since when this due date has
called for reminders without interruption, and `wiped`, the day of the last clearing that
found something unread. `NextDay` says how long the worker may be down: `MaxOutage` days.
The contract is in force all along and belongs to one salesperson.

## 3. What the runs check

| Run | Instance | Shows |
|---|---|---|
| `event_delivery_safety` | 2 events, 1 relay (batch 2), 2 consumers, 1 operator, 2 attempts, 2 faults, probe and park may fail | `AppliedOnce`, `NoEventVanishes`, `RowsLeaveWhenApplied`, refinement `ImplementsPromise` |
| `event_delivery_live` | 2 events (one of a skipped type), 2 relays (batch 1), 2 consumers, 1 fault, reliable probe and park | `UncommittedComesBack`, and under fairness `EveryEventSettles` |
| `event_delivery_lost` | the same with an unreliable probe and park | **violated**: `UncommittedComesBack` |
| `approval_engine` | a contract, an order and a travel claim, 3 people, flows of 2 steps in both modes, 2 instances, 2 concurrent decisions | `OneOpenStep`, `Consent`, `EventsMatchOutcome`, `NobodyApprovesItself`, `FinishedForGood`, refinement `ImplementsDesk` |
| `approval_definitions` | 2 bands, 2 versions, 2 administrators, 2 seeders | `OneActivePerBand`, `BaseBandStays`, `RetiredStaysRetired` |
| `contract_approval` | 3 instances, 2 keys, 2 termination keys, 2 versions, 2 submitters, one request of each other kind | `VersionFollowsContract`, `ApprovedOnItsAttempt`, `TerminationGetsItsAnswer`, `DeletedWasNeverSubmitted`, `CancelledIsFinal` |
| `inventory_reservation` | 2 items, 4 lines of 3 versions of 2 contracts, 3 deliveries, 2 picking lists, 2 concurrent transactions, 1 unit frozen at a time | `BooksBalance`, `GoodsConserved`, `NeverOversold`, `ReleasedOnlySuperseded` |
| `inventory_backed` | the same | **violated**: `LinesAreBacked` |
| `outgoing_mail` | 1 mail of either kind, merged or not, 2 workers, 2 call-backs, 2 tries, 1 requeue, 3 claims in a row | `NoSilentDuplicate`, `CalledBackStaysHome`, `CalledBackIsADraft`, `GivesUpAfterTries`, and under fairness `EveryMailSettles` |
| `request_idempotency` | 5 requests, 3 faults of 5 kinds | `OneMorePerFault` |
| `access_answers` | 2 companies, 3 questions, 3 calls, 2 changes, room for 2 answers | `AnsweredChangesShow`, `WithinLimit` |
| `receivable_reminders` | 2 entries with fees on a bank line, 1 typed in, 2 requests and 2 edits of the due date of which 2 happen, days 0 to 5, due on day 2 or unset, overdue rounds of 2 days, outages of 1 day | `ReceivedIsWhatStands`, `ClaimCoversLine`, `NoRoundMissed` |

Why the bounds are enough. *Delivery*: two events are the fewest that can overtake
or be passed over; two consumers the fewest for a rebalance with a handler in
flight; two faults allow a failure and one more during its repair (a lost commit
answer, then a crash before the offset commit); the theorems of section 5 lift all
bounds for safety. *Engine*: two steps are the fewest with a "next step", two
requests the fewest that race, two instances the fewest for "the old one or a new
one"; again the theorems lift the bounds. *Definitions*: two administrators read
the same next version, two seeders meet on one band. *Contract*: an attempt that
was left behind, one decided late and the current one make three instances; two keys
of either kind are the fewest for "this attempt's or another's"; two versions give a
change of a contract in force; edits are bounded by `MaxEdits` = 1, enough for "the
terms are not those that were read". With two signers the run takes four minutes and
passes as well; the theorems hold for any number.
*Inventory*: contract A is changed once and competes with contract B for an item
of which the deliveries bring less than all lines want, so that lines are short, are
filled partly and are superseded while waiting, picked or shipped; the second item
makes contract B span two stock rows; two picking lists can be open on one line;
two transactions are the fewest that miss each other's rows.
*Mail*: rows do not influence one another except through a worker's batch, whose
order is arbitrary, so one mail shows what can become of it; two workers are the
fewest for a write that comes late, two call-backs the fewest that race for one
send; two tries and three claims let the last try be used up, refunded and used
again. *Keys*: a fault lets one more request in, so three faults keep four requests
busy and the fifth is the one too many. *Answers*: one question of the changed
company in the cache, one under way and one of another company; two changes let an
answer fall between them. *Receivables*: two calls
race, whichever they are, so `MCReceivableReminders` lets two of the requests and edits
begin (`MaxCalls`): two requests whose reads or reports overtake each other, or two edits,
which change the date and change it back, or read the same old date and clear twice under
the new one, or one of each; a clearing under a date that stays needs one. Days 0 to 5
with a date on day 2 see the round near the date and one overdue begin and end, with
outages on any boundary, and the next overdue one begin. Requests type in 3 of the 5 received, so that two
refunds are too many. The theorems hold for any number of calls, days and dates.
`MaxFaults`, `MaxVersion(s)`, `MaxEdits`, `BatchSize` (100 in the code), `Attempts`
(5 in the code), `MaxAttempts`, `MaxRequeues`, `MaxEntries` (20 000 in the code),
`LastDay`, `MaxCalls` and the finite sets are all the bounds there are. Every
configuration turns deadlock checking off because every instance has finitely
many events, instances, versions or deliveries: when they are used up the system may stop.

Symmetry is used for consumers, operators, requests, edits, keys, workers, picking lists
and people of equal role only, and in no run with a liveness property.

### Fairness

`FairSpec` of `EventDelivery` assumes weak fairness of each relay's normal steps
(`Relay.Run` ticks for ever), of each consumer's normal steps (`Consumer.Run`
loops for ever) and of assigning a free partition (the coordinator's job).
No business transaction, no operator and no fault is owed. Weak fairness is
enough because a consumer that owns the partition and has a message stays enabled
until it acts or is killed, and kills are faults, of which a behaviour has
finitely many.

`FairSpec` of `OutgoingMail` assumes that scheduled times come, that a worker that
has an answer writes it or fails to, and, strongly, that a mail that is due again
and again is claimed, called when it is in a batch again and again, and swept when
it is in SENDING again and again. `RunWorker` starts a pass at every tick and takes
the oldest rows first, so a due mail is not passed over for ever; strong fairness is
needed because the quota may defer a mail, and a crash may drop it, any number of
times in between. It does not say that a write succeeds: then `ReviveStuck` settles
the mail. Mail of kind TRANSACTIONAL is retried without end when no answer comes, so
the property is about marketing mail.

## 4. What disagrees with its own comments

| Run | Code | Says | Does |
|---|---|---|---|
| `event_delivery_lost` | `src/pkg/kafkax/kafkax.go:181` | "Left uncommitted on purpose: the same message comes back." | the reader has moved on; the next commit covers the message, and it never comes back until the process restarts before that commit |
| `inventory_backed` | `src/services/inventory/internal/app/outbound.go:55` | a line may only draw on what stock is actually holding for it | the status of the reservation is not looked at: a released line draws on goods reserved for others |

Eleven more are stated in the modules, under "What comments say and the code does not
keep", without a run of their own. Put the name in the place of the configuration's
invariants, or of its properties (for `InForceIsNewest` also a second signer, `Signers = {g1, g2}`; for `UnchangedDateKeepsReminders`, an action property, without the line SYMMETRY) and TLC shows how it fails:

| Property, configuration | Code | Says | Does |
|---|---|---|---|
| `WaitsForSomebody`, `ContractApproval.cfg` | `services/export/internal/app/contract_lifecycle.go:25` | the pair converges either way | a contract can stay pending on an instance that is already decided |
| `CancelledWasNeverInForce`, `ContractApproval.cfg` | `contract_lifecycle.go:339` | a contract that was in force is not cancelled | the unlocked check and the unconditional write allow it |
| `TerminationIsDecidable`, `ContractApproval.cfg` | `contract_workflow.go:322` | a retry and the callback still refer to this attempt | an earlier submission whose answer was lost may still be running: the approval service answers the termination with that instance, whose decision ends nothing |
| `NobodyElseIsAsked`, `ContractApproval.cfg` | `contract_lifecycle.go:41` | persist the attempt before the remote call; all network retries reuse it | a submission that found a key, and reads it after a decision has cleared it, goes out without one; the contract waits for that instance while an approval of the key written meanwhile is applied to it |
| `InForceIsNewest`, `ContractApproval.cfg` | `contract.go:406` | the old version keeps running until the new one is approved and signed | a signature that read the old version before the change puts it in force again and retires the approved new one |
| `SignedAsShown`, `ContractApproval.cfg` | `docs/ARCHITECTURE.md:4612` | key fields cannot change once in approval | an edit between read and lock changes them under the approvers' summary |
| `NothingSitsIdle`, `InventoryReservation.cfg` | `services/inventory/internal/app/service.go:240` | stock arriving late is claimed too | a receipt and an allocation miss each other's rows and both commit |
| `VersionsStayAsSaved`, `ApprovalDefinitions.cfg` | `services/approval/internal/app/definition.go:53` | a new version leaves running instances alone | a seeding that counted no flows before the first version of a band was saved finds that version in place of its own and adds the default steps it lacks |
| `RefundsWereReceived`, `ReceivableReminders.cfg` | `services/export/internal/app/receivable.go:304` | no refund of money that was never received | two refunds at the same time, each compared with a sum read without a lock |
| `UnchangedDateKeepsReminders`, `ReceivableReminders.cfg` | `services/export/internal/app/receivable_due.go:51` | if nothing has changed do nothing, clearing a round of reminders would be for nothing | the old date is read without a lock, so the second of two equal calls clears again; `UpdateManualReceivable` (`receivable.go:173`) clears when only a name is corrected. The sweep does not write a key again, so that round keeps a cleared reminder |
| `UnreadIsOfThisDate`, `ReceivableReminders.cfg` | `services/export/internal/app/receivable_due.go:67` | what nobody has read is cleared, and the next round decides by the new date | `UpdateContract` clears nothing, and a sweep that read the old date writes after the clearing |

A contract for which `WaitsForSomebody` fails cannot be helped by a withdrawal (its
instance is not running): only an operator can repair the row.

## 5. What is proved

`EventDelivery_proofs`, for arbitrary sets of events, relays, consumers and
operators, any batch size, number of attempts and number of faults, from
`EventAssumption`, `BoundAssumption` and `NoOneAssumption`:
`TypeCorrect`, `AppliedAtMostOnce`, `NothingVanishes`, `EvidenceIsKept` and
`Refinement` (`Spec => ImplementsPromise`).

The properties are not inductive alone. "Nothing vanishes" says that a published
row is in the log ahead of the group, settled or given back; a commit moves the
group's offset to whatever message a consumer holds, possibly backwards, possibly
over messages it never saw. The invariant `IInv` therefore records, for each of
the places from which the offset can move, that what lies behind it is accounted
for (`BehindAccounted`: behind the committed offset, behind each busy consumer's
message, behind the owner's reader except the message in its hand), that a
consumer at its commit has concluded its message (`ConcludedBeforeCommit`), that a
row is marked only after it was sent (`SentBeforeMarked`), and that a replay
clears only what is claimed (`ReplayedBeforeCleared`). Each action has a lemma;
`Invariance` combines them.

`UncommittedComesBack`, which the run `event_delivery_lost` refutes, is a theorem as well
once the cause is taken away: `ReliableStoreLosesNothing` assumes that the dedupe probe
and the dead-letter insert do not fail (`Unreliable = {}`, as in `event_delivery_live`),
leaves every other failure in, and proves it. So those two statements of `handleOne` are
the only way past the comment's promise.

`Approval_proofs`, about the engine, for arbitrary documents, people, flows, keys, instances
and concurrent requests, from `PeopleAssumption`, `FlowAssumption` and
`NilAssumption`: `TypeCorrect`, `OnePendingStep`, `ConsentGiven`,
`OutcomeAnnounced`, `SomebodyApproves`, `FinishedStays` and `Refinement`
(`Spec => ImplementsDesk`). Here the strengthening is about what requests carry:
`LoadedAhead` says that a stale request's next step still lies ahead of its task
and is staffed, `NoDissent` that nobody has disagreed at an open step, `Opened`
that an instance that does not exist left no trace. With `OneOpenStep`, a request
whose task is still pending under the lock must be about the one open step, so its
stale `next` is ahead of everything that was ever assigned; that is why reading it
before the lock is safe.

`Approval_proofs`, about the flow definitions, for any bands, default flows, administrators
and seeders, from `BandAssumption` and `NodesAssumption`: `DefinitionsTypeInvariant`, `OneFlowInForce`,
`BaseBandHolds`, `RetirementIsFinal` and `OnlySeedingChangesVersions`, which bounds what
`VersionsStayAsSaved` fails by: no step is lost, and only a seeding's commit adds one, to a
first version. `Numbering` says why a seeder that counted
before somebody saved does no harm: versions have no gaps, so a band with any version
has its first, and that is the row the seeder would insert; two open seedings never
hold the same row, and what one holds is not there yet.

`ContractApproval_proofs`, for any calls, instances, keys and versions, from the four
named assumptions of the module: `TypeInvariant`, `VersionAndContractAgree`,
`CancelledStays`, `ApprovalIsOfTheAttempt`, `TerminationIsAnswered`,
`DeletedLeftNoTrace` and `DeskIsFollowed` (`Spec => Desk!Spec`: the contract's side uses
the approval service as `ApprovalDesk` says, and `Approval_proofs` shows that the engine
offers no less). What a request read is worth nothing until it holds the lock, so
the invariant says what the lock preserves (`Locking`: a submission under it finds a
draft, a withdrawal the waiting contract and its instance, a termination its own
unlinked attempt) and what stale reads cannot break: the version a signature carries
was frozen when it was read and stays so (`Versioned`, `VersionsRead`); keys are new
and open one instance each (`Keyed`, `Answers`), so a decision that bears the
contract's key is about the attempt of that key (not that the contract waits for no other:
`NobodyElseIsAsked`); a link is to an instance opened to approve
(`Linked`), a termination's link to the only one with its key (`TerminationLinked`);
and before a submission can reach the approval service it has left a key or a link
behind (`Traced`), which is what `Delete` looks at.

`OutgoingMail_proofs`, for any mails, campaigns, workers, call-backs, tries, claims and
batch size, from `MailAssumption`: `TypeInvariant`, `NoMailGoesOutTwice`,
`CalledBackIsFinal`, `CalledBackCanBeEdited` and `GivesUpOnlyAfterTries`. A row's status
alone does not tell whether a mail may still go out: a row in SEND_UNKNOWN may be in a
slow worker's hand. `Budgeted` therefore adds up, for a marketing mail, what went out, the
workers that may still bring it to the server or back into the queue, and the row itself
while it is queued: never more than one, plus one per requeue. Until somebody requeues it
a mail is in one place (`InOnePlace`), which is what makes a call-back that found it
queued final. A draft that stopped something is in the hands of a request that is "done",
and such a request never deletes it (`DraftsHold`).

That a row gives up for its tries only after the tries were made needs a count of its own,
`Counted`. A row's `attempt_count` may be ahead of what the mail server was offered by
the claim that has not been dialled yet, never by more (`Slack`); and a call that is
still under way was offered but may be recorded as that attempt long after, when the row
was revived, requeued, claimed and deferred by others, so that it must be set aside:
attempts and open calls together stay within offers and slack. A claim in a batch is for
at most one try more than were offered. The count says nothing of a mail that was offered
its full number of tries, for which there is nothing left to show.

`Gateway_proofs`, about the idempotency keys, for any finite set of requests, any faults and any number
of them: `AtMostOneMorePerFault`. The invariant `Budget` counts the requests that may
still act and the opening a free key, or a placeholder without a holder, leaves for one
more; only a fault ever adds to the sum.

`Gateway_proofs`, about the remembered answers, for any companies, questions, calls, changes and limit:
`AnsweredChangesAlwaysShow` and `AlwaysWithinLimit`. An answer under way whose ticket is
still good knows every change that was answered (`Fresh`), because the forget that
precedes the answer to a change makes every older ticket bad.

`ReceivableReminders_proofs`, for any due dates and any lengths of the view, the last
days and the overdue rounds, from `DayAssumption` and `OutageAssumption` (an outage is
shorter than the shortest round): `NoRoundIsMissed`. The heart is `NoLongGap`: in any
`MaxOutage` + 1 days of a spell there is a day whose reminder is in the inbox, and since
every round is longer than that, one of them lies in the round. Sweeps of an earlier
spell are kept apart by `SweepsOfSpell`. A clearing may fall into a spell, for two of the
three edits clear under a date that stays; what was cleared is of a day up to the last
clearing (`ClearedIsOfBefore`), and so of no round that begins after it. Of a round under
way at a clearing the theorem says only that its reminder was written: that it stays
unread is `UnchangedDateKeepsReminders`, which the code does not keep.

The ledger in `ReceivableReminders` is the one of `ReceiptLedger` (`LedgerFollowed`:
`Spec => MoneySpec`), and for any entries, fees and requests, from `MoneyAssumption`,
`IdAssumption` and `FiniteAssumption`: `OnlyStandingMoneyCounts` and `ClaimAlwaysCovers`.
That the sum of all entries is the sum of those nobody has reversed rests on
`MirrorsUndo`: an entry that undoes another has its amount and its fee with the sign
turned, undoes one that is itself no mirror, and no entry has two mirrors, whichever
requests read that it had none (the unique index on the reversed id decides). A mirror
then adds to the sum of all entries exactly what the entry it undoes takes from the sum of
those that stand by leaving them, and never stands itself.
That the bank line's claim is never below what stands against it rests on
`ReportsCover`: what a request is about to report was the line's remainder when it wrote,
and older entries are only ever undone, so that a report that is late is too high and
never too low (`OldIsPaid`).

`InventoryReservation_proofs`, for any items, lines, versions, contracts, deliveries,
picking lists and any number of concurrent transactions, from `LineAssumption`,
`QuantityAssumption` and `FiniteAssumption`: `Invariance`, `TypeInvariant`,
`BooksAlwaysBalance`, `GoodsAlwaysConserved`, `NothingOversold` and
`OnlySupersededReleased`. The invariant has to speak of what is not there yet. A
transaction has read rows that others commit around it, and holds what it will write in
`tx[w]`; `InStep(w)` says that the step from the committed rows to those it sees keeps the
books: per stock row the changes of the counters are the sums of the changes of its
lines (`Balanced`), per line the sums of the changes of the lists (`Listed`), goods come
and go as its claims say (`Conserved`), no quantity leaves its bounds (`SoundBook`), and
what it gives up it gives up for a later version (`GivenUp`). All of these compare two
books, so that they add up along the helpers of one handler (`TopUp`, `Create`,
`HandBack`, `Lock`, `Shipped`: one lemma each) and go with a commit; and because no two
transactions hold the same row or claim the same event (`Apart`), a commit of one leaves
the changes another is about to make the same (`SameChanges`). At `Commit` the changes
and the books add up to the books. `TakenBounds` bounds what `takeStock` takes: for the
lines in the order of their numbers, together never more than what is available.

`BackedUnlessGivenUpIsPicked` says why `LinesAreBacked`, which the run `inventory_backed`
refutes, fails: only when goods of a reservation that was handed back are on a picking list or
have left (`GivenUpForGood`). A second invariant, `HandBacksAccounted`, follows every row
of a line, committed or not: what was handed back is no more than was reserved, a row in
force has handed back nothing, and whatever did either belongs to a version whose event
is claimed, so that no allocation comes upon it again. Every line then holds a quantity
of its stock row that is not negative, and the lines in force all that is ready of them.

`Sums_proofs` has the laws these proofs need of `Total(f, S)`, the sum of `f` over a
finite set `S`: what one more or one changed element makes of it, that it is additive in
`f` and over disjoint sets, and monotone. `Total` is a fold of the community modules,
defined by recursion over the set. The library's induction theorems take an operator as a
parameter, which the provers cannot instantiate; `SetInduction` gets around it by taking
the set of subsets that *have* the property, of which it looks at a minimal counterexample
(`FS_StrictSubsetOrderingWellFounded`, `WFMin`). Statements about all functions `f`
become statements about one `f` and the subsets of one `S`.

Only model-checked: liveness under fairness (`EveryEventSettles`, `EveryMailSettles`), which
is out of the prover's reach. Every other property of a passing run is the statement of a
theorem. The properties of section 4 fail; of three of them theorems say what they fail by.

## 6. What is not modelled, and why

- Delivery: malformed messages (logged, committed and skipped, `kafkax.go:173-178`), the attempt counters
  shown in the console, a consumer without a dead-letter store (every service
  passes one), several partitions (they are independent), payloads.
- Approval: reminders on the live feed, read models, urgency, the text of
  comments. Tenants: every row is of one tenant.
- Contract: supplements (but for the due date, in `ReceivableReminders`), attachments, the hand-over to another salesperson,
  historical drafts, the revision check of the workflow screen, the contents of a
  version. A contract of the model has one amount and one flow.
- Inventory: warehouses, costs, announcements to procurement, the refusals of the
  contract and quality guards, import of initial stock.
- Mail: the suppression list, what the quota counts, per-recipient verdicts of merged
  mail, open tracking, attachments and links, drafts beyond a call-back's.
- Idempotency: requests without a key, answers too large to keep (they count as
  answers that are not a success), a stored answer that cannot be decoded.
- Access answers: what an answer says, calls iam fails, several gateway processes
  (a process knows the changes it relays; others learn of them when entries expire,
  and the property speaks of one process).
- Receivables: allocation, matching and settlement of bank lines (their routes are
  retired), amendments of the contract's total, contracts without a salesperson or
  handed over to another, what else than the due date `UpdateContract` writes.
- Everything listed as `not_modelled` in `PROJECT.json`, with the reason.

## 7. Plan

In this order, each with its runs, mutants and map:

1. `PurchaseOrder` and `SupplierPayment`: the second and third client of
   `ApprovalDesk`; late events of older contract versions.
2. `ShipmentQuantities`, `Invitations`, `Numbering`, `EffectiveRate` (a pure
   algorithm against a reference definition), the mail folders' flag
   synchronisation and the leases of spreadsheet jobs.
3. Rest of the contract: supplements. Rest of the inventory: an older version's
   event that comes late (its own lines stay reserved), goods over two warehouses.
4. Proofs: the abstract specification of a ledger that `InventoryReservation` and
   `ReceiptLedger` both implement; each new module's invariant with it.
