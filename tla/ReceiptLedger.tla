---------------------------- MODULE ReceiptLedger ----------------------------
(***************************************************************************)
(* The money received on one contract (export receivable.go): entries that *)
(* are only ever added, refunds as negative entries, reversals as mirrors  *)
(* of the entry they undo, and the confirmation that the contract is done  *)
(* with. Older entries hang on a line of the bank ledger, which procurement *)
(* keeps: reversing one takes the line's lock and afterwards reports to    *)
(* procurement how much of the line is still allocated (receipt.go).       *)
(*                                                                         *)
(* A request is a reader, then a writer: other requests come in between.   *)
(* New allocations of bank lines have no route any more and are left out,  *)
(* and so are amendments of the contract's total.                          *)
(***************************************************************************)
EXTENDS Integers, FiniteSets, Sums

CONSTANTS
  Old,          \* entries of older days: parts of one bank line
  Typed,        \* earlier entries that hang on no bank line
  PaidOf,       \* PaidOf[e], FeeOf[e]: what the bank paid of such an entry,
  FeeOf,        \*   and the bank fee credited to the contract on top
  Requests,     \* requests of the finance desk; each adds at most one entry
  Amounts,      \* amounts they type in
  Worth,        \* what the contract in force is worth
  NoEntry

ASSUME MoneyAssumption ==
  /\ PaidOf \in [Old \union Typed -> Nat \ {0}] /\ FeeOf \in [Old \union Typed -> Nat]
  /\ Amounts \subseteq Nat \ {0}
  /\ Worth \in Nat

ASSUME FiniteAssumption ==
  IsFiniteSet(Old) /\ IsFiniteSet(Typed) /\ IsFiniteSet(Requests)

ASSUME IdAssumption ==
  /\ Old \cap Typed = {} /\ Requests \cap (Old \union Typed) = {}
  /\ NoEntry \notin Old \union Typed \union Requests

VARIABLES
  entries,      \* receipt_allocations of the contract, by id
  pc,           \* pc[r]: where request r is
  job,          \* job[r]: what it is about to write
  closed,       \* a live row in contract_receivable_closures
  settled,      \* a live variance settlement of the bank line
  claimed       \* claimed_amount of the line, in procurement's books

moneyVars == <<entries, pc, job, closed, settled, claimed>>

Ids == Old \union Typed \union Requests
NoJob == [amount |-> 0, undoes |-> NoEntry]

InitMoney ==
  /\ entries = [e \in Old \union Typed |-> [amount |-> PaidOf[e], fee |-> FeeOf[e], undoes |-> NoEntry]]
  /\ pc = [r \in Requests |-> "new"]
  /\ job = [r \in Requests |-> NoJob]
  /\ closed = FALSE
  /\ settled \in BOOLEAN
  /\ claimed = Total(PaidOf, Old)

(* ContractReceiptProgress: what was received, fees included.              *)
Credit == [e \in DOMAIN entries |-> entries[e].amount + entries[e].fee]
Received == Total(Credit, DOMAIN entries)
Open == Worth - Received

IsOld(e) == e \in Old \/ (e \in DOMAIN entries /\ entries[e].undoes \in Old)

(* What is allocated of the bank line.                                     *)
OfLine ==
  Total([e \in DOMAIN entries |-> entries[e].amount], {e \in DOMAIN entries : IsOld(e)})

Reversed(e) == \E m \in DOMAIN entries : entries[m].undoes = e

Add(id, entry) == entries' = [e \in DOMAIN entries \union {id} |-> IF e = id THEN entry ELSE entries[e]]
Goto(r, place) == pc' = [pc EXCEPT ![r] = place]

Finish(r) ==
  /\ Goto(r, "done")
  /\ job' = [job EXCEPT ![r] = NoJob]

-----------------------------------------------------------------------------
(* RecordContractReceipt                                                   *)

(* What has been received is read, and a refund compared with it ...       *)
CheckReceipt(r, amount) ==
  /\ pc[r] = "new"
  /\ Goto(r, "record")
  /\ job' = [job EXCEPT ![r].amount = amount]
  /\ UNCHANGED <<entries, closed, settled, claimed>>

CheckRefund(r, amount) ==
  /\ pc[r] = "new"
  /\ amount <= Received
  /\ Goto(r, "record")
  /\ job' = [job EXCEPT ![r].amount = -amount]
  /\ UNCHANGED <<entries, closed, settled, claimed>>

(* ... and then the entry added, as a statement of its own.                *)
Record(r) ==
  /\ pc[r] = "record"
  /\ Add(r, [amount |-> job[r].amount, fee |-> 0, undoes |-> NoEntry])
  /\ Finish(r)
  /\ UNCHANGED <<closed, settled, claimed>>

-----------------------------------------------------------------------------
(* ReverseContractReceipt                                                  *)

Mirror(e) == [amount |-> -entries[e].amount, fee |-> -entries[e].fee, undoes |-> e]

(* Reversals are not reversed, and an entry is reversed once.              *)
Reversible(e) == e \in DOMAIN entries /\ entries[e].undoes = NoEntry /\ ~Reversed(e)

CheckReversal(r, e) ==
  /\ pc[r] = "new"
  /\ e \notin Old
  /\ Reversible(e)
  /\ Goto(r, "reverse")
  /\ job' = [job EXCEPT ![r].undoes = e]
  /\ UNCHANGED <<entries, closed, settled, claimed>>

(* Mutant: no unique index on reversal_of.                                 *)
ReverseUnchecked(r) ==
  /\ pc[r] = "reverse"
  /\ Add(r, Mirror(job[r].undoes))
  /\ Finish(r)
  /\ UNCHANGED <<closed, settled, claimed>>

(* The mirror is added, unless somebody else's came first: the unique      *)
(* index on reversal_of refuses a second one.                              *)
Reverse(r) ==
  /\ pc[r] = "reverse"
  /\ IF Reversed(job[r].undoes) THEN UNCHANGED entries ELSE Add(r, Mirror(job[r].undoes))
  /\ Finish(r)
  /\ UNCHANGED <<closed, settled, claimed>>

(* Mutant: what is left is summed up like what a contract received.        *)
ReverseOldWithFee(r, e) ==
  /\ pc[r] = "new"
  /\ e \in Old /\ ~settled
  /\ Reversible(e)
  /\ Add(r, Mirror(e))
  /\ Goto(r, "report")
  /\ job' = [job EXCEPT ![r] = [amount |-> OfLine - entries[e].amount - entries[e].fee, undoes |-> e]]
  /\ UNCHANGED <<closed, settled, claimed>>

(* An old entry goes through ReverseAllocation: one transaction under the  *)
(* line's advisory lock, refused while the line's variance is settled. It  *)
(* sums up what is left of the line ...                                    *)
ReverseOld(r, e) ==
  /\ pc[r] = "new"
  /\ e \in Old /\ ~settled
  /\ Reversible(e)
  /\ Add(r, Mirror(e))
  /\ Goto(r, "report")
  /\ job' = [job EXCEPT ![r] = [amount |-> OfLine - entries[e].amount, undoes |-> e]]
  /\ UNCHANGED <<closed, settled, claimed>>

(* ... and reports the sum once the lock is gone. A report that fails is   *)
(* logged and not made again.                                              *)
ReportClaim(r) ==
  /\ pc[r] = "report"
  /\ claimed' = job[r].amount
  /\ Finish(r)
  /\ UNCHANGED <<entries, closed, settled>>

ReportFails(r) ==
  /\ pc[r] = "report"
  /\ Finish(r)
  /\ UNCHANGED <<entries, closed, settled, claimed>>

-----------------------------------------------------------------------------
(* CloseReceivable and ReopenReceivable: one live closure at a time, and   *)
(* receipts go on whatever is closed.                                      *)
Close ==
  /\ ~closed /\ closed' = TRUE
  /\ UNCHANGED <<entries, pc, job, settled, claimed>>

Reopen ==
  /\ closed /\ closed' = FALSE
  /\ UNCHANGED <<entries, pc, job, settled, claimed>>

MoneyNext ==
  \/ \E r \in Requests :
       \/ \E a \in Amounts : CheckReceipt(r, a) \/ CheckRefund(r, a)
       \/ \E e \in Ids : CheckReversal(r, e) \/ ReverseOld(r, e)
       \/ Record(r) \/ Reverse(r) \/ ReportClaim(r) \/ ReportFails(r)
  \/ Close \/ Reopen

MoneySpec == InitMoney /\ [][MoneyNext]_moneyVars

-----------------------------------------------------------------------------
(* Undoing an entry leaves nothing of it behind: what the contract has     *)
(* received, summed up over every entry as the code's queries do, is what  *)
(* the entries that stand amount to, whoever else reversed the same entry  *)
(* at the same time.                                                       *)
Standing == {e \in DOMAIN entries : entries[e].undoes = NoEntry /\ ~Reversed(e)}

ReceivedIsWhatStands ==
  Received = Total(Credit, Standing)

(* Reports that fail, or overtake each other on the way to procurement, do *)
(* not show a line as less taken than it is: as long as some of it pays    *)
(* for a contract, procurement's books say so.                             *)
ClaimCoversLine == claimed >= OfLine

-----------------------------------------------------------------------------
(* What a comment says and the code does not keep.                         *)

(* "Nobody gives back money that was never received" (receivable.go        *)
(* :304-307): two refunds at the same time do, each compared with what the *)
(* other has not taken away yet.                                           *)
RefundsWereReceived == Received >= 0
=============================================================================
