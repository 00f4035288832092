-------------------------- MODULE ContractApproval --------------------------
(***************************************************************************)
(* One export contract and the approval service it is submitted to         *)
(* (ApprovalDesk, whose decisions arrive as events). SubmitContract and    *)
(* withdrawContract call the approval service while they hold the          *)
(* contract's row lock: the remote effect stands even when the answer is   *)
(* lost or the local transaction rolls back. Every request first reads the *)
(* contract without a lock and acts on what it read then.                  *)
(***************************************************************************)
EXTENDS Integers

CONSTANTS
  Contract,     \* the contract
  Instances,    \* ids of approval_instances
  Keys,         \* values of approval_request_key; each attempt's is new
  TerminationKeys, \* values of termination_request_key ("terminate:..."), new likewise
  Nil,          \* no document, key, instance, request or lock holder
  Submitters,   \* concurrent SubmitContract calls
  Withdrawers,  \* concurrent withdrawContract calls
  Signers,      \* concurrent SignContract calls
  Cancellers,   \* concurrent CancelContract calls
  Terminators,  \* concurrent requestTermination calls
  MaxVersions,  \* bound on contract versions
  MaxEdits      \* bound on the edits of a version's terms

ASSUME BoundAssumption == MaxVersions \in Nat \ {0} /\ MaxEdits \in Nat
ASSUME NilAssumption ==
  Nil \notin Keys \union TerminationKeys \union Instances \union {Contract}
ASSUME PrefixAssumption == Keys \intersect TerminationKeys = {}
ASSUME CallsAssumption ==
  /\ Nil \notin Submitters \union Withdrawers \union Signers \union Cancellers \union Terminators
  /\ Submitters \intersect (Withdrawers \union Signers \union Cancellers \union Terminators) = {}
  /\ Withdrawers \intersect (Signers \union Cancellers \union Terminators) = {}
  /\ Signers \intersect (Cancellers \union Terminators) = {}
  /\ Cancellers \intersect Terminators = {}

VARIABLES
  contract,     \* the contracts row
  version,      \* version[v]: status and terms of the v-th version
  holder,       \* the request that holds the contract's row lock
  request,      \* request[q]: what request q has read or been answered
  termination,  \* contract_workflows: the attempt to terminate, what it interrupted
  usedKeys,     \* keys ever written to either key column
  withdrawn,    \* a "withdraw" entry in contract_workflow_actions
  verdict, doc, key, announced,   \* the approval service, see ApprovalDesk
  shown,        \* shown[i]: version and terms in the summary i was opened with
  handled       \* instances whose decision event export has claimed

localVars == <<contract, version, termination, usedKeys, withdrawn>>
deskVars == <<verdict, doc, key, announced>>
vars == <<localVars, holder, request, deskVars, shown, handled>>

Desk == INSTANCE ApprovalDesk WITH status <- verdict, Docs <- {Contract},
                              Keys <- Keys \union TerminationKeys

Versions == 1..MaxVersions
Calls == Submitters \union Withdrawers \union Signers \union Cancellers \union Terminators

Unsigned == {"DRAFT", "PENDING_APPROVAL", "PENDING_SIGN"}
InForce == {"EXECUTING", "PAUSED", "TERMINATING", "TERMINATED", "COMPLETED"}
ContractStates == Unsigned \union InForce \union {"CANCELLED", "DELETED"}
VersionStates == {"none", "DRAFT", "PENDING_APPROVAL", "APPROVED", "SUPERSEDED"}

Idle == [at |-> "idle", status |-> "none", version |-> 0, terms |-> 0, key |-> Nil, inst |-> Nil]

Init ==
  /\ contract = [status |-> "DRAFT", key |-> Nil, inst |-> Nil, latest |-> 1, inForce |-> 0]
  /\ version = [v \in Versions |-> [status |-> IF v = 1 THEN "DRAFT" ELSE "none", terms |-> 0]]
  /\ holder = Nil
  /\ request = [q \in Calls |-> Idle]
  /\ termination = [key |-> Nil, inst |-> Nil, was |-> "none"]
  /\ usedKeys = {}
  /\ withdrawn = FALSE
  /\ Desk!Init
  /\ shown = [i \in Instances |-> Nil]
  /\ handled = {}

(* Mutant: the trigger is missing.                                         *)
MayMoveUnfrozen(v, s) == TRUE

(* contract_versions_freeze: an approved version can only be superseded.   *)
MayMove(v, s) ==
  \/ version[v].status \notin {"APPROVED", "SUPERSEDED"}
  \/ version[v].status = s
  \/ version[v].status = "APPROVED" /\ s = "SUPERSEDED"

(* Request q goes on from the place in its handler called from.            *)
Step(q, from, next) == request[q].at = from /\ request' = [request EXCEPT ![q] = next]

(* A statement on the contract row waits while another transaction has it. *)
RowFree == holder = Nil

-----------------------------------------------------------------------------
(* SubmitContract.                                                         *)

(* GetContract and readyToSubmit.                                          *)
SubmitView(s) ==
  /\ contract.status \in {"DRAFT", "EXECUTING"}
  /\ version[contract.latest].status = "DRAFT"
  /\ Step(s, "idle", [Idle EXCEPT !.at = "viewed", !.status = contract.status,
       !.version = contract.latest, !.terms = version[contract.latest].terms])
  /\ UNCHANGED <<localVars, holder, deskVars, shown, handled>>

(* The attempt is persisted before the remote call, in its own statement;  *)
(* an attempt that was left behind is taken up again.                      *)
SubmitPersistKey(s) ==
  /\ Step(s, "viewed", [request[s] EXCEPT !.at = "keyed"])
  /\ IF contract.key = Nil /\ contract.status = "DRAFT"
     THEN /\ RowFree
          /\ \E k \in Keys \ usedKeys :
               contract' = [contract EXCEPT !.key = k] /\ usedKeys' = usedKeys \union {k}
     ELSE UNCHANGED <<contract, usedKeys>>
  /\ UNCHANGED <<version, termination, withdrawn, holder, deskVars, shown, handled>>

SubmitReadKey(s) ==
  /\ Step(s, "keyed", [request[s] EXCEPT !.at = "ready", !.key = contract.key])
  /\ UNCHANGED <<localVars, holder, deskVars, shown, handled>>

(* Mutant: the status is not compared again under the lock.                *)
SubmitLockBlindly(s) ==
  /\ RowFree
  /\ Step(s, "ready", [request[s] EXCEPT !.at = "locked"])
  /\ holder' = s
  /\ UNCHANGED <<localVars, deskVars, shown, handled>>

(* Everybody else's statement on the contract waits from here on.          *)
SubmitLock(s) ==
  /\ RowFree /\ contract.status = request[s].status
  /\ Step(s, "ready", [request[s] EXCEPT !.at = "locked"])
  /\ holder' = s
  /\ UNCHANGED <<localVars, deskVars, shown, handled>>

(* The approval service opens instance i under this key, or has answered   *)
(* the key before, or has i running (AP_ALREADY_RUNNING).                  *)
Submitted(i, k) ==
  \/ /\ Desk!Open(i, Contract, k, "RUNNING")
     /\ \A h \in Instances : h < i => verdict[h] # "none"
  \/ /\ IF Desk!Answered(Contract, k) THEN key[i] = k ELSE verdict[i] = "RUNNING"
     /\ UNCHANGED deskVars

(* The summary is made of what the request read.                           *)
SubmitServed(s, i) ==
  /\ Step(s, "locked", [request[s] EXCEPT !.at = "answered", !.inst = i])
  /\ Submitted(i, request[s].key)
  /\ shown' = IF verdict[i] = "none"
              THEN [shown EXCEPT ![i] = [version |-> request[s].version, terms |-> request[s].terms]]
              ELSE shown
  /\ UNCHANGED <<localVars, holder, handled>>

SubmitCommit(s) ==
  /\ Step(s, "answered", Idle)
  /\ MayMove(request[s].version, "PENDING_APPROVAL")
  /\ contract' = [contract EXCEPT !.status = "PENDING_APPROVAL", !.inst = request[s].inst]
  /\ version' = [version EXCEPT ![request[s].version].status = "PENDING_APPROVAL"]
  /\ holder' = Nil
  /\ UNCHANGED <<termination, usedKeys, withdrawn, deskVars, shown, handled>>

(* A refused check, a lost answer, a failed statement, a crash: whatever   *)
(* the request has not committed is rolled back, its row lock is released. *)
Fail(q) ==
  /\ request[q] # Idle
  /\ request' = [request EXCEPT ![q] = Idle]
  /\ holder' = IF holder = q THEN Nil ELSE holder
  /\ UNCHANGED <<localVars, deskVars, shown, handled>>

-----------------------------------------------------------------------------
(* Approvers decide (a contract's REJECT becomes RETURNED), and            *)
(* ApplyApprovalDecision consumes the event: late, and in any order.       *)
Decide(i) ==
  /\ \E v \in {"APPROVED", "RETURNED"} : Desk!Conclude(i, v)
  /\ UNCHANGED <<localVars, holder, request, shown, handled>>

(* Mutant: every decision about the contract is taken for the current one. *)
ConcernsAnyway(i) == TRUE

(* An event with a key is about the contract's attempt of that key, one    *)
(* without about the instance the contract is linked to, if it is to one.  *)
Concerns(i) == IF key[i] = Nil THEN contract.inst \in {Nil, i} ELSE contract.key = key[i]

(* The decision overtook the commit of the submission it answers.          *)
Recovers(i) == contract.status = "DRAFT" /\ key[i] # Nil

Undelivered(i) == announced[i] # "none" /\ i \notin handled

(* Mutant: the event's result is written as it came.                       *)
ContractToResult(i) == IF announced[i] = "APPROVED" THEN "PENDING_SIGN" ELSE announced[i]

ContractTo(i) == IF announced[i] = "APPROVED" THEN "PENDING_SIGN" ELSE "DRAFT"

ApplyDecision(i) ==
  LET approved == announced[i] = "APPROVED"
      moveTo == IF approved THEN "APPROVED" ELSE "DRAFT"
  IN /\ RowFree /\ Undelivered(i) /\ key[i] \notin TerminationKeys
     /\ Concerns(i) /\ (contract.status = "PENDING_APPROVAL" \/ Recovers(i))
     /\ MayMove(contract.latest, moveTo)
     /\ contract' = [contract EXCEPT
          !.status = ContractTo(i),
          !.key = IF approved THEN @ ELSE Nil,
          !.inst = IF key[i] = Nil THEN @ ELSE i]
     /\ version' = [version EXCEPT ![contract.latest].status = moveTo]
     /\ handled' = handled \union {i}
     /\ UNCHANGED <<termination, usedKeys, withdrawn, holder, request, deskVars, shown>>

(* Somebody else's attempt, or a contract that no longer waits. A draft    *)
(* that cannot be told from one being submitted makes the event come back. *)
IgnoreDecision(i) ==
  /\ RowFree /\ Undelivered(i) /\ key[i] \notin TerminationKeys
  /\ Concerns(i) => contract.status \notin {"DRAFT", "PENDING_APPROVAL"}
  /\ contract' = [contract EXCEPT !.inst = IF Concerns(i) /\ key[i] # Nil THEN i ELSE @]
  /\ handled' = handled \union {i}
  /\ UNCHANGED <<version, termination, usedKeys, withdrawn, holder, request, deskVars, shown>>

-----------------------------------------------------------------------------
(* withdrawContract.                                                       *)
WithdrawLock(w) ==
  /\ RowFree /\ contract.status = "PENDING_APPROVAL"
  /\ Step(w, "idle", [Idle EXCEPT !.at = "locked",
       !.inst = contract.inst, !.version = contract.latest])
  /\ holder' = w
  /\ UNCHANGED <<localVars, deskVars, shown, handled>>

(* A withdrawal that was served before is served again.                    *)
WithdrawServed(w) ==
  /\ Step(w, "locked", [request[w] EXCEPT !.at = "answered"])
  /\ \/ Desk!Recall(request[w].inst)
     \/ verdict[request[w].inst] = "CANCELLED" /\ UNCHANGED deskVars
  /\ UNCHANGED <<localVars, holder, shown, handled>>

WithdrawCommit(w) ==
  /\ Step(w, "answered", Idle)
  /\ MayMove(request[w].version, "DRAFT")
  /\ contract' = [contract EXCEPT !.status = "DRAFT", !.key = Nil, !.inst = Nil]
  /\ version' = [version EXCEPT ![request[w].version].status = "DRAFT"]
  /\ withdrawn' = TRUE
  /\ holder' = Nil
  /\ UNCHANGED <<termination, usedKeys, deskVars, shown, handled>>

-----------------------------------------------------------------------------
(* SignContract: the version it read goes into force.                      *)
SignView(g) ==
  /\ contract.status = "PENDING_SIGN" /\ version[contract.latest].status = "APPROVED"
  /\ Step(g, "idle", [Idle EXCEPT !.at = "viewed", !.version = contract.latest])
  /\ UNCHANGED <<localVars, holder, deskVars, shown, handled>>

Sign(g) ==
  LET signed == request[g].version IN
  /\ RowFree /\ contract.status = "PENDING_SIGN"
  /\ Step(g, "viewed", Idle)
  /\ contract' = [contract EXCEPT !.status = "EXECUTING", !.inForce = signed]
  /\ version' = [v \in Versions |->
       IF v # signed /\ version[v].status = "APPROVED"
       THEN [version[v] EXCEPT !.status = "SUPERSEDED"] ELSE version[v]]
  /\ UNCHANGED <<termination, usedKeys, withdrawn, holder, deskVars, shown, handled>>

(* CancelContract checks what it read and then writes unconditionally.     *)
CancelView(c) ==
  /\ contract.status \in {"DRAFT", "PENDING_SIGN"} /\ contract.inForce = 0
  /\ Step(c, "idle", [Idle EXCEPT !.at = "viewed"])
  /\ UNCHANGED <<localVars, holder, deskVars, shown, handled>>

Cancel(c) ==
  /\ RowFree
  /\ Step(c, "viewed", Idle)
  /\ contract' = [contract EXCEPT !.status = "CANCELLED"]
  /\ UNCHANGED <<version, termination, usedKeys, withdrawn, holder, deskVars, shown, handled>>

-----------------------------------------------------------------------------
(* Mutant: a retry does not find the attempt that is already marked.       *)
TerminateMarkAnew(t) ==
  /\ RowFree /\ contract.status \in {"EXECUTING", "PAUSED", "TERMINATING"}
  /\ Step(t, "idle", [Idle EXCEPT !.at = "marked"])
  /\ contract.latest = contract.inForce
  /\ \E k \in TerminationKeys \ usedKeys :
       /\ termination' = [key |-> k, inst |-> Nil, was |-> "EXECUTING"]
       /\ usedKeys' = usedKeys \union {k}
  /\ contract' = [contract EXCEPT !.status = "TERMINATING"]
  /\ UNCHANGED <<version, withdrawn, holder, deskVars, shown, handled>>

(* requestTermination: the attempt is marked in a transaction of its own,  *)
(* and submitted in a second one that a retry finds its way back to.       *)
TerminateMark(t) ==
  /\ RowFree
  /\ Step(t, "idle", [Idle EXCEPT !.at = "marked"])
  /\ \/ /\ contract.status \in {"EXECUTING", "PAUSED"} /\ contract.latest = contract.inForce
        /\ \E k \in TerminationKeys \ usedKeys :
             /\ termination' = [key |-> k, inst |-> Nil, was |-> contract.status]
             /\ usedKeys' = usedKeys \union {k}
        /\ contract' = [contract EXCEPT !.status = "TERMINATING"]
     \/ contract.status = "TERMINATING" /\ UNCHANGED <<contract, termination, usedKeys>>
  /\ UNCHANGED <<version, withdrawn, holder, deskVars, shown, handled>>

(* An attempt that was decided, or linked, meanwhile needs nothing more.   *)
TerminateLock(t) ==
  LET over == contract.status # "TERMINATING" \/ termination.inst # Nil IN
  /\ RowFree
  /\ Step(t, "marked", IF over THEN Idle ELSE [request[t] EXCEPT !.at = "locked", !.key = termination.key])
  /\ holder' = IF over THEN Nil ELSE t
  /\ UNCHANGED <<localVars, deskVars, shown, handled>>

TerminateServed(t, i) ==
  /\ Step(t, "locked", [request[t] EXCEPT !.at = "answered", !.inst = i])
  /\ Submitted(i, request[t].key)
  /\ UNCHANGED <<localVars, holder, shown, handled>>

TerminateCommit(t) ==
  /\ Step(t, "answered", Idle)
  /\ termination' = [termination EXCEPT !.inst = request[t].inst]
  /\ holder' = Nil
  /\ UNCHANGED <<contract, version, usedKeys, withdrawn, deskVars, shown, handled>>

(* The decision is the one this attempt was asked for. It may overtake the *)
(* commit that links the instance.                                         *)
EndsTermination(i) ==
  /\ contract.status = "TERMINATING"
  /\ key[i] = termination.key /\ termination.inst \in {Nil, i}

TerminationTo(i) == IF announced[i] = "APPROVED" THEN "TERMINATED" ELSE termination.was

(* applyTerminationDecision: whatever else bears such a key is dropped.    *)
ApplyTermination(i) ==
  /\ RowFree /\ Undelivered(i) /\ key[i] \in TerminationKeys
  /\ contract' = IF EndsTermination(i)
                 THEN [contract EXCEPT !.status = TerminationTo(i)] ELSE contract
  /\ handled' = handled \union {i}
  /\ UNCHANGED <<version, termination, usedKeys, withdrawn, holder, request, deskVars, shown>>

-----------------------------------------------------------------------------
(* One transaction each: what was read before is checked again under the   *)
(* lock, or guarded by the status of the version.                          *)
LocalStep ==
  /\ RowFree
  /\ UNCHANGED <<termination, usedKeys, withdrawn, holder, request, deskVars, shown, handled>>

Void ==
  /\ LocalStep
  /\ contract.status \in {"DRAFT", "PENDING_SIGN"} /\ contract.inForce = 0
  /\ contract' = [contract EXCEPT !.status = "CANCELLED"]
  /\ UNCHANGED version

(* Mutant: the link is taken for the only trace of a submission.           *)
DeleteUnlinked ==
  /\ LocalStep
  /\ contract.status = "DRAFT" /\ contract.inForce = 0
  /\ contract.inst = Nil /\ ~withdrawn
  /\ contract' = [contract EXCEPT !.status = "DELETED"]
  /\ UNCHANGED version

(* Only a draft that was never submitted may disappear.                    *)
Delete ==
  /\ LocalStep
  /\ contract.status = "DRAFT" /\ contract.inForce = 0
  /\ contract.inst = Nil /\ contract.key = Nil /\ ~withdrawn
  /\ contract' = [contract EXCEPT !.status = "DELETED"]
  /\ UNCHANGED version

Edit ==
  /\ LocalStep
  /\ contract.status = "DRAFT" /\ version[contract.latest].status = "DRAFT"
  /\ version[contract.latest].terms < MaxEdits
  /\ version' = [version EXCEPT ![contract.latest].terms = @ + 1]
  /\ UNCHANGED contract

Change ==
  /\ LocalStep
  /\ contract.status = "EXECUTING" /\ contract.latest < MaxVersions
  /\ version[contract.latest].status \notin {"DRAFT", "PENDING_APPROVAL"}
  /\ contract' = [contract EXCEPT
       !.status = "DRAFT", !.key = Nil, !.inst = Nil, !.latest = @ + 1]
  /\ version' = [version EXCEPT ![contract.latest + 1] =
       [status |-> "DRAFT", terms |-> version[contract.inForce].terms]]

Pause ==
  /\ LocalStep
  /\ contract.status = "EXECUTING"
  /\ contract' = [contract EXCEPT !.status = "PAUSED"]
  /\ UNCHANGED version

Resume ==
  /\ LocalStep
  /\ contract.status = "PAUSED"
  /\ contract' = [contract EXCEPT !.status = "EXECUTING"]
  /\ UNCHANGED version

Complete ==
  /\ LocalStep
  /\ contract.status \in {"EXECUTING", "TERMINATED"}
  /\ contract' = [contract EXCEPT !.status = "COMPLETED"]
  /\ UNCHANGED version

Next ==
  \/ \E s \in Submitters :
       \/ SubmitView(s) \/ SubmitPersistKey(s) \/ SubmitReadKey(s)
       \/ SubmitLock(s) \/ SubmitCommit(s)
       \/ \E i \in Instances : SubmitServed(s, i)
  \/ \E q \in Calls : Fail(q)
  \/ \E i \in Instances : Decide(i) \/ ApplyDecision(i) \/ IgnoreDecision(i)
  \/ \E w \in Withdrawers : WithdrawLock(w) \/ WithdrawServed(w) \/ WithdrawCommit(w)
  \/ \E g \in Signers : SignView(g) \/ Sign(g)
  \/ \E c \in Cancellers : CancelView(c) \/ Cancel(c)
  \/ \E t \in Terminators :
       \/ TerminateMark(t) \/ TerminateLock(t) \/ TerminateCommit(t)
       \/ \E i \in Instances : TerminateServed(t, i)
  \/ \E i \in Instances : ApplyTermination(i)
  \/ Void \/ Delete \/ Edit \/ Change \/ Pause \/ Resume \/ Complete

Spec == Init /\ [][Next]_vars

-----------------------------------------------------------------------------
Places == {"idle", "viewed", "keyed", "ready", "marked", "locked", "answered"}
AnyKey == Keys \union TerminationKeys \union {Nil}
ContractType == [status : ContractStates, key : Keys \union {Nil}, inst : Instances \union {Nil},
                 latest : Versions, inForce : Versions \union {0}]
VersionType == [status : VersionStates, terms : 0..MaxEdits]
RequestType == [at : Places, status : ContractStates \union {"none"}, version : Versions \union {0},
                terms : 0..MaxEdits, key : AnyKey, inst : Instances \union {Nil}]
TerminationType == [key : TerminationKeys \union {Nil}, inst : Instances \union {Nil},
                    was : {"none", "EXECUTING", "PAUSED"}]

TypeOK ==
  /\ contract \in ContractType /\ version \in [Versions -> VersionType]
  /\ holder \in Calls \union {Nil} /\ request \in [Calls -> RequestType]
  /\ termination \in TerminationType
  /\ usedKeys \subseteq AnyKey /\ withdrawn \in BOOLEAN
  /\ verdict \in [Instances -> Desk!Statuses]
  /\ announced \in [Instances -> Desk!Verdicts \union {"none"}]
  /\ doc \in [Instances -> {Contract, Nil}] /\ key \in [Instances -> AnyKey]
  /\ handled \subseteq Instances

(* A contract and its newest version tell the same story, whichever stale  *)
(* request committed last, and what is in force was approved.              *)
VersionFollowsContract ==
  LET newest == version[contract.latest].status
  IN /\ contract.status \in {"DRAFT", "PENDING_APPROVAL"} => newest = contract.status
     /\ contract.status = "PENDING_SIGN" => newest = "APPROVED"
     /\ contract.status \in InForce =>
          version[contract.inForce].status \in {"APPROVED", "SUPERSEDED"}

(* Nothing reaches signature or force but on an approval that was announced*)
(* and taken in by event export, of the attempt the contract bears the key *)
(* of or, where a submission went out without a key, of the instance it was*)
(* linked to. The link still shows that approval, whatever late events or  *)
(* submissions came since; only a late event of the contract's own key,    *)
(* about an instance nobody had linked, replaces the link of an approval   *)
(* without one. That another attempt may be under way meanwhile is         *)
(* NobodyElseIsAsked, which does not hold.                                 *)
ApprovedOnItsAttempt ==
  contract.status \in {"PENDING_SIGN"} \union InForce =>
    /\ contract.inst \in handled
    /\ \E i \in handled :
         /\ announced[i] = "APPROVED" /\ key[i] \in {Nil, contract.key}
         /\ contract.inst = i \/ (key[i] = Nil /\ key[contract.inst] = contract.key)

(* An attempt to terminate is answered or still to be answered, and nobody *)
(* is asked about, or will be heard on, an attempt that is not the         *)
(* contract's: neither a lost answer nor a retry leaves a second question. *)
TerminationGetsItsAnswer ==
  \A i \in Instances :
    (key[i] \in TerminationKeys /\ contract.status # "CANCELLED") =>
      ((verdict[i] = "RUNNING" \/ Undelivered(i))
         <=> (contract.status = "TERMINATING" /\ key[i] = termination.key))

(* A contract that can be deleted without trace was never before an        *)
(* approver, not even by a submission whose answer was lost                *)
(* (contract_workflow.go:128-138).                                         *)
DeletedWasNeverSubmitted ==
  contract.status = "DELETED" => \A i \in Instances : verdict[i] = "none"

(* No submission, decision or signature that is still on its way brings a  *)
(* cancelled contract back.                                                *)
CancelledIsFinal ==
  [][contract.status = "CANCELLED" => contract'.status = "CANCELLED"]_vars

-----------------------------------------------------------------------------
(* What comments say and the code does not keep.                           *)

(* "The pair converges either way" (contract_lifecycle.go:25-28): a        *)
(* contract that waits for an approval can still get one, or be withdrawn. *)
WaitsForSomebody ==
  contract.status = "PENDING_APPROVAL" =>
    \/ verdict[contract.inst] \in {"RUNNING", "CANCELLED"}
    \/ Undelivered(contract.inst)

(* "Persist the attempt before the remote call; all network retries reuse  *)
(* it" (contract_lifecycle.go:41): there is one question about a draft, and*)
(* when the contract goes on to signature nobody is still being asked. A   *)
(* submission that skipped the key since it found one, and reads it after a*)
(* decision has cleared it, goes out without: the contract then waits for  *)
(* that instance, and an approval of the key written meanwhile, whose      *)
(* submission lost its answer, is applied to it.                           *)
NobodyElseIsAsked ==
  contract.status \in {"PENDING_SIGN"} \union InForce =>
    \A i \in Instances : verdict[i] = "RUNNING" => key[i] \in TerminationKeys

(* "A retry and the callback still refer to this attempt"                  *)
(* (contract_workflow.go:322-323): the instance a termination is linked to *)
(* is one that was asked about it. A submission that was lost and overtaken*)
(* by an earlier one's approval is still running, and is what the approval *)
(* service answers with; its decision ends nothing.                        *)
TerminationIsDecidable ==
  contract.status = "TERMINATING" /\ termination.inst # Nil =>
    key[termination.inst] = termination.key

(* "The old version keeps running until the new one is approved and        *)
(* signed" (contract.go:406-407): a signature that read the old version    *)
(* before it was changed puts it in force once more and retires the        *)
(* approved new one unsigned, since the lock compares the status only.     *)
InForceIsNewest ==
  contract.status \in InForce => contract.inForce = contract.latest

(* "A contract that has ever been in force is not cancelled but            *)
(* terminated" (contract_lifecycle.go:339-341).                            *)
CancelledWasNeverInForce ==
  contract.status = "CANCELLED" => contract.inForce = 0

(* What an approver approved is what is signed: the terms of a version do  *)
(* not change once it is submitted (ARCHITECTURE.md:4612).                 *)
SignedAsShown ==
  contract.inForce # 0 =>
    \E i \in handled : shown[i] = [version |-> contract.inForce, terms |-> version[contract.inForce].terms]
=============================================================================
