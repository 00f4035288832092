----------------------- MODULE ContractApproval_proofs -----------------------
(***************************************************************************)
(* That ContractApproval keeps its safety properties for any number of     *)
(* concurrent calls, approval instances, keys and versions. IInv joins     *)
(* what the properties leave unsaid: what the row lock protects (Locking), *)
(* that the contract and its versions move together (Versioned,            *)
(* VersionsRead), that the approval service opens one instance per key and *)
(* forgets nothing (Answers), where keys and links come from (Keyed,       *)
(* Linked, TerminationLinked), and that a submission leaves a trace before *)
(* it is made (Traced).                                                    *)
(***************************************************************************)
EXTENDS ContractApproval, TLAPS

(* What contract_versions_freeze lets nobody change any more.              *)
Frozen == {"APPROVED", "SUPERSEDED"}

(* Request q is inside its transaction and holds the row lock.             *)
Locked(q) == request[q].at \in {"locked", "answered"}

(* One request at a time holds the lock, and while it does the contract is *)
(* what the request found there; only drafts are submitted.                *)
Locking ==
  /\ \A q \in Calls : Locked(q) => holder = q
  /\ \A s \in Submitters : Locked(s) => contract.status = "DRAFT"
  /\ \A w \in Withdrawers : Locked(w) =>
       /\ contract.status = "PENDING_APPROVAL"
       /\ request[w].inst = contract.inst /\ request[w].version = contract.latest
  /\ \A t \in Terminators : Locked(t) =>
       /\ contract.status = "TERMINATING"
       /\ termination.inst = Nil /\ request[t].key = termination.key
  /\ \A s \in Submitters : request[s].at # "idle" => request[s].status = "DRAFT"

(* The newest version tells what the contract tells; an older one and what *)
(* is in force are frozen; a termination knows what it interrupted.        *)
Versioned ==
  /\ \A v \in Versions : v < contract.latest => version[v].status \in Frozen
  /\ contract.status \in {"DRAFT", "PENDING_APPROVAL"} =>
       version[contract.latest].status = contract.status
  /\ contract.status = "PENDING_SIGN" => version[contract.latest].status = "APPROVED"
  /\ contract.status \in InForce =>
       version[contract.latest].status \in Frozen /\ contract.inForce # 0
  /\ contract.inForce \in 0..contract.latest
  /\ contract.inForce # 0 => version[contract.inForce].status \in Frozen
  /\ contract.status = "TERMINATING" => termination.key # Nil /\ termination.was # "none"

(* No request goes by a version that does not exist yet, and a signature   *)
(* is about a frozen one.                                                  *)
VersionsRead ==
  /\ \A s \in Submitters : request[s].at # "idle" => request[s].version \in 1..contract.latest
  /\ \A g \in Signers : request[g].at # "idle" =>
       request[g].version \in 1..contract.latest /\ version[request[g].version].status \in Frozen

(* The approval service: what is not opened is blank, an answer is the one *)
(* that was announced, and a key opens one instance.                       *)
Answers ==
  /\ \A i \in Instances : verdict[i] = "none" => announced[i] = "none" /\ key[i] = Nil
  /\ \A i \in Instances : announced[i] # "none" =>
       verdict[i] = announced[i] /\ announced[i] \in {"APPROVED", "RETURNED"}
  /\ \A i \in handled : announced[i] # "none"
  /\ \A i \in Instances : verdict[i] # "none" => doc[i] = Contract
  /\ \A i, j \in Instances : key[i] = key[j] /\ key[i] # Nil => i = j

(* Every key anywhere is one that was written to the contract's columns.   *)
Keyed ==
  /\ contract.key \in usedKeys \union {Nil} /\ termination.key \in usedKeys \union {Nil}
  /\ \A i \in Instances : key[i] \in usedKeys \union {Nil}
  /\ \A q \in Calls : request[q].key \in usedKeys \union {Nil}
  /\ \A s \in Submitters : request[s].key \in Keys \union {Nil}

(* The contract, and whoever is about to link it, knows an instance that   *)
(* was opened to approve it, not to end it.                                *)
Linked ==
  /\ contract.inst # Nil =>
       verdict[contract.inst] # "none" /\ key[contract.inst] \notin TerminationKeys
  /\ contract.status \in {"PENDING_APPROVAL", "PENDING_SIGN"} \union InForce => contract.inst # Nil
  /\ \A s \in Submitters : request[s].at = "answered" =>
       /\ request[s].inst # Nil
       /\ verdict[request[s].inst] # "none" /\ key[request[s].inst] \notin TerminationKeys

(* The instance a termination is linked to, or about to be, is the one     *)
(* that was opened with its key, if any was.                               *)
TerminationLinked ==
  /\ termination.inst # Nil =>
       /\ termination.key # Nil
       /\ \A i \in Instances : key[i] = termination.key => i = termination.inst
  /\ \A t \in Terminators : request[t].at = "answered" =>
       \A i \in Instances : key[i] = termination.key => i = request[t].inst

(* A contract that bears no trace of a submission was never submitted, and *)
(* nobody has come far enough to submit it without leaving one.            *)
Traced ==
  \/ contract.status \in {"CANCELLED", "DELETED"}
  \/ contract.key # Nil \/ contract.inst # Nil \/ withdrawn \/ contract.inForce # 0
  \/ /\ \A i \in Instances : verdict[i] = "none"
     /\ \A s \in Submitters : request[s].at \in {"idle", "viewed"}

(* The inductive invariant.                                                *)
IInv ==
  /\ TypeOK /\ Locking /\ Versioned /\ VersionsRead
  /\ Answers /\ Keyed /\ Linked /\ TerminationLinked /\ Traced
  /\ ApprovedOnItsAttempt /\ TerminationGetsItsAnswer /\ DeletedWasNeverSubmitted

-----------------------------------------------------------------------------
(* What Step does to the requests.                                         *)
LEMMA Stepped ==
  ASSUME request \in [Calls -> RequestType],
         NEW q \in Calls, NEW from, NEW next, Step(q, from, next)
  PROVE  /\ request[q].at = from /\ request'[q] = next
         /\ \A p \in Calls : p # q => request'[p] = request[p]
         /\ next \in RequestType => request' \in [Calls -> RequestType]
  BY DEF Step

LEMMA IdleType == Idle \in RequestType
  BY BoundAssumption DEF Idle, RequestType, Places, AnyKey

LEMMA SubmittedType ==
  ASSUME TypeOK, NEW i \in Instances, NEW k \in AnyKey, Submitted(i, k)
  PROVE  /\ verdict' \in [Instances -> Desk!Statuses]
         /\ announced' \in [Instances -> Desk!Verdicts \union {"none"}]
         /\ doc' \in [Instances -> {Contract, Nil}] /\ key' \in [Instances -> AnyKey]
  BY DEF TypeOK, Submitted, Desk!Open, Desk!Statuses, Desk!Verdicts, Desk!deskVars, deskVars

(* Two facts of Versioned are needed for the types: an interrupted status  *)
(* to return to, and a version in force to copy from.                      *)
LEMMA TypePreserved ==
  ASSUME TypeOK, [Next]_vars,
         contract.status = "TERMINATING" => termination.was # "none",
         contract.status \in InForce => contract.inForce # 0
  PROVE  TypeOK'
  <1>0. /\ contract \in ContractType /\ version \in [Versions -> VersionType]
        /\ request \in [Calls -> RequestType] /\ termination \in TerminationType
        /\ contract.latest \in Versions
        /\ \A q \in Calls : request[q] \in RequestType
    BY DEF TypeOK, ContractType
  <1>c. /\ \A x \in ContractStates : [contract EXCEPT !.status = x] \in ContractType
        /\ \A x \in Keys \union {Nil} : [contract EXCEPT !.key = x] \in ContractType
        /\ \A x \in Instances \union {Nil} : [contract EXCEPT !.inst = x] \in ContractType
    BY <1>0 DEF ContractType
  <1>s. /\ \A x \in InForce : x \in ContractStates
        /\ \A x \in Unsigned \union {"CANCELLED", "DELETED"} : x \in ContractStates
    BY DEF InForce, Unsigned, ContractStates
  <1>r. /\ \A q \in Calls, x \in Places : [request[q] EXCEPT !.at = x] \in RequestType
        /\ \A q \in Calls, x \in Places, i \in Instances :
              [request[q] EXCEPT !.at = x, !.inst = i] \in RequestType
        /\ \A q \in Calls, x \in Places, k \in AnyKey :
              [request[q] EXCEPT !.at = x, !.key = k] \in RequestType
    BY <1>0 DEF RequestType
  <1>p. \A x \in {"idle", "viewed", "keyed", "ready", "marked", "locked", "answered"} : x \in Places
    BY DEF Places
  <1>v. \A v \in Versions, x \in VersionStates : [version EXCEPT ![v].status = x] \in [Versions -> VersionType]
    BY <1>0 DEF VersionType
  <1>w. Submitters \subseteq Calls /\ Withdrawers \subseteq Calls /\ Signers \subseteq Calls
        /\ Cancellers \subseteq Calls /\ Terminators \subseteq Calls
    BY DEF Calls
  <1>. USE <1>p, <1>w
  <1>1. ASSUME NEW s \in Submitters, SubmitView(s) PROVE TypeOK'
    <2>1. [Idle EXCEPT !.at = "viewed", !.status = contract.status,
            !.version = contract.latest, !.terms = version[contract.latest].terms] \in RequestType
      BY <1>0, IdleType DEF RequestType, ContractType, VersionType
    <2>2. request' \in [Calls -> RequestType]
      BY <1>0, <1>1, <2>1, Stepped DEF SubmitView
    <2>. QED  BY <1>1, <2>2 DEF TypeOK, SubmitView, localVars, deskVars
  <1>2. ASSUME NEW s \in Submitters, SubmitPersistKey(s) PROVE TypeOK'
    <2>1. request' \in [Calls -> RequestType]
      <3>1. Step(s, "viewed", [request[s] EXCEPT !.at = "keyed"])
        BY <1>2 DEF SubmitPersistKey
      <3>2. [request[s] EXCEPT !.at = "keyed"] \in RequestType
        BY <1>r
      <3>. QED  BY <1>0, <3>1, <3>2, Stepped
    <2>2. contract' \in ContractType /\ usedKeys' \subseteq AnyKey
      BY <1>0, <1>c, <1>2 DEF SubmitPersistKey, TypeOK, AnyKey
    <2>. QED  BY <1>2, <2>1, <2>2 DEF TypeOK, SubmitPersistKey, deskVars
  <1>3. ASSUME NEW s \in Submitters, SubmitReadKey(s) PROVE TypeOK'
    <2>1. contract.key \in AnyKey
      BY <1>0 DEF ContractType, AnyKey
    <2>2. request' \in [Calls -> RequestType]
      <3>1. Step(s, "keyed", [request[s] EXCEPT !.at = "ready", !.key = contract.key])
        BY <1>3 DEF SubmitReadKey
      <3>2. [request[s] EXCEPT !.at = "ready", !.key = contract.key] \in RequestType
        BY <1>r, <2>1
      <3>. QED  BY <1>0, <3>1, <3>2, Stepped
    <2>. QED  BY <1>3, <2>2 DEF TypeOK, SubmitReadKey, localVars, deskVars
  <1>4. ASSUME NEW s \in Submitters, SubmitLock(s) PROVE TypeOK'
    <2>1. request' \in [Calls -> RequestType]
      BY <1>0, <1>r, <1>4, Stepped DEF SubmitLock
    <2>. QED  BY <1>4, <2>1 DEF TypeOK, SubmitLock, localVars, deskVars
  <1>5. ASSUME NEW s \in Submitters, NEW i \in Instances, SubmitServed(s, i) PROVE TypeOK'
    <2>1. request' \in [Calls -> RequestType]
      <3>1. Step(s, "locked", [request[s] EXCEPT !.at = "answered", !.inst = i])
        BY <1>5 DEF SubmitServed
      <3>2. [request[s] EXCEPT !.at = "answered", !.inst = i] \in RequestType
        BY <1>r
      <3>. QED  BY <1>0, <3>1, <3>2, Stepped
    <2>2. request[s].key \in AnyKey
      BY <1>0 DEF RequestType
    <2>. QED  BY <1>5, <2>1, <2>2, SubmittedType DEF TypeOK, SubmitServed, localVars
  <1>6. ASSUME NEW s \in Submitters, SubmitCommit(s) PROVE TypeOK'
    <2>1. request' \in [Calls -> RequestType]
      BY <1>0, <1>6, IdleType, Stepped DEF SubmitCommit
    <2>2. request[s].inst \in Instances \union {Nil}
      BY <1>0 DEF RequestType
    <2>3. contract' \in ContractType
      BY <1>0, <1>6, <2>2 DEF SubmitCommit, ContractType, ContractStates, Unsigned
    <2>4. version' \in [Versions -> VersionType]
      BY <1>0, <1>6 DEF SubmitCommit, VersionType, VersionStates
    <2>. QED  BY <1>6, <2>1, <2>3, <2>4 DEF TypeOK, SubmitCommit, deskVars
  <1>7. ASSUME NEW q \in Calls, Fail(q) PROVE TypeOK'
    <2>1. request' \in [Calls -> RequestType]
      BY <1>0, <1>7, IdleType DEF Fail
    <2>. QED  BY <1>7, <2>1 DEF TypeOK, Fail, localVars, deskVars
  <1>8. ASSUME NEW i \in Instances, Decide(i) PROVE TypeOK'
    <2>1. /\ verdict' \in [Instances -> Desk!Statuses]
          /\ announced' \in [Instances -> Desk!Verdicts \union {"none"}]
      BY <1>8 DEF Decide, TypeOK, Desk!Conclude, Desk!Statuses, Desk!Verdicts
    <2>. QED  BY <1>8, <2>1 DEF TypeOK, Decide, Desk!Conclude, localVars
  <1>9. ASSUME NEW i \in Instances, ApplyDecision(i) PROVE TypeOK'
    <2>1. contract' \in ContractType
      BY <1>0, <1>9 DEF ApplyDecision, ContractTo, ContractType, ContractStates, Unsigned
    <2>2. version' \in [Versions -> VersionType]
      BY <1>0, <1>v, <1>9 DEF ApplyDecision, VersionStates
    <2>. QED  BY <1>9, <2>1, <2>2 DEF TypeOK, ApplyDecision, deskVars
  <1>10. ASSUME NEW i \in Instances, IgnoreDecision(i) PROVE TypeOK'
    <2>1. contract' \in ContractType
      BY <1>0, <1>c, <1>10 DEF IgnoreDecision, ContractType
    <2>. QED  BY <1>10, <2>1 DEF TypeOK, IgnoreDecision, deskVars
  <1>11. ASSUME NEW w \in Withdrawers, WithdrawLock(w) PROVE TypeOK'
    <2>1. [Idle EXCEPT !.at = "locked", !.inst = contract.inst, !.version = contract.latest] \in RequestType
      BY <1>0, IdleType DEF RequestType, ContractType
    <2>2. request' \in [Calls -> RequestType]
      BY <1>0, <1>11, <2>1, Stepped DEF WithdrawLock
    <2>. QED  BY <1>11, <2>2 DEF TypeOK, WithdrawLock, localVars, deskVars
  <1>12. ASSUME NEW w \in Withdrawers, WithdrawServed(w) PROVE TypeOK'
    <2>1. request' \in [Calls -> RequestType]
      <3>1. Step(w, "locked", [request[w] EXCEPT !.at = "answered"])
        BY <1>12 DEF WithdrawServed
      <3>2. [request[w] EXCEPT !.at = "answered"] \in RequestType
        BY <1>r
      <3>. QED  BY <1>0, <3>1, <3>2, Stepped
    <2>2. verdict' \in [Instances -> Desk!Statuses] /\ UNCHANGED <<doc, key, announced>>
      BY <1>12 DEF WithdrawServed, TypeOK, Desk!Recall, Desk!Statuses, deskVars
    <2>. QED  BY <1>12, <2>1, <2>2 DEF TypeOK, WithdrawServed, localVars
  <1>13. ASSUME NEW w \in Withdrawers, WithdrawCommit(w) PROVE TypeOK'
    <2>1. request' \in [Calls -> RequestType]
      BY <1>0, <1>13, IdleType, Stepped DEF WithdrawCommit
    <2>2. contract' \in ContractType
      BY <1>0, <1>13 DEF WithdrawCommit, ContractType, ContractStates, Unsigned
    <2>3. version' \in [Versions -> VersionType]
      BY <1>0, <1>13 DEF WithdrawCommit, VersionType, VersionStates
    <2>. QED  BY <1>13, <2>1, <2>2, <2>3 DEF TypeOK, WithdrawCommit, deskVars
  <1>14. ASSUME NEW g \in Signers, SignView(g) PROVE TypeOK'
    <2>1. [Idle EXCEPT !.at = "viewed", !.version = contract.latest] \in RequestType
      BY <1>0, IdleType DEF RequestType, ContractType
    <2>2. request' \in [Calls -> RequestType]
      BY <1>0, <1>14, <2>1, Stepped DEF SignView
    <2>. QED  BY <1>14, <2>2 DEF TypeOK, SignView, localVars, deskVars
  <1>15. ASSUME NEW g \in Signers, Sign(g) PROVE TypeOK'
    <2>1. request' \in [Calls -> RequestType]
      BY <1>0, <1>15, IdleType, Stepped DEF Sign
    <2>2. request[g].version \in Versions \union {0}
      BY <1>0 DEF RequestType
    <2>3. contract' \in ContractType
      BY <1>0, <1>15, <2>2 DEF Sign, ContractType, ContractStates, InForce
    <2>4. version' \in [Versions -> VersionType]
      <3>1. \A v \in Versions : [version[v] EXCEPT !.status = "SUPERSEDED"] \in VersionType
        BY <1>0 DEF VersionType, VersionStates
      <3>. QED  BY <1>0, <1>15, <3>1 DEF Sign
    <2>. QED  BY <1>15, <2>1, <2>3, <2>4 DEF TypeOK, Sign, deskVars
  <1>16. ASSUME NEW c \in Cancellers, CancelView(c) PROVE TypeOK'
    <2>1. [Idle EXCEPT !.at = "viewed"] \in RequestType
      BY IdleType DEF RequestType
    <2>2. request' \in [Calls -> RequestType]
      BY <1>0, <1>16, <2>1, Stepped DEF CancelView
    <2>. QED  BY <1>16, <2>2 DEF TypeOK, CancelView, localVars, deskVars
  <1>17. ASSUME NEW c \in Cancellers, Cancel(c) PROVE TypeOK'
    <2>1. request' \in [Calls -> RequestType]
      BY <1>0, <1>17, IdleType, Stepped DEF Cancel
    <2>. QED  BY <1>c, <1>s, <1>17, <2>1 DEF TypeOK, Cancel, deskVars
  <1>18. ASSUME NEW t \in Terminators, TerminateMark(t) PROVE TypeOK'
    <2>1. [Idle EXCEPT !.at = "marked"] \in RequestType
      BY IdleType DEF RequestType
    <2>2. request' \in [Calls -> RequestType]
      BY <1>0, <1>18, <2>1, Stepped DEF TerminateMark
    <2>3. contract' \in ContractType
      BY <1>0, <1>c, <1>s, <1>18 DEF TerminateMark, InForce
    <2>4. termination' \in TerminationType /\ usedKeys' \subseteq AnyKey
      BY <1>0, <1>18 DEF TerminateMark, TerminationType, TypeOK, AnyKey
    <2>. QED  BY <1>18, <2>2, <2>3, <2>4 DEF TypeOK, TerminateMark, deskVars
  <1>19. ASSUME NEW t \in Terminators, TerminateLock(t) PROVE TypeOK'
    <2>1. termination.key \in AnyKey
      BY <1>0 DEF TerminationType, AnyKey
    <2>2. request' \in [Calls -> RequestType]
      BY <1>0, <1>r, <1>19, <2>1, IdleType, Stepped DEF TerminateLock
    <2>. QED  BY <1>19, <2>2 DEF TypeOK, TerminateLock, localVars, deskVars
  <1>20. ASSUME NEW t \in Terminators, NEW i \in Instances, TerminateServed(t, i) PROVE TypeOK'
    <2>1. request' \in [Calls -> RequestType]
      <3>1. Step(t, "locked", [request[t] EXCEPT !.at = "answered", !.inst = i])
        BY <1>20 DEF TerminateServed
      <3>2. [request[t] EXCEPT !.at = "answered", !.inst = i] \in RequestType
        BY <1>r
      <3>. QED  BY <1>0, <3>1, <3>2, Stepped
    <2>2. request[t].key \in AnyKey
      BY <1>0 DEF RequestType
    <2>. QED  BY <1>20, <2>1, <2>2, SubmittedType DEF TypeOK, TerminateServed, localVars
  <1>21. ASSUME NEW t \in Terminators, TerminateCommit(t) PROVE TypeOK'
    <2>1. request' \in [Calls -> RequestType]
      BY <1>0, <1>21, IdleType, Stepped DEF TerminateCommit
    <2>2. request[t].inst \in Instances \union {Nil}
      BY <1>0 DEF RequestType
    <2>3. termination' \in TerminationType
      BY <1>0, <1>21, <2>2 DEF TerminateCommit, TerminationType
    <2>. QED  BY <1>21, <2>1, <2>3 DEF TypeOK, TerminateCommit, deskVars
  <1>22. ASSUME NEW i \in Instances, ApplyTermination(i) PROVE TypeOK'
    <2>1. EndsTermination(i) => TerminationTo(i) \in InForce
      BY <1>0 DEF EndsTermination, TerminationTo, TerminationType, InForce
    <2>2. contract' \in ContractType
      BY <1>0, <1>c, <1>s, <1>22, <2>1 DEF ApplyTermination
    <2>. QED  BY <1>22, <2>2 DEF TypeOK, ApplyTermination, deskVars
  <1>23. CASE Void
    BY <1>c, <1>s, <1>23 DEF TypeOK, Void, LocalStep, deskVars
  <1>24. CASE Delete
    BY <1>c, <1>s, <1>24 DEF TypeOK, Delete, LocalStep, deskVars
  <1>25. CASE Edit
    <2>1. version[contract.latest].terms + 1 \in 0..MaxEdits
      BY <1>0, <1>25, BoundAssumption DEF Edit, VersionType
    <2>2. version' \in [Versions -> VersionType]
      BY <1>0, <1>25, <2>1 DEF Edit, VersionType
    <2>. QED  BY <1>25, <2>2 DEF TypeOK, Edit, LocalStep, deskVars
  <1>26. CASE Change
    <2>1. contract.inForce \in Versions /\ contract.latest + 1 \in Versions
      BY <1>0, <1>26, BoundAssumption DEF Change, ContractType, InForce, Versions
    <2>2. contract' \in ContractType
      BY <1>0, <1>26, <2>1 DEF Change, ContractType, ContractStates, Unsigned
    <2>3. [status |-> "DRAFT", terms |-> version[contract.inForce].terms] \in VersionType
      BY <1>0, <2>1 DEF VersionType, VersionStates
    <2>4. version' \in [Versions -> VersionType]
      BY <1>0, <1>26, <2>3 DEF Change
    <2>. QED  BY <1>26, <2>2, <2>4 DEF TypeOK, Change, LocalStep, deskVars
  <1>27. CASE Pause
    BY <1>c, <1>s, <1>27 DEF TypeOK, Pause, LocalStep, deskVars, InForce
  <1>28. CASE Resume
    BY <1>c, <1>s, <1>28 DEF TypeOK, Resume, LocalStep, deskVars, InForce
  <1>29. CASE Complete
    BY <1>c, <1>s, <1>29 DEF TypeOK, Complete, LocalStep, deskVars, InForce
  <1>30. CASE UNCHANGED vars
    BY <1>30 DEF TypeOK, vars, localVars, deskVars
  <1>. QED
    BY <1>1, <1>2, <1>3, <1>4, <1>5, <1>6, <1>7, <1>8, <1>9, <1>10, <1>11, <1>12, <1>13, <1>14,
       <1>15, <1>16,
       <1>17, <1>18, <1>19, <1>20, <1>21, <1>22, <1>23, <1>24, <1>25, <1>26, <1>27, <1>28, <1>29, <1>30 DEF Next

(* A request is of one kind.                                               *)
LEMMA KindsDiffer ==
  /\ Submitters \subseteq Calls /\ Withdrawers \subseteq Calls /\ Signers \subseteq Calls
  /\ Cancellers \subseteq Calls /\ Terminators \subseteq Calls /\ Nil \notin Calls
  /\ \A q \in Submitters : q \notin Withdrawers /\ q \notin Signers /\ q \notin Cancellers /\ q \notin Terminators
  /\ \A q \in Withdrawers : q \notin Signers /\ q \notin Cancellers /\ q \notin Terminators
  /\ \A q \in Signers : q \notin Cancellers /\ q \notin Terminators
  /\ \A q \in Cancellers : q \notin Terminators
  BY CallsAssumption DEF Calls

(* What request q holds after a step of its own; the others keep theirs.   *)
After(q, at, status, v, k, i) ==
  /\ request'[q].at = at /\ request'[q].status = status /\ request'[q].version = v
  /\ request'[q].key = k /\ request'[q].inst = i
  /\ \A p \in Calls : p # q => request'[p] = request[p]

AfterIdle(q) == After(q, "idle", "none", 0, Nil, Nil)

(* Every step of a request leaves it as the code leaves its local          *)
(* variables.                                                              *)
LEMMA RequestAfter ==
  ASSUME TypeOK
  PROVE  /\ \A s \in Submitters : SubmitView(s) =>
               After(s, "viewed", contract.status, contract.latest, Nil, Nil)
         /\ \A s \in Submitters : SubmitPersistKey(s) =>
               After(s, "keyed", request[s].status, request[s].version, request[s].key,
                     request[s].inst)
         /\ \A s \in Submitters : SubmitReadKey(s) =>
               After(s, "ready", request[s].status, request[s].version, contract.key,
                     request[s].inst)
         /\ \A s \in Submitters : SubmitLock(s) =>
               After(s, "locked", request[s].status, request[s].version, request[s].key,
                     request[s].inst)
         /\ \A s \in Submitters, i \in Instances : SubmitServed(s, i) =>
               After(s, "answered", request[s].status, request[s].version, request[s].key, i)
         /\ \A w \in Withdrawers : WithdrawLock(w) =>
               After(w, "locked", "none", contract.latest, Nil, contract.inst)
         /\ \A w \in Withdrawers : WithdrawServed(w) =>
               After(w, "answered", request[w].status, request[w].version, request[w].key,
                     request[w].inst)
         /\ \A g \in Signers : SignView(g) =>
               After(g, "viewed", "none", contract.latest, Nil, Nil)
         /\ \A c \in Cancellers : CancelView(c) => After(c, "viewed", "none", 0, Nil, Nil)
         /\ \A t \in Terminators : TerminateMark(t) =>
               After(t, "marked", "none", 0, Nil, Nil)
         /\ \A t \in Terminators, i \in Instances : TerminateServed(t, i) =>
               After(t, "answered", request[t].status, request[t].version, request[t].key, i)
         /\ \A s \in Submitters : SubmitCommit(s) => AfterIdle(s)
         /\ \A q \in Calls : Fail(q) => AfterIdle(q)
         /\ \A w \in Withdrawers : WithdrawCommit(w) => AfterIdle(w)
         /\ \A g \in Signers : Sign(g) => AfterIdle(g)
         /\ \A c \in Cancellers : Cancel(c) => AfterIdle(c)
         /\ \A t \in Terminators : TerminateCommit(t) => AfterIdle(t)
         /\ \A t \in Terminators : TerminateLock(t) =>
               \/ AfterIdle(t) /\ holder' = Nil
               \/ /\ contract.status = "TERMINATING" /\ termination.inst = Nil /\ holder' = t
                  /\ After(t, "locked", request[t].status, request[t].version, termination.key,
                        request[t].inst)
  <1>. USE KindsDiffer DEF After
  <1>0. request \in [Calls -> RequestType] /\ \A q \in Calls : request[q] \in RequestType
    BY DEF TypeOK
  <1>1. ASSUME NEW s \in Submitters, SubmitView(s)
        PROVE After(s, "viewed", contract.status, contract.latest, Nil, Nil)
    BY <1>0, <1>1 DEF SubmitView, Step, Idle, RequestType
  <1>2. ASSUME NEW s \in Submitters, SubmitPersistKey(s)
        PROVE After(s, "keyed", request[s].status, request[s].version, request[s].key,
              request[s].inst)
    BY <1>0, <1>2 DEF SubmitPersistKey, Step, Idle, RequestType
  <1>3. ASSUME NEW s \in Submitters, SubmitReadKey(s)
        PROVE After(s, "ready", request[s].status, request[s].version, contract.key,
              request[s].inst)
    BY <1>0, <1>3 DEF SubmitReadKey, Step, Idle, RequestType
  <1>4. ASSUME NEW s \in Submitters, SubmitLock(s)
        PROVE After(s, "locked", request[s].status, request[s].version, request[s].key,
              request[s].inst)
    BY <1>0, <1>4 DEF SubmitLock, Step, Idle, RequestType
  <1>5. ASSUME NEW s \in Submitters, NEW i \in Instances, SubmitServed(s, i)
        PROVE After(s, "answered", request[s].status, request[s].version, request[s].key, i)
    BY <1>0, <1>5 DEF SubmitServed, Step, Idle, RequestType
  <1>6. ASSUME NEW w \in Withdrawers, WithdrawLock(w)
        PROVE After(w, "locked", "none", contract.latest, Nil, contract.inst)
    BY <1>0, <1>6 DEF WithdrawLock, Step, Idle, RequestType
  <1>7. ASSUME NEW w \in Withdrawers, WithdrawServed(w)
        PROVE After(w, "answered", request[w].status, request[w].version, request[w].key,
              request[w].inst)
    BY <1>0, <1>7 DEF WithdrawServed, Step, Idle, RequestType
  <1>8. ASSUME NEW g \in Signers, SignView(g)
        PROVE After(g, "viewed", "none", contract.latest, Nil, Nil)
    BY <1>0, <1>8 DEF SignView, Step, Idle, RequestType
  <1>9. ASSUME NEW c \in Cancellers, CancelView(c) PROVE After(c, "viewed", "none", 0, Nil, Nil)
    BY <1>0, <1>9 DEF CancelView, Step, Idle, RequestType
  <1>10. ASSUME NEW t \in Terminators, TerminateMark(t)
        PROVE After(t, "marked", "none", 0, Nil, Nil)
    BY <1>0, <1>10 DEF TerminateMark, Step, Idle, RequestType
  <1>11. ASSUME NEW t \in Terminators, NEW i \in Instances, TerminateServed(t, i)
        PROVE After(t, "answered", request[t].status, request[t].version, request[t].key, i)
    BY <1>0, <1>11 DEF TerminateServed, Step, Idle, RequestType
  <1>12. ASSUME NEW s \in Submitters, SubmitCommit(s) PROVE AfterIdle(s)
    BY <1>0, <1>12 DEF SubmitCommit, Step, Idle, AfterIdle
  <1>13. ASSUME NEW q \in Calls, Fail(q) PROVE AfterIdle(q)
    BY <1>0, <1>13 DEF Fail, Step, Idle, AfterIdle
  <1>14. ASSUME NEW w \in Withdrawers, WithdrawCommit(w) PROVE AfterIdle(w)
    BY <1>0, <1>14 DEF WithdrawCommit, Step, Idle, AfterIdle
  <1>15. ASSUME NEW g \in Signers, Sign(g) PROVE AfterIdle(g)
    BY <1>0, <1>15 DEF Sign, Step, Idle, AfterIdle
  <1>16. ASSUME NEW c \in Cancellers, Cancel(c) PROVE AfterIdle(c)
    BY <1>0, <1>16 DEF Cancel, Step, Idle, AfterIdle
  <1>17. ASSUME NEW t \in Terminators, TerminateCommit(t) PROVE AfterIdle(t)
    BY <1>0, <1>17 DEF TerminateCommit, Step, Idle, AfterIdle
  <1>18. ASSUME NEW t \in Terminators, TerminateLock(t)
        PROVE  \/ AfterIdle(t) /\ holder' = Nil
               \/ /\ contract.status = "TERMINATING" /\ termination.inst = Nil /\ holder' = t
                  /\ After(t, "locked", request[t].status, request[t].version, termination.key,
                        request[t].inst)
    <2>1. CASE contract.status # "TERMINATING" \/ termination.inst # Nil
      BY <1>0, <1>18, <2>1 DEF TerminateLock, Step, Idle, AfterIdle
    <2>2. CASE contract.status = "TERMINATING" /\ termination.inst = Nil
      BY <1>0, <1>18, <2>2 DEF TerminateLock, Step, RequestType
    <2>. QED  BY <2>1, <2>2
  <1>. HIDE DEF After
  <1>. QED
    BY <1>1, <1>2, <1>3, <1>4, <1>5, <1>6, <1>7, <1>8, <1>9, <1>10, <1>11, <1>12, <1>13, <1>14,
       <1>15, <1>16, <1>17, <1>18

(* The row lock: whoever takes it finds it free, and every statement on    *)
(* the contract waits for it.                                              *)
LEMMA LockingPreserved ==
  ASSUME TypeOK, Locking, [Next]_vars,
         contract.status = "EXECUTING" => version[contract.latest].status # "DRAFT"
  PROVE  Locking'
  <1>0. /\ Locking /\ contract \in ContractType /\ request \in [Calls -> RequestType]
        /\ termination \in TerminationType
    BY DEF TypeOK
  <1>f. RowFree => \A q \in Calls : ~Locked(q)
    BY KindsDiffer DEF Locking, RowFree
  <1>o. \A p, q \in Calls : Locked(p) /\ Locked(q) => p = q
    BY DEF Locking
  <1>. USE KindsDiffer DEF Locking
  <1>1. ASSUME NEW s \in Submitters, SubmitView(s) PROVE Locking'
    <2>1. After(s, "viewed", contract.status, contract.latest, Nil, Nil)
      BY <1>1, RequestAfter
    <2>. QED  BY <1>0, <1>f, <1>o, <1>1, <2>1 DEF SubmitView, Step, After, AfterIdle, localVars, Locked
  <1>2. ASSUME NEW s \in Submitters, SubmitPersistKey(s) PROVE Locking'
    <2>1. After(s, "keyed", request[s].status, request[s].version, request[s].key, request[s].inst)
      BY <1>2, RequestAfter
    <2>. QED  BY <1>0, <1>f, <1>o, <1>2, <2>1 DEF SubmitPersistKey, Step, After, AfterIdle, localVars, Locked
  <1>3. ASSUME NEW s \in Submitters, SubmitReadKey(s) PROVE Locking'
    <2>1. After(s, "ready", request[s].status, request[s].version, contract.key, request[s].inst)
      BY <1>3, RequestAfter
    <2>. QED  BY <1>0, <1>f, <1>o, <1>3, <2>1 DEF SubmitReadKey, Step, After, AfterIdle, localVars, Locked
  <1>4. ASSUME NEW s \in Submitters, SubmitLock(s) PROVE Locking'
    <2>1. After(s, "locked", request[s].status, request[s].version, request[s].key, request[s].inst)
      BY <1>4, RequestAfter
    <2>2. /\ UNCHANGED <<contract, termination>>
          /\ holder' = s
          /\ contract.status = request[s].status
          /\ request[s].at = "ready"
      BY <1>4 DEF SubmitLock, Step, localVars
    <2>3. \A p \in Calls : p # s => ~Locked(p)' /\ request'[p] = request[p]
      BY <1>f, <1>4, <2>1 DEF After, SubmitLock, Locked
    <2>4. /\ request'[s].status = request[s].status
          /\ request'[s].inst = request[s].inst
          /\ request'[s].version = request[s].version
      BY <2>1 DEF After
    <2>. QED  BY <1>0, <2>2, <2>3, <2>4 DEF Locked
  <1>5. ASSUME NEW s \in Submitters, NEW i \in Instances, SubmitServed(s, i) PROVE Locking'
    <2>1. After(s, "answered", request[s].status, request[s].version, request[s].key, i)
      BY <1>5, RequestAfter
    <2>. QED  BY <1>0, <1>f, <1>o, <1>5, <2>1 DEF SubmitServed, Step, After, AfterIdle, localVars, Locked
  <1>6. ASSUME NEW s \in Submitters, SubmitCommit(s) PROVE Locking'
    <2>1. AfterIdle(s)
      BY <1>6, RequestAfter
    <2>. QED  BY <1>0, <1>f, <1>o, <1>6, <2>1 DEF SubmitCommit, Step, After, AfterIdle, localVars, Locked
  <1>7. ASSUME NEW q \in Calls, Fail(q) PROVE Locking'
    <2>1. AfterIdle(q)
      BY <1>7, RequestAfter
    <2>. QED  BY <1>0, <1>f, <1>o, <1>7, <2>1 DEF Fail, Step, After, AfterIdle, localVars, Locked
  <1>8. ASSUME NEW i \in Instances, Decide(i) PROVE Locking'
    BY <1>0, <1>8 DEF Decide, localVars, Locked
  <1>9. ASSUME NEW i \in Instances, ApplyDecision(i) PROVE Locking'
    BY <1>0, <1>f, <1>9 DEF ApplyDecision, LocalStep, ContractType, Locked
  <1>10. ASSUME NEW i \in Instances, IgnoreDecision(i) PROVE Locking'
    BY <1>0, <1>f, <1>10 DEF IgnoreDecision, LocalStep, ContractType, Locked
  <1>11. ASSUME NEW w \in Withdrawers, WithdrawLock(w) PROVE Locking'
    <2>1. After(w, "locked", "none", contract.latest, Nil, contract.inst)
      BY <1>11, RequestAfter
    <2>2. UNCHANGED <<contract, termination>> /\ holder' = w /\ contract.status = "PENDING_APPROVAL"
      BY <1>11 DEF WithdrawLock, Step, localVars
    <2>3. \A p \in Calls : p # w => ~Locked(p)' /\ request'[p] = request[p]
      BY <1>f, <1>11, <2>1 DEF After, WithdrawLock, Locked
    <2>4. /\ request'[w].status = "none"
          /\ request'[w].inst = contract.inst
          /\ request'[w].version = contract.latest
      BY <2>1 DEF After
    <2>. QED  BY <1>0, <2>2, <2>3, <2>4 DEF Locked
  <1>12. ASSUME NEW w \in Withdrawers, WithdrawServed(w) PROVE Locking'
    <2>1. After(w, "answered", request[w].status, request[w].version, request[w].key,
          request[w].inst)
      BY <1>12, RequestAfter
    <2>. QED  BY <1>0, <1>f, <1>o, <1>12, <2>1 DEF WithdrawServed, Step, After, AfterIdle, localVars, Locked
  <1>13. ASSUME NEW w \in Withdrawers, WithdrawCommit(w) PROVE Locking'
    <2>1. AfterIdle(w)
      BY <1>13, RequestAfter
    <2>. QED  BY <1>0, <1>f, <1>o, <1>13, <2>1 DEF WithdrawCommit, Step, After, AfterIdle, localVars, Locked
  <1>14. ASSUME NEW g \in Signers, SignView(g) PROVE Locking'
    <2>1. After(g, "viewed", "none", contract.latest, Nil, Nil)
      BY <1>14, RequestAfter
    <2>2. UNCHANGED <<contract, termination, holder>>
      BY <1>14 DEF SignView, localVars
    <2>3. \A p \in Calls : (Locked(p)' => Locked(p)) /\ (p # g => request'[p] = request[p])
      BY <2>1 DEF After, Locked
    <2>. QED  BY <1>0, <2>2, <2>3 DEF Locked
  <1>15. ASSUME NEW g \in Signers, Sign(g) PROVE Locking'
    <2>1. AfterIdle(g)
      BY <1>15, RequestAfter
    <2>. QED  BY <1>0, <1>f, <1>o, <1>15, <2>1 DEF Sign, Step, After, AfterIdle, localVars, Locked
  <1>16. ASSUME NEW c \in Cancellers, CancelView(c) PROVE Locking'
    <2>1. After(c, "viewed", "none", 0, Nil, Nil)
      BY <1>16, RequestAfter
    <2>2. UNCHANGED <<contract, termination, holder>>
      BY <1>16 DEF CancelView, localVars
    <2>3. \A p \in Calls : (Locked(p)' => Locked(p)) /\ (p # c => request'[p] = request[p])
      BY <2>1 DEF After, Locked
    <2>. QED  BY <1>0, <2>2, <2>3 DEF Locked
  <1>17. ASSUME NEW c \in Cancellers, Cancel(c) PROVE Locking'
    <2>1. AfterIdle(c)
      BY <1>17, RequestAfter
    <2>. QED  BY <1>0, <1>f, <1>o, <1>17, <2>1 DEF Cancel, Step, After, AfterIdle, localVars, Locked
  <1>18. ASSUME NEW t \in Terminators, TerminateMark(t) PROVE Locking'
    <2>1. After(t, "marked", "none", 0, Nil, Nil)
      BY <1>18, RequestAfter
    <2>2. \A p \in Calls : ~Locked(p)' /\ (p # t => request'[p] = request[p])
      BY <1>f, <1>18, <2>1 DEF After, TerminateMark, Locked
    <2>. QED  BY <1>0, <1>18, <2>2 DEF TerminateMark, Locked
  <1>19. ASSUME NEW t \in Terminators, TerminateLock(t) PROVE Locking'
    <2>1. UNCHANGED <<contract, termination>>
      BY <1>19 DEF TerminateLock, localVars
    <2>2. CASE AfterIdle(t) /\ holder' = Nil
      <3>1. \A p \in Calls : ~Locked(p)' /\ (p # t => request'[p] = request[p])
        BY <1>f, <1>19, <2>2 DEF After, AfterIdle, TerminateLock, Locked
      <3>. QED  BY <1>0, <2>1, <3>1 DEF Locked
    <2>3. CASE /\ contract.status = "TERMINATING" /\ termination.inst = Nil /\ holder' = t
               /\ After(t, "locked", request[t].status, request[t].version, termination.key,
                     request[t].inst)
      <3>1. \A p \in Calls : p # t => ~Locked(p)' /\ request'[p] = request[p]
        BY <1>f, <1>19, <2>3 DEF After, TerminateLock, Locked
      <3>2. request'[t].key = termination.key
        BY <2>3 DEF After
      <3>. QED  BY <1>0, <2>1, <2>3, <3>1, <3>2 DEF Locked
    <2>. QED  BY <1>19, <2>2, <2>3, RequestAfter
  <1>20. ASSUME NEW t \in Terminators, NEW i \in Instances, TerminateServed(t, i) PROVE Locking'
    <2>1. After(t, "answered", request[t].status, request[t].version, request[t].key, i)
      BY <1>20, RequestAfter
    <2>. QED  BY <1>0, <1>f, <1>o, <1>20, <2>1 DEF TerminateServed, Step, After, AfterIdle, localVars, Locked
  <1>21. ASSUME NEW t \in Terminators, TerminateCommit(t) PROVE Locking'
    <2>1. AfterIdle(t)
      BY <1>21, RequestAfter
    <2>. QED  BY <1>0, <1>f, <1>o, <1>21, <2>1 DEF TerminateCommit, Step, After, AfterIdle, localVars, Locked
  <1>22. ASSUME NEW i \in Instances, ApplyTermination(i) PROVE Locking'
    BY <1>0, <1>f, <1>22 DEF ApplyTermination, LocalStep, ContractType, Locked
  <1>23. CASE Void
    BY <1>0, <1>f, <1>23 DEF Void, LocalStep, ContractType, Locked
  <1>24. CASE Delete
    BY <1>0, <1>f, <1>24 DEF Delete, LocalStep, ContractType, Locked
  <1>25. CASE Edit
    BY <1>0, <1>f, <1>25 DEF Edit, LocalStep, ContractType, Locked
  <1>26. CASE Change
    BY <1>0, <1>f, <1>26 DEF Change, LocalStep, ContractType, Locked
  <1>27. CASE Pause
    BY <1>0, <1>f, <1>27 DEF Pause, LocalStep, ContractType, Locked
  <1>28. CASE Resume
    BY <1>0, <1>f, <1>28 DEF Resume, LocalStep, ContractType, Locked
  <1>29. CASE Complete
    BY <1>0, <1>f, <1>29 DEF Complete, LocalStep, ContractType, Locked
  <1>30. CASE UNCHANGED vars
    BY <1>0, <1>30 DEF vars, localVars, deskVars, Locked
  <1>. QED
    BY <1>1, <1>2, <1>3, <1>4, <1>5, <1>6, <1>7, <1>8, <1>9, <1>10, <1>11, <1>12, <1>13, <1>14,
       <1>15,
       <1>16, <1>17, <1>18, <1>19, <1>20, <1>21, <1>22, <1>23, <1>24, <1>25, <1>26, <1>27, <1>28, <1>29, <1>30 DEF Next

(* Every handler that moves the contract moves the version it names, or is *)
(* stopped by the trigger (MayMove).                                       *)
LEMMA VersionedPreserved ==
  ASSUME TypeOK, Locking, Versioned, VersionsRead, [Next]_vars
  PROVE  Versioned'
  <1>0. /\ contract \in ContractType /\ version \in [Versions -> VersionType]
        /\ termination \in TerminationType /\ contract.latest \in Versions
    BY DEF TypeOK, ContractType
  <1>. USE BoundAssumption DEF Versioned, Frozen, Versions
  <1>1. ASSUME NEW s \in Submitters, SubmitView(s) PROVE Versioned'
    <2>2. UNCHANGED <<contract, version, termination>>
      BY <1>1 DEF SubmitView, localVars
    <2>. QED  BY <1>0, <2>2
  <1>2. ASSUME NEW s \in Submitters, SubmitPersistKey(s) PROVE Versioned'
    BY <1>0, <1>2 DEF SubmitPersistKey, ContractType, InForce
  <1>3. ASSUME NEW s \in Submitters, SubmitReadKey(s) PROVE Versioned'
    <2>2. UNCHANGED <<contract, version, termination>>
      BY <1>3 DEF SubmitReadKey, localVars
    <2>. QED  BY <1>0, <2>2
  <1>4. ASSUME NEW s \in Submitters, SubmitLock(s) PROVE Versioned'
    <2>2. UNCHANGED <<contract, version, termination>>
      BY <1>4 DEF SubmitLock, localVars
    <2>. QED  BY <1>0, <2>2
  <1>5. ASSUME NEW s \in Submitters, NEW i \in Instances, SubmitServed(s, i) PROVE Versioned'
    <2>2. UNCHANGED <<contract, version, termination>>
      BY <1>5 DEF SubmitServed, localVars
    <2>. QED  BY <1>0, <2>2
  <1>6. ASSUME NEW s \in Submitters, SubmitCommit(s) PROVE Versioned'
    <2>1. /\ contract.status = "DRAFT" /\ request[s].version \in 1..contract.latest
          /\ MayMove(request[s].version, "PENDING_APPROVAL")
      BY <1>6, KindsDiffer DEF SubmitCommit, Step, Locking, Locked, VersionsRead
    <2>2. request[s].version = contract.latest
      BY <1>0, <2>1 DEF MayMove
    <2>. QED  BY <1>0, <1>6, <2>1, <2>2 DEF SubmitCommit, ContractType, VersionType, InForce
  <1>7. ASSUME NEW q \in Calls, Fail(q) PROVE Versioned'
    <2>2. UNCHANGED <<contract, version, termination>>
      BY <1>7 DEF Fail, localVars
    <2>. QED  BY <1>0, <2>2
  <1>8. ASSUME NEW i \in Instances, Decide(i) PROVE Versioned'
    <2>2. UNCHANGED <<contract, version, termination>>
      BY <1>8 DEF Decide, localVars
    <2>. QED  BY <1>0, <2>2
  <1>9. ASSUME NEW i \in Instances, ApplyDecision(i) PROVE Versioned'
    <2>1. /\ contract.status \in {"DRAFT", "PENDING_APPROVAL"}
          /\ version[contract.latest].status = contract.status
      BY <1>9 DEF ApplyDecision, Recovers
    <2>. QED  BY <1>0, <1>9, <2>1 DEF ApplyDecision, ContractTo, ContractType, VersionType, InForce
  <1>10. ASSUME NEW i \in Instances, IgnoreDecision(i) PROVE Versioned'
    BY <1>0, <1>10 DEF IgnoreDecision, ContractType
  <1>11. ASSUME NEW w \in Withdrawers, WithdrawLock(w) PROVE Versioned'
    <2>2. UNCHANGED <<contract, version, termination>>
      BY <1>11 DEF WithdrawLock, localVars
    <2>. QED  BY <1>0, <2>2
  <1>12. ASSUME NEW w \in Withdrawers, WithdrawServed(w) PROVE Versioned'
    <2>2. UNCHANGED <<contract, version, termination>>
      BY <1>12 DEF WithdrawServed, localVars
    <2>. QED  BY <1>0, <2>2
  <1>13. ASSUME NEW w \in Withdrawers, WithdrawCommit(w) PROVE Versioned'
    <2>1. contract.status = "PENDING_APPROVAL" /\ request[w].version = contract.latest
      BY <1>13, KindsDiffer DEF WithdrawCommit, Step, Locking, Locked
    <2>. QED  BY <1>0, <1>13, <2>1 DEF WithdrawCommit, ContractType, VersionType, InForce
  <1>14. ASSUME NEW g \in Signers, SignView(g) PROVE Versioned'
    <2>2. UNCHANGED <<contract, version, termination>>
      BY <1>14 DEF SignView, localVars
    <2>. QED  BY <1>0, <2>2
  <1>15. ASSUME NEW g \in Signers, Sign(g) PROVE Versioned'
    <2>1. request[g].version \in 1..contract.latest /\ version[request[g].version].status \in Frozen
      BY <1>15 DEF Sign, Step, VersionsRead
    <2>2. /\ contract'.status = "EXECUTING" /\ contract'.latest = contract.latest
          /\ contract'.inForce = request[g].version /\ contract.status = "PENDING_SIGN"
      BY <1>0, <1>15 DEF Sign, ContractType
    <2>3. \A v \in Versions : version[v].status \in Frozen => version'[v].status \in Frozen
      BY <1>0, <1>15 DEF Sign, VersionType
    <2>. QED  BY <1>0, <2>1, <2>2, <2>3 DEF InForce
  <1>16. ASSUME NEW c \in Cancellers, CancelView(c) PROVE Versioned'
    <2>2. UNCHANGED <<contract, version, termination>>
      BY <1>16 DEF CancelView, localVars
    <2>. QED  BY <1>0, <2>2
  <1>17. ASSUME NEW c \in Cancellers, Cancel(c) PROVE Versioned'
    BY <1>0, <1>17 DEF Cancel, ContractType, InForce
  <1>18. ASSUME NEW t \in Terminators, TerminateMark(t) PROVE Versioned'
    BY <1>0, <1>18, NilAssumption DEF TerminateMark, ContractType, TerminationType, InForce
  <1>19. ASSUME NEW t \in Terminators, TerminateLock(t) PROVE Versioned'
    <2>2. UNCHANGED <<contract, version, termination>>
      BY <1>19 DEF TerminateLock, localVars
    <2>. QED  BY <1>0, <2>2
  <1>20. ASSUME NEW t \in Terminators, NEW i \in Instances, TerminateServed(t, i) PROVE Versioned'
    <2>2. UNCHANGED <<contract, version, termination>>
      BY <1>20 DEF TerminateServed, localVars
    <2>. QED  BY <1>0, <2>2
  <1>21. ASSUME NEW t \in Terminators, TerminateCommit(t) PROVE Versioned'
    BY <1>0, <1>21 DEF TerminateCommit, TerminationType
  <1>22. ASSUME NEW i \in Instances, ApplyTermination(i) PROVE Versioned'
    <2>1. \/ UNCHANGED contract
          \/ /\ contract.status = "TERMINATING"
             /\ contract' = [contract EXCEPT !.status = TerminationTo(i)]
             /\ TerminationTo(i) \in {"TERMINATED", "EXECUTING", "PAUSED"}
      BY <1>0, <1>22 DEF ApplyTermination, EndsTermination, TerminationTo, TerminationType
    <2>. QED  BY <1>0, <1>22, <2>1 DEF ApplyTermination, ContractType, InForce
  <1>23. CASE Void
    BY <1>0, <1>23 DEF Void, LocalStep, ContractType, VersionType, InForce
  <1>24. CASE Delete
    BY <1>0, <1>24 DEF Delete, LocalStep, ContractType, VersionType, InForce
  <1>25. CASE Edit
    BY <1>0, <1>25 DEF Edit, LocalStep, ContractType, VersionType, InForce
  <1>26. CASE Change
    <2>1. /\ contract.status = "EXECUTING" /\ contract.latest + 1 \in Versions
          /\ version[contract.latest].status \in Frozen
      BY <1>0, <1>26 DEF Change, InForce
    <2>. QED  BY <1>0, <1>26, <2>1 DEF Change, ContractType, VersionType, InForce
  <1>27. CASE Pause
    BY <1>0, <1>27 DEF Pause, LocalStep, ContractType, VersionType, InForce
  <1>28. CASE Resume
    BY <1>0, <1>28 DEF Resume, LocalStep, ContractType, VersionType, InForce
  <1>29. CASE Complete
    BY <1>0, <1>29 DEF Complete, LocalStep, ContractType, VersionType, InForce
  <1>30. CASE UNCHANGED vars
    BY <1>0, <1>30 DEF vars, localVars, deskVars
  <1>. QED
    BY <1>1, <1>2, <1>3, <1>4, <1>5, <1>6, <1>7, <1>8, <1>9, <1>10, <1>11, <1>12, <1>13, <1>14,
       <1>15,
       <1>16, <1>17, <1>18, <1>19, <1>20, <1>21, <1>22, <1>23, <1>24, <1>25, <1>26, <1>27, <1>28, <1>29, <1>30 DEF Next

(* Versions are only added, and frozen ones stay frozen.                   *)
LEMMA VersionsReadPreserved ==
  ASSUME TypeOK, Locking, Versioned, VersionsRead, [Next]_vars
  PROVE  VersionsRead'
  <1>0. /\ contract \in ContractType /\ version \in [Versions -> VersionType]
        /\ request \in [Calls -> RequestType] /\ contract.latest \in Versions
    BY DEF TypeOK, ContractType
  <1>. USE BoundAssumption, KindsDiffer DEF VersionsRead, Frozen, Versions
  <1>1. ASSUME NEW s \in Submitters, SubmitView(s) PROVE VersionsRead'
    <2>1. After(s, "viewed", contract.status, contract.latest, Nil, Nil)
      BY <1>1, RequestAfter
    <2>2. UNCHANGED <<contract, version>>
      BY <1>1 DEF SubmitView, localVars
    <2>. QED  BY <1>0, <2>1, <2>2 DEF After, AfterIdle
  <1>2. ASSUME NEW s \in Submitters, SubmitPersistKey(s) PROVE VersionsRead'
    <2>1. After(s, "keyed", request[s].status, request[s].version, request[s].key, request[s].inst)
      BY <1>2, RequestAfter
    <2>2. /\ contract'.latest = contract.latest
          /\ \A u \in Versions : version[u].status \in Frozen => version'[u].status \in Frozen
      BY <1>0, <1>2 DEF SubmitPersistKey, ContractType, VersionType, MayMove
    <2>3. request[s].at # "idle"
      BY <1>2 DEF SubmitPersistKey, Step
    <2>. QED  BY <1>0, <2>1, <2>2, <2>3 DEF After, AfterIdle
  <1>3. ASSUME NEW s \in Submitters, SubmitReadKey(s) PROVE VersionsRead'
    <2>1. After(s, "ready", request[s].status, request[s].version, contract.key, request[s].inst)
      BY <1>3, RequestAfter
    <2>2. UNCHANGED <<contract, version>>
      BY <1>3 DEF SubmitReadKey, localVars
    <2>3. request[s].at # "idle"
      BY <1>3 DEF SubmitReadKey, Step
    <2>. QED  BY <1>0, <2>1, <2>2, <2>3 DEF After, AfterIdle
  <1>4. ASSUME NEW s \in Submitters, SubmitLock(s) PROVE VersionsRead'
    <2>1. After(s, "locked", request[s].status, request[s].version, request[s].key, request[s].inst)
      BY <1>4, RequestAfter
    <2>2. UNCHANGED <<contract, version>>
      BY <1>4 DEF SubmitLock, localVars
    <2>3. request[s].at # "idle"
      BY <1>4 DEF SubmitLock, Step
    <2>. QED  BY <1>0, <2>1, <2>2, <2>3 DEF After, AfterIdle
  <1>5. ASSUME NEW s \in Submitters, NEW i \in Instances, SubmitServed(s, i) PROVE VersionsRead'
    <2>1. After(s, "answered", request[s].status, request[s].version, request[s].key, i)
      BY <1>5, RequestAfter
    <2>2. UNCHANGED <<contract, version>>
      BY <1>5 DEF SubmitServed, localVars
    <2>3. request[s].at # "idle"
      BY <1>5 DEF SubmitServed, Step
    <2>. QED  BY <1>0, <2>1, <2>2, <2>3 DEF After, AfterIdle
  <1>6. ASSUME NEW s \in Submitters, SubmitCommit(s) PROVE VersionsRead'
    <2>1. AfterIdle(s)
      BY <1>6, RequestAfter
    <2>2. /\ contract'.latest = contract.latest
          /\ \A u \in Versions : version[u].status \in Frozen => version'[u].status \in Frozen
      BY <1>0, <1>6 DEF SubmitCommit, ContractType, VersionType, MayMove
    <2>. QED  BY <1>0, <2>1, <2>2 DEF After, AfterIdle
  <1>7. ASSUME NEW q \in Calls, Fail(q) PROVE VersionsRead'
    <2>1. AfterIdle(q)
      BY <1>7, RequestAfter
    <2>2. UNCHANGED <<contract, version>>
      BY <1>7 DEF Fail, localVars
    <2>. QED  BY <1>0, <2>1, <2>2 DEF After, AfterIdle
  <1>8. ASSUME NEW i \in Instances, Decide(i) PROVE VersionsRead'
    BY <1>0, <1>8 DEF Decide, LocalStep, ContractType, localVars
  <1>9. ASSUME NEW i \in Instances, ApplyDecision(i) PROVE VersionsRead'
    <2>1. /\ contract'.latest = contract.latest /\ UNCHANGED request
          /\ \A u \in Versions : version[u].status \in Frozen => version'[u].status \in Frozen
      <3>1. version[contract.latest].status \notin Frozen
        BY <1>9 DEF ApplyDecision, Recovers, Versioned
      <3>. QED  BY <1>0, <1>9, <3>1 DEF ApplyDecision, ContractType, VersionType
    <2>. QED  BY <1>0, <2>1
  <1>10. ASSUME NEW i \in Instances, IgnoreDecision(i) PROVE VersionsRead'
    BY <1>0, <1>10 DEF IgnoreDecision, LocalStep, ContractType, localVars
  <1>11. ASSUME NEW w \in Withdrawers, WithdrawLock(w) PROVE VersionsRead'
    <2>1. After(w, "locked", "none", contract.latest, Nil, contract.inst)
      BY <1>11, RequestAfter
    <2>2. UNCHANGED <<contract, version>>
      BY <1>11 DEF WithdrawLock, localVars
    <2>. QED  BY <1>0, <2>1, <2>2 DEF After, AfterIdle
  <1>12. ASSUME NEW w \in Withdrawers, WithdrawServed(w) PROVE VersionsRead'
    <2>1. After(w, "answered", request[w].status, request[w].version, request[w].key,
          request[w].inst)
      BY <1>12, RequestAfter
    <2>2. UNCHANGED <<contract, version>>
      BY <1>12 DEF WithdrawServed, localVars
    <2>. QED  BY <1>0, <2>1, <2>2 DEF After, AfterIdle
  <1>13. ASSUME NEW w \in Withdrawers, WithdrawCommit(w) PROVE VersionsRead'
    <2>1. AfterIdle(w)
      BY <1>13, RequestAfter
    <2>2. /\ contract'.latest = contract.latest
          /\ \A u \in Versions : version[u].status \in Frozen => version'[u].status \in Frozen
      BY <1>0, <1>13 DEF WithdrawCommit, ContractType, VersionType, MayMove
    <2>. QED  BY <1>0, <2>1, <2>2 DEF After, AfterIdle
  <1>14. ASSUME NEW g \in Signers, SignView(g) PROVE VersionsRead'
    <2>1. After(g, "viewed", "none", contract.latest, Nil, Nil)
      BY <1>14, RequestAfter
    <2>2. UNCHANGED <<contract, version>> /\ version[contract.latest].status \in Frozen
      BY <1>14 DEF SignView, localVars
    <2>. QED  BY <1>0, <2>1, <2>2 DEF After
  <1>15. ASSUME NEW g \in Signers, Sign(g) PROVE VersionsRead'
    <2>1. AfterIdle(g)
      BY <1>15, RequestAfter
    <2>2. /\ contract'.latest = contract.latest
          /\ \A u \in Versions : version[u].status \in Frozen => version'[u].status \in Frozen
      BY <1>0, <1>15 DEF Sign, ContractType, VersionType, MayMove
    <2>. QED  BY <1>0, <2>1, <2>2 DEF After, AfterIdle
  <1>16. ASSUME NEW c \in Cancellers, CancelView(c) PROVE VersionsRead'
    <2>1. After(c, "viewed", "none", 0, Nil, Nil)
      BY <1>16, RequestAfter
    <2>2. UNCHANGED <<contract, version>>
      BY <1>16 DEF CancelView, localVars
    <2>. QED  BY <1>0, <2>1, <2>2 DEF After, AfterIdle
  <1>17. ASSUME NEW c \in Cancellers, Cancel(c) PROVE VersionsRead'
    <2>1. AfterIdle(c)
      BY <1>17, RequestAfter
    <2>2. /\ contract'.latest = contract.latest
          /\ \A u \in Versions : version[u].status \in Frozen => version'[u].status \in Frozen
      BY <1>0, <1>17 DEF Cancel, ContractType, VersionType, MayMove
    <2>. QED  BY <1>0, <2>1, <2>2 DEF After, AfterIdle
  <1>18. ASSUME NEW t \in Terminators, TerminateMark(t) PROVE VersionsRead'
    <2>1. After(t, "marked", "none", 0, Nil, Nil)
      BY <1>18, RequestAfter
    <2>2. /\ contract'.latest = contract.latest
          /\ \A u \in Versions : version[u].status \in Frozen => version'[u].status \in Frozen
      BY <1>0, <1>18 DEF TerminateMark, ContractType, VersionType, MayMove
    <2>. QED  BY <1>0, <2>1, <2>2 DEF After, AfterIdle
  <1>19. ASSUME NEW t \in Terminators, TerminateLock(t) PROVE VersionsRead'
    <2>1. UNCHANGED <<contract, version>>
      BY <1>19 DEF TerminateLock, localVars
    <2>2. \A p \in Calls : p # t => request'[p] = request[p]
      BY <1>19, RequestAfter DEF After, AfterIdle
    <2>. QED  BY <1>0, <2>1, <2>2
  <1>20. ASSUME NEW t \in Terminators, NEW i \in Instances, TerminateServed(t, i)
        PROVE VersionsRead'
    <2>1. After(t, "answered", request[t].status, request[t].version, request[t].key, i)
      BY <1>20, RequestAfter
    <2>2. UNCHANGED <<contract, version>>
      BY <1>20 DEF TerminateServed, localVars
    <2>. QED  BY <1>0, <2>1, <2>2 DEF After, AfterIdle
  <1>21. ASSUME NEW t \in Terminators, TerminateCommit(t) PROVE VersionsRead'
    <2>1. AfterIdle(t)
      BY <1>21, RequestAfter
    <2>2. UNCHANGED <<contract, version>>
      BY <1>21 DEF TerminateCommit, localVars
    <2>. QED  BY <1>0, <2>1, <2>2 DEF After, AfterIdle
  <1>22. ASSUME NEW i \in Instances, ApplyTermination(i) PROVE VersionsRead'
    BY <1>0, <1>22 DEF ApplyTermination, LocalStep, ContractType, localVars
  <1>23. CASE Void
    BY <1>0, <1>23 DEF Void, LocalStep, ContractType, localVars
  <1>24. CASE Delete
    BY <1>0, <1>24 DEF Delete, LocalStep, ContractType, localVars
  <1>25. CASE Edit
    BY <1>0, <1>25 DEF Edit, LocalStep, ContractType, localVars
  <1>26. CASE Change
    <2>1. /\ contract'.latest = contract.latest + 1 /\ UNCHANGED request
          /\ \A u \in 1..contract.latest : version'[u] = version[u]
      BY <1>0, <1>26 DEF Change, LocalStep, ContractType
    <2>. QED  BY <1>0, <2>1
  <1>27. CASE Pause
    BY <1>0, <1>27 DEF Pause, LocalStep, ContractType, localVars
  <1>28. CASE Resume
    BY <1>0, <1>28 DEF Resume, LocalStep, ContractType, localVars
  <1>29. CASE Complete
    BY <1>0, <1>29 DEF Complete, LocalStep, ContractType, localVars
  <1>30. CASE UNCHANGED vars
    BY <1>0, <1>30 DEF vars, localVars, deskVars
  <1>. QED
    BY <1>1, <1>2, <1>3, <1>4, <1>5, <1>6, <1>7, <1>8, <1>9, <1>10, <1>11, <1>12, <1>13, <1>14,
       <1>15,
       <1>16, <1>17, <1>18, <1>19, <1>20, <1>21, <1>22, <1>23, <1>24, <1>25, <1>26, <1>27, <1>28, <1>29, <1>30 DEF Next

(* Request q, locked, has the approval service open instance i with key k. *)
Asks(i, k) ==
  /\ Desk!Open(i, Contract, k, "RUNNING") /\ UNCHANGED <<localVars, handled>>
  /\ \/ \E s \in Submitters : Locked(s) /\ k = request[s].key
     \/ \E t \in Terminators : Locked(t) /\ k = request[t].key

(* What a step does to the approval service and to the events consumed.    *)
LEMMA DeskSteps ==
  ASSUME TypeOK, Locking, Linked, [Next]_vars
  PROVE  \/ UNCHANGED <<deskVars, handled>>
         \/ \E i \in Instances, k \in AnyKey : Asks(i, k)
         \/ \E i \in Instances, v \in {"APPROVED", "RETURNED"} :
              Desk!Conclude(i, v) /\ UNCHANGED <<localVars, handled>>
         \/ \E i \in Instances : Desk!Recall(i) /\ i = contract.inst /\ UNCHANGED <<localVars, handled>>
         \/ \E i \in Instances :
              Undelivered(i) /\ handled' = handled \union {i} /\ UNCHANGED deskVars
  <1>. DEFINE Goal == \/ UNCHANGED <<deskVars, handled>>
                      \/ \E i \in Instances, k \in AnyKey : Asks(i, k)
                      \/ \E i \in Instances, v \in {"APPROVED", "RETURNED"} :
                           Desk!Conclude(i, v) /\ UNCHANGED <<localVars, handled>>
                      \/ \E i \in Instances : Desk!Recall(i) /\ i = contract.inst /\ UNCHANGED <<localVars, handled>>
                      \/ \E i \in Instances :
                           Undelivered(i) /\ handled' = handled \union {i} /\ UNCHANGED deskVars
  <1>0. \A q \in Calls : request[q].key \in AnyKey
    BY DEF TypeOK, RequestType
  <1>1. ASSUME NEW s \in Submitters, SubmitView(s) PROVE Goal
    BY <1>1 DEF SubmitView
  <1>2. ASSUME NEW s \in Submitters, SubmitPersistKey(s) PROVE Goal
    BY <1>2 DEF SubmitPersistKey
  <1>3. ASSUME NEW s \in Submitters, SubmitReadKey(s) PROVE Goal
    BY <1>3 DEF SubmitReadKey
  <1>4. ASSUME NEW s \in Submitters, SubmitLock(s) PROVE Goal
    BY <1>4 DEF SubmitLock
  <1>5. ASSUME NEW s \in Submitters, NEW i \in Instances, SubmitServed(s, i) PROVE Goal
    <2>1. CASE UNCHANGED deskVars
      BY <1>5, <2>1 DEF SubmitServed
    <2>2. CASE Desk!Open(i, Contract, request[s].key, "RUNNING")
      <3>1. Asks(i, request[s].key)
        BY <1>5, <2>2 DEF SubmitServed, Asks, Step, Locked
      <3>2. request[s].key \in AnyKey
        BY <1>0, KindsDiffer
      <3>. QED  BY <3>1, <3>2
    <2>. QED  BY <1>5, <2>1, <2>2 DEF SubmitServed, Submitted
  <1>6. ASSUME NEW s \in Submitters, SubmitCommit(s) PROVE Goal
    BY <1>6 DEF SubmitCommit
  <1>7. ASSUME NEW q \in Calls, Fail(q) PROVE Goal
    BY <1>7 DEF Fail
  <1>8. ASSUME NEW i \in Instances, Decide(i) PROVE Goal
    BY <1>8 DEF Decide
  <1>9. ASSUME NEW i \in Instances, ApplyDecision(i) PROVE Goal
    BY <1>9 DEF ApplyDecision
  <1>10. ASSUME NEW i \in Instances, IgnoreDecision(i) PROVE Goal
    BY <1>10 DEF IgnoreDecision
  <1>11. ASSUME NEW w \in Withdrawers, WithdrawLock(w) PROVE Goal
    BY <1>11 DEF WithdrawLock
  <1>12. ASSUME NEW w \in Withdrawers, WithdrawServed(w) PROVE Goal
    <2>1. UNCHANGED handled /\ UNCHANGED localVars
      BY <1>12 DEF WithdrawServed
    <2>2. CASE UNCHANGED deskVars
      BY <2>1, <2>2
    <2>3. CASE Desk!Recall(request[w].inst)
      <3>1. request[w].inst = contract.inst /\ contract.status = "PENDING_APPROVAL"
        BY <1>12, KindsDiffer DEF WithdrawServed, Step, Locking, Locked
      <3>2. contract.inst \in Instances
        BY <3>1 DEF Linked, TypeOK, ContractType
      <3>. QED  BY <2>1, <2>3, <3>1, <3>2
    <2>. QED  BY <1>12, <2>2, <2>3 DEF WithdrawServed
  <1>13. ASSUME NEW w \in Withdrawers, WithdrawCommit(w) PROVE Goal
    BY <1>13 DEF WithdrawCommit
  <1>14. ASSUME NEW g \in Signers, SignView(g) PROVE Goal
    BY <1>14 DEF SignView
  <1>15. ASSUME NEW g \in Signers, Sign(g) PROVE Goal
    BY <1>15 DEF Sign
  <1>16. ASSUME NEW c \in Cancellers, CancelView(c) PROVE Goal
    BY <1>16 DEF CancelView
  <1>17. ASSUME NEW c \in Cancellers, Cancel(c) PROVE Goal
    BY <1>17 DEF Cancel
  <1>18. ASSUME NEW t \in Terminators, TerminateMark(t) PROVE Goal
    BY <1>18 DEF TerminateMark
  <1>19. ASSUME NEW t \in Terminators, TerminateLock(t) PROVE Goal
    BY <1>19 DEF TerminateLock
  <1>20. ASSUME NEW t \in Terminators, NEW i \in Instances, TerminateServed(t, i) PROVE Goal
    <2>1. CASE UNCHANGED deskVars
      BY <1>20, <2>1 DEF TerminateServed
    <2>2. CASE Desk!Open(i, Contract, request[t].key, "RUNNING")
      <3>1. Asks(i, request[t].key)
        BY <1>20, <2>2 DEF TerminateServed, Asks, Step, Locked
      <3>2. request[t].key \in AnyKey
        BY <1>0, KindsDiffer
      <3>. QED  BY <3>1, <3>2
    <2>. QED  BY <1>20, <2>1, <2>2 DEF TerminateServed, Submitted
  <1>21. ASSUME NEW t \in Terminators, TerminateCommit(t) PROVE Goal
    BY <1>21 DEF TerminateCommit
  <1>22. ASSUME NEW i \in Instances, ApplyTermination(i) PROVE Goal
    BY <1>22 DEF ApplyTermination
  <1>23. CASE Void
    BY <1>23 DEF Void, LocalStep
  <1>24. CASE Delete
    BY <1>24 DEF Delete, LocalStep
  <1>25. CASE Edit
    BY <1>25 DEF Edit, LocalStep
  <1>26. CASE Change
    BY <1>26 DEF Change, LocalStep
  <1>27. CASE Pause
    BY <1>27 DEF Pause, LocalStep
  <1>28. CASE Resume
    BY <1>28 DEF Resume, LocalStep
  <1>29. CASE Complete
    BY <1>29 DEF Complete, LocalStep
  <1>30. CASE UNCHANGED vars
    BY <1>30 DEF vars
  <1>. QED
    BY <1>1, <1>2, <1>3, <1>4, <1>5, <1>6, <1>7, <1>8, <1>9, <1>10, <1>11, <1>12, <1>13, <1>14,
       <1>15,
       <1>16, <1>17, <1>18, <1>19, <1>20, <1>21, <1>22, <1>23, <1>24, <1>25, <1>26, <1>27, <1>28, <1>29, <1>30 DEF Next

LEMMA AnswersPreserved ==
  ASSUME TypeOK, Locking, Linked, Answers, [Next]_vars
  PROVE  Answers'
  <1>0. /\ verdict \in [Instances -> Desk!Statuses]
        /\ announced \in [Instances -> Desk!Verdicts \union {"none"}]
        /\ doc \in [Instances -> {Contract, Nil}] /\ key \in [Instances -> AnyKey]
        /\ handled \subseteq Instances
    BY DEF TypeOK
  <1>. USE <1>0 DEF Answers
  <1>1. CASE UNCHANGED <<deskVars, handled>>
    BY <1>1 DEF deskVars
  <1>2. ASSUME NEW i \in Instances, NEW k \in AnyKey, Asks(i, k) PROVE Answers'
    <2>1. /\ verdict[i] = "none" /\ announced[i] = "none" /\ i \notin handled
          /\ k # Nil => \A j \in Instances : key[j] # k
      <3>1. k # Nil => \A j \in Instances : doc[j] = Contract => key[j] # k
        BY <1>2 DEF Asks, Desk!Open, Desk!Answered
      <3>2. verdict[i] = "none" /\ \A j \in Instances : key[j] # Nil => doc[j] = Contract
        BY <1>2 DEF Asks, Desk!Open
      <3>. QED  BY <3>1, <3>2
    <2>2. /\ verdict'[i] = "RUNNING" /\ doc'[i] = Contract /\ key'[i] = k /\ announced'[i] = "none"
          /\ \A j \in Instances : j # i => /\ verdict'[j] = verdict[j] /\ doc'[j] = doc[j]
                                         /\ key'[j] = key[j] /\ announced'[j] = announced[j]
          /\ handled' = handled
      BY <1>2 DEF Asks, Desk!Open
    <2>. QED  BY <2>1, <2>2
  <1>3. ASSUME NEW i \in Instances, NEW v \in {"APPROVED", "RETURNED"}, Desk!Conclude(i, v),
        UNCHANGED handled
        PROVE  Answers'
    <2>1. /\ verdict[i] = "RUNNING" /\ verdict'[i] = v /\ announced'[i] = v
          /\ \A j \in Instances : j # i => verdict'[j] = verdict[j] /\ announced'[j] = announced[j]
          /\ doc' = doc /\ key' = key
      BY <1>3 DEF Desk!Conclude
    <2>. QED  BY <1>3, <2>1
  <1>4. ASSUME NEW i \in Instances, Desk!Recall(i), UNCHANGED handled PROVE Answers'
    <2>1. /\ verdict[i] = "RUNNING" /\ verdict'[i] = "CANCELLED" /\ announced' = announced
          /\ \A j \in Instances : j # i => verdict'[j] = verdict[j]
          /\ doc' = doc /\ key' = key
      BY <1>4 DEF Desk!Recall
    <2>. QED  BY <1>4, <2>1
  <1>5. ASSUME NEW i \in Instances, Undelivered(i), handled' = handled \union {i},
        UNCHANGED deskVars
        PROVE  Answers'
    BY <1>5 DEF Undelivered, deskVars
  <1>. QED
    BY <1>1, <1>2, <1>3, <1>4, <1>5, DeskSteps

(* What the approval service knows, it never forgets.                      *)
LEMMA DeskRemembers ==
  ASSUME TypeOK, Locking, Linked, Answers, [Next]_vars
  PROVE  /\ \A i \in Instances : verdict[i] # "none" => verdict'[i] # "none" /\ key'[i] = key[i]
         /\ \A i \in Instances : announced[i] # "none" =>
              announced'[i] = announced[i] /\ verdict'[i] = verdict[i]
         /\ \A i \in Instances : verdict[i] \in {"APPROVED", "RETURNED"} => verdict'[i] = verdict[i]
         /\ handled \subseteq handled'
  <1>0. /\ verdict \in [Instances -> Desk!Statuses]
        /\ announced \in [Instances -> Desk!Verdicts \union {"none"}] /\ key \in [Instances -> AnyKey]
    BY DEF TypeOK
  <1>. USE <1>0 DEF Answers
  <1>1. CASE UNCHANGED <<deskVars, handled>>
    BY <1>1 DEF deskVars
  <1>2. CASE \E i \in Instances, k \in AnyKey : Asks(i, k)
    BY <1>2 DEF Asks, Desk!Open
  <1>3. CASE \E i \in Instances, v \in {"APPROVED", "RETURNED"} :
               Desk!Conclude(i, v) /\ UNCHANGED <<localVars, handled>>
    BY <1>3 DEF Desk!Conclude
  <1>4. CASE \E i \in Instances : Desk!Recall(i) /\ i = contract.inst /\ UNCHANGED <<localVars, handled>>
    BY <1>4 DEF Desk!Recall
  <1>5. CASE \E i \in Instances :
               Undelivered(i) /\ handled' = handled \union {i} /\ UNCHANGED deskVars
    BY <1>5 DEF deskVars
  <1>. QED
    BY <1>1, <1>2, <1>3, <1>4, <1>5, DeskSteps

(* What a step does to the keys outside the approval service.              *)
LEMMA KeysKnown ==
  ASSUME TypeOK, Keyed, [Next]_vars
  PROVE  /\ usedKeys \subseteq usedKeys'
         /\ contract'.key \in usedKeys' \union {Nil} /\ termination'.key \in usedKeys' \union {Nil}
         /\ \A q \in Calls : request'[q].key \in usedKeys' \union {Nil}
         /\ \A s \in Submitters : request'[s].key \in Keys \union {Nil}
  <1>. DEFINE Goal == /\ usedKeys \subseteq usedKeys'
                      /\ contract'.key \in usedKeys' \union {Nil} /\ termination'.key \in usedKeys' \union {Nil}
                      /\ \A q \in Calls : request'[q].key \in usedKeys' \union {Nil}
                      /\ \A s \in Submitters : request'[s].key \in Keys \union {Nil}
  <1>0. /\ contract \in ContractType /\ termination \in TerminationType
        /\ contract.key \in Keys \union {Nil}
    BY DEF TypeOK, ContractType
  <1>. USE KindsDiffer DEF Keyed
  <1>1. ASSUME NEW s \in Submitters, SubmitView(s) PROVE Goal
    <2>1. After(s, "viewed", contract.status, contract.latest, Nil, Nil)
      BY <1>1, RequestAfter
    <2>2. UNCHANGED <<contract, termination, usedKeys>>
      BY <1>1 DEF SubmitView, localVars
    <2>. QED  BY <1>0, <2>1, <2>2 DEF After, AfterIdle
  <1>2. ASSUME NEW s \in Submitters, SubmitPersistKey(s) PROVE Goal
    <2>1. After(s, "keyed", request[s].status, request[s].version, request[s].key, request[s].inst)
      BY <1>2, RequestAfter
    <2>2. /\ usedKeys \subseteq usedKeys'
          /\ contract'.key \in usedKeys' \union {Nil} /\ termination'.key \in usedKeys' \union {Nil}
      BY <1>0, <1>2 DEF SubmitPersistKey, ContractType, TerminationType
    <2>. QED  BY <1>0, <2>1, <2>2 DEF After, AfterIdle
  <1>3. ASSUME NEW s \in Submitters, SubmitReadKey(s) PROVE Goal
    <2>1. After(s, "ready", request[s].status, request[s].version, contract.key, request[s].inst)
      BY <1>3, RequestAfter
    <2>2. UNCHANGED <<contract, termination, usedKeys>>
      BY <1>3 DEF SubmitReadKey, localVars
    <2>. QED  BY <1>0, <2>1, <2>2 DEF After, AfterIdle
  <1>4. ASSUME NEW s \in Submitters, SubmitLock(s) PROVE Goal
    <2>1. After(s, "locked", request[s].status, request[s].version, request[s].key, request[s].inst)
      BY <1>4, RequestAfter
    <2>2. UNCHANGED <<contract, termination, usedKeys>>
      BY <1>4 DEF SubmitLock, localVars
    <2>. QED  BY <1>0, <2>1, <2>2 DEF After, AfterIdle
  <1>5. ASSUME NEW s \in Submitters, NEW i \in Instances, SubmitServed(s, i) PROVE Goal
    <2>1. After(s, "answered", request[s].status, request[s].version, request[s].key, i)
      BY <1>5, RequestAfter
    <2>2. UNCHANGED <<contract, termination, usedKeys>>
      BY <1>5 DEF SubmitServed, localVars
    <2>. QED  BY <1>0, <2>1, <2>2 DEF After, AfterIdle
  <1>6. ASSUME NEW s \in Submitters, SubmitCommit(s) PROVE Goal
    <2>1. AfterIdle(s)
      BY <1>6, RequestAfter
    <2>2. /\ usedKeys \subseteq usedKeys'
          /\ contract'.key \in usedKeys' \union {Nil} /\ termination'.key \in usedKeys' \union {Nil}
      BY <1>0, <1>6 DEF SubmitCommit, ContractType, TerminationType
    <2>. QED  BY <1>0, <2>1, <2>2 DEF After, AfterIdle
  <1>7. ASSUME NEW q \in Calls, Fail(q) PROVE Goal
    <2>1. AfterIdle(q)
      BY <1>7, RequestAfter
    <2>2. UNCHANGED <<contract, termination, usedKeys>>
      BY <1>7 DEF Fail, localVars
    <2>. QED  BY <1>0, <2>1, <2>2 DEF After, AfterIdle
  <1>8. ASSUME NEW i \in Instances, Decide(i) PROVE Goal
    BY <1>0, <1>8 DEF Decide, LocalStep, ContractType, localVars
  <1>9. ASSUME NEW i \in Instances, ApplyDecision(i) PROVE Goal
    BY <1>0, <1>9 DEF ApplyDecision, LocalStep, ContractType, localVars
  <1>10. ASSUME NEW i \in Instances, IgnoreDecision(i) PROVE Goal
    BY <1>0, <1>10 DEF IgnoreDecision, LocalStep, ContractType, localVars
  <1>11. ASSUME NEW w \in Withdrawers, WithdrawLock(w) PROVE Goal
    <2>1. After(w, "locked", "none", contract.latest, Nil, contract.inst)
      BY <1>11, RequestAfter
    <2>2. UNCHANGED <<contract, termination, usedKeys>>
      BY <1>11 DEF WithdrawLock, localVars
    <2>. QED  BY <1>0, <2>1, <2>2 DEF After, AfterIdle
  <1>12. ASSUME NEW w \in Withdrawers, WithdrawServed(w) PROVE Goal
    <2>1. After(w, "answered", request[w].status, request[w].version, request[w].key,
          request[w].inst)
      BY <1>12, RequestAfter
    <2>2. UNCHANGED <<contract, termination, usedKeys>>
      BY <1>12 DEF WithdrawServed, localVars
    <2>. QED  BY <1>0, <2>1, <2>2 DEF After, AfterIdle
  <1>13. ASSUME NEW w \in Withdrawers, WithdrawCommit(w) PROVE Goal
    <2>1. AfterIdle(w)
      BY <1>13, RequestAfter
    <2>2. /\ usedKeys \subseteq usedKeys'
          /\ contract'.key \in usedKeys' \union {Nil} /\ termination'.key \in usedKeys' \union {Nil}
      BY <1>0, <1>13 DEF WithdrawCommit, ContractType, TerminationType
    <2>. QED  BY <1>0, <2>1, <2>2 DEF After, AfterIdle
  <1>14. ASSUME NEW g \in Signers, SignView(g) PROVE Goal
    <2>1. After(g, "viewed", "none", contract.latest, Nil, Nil)
      BY <1>14, RequestAfter
    <2>2. UNCHANGED <<contract, termination, usedKeys>>
      BY <1>14 DEF SignView, localVars
    <2>. QED  BY <1>0, <2>1, <2>2 DEF After, AfterIdle
  <1>15. ASSUME NEW g \in Signers, Sign(g) PROVE Goal
    <2>1. AfterIdle(g)
      BY <1>15, RequestAfter
    <2>2. /\ usedKeys \subseteq usedKeys'
          /\ contract'.key \in usedKeys' \union {Nil} /\ termination'.key \in usedKeys' \union {Nil}
      BY <1>0, <1>15 DEF Sign, ContractType, TerminationType
    <2>. QED  BY <1>0, <2>1, <2>2 DEF After, AfterIdle
  <1>16. ASSUME NEW c \in Cancellers, CancelView(c) PROVE Goal
    <2>1. After(c, "viewed", "none", 0, Nil, Nil)
      BY <1>16, RequestAfter
    <2>2. UNCHANGED <<contract, termination, usedKeys>>
      BY <1>16 DEF CancelView, localVars
    <2>. QED  BY <1>0, <2>1, <2>2 DEF After, AfterIdle
  <1>17. ASSUME NEW c \in Cancellers, Cancel(c) PROVE Goal
    <2>1. AfterIdle(c)
      BY <1>17, RequestAfter
    <2>2. /\ usedKeys \subseteq usedKeys'
          /\ contract'.key \in usedKeys' \union {Nil} /\ termination'.key \in usedKeys' \union {Nil}
      BY <1>0, <1>17 DEF Cancel, ContractType, TerminationType
    <2>. QED  BY <1>0, <2>1, <2>2 DEF After, AfterIdle
  <1>18. ASSUME NEW t \in Terminators, TerminateMark(t) PROVE Goal
    <2>1. After(t, "marked", "none", 0, Nil, Nil)
      BY <1>18, RequestAfter
    <2>2. /\ usedKeys \subseteq usedKeys'
          /\ contract'.key \in usedKeys' \union {Nil} /\ termination'.key \in usedKeys' \union {Nil}
      BY <1>0, <1>18 DEF TerminateMark, ContractType, TerminationType
    <2>. QED  BY <1>0, <2>1, <2>2 DEF After, AfterIdle
  <1>19. ASSUME NEW t \in Terminators, TerminateLock(t) PROVE Goal
    <2>1. UNCHANGED <<contract, termination, usedKeys>>
      BY <1>19 DEF TerminateLock, localVars
    <2>2. /\ request'[t].key \in {Nil, termination.key}
          /\ \A p \in Calls : p # t => request'[p] = request[p]
      BY <1>19, RequestAfter DEF After, AfterIdle
    <2>. QED  BY <1>0, <2>1, <2>2
  <1>20. ASSUME NEW t \in Terminators, NEW i \in Instances, TerminateServed(t, i) PROVE Goal
    <2>1. After(t, "answered", request[t].status, request[t].version, request[t].key, i)
      BY <1>20, RequestAfter
    <2>2. UNCHANGED <<contract, termination, usedKeys>>
      BY <1>20 DEF TerminateServed, localVars
    <2>. QED  BY <1>0, <2>1, <2>2 DEF After, AfterIdle
  <1>21. ASSUME NEW t \in Terminators, TerminateCommit(t) PROVE Goal
    <2>1. AfterIdle(t)
      BY <1>21, RequestAfter
    <2>2. /\ usedKeys \subseteq usedKeys'
          /\ contract'.key \in usedKeys' \union {Nil} /\ termination'.key \in usedKeys' \union {Nil}
      BY <1>0, <1>21 DEF TerminateCommit, ContractType, TerminationType
    <2>. QED  BY <1>0, <2>1, <2>2 DEF After, AfterIdle
  <1>22. ASSUME NEW i \in Instances, ApplyTermination(i) PROVE Goal
    BY <1>0, <1>22 DEF ApplyTermination, LocalStep, ContractType, localVars
  <1>23. CASE Void
    BY <1>0, <1>23 DEF Void, LocalStep, ContractType, localVars
  <1>24. CASE Delete
    BY <1>0, <1>24 DEF Delete, LocalStep, ContractType, localVars
  <1>25. CASE Edit
    BY <1>0, <1>25 DEF Edit, LocalStep, ContractType, localVars
  <1>26. CASE Change
    BY <1>0, <1>26 DEF Change, LocalStep, ContractType, localVars
  <1>27. CASE Pause
    BY <1>0, <1>27 DEF Pause, LocalStep, ContractType, localVars
  <1>28. CASE Resume
    BY <1>0, <1>28 DEF Resume, LocalStep, ContractType, localVars
  <1>29. CASE Complete
    BY <1>0, <1>29 DEF Complete, LocalStep, ContractType, localVars
  <1>30. CASE UNCHANGED vars
    BY <1>0, <1>30 DEF vars, localVars
  <1>. QED
    BY <1>1, <1>2, <1>3, <1>4, <1>5, <1>6, <1>7, <1>8, <1>9, <1>10, <1>11, <1>12, <1>13, <1>14,
       <1>15,
       <1>16, <1>17, <1>18, <1>19, <1>20, <1>21, <1>22, <1>23, <1>24, <1>25, <1>26, <1>27, <1>28, <1>29, <1>30 DEF Next

LEMMA KeyedPreserved ==
  ASSUME TypeOK, Locking, Linked, Answers, Keyed, [Next]_vars
  PROVE  Keyed'
  <1>0. key \in [Instances -> AnyKey] /\ usedKeys \subseteq usedKeys'
    BY KeysKnown DEF TypeOK
  <1>1. \A i \in Instances : key'[i] \in usedKeys' \union {Nil}
    <2>1. CASE UNCHANGED deskVars
      BY <1>0, <2>1 DEF Keyed, deskVars
    <2>2. ASSUME NEW i \in Instances, NEW k \in AnyKey, Asks(i, k)
          PROVE  \A j \in Instances : key'[j] \in usedKeys' \union {Nil}
      <3>1. k \in usedKeys \union {Nil}
        BY <2>2, KindsDiffer DEF Asks, Keyed
      <3>. QED  BY <1>0, <2>2, <3>1 DEF Keyed, Asks, Desk!Open
    <2>3. ASSUME NEW i \in Instances, Desk!Recall(i) \/ \E v \in {"APPROVED",
          "RETURNED"} : Desk!Conclude(i, v)
          PROVE  \A j \in Instances : key'[j] \in usedKeys' \union {Nil}
      BY <1>0, <2>3 DEF Keyed, Desk!Recall, Desk!Conclude
    <2>. QED  BY <2>1, <2>2, <2>3, DeskSteps
  <1>. QED  BY <1>1, KeysKnown DEF Keyed

(* A submission that is answered with an instance that runs already cannot *)
(* be given a termination's: it holds the lock of a draft.                 *)
LEMMA LinkedPreserved ==
  ASSUME TypeOK, Locking, Versioned, Answers, Keyed, Linked, TerminationGetsItsAnswer, [Next]_vars
  PROVE  Linked'
  <1>0. /\ contract \in ContractType /\ request \in [Calls -> RequestType]
        /\ termination \in TerminationType /\ handled \subseteq Instances
        /\ contract.inst \in Instances \union {Nil}
        /\ \A q \in Calls : request[q].inst \in Instances \union {Nil}
    BY DEF TypeOK, ContractType, RequestType
  <1>k. \A i \in Instances : verdict[i] # "none" => verdict'[i] # "none" /\ key'[i] = key[i]
    BY DeskRemembers
  <1>s. \A x \in {"DRAFT", "CANCELLED", "DELETED"} : x \notin {"PENDING_APPROVAL", "PENDING_SIGN"} \union InForce
    BY DEF InForce
  <1>. USE KindsDiffer DEF Linked
  <1>1. ASSUME NEW s \in Submitters, SubmitView(s) PROVE Linked'
    <2>1. After(s, "viewed", contract.status, contract.latest, Nil, Nil)
      BY <1>1, RequestAfter
    <2>2. UNCHANGED contract
      BY <1>1 DEF SubmitView, localVars
    <2>. QED  BY <1>0, <1>k, <2>1, <2>2 DEF After, AfterIdle
  <1>2. ASSUME NEW s \in Submitters, SubmitPersistKey(s) PROVE Linked'
    <2>1. After(s, "keyed", request[s].status, request[s].version, request[s].key, request[s].inst)
      BY <1>2, RequestAfter
    <2>2. /\ contract'.inst = contract.inst \/ contract'.inst = Nil
          /\ contract'.status \in {"PENDING_APPROVAL", "PENDING_SIGN"} \union InForce => contract'.inst # Nil
      BY <1>0, <1>s, <1>2 DEF SubmitPersistKey, ContractType, InForce
    <2>. QED  BY <1>0, <1>k, <2>1, <2>2 DEF After, AfterIdle
  <1>3. ASSUME NEW s \in Submitters, SubmitReadKey(s) PROVE Linked'
    <2>1. After(s, "ready", request[s].status, request[s].version, contract.key, request[s].inst)
      BY <1>3, RequestAfter
    <2>2. UNCHANGED contract
      BY <1>3 DEF SubmitReadKey, localVars
    <2>. QED  BY <1>0, <1>k, <2>1, <2>2 DEF After, AfterIdle
  <1>4. ASSUME NEW s \in Submitters, SubmitLock(s) PROVE Linked'
    <2>1. After(s, "locked", request[s].status, request[s].version, request[s].key, request[s].inst)
      BY <1>4, RequestAfter
    <2>2. UNCHANGED contract
      BY <1>4 DEF SubmitLock, localVars
    <2>. QED  BY <1>0, <1>k, <2>1, <2>2 DEF After, AfterIdle
  <1>5. ASSUME NEW s \in Submitters, NEW i \in Instances, SubmitServed(s, i) PROVE Linked'
    <2>1. After(s, "answered", request[s].status, request[s].version, request[s].key, i)
      BY <1>5, RequestAfter
    <2>2. UNCHANGED contract /\ contract.status = "DRAFT" /\ request[s].key \in Keys \union {Nil}
      BY <1>5 DEF SubmitServed, localVars, Step, Locking, Locked, Keyed
    <2>3. verdict'[i] # "none" /\ key'[i] \notin TerminationKeys
      <3>1. CASE Desk!Open(i, Contract, request[s].key, "RUNNING")
        BY <2>2, <3>1, PrefixAssumption, NilAssumption DEF Desk!Open, TypeOK
      <3>2. CASE UNCHANGED deskVars /\ key[i] = request[s].key /\ request[s].key # Nil
        BY <2>2, <3>2, PrefixAssumption DEF deskVars, Answers
      <3>3. CASE UNCHANGED deskVars /\ verdict[i] = "RUNNING"
        BY <2>2, <3>3 DEF deskVars, TerminationGetsItsAnswer
      <3>. QED  BY <1>5, <3>1, <3>2, <3>3 DEF SubmitServed, Submitted, Desk!Answered
    <2>4. i # Nil
      BY NilAssumption
    <2>. QED  BY <1>0, <1>k, <2>1, <2>2, <2>3, <2>4 DEF After
  <1>6. ASSUME NEW s \in Submitters, SubmitCommit(s) PROVE Linked'
    <2>1. AfterIdle(s) /\ request[s].at = "answered"
      BY <1>6, RequestAfter DEF SubmitCommit, Step
    <2>2. contract'.inst = request[s].inst
      BY <1>0, <1>6 DEF SubmitCommit, ContractType
    <2>. QED  BY <1>0, <1>k, <2>1, <2>2 DEF After, AfterIdle
  <1>7. ASSUME NEW q \in Calls, Fail(q) PROVE Linked'
    <2>1. AfterIdle(q)
      BY <1>7, RequestAfter
    <2>2. UNCHANGED contract
      BY <1>7 DEF Fail, localVars
    <2>. QED  BY <1>0, <1>k, <2>1, <2>2 DEF After, AfterIdle
  <1>8. ASSUME NEW i \in Instances, Decide(i) PROVE Linked'
    <2>1. UNCHANGED <<contract, request>>
      BY <1>8 DEF Decide, localVars
    <2>. QED  BY <1>0, <1>k, <2>1
  <1>9. ASSUME NEW i \in Instances, ApplyDecision(i) PROVE Linked'
    <2>1. contract'.inst = contract.inst \/ contract'.inst = i
      BY <1>0, <1>9 DEF ApplyDecision, ContractType
    <2>2. verdict[i] # "none" /\ key[i] \notin TerminationKeys /\ i # Nil /\ UNCHANGED request
      BY <1>9, NilAssumption DEF ApplyDecision, Undelivered, Answers
    <2>3. contract'.status \in {"PENDING_APPROVAL", "PENDING_SIGN"} \union InForce => contract'.inst # Nil
      BY <1>0, <1>s, <1>9, <2>2 DEF ApplyDecision, ContractType, ContractTo, Recovers, Concerns
    <2>. QED  BY <1>0, <1>k, <2>1, <2>2, <2>3
  <1>10. ASSUME NEW i \in Instances, IgnoreDecision(i) PROVE Linked'
    <2>1. contract'.inst = contract.inst \/ contract'.inst = i
      BY <1>0, <1>10 DEF IgnoreDecision, ContractType
    <2>2. verdict[i] # "none" /\ key[i] \notin TerminationKeys /\ i # Nil /\ UNCHANGED request
      BY <1>10, NilAssumption DEF IgnoreDecision, Undelivered, Answers
    <2>3. contract'.status \in {"PENDING_APPROVAL", "PENDING_SIGN"} \union InForce => contract'.inst # Nil
      BY <1>0, <1>s, <1>10, <2>2 DEF IgnoreDecision, ContractType, ContractTo, Recovers, Concerns
    <2>. QED  BY <1>0, <1>k, <2>1, <2>2, <2>3
  <1>11. ASSUME NEW w \in Withdrawers, WithdrawLock(w) PROVE Linked'
    <2>1. After(w, "locked", "none", contract.latest, Nil, contract.inst)
      BY <1>11, RequestAfter
    <2>2. UNCHANGED contract
      BY <1>11 DEF WithdrawLock, localVars
    <2>. QED  BY <1>0, <1>k, <2>1, <2>2 DEF After, AfterIdle
  <1>12. ASSUME NEW w \in Withdrawers, WithdrawServed(w) PROVE Linked'
    <2>1. After(w, "answered", request[w].status, request[w].version, request[w].key,
          request[w].inst)
      BY <1>12, RequestAfter
    <2>2. UNCHANGED contract
      BY <1>12 DEF WithdrawServed, localVars
    <2>. QED  BY <1>0, <1>k, <2>1, <2>2 DEF After, AfterIdle
  <1>13. ASSUME NEW w \in Withdrawers, WithdrawCommit(w) PROVE Linked'
    <2>1. AfterIdle(w)
      BY <1>13, RequestAfter
    <2>2. /\ contract'.inst = contract.inst \/ contract'.inst = Nil
          /\ contract'.status \in {"PENDING_APPROVAL", "PENDING_SIGN"} \union InForce => contract'.inst # Nil
      BY <1>0, <1>s, <1>13 DEF WithdrawCommit, ContractType, InForce
    <2>. QED  BY <1>0, <1>k, <2>1, <2>2 DEF After, AfterIdle
  <1>14. ASSUME NEW g \in Signers, SignView(g) PROVE Linked'
    <2>1. After(g, "viewed", "none", contract.latest, Nil, Nil)
      BY <1>14, RequestAfter
    <2>2. UNCHANGED contract
      BY <1>14 DEF SignView, localVars
    <2>. QED  BY <1>0, <1>k, <2>1, <2>2 DEF After, AfterIdle
  <1>15. ASSUME NEW g \in Signers, Sign(g) PROVE Linked'
    <2>1. AfterIdle(g)
      BY <1>15, RequestAfter
    <2>2. /\ contract'.inst = contract.inst \/ contract'.inst = Nil
          /\ contract'.status \in {"PENDING_APPROVAL", "PENDING_SIGN"} \union InForce => contract'.inst # Nil
      BY <1>0, <1>s, <1>15 DEF Sign, ContractType, InForce
    <2>. QED  BY <1>0, <1>k, <2>1, <2>2 DEF After, AfterIdle
  <1>16. ASSUME NEW c \in Cancellers, CancelView(c) PROVE Linked'
    <2>1. After(c, "viewed", "none", 0, Nil, Nil)
      BY <1>16, RequestAfter
    <2>2. UNCHANGED contract
      BY <1>16 DEF CancelView, localVars
    <2>. QED  BY <1>0, <1>k, <2>1, <2>2 DEF After, AfterIdle
  <1>17. ASSUME NEW c \in Cancellers, Cancel(c) PROVE Linked'
    <2>1. AfterIdle(c)
      BY <1>17, RequestAfter
    <2>2. /\ contract'.inst = contract.inst \/ contract'.inst = Nil
          /\ contract'.status \in {"PENDING_APPROVAL", "PENDING_SIGN"} \union InForce => contract'.inst # Nil
      BY <1>0, <1>s, <1>17 DEF Cancel, ContractType, InForce
    <2>. QED  BY <1>0, <1>k, <2>1, <2>2 DEF After, AfterIdle
  <1>18. ASSUME NEW t \in Terminators, TerminateMark(t) PROVE Linked'
    <2>1. After(t, "marked", "none", 0, Nil, Nil)
      BY <1>18, RequestAfter
    <2>2. /\ contract'.inst = contract.inst \/ contract'.inst = Nil
          /\ contract'.status \in {"PENDING_APPROVAL", "PENDING_SIGN"} \union InForce => contract'.inst # Nil
      BY <1>0, <1>s, <1>18 DEF TerminateMark, ContractType, InForce
    <2>. QED  BY <1>0, <1>k, <2>1, <2>2 DEF After, AfterIdle
  <1>19. ASSUME NEW t \in Terminators, TerminateLock(t) PROVE Linked'
    <2>1. UNCHANGED contract
      BY <1>19 DEF TerminateLock, localVars
    <2>2. \A p \in Calls : p # t => request'[p] = request[p]
      BY <1>19, RequestAfter DEF After, AfterIdle
    <2>. QED  BY <1>0, <1>k, <2>1, <2>2
  <1>20. ASSUME NEW t \in Terminators, NEW i \in Instances, TerminateServed(t, i) PROVE Linked'
    <2>1. After(t, "answered", request[t].status, request[t].version, request[t].key, i)
      BY <1>20, RequestAfter
    <2>2. UNCHANGED contract
      BY <1>20 DEF TerminateServed, localVars
    <2>. QED  BY <1>0, <1>k, <2>1, <2>2 DEF After, AfterIdle
  <1>21. ASSUME NEW t \in Terminators, TerminateCommit(t) PROVE Linked'
    <2>1. AfterIdle(t)
      BY <1>21, RequestAfter
    <2>2. UNCHANGED contract
      BY <1>21 DEF TerminateCommit, localVars
    <2>. QED  BY <1>0, <1>k, <2>1, <2>2 DEF After, AfterIdle
  <1>22. ASSUME NEW i \in Instances, ApplyTermination(i) PROVE Linked'
    <2>1. /\ contract'.inst = contract.inst \/ contract'.inst = Nil
          /\ contract'.status \in {"PENDING_APPROVAL", "PENDING_SIGN"} \union InForce => contract'.inst # Nil
          /\ UNCHANGED request
      BY <1>0, <1>s, <1>22 DEF ApplyTermination, EndsTermination, ContractType, InForce
    <2>. QED  BY <1>0, <1>k, <2>1
  <1>23. CASE Void
    <2>1. /\ contract'.inst = contract.inst \/ contract'.inst = Nil
          /\ contract'.status \in {"PENDING_APPROVAL", "PENDING_SIGN"} \union InForce => contract'.inst # Nil
          /\ UNCHANGED request
      BY <1>0, <1>s, <1>23 DEF Void, LocalStep, ContractType, InForce
    <2>. QED  BY <1>0, <1>k, <2>1
  <1>24. CASE Delete
    <2>1. /\ contract'.inst = contract.inst \/ contract'.inst = Nil
          /\ contract'.status \in {"PENDING_APPROVAL", "PENDING_SIGN"} \union InForce => contract'.inst # Nil
          /\ UNCHANGED request
      BY <1>0, <1>s, <1>24 DEF Delete, LocalStep, ContractType, InForce
    <2>. QED  BY <1>0, <1>k, <2>1
  <1>25. CASE Edit
    <2>1. /\ contract'.inst = contract.inst \/ contract'.inst = Nil
          /\ contract'.status \in {"PENDING_APPROVAL", "PENDING_SIGN"} \union InForce => contract'.inst # Nil
          /\ UNCHANGED request
      BY <1>0, <1>s, <1>25 DEF Edit, LocalStep, ContractType, InForce
    <2>. QED  BY <1>0, <1>k, <2>1
  <1>26. CASE Change
    <2>1. /\ contract'.inst = contract.inst \/ contract'.inst = Nil
          /\ contract'.status \in {"PENDING_APPROVAL", "PENDING_SIGN"} \union InForce => contract'.inst # Nil
          /\ UNCHANGED request
      BY <1>0, <1>s, <1>26 DEF Change, LocalStep, ContractType, InForce
    <2>. QED  BY <1>0, <1>k, <2>1
  <1>27. CASE Pause
    <2>1. /\ contract'.inst = contract.inst \/ contract'.inst = Nil
          /\ contract'.status \in {"PENDING_APPROVAL", "PENDING_SIGN"} \union InForce => contract'.inst # Nil
          /\ UNCHANGED request
      BY <1>0, <1>s, <1>27 DEF Pause, LocalStep, ContractType, InForce
    <2>. QED  BY <1>0, <1>k, <2>1
  <1>28. CASE Resume
    <2>1. /\ contract'.inst = contract.inst \/ contract'.inst = Nil
          /\ contract'.status \in {"PENDING_APPROVAL", "PENDING_SIGN"} \union InForce => contract'.inst # Nil
          /\ UNCHANGED request
      BY <1>0, <1>s, <1>28 DEF Resume, LocalStep, ContractType, InForce
    <2>. QED  BY <1>0, <1>k, <2>1
  <1>29. CASE Complete
    <2>1. /\ contract'.inst = contract.inst \/ contract'.inst = Nil
          /\ contract'.status \in {"PENDING_APPROVAL", "PENDING_SIGN"} \union InForce => contract'.inst # Nil
          /\ UNCHANGED request
      BY <1>0, <1>s, <1>29 DEF Complete, LocalStep, ContractType, InForce
    <2>. QED  BY <1>0, <1>k, <2>1
  <1>30. CASE UNCHANGED vars
    BY <1>0, <1>k, <1>30 DEF vars, localVars
  <1>. QED
    BY <1>1, <1>2, <1>3, <1>4, <1>5, <1>6, <1>7, <1>8, <1>9, <1>10, <1>11, <1>12, <1>13, <1>14,
       <1>15,
       <1>16, <1>17, <1>18, <1>19, <1>20, <1>21, <1>22, <1>23, <1>24, <1>25, <1>26, <1>27, <1>28, <1>29, <1>30 DEF Next

(* Under the lock nobody else opens an instance, and the key opens one.    *)
LEMMA TerminationLinkedPreserved ==
  ASSUME TypeOK, Locking, Versioned, Answers, Keyed, Linked, TerminationLinked, [Next]_vars
  PROVE  TerminationLinked'
  <1>0. /\ contract \in ContractType /\ termination \in TerminationType
        /\ termination.key \in TerminationKeys \union {Nil} /\ key \in [Instances -> AnyKey]
    BY DEF TypeOK, TerminationType
  <1>o. \A p, q \in Calls : Locked(p) /\ Locked(q) => p = q
    BY DEF Locking
  <1>f. RowFree => \A q \in Calls : request[q].at # "answered"
    BY KindsDiffer DEF Locking, Locked, RowFree
  <1>. USE KindsDiffer DEF TerminationLinked
  <1>1. ASSUME NEW s \in Submitters, SubmitView(s) PROVE TerminationLinked'
    <2>1. After(s, "viewed", contract.status, contract.latest, Nil, Nil)
      BY <1>1, RequestAfter
    <2>2. UNCHANGED <<termination, key>>
      BY <1>1 DEF SubmitView, localVars, deskVars, Desk!Recall
    <2>. QED  BY <1>0, <2>1, <2>2 DEF After, AfterIdle
  <1>2. ASSUME NEW s \in Submitters, SubmitPersistKey(s) PROVE TerminationLinked'
    <2>1. After(s, "keyed", request[s].status, request[s].version, request[s].key, request[s].inst)
      BY <1>2, RequestAfter
    <2>2. UNCHANGED <<termination, key>>
      BY <1>2 DEF SubmitPersistKey, localVars, deskVars, Desk!Recall
    <2>. QED  BY <1>0, <2>1, <2>2 DEF After, AfterIdle
  <1>3. ASSUME NEW s \in Submitters, SubmitReadKey(s) PROVE TerminationLinked'
    <2>1. After(s, "ready", request[s].status, request[s].version, contract.key, request[s].inst)
      BY <1>3, RequestAfter
    <2>2. UNCHANGED <<termination, key>>
      BY <1>3 DEF SubmitReadKey, localVars, deskVars, Desk!Recall
    <2>. QED  BY <1>0, <2>1, <2>2 DEF After, AfterIdle
  <1>4. ASSUME NEW s \in Submitters, SubmitLock(s) PROVE TerminationLinked'
    <2>1. After(s, "locked", request[s].status, request[s].version, request[s].key, request[s].inst)
      BY <1>4, RequestAfter
    <2>2. UNCHANGED <<termination, key>>
      BY <1>4 DEF SubmitLock, localVars, deskVars, Desk!Recall
    <2>. QED  BY <1>0, <2>1, <2>2 DEF After, AfterIdle
  <1>5. ASSUME NEW s \in Submitters, NEW i \in Instances, SubmitServed(s, i)
        PROVE TerminationLinked'
    <2>1. After(s, "answered", request[s].status, request[s].version, request[s].key, i)
      BY <1>5, RequestAfter
    <2>2. UNCHANGED termination /\ request[s].key \in Keys \union {Nil} /\ Locked(s)
      BY <1>5 DEF SubmitServed, localVars, Step, Locked, Keyed
    <2>3. \A t \in Terminators : request[t].at # "answered" /\ request'[t].at # "answered"
      BY <1>o, <2>1, <2>2 DEF After, Locked
    <2>4. \A j \in Instances : key'[j] = key[j] \/ key'[j] = request[s].key
      BY <1>0, <1>5 DEF SubmitServed, Submitted, Desk!Open, deskVars
    <2>5. termination.key # Nil => request[s].key # termination.key
      BY <1>0, <2>2, PrefixAssumption
    <2>. QED  BY <2>2, <2>3, <2>4, <2>5
  <1>6. ASSUME NEW s \in Submitters, SubmitCommit(s) PROVE TerminationLinked'
    <2>1. AfterIdle(s)
      BY <1>6, RequestAfter
    <2>2. UNCHANGED <<termination, key>>
      BY <1>6 DEF SubmitCommit, localVars, deskVars, Desk!Recall
    <2>. QED  BY <1>0, <2>1, <2>2 DEF After, AfterIdle
  <1>7. ASSUME NEW q \in Calls, Fail(q) PROVE TerminationLinked'
    <2>1. AfterIdle(q)
      BY <1>7, RequestAfter
    <2>2. UNCHANGED <<termination, key>>
      BY <1>7 DEF Fail, localVars, deskVars, Desk!Recall
    <2>. QED  BY <1>0, <2>1, <2>2 DEF After, AfterIdle
  <1>8. ASSUME NEW i \in Instances, Decide(i) PROVE TerminationLinked'
    <2>1. UNCHANGED <<termination, request, key>>
      BY <1>8 DEF Decide, LocalStep, localVars, deskVars, Desk!Conclude
    <2>. QED  BY <2>1
  <1>9. ASSUME NEW i \in Instances, ApplyDecision(i) PROVE TerminationLinked'
    <2>1. UNCHANGED <<termination, request, key>>
      BY <1>9 DEF ApplyDecision, LocalStep, localVars, deskVars, Desk!Conclude
    <2>. QED  BY <2>1
  <1>10. ASSUME NEW i \in Instances, IgnoreDecision(i) PROVE TerminationLinked'
    <2>1. UNCHANGED <<termination, request, key>>
      BY <1>10 DEF IgnoreDecision, LocalStep, localVars, deskVars, Desk!Conclude
    <2>. QED  BY <2>1
  <1>11. ASSUME NEW w \in Withdrawers, WithdrawLock(w) PROVE TerminationLinked'
    <2>1. After(w, "locked", "none", contract.latest, Nil, contract.inst)
      BY <1>11, RequestAfter
    <2>2. UNCHANGED <<termination, key>>
      BY <1>11 DEF WithdrawLock, localVars, deskVars, Desk!Recall
    <2>. QED  BY <1>0, <2>1, <2>2 DEF After, AfterIdle
  <1>12. ASSUME NEW w \in Withdrawers, WithdrawServed(w) PROVE TerminationLinked'
    <2>1. After(w, "answered", request[w].status, request[w].version, request[w].key,
          request[w].inst)
      BY <1>12, RequestAfter
    <2>2. UNCHANGED <<termination, key>>
      BY <1>12 DEF WithdrawServed, localVars, deskVars, Desk!Recall
    <2>. QED  BY <1>0, <2>1, <2>2 DEF After, AfterIdle
  <1>13. ASSUME NEW w \in Withdrawers, WithdrawCommit(w) PROVE TerminationLinked'
    <2>1. AfterIdle(w)
      BY <1>13, RequestAfter
    <2>2. UNCHANGED <<termination, key>>
      BY <1>13 DEF WithdrawCommit, localVars, deskVars, Desk!Recall
    <2>. QED  BY <1>0, <2>1, <2>2 DEF After, AfterIdle
  <1>14. ASSUME NEW g \in Signers, SignView(g) PROVE TerminationLinked'
    <2>1. After(g, "viewed", "none", contract.latest, Nil, Nil)
      BY <1>14, RequestAfter
    <2>2. UNCHANGED <<termination, key>>
      BY <1>14 DEF SignView, localVars, deskVars, Desk!Recall
    <2>. QED  BY <1>0, <2>1, <2>2 DEF After, AfterIdle
  <1>15. ASSUME NEW g \in Signers, Sign(g) PROVE TerminationLinked'
    <2>1. AfterIdle(g)
      BY <1>15, RequestAfter
    <2>2. UNCHANGED <<termination, key>>
      BY <1>15 DEF Sign, localVars, deskVars, Desk!Recall
    <2>. QED  BY <1>0, <2>1, <2>2 DEF After, AfterIdle
  <1>16. ASSUME NEW c \in Cancellers, CancelView(c) PROVE TerminationLinked'
    <2>1. After(c, "viewed", "none", 0, Nil, Nil)
      BY <1>16, RequestAfter
    <2>2. UNCHANGED <<termination, key>>
      BY <1>16 DEF CancelView, localVars, deskVars, Desk!Recall
    <2>. QED  BY <1>0, <2>1, <2>2 DEF After, AfterIdle
  <1>17. ASSUME NEW c \in Cancellers, Cancel(c) PROVE TerminationLinked'
    <2>1. AfterIdle(c)
      BY <1>17, RequestAfter
    <2>2. UNCHANGED <<termination, key>>
      BY <1>17 DEF Cancel, localVars, deskVars, Desk!Recall
    <2>. QED  BY <1>0, <2>1, <2>2 DEF After, AfterIdle
  <1>18. ASSUME NEW t \in Terminators, TerminateMark(t) PROVE TerminationLinked'
    <2>1. After(t, "marked", "none", 0, Nil, Nil)
      BY <1>18, RequestAfter
    <2>2. \A u \in Terminators : request'[u].at # "answered"
      BY <1>f, <1>18, <2>1 DEF TerminateMark, After
    <2>3. UNCHANGED <<termination, key>> \/ termination'.inst = Nil
      BY <1>0, <1>18 DEF TerminateMark, deskVars
    <2>. QED  BY <2>2, <2>3
  <1>19. ASSUME NEW t \in Terminators, TerminateLock(t) PROVE TerminationLinked'
    <2>1. \A u \in Terminators : request'[u].at # "answered"
      <3>1. \/ AfterIdle(t)
            \/ After(t, "locked", request[t].status, request[t].version, termination.key,
                  request[t].inst)
        BY <1>19, RequestAfter
      <3>. QED  BY <1>f, <1>19, <3>1 DEF TerminateLock, After, AfterIdle
    <2>2. UNCHANGED <<termination, key>>
      BY <1>19 DEF TerminateLock, localVars, deskVars
    <2>. QED  BY <2>1, <2>2
  <1>20. ASSUME NEW t \in Terminators, NEW i \in Instances, TerminateServed(t, i)
        PROVE TerminationLinked'
    <2>1. After(t, "answered", request[t].status, request[t].version, request[t].key, i)
      BY <1>20, RequestAfter
    <2>2. /\ UNCHANGED termination /\ termination.inst = Nil /\ Locked(t)
          /\ request[t].key = termination.key /\ termination.key # Nil
      BY <1>20 DEF TerminateServed, localVars, Step, Locking, Locked, Versioned
    <2>3. \A u \in Terminators : u # t => request'[u].at # "answered"
      BY <1>o, <2>1, <2>2 DEF After, Locked
    <2>4. \A j \in Instances : key'[j] = termination.key => j = i
      <3>1. \A j \in Instances : key[j] = termination.key => doc[j] = Contract
        BY <2>2 DEF Answers
      <3>2. CASE Desk!Open(i, Contract, request[t].key, "RUNNING")
        BY <1>0, <2>2, <3>1, <3>2 DEF Desk!Open, Desk!Answered
      <3>3. CASE UNCHANGED deskVars /\ Desk!Answered(Contract, request[t].key) /\ key[i] = request[t].key
        BY <2>2, <3>3 DEF deskVars, Answers
      <3>4. CASE UNCHANGED deskVars /\ ~Desk!Answered(Contract, request[t].key)
        BY <2>2, <3>1, <3>4 DEF deskVars, Desk!Answered
      <3>. QED  BY <1>20, <3>2, <3>3, <3>4 DEF TerminateServed, Submitted
    <2>. QED  BY <2>1, <2>2, <2>3, <2>4 DEF After
  <1>21. ASSUME NEW t \in Terminators, TerminateCommit(t) PROVE TerminationLinked'
    <2>1. AfterIdle(t) /\ request[t].at = "answered"
      BY <1>21, RequestAfter DEF TerminateCommit, Step
    <2>2. /\ termination'.inst = request[t].inst /\ termination'.key = termination.key /\ key' = key
          /\ termination.key # Nil
      BY <1>0, <1>21, <2>1 DEF TerminateCommit, TerminationType, deskVars, Locking, Locked,
         Versioned
    <2>. QED  BY <2>1, <2>2 DEF After, AfterIdle
  <1>22. ASSUME NEW i \in Instances, ApplyTermination(i) PROVE TerminationLinked'
    <2>1. UNCHANGED <<termination, request, key>>
      BY <1>22 DEF ApplyTermination, LocalStep, localVars, deskVars, Desk!Conclude
    <2>. QED  BY <2>1
  <1>23. CASE Void
    <2>1. UNCHANGED <<termination, request, key>>
      BY <1>23 DEF Void, LocalStep, localVars, deskVars, Desk!Conclude
    <2>. QED  BY <2>1
  <1>24. CASE Delete
    <2>1. UNCHANGED <<termination, request, key>>
      BY <1>24 DEF Delete, LocalStep, localVars, deskVars, Desk!Conclude
    <2>. QED  BY <2>1
  <1>25. CASE Edit
    <2>1. UNCHANGED <<termination, request, key>>
      BY <1>25 DEF Edit, LocalStep, localVars, deskVars, Desk!Conclude
    <2>. QED  BY <2>1
  <1>26. CASE Change
    <2>1. UNCHANGED <<termination, request, key>>
      BY <1>26 DEF Change, LocalStep, localVars, deskVars, Desk!Conclude
    <2>. QED  BY <2>1
  <1>27. CASE Pause
    <2>1. UNCHANGED <<termination, request, key>>
      BY <1>27 DEF Pause, LocalStep, localVars, deskVars, Desk!Conclude
    <2>. QED  BY <2>1
  <1>28. CASE Resume
    <2>1. UNCHANGED <<termination, request, key>>
      BY <1>28 DEF Resume, LocalStep, localVars, deskVars, Desk!Conclude
    <2>. QED  BY <2>1
  <1>29. CASE Complete
    <2>1. UNCHANGED <<termination, request, key>>
      BY <1>29 DEF Complete, LocalStep, localVars, deskVars, Desk!Conclude
    <2>. QED  BY <2>1
  <1>30. CASE UNCHANGED vars
    BY <1>30 DEF vars, localVars, deskVars
  <1>. QED
    BY <1>1, <1>2, <1>3, <1>4, <1>5, <1>6, <1>7, <1>8, <1>9, <1>10, <1>11, <1>12, <1>13, <1>14,
       <1>15,
       <1>16, <1>17, <1>18, <1>19, <1>20, <1>21, <1>22, <1>23, <1>24, <1>25, <1>26, <1>27, <1>28, <1>29, <1>30 DEF Next

(* Every handler that would move a cancelled contract compares its status  *)
(* under the lock.                                                         *)
LEMMA CancelledStaysSo ==
  ASSUME TypeOK, Locking, [Next]_vars, contract.status = "CANCELLED"
  PROVE  contract'.status = "CANCELLED"
  <1>0. contract \in ContractType
    BY DEF TypeOK
  <1>. USE KindsDiffer DEF ContractType
  <1>1. ASSUME NEW s \in Submitters, SubmitView(s) PROVE contract'.status = "CANCELLED"
    BY <1>0, <1>1 DEF SubmitView, LocalStep, localVars
  <1>2. ASSUME NEW s \in Submitters, SubmitPersistKey(s) PROVE contract'.status = "CANCELLED"
    BY <1>0, <1>2 DEF SubmitPersistKey, LocalStep, localVars
  <1>3. ASSUME NEW s \in Submitters, SubmitReadKey(s) PROVE contract'.status = "CANCELLED"
    BY <1>0, <1>3 DEF SubmitReadKey, LocalStep, localVars
  <1>4. ASSUME NEW s \in Submitters, SubmitLock(s) PROVE contract'.status = "CANCELLED"
    BY <1>0, <1>4 DEF SubmitLock, LocalStep, localVars
  <1>5. ASSUME NEW s \in Submitters, NEW i \in Instances, SubmitServed(s, i)
        PROVE contract'.status = "CANCELLED"
    BY <1>0, <1>5 DEF SubmitServed, LocalStep, localVars
  <1>6. ASSUME NEW s \in Submitters, SubmitCommit(s) PROVE contract'.status = "CANCELLED"
    BY <1>6 DEF SubmitCommit, Step, Locking, Locked
  <1>7. ASSUME NEW q \in Calls, Fail(q) PROVE contract'.status = "CANCELLED"
    BY <1>0, <1>7 DEF Fail, LocalStep, localVars
  <1>8. ASSUME NEW i \in Instances, Decide(i) PROVE contract'.status = "CANCELLED"
    BY <1>0, <1>8 DEF Decide, LocalStep, localVars
  <1>9. ASSUME NEW i \in Instances, ApplyDecision(i) PROVE contract'.status = "CANCELLED"
    BY <1>9 DEF ApplyDecision, Recovers
  <1>10. ASSUME NEW i \in Instances, IgnoreDecision(i) PROVE contract'.status = "CANCELLED"
    BY <1>0, <1>10 DEF IgnoreDecision, LocalStep, localVars
  <1>11. ASSUME NEW w \in Withdrawers, WithdrawLock(w) PROVE contract'.status = "CANCELLED"
    BY <1>0, <1>11 DEF WithdrawLock, LocalStep, localVars
  <1>12. ASSUME NEW w \in Withdrawers, WithdrawServed(w) PROVE contract'.status = "CANCELLED"
    BY <1>0, <1>12 DEF WithdrawServed, LocalStep, localVars
  <1>13. ASSUME NEW w \in Withdrawers, WithdrawCommit(w) PROVE contract'.status = "CANCELLED"
    BY <1>13 DEF WithdrawCommit, Step, Locking, Locked
  <1>14. ASSUME NEW g \in Signers, SignView(g) PROVE contract'.status = "CANCELLED"
    BY <1>0, <1>14 DEF SignView, LocalStep, localVars
  <1>15. ASSUME NEW g \in Signers, Sign(g) PROVE contract'.status = "CANCELLED"
    BY <1>0, <1>15 DEF Sign, LocalStep, localVars
  <1>16. ASSUME NEW c \in Cancellers, CancelView(c) PROVE contract'.status = "CANCELLED"
    BY <1>0, <1>16 DEF CancelView, LocalStep, localVars
  <1>17. ASSUME NEW c \in Cancellers, Cancel(c) PROVE contract'.status = "CANCELLED"
    BY <1>0, <1>17 DEF Cancel, LocalStep, localVars
  <1>18. ASSUME NEW t \in Terminators, TerminateMark(t) PROVE contract'.status = "CANCELLED"
    BY <1>0, <1>18 DEF TerminateMark, LocalStep, localVars
  <1>19. ASSUME NEW t \in Terminators, TerminateLock(t) PROVE contract'.status = "CANCELLED"
    BY <1>0, <1>19 DEF TerminateLock, LocalStep, localVars
  <1>20. ASSUME NEW t \in Terminators, NEW i \in Instances, TerminateServed(t, i)
        PROVE contract'.status = "CANCELLED"
    BY <1>0, <1>20 DEF TerminateServed, LocalStep, localVars
  <1>21. ASSUME NEW t \in Terminators, TerminateCommit(t) PROVE contract'.status = "CANCELLED"
    BY <1>0, <1>21 DEF TerminateCommit, LocalStep, localVars
  <1>22. ASSUME NEW i \in Instances, ApplyTermination(i) PROVE contract'.status = "CANCELLED"
    BY <1>22 DEF ApplyTermination, EndsTermination
  <1>23. CASE Void
    BY <1>0, <1>23 DEF Void, LocalStep, localVars
  <1>24. CASE Delete
    BY <1>0, <1>24 DEF Delete, LocalStep, localVars
  <1>25. CASE Edit
    BY <1>0, <1>25 DEF Edit, LocalStep, localVars
  <1>26. CASE Change
    BY <1>0, <1>26 DEF Change, LocalStep, localVars
  <1>27. CASE Pause
    BY <1>0, <1>27 DEF Pause, LocalStep, localVars
  <1>28. CASE Resume
    BY <1>0, <1>28 DEF Resume, LocalStep, localVars
  <1>29. CASE Complete
    BY <1>0, <1>29 DEF Complete, LocalStep, localVars
  <1>30. CASE UNCHANGED vars
    BY <1>30 DEF vars, localVars
  <1>. QED
    BY <1>1, <1>2, <1>3, <1>4, <1>5, <1>6, <1>7, <1>8, <1>9, <1>10, <1>11, <1>12, <1>13, <1>14,
       <1>15,
       <1>16, <1>17, <1>18, <1>19, <1>20, <1>21, <1>22, <1>23, <1>24, <1>25, <1>26, <1>27, <1>28, <1>29, <1>30 DEF Next

(* A new attempt has a new key, and its answer meets the attempt that      *)
(* asked.                                                                  *)
LEMMA TerminationGetsItsAnswerPreserved ==
  ASSUME TypeOK, Locking, Versioned, Answers, Keyed, Linked, TerminationLinked,
         TerminationGetsItsAnswer, [Next]_vars
  PROVE  TerminationGetsItsAnswer'
  <1>0. /\ contract \in ContractType /\ termination \in TerminationType
        /\ verdict \in [Instances -> Desk!Statuses]
        /\ announced \in [Instances -> Desk!Verdicts \union {"none"}]
        /\ key \in [Instances -> AnyKey] /\ handled \subseteq Instances
    BY DEF TypeOK
  <1>c. contract'.status # "CANCELLED" => contract.status # "CANCELLED"
    BY CancelledStaysSo
  <1>. USE KindsDiffer DEF TerminationGetsItsAnswer, Undelivered
  <1>1. ASSUME NEW s \in Submitters, SubmitView(s) PROVE TerminationGetsItsAnswer'
    <2>1. /\ contract'.status = "TERMINATING" <=> contract.status = "TERMINATING"
          /\ termination'.key = termination.key /\ UNCHANGED <<deskVars, handled>>
      BY <1>0, <1>1 DEF SubmitView, LocalStep, localVars, ContractType, TerminationType
    <2>. QED  BY <1>0, <1>c, <2>1 DEF deskVars
  <1>2. ASSUME NEW s \in Submitters, SubmitPersistKey(s) PROVE TerminationGetsItsAnswer'
    <2>1. /\ contract'.status = "TERMINATING" <=> contract.status = "TERMINATING"
          /\ termination'.key = termination.key /\ UNCHANGED <<deskVars, handled>>
      BY <1>0, <1>2 DEF SubmitPersistKey, LocalStep, localVars, ContractType, TerminationType
    <2>. QED  BY <1>0, <1>c, <2>1 DEF deskVars
  <1>3. ASSUME NEW s \in Submitters, SubmitReadKey(s) PROVE TerminationGetsItsAnswer'
    <2>1. /\ contract'.status = "TERMINATING" <=> contract.status = "TERMINATING"
          /\ termination'.key = termination.key /\ UNCHANGED <<deskVars, handled>>
      BY <1>0, <1>3 DEF SubmitReadKey, LocalStep, localVars, ContractType, TerminationType
    <2>. QED  BY <1>0, <1>c, <2>1 DEF deskVars
  <1>4. ASSUME NEW s \in Submitters, SubmitLock(s) PROVE TerminationGetsItsAnswer'
    <2>1. /\ contract'.status = "TERMINATING" <=> contract.status = "TERMINATING"
          /\ termination'.key = termination.key /\ UNCHANGED <<deskVars, handled>>
      BY <1>0, <1>4 DEF SubmitLock, LocalStep, localVars, ContractType, TerminationType
    <2>. QED  BY <1>0, <1>c, <2>1 DEF deskVars
  <1>5. ASSUME NEW s \in Submitters, NEW i \in Instances, SubmitServed(s, i)
        PROVE TerminationGetsItsAnswer'
    <2>1. UNCHANGED <<contract, termination, handled>> /\ request[s].key \in Keys \union {Nil}
      BY <1>5 DEF SubmitServed, localVars, Keyed
    <2>2. CASE UNCHANGED deskVars
      BY <2>1, <2>2 DEF deskVars
    <2>3. CASE Desk!Open(i, Contract, request[s].key, "RUNNING")
      <3>1. key'[i] \notin TerminationKeys
        BY <1>0, <2>1, <2>3, PrefixAssumption, NilAssumption DEF Desk!Open
      <3>2. \A j \in Instances : j # i =>
              key'[j] = key[j] /\ verdict'[j] = verdict[j] /\ announced'[j] = announced[j]
        BY <1>0, <2>3 DEF Desk!Open
      <3>. QED  BY <2>1, <3>1, <3>2
    <2>. QED  BY <1>5, <2>2, <2>3 DEF SubmitServed, Submitted
  <1>6. ASSUME NEW s \in Submitters, SubmitCommit(s) PROVE TerminationGetsItsAnswer'
    <2>1. /\ contract'.status = "TERMINATING" <=> contract.status = "TERMINATING"
          /\ termination'.key = termination.key /\ UNCHANGED <<deskVars, handled>>
      BY <1>0, <1>6 DEF SubmitCommit, LocalStep, localVars, ContractType, TerminationType, Step,
         Locking, Locked
    <2>. QED  BY <1>0, <1>c, <2>1 DEF deskVars
  <1>7. ASSUME NEW q \in Calls, Fail(q) PROVE TerminationGetsItsAnswer'
    <2>1. /\ contract'.status = "TERMINATING" <=> contract.status = "TERMINATING"
          /\ termination'.key = termination.key /\ UNCHANGED <<deskVars, handled>>
      BY <1>0, <1>7 DEF Fail, LocalStep, localVars, ContractType, TerminationType
    <2>. QED  BY <1>0, <1>c, <2>1 DEF deskVars
  <1>8. ASSUME NEW i \in Instances, Decide(i) PROVE TerminationGetsItsAnswer'
    <2>1. UNCHANGED <<contract, termination, handled, key>> /\ i \notin handled
      BY <1>8 DEF Decide, localVars, Desk!Conclude, Answers
    <2>2. /\ verdict[i] = "RUNNING" /\ announced'[i] # "none"
          /\ \A j \in Instances : j # i => verdict'[j] = verdict[j] /\ announced'[j] = announced[j]
      BY <1>0, <1>8 DEF Decide, Desk!Conclude
    <2>. QED  BY <2>1, <2>2
  <1>9. ASSUME NEW i \in Instances, ApplyDecision(i) PROVE TerminationGetsItsAnswer'
    <2>1. /\ contract'.status = "TERMINATING" <=> contract.status = "TERMINATING"
          /\ UNCHANGED <<termination, deskVars>>
          /\ key[i] \notin TerminationKeys /\ handled' = handled \union {i}
      BY <1>0, <1>9 DEF ApplyDecision, ContractTo, Recovers, ContractType
    <2>. QED  BY <1>c, <2>1 DEF deskVars
  <1>10. ASSUME NEW i \in Instances, IgnoreDecision(i) PROVE TerminationGetsItsAnswer'
    <2>1. /\ contract'.status = "TERMINATING" <=> contract.status = "TERMINATING"
          /\ UNCHANGED <<termination, deskVars>>
          /\ key[i] \notin TerminationKeys /\ handled' = handled \union {i}
      BY <1>0, <1>10 DEF IgnoreDecision, ContractTo, Recovers, ContractType
    <2>. QED  BY <1>c, <2>1 DEF deskVars
  <1>11. ASSUME NEW w \in Withdrawers, WithdrawLock(w) PROVE TerminationGetsItsAnswer'
    <2>1. /\ contract'.status = "TERMINATING" <=> contract.status = "TERMINATING"
          /\ termination'.key = termination.key /\ UNCHANGED <<deskVars, handled>>
      BY <1>0, <1>11 DEF WithdrawLock, LocalStep, localVars, ContractType, TerminationType
    <2>. QED  BY <1>0, <1>c, <2>1 DEF deskVars
  <1>12. ASSUME NEW w \in Withdrawers, WithdrawServed(w) PROVE TerminationGetsItsAnswer'
    <2>1. UNCHANGED <<contract, termination, handled, key, announced>>
      BY <1>12 DEF WithdrawServed, localVars, Desk!Recall, deskVars
    <2>2. CASE UNCHANGED deskVars
      BY <2>1, <2>2 DEF deskVars
    <2>3. CASE Desk!Recall(request[w].inst)
      <3>1. request[w].inst = contract.inst /\ key[contract.inst] \notin TerminationKeys
        BY <1>12 DEF WithdrawServed, Step, Locking, Locked, Linked
      <3>2. \A j \in Instances : j # request[w].inst => verdict'[j] = verdict[j]
        BY <1>0, <2>3 DEF Desk!Recall
      <3>. QED  BY <2>1, <3>1, <3>2
    <2>. QED  BY <1>12, <2>2, <2>3 DEF WithdrawServed
  <1>13. ASSUME NEW w \in Withdrawers, WithdrawCommit(w) PROVE TerminationGetsItsAnswer'
    <2>1. /\ contract'.status = "TERMINATING" <=> contract.status = "TERMINATING"
          /\ termination'.key = termination.key /\ UNCHANGED <<deskVars, handled>>
      BY <1>0, <1>13 DEF WithdrawCommit, LocalStep, localVars, ContractType, TerminationType, Step,
         Locking, Locked
    <2>. QED  BY <1>0, <1>c, <2>1 DEF deskVars
  <1>14. ASSUME NEW g \in Signers, SignView(g) PROVE TerminationGetsItsAnswer'
    <2>1. /\ contract'.status = "TERMINATING" <=> contract.status = "TERMINATING"
          /\ termination'.key = termination.key /\ UNCHANGED <<deskVars, handled>>
      BY <1>0, <1>14 DEF SignView, LocalStep, localVars, ContractType, TerminationType
    <2>. QED  BY <1>0, <1>c, <2>1 DEF deskVars
  <1>15. ASSUME NEW g \in Signers, Sign(g) PROVE TerminationGetsItsAnswer'
    <2>1. /\ contract'.status = "TERMINATING" <=> contract.status = "TERMINATING"
          /\ termination'.key = termination.key /\ UNCHANGED <<deskVars, handled>>
      BY <1>0, <1>15 DEF Sign, LocalStep, localVars, ContractType, TerminationType
    <2>. QED  BY <1>0, <1>c, <2>1 DEF deskVars
  <1>16. ASSUME NEW c \in Cancellers, CancelView(c) PROVE TerminationGetsItsAnswer'
    <2>1. /\ contract'.status = "TERMINATING" <=> contract.status = "TERMINATING"
          /\ termination'.key = termination.key /\ UNCHANGED <<deskVars, handled>>
      BY <1>0, <1>16 DEF CancelView, LocalStep, localVars, ContractType, TerminationType
    <2>. QED  BY <1>0, <1>c, <2>1 DEF deskVars
  <1>17. ASSUME NEW c \in Cancellers, Cancel(c) PROVE TerminationGetsItsAnswer'
    BY <1>0, <1>17 DEF Cancel, ContractType
  <1>18. ASSUME NEW t \in Terminators, TerminateMark(t) PROVE TerminationGetsItsAnswer'
    <2>1. CASE contract.status = "TERMINATING"
      BY <1>18, <2>1 DEF TerminateMark, deskVars
    <2>2. CASE contract.status \in {"EXECUTING", "PAUSED"}
      <3>1. \A j \in Instances : key[j] # termination'.key
        BY <1>0, <1>18, <2>2, NilAssumption DEF TerminateMark, TerminationType, Keyed
      <3>2. \A j \in Instances : key[j] \in TerminationKeys => verdict[j] # "RUNNING" /\ ~Undelivered(j)
        BY <2>2
      <3>3. UNCHANGED <<deskVars, handled>>
        BY <1>18 DEF TerminateMark
      <3>. QED  BY <3>1, <3>2, <3>3 DEF deskVars
    <2>. QED  BY <1>18, <2>1, <2>2 DEF TerminateMark
  <1>19. ASSUME NEW t \in Terminators, TerminateLock(t) PROVE TerminationGetsItsAnswer'
    <2>1. /\ contract'.status = "TERMINATING" <=> contract.status = "TERMINATING"
          /\ termination'.key = termination.key /\ UNCHANGED <<deskVars, handled>>
      BY <1>0, <1>19 DEF TerminateLock, LocalStep, localVars, ContractType, TerminationType
    <2>. QED  BY <1>0, <1>c, <2>1 DEF deskVars
  <1>20. ASSUME NEW t \in Terminators, NEW i \in Instances, TerminateServed(t, i)
        PROVE TerminationGetsItsAnswer'
    <2>1. /\ UNCHANGED <<contract, termination, handled>> /\ contract.status = "TERMINATING"
          /\ request[t].key = termination.key
      BY <1>20 DEF TerminateServed, localVars, Step, Locking, Locked
    <2>2. CASE UNCHANGED deskVars
      BY <2>1, <2>2 DEF deskVars
    <2>3. CASE Desk!Open(i, Contract, request[t].key, "RUNNING")
      <3>1. key'[i] = termination.key /\ verdict'[i] = "RUNNING"
        BY <1>0, <2>1, <2>3 DEF Desk!Open
      <3>2. \A j \in Instances : j # i =>
              key'[j] = key[j] /\ verdict'[j] = verdict[j] /\ announced'[j] = announced[j]
        BY <1>0, <2>3 DEF Desk!Open
      <3>. QED  BY <2>1, <3>1, <3>2
    <2>. QED  BY <1>20, <2>2, <2>3 DEF TerminateServed, Submitted
  <1>21. ASSUME NEW t \in Terminators, TerminateCommit(t) PROVE TerminationGetsItsAnswer'
    <2>1. /\ contract'.status = "TERMINATING" <=> contract.status = "TERMINATING"
          /\ termination'.key = termination.key /\ UNCHANGED <<deskVars, handled>>
      BY <1>0, <1>21 DEF TerminateCommit, LocalStep, localVars, ContractType, TerminationType
    <2>. QED  BY <1>0, <1>c, <2>1 DEF deskVars
  <1>22. ASSUME NEW i \in Instances, ApplyTermination(i) PROVE TerminationGetsItsAnswer'
    <2>1. UNCHANGED <<termination, deskVars>> /\ handled' = handled \union {i}
          /\ Undelivered(i) /\ key[i] \in TerminationKeys /\ verdict[i] # "RUNNING"
      BY <1>0, <1>22 DEF ApplyTermination, Answers
    <2>2. CASE contract.status = "CANCELLED"
      <3>1. contract'.status = "CANCELLED"
        BY <2>2, CancelledStaysSo
      <3>. QED  BY <3>1
    <2>3. CASE contract.status # "CANCELLED"
      <3>1. contract.status = "TERMINATING" /\ key[i] = termination.key /\ termination.key # Nil
        BY <2>1, <2>3 DEF Versioned
      <3>2. termination.inst \in {Nil, i}
        BY <3>1 DEF TerminationLinked
      <3>3. contract'.status # "TERMINATING"
        BY <1>0, <1>22, <3>1, <3>2 DEF ApplyTermination, EndsTermination, TerminationTo,
           TerminationType, ContractType
      <3>4. \A j \in Instances : key[j] = termination.key => j = i
        BY <3>1 DEF Answers
      <3>. QED  BY <2>1, <2>3, <3>1, <3>3, <3>4 DEF deskVars
    <2>. QED  BY <2>2, <2>3
  <1>23. CASE Void
    <2>1. /\ contract'.status = "TERMINATING" <=> contract.status = "TERMINATING"
          /\ termination'.key = termination.key /\ UNCHANGED <<deskVars, handled>>
      BY <1>0, <1>23 DEF Void, LocalStep, localVars, ContractType, TerminationType
    <2>. QED  BY <1>0, <1>c, <2>1 DEF deskVars
  <1>24. CASE Delete
    <2>1. /\ contract'.status = "TERMINATING" <=> contract.status = "TERMINATING"
          /\ termination'.key = termination.key /\ UNCHANGED <<deskVars, handled>>
      BY <1>0, <1>24 DEF Delete, LocalStep, localVars, ContractType, TerminationType
    <2>. QED  BY <1>0, <1>c, <2>1 DEF deskVars
  <1>25. CASE Edit
    <2>1. /\ contract'.status = "TERMINATING" <=> contract.status = "TERMINATING"
          /\ termination'.key = termination.key /\ UNCHANGED <<deskVars, handled>>
      BY <1>0, <1>25 DEF Edit, LocalStep, localVars, ContractType, TerminationType
    <2>. QED  BY <1>0, <1>c, <2>1 DEF deskVars
  <1>26. CASE Change
    <2>1. /\ contract'.status = "TERMINATING" <=> contract.status = "TERMINATING"
          /\ termination'.key = termination.key /\ UNCHANGED <<deskVars, handled>>
      BY <1>0, <1>26 DEF Change, LocalStep, localVars, ContractType, TerminationType
    <2>. QED  BY <1>0, <1>c, <2>1 DEF deskVars
  <1>27. CASE Pause
    <2>1. /\ contract'.status = "TERMINATING" <=> contract.status = "TERMINATING"
          /\ termination'.key = termination.key /\ UNCHANGED <<deskVars, handled>>
      BY <1>0, <1>27 DEF Pause, LocalStep, localVars, ContractType, TerminationType
    <2>. QED  BY <1>0, <1>c, <2>1 DEF deskVars
  <1>28. CASE Resume
    <2>1. /\ contract'.status = "TERMINATING" <=> contract.status = "TERMINATING"
          /\ termination'.key = termination.key /\ UNCHANGED <<deskVars, handled>>
      BY <1>0, <1>28 DEF Resume, LocalStep, localVars, ContractType, TerminationType
    <2>. QED  BY <1>0, <1>c, <2>1 DEF deskVars
  <1>29. CASE Complete
    <2>1. /\ contract'.status = "TERMINATING" <=> contract.status = "TERMINATING"
          /\ termination'.key = termination.key /\ UNCHANGED <<deskVars, handled>>
      BY <1>0, <1>29 DEF Complete, LocalStep, localVars, ContractType, TerminationType
    <2>. QED  BY <1>0, <1>c, <2>1 DEF deskVars
  <1>30. CASE UNCHANGED vars
    BY <1>30 DEF vars, localVars, deskVars
  <1>. QED
    BY <1>1, <1>2, <1>3, <1>4, <1>5, <1>6, <1>7, <1>8, <1>9, <1>10, <1>11, <1>12, <1>13, <1>14,
       <1>15,
       <1>16, <1>17, <1>18, <1>19, <1>20, <1>21, <1>22, <1>23, <1>24, <1>25, <1>26, <1>27, <1>28, <1>29, <1>30 DEF Next

(* Once approved, a contract changes its key and its link only with its    *)
(* status.                                                                 *)
LEMMA ApprovedOnItsAttemptPreserved ==
  ASSUME TypeOK, Locking, Versioned, Answers, Keyed, Linked, ApprovedOnItsAttempt, [Next]_vars
  PROVE  ApprovedOnItsAttempt'
  <1>. DEFINE Carries == contract.status \in {"PENDING_SIGN"} \union InForce
  <1>0. /\ contract \in ContractType
        /\ termination \in TerminationType
        /\ handled \subseteq Instances
    BY DEF TypeOK
  <1>s. \A x \in {"DRAFT", "PENDING_APPROVAL", "CANCELLED", "DELETED"} : x \notin {"PENDING_SIGN"} \union InForce
    BY DEF InForce
  <1>a. ASSUME contract'.status \in {"PENDING_SIGN"} \union InForce =>
                 Carries /\ contract'.key = contract.key /\ contract'.inst = contract.inst
        PROVE  ApprovedOnItsAttempt'
    <2>1. SUFFICES ASSUME contract'.status \in {"PENDING_SIGN"} \union InForce
                   PROVE  /\ contract'.inst \in handled'
                          /\ \E i \in handled' :
                               /\ announced'[i] = "APPROVED" /\ key'[i] \in {Nil, contract'.key}
                               /\ \/ contract'.inst = i
                                  \/ key'[i] = Nil /\ key'[contract'.inst] = contract'.key
      BY DEF ApprovedOnItsAttempt
    <2>2. Carries /\ contract'.key = contract.key /\ contract'.inst = contract.inst
      BY <1>a, <2>1
    <2>3. PICK i \in handled :
            /\ announced[i] = "APPROVED" /\ key[i] \in {Nil, contract.key}
            /\ contract.inst = i \/ (key[i] = Nil /\ key[contract.inst] = contract.key)
      BY <2>2 DEF ApprovedOnItsAttempt
    <2>4. i \in handled' /\ announced'[i] = "APPROVED" /\ key'[i] = key[i]
      BY <1>0, <2>3, DeskRemembers DEF Answers
    <2>5. contract.inst \in handled /\ contract.inst \in Instances /\ verdict[contract.inst] # "none"
      BY <1>0, <2>2 DEF Linked, ApprovedOnItsAttempt
    <2>6. contract.inst \in handled' /\ key'[contract.inst] = key[contract.inst]
      BY <2>5, DeskRemembers
    <2>. QED  BY <2>2, <2>3, <2>4, <2>6
  <1>1. ASSUME NEW s \in Submitters, SubmitView(s) PROVE ApprovedOnItsAttempt'
    BY <1>0, <1>s, <1>a, <1>1 DEF SubmitView, LocalStep, localVars, ContractType, InForce
  <1>2. ASSUME NEW s \in Submitters, SubmitPersistKey(s) PROVE ApprovedOnItsAttempt'
    BY <1>0, <1>s, <1>a, <1>2 DEF SubmitPersistKey, LocalStep, localVars, ContractType, InForce
  <1>3. ASSUME NEW s \in Submitters, SubmitReadKey(s) PROVE ApprovedOnItsAttempt'
    BY <1>0, <1>s, <1>a, <1>3 DEF SubmitReadKey, LocalStep, localVars, ContractType, InForce
  <1>4. ASSUME NEW s \in Submitters, SubmitLock(s) PROVE ApprovedOnItsAttempt'
    BY <1>0, <1>s, <1>a, <1>4 DEF SubmitLock, LocalStep, localVars, ContractType, InForce
  <1>5. ASSUME NEW s \in Submitters, NEW i \in Instances, SubmitServed(s, i)
        PROVE ApprovedOnItsAttempt'
    BY <1>0, <1>s, <1>a, <1>5 DEF SubmitServed, LocalStep, localVars, ContractType, InForce
  <1>6. ASSUME NEW s \in Submitters, SubmitCommit(s) PROVE ApprovedOnItsAttempt'
    BY <1>0, <1>s, <1>a, <1>6 DEF SubmitCommit, LocalStep, localVars, ContractType, InForce
  <1>7. ASSUME NEW q \in Calls, Fail(q) PROVE ApprovedOnItsAttempt'
    BY <1>0, <1>s, <1>a, <1>7 DEF Fail, LocalStep, localVars, ContractType, InForce
  <1>8. ASSUME NEW i \in Instances, Decide(i) PROVE ApprovedOnItsAttempt'
    BY <1>0, <1>s, <1>a, <1>8 DEF Decide, LocalStep, localVars, ContractType, InForce
  <1>9. ASSUME NEW i \in Instances, ApplyDecision(i) PROVE ApprovedOnItsAttempt'
    <2>1. CASE announced[i] # "APPROVED"
      <3>1. contract'.status = "DRAFT"
        BY <1>0, <1>9, <2>1 DEF ApplyDecision, ContractTo, ContractType
      <3>. QED  BY <1>s, <3>1 DEF ApprovedOnItsAttempt
    <2>2. CASE announced[i] = "APPROVED"
      <3>1. /\ i \in handled' /\ announced'[i] = "APPROVED" /\ key'[i] = key[i]
            /\ verdict'[i] = "APPROVED"
        BY <1>9, <2>2 DEF ApplyDecision, deskVars, Answers
      <3>2. key[i] \in {Nil, contract'.key} /\ contract'.inst = i
        <4>1. CASE key[i] # Nil
          BY <1>0, <1>9, <2>2, <4>1 DEF ApplyDecision, Concerns, ContractType
        <4>2. CASE key[i] = Nil
          <5>1. contract.status = "PENDING_APPROVAL" /\ contract.inst # Nil
            BY <1>9, <4>2 DEF ApplyDecision, Recovers, Linked
          <5>. QED  BY <1>0, <1>9, <2>2, <4>2, <5>1 DEF ApplyDecision, Concerns, ContractType
        <4>. QED  BY <4>1, <4>2
      <3>. QED  BY <3>1, <3>2 DEF ApprovedOnItsAttempt
    <2>. QED  BY <2>1, <2>2
  <1>10. ASSUME NEW i \in Instances, IgnoreDecision(i) PROVE ApprovedOnItsAttempt'
    <2>1. CASE contract' = contract
      BY <1>a, <2>1
    <2>2. CASE contract' = [contract EXCEPT !.inst = i]
      <3>1. /\ contract'.status = contract.status
            /\ contract'.key = contract.key
            /\ contract'.inst = i
            /\ UNCHANGED deskVars /\ handled' = handled \union {i}
        BY <1>0, <1>10, <2>2 DEF IgnoreDecision, ContractType
      <3>2. SUFFICES ASSUME Carries
                     PROVE  \E j \in handled :
                              /\ announced[j] = "APPROVED" /\ key[j] \in {Nil, contract.key}
                              /\ i = j \/ (key[j] = Nil /\ key[i] = contract.key)
        BY <3>1 DEF ApprovedOnItsAttempt, deskVars
      <3>3. CASE contract.inst = i
        BY <3>2, <3>3 DEF ApprovedOnItsAttempt
      <3>4. CASE contract.inst # i
        <4>1. key[i] # Nil /\ key[i] = contract.key
          BY <1>0, <1>10, <2>2, <3>4 DEF IgnoreDecision, Concerns, ContractType
        <4>2. PICK j \in handled :
                /\ announced[j] = "APPROVED" /\ key[j] \in {Nil, contract.key}
                /\ contract.inst = j \/ (key[j] = Nil /\ key[contract.inst] = contract.key)
          BY <3>2 DEF ApprovedOnItsAttempt
        <4>3. CASE key[j] = Nil
          BY <4>1, <4>2, <4>3
        <4>4. CASE key[j] # Nil
          BY <1>0, <4>1, <4>2, <4>4 DEF Answers
        <4>. QED  BY <4>3, <4>4
      <3>. QED  BY <3>3, <3>4
    <2>. QED  BY <1>0, <1>10, <2>1, <2>2 DEF IgnoreDecision, ContractType
  <1>11. ASSUME NEW w \in Withdrawers, WithdrawLock(w) PROVE ApprovedOnItsAttempt'
    BY <1>0, <1>s, <1>a, <1>11 DEF WithdrawLock, LocalStep, localVars, ContractType, InForce
  <1>12. ASSUME NEW w \in Withdrawers, WithdrawServed(w) PROVE ApprovedOnItsAttempt'
    BY <1>0, <1>s, <1>a, <1>12 DEF WithdrawServed, LocalStep, localVars, ContractType, InForce
  <1>13. ASSUME NEW w \in Withdrawers, WithdrawCommit(w) PROVE ApprovedOnItsAttempt'
    BY <1>0, <1>s, <1>a, <1>13 DEF WithdrawCommit, LocalStep, localVars, ContractType, InForce
  <1>14. ASSUME NEW g \in Signers, SignView(g) PROVE ApprovedOnItsAttempt'
    BY <1>0, <1>s, <1>a, <1>14 DEF SignView, LocalStep, localVars, ContractType, InForce
  <1>15. ASSUME NEW g \in Signers, Sign(g) PROVE ApprovedOnItsAttempt'
    BY <1>0, <1>s, <1>a, <1>15 DEF Sign, LocalStep, localVars, ContractType, InForce
  <1>16. ASSUME NEW c \in Cancellers, CancelView(c) PROVE ApprovedOnItsAttempt'
    BY <1>0, <1>s, <1>a, <1>16 DEF CancelView, LocalStep, localVars, ContractType, InForce
  <1>17. ASSUME NEW c \in Cancellers, Cancel(c) PROVE ApprovedOnItsAttempt'
    BY <1>0, <1>s, <1>a, <1>17 DEF Cancel, LocalStep, localVars, ContractType, InForce
  <1>18. ASSUME NEW t \in Terminators, TerminateMark(t) PROVE ApprovedOnItsAttempt'
    BY <1>0, <1>s, <1>a, <1>18 DEF TerminateMark, LocalStep, localVars, ContractType, InForce
  <1>19. ASSUME NEW t \in Terminators, TerminateLock(t) PROVE ApprovedOnItsAttempt'
    BY <1>0, <1>s, <1>a, <1>19 DEF TerminateLock, LocalStep, localVars, ContractType, InForce
  <1>20. ASSUME NEW t \in Terminators, NEW i \in Instances, TerminateServed(t, i)
        PROVE ApprovedOnItsAttempt'
    BY <1>0, <1>s, <1>a, <1>20 DEF TerminateServed, LocalStep, localVars, ContractType, InForce
  <1>21. ASSUME NEW t \in Terminators, TerminateCommit(t) PROVE ApprovedOnItsAttempt'
    BY <1>0, <1>s, <1>a, <1>21 DEF TerminateCommit, LocalStep, localVars, ContractType, InForce
  <1>22. ASSUME NEW i \in Instances, ApplyTermination(i) PROVE ApprovedOnItsAttempt'
    BY <1>0, <1>s, <1>a, <1>22 DEF ApplyTermination, LocalStep, localVars, ContractType, InForce,
       EndsTermination
  <1>23. CASE Void
    BY <1>0, <1>s, <1>a, <1>23 DEF Void, LocalStep, localVars, ContractType, InForce
  <1>24. CASE Delete
    BY <1>0, <1>s, <1>a, <1>24 DEF Delete, LocalStep, localVars, ContractType, InForce
  <1>25. CASE Edit
    BY <1>0, <1>s, <1>a, <1>25 DEF Edit, LocalStep, localVars, ContractType, InForce
  <1>26. CASE Change
    BY <1>0, <1>s, <1>a, <1>26 DEF Change, LocalStep, localVars, ContractType, InForce
  <1>27. CASE Pause
    BY <1>0, <1>s, <1>a, <1>27 DEF Pause, LocalStep, localVars, ContractType, InForce
  <1>28. CASE Resume
    BY <1>0, <1>s, <1>a, <1>28 DEF Resume, LocalStep, localVars, ContractType, InForce
  <1>29. CASE Complete
    BY <1>0, <1>s, <1>a, <1>29 DEF Complete, LocalStep, localVars, ContractType, InForce
  <1>30. CASE UNCHANGED vars
    BY <1>a, <1>30 DEF vars, localVars
  <1>. QED
    BY <1>1, <1>2, <1>3, <1>4, <1>5, <1>6, <1>7, <1>8, <1>9, <1>10, <1>11, <1>12, <1>13, <1>14,
       <1>15,
       <1>16, <1>17, <1>18, <1>19, <1>20, <1>21, <1>22, <1>23, <1>24, <1>25, <1>26, <1>27, <1>28, <1>29, <1>30 DEF Next

(* The key is written before the approval service is called.               *)
LEMMA TracedPreserved ==
  ASSUME TypeOK, Locking, Versioned, Answers, Keyed, Linked, Traced, [Next]_vars
  PROVE  Traced'
  <1>. DEFINE Trace == \/ contract.status \in {"CANCELLED", "DELETED"}
                       \/ contract.key # Nil \/ contract.inst # Nil \/ withdrawn \/ contract.inForce # 0
              Untouched == /\ \A i \in Instances : verdict[i] = "none"
                           /\ \A s \in Submitters : request[s].at \in {"idle", "viewed"}
  <1>0. /\ contract \in ContractType /\ termination \in TerminationType
        /\ contract.inst \in Instances \union {Nil}
    BY DEF TypeOK, ContractType
  <1>. USE KindsDiffer, NilAssumption DEF Traced
  <1>1. ASSUME NEW s \in Submitters, SubmitView(s) PROVE Traced'
    <2>1. After(s, "viewed", contract.status, contract.latest, Nil, Nil)
      BY <1>1, RequestAfter
    <2>2. UNCHANGED <<contract, withdrawn>> /\ verdict' = verdict
      BY <1>1 DEF SubmitView, localVars, deskVars
    <2>. QED  BY <1>0, <2>1, <2>2 DEF After, AfterIdle
  <1>2. ASSUME NEW s \in Submitters, SubmitPersistKey(s) PROVE Traced'
    <2>1. contract.key # Nil \/ contract.status = "DRAFT" \/ contract.inst # Nil \/ contract.status \in {"CANCELLED", "DELETED"}
      BY <1>0 DEF Linked, ContractType, ContractStates, Unsigned
    <2>. QED  BY <1>0, <1>2, <2>1 DEF SubmitPersistKey, ContractType
  <1>3. ASSUME NEW s \in Submitters, SubmitReadKey(s) PROVE Traced'
    <2>1. request[s].at \notin {"idle", "viewed"} /\ UNCHANGED <<contract, withdrawn>>
      BY <1>3 DEF SubmitReadKey, Step, localVars
    <2>. QED  BY <2>1
  <1>4. ASSUME NEW s \in Submitters, SubmitLock(s) PROVE Traced'
    <2>1. request[s].at \notin {"idle", "viewed"} /\ UNCHANGED <<contract, withdrawn>>
      BY <1>4 DEF SubmitLock, Step, localVars
    <2>. QED  BY <2>1
  <1>5. ASSUME NEW s \in Submitters, NEW i \in Instances, SubmitServed(s, i) PROVE Traced'
    <2>1. request[s].at \notin {"idle", "viewed"} /\ UNCHANGED <<contract, withdrawn>>
      BY <1>5 DEF SubmitServed, Step, localVars
    <2>. QED  BY <2>1
  <1>6. ASSUME NEW s \in Submitters, SubmitCommit(s) PROVE Traced'
    <2>1. request[s].inst # Nil
      BY <1>6 DEF SubmitCommit, Step, Linked
    <2>. QED  BY <1>0, <1>6, <2>1 DEF SubmitCommit, ContractType
  <1>7. ASSUME NEW q \in Calls, Fail(q) PROVE Traced'
    <2>1. AfterIdle(q)
      BY <1>7, RequestAfter
    <2>2. UNCHANGED <<contract, withdrawn>> /\ verdict' = verdict
      BY <1>7 DEF Fail, localVars, deskVars
    <2>. QED  BY <1>0, <2>1, <2>2 DEF After, AfterIdle
  <1>8. ASSUME NEW i \in Instances, Decide(i) PROVE Traced'
    <2>1. verdict[i] # "none" /\ UNCHANGED <<contract, withdrawn>>
      BY <1>8 DEF Decide, Desk!Conclude, localVars
    <2>. QED  BY <2>1
  <1>9. ASSUME NEW i \in Instances, ApplyDecision(i) PROVE Traced'
    <2>1. verdict[i] # "none" /\ i # Nil /\ UNCHANGED withdrawn
      BY <1>9 DEF ApplyDecision, Undelivered, Answers
    <2>2. contract'.inst # Nil
      <3>1. contract'.inst = IF key[i] = Nil THEN contract.inst ELSE i
        BY <1>0, <1>9 DEF ApplyDecision, ContractType
      <3>2. key[i] = Nil => contract.inst # Nil
        BY <1>9 DEF ApplyDecision, Recovers, Linked
      <3>. QED  BY <2>1, <3>1, <3>2
    <2>. QED  BY <2>2
  <1>10. ASSUME NEW i \in Instances, IgnoreDecision(i) PROVE Traced'
    <2>1. verdict[i] # "none" /\ i # Nil /\ UNCHANGED withdrawn
      BY <1>10 DEF IgnoreDecision, Undelivered, Answers
    <2>. QED  BY <1>0, <1>10, <2>1 DEF IgnoreDecision, ContractType
  <1>11. ASSUME NEW w \in Withdrawers, WithdrawLock(w) PROVE Traced'
    <2>1. After(w, "locked", "none", contract.latest, Nil, contract.inst)
      BY <1>11, RequestAfter
    <2>2. UNCHANGED <<contract, withdrawn>> /\ verdict' = verdict
      BY <1>11 DEF WithdrawLock, localVars, deskVars
    <2>. QED  BY <1>0, <2>1, <2>2 DEF After, AfterIdle
  <1>12. ASSUME NEW w \in Withdrawers, WithdrawServed(w) PROVE Traced'
    <2>1. contract.inst # Nil /\ UNCHANGED <<contract, withdrawn>>
      BY <1>12 DEF WithdrawServed, Step, localVars, Locking, Locked, Linked
    <2>. QED  BY <2>1
  <1>13. ASSUME NEW w \in Withdrawers, WithdrawCommit(w) PROVE Traced'
    BY <1>13 DEF WithdrawCommit
  <1>14. ASSUME NEW g \in Signers, SignView(g) PROVE Traced'
    <2>1. After(g, "viewed", "none", contract.latest, Nil, Nil)
      BY <1>14, RequestAfter
    <2>2. UNCHANGED <<contract, withdrawn>> /\ verdict' = verdict
      BY <1>14 DEF SignView, localVars, deskVars
    <2>. QED  BY <1>0, <2>1, <2>2 DEF After, AfterIdle
  <1>15. ASSUME NEW g \in Signers, Sign(g) PROVE Traced'
    <2>1. contract.inst # Nil
      BY <1>15 DEF Sign, Linked
    <2>. QED  BY <1>0, <1>15, <2>1 DEF Sign, ContractType
  <1>16. ASSUME NEW c \in Cancellers, CancelView(c) PROVE Traced'
    <2>1. After(c, "viewed", "none", 0, Nil, Nil)
      BY <1>16, RequestAfter
    <2>2. UNCHANGED <<contract, withdrawn>> /\ verdict' = verdict
      BY <1>16 DEF CancelView, localVars, deskVars
    <2>. QED  BY <1>0, <2>1, <2>2 DEF After, AfterIdle
  <1>17. ASSUME NEW c \in Cancellers, Cancel(c) PROVE Traced'
    BY <1>0, <1>17 DEF Cancel, ContractType, LocalStep
  <1>18. ASSUME NEW t \in Terminators, TerminateMark(t) PROVE Traced'
    <2>1. contract.inForce # 0
      BY <1>18 DEF TerminateMark, Versioned, InForce
    <2>. QED  BY <1>0, <1>18, <2>1 DEF TerminateMark, ContractType
  <1>19. ASSUME NEW t \in Terminators, TerminateLock(t) PROVE Traced'
    <2>1. UNCHANGED <<contract, withdrawn>> /\ verdict' = verdict
      BY <1>19 DEF TerminateLock, localVars, deskVars
    <2>2. \/ AfterIdle(t)
          \/ After(t, "locked", request[t].status, request[t].version, termination.key,
                request[t].inst)
      BY <1>19, RequestAfter
    <2>. QED  BY <2>1, <2>2 DEF After, AfterIdle
  <1>20. ASSUME NEW t \in Terminators, NEW i \in Instances, TerminateServed(t, i) PROVE Traced'
    <2>1. contract.inForce # 0 /\ UNCHANGED <<contract, withdrawn>>
      BY <1>20 DEF TerminateServed, Step, localVars, Locking, Locked, Versioned, InForce
    <2>. QED  BY <2>1
  <1>21. ASSUME NEW t \in Terminators, TerminateCommit(t) PROVE Traced'
    <2>1. AfterIdle(t)
      BY <1>21, RequestAfter
    <2>2. UNCHANGED <<contract, withdrawn>> /\ verdict' = verdict
      BY <1>21 DEF TerminateCommit, localVars, deskVars
    <2>. QED  BY <1>0, <2>1, <2>2 DEF After, AfterIdle
  <1>22. ASSUME NEW i \in Instances, ApplyTermination(i) PROVE Traced'
    <2>1. UNCHANGED <<verdict, request, withdrawn>>
      BY <1>22 DEF ApplyTermination, deskVars
    <2>2. \/ contract' = contract
          \/ contract.status = "TERMINATING" /\ contract' = [contract EXCEPT !.status = TerminationTo(i)]
      BY <1>22 DEF ApplyTermination, EndsTermination
    <2>3. contract.status = "TERMINATING" => contract.inForce # 0
      BY DEF Versioned, InForce
    <2>. QED  BY <1>0, <2>1, <2>2, <2>3 DEF ContractType
  <1>23. CASE Void
    BY <1>0, <1>23 DEF Void, ContractType, LocalStep
  <1>24. CASE Delete
    BY <1>0, <1>24 DEF Delete, ContractType, LocalStep
  <1>25. CASE Edit
    BY <1>0, <1>25 DEF Edit, LocalStep, ContractType, deskVars
  <1>26. CASE Change
    <2>1. contract.inForce # 0
      BY <1>26 DEF Change, Versioned, InForce
    <2>. QED  BY <1>0, <1>26, <2>1 DEF Change, LocalStep, ContractType
  <1>27. CASE Pause
    BY <1>0, <1>27 DEF Pause, LocalStep, ContractType, deskVars
  <1>28. CASE Resume
    BY <1>0, <1>28 DEF Resume, LocalStep, ContractType, deskVars
  <1>29. CASE Complete
    <2>1. contract.inst # Nil
      BY <1>29 DEF Complete, Linked, InForce
    <2>. QED  BY <1>0, <1>29, <2>1 DEF Complete, LocalStep, ContractType
  <1>30. CASE UNCHANGED vars
    BY <1>30 DEF vars, localVars, deskVars
  <1>. QED
    BY <1>1, <1>2, <1>3, <1>4, <1>5, <1>6, <1>7, <1>8, <1>9, <1>10, <1>11, <1>12, <1>13, <1>14,
       <1>15,
       <1>16, <1>17, <1>18, <1>19, <1>20, <1>21, <1>22, <1>23, <1>24, <1>25, <1>26, <1>27, <1>28, <1>29, <1>30 DEF Next

LEMMA DeletedByDelete ==
  ASSUME TypeOK, [Next]_vars, contract'.status = "DELETED"
  PROVE  contract.status = "DELETED" \/ Delete
  <1>. DEFINE Goal == contract.status = "DELETED" \/ Delete
  <1>0. contract \in ContractType /\ termination \in TerminationType
    BY DEF TypeOK
  <1>. USE DEF ContractType
  <1>1. ASSUME NEW s \in Submitters, SubmitView(s) PROVE Goal
    BY <1>0, <1>1 DEF SubmitView, LocalStep, localVars
  <1>2. ASSUME NEW s \in Submitters, SubmitPersistKey(s) PROVE Goal
    BY <1>0, <1>2 DEF SubmitPersistKey, LocalStep, localVars
  <1>3. ASSUME NEW s \in Submitters, SubmitReadKey(s) PROVE Goal
    BY <1>0, <1>3 DEF SubmitReadKey, LocalStep, localVars
  <1>4. ASSUME NEW s \in Submitters, SubmitLock(s) PROVE Goal
    BY <1>0, <1>4 DEF SubmitLock, LocalStep, localVars
  <1>5. ASSUME NEW s \in Submitters, NEW i \in Instances, SubmitServed(s, i) PROVE Goal
    BY <1>0, <1>5 DEF SubmitServed, LocalStep, localVars
  <1>6. ASSUME NEW s \in Submitters, SubmitCommit(s) PROVE Goal
    BY <1>0, <1>6 DEF SubmitCommit, LocalStep, localVars
  <1>7. ASSUME NEW q \in Calls, Fail(q) PROVE Goal
    BY <1>0, <1>7 DEF Fail, LocalStep, localVars
  <1>8. ASSUME NEW i \in Instances, Decide(i) PROVE Goal
    BY <1>0, <1>8 DEF Decide, LocalStep, localVars
  <1>9. ASSUME NEW i \in Instances, ApplyDecision(i) PROVE Goal
    BY <1>0, <1>9 DEF ApplyDecision, ContractTo
  <1>10. ASSUME NEW i \in Instances, IgnoreDecision(i) PROVE Goal
    BY <1>0, <1>10 DEF IgnoreDecision, LocalStep, localVars
  <1>11. ASSUME NEW w \in Withdrawers, WithdrawLock(w) PROVE Goal
    BY <1>0, <1>11 DEF WithdrawLock, LocalStep, localVars
  <1>12. ASSUME NEW w \in Withdrawers, WithdrawServed(w) PROVE Goal
    BY <1>0, <1>12 DEF WithdrawServed, LocalStep, localVars
  <1>13. ASSUME NEW w \in Withdrawers, WithdrawCommit(w) PROVE Goal
    BY <1>0, <1>13 DEF WithdrawCommit, LocalStep, localVars
  <1>14. ASSUME NEW g \in Signers, SignView(g) PROVE Goal
    BY <1>0, <1>14 DEF SignView, LocalStep, localVars
  <1>15. ASSUME NEW g \in Signers, Sign(g) PROVE Goal
    BY <1>0, <1>15 DEF Sign, LocalStep, localVars
  <1>16. ASSUME NEW c \in Cancellers, CancelView(c) PROVE Goal
    BY <1>0, <1>16 DEF CancelView, LocalStep, localVars
  <1>17. ASSUME NEW c \in Cancellers, Cancel(c) PROVE Goal
    BY <1>0, <1>17 DEF Cancel, LocalStep, localVars
  <1>18. ASSUME NEW t \in Terminators, TerminateMark(t) PROVE Goal
    BY <1>0, <1>18 DEF TerminateMark, LocalStep, localVars
  <1>19. ASSUME NEW t \in Terminators, TerminateLock(t) PROVE Goal
    BY <1>0, <1>19 DEF TerminateLock, LocalStep, localVars
  <1>20. ASSUME NEW t \in Terminators, NEW i \in Instances, TerminateServed(t, i) PROVE Goal
    BY <1>0, <1>20 DEF TerminateServed, LocalStep, localVars
  <1>21. ASSUME NEW t \in Terminators, TerminateCommit(t) PROVE Goal
    BY <1>0, <1>21 DEF TerminateCommit, LocalStep, localVars
  <1>22. ASSUME NEW i \in Instances, ApplyTermination(i) PROVE Goal
    BY <1>0, <1>22 DEF ApplyTermination, TerminationTo, TerminationType
  <1>23. CASE Void
    BY <1>0, <1>23 DEF Void, LocalStep, localVars
  <1>24. CASE Delete
    BY <1>24
  <1>25. CASE Edit
    BY <1>0, <1>25 DEF Edit, LocalStep, localVars
  <1>26. CASE Change
    BY <1>0, <1>26 DEF Change, LocalStep, localVars
  <1>27. CASE Pause
    BY <1>0, <1>27 DEF Pause, LocalStep, localVars
  <1>28. CASE Resume
    BY <1>0, <1>28 DEF Resume, LocalStep, localVars
  <1>29. CASE Complete
    BY <1>0, <1>29 DEF Complete, LocalStep, localVars
  <1>30. CASE UNCHANGED vars
    BY <1>30 DEF vars, localVars
  <1>. QED
    BY <1>1, <1>2, <1>3, <1>4, <1>5, <1>6, <1>7, <1>8, <1>9, <1>10, <1>11, <1>12, <1>13, <1>14,
       <1>15,
       <1>16, <1>17, <1>18, <1>19, <1>20, <1>21, <1>22, <1>23, <1>24, <1>25, <1>26, <1>27, <1>28, <1>29, <1>30 DEF Next

LEMMA DeletedWasNeverSubmittedPreserved ==
  ASSUME TypeOK, Locking, Linked, Traced, DeletedWasNeverSubmitted, [Next]_vars
  PROVE  DeletedWasNeverSubmitted'
  <1>1. SUFFICES ASSUME contract'.status = "DELETED"
                 PROVE  \A i \in Instances : verdict'[i] = "none"
    BY DEF DeletedWasNeverSubmitted
  <1>2. CASE Delete
    <2>1. verdict' = verdict /\ \A i \in Instances : verdict[i] = "none"
      BY <1>2 DEF Delete, LocalStep, deskVars, Traced
    <2>. QED  BY <2>1
  <1>3. CASE contract.status = "DELETED"
    <2>1. \A i \in Instances : verdict[i] = "none"
      BY <1>3 DEF DeletedWasNeverSubmitted
    <2>2. \A i \in Instances, k \in AnyKey : ~Asks(i, k)
      BY <1>3 DEF Asks, Locking
    <2>3. \A i \in Instances : ~Desk!Recall(i) /\ \A v \in {"APPROVED", "RETURNED"} : ~Desk!Conclude(i, v)
      BY <2>1 DEF Desk!Recall, Desk!Conclude
    <2>4. UNCHANGED deskVars
      BY <2>2, <2>3, DeskSteps
    <2>. QED  BY <2>1, <2>4 DEF deskVars
  <1>. QED  BY <1>1, <1>2, <1>3, DeletedByDelete

LEMMA InitIInv == Init => IInv
  <1>. SUFFICES ASSUME Init PROVE IInv
    OBVIOUS
  <1>0. /\ contract = [status |-> "DRAFT", key |-> Nil, inst |-> Nil, latest |-> 1, inForce |-> 0]
        /\ version = [v \in Versions |-> [status |-> IF v = 1 THEN "DRAFT" ELSE "none", terms |-> 0]]
        /\ holder = Nil /\ request = [q \in Calls |-> Idle]
        /\ termination = [key |-> Nil, inst |-> Nil, was |-> "none"]
        /\ usedKeys = {} /\ withdrawn = FALSE /\ handled = {}
        /\ verdict = [i \in Instances |-> "none"] /\ announced = [i \in Instances |-> "none"]
        /\ doc = [i \in Instances |-> Nil] /\ key = [i \in Instances |-> Nil]
    BY DEF Init, Desk!Init
  <1>1. 1 \in Versions
    BY BoundAssumption DEF Versions
  <1>2. \A q \in Calls : request[q] = Idle
    BY <1>0
  <1>3. TypeOK
    <2>1. contract \in ContractType /\ termination \in TerminationType
      BY <1>0, <1>1 DEF ContractType, ContractStates, Unsigned, TerminationType
    <2>2. version \in [Versions -> VersionType]
      BY <1>0, BoundAssumption DEF VersionType, VersionStates
    <2>3. request \in [Calls -> RequestType]
      BY <1>0, IdleType
    <2>. QED  BY <1>0, <2>1, <2>2, <2>3 DEF TypeOK, AnyKey, Desk!Statuses, Desk!Verdicts
  <1>4. Locking
    BY <1>2, KindsDiffer DEF Locking, Locked, Idle
  <1>5. Versioned
    BY <1>0, <1>1 DEF Versioned, Versions, InForce
  <1>6. VersionsRead
    BY <1>2, KindsDiffer DEF VersionsRead, Idle
  <1>7. Answers
    BY <1>0 DEF Answers
  <1>8. Keyed
    BY <1>0, <1>2, KindsDiffer DEF Keyed, Idle
  <1>9. Linked /\ TerminationLinked
    BY <1>0, <1>2, KindsDiffer DEF Linked, TerminationLinked, Idle, InForce
  <1>10. Traced
    BY <1>0, <1>2, KindsDiffer DEF Traced, Idle
  <1>11. ApprovedOnItsAttempt /\ DeletedWasNeverSubmitted
    BY <1>0 DEF ApprovedOnItsAttempt, DeletedWasNeverSubmitted, InForce
  <1>12. TerminationGetsItsAnswer
    BY <1>0, NilAssumption DEF TerminationGetsItsAnswer
  <1>. QED
    BY <1>3, <1>4, <1>5, <1>6, <1>7, <1>8, <1>9, <1>10, <1>11, <1>12 DEF IInv

LEMMA StepIInv == IInv /\ [Next]_vars => IInv'
  <1>. SUFFICES ASSUME IInv, [Next]_vars PROVE IInv'
    OBVIOUS
  <1>1. TypeOK'
    BY TypePreserved DEF IInv, Versioned
  <1>. QED
    BY <1>1, LockingPreserved, VersionedPreserved, VersionsReadPreserved, AnswersPreserved,
       KeyedPreserved,
       LinkedPreserved, TerminationLinkedPreserved, TracedPreserved, ApprovedOnItsAttemptPreserved,
       TerminationGetsItsAnswerPreserved, DeletedWasNeverSubmittedPreserved DEF IInv, Versioned, Frozen, InForce

LEMMA Always == Spec => []IInv
  BY InitIInv, StepIInv, PTL DEF Spec

(* The states, the versions and the requests are what they are declared to *)
(* be, whoever calls what in which order (TypeOK).                         *)
THEOREM TypeInvariant == Spec => []TypeOK
  BY Always, PTL DEF IInv

(* The contract and its newest version never contradict each other, though *)
(* a stale request or a late event may be the one that writes them         *)
(* (VersionFollowsContract).                                               *)
THEOREM VersionAndContractAgree == Spec => []VersionFollowsContract
  <1>1. IInv => VersionFollowsContract
    BY DEF IInv, Versioned, VersionFollowsContract, Frozen
  <1>. QED  BY <1>1, Always, PTL

(* Whatever stale request or late event comes, a cancelled contract stays  *)
(* cancelled (CancelledIsFinal).                                           *)
THEOREM CancelledStays == Spec => CancelledIsFinal
  <1>1. IInv /\ [Next]_vars => (contract.status = "CANCELLED" => contract'.status = "CANCELLED")
    BY CancelledStaysSo DEF IInv
  <1>. QED  BY <1>1, Always, PTL DEF Spec, CancelledIsFinal

(* Signature and force rest on an approval that was taken in, of the key   *)
(* the contract bears or of the keyless instance it was linked to, since   *)
(* ApplyApprovalDecision compares key and link (ApprovedOnItsAttempt).     *)
THEOREM ApprovalIsOfTheAttempt == Spec => []ApprovedOnItsAttempt
  BY Always, PTL DEF IInv

(* Between requestTermination and applyTerminationDecision no question is  *)
(* asked twice, left without an answer or answered for another attempt     *)
(* (TerminationGetsItsAnswer).                                             *)
THEOREM TerminationIsAnswered == Spec => []TerminationGetsItsAnswer
  BY Always, PTL DEF IInv

(* DeleteContract leaves no approval behind (DeletedWasNeverSubmitted).    *)
THEOREM DeletedLeftNoTrace == Spec => []DeletedWasNeverSubmitted
  BY Always, PTL DEF IInv

(* Whatever happens to the calls, the approval service is only ever used   *)
(* the way its own module says: export's requests, decisions and           *)
(* withdrawals are steps of ApprovalDesk, the specification ApprovalEngine *)
(* is proved to implement (Desk!Spec).                                     *)
THEOREM DeskIsFollowed == Spec => Desk!Spec
  <1>1. Init => Desk!Init
    BY DEF Init
  <1>2. IInv /\ [Next]_vars => [Desk!Next]_deskVars
    <2>. SUFFICES ASSUME IInv, [Next]_vars PROVE Desk!Next \/ UNCHANGED deskVars
      OBVIOUS
    <2>0. \/ UNCHANGED <<deskVars, handled>>
          \/ \E i \in Instances, k \in AnyKey : Asks(i, k)
          \/ \E i \in Instances, v \in {"APPROVED", "RETURNED"} :
               Desk!Conclude(i, v) /\ UNCHANGED <<localVars, handled>>
          \/ \E i \in Instances : Desk!Recall(i) /\ i = contract.inst /\ UNCHANGED <<localVars, handled>>
          \/ \E i \in Instances :
               Undelivered(i) /\ handled' = handled \union {i} /\ UNCHANGED deskVars
      BY DeskSteps DEF IInv, Versioned
    <2>1. ASSUME NEW i \in Instances, NEW k \in AnyKey, Asks(i, k) PROVE Desk!Next
      BY <2>1 DEF Asks, Desk!Next, AnyKey
    <2>2. ASSUME NEW i \in Instances, NEW v \in {"APPROVED", "RETURNED"}, Desk!Conclude(i, v)
          PROVE  Desk!Next
      BY <2>2 DEF Desk!Next, Desk!Verdicts
    <2>3. ASSUME NEW i \in Instances, Desk!Recall(i) PROVE Desk!Next
      BY <2>3 DEF Desk!Next
    <2>. QED  BY <2>0, <2>1, <2>2, <2>3
  <1>3. deskVars = Desk!deskVars
    BY DEF deskVars, Desk!deskVars
  <1>. QED  BY <1>1, <1>2, <1>3, Always, PTL DEF Spec, Desk!Spec, deskVars, Desk!deskVars
=============================================================================
