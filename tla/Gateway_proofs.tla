--------------------------- MODULE Gateway_proofs ---------------------------
(***************************************************************************)
(* What the gateway keeps between requests.                                *)
(*                                                                         *)
(* RequestIdempotency: the operation is carried out at most once more than *)
(* things went wrong, for any number of requests and faults.               *)
(* OneMorePerFault alone is not inductive: Budget adds to what was done    *)
(* the requests that may still do it or let another one in, and the        *)
(* opening a free key is.                                                  *)
(*                                                                         *)
(* AccessAnswers: a remembered answer is never older than a change whose   *)
(* writer has been answered, and the cache keeps within its limit, for any *)
(* number of companies, questions, calls and changes. The first needs      *)
(* Fresh: what the tickets of calls under way say about their answers.     *)
(***************************************************************************)
EXTENDS RequestIdempotency, AccessAnswers, FiniteSetTheorems, TLAPS

-----------------------------------------------------------------------------
(* The idempotency middleware.                                             *)

(* Requests that may act are finitely many; one that joins or leaves them  *)
(* changes their number by one.                                            *)
LEMMA CountMayAct ==
  /\ IsFiniteSet(MayAct)
  /\ Cardinality(MayAct) \in Nat
  <1>1. IsFiniteSet(MayAct)
    BY RequestAssumption, FS_Subset DEF MayAct
  <1>. QED  BY <1>1, FS_CardinalityType

LEMMA OneJoins ==
  ASSUME NEW r \in Requests, r \notin MayAct, MayAct' = MayAct \union {r}
  PROVE  Cardinality(MayAct') = Cardinality(MayAct) + 1
  BY CountMayAct, FS_AddElement

LEMMA OneLeaves ==
  ASSUME NEW r \in Requests, r \in MayAct, MayAct' = MayAct \ {r}
  PROVE  Cardinality(MayAct') = Cardinality(MayAct) - 1
  BY CountMayAct, FS_RemoveElement

(* What a step that moves one request does to the two sets.                *)
LEMMA Joins ==
  ASSUME TypeOK, NEW r \in Requests, NEW place \in Places, Goto(r, place),
         place \in {"running", "bare", "failed"}
  PROVE  MayAct' = MayAct \union {r}
  BY DEF TypeOK, Goto, MayAct

LEMMA Leaves ==
  ASSUME TypeOK, NEW r \in Requests, NEW place \in Places, Goto(r, place),
         place \notin {"running", "bare", "failed"}
  PROVE  MayAct' = MayAct \ {r}
  BY DEF TypeOK, Goto, MayAct

THEOREM TypeInvariant == Spec => []TypeOK
  <1>1. Init => TypeOK
    BY FaultAssumption DEF Init, TypeOK, Entries, Places
  <1>2. TypeOK /\ [Next]_vars => TypeOK'
    <2>. SUFFICES ASSUME TypeOK, [Next]_vars PROVE TypeOK'
      OBVIOUS
    <2>. USE FaultAssumption DEF TypeOK, Entries, Places, Goto, Fault
    <2>1. ASSUME NEW r \in Requests, Acquire(r) PROVE TypeOK'
      BY <2>1 DEF Acquire
    <2>2. ASSUME NEW r \in Requests, Read(r) PROVE TypeOK'
      BY <2>2 DEF Read
    <2>3. ASSUME NEW r \in Requests, AcquireAgain(r) PROVE TypeOK'
      BY <2>3 DEF AcquireAgain
    <2>4. ASSUME NEW r \in Requests, PassUnprotected(r) PROVE TypeOK'
      BY <2>4 DEF PassUnprotected
    <2>5. ASSUME NEW r \in Requests, Succeed(r) PROVE TypeOK'
      BY <2>5 DEF Succeed
    <2>6. ASSUME NEW r \in Requests, Fail(r) PROVE TypeOK'
      BY <2>6 DEF Fail
    <2>7. ASSUME NEW r \in Requests, Finish(r) PROVE TypeOK'
      BY <2>7 DEF Finish
    <2>8. ASSUME NEW r \in Requests, FinishFails(r) PROVE TypeOK'
      BY <2>8 DEF FinishFails
    <2>9. ASSUME NEW r \in Requests, Crash(r) PROVE TypeOK'
      BY <2>9 DEF Crash
    <2>10. CASE PlaceholderExpires
      BY <2>10 DEF PlaceholderExpires
    <2>11. CASE AnswerExpires
      BY <2>11 DEF AnswerExpires
    <2>12. CASE UNCHANGED vars
      BY <2>12 DEF vars
    <2>. QED  BY <2>1, <2>2, <2>3, <2>4, <2>5, <2>6, <2>7, <2>8, <2>9, <2>10, <2>11, <2>12 DEF Next
  <1>. QED  BY <1>1, <1>2, PTL DEF Spec

(* Every step keeps the budget: who enters closes an opening, who leaves   *)
(* undone may leave one, and whatever opens the key otherwise is a fault.  *)
LEMMA BudgetStep ==
  ASSUME TypeOK, Budget, [Next]_vars
  PROVE  Budget'
  <1>. USE CountMayAct DEF TypeOK
  <1>0. Cardinality(MayAct)' = Cardinality(MayAct') /\ Opening \in {0, 1} /\ Opening' \in {0, 1}
    BY DEF Opening
  <1>1. ASSUME NEW r \in Requests, Acquire(r) PROVE Budget'
    <2>1. CASE entry = "absent"
      <3>1. MayAct' = MayAct \union {r} /\ r \notin MayAct
        BY <1>1, <2>1, Joins DEF Acquire, Places, MayAct
      <3>2. r \in Holding' /\ Opening = 1 /\ Opening' = 0
        BY <1>1, <2>1 DEF Acquire, Goto, Holding, Opening
      <3>. QED  BY <1>0, <1>1, <3>1, <3>2, OneJoins DEF Acquire, Budget
    <2>2. CASE entry # "absent"
      <3>1. MayAct' = MayAct /\ Holding' = Holding
        BY <1>1, <2>2 DEF Acquire, Goto, MayAct, Holding
      <3>2. Opening' = Opening
        BY <1>1, <2>2, <3>1 DEF Acquire, Opening
      <3>. QED  BY <1>0, <1>1, <3>1, <3>2 DEF Acquire, Budget
    <2>. QED  BY <2>1, <2>2
  <1>2. ASSUME NEW r \in Requests, Read(r) PROVE Budget'
    <2>1. MayAct' = MayAct /\ Holding' = Holding
      BY <1>2 DEF Read, Goto, MayAct, Holding
    <2>2. Opening' = Opening
      BY <1>2, <2>1 DEF Read, Opening
    <2>. QED  BY <1>0, <1>2, <2>1, <2>2 DEF Read, Budget
  <1>3. ASSUME NEW r \in Requests, AcquireAgain(r) PROVE Budget'
    <2>1. CASE entry = "absent" /\ entry' = "pending" /\ Goto(r, "running")
      <3>1. MayAct' = MayAct \union {r} /\ r \notin MayAct
        BY <1>3, <2>1, Joins DEF AcquireAgain, Places, MayAct
      <3>2. r \in Holding' /\ Opening = 1 /\ Opening' = 0
        BY <1>3, <2>1 DEF AcquireAgain, Goto, Holding, Opening
      <3>3. Cardinality(MayAct') = Cardinality(MayAct) + 1
        BY <3>1, OneJoins
      <3>. QED  BY <1>0, <1>3, <3>2, <3>3 DEF AcquireAgain, Budget
    <2>2. CASE UNCHANGED entry /\ Goto(r, "done")
      <3>1. MayAct' = MayAct /\ Holding' = Holding
        BY <1>3, <2>2 DEF AcquireAgain, Goto, MayAct, Holding
      <3>2. Opening' = Opening
        BY <2>2, <3>1 DEF Opening
      <3>. QED  BY <1>0, <1>3, <3>1, <3>2 DEF AcquireAgain, Budget
    <2>. QED  BY <1>3, <2>1, <2>2 DEF AcquireAgain
  <1>4. ASSUME NEW r \in Requests, PassUnprotected(r) PROVE Budget'
    <2>1. MayAct' = MayAct \union {r} /\ r \notin MayAct
      BY <1>4, Joins DEF PassUnprotected, Places, MayAct
    <2>2. Holding' = Holding
      BY <1>4 DEF PassUnprotected, Goto, Holding
    <2>3. Opening' <= Opening /\ Opening \in {0, 1} /\ Opening' \in {0, 1}
      BY <1>4, <2>2 DEF PassUnprotected, Opening
    <2>4. Cardinality(MayAct') = Cardinality(MayAct) + 1
      BY <2>1, OneJoins
    <2>5. effects' = effects /\ faults' = faults + 1
      BY <1>4 DEF PassUnprotected, Fault
    <2>. QED  BY <1>0, <2>3, <2>4, <2>5 DEF TypeOK, Budget
  <1>5. ASSUME NEW r \in Requests, Succeed(r) PROVE Budget'
    <2>1. MayAct' = MayAct \ {r} /\ r \in MayAct
      BY <1>5, Leaves DEF Succeed, Places, MayAct
    <2>2. Holding' = Holding
      BY <1>5 DEF Succeed, Goto, Holding
    <2>3. Opening' = Opening
      BY <1>5, <2>2 DEF Succeed, Opening
    <2>. QED  BY <1>0, <1>5, <2>1, <2>3, OneLeaves DEF Succeed, Budget
  <1>6. ASSUME NEW r \in Requests, Fail(r) PROVE Budget'
    <2>1. CASE pc[r] = "running"
      <3>1. MayAct' = MayAct /\ Holding' = Holding
        BY <1>6, <2>1 DEF Fail, Goto, MayAct, Holding
      <3>2. Opening' = Opening
        BY <1>6, <3>1 DEF Fail, Opening
      <3>. QED  BY <1>0, <1>6, <3>1, <3>2 DEF Fail, Fault, Budget
    <2>2. CASE pc[r] = "bare"
      <3>1. MayAct' = MayAct \ {r} /\ r \in MayAct
        BY <1>6, <2>2, Leaves DEF Fail, Places, MayAct
      <3>2. Holding' = Holding
        BY <1>6, <2>2 DEF Fail, Goto, Holding
      <3>3. Opening' = Opening
        BY <1>6, <3>2 DEF Fail, Opening
      <3>. QED  BY <1>0, <1>6, <3>1, <3>3, OneLeaves DEF Fail, Fault, Budget
    <2>. QED  BY <1>6, <2>1, <2>2 DEF Fail
  <1>7. ASSUME NEW r \in Requests, Finish(r) PROVE Budget'
    <2>1. CASE pc[r] = "succeeded"
      <3>1. MayAct' = MayAct
        BY <1>7, <2>1 DEF Finish, Goto, MayAct
      <3>2. Opening' = 0
        BY <1>7, <2>1 DEF Finish, Opening
      <3>. QED  BY <1>0, <1>7, <3>1, <3>2 DEF Finish, Budget
    <2>2. CASE pc[r] = "failed"
      <3>1. MayAct' = MayAct \ {r} /\ r \in MayAct
        BY <1>7, <2>2, Leaves DEF Finish, Places, MayAct
      <3>3. Cardinality(MayAct') = Cardinality(MayAct) - 1
        BY <3>1, OneLeaves
      <3>. QED  BY <1>0, <1>7, <3>3 DEF Finish, Budget
    <2>. QED  BY <1>7, <2>1, <2>2 DEF Finish
  <1>8. ASSUME NEW r \in Requests, FinishFails(r) PROVE Budget'
    <2>1. CASE pc[r] = "succeeded"
      <3>1. MayAct' = MayAct
        BY <1>8, <2>1 DEF FinishFails, Goto, MayAct
      <3>2. faults' = faults + 1
        BY <1>8, <2>1 DEF FinishFails, Fault
      <3>. QED  BY <1>0, <1>8, <3>1, <3>2 DEF FinishFails, Budget
    <2>2. CASE pc[r] = "failed"
      <3>1. MayAct' = MayAct \ {r} /\ r \in MayAct
        BY <1>8, <2>2, Leaves DEF FinishFails, Places, MayAct
      <3>2. faults' = faults
        BY <1>8, <2>2 DEF FinishFails
      <3>3. Cardinality(MayAct') = Cardinality(MayAct) - 1
        BY <3>1, OneLeaves
      <3>. QED  BY <1>0, <1>8, <3>2, <3>3 DEF FinishFails, Budget
    <2>. QED  BY <1>8, <2>1, <2>2 DEF FinishFails
  <1>9. ASSUME NEW r \in Requests, Crash(r) PROVE Budget'
    <2>1. CASE pc[r] \in {"running", "bare"}
      <3>1. MayAct' = MayAct \ {r} /\ r \in MayAct
        BY <1>9, <2>1, Leaves DEF Crash, Places, MayAct
      <3>3. Cardinality(MayAct') = Cardinality(MayAct) - 1
        BY <3>1, OneLeaves
      <3>. QED  BY <1>0, <1>9, <3>3 DEF Crash, Budget
    <2>2. CASE pc[r] \in {"read", "again"}
      <3>1. MayAct' = MayAct /\ Holding' = Holding
        BY <1>9, <2>2 DEF Crash, Goto, MayAct, Holding
      <3>2. Opening' = Opening
        BY <1>9, <3>1 DEF Crash, Opening
      <3>. QED  BY <1>0, <1>9, <3>1, <3>2 DEF Crash, Budget
    <2>. QED  BY <1>9, <2>1, <2>2 DEF Crash
  <1>10. CASE PlaceholderExpires
    <2>1. MayAct' = MayAct
      BY <1>10 DEF PlaceholderExpires, MayAct
    <2>2. CASE Holding = {}
      <3>1. Opening = 1 /\ faults' = faults
        BY <1>10, <2>2 DEF PlaceholderExpires, Opening
      <3>. QED  BY <1>0, <1>10, <2>1, <3>1 DEF PlaceholderExpires, Budget
    <2>3. CASE Holding # {}
      <3>1. faults' = faults + 1
        BY <1>10, <2>3 DEF PlaceholderExpires, Fault
      <3>. QED  BY <1>0, <1>10, <2>1, <3>1 DEF PlaceholderExpires, Budget
    <2>. QED  BY <2>2, <2>3
  <1>11. CASE AnswerExpires
    <2>1. MayAct' = MayAct /\ faults' = faults + 1
      BY <1>11 DEF AnswerExpires, Fault, MayAct
    <2>. QED  BY <1>0, <1>11, <2>1 DEF AnswerExpires, Budget
  <1>12. CASE UNCHANGED vars
    BY <1>12 DEF vars, Budget, MayAct, Opening, Holding
  <1>. QED  BY <1>1, <1>2, <1>3, <1>4, <1>5, <1>6, <1>7, <1>8, <1>9, <1>10, <1>11, <1>12 DEF Next

(* The operation is carried out at most once more than something went      *)
(* wrong: lost answers, expired placeholders, an unreachable store or an   *)
(* unclear outcome, in idempotency.go's middleware.                        *)
THEOREM AtMostOneMorePerFault == Spec => []OneMorePerFault
  <1>1. Init => Budget
    <2>. SUFFICES ASSUME Init PROVE Budget
      OBVIOUS
    <2>1. MayAct = {}
      BY DEF Init, MayAct
    <2>2. Cardinality(MayAct) = 0
      BY <2>1, FS_EmptySet
    <2>. QED  BY <2>2 DEF Init, Budget, Opening
  <1>2. TypeOK /\ Budget /\ [Next]_vars => Budget'
    BY BudgetStep
  <1>3. TypeOK /\ Budget => OneMorePerFault
    BY CountMayAct DEF TypeOK, Budget, OneMorePerFault, Opening
  <1>. QED  BY <1>1, <1>2, <1>3, TypeInvariant, PTL DEF Spec

-----------------------------------------------------------------------------
(* The remembered answers.                                                 *)

(* The remembered answers after a store, and after a forget.               *)
LEMMA StoredEntries ==
  ASSUME CacheTypeOK, NEW c \in Calls, Store(c), MayStore(c)
  PROVE  /\ DOMAIN entries' = Kept \union {call[c].question}
         /\ \A k \in DOMAIN entries' :
              entries'[k] = IF k = call[c].question
                            THEN [answer |-> call[c].answer, expired |-> FALSE] ELSE entries[k]
         /\ Kept \subseteq DOMAIN entries
  BY DEF Store, Kept, Unexpired

THEOREM CacheTypeInvariant == CacheSpec => []CacheTypeOK
  <1>1. CacheInit => CacheTypeOK
    <2>. SUFFICES ASSUME CacheInit PROVE CacheTypeOK
      OBVIOUS
    <2>1. DOMAIN entries = {} /\ entries \in [DOMAIN entries -> [answer : Nat, expired : BOOLEAN]]
      BY DEF CacheInit
    <2>. QED  BY <2>1 DEF CacheInit, CacheTypeOK, CallType, ChangeType
  <1>2. CacheTypeOK /\ [CacheNext]_cacheVars => CacheTypeOK'
    <2>. SUFFICES ASSUME CacheTypeOK, [CacheNext]_cacheVars PROVE CacheTypeOK'
      OBVIOUS
    <2>. USE QuestionAssumption DEF CacheTypeOK
    <2>1. ASSUME NEW c \in Calls, Lookup(c) PROVE CacheTypeOK'
      <3>1. Ticket(TenantOf[call[c].question]) \in [epoch : Nat, global : Nat]
        BY DEF Ticket, CallType
      <3>2. [call[c] EXCEPT !.step = "done"] \in CallType
        BY DEF CallType
      <3>3. [call[c] EXCEPT !.step = "asking", !.ticket = Ticket(TenantOf[call[c].question])] \in CallType
        BY <3>1 DEF CallType
      <3>4. call' \in [Calls -> CallType]
        BY <2>1, <3>2, <3>3 DEF Lookup
      <3>. QED  BY <2>1, <3>4 DEF Lookup
    <2>2. ASSUME NEW c \in Calls, Answer(c) PROVE CacheTypeOK'
      <3>1. [call[c] EXCEPT !.step = "answered", !.answer = truth[TenantOf[call[c].question]]] \in CallType
        BY DEF CallType
      <3>2. call' \in [Calls -> CallType]
        BY <2>2, <3>1 DEF Answer
      <3>. QED  BY <2>2, <3>2 DEF Answer
    <2>3. ASSUME NEW c \in Calls, Store(c) PROVE CacheTypeOK'
      <3>1. [call[c] EXCEPT !.step = "done"] \in CallType
        BY DEF CallType
      <3>2. call' \in [Calls -> CallType]
        BY <2>3, <3>1 DEF Store
      <3>3. /\ DOMAIN entries' \subseteq Questions
            /\ entries' \in [DOMAIN entries' -> [answer : Nat, expired : BOOLEAN]]
        <4>1. CASE MayStore(c)
          <5>. DEFINE q == call[c].question
                      n == [answer |-> call[c].answer, expired |-> FALSE]
          <5>1. /\ DOMAIN entries' = Kept \union {q}
                /\ \A k \in DOMAIN entries' : entries'[k] = IF k = q THEN n ELSE entries[k]
                /\ Kept \subseteq DOMAIN entries
            BY <2>3, <4>1, StoredEntries
          <5>2. q \in Questions /\ n \in [answer : Nat, expired : BOOLEAN]
            BY DEF CallType
          <5>3. \A k \in DOMAIN entries : entries[k] \in [answer : Nat, expired : BOOLEAN]
            OBVIOUS
          <5>. HIDE DEF q, n
          <5>4. DOMAIN entries' \subseteq Questions
            BY <5>1, <5>2
          <5>5. \A k \in DOMAIN entries' : entries'[k] \in [answer : Nat, expired : BOOLEAN]
            BY <5>1, <5>2, <5>3
          <5>6. entries' = [k \in DOMAIN entries' |-> entries'[k]]
            BY <2>3, <4>1 DEF Store
          <5>. QED  BY <5>4, <5>5, <5>6
        <4>2. CASE ~MayStore(c)
          BY <2>3, <4>2 DEF Store
        <4>. QED  BY <4>1, <4>2
      <3>. QED  BY <2>3, <3>2, <3>3 DEF Store
    <2>4. ASSUME NEW q \in Questions, Expire(q) PROVE CacheTypeOK'
      BY <2>4 DEF Expire, Unexpired
    <2>5. ASSUME NEW w \in Changes, Commit(w) PROVE CacheTypeOK'
      <3>0. change[w] \in ChangeType /\ truth[change[w].tenant] + 1 \in Nat
        BY DEF ChangeType
      <3>1. [change[w] EXCEPT !.step = "committed", !.made = truth[change[w].tenant] + 1] \in ChangeType
        BY <3>0 DEF ChangeType
      <3>2. change' \in [Changes -> ChangeType]
        BY <2>5, <3>1 DEF Commit
      <3>3. truth' \in [Tenants -> Nat]
        BY <2>5 DEF Commit, ChangeType
      <3>. QED  BY <2>5, <3>2, <3>3 DEF Commit
    <2>6. ASSUME NEW w \in Changes, ChangeSucceeds(w) PROVE CacheTypeOK'
      <3>1. [change[w] EXCEPT !.step = "done"] \in ChangeType
        BY DEF ChangeType
      <3>2. change' \in [Changes -> ChangeType]
        BY <2>6, <3>1 DEF ChangeSucceeds
      <3>3. seen' \in [Tenants -> Nat]
        BY <2>6 DEF ChangeSucceeds, Max2, ChangeType
      <3>4. /\ DOMAIN entries' \subseteq Questions
            /\ entries' \in [DOMAIN entries' -> [answer : Nat, expired : BOOLEAN]]
            /\ epochs' \in [Tenants -> Nat] /\ global' \in Nat
        <4>1. CASE change[w].platform
          <5>1. entries' = [q \in {} |-> entries[q]] /\ global' = global + 1 /\ epochs' = epochs
            BY <2>6, <4>1 DEF ChangeSucceeds, ForgetAll
          <5>2. DOMAIN entries' = {}
            BY <5>1
          <5>3. entries' \in [DOMAIN entries' -> [answer : Nat, expired : BOOLEAN]]
            BY <5>1, <5>2
          <5>. QED  BY <5>1, <5>2, <5>3
        <4>2. CASE ~change[w].platform
          <5>. DEFINE D == {k \in DOMAIN entries : TenantOf[k] # change[w].tenant}
          <5>1. entries' = [q \in D |-> entries[q]] /\ global' = global
            BY <2>6, <4>2 DEF ChangeSucceeds, ForgetTenant
          <5>2. epochs' \in [Tenants -> Nat]
            BY <2>6, <4>2 DEF ChangeSucceeds, ForgetTenant
          <5>3. D \subseteq DOMAIN entries
            OBVIOUS
          <5>. HIDE DEF D
          <5>4. DOMAIN entries' = D /\ \A k \in D : entries'[k] = entries[k]
            BY <5>1
          <5>5. entries' \in [D -> [answer : Nat, expired : BOOLEAN]]
            BY <5>1, <5>3
          <5>. QED  BY <5>1, <5>2, <5>3, <5>4, <5>5
        <4>. QED  BY <4>1, <4>2
      <3>. QED  BY <2>6, <3>2, <3>3, <3>4 DEF ChangeSucceeds
    <2>7. ASSUME NEW w \in Changes, ChangeFails(w) PROVE CacheTypeOK'
      <3>1. [change[w] EXCEPT !.step = "done"] \in ChangeType
        BY DEF ChangeType
      <3>. QED  BY <2>7, <3>1 DEF ChangeFails
    <2>8. CASE UNCHANGED cacheVars
      BY <2>8 DEF cacheVars
    <2>. QED  BY <2>1, <2>2, <2>3, <2>4, <2>5, <2>6, <2>7, <2>8 DEF CacheNext
  <1>. QED  BY <1>1, <1>2, PTL DEF CacheSpec

(* Every step keeps Fresh: a ticket stays good only while nothing of its   *)
(* company is forgotten, and what iam answers is never behind what has     *)
(* been seen.                                                              *)
LEMMA FreshStep ==
  ASSUME CacheTypeOK, Fresh, [CacheNext]_cacheVars
  PROVE  Fresh'
  <1>. USE QuestionAssumption DEF CacheTypeOK, CallType, ChangeType
  <1>1. ASSUME NEW c \in Calls, Lookup(c) PROVE Fresh'
    BY <1>1 DEF Lookup, Ticket, Fresh, AnsweredChangesShow, MayStore
  <1>2. ASSUME NEW c \in Calls, Answer(c) PROVE Fresh'
    BY <1>2 DEF Answer, Ticket, Fresh, AnsweredChangesShow, MayStore
  <1>3. ASSUME NEW c \in Calls, Store(c) PROVE Fresh'
    <2>1. AnsweredChangesShow'
      <3>1. CASE MayStore(c)
        <4>. DEFINE q == call[c].question
        <4>1. /\ DOMAIN entries' = Kept \union {q}
              /\ \A k \in DOMAIN entries' :
                   entries'[k] = IF k = q THEN [answer |-> call[c].answer, expired |-> FALSE] ELSE entries[k]
              /\ Kept \subseteq DOMAIN entries
          BY <1>3, <3>1, StoredEntries
        <4>2. call[c].answer >= seen[TenantOf[q]]
          BY <1>3, <3>1 DEF Store, Fresh
        <4>3. seen' = seen /\ \A k \in DOMAIN entries : entries[k].answer >= seen[TenantOf[k]]
          BY <1>3 DEF Store, Fresh, AnsweredChangesShow
        <4>. HIDE DEF q
        <4>4. ASSUME NEW k \in DOMAIN entries' PROVE entries'[k].answer >= seen'[TenantOf[k]]
          <5>1. CASE k = q
            BY <4>1, <4>2, <4>3, <5>1
          <5>2. CASE k # q
            BY <4>1, <4>3, <5>2
          <5>. QED  BY <5>1, <5>2
        <4>. QED  BY <4>4 DEF AnsweredChangesShow
      <3>2. CASE ~MayStore(c)
        BY <1>3, <3>2 DEF Store, Fresh, AnsweredChangesShow
      <3>. QED  BY <3>1, <3>2
    <2>2. \A d \in Calls : call'[d].step \in {"asking", "answered"} => call'[d] = call[d]
      BY <1>3 DEF Store
    <2>. QED  BY <1>3, <2>1, <2>2 DEF Store, Fresh, MayStore, Ticket
  <1>4. ASSUME NEW q \in Questions, Expire(q) PROVE Fresh'
    BY <1>4 DEF Expire, Unexpired, Fresh, AnsweredChangesShow, MayStore, Ticket
  <1>5. ASSUME NEW w \in Changes, Commit(w) PROVE Fresh'
    BY <1>5 DEF Commit, Fresh, AnsweredChangesShow, MayStore, Ticket
  <1>6. ASSUME NEW w \in Changes, ChangeSucceeds(w) PROVE Fresh'
    <2>. DEFINE t == change[w].tenant
    <2>0. seen'[t] = Max2(seen[t], change[w].made) /\ \A u \in Tenants : u # t => seen'[u] = seen[u]
      BY <1>6 DEF ChangeSucceeds
    <2>1. AnsweredChangesShow'
      <3>1. CASE change[w].platform
        BY <1>6, <3>1 DEF ChangeSucceeds, ForgetAll, AnsweredChangesShow
      <3>2. CASE ~change[w].platform
        <4>1. \A q \in DOMAIN entries' : q \in DOMAIN entries /\ TenantOf[q] # t /\ entries'[q] = entries[q]
          BY <1>6, <3>2 DEF ChangeSucceeds, ForgetTenant
        <4>. QED  BY <2>0, <4>1 DEF Fresh, AnsweredChangesShow
      <3>. QED  BY <3>1, <3>2
    <2>2. \A u \in Tenants : seen'[u] <= truth'[u]
      BY <1>6, <2>0 DEF ChangeSucceeds, Fresh, Max2
    <2>3. \A v \in Changes : change'[v].step = "committed" => change'[v].made <= truth'[change'[v].tenant]
      BY <1>6 DEF ChangeSucceeds, Fresh
    <2>4. ASSUME NEW c \in Calls, call'[c].step \in {"asking", "answered"}
          PROVE  LET u == TenantOf[call'[c].question] IN
                 /\ call'[c].ticket \in [epoch : Nat, global : Nat]
                 /\ call'[c].ticket.epoch <= epochs'[u]
                 /\ call'[c].ticket.global <= global'
                 /\ call'[c].step = "answered" /\ MayStore(c)' => call'[c].answer >= seen'[u]
      <3>. DEFINE u == TenantOf[call[c].question]
      <3>1. call' = call
        BY <1>6 DEF ChangeSucceeds
      <3>2. /\ call[c].ticket \in [epoch : Nat, global : Nat]
            /\ call[c].ticket.epoch <= epochs[u]
            /\ call[c].ticket.global <= global
            /\ call[c].step = "answered" /\ MayStore(c) => call[c].answer >= seen[u]
        BY <2>4, <3>1 DEF Fresh
      <3>3. CASE change[w].platform
        <4>1. global' = global + 1 /\ epochs' = epochs
          BY <1>6, <3>3 DEF ChangeSucceeds, ForgetAll
        <4>2. ~MayStore(c)'
          BY <3>1, <3>2, <4>1 DEF MayStore, Ticket
        <4>. QED  BY <3>1, <3>2, <4>1, <4>2
      <3>4. CASE ~change[w].platform /\ u = t
        <4>1. global' = global /\ epochs'[u] = epochs[u] + 1
          BY <1>6, <3>4 DEF ChangeSucceeds, ForgetTenant
        <4>2. ~MayStore(c)'
          BY <3>1, <3>2, <4>1 DEF MayStore, Ticket
        <4>. QED  BY <3>1, <3>2, <4>1, <4>2
      <3>5. CASE ~change[w].platform /\ u # t
        <4>1. global' = global /\ epochs'[u] = epochs[u] /\ seen'[u] = seen[u]
          BY <1>6, <2>0, <3>5 DEF ChangeSucceeds, ForgetTenant
        <4>2. MayStore(c)' <=> MayStore(c)
          BY <3>1, <4>1 DEF MayStore, Ticket
        <4>. QED  BY <3>1, <3>2, <4>1, <4>2
      <3>. QED  BY <3>3, <3>4, <3>5
    <2>. QED  BY <2>1, <2>2, <2>3, <2>4 DEF Fresh
  <1>7. ASSUME NEW w \in Changes, ChangeFails(w) PROVE Fresh'
    BY <1>7 DEF ChangeFails, Fresh, AnsweredChangesShow, MayStore, Ticket
  <1>8. CASE UNCHANGED cacheVars
    BY <1>8 DEF cacheVars, Fresh, AnsweredChangesShow, MayStore, Ticket
  <1>. QED  BY <1>1, <1>2, <1>3, <1>4, <1>5, <1>6, <1>7, <1>8 DEF CacheNext

(* Once a writer has been told that a change of permissions worked, no     *)
(* answer this gateway remembers is older than the change: the forget of   *)
(* permcache.go and the tickets of answercache.go together.                *)
THEOREM AnsweredChangesAlwaysShow == CacheSpec => []AnsweredChangesShow
  <1>1. CacheInit => Fresh
    BY DEF CacheInit, Fresh, AnsweredChangesShow
  <1>2. CacheTypeOK /\ Fresh /\ [CacheNext]_cacheVars => Fresh'
    BY FreshStep
  <1>3. Fresh => AnsweredChangesShow
    BY DEF Fresh
  <1>. QED  BY <1>1, <1>2, <1>3, CacheTypeInvariant, PTL DEF CacheSpec

(* The cache of answercache.go never holds more entries than its limit.    *)
THEOREM AlwaysWithinLimit == CacheSpec => []WithinLimit
  <1>1. CacheInit => WithinLimit
    BY QuestionAssumption, FS_EmptySet DEF CacheInit, WithinLimit
  <1>2. CacheTypeOK /\ WithinLimit /\ [CacheNext]_cacheVars => WithinLimit'
    <2>. SUFFICES ASSUME CacheTypeOK, WithinLimit, [CacheNext]_cacheVars PROVE WithinLimit'
      OBVIOUS
    <2>1. IsFiniteSet(DOMAIN entries) /\ Cardinality(DOMAIN entries) \in Nat
      BY QuestionAssumption, FS_Subset, FS_CardinalityType DEF CacheTypeOK
    <2>2. CASE DOMAIN entries' \subseteq DOMAIN entries
      BY <2>1, <2>2, FS_Subset, FS_CardinalityType, QuestionAssumption DEF WithinLimit
    <2>3. ASSUME NEW c \in Calls, Store(c), MayStore(c) PROVE WithinLimit'
      <3>. DEFINE q == call[c].question
      <3>1. DOMAIN entries' = Kept \union {q} /\ Kept \subseteq DOMAIN entries
        BY <2>3, StoredEntries
      <3>2. IsFiniteSet(Kept) /\ Cardinality(Kept) \in Nat
        BY <2>1, <3>1, FS_Subset, FS_CardinalityType
      <3>3. Cardinality(Kept) < MaxEntries
        BY QuestionAssumption, FS_EmptySet DEF Kept
      <3>4. Cardinality(Kept \union {q}) <= Cardinality(Kept) + 1
        BY <3>2, FS_AddElement
      <3>5. Cardinality(Kept \union {q}) \in Nat /\ MaxEntries \in Nat
        BY <3>2, FS_AddElement, FS_CardinalityType, QuestionAssumption
      <3>6. Cardinality(Kept \union {q}) <= MaxEntries
        BY <3>2, <3>3, <3>4, <3>5
      <3>. QED  BY <3>1, <3>6 DEF WithinLimit
    <2>4. \/ DOMAIN entries' \subseteq DOMAIN entries
          \/ \E c \in Calls : Store(c) /\ MayStore(c)
      BY DEF CacheNext, cacheVars, Lookup, Answer, Store, Expire, Commit, ChangeSucceeds, ChangeFails, ForgetTenant, ForgetAll
    <2>. QED  BY <2>2, <2>3, <2>4
  <1>. QED  BY <1>1, <1>2, CacheTypeInvariant, PTL DEF CacheSpec
=============================================================================
