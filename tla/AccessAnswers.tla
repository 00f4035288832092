---------------------------- MODULE AccessAnswers ----------------------------
(***************************************************************************)
(* The answers of the iam service to "may X do Y" that a gateway process   *)
(* remembers for a few seconds (grpcx/answercache.go), and the writes it   *)
(* relays to iam that change them (permcache.go).                          *)
(*                                                                         *)
(* The cache is locked for each lookup, each store and each forget, and    *)
(* never across a call: between the miss and the store iam is asked, and   *)
(* between a change at iam and the forget its answer travels. An answer is *)
(* abstracted to how many changes of its company's permissions it takes    *)
(* into account. Left out: what the answers say, calls that iam fails, and *)
(* how long an entry is trusted: it may expire at any moment.              *)
(***************************************************************************)
EXTENDS Integers, FiniteSets

CONSTANTS
  Tenants,      \* companies
  Questions,    \* method, company, asker and request: the cache's keys
  TenantOf,     \* TenantOf[q]: the company q is asked for
  Calls,        \* intercepted calls, each for one question
  Changes,      \* relayed writes that may change permissions
  MaxEntries,   \* answerCacheMax (20 000)
  NoTicket

ASSUME QuestionAssumption ==
  /\ TenantOf \in [Questions -> Tenants]
  /\ IsFiniteSet(Questions)
  /\ MaxEntries \in Nat \ {0}

VARIABLES
  truth,        \* truth[t]: changes to t's permissions iam has committed
  entries,      \* the remembered answers: a partial function of Questions
  epochs,       \* epochs[t]: forgets of t so far
  global,       \* forgets of everything so far
  call,         \* call[c]: where an intercepted call is
  change,       \* change[w]: where a relayed write is
  seen          \* seen[t]: changes of t whose writers have been answered

cacheVars == <<truth, entries, epochs, global, call, change, seen>>

Ticket(t) == [epoch |-> epochs[t], global |-> global]

CacheInit ==
  /\ truth = [t \in Tenants |-> 0]
  /\ entries = [q \in {} |-> 0]
  /\ epochs = [t \in Tenants |-> 0]
  /\ global = 0
  /\ call \in [Calls -> [step : {"new"}, question : Questions, ticket : {NoTicket}, answer : {0}]]
  /\ change \in [Changes -> [step : {"new"}, tenant : Tenants, platform : BOOLEAN, made : {0}]]
  /\ seen = [t \in Tenants |-> 0]

Unexpired == {q \in DOMAIN entries : ~entries[q].expired}

-----------------------------------------------------------------------------
(* The interceptor.                                                        *)

(* lookup: a remembered answer ends the call, a miss takes a ticket.       *)
Lookup(c) ==
  LET q == call[c].question IN
  /\ call[c].step = "new"
  /\ call' = [call EXCEPT ![c] =
       IF q \in Unexpired THEN [@ EXCEPT !.step = "done"]
                          ELSE [@ EXCEPT !.step = "asking", !.ticket = Ticket(TenantOf[q])]]
  /\ UNCHANGED <<truth, entries, epochs, global, change, seen>>

(* iam answers, from what it has committed.                                *)
Answer(c) ==
  /\ call[c].step = "asking"
  /\ call' = [call EXCEPT ![c].step = "answered", ![c].answer = truth[TenantOf[call[c].question]]]
  /\ UNCHANGED <<truth, entries, epochs, global, change, seen>>

(* store: not when a forget happened meanwhile; expired entries make room, *)
(* and if none has expired everything does.                                *)
MayStore(c) == call[c].ticket = Ticket(TenantOf[call[c].question])

(* Mutant: expired entries make room, the limit does not.                  *)
KeptUnexpired == IF Cardinality(DOMAIN entries) < MaxEntries THEN DOMAIN entries ELSE Unexpired

Kept == IF Cardinality(DOMAIN entries) < MaxEntries THEN DOMAIN entries
        ELSE IF Cardinality(Unexpired) < MaxEntries THEN Unexpired
        ELSE {}

Store(c) ==
  LET q == call[c].question IN
  /\ call[c].step = "answered"
  /\ IF MayStore(c)
       THEN entries' = [k \in Kept \union {q} |->
                          IF k = q THEN [answer |-> call[c].answer, expired |-> FALSE] ELSE entries[k]]
       ELSE UNCHANGED entries
  /\ call' = [call EXCEPT ![c].step = "done"]
  /\ UNCHANGED <<truth, epochs, global, change, seen>>

Expire(q) ==
  /\ q \in Unexpired
  /\ entries' = [entries EXCEPT ![q].expired = TRUE]
  /\ UNCHANGED <<truth, epochs, global, call, change, seen>>

-----------------------------------------------------------------------------
(* Writes the gateway relays to iam.                                       *)

(* iam commits a change of a company's permissions, made by somebody of    *)
(* that company or by the platform's operator.                             *)
Commit(w) ==
  LET t == change[w].tenant IN
  /\ change[w].step = "new"
  /\ truth' = [truth EXCEPT ![t] = @ + 1]
  /\ change' = [change EXCEPT ![w].step = "committed", ![w].made = truth[t] + 1]
  /\ UNCHANGED <<entries, epochs, global, call, seen>>

Max2(m, n) == IF m < n THEN n ELSE m

(* Mutant: the entries go, the answers on their way stay welcome.          *)
ForgetEntriesOnly(t) ==
  /\ entries' = [q \in {k \in DOMAIN entries : TenantOf[k] # t} |-> entries[q]]
  /\ UNCHANGED <<epochs, global>>

(* The answer is a success: before it goes out the company's answers are   *)
(* forgotten (ForgetTenant), all answers for the platform's (ForgetAll).   *)
ForgetTenant(t) ==
  /\ epochs' = [epochs EXCEPT ![t] = @ + 1]
  /\ entries' = [q \in {k \in DOMAIN entries : TenantOf[k] # t} |-> entries[q]]
  /\ UNCHANGED global

ForgetAll ==
  /\ global' = global + 1
  /\ entries' = [q \in {} |-> entries[q]]
  /\ UNCHANGED epochs

ChangeSucceeds(w) ==
  LET t == change[w].tenant IN
  /\ change[w].step = "committed"
  /\ IF change[w].platform THEN ForgetAll ELSE ForgetTenant(t)
  /\ change' = [change EXCEPT ![w].step = "done"]
  /\ seen' = [seen EXCEPT ![t] = Max2(@, change[w].made)]
  /\ UNCHANGED <<truth, call>>

(* The change was made, the answer says otherwise: nothing is forgotten.   *)
ChangeFails(w) ==
  /\ change[w].step = "committed"
  /\ change' = [change EXCEPT ![w].step = "done"]
  /\ UNCHANGED <<truth, entries, epochs, global, call, seen>>

CacheNext ==
  \/ \E c \in Calls : Lookup(c) \/ Answer(c) \/ Store(c)
  \/ \E q \in Questions : Expire(q)
  \/ \E w \in Changes : Commit(w) \/ ChangeSucceeds(w) \/ ChangeFails(w)

CacheSpec == CacheInit /\ [][CacheNext]_cacheVars

-----------------------------------------------------------------------------
CallType ==
  [step : {"new", "asking", "answered", "done"}, question : Questions,
   ticket : {NoTicket} \union [epoch : Nat, global : Nat], answer : Nat]

ChangeType ==
  [step : {"new", "committed", "done"}, tenant : Tenants, platform : BOOLEAN, made : Nat]

CacheTypeOK ==
  /\ truth \in [Tenants -> Nat]
  /\ DOMAIN entries \subseteq Questions
  /\ entries \in [DOMAIN entries -> [answer : Nat, expired : BOOLEAN]]
  /\ epochs \in [Tenants -> Nat]
  /\ global \in Nat
  /\ call \in [Calls -> CallType]
  /\ change \in [Changes -> ChangeType]
  /\ seen \in [Tenants -> Nat]

(* Whoever changed permissions through this gateway and was told that it   *)
(* worked is not contradicted by it afterwards: no remembered answer is    *)
(* older than a change that was answered, not even one that was asked for  *)
(* before the change and arrived after it.                                 *)
AnsweredChangesShow == \A q \in DOMAIN entries : entries[q].answer >= seen[TenantOf[q]]

(* The cache never holds more than its limit, whatever has expired.        *)
WithinLimit == Cardinality(DOMAIN entries) <= MaxEntries

(* Why the first holds: so it is with answers on their way whose ticket is *)
(* still good, and with what iam answers next.                             *)
Fresh ==
  /\ AnsweredChangesShow
  /\ \A t \in Tenants : seen[t] <= truth[t]
  /\ \A w \in Changes : change[w].step = "committed" => change[w].made <= truth[change[w].tenant]
  /\ \A c \in Calls : call[c].step \in {"asking", "answered"} =>
       LET t == TenantOf[call[c].question] IN
       /\ call[c].ticket \in [epoch : Nat, global : Nat]
       /\ call[c].ticket.epoch <= epochs[t]
       /\ call[c].ticket.global <= global
       /\ call[c].step = "answered" /\ MayStore(c) => call[c].answer >= seen[t]
=============================================================================
