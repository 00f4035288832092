--------------------------- MODULE ApprovalEngine ---------------------------
(***************************************************************************)
(* The approval service: Submit turns a document into an instance with     *)
(* tasks at the first staffed step of its flow, Act turns one approver's   *)
(* decision into the next tasks or a finished instance, Withdraw lets the  *)
(* submitter call it back.                                                 *)
(*                                                                         *)
(* Act reads outside its transaction and decides inside it, so a request   *)
(* is two steps (Load, then one of the decisions or Abort) and any other   *)
(* request may commit in between. Submit is one step: what it reads before *)
(* its transaction is a flow version, which never changes, and an answer   *)
(* of the directory, which is arbitrary here anyway.                       *)
(***************************************************************************)
EXTENDS Integers, Sequences

CONSTANTS
  Docs,           \* documents of the business services
  Kind,           \* Kind[d]: the biz_type of d
  Submitter,      \* Submitter[d]: the employee who submits and withdraws d
  Keys,           \* approval_request_key values of contracts
  Nil,            \* no document, key, flow, step or loaded request
  People,         \* employees
  Admins,         \* holders of SUPER_ADMIN
  SalesManagers,  \* holders of SALES_MANAGER
  Bosses,         \* holders of BOSS
  Buyers,         \* holders of the purchase fallback role
  Flows,          \* Flows[d]: the flow versions that may be active when d is
                  \* submitted; a version is a sequence of steps, a step has a
                  \* mode and the assignee sets the directory may answer
  Steps,          \* step numbers (approval_nodes.seq)
  Instances,      \* ids of approval_instances
  Requests        \* concurrent Act calls

Kinds == {"CONTRACT", "PURCHASE_ORDER", "TRAVEL_REIMBURSEMENT", "OTHER"}
FlowVersions == UNION {Flows[d] : d \in Docs}

ASSUME PeopleAssumption ==
  /\ Kind \in [Docs -> Kinds]
  /\ Submitter \in [Docs -> People]
  /\ Admins \subseteq People /\ SalesManagers \subseteq People
  /\ Bosses \subseteq People /\ Buyers \subseteq People

ASSUME FlowAssumption ==
  /\ Steps \subseteq Nat \ {0} /\ 1 \in Steps
  /\ \A f \in FlowVersions :
       /\ f \in Seq([mode : {"ANY", "ALL"}, staff : SUBSET (SUBSET People)])
       /\ 1 \in DOMAIN f
       /\ DOMAIN f \subseteq Steps

ASSUME NilAssumption ==
  /\ Instances \subseteq Nat
  /\ Nil \notin Docs /\ Nil \notin Keys /\ Nil \notin FlowVersions
  /\ Nil \notin [step : Steps, staff : SUBSET People]

VARIABLES
  status,       \* status[i]: "none" before the instance exists
  doc, key,     \* what instance i was opened for
  flow,         \* flow[i]: the flow version it follows
  current,      \* current[i]: its current_seq
  task,         \* task[i][k][p]: p's task at step k
  events,       \* events[i]: its outbox events, in order
  loaded        \* loaded[r]: what request r read before its transaction

instVars == <<status, doc, key, flow, current>>
vars == <<instVars, task, events, loaded>>

Verdicts == {"APPROVED", "REJECTED", "RETURNED"}
TaskStates == {"none", "PENDING", "SKIPPED", "CANCELLED"} \union Verdicts

Init ==
  /\ status = [i \in Instances |-> "none"]
  /\ doc = [i \in Instances |-> Nil]
  /\ key = [i \in Instances |-> Nil]
  /\ flow = [i \in Instances |-> Nil]
  /\ current = [i \in Instances |-> 1]
  /\ task = [i \in Instances |-> [k \in Steps |-> [p \in People |-> "none"]]]
  /\ events = [i \in Instances |-> <<>>]
  /\ loaded = [r \in Requests |-> Nil]

-----------------------------------------------------------------------------
(* Who is asked next.                                                      *)

(* firstStaffedNode: the first step from k on with somebody to assign, or  *)
(* Nil when every remaining step came back empty.                          *)
FirstStaffed(f, k) ==
  LET rest == {j \in DOMAIN f : j >= k}
      unstaffed(S) == \A j \in S : {} \in f[j].staff
      reachable == {j \in rest : unstaffed({h \in rest : h < j})}
  IN (UNION {[step : {j}, staff : f[j].staff \ {{}}] : j \in reachable})
       \union {n \in {Nil} : unstaffed(rest)}

StaffOf(o) == IF o = Nil THEN {} ELSE o.staff

Others(S, p) == IF S \ {p} = {} THEN S ELSE S \ {p}

SelfConfirmers == SalesManagers \union Admins

(* A contract is confirmed by the submitter's superior, by a boss when     *)
(* there is none, and by the submitter too when he may confirm himself.    *)
AskedForContract(d, f) ==
  LET s == Submitter[d]
      reached == FirstStaffed(f, 1)
      superior == {o \in reached : StaffOf(o) \ {s} # {}}
  IN IF s \in SelfConfirmers
     THEN {[step |-> 1, staff |-> StaffOf(o) \union {s}] : o \in reached}
     ELSE {[step |-> o.step, staff |-> o.staff \ {s}] : o \in superior}
            \union [step : {1}, staff : {B \in {Bosses \ {s}} : B # {} /\ reached # superior}]

(* Mutant: no fallback for an order nobody is above.                       *)
AskedForOrderAbove(d, f) == FirstStaffed(f, 1)

(* A purchase order nobody is above goes to the buyers or administrators.  *)
AskedForOrder(d, f) ==
  LET reached == FirstStaffed(f, 1)
      fallback == Others(IF Buyers = {} THEN Admins ELSE Buyers, Submitter[d])
  IN (reached \ {Nil})
       \union [step : {1}, staff : {B \in {fallback} : B # {} /\ Nil \in reached}]

FirstAsked(d, f) ==
  CASE Kind[d] = "CONTRACT" -> AskedForContract(d, f)
    [] Kind[d] = "PURCHASE_ORDER" -> AskedForOrder(d, f)
    [] OTHER -> FirstStaffed(f, 1)

-----------------------------------------------------------------------------
(* Submit.                                                                 *)

InFlight(d) == \E i \in Instances : status[i] = "RUNNING" /\ doc[i] = d

(* Mutant: only a running instance answers for its key.                    *)
AnsweredWhileRunning(d, k) ==
  k # Nil /\ \E i \in Instances : status[i] = "RUNNING" /\ doc[i] = d /\ key[i] = k

(* A request with this key was answered before, whatever became of it.     *)
Answered(d, k) == k # Nil /\ \E i \in Instances : doc[i] = d /\ key[i] = k

Assign(t, k, S) == [t EXCEPT ![k] = [p \in People |-> IF p \in S THEN "PENDING" ELSE @[p]]]

Submit(i, d, k, f, o) ==
  /\ status[i] = "none" /\ \A h \in Instances : h < i => status[h] # "none"
  /\ k = Nil \/ Kind[d] = "CONTRACT"
  /\ ~Answered(d, k) /\ ~InFlight(d)
  /\ o \in FirstAsked(d, f)
  /\ doc' = [doc EXCEPT ![i] = d]
  /\ key' = [key EXCEPT ![i] = k]
  /\ flow' = [flow EXCEPT ![i] = f]
  /\ \/ /\ o = Nil                          \* nobody above the submitter
        /\ status' = [status EXCEPT ![i] = "APPROVED"]
        /\ events' = [events EXCEPT ![i] = <<"APPROVED">>]
        /\ UNCHANGED task
     \/ /\ o # Nil
        /\ status' = [status EXCEPT ![i] = "RUNNING"]
        /\ task' = [task EXCEPT ![i] = Assign(@, o.step, o.staff)]
        /\ UNCHANGED events
  /\ UNCHANGED <<current, loaded>>

-----------------------------------------------------------------------------
(* Act.                                                                    *)

MayAct(p, i, assignee) ==
  /\ p = assignee \/ p \in Admins
  /\ p = Submitter[doc[i]] =>
       /\ Kind[doc[i]] # "TRAVEL_REIMBURSEMENT"
       /\ Kind[doc[i]] = "CONTRACT" => p \in SelfConfirmers

(* Mutant: the action itself is recorded.                                  *)
VerdictAsGiven(d, action) == action

(* taskStatusFor, after Act has turned a contract's REJECT into RETURN.    *)
VerdictFor(d, action) ==
  CASE action = "APPROVE" -> "APPROVED"
    [] action = "REJECT" /\ Kind[d] # "CONTRACT" -> "REJECTED"
    [] OTHER -> "RETURNED"

(* A contract has one step; only an approval needs to know the next one.   *)
NextAsked(i, k, action) ==
  IF action = "APPROVE" /\ Kind[doc[i]] # "CONTRACT"
  THEN FirstStaffed(flow[i], k + 1)
  ELSE {Nil}

(* Everything up to the transaction: the task, the rights and the next step. *)
Load(r, i, k, p, action) ==
  /\ loaded[r] = Nil
  /\ task[i][k][p] # "none"
  /\ \E actor \in People : MayAct(actor, i, p)
  /\ \E o \in NextAsked(i, k, action) :
       loaded' = [loaded EXCEPT ![r] =
         [inst |-> i, step |-> k, person |-> p, verdict |-> VerdictFor(doc[i], action), next |-> o]]
  /\ UNCHANGED <<instVars, task, events>>

(* AP_INSTANCE_FINISHED, AP_TASK_ALREADY_ACTED or any error: rolled back.  *)
Abort(r) ==
  /\ loaded[r] # Nil
  /\ loaded' = [loaded EXCEPT ![r] = Nil]
  /\ UNCHANGED <<instVars, task, events>>

(* GetInstanceForUpdate and ActOnTask: the instance is still running and   *)
(* the task still pending, under the instance's row lock.                  *)
Acting(r) ==
  /\ loaded[r] # Nil
  /\ status[loaded[r].inst] = "RUNNING"
  /\ task[loaded[r].inst][loaded[r].step][loaded[r].person] = "PENDING"
  /\ loaded' = [loaded EXCEPT ![r] = Nil]
  /\ UNCHANGED <<doc, key, flow>>

(* The instance's tasks once ActOnTask has recorded the decision of q.     *)
Decided(q) == [task[q.inst] EXCEPT ![q.step][q.person] = q.verdict]

PendingAt(t, k) == {p \in People : t[k][p] = "PENDING"}

MustAgree(q) == flow[q.inst][q.step].mode = "ALL"

(* Mutant: the first approval completes every step.                        *)
CompleteAtOnce(q) == TRUE

(* ALL mode waits for every assignee of the step; ANY skips the others.    *)
Complete(q) == MustAgree(q) => PendingAt(Decided(q), q.step) = {}

(* Mutant: CloseSiblingTasks is forgotten.                                 *)
SettledAlone(q) == Decided(q)

Settled(q) ==
  IF MustAgree(q)
  THEN Decided(q)
  ELSE [Decided(q) EXCEPT ![q.step] = [p \in People |-> IF @[p] = "PENDING" THEN "SKIPPED" ELSE @[p]]]

CancelPending(t) ==
  [k \in Steps |-> [p \in People |-> IF t[k][p] = "PENDING" THEN "CANCELLED" ELSE t[k][p]]]

(* finish: what is left of the tasks t is cancelled, and the decision event *)
(* is appended in the same transaction.                                     *)
Finish(i, v, t) ==
  /\ status' = [status EXCEPT ![i] = v]
  /\ task' = [task EXCEPT ![i] = CancelPending(t)]
  /\ events' = [events EXCEPT ![i] = Append(@, v)]
  /\ UNCHANGED current

TurnDown(r) ==
  /\ Acting(r)
  /\ loaded[r].verdict # "APPROVED"
  /\ Finish(loaded[r].inst, loaded[r].verdict, Decided(loaded[r]))

AwaitColleagues(r) ==
  /\ Acting(r)
  /\ loaded[r].verdict = "APPROVED" /\ ~Complete(loaded[r])
  /\ task' = [task EXCEPT ![loaded[r].inst] = Decided(loaded[r])]
  /\ UNCHANGED <<status, current, events>>

Approve(r) ==
  /\ Acting(r)
  /\ loaded[r].verdict = "APPROVED" /\ Complete(loaded[r]) /\ loaded[r].next = Nil
  /\ Finish(loaded[r].inst, "APPROVED", Settled(loaded[r]))

PassOn(r) ==
  /\ Acting(r)
  /\ loaded[r].verdict = "APPROVED" /\ Complete(loaded[r]) /\ loaded[r].next # Nil
  /\ LET q == loaded[r] IN
       /\ current' = [current EXCEPT ![q.inst] = q.next.step]
       /\ task' = [task EXCEPT ![q.inst] = Assign(Settled(q), q.next.step, q.next.staff)]
       /\ events' = [events EXCEPT ![q.inst] = Append(@, "ADVANCED")]
  /\ UNCHANGED status

-----------------------------------------------------------------------------
(* Mutant: a withdrawal is announced as a return.                          *)
WithdrawAnnounced(i) ==
  /\ status[i] = "RUNNING"
  /\ status' = [status EXCEPT ![i] = "CANCELLED"]
  /\ task' = [task EXCEPT ![i] = CancelPending(@)]
  /\ events' = [events EXCEPT ![i] = Append(@, "RETURNED")]
  /\ UNCHANGED <<doc, key, flow, current, loaded>>

(* Mutant: only a withdrawn instance is left.                              *)
WithdrawAnytime(i) ==
  /\ status[i] \notin {"none", "CANCELLED"}
  /\ status' = [status EXCEPT ![i] = "CANCELLED"]
  /\ task' = [task EXCEPT ![i] = CancelPending(@)]
  /\ UNCHANGED <<doc, key, flow, current, events, loaded>>

(* Withdraw is one transaction; a withdrawn or decided instance is left.   *)
Withdraw(i) ==
  /\ status[i] = "RUNNING"
  /\ status' = [status EXCEPT ![i] = "CANCELLED"]
  /\ task' = [task EXCEPT ![i] = CancelPending(@)]
  /\ UNCHANGED <<doc, key, flow, current, events, loaded>>

Next ==
  \/ \E i \in Instances, d \in Docs, k \in Keys \union {Nil} :
       \E f \in Flows[d] : \E o \in FirstAsked(d, f) : Submit(i, d, k, f, o)
  \/ \E r \in Requests, i \in Instances, k \in Steps, p \in People :
       \E action \in {"APPROVE", "REJECT", "RETURN"} : Load(r, i, k, p, action)
  \/ \E r \in Requests : Abort(r) \/ TurnDown(r) \/ AwaitColleagues(r) \/ Approve(r) \/ PassOn(r)
  \/ \E i \in Instances : Withdraw(i)

Spec == Init /\ [][Next]_vars

-----------------------------------------------------------------------------
Loadable ==
  [inst : Instances, step : Steps, person : People, verdict : Verdicts,
   next : {Nil} \union [step : Steps, staff : SUBSET People]]

TypeOK ==
  /\ status \in [Instances -> {"none", "RUNNING", "CANCELLED"} \union Verdicts]
  /\ doc \in [Instances -> Docs \union {Nil}]
  /\ key \in [Instances -> Keys \union {Nil}]
  /\ flow \in [Instances -> FlowVersions \union {Nil}]
  /\ current \in [Instances -> Steps]
  /\ task \in [Instances -> [Steps -> [People -> TaskStates]]]
  /\ events \in [Instances -> Seq(Verdicts \union {"ADVANCED"})]
  /\ loaded \in [Requests -> Loadable \union {Nil}]

OpenAt(i) == {k \in Steps : PendingAt(task[i], k) # {}}

(* Exactly the running instances have pending tasks, and all of them at    *)
(* one step, the last one tasks were created for: no approver is asked to  *)
(* decide what is decided, and no running instance waits for nobody.       *)
OneOpenStepOf(i) ==
  IF status[i] # "RUNNING"
  THEN OpenAt(i) = {}
  ELSE \E k \in Steps :
         /\ OpenAt(i) = {k} /\ current[i] <= k
         /\ \A j \in Steps, p \in People : j > k => task[i][j][p] = "none"

OneOpenStep == \A i \in Instances : OneOpenStepOf(i)

(* An instance goes past a step only with the step's consent: in ALL mode  *)
(* every assignee approved, in ANY mode one did; and it is APPROVED only   *)
(* when that holds of every step anyone was assigned to.                   *)
ConsentOf(i) ==
  \A k \in Steps :
    LET asked == {p \in People : task[i][k][p] # "none"}
        agreed == {p \in asked : task[i][k][p] = "APPROVED"}
    IN /\ asked # {}
       /\ status[i] = "APPROVED" \/ (status[i] = "RUNNING" /\ k \notin OpenAt(i))
       => IF flow[i][k].mode = "ALL" THEN agreed = asked ELSE agreed # {}

Consent == \A i \in Instances : ConsentOf(i)

(* The instance and its outbox events never disagree (act.go:34-36): the   *)
(* decision is announced once and last, it is the decision the instance    *)
(* ended with, and a running or withdrawn instance announces none.         *)
EventsMatchOf(i) ==
  /\ \A n \in 1..(Len(events[i]) - 1) : events[i][n] = "ADVANCED"
  /\ IF status[i] \in Verdicts
     THEN events[i] # <<>> /\ events[i][Len(events[i])] = status[i]
     ELSE \A n \in 1..Len(events[i]) : events[i][n] = "ADVANCED"

EventsMatchOutcome == \A i \in Instances : EventsMatchOf(i)

(* A decision that came too late changes nothing: once an instance is no   *)
(* longer running, its status, tasks and events stay as they are.          *)
FinishedForGood ==
  [][\A i \in Instances :
       status[i] \notin {"none", "RUNNING"} =>
         /\ status'[i] = status[i] /\ task'[i] = task[i] /\ events'[i] = events[i]]_vars

(* A purchase order and a contract are approved by somebody: neither is    *)
(* approved for want of an approver.                                       *)
ApprovedBySomebody(i) ==
  status[i] = "APPROVED" /\ Kind[doc[i]] \in {"CONTRACT", "PURCHASE_ORDER"} =>
    \E k \in Steps, p \in People : task[i][k][p] = "APPROVED"

NobodyApprovesItself == \A i \in Instances : ApprovedBySomebody(i)

(* The engine implements what the services that submit documents rely on.  *)
Announced(i) == IF status[i] \in Verdicts THEN events[i][Len(events[i])] ELSE "none"

Desk == INSTANCE ApprovalDesk WITH announced <- [i \in Instances |-> Announced(i)]

ImplementsDesk == Desk!Spec

-----------------------------------------------------------------------------
(* The inductive invariant behind the properties above.                    *)

(* An instance that does not exist has left no trace; one that does is     *)
(* about a document and follows a flow that was active for it.             *)
Opened(i) ==
  IF status[i] = "none"
  THEN /\ doc[i] = Nil /\ key[i] = Nil /\ current[i] = 1 /\ events[i] = <<>>
       /\ \A k \in Steps, p \in People : task[i][k][p] = "none"
  ELSE doc[i] \in Docs /\ flow[i] \in Flows[doc[i]]

(* What a request read is about a task that exists, and the next step it   *)
(* found lies ahead of that task and is staffed.                           *)
LoadedAhead ==
  \A r \in Requests :
    loaded[r] # Nil =>
      /\ status[loaded[r].inst] # "none"
      /\ loaded[r].next # Nil =>
           loaded[r].next.step > loaded[r].step /\ loaded[r].next.staff # {}

(* At the open step of a running instance nobody has disagreed yet.        *)
NoDissent(i) ==
  \A k \in Steps, p \in People :
    status[i] = "RUNNING" /\ k \in OpenAt(i) =>
      task[i][k][p] \in {"none", "PENDING", "APPROVED"}

Sound(i) ==
  /\ Opened(i)
  /\ NoDissent(i)
  /\ OneOpenStepOf(i)
  /\ ConsentOf(i)
  /\ EventsMatchOf(i)
  /\ ApprovedBySomebody(i)

IInv ==
  /\ TypeOK
  /\ LoadedAhead
  /\ \A i \in Instances : Sound(i)
=============================================================================
