---------------------------- MODULE ApprovalDesk ----------------------------
(***************************************************************************)
(* What the approval service promises the services that submit documents   *)
(* to it: a request opens one instance, an instance ends once, and what it *)
(* ended with is announced exactly when it ends. How approvers get there   *)
(* (steps, tasks, parallel decisions) is ApprovalEngine's.                 *)
(***************************************************************************)
CONSTANTS
  Instances,    \* ids of approval_instances
  Docs,         \* documents of the business services
  Keys,         \* approval_request_key values of contracts
  Nil           \* no document, no request key

VARIABLES
  status,       \* status[i]: "none" before the instance exists
  doc,          \* doc[i]: the document instance i decides on
  key,          \* key[i]: the request key it was opened with
  announced     \* announced[i]: the decision event in the outbox, or "none"

deskVars == <<status, doc, key, announced>>

Verdicts == {"APPROVED", "REJECTED", "RETURNED"}
Statuses == {"none", "RUNNING", "CANCELLED"} \union Verdicts

InFlight(d) == \E i \in Instances : status[i] = "RUNNING" /\ doc[i] = d

Answered(d, k) == k # Nil /\ \E i \in Instances : doc[i] = d /\ key[i] = k

Init ==
  /\ status = [i \in Instances |-> "none"]
  /\ doc = [i \in Instances |-> Nil]
  /\ key = [i \in Instances |-> Nil]
  /\ announced = [i \in Instances |-> "none"]

(* Opening may conclude at once, when nobody is above the submitter.       *)
Open(i, d, k, s) ==
  /\ status[i] = "none" /\ ~InFlight(d) /\ ~Answered(d, k)
  /\ status' = [status EXCEPT ![i] = s]
  /\ doc' = [doc EXCEPT ![i] = d]
  /\ key' = [key EXCEPT ![i] = k]
  /\ announced' = [announced EXCEPT ![i] = IF s = "RUNNING" THEN "none" ELSE s]

Conclude(i, v) ==
  /\ status[i] = "RUNNING"
  /\ status' = [status EXCEPT ![i] = v]
  /\ announced' = [announced EXCEPT ![i] = v]
  /\ UNCHANGED <<doc, key>>

(* The submitter's withdrawal is announced to nobody.                      *)
Recall(i) ==
  /\ status[i] = "RUNNING"
  /\ status' = [status EXCEPT ![i] = "CANCELLED"]
  /\ UNCHANGED <<doc, key, announced>>

Next ==
  \E i \in Instances :
    \/ \E d \in Docs, k \in Keys \union {Nil}, s \in {"RUNNING", "APPROVED"} : Open(i, d, k, s)
    \/ \E v \in Verdicts : Conclude(i, v)
    \/ Recall(i)

Spec == Init /\ [][Next]_deskVars
=============================================================================
