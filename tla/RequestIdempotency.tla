------------------------- MODULE RequestIdempotency -------------------------
(***************************************************************************)
(* The gateway's protection of writes against arriving twice: requests     *)
(* that carry one Idempotency-Key, one Redis entry under that key, and the *)
(* handler behind it (idempotency.go). The first request leaves a          *)
(* placeholder, runs the handler and keeps a successful answer, which      *)
(* later requests get instead of running it again.                         *)
(*                                                                         *)
(* Every Redis command is a step of its own; gateway processes share       *)
(* nothing else. The handler either has its effect in the services behind  *)
(* it or not, and answers with success or not; an answer too large to keep *)
(* counts as one that is not a success. Left out: requests without a key,  *)
(* and a stored answer that cannot be decoded.                             *)
(***************************************************************************)
EXTENDS Integers, FiniteSets

CONSTANTS
  Requests,     \* arrivals of the same operation, with the same key
  Faults,       \* what may go wrong: see FaultKinds
  MaxFaults     \* bound: how often

FaultKinds == {
  "redis",      \* the store does not answer: the request passes unprotected
  "slow",       \* the placeholder expires while a handler still runs
  "lost",       \* a successful answer is not kept: the client has gone and
                \* taken the request's context along, Redis or the gateway fails
  "unsure",     \* the operation took effect and the answer is not a success
  "late"        \* the stored answer expires before the last retry
  }

ASSUME FaultAssumption == Faults \subseteq FaultKinds /\ MaxFaults \in Nat

ASSUME RequestAssumption == IsFiniteSet(Requests)

VARIABLES
  entry,        \* the Redis value under the key
  pc,           \* pc[r]: where request r is in the middleware
  effects,      \* how often the operation was carried out
  faults        \* how often something went wrong

vars == <<entry, pc, effects, faults>>

Entries == {"absent", "pending", "stored"}
Places == {"new", "read", "again", "running", "bare", "succeeded", "failed", "done"}

Init ==
  /\ entry = "absent"
  /\ pc = [r \in Requests |-> "new"]
  /\ effects = 0
  /\ faults = 0

Fault(kind) ==
  /\ kind \in Faults /\ faults < MaxFaults
  /\ faults' = faults + 1

Goto(r, place) == pc' = [pc EXCEPT ![r] = place]

-----------------------------------------------------------------------------
(* SETNX of the placeholder.                                               *)
Acquire(r) ==
  /\ pc[r] = "new"
  /\ entry' = IF entry = "absent" THEN "pending" ELSE entry
  /\ Goto(r, IF entry = "absent" THEN "running" ELSE "read")
  /\ UNCHANGED <<effects, faults>>

(* GET, when the key was taken: a placeholder is answered with 409, a      *)
(* stored answer is replayed.                                              *)
Read(r) ==
  /\ pc[r] = "read"
  /\ Goto(r, IF entry = "absent" THEN "again" ELSE "done")
  /\ UNCHANGED <<entry, effects, faults>>

(* Mutant: the second SETNX is not looked at.                              *)
AcquireAgainAnyway(r) ==
  /\ pc[r] = "again"
  /\ entry' = IF entry = "absent" THEN "pending" ELSE entry
  /\ Goto(r, "running")
  /\ UNCHANGED <<effects, faults>>

(* The holder went away in between: SETNX once more.                       *)
AcquireAgain(r) ==
  /\ pc[r] = "again"
  /\ \/ entry = "absent" /\ entry' = "pending" /\ Goto(r, "running")
     \/ UNCHANGED entry /\ Goto(r, "done")   \* 409: taken, or Redis failed
  /\ UNCHANGED <<effects, faults>>

(* Redis cannot be reached: the request passes as it is. A SETNX whose     *)
(* answer was lost may have put the placeholder.                           *)
PassUnprotected(r) ==
  /\ pc[r] \in {"new", "read"}
  /\ Fault("redis")
  /\ \/ UNCHANGED entry
     \/ pc[r] = "new" /\ entry = "absent" /\ entry' = "pending"
  /\ Goto(r, "bare")
  /\ UNCHANGED effects

(* The handler runs.                                                       *)
Succeed(r) ==
  /\ pc[r] \in {"running", "bare"}
  /\ effects' = effects + 1
  /\ Goto(r, IF pc[r] = "running" THEN "succeeded" ELSE "done")
  /\ UNCHANGED <<entry, faults>>

Fail(r) ==
  /\ pc[r] \in {"running", "bare"}
  /\ \/ UNCHANGED <<effects, faults>>
     \/ effects' = effects + 1 /\ Fault("unsure")
  /\ Goto(r, IF pc[r] = "running" THEN "failed" ELSE "done")
  /\ UNCHANGED entry

(* finish: a success is kept in place of the placeholder, whoever's it is; *)
(* anything else deletes the key, whatever it holds.                       *)
Finish(r) ==
  /\ pc[r] \in {"succeeded", "failed"}
  /\ entry' = IF pc[r] = "succeeded" THEN "stored" ELSE "absent"
  /\ Goto(r, "done")
  /\ UNCHANGED <<effects, faults>>

(* ... which is logged and leaves the key alone when it fails.             *)
FinishFails(r) ==
  /\ \/ pc[r] = "succeeded" /\ Fault("lost")
     \/ pc[r] = "failed" /\ UNCHANGED faults
  /\ Goto(r, "done")
  /\ UNCHANGED <<entry, effects>>

(* The gateway stops before the handler has done anything.                 *)
Crash(r) ==
  /\ pc[r] \in {"read", "again", "running", "bare"}
  /\ Goto(r, "done")
  /\ UNCHANGED <<entry, effects, faults>>

(* Requests that put a placeholder and are not through with it.            *)
Holding == {r \in Requests : pc[r] \in {"running", "succeeded", "failed"}}

(* The placeholder's minute is over.                                       *)
PlaceholderExpires ==
  /\ entry = "pending"
  /\ entry' = "absent"
  /\ IF Holding = {} THEN UNCHANGED faults ELSE Fault("slow")
  /\ UNCHANGED <<pc, effects>>

(* The answer's day is over.                                               *)
AnswerExpires ==
  /\ entry = "stored"
  /\ entry' = "absent"
  /\ Fault("late")
  /\ UNCHANGED <<pc, effects>>

Next ==
  \/ \E r \in Requests :
       \/ Acquire(r) \/ Read(r) \/ AcquireAgain(r) \/ PassUnprotected(r)
       \/ Succeed(r) \/ Fail(r) \/ Finish(r) \/ FinishFails(r) \/ Crash(r)
  \/ PlaceholderExpires \/ AnswerExpires

Spec == Init /\ [][Next]_vars

-----------------------------------------------------------------------------
TypeOK ==
  /\ entry \in Entries
  /\ pc \in [Requests -> Places]
  /\ effects \in Nat
  /\ faults \in 0..MaxFaults

(* However many requests arrive and however they interleave, the operation *)
(* is carried out once, and once more at most for each thing that went     *)
(* wrong: no fault opens the door to more than one more execution, not     *)
(* even through the deletions and overwrites of requests that no longer    *)
(* own the placeholder.                                                    *)
OneMorePerFault == effects <= 1 + faults

(* Why: what was done, what may still be done by requests under way, and   *)
(* what a free key, or a placeholder nobody holds any more, lets in.       *)
MayAct == {r \in Requests : pc[r] \in {"running", "bare", "failed"}}
Opening == IF entry = "absent" \/ (entry = "pending" /\ Holding = {}) THEN 1 ELSE 0
Budget == effects + Cardinality(MayAct) + Opening <= 1 + faults
=============================================================================
