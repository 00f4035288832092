------------------------ MODULE EventDelivery_proofs ------------------------
(* Proofs about EventDelivery.                                             *)
EXTENDS EventDelivery, TLAPS

-----------------------------------------------------------------------------
(* Types.                                                                  *)

LEMMA InitType == Init => TypeOK
  BY EventAssumption, BoundAssumption DEF Init, TypeOK, RelayStates, ConsumerStates

LEMMA ProducerType == TypeOK /\ ProducerNext => TypeOK'
<1> SUFFICES ASSUME TypeOK, ProducerNext PROVE TypeOK'
  OBVIOUS
<1> USE DEF TypeOK, Fault, NoFault, relayVars, brokerVars, consumerVars, storeVars, replayVars
<1>1. CASE \E e \in Events : Emit(e)
  BY <1>1 DEF Emit
<1>2. CASE \E r \in Relays : \E B \in SUBSET Events : Select(r, B)
  BY <1>2 DEF Select, RelayStates
<1>3. CASE \E r \in Relays : CloseRows(r)
  BY <1>3 DEF CloseRows, RelayStates
<1>4. CASE \E r \in Relays : \E e \in Events : Publish(r, e)
  BY <1>4 DEF Publish, RelayStates
<1>5. CASE \E r \in Relays : \E e \in Events : MarkPublished(r, e)
  BY <1>5 DEF MarkPublished, Advance, RelayStates
<1>6. CASE \E r \in Relays : RelayCrash(r)
  BY <1>6 DEF RelayCrash, RelayStates
<1>7. CASE \E r \in Relays : \E e \in Events : PublishFails(r, e)
  <2>1. PICK r \in Relays, e \in Events : PublishFails(r, e)
    BY <1>7
  <2>2. log' \in Seq(Events)
    <3>1. log' = Append(log, e) \/ log' = log
      BY <2>1 DEF PublishFails
    <3>2. Append(log, e) \in Seq(Events)
      OBVIOUS
    <3> QED
      BY <3>1, <3>2
  <2>3. batch' \in [Relays -> SUBSET Events] /\ relayPc' \in [Relays -> RelayStates]
    BY <2>1 DEF PublishFails, Advance, RelayStates
  <2> QED
    BY <2>1, <2>2, <2>3 DEF PublishFails
<1>8. CASE \E r \in Relays : \E e \in Events : MarkFails(r, e)
  BY <1>8 DEF MarkFails, Advance, RelayStates
<1> QED
  BY <1>1, <1>2, <1>3, <1>4, <1>5, <1>6, <1>7, <1>8 DEF ProducerNext, RelayWorks

LEMMA ClaimType ==
  ASSUME TypeOK, NEW e \in Events, ClaimAndApply(e)
  PROVE  claimed' \in SUBSET Events /\ applied' \in [Events -> Nat] /\ parked' \in SUBSET Events
<1>1. CASE e \in claimed
  BY <1>1 DEF TypeOK, ClaimAndApply, storeVars
<1>2. CASE e \notin claimed
  <2>1. claimed' = claimed \union {e} /\ claimed \subseteq Events
    BY <1>2 DEF TypeOK, ClaimAndApply
  <2>2. applied' = [applied EXCEPT ![e] = applied[e] + 1] /\ applied \in [Events -> Nat]
    BY <1>2 DEF TypeOK, ClaimAndApply
  <2>3. parked' = parked /\ parked \subseteq Events
    BY <1>2 DEF TypeOK, ClaimAndApply
  <2> QED
    BY <2>1, <2>2, <2>3
<1> QED
  BY <1>1, <1>2

LEMMA RetryType ==
  ASSUME TypeOK, NEW c \in Consumers, Retry(c)
  PROVE  tries' \in [Consumers -> 0..Attempts] /\ pc' \in [Consumers -> ConsumerStates]
<1>1. CASE tries[c] < Attempts
  <2>1. tries[c] + 1 \in 0..Attempts
    BY <1>1, BoundAssumption DEF TypeOK
  <2> QED
    BY <1>1, <2>1 DEF TypeOK, Retry
<1>2. CASE ~(tries[c] < Attempts)
  BY <1>2 DEF TypeOK, Retry, ConsumerStates
<1> QED
  BY <1>1, <1>2

LEMMA GiveBackType ==
  ASSUME TypeOK, NEW c \in Consumers, GiveBack(c)
  PROVE  abandoned' \in SUBSET Nat /\ pc' \in [Consumers -> ConsumerStates]
<1>1. abandoned \subseteq Nat /\ cur[c] \in Nat
  BY DEF TypeOK
<1>2. abandoned' \subseteq Nat
  BY <1>1 DEF GiveBack
<1> QED
  BY <1>2 DEF TypeOK, GiveBack, ConsumerStates

LEMMA ConsumerType == TypeOK /\ InRange /\ ConsumerNext => TypeOK'
<1> SUFFICES ASSUME TypeOK, InRange, NEW c \in Consumers,
                    \/ Assign(c) \/ ConsumerWorks(c) \/ ConsumerCrash(c)
                    \/ ProbeFails(c) \/ CommitAnswerLost(c) \/ ParkFails(c) \/ CommitFails(c)
             PROVE  TypeOK'
  BY DEF ConsumerNext
<1> USE DEF TypeOK, Fault, NoFault, relayVars, brokerVars, consumerVars, storeVars, replayVars
<1>0. Busy(c) => Event(c) \in Events
  BY DEF InRange, Offsets, Event
<1>1. CASE Assign(c)
  <2>1. faults' \in Nat
    BY <1>1 DEF Assign
  <2>2. owner' \in Consumers /\ pos' \in [Consumers -> Nat \ {0}]
    BY <1>1 DEF Assign
  <2>3. UNCHANGED <<relayVars, log, committed, pc, cur, tries, storeVars, replayVars, abandoned>>
    BY <1>1 DEF Assign
  <2> QED
    BY <2>1, <2>2, <2>3
<1>2. CASE Fetch(c)
  BY <1>2 DEF Fetch, ConsumerStates
<1>3. CASE Probe(c)
  BY <1>3, BoundAssumption DEF Probe, ConsumerStates
<1>4. CASE Handle(c)
  BY <1>4, <1>0, ClaimType DEF Handle, ConsumerStates, Busy
<1>5. CASE Skip(c)
  BY <1>5 DEF Skip, ConsumerStates
<1>6. CASE HandleFails(c)
  BY <1>6, RetryType DEF HandleFails
<1>7. CASE Park(c)
  BY <1>7, <1>0 DEF Park, ConsumerStates, Busy
<1>8. CASE CommitOffset(c)
  BY <1>8 DEF CommitOffset, ConsumerStates
<1>9. CASE ConsumerCrash(c)
  BY <1>9 DEF ConsumerCrash, ConsumerStates
<1>10. CASE ProbeFails(c)
  BY <1>10, GiveBackType DEF ProbeFails
<1>11. CASE CommitAnswerLost(c)
  <2>1. claimed' \in SUBSET Events /\ applied' \in [Events -> Nat] /\ parked' \in SUBSET Events
    BY <1>11, <1>0, ClaimType DEF CommitAnswerLost, Busy
  <2>2. tries' \in [Consumers -> 0..Attempts] /\ pc' \in [Consumers -> ConsumerStates]
    BY <1>11, RetryType DEF CommitAnswerLost
  <2>3. /\ UNCHANGED <<relayVars, brokerVars, pos, cur, replayVars, abandoned>>
        /\ faults' \in Nat
    BY <1>11 DEF CommitAnswerLost
  <2> QED
    BY <2>1, <2>2, <2>3
<1>12. CASE ParkFails(c)
  BY <1>12, GiveBackType DEF ParkFails
<1>13. CASE CommitFails(c)
  BY <1>13 DEF CommitFails, ConsumerStates
<1> QED
  BY <1>1, <1>2, <1>3, <1>4, <1>5, <1>6, <1>7, <1>8, <1>9, <1>10, <1>11, <1>12, <1>13
  DEF ConsumerWorks

LEMMA ConsoleType == TypeOK /\ ReplayedBeforeCleared /\ ConsoleNext => TypeOK'
<1> SUFFICES ASSUME TypeOK, ReplayedBeforeCleared, NEW o \in Operators,
                    \/ \E e \in Events : LoadParked(o, e)
                    \/ ReplayHandle(o) \/ ClearParked(o) \/ ReplayFails(o)
             PROVE  TypeOK'
  BY DEF ConsoleNext
<1> USE DEF TypeOK, NoFault, relayVars, brokerVars, consumerVars, storeVars
<1>1. CASE \E e \in Events : LoadParked(o, e)
  BY <1>1 DEF LoadParked
<1>2. CASE ReplayHandle(o)
  BY <1>2 DEF ReplayHandle, ClaimAndApply, ReplayedBeforeCleared
<1>3. CASE ClearParked(o)
  BY <1>3 DEF ClearParked
<1>4. CASE ReplayFails(o)
  BY <1>4 DEF ReplayFails
<1> QED
  BY <1>1, <1>2, <1>3, <1>4

-----------------------------------------------------------------------------
(* What a step of each part of the pipeline leaves alone, and what only    *)
(* grows.                                                                  *)

LEMMA ProducerFrame ==
  ASSUME TypeOK, ProducerNext
  PROVE  /\ UNCHANGED <<committed, owner, consumerVars, storeVars, replayVars, abandoned>>
         /\ \A e \in Events : outbox[e] # "absent" => outbox'[e] # "absent"
         /\ log' = log \/ \E r \in Relays : \E e \in batch[r] : log' = Append(log, e)
<1> USE DEF TypeOK, brokerVars
<1>1. CASE \E e \in Events : Emit(e)
  BY <1>1 DEF Emit
<1>2. CASE \E r \in Relays : \E B \in SUBSET Events : Select(r, B)
  BY <1>2 DEF Select
<1>3. CASE \E r \in Relays : CloseRows(r)
  BY <1>3 DEF CloseRows
<1>4. CASE \E r \in Relays : \E e \in Events : Publish(r, e)
  BY <1>4 DEF Publish, UpNext
<1>5. CASE \E r \in Relays : \E e \in Events : MarkPublished(r, e)
  BY <1>5 DEF MarkPublished
<1>6. CASE \E r \in Relays : RelayCrash(r)
  BY <1>6 DEF RelayCrash
<1>7. CASE \E r \in Relays : \E e \in Events : PublishFails(r, e)
  BY <1>7 DEF PublishFails, UpNext
<1>8. CASE \E r \in Relays : \E e \in Events : MarkFails(r, e)
  BY <1>8 DEF MarkFails
<1> QED
  BY <1>1, <1>2, <1>3, <1>4, <1>5, <1>6, <1>7, <1>8 DEF ProducerNext, RelayWorks

LEMMA ClaimGrows ==
  ASSUME NEW e, ClaimAndApply(e)
  PROVE  claimed' = claimed \union {e} /\ parked' = parked
  BY DEF ClaimAndApply, storeVars

LEMMA ConsumerFrame ==
  ASSUME TypeOK, ConsumerNext
  PROVE  /\ UNCHANGED <<relayVars, log, replayVars>>
         /\ claimed \subseteq claimed'
         /\ parked \subseteq parked'
         /\ abandoned \subseteq abandoned'
<1> PICK c \in Consumers :
      \/ Assign(c) \/ ConsumerWorks(c) \/ ConsumerCrash(c)
      \/ ProbeFails(c) \/ CommitAnswerLost(c) \/ ParkFails(c) \/ CommitFails(c)
  BY DEF ConsumerNext
<1> USE DEF brokerVars, storeVars
<1>1. CASE Assign(c) \/ Fetch(c) \/ Probe(c) \/ Skip(c) \/ HandleFails(c)
  BY <1>1 DEF Assign, Fetch, Probe, Skip, HandleFails
<1>2. CASE Handle(c) \/ CommitAnswerLost(c)
  BY <1>2, ClaimGrows DEF Handle, CommitAnswerLost
<1>3. CASE Park(c) \/ CommitOffset(c) \/ CommitFails(c) \/ ConsumerCrash(c)
  BY <1>3 DEF Park, CommitOffset, CommitFails, ConsumerCrash
<1>4. CASE ProbeFails(c) \/ ParkFails(c)
  BY <1>4 DEF ProbeFails, ParkFails, GiveBack
<1> QED
  BY <1>1, <1>2, <1>3, <1>4 DEF ConsumerWorks

LEMMA ConsoleFrame ==
  ASSUME ReplayedBeforeCleared, ConsoleNext
  PROVE  /\ UNCHANGED <<relayVars, brokerVars, consumerVars, abandoned>>
         /\ claimed \subseteq claimed'
         /\ parked' \subseteq parked
         /\ \A e \in parked : e \notin parked' => e \in claimed
<1> PICK o \in Operators :
      \/ \E e \in Events : LoadParked(o, e)
      \/ ReplayHandle(o) \/ ClearParked(o) \/ ReplayFails(o)
  BY DEF ConsoleNext
<1>1. CASE \E e \in Events : LoadParked(o, e)
  BY <1>1 DEF LoadParked, storeVars
<1>2. CASE ReplayHandle(o)
  BY <1>2, ClaimGrows DEF ReplayHandle
<1>3. CASE ClearParked(o)
  BY <1>3 DEF ClearParked, ReplayedBeforeCleared
<1>4. CASE ReplayFails(o)
  BY <1>4 DEF ReplayFails, storeVars
<1> QED
  BY <1>1, <1>2, <1>3, <1>4

(* The partition only grows at its end.                                    *)
LEMMA LogGrows ==
  ASSUME TypeOK, ReplayedBeforeCleared, Next
  PROVE  /\ Len(log) \in Nat /\ Len(log') \in Nat
         /\ Len(log) <= Len(log')
         /\ \A i \in Offsets : i \in Offsets' /\ log'[i] = log[i]
<1>1. CASE log' = log
  BY <1>1 DEF Offsets, TypeOK
<1>2. CASE \E r \in Relays : \E e \in batch[r] : log' = Append(log, e)
  BY <1>2 DEF Offsets, TypeOK
<1> QED
  BY <1>1, <1>2, ProducerFrame, ConsumerFrame, ConsoleFrame DEF Next, brokerVars

(* Once an event is settled or an offset accounted for, it stays so.       *)
LEMMA SettledForever ==
  ASSUME TypeOK, ReplayedBeforeCleared, Next
  PROVE  /\ \A e : Settled(e) => Settled(e)'
         /\ \A i \in Offsets : Accounted(i) => Accounted(i)'
         /\ \A e \in Events : outbox[e] # "absent" => outbox'[e] # "absent"
<1>1. claimed \subseteq claimed' /\ abandoned \subseteq abandoned'
  BY ProducerFrame, ConsumerFrame, ConsoleFrame DEF Next, storeVars
<1>2. \A e : e \in parked => e \in parked' \/ e \in claimed
  BY ProducerFrame, ConsumerFrame, ConsoleFrame DEF Next, storeVars
<1>3. \A e : Settled(e) => Settled(e)'
  BY <1>1, <1>2 DEF Settled
<1>4. \A i \in Offsets : Accounted(i) => Accounted(i)'
  BY <1>1, <1>3, LogGrows DEF Accounted
<1>5. \A e \in Events : outbox[e] # "absent" => outbox'[e] # "absent"
  BY ProducerFrame, ConsumerFrame, ConsoleFrame DEF Next, relayVars
<1> QED
  BY <1>3, <1>4, <1>5

-----------------------------------------------------------------------------
(* Each part of the inductive invariant is preserved.                      *)

LEMMA KeepsInRange ==
  ASSUME TypeOK, InRange, ReplayedBeforeCleared, Next
  PROVE  InRange'
<1>0. Len(log) \in Nat /\ Len(log') \in Nat /\ Len(log) <= Len(log')
  BY LogGrows
<1>1. CASE ProducerNext
  BY <1>0, <1>1, ProducerFrame DEF InRange, Busy, Offsets, TypeOK, consumerVars
<1>2. CASE ConsumerNext
  <2>0. log' = log
    BY <1>2, ConsumerFrame
  <2> PICK c \in Consumers :
        \/ Assign(c) \/ ConsumerWorks(c) \/ ConsumerCrash(c)
        \/ ProbeFails(c) \/ CommitAnswerLost(c) \/ ParkFails(c) \/ CommitFails(c)
    BY <1>2 DEF ConsumerNext
  <2> USE <2>0 DEF InRange, Busy, Offsets, TypeOK, brokerVars
  <2>1. CASE Assign(c)
    BY <2>1 DEF Assign
  <2>2. CASE Fetch(c)
    BY <2>2 DEF Fetch
  <2>3. CASE Probe(c) \/ Handle(c) \/ Skip(c) \/ HandleFails(c) \/ CommitAnswerLost(c) \/ Park(c)
    BY <2>3 DEF Probe, Handle, Skip, HandleFails, CommitAnswerLost, Park, Retry
  <2>4. CASE CommitOffset(c)
    BY <2>4 DEF CommitOffset
  <2>5. CASE CommitFails(c) \/ ProbeFails(c) \/ ParkFails(c)
    BY <2>5 DEF CommitFails, ProbeFails, ParkFails, GiveBack
  <2>6. CASE ConsumerCrash(c)
    BY <2>6, NoOneAssumption DEF ConsumerCrash
  <2> QED
    BY <2>1, <2>2, <2>3, <2>4, <2>5, <2>6 DEF ConsumerWorks
<1>3. CASE ConsoleNext
  BY <1>3, ConsoleFrame DEF InRange, Busy, Offsets, brokerVars, consumerVars
<1> QED
  BY <1>1, <1>2, <1>3 DEF Next

LEMMA KeepsOnlyEmitted ==
  ASSUME TypeOK, InRange, OnlyEmitted, ReplayedBeforeCleared, Next
  PROVE  OnlyEmitted'
<1>0. \A e \in Events : outbox[e] # "absent" => outbox'[e] # "absent"
  BY SettledForever
<1>1. \A i \in Offsets' : outbox'[log'[i]] # "absent"
  <2>1. CASE log' = log
    BY <2>1, <1>0 DEF OnlyEmitted, Offsets, TypeOK
  <2>2. CASE \E r \in Relays : \E e \in batch[r] : log' = Append(log, e)
    BY <2>2, <1>0 DEF OnlyEmitted, Offsets, TypeOK
  <2> QED
    BY <2>1, <2>2, ProducerFrame, ConsumerFrame, ConsoleFrame DEF Next, brokerVars
<1>2. \A r \in Relays : \A e \in batch'[r] : outbox'[e] # "absent"
  <2>1. CASE ProducerNext
    <3> USE <1>0 DEF OnlyEmitted, TypeOK
    <3>1. CASE \E e \in Events : Emit(e)
      BY <3>1 DEF Emit
    <3>2. CASE \E r \in Relays : \E B \in SUBSET Events : Select(r, B)
      BY <3>2 DEF Select
    <3>3. CASE \E r \in Relays : CloseRows(r) \/ RelayCrash(r)
      BY <3>3 DEF CloseRows, RelayCrash
    <3>4. CASE \E r \in Relays : \E e \in Events : Publish(r, e)
      BY <3>4 DEF Publish
    <3>5. ASSUME NEW r \in Relays, NEW e \in Events,
                 MarkPublished(r, e) \/ PublishFails(r, e) \/ MarkFails(r, e)
          PROVE  \A q \in Relays : \A f \in batch'[q] : outbox'[f] # "absent"
      <4>1. batch' = [batch EXCEPT ![r] = batch[r] \ {e}]
        BY <3>5 DEF MarkPublished, PublishFails, MarkFails, Advance
      <4> QED
        BY <4>1
    <3> QED
      BY <2>1, <3>1, <3>2, <3>3, <3>4, <3>5 DEF ProducerNext, RelayWorks
  <2>2. CASE ConsumerNext \/ ConsoleNext
    BY <2>2, ConsumerFrame, ConsoleFrame DEF OnlyEmitted, relayVars
  <2> QED
    BY <2>1, <2>2 DEF Next
<1>3. \A e \in claimed' \union parked' : outbox'[e] # "absent"
  <2>1. CASE ProducerNext
    BY <2>1, <1>0, ProducerFrame DEF OnlyEmitted, TypeOK, storeVars
  <2>2. CASE ConsumerNext
    <3>0. outbox' = outbox
      BY <2>2, ConsumerFrame DEF relayVars
    <3> PICK c \in Consumers :
          \/ Assign(c) \/ ConsumerWorks(c) \/ ConsumerCrash(c)
          \/ ProbeFails(c) \/ CommitAnswerLost(c) \/ ParkFails(c) \/ CommitFails(c)
      BY <2>2 DEF ConsumerNext
    <3>1. Busy(c) => outbox[Event(c)] # "absent"
      BY DEF OnlyEmitted, InRange, Event
    <3>2. CASE Handle(c) \/ CommitAnswerLost(c)
      <4>1. claimed' = claimed \union {Event(c)} /\ parked' = parked
        BY <3>2, ClaimGrows DEF Handle, CommitAnswerLost
      <4> QED
        BY <3>0, <3>1, <3>2, <4>1 DEF OnlyEmitted, Handle, CommitAnswerLost, Busy
    <3>3. CASE Park(c)
      BY <3>0, <3>1, <3>3 DEF OnlyEmitted, Park, Busy
    <3>4. CASE ~(Handle(c) \/ CommitAnswerLost(c) \/ Park(c))
      <4>1. UNCHANGED storeVars
        BY <3>4 DEF ConsumerWorks, Assign, Fetch, Probe, Skip, HandleFails, CommitOffset,
                    CommitFails, ConsumerCrash, ProbeFails, ParkFails
      <4> QED
        BY <3>0, <4>1 DEF OnlyEmitted, storeVars
    <3> QED
      BY <3>2, <3>3, <3>4
  <2>3. CASE ConsoleNext
    <3>0. outbox' = outbox /\ parked' \subseteq parked
      BY <2>3, ConsoleFrame DEF relayVars
    <3> PICK o \in Operators :
          \/ \E e \in Events : LoadParked(o, e)
          \/ ReplayHandle(o) \/ ClearParked(o) \/ ReplayFails(o)
      BY <2>3 DEF ConsoleNext
    <3>1. CASE ReplayHandle(o)
      BY <3>0, <3>1, ClaimGrows DEF ReplayHandle, OnlyEmitted, ReplayedBeforeCleared
    <3>2. CASE ~ReplayHandle(o)
      BY <3>0, <3>2 DEF LoadParked, ClearParked, ReplayFails, OnlyEmitted, storeVars
    <3> QED
      BY <3>1, <3>2
  <2> QED
    BY <2>1, <2>2, <2>3 DEF Next
<1> QED
  BY <1>1, <1>2, <1>3 DEF OnlyEmitted

LEMMA KeepsSentBeforeMarked ==
  ASSUME TypeOK, SentBeforeMarked, ReplayedBeforeCleared, Next
  PROVE  SentBeforeMarked'
<1>0. \A e : InLog(e) => InLog(e)'
  BY LogGrows DEF InLog, Offsets
<1>1. CASE ProducerNext
  <2>1. CASE \E e \in Events : Emit(e)
    BY <2>1, <1>0 DEF Emit, SentBeforeMarked, UpNext, TypeOK
  <2>2. CASE \E r \in Relays : \E B \in SUBSET Events : Select(r, B)
    BY <2>2, <1>0 DEF Select, SentBeforeMarked, UpNext, TypeOK
  <2>3. CASE \E r \in Relays : CloseRows(r) \/ RelayCrash(r)
    BY <2>3, <1>0 DEF CloseRows, RelayCrash, SentBeforeMarked, UpNext, TypeOK
  <2>4. ASSUME NEW r \in Relays, NEW e \in Events, Publish(r, e)
        PROVE  SentBeforeMarked'
    <3>1. InLog(e)'
      BY <2>4 DEF Publish, InLog, TypeOK
    <3>2. \A f \in Events : UpNext(f, r) => f = e
      BY <2>4, EventAssumption DEF Publish, UpNext
    <3>3. /\ batch' = batch /\ outbox' = outbox
          /\ \A q \in Relays : relayPc'[q] = "marking" => q = r \/ relayPc[q] = "marking"
      BY <2>4 DEF Publish, TypeOK
    <3> QED
      BY <3>1, <3>2, <3>3, <1>0 DEF SentBeforeMarked, UpNext
  <2>5. ASSUME NEW r \in Relays, NEW e \in Events,
               MarkPublished(r, e) \/ PublishFails(r, e) \/ MarkFails(r, e)
        PROVE  SentBeforeMarked'
    <3>1. \A q \in Relays : relayPc'[q] = "marking" =>
                relayPc[q] = "marking" /\ batch'[q] = batch[q]
      BY <2>5 DEF MarkPublished, PublishFails, MarkFails, Advance, TypeOK
    <3>2. \A f \in Events : outbox'[f] = "published" => outbox[f] = "published" \/ InLog(f)
      BY <2>5 DEF MarkPublished, PublishFails, MarkFails, SentBeforeMarked, TypeOK
    <3> QED
      BY <3>1, <3>2, <1>0 DEF SentBeforeMarked, UpNext
  <2> QED
    BY <1>1, <2>1, <2>2, <2>3, <2>4, <2>5 DEF ProducerNext, RelayWorks
<1>2. CASE ConsumerNext \/ ConsoleNext
  BY <1>2, <1>0, ConsumerFrame, ConsoleFrame DEF SentBeforeMarked, UpNext, relayVars
<1> QED
  BY <1>1, <1>2 DEF Next

LEMMA KeepsConcludedBeforeCommit ==
  ASSUME TypeOK, InRange, ConcludedBeforeCommit, ReplayedBeforeCleared, Next
  PROVE  ConcludedBeforeCommit'
<1>0. /\ \A e : Settled(e) => Settled(e)'
      /\ \A c \in Consumers : Busy(c) => log'[cur[c]] = log[cur[c]]
  BY SettledForever, LogGrows DEF InRange
<1>1. CASE ProducerNext \/ ConsoleNext
  BY <1>1, <1>0, ProducerFrame, ConsoleFrame DEF ConcludedBeforeCommit, Busy, consumerVars
<1>2. CASE ConsumerNext
  <2> PICK c \in Consumers :
        \/ Assign(c) \/ ConsumerWorks(c) \/ ConsumerCrash(c)
        \/ ProbeFails(c) \/ CommitAnswerLost(c) \/ ParkFails(c) \/ CommitFails(c)
    BY <1>2 DEF ConsumerNext
  <2>0. log' = log
    BY <1>2, ConsumerFrame
  <2> USE <1>0, <2>0 DEF ConcludedBeforeCommit, Busy, TypeOK
  <2>1. CASE Assign(c)
    BY <2>1 DEF Assign
  <2>2. CASE Fetch(c)
    BY <2>2 DEF Fetch
  <2>3. CASE Probe(c)
    BY <2>3 DEF Probe, Settled, Event
  <2>4. CASE Handle(c)
    <3>1. Event(c) \in claimed'
      BY <2>4, ClaimGrows DEF Handle
    <3> QED
      BY <2>4, <3>1 DEF Handle, Settled, Event
  <2>5. CASE Skip(c)
    BY <2>5 DEF Skip, Settled, Event
  <2>6. CASE HandleFails(c) \/ CommitAnswerLost(c)
    BY <2>6 DEF HandleFails, CommitAnswerLost, Retry
  <2>7. CASE Park(c)
    BY <2>7 DEF Park, Settled, Event
  <2>8. CASE CommitOffset(c) \/ CommitFails(c) \/ ConsumerCrash(c) \/ ProbeFails(c) \/ ParkFails(c)
    BY <2>8 DEF CommitOffset, CommitFails, ConsumerCrash, ProbeFails, ParkFails, GiveBack
  <2> QED
    BY <2>1, <2>2, <2>3, <2>4, <2>5, <2>6, <2>7, <2>8 DEF ConsumerWorks
<1> QED
  BY <1>1, <1>2 DEF Next

LEMMA KeepsBehindAccounted ==
  ASSUME TypeOK, InRange, ConcludedBeforeCommit, BehindAccounted, ReplayedBeforeCleared, Next
  PROVE  BehindAccounted'
<1>0. /\ Len(log) \in Nat /\ Len(log') \in Nat
      /\ \A i \in Offsets : i \in Offsets' /\ (Accounted(i) => Accounted(i)')
  BY LogGrows, SettledForever
<1>1. CASE ProducerNext \/ ConsoleNext
  (* Nothing of the group moves, and new offsets lie ahead of it.          *)
  <2>1. UNCHANGED <<committed, owner, consumerVars>>
    BY <1>1, ProducerFrame, ConsoleFrame DEF brokerVars
  <2>2. \A i \in Offsets' : i \in Nat /\ (i <= Len(log) => i \in Offsets)
    BY <1>0 DEF Offsets
  <2>3. \A i \in Offsets' : i <= committed => Accounted(i)'
    <3>1. committed \in Nat /\ committed <= Len(log)
      BY DEF TypeOK, InRange
    <3> QED
      BY <1>0, <2>2, <3>1 DEF BehindAccounted
  <2>4. \A c \in Consumers : Busy(c) => \A i \in Offsets' : i < cur[c] => Accounted(i)'
    <3>1. \A c \in Consumers : Busy(c) => cur[c] \in Nat /\ cur[c] <= Len(log)
      BY DEF TypeOK, InRange, Offsets
    <3> QED
      BY <1>0, <2>2, <3>1 DEF BehindAccounted
  <2>5. \A c \in Consumers : owner = c =>
          \A i \in Offsets' : i < pos[c] => Accounted(i)' \/ (Busy(c) /\ i = cur[c])
    <3>1. \A c \in Consumers : owner = c => pos[c] \in Nat /\ pos[c] <= Len(log) + 1
      BY DEF TypeOK, InRange
    <3> QED
      BY <1>0, <2>2, <3>1 DEF BehindAccounted
  <2> QED
    BY <2>1, <2>3, <2>4, <2>5 DEF BehindAccounted, Busy, consumerVars
<1>2. CASE ConsumerNext
  <2> PICK c \in Consumers :
        \/ Assign(c) \/ ConsumerWorks(c) \/ ConsumerCrash(c)
        \/ ProbeFails(c) \/ CommitAnswerLost(c) \/ ParkFails(c) \/ CommitFails(c)
    BY <1>2 DEF ConsumerNext
  <2>0. log' = log
    BY <1>2, ConsumerFrame
  <2>9. Offsets' = Offsets /\ \A i \in Offsets : Accounted(i) => Accounted(i)'
    BY <1>0, <2>0 DEF Offsets
  <2> USE <2>9 DEF BehindAccounted, Busy, TypeOK, brokerVars
  <2>1. CASE Assign(c)
    BY <2>1 DEF Assign, Offsets
  <2>2. CASE Fetch(c)
    BY <2>2 DEF Fetch, Offsets
  <2>3. CASE Probe(c) \/ Handle(c) \/ Skip(c) \/ Park(c)
    BY <2>3 DEF Probe, Handle, Skip, Park
  <2>4. CASE HandleFails(c) \/ CommitAnswerLost(c)
    BY <2>4 DEF HandleFails, CommitAnswerLost, Retry
  <2>5. CASE CommitOffset(c) \/ CommitFails(c)
    (* The message in hand is settled, so the member may forget it.        *)
    <3>1. cur[c] \in Offsets => Accounted(cur[c])
      BY <2>5 DEF CommitOffset, CommitFails, ConcludedBeforeCommit, Accounted
    <3>2. CASE CommitOffset(c)
      <4>1. \A i \in Offsets : i <= cur[c] => i < cur[c] \/ i = cur[c]
        BY DEF Offsets
      <4>2. \A i \in Offsets : i <= cur[c] => Accounted(i)
        BY <3>1, <3>2, <4>1 DEF CommitOffset
      <4>3. \A i \in Offsets : i < pos[c] /\ owner = c => Accounted(i)
        BY <3>1
      <4> QED
        BY <3>2, <4>2, <4>3 DEF CommitOffset
    <3>3. CASE CommitFails(c)
      BY <3>1, <3>3 DEF CommitFails
    <3> QED
      BY <2>5, <3>2, <3>3
  <2>6. CASE ProbeFails(c) \/ ParkFails(c)
    <3>1. cur[c] \in abandoned'
      BY <2>6 DEF ProbeFails, ParkFails, GiveBack
    <3>2. Accounted(cur[c])'
      BY <3>1, <2>6 DEF Accounted, ProbeFails, ParkFails
    <3> QED
      BY <2>6, <3>2 DEF ProbeFails, ParkFails, GiveBack
  <2>7. CASE ConsumerCrash(c)
    BY <2>7, NoOneAssumption DEF ConsumerCrash
  <2> QED
    BY <2>1, <2>2, <2>3, <2>4, <2>5, <2>6, <2>7 DEF ConsumerWorks
<1> QED
  BY <1>1, <1>2 DEF Next

LEMMA KeepsReplayedBeforeCleared ==
  ASSUME TypeOK, OnlyEmitted, ReplayedBeforeCleared, Next
  PROVE  ReplayedBeforeCleared'
<1>0. \A e \in Events : outbox[e] # "absent" => outbox'[e] # "absent"
  BY SettledForever
<1>1. CASE ProducerNext \/ ConsumerNext
  BY <1>1, <1>0, ProducerFrame, ConsumerFrame DEF ReplayedBeforeCleared, storeVars, replayVars
<1>2. CASE ConsoleNext
  <2> PICK o \in Operators :
        \/ \E e \in Events : LoadParked(o, e)
        \/ ReplayHandle(o) \/ ClearParked(o) \/ ReplayFails(o)
    BY <1>2 DEF ConsoleNext
  <2>0. claimed \subseteq claimed' /\ outbox' = outbox
    BY <1>2, ConsoleFrame DEF relayVars
  <2> USE <2>0 DEF ReplayedBeforeCleared, TypeOK
  <2>1. CASE \E e \in Events : LoadParked(o, e)
    BY <2>1 DEF LoadParked, OnlyEmitted
  <2>2. CASE ReplayHandle(o)
    BY <2>2, ClaimGrows DEF ReplayHandle
  <2>3. CASE ClearParked(o)
    BY <2>3 DEF ClearParked
  <2>4. CASE ReplayFails(o)
    BY <2>4 DEF ReplayFails
  <2> QED
    BY <2>1, <2>2, <2>3, <2>4
<1> QED
  BY <1>1, <1>2 DEF Next

LEMMA ClaimAppliesOnce ==
  ASSUME TypeOK, AppliedOnce, NEW e \in Events, ClaimAndApply(e)
  PROVE  AppliedOnce'
<1>1. CASE e \in claimed
  BY <1>1 DEF ClaimAndApply, AppliedOnce, storeVars
<1>2. CASE e \notin claimed
  BY <1>2 DEF ClaimAndApply, AppliedOnce, TypeOK
<1> QED
  BY <1>1, <1>2

LEMMA KeepsAppliedOnce ==
  ASSUME TypeOK, InRange, ReplayedBeforeCleared, AppliedOnce, Next
  PROVE  AppliedOnce'
<1>1. CASE ProducerNext
  BY <1>1, ProducerFrame DEF AppliedOnce, storeVars
<1>2. CASE ConsumerNext
  <2> PICK c \in Consumers :
        \/ Assign(c) \/ ConsumerWorks(c) \/ ConsumerCrash(c)
        \/ ProbeFails(c) \/ CommitAnswerLost(c) \/ ParkFails(c) \/ CommitFails(c)
    BY <1>2 DEF ConsumerNext
  <2>1. CASE Handle(c) \/ CommitAnswerLost(c)
    <3>0. Busy(c) => Event(c) \in Events
      BY DEF InRange, Offsets, Event, TypeOK
    <3>1. Event(c) \in Events
      BY <2>1, <3>0 DEF Handle, CommitAnswerLost, Busy
    <3> QED
      BY <2>1, <3>1, ClaimAppliesOnce DEF Handle, CommitAnswerLost
  <2>2. CASE ~(Handle(c) \/ CommitAnswerLost(c))
    <3>1. claimed' = claimed /\ applied' = applied
      BY <2>2 DEF ConsumerWorks, Assign, Fetch, Probe, Skip, HandleFails, Park, CommitOffset,
                  CommitFails, ConsumerCrash, ProbeFails, ParkFails, storeVars
    <3> QED
      BY <3>1 DEF AppliedOnce
  <2> QED
    BY <2>1, <2>2
<1>3. CASE ConsoleNext
  <2> PICK o \in Operators :
        \/ \E e \in Events : LoadParked(o, e)
        \/ ReplayHandle(o) \/ ClearParked(o) \/ ReplayFails(o)
    BY <1>3 DEF ConsoleNext
  <2>1. CASE ReplayHandle(o)
    BY <2>1, ClaimAppliesOnce DEF ReplayHandle, ReplayedBeforeCleared
  <2>2. CASE ~ReplayHandle(o)
    BY <2>2 DEF LoadParked, ClearParked, ReplayFails, AppliedOnce, storeVars
  <2> QED
    BY <2>1, <2>2
<1> QED
  BY <1>1, <1>2, <1>3 DEF Next

-----------------------------------------------------------------------------
(* The invariants.                                                         *)

LEMMA InitIInv == Init => IInv
<1> SUFFICES ASSUME Init PROVE IInv
  OBVIOUS
<1>1. TypeOK
  BY InitType
<1>2. Len(log) = 0 /\ Offsets = {}
  BY DEF Init, Offsets
<1>3. InRange /\ ConcludedBeforeCommit /\ BehindAccounted
  BY <1>2, NoOneAssumption DEF Init, InRange, Busy, ConcludedBeforeCommit, BehindAccounted
<1>4. OnlyEmitted /\ SentBeforeMarked /\ ReplayedBeforeCleared /\ AppliedOnce
  BY <1>2 DEF Init, OnlyEmitted, SentBeforeMarked, ReplayedBeforeCleared, AppliedOnce
<1> QED
  BY <1>1, <1>3, <1>4 DEF IInv

LEMMA NextIInv == IInv /\ [Next]_vars => IInv'
<1> SUFFICES ASSUME IInv, [Next]_vars PROVE IInv'
  OBVIOUS
<1>1. CASE Next
  <2> USE DEF IInv
  <2>1. TypeOK'
    BY <1>1, ProducerType, ConsumerType, ConsoleType DEF Next
  <2>2. InRange' /\ OnlyEmitted' /\ SentBeforeMarked'
    BY <1>1, KeepsInRange, KeepsOnlyEmitted, KeepsSentBeforeMarked
  <2>3. ConcludedBeforeCommit' /\ BehindAccounted' /\ ReplayedBeforeCleared'
    BY <1>1, KeepsConcludedBeforeCommit, KeepsBehindAccounted, KeepsReplayedBeforeCleared
  <2>4. AppliedOnce'
    BY <1>1, KeepsAppliedOnce
  <2> QED
    BY <2>1, <2>2, <2>3, <2>4
<1>2. CASE UNCHANGED vars
  BY <1>2 DEF IInv, vars, relayVars, brokerVars, consumerVars, storeVars, replayVars,
              TypeOK, InRange, OnlyEmitted, SentBeforeMarked, ConcludedBeforeCommit,
              BehindAccounted, ReplayedBeforeCleared, AppliedOnce, Busy, Offsets,
              Accounted, Settled, InLog, UpNext
<1> QED
  BY <1>1, <1>2

THEOREM Invariance == Spec => []IInv
<1> QED
  BY InitIInv, NextIInv, PTL DEF Spec

(* Every variable keeps its type, for any number of processes and events.  *)
THEOREM TypeCorrect == Spec => []TypeOK
<1>1. IInv => TypeOK
  BY DEF IInv
<1> QED
  BY <1>1, Invariance, PTL

(* No event's handler takes effect twice: redelivery, overlapping members, *)
(* lost commit answers and replays included (pkg/idempotency, handleOne).  *)
THEOREM AppliedAtMostOnce == Spec => []AppliedOnce
<1>1. IInv => AppliedOnce
  BY DEF IInv
<1> QED
  BY <1>1, Invariance, PTL

(* A published event is settled, or still ahead of the group, or its       *)
(* handling was once given back (Relay.publishBatch, Consumer.Run).        *)
THEOREM NothingVanishes == Spec => []NoEventVanishes
<1>1. IInv => NoEventVanishes
  <2> SUFFICES ASSUME IInv, NEW e \in Events, outbox[e] = "published"
               PROVE  \/ Settled(e)
                      \/ \E i \in 1..Len(log) : log[i] = e /\ (i > committed \/ i \in abandoned)
    BY DEF NoEventVanishes
  <2>1. PICK i \in 1..Len(log) : log[i] = e
    BY DEF IInv, SentBeforeMarked, InLog
  <2>2. i <= committed => Settled(e) \/ i \in abandoned
    BY <2>1 DEF IInv, BehindAccounted, Accounted, Offsets
  <2> QED
    BY <2>1, <2>2 DEF IInv, TypeOK
<1> QED
  BY <1>1, Invariance, PTL

(* While the database answers the probe and takes the parked row, nothing  *)
(* is given back ...                                                       *)
LEMMA NothingGivenBack ==
  ASSUME Unreliable = {}
  PROVE  Spec => [](abandoned = {})
<1>1. Init => abandoned = {}
  BY DEF Init
<1>2. IInv /\ abandoned = {} /\ [Next]_vars => (abandoned = {})'
  <2> SUFFICES ASSUME IInv, abandoned = {}, [Next]_vars
               PROVE  (abandoned = {})'
    OBVIOUS
  <2>1. CASE UNCHANGED vars
    BY <2>1 DEF vars
  <2>2. CASE ProducerNext
    BY <2>2, ProducerFrame DEF IInv
  <2>3. CASE ConsumerNext
    <3> PICK c \in Consumers :
          \/ Assign(c) \/ ConsumerWorks(c) \/ ConsumerCrash(c)
          \/ ProbeFails(c) \/ CommitAnswerLost(c) \/ ParkFails(c) \/ CommitFails(c)
      BY <2>3 DEF ConsumerNext
    <3>1. ~ProbeFails(c) /\ ~ParkFails(c)
      BY DEF ProbeFails, ParkFails
    <3> QED
      BY <3>1 DEF Assign, ConsumerWorks, Fetch, Probe, Skip, Handle, HandleFails, Park,
                  CommitOffset, ConsumerCrash, CommitAnswerLost, CommitFails
  <2>4. CASE ConsoleNext
    BY <2>4, ConsoleFrame DEF IInv
  <2> QED
    BY <2>1, <2>2, <2>3, <2>4 DEF Next
<1> QED
  BY <1>1, <1>2, Invariance, PTL DEF Spec

(* ... and what was not committed does come back (Consumer.Run): the two   *)
(* statements handleOne gives a message back for are the only way round    *)
(* that promise, however relays, members and operators fail otherwise.     *)
THEOREM ReliableStoreLosesNothing ==
  ASSUME Unreliable = {}
  PROVE  Spec => []UncommittedComesBack
<1>1. IInv /\ abandoned = {} => UncommittedComesBack
  BY DEF IInv, BehindAccounted, Accounted, Offsets, UncommittedComesBack
<1> QED
  BY <1>1, NothingGivenBack, Invariance, PTL

(* A row leaves failed_events only after its event was applied             *)
(* (deadletter.Store.Replay).                                              *)
THEOREM EvidenceIsKept == Spec => RowsLeaveWhenApplied
<1>1. IInv /\ [Next]_vars => [\A e \in parked : e \notin parked' => e \in claimed]_vars
  BY ProducerFrame, ConsumerFrame, ConsoleFrame DEF IInv, Next, storeVars
<1> QED
  BY <1>1, Invariance, PTL DEF Spec, RowsLeaveWhenApplied

-----------------------------------------------------------------------------
(* The pipeline implements ExactlyOnce.                                    *)

LEMMA SameOutcome ==
  ASSUME NEW e, claimed' = claimed, parked' = parked,
         outbox'[e] = "absent" <=> outbox[e] = "absent"
  PROVE  Outcome(e)' = Outcome(e)
  BY DEF Outcome

(* Committing the handler's transaction moves one event to "applied".      *)
LEMMA ClaimOutcome ==
  ASSUME NEW e \in Events, outbox[e] # "absent", outbox' = outbox, ClaimAndApply(e)
  PROVE  /\ \A f \in Events : f # e => Outcome(f)' = Outcome(f)
         /\ Outcome(e)' = Outcome(e) \/ (Outcome(e) \in {"due", "aside"} /\ Outcome(e)' = "applied")
<1>1. claimed' = claimed \union {e} /\ parked' = parked
  BY ClaimGrows
<1> QED
  BY <1>1 DEF Outcome

(* Every step is a step of the abstract machine on at most one event.      *)
OneEventMoves ==
  \E e \in Events :
    /\ \A f \in Events : f # e => Outcome(f)' = Outcome(f)
    /\ \/ Outcome(e)' = Outcome(e)
       \/ Outcome(e) = "none" /\ Outcome(e)' = "due"
       \/ Outcome(e) \in {"due", "aside"} /\ Outcome(e)' = "applied"
       \/ Outcome(e) = "due" /\ Outcome(e)' = "aside"

LEMMA StepMovesOneEvent ==
  ASSUME IInv, Next, Events # {}
  PROVE  OneEventMoves
<1> USE DEF IInv
<1>1. ASSUME storeVars' = storeVars,
             \A e \in Events : outbox'[e] = "absent" <=> outbox[e] = "absent"
      PROVE  OneEventMoves
  <2>1. \A e \in Events : Outcome(e)' = Outcome(e)
    BY <1>1, SameOutcome DEF storeVars
  <2> QED
    BY <2>1 DEF OneEventMoves
<1>2. CASE \E e \in Events : Emit(e)
  <2> PICK e \in Events : Emit(e)
    BY <1>2
  <2>1. Outcome(e) = "none" /\ Outcome(e)' = "due"
    BY DEF Emit, Outcome, OnlyEmitted, TypeOK, storeVars
  <2>2. \A f \in Events : f # e => Outcome(f)' = Outcome(f)
    BY DEF Emit, Outcome, TypeOK, storeVars
  <2> QED
    BY <2>1, <2>2 DEF OneEventMoves
<1>3. CASE ProducerNext /\ ~\E e \in Events : Emit(e)
  <2>1. storeVars' = storeVars
    BY <1>3, ProducerFrame
  <2>2. \A e \in Events : outbox'[e] = "absent" <=> outbox[e] = "absent"
    <3>1. ASSUME NEW r \in Relays, NEW e \in Events, MarkPublished(r, e)
          PROVE  \A f \in Events : outbox'[f] = "absent" <=> outbox[f] = "absent"
      BY <3>1 DEF MarkPublished, UpNext, OnlyEmitted, TypeOK
    <3>2. CASE ~\E r \in Relays : \E e \in Events : MarkPublished(r, e)
      BY <1>3, <3>2 DEF ProducerNext, RelayWorks, Select, CloseRows, Publish, PublishFails,
                        MarkFails, RelayCrash
    <3> QED
      BY <3>1, <3>2
  <2> QED
    BY <2>1, <2>2, <1>1
<1>4. CASE ConsumerNext
  <2>0. outbox' = outbox
    BY <1>4, ConsumerFrame DEF relayVars
  <2> PICK c \in Consumers :
        \/ Assign(c) \/ ConsumerWorks(c) \/ ConsumerCrash(c)
        \/ ProbeFails(c) \/ CommitAnswerLost(c) \/ ParkFails(c) \/ CommitFails(c)
    BY <1>4 DEF ConsumerNext
  <2>1. Busy(c) => Event(c) \in Events /\ outbox[Event(c)] # "absent"
    BY DEF InRange, OnlyEmitted, Offsets, Event, TypeOK
  <2>2. CASE Handle(c) \/ CommitAnswerLost(c)
    <3> PICK e \in Events : e = Event(c) /\ outbox[e] # "absent"
      BY <2>1, <2>2 DEF Handle, CommitAnswerLost, Busy
    <3>1. ClaimAndApply(e)
      BY <2>2 DEF Handle, CommitAnswerLost
    <3> QED
      BY <2>0, <3>1, ClaimOutcome DEF OneEventMoves
  <2>3. CASE Park(c)
    <3> PICK e \in Events : e = Event(c) /\ outbox[e] # "absent"
      BY <2>1, <2>3 DEF Park, Busy
    <3>1. claimed' = claimed /\ parked' = parked \union {e}
      BY <2>3 DEF Park
    <3>2. \A f \in Events : f # e => Outcome(f)' = Outcome(f)
      BY <2>0, <3>1 DEF Outcome
    <3>3. Outcome(e)' = Outcome(e) \/ (Outcome(e) = "due" /\ Outcome(e)' = "aside")
      BY <2>0, <3>1 DEF Outcome
    <3> QED
      BY <3>2, <3>3 DEF OneEventMoves
  <2>4. CASE ~(Handle(c) \/ CommitAnswerLost(c) \/ Park(c))
    <3>1. storeVars' = storeVars
      BY <2>4 DEF ConsumerWorks, Assign, Fetch, Probe, Skip, HandleFails, CommitOffset,
                  CommitFails, ConsumerCrash, ProbeFails, ParkFails
    <3> QED
      BY <2>0, <3>1, <1>1
  <2> QED
    BY <2>2, <2>3, <2>4
<1>5. CASE ConsoleNext
  <2>0. outbox' = outbox
    BY <1>5, ConsoleFrame DEF relayVars
  <2> PICK o \in Operators :
        \/ \E e \in Events : LoadParked(o, e)
        \/ ReplayHandle(o) \/ ClearParked(o) \/ ReplayFails(o)
    BY <1>5 DEF ConsoleNext
  <2>1. CASE ReplayHandle(o)
    <3> PICK e \in Events : e = replaying[o] /\ outbox[e] # "absent"
      BY <2>1 DEF ReplayHandle, ReplayedBeforeCleared
    <3>1. ClaimAndApply(e)
      BY <2>1 DEF ReplayHandle
    <3> QED
      BY <2>0, <3>1, ClaimOutcome DEF OneEventMoves
  <2>2. CASE ClearParked(o)
    (* The row that goes is one of an applied event: its outcome stays.    *)
    <3>1. claimed' = claimed /\ parked' = parked \ {replaying[o]} /\ replaying[o] \in claimed
      BY <2>2 DEF ClearParked, ReplayedBeforeCleared
    <3>2. \A f \in Events : Outcome(f)' = Outcome(f)
      BY <2>0, <3>1 DEF Outcome
    <3> QED
      BY <3>2 DEF OneEventMoves
  <2>3. CASE ReplayFails(o) \/ \E e \in Events : LoadParked(o, e)
    BY <2>0, <2>3, <1>1 DEF ReplayFails, LoadParked
  <2> QED
    BY <2>1, <2>2, <2>3
<1> QED
  BY <1>2, <1>3, <1>4, <1>5 DEF Next

LEMMA InitPromise == Init => Promise!Init
  BY DEF Init, Promise!Init, Outcome

LEMMA NextPromise ==
  IInv /\ [Next]_vars => [Promise!Next]_[e \in Events \ Foreign |-> Outcome(e)]
<1> DEFINE outcome == [e \in Events \ Foreign |-> Outcome(e)]
<1> SUFFICES ASSUME IInv, [Next]_vars
             PROVE  Promise!Next \/ outcome' = outcome
  OBVIOUS
<1>1. CASE UNCHANGED vars
  BY <1>1 DEF vars, relayVars, storeVars, Outcome
<1>2. CASE Next /\ Events # {}
  <2> PICK e \in Events :
        /\ \A f \in Events : f # e => Outcome(f)' = Outcome(f)
        /\ \/ Outcome(e)' = Outcome(e)
           \/ Outcome(e) = "none" /\ Outcome(e)' = "due"
           \/ Outcome(e) \in {"due", "aside"} /\ Outcome(e)' = "applied"
           \/ Outcome(e) = "due" /\ Outcome(e)' = "aside"
    BY <1>2, StepMovesOneEvent DEF OneEventMoves
  <2>1. CASE e \in Foreign \/ Outcome(e)' = Outcome(e)
    BY <2>1
  <2>2. CASE e \notin Foreign /\ Outcome(e)' # Outcome(e)
    <3>1. outcome' = [outcome EXCEPT ![e] = Outcome(e)']
      OBVIOUS
    <3>2. outcome[e] = Outcome(e)
      BY <2>2
    <3> QED
      BY <2>2, <3>1, <3>2
      DEF Promise!Next, Promise!Emit, Promise!Apply, Promise!SetAside, Promise!Become
  <2> QED
    BY <2>1, <2>2
<1>3. CASE Events = {}
  BY <1>3
<1> QED
  BY <1>1, <1>2, <1>3

(* The relay, Kafka, inbox and dead letter together keep the promise of    *)
(* ExactlyOnce, whatever is lost, repeated, crashed or replayed.           *)
THEOREM Refinement == Spec => ImplementsPromise
<1> QED
  BY InitPromise, NextPromise, Invariance, PTL DEF Spec, ImplementsPromise, Promise!Spec

=============================================================================
