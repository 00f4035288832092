--------------------- MODULE ReceivableReminders_proofs ---------------------
(***************************************************************************)
(* That no round of reminders is missed, however many days the worker was  *)
(* stopped, within the bound the rounds allow; and that the money on the   *)
(* contract's ledger adds up, for any entries, requests and amounts.       *)
(***************************************************************************)
EXTENDS ReceivableReminders, Sums_proofs

(* Division rounds up: day x after the due date belongs to round k.        *)
LEMMA RoundUp ==
  ASSUME NEW x \in Nat \ {0}, NEW k \in Int, NEW e \in Nat \ {0}
  PROVE  (x + e - 1) \div e = k <=> (k - 1) * e < x /\ x <= k * e
<1> DEFINE q == (x + e - 1) \div e
<1>1. q \in Int /\ q * e <= x + e - 1 /\ x + e - 1 < (q + 1) * e
  OBVIOUS
<1>2. (q - 1) * e < x /\ x <= q * e
  BY <1>1
<1>3. ASSUME (k - 1) * e < x, x <= k * e
      PROVE  q = k
  <2>1. (k - 1) * e < q * e /\ (q - 1) * e < k * e
    BY <1>1, <1>2, <1>3
  <2>2. k - 1 < q /\ q - 1 < k
    BY <1>1, <2>1
  <2> QED  BY <1>1, <2>2
<1> QED  BY <1>2, <1>3

(* The number of a round overdue begins at one, whatever the day.          *)
LEMMA RoundsOverdue ==
  ASSUME NEW d \in Int, NEW u \in Int, d > u
  PROVE  Round(d, u) \in Nat \ {0}
<1> DEFINE x == d - u
<1>1. x \in Nat \ {0} /\ Every \in Nat \ {0}
  BY DayAssumption, OutageAssumption
<1>2. (x + Every - 1) \div Every \in Int
  BY <1>1
<1>3. (x + Every - 1) \div Every >= 1
  BY <1>1, <1>2
<1>4. Round(d, u) = (x + Every - 1) \div Every
  BY DEF Round
<1> QED  BY <1>2, <1>3, <1>4

LEMMA RoundType ==
  ASSUME NEW d \in Int, NEW u \in Int
  PROVE  Round(d, u) \in Int
<1>1. CASE d > u  BY <1>1, RoundsOverdue
<1>2. CASE ~(d > u)  BY <1>2 DEF Round
<1> QED  BY <1>1, <1>2

(* A round is the days from its first to its last, of the days in view.    *)
LEMMA RoundIsSpan ==
  ASSUME NEW u \in Int, NEW s \in Spans(u), NEW d \in Int, u - d <= View
  PROVE  Round(d, u) = s.round <=> s.first <= d /\ d <= s.last
<1> USE DayAssumption, OutageAssumption
<1>1. CASE s = [round |-> 0, first |-> u - View, last |-> u - Near - 1]
  <2>1. CASE d > u
    BY <1>1, <2>1, RoundsOverdue
  <2>2. CASE ~(d > u)
    BY <1>1, <2>2 DEF Round
  <2> QED  BY <2>1, <2>2
<1>2. CASE s = [round |-> -1, first |-> u - Near, last |-> u]
  <2>1. CASE d > u
    BY <1>2, <2>1, RoundsOverdue
  <2>2. CASE ~(d > u)
    BY <1>2, <2>2 DEF Round
  <2> QED  BY <2>1, <2>2
<1>3. CASE \E k \in 1..LastDay :
             s = [round |-> k, first |-> u + (k - 1) * Every + 1, last |-> u + k * Every]
  <2> PICK k \in 1..LastDay :
        s = [round |-> k, first |-> u + (k - 1) * Every + 1, last |-> u + k * Every]
    BY <1>3
  <2> DEFINE before == (k - 1) * Every
             upto == k * Every
  <2>1. k \in Int /\ Every \in Nat \ {0} /\ before \in Nat /\ upto \in Nat
    OBVIOUS
  <2>2. s.round = k /\ s.first = u + before + 1 /\ s.last = u + upto
    OBVIOUS
  <2>3. CASE d > u
    <3> DEFINE x == d - u
    <3>1. x \in Nat \ {0}
      BY <2>3
    <3>2. Round(d, u) = (x + Every - 1) \div Every
      BY <2>3 DEF Round
    <3>3. Round(d, u) = k <=> before < x /\ x <= upto
      BY <2>1, <3>1, <3>2, RoundUp
    <3> HIDE DEF before, upto
    <3> QED  BY <2>1, <2>2, <3>3
  <2>4. CASE ~(d > u)
    <3>1. Round(d, u) # k
      BY <2>1, <2>4 DEF Round
    <3>2. ~(s.first <= d)
      <4> HIDE DEF before, upto
      <4> QED  BY <2>1, <2>2, <2>4
    <3> QED  BY <2>2, <3>1, <3>2
  <2> QED  BY <2>3, <2>4
<1> QED  BY <1>1, <1>2, <1>3 DEF Spans

(* A round lies in view and lasts longer than an outage may.               *)
LEMMA SpanIsLong ==
  ASSUME NEW u \in Int, NEW s \in Spans(u)
  PROVE  /\ s.first \in Int /\ s.last \in Int
         /\ u - s.first <= View
         /\ s.first + MaxOutage <= s.last
<1> USE DayAssumption, OutageAssumption
<1>1. CASE s = [round |-> 0, first |-> u - View, last |-> u - Near - 1]
  BY <1>1
<1>2. CASE s = [round |-> -1, first |-> u - Near, last |-> u]
  BY <1>2
<1>3. CASE \E k \in 1..LastDay :
             s = [round |-> k, first |-> u + (k - 1) * Every + 1, last |-> u + k * Every]
  <2> PICK k \in 1..LastDay :
        s = [round |-> k, first |-> u + (k - 1) * Every + 1, last |-> u + k * Every]
    BY <1>3
  <2> DEFINE before == (k - 1) * Every
  <2>1. before \in Nat /\ k * Every = before + Every
    OBVIOUS
  <2>2. s.first = u + before + 1 /\ s.last = u + k * Every
    OBVIOUS
  <2> HIDE DEF before
  <2> QED  BY <2>1, <2>2
<1> QED  BY <1>1, <1>2, <1>3 DEF Spans

-----------------------------------------------------------------------------
(* What a step can do, action by action.                                   *)

(* The steps that change neither the calendar nor the inbox.               *)
Quiet == UNCHANGED <<day, due, edit, inbox, sweep, lastSweep, wiped>>

(* A call that may rewrite the due date goes on.                           *)
Edit ==
  \E x \in Editors :
    \/ WriteDue(x)
    \/ \E u \in Dues \union {NoDue} :
         ReadDue(x, u) \/ CorrectReceivable(x, u) \/ UpdateContract(x, u)

(* What an edit does, whichever: the reminders stay, or the unread go.     *)
Edited ==
  /\ UNCHANGED <<day, sweep, lastSweep>>
  /\ Wipe \/ UNCHANGED <<inbox, wiped>>

LEMMA StepCases ==
  ASSUME [Next]_vars
  PROVE  \/ Quiet
         \/ \E w \in Workers : SweepRead(w) \/ SweepWrite(w) \/ SweepFails(w)
         \/ NextDay
         \/ Edit
         \/ MarkRead
  BY DEF Next, TimeNext, vars, timeVars, Quiet, Edit

LEMMA EditCases ==
  ASSUME Edit
  PROVE  Edited
  BY DEF Edit, Edited, ReadDue, WriteDue, CorrectReceivable, UpdateContract

LEMMA EditType ==
  ASSUME TypeOK, Edit
  PROVE  /\ due' \in Dues \union {NoDue}
         /\ edit' \in [Editors -> [at : {"new", "read", "done"}, due : Dues \union {NoDue}]]
<1> USE DEF TypeOK, Advance, Over
<1>1. ASSUME NEW x \in Editors, WriteDue(x)
      PROVE  /\ due' \in Dues \union {NoDue}
             /\ edit' \in [Editors -> [at : {"new", "read", "done"}, due : Dues \union {NoDue}]]
  BY <1>1 DEF WriteDue
<1>2. ASSUME NEW x \in Editors, NEW u \in Dues \union {NoDue},
             ReadDue(x, u) \/ CorrectReceivable(x, u) \/ UpdateContract(x, u)
      PROVE  /\ due' \in Dues \union {NoDue}
             /\ edit' \in [Editors -> [at : {"new", "read", "done"}, due : Dues \union {NoDue}]]
  BY <1>2 DEF ReadDue, CorrectReceivable, UpdateContract
<1> QED  BY <1>1, <1>2 DEF Edit

(* A spell of one due date goes on, or a new one begins today.             *)
LEMMA Spell ==
  ASSUME [Next]_vars
  PROVE  \/ since' = day'
         \/ since' = since /\ due' = due /\ (Remindable' => Remindable)
<1>1. CASE Next
  BY <1>1 DEF Next, KeepSince
<1>2. CASE UNCHANGED vars
  BY <1>2 DEF vars, timeVars, moneyVars, Remindable, Open, Received, Credit
<1> QED  BY <1>1, <1>2

LEMMA CalledForType ==
  ASSUME TypeOK
  PROVE  /\ CalledFor \in SUBSET Keys
         /\ \A k \in CalledFor : OfDay(k, day)
<1>1. CASE Remindable /\ due - day <= View
  <2>1. due \in Dues /\ due \in Int /\ day \in Nat
    BY <1>1, DayAssumption DEF TypeOK, Remindable
  <2>2. Key(due, Round(day, due)) \in Keys
    BY <2>1, RoundType DEF Key, Keys
  <2>3. OfDay(Key(due, Round(day, due)), day)
    BY <1>1, <2>1 DEF OfDay, Key
  <2> QED  BY <1>1, <2>2, <2>3 DEF CalledFor
<1>2. CASE ~(Remindable /\ due - day <= View)
  BY <1>2 DEF CalledFor
<1> QED  BY <1>1, <1>2

LEMMA TypeStep ==
  ASSUME TypeOK, [Next]_vars
  PROVE  TypeOK'
<1> USE DEF TypeOK
<1>0. since' \in Nat \/ since' = day'
  BY Spell
<1>1. CASE Quiet
  BY <1>0, <1>1 DEF Quiet
<1>2. ASSUME NEW w \in Workers, SweepRead(w)
      PROVE  TypeOK'
  BY <1>0, <1>2, CalledForType DEF SweepRead
<1>3. ASSUME NEW w \in Workers, SweepWrite(w)
      PROVE  TypeOK'
  <2>1. sweep[w] \in [day : Nat, keys : SUBSET Keys]
    BY <1>3 DEF SweepWrite
  <2>2. /\ DOMAIN inbox' = DOMAIN inbox \union sweep[w].keys
        /\ \A k \in DOMAIN inbox' : inbox'[k] = IF k \in DOMAIN inbox THEN inbox[k] ELSE "unread"
        /\ inbox' = [k \in DOMAIN inbox' |-> inbox'[k]]
    BY <1>3 DEF SweepWrite
  <2>3. DOMAIN inbox' \subseteq Keys /\ inbox' \in [DOMAIN inbox' -> {"unread", "read", "cleared"}]
    BY <2>1, <2>2
  <2>4. lastSweep' \in Int /\ sweep' \in [Workers -> {NoSweep} \union [day : Nat, keys : SUBSET Keys]]
    BY <1>3, <2>1 DEF SweepWrite
  <2> QED  BY <1>0, <1>3, <2>3, <2>4 DEF SweepWrite
<1>4. ASSUME NEW w \in Workers, SweepFails(w)
      PROVE  TypeOK'
  BY <1>0, <1>4 DEF SweepFails
<1>5. CASE NextDay
  BY <1>0, <1>5 DEF NextDay
<1>6. CASE Edit
  <2>1. CASE Wipe
    <3>1. DOMAIN inbox' = DOMAIN inbox
      BY <2>1 DEF Wipe
    <3>2. inbox' \in [DOMAIN inbox' -> {"unread", "read", "cleared"}] /\ wiped' \in Int
      BY <2>1 DEF Wipe
    <3> QED  BY <1>0, <1>6, <3>1, <3>2, EditCases, EditType DEF Edited
  <2>2. CASE UNCHANGED <<inbox, wiped>>
    BY <1>0, <1>6, <2>2, EditCases, EditType DEF Edited
  <2> QED  BY <1>6, <2>1, <2>2, EditCases DEF Edited
<1>7. CASE MarkRead
  BY <1>0, <1>7 DEF MarkRead
<1> QED  BY <1>1, <1>2, <1>3, <1>4, <1>5, <1>6, <1>7, StepCases

LEMMA DaysGoBy ==
  ASSUME TypeOK, [Next]_vars
  PROVE  day \in Nat /\ day' \in Nat /\ day <= day'
<1>1. day' = day \/ NextDay
  BY StepCases, EditCases DEF Quiet, SweepRead, SweepWrite, SweepFails, Edited, MarkRead
<1>2. day \in Nat
  BY DEF TypeOK
<1> QED  BY <1>1, <1>2 DEF NextDay

LEMMA PastStep ==
  ASSUME TypeOK, SweepsArePast, [Next]_vars
  PROVE  SweepsArePast'
<1> USE DEF TypeOK, SweepsArePast
<1>0. day' >= day /\ since' <= day'
  <2>1. day \in Nat /\ day' \in Nat /\ day <= day'
    BY DaysGoBy
  <2>2. since' \in Nat
    BY TypeStep
  <2> QED  BY <2>1, <2>2, Spell
<1>1. CASE Quiet
  BY <1>0, <1>1 DEF Quiet
<1>2. ASSUME NEW w \in Workers, SweepRead(w)
      PROVE  SweepsArePast'
  BY <1>0, <1>2 DEF SweepRead
<1>3. ASSUME NEW w \in Workers, SweepWrite(w)
      PROVE  SweepsArePast'
  BY <1>0, <1>3 DEF SweepWrite
<1>4. ASSUME NEW w \in Workers, SweepFails(w)
      PROVE  SweepsArePast'
  BY <1>0, <1>4 DEF SweepFails
<1>5. CASE NextDay
  <2>1. \A w \in Workers : sweep[w] # NoSweep => sweep[w].day \in Nat
    OBVIOUS
  <2> QED  BY <1>0, <1>5, <2>1 DEF NextDay
<1>6. CASE Edit
  BY <1>0, <1>6, EditCases DEF Edited
<1>7. CASE MarkRead
  BY <1>0, <1>7 DEF MarkRead
<1> QED  BY <1>1, <1>2, <1>3, <1>4, <1>5, <1>6, <1>7, StepCases

LEMMA SweepsStep ==
  ASSUME TypeOK, SweepsArePast, SweepsOfSpell, [Next]_vars
  PROVE  SweepsOfSpell'
<1> USE DEF SweepsOfSpell
<1>0. TypeOK' /\ SweepsArePast'
  BY TypeStep, PastStep
<1>1. CASE since' = day'
  <2>1. \A w \in Workers : sweep'[w] # NoSweep => ~(sweep'[w].day > since')
    BY <1>0, <1>1 DEF TypeOK, SweepsArePast
  <2> QED  BY <2>1
<1>2. CASE since' = since /\ due' = due /\ (Remindable' => Remindable)
  <2> SUFFICES ASSUME Remindable', NEW v \in Workers, sweep'[v] # NoSweep,
                      sweep'[v].day > since', due' - sweep'[v].day <= View
               PROVE  Key(due', Round(sweep'[v].day, due')) \in sweep'[v].keys
    OBVIOUS
  <2>1. CASE sweep'[v] = sweep[v]
    BY <1>2, <2>1
  <2>2. CASE SweepRead(v)
    BY <1>2, <2>2 DEF SweepRead, CalledFor, TypeOK
  <2>3. sweep'[v] = sweep[v] \/ sweep'[v] = NoSweep \/ SweepRead(v)
    BY StepCases, EditCases DEF Quiet, SweepRead, SweepWrite, SweepFails, NextDay, Edited, Wipe, MarkRead, TypeOK
  <2> QED  BY <2>1, <2>2, <2>3
<1> QED  BY <1>1, <1>2, Spell

LEMMA LaterDay ==
  ASSUME NEW k \in Keys, NEW e \in Nat, NEW f \in Nat, e <= f, OfDay(k, e)
  PROVE  OfDay(k, f)
  BY DEF OfDay

LEMMA DaysStep ==
  ASSUME TypeOK, RemindersHaveDays, [Next]_vars
  PROVE  RemindersHaveDays'
<1> USE DEF RemindersHaveDays
<1>0. TypeOK' /\ day \in Nat /\ day' \in Nat /\ day <= day'
  BY TypeStep, DaysGoBy
<1>1. ASSUME NEW k \in Keys, OfDay(k, day)
      PROVE  OfDay(k, day')
  BY <1>0, <1>1, LaterDay
<1>2. ASSUME NEW k \in DOMAIN inbox'
      PROVE  OfDay(k, day')
  <2>1. k \in DOMAIN inbox \/ \E w \in Workers : sweep[w] # NoSweep /\ k \in sweep[w].keys
    BY StepCases, EditCases DEF Quiet, SweepRead, SweepWrite, SweepFails, NextDay, Edited, Wipe, MarkRead
  <2>2. k \in Keys
    BY <1>0 DEF TypeOK
  <2> QED  BY <1>1, <2>1, <2>2
<1>3. ASSUME NEW w \in Workers, sweep'[w] # NoSweep, NEW k \in sweep'[w].keys
      PROVE  OfDay(k, day')
  <2>1. k \in Keys
    BY <1>0, <1>3 DEF TypeOK
  <2>2. CASE sweep'[w] = sweep[w]
    BY <1>1, <1>3, <2>1, <2>2
  <2>3. CASE SweepRead(w)
    <3>1. k \in CalledFor
      BY <2>3 DEF SweepRead, TypeOK
    <3> QED  BY <1>1, <2>1, <3>1, CalledForType
  <2>4. sweep'[w] = sweep[w] \/ SweepRead(w)
    BY <1>3, StepCases, EditCases DEF Quiet, SweepRead, SweepWrite, SweepFails, NextDay, Edited, Wipe, MarkRead, TypeOK
  <2> QED  BY <2>2, <2>3, <2>4
<1> QED  BY <1>2, <1>3

(* Reminders stay, and one that is cleared is cleared today.               *)
LEMMA InboxStep ==
  ASSUME [Next]_vars
  PROVE  /\ DOMAIN inbox \subseteq DOMAIN inbox'
         /\ \/ wiped' = wiped /\ \A k \in DOMAIN inbox' :
                 inbox'[k] = "cleared" => k \in DOMAIN inbox /\ inbox[k] = "cleared"
            \/ wiped' = day /\ day' = day
<1>1. CASE Quiet
  BY <1>1 DEF Quiet
<1>2. ASSUME NEW w \in Workers, SweepRead(w) \/ SweepWrite(w) \/ SweepFails(w)
      PROVE  /\ DOMAIN inbox \subseteq DOMAIN inbox' /\ wiped' = wiped
             /\ \A k \in DOMAIN inbox' :
                  inbox'[k] = "cleared" => k \in DOMAIN inbox /\ inbox[k] = "cleared"
  BY <1>2 DEF SweepRead, SweepWrite, SweepFails
<1>3. CASE NextDay
  BY <1>3 DEF NextDay
<1>4. CASE Edit
  BY <1>4, EditCases DEF Edited, Wipe
<1>5. CASE MarkRead
  <2>1. wiped' = wiped /\ DOMAIN inbox' = DOMAIN inbox
    BY <1>5 DEF MarkRead
  <2>2. \A k \in DOMAIN inbox : inbox'[k] = inbox[k] \/ inbox'[k] = "read"
    BY <1>5 DEF MarkRead
  <2> QED  BY <2>1, <2>2
<1> QED  BY <1>1, <1>2, <1>3, <1>4, <1>5, StepCases

LEMMA ClearedStep ==
  ASSUME TypeOK, RemindersHaveDays, ClearedIsOfBefore, [Next]_vars
  PROVE  ClearedIsOfBefore'
<1>0. RemindersHaveDays' /\ day <= day' /\ day \in Nat /\ day' \in Nat
  BY DaysStep, DaysGoBy
<1>1. CASE wiped' = day /\ day' = day
  BY <1>0, <1>1 DEF RemindersHaveDays, ClearedIsOfBefore
<1>2. CASE wiped' = wiped /\ \A k \in DOMAIN inbox' :
             inbox'[k] = "cleared" => k \in DOMAIN inbox /\ inbox[k] = "cleared"
  BY <1>0, <1>2 DEF ClearedIsOfBefore, TypeOK
<1> QED  BY <1>1, <1>2, InboxStep

LEMMA LastSweepStep ==
  ASSUME TypeOK, SweepsArePast, SweepsOfSpell, LastSweepReminded, [Next]_vars
  PROVE  LastSweepReminded'
<1> SUFFICES ASSUME Remindable', lastSweep' > since', due' - lastSweep' <= View
             PROVE  Key(due', Round(lastSweep', due')) \in DOMAIN inbox'
  BY DEF LastSweepReminded, Reminded
<1>1. TypeOK' /\ SweepsArePast'
  BY TypeStep, PastStep
<1>2. since' = since /\ due' = due /\ Remindable
  BY <1>1, Spell DEF TypeOK, SweepsArePast
<1>3. CASE lastSweep' = lastSweep
  BY <1>2, <1>3, InboxStep DEF LastSweepReminded, Reminded
<1>4. ASSUME NEW w \in Workers, SweepWrite(w), lastSweep' = sweep[w].day
      PROVE  Key(due', Round(lastSweep', due')) \in DOMAIN inbox'
  BY <1>2, <1>4 DEF SweepsOfSpell, SweepWrite, Reminded
<1>5. lastSweep' = lastSweep \/ \E w \in Workers : SweepWrite(w) /\ lastSweep' = sweep[w].day
  BY StepCases, EditCases DEF Quiet, SweepRead, SweepWrite, SweepFails, NextDay, Edited, Wipe, MarkRead
<1> QED  BY <1>3, <1>4, <1>5

LEMMA GapStep ==
  ASSUME IInv, [Next]_vars
  PROVE  NoLongGap'
<1> USE OutageAssumption, DayAssumption DEF IInv
<1> SUFFICES ASSUME Remindable', NEW a \in Int,
                    a > since', due' - a <= View, a + MaxOutage < day'
             PROVE  \E d \in a..(a + MaxOutage) : Reminded(d)'
  BY DEF NoLongGap
<1>1. since' = since /\ due' = due /\ Remindable
  BY DaysGoBy, Spell
<1>2. \A d \in Int : Reminded(d) => Reminded(d)'
  BY <1>1, InboxStep DEF Reminded
<1>3. due \in Int /\ since \in Int /\ lastSweep \in Int /\ day \in Int
  BY <1>1 DEF TypeOK, Remindable
<1>4. CASE a + MaxOutage < day
  BY <1>1, <1>2, <1>4 DEF NoLongGap
<1>5. CASE ~(a + MaxOutage < day)
  <2>1. NextDay
    <3>1. day' # day
      BY <1>5
    <3> QED  BY <3>1, StepCases, EditCases DEF Quiet, SweepRead, SweepWrite, SweepFails, Edited, MarkRead
  <2>2. a + MaxOutage = day /\ lastSweep >= a
    BY <1>3, <1>5, <2>1 DEF NextDay
  <2>3. lastSweep \in a..(a + MaxOutage)
    BY <1>3, <2>2 DEF SweepsArePast
  <2>4. Reminded(lastSweep)
    BY <1>1, <1>3, <2>2 DEF LastSweepReminded
  <2> QED  BY <1>2, <1>3, <2>3, <2>4
<1> QED  BY <1>4, <1>5

-----------------------------------------------------------------------------

LEMMA Begins ==
  ASSUME Init
  PROVE  IInv
<1> USE OutageAssumption, DayAssumption DEF Init
<1>1. TypeOK
  BY DEF TypeOK
<1>2. SweepsArePast /\ SweepsOfSpell /\ RemindersHaveDays /\ ClearedIsOfBefore /\ LastSweepReminded
  BY DEF SweepsArePast, SweepsOfSpell, RemindersHaveDays, ClearedIsOfBefore, LastSweepReminded
<1>3. NoLongGap
  BY DEF NoLongGap
<1> QED  BY <1>1, <1>2, <1>3 DEF IInv

LEMMA Goes ==
  ASSUME IInv, [Next]_vars
  PROVE  IInv'
<1>1. TypeOK' /\ SweepsArePast' /\ SweepsOfSpell'
  BY TypeStep, PastStep, SweepsStep DEF IInv
<1>2. RemindersHaveDays' /\ ClearedIsOfBefore'
  BY DaysStep, ClearedStep DEF IInv
<1>3. LastSweepReminded' /\ NoLongGap'
  BY LastSweepStep, GapStep DEF IInv
<1> QED  BY <1>1, <1>2, <1>3 DEF IInv

(* A whole round of the spell has a day that was swept, and what was       *)
(* cleared before the round belongs to other rounds.                       *)
LEMMA Covers ==
  ASSUME IInv
  PROVE  NoRoundMissed
<1> USE OutageAssumption, DayAssumption DEF IInv
<1> SUFFICES ASSUME Remindable, NEW s \in Spans(due), s.first > since, s.last < day
             PROVE  /\ Key(due, s.round) \in DOMAIN inbox
                    /\ s.first > wiped => inbox[Key(due, s.round)] # "cleared"
  BY DEF NoRoundMissed
<1> DEFINE k == Key(due, s.round)
<1>1. due \in Int /\ since \in Nat /\ day \in Nat /\ wiped \in Int
  BY DEF TypeOK, Remindable
<1>2. s.first \in Int /\ s.last \in Int /\ due - s.first <= View /\ s.first + MaxOutage <= s.last
  BY <1>1, SpanIsLong
<1>3. PICK d \in s.first..(s.first + MaxOutage) : Reminded(d)
  <2>1. s.first + MaxOutage < day
    BY <1>1, <1>2
  <2>2. NoLongGap
    OBVIOUS
  <2> QED  BY <1>2, <2>1, <2>2 DEF NoLongGap
<1>4. Round(d, due) = s.round
  BY <1>1, <1>2, RoundIsSpan
<1>5. k \in DOMAIN inbox
  BY <1>3, <1>4 DEF Reminded
<1>6. ASSUME inbox[k] = "cleared", s.first > wiped
      PROVE  FALSE
  <2>1. PICK e \in 0..wiped : due - e <= View /\ s.round = Round(e, due)
    BY <1>1, <1>5, <1>6 DEF ClearedIsOfBefore, OfDay, Key
  <2>2. s.first <= e
    BY <1>1, <2>1, RoundIsSpan
  <2> QED  BY <1>1, <1>2, <1>6, <2>2
<1> QED  BY <1>5, <1>6

(* Type correctness of the reminders.                                      *)
THEOREM TypeInvariant == Spec => []TypeOK
<1>1. IInv => TypeOK
  BY DEF IInv
<1> QED  BY <1>1, Begins, Goes, PTL DEF Spec

(* For every due date, every length of the rounds and of the outages they  *)
(* allow, any number of workers, and any edits of the due date that        *)
(* interleave: no round of a spell goes by without its reminder, and what  *)
(* an edit clears is of rounds that had begun.                             *)
THEOREM NoRoundIsMissed == Spec => []NoRoundMissed
  BY Begins, Goes, Covers, PTL DEF Spec
-----------------------------------------------------------------------------
(* The ledger of the contract. Its inductive invariant: an entry that      *)
(* undoes another mirrors one that exists and is itself no mirror, no      *)
(* entry has two of them, a request that is yet to write has no entry, and *)
(* what is told to procurement is never less than what is left of the line.*)

Entry == [amount : Int, fee : Int, undoes : Ids \union {NoEntry}]
Places == {"new", "record", "reverse", "report", "done"}

MoneyTypes ==
  /\ Old \union Typed \subseteq DOMAIN entries /\ DOMAIN entries \subseteq Ids
  /\ entries = [e \in DOMAIN entries |-> entries[e]] /\ \A e \in DOMAIN entries : entries[e] \in Entry
  /\ pc \in [Requests -> Places]
  /\ job \in [Requests -> [amount : Int, undoes : Ids \union {NoEntry}]]
  /\ claimed \in Int

MirrorsUndo ==
  /\ \A m \in DOMAIN entries : entries[m].undoes # NoEntry =>
       LET e == entries[m].undoes
       IN /\ e \in DOMAIN entries /\ entries[e].undoes = NoEntry
          /\ entries[m].amount = -entries[e].amount /\ entries[m].fee = -entries[e].fee
  /\ \A m, n \in DOMAIN entries :
       entries[m].undoes # NoEntry /\ entries[m].undoes = entries[n].undoes => m = n

YetToWrite ==
  \A r \in Requests :
    /\ pc[r] \in {"new", "record", "reverse"} => r \notin DOMAIN entries
    /\ pc[r] = "reverse" =>
         /\ job[r].undoes \in DOMAIN entries \ Old
         /\ entries[job[r].undoes].undoes = NoEntry

OldIsPaid == \A e \in Old : entries[e].amount \in Nat /\ entries[e].undoes = NoEntry

ReportsCover == \A r \in Requests : pc[r] = "report" => job[r].amount >= OfLine

MoneyInv ==
  /\ MoneyTypes /\ MirrorsUndo /\ YetToWrite /\ OldIsPaid
  /\ ReceivedIsWhatStands /\ ClaimCoversLine /\ ReportsCover

(* What one more entry makes of the sums.                                  *)
Amount == [e \in DOMAIN entries |-> entries[e].amount]
LineEntries == {e \in DOMAIN entries : IsOld(e)}

LEMMA EntriesFinite ==
  ASSUME MoneyTypes
  PROVE  /\ IsFiniteSet(DOMAIN entries)
         /\ \A S \in SUBSET DOMAIN entries : IsFiniteSet(S)
         /\ \A e \in DOMAIN entries : /\ Amount[e] = entries[e].amount /\ Amount[e] \in Int
                                      /\ Credit[e] = entries[e].amount + entries[e].fee /\ Credit[e] \in Int
<1>1. IsFiniteSet(Ids)
  BY FiniteAssumption, FS_Union DEF Ids
<1>2. DOMAIN entries \subseteq Ids /\ \A e \in DOMAIN entries : entries[e] \in Entry
  BY DEF MoneyTypes
<1>3. IsFiniteSet(DOMAIN entries)
  BY <1>1, <1>2, FS_Subset
<1> QED  BY <1>2, <1>3, FS_Subset DEF Amount, Credit, Entry

LEMMA LineSum == OfLine = Total(Amount, LineEntries)
  BY DEF OfLine, Amount, LineEntries

LEMMA AddKeepsTypes ==
  ASSUME MoneyTypes, NEW id \in Ids, id \notin DOMAIN entries, NEW entry \in Entry, Add(id, entry)
  PROVE  /\ DOMAIN entries' = DOMAIN entries \union {id} /\ entries'[id] = entry
         /\ \A e \in DOMAIN entries : entries'[e] = entries[e]
         /\ entries' = [e \in DOMAIN entries' |-> entries'[e]]
         /\ Old \union Typed \subseteq DOMAIN entries' /\ DOMAIN entries' \subseteq Ids
         /\ \A e \in DOMAIN entries' : entries'[e] \in Entry
  BY DEF Add, MoneyTypes

(* The old entries count as before, the new one comes on top.              *)
LEMMA AddCounts ==
  ASSUME MoneyTypes, NEW id \in Ids, id \notin DOMAIN entries, NEW entry \in Entry, Add(id, entry)
  PROVE  /\ Credit'[id] = entry.amount + entry.fee /\ Credit'[id] \in Int
         /\ Amount'[id] = entry.amount /\ Amount'[id] \in Int
         /\ \A S \in SUBSET DOMAIN entries :
              /\ Total(Credit', S) = Total(Credit, S) /\ Total(Credit, S) \in Int
              /\ Total(Credit', S \union {id}) = Total(Credit, S) + Credit'[id]
              /\ Total(Amount', S) = Total(Amount, S) /\ Total(Amount, S) \in Int
              /\ Total(Amount', S \union {id}) = Total(Amount, S) + Amount'[id]
<1>1. /\ Credit'[id] = entry.amount + entry.fee /\ Credit'[id] \in Int
      /\ Amount'[id] = entry.amount /\ Amount'[id] \in Int
      /\ \A e \in DOMAIN entries : Credit'[e] = Credit[e] /\ Amount'[e] = Amount[e]
  <2>1. /\ DOMAIN entries' = DOMAIN entries \union {id} /\ entries'[id] = entry
        /\ \A e \in DOMAIN entries : entries'[e] = entries[e]
    BY AddKeepsTypes
  <2>2. /\ Credit' = [e \in DOMAIN entries' |-> entries'[e].amount + entries'[e].fee]
        /\ Amount' = [e \in DOMAIN entries' |-> entries'[e].amount]
    BY DEF Credit, Amount
  <2>3. entry.amount \in Int /\ entry.fee \in Int
    BY DEF Entry
  <2> QED  BY <2>1, <2>2, <2>3, EntriesFinite
<1>2. ASSUME NEW S \in SUBSET DOMAIN entries
      PROVE  /\ Total(Credit', S) = Total(Credit, S) /\ Total(Credit, S) \in Int
             /\ Total(Credit', S \union {id}) = Total(Credit, S) + Credit'[id]
             /\ Total(Amount', S) = Total(Amount, S) /\ Total(Amount, S) \in Int
             /\ Total(Amount', S \union {id}) = Total(Amount, S) + Amount'[id]
  <2>1. IsFiniteSet(S) /\ id \notin S
        /\ \A e \in S : /\ Credit[e] = Credit'[e] /\ Credit[e] \in Int /\ Credit'[e] \in Int
                        /\ Amount[e] = Amount'[e] /\ Amount[e] \in Int /\ Amount'[e] \in Int
    BY <1>1, EntriesFinite
  <2>2. Total(Credit, S) = Total(Credit', S) /\ Total(Amount, S) = Total(Amount', S)
    BY <2>1, SumsAgree
  <2>3. Total(Credit, S) \in Int /\ Total(Amount, S) \in Int
    BY <2>1, SumType
  <2>4. /\ Total(Credit', S \union {id}) = Credit'[id] + Total(Credit', S)
        /\ Total(Amount', S \union {id}) = Amount'[id] + Total(Amount', S)
    <3>1. \A e \in S \union {id} : Credit'[e] \in Int /\ Amount'[e] \in Int
      BY <1>1, <2>1
    <3> QED  BY <2>1, <3>1, SumWithOneMore
  <2> QED  BY <1>1, <2>2, <2>3, <2>4
<1> QED  BY <1>1, <1>2

(* An entry that undoes nothing stands, and so does everything before it.  *)
LEMMA RecordCounts ==
  ASSUME MoneyInv, NEW id \in Ids, id \notin DOMAIN entries, NEW entry \in Entry,
         entry.undoes = NoEntry, Add(id, entry)
  PROVE  MirrorsUndo' /\ ReceivedIsWhatStands'
<1>1. MoneyTypes /\ MirrorsUndo /\ ReceivedIsWhatStands /\ NoEntry \notin Ids
  BY IdAssumption DEF MoneyInv, Ids
<1>2. /\ DOMAIN entries' = DOMAIN entries \union {id} /\ entries'[id] = entry
      /\ \A e \in DOMAIN entries : entries'[e] = entries[e]
  BY <1>1, AddKeepsTypes
<1>3. MirrorsUndo'
  BY <1>1, <1>2 DEF MirrorsUndo
<1>4. \A e \in DOMAIN entries' : Reversed(e)' <=> e \in DOMAIN entries /\ Reversed(e)
  BY <1>1, <1>2, <1>3 DEF Reversed, MirrorsUndo, MoneyTypes
<1>5. Standing' = Standing \union {id} /\ Standing \in SUBSET DOMAIN entries
  BY <1>2, <1>4 DEF Standing
<1>6. /\ Total(Credit', Standing') = Total(Credit, Standing) + Credit'[id]
      /\ Total(Credit', DOMAIN entries') = Total(Credit, DOMAIN entries) + Credit'[id]
  BY <1>1, <1>2, <1>5, AddCounts
<1>7. ReceivedIsWhatStands'
  BY <1>1, <1>6 DEF ReceivedIsWhatStands, Received
<1> QED  BY <1>3, <1>7

(* A mirror takes the entry it undoes away with it.                        *)
LEMMA MirrorCounts ==
  ASSUME MoneyInv, NEW id \in Ids, id \notin DOMAIN entries, NEW e, Reversible(e), Add(id, Mirror(e))
  PROVE  Mirror(e) \in Entry /\ MirrorsUndo' /\ ReceivedIsWhatStands'
<1>1. /\ MoneyTypes /\ MirrorsUndo /\ ReceivedIsWhatStands /\ NoEntry \notin Ids
      /\ e \in DOMAIN entries /\ e \in Ids /\ e # NoEntry /\ entries[e] \in Entry
      /\ entries[e].undoes = NoEntry /\ ~Reversed(e)
  BY IdAssumption DEF MoneyInv, Ids, Reversible, MoneyTypes
<1>2. /\ Mirror(e) \in Entry
      /\ Mirror(e).amount = -entries[e].amount /\ Mirror(e).fee = -entries[e].fee /\ Mirror(e).undoes = e
  BY <1>1 DEF Mirror, Entry
<1>3. /\ DOMAIN entries' = DOMAIN entries \union {id} /\ entries'[id] = Mirror(e)
      /\ \A x \in DOMAIN entries : entries'[x] = entries[x]
  BY <1>1, <1>2, AddKeepsTypes
<1>4. \A m \in DOMAIN entries : entries[m].undoes # e
  BY <1>1 DEF Reversed
<1>5. MirrorsUndo'
  BY <1>1, <1>2, <1>3, <1>4 DEF MirrorsUndo
<1>6. Standing' = Standing \ {e} /\ Standing \in SUBSET DOMAIN entries /\ e \in Standing
  <2>1. \A x \in DOMAIN entries' : Reversed(x)' <=> x = e \/ (x \in DOMAIN entries /\ Reversed(x))
    BY <1>1, <1>2, <1>3 DEF Reversed, MirrorsUndo
  <2> QED  BY <1>1, <1>2, <1>3, <2>1 DEF Standing
<1>7. Credit'[id] = -Credit[e] /\ Credit[e] \in Int
  <2>1. Credit'[id] = Mirror(e).amount + Mirror(e).fee
    BY <1>1, <1>2, AddCounts
  <2>2. Credit[e] = entries[e].amount + entries[e].fee
    BY <1>1 DEF Credit
  <2> QED  BY <1>1, <1>2, <2>1, <2>2 DEF Entry
<1>8. Total(Credit, Standing) = Credit[e] + Total(Credit, Standing \ {e})
  <2>1. IsFiniteSet(Standing) /\ \A x \in Standing : Credit[x] \in Int
    BY <1>1, <1>6, EntriesFinite
  <2> QED  BY <1>6, <2>1, SumOfUnion
<1>9. /\ Total(Credit', Standing') = Total(Credit, Standing \ {e})
      /\ Total(Credit, Standing \ {e}) \in Int
      /\ Total(Credit', DOMAIN entries') = Total(Credit, DOMAIN entries) + Credit'[id]
  <2>1. (Standing \ {e}) \in SUBSET DOMAIN entries
    BY <1>6
  <2> QED  BY <1>1, <1>2, <1>3, <1>6, <2>1, AddCounts
<1>10. ReceivedIsWhatStands'
  BY <1>1, <1>7, <1>8, <1>9 DEF ReceivedIsWhatStands, Received
<1> QED  BY <1>2, <1>5, <1>10

(* What is left of the line: an entry elsewhere does not count, a mirror   *)
(* of an old entry takes its amount away.                                  *)
LEMMA LineCounts ==
  ASSUME MoneyTypes, NEW id \in Ids, id \notin DOMAIN entries, NEW entry \in Entry, Add(id, entry)
  PROVE  /\ OfLine \in Int
         /\ entry.undoes \notin Old => OfLine' = OfLine
         /\ entry.undoes \in Old => OfLine' = OfLine + entry.amount
<1>1. /\ DOMAIN entries' = DOMAIN entries \union {id} /\ entries'[id] = entry
      /\ \A e \in DOMAIN entries : entries'[e] = entries[e]
  BY AddKeepsTypes
<1>2. id \notin Old /\ Old \subseteq DOMAIN entries
  BY DEF MoneyTypes
<1>3. LineEntries' = IF entry.undoes \in Old THEN LineEntries \union {id} ELSE LineEntries
  BY <1>1, <1>2 DEF LineEntries, IsOld
<1>4. LineEntries \in SUBSET DOMAIN entries
  BY DEF LineEntries
<1>5. /\ Total(Amount', LineEntries) = Total(Amount, LineEntries) /\ Total(Amount, LineEntries) \in Int
      /\ Total(Amount', LineEntries \union {id}) = Total(Amount, LineEntries) + entry.amount
  BY <1>4, AddCounts
<1>6. OfLine' = Total(Amount', LineEntries')
  BY DEF OfLine, Amount, LineEntries
<1> QED  BY <1>3, <1>5, <1>6, LineSum

-----------------------------------------------------------------------------
(* The steps of the ledger.                                                *)

(* A request other than r is where it was.                                 *)
LEMMA OnlyMoves ==
  ASSUME MoneyTypes, NEW r \in Requests, NEW place \in Places, Goto(r, place),
         NEW j \in [amount : Int, undoes : Ids \union {NoEntry}], job' = [job EXCEPT ![r] = j]
  PROVE  /\ pc' \in [Requests -> Places] /\ pc'[r] = place
         /\ job' \in [Requests -> [amount : Int, undoes : Ids \union {NoEntry}]] /\ job'[r] = j
         /\ \A q \in Requests : q # r => pc'[q] = pc[q] /\ job'[q] = job[q]
  BY DEF MoneyTypes, Goto

(* Requests that only look.                                                *)
LEMMA LookStep ==
  ASSUME MoneyInv, NEW r \in Requests, NEW j \in [amount : Int, undoes : Ids \union {NoEntry}],
         job' = [job EXCEPT ![r] = j], UNCHANGED <<entries, claimed>>,
         \/ Goto(r, "done")
         \/ pc[r] = "new" /\ Goto(r, "record")
         \/ /\ pc[r] = "new" /\ Goto(r, "reverse")
            /\ j.undoes \in DOMAIN entries \ Old /\ entries[j.undoes].undoes = NoEntry
  PROVE  MoneyInv'
<1>1. MoneyTypes /\ MirrorsUndo /\ YetToWrite /\ OldIsPaid
      /\ ReceivedIsWhatStands /\ ClaimCoversLine /\ ReportsCover
  BY DEF MoneyInv
<1>2. /\ pc' \in [Requests -> Places]
      /\ job' \in [Requests -> [amount : Int, undoes : Ids \union {NoEntry}]] /\ job'[r] = j
      /\ \A q \in Requests : q # r => pc'[q] = pc[q] /\ job'[q] = job[q]
      /\ \/ pc'[r] = "done"
         \/ pc[r] = "new" /\ pc'[r] = "record"
         \/ /\ pc[r] = "new" /\ pc'[r] = "reverse"
            /\ j.undoes \in DOMAIN entries \ Old /\ entries[j.undoes].undoes = NoEntry
  BY <1>1, OnlyMoves DEF Places
<1>3. entries' = entries /\ claimed' = claimed
  OBVIOUS
<1>4. MoneyTypes' /\ MirrorsUndo' /\ OldIsPaid'
  BY <1>1, <1>2, <1>3 DEF MoneyTypes, MirrorsUndo, OldIsPaid
<1>5. YetToWrite'
  BY <1>1, <1>2, <1>3 DEF YetToWrite
<1>6. OfLine' = OfLine
  BY <1>3 DEF OfLine, IsOld
<1>7. ReceivedIsWhatStands'
  BY <1>1, <1>3 DEF ReceivedIsWhatStands, Received, Credit, Standing, Reversed
<1>8. ClaimCoversLine' /\ ReportsCover'
  BY <1>1, <1>2, <1>3, <1>6 DEF ClaimCoversLine, ReportsCover
<1> QED  BY <1>4, <1>5, <1>7, <1>8 DEF MoneyInv

(* A request that adds its entry, and is done or has a report to make.     *)
LEMMA AddStep ==
  ASSUME MoneyInv, NEW r \in Requests, NEW entry \in Entry, r \notin DOMAIN entries, Add(r, entry),
         NEW place \in {"done", "report"}, Goto(r, place),
         NEW j \in [amount : Int, undoes : Ids \union {NoEntry}], job' = [job EXCEPT ![r] = j],
         claimed' = claimed,
         MirrorsUndo', ReceivedIsWhatStands',
         OfLine' \in Int, OfLine' <= OfLine, place = "report" => j.amount >= OfLine'
  PROVE  MoneyInv'
<1>1. MoneyTypes /\ YetToWrite /\ OldIsPaid /\ ClaimCoversLine /\ ReportsCover
  BY DEF MoneyInv
<1>2. /\ pc' \in [Requests -> Places] /\ pc'[r] = place
      /\ job' \in [Requests -> [amount : Int, undoes : Ids \union {NoEntry}]] /\ job'[r] = j
      /\ \A q \in Requests : q # r => pc'[q] = pc[q] /\ job'[q] = job[q]
  BY <1>1, OnlyMoves DEF Places
<1>3. /\ DOMAIN entries' = DOMAIN entries \union {r}
      /\ \A e \in DOMAIN entries : entries'[e] = entries[e]
      /\ entries' = [e \in DOMAIN entries' |-> entries'[e]]
      /\ Old \union Typed \subseteq DOMAIN entries' /\ DOMAIN entries' \subseteq Ids
      /\ \A e \in DOMAIN entries' : entries'[e] \in Entry
  BY <1>1, AddKeepsTypes DEF Ids
<1>4. MoneyTypes'
  BY <1>1, <1>2, <1>3 DEF MoneyTypes
<1>5. YetToWrite'
  BY <1>1, <1>2, <1>3 DEF YetToWrite
<1>6. OldIsPaid'
  BY <1>1, <1>3 DEF OldIsPaid, MoneyTypes
<1>7. OfLine \in Int
  BY <1>1, LineCounts DEF Ids
<1>8. ClaimCoversLine' /\ ReportsCover'
  <2>1. claimed \in Int /\ \A q \in Requests : job[q].amount \in Int
    BY <1>1 DEF MoneyTypes
  <2> QED  BY <1>1, <1>2, <1>7, <2>1 DEF ClaimCoversLine, ReportsCover
<1> QED  BY <1>4, <1>5, <1>6, <1>8 DEF MoneyInv

LEMMA CheckReceiptInv ==
  ASSUME MoneyInv, NEW r \in Requests, NEW a \in Amounts, CheckReceipt(r, a) \/ CheckRefund(r, a)
  PROVE  MoneyInv'
<1> DEFINE n == IF CheckReceipt(r, a) THEN a ELSE -a
           j == [job[r] EXCEPT !.amount = n]
<1>1. job \in [Requests -> [amount : Int, undoes : Ids \union {NoEntry}]]
  BY DEF MoneyInv, MoneyTypes
<1>2. n \in Int
  BY MoneyAssumption
<1>3. /\ pc[r] = "new" /\ Goto(r, "record") /\ UNCHANGED <<entries, claimed>>
      /\ job' = [job EXCEPT ![r] = j]
  BY DEF CheckReceipt, CheckRefund
<1> HIDE DEF n
<1>4. j \in [amount : Int, undoes : Ids \union {NoEntry}]
  BY <1>1, <1>2
<1> HIDE DEF j
<1> QED  BY <1>3, <1>4, LookStep

LEMMA RecordInv ==
  ASSUME MoneyInv, NEW r \in Requests, Record(r)
  PROVE  MoneyInv'
<1> DEFINE entry == [amount |-> job[r].amount, fee |-> 0, undoes |-> NoEntry]
<1>1. /\ pc[r] = "record" /\ Add(r, entry) /\ Goto(r, "done") /\ job' = [job EXCEPT ![r] = NoJob]
      /\ claimed' = claimed
  BY DEF Record, Finish
<1>2. MoneyTypes /\ YetToWrite /\ r \in Ids /\ NoEntry \notin Old
  BY IdAssumption DEF MoneyInv, Ids
<1>3. r \notin DOMAIN entries /\ entry \in Entry /\ entry.undoes = NoEntry
  BY <1>1, <1>2 DEF YetToWrite, MoneyTypes, Entry
<1>4. NoJob \in [amount : Int, undoes : Ids \union {NoEntry}]
  BY DEF NoJob
<1> HIDE DEF entry
<1>5. MirrorsUndo' /\ ReceivedIsWhatStands'
  BY <1>1, <1>2, <1>3, RecordCounts
<1>6. OfLine' = OfLine /\ OfLine \in Int
  BY <1>1, <1>2, <1>3, LineCounts
<1>7. OfLine' \in Int /\ OfLine' <= OfLine
  BY <1>6
<1> QED  BY <1>1, <1>3, <1>4, <1>5, <1>7, AddStep

LEMMA CheckReversalInv ==
  ASSUME MoneyInv, NEW r \in Requests, NEW e \in Ids, CheckReversal(r, e)
  PROVE  MoneyInv'
<1> DEFINE j == [job[r] EXCEPT !.undoes = e]
<1>1. job \in [Requests -> [amount : Int, undoes : Ids \union {NoEntry}]]
  BY DEF MoneyInv, MoneyTypes
<1>2. /\ pc[r] = "new" /\ Goto(r, "reverse") /\ UNCHANGED <<entries, claimed>>
      /\ job' = [job EXCEPT ![r] = j]
      /\ e \in DOMAIN entries \ Old /\ entries[e].undoes = NoEntry
  BY DEF CheckReversal, Reversible
<1>3. j \in [amount : Int, undoes : Ids \union {NoEntry}] /\ j.undoes = e
  BY <1>1
<1> HIDE DEF j
<1> QED  BY <1>2, <1>3, LookStep

LEMMA ReverseInv ==
  ASSUME MoneyInv, NEW r \in Requests, Reverse(r)
  PROVE  MoneyInv'
<1> DEFINE e == job[r].undoes
<1>1. /\ pc[r] = "reverse" /\ Goto(r, "done") /\ job' = [job EXCEPT ![r] = NoJob] /\ claimed' = claimed
      /\ IF Reversed(e) THEN UNCHANGED entries ELSE Add(r, Mirror(e))
  BY DEF Reverse, Finish
<1>2. MoneyTypes /\ YetToWrite /\ r \in Ids
  BY DEF MoneyInv, Ids
<1>3. /\ r \notin DOMAIN entries
      /\ e \in DOMAIN entries /\ e \notin Old /\ entries[e].undoes = NoEntry
  BY <1>1, <1>2 DEF YetToWrite
<1>4. NoJob \in [amount : Int, undoes : Ids \union {NoEntry}]
  BY DEF NoJob
<1> HIDE DEF e
<1>5. CASE Reversed(e)
  BY <1>1, <1>4, <1>5, LookStep
<1>6. CASE ~Reversed(e)
  <2>1. Reversible(e) /\ Add(r, Mirror(e))
    BY <1>1, <1>3, <1>6 DEF Reversible
  <2>2. Mirror(e) \in Entry /\ MirrorsUndo' /\ ReceivedIsWhatStands'
    BY <1>2, <1>3, <2>1, MirrorCounts
  <2>3. Mirror(e).undoes \notin Old
    BY <1>3 DEF Mirror
  <2>4. OfLine' = OfLine /\ OfLine \in Int
    BY <1>2, <1>3, <2>1, <2>2, <2>3, LineCounts
  <2>5. OfLine' \in Int /\ OfLine' <= OfLine
    BY <2>4
  <2> QED  BY <1>1, <1>3, <1>4, <2>1, <2>2, <2>5, AddStep
<1> QED  BY <1>5, <1>6

LEMMA ReverseOldInv ==
  ASSUME MoneyInv, NEW r \in Requests, NEW e \in Ids, ReverseOld(r, e)
  PROVE  MoneyInv'
<1> DEFINE j == [amount |-> OfLine - entries[e].amount, undoes |-> e]
<1>1. /\ pc[r] = "new" /\ e \in Old /\ Reversible(e) /\ Add(r, Mirror(e))
      /\ Goto(r, "report") /\ job' = [job EXCEPT ![r] = j] /\ claimed' = claimed
  BY DEF ReverseOld
<1>2. MoneyTypes /\ YetToWrite /\ OldIsPaid /\ r \in Ids
  BY DEF MoneyInv, Ids
<1>3. r \notin DOMAIN entries
  BY <1>1, <1>2 DEF YetToWrite
<1>4. Mirror(e) \in Entry /\ MirrorsUndo' /\ ReceivedIsWhatStands'
  BY <1>1, <1>2, <1>3, MirrorCounts
<1>5. Mirror(e).undoes \in Old /\ Mirror(e).amount = -entries[e].amount /\ entries[e].amount \in Nat
  BY <1>1, <1>2 DEF Mirror, OldIsPaid
<1>6. OfLine' = OfLine - entries[e].amount /\ OfLine \in Int
  <2>1. OfLine' = OfLine + Mirror(e).amount /\ OfLine \in Int
    BY <1>1, <1>2, <1>3, <1>4, <1>5, LineCounts
  <2> QED  BY <1>5, <2>1
<1>7. j \in [amount : Int, undoes : Ids \union {NoEntry}] /\ j.amount = OfLine'
  BY <1>5, <1>6
<1>8. OfLine' \in Int /\ OfLine' <= OfLine /\ j.amount >= OfLine'
  BY <1>5, <1>6, <1>7
<1> HIDE DEF j
<1> QED  BY <1>1, <1>3, <1>4, <1>7, <1>8, AddStep

LEMMA ReportClaimInv ==
  ASSUME MoneyInv, NEW r \in Requests, ReportClaim(r)
  PROVE  MoneyInv'
<1>1. MoneyTypes /\ MirrorsUndo /\ YetToWrite /\ OldIsPaid
      /\ ReceivedIsWhatStands /\ ReportsCover
  BY DEF MoneyInv
<1>2. /\ pc[r] = "report" /\ Goto(r, "done") /\ job' = [job EXCEPT ![r] = NoJob]
      /\ entries' = entries /\ claimed' = job[r].amount
  BY DEF ReportClaim, Finish
<1>3. NoJob \in [amount : Int, undoes : Ids \union {NoEntry}]
  BY DEF NoJob
<1>4. /\ pc' \in [Requests -> Places] /\ pc'[r] = "done"
      /\ job' \in [Requests -> [amount : Int, undoes : Ids \union {NoEntry}]]
      /\ \A q \in Requests : q # r => pc'[q] = pc[q] /\ job'[q] = job[q]
  BY <1>1, <1>2, <1>3, OnlyMoves DEF Places
<1>5. MoneyTypes' /\ MirrorsUndo' /\ OldIsPaid'
  BY <1>1, <1>2, <1>4 DEF MoneyTypes, MirrorsUndo, OldIsPaid
<1>6. YetToWrite'
  BY <1>1, <1>2, <1>4 DEF YetToWrite
<1>7. OfLine' = OfLine
  BY <1>2 DEF OfLine, IsOld
<1>8. ReceivedIsWhatStands'
  BY <1>1, <1>2 DEF ReceivedIsWhatStands, Received, Credit, Standing, Reversed
<1>9. ClaimCoversLine' /\ ReportsCover'
  BY <1>1, <1>2, <1>4, <1>7 DEF ClaimCoversLine, ReportsCover
<1> QED  BY <1>5, <1>6, <1>8, <1>9 DEF MoneyInv

LEMMA ReportFailsInv ==
  ASSUME MoneyInv, NEW r \in Requests, ReportFails(r)
  PROVE  MoneyInv'
<1>1. Goto(r, "done") /\ job' = [job EXCEPT ![r] = NoJob] /\ UNCHANGED <<entries, claimed>>
  BY DEF ReportFails, Finish
<1>2. NoJob \in [amount : Int, undoes : Ids \union {NoEntry}]
  BY DEF NoJob
<1> QED  BY <1>1, <1>2, LookStep

LEMMA MoneyBegins ==
  ASSUME InitMoney
  PROVE  MoneyInv
<1> USE MoneyAssumption, IdAssumption DEF InitMoney
<1>1. /\ DOMAIN entries = Old \union Typed
      /\ \A e \in Old \union Typed : /\ entries[e].amount = PaidOf[e] /\ entries[e].fee = FeeOf[e]
                                     /\ entries[e].undoes = NoEntry /\ entries[e] \in Entry
      /\ entries = [e \in DOMAIN entries |-> entries[e]]
  BY DEF Entry, Ids
<1>2. LineEntries = Old
  BY <1>1 DEF LineEntries, IsOld
<1>3. Total(Amount, Old) = Total(PaidOf, Old) /\ Total(PaidOf, Old) \in Int
  <2>1. \A e \in Old : Amount[e] = PaidOf[e] /\ Amount[e] \in Int /\ PaidOf[e] \in Int
    BY <1>1 DEF Amount
  <2> QED  BY <2>1, FiniteAssumption, SumsAgree, SumType
<1>4. claimed = OfLine /\ OfLine \in Int /\ claimed \in Int
  BY <1>2, <1>3, LineSum
<1>5. MoneyTypes
  <2>1. pc \in [Requests -> Places] /\ job \in [Requests -> [amount : Int, undoes : Ids \union {NoEntry}]]
    BY DEF NoJob, Places
  <2>2. DOMAIN entries \subseteq Ids
    BY <1>1 DEF Ids
  <2> QED  BY <1>1, <1>4, <2>1, <2>2 DEF MoneyTypes
<1>6. MirrorsUndo /\ YetToWrite /\ OldIsPaid /\ ReportsCover
  BY <1>1 DEF MirrorsUndo, YetToWrite, OldIsPaid, ReportsCover
<1>7. Standing = DOMAIN entries
  BY <1>1 DEF Standing, Reversed
<1>8. ReceivedIsWhatStands /\ ClaimCoversLine
  BY <1>4, <1>7 DEF ReceivedIsWhatStands, Received, ClaimCoversLine
<1> QED  BY <1>5, <1>6, <1>8 DEF MoneyInv

(* Whatever changes nothing of the entries, the requests and the claim.    *)
LEMMA MoneyStays ==
  ASSUME MoneyInv, UNCHANGED <<entries, pc, job, claimed>>
  PROVE  MoneyInv'
<1>1. entries' = entries /\ pc' = pc /\ job' = job /\ claimed' = claimed
  OBVIOUS
<1>2. MoneyTypes' /\ MirrorsUndo' /\ YetToWrite' /\ OldIsPaid'
  BY <1>1 DEF MoneyInv, MoneyTypes, MirrorsUndo, YetToWrite, OldIsPaid
<1>3. ReceivedIsWhatStands'
  BY <1>1 DEF MoneyInv, ReceivedIsWhatStands, Received, Credit, Standing, Reversed
<1>4. OfLine' = OfLine
  BY <1>1 DEF OfLine, IsOld
<1>5. ClaimCoversLine' /\ ReportsCover'
  BY <1>1, <1>4 DEF MoneyInv, ClaimCoversLine, ReportsCover
<1> QED  BY <1>2, <1>3, <1>5 DEF MoneyInv

LEMMA MoneyGoes ==
  ASSUME MoneyInv, [MoneyNext]_moneyVars
  PROVE  MoneyInv'
<1>1. ASSUME NEW r \in Requests, NEW a \in Amounts, CheckReceipt(r, a) \/ CheckRefund(r, a)
      PROVE  MoneyInv'
  BY <1>1, CheckReceiptInv
<1>2. ASSUME NEW r \in Requests, NEW e \in Ids, CheckReversal(r, e) \/ ReverseOld(r, e)
      PROVE  MoneyInv'
  BY <1>2, CheckReversalInv, ReverseOldInv
<1>3. ASSUME NEW r \in Requests, Record(r) \/ Reverse(r) \/ ReportClaim(r) \/ ReportFails(r)
      PROVE  MoneyInv'
  BY <1>3, RecordInv, ReverseInv, ReportClaimInv, ReportFailsInv
<1>4. CASE Close \/ Reopen \/ UNCHANGED moneyVars
  BY <1>4, MoneyStays DEF Close, Reopen, moneyVars
<1> QED  BY <1>1, <1>2, <1>3, <1>4 DEF MoneyNext

(* The reminders take the ledger as it is: whatever they do, the contract's *)
(* money moves as the ledger's specification allows.                       *)
THEOREM LedgerFollowed == Spec => MoneySpec
<1>1. Init => InitMoney
  BY DEF Init
<1>2. [Next]_vars => [MoneyNext]_moneyVars
  BY DEF Next, vars
<1> QED  BY <1>1, <1>2, PTL DEF Spec, MoneySpec

(* For any entries, requests and amounts: reversals that overlap undo an   *)
(* entry once (the unique index on reversal_of, receivable.go), so that    *)
(* what the queries sum up is what stands.                                 *)
THEOREM OnlyStandingMoneyCounts == Spec => []ReceivedIsWhatStands
<1>1. MoneySpec => []MoneyInv
  BY MoneyBegins, MoneyGoes, PTL DEF MoneySpec
<1>2. MoneyInv => ReceivedIsWhatStands
  BY DEF MoneyInv
<1> QED  BY <1>1, <1>2, LedgerFollowed, PTL

(* Reports to procurement may fail and overtake each other (receipt.go):   *)
(* what it has on its books is never less than what is left of the line.   *)
THEOREM ClaimAlwaysCovers == Spec => []ClaimCoversLine
<1>1. MoneySpec => []MoneyInv
  BY MoneyBegins, MoneyGoes, PTL DEF MoneySpec
<1>2. MoneyInv => ClaimCoversLine
  BY DEF MoneyInv
<1> QED  BY <1>1, <1>2, LedgerFollowed, PTL
=============================================================================
