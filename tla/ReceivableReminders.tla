------------------------- MODULE ReceivableReminders -------------------------
(***************************************************************************)
(* The reminders of money that is due, on top of the contract's ledger:    *)
(* days go by, the due date is rewritten in three ways, two of which take  *)
(* the unread reminders away, and once a day a worker looks which contracts*)
(* call for a reminder and writes it to the salesperson's inbox            *)
(* (SweepReceivableReminders of receipt.sql). A reminder is known by its   *)
(* due date and its round: one when the date comes into view, one when it  *)
(* is near, one for every week overdue.                                    *)
(*                                                                         *)
(* The sweep is one SQL statement: it reads a snapshot and inserts later,  *)
(* other transactions commit in between. The contract is in force all      *)
(* along and one salesperson's. Left out: what a reminder says.            *)
(***************************************************************************)
EXTENDS ReceiptLedger

CONSTANTS
  Dues,         \* the due dates finance may set
  NoDue,        \* none set
  LastDay,      \* bound: the days of a behaviour
  View,         \* days before the due date it comes into view (30)
  Near,         \* days before it when it is near (7)
  Every,        \* days of one round overdue (7)
  MaxOutage,    \* days in a row the worker may be down
  Editors,      \* calls that may rewrite the due date, each of them once
  TakenOver,    \* entry_source = EXISTING_CONTRACT: entered as a running one
  Workers,      \* processes that run the worker
  NoSweep

ASSUME DayAssumption ==
  /\ Dues \subseteq Nat /\ NoDue \notin Dues
  /\ LastDay \in Nat /\ TakenOver \in BOOLEAN
  /\ View \in Nat /\ Near \in Nat /\ Every \in Nat /\ MaxOutage \in Nat

(* "Stopped for some days": for less than the shortest of the rounds.      *)
ASSUME OutageAssumption == MaxOutage < Every /\ MaxOutage <= Near /\ MaxOutage < View - Near

VARIABLES
  day,
  due,          \* receivable_due_date
  edit,         \* edit[x]: where call x is, and the date it is to write
  inbox,        \* receivable_reminders: "unread", "read", or "cleared", by key
  sweep,        \* sweep[w]: the day of w's snapshot and what it calls for
  lastSweep,    \* the day of the latest snapshot that was written out
  since,        \* the day since when this due date has called for reminders
  wiped         \* the day a reminder was last taken out of the inbox unread

timeVars == <<day, due, edit, inbox, sweep, lastSweep, since, wiped>>
vars == <<moneyVars, timeVars>>

Init ==
  /\ InitMoney
  /\ day = 0
  /\ due \in Dues \union {NoDue}
  /\ edit = [x \in Editors |-> [at |-> "new", due |-> NoDue]]
  /\ inbox = [k \in {} |-> "unread"]
  /\ sweep = [w \in Workers |-> NoSweep]
  /\ lastSweep = -1
  /\ since = 0
  /\ wiped = -1

(* Money is owed, nobody has confirmed that the contract is done with.     *)
Remindable == due # NoDue /\ ~closed /\ Open > 0

(* The round of day d for the due date u; 0 in view, -1 near, k the k-th   *)
(* round overdue.                                                          *)
Round(d, u) ==
  IF d > u THEN (d - u + Every - 1) \div Every
  ELSE IF u - d <= Near THEN -1 ELSE 0

Key(u, r) == [due |-> u, round |-> r]

(* Mutant: reminders go out on the first day of a round only.              *)
CalledForOnTheDay ==
  IF Remindable /\ due - day <= View /\ (due - day = View \/ Round(day, due) # Round(day - 1, due))
    THEN {Key(due, Round(day, due))} ELSE {}

CalledFor ==
  IF Remindable /\ due - day <= View
    THEN {Key(due, Round(day, due))} ELSE {}

-----------------------------------------------------------------------------
(* The reminder worker.                                                    *)

SweepRead(w) ==
  /\ sweep[w] = NoSweep
  /\ sweep' = [sweep EXCEPT ![w] = [day |-> day, keys |-> CalledFor]]
  /\ UNCHANGED <<day, due, edit, inbox, lastSweep, wiped>>

(* ON CONFLICT DO NOTHING: a key that is there stays as it is.             *)
SweepWrite(w) ==
  /\ sweep[w] # NoSweep
  /\ inbox' = [k \in DOMAIN inbox \union sweep[w].keys |-> IF k \in DOMAIN inbox THEN inbox[k] ELSE "unread"]
  /\ lastSweep' = IF sweep[w].day > lastSweep THEN sweep[w].day ELSE lastSweep
  /\ sweep' = [sweep EXCEPT ![w] = NoSweep]
  /\ UNCHANGED <<day, due, edit, wiped>>

(* An error, or the end of the process: the next round has another go.     *)
SweepFails(w) ==
  /\ sweep[w] # NoSweep
  /\ sweep' = [sweep EXCEPT ![w] = NoSweep]
  /\ UNCHANGED <<day, due, edit, inbox, lastSweep, wiped>>

(* A sweep at every start and every 24 hours, outages aside.               *)
NextDay ==
  /\ day < LastDay
  /\ day - lastSweep <= MaxOutage
  /\ day' = day + 1
  /\ UNCHANGED <<due, edit, inbox, sweep, lastSweep, wiped>>

-----------------------------------------------------------------------------
(* The finance desk and the salesperson.                                   *)

Advance(x, place) == edit' = [edit EXCEPT ![x] = place]
Over == [at |-> "done", due |-> NoDue]

(* ClearContractReminders: what nobody has read is marked as read.         *)
Wipe ==
  /\ inbox' = [k \in DOMAIN inbox |-> IF inbox[k] = "unread" THEN "cleared" ELSE inbox[k]]
  /\ wiped' = IF \E k \in DOMAIN inbox : inbox[k] = "unread" THEN day ELSE wiped

(* SetContractReceivableDue reads the old date without a lock, does        *)
(* nothing if it is the new one, and writes otherwise: by then the date may*)
(* be another, and even the new one.                                       *)
ReadDue(x, u) ==
  /\ edit[x].at = "new" /\ u # due
  /\ Advance(x, [at |-> "read", due |-> u])
  /\ UNCHANGED <<day, due, inbox, sweep, lastSweep, wiped>>

WriteDue(x) ==
  /\ edit[x].at = "read"
  /\ due' = edit[x].due
  /\ Wipe
  /\ Advance(x, Over)
  /\ UNCHANGED <<day, sweep, lastSweep>>

(* UpdateManualReceivable, which corrects the customer, the contract's     *)
(* number or the due date and takes the reminders away whichever it was.   *)
CorrectReceivable(x, u) ==
  /\ edit[x].at = "new" /\ TakenOver
  /\ due' = u
  /\ Wipe
  /\ Advance(x, Over)
  /\ UNCHANGED <<day, sweep, lastSweep>>

(* UpdateContract of a contract in force (supplementContract, and          *)
(* correctExistingContract if it was taken over): the reminders stay.      *)
UpdateContract(x, u) ==
  /\ edit[x].at = "new"
  /\ due' = u
  /\ Advance(x, Over)
  /\ UNCHANGED <<day, inbox, sweep, lastSweep, wiped>>

(* MarkReceivableRemindersRead: the ones picked, or all.                   *)
MarkRead ==
  /\ \E picked \in (SUBSET {k \in DOMAIN inbox : inbox[k] = "unread"}) \ {{}} :
       inbox' = [k \in DOMAIN inbox |-> IF k \in picked THEN "read" ELSE inbox[k]]
  /\ UNCHANGED <<day, due, edit, sweep, lastSweep, wiped>>

(* Keeps since: a spell of one due date that calls for reminders goes on.  *)
KeepSince ==
  since' = IF due' = due /\ Remindable /\ Remindable' THEN since ELSE day'

TimeNext ==
  \/ \E w \in Workers : SweepRead(w) \/ SweepWrite(w) \/ SweepFails(w)
  \/ NextDay
  \/ \E x \in Editors :
       \/ WriteDue(x)
       \/ \E u \in Dues \union {NoDue} :
            ReadDue(x, u) \/ CorrectReceivable(x, u) \/ UpdateContract(x, u)
  \/ MarkRead

Next ==
  /\ \/ MoneyNext /\ UNCHANGED <<day, due, edit, inbox, sweep, lastSweep, wiped>>
     \/ TimeNext /\ UNCHANGED moneyVars
  /\ KeepSince

Spec == Init /\ [][Next]_vars

-----------------------------------------------------------------------------
Keys == [due : Dues, round : Int]

TypeOK ==
  /\ DOMAIN inbox \subseteq Keys
  /\ inbox \in [DOMAIN inbox -> {"unread", "read", "cleared"}]
  /\ day \in Nat /\ due \in Dues \union {NoDue}
  /\ edit \in [Editors -> [at : {"new", "read", "done"}, due : Dues \union {NoDue}]]
  /\ lastSweep \in Int /\ since \in Nat /\ wiped \in Int
  /\ sweep \in [Workers -> {NoSweep} \union [day : Nat, keys : SUBSET Keys]]

(* The rounds of a due date: when they begin and when they end.            *)
Spans(u) ==
  {[round |-> 0, first |-> u - View, last |-> u - Near - 1],
   [round |-> -1, first |-> u - Near, last |-> u]}
  \union {[round |-> k, first |-> u + (k - 1) * Every + 1, last |-> u + k * Every] : k \in 1..LastDay}

(* A worker that was stopped for some days catches up: no round of a due   *)
(* date that goes by while the contract calls for reminders passes without *)
(* a reminder, and nobody's edit takes away the reminder of a round that   *)
(* had not begun: one that begins after the last clearing keeps its own    *)
(* (the daily sweep of receivable.go, with the due date being changed and  *)
(* changed back, and unread reminders cleared, under it).                  *)
NoRoundMissed ==
  Remindable => \A s \in Spans(due) :
    LET reminder == Key(due, s.round)
    IN s.first > since /\ s.last < day =>
         /\ reminder \in DOMAIN inbox
         /\ s.first > wiped => inbox[reminder] # "cleared"

(* The inductive invariant behind NoRoundMissed.                           *)

(* The worker lives in the past.                                           *)
SweepsArePast ==
  /\ since <= day /\ lastSweep <= day
  /\ \A w \in Workers : sweep[w] # NoSweep => sweep[w].day <= day

(* A snapshot of this spell holds the reminder of its day.                 *)
SweepsOfSpell ==
  Remindable => \A w \in Workers :
    sweep[w] # NoSweep /\ sweep[w].day > since /\ due - sweep[w].day <= View =>
      Key(due, Round(sweep[w].day, due)) \in sweep[w].keys

(* A reminder is of a day in view, up to day e.                            *)
OfDay(k, e) == \E d \in 0..e : k.due - d <= View /\ k.round = Round(d, k.due)

RemindersHaveDays ==
  /\ \A k \in DOMAIN inbox : OfDay(k, day)
  /\ \A w \in Workers : sweep[w] # NoSweep => \A k \in sweep[w].keys : OfDay(k, day)

(* What was cleared was of a day up to the last clearing.                  *)
ClearedIsOfBefore ==
  /\ wiped <= day
  /\ \A k \in DOMAIN inbox : inbox[k] = "cleared" => OfDay(k, wiped)

Reminded(d) == Key(due, Round(d, due)) \in DOMAIN inbox

LastSweepReminded ==
  Remindable /\ lastSweep > since /\ due - lastSweep <= View => Reminded(lastSweep)

(* In MaxOutage + 1 days of the spell there is one that was swept.         *)
NoLongGap ==
  Remindable => \A a \in Int :
    a > since /\ due - a <= View /\ a + MaxOutage < day => \E d \in a..(a + MaxOutage) : Reminded(d)

IInv ==
  /\ TypeOK
  /\ SweepsArePast
  /\ SweepsOfSpell
  /\ RemindersHaveDays
  /\ ClearedIsOfBefore
  /\ LastSweepReminded
  /\ NoLongGap

-----------------------------------------------------------------------------
(* What comments say and the code does not keep.                           *)

(* "If nothing has changed, do nothing: ... clearing a round of reminders  *)
(* would be for nothing" (receivable_due.go:51-52): an edit that leaves the*)
(* due date as it is leaves the reminders too. A second call that read the *)
(* old date before the first one wrote, and a correction of the customer's *)
(* name, clear them; the round's reminder is not sent again.               *)
UnchangedDateKeepsReminders ==
  [][due' = due => \A k \in DOMAIN inbox : inbox[k] = "unread" => inbox'[k] # "cleared"]_vars

(* "What nobody has read is cleared first, so that the next round decides  *)
(* anew by the new date" (receivable_due.go:67-69): what waits in the inbox*)
(* is about the contract's due date. UpdateContract clears nothing, and a  *)
(* sweep that read the old date writes after the clearing.                 *)
UnreadIsOfThisDate ==
  \A k \in DOMAIN inbox : inbox[k] = "unread" => k.due = due
=============================================================================
