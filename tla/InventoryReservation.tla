------------------------ MODULE InventoryReservation ------------------------
(***************************************************************************)
(* The inventory service's two layers of promises on its goods: contract   *)
(* versions that take effect reserve stock for their lines (reserve.go),   *)
(* picking lists turn what is reserved into what is locked and ship it     *)
(* (outbound.go), arriving goods go to the lines that wait (service.go).   *)
(*                                                                         *)
(* Every operation is one transaction at READ COMMITTED. A worker executes *)
(* it in one step, on the committed rows, and holds the rows it locked or  *)
(* wrote in tx[w] until it commits or rolls back; rows another worker has  *)
(* written and not committed are not there yet, rows another worker holds  *)
(* make it wait.                                                           *)
(*                                                                         *)
(* One stock row per item: the split over warehouses is left out, and so   *)
(* are cost and the announcements, which no service consumes.              *)
(***************************************************************************)
EXTENDS Integers, FiniteSets, Sums

CONSTANTS
  Items,        \* product and SKU
  Lines,        \* contract lines, numbered in the order of their due dates
  ItemOf, Demand,   \* the item and the quantity of a line
  VersionOf,    \* VersionOf[l]: the contract version the line belongs to
  Versions,     \* version ids; a later version has a greater id
  ContractOf,   \* ContractOf[v]: the contract v is a version of
  Receipts,     \* deliveries
  Delivery,     \* Delivery[r]: its item and quantity
  Outbounds,    \* ids of picking lists
  Frozen,       \* quantities people freeze and unfreeze
  Workers       \* concurrent transactions

ASSUME LineAssumption ==
  /\ Lines \subseteq Nat /\ Versions \subseteq Nat
  /\ ItemOf \in [Lines -> Items] /\ Demand \in [Lines -> Nat \ {0}]
  /\ VersionOf \in [Lines -> Versions] /\ DOMAIN ContractOf = Versions

ASSUME QuantityAssumption ==
  /\ Delivery \in [Receipts -> [item : Items, qty : Nat \ {0}]]
  /\ Frozen \subseteq Nat \ {0}

ASSUME FiniteAssumption ==
  IsFiniteSet(Lines) /\ IsFiniteSet(Outbounds) /\ IsFiniteSet(Receipts)

VARIABLES
  stock,        \* stock[i]: the stocks row of item i
  line,         \* line[l]: the stock_reservations row of line l; back is the
                \* quantity handed back when it was released
  outbound,     \* outbound[o]: status and quantity picked of every line
  claimed,      \* processed_events: versions and receipts dealt with
  tx            \* tx[w]: the rows worker w holds, as it has left them

rows == <<stock, line, outbound, claimed>>
vars == <<rows, tx>>

LineStates == {"none", "ACTIVE", "RELEASED", "SHIPPED"}
OutboundStates == {"none", "DRAFT", "CONFIRMED", "CANCELLED"}

Empty == <<>>
Idle == [stock |-> Empty, line |-> Empty, outbound |-> Empty, claims |-> {}]

Init ==
  /\ stock = [i \in Items |-> [onHand |-> 0, reserved |-> 0, locked |-> 0, frozen |-> 0]]
  /\ line = [l \in Lines |-> [status |-> "none", reserved |-> 0, locked |-> 0, shipped |-> 0, back |-> 0]]
  /\ outbound = [o \in Outbounds |-> [status |-> "none", picked |-> [l \in Lines |-> 0]]]
  /\ claimed = {}
  /\ tx = [w \in Workers |-> Idle]

-----------------------------------------------------------------------------
(* Quantities.                                                             *)

AtLeastZero(n) == IF n < 0 THEN 0 ELSE n
Least(m, n) == IF m < n THEN m ELSE n

(* available_qty, shortage_qty, and what of a reservation can be picked.   *)
Available(s) == s.onHand - s.reserved - s.locked - s.frozen
Short(r, l) == Demand[l] - r.reserved
Ready(r) == r.reserved - r.locked - r.shipped

LinesOf(i) == {l \in Lines : ItemOf[l] = i}
ItemsOf(L) == {ItemOf[l] : l \in L}

-----------------------------------------------------------------------------
(* The parts operations are made of. A book is the rows one transaction    *)
(* sees: what is committed, and what it has changed itself.                *)

Book == [stock |-> stock, line |-> line]

(* Mutant: what is available is read once for all of them.                 *)
TakenAtOnce(book, W) ==
  [l \in Lines |->
     IF l \in W
     THEN Least(Short(book.line[l], l), AtLeastZero(Available(book.stock[ItemOf[l]])))
     ELSE 0]

(* takeStock for the lines of W one after the other: each takes what is    *)
(* available and it is short of.                                           *)
Taken(book, W) ==
  [l \in Lines |->
     LET short == [k \in Lines |-> Short(book.line[k], k)]
         earlier == {k \in W : k < l /\ ItemOf[k] = ItemOf[l]}
         left == Available(book.stock[ItemOf[l]]) - Total(short, earlier)
     IN IF l \in W THEN Least(short[l], AtLeastZero(left)) ELSE 0]

TopUp(book, W) ==
  LET taken == Taken(book, W)
  IN [stock |-> [i \in Items |->
        [book.stock[i] EXCEPT !.reserved = @ + Total(taken, LinesOf(i))]],
      line |-> [l \in Lines |-> [book.line[l] EXCEPT !.reserved = @ + taken[l]]]]

(* CreateReservation for every line of a version.                          *)
Create(book, L) ==
  [book EXCEPT !.line = [l \in Lines |->
     IF l \in L THEN [@[l] EXCEPT !.status = "ACTIVE"] ELSE @[l]]]

(* The rest of releaseSuperseded: the whole reservation goes back.         *)
HandBack(book, L) ==
  [stock |-> [i \in Items |-> [book.stock[i] EXCEPT !.reserved =
      @ - Total([l \in Lines |-> book.line[l].reserved], L \intersect LinesOf(i))]],
   line |-> [l \in Lines |->
      IF l \in L THEN [book.line[l] EXCEPT !.status = "RELEASED", !.back = @ + book.line[l].reserved]
      ELSE book.line[l]]]

(* WaitingReservationsForItem, whatever version the lines are of.          *)
Waiting(book, I) ==
  {l \in Lines : ItemOf[l] \in I /\ book.line[l].status = "ACTIVE" /\ Short(book.line[l], l) > 0}

(* StocksForItemForUpdate locks the rows that have something available.    *)
Candidates(book, I) == {i \in I : Available(book.stock[i]) > 0}

-----------------------------------------------------------------------------
(* Transactions.                                                           *)

Others(w) == Workers \ {w}

(* Worker w has executed its statements: it leaves the stock rows of I and *)
(* the lines L as in book, and the picking lists as in lists. It could     *)
(* lock them all, and no CHECK was violated.                               *)
Execute(w, book, I, L, lists, claims) ==
  /\ tx[w] = Idle
  /\ \A v \in Others(w) :
       /\ I \intersect DOMAIN tx[v].stock = {}
       /\ L \intersect DOMAIN tx[v].line = {}
       /\ DOMAIN lists \intersect DOMAIN tx[v].outbound = {}
       /\ claims \intersect tx[v].claims = {}
  /\ \A i \in I : book.stock[i].reserved >= 0
  /\ tx' = [tx EXCEPT ![w] = [
       stock |-> [i \in I |-> book.stock[i]], line |-> [l \in L |-> book.line[l]],
       outbound |-> lists, claims |-> claims]]
  /\ UNCHANGED rows

(* The rows of f, those that g has too as g has them.                      *)
Overlay(f, g) == [x \in DOMAIN f |-> IF x \in DOMAIN g THEN g[x] ELSE f[x]]

Commit(w) ==
  /\ tx[w] # Idle
  /\ stock' = Overlay(stock, tx[w].stock)
  /\ line' = Overlay(line, tx[w].line)
  /\ outbound' = Overlay(outbound, tx[w].outbound)
  /\ claimed' = claimed \union tx[w].claims
  /\ tx' = [tx EXCEPT ![w] = Idle]

(* An error, a deadlock the database broke, a crash.                       *)
Rollback(w) ==
  /\ tx[w] # Idle
  /\ tx' = [tx EXCEPT ![w] = Idle]
  /\ UNCHANGED rows

-----------------------------------------------------------------------------
(* The events the service consumes; a claimed event is not handled again.  *)

(* Mutant: every other version of the contract counts as superseded.       *)
OtherVersions(v) ==
  {l \in Lines : line[l].status = "ACTIVE" /\ VersionOf[l] # v
                 /\ ContractOf[VersionOf[l]] = ContractOf[v]}

Superseded(v) ==
  {l \in Lines : line[l].status = "ACTIVE" /\ VersionOf[l] < v
                 /\ ContractOf[VersionOf[l]] = ContractOf[v]}

(* Locked and shipped goods stay where they are.                           *)
Uncommitted(L) == {l \in L : line[l].locked = 0 /\ line[l].shipped = 0}

(* AllocateContract: reserveLine for every line, releaseSuperseded, and    *)
(* fillWaiting with what was handed back. The stock rows' CHECK on their   *)
(* reserved_qty holds after every statement, not only at the end.          *)
AllocateContract(w, v) ==
  LET new == {l \in Lines : VersionOf[l] = v}
      old == Superseded(v)
      free == Uncommitted(old)
      reserved == TopUp(Create(Book, new), new)
      handed == HandBack(reserved, free)
      waiting == Waiting(handed, ItemsOf(free))
      touched == Candidates(Book, ItemsOf(new)) \union Candidates(handed, ItemsOf(free))
                   \union ItemsOf({l \in free : line[l].reserved > 0})
  IN /\ <<"version", v>> \notin claimed /\ new # {}
     /\ \A i \in Items : handed.stock[i].reserved >= 0
     /\ Execute(w, TopUp(handed, waiting), touched, new \union old \union waiting,
                Empty, {<<"version", v>>})

Arrived(r) ==
  [Book EXCEPT !.stock[Delivery[r].item].onHand = @ + Delivery[r].qty]

(* Mutant: the claim is not looked at.                                     *)
ReceiveAgain(w, r) ==
  LET waiting == Waiting(Book, {Delivery[r].item})
  IN Execute(w, TopUp(Arrived(r), waiting), {Delivery[r].item}, waiting,
             Empty, {<<"receipt", r>>})

(* ReceivePurchase and ReceiveStock: the goods are booked and go to the    *)
(* lines that wait for them.                                               *)
Receive(w, r) ==
  LET waiting == Waiting(Book, {Delivery[r].item})
  IN /\ <<"receipt", r>> \notin claimed
     /\ Execute(w, TopUp(Arrived(r), waiting), {Delivery[r].item}, waiting,
                Empty, {<<"receipt", r>>})

-----------------------------------------------------------------------------
(* Picking lists.                                                          *)

(* q[l] of every line goes from reserved to locked, and back.              *)
Lock(book, q) ==
  [stock |-> [i \in Items |-> [book.stock[i] EXCEPT
      !.reserved = @ - Total(q, LinesOf(i)), !.locked = @ + Total(q, LinesOf(i))]],
   line |-> [l \in Lines |-> [book.line[l] EXCEPT !.locked = @ + q[l]]]]

Unlock(book, q) == Lock(book, [l \in Lines |-> -q[l]])

Picked(q) == {l \in Lines : q[l] > 0}

(* CreateOutbound: a line that is short is topped up first; what is wanted *)
(* and not ready even then is refused.                                     *)
CreateOutbound(w, o, q) ==
  LET L == Picked(q)
      topped == TopUp(Book, {l \in L : q[l] > Ready(line[l])})
  IN /\ outbound[o].status = "none"
     /\ \A l \in L : line[l].status # "none"
     /\ \A l \in L : q[l] <= Demand[l] - line[l].shipped - line[l].locked
     /\ \A l \in L : q[l] <= Ready(topped.line[l])
     /\ Execute(w, Lock(topped, q), ItemsOf(L), L,
                [x \in {o} |-> [status |-> "DRAFT", picked |-> q]], {})

(* The goods leave. The contract's and the goods' own checks only refuse.  *)
Shipped(q) ==
  [stock |-> [i \in Items |-> [stock[i] EXCEPT
      !.onHand = @ - Total(q, LinesOf(i)), !.locked = @ - Total(q, LinesOf(i))]],
   line |-> [l \in Lines |-> [line[l] EXCEPT
      !.locked = @ - q[l], !.shipped = @ + q[l],
      !.status = IF q[l] > 0 /\ line[l].shipped + q[l] >= Demand[l] THEN "SHIPPED" ELSE @]]]

ConfirmOutbound(w, o) ==
  LET q == outbound[o].picked
  IN /\ outbound[o].status = "DRAFT"
     /\ Execute(w, Shipped(q), ItemsOf(Picked(q)), Picked(q),
                [x \in {o} |-> [outbound[o] EXCEPT !.status = "CONFIRMED"]], {})

(* Mutant: UnlockReservationQty is forgotten.                              *)
CancelStockOnly(w, o) ==
  LET q == outbound[o].picked
  IN /\ outbound[o].status = "DRAFT"
     /\ Execute(w, [Unlock(Book, q) EXCEPT !.line = line], ItemsOf(Picked(q)), Picked(q),
                [x \in {o} |-> [outbound[o] EXCEPT !.status = "CANCELLED"]], {})

CancelOutbound(w, o) ==
  LET q == outbound[o].picked
  IN /\ outbound[o].status = "DRAFT"
     /\ Execute(w, Unlock(Book, q), ItemsOf(Picked(q)), Picked(q),
                [x \in {o} |-> [outbound[o] EXCEPT !.status = "CANCELLED"]], {})

-----------------------------------------------------------------------------
(* changeFrozen: n more goods are set aside, or fewer when n is negative.  *)
FreezeBy(w, i, n) ==
  Execute(w, [Book EXCEPT !.stock[i].frozen = @ + n], {i}, {}, Empty, {})

Freeze(w, i, n) == n <= Available(stock[i]) /\ FreezeBy(w, i, n)

(* Mutant: without IV_UNFREEZE_EXCEEDS_FROZEN.                             *)
UnfreezeAny(w, i, n) == FreezeBy(w, i, -n)

Unfreeze(w, i, n) == n <= stock[i].frozen /\ FreezeBy(w, i, -n)

-----------------------------------------------------------------------------
(* What one request may ask for: lines of one contract.                    *)
Orders ==
  {q \in [Lines -> 0..Max({Demand[l] : l \in Lines})] :
     /\ Picked(q) # {} /\ \A l \in Lines : q[l] <= Demand[l]
     /\ \A k, l \in Picked(q) : ContractOf[VersionOf[k]] = ContractOf[VersionOf[l]]}

Next ==
  \E w \in Workers :
    \/ Commit(w) \/ Rollback(w)
    \/ \E v \in Versions : AllocateContract(w, v)
    \/ \E r \in Receipts : Receive(w, r)
    \/ \E o \in Outbounds : ConfirmOutbound(w, o) \/ CancelOutbound(w, o)
    \/ \E o \in Outbounds, q \in Orders : CreateOutbound(w, o, q)
    \/ \E i \in Items, n \in Frozen : Freeze(w, i, n) \/ Unfreeze(w, i, n)

Spec == Init /\ [][Next]_vars

-----------------------------------------------------------------------------
Quantities == [reserved : Nat, locked : Nat, shipped : Nat, back : Nat, status : LineStates]
Rows == [onHand : Nat, reserved : Nat, locked : Nat, frozen : Nat]
Lists == [status : OutboundStates, picked : [Lines -> Nat]]

TypeOK ==
  /\ stock \in [Items -> Rows] /\ line \in [Lines -> Quantities]
  /\ outbound \in [Outbounds -> Lists]
  /\ claimed \subseteq ({"version"} \X Versions) \union ({"receipt"} \X Receipts)
  /\ \A w \in Workers :
       /\ \A i \in DOMAIN tx[w].stock : i \in Items /\ tx[w].stock[i] \in Rows
       /\ \A l \in DOMAIN tx[w].line : l \in Lines /\ tx[w].line[l] \in Quantities
       /\ \A o \in DOMAIN tx[w].outbound : o \in Outbounds /\ tx[w].outbound[o] \in Lists

(* Held(r): what r still holds of its stock row's reserved counter.        *)
Held(r) == Ready(r) - r.back

(* What the picking lists in state s have of line l.                       *)
PickedAs(s, list, l) == IF list.status = s THEN list.picked[l] ELSE 0
PickedIn(s, l) == Total([o \in Outbounds |-> PickedAs(s, outbound[o], l)], Outbounds)

(* The counters of a stock row are the sums of what the reservations say,  *)
(* and those of a reservation the sums of its picking lists, whoever       *)
(* overtakes whom: nothing is handed back, locked, unlocked or shipped     *)
(* twice, or for one side only (reserve.go, outbound.go).                  *)
BooksBalance ==
  /\ \A i \in Items :
       /\ stock[i].reserved = Total([l \in Lines |-> Held(line[l])], LinesOf(i))
       /\ stock[i].locked = Total([l \in Lines |-> line[l].locked], LinesOf(i))
  /\ \A l \in Lines :
       /\ line[l].locked = PickedIn("DRAFT", l)
       /\ line[l].shipped = PickedIn("CONFIRMED", l)

(* What delivery r brings of item i.                                       *)
Brought(r, i) == IF Delivery[r].item = i THEN Delivery[r].qty ELSE 0

(* What is on hand is what was delivered less what has left: a delivery    *)
(* announced twice is booked once (eventclaim.go), a picking list          *)
(* confirmed twice ships once.                                             *)
GoodsConserved ==
  \A i \in Items :
    stock[i].onHand + Total([l \in Lines |-> line[l].shipped], LinesOf(i))
      = Total([r \in Receipts |-> IF <<"receipt", r>> \in claimed THEN Brought(r, i) ELSE 0], Receipts)

(* No more is promised than is there (the CHECKs of 00001_stock.sql:54-56  *)
(* and 00003_outbound.sql:30-31): the operations never even try, so that   *)
(* none of them fails on a CHECK the model does not enforce.               *)
NeverOversold ==
  /\ \A i \in Items : Available(stock[i]) >= 0
  /\ \A l \in Lines : Ready(line[l]) >= 0 /\ Short(line[l], l) >= 0

(* A reservation is given up only for a later version of its contract that *)
(* has taken its own, and never with goods of it on a picking list or out  *)
(* of the door, in whatever order the versions' events come                *)
(* (reserve.go:258-269).                                                   *)
ReleasedOnlySuperseded ==
  [][\A l \in Lines :
       line[l].status = "ACTIVE" /\ line'[l].status = "RELEASED" =>
         /\ line[l].locked = 0 /\ line[l].shipped = 0
         /\ \E k \in Lines : /\ line'[k].status = "ACTIVE" /\ VersionOf[k] > VersionOf[l]
                             /\ ContractOf[VersionOf[k]] = ContractOf[VersionOf[l]]]_vars

-----------------------------------------------------------------------------
(* What comments say and the code does not keep.                           *)

(* "A line may only draw on what stock is actually holding for it"         *)
(* (outbound.go:53-58): the goods reserved for the lines in force are      *)
(* there.                                                                  *)
LinesAreBacked ==
  \A i \in Items :
    stock[i].reserved >= Total([l \in Lines |-> Ready(line[l])],
                               {l \in LinesOf(i) : line[l].status = "ACTIVE"})

(* Stock that arrives late is claimed too (service.go:237-244): when all   *)
(* is quiet no goods are available that a line waits for.                  *)
NothingSitsIdle ==
  (\A w \in Workers : tx[w] = Idle) =>
    \A i \in Items : Available(stock[i]) > 0 => Waiting(Book, {i}) = {}
=============================================================================
