--------------------- MODULE InventoryReservation_proofs ---------------------
(***************************************************************************)
(* That the inventory's books balance, that no goods are promised twice    *)
(* and that reservations are given up for a later version only, for any    *)
(* numbers of items, lines, versions, receipts, picking lists and workers. *)
(***************************************************************************)
EXTENDS InventoryReservation, Sums_proofs

-----------------------------------------------------------------------------
(* The inductive invariant.                                                *)

Arrivals(i, claims) ==
  Total([r \in Receipts |-> IF <<"receipt", r>> \in claims THEN Brought(r, i) ELSE 0], Receipts)

Claims == ({"version"} \X Versions) \union ({"receipt"} \X Receipts)

(* The rows worker w sees: the committed ones and its own.                 *)
SeenBy(w) == [stock |-> Overlay(stock, tx[w].stock), line |-> Overlay(line, tx[w].line)]
ListsOf(w) == Overlay(outbound, tx[w].outbound)

(* Books no CHECK refuses, but for a reserved counter below zero, which a  *)
(* transaction may come to before its statements are checked.              *)
SoundBook(book) ==
  /\ book.stock \in [Items -> [onHand : Nat, reserved : Int, locked : Nat, frozen : Nat]]
  /\ book.line \in [Lines -> Quantities]
  /\ \A i \in Items : Available(book.stock[i]) >= 0
  /\ \A l \in Lines : Ready(book.line[l]) >= 0 /\ Short(book.line[l], l) >= 0

(* From b to c the stock rows change by what their lines change by.        *)
Balanced(b, c) ==
  \A i \in Items :
    /\ c.stock[i].reserved - b.stock[i].reserved
         = Total([l \in Lines |-> Held(c.line[l]) - Held(b.line[l])], LinesOf(i))
    /\ c.stock[i].locked - b.stock[i].locked
         = Total([l \in Lines |-> c.line[l].locked - b.line[l].locked], LinesOf(i))

(* From b to c goods come and go as the claims say.                        *)
Conserved(b, c, claims) ==
  \A i \in Items :
    c.stock[i].onHand - b.stock[i].onHand
        + Total([l \in Lines |-> c.line[l].shipped - b.line[l].shipped], LinesOf(i))
      = Arrivals(i, claims)

(* From b to c the lines change by what the picking lists change by from   *)
(* x to y.                                                                 *)
Listed(b, c, x, y) ==
  \A l \in Lines :
    /\ c.line[l].locked - b.line[l].locked
         = Total([o \in Outbounds |-> PickedAs("DRAFT", y[o], l) - PickedAs("DRAFT", x[o], l)], Outbounds)
    /\ c.line[l].shipped - b.line[l].shipped
         = Total([o \in Outbounds |-> PickedAs("CONFIRMED", y[o], l) - PickedAs("CONFIRMED", x[o], l)],
                 Outbounds)

(* The lines of L that are given up from b to c, and what for.             *)
GivenUp(b, c, L) ==
  \A l \in L :
    b.line[l].status = "ACTIVE" /\ c.line[l].status = "RELEASED" =>
      /\ b.line[l].locked = 0 /\ b.line[l].shipped = 0
      /\ \E k \in L : /\ c.line[k].status = "ACTIVE" /\ VersionOf[k] > VersionOf[l]
                      /\ ContractOf[VersionOf[k]] = ContractOf[VersionOf[l]]

Types ==
  /\ TypeOK
  /\ DOMAIN tx = Workers
  /\ \A w \in Workers : tx[w].claims \subseteq Claims

(* No two workers hold the same row, and nobody claims what is claimed.    *)
Apart ==
  /\ \A v, w \in Workers : v # w =>
       /\ DOMAIN tx[v].stock \intersect DOMAIN tx[w].stock = {}
       /\ DOMAIN tx[v].line \intersect DOMAIN tx[w].line = {}
       /\ DOMAIN tx[v].outbound \intersect DOMAIN tx[w].outbound = {}
       /\ tx[v].claims \intersect tx[w].claims = {}
  /\ \A w \in Workers : tx[w].claims \intersect claimed = {}

(* From b and the picking lists x to c and y the books are kept, with the  *)
(* lines of L held and claims dealt with.                                  *)
KeepsBooks(b, x, c, y, L, claims) ==
  /\ SoundBook(c)
  /\ Balanced(b, c)
  /\ Conserved(b, c, claims)
  /\ Listed(b, c, x, y)
  /\ GivenUp(b, c, L)

(* What worker w is about to commit keeps the books.                       *)
InStep(w) == KeepsBooks(Book, outbound, SeenBy(w), ListsOf(w), DOMAIN tx[w].line, tx[w].claims)

IInv ==
  /\ Types /\ Apart
  /\ SoundBook(Book)
  /\ BooksBalance /\ GoodsConserved
  /\ \A w \in Workers : InStep(w)

(* From b to c at most the stock rows of I and the lines of L change.      *)
ChangesOnly(b, c, I, L) ==
  /\ \A i \in Items : i \notin I => c.stock[i] = b.stock[i]
  /\ \A l \in Lines : l \notin L => c.line[l] = b.line[l]

(* From b to c no goods move: what changes is what is reserved for whom.   *)
Stays(b, c) ==
  /\ \A i \in Items : c.stock[i].onHand = b.stock[i].onHand /\ c.stock[i].locked = b.stock[i].locked
  /\ \A l \in Lines : c.line[l].locked = b.line[l].locked /\ c.line[l].shipped = b.line[l].shipped

(* From b to c line l holds d[l] more, and e[l] more of it is locked.      *)
ChangesBy(b, c, d, e) ==
  /\ \A l \in Lines : /\ d[l] \in Int /\ Held(c.line[l]) - Held(b.line[l]) = d[l]
                      /\ e[l] \in Int /\ c.line[l].locked - b.line[l].locked = e[l]
  /\ \A i \in Items : /\ c.stock[i].reserved - b.stock[i].reserved = Total(d, LinesOf(i))
                      /\ c.stock[i].locked - b.stock[i].locked = Total(e, LinesOf(i))

(* The books are in order: BooksBalance and GoodsConserved of given rows.  *)
InOrder(st, ln, ob, cl) ==
  /\ \A i \in Items :
       /\ st[i].reserved = Total([l \in Lines |-> Held(ln[l])], LinesOf(i))
       /\ st[i].locked = Total([l \in Lines |-> ln[l].locked], LinesOf(i))
       /\ st[i].onHand + Total([l \in Lines |-> ln[l].shipped], LinesOf(i)) = Arrivals(i, cl)
  /\ \A l \in Lines :
       /\ ln[l].locked = Total([o \in Outbounds |-> PickedAs("DRAFT", ob[o], l)], Outbounds)
       /\ ln[l].shipped = Total([o \in Outbounds |-> PickedAs("CONFIRMED", ob[o], l)], Outbounds)

-----------------------------------------------------------------------------
(* takeStock takes no more than there is.                                  *)

(* A finite set of numbers has a greatest one.                             *)
LEMMA Greatest ==
  ASSUME NEW S, IsFiniteSet(S), S \subseteq Nat, S # {}
  PROVE  \E m \in S : \A x \in S : x <= m
  <1>. DEFINE C == {U \in SUBSET S : U = {} \/ \E m \in U : \A x \in U : x <= m}
  <1>1. {} \in C
    OBVIOUS
  <1>2. ASSUME NEW U \in SUBSET S, NEW x \in S, x \notin U, U \in C
        PROVE  U \union {x} \in C
    <2>1. CASE U = {}
      BY <2>1
    <2>2. CASE U # {}
      <3>1. PICK m \in U : \A y \in U : y <= m
        BY <1>2, <2>2
      <3>2. CASE x <= m
        BY <3>1, <3>2
      <3>3. CASE ~ (x <= m)
        <4>1. \A y \in U \union {x} : y <= x
          BY <3>1, <3>3
        <4>. QED  BY <4>1
      <3>. QED  BY <3>2, <3>3
    <2>. QED  BY <2>1, <2>2
  <1>3. S \in C
    <2>. HIDE DEF C
    <2>. QED  BY <1>1, <1>2, SetInduction
  <1>. QED  BY <1>3

LEMMA LinesFinite ==
  /\ \A i \in Items : IsFiniteSet(LinesOf(i)) /\ LinesOf(i) \subseteq Lines
  /\ \A S \in SUBSET Lines : IsFiniteSet(S)
  BY FiniteAssumption, FS_Subset DEF LinesOf

(* What the lines of W take of the goods: none more than it is short of,   *)
(* all of them together no more than is available, and nothing of an item  *)
(* of which nothing is.                                                    *)
LEMMA TakenBounds ==
  ASSUME NEW book, NEW W \in SUBSET Lines,
         \A i \in Items : Available(book.stock[i]) \in Int,
         \A l \in Lines : Short(book.line[l], l) \in Nat
  PROVE  /\ \A l \in Lines : /\ Taken(book, W)[l] \in Nat
                             /\ Taken(book, W)[l] <= Short(book.line[l], l)
                             /\ l \notin W => Taken(book, W)[l] = 0
         /\ \A i \in Items :
              /\ Total(Taken(book, W), LinesOf(i)) \in Nat
              /\ Total(Taken(book, W), LinesOf(i)) <= AtLeastZero(Available(book.stock[i]))
         /\ \A i \in Items : i \notin Candidates(book, ItemsOf(W)) =>
              \A l \in LinesOf(i) : Taken(book, W)[l] = 0
  <1>. DEFINE short == [k \in Lines |-> Short(book.line[k], k)]
              earlier(l) == {k \in W : k < l /\ ItemOf[k] = ItemOf[l]}
              left(l) == Available(book.stock[ItemOf[l]]) - Total(short, earlier(l))
              taken == Taken(book, W)
  <1>1. \A l \in Lines : taken[l] = IF l \in W THEN Least(short[l], AtLeastZero(left(l))) ELSE 0
    BY DEF Taken
  <1>2. \A l \in Lines : short[l] \in Nat /\ short[l] = Short(book.line[l], l) /\ ItemOf[l] \in Items
    BY LineAssumption
  <1>3. \A l \in Lines : earlier(l) \in SUBSET Lines
    OBVIOUS
  <1>. HIDE DEF short
  <1>4. \A S \in SUBSET Lines : Total(short, S) \in Nat
    BY <1>2, LinesFinite, SumOfNaturals
  <1>5. \A l \in Lines : Total(short, earlier(l)) \in Nat /\ left(l) \in Int
                         /\ left(l) <= Available(book.stock[ItemOf[l]])
    <2>. HIDE DEF earlier
    <2>1. \A l \in Lines : Total(short, earlier(l)) \in Nat
      BY <1>3, <1>4
    <2>. QED  BY <2>1, <1>2
  <1>. HIDE DEF taken, left, earlier
  <1>6. \A l \in Lines : taken[l] \in Nat /\ taken[l] <= short[l] /\ (l \notin W => taken[l] = 0)
    BY <1>1, <1>2, <1>5 DEF Least, AtLeastZero
  <1>7. \A l \in Lines : taken[l] > 0 => l \in W /\ taken[l] <= left(l)
    BY <1>1, <1>2, <1>5 DEF Least, AtLeastZero
  <1>8. ASSUME NEW i \in Items
        PROVE  Total(taken, LinesOf(i)) \in Nat
               /\ Total(taken, LinesOf(i)) <= AtLeastZero(Available(book.stock[i]))
    <2>. DEFINE S == {l \in LinesOf(i) : taken[l] > 0}
    <2>0. S \in SUBSET Lines /\ LinesOf(i) \in SUBSET Lines /\ S \in SUBSET LinesOf(i)
          /\ IsFiniteSet(S) /\ IsFiniteSet(LinesOf(i))
      BY LinesFinite
    <2>1. Total(taken, LinesOf(i)) \in Nat
      BY <1>6, <2>0, SumOfNaturals
    <2>2. Total(taken, LinesOf(i)) = Total(taken, S)
      <3>1. \A l \in LinesOf(i) \ S : taken[l] = 0
        BY <1>6, <2>0
      <3>2. \A l \in S : taken[l] \in Int
        BY <1>6, <2>0
      <3>. HIDE DEF S
      <3>. QED  BY <2>0, <3>1, <3>2, SumWithin
    <2>3. CASE S = {}
      BY <2>1, <2>2, <2>3, SumOfNone DEF AtLeastZero
    <2>4. CASE S # {}
      <3>1. S \subseteq Nat
        BY LineAssumption, <2>0
      <3>2. PICK m \in S : \A x \in S : x <= m
        <4>. HIDE DEF S
        <4>. QED  BY <2>0, <2>4, <3>1, Greatest
      <3>3. m \in Lines /\ ItemOf[m] = i /\ taken[m] <= left(m) /\ taken[m] \in Nat
        BY <2>0, <1>6, <1>7 DEF LinesOf
      <3>. DEFINE R == S \ {m}
      <3>4. R \subseteq earlier(m)
        <4>1. \A x \in R : x \in W /\ x < m /\ ItemOf[x] = i
          BY <2>0, <3>1, <3>2, <1>7 DEF LinesOf
        <4>. QED  BY <4>1, <3>3 DEF earlier
      <3>5. Total(taken, S) = taken[m] + Total(taken, R)
        <4>1. \A x \in S : taken[x] \in Int
          BY <1>6, <2>0
        <4>. HIDE DEF S
        <4>. QED  BY <2>0, <4>1, SumOfUnion
      <3>6. R \in SUBSET Lines /\ IsFiniteSet(R)
        BY <2>0, LinesFinite
      <3>7. Total(taken, R) <= Total(short, R)
        <4>1. \A x \in R : taken[x] \in Int /\ short[x] \in Int /\ taken[x] <= short[x]
          BY <1>2, <1>6, <3>6
        <4>. HIDE DEF R
        <4>. QED  BY <3>6, <4>1, SumsInOrder
      <3>8. Total(short, R) <= Total(short, earlier(m))
        <4>1. \A x \in earlier(m) : short[x] \in Nat
          BY <1>2, <1>3, <3>3
        <4>2. IsFiniteSet(earlier(m))
          BY <1>3, <3>3, LinesFinite
        <4>. HIDE DEF R
        <4>. QED  BY <3>4, <4>1, <4>2, SumOfFewer
      <3>9. /\ Total(taken, R) \in Int /\ Total(short, R) \in Int
            /\ left(m) = Available(book.stock[i]) - Total(short, earlier(m))
            /\ Total(short, earlier(m)) \in Int
            /\ Available(book.stock[i]) \in Int
        <4>1. \A x \in R : taken[x] \in Int
          BY <1>6, <3>6
        <4>2. Total(taken, R) \in Int
          <5>. HIDE DEF R
          <5>. QED  BY <3>6, <4>1, SumType
        <4>. HIDE DEF R
        <4>. QED  BY <1>4, <1>5, <3>3, <3>6, <4>2 DEF left
      <3>. HIDE DEF R, S
      <3>. QED  BY <2>1, <2>2, <3>3, <3>5, <3>7, <3>8, <3>9 DEF AtLeastZero
    <2>. QED  BY <2>1, <2>3, <2>4
  <1>9. ASSUME NEW i \in Items, i \notin Candidates(book, ItemsOf(W)), NEW l \in LinesOf(i)
        PROVE  taken[l] = 0
    <2>1. l \in Lines /\ ItemOf[l] = i
      BY DEF LinesOf
    <2>2. CASE l \notin W
      BY <1>6, <2>1, <2>2
    <2>3. CASE l \in W
      <3>1. i \in ItemsOf(W)
        BY <2>1, <2>3 DEF ItemsOf
      <3>2. ~ (Available(book.stock[i]) > 0)
        BY <1>9, <3>1 DEF Candidates
      <3>. QED  BY <1>5, <1>6, <1>7, <2>1, <3>2
    <2>. QED  BY <2>2, <2>3
  <1>10. \A i \in Items : i \notin Candidates(book, ItemsOf(W)) => \A l \in LinesOf(i) : taken[l] = 0
    BY <1>9
  <1>11. \A l \in Lines : taken[l] <= Short(book.line[l], l)
    BY <1>2, <1>6
  <1>. QED  BY <1>6, <1>8, <1>10, <1>11 DEF taken

-----------------------------------------------------------------------------
(* The parts of the operations keep the books.                             *)

LEMMA BalancedBy ==
  ASSUME NEW b, NEW c, NEW d, NEW e, ChangesBy(b, c, d, e)
  PROVE  Balanced(b, c)
  <1>. DEFINE held == [l \in Lines |-> Held(c.line[l]) - Held(b.line[l])]
              locked == [l \in Lines |-> c.line[l].locked - b.line[l].locked]
  <1>. SUFFICES ASSUME NEW i \in Items
                PROVE  Total(held, LinesOf(i)) = Total(d, LinesOf(i))
                       /\ Total(locked, LinesOf(i)) = Total(e, LinesOf(i))
    BY DEF Balanced, ChangesBy
  <1>1. \A l \in LinesOf(i) : held[l] = d[l] /\ held[l] \in Int /\ locked[l] = e[l] /\ locked[l] \in Int
    BY LinesFinite DEF ChangesBy
  <1>. HIDE DEF held, locked
  <1>. QED  BY <1>1, LinesFinite, SumsAgree

(* A book no number of which is anything but a number.                     *)
LEMMA SoundTypes ==
  ASSUME NEW b, SoundBook(b)
  PROVE  /\ \A i \in Items : /\ b.stock[i] \in [onHand : Nat, reserved : Int, locked : Nat, frozen : Nat]
                             /\ Available(b.stock[i]) \in Nat
         /\ \A l \in Lines : /\ b.line[l] \in Quantities
                             /\ Short(b.line[l], l) \in Nat /\ Ready(b.line[l]) \in Nat
                             /\ Held(b.line[l]) \in Int /\ Demand[l] \in Nat /\ ItemOf[l] \in Items
  <1>1. \A i \in Items : /\ b.stock[i] \in [onHand : Nat, reserved : Int, locked : Nat, frozen : Nat]
                         /\ Available(b.stock[i]) \in Nat
    BY DEF SoundBook, Available
  <1>2. \A l \in Lines : b.line[l] \in Quantities /\ Demand[l] \in Nat /\ ItemOf[l] \in Items
    BY LineAssumption DEF SoundBook
  <1>3. \A l \in Lines : Ready(b.line[l]) \in Nat /\ Held(b.line[l]) \in Int
    BY <1>2 DEF SoundBook, Quantities, Ready, Held
  <1>4. \A l \in Lines : Short(b.line[l], l) \in Nat
    BY <1>2 DEF SoundBook, Quantities, Short
  <1>. QED  BY <1>1, <1>2, <1>3, <1>4

LEMMA BalancedTwice ==
  ASSUME NEW b, NEW c, NEW d, SoundBook(b), SoundBook(c), SoundBook(d),
         Balanced(b, c), Balanced(c, d)
  PROVE  Balanced(b, d)
  <1>. DEFINE held(x, y) == [l \in Lines |-> Held(y.line[l]) - Held(x.line[l])]
              locked(x, y) == [l \in Lines |-> y.line[l].locked - x.line[l].locked]
  <1>. SUFFICES ASSUME NEW i \in Items
                PROVE  /\ d.stock[i].reserved - b.stock[i].reserved = Total(held(b, d), LinesOf(i))
                       /\ d.stock[i].locked - b.stock[i].locked = Total(locked(b, d), LinesOf(i))
    BY DEF Balanced
  <1>1. \A l \in LinesOf(i) :
          /\ held(b, c)[l] \in Int /\ held(c, d)[l] \in Int
          /\ held(b, d)[l] = held(b, c)[l] + held(c, d)[l]
          /\ locked(b, c)[l] \in Int /\ locked(c, d)[l] \in Int
          /\ locked(b, d)[l] = locked(b, c)[l] + locked(c, d)[l]
    BY SoundTypes, LinesFinite DEF Quantities
  <1>2. /\ c.stock[i].reserved - b.stock[i].reserved = Total(held(b, c), LinesOf(i))
        /\ d.stock[i].reserved - c.stock[i].reserved = Total(held(c, d), LinesOf(i))
        /\ c.stock[i].locked - b.stock[i].locked = Total(locked(b, c), LinesOf(i))
        /\ d.stock[i].locked - c.stock[i].locked = Total(locked(c, d), LinesOf(i))
    BY DEF Balanced
  <1>3. \A x \in {b, c, d} : x.stock[i].reserved \in Int /\ x.stock[i].locked \in Int
    BY SoundTypes
  <1>. HIDE DEF held, locked
  <1>4. /\ Total(held(b, d), LinesOf(i)) = Total(held(b, c), LinesOf(i)) + Total(held(c, d), LinesOf(i))
        /\ Total(locked(b, d), LinesOf(i)) = Total(locked(b, c), LinesOf(i)) + Total(locked(c, d), LinesOf(i))
    BY <1>1, LinesFinite, SumOfSums
  <1>. QED  BY <1>2, <1>3, <1>4

LEMMA TopUpKeeps ==
  ASSUME NEW b, SoundBook(b), NEW W \in SUBSET Lines
  PROVE  /\ SoundBook(TopUp(b, W)) /\ Balanced(b, TopUp(b, W)) /\ Stays(b, TopUp(b, W))
         /\ ChangesOnly(b, TopUp(b, W), Candidates(b, ItemsOf(W)), W)
         /\ \A l \in Lines : TopUp(b, W).line[l].status = b.line[l].status
  <1>. DEFINE taken == Taken(b, W)
              sum(i) == Total(taken, LinesOf(i))
              c == TopUp(b, W)
  <1>1. /\ \A l \in Lines : /\ taken[l] \in Nat /\ taken[l] <= Short(b.line[l], l)
                            /\ l \notin W => taken[l] = 0
        /\ \A i \in Items : sum(i) \in Nat /\ sum(i) <= Available(b.stock[i])
        /\ \A i \in Items : i \notin Candidates(b, ItemsOf(W)) => sum(i) = 0
    <2>1. /\ \A l \in Lines : /\ taken[l] \in Nat /\ taken[l] <= Short(b.line[l], l)
                              /\ l \notin W => taken[l] = 0
          /\ \A i \in Items : sum(i) \in Nat /\ sum(i) <= AtLeastZero(Available(b.stock[i]))
          /\ \A i \in Items : i \notin Candidates(b, ItemsOf(W)) => \A l \in LinesOf(i) : taken[l] = 0
      BY SoundTypes, TakenBounds
    <2>2. \A i \in Items : AtLeastZero(Available(b.stock[i])) = Available(b.stock[i])
      BY SoundTypes DEF AtLeastZero
    <2>. HIDE DEF taken
    <2>3. \A i \in Items : i \notin Candidates(b, ItemsOf(W)) => sum(i) = 0
      BY <2>1, LinesFinite, SumOfNothing
    <2>. HIDE DEF sum
    <2>. QED  BY <2>1, <2>2, <2>3
  <1>2. /\ \A i \in Items : c.stock[i] = [b.stock[i] EXCEPT !.reserved = @ + sum(i)]
        /\ \A l \in Lines : c.line[l] = [b.line[l] EXCEPT !.reserved = @ + taken[l]]
        /\ DOMAIN c.stock = Items /\ DOMAIN c.line = Lines
        /\ c.stock = [i \in Items |-> c.stock[i]] /\ c.line = [l \in Lines |-> c.line[l]]
    BY DEF TopUp
  <1>. HIDE DEF taken, sum, c
  <1>3. ASSUME NEW i \in Items
        PROVE  /\ c.stock[i] \in [onHand : Nat, reserved : Int, locked : Nat, frozen : Nat]
               /\ Available(c.stock[i]) >= 0
               /\ c.stock[i].reserved - b.stock[i].reserved = sum(i)
               /\ c.stock[i].onHand = b.stock[i].onHand /\ c.stock[i].locked = b.stock[i].locked
               /\ i \notin Candidates(b, ItemsOf(W)) => c.stock[i] = b.stock[i]
    <2>. DEFINE s == b.stock[i]
                n == sum(i)
                t == c.stock[i]
    <2>1. /\ s \in [onHand : Nat, reserved : Int, locked : Nat, frozen : Nat]
          /\ Available(s) \in Nat
      BY SoundTypes
    <2>2. /\ n \in Nat /\ n <= Available(s) /\ (i \notin Candidates(b, ItemsOf(W)) => n = 0)
          /\ t = [s EXCEPT !.reserved = @ + n]
      BY <1>1, <1>2
    <2>. HIDE DEF s, n, t
    <2>3. /\ t \in [onHand : Nat, reserved : Int, locked : Nat, frozen : Nat]
          /\ t.reserved - s.reserved = n
          /\ t.onHand = s.onHand /\ t.locked = s.locked /\ t.frozen = s.frozen
          /\ n = 0 => t = s
      BY <2>1, <2>2
    <2>4. Available(t) >= 0
      BY <2>1, <2>2, <2>3 DEF Available
    <2>. QED  BY <2>2, <2>3, <2>4 DEF s, n, t
  <1>4. ASSUME NEW l \in Lines
        PROVE  /\ c.line[l] \in Quantities /\ Ready(c.line[l]) >= 0 /\ Short(c.line[l], l) >= 0
               /\ Held(c.line[l]) - Held(b.line[l]) = taken[l]
               /\ c.line[l].locked = b.line[l].locked /\ c.line[l].shipped = b.line[l].shipped
               /\ c.line[l].status = b.line[l].status
               /\ l \notin W => c.line[l] = b.line[l]
    <2>. DEFINE r == b.line[l]
                n == taken[l]
                t == c.line[l]
    <2>1. r \in Quantities /\ Short(r, l) \in Nat /\ Ready(r) \in Nat /\ Demand[l] \in Nat
      BY SoundTypes
    <2>2. n \in Nat /\ n <= Short(r, l) /\ (l \notin W => n = 0) /\ t = [r EXCEPT !.reserved = @ + n]
      BY <1>1, <1>2
    <2>. HIDE DEF r, n, t
    <2>3. /\ t \in Quantities /\ t.reserved = r.reserved + n /\ t.locked = r.locked
          /\ t.shipped = r.shipped /\ t.back = r.back /\ t.status = r.status
          /\ n = 0 => t = r
      BY <2>1, <2>2 DEF Quantities
    <2>4. Ready(t) >= 0 /\ Short(t, l) >= 0 /\ Held(t) - Held(r) = n
      BY <2>1, <2>2, <2>3 DEF Quantities, Ready, Short, Held
    <2>. QED  BY <2>2, <2>3, <2>4 DEF r, n, t
  <1>5. SoundBook(c)
    BY <1>2, <1>3, <1>4 DEF SoundBook
  <1>6. Stays(b, c) /\ ChangesOnly(b, c, Candidates(b, ItemsOf(W)), W)
    BY <1>3, <1>4 DEF Stays, ChangesOnly
  <1>7. Balanced(b, c)
    <2>. DEFINE none == [l \in Lines |-> 0]
    <2>1. \A i \in Items : Total(none, LinesOf(i)) = 0
      BY LinesFinite, SumOfNothing
    <2>2. \A l \in Lines : none[l] \in Int /\ c.line[l].locked - b.line[l].locked = none[l]
      BY <1>4, SoundTypes DEF Quantities
    <2>3. \A i \in Items : c.stock[i].locked - b.stock[i].locked = 0
      BY <1>3, SoundTypes
    <2>. HIDE DEF none
    <2>4. \A i \in Items : /\ c.stock[i].reserved - b.stock[i].reserved = Total(taken, LinesOf(i))
                           /\ c.stock[i].locked - b.stock[i].locked = Total(none, LinesOf(i))
      BY <1>3, <2>1, <2>3 DEF sum
    <2>5. \A l \in Lines : /\ taken[l] \in Int /\ Held(c.line[l]) - Held(b.line[l]) = taken[l]
                           /\ none[l] \in Int /\ c.line[l].locked - b.line[l].locked = none[l]
      BY <1>1, <1>4, <2>2
    <2>6. ChangesBy(b, c, taken, none)
      BY <2>4, <2>5, Zenon DEF ChangesBy
    <2>. QED  BY <2>6, BalancedBy
  <1>. QED  BY <1>4, <1>5, <1>6, <1>7 DEF c

(* Reservations that are only just made hold nothing yet.                  *)
LEMMA CreateKeeps ==
  ASSUME NEW b, SoundBook(b), NEW L \in SUBSET Lines
  PROVE  /\ SoundBook(Create(b, L)) /\ Balanced(b, Create(b, L)) /\ Stays(b, Create(b, L))
         /\ ChangesOnly(b, Create(b, L), {}, L)
         /\ Create(b, L).stock = b.stock
         /\ \A l \in Lines : Create(b, L).line[l].status = IF l \in L THEN "ACTIVE" ELSE b.line[l].status
  <1>. DEFINE c == Create(b, L)
              none == [l \in Lines |-> 0]
  <1>1. /\ c.stock = b.stock
        /\ c.line = [l \in Lines |-> IF l \in L THEN [b.line[l] EXCEPT !.status = "ACTIVE"] ELSE b.line[l]]
    BY DEF Create
  <1>. HIDE DEF c
  <1>2. ASSUME NEW l \in Lines
        PROVE  /\ c.line[l] \in Quantities /\ Ready(c.line[l]) >= 0 /\ Short(c.line[l], l) >= 0
               /\ Held(c.line[l]) - Held(b.line[l]) = 0
               /\ c.line[l].locked - b.line[l].locked = 0
               /\ c.line[l].locked = b.line[l].locked /\ c.line[l].shipped = b.line[l].shipped
               /\ c.line[l].status = IF l \in L THEN "ACTIVE" ELSE b.line[l].status
               /\ l \notin L => c.line[l] = b.line[l]
    <2>. DEFINE r == b.line[l]
                t == c.line[l]
    <2>1. r \in Quantities /\ Short(r, l) \in Nat /\ Ready(r) \in Nat /\ Demand[l] \in Nat
      BY SoundTypes
    <2>2. t = IF l \in L THEN [r EXCEPT !.status = "ACTIVE"] ELSE r
      BY <1>1
    <2>. HIDE DEF r, t
    <2>3. /\ t \in Quantities /\ t.reserved = r.reserved /\ t.locked = r.locked
          /\ t.shipped = r.shipped /\ t.back = r.back
          /\ t.status = IF l \in L THEN "ACTIVE" ELSE r.status
      BY <2>1, <2>2 DEF Quantities, LineStates
    <2>4. Ready(t) >= 0 /\ Short(t, l) >= 0 /\ Held(t) - Held(r) = 0 /\ t.locked - r.locked = 0
      BY <2>1, <2>2, <2>3 DEF Quantities, Ready, Short, Held
    <2>. QED  BY <2>2, <2>3, <2>4 DEF r, t
  <1>3. SoundBook(c)
    BY <1>1, <1>2 DEF SoundBook
  <1>4. Stays(b, c) /\ ChangesOnly(b, c, {}, L)
    BY <1>1, <1>2 DEF Stays, ChangesOnly
  <1>5. Balanced(b, c)
    <2>1. \A i \in Items : Total(none, LinesOf(i)) = 0
      BY LinesFinite, SumOfNothing
    <2>2. \A i \in Items : c.stock[i].reserved - b.stock[i].reserved = 0
                           /\ c.stock[i].locked - b.stock[i].locked = 0
      BY <1>1, SoundTypes
    <2>3. \A l \in Lines : none[l] \in Int /\ none[l] = 0
      OBVIOUS
    <2>. HIDE DEF none
    <2>4. ChangesBy(b, c, none, none)
      BY <1>2, <2>1, <2>2, <2>3 DEF ChangesBy
    <2>. QED  BY <2>4, BalancedBy
  <1>. QED  BY <1>1, <1>2, <1>3, <1>4, <1>5 DEF c

(* What is handed back of a line is what its stock row has less reserved.  *)
LEMMA HandBackKeeps ==
  ASSUME NEW b, SoundBook(b), NEW L \in SUBSET Lines
  PROVE  /\ SoundBook(HandBack(b, L)) /\ Balanced(b, HandBack(b, L)) /\ Stays(b, HandBack(b, L))
         /\ ChangesOnly(b, HandBack(b, L), ItemsOf({l \in L : b.line[l].reserved > 0}), L)
         /\ \A l \in Lines : HandBack(b, L).line[l].status = IF l \in L THEN "RELEASED" ELSE b.line[l].status
  <1>. DEFINE c == HandBack(b, L)
              all == [l \in Lines |-> b.line[l].reserved]
              back == [l \in Lines |-> IF l \in L THEN all[l] ELSE 0]
              less == [l \in Lines |-> -back[l]]
              none == [l \in Lines |-> 0]
              sum(i) == Total(back, LinesOf(i))
  <1>0. \A l \in Lines : /\ all[l] \in Nat /\ back[l] \in Nat /\ less[l] \in Int
                         /\ all[l] = b.line[l].reserved
                         /\ less[l] = -back[l] /\ none[l] = 0 /\ none[l] \in Int
                         /\ back[l] = IF l \in L THEN all[l] ELSE 0
    BY SoundTypes DEF Quantities
  <1>1. /\ \A i \in Items : c.stock[i] = [b.stock[i] EXCEPT !.reserved = @ - Total(all, L \intersect LinesOf(i))]
        /\ \A l \in Lines : c.line[l] =
             IF l \in L THEN [b.line[l] EXCEPT !.status = "RELEASED", !.back = @ + b.line[l].reserved]
             ELSE b.line[l]
        /\ DOMAIN c.stock = Items /\ DOMAIN c.line = Lines
        /\ c.stock = [i \in Items |-> c.stock[i]] /\ c.line = [l \in Lines |-> c.line[l]]
    BY DEF HandBack
  <1>2. \A i \in Items :
          /\ sum(i) \in Nat /\ Total(none, LinesOf(i)) = 0 /\ Total(less, LinesOf(i)) = -sum(i)
          /\ i \notin ItemsOf({l \in L : b.line[l].reserved > 0}) => sum(i) = 0
          /\ sum(i) = Total(all, L \intersect LinesOf(i))
    <2>. HIDE DEF all, back, less, none
    <2>1. ASSUME NEW i \in Items
          PROVE  /\ sum(i) \in Nat /\ Total(none, LinesOf(i)) = 0 /\ Total(less, LinesOf(i)) = -sum(i)
                 /\ sum(i) = Total(all, L \intersect LinesOf(i))
      <3>1. IsFiniteSet(LinesOf(i)) /\ LinesOf(i) \subseteq Lines
        BY LinesFinite
      <3>2. \A l \in LinesOf(i) : /\ all[l] \in Int /\ back[l] \in Nat /\ back[l] \in Int /\ less[l] = -back[l]
                                  /\ none[l] = 0 /\ back[l] = IF l \in L THEN all[l] ELSE 0
        BY <1>0, <3>1
      <3>3. sum(i) \in Nat
        BY <3>1, <3>2, SumOfNaturals
      <3>4. Total(none, LinesOf(i)) = 0
        BY <3>1, <3>2, SumOfNothing
      <3>5. Total(less, LinesOf(i)) = -sum(i)
        BY <3>1, <3>2, SumOfOpposites
      <3>6. sum(i) = Total(all, L \intersect LinesOf(i))
        <4>1. /\ \A l \in L \intersect LinesOf(i) : back[l] = all[l] /\ all[l] \in Int
              /\ \A l \in LinesOf(i) \ L : back[l] = 0
          BY <3>2
        <4>. QED  BY <3>1, <4>1, SumOfPart
      <3>. QED  BY <3>3, <3>4, <3>5, <3>6
    <2>2. ASSUME NEW i \in Items, i \notin ItemsOf({l \in L : b.line[l].reserved > 0})
          PROVE  sum(i) = 0
      <3>1. \A l \in LinesOf(i) : back[l] = 0
        BY <1>0, <2>2 DEF LinesOf, ItemsOf
      <3>. QED  BY <3>1, LinesFinite, SumOfNothing
    <2>. HIDE DEF sum
    <2>. QED  BY <2>1, <2>2
  <1>. HIDE DEF all, back, less, none, sum, c
  <1>3. ASSUME NEW i \in Items
        PROVE  /\ c.stock[i] \in [onHand : Nat, reserved : Int, locked : Nat, frozen : Nat]
               /\ Available(c.stock[i]) >= 0
               /\ c.stock[i].reserved - b.stock[i].reserved = -sum(i)
               /\ c.stock[i].locked - b.stock[i].locked = 0
               /\ c.stock[i].onHand = b.stock[i].onHand /\ c.stock[i].locked = b.stock[i].locked
               /\ i \notin ItemsOf({l \in L : b.line[l].reserved > 0}) => c.stock[i] = b.stock[i]
    <2>. DEFINE s == b.stock[i]
                n == sum(i)
                t == c.stock[i]
    <2>1. /\ s \in [onHand : Nat, reserved : Int, locked : Nat, frozen : Nat]
          /\ Available(s) \in Nat
      BY SoundTypes
    <2>2. /\ n \in Nat /\ (i \notin ItemsOf({l \in L : b.line[l].reserved > 0}) => n = 0)
          /\ t = [s EXCEPT !.reserved = @ - n]
      BY <1>1, <1>2
    <2>. HIDE DEF s, n, t
    <2>3. /\ t \in [onHand : Nat, reserved : Int, locked : Nat, frozen : Nat]
          /\ t.reserved - s.reserved = -n
          /\ t.onHand = s.onHand /\ t.locked = s.locked /\ t.frozen = s.frozen /\ t.locked - s.locked = 0
          /\ n = 0 => t = s
      BY <2>1, <2>2
    <2>4. Available(t) >= 0
      BY <2>1, <2>2, <2>3 DEF Available
    <2>. QED  BY <2>2, <2>3, <2>4 DEF s, n, t
  <1>4. ASSUME NEW l \in Lines
        PROVE  /\ c.line[l] \in Quantities /\ Ready(c.line[l]) >= 0 /\ Short(c.line[l], l) >= 0
               /\ Held(c.line[l]) - Held(b.line[l]) = less[l]
               /\ c.line[l].locked - b.line[l].locked = 0
               /\ c.line[l].locked = b.line[l].locked /\ c.line[l].shipped = b.line[l].shipped
               /\ c.line[l].status = IF l \in L THEN "RELEASED" ELSE b.line[l].status
               /\ l \notin L => c.line[l] = b.line[l]
    <2>. DEFINE r == b.line[l]
                t == c.line[l]
    <2>1. r \in Quantities /\ Short(r, l) \in Nat /\ Ready(r) \in Nat /\ Demand[l] \in Nat
      BY SoundTypes
    <2>2. /\ t = IF l \in L THEN [r EXCEPT !.status = "RELEASED", !.back = @ + r.reserved] ELSE r
          /\ less[l] = IF l \in L THEN -r.reserved ELSE 0
      <3>1. less[l] = IF l \in L THEN -r.reserved ELSE 0
        BY <1>0
      <3>2. t = IF l \in L THEN [r EXCEPT !.status = "RELEASED", !.back = @ + r.reserved] ELSE r
        BY <1>1
      <3>. QED  BY <3>1, <3>2
    <2>. HIDE DEF r, t
    <2>3. /\ t \in Quantities /\ t.reserved = r.reserved /\ t.locked = r.locked
          /\ t.shipped = r.shipped /\ t.back = IF l \in L THEN r.back + r.reserved ELSE r.back
          /\ t.status = IF l \in L THEN "RELEASED" ELSE r.status
      <3>1. CASE l \in L
        <4>1. t = [r EXCEPT !.status = "RELEASED", !.back = @ + r.reserved]
          BY <2>2, <3>1
        <4>2. r.back + r.reserved \in Nat /\ "RELEASED" \in LineStates
          BY <2>1 DEF Quantities, LineStates
        <4>3. /\ t.reserved = r.reserved /\ t.locked = r.locked /\ t.shipped = r.shipped
              /\ t.back = r.back + r.reserved /\ t.status = "RELEASED"
          BY <2>1, <4>1 DEF Quantities
        <4>4. t \in Quantities
          BY <2>1, <4>1, <4>2 DEF Quantities
        <4>. QED  BY <3>1, <4>3, <4>4
      <3>2. CASE l \notin L
        BY <2>1, <2>2, <3>2
      <3>. QED  BY <3>1, <3>2
    <2>4. Ready(t) >= 0 /\ Short(t, l) >= 0 /\ Held(t) - Held(r) = less[l] /\ t.locked - r.locked = 0
      BY <2>1, <2>2, <2>3 DEF Quantities, Ready, Short, Held
    <2>. QED  BY <2>2, <2>3, <2>4 DEF r, t
  <1>5. SoundBook(c)
    BY <1>1, <1>3, <1>4 DEF SoundBook
  <1>6. Stays(b, c) /\ ChangesOnly(b, c, ItemsOf({l \in L : b.line[l].reserved > 0}), L)
    BY <1>3, <1>4 DEF Stays, ChangesOnly
  <1>7. Balanced(b, c)
    <2>1. \A i \in Items : /\ c.stock[i].reserved - b.stock[i].reserved = Total(less, LinesOf(i))
                           /\ c.stock[i].locked - b.stock[i].locked = Total(none, LinesOf(i))
      BY <1>2, <1>3
    <2>2. ChangesBy(b, c, less, none)
      BY <1>0, <1>4, <2>1 DEF ChangesBy
    <2>. QED  BY <2>2, BalancedBy
  <1>. QED  BY <1>4, <1>5, <1>6, <1>7 DEF c

(* Goods go from reserved to locked, or back when q[l] is negative.        *)
LEMMA LockKeeps ==
  ASSUME NEW b, SoundBook(b), NEW q,
         \A l \in Lines : q[l] \in Int /\ b.line[l].locked + q[l] >= 0 /\ q[l] <= Ready(b.line[l]),
         \A i \in Items : b.stock[i].locked + Total(q, LinesOf(i)) >= 0
  PROVE  /\ SoundBook(Lock(b, q)) /\ Balanced(b, Lock(b, q))
         /\ \A i \in Items : Lock(b, q).stock[i].onHand = b.stock[i].onHand
         /\ \A l \in Lines : /\ Lock(b, q).line[l].locked = b.line[l].locked + q[l]
                             /\ Lock(b, q).line[l].shipped = b.line[l].shipped
                             /\ Lock(b, q).line[l].status = b.line[l].status
         /\ ChangesOnly(b, Lock(b, q), ItemsOf({l \in Lines : q[l] # 0}), {l \in Lines : q[l] # 0})
  <1>. DEFINE c == Lock(b, q)
              sum(i) == Total(q, LinesOf(i))
              less == [l \in Lines |-> -q[l]]
              M == {l \in Lines : q[l] # 0}
  <1>1. /\ \A i \in Items : c.stock[i] = [b.stock[i] EXCEPT !.reserved = @ - sum(i), !.locked = @ + sum(i)]
        /\ \A l \in Lines : c.line[l] = [b.line[l] EXCEPT !.locked = @ + q[l]]
        /\ DOMAIN c.stock = Items /\ DOMAIN c.line = Lines
        /\ c.stock = [i \in Items |-> c.stock[i]] /\ c.line = [l \in Lines |-> c.line[l]]
    BY DEF Lock
  <1>2. \A i \in Items : /\ sum(i) \in Int /\ Total(less, LinesOf(i)) = -sum(i)
                         /\ i \notin ItemsOf(M) => sum(i) = 0
    <2>1. ASSUME NEW i \in Items
          PROVE  sum(i) \in Int /\ Total(less, LinesOf(i)) = -sum(i)
      <3>1. \A l \in LinesOf(i) : q[l] \in Int /\ less[l] = -q[l]
        BY LinesFinite
      <3>. HIDE DEF less
      <3>. QED  BY <3>1, LinesFinite, SumType, SumOfOpposites
    <2>2. ASSUME NEW i \in Items, i \notin ItemsOf(M)
          PROVE  sum(i) = 0
      <3>1. \A l \in LinesOf(i) : q[l] = 0
        BY <2>2 DEF LinesOf, ItemsOf
      <3>. QED  BY <3>1, LinesFinite, SumOfNothing
    <2>. HIDE DEF sum
    <2>. QED  BY <2>1, <2>2
  <1>3. \A i \in Items : b.stock[i].locked + sum(i) >= 0
    OBVIOUS
  <1>4. \A l \in Lines : less[l] = -q[l] /\ (l \notin M => q[l] = 0)
    OBVIOUS
  <1>. HIDE DEF c, sum, less, M
  <1>5. ASSUME NEW i \in Items
        PROVE  /\ c.stock[i] \in [onHand : Nat, reserved : Int, locked : Nat, frozen : Nat]
               /\ Available(c.stock[i]) >= 0
               /\ c.stock[i].reserved - b.stock[i].reserved = -sum(i)
               /\ c.stock[i].locked - b.stock[i].locked = sum(i)
               /\ c.stock[i].onHand = b.stock[i].onHand
               /\ i \notin ItemsOf(M) => c.stock[i] = b.stock[i]
    <2>. DEFINE s == b.stock[i]
                n == sum(i)
                t == c.stock[i]
    <2>1. /\ s \in [onHand : Nat, reserved : Int, locked : Nat, frozen : Nat]
          /\ Available(s) \in Nat
      BY SoundTypes
    <2>2. /\ n \in Int /\ s.locked + n >= 0 /\ (i \notin ItemsOf(M) => n = 0)
          /\ t = [s EXCEPT !.reserved = @ - n, !.locked = @ + n]
      BY <1>1, <1>2, <1>3
    <2>. HIDE DEF s, n, t
    <2>3. /\ t \in [onHand : Nat, reserved : Int, locked : Nat, frozen : Nat]
          /\ t.reserved = s.reserved - n /\ t.locked = s.locked + n
          /\ t.onHand = s.onHand /\ t.frozen = s.frozen
          /\ n = 0 => t = s
      <3>1. s.reserved - n \in Int /\ s.locked + n \in Nat
        BY <2>1, <2>2
      <3>2. /\ t.reserved = s.reserved - n /\ t.locked = s.locked + n
            /\ t.onHand = s.onHand /\ t.frozen = s.frozen
        BY <2>1, <2>2
      <3>3. t \in [onHand : Nat, reserved : Int, locked : Nat, frozen : Nat]
        BY <2>1, <2>2, <3>1
      <3>4. n = 0 => s.reserved - n = s.reserved /\ s.locked + n = s.locked
        BY <2>1, <2>2
      <3>5. n = 0 => t = s
        BY <2>1, <3>2, <3>3, <3>4
      <3>. QED  BY <3>2, <3>3, <3>5
    <2>4. Available(t) >= 0 /\ t.reserved - s.reserved = -n /\ t.locked - s.locked = n
      BY <2>1, <2>2, <2>3 DEF Available
    <2>. QED  BY <2>2, <2>3, <2>4 DEF s, n, t
  <1>6. ASSUME NEW l \in Lines
        PROVE  /\ c.line[l] \in Quantities /\ Ready(c.line[l]) >= 0 /\ Short(c.line[l], l) >= 0
               /\ Held(c.line[l]) - Held(b.line[l]) = less[l]
               /\ c.line[l].locked - b.line[l].locked = q[l]
               /\ c.line[l].locked = b.line[l].locked + q[l] /\ c.line[l].shipped = b.line[l].shipped
               /\ c.line[l].status = b.line[l].status
               /\ l \notin M => c.line[l] = b.line[l]
    <2>. DEFINE r == b.line[l]
                n == q[l]
                t == c.line[l]
    <2>1. r \in Quantities /\ Short(r, l) \in Nat /\ Ready(r) \in Nat /\ Demand[l] \in Nat
      BY SoundTypes
    <2>2. /\ n \in Int /\ r.locked + n >= 0 /\ n <= Ready(r) /\ (l \notin M => n = 0) /\ less[l] = -n
          /\ t = [r EXCEPT !.locked = @ + n]
      BY <1>1, <1>4
    <2>. HIDE DEF r, n, t
    <2>3. /\ t \in Quantities /\ t.reserved = r.reserved /\ t.locked = r.locked + n
          /\ t.shipped = r.shipped /\ t.back = r.back /\ t.status = r.status
          /\ n = 0 => t = r
      BY <2>1, <2>2 DEF Quantities
    <2>4. Ready(t) >= 0 /\ Short(t, l) >= 0 /\ Held(t) - Held(r) = less[l] /\ t.locked - r.locked = n
      BY <2>1, <2>2, <2>3 DEF Quantities, Ready, Short, Held
    <2>. QED  BY <2>2, <2>3, <2>4 DEF r, n, t
  <1>7. SoundBook(c)
    BY <1>1, <1>5, <1>6 DEF SoundBook
  <1>8. ChangesOnly(b, c, ItemsOf(M), M)
    BY <1>5, <1>6 DEF ChangesOnly
  <1>9. Balanced(b, c)
    <2>1. \A i \in Items : /\ c.stock[i].reserved - b.stock[i].reserved = Total(less, LinesOf(i))
                           /\ c.stock[i].locked - b.stock[i].locked = Total(q, LinesOf(i))
      BY <1>2, <1>5 DEF sum
    <2>2. \A l \in Lines : less[l] \in Int
      BY <1>4
    <2>3. ChangesBy(b, c, less, q)
      BY <1>6, <2>1, <2>2 DEF ChangesBy
    <2>. QED  BY <2>3, BalancedBy
  <1>. QED  BY <1>5, <1>6, <1>7, <1>8, <1>9 DEF c, M

(* Locked goods leave.                                                     *)
LEMMA ShippedKeeps ==
  ASSUME SoundBook(Book), \A i \in Items : stock[i].reserved \in Nat,
         NEW q,
         \A l \in Lines : q[l] \in Nat /\ q[l] <= line[l].locked,
         \A i \in Items : Total(q, LinesOf(i)) <= stock[i].locked
  PROVE  /\ SoundBook(Shipped(q)) /\ Balanced(Book, Shipped(q)) /\ Conserved(Book, Shipped(q), {})
         /\ \A l \in Lines : /\ Shipped(q).line[l].locked = line[l].locked - q[l]
                             /\ Shipped(q).line[l].shipped = line[l].shipped + q[l]
                             /\ Shipped(q).line[l].status = "RELEASED" => line[l].status = "RELEASED"
         /\ ChangesOnly(Book, Shipped(q), ItemsOf(Picked(q)), Picked(q))
         /\ \A i \in Items : Shipped(q).stock[i].reserved = stock[i].reserved
  <1>. DEFINE b == Book
              c == Shipped(q)
              sum(i) == Total(q, LinesOf(i))
              less == [l \in Lines |-> -q[l]]
              none == [l \in Lines |-> 0]
  <1>0. b.stock = stock /\ b.line = line
    BY DEF Book
  <1>1. /\ \A i \in Items : c.stock[i] = [stock[i] EXCEPT !.onHand = @ - sum(i), !.locked = @ - sum(i)]
        /\ \A l \in Lines : c.line[l] = [line[l] EXCEPT
             !.locked = @ - q[l], !.shipped = @ + q[l],
             !.status = IF q[l] > 0 /\ line[l].shipped + q[l] >= Demand[l] THEN "SHIPPED" ELSE @]
        /\ DOMAIN c.stock = Items /\ DOMAIN c.line = Lines
        /\ c.stock = [i \in Items |-> c.stock[i]] /\ c.line = [l \in Lines |-> c.line[l]]
    BY DEF Shipped
  <1>2. \A i \in Items : /\ sum(i) \in Nat /\ Total(less, LinesOf(i)) = -sum(i) /\ Total(none, LinesOf(i)) = 0
                         /\ i \notin ItemsOf(Picked(q)) => sum(i) = 0
    <2>1. ASSUME NEW i \in Items
          PROVE  sum(i) \in Nat /\ Total(less, LinesOf(i)) = -sum(i) /\ Total(none, LinesOf(i)) = 0
      <3>1. \A l \in LinesOf(i) : q[l] \in Nat /\ q[l] \in Int /\ less[l] = -q[l] /\ none[l] = 0
        BY LinesFinite
      <3>. HIDE DEF less, none
      <3>. QED  BY <3>1, LinesFinite, SumOfNaturals, SumOfOpposites, SumOfNothing
    <2>2. ASSUME NEW i \in Items, i \notin ItemsOf(Picked(q))
          PROVE  sum(i) = 0
      <3>1. \A l \in LinesOf(i) : q[l] = 0
        BY <2>2 DEF LinesOf, ItemsOf, Picked
      <3>. QED  BY <3>1, LinesFinite, SumOfNothing
    <2>. HIDE DEF sum
    <2>. QED  BY <2>1, <2>2
  <1>3. \A i \in Items : sum(i) <= stock[i].locked
    OBVIOUS
  <1>4. \A l \in Lines : less[l] = -q[l] /\ none[l] = 0 /\ (l \notin Picked(q) => q[l] = 0)
    BY DEF Picked
  <1>. HIDE DEF b, c, sum, less, none
  <1>5. ASSUME NEW i \in Items
        PROVE  /\ c.stock[i] \in [onHand : Nat, reserved : Int, locked : Nat, frozen : Nat]
               /\ Available(c.stock[i]) >= 0
               /\ c.stock[i].reserved - stock[i].reserved = 0
               /\ c.stock[i].reserved = stock[i].reserved
               /\ c.stock[i].locked - stock[i].locked = -sum(i)
               /\ c.stock[i].onHand - stock[i].onHand = -sum(i)
               /\ i \notin ItemsOf(Picked(q)) => c.stock[i] = stock[i]
    <2>. DEFINE s == stock[i]
                n == sum(i)
                t == c.stock[i]
    <2>1. /\ s \in [onHand : Nat, reserved : Nat, locked : Nat, frozen : Nat]
          /\ Available(s) \in Nat
      <3>1. b.stock[i] \in [onHand : Nat, reserved : Int, locked : Nat, frozen : Nat]
            /\ Available(b.stock[i]) \in Nat
        BY SoundTypes DEF b
      <3>. QED  BY <1>0, <3>1
    <2>2. /\ n \in Nat /\ n <= s.locked /\ (i \notin ItemsOf(Picked(q)) => n = 0)
          /\ t = [s EXCEPT !.onHand = @ - n, !.locked = @ - n]
      BY <1>1, <1>2, <1>3
    <2>. HIDE DEF s, n, t
    <2>3. n <= s.onHand
      BY <2>1, <2>2 DEF Available
    <2>4. /\ t \in [onHand : Nat, reserved : Int, locked : Nat, frozen : Nat]
          /\ t.reserved = s.reserved /\ t.locked = s.locked - n
          /\ t.onHand = s.onHand - n /\ t.frozen = s.frozen
          /\ n = 0 => t = s
      <3>1. s.onHand - n \in Nat /\ s.locked - n \in Nat /\ s.reserved \in Int
        BY <2>1, <2>2, <2>3
      <3>2. /\ t.reserved = s.reserved /\ t.locked = s.locked - n
            /\ t.onHand = s.onHand - n /\ t.frozen = s.frozen
        BY <2>1, <2>2
      <3>3. t \in [onHand : Nat, reserved : Int, locked : Nat, frozen : Nat]
        <4>1. t = [onHand |-> s.onHand - n, reserved |-> s.reserved, locked |-> s.locked - n, frozen |-> s.frozen]
          BY <2>1, <2>2
        <4>. QED  BY <2>1, <3>1, <4>1
      <3>4. n = 0 => s.onHand - n = s.onHand /\ s.locked - n = s.locked
        BY <2>1, <2>2
      <3>5. n = 0 => t = s
        BY <2>1, <3>2, <3>3, <3>4
      <3>. QED  BY <3>2, <3>3, <3>5
    <2>5. /\ Available(t) >= 0 /\ t.reserved - s.reserved = 0 /\ t.locked - s.locked = -n
          /\ t.onHand - s.onHand = -n
      BY <2>1, <2>2, <2>4 DEF Available
    <2>. QED  BY <2>2, <2>4, <2>5 DEF s, n, t
  <1>6. ASSUME NEW l \in Lines
        PROVE  /\ c.line[l] \in Quantities /\ Ready(c.line[l]) >= 0 /\ Short(c.line[l], l) >= 0
               /\ Held(c.line[l]) - Held(line[l]) = none[l]
               /\ c.line[l].locked - line[l].locked = less[l]
               /\ c.line[l].shipped - line[l].shipped = q[l]
               /\ c.line[l].locked = line[l].locked - q[l] /\ c.line[l].shipped = line[l].shipped + q[l]
               /\ c.line[l].status = "RELEASED" => line[l].status = "RELEASED"
               /\ l \notin Picked(q) => c.line[l] = line[l]
    <2>. DEFINE r == line[l]
                n == q[l]
                t == c.line[l]
                status == IF n > 0 /\ r.shipped + n >= Demand[l] THEN "SHIPPED" ELSE r.status
    <2>1. r \in Quantities /\ Short(r, l) \in Nat /\ Ready(r) \in Nat /\ Demand[l] \in Nat
      <3>1. b.line[l] \in Quantities /\ Short(b.line[l], l) \in Nat /\ Ready(b.line[l]) \in Nat
            /\ Demand[l] \in Nat
        BY SoundTypes DEF b
      <3>. QED  BY <1>0, <3>1
    <2>2. /\ n \in Nat /\ n <= r.locked /\ (l \notin Picked(q) => n = 0) /\ less[l] = -n /\ none[l] = 0
      BY <1>4
    <2>3. t = [r EXCEPT !.locked = @ - n, !.shipped = @ + n, !.status = status]
      BY <1>1
    <2>4. /\ status \in LineStates /\ (status = "RELEASED" => r.status = "RELEASED")
          /\ (n = 0 => status = r.status)
      BY <2>1, <2>2 DEF Quantities, LineStates
    <2>. HIDE DEF r, n, t, status
    <2>5. /\ t \in Quantities /\ t.reserved = r.reserved /\ t.locked = r.locked - n
          /\ t.shipped = r.shipped + n /\ t.back = r.back /\ t.status = status
      <3>1. r.locked - n \in Nat /\ r.shipped + n \in Nat
        BY <2>1, <2>2 DEF Quantities
      <3>2. /\ t.reserved = r.reserved /\ t.locked = r.locked - n
            /\ t.shipped = r.shipped + n /\ t.back = r.back /\ t.status = status
        BY <2>1, <2>3 DEF Quantities
      <3>3. t \in Quantities
        BY <2>1, <2>3, <2>4, <3>1 DEF Quantities
      <3>. QED  BY <3>2, <3>3
    <2>6. n = 0 => t = r
      <3>1. n = 0 => r.locked - n = r.locked /\ r.shipped + n = r.shipped
        BY <2>1 DEF Quantities
      <3>. QED  BY <2>1, <2>4, <2>5, <3>1 DEF Quantities
    <2>7. /\ Ready(t) >= 0 /\ Short(t, l) >= 0 /\ Held(t) - Held(r) = none[l] /\ t.locked - r.locked = less[l]
          /\ t.shipped - r.shipped = n
      BY <2>1, <2>2, <2>5 DEF Quantities, Ready, Short, Held
    <2>. QED  BY <2>2, <2>4, <2>5, <2>6, <2>7 DEF r, n, t
  <1>7. SoundBook(c)
    BY <1>1, <1>5, <1>6 DEF SoundBook
  <1>8. ChangesOnly(b, c, ItemsOf(Picked(q)), Picked(q))
    BY <1>0, <1>5, <1>6 DEF ChangesOnly
  <1>9. Balanced(b, c)
    <2>1. \A i \in Items : /\ c.stock[i].reserved - b.stock[i].reserved = Total(none, LinesOf(i))
                           /\ c.stock[i].locked - b.stock[i].locked = Total(less, LinesOf(i))
      BY <1>0, <1>2, <1>5
    <2>2. \A l \in Lines : less[l] \in Int /\ none[l] \in Int
      BY <1>4
    <2>3. ChangesBy(b, c, none, less)
      BY <1>0, <1>6, <2>1, <2>2 DEF ChangesBy
    <2>. QED  BY <2>3, BalancedBy
  <1>10. Conserved(b, c, {})
    <2>. DEFINE out == [l \in Lines |-> c.line[l].shipped - b.line[l].shipped]
                arrived(i) == [r \in Receipts |-> IF <<"receipt", r>> \in {} THEN Brought(r, i) ELSE 0]
    <2>. SUFFICES ASSUME NEW i \in Items
                  PROVE  c.stock[i].onHand - b.stock[i].onHand + Total(out, LinesOf(i))
                           = Total(arrived(i), Receipts)
      BY DEF Conserved, Arrivals
    <2>1. \A l \in LinesOf(i) : out[l] = q[l] /\ out[l] \in Int
      BY <1>0, <1>6, LinesFinite
    <2>2. \A r \in Receipts : arrived(i)[r] = 0
      OBVIOUS
    <2>. HIDE DEF out, arrived
    <2>3. Total(out, LinesOf(i)) = sum(i)
      BY <2>1, LinesFinite, SumsAgree DEF sum
    <2>4. Total(arrived(i), Receipts) = 0
      BY <2>2, FiniteAssumption, SumOfNothing
    <2>. QED  BY <1>0, <1>2, <1>5, <2>3, <2>4
  <1>. QED  BY <1>5, <1>6, <1>7, <1>8, <1>9, <1>10 DEF b, c

-----------------------------------------------------------------------------
(* Transactions keep the invariant.                                        *)

LEMMA OverlayRows ==
  \A f, g : /\ DOMAIN Overlay(f, g) = DOMAIN f
            /\ \A x \in DOMAIN f : Overlay(f, g)[x] = IF x \in DOMAIN g THEN g[x] ELSE f[x]
  BY DEF Overlay

LEMMA BookRows ==
  /\ Book.stock = stock /\ Book.line = line
  /\ \A w : SeenBy(w).stock = Overlay(stock, tx[w].stock) /\ SeenBy(w).line = Overlay(line, tx[w].line)
  BY DEF Book, SeenBy

(* A worker that has changed nothing keeps the books.                      *)
LEMMA NothingChanged ==
  ASSUME NEW b, SoundBook(b), NEW x, \A o \in Outbounds : x[o] \in Lists
  PROVE  KeepsBooks(b, x, b, x, {}, {})
  <1>. DEFINE none == [l \in Lines |-> 0]
              nowhere == [o \in Outbounds |-> 0]
              never == [r \in Receipts |-> 0]
  <1>1. /\ \A i \in Items : Total(none, LinesOf(i)) = 0
        /\ Total(nowhere, Outbounds) = 0 /\ Total(never, Receipts) = 0
    BY LinesFinite, FiniteAssumption, SumOfNothing
  <1>2. /\ [l \in Lines |-> Held(b.line[l]) - Held(b.line[l])] = none
        /\ [l \in Lines |-> b.line[l].locked - b.line[l].locked] = none
        /\ [l \in Lines |-> b.line[l].shipped - b.line[l].shipped] = none
    BY SoundTypes DEF Quantities
  <1>3. \A l \in Lines :
          /\ [o \in Outbounds |-> PickedAs("DRAFT", x[o], l) - PickedAs("DRAFT", x[o], l)] = nowhere
          /\ [o \in Outbounds |-> PickedAs("CONFIRMED", x[o], l) - PickedAs("CONFIRMED", x[o], l)] = nowhere
    BY DEF PickedAs, Lists
  <1>4. \A i \in Items : [r \in Receipts |-> IF <<"receipt", r>> \in {} THEN Brought(r, i) ELSE 0] = never
    OBVIOUS
  <1>5. /\ \A i \in Items : /\ b.stock[i].reserved - b.stock[i].reserved = 0
                            /\ b.stock[i].locked - b.stock[i].locked = 0
                            /\ b.stock[i].onHand - b.stock[i].onHand = 0
        /\ \A l \in Lines : /\ b.line[l].locked - b.line[l].locked = 0
                            /\ b.line[l].shipped - b.line[l].shipped = 0
    BY SoundTypes DEF Quantities
  <1>. HIDE DEF none, nowhere, never
  <1>6. Balanced(b, b)
    BY <1>1, <1>2, <1>5 DEF Balanced
  <1>7. Conserved(b, b, {})
    BY <1>1, <1>2, <1>4, <1>5 DEF Conserved, Arrivals
  <1>8. Listed(b, b, x, x)
    BY <1>1, <1>3, <1>5 DEF Listed
  <1>. QED  BY <1>6, <1>7, <1>8 DEF KeepsBooks, GivenUp

(* The same changes from another state of the rows nobody else holds.      *)
LEMMA SameChanges ==
  ASSUME NEW b, NEW x, NEW c, NEW y, NEW L, NEW claims, KeepsBooks(b, x, c, y, L, claims),
         NEW b2, NEW x2, NEW c2, NEW y2, SoundBook(c2),
         \A i \in Items :
           /\ c2.stock[i].reserved - b2.stock[i].reserved = c.stock[i].reserved - b.stock[i].reserved
           /\ c2.stock[i].locked - b2.stock[i].locked = c.stock[i].locked - b.stock[i].locked
           /\ c2.stock[i].onHand - b2.stock[i].onHand = c.stock[i].onHand - b.stock[i].onHand,
         \A l \in Lines :
           /\ Held(c2.line[l]) - Held(b2.line[l]) = Held(c.line[l]) - Held(b.line[l])
           /\ c2.line[l].locked - b2.line[l].locked = c.line[l].locked - b.line[l].locked
           /\ c2.line[l].shipped - b2.line[l].shipped = c.line[l].shipped - b.line[l].shipped,
         \A o \in Outbounds, l \in Lines : \A s \in {"DRAFT", "CONFIRMED"} :
           PickedAs(s, y2[o], l) - PickedAs(s, x2[o], l) = PickedAs(s, y[o], l) - PickedAs(s, x[o], l),
         \A l \in L : b2.line[l] = b.line[l] /\ c2.line[l] = c.line[l]
  PROVE  KeepsBooks(b2, x2, c2, y2, L, claims)
  <1>1. /\ [l \in Lines |-> Held(c2.line[l]) - Held(b2.line[l])]
             = [l \in Lines |-> Held(c.line[l]) - Held(b.line[l])]
        /\ [l \in Lines |-> c2.line[l].locked - b2.line[l].locked]
             = [l \in Lines |-> c.line[l].locked - b.line[l].locked]
        /\ [l \in Lines |-> c2.line[l].shipped - b2.line[l].shipped]
             = [l \in Lines |-> c.line[l].shipped - b.line[l].shipped]
    OBVIOUS
  <1>2. \A l \in Lines :
          /\ [o \in Outbounds |-> PickedAs("DRAFT", y2[o], l) - PickedAs("DRAFT", x2[o], l)]
               = [o \in Outbounds |-> PickedAs("DRAFT", y[o], l) - PickedAs("DRAFT", x[o], l)]
          /\ [o \in Outbounds |-> PickedAs("CONFIRMED", y2[o], l) - PickedAs("CONFIRMED", x2[o], l)]
               = [o \in Outbounds |-> PickedAs("CONFIRMED", y[o], l) - PickedAs("CONFIRMED", x[o], l)]
    OBVIOUS
  <1>3. Balanced(b2, c2)
    BY <1>1 DEF KeepsBooks, Balanced
  <1>4. Conserved(b2, c2, claims)
    BY <1>1 DEF KeepsBooks, Conserved
  <1>5. Listed(b2, c2, x2, y2)
    BY <1>2 DEF KeepsBooks, Listed
  <1>6. GivenUp(b2, c2, L)
    BY DEF KeepsBooks, GivenUp
  <1>. QED  BY <1>3, <1>4, <1>5, <1>6 DEF KeepsBooks

LEMMA BooksInOrder ==
  /\ BooksBalance /\ GoodsConserved <=> InOrder(stock, line, outbound, claimed)
  /\ BooksBalance' /\ GoodsConserved' <=> InOrder(stock', line', outbound', claimed')
  <1>1. BooksBalance /\ GoodsConserved <=> InOrder(stock, line, outbound, claimed)
    BY DEF BooksBalance, GoodsConserved, PickedIn, InOrder, Arrivals
  <1>2. BooksBalance' /\ GoodsConserved' <=> InOrder(stock', line', outbound', claimed')
    BY DEF BooksBalance, GoodsConserved, PickedIn, InOrder, Arrivals
  <1>. QED  BY <1>1, <1>2

(* A worker executes its statements: what it has left behind is its own.   *)
LEMMA ExecuteIInv ==
  ASSUME IInv, NEW w \in Workers, NEW book, NEW I \in SUBSET Items, NEW L \in SUBSET Lines,
         NEW lists, NEW claims \in SUBSET Claims,
         Execute(w, book, I, L, lists, claims),
         DOMAIN lists \subseteq Outbounds, \A o \in DOMAIN lists : lists[o] \in Lists,
         claims \intersect claimed = {},
         ChangesOnly(Book, book, I, L),
         KeepsBooks(Book, outbound, book, Overlay(outbound, lists), L, claims)
  PROVE  IInv'
  <1>1. /\ UNCHANGED <<stock, line, outbound, claimed>>
        /\ tx'[w].stock = [i \in I |-> book.stock[i]] /\ tx'[w].line = [l \in L |-> book.line[l]]
        /\ tx'[w].outbound = lists /\ tx'[w].claims = claims
        /\ \A v \in Workers : v # w => tx'[v] = tx[v]
        /\ DOMAIN tx' = Workers
        /\ \A i \in I : book.stock[i].reserved >= 0
        /\ \A v \in Workers : v # w =>
             /\ I \intersect DOMAIN tx[v].stock = {} /\ L \intersect DOMAIN tx[v].line = {}
             /\ DOMAIN lists \intersect DOMAIN tx[v].outbound = {} /\ claims \intersect tx[v].claims = {}
    BY DEF IInv, Types, Execute, Others, rows
  <1>2. SoundBook(book)
    BY DEF KeepsBooks
  <1>3. /\ DOMAIN stock = Items /\ DOMAIN line = Lines /\ DOMAIN outbound = Outbounds
        /\ book.stock = [i \in Items |-> book.stock[i]] /\ book.line = [l \in Lines |-> book.line[l]]
    BY <1>2 DEF IInv, Types, TypeOK, SoundBook
  <1>4. Types'
    <2>1. \A i \in I : book.stock[i] \in Rows
      <3>. SUFFICES ASSUME NEW i \in I PROVE book.stock[i] \in Rows
        OBVIOUS
      <3>1. book.stock[i] \in [onHand : Nat, reserved : Int, locked : Nat, frozen : Nat]
            /\ book.stock[i].reserved \in Nat
        BY <1>1, <1>2 DEF SoundBook
      <3>. QED  BY <3>1 DEF Rows
    <2>2. \A l \in L : book.line[l] \in Quantities
      BY <1>2 DEF SoundBook
    <2>3. ASSUME NEW v \in Workers
          PROVE  /\ \A i \in DOMAIN tx'[v].stock : i \in Items /\ tx'[v].stock[i] \in Rows
                 /\ \A l \in DOMAIN tx'[v].line : l \in Lines /\ tx'[v].line[l] \in Quantities
                 /\ \A o \in DOMAIN tx'[v].outbound : o \in Outbounds /\ tx'[v].outbound[o] \in Lists
                 /\ tx'[v].claims \subseteq Claims
      <3>1. CASE v = w
        BY <1>1, <2>1, <2>2, <3>1
      <3>2. CASE v # w
        BY <1>1, <3>2 DEF IInv, Types, TypeOK
      <3>. QED  BY <3>1, <3>2
    <2>. QED  BY <1>1, <2>3 DEF IInv, Types, TypeOK
  <1>5. Apart'
    <2>1. ASSUME NEW u \in Workers, NEW v \in Workers, u # v
          PROVE  /\ DOMAIN tx'[u].stock \intersect DOMAIN tx'[v].stock = {}
                 /\ DOMAIN tx'[u].line \intersect DOMAIN tx'[v].line = {}
                 /\ DOMAIN tx'[u].outbound \intersect DOMAIN tx'[v].outbound = {}
                 /\ tx'[u].claims \intersect tx'[v].claims = {}
      <3>1. CASE u = w
        BY <1>1, <2>1, <3>1
      <3>2. CASE v = w
        BY <1>1, <2>1, <3>2
      <3>3. CASE u # w /\ v # w
        BY <1>1, <2>1, <3>3 DEF IInv, Apart
      <3>. QED  BY <3>1, <3>2, <3>3
    <2>2. ASSUME NEW v \in Workers PROVE tx'[v].claims \intersect claimed' = {}
      BY <1>1 DEF IInv, Apart
    <2>. QED  BY <2>1, <2>2 DEF Apart
  <1>6. Book' = Book /\ SoundBook(Book')
    BY <1>1 DEF IInv, Book
  <1>7. BooksBalance' /\ GoodsConserved'
    BY <1>1, BooksInOrder DEF IInv
  <1>8. ASSUME NEW v \in Workers, v # w PROVE InStep(v)'
    <2>1. SeenBy(v)' = SeenBy(v) /\ ListsOf(v)' = ListsOf(v) /\ tx'[v] = tx[v] /\ outbound' = outbound
      BY <1>1, <1>8 DEF SeenBy, ListsOf
    <2>2. KeepsBooks(Book, outbound, SeenBy(v), ListsOf(v), DOMAIN tx[v].line, tx[v].claims)
      BY DEF IInv, InStep
    <2>3. KeepsBooks(Book', outbound', SeenBy(v)', ListsOf(v)', DOMAIN tx'[v].line, tx'[v].claims)
      BY <1>6, <2>1, <2>2
    <2>. QED  BY <2>3 DEF InStep
  <1>9. InStep(w)'
    <2>1. SeenBy(w)'.stock = book.stock
      <3>1. SeenBy(w)'.stock = [i \in Items |-> IF i \in I THEN book.stock[i] ELSE stock[i]]
        BY <1>1, <1>3 DEF SeenBy, Overlay
      <3>2. \A i \in Items : i \notin I => book.stock[i] = stock[i]
        BY BookRows DEF ChangesOnly
      <3>. QED  BY <1>3, <3>1, <3>2
    <2>2. SeenBy(w)'.line = book.line
      <3>1. SeenBy(w)'.line = [l \in Lines |-> IF l \in L THEN book.line[l] ELSE line[l]]
        BY <1>1, <1>3 DEF SeenBy, Overlay
      <3>2. \A l \in Lines : l \notin L => book.line[l] = line[l]
        BY BookRows DEF ChangesOnly
      <3>. QED  BY <1>3, <3>1, <3>2
    <2>3. ListsOf(w)' = Overlay(outbound, lists) /\ DOMAIN tx'[w].line = L /\ tx'[w].claims = claims
      BY <1>1 DEF ListsOf
    <2>4. KeepsBooks(Book', outbound', SeenBy(w)', ListsOf(w)', DOMAIN tx'[w].line, tx'[w].claims)
      <3>. DEFINE c == SeenBy(w)'
      <3>1. KeepsBooks(Book, outbound, c, Overlay(outbound, lists), L, claims)
        <4>1. c.stock = book.stock /\ c.line = book.line
          BY <2>1, <2>2
        <4>. HIDE DEF c
        <4>2. SoundBook(c)
          BY <4>1, <1>2 DEF SoundBook
        <4>3. Balanced(Book, c)
          BY <4>1 DEF KeepsBooks, Balanced
        <4>4. Conserved(Book, c, claims)
          BY <4>1 DEF KeepsBooks, Conserved
        <4>5. Listed(Book, c, outbound, Overlay(outbound, lists))
          BY <4>1 DEF KeepsBooks, Listed
        <4>6. GivenUp(Book, c, L)
          BY <4>1 DEF KeepsBooks, GivenUp
        <4>. QED  BY <4>2, <4>3, <4>4, <4>5, <4>6 DEF KeepsBooks
      <3>. HIDE DEF c
      <3>2. KeepsBooks(Book', outbound', c, ListsOf(w)', DOMAIN tx'[w].line, tx'[w].claims)
        BY <1>1, <1>6, <2>3, <3>1
      <3>. QED  BY <3>2 DEF c
    <2>. QED  BY <2>4 DEF InStep
  <1>. QED  BY <1>4, <1>5, <1>6, <1>7, <1>8, <1>9 DEF IInv

(* The books stay in order when what keeps them is committed.              *)
LEMMA InOrderAfter ==
  ASSUME NEW b, NEW x, NEW cl, NEW c, NEW y, NEW claims, NEW L,
         SoundBook(b), KeepsBooks(b, x, c, y, L, claims), claims \intersect cl = {},
         \A o \in Outbounds : x[o] \in Lists /\ y[o] \in Lists,
         InOrder(b.stock, b.line, x, cl)
  PROVE  InOrder(c.stock, c.line, y, cl \union claims)
  <1>0. SoundBook(c) /\ Balanced(b, c) /\ Conserved(b, c, claims) /\ Listed(b, c, x, y)
    BY DEF KeepsBooks
  <1>. DEFINE held(d) == [l \in Lines |-> Held(d.line[l])]
              locked(d) == [l \in Lines |-> d.line[l].locked]
              shipped(d) == [l \in Lines |-> d.line[l].shipped]
              moreHeld == [l \in Lines |-> Held(c.line[l]) - Held(b.line[l])]
              moreLocked == [l \in Lines |-> c.line[l].locked - b.line[l].locked]
              moreShipped == [l \in Lines |-> c.line[l].shipped - b.line[l].shipped]
              arrived(s, i) == [r \in Receipts |-> IF <<"receipt", r>> \in s THEN Brought(r, i) ELSE 0]
              picked(s, z, l) == [o \in Outbounds |-> PickedAs(s, z[o], l)]
              morePicked(s, l) == [o \in Outbounds |-> PickedAs(s, y[o], l) - PickedAs(s, x[o], l)]
  <1>1. ASSUME NEW i \in Items
        PROVE  /\ c.stock[i].reserved = Total(held(c), LinesOf(i))
               /\ c.stock[i].locked = Total(locked(c), LinesOf(i))
               /\ c.stock[i].onHand + Total(shipped(c), LinesOf(i)) = Arrivals(i, cl \union claims)
    <2>1. \A l \in LinesOf(i) :
            /\ held(b)[l] \in Int /\ moreHeld[l] \in Int /\ held(c)[l] = held(b)[l] + moreHeld[l]
            /\ locked(b)[l] \in Int /\ moreLocked[l] \in Int /\ locked(c)[l] = locked(b)[l] + moreLocked[l]
            /\ shipped(b)[l] \in Int /\ moreShipped[l] \in Int /\ shipped(c)[l] = shipped(b)[l] + moreShipped[l]
      BY <1>0, SoundTypes, LinesFinite DEF Quantities
    <2>2. \A r \in Receipts :
            /\ arrived(cl, i)[r] \in Int /\ arrived(claims, i)[r] \in Int
            /\ arrived(cl \union claims, i)[r] = arrived(cl, i)[r] + arrived(claims, i)[r]
      <3>1. \A r \in Receipts : Brought(r, i) \in Int
        BY QuantityAssumption DEF Brought
      <3>. QED  BY <3>1
    <2>3. /\ b.stock[i].reserved = Total(held(b), LinesOf(i))
          /\ b.stock[i].locked = Total(locked(b), LinesOf(i))
          /\ b.stock[i].onHand + Total(shipped(b), LinesOf(i)) = Total(arrived(cl, i), Receipts)
      BY DEF InOrder, Arrivals
    <2>4. /\ c.stock[i].reserved - b.stock[i].reserved = Total(moreHeld, LinesOf(i))
          /\ c.stock[i].locked - b.stock[i].locked = Total(moreLocked, LinesOf(i))
          /\ c.stock[i].onHand - b.stock[i].onHand + Total(moreShipped, LinesOf(i))
               = Total(arrived(claims, i), Receipts)
      BY <1>0 DEF Balanced, Conserved, Arrivals
    <2>5. \A d \in {b, c} : d.stock[i].reserved \in Int /\ d.stock[i].locked \in Int /\ d.stock[i].onHand \in Int
      BY <1>0, SoundTypes
    <2>6. Arrivals(i, cl \union claims) = Total(arrived(cl \union claims, i), Receipts)
      BY DEF Arrivals
    <2>. HIDE DEF held, locked, shipped, moreHeld, moreLocked, moreShipped, arrived
    <2>7. /\ Total(held(c), LinesOf(i)) = Total(held(b), LinesOf(i)) + Total(moreHeld, LinesOf(i))
          /\ Total(locked(c), LinesOf(i)) = Total(locked(b), LinesOf(i)) + Total(moreLocked, LinesOf(i))
          /\ Total(shipped(c), LinesOf(i)) = Total(shipped(b), LinesOf(i)) + Total(moreShipped, LinesOf(i))
          /\ Total(shipped(b), LinesOf(i)) \in Int /\ Total(moreShipped, LinesOf(i)) \in Int
      BY <2>1, LinesFinite, SumOfSums, SumType
    <2>8. Total(arrived(cl \union claims, i), Receipts)
            = Total(arrived(cl, i), Receipts) + Total(arrived(claims, i), Receipts)
      <3>. DEFINE f == arrived(cl, i)
                  g == arrived(claims, i)
                  h == arrived(cl \union claims, i)
      <3>1. \A r \in Receipts : f[r] \in Int /\ g[r] \in Int /\ h[r] = f[r] + g[r]
        BY <2>2
      <3>. HIDE DEF f, g, h
      <3>2. Total(h, Receipts) = Total(f, Receipts) + Total(g, Receipts)
        BY <3>1, FiniteAssumption, SumOfSums
      <3>. QED  BY <3>2 DEF f, g, h
    <2>. QED  BY <2>3, <2>4, <2>5, <2>6, <2>7, <2>8
  <1>2. ASSUME NEW l \in Lines
        PROVE  /\ c.line[l].locked = Total(picked("DRAFT", y, l), Outbounds)
               /\ c.line[l].shipped = Total(picked("CONFIRMED", y, l), Outbounds)
    <2>1. \A s : \A o \in Outbounds :
            /\ picked(s, x, l)[o] \in Int /\ morePicked(s, l)[o] \in Int
            /\ picked(s, y, l)[o] = picked(s, x, l)[o] + morePicked(s, l)[o]
      <3>1. \A s : \A o \in Outbounds : PickedAs(s, x[o], l) \in Int /\ PickedAs(s, y[o], l) \in Int
        BY DEF PickedAs, Lists
      <3>. QED  BY <3>1
    <2>2. /\ b.line[l].locked = Total(picked("DRAFT", x, l), Outbounds)
          /\ b.line[l].shipped = Total(picked("CONFIRMED", x, l), Outbounds)
      BY DEF InOrder
    <2>3. /\ c.line[l].locked - b.line[l].locked = Total(morePicked("DRAFT", l), Outbounds)
          /\ c.line[l].shipped - b.line[l].shipped = Total(morePicked("CONFIRMED", l), Outbounds)
      BY <1>0 DEF Listed
    <2>4. \A d \in {b, c} : d.line[l].locked \in Int /\ d.line[l].shipped \in Int
      BY <1>0, SoundTypes DEF Quantities
    <2>. HIDE DEF picked, morePicked
    <2>5. \A s : Total(picked(s, y, l), Outbounds)
                   = Total(picked(s, x, l), Outbounds) + Total(morePicked(s, l), Outbounds)
      BY <2>1, FiniteAssumption, SumOfSums
    <2>. QED  BY <2>2, <2>3, <2>4, <2>5
  <1>. QED  BY <1>1, <1>2 DEF InOrder

(* A worker that rolls back, or has just committed, holds nothing.         *)
LEMMA IdleInStep ==
  ASSUME NEW w \in Workers, SoundBook(Book)', (\A o \in Outbounds : outbound[o] \in Lists)',
         DOMAIN stock' = Items, DOMAIN line' = Lines, DOMAIN outbound' = Outbounds,
         stock' = [i \in Items |-> stock'[i]], line' = [l \in Lines |-> line'[l]],
         outbound' = [o \in Outbounds |-> outbound'[o]],
         tx'[w] = Idle
  PROVE  InStep(w)'
  <1>1. Overlay(stock', Empty) = stock' /\ Overlay(line', Empty) = line' /\ Overlay(outbound', Empty) = outbound'
    BY DEF Overlay, Empty
  <1>2. SeenBy(w)' = Book' /\ ListsOf(w)' = outbound' /\ DOMAIN tx'[w].line = {} /\ tx'[w].claims = {}
    BY <1>1 DEF SeenBy, Book, ListsOf, Idle, Empty
  <1>3. KeepsBooks(Book', outbound', Book', outbound', {}, {})
    BY NothingChanged
  <1>. QED  BY <1>2, <1>3 DEF InStep

LEMMA RollbackIInv ==
  ASSUME IInv, NEW w \in Workers, Rollback(w)
  PROVE  IInv'
  <1>1. /\ UNCHANGED <<stock, line, outbound, claimed>>
        /\ tx'[w] = Idle /\ \A v \in Workers : v # w => tx'[v] = tx[v]
        /\ DOMAIN tx' = Workers
    BY DEF IInv, Types, Rollback, rows
  <1>2. DOMAIN Empty = {} /\ Idle.stock = Empty /\ Idle.line = Empty /\ Idle.outbound = Empty /\ Idle.claims = {}
    BY DEF Idle, Empty
  <1>3. Types'
    <2>1. ASSUME NEW v \in Workers
          PROVE  /\ \A i \in DOMAIN tx'[v].stock : i \in Items /\ tx'[v].stock[i] \in Rows
                 /\ \A l \in DOMAIN tx'[v].line : l \in Lines /\ tx'[v].line[l] \in Quantities
                 /\ \A o \in DOMAIN tx'[v].outbound : o \in Outbounds /\ tx'[v].outbound[o] \in Lists
                 /\ tx'[v].claims \subseteq Claims
      <3>1. CASE v = w
        BY <1>1, <1>2, <3>1
      <3>2. CASE v # w
        BY <1>1, <3>2 DEF IInv, Types, TypeOK
      <3>. QED  BY <3>1, <3>2
    <2>. QED  BY <1>1, <2>1 DEF IInv, Types, TypeOK
  <1>4. Apart'
    BY <1>1, <1>2 DEF IInv, Apart
  <1>5. Book' = Book /\ SoundBook(Book')
    BY <1>1 DEF IInv, Book
  <1>6. BooksBalance' /\ GoodsConserved'
    BY <1>1, BooksInOrder DEF IInv
  <1>7. ASSUME NEW v \in Workers PROVE InStep(v)'
    <2>1. CASE v = w
      <3>1. /\ \A o \in Outbounds : outbound'[o] \in Lists
            /\ DOMAIN stock' = Items /\ DOMAIN line' = Lines /\ DOMAIN outbound' = Outbounds
            /\ stock' = [i \in Items |-> stock'[i]] /\ line' = [l \in Lines |-> line'[l]]
            /\ outbound' = [o \in Outbounds |-> outbound'[o]]
        BY <1>1 DEF IInv, Types, TypeOK
      <3>. QED  BY <1>1, <1>5, <2>1, <3>1, IdleInStep
    <2>2. CASE v # w
      <3>1. SeenBy(v)' = SeenBy(v) /\ ListsOf(v)' = ListsOf(v) /\ tx'[v] = tx[v] /\ outbound' = outbound
        BY <1>1, <2>2 DEF SeenBy, ListsOf
      <3>2. KeepsBooks(Book, outbound, SeenBy(v), ListsOf(v), DOMAIN tx[v].line, tx[v].claims)
        BY DEF IInv, InStep
      <3>3. KeepsBooks(Book', outbound', SeenBy(v)', ListsOf(v)', DOMAIN tx'[v].line, tx'[v].claims)
        BY <1>5, <3>1, <3>2
      <3>. QED  BY <3>3 DEF InStep
    <2>. QED  BY <2>1, <2>2
  <1>. QED  BY <1>3, <1>4, <1>5, <1>6, <1>7 DEF IInv

(* A worker commits: what it saw is what everybody sees, and what the      *)
(* others hold changes as much of it as before.                            *)
LEMMA CommitIInv ==
  ASSUME IInv, NEW w \in Workers, Commit(w)
  PROVE  IInv'
  <1>1. /\ stock' = SeenBy(w).stock /\ line' = SeenBy(w).line /\ outbound' = ListsOf(w)
        /\ claimed' = claimed \union tx[w].claims
        /\ tx'[w] = Idle /\ \A v \in Workers : v # w => tx'[v] = tx[v]
        /\ DOMAIN tx' = Workers
    BY BookRows DEF IInv, Types, Commit, ListsOf
  <1>2. DOMAIN Empty = {} /\ Idle.stock = Empty /\ Idle.line = Empty /\ Idle.outbound = Empty /\ Idle.claims = {}
    BY DEF Idle, Empty
  <1>3. Book' = SeenBy(w) /\ Book'.stock = stock' /\ Book'.line = line'
    BY <1>1 DEF Book, SeenBy
  <1>4. KeepsBooks(Book, outbound, SeenBy(w), ListsOf(w), DOMAIN tx[w].line, tx[w].claims)
    BY DEF IInv, InStep
  <1>5. SoundBook(Book')
    BY <1>3, <1>4 DEF KeepsBooks
  <1>6. /\ stock \in [Items -> Rows] /\ line \in [Lines -> Quantities] /\ outbound \in [Outbounds -> Lists]
        /\ \A v \in Workers :
             /\ \A i \in DOMAIN tx[v].stock : i \in Items /\ tx[v].stock[i] \in Rows
             /\ \A l \in DOMAIN tx[v].line : l \in Lines /\ tx[v].line[l] \in Quantities
             /\ \A o \in DOMAIN tx[v].outbound : o \in Outbounds /\ tx[v].outbound[o] \in Lists
             /\ tx[v].claims \subseteq Claims
    BY DEF IInv, Types, TypeOK
  <1>7. \A v \in Workers :
          /\ DOMAIN SeenBy(v).stock = Items /\ DOMAIN SeenBy(v).line = Lines /\ DOMAIN ListsOf(v) = Outbounds
          /\ \A i \in Items : SeenBy(v).stock[i] = IF i \in DOMAIN tx[v].stock THEN tx[v].stock[i] ELSE stock[i]
          /\ \A l \in Lines : SeenBy(v).line[l] = IF l \in DOMAIN tx[v].line THEN tx[v].line[l] ELSE line[l]
          /\ \A o \in Outbounds : ListsOf(v)[o] = IF o \in DOMAIN tx[v].outbound THEN tx[v].outbound[o] ELSE outbound[o]
    <2>1. DOMAIN stock = Items /\ DOMAIN line = Lines /\ DOMAIN outbound = Outbounds
      BY <1>6
    <2>2. \A v : /\ SeenBy(v).stock = Overlay(stock, tx[v].stock) /\ SeenBy(v).line = Overlay(line, tx[v].line)
                 /\ ListsOf(v) = Overlay(outbound, tx[v].outbound)
      BY BookRows DEF ListsOf
    <2>. QED  BY <2>1, <2>2, OverlayRows
  <1>8. stock' \in [Items -> Rows] /\ line' \in [Lines -> Quantities] /\ outbound' \in [Outbounds -> Lists]
    <2>1. stock' = Overlay(stock, tx[w].stock) /\ line' = Overlay(line, tx[w].line)
          /\ outbound' = Overlay(outbound, tx[w].outbound)
      BY <1>1, BookRows DEF ListsOf
    <2>2. stock' \in [Items -> Rows]
      BY <1>6, <2>1 DEF Overlay
    <2>3. line' \in [Lines -> Quantities]
      BY <1>6, <2>1 DEF Overlay
    <2>4. outbound' \in [Outbounds -> Lists]
      BY <1>6, <2>1 DEF Overlay
    <2>. QED  BY <2>2, <2>3, <2>4
  <1>9. Types'
    <2>1. ASSUME NEW v \in Workers
          PROVE  /\ \A i \in DOMAIN tx'[v].stock : i \in Items /\ tx'[v].stock[i] \in Rows
                 /\ \A l \in DOMAIN tx'[v].line : l \in Lines /\ tx'[v].line[l] \in Quantities
                 /\ \A o \in DOMAIN tx'[v].outbound : o \in Outbounds /\ tx'[v].outbound[o] \in Lists
                 /\ tx'[v].claims \subseteq Claims
      <3>1. CASE v = w
        BY <1>1, <1>2, <3>1
      <3>2. CASE v # w
        BY <1>1, <1>6, <3>2
      <3>. QED  BY <3>1, <3>2
    <2>2. claimed' \subseteq ({"version"} \X Versions) \union ({"receipt"} \X Receipts)
      BY <1>1, <1>6 DEF IInv, Types, TypeOK, Claims
    <2>. QED  BY <1>1, <1>8, <2>1, <2>2 DEF Types, TypeOK
  <1>10. Apart'
    <2>1. ASSUME NEW u \in Workers, NEW v \in Workers, u # v
          PROVE  /\ DOMAIN tx'[u].stock \intersect DOMAIN tx'[v].stock = {}
                 /\ DOMAIN tx'[u].line \intersect DOMAIN tx'[v].line = {}
                 /\ DOMAIN tx'[u].outbound \intersect DOMAIN tx'[v].outbound = {}
                 /\ tx'[u].claims \intersect tx'[v].claims = {}
      BY <1>1, <1>2, <2>1 DEF IInv, Apart
    <2>2. ASSUME NEW v \in Workers PROVE tx'[v].claims \intersect claimed' = {}
      BY <1>1, <1>2 DEF IInv, Apart
    <2>. QED  BY <2>1, <2>2 DEF Apart
  <1>11. BooksBalance' /\ GoodsConserved'
    <2>1. \A o \in Outbounds : outbound[o] \in Lists /\ ListsOf(w)[o] \in Lists
      BY <1>1, <1>6, <1>8
    <2>2. tx[w].claims \intersect claimed = {}
      BY DEF IInv, Apart
    <2>3. InOrder(Book.stock, Book.line, outbound, claimed)
      BY BooksInOrder, BookRows DEF IInv
    <2>4. InOrder(SeenBy(w).stock, SeenBy(w).line, ListsOf(w), claimed \union tx[w].claims)
      BY <1>4, <2>1, <2>2, <2>3, InOrderAfter DEF IInv
    <2>. QED  BY <1>1, <2>4, BooksInOrder
  <1>12. ASSUME NEW v \in Workers, v # w PROVE InStep(v)'
    <2>1. /\ DOMAIN tx[v].stock \intersect DOMAIN tx[w].stock = {}
          /\ DOMAIN tx[v].line \intersect DOMAIN tx[w].line = {}
          /\ DOMAIN tx[v].outbound \intersect DOMAIN tx[w].outbound = {}
      BY <1>12 DEF IInv, Apart
    <2>2. /\ SeenBy(v)'.stock = [i \in Items |-> IF i \in DOMAIN tx[v].stock THEN SeenBy(v).stock[i] ELSE SeenBy(w).stock[i]]
          /\ SeenBy(v)'.line = [l \in Lines |-> IF l \in DOMAIN tx[v].line THEN SeenBy(v).line[l] ELSE SeenBy(w).line[l]]
          /\ ListsOf(v)' = [o \in Outbounds |-> IF o \in DOMAIN tx[v].outbound THEN ListsOf(v)[o] ELSE ListsOf(w)[o]]
      <3>1. /\ SeenBy(v)'.stock = Overlay(stock', tx[v].stock) /\ SeenBy(v)'.line = Overlay(line', tx[v].line)
            /\ ListsOf(v)' = Overlay(outbound', tx[v].outbound)
        BY <1>1, <1>12 DEF SeenBy, ListsOf
      <3>. QED  BY <1>1, <1>6, <1>7, <3>1 DEF Overlay
    <2>3. KeepsBooks(Book, outbound, SeenBy(v), ListsOf(v), DOMAIN tx[v].line, tx[v].claims)
      BY DEF IInv, InStep
    <2>. DEFINE b == Book
                c == SeenBy(v)
                d == SeenBy(w)
                c2 == SeenBy(v)'
    <2>4. /\ b.stock = stock /\ b.line = line /\ d.stock = stock' /\ d.line = line'
          /\ SoundBook(b) /\ SoundBook(c) /\ SoundBook(d)
      BY <1>1, <1>4, <2>3, BookRows DEF IInv, KeepsBooks
    <2>5. \A i \in Items : \/ d.stock[i] = b.stock[i] /\ c2.stock[i] = c.stock[i]
                           \/ c.stock[i] = b.stock[i] /\ c2.stock[i] = d.stock[i]
      BY <1>7, <2>1, <2>2, <2>4
    <2>6. \A l \in Lines : \/ d.line[l] = b.line[l] /\ c2.line[l] = c.line[l]
                           \/ c.line[l] = b.line[l] /\ c2.line[l] = d.line[l]
      BY <1>7, <2>1, <2>2, <2>4
    <2>7. \A l \in DOMAIN tx[v].line : d.line[l] = b.line[l] /\ c2.line[l] = c.line[l]
      BY <1>6, <1>7, <2>1, <2>2, <2>4
    <2>8. c2.stock = [i \in Items |-> c2.stock[i]] /\ c2.line = [l \in Lines |-> c2.line[l]]
      BY <2>2
    <2>9. \A o \in Outbounds : \/ ListsOf(w)[o] = outbound[o] /\ ListsOf(v)'[o] = ListsOf(v)[o]
                               \/ ListsOf(v)[o] = outbound[o] /\ ListsOf(v)'[o] = ListsOf(w)[o]
      BY <1>7, <2>1, <2>2
    <2>10. \A o \in Outbounds : outbound[o] \in Lists /\ ListsOf(w)[o] \in Lists
      BY <1>1, <1>6, <1>8
    <2>. HIDE DEF b, c, d, c2
    <2>11. SoundBook(c2)
      <3>1. /\ \A i \in Items : c2.stock[i] = c.stock[i] \/ c2.stock[i] = d.stock[i]
            /\ \A l \in Lines : c2.line[l] = c.line[l] \/ c2.line[l] = d.line[l]
        BY <2>5, <2>6
      <3>2. c2.stock \in [Items -> [onHand : Nat, reserved : Int, locked : Nat, frozen : Nat]]
        BY <2>4, <2>8, <3>1 DEF SoundBook
      <3>3. c2.line \in [Lines -> Quantities]
        BY <2>4, <2>8, <3>1 DEF SoundBook
      <3>. QED  BY <2>4, <3>1, <3>2, <3>3 DEF SoundBook
    <2>12. \A i \in Items :
             /\ c2.stock[i].reserved - d.stock[i].reserved = c.stock[i].reserved - b.stock[i].reserved
             /\ c2.stock[i].locked - d.stock[i].locked = c.stock[i].locked - b.stock[i].locked
             /\ c2.stock[i].onHand - d.stock[i].onHand = c.stock[i].onHand - b.stock[i].onHand
      BY <2>4, <2>5, SoundTypes
    <2>13. \A l \in Lines :
             /\ Held(c2.line[l]) - Held(d.line[l]) = Held(c.line[l]) - Held(b.line[l])
             /\ c2.line[l].locked - d.line[l].locked = c.line[l].locked - b.line[l].locked
             /\ c2.line[l].shipped - d.line[l].shipped = c.line[l].shipped - b.line[l].shipped
      BY <2>4, <2>6, SoundTypes DEF Quantities
    <2>14. \A o \in Outbounds, l \in Lines : \A s \in {"DRAFT", "CONFIRMED"} :
             PickedAs(s, ListsOf(v)'[o], l) - PickedAs(s, ListsOf(w)[o], l)
               = PickedAs(s, ListsOf(v)[o], l) - PickedAs(s, outbound[o], l)
      <3>. SUFFICES ASSUME NEW o \in Outbounds, NEW l \in Lines, NEW s \in {"DRAFT", "CONFIRMED"}
                    PROVE  PickedAs(s, ListsOf(v)'[o], l) - PickedAs(s, ListsOf(w)[o], l)
                             = PickedAs(s, ListsOf(v)[o], l) - PickedAs(s, outbound[o], l)
        OBVIOUS
      <3>1. PickedAs(s, outbound[o], l) \in Int /\ PickedAs(s, ListsOf(w)[o], l) \in Int
        BY <2>10 DEF PickedAs, Lists
      <3>2. CASE ListsOf(w)[o] = outbound[o] /\ ListsOf(v)'[o] = ListsOf(v)[o]
        BY <3>2
      <3>3. CASE ListsOf(v)[o] = outbound[o] /\ ListsOf(v)'[o] = ListsOf(w)[o]
        BY <3>1, <3>3
      <3>. QED  BY <2>9, <3>2, <3>3
    <2>15. KeepsBooks(d, ListsOf(w), c2, ListsOf(v)', DOMAIN tx[v].line, tx[v].claims)
      <3>1. KeepsBooks(b, outbound, c, ListsOf(v), DOMAIN tx[v].line, tx[v].claims)
        BY <2>3 DEF b, c
      <3>. DEFINE y2 == ListsOf(v)'
      <3>2. \A o \in Outbounds, l \in Lines : \A s \in {"DRAFT", "CONFIRMED"} :
              PickedAs(s, y2[o], l) - PickedAs(s, ListsOf(w)[o], l)
                = PickedAs(s, ListsOf(v)[o], l) - PickedAs(s, outbound[o], l)
        BY <2>14
      <3>. HIDE DEF y2
      <3>3. KeepsBooks(d, ListsOf(w), c2, y2, DOMAIN tx[v].line, tx[v].claims)
        BY <2>7, <2>11, <2>12, <2>13, <3>1, <3>2, SameChanges
      <3>. QED  BY <3>3 DEF y2
    <2>16. Book' = d /\ outbound' = ListsOf(w) /\ tx'[v] = tx[v] /\ SeenBy(v)' = c2
      BY <1>1, <1>3, <1>12 DEF d, c2
    <2>17. KeepsBooks(Book', outbound', SeenBy(v)', ListsOf(v)', DOMAIN tx'[v].line, tx'[v].claims)
      BY <2>15, <2>16
    <2>. QED  BY <2>17 DEF InStep
  <1>13. InStep(w)'
    <2>1. /\ \A o \in Outbounds : outbound'[o] \in Lists
          /\ DOMAIN stock' = Items /\ DOMAIN line' = Lines /\ DOMAIN outbound' = Outbounds
          /\ stock' = [i \in Items |-> stock'[i]] /\ line' = [l \in Lines |-> line'[l]]
          /\ outbound' = [o \in Outbounds |-> outbound'[o]]
      BY <1>8
    <2>. QED  BY <1>1, <1>5, <2>1, IdleInStep
  <1>. QED  BY <1>5, <1>9, <1>10, <1>11, <1>12, <1>13 DEF IInv

-----------------------------------------------------------------------------
(* Operations keep the invariant.                                          *)

LEMMA ChangesOnlyTwice ==
  ASSUME NEW b, NEW c, NEW d, NEW I, NEW J, NEW L, NEW M,
         ChangesOnly(b, c, I, L), ChangesOnly(c, d, J, M)
  PROVE  ChangesOnly(b, d, I \union J, L \union M)
  BY DEF ChangesOnly

(* Lists nobody touches, and lines whose goods stay where they are.        *)
LEMMA ListedByNone ==
  ASSUME NEW b, SoundBook(b), NEW c, NEW x, \A o \in Outbounds : x[o] \in Lists,
         \A l \in Lines : c.line[l].locked = b.line[l].locked /\ c.line[l].shipped = b.line[l].shipped
  PROVE  Listed(b, c, x, x)
  <1>1. Listed(b, b, x, x)
    BY NothingChanged DEF KeepsBooks
  <1>. QED  BY <1>1 DEF Listed

(* No goods come or go.                                                    *)
LEMMA ConservedByNone ==
  ASSUME NEW b, SoundBook(b), NEW c, NEW claims,
         \A i \in Items : c.stock[i].onHand = b.stock[i].onHand,
         \A l \in Lines : c.line[l].shipped = b.line[l].shipped,
         \A r \in Receipts : <<"receipt", r>> \notin claims
  PROVE  Conserved(b, c, claims)
  <1>. DEFINE shipped == [l \in Lines |-> c.line[l].shipped - b.line[l].shipped]
              arrived(i) == [r \in Receipts |-> IF <<"receipt", r>> \in claims THEN Brought(r, i) ELSE 0]
  <1>. SUFFICES ASSUME NEW i \in Items
                PROVE  c.stock[i].onHand - b.stock[i].onHand + Total(shipped, LinesOf(i)) = Total(arrived(i), Receipts)
    BY DEF Conserved, Arrivals
  <1>1. \A l \in LinesOf(i) : shipped[l] = 0
    BY LinesFinite, SoundTypes DEF Quantities
  <1>2. \A r \in Receipts : arrived(i)[r] = 0
    OBVIOUS
  <1>3. b.stock[i].onHand \in Int
    BY SoundTypes
  <1>. HIDE DEF shipped, arrived
  <1>4. Total(shipped, LinesOf(i)) = 0 /\ Total(arrived(i), Receipts) = 0
    BY <1>1, <1>2, LinesFinite, FiniteAssumption, SumOfNothing
  <1>. QED  BY <1>3, <1>4

(* One picking list changes.                                               *)
(* The lines of b and c differ by what list d has of them and list row.    *)
PicksMove(b, c, d, row) ==
  \A l \in Lines :
    /\ c.line[l].locked - b.line[l].locked = PickedAs("DRAFT", row, l) - PickedAs("DRAFT", d, l)
    /\ c.line[l].shipped - b.line[l].shipped = PickedAs("CONFIRMED", row, l) - PickedAs("CONFIRMED", d, l)

LEMMA ListedByOne ==
  ASSUME NEW b, NEW c, NEW x, \A p \in Outbounds : x[p] \in Lists, DOMAIN x = Outbounds,
         NEW o \in Outbounds, NEW row \in Lists, PicksMove(b, c, x[o], row),
         NEW y, y[o] = row, \A p \in Outbounds : p # o => y[p] = x[p]
  PROVE  Listed(b, c, x, y)
  <1>. DEFINE more(s, l) == [p \in Outbounds |-> PickedAs(s, y[p], l) - PickedAs(s, x[p], l)]
  <1>1. y[o] = row /\ \A p \in Outbounds : p # o => y[p] = x[p]
    OBVIOUS
  <1>2. ASSUME NEW l \in Lines, NEW s \in {"DRAFT", "CONFIRMED"}
        PROVE  Total(more(s, l), Outbounds) = PickedAs(s, row, l) - PickedAs(s, x[o], l)
    <2>. DEFINE f == more(s, l)
    <2>1. \A p \in Outbounds : PickedAs(s, x[p], l) \in Int
      BY DEF PickedAs, Lists
    <2>2. PickedAs(s, row, l) \in Int
      BY DEF PickedAs, Lists
    <2>3. f[o] = PickedAs(s, row, l) - PickedAs(s, x[o], l) /\ f[o] \in Int
      BY <1>1, <2>1, <2>2
    <2>4. \A p \in Outbounds \ {o} : f[p] = 0
      BY <1>1, <2>1
    <2>. HIDE DEF f
    <2>5. Total(f, Outbounds) = f[o]
      BY <2>3, <2>4, FiniteAssumption, SumOfOne
    <2>. QED  BY <2>3, <2>5 DEF f
  <1>3. \A l \in Lines :
          /\ Total(more("DRAFT", l), Outbounds) = PickedAs("DRAFT", row, l) - PickedAs("DRAFT", x[o], l)
          /\ Total(more("CONFIRMED", l), Outbounds) = PickedAs("CONFIRMED", row, l) - PickedAs("CONFIRMED", x[o], l)
    BY <1>2
  <1>. QED  BY <1>3 DEF Listed, PicksMove

LEMMA BookSound ==
  ASSUME IInv
  PROVE  /\ SoundBook(Book) /\ Book.stock = stock /\ Book.line = line
         /\ \A i \in Items : stock[i] \in Rows
         /\ \A o \in Outbounds : outbound[o] \in Lists
         /\ DOMAIN outbound = Outbounds /\ DOMAIN stock = Items
         /\ outbound = [o \in Outbounds |-> outbound[o]]
         /\ Overlay(outbound, Empty) = outbound
  <1>1. outbound \in [Outbounds -> Lists] /\ stock \in [Items -> Rows]
    BY DEF IInv, Types, TypeOK
  <1>2. Overlay(outbound, Empty) = outbound
    BY <1>1 DEF Overlay, Empty
  <1>. QED  BY <1>1, <1>2, BookRows DEF IInv

LEMMA VersionNumbers ==
  /\ \A v \in Versions : v \in Int
  /\ \A l \in Lines : VersionOf[l] \in Int
  <1>1. \A v \in Versions : v \in Int
    <2>1. Versions \subseteq Nat
      BY LineAssumption
    <2>. QED  BY <2>1
  <1>2. \A l \in Lines : VersionOf[l] \in Versions
    BY LineAssumption
  <1>. QED  BY <1>1, <1>2

LEMMA AllocateIInv ==
  ASSUME IInv, NEW w \in Workers, NEW v \in Versions, AllocateContract(w, v)
  PROVE  IInv'
  <1>. DEFINE new == {l \in Lines : VersionOf[l] = v}
              old == Superseded(v)
              free == Uncommitted(old)
              opened == Create(Book, new)
              reserved == TopUp(opened, new)
              handed == HandBack(reserved, free)
              waiting == Waiting(handed, ItemsOf(free))
              filled == TopUp(handed, waiting)
              given == ItemsOf({l \in free : reserved.line[l].reserved > 0})
              touched == Candidates(Book, ItemsOf(new)) \union Candidates(handed, ItemsOf(free))
                           \union ItemsOf({l \in free : line[l].reserved > 0})
              L == new \union old \union waiting
              claims == {<<"version", v>>}
  <1>1. /\ claims \intersect claimed = {} /\ new # {}
        /\ Execute(w, filled, touched, L, Empty, claims)
    BY DEF AllocateContract
  <1>2. /\ new \in SUBSET Lines /\ old \in SUBSET Lines /\ free \in SUBSET old /\ waiting \in SUBSET Lines
        /\ free \in SUBSET Lines
        /\ \A l \in free : l \notin new /\ VersionOf[l] < v /\ ContractOf[VersionOf[l]] = ContractOf[v]
                           /\ line[l].locked = 0 /\ line[l].shipped = 0
        /\ \A l \in new : VersionOf[l] = v
        /\ ItemsOf(waiting) \subseteq ItemsOf(free)
    <2>1. new \in SUBSET Lines /\ old \in SUBSET Lines /\ free \in SUBSET old /\ waiting \in SUBSET Lines
          /\ free \in SUBSET Lines
      BY DEF Superseded, Uncommitted, Waiting
    <2>2. \A l \in free : VersionOf[l] < v /\ ContractOf[VersionOf[l]] = ContractOf[v]
                          /\ line[l].locked = 0 /\ line[l].shipped = 0
      BY DEF Superseded, Uncommitted
    <2>3. \A l \in Lines : VersionOf[l] \in Int
      BY VersionNumbers
    <2>4. ItemsOf(waiting) \subseteq ItemsOf(free)
      BY DEF ItemsOf, Waiting
    <2>. QED  BY <2>1, <2>2, <2>3, <2>4
  <1>3. /\ SoundBook(Book) /\ Book.stock = stock /\ Book.line = line
        /\ \A o \in Outbounds : outbound[o] \in Lists
        /\ Overlay(outbound, Empty) = outbound
    BY BookSound
  <1>. HIDE DEF new, old, free
  <1>4. /\ SoundBook(opened) /\ Balanced(Book, opened) /\ Stays(Book, opened)
        /\ ChangesOnly(Book, opened, {}, new) /\ opened.stock = Book.stock
        /\ \A l \in Lines : opened.line[l].status = IF l \in new THEN "ACTIVE" ELSE line[l].status
    BY <1>2, <1>3, CreateKeeps
  <1>. HIDE DEF opened
  <1>5. /\ SoundBook(reserved) /\ Balanced(opened, reserved) /\ Stays(opened, reserved)
        /\ ChangesOnly(opened, reserved, Candidates(opened, ItemsOf(new)), new)
        /\ \A l \in Lines : reserved.line[l].status = opened.line[l].status
    BY <1>2, <1>4, TopUpKeeps
  <1>. HIDE DEF reserved
  <1>6. /\ SoundBook(handed) /\ Balanced(reserved, handed) /\ Stays(reserved, handed)
        /\ ChangesOnly(reserved, handed, given, free)
        /\ \A l \in Lines : handed.line[l].status = IF l \in free THEN "RELEASED" ELSE reserved.line[l].status
    BY <1>2, <1>5, HandBackKeeps
  <1>. HIDE DEF handed, waiting
  <1>7. /\ SoundBook(filled) /\ Balanced(handed, filled) /\ Stays(handed, filled)
        /\ ChangesOnly(handed, filled, Candidates(handed, ItemsOf(waiting)), waiting)
        /\ \A l \in Lines : filled.line[l].status = handed.line[l].status
    BY <1>2, <1>6, TopUpKeeps
  <1>. HIDE DEF filled
  <1>8. Balanced(Book, filled)
    <2>1. Balanced(Book, reserved)
      BY <1>3, <1>4, <1>5, BalancedTwice
    <2>2. Balanced(Book, handed)
      BY <1>3, <1>5, <1>6, <2>1, BalancedTwice
    <2>. QED  BY <1>3, <1>6, <1>7, <2>2, BalancedTwice
  <1>9. Stays(Book, filled)
    BY <1>4, <1>5, <1>6, <1>7 DEF Stays
  <1>10. ChangesOnly(Book, filled, touched, L)
    <2>1. Candidates(opened, ItemsOf(new)) = Candidates(Book, ItemsOf(new))
      BY <1>4 DEF Candidates
    <2>2. Candidates(handed, ItemsOf(waiting)) \subseteq Candidates(handed, ItemsOf(free))
      BY <1>2 DEF Candidates
    <2>3. \A l \in free : reserved.line[l] = line[l]
      BY <1>2, <1>3, <1>4, <1>5 DEF ChangesOnly
    <2>4. given = ItemsOf({l \in free : line[l].reserved > 0})
      BY <2>3 DEF ItemsOf
    <2>5. ChangesOnly(Book, reserved, {} \union Candidates(opened, ItemsOf(new)), new \union new)
      BY <1>4, <1>5, ChangesOnlyTwice
    <2>6. ChangesOnly(Book, handed, ({} \union Candidates(opened, ItemsOf(new))) \union given, (new \union new) \union free)
      <3>. HIDE DEF given
      <3>. QED  BY <1>6, <2>5, ChangesOnlyTwice
    <2>7. ChangesOnly(Book, filled,
            (({} \union Candidates(opened, ItemsOf(new))) \union given) \union Candidates(handed, ItemsOf(waiting)),
            ((new \union new) \union free) \union waiting)
      <3>. HIDE DEF given
      <3>. QED  BY <1>7, <2>6, ChangesOnlyTwice
    <2>. HIDE DEF given
    <2>. QED  BY <1>2, <2>1, <2>2, <2>4, <2>7 DEF ChangesOnly
  <1>11. GivenUp(Book, filled, L)
    <2>. SUFFICES ASSUME NEW l \in L, line[l].status = "ACTIVE", filled.line[l].status = "RELEASED"
                  PROVE  /\ line[l].locked = 0 /\ line[l].shipped = 0
                         /\ \E k \in L : /\ filled.line[k].status = "ACTIVE" /\ VersionOf[k] > VersionOf[l]
                                         /\ ContractOf[VersionOf[k]] = ContractOf[VersionOf[l]]
      BY <1>3 DEF GivenUp
    <2>1. l \in Lines
      BY <1>2
    <2>2. l \in free
      BY <1>4, <1>5, <1>6, <1>7, <2>1
    <2>3. PICK k \in new : TRUE
      BY <1>1
    <2>4. k \in L /\ k \in Lines /\ k \notin free /\ VersionOf[k] = v
      BY <1>2, <2>3
    <2>5. filled.line[k].status = "ACTIVE"
      BY <1>4, <1>5, <1>6, <1>7, <2>3, <2>4
    <2>6. VersionOf[l] \in Int /\ v \in Int
      BY <2>1, VersionNumbers
    <2>. QED  BY <1>2, <2>2, <2>4, <2>5, <2>6
  <1>12. KeepsBooks(Book, outbound, filled, Overlay(outbound, Empty), L, claims)
    <2>1. Listed(Book, filled, outbound, outbound)
      BY <1>3, <1>9, ListedByNone DEF Stays
    <2>2. \A r \in Receipts : <<"receipt", r>> \notin claims
      OBVIOUS
    <2>. HIDE DEF claims
    <2>3. Conserved(Book, filled, claims)
      BY <1>3, <1>9, <2>2, ConservedByNone DEF Stays
    <2>. QED  BY <1>3, <1>7, <1>8, <1>11, <2>1, <2>3 DEF KeepsBooks
  <1>13. touched \in SUBSET Items /\ L \in SUBSET Lines /\ claims \in SUBSET Claims
    <2>1. \A S \in SUBSET Lines : ItemsOf(S) \subseteq Items
      BY LineAssumption DEF ItemsOf
    <2>2. Candidates(Book, ItemsOf(new)) \subseteq Items /\ Candidates(handed, ItemsOf(free)) \subseteq Items
      BY <1>2, <2>1 DEF Candidates
    <2>3. ItemsOf({l \in free : line[l].reserved > 0}) \subseteq Items
      BY <1>2, <2>1
    <2>4. claims \in SUBSET Claims
      BY DEF Claims
    <2>. QED  BY <1>2, <2>2, <2>3, <2>4
  <1>14. DOMAIN Empty \subseteq Outbounds /\ \A o \in DOMAIN Empty : Empty[o] \in Lists
    BY DEF Empty
  <1>. HIDE DEF touched, L, claims
  <1>. QED  BY <1>1, <1>10, <1>12, <1>13, <1>14, ExecuteIInv

LEMMA ReceiveIInv ==
  ASSUME IInv, NEW w \in Workers, NEW r \in Receipts, Receive(w, r)
  PROVE  IInv'
  <1>. DEFINE item == Delivery[r].item
              qty == Delivery[r].qty
              waiting == Waiting(Book, {item})
              arrived == Arrived(r)
              filled == TopUp(arrived, waiting)
              claims == {<<"receipt", r>>}
  <1>1. claims \intersect claimed = {} /\ Execute(w, filled, {item}, waiting, Empty, claims)
    BY DEF Receive
  <1>2. /\ SoundBook(Book) /\ Book.stock = stock /\ Book.line = line
        /\ \A o \in Outbounds : outbound[o] \in Lists
        /\ Overlay(outbound, Empty) = outbound /\ DOMAIN stock = Items
    BY BookSound
  <1>3. item \in Items /\ qty \in Nat /\ waiting \in SUBSET Lines /\ ItemsOf(waiting) \subseteq {item}
    BY QuantityAssumption DEF Waiting, ItemsOf
  <1>4. /\ \A i \in Items : arrived.stock[i] = IF i = item THEN [stock[i] EXCEPT !.onHand = @ + qty] ELSE stock[i]
        /\ arrived.stock = [i \in Items |-> arrived.stock[i]]
        /\ arrived.line = line
    <2>1. arrived.stock = [stock EXCEPT ![item].onHand = @ + qty] /\ arrived.line = line
      BY <1>2 DEF Arrived, Book
    <2>. HIDE DEF arrived
    <2>. QED  BY <1>2, <1>3, <2>1
  <1>. HIDE DEF item, qty, arrived, waiting
  <1>5. ASSUME NEW i \in Items
        PROVE  /\ arrived.stock[i] \in [onHand : Nat, reserved : Int, locked : Nat, frozen : Nat]
               /\ Available(arrived.stock[i]) >= 0
               /\ arrived.stock[i].reserved = stock[i].reserved /\ arrived.stock[i].locked = stock[i].locked
               /\ arrived.stock[i].onHand - stock[i].onHand = IF i = item THEN qty ELSE 0
               /\ i # item => arrived.stock[i] = stock[i]
    <2>. DEFINE s == stock[i]
                t == arrived.stock[i]
    <2>1. s \in [onHand : Nat, reserved : Int, locked : Nat, frozen : Nat] /\ Available(s) \in Nat
      <3>1. Book.stock[i] \in [onHand : Nat, reserved : Int, locked : Nat, frozen : Nat]
            /\ Available(Book.stock[i]) \in Nat
        BY <1>2, SoundTypes
      <3>. QED  BY <1>2, <3>1
    <2>2. t = IF i = item THEN [s EXCEPT !.onHand = @ + qty] ELSE s
      BY <1>4
    <2>. HIDE DEF s, t
    <2>3. CASE i = item
      <3>1. t = [s EXCEPT !.onHand = @ + qty]
        BY <2>2, <2>3
      <3>2. t \in [onHand : Nat, reserved : Int, locked : Nat, frozen : Nat]
            /\ t.reserved = s.reserved /\ t.locked = s.locked /\ t.frozen = s.frozen /\ t.onHand = s.onHand + qty
        BY <1>3, <2>1, <3>1
      <3>3. Available(t) >= 0 /\ t.onHand - s.onHand = qty
        BY <1>3, <2>1, <3>2 DEF Available
      <3>. QED  BY <2>3, <3>2, <3>3 DEF s, t
    <2>4. CASE i # item
      <3>1. t = s /\ t.onHand - s.onHand = 0
        BY <2>1, <2>2, <2>4
      <3>. QED  BY <2>1, <2>4, <3>1 DEF s, t
    <2>. QED  BY <2>3, <2>4
  <1>6. SoundBook(arrived)
    BY <1>2, <1>4, <1>5 DEF SoundBook
  <1>7. Balanced(Book, arrived) /\ ChangesOnly(Book, arrived, {item}, {})
    <2>1. Balanced(Book, Book)
      BY <1>2, NothingChanged DEF KeepsBooks
    <2>2. Balanced(Book, arrived)
      <3>1. arrived.line = Book.line
        BY <1>2, <1>4
      <3>2. \A i \in Items : arrived.stock[i].reserved = Book.stock[i].reserved
                             /\ arrived.stock[i].locked = Book.stock[i].locked
        BY <1>2, <1>5
      <3>. QED  BY <2>1, <3>1, <3>2 DEF Balanced
    <2>3. ChangesOnly(Book, arrived, {item}, {})
      BY <1>2, <1>4, <1>5 DEF ChangesOnly
    <2>. QED  BY <2>2, <2>3
  <1>8. /\ SoundBook(filled) /\ Balanced(arrived, filled) /\ Stays(arrived, filled)
        /\ ChangesOnly(arrived, filled, Candidates(arrived, ItemsOf(waiting)), waiting)
        /\ \A l \in Lines : filled.line[l].status = arrived.line[l].status
    BY <1>3, <1>6, TopUpKeeps
  <1>. HIDE DEF filled
  <1>9. Balanced(Book, filled)
    BY <1>2, <1>6, <1>7, <1>8, BalancedTwice
  <1>10. ChangesOnly(Book, filled, {item}, waiting)
    <2>1. ChangesOnly(Book, filled, {item} \union Candidates(arrived, ItemsOf(waiting)), {} \union waiting)
      BY <1>7, <1>8, ChangesOnlyTwice
    <2>2. Candidates(arrived, ItemsOf(waiting)) \subseteq {item}
      BY <1>3 DEF Candidates
    <2>. QED  BY <2>1, <2>2 DEF ChangesOnly
  <1>11. Conserved(Book, filled, claims)
    <2>. DEFINE shipped == [l \in Lines |-> filled.line[l].shipped - Book.line[l].shipped]
                brought(i) == [d \in Receipts |-> IF <<"receipt", d>> \in claims THEN Brought(d, i) ELSE 0]
    <2>. SUFFICES ASSUME NEW i \in Items
                  PROVE  filled.stock[i].onHand - Book.stock[i].onHand + Total(shipped, LinesOf(i))
                           = Total(brought(i), Receipts)
      BY DEF Conserved, Arrivals
    <2>1. \A l \in LinesOf(i) : shipped[l] = 0
      <3>1. \A l \in Lines : filled.line[l].shipped = Book.line[l].shipped /\ Book.line[l].shipped \in Int
        BY <1>2, <1>4, <1>8, SoundTypes DEF Stays, Quantities
      <3>. QED  BY <3>1, LinesFinite
    <2>2. brought(i)[r] = Brought(r, i) /\ \A d \in Receipts \ {r} : brought(i)[d] = 0
      OBVIOUS
    <2>3. Brought(r, i) = IF i = item THEN qty ELSE 0
      BY DEF Brought, item, qty
    <2>. HIDE DEF shipped
    <2>4. Total(shipped, LinesOf(i)) = 0
      BY <2>1, LinesFinite, SumOfNothing
    <2>5. Total(brought(i), Receipts) = Brought(r, i)
      <3>. DEFINE f == brought(i)
      <3>1. f[r] \in Int /\ (\A d \in Receipts \ {r} : f[d] = 0) /\ f[r] = Brought(r, i)
        BY <1>3, <2>2, <2>3
      <3>. HIDE DEF f
      <3>2. Total(f, Receipts) = f[r]
        BY <3>1, FiniteAssumption, SumOfOne
      <3>. QED  BY <3>1, <3>2 DEF f
    <2>6. filled.stock[i].onHand - Book.stock[i].onHand = IF i = item THEN qty ELSE 0
      BY <1>2, <1>5, <1>8 DEF Stays
    <2>. QED  BY <1>3, <2>3, <2>4, <2>5, <2>6
  <1>12. Listed(Book, filled, outbound, outbound)
    <2>1. \A l \in Lines : filled.line[l].locked = Book.line[l].locked /\ filled.line[l].shipped = Book.line[l].shipped
      BY <1>2, <1>4, <1>8 DEF Stays
    <2>. QED  BY <1>2, <2>1, ListedByNone
  <1>13. GivenUp(Book, filled, waiting)
    BY <1>2, <1>3, <1>4, <1>8 DEF GivenUp
  <1>14. KeepsBooks(Book, outbound, filled, Overlay(outbound, Empty), waiting, claims)
    BY <1>2, <1>8, <1>9, <1>11, <1>12, <1>13 DEF KeepsBooks
  <1>15. claims \in SUBSET Claims /\ {item} \in SUBSET Items
    BY <1>3 DEF Claims
  <1>16. DOMAIN Empty \subseteq Outbounds /\ \A o \in DOMAIN Empty : Empty[o] \in Lists
    BY DEF Empty
  <1>. HIDE DEF claims
  <1>. QED  BY <1>1, <1>3, <1>10, <1>14, <1>15, <1>16, ExecuteIInv

(* What is on a list that is not confirmed yet is locked.                  *)
LEMMA DraftsAreLocked ==
  ASSUME IInv, NEW o \in Outbounds, outbound[o].status = "DRAFT"
  PROVE  /\ outbound[o].picked \in [Lines -> Nat]
         /\ \A l \in Lines : outbound[o].picked[l] <= line[l].locked
         /\ \A i \in Items : Total(outbound[o].picked, LinesOf(i)) \in Nat
                             /\ Total(outbound[o].picked, LinesOf(i)) <= stock[i].locked
  <1>. DEFINE q == outbound[o].picked
              locked == [l \in Lines |-> line[l].locked]
              picked(l) == [p \in Outbounds |-> PickedAs("DRAFT", outbound[p], l)]
  <1>1. q \in [Lines -> Nat] /\ \A p \in Outbounds : outbound[p] \in Lists
    BY BookSound DEF Lists
  <1>2. /\ \A l \in Lines : line[l].locked = Total(picked(l), Outbounds)
        /\ \A i \in Items : stock[i].locked = Total(locked, LinesOf(i))
    BY DEF IInv, BooksBalance, PickedIn
  <1>3. \A l \in Lines : picked(l)[o] = q[l] /\ \A p \in Outbounds : picked(l)[p] \in Nat
    BY <1>1 DEF PickedAs, Lists
  <1>4. \A l \in Lines : q[l] <= line[l].locked /\ line[l].locked \in Nat
    <2>. SUFFICES ASSUME NEW l \in Lines PROVE q[l] <= line[l].locked /\ line[l].locked \in Nat
      OBVIOUS
    <2>. DEFINE f == picked(l)
    <2>1. f[o] = q[l] /\ \A p \in Outbounds : f[p] \in Nat
      BY <1>3
    <2>. HIDE DEF f
    <2>2. Total(f, Outbounds) \in Nat /\ f[o] <= Total(f, Outbounds)
      BY <2>1, FiniteAssumption, SumOfNaturals
    <2>3. line[l].locked = Total(f, Outbounds)
      BY <1>2 DEF f
    <2>. QED  BY <2>1, <2>2, <2>3
  <1>5. ASSUME NEW i \in Items
        PROVE  Total(q, LinesOf(i)) \in Nat /\ Total(q, LinesOf(i)) <= stock[i].locked
    <2>1. \A l \in LinesOf(i) : q[l] \in Nat /\ q[l] \in Int /\ locked[l] \in Int /\ q[l] <= locked[l]
      BY <1>1, <1>4, LinesFinite
    <2>. HIDE DEF q, locked
    <2>2. Total(q, LinesOf(i)) \in Nat
      BY <2>1, LinesFinite, SumOfNaturals
    <2>3. Total(q, LinesOf(i)) <= Total(locked, LinesOf(i))
      BY <2>1, LinesFinite, SumsInOrder
    <2>. QED  BY <1>2, <2>2, <2>3
  <1>. QED  BY <1>1, <1>4, <1>5

(* One picking list written, the goods of its lines moved.                 *)
LEMMA OutboundIInv ==
  ASSUME IInv, NEW w \in Workers, NEW o \in Outbounds, NEW row \in Lists,
         NEW book, NEW I \in SUBSET Items, NEW L \in SUBSET Lines,
         Execute(w, book, I, L, [x \in {o} |-> row], {}),
         SoundBook(book), Balanced(Book, book), Conserved(Book, book, {}), ChangesOnly(Book, book, I, L),
         \A l \in Lines :
           /\ book.line[l].locked - line[l].locked
                = PickedAs("DRAFT", row, l) - PickedAs("DRAFT", outbound[o], l)
           /\ book.line[l].shipped - line[l].shipped
                = PickedAs("CONFIRMED", row, l) - PickedAs("CONFIRMED", outbound[o], l)
           /\ book.line[l].status = "RELEASED" => line[l].status = "RELEASED"
  PROVE  IInv'
  <1>. DEFINE lists == [x \in {o} |-> row]
  <1>1. /\ Book.stock = stock /\ Book.line = line
        /\ \A p \in Outbounds : outbound[p] \in Lists
        /\ DOMAIN outbound = Outbounds
    BY BookSound
  <1>2. Listed(Book, book, outbound, Overlay(outbound, lists))
    <2>1. PicksMove(Book, book, outbound[o], row)
      BY <1>1 DEF PicksMove
    <2>. DEFINE y == Overlay(outbound, lists)
    <2>2. y[o] = row /\ \A p \in Outbounds : p # o => y[p] = outbound[p]
      BY <1>1, OverlayRows
    <2>. HIDE DEF y
    <2>3. Listed(Book, book, outbound, y)
      BY <1>1, <2>1, <2>2, ListedByOne
    <2>. QED  BY <2>3 DEF y
  <1>3. GivenUp(Book, book, L)
    BY <1>1 DEF GivenUp
  <1>4. KeepsBooks(Book, outbound, book, Overlay(outbound, lists), L, {})
    BY <1>2, <1>3 DEF KeepsBooks
  <1>5. DOMAIN lists \subseteq Outbounds /\ \A p \in DOMAIN lists : lists[p] \in Lists
    OBVIOUS
  <1>6. {} \in SUBSET Claims /\ {} \intersect claimed = {}
    OBVIOUS
  <1>7. Execute(w, book, I, L, lists, {})
    OBVIOUS
  <1>. HIDE DEF lists
  <1>. QED  BY <1>4, <1>5, <1>6, <1>7, ExecuteIInv

LEMMA PickedLines ==
  ASSUME NEW q
  PROVE  /\ Picked(q) \in SUBSET Lines /\ ItemsOf(Picked(q)) \in SUBSET Items
  BY LineAssumption DEF Picked, ItemsOf

LEMMA CreateOutboundIInv ==
  ASSUME IInv, NEW w \in Workers, NEW o \in Outbounds, NEW q \in [Lines -> Nat], CreateOutbound(w, o, q)
  PROVE  IInv'
  <1>. DEFINE L == Picked(q)
              W == {l \in L : q[l] > Ready(line[l])}
              topped == TopUp(Book, W)
              book == Lock(topped, q)
              row == [status |-> "DRAFT", picked |-> q]
  <1>1. /\ outbound[o].status = "none"
        /\ \A l \in L : q[l] <= Ready(topped.line[l])
        /\ Execute(w, book, ItemsOf(L), L, [x \in {o} |-> row], {})
    BY DEF CreateOutbound
  <1>2. /\ SoundBook(Book) /\ Book.stock = stock /\ Book.line = line
    BY BookSound
  <1>3. L \in SUBSET Lines /\ ItemsOf(L) \in SUBSET Items /\ W \in SUBSET Lines /\ W \subseteq L
    BY PickedLines
  <1>4. L = {l \in Lines : q[l] # 0} /\ \A l \in Lines : q[l] \in Nat /\ (l \notin L => q[l] = 0)
    BY DEF Picked
  <1>. HIDE DEF W, L
  <1>5. /\ SoundBook(topped) /\ Balanced(Book, topped) /\ Stays(Book, topped)
        /\ ChangesOnly(Book, topped, Candidates(Book, ItemsOf(W)), W)
        /\ \A l \in Lines : topped.line[l].status = line[l].status
    BY <1>2, <1>3, TopUpKeeps
  <1>. HIDE DEF topped
  <1>6. \A l \in Lines : q[l] \in Int /\ topped.line[l].locked + q[l] >= 0 /\ q[l] <= Ready(topped.line[l])
    <2>1. \A l \in Lines : topped.line[l].locked \in Nat /\ Ready(topped.line[l]) \in Nat
      BY <1>5, SoundTypes DEF Quantities
    <2>. QED  BY <1>1, <1>4, <2>1
  <1>7. \A i \in Items : topped.stock[i].locked + Total(q, LinesOf(i)) >= 0
    <2>1. \A i \in Items : topped.stock[i].locked \in Nat
      BY <1>5, SoundTypes
    <2>2. \A i \in Items : Total(q, LinesOf(i)) \in Nat
      BY <1>4, LinesFinite, SumOfNaturals
    <2>. QED  BY <2>1, <2>2
  <1>8. /\ SoundBook(book) /\ Balanced(topped, book)
        /\ \A i \in Items : book.stock[i].onHand = topped.stock[i].onHand
        /\ \A l \in Lines : /\ book.line[l].locked = topped.line[l].locked + q[l]
                            /\ book.line[l].shipped = topped.line[l].shipped
                            /\ book.line[l].status = topped.line[l].status
        /\ ChangesOnly(topped, book, ItemsOf(L), L)
    BY <1>4, <1>5, <1>6, <1>7, LockKeeps
  <1>. HIDE DEF book
  <1>9. Balanced(Book, book)
    BY <1>2, <1>5, <1>8, BalancedTwice
  <1>10. ChangesOnly(Book, book, ItemsOf(L), L)
    <2>1. ChangesOnly(Book, book, Candidates(Book, ItemsOf(W)) \union ItemsOf(L), W \union L)
      BY <1>5, <1>8, ChangesOnlyTwice
    <2>2. Candidates(Book, ItemsOf(W)) \subseteq ItemsOf(L)
      BY <1>3 DEF Candidates, ItemsOf
    <2>. QED  BY <1>3, <2>1, <2>2 DEF ChangesOnly
  <1>11. Conserved(Book, book, {})
    BY <1>2, <1>5, <1>8, ConservedByNone DEF Stays
  <1>12. row \in Lists
    BY DEF Lists, OutboundStates
  <1>13. ASSUME NEW l \in Lines
         PROVE  /\ book.line[l].locked - line[l].locked
                     = PickedAs("DRAFT", row, l) - PickedAs("DRAFT", outbound[o], l)
                /\ book.line[l].shipped - line[l].shipped
                     = PickedAs("CONFIRMED", row, l) - PickedAs("CONFIRMED", outbound[o], l)
                /\ book.line[l].status = "RELEASED" => line[l].status = "RELEASED"
    <2>1. /\ PickedAs("DRAFT", row, l) = q[l] /\ PickedAs("CONFIRMED", row, l) = 0
          /\ PickedAs("DRAFT", outbound[o], l) = 0 /\ PickedAs("CONFIRMED", outbound[o], l) = 0
      BY <1>1 DEF PickedAs
    <2>2. line[l].locked \in Nat /\ line[l].shipped \in Nat /\ q[l] \in Nat
      BY <1>2, <1>4, SoundTypes DEF Quantities
    <2>3. book.line[l].locked = line[l].locked + q[l] /\ book.line[l].shipped = line[l].shipped
      BY <1>2, <1>5, <1>8 DEF Stays
    <2>. HIDE DEF row
    <2>. QED  BY <1>5, <1>8, <2>1, <2>2, <2>3
  <1>. HIDE DEF row
  <1>. QED  BY <1>1, <1>3, <1>8, <1>9, <1>10, <1>11, <1>12, <1>13, OutboundIInv

LEMMA ConfirmOutboundIInv ==
  ASSUME IInv, NEW w \in Workers, NEW o \in Outbounds, ConfirmOutbound(w, o)
  PROVE  IInv'
  <1>. DEFINE q == outbound[o].picked
              book == Shipped(q)
              row == [outbound[o] EXCEPT !.status = "CONFIRMED"]
  <1>1. /\ outbound[o].status = "DRAFT"
        /\ Execute(w, book, ItemsOf(Picked(q)), Picked(q), [x \in {o} |-> row], {})
    BY DEF ConfirmOutbound
  <1>2. /\ SoundBook(Book) /\ Book.stock = stock /\ Book.line = line
        /\ \A i \in Items : stock[i].reserved \in Nat
        /\ outbound[o] \in Lists
    BY BookSound DEF Rows
  <1>3. /\ q \in [Lines -> Nat]
        /\ \A l \in Lines : q[l] <= line[l].locked
        /\ \A i \in Items : Total(q, LinesOf(i)) <= stock[i].locked
    BY <1>1, DraftsAreLocked
  <1>4. row \in Lists /\ row.status = "CONFIRMED" /\ row.picked = q
    BY <1>2 DEF Lists, OutboundStates
  <1>. HIDE DEF q, row
  <1>5. /\ SoundBook(book) /\ Balanced(Book, book) /\ Conserved(Book, book, {})
        /\ \A l \in Lines : /\ book.line[l].locked = line[l].locked - q[l]
                            /\ book.line[l].shipped = line[l].shipped + q[l]
                            /\ book.line[l].status = "RELEASED" => line[l].status = "RELEASED"
        /\ ChangesOnly(Book, book, ItemsOf(Picked(q)), Picked(q))
    <2>1. \A l \in Lines : q[l] \in Nat /\ q[l] <= line[l].locked
      BY <1>3
    <2>. QED  BY <1>2, <1>3, <2>1, ShippedKeeps
  <1>. HIDE DEF book
  <1>6. ASSUME NEW l \in Lines
        PROVE  /\ book.line[l].locked - line[l].locked
                    = PickedAs("DRAFT", row, l) - PickedAs("DRAFT", outbound[o], l)
               /\ book.line[l].shipped - line[l].shipped
                    = PickedAs("CONFIRMED", row, l) - PickedAs("CONFIRMED", outbound[o], l)
               /\ book.line[l].status = "RELEASED" => line[l].status = "RELEASED"
    <2>1. /\ PickedAs("DRAFT", row, l) = 0 /\ PickedAs("CONFIRMED", row, l) = q[l]
          /\ PickedAs("DRAFT", outbound[o], l) = q[l] /\ PickedAs("CONFIRMED", outbound[o], l) = 0
      BY <1>1, <1>4 DEF PickedAs, q
    <2>2. line[l].locked \in Nat /\ line[l].shipped \in Nat /\ q[l] \in Nat
      BY <1>2, <1>3, SoundTypes DEF Quantities
    <2>. QED  BY <1>5, <2>1, <2>2
  <1>. QED  BY <1>1, <1>4, <1>5, <1>6, PickedLines, OutboundIInv

LEMMA CancelOutboundIInv ==
  ASSUME IInv, NEW w \in Workers, NEW o \in Outbounds, CancelOutbound(w, o)
  PROVE  IInv'
  <1>. DEFINE q == outbound[o].picked
              less == [l \in Lines |-> -q[l]]
              book == Lock(Book, less)
              row == [outbound[o] EXCEPT !.status = "CANCELLED"]
  <1>1. /\ outbound[o].status = "DRAFT"
        /\ Execute(w, book, ItemsOf(Picked(q)), Picked(q), [x \in {o} |-> row], {})
    BY DEF CancelOutbound, Unlock
  <1>2. /\ SoundBook(Book) /\ Book.stock = stock /\ Book.line = line
        /\ outbound[o] \in Lists
    BY BookSound
  <1>3. /\ q \in [Lines -> Nat]
        /\ \A l \in Lines : q[l] <= line[l].locked
        /\ \A i \in Items : Total(q, LinesOf(i)) \in Nat /\ Total(q, LinesOf(i)) <= stock[i].locked
    BY <1>1, DraftsAreLocked
  <1>4. row \in Lists /\ row.status = "CANCELLED" /\ row.picked = q
    BY <1>2 DEF Lists, OutboundStates
  <1>. HIDE DEF q, row
  <1>5. \A l \in Lines : q[l] \in Nat /\ q[l] \in Int /\ less[l] = -q[l]
    BY <1>3
  <1>6. Picked(q) = {l \in Lines : less[l] # 0}
    BY <1>5 DEF Picked
  <1>. HIDE DEF less
  <1>7. \A i \in Items : stock[i].locked + Total(less, LinesOf(i)) >= 0
    <2>1. \A i \in Items : Total(less, LinesOf(i)) = -Total(q, LinesOf(i))
      <3>. SUFFICES ASSUME NEW i \in Items PROVE Total(less, LinesOf(i)) = -Total(q, LinesOf(i))
        OBVIOUS
      <3>1. \A l \in LinesOf(i) : q[l] \in Int /\ less[l] = -q[l]
        BY <1>5, LinesFinite
      <3>. QED  BY <3>1, LinesFinite, SumOfOpposites
    <2>2. \A i \in Items : stock[i].locked \in Nat
      BY <1>2, SoundTypes
    <2>. QED  BY <1>3, <2>1, <2>2
  <1>8. \A l \in Lines : less[l] \in Int /\ line[l].locked + less[l] >= 0 /\ less[l] <= Ready(line[l])
    <2>1. \A l \in Lines : line[l].locked \in Nat /\ Ready(line[l]) \in Nat
      BY <1>2, SoundTypes DEF Quantities
    <2>. QED  BY <1>3, <1>5, <2>1
  <1>9. /\ SoundBook(book) /\ Balanced(Book, book)
        /\ \A i \in Items : book.stock[i].onHand = stock[i].onHand
        /\ \A l \in Lines : /\ book.line[l].locked = line[l].locked + less[l]
                            /\ book.line[l].shipped = line[l].shipped
                            /\ book.line[l].status = line[l].status
        /\ ChangesOnly(Book, book, ItemsOf(Picked(q)), Picked(q))
    BY <1>2, <1>6, <1>7, <1>8, LockKeeps
  <1>. HIDE DEF book
  <1>10. Conserved(Book, book, {})
    BY <1>2, <1>9, ConservedByNone
  <1>11. ASSUME NEW l \in Lines
         PROVE  /\ book.line[l].locked - line[l].locked
                     = PickedAs("DRAFT", row, l) - PickedAs("DRAFT", outbound[o], l)
                /\ book.line[l].shipped - line[l].shipped
                     = PickedAs("CONFIRMED", row, l) - PickedAs("CONFIRMED", outbound[o], l)
                /\ book.line[l].status = "RELEASED" => line[l].status = "RELEASED"
    <2>1. /\ PickedAs("DRAFT", row, l) = 0 /\ PickedAs("CONFIRMED", row, l) = 0
          /\ PickedAs("DRAFT", outbound[o], l) = q[l] /\ PickedAs("CONFIRMED", outbound[o], l) = 0
      BY <1>1, <1>4 DEF PickedAs, q
    <2>2. line[l].locked \in Nat /\ line[l].shipped \in Nat /\ q[l] \in Nat
      BY <1>2, <1>3, SoundTypes DEF Quantities
    <2>. QED  BY <1>5, <1>9, <2>1, <2>2
  <1>. QED  BY <1>1, <1>4, <1>9, <1>10, <1>11, PickedLines, OutboundIInv

(* Goods set aside, or no longer: n may be negative.                       *)
LEMMA FreezeByIInv ==
  ASSUME IInv, NEW w \in Workers, NEW i \in Items, NEW n \in Int,
         n <= Available(stock[i]), stock[i].frozen + n >= 0, FreezeBy(w, i, n)
  PROVE  IInv'
  <1>. DEFINE book == [Book EXCEPT !.stock[i].frozen = @ + n]
  <1>1. Execute(w, book, {i}, {}, Empty, {})
    BY DEF FreezeBy
  <1>2. /\ SoundBook(Book) /\ Book.stock = stock /\ Book.line = line
        /\ \A o \in Outbounds : outbound[o] \in Lists
        /\ Overlay(outbound, Empty) = outbound /\ DOMAIN stock = Items
    BY BookSound
  <1>3. /\ book.stock[i] = [stock[i] EXCEPT !.frozen = @ + n]
        /\ \A j \in Items : j # i => book.stock[j] = stock[j]
        /\ book.stock = [j \in Items |-> book.stock[j]]
        /\ book.line = line
    <2>1. book.stock = [stock EXCEPT ![i].frozen = @ + n] /\ book.line = line
      BY <1>2 DEF Book
    <2>. HIDE DEF book
    <2>. QED  BY <1>2, <2>1
  <1>. HIDE DEF book
  <1>4. ASSUME NEW j \in Items
        PROVE  /\ book.stock[j] \in [onHand : Nat, reserved : Int, locked : Nat, frozen : Nat]
               /\ Available(book.stock[j]) >= 0
               /\ book.stock[j].reserved = stock[j].reserved /\ book.stock[j].locked = stock[j].locked
               /\ book.stock[j].onHand = stock[j].onHand
    <2>. DEFINE s == stock[j]
                t == book.stock[j]
    <2>1. s \in [onHand : Nat, reserved : Int, locked : Nat, frozen : Nat] /\ Available(s) \in Nat
      <3>1. Book.stock[j] \in [onHand : Nat, reserved : Int, locked : Nat, frozen : Nat]
            /\ Available(Book.stock[j]) \in Nat
        BY <1>2, SoundTypes
      <3>. QED  BY <1>2, <3>1
    <2>2. CASE j = i
      <3>1. t = [s EXCEPT !.frozen = @ + n] /\ n <= Available(s) /\ s.frozen + n >= 0
        BY <1>3, <2>2
      <3>. HIDE DEF s, t
      <3>2. s.frozen + n \in Nat
        BY <2>1, <3>1
      <3>3. /\ t \in [onHand : Nat, reserved : Int, locked : Nat, frozen : Nat]
            /\ t.reserved = s.reserved /\ t.locked = s.locked /\ t.onHand = s.onHand /\ t.frozen = s.frozen + n
        BY <2>1, <3>1, <3>2
      <3>4. Available(t) >= 0
        BY <2>1, <3>1, <3>3 DEF Available
      <3>. QED  BY <3>3, <3>4 DEF s, t
    <2>3. CASE j # i
      BY <1>3, <2>1, <2>3
    <2>. QED  BY <2>2, <2>3
  <1>5. SoundBook(book)
    BY <1>2, <1>3, <1>4 DEF SoundBook
  <1>6. Balanced(Book, Book)
    BY <1>2, NothingChanged DEF KeepsBooks
  <1>7. Balanced(Book, book)
    <2>1. [l \in Lines |-> Held(book.line[l]) - Held(Book.line[l])]
            = [l \in Lines |-> Held(Book.line[l]) - Held(Book.line[l])]
      BY <1>2, <1>3
    <2>2. [l \in Lines |-> book.line[l].locked - Book.line[l].locked]
            = [l \in Lines |-> Book.line[l].locked - Book.line[l].locked]
      BY <1>2, <1>3
    <2>3. \A j \in Items : book.stock[j].reserved = Book.stock[j].reserved
                           /\ book.stock[j].locked = Book.stock[j].locked
      BY <1>2, <1>4
    <2>. QED  BY <1>6, <2>1, <2>2, <2>3 DEF Balanced
  <1>8. Conserved(Book, book, {})
    BY <1>2, <1>3, <1>4, ConservedByNone
  <1>9. Listed(Book, book, outbound, outbound)
    BY <1>2, <1>3, ListedByNone
  <1>10. KeepsBooks(Book, outbound, book, Overlay(outbound, Empty), {}, {})
    BY <1>2, <1>5, <1>7, <1>8, <1>9 DEF KeepsBooks, GivenUp
  <1>11. ChangesOnly(Book, book, {i}, {})
    BY <1>2, <1>3 DEF ChangesOnly
  <1>12. /\ DOMAIN Empty \subseteq Outbounds /\ \A o \in DOMAIN Empty : Empty[o] \in Lists
         /\ {} \in SUBSET Claims /\ {} \intersect claimed = {} /\ {i} \in SUBSET Items /\ {} \in SUBSET Lines
    BY DEF Empty
  <1>. QED  BY <1>1, <1>10, <1>11, <1>12, ExecuteIInv

LEMMA InitIInv == Init => IInv
  <1>. SUFFICES ASSUME Init PROVE IInv
    OBVIOUS
  <1>1. /\ \A i \in Items : stock[i] = [onHand |-> 0, reserved |-> 0, locked |-> 0, frozen |-> 0]
        /\ \A l \in Lines : line[l] = [status |-> "none", reserved |-> 0, locked |-> 0, shipped |-> 0, back |-> 0]
        /\ \A o \in Outbounds : outbound[o].status = "none" /\ outbound[o].picked = [l \in Lines |-> 0]
        /\ claimed = {} /\ \A w \in Workers : tx[w] = Idle
    BY DEF Init
  <1>2. DOMAIN Empty = {} /\ Idle.stock = Empty /\ Idle.line = Empty /\ Idle.outbound = Empty /\ Idle.claims = {}
    BY DEF Idle, Empty
  <1>3. Types
    <2>1. stock \in [Items -> Rows] /\ line \in [Lines -> Quantities] /\ outbound \in [Outbounds -> Lists]
      BY DEF Init, Rows, Quantities, Lists, LineStates, OutboundStates
    <2>2. DOMAIN tx = Workers
      BY DEF Init
    <2>. QED  BY <1>1, <1>2, <2>1, <2>2 DEF Types, TypeOK
  <1>4. Apart
    BY <1>1, <1>2 DEF Apart
  <1>5. SoundBook(Book)
    <2>1. stock \in [Items -> Rows] /\ line \in [Lines -> Quantities]
      BY <1>3 DEF Types, TypeOK
    <2>2. stock \in [Items -> [onHand : Nat, reserved : Int, locked : Nat, frozen : Nat]]
      BY <2>1 DEF Rows
    <2>3. \A i \in Items : Available(stock[i]) >= 0
      BY <1>1 DEF Available
    <2>4. \A l \in Lines : Ready(line[l]) >= 0 /\ Short(line[l], l) >= 0
      BY <1>1, LineAssumption DEF Ready, Short
    <2>. QED  BY <2>1, <2>2, <2>3, <2>4, BookRows DEF SoundBook
  <1>6. BooksBalance
    <2>. DEFINE held == [l \in Lines |-> Held(line[l])]
                locked == [l \in Lines |-> line[l].locked]
                picked(s, l) == [o \in Outbounds |-> PickedAs(s, outbound[o], l)]
    <2>1. \A l \in Lines : held[l] = 0 /\ locked[l] = 0
      BY <1>1 DEF Held, Ready
    <2>2. \A l \in Lines : \A o \in Outbounds : picked("DRAFT", l)[o] = 0 /\ picked("CONFIRMED", l)[o] = 0
      BY <1>1 DEF PickedAs
    <2>. HIDE DEF held, locked, picked
    <2>3. \A i \in Items : Total(held, LinesOf(i)) = 0 /\ Total(locked, LinesOf(i)) = 0
      BY <2>1, LinesFinite, SumOfNothing
    <2>4. \A l \in Lines : Total(picked("DRAFT", l), Outbounds) = 0 /\ Total(picked("CONFIRMED", l), Outbounds) = 0
      BY <2>2, FiniteAssumption, SumOfNothing
    <2>. QED  BY <1>1, <2>3, <2>4 DEF BooksBalance, PickedIn, held, locked, picked
  <1>7. GoodsConserved
    <2>. DEFINE shipped == [l \in Lines |-> line[l].shipped]
                brought(i) == [r \in Receipts |-> IF <<"receipt", r>> \in claimed THEN Brought(r, i) ELSE 0]
    <2>1. /\ \A l \in Lines : shipped[l] = 0
          /\ \A i \in Items : \A r \in Receipts : brought(i)[r] = 0
      BY <1>1
    <2>. HIDE DEF shipped, brought
    <2>2. \A i \in Items : Total(shipped, LinesOf(i)) = 0
      BY <2>1, LinesFinite, SumOfNothing
    <2>3. \A i \in Items : Total(brought(i), Receipts) = 0
      BY <2>1, FiniteAssumption, SumOfNothing
    <2>. QED  BY <1>1, <2>2, <2>3 DEF GoodsConserved, shipped, brought
  <1>8. ASSUME NEW w \in Workers PROVE InStep(w)
    <2>1. Overlay(stock, Empty) = stock /\ Overlay(line, Empty) = line /\ Overlay(outbound, Empty) = outbound
      BY DEF Overlay, Empty, Init
    <2>2. SeenBy(w) = Book /\ ListsOf(w) = outbound /\ DOMAIN tx[w].line = {} /\ tx[w].claims = {}
      BY <1>1, <1>2, <2>1 DEF SeenBy, Book, ListsOf
    <2>3. \A o \in Outbounds : outbound[o] \in Lists
      BY <1>3 DEF Types, TypeOK
    <2>4. KeepsBooks(Book, outbound, Book, outbound, {}, {})
      BY <1>5, <2>3, NothingChanged
    <2>. QED  BY <2>2, <2>4 DEF InStep
  <1>. QED  BY <1>3, <1>4, <1>5, <1>6, <1>7, <1>8 DEF IInv

LEMMA StutterIInv == IInv /\ UNCHANGED vars => IInv'
  <1>. SUFFICES ASSUME IInv, UNCHANGED vars PROVE IInv'
    OBVIOUS
  <1>1. stock' = stock /\ line' = line /\ outbound' = outbound /\ claimed' = claimed /\ tx' = tx
    BY DEF vars, rows
  <1>2. Types' /\ Apart'
    BY <1>1 DEF IInv, Types, TypeOK, Apart
  <1>3. Book' = Book /\ SoundBook(Book')
    BY <1>1 DEF IInv, Book
  <1>4. BooksBalance' /\ GoodsConserved'
    BY <1>1, BooksInOrder DEF IInv
  <1>5. ASSUME NEW v \in Workers PROVE InStep(v)'
    <2>1. SeenBy(v)' = SeenBy(v) /\ ListsOf(v)' = ListsOf(v)
      BY <1>1 DEF SeenBy, ListsOf
    <2>2. KeepsBooks(Book, outbound, SeenBy(v), ListsOf(v), DOMAIN tx[v].line, tx[v].claims)
      BY DEF IInv, InStep
    <2>3. KeepsBooks(Book', outbound', SeenBy(v)', ListsOf(v)', DOMAIN tx'[v].line, tx'[v].claims)
      BY <1>1, <1>3, <2>1, <2>2
    <2>. QED  BY <2>3 DEF InStep
  <1>. QED  BY <1>2, <1>3, <1>4, <1>5 DEF IInv

LEMMA StepIInv == IInv /\ [Next]_vars => IInv'
  <1>. SUFFICES ASSUME IInv, [Next]_vars PROVE IInv'
    OBVIOUS
  <1>1. CASE UNCHANGED vars
    BY <1>1, StutterIInv
  <1>2. CASE Next
    <2>. PICK w \in Workers :
           \/ Commit(w) \/ Rollback(w)
           \/ \E v \in Versions : AllocateContract(w, v)
           \/ \E r \in Receipts : Receive(w, r)
           \/ \E o \in Outbounds : ConfirmOutbound(w, o) \/ CancelOutbound(w, o)
           \/ \E o \in Outbounds, q \in Orders : CreateOutbound(w, o, q)
           \/ \E i \in Items, n \in Frozen : Freeze(w, i, n) \/ Unfreeze(w, i, n)
      BY <1>2 DEF Next
    <2>1. CASE Commit(w)
      BY <2>1, CommitIInv
    <2>2. CASE Rollback(w)
      BY <2>2, RollbackIInv
    <2>3. CASE \E v \in Versions : AllocateContract(w, v)
      BY <2>3, AllocateIInv
    <2>4. CASE \E r \in Receipts : Receive(w, r)
      BY <2>4, ReceiveIInv
    <2>5. CASE \E o \in Outbounds : ConfirmOutbound(w, o) \/ CancelOutbound(w, o)
      BY <2>5, ConfirmOutboundIInv, CancelOutboundIInv
    <2>6. CASE \E o \in Outbounds, q \in Orders : CreateOutbound(w, o, q)
      <3>1. PICK o \in Outbounds, q \in Orders : CreateOutbound(w, o, q)
        BY <2>6
      <3>2. q \in [Lines -> Nat]
        <4>1. \A m : 0..m \subseteq Nat
          OBVIOUS
        <4>2. q \in [Lines -> 0..Max({Demand[l] : l \in Lines})]
          BY DEF Orders
        <4>. QED  BY <4>1, <4>2
      <3>. QED  BY <3>1, <3>2, CreateOutboundIInv
    <2>7. CASE \E i \in Items, n \in Frozen : Freeze(w, i, n) \/ Unfreeze(w, i, n)
      <3>1. PICK i \in Items, n \in Frozen : Freeze(w, i, n) \/ Unfreeze(w, i, n)
        BY <2>7
      <3>2. n \in Nat /\ stock[i].frozen \in Nat /\ Available(stock[i]) \in Nat
        <4>1. stock[i].frozen \in Nat /\ Available(stock[i]) \in Nat
          BY BookSound, SoundTypes
        <4>. QED  BY <4>1, QuantityAssumption
      <3>3. CASE Freeze(w, i, n)
        BY <3>2, <3>3, FreezeByIInv DEF Freeze
      <3>4. CASE Unfreeze(w, i, n)
        <4>. DEFINE m == -n
        <4>1. m \in Int /\ m <= Available(stock[i]) /\ stock[i].frozen + m >= 0 /\ FreezeBy(w, i, m)
          BY <3>2, <3>4 DEF Unfreeze
        <4>. HIDE DEF m
        <4>. QED  BY <4>1, FreezeByIInv
      <3>. QED  BY <3>1, <3>3, <3>4
    <2>. QED  BY <2>1, <2>2, <2>3, <2>4, <2>5, <2>6, <2>7
  <1>. QED  BY <1>1, <1>2

-----------------------------------------------------------------------------
(* The theorems.                                                           *)

(* The inductive invariant holds for any items, lines, versions, receipts, *)
(* picking lists and workers.                                              *)
THEOREM Invariance == Spec => []IInv
  BY InitIInv, StepIInv, PTL DEF Spec

(* Rows, and what transactions hold of them, stay what the columns allow:  *)
(* no CHECK on a quantity below zero ever fires (00001_stock.sql).         *)
THEOREM TypeInvariant == Spec => []TypeOK
  BY Invariance, PTL DEF IInv, Types

(* Nothing is handed back, locked, unlocked or shipped twice or for one    *)
(* side only (reserve.go, outbound.go), however many transactions overlap. *)
THEOREM BooksAlwaysBalance == Spec => []BooksBalance
  BY Invariance, PTL DEF IInv

(* A delivery announced again is booked once, a picking list ships once    *)
(* (service.go, eventclaim.go, outbound.go).                               *)
THEOREM GoodsAlwaysConserved == Spec => []GoodsConserved
  BY Invariance, PTL DEF IInv

(* No operation promises more than is there, or takes more for a line than *)
(* its contract sells (takeStock, CreateOutbound, changeFrozen).           *)
THEOREM NothingOversold == Spec => []NeverOversold
  <1>1. IInv => NeverOversold
    BY BookRows DEF IInv, SoundBook, NeverOversold
  <1>. QED  BY <1>1, Invariance, PTL

(* A reservation is given up for a later version of its contract only, and *)
(* never with goods of it locked or shipped (reserve.go:258-269).          *)
THEOREM OnlySupersededReleased == Spec => ReleasedOnlySuperseded
  <1>. DEFINE Given == \A l \in Lines :
         line[l].status = "ACTIVE" /\ line'[l].status = "RELEASED" =>
           /\ line[l].locked = 0 /\ line[l].shipped = 0
           /\ \E k \in Lines : /\ line'[k].status = "ACTIVE" /\ VersionOf[k] > VersionOf[l]
                               /\ ContractOf[VersionOf[k]] = ContractOf[VersionOf[l]]
  <1>1. ASSUME IInv, [Next]_vars PROVE [Given]_vars
    <2>1. CASE UNCHANGED vars
      BY <2>1
    <2>2. CASE line' = line
      BY <2>2
    <2>3. ASSUME NEW w \in Workers, Commit(w) PROVE Given
      <3>1. /\ line' = SeenBy(w).line /\ DOMAIN line = Lines
            /\ \A l \in DOMAIN tx[w].line : l \in Lines
        BY <1>1, <2>3, BookRows DEF Commit, IInv, Types, TypeOK
      <3>2. \A l \in Lines : l \notin DOMAIN tx[w].line => line'[l] = line[l]
        BY <3>1, OverlayRows, BookRows
      <3>3. GivenUp(Book, SeenBy(w), DOMAIN tx[w].line)
        BY <1>1 DEF IInv, InStep, KeepsBooks
      <3>4. Book.line = line
        BY BookRows
      <3>. SUFFICES ASSUME NEW l \in Lines, line[l].status = "ACTIVE", line'[l].status = "RELEASED"
                    PROVE  /\ line[l].locked = 0 /\ line[l].shipped = 0
                           /\ \E k \in Lines : /\ line'[k].status = "ACTIVE" /\ VersionOf[k] > VersionOf[l]
                                               /\ ContractOf[VersionOf[k]] = ContractOf[VersionOf[l]]
        OBVIOUS
      <3>5. l \in DOMAIN tx[w].line
        BY <3>2
      <3>. QED  BY <3>1, <3>3, <3>4, <3>5 DEF GivenUp
    <2>4. CASE Next
      <3>1. PICK w \in Workers :
              \/ Commit(w) \/ Rollback(w)
              \/ \E v \in Versions : AllocateContract(w, v)
              \/ \E r \in Receipts : Receive(w, r)
              \/ \E o \in Outbounds : ConfirmOutbound(w, o) \/ CancelOutbound(w, o)
              \/ \E o \in Outbounds, q \in Orders : CreateOutbound(w, o, q)
              \/ \E i \in Items, n \in Frozen : Freeze(w, i, n) \/ Unfreeze(w, i, n)
        BY <2>4 DEF Next
      <3>2. \A b, I, L, lists, claims : Execute(w, b, I, L, lists, claims) => line' = line
        BY DEF Execute, rows
      <3>3. Rollback(w) => line' = line
        BY DEF Rollback, rows
      <3>4. /\ \A v \in Versions : AllocateContract(w, v) => line' = line
            /\ \A r \in Receipts : Receive(w, r) => line' = line
        BY <3>2 DEF AllocateContract, Receive
      <3>5. /\ \A o \in Outbounds : (ConfirmOutbound(w, o) => line' = line) /\ (CancelOutbound(w, o) => line' = line)
            /\ \A o \in Outbounds, q \in Orders : CreateOutbound(w, o, q) => line' = line
        BY <3>2 DEF ConfirmOutbound, CancelOutbound, CreateOutbound
      <3>6. \A i \in Items, n \in Frozen :
              (Freeze(w, i, n) => line' = line) /\ (Unfreeze(w, i, n) => line' = line)
        BY <3>2 DEF Freeze, Unfreeze, FreezeBy
      <3>7. Commit(w) \/ line' = line
        BY <3>1, <3>3, <3>4, <3>5, <3>6
      <3>. QED  BY <2>2, <2>3, <3>7
    <2>. QED  BY <1>1, <2>1, <2>4
  <1>2. ReleasedOnlySuperseded <=> [][Given]_vars
    BY PTL DEF ReleasedOnlySuperseded
  <1>. QED  BY <1>1, <1>2, Invariance, PTL DEF Spec
-----------------------------------------------------------------------------
(* What LinesAreBacked fails by.                                           *)

(* A row of line l hands back no more than was reserved, is not in force   *)
(* with anything handed back, and is of a version that was dealt with.     *)
Accounted(r, l, claims) ==
  /\ r.back <= r.reserved
  /\ r.status = "ACTIVE" => r.back = 0
  /\ r.status = "ACTIVE" \/ r.back > 0 => <<"version", VersionOf[l]>> \in claims

HandBacksAccounted ==
  /\ \A l \in Lines : Accounted(line[l], l, claimed)
  /\ \A w \in Workers : \A l \in DOMAIN tx[w].line :
       Accounted(tx[w].line[l], l, claimed \union tx[w].claims)

(* Nothing of a reservation that was handed back is on a picking list or   *)
(* has left.                                                               *)
GivenUpForGood == \A l \in Lines : line[l].back > 0 => line[l].locked = 0 /\ line[l].shipped = 0

(* Topping up hands nothing back.                                          *)
LEMMA TopUpAccounts ==
  ASSUME NEW b, NEW W \in SUBSET Lines, NEW claims,
         \A i \in Items : Available(b.stock[i]) \in Int,
         \A l \in Lines : b.line[l] \in Quantities /\ Short(b.line[l], l) \in Nat,
         \A l \in Lines : Accounted(b.line[l], l, claims)
  PROVE  \A l \in Lines : Accounted(TopUp(b, W).line[l], l, claims)
  <1>. DEFINE taken == Taken(b, W)
  <1>1. \A l \in Lines : taken[l] \in Nat
    BY TakenBounds
  <1>2. \A l \in Lines : TopUp(b, W).line[l] = [b.line[l] EXCEPT !.reserved = @ + taken[l]]
    BY DEF TopUp
  <1>. HIDE DEF taken
  <1>4. SUFFICES ASSUME NEW l \in Lines PROVE Accounted(TopUp(b, W).line[l], l, claims)
    OBVIOUS
  <1>. DEFINE r == b.line[l]
              s == TopUp(b, W).line[l]
  <1>5. s = [r EXCEPT !.reserved = @ + taken[l]] /\ r \in Quantities /\ taken[l] \in Nat
    BY <1>1, <1>2
  <1>6. Accounted(r, l, claims)
    OBVIOUS
  <1>. HIDE DEF r, s
  <1>7. /\ s.reserved = r.reserved + taken[l] /\ s.back = r.back /\ s.status = r.status
        /\ r.reserved \in Nat /\ r.back \in Nat
    BY <1>5 DEF Quantities
  <1>8. Accounted(s, l, claims)
    BY <1>5, <1>6, <1>7 DEF Accounted
  <1>. QED  BY <1>8 DEF s

(* The rows a worker leaves behind are accounted for.                      *)
LEMMA ExecuteAccounts ==
  ASSUME HandBacksAccounted, DOMAIN tx = Workers, NEW w \in Workers, NEW book, NEW I, NEW L \in SUBSET Lines,
         NEW lists, NEW claims, Execute(w, book, I, L, lists, claims),
         \A l \in L : Accounted(book.line[l], l, claimed \union claims)
  PROVE  HandBacksAccounted'
  <1>1. /\ line' = line /\ claimed' = claimed
        /\ tx'[w].line = [l \in L |-> book.line[l]] /\ tx'[w].claims = claims
        /\ \A v \in Workers : v # w => tx'[v] = tx[v]
    BY DEF Execute, rows
  <1>2. \A l \in Lines : Accounted(line'[l], l, claimed')
    BY <1>1 DEF HandBacksAccounted
  <1>3. ASSUME NEW v \in Workers, NEW l \in DOMAIN tx'[v].line
        PROVE  Accounted(tx'[v].line[l], l, claimed' \union tx'[v].claims)
    <2>1. CASE v = w
      BY <1>1, <1>3, <2>1
    <2>2. CASE v # w
      BY <1>1, <1>3, <2>2 DEF HandBacksAccounted
    <2>. QED  BY <2>1, <2>2
  <1>. QED  BY <1>2, <1>3 DEF HandBacksAccounted, Accounted

LEMMA MoreClaims ==
  ASSUME NEW r, NEW l, NEW claims, NEW more, Accounted(r, l, claims)
  PROVE  Accounted(r, l, claims \union more) /\ Accounted(r, l, more \union claims)
  BY DEF Accounted

LEMMA AllocateAccounts ==
  ASSUME IInv, HandBacksAccounted, NEW w \in Workers, NEW v \in Versions, AllocateContract(w, v)
  PROVE  HandBacksAccounted'
  <1>. DEFINE new == {l \in Lines : VersionOf[l] = v}
              old == Superseded(v)
              free == Uncommitted(old)
              opened == Create(Book, new)
              reserved == TopUp(opened, new)
              handed == HandBack(reserved, free)
              waiting == Waiting(handed, ItemsOf(free))
              filled == TopUp(handed, waiting)
              touched == Candidates(Book, ItemsOf(new)) \union Candidates(handed, ItemsOf(free))
                           \union ItemsOf({l \in free : line[l].reserved > 0})
              L == new \union old \union waiting
              claims == {<<"version", v>>}
              after == claimed \union claims
  <1>1. <<"version", v>> \notin claimed /\ Execute(w, filled, touched, L, Empty, claims)
    BY DEF AllocateContract
  <1>2. /\ new \in SUBSET Lines /\ old \in SUBSET Lines /\ free \in SUBSET Lines /\ waiting \in SUBSET Lines
        /\ \A l \in new : VersionOf[l] = v
        /\ \A l \in free : line[l].status = "ACTIVE"
    BY DEF Superseded, Uncommitted, Waiting
  <1>3. SoundBook(Book) /\ Book.line = line
    BY BookSound
  <1>4. \A l \in Lines : /\ line[l] \in Quantities
                         /\ Accounted(line[l], l, claimed) /\ Accounted(line[l], l, after)
    BY <1>3, SoundTypes, MoreClaims DEF HandBacksAccounted
  <1>5. DOMAIN tx = Workers
    BY DEF IInv, Types
  <1>6. \A l \in new : line[l].back = 0 /\ line[l].reserved \in Nat /\ <<"version", VersionOf[l]>> \in after
    <2>. SUFFICES ASSUME NEW l \in new
                  PROVE  line[l].back = 0 /\ line[l].reserved \in Nat /\ <<"version", VersionOf[l]>> \in after
      OBVIOUS
    <2>1. line[l] \in Quantities /\ Accounted(line[l], l, claimed) /\ VersionOf[l] = v
      BY <1>2, <1>4
    <2>2. line[l].back \in Nat /\ line[l].reserved \in Nat /\ ~ (line[l].back > 0)
      BY <1>1, <2>1 DEF Accounted, Quantities
    <2>. QED  BY <2>1, <2>2
  <1>7. \A l \in Lines : opened.line[l] = IF l \in new THEN [line[l] EXCEPT !.status = "ACTIVE"] ELSE line[l]
    BY <1>3 DEF Create
  <1>8. SoundBook(opened)
    BY <1>2, <1>3, CreateKeeps
  <1>. HIDE DEF new, old, free, claims, after
  <1>9. ASSUME NEW l \in Lines PROVE Accounted(opened.line[l], l, after)
    <2>. DEFINE r == line[l]
                s == opened.line[l]
    <2>1. r \in Quantities /\ Accounted(r, l, after) /\ s = IF l \in new THEN [r EXCEPT !.status = "ACTIVE"] ELSE r
      BY <1>4, <1>7
    <2>2. l \in new => r.back = 0 /\ r.reserved \in Nat /\ <<"version", VersionOf[l]>> \in after
      BY <1>6
    <2>. HIDE DEF r, s
    <2>3. CASE l \in new
      <3>1. s.back = r.back /\ s.reserved = r.reserved
        BY <2>1, <2>3 DEF Quantities
      <3>2. s.back <= s.reserved /\ s.back = 0
        BY <2>2, <2>3, <3>1
      <3>. QED  BY <2>2, <2>3, <3>2 DEF Accounted, s
    <2>4. CASE l \notin new
      BY <2>1, <2>4 DEF s
    <2>. QED  BY <2>3, <2>4
  <1>. HIDE DEF opened
  <1>10. \A l \in Lines : Accounted(reserved.line[l], l, after)
    BY <1>2, <1>8, <1>9, SoundTypes, TopUpAccounts
  <1>11. SoundBook(reserved) /\ \A l \in Lines : reserved.line[l].status = opened.line[l].status
    BY <1>2, <1>8, TopUpKeeps
  <1>12. \A l \in free : opened.line[l].status = "ACTIVE"
    <2>. SUFFICES ASSUME NEW l \in free PROVE opened.line[l].status = "ACTIVE"
      OBVIOUS
    <2>1. line[l] \in Quantities /\ line[l].status = "ACTIVE"
      BY <1>2, <1>4
    <2>2. opened.line[l] = IF l \in new THEN [line[l] EXCEPT !.status = "ACTIVE"] ELSE line[l]
      BY <1>2, <1>7
    <2>. QED  BY <2>1, <2>2 DEF Quantities
  <1>13. \A l \in Lines : handed.line[l] =
           IF l \in free
           THEN [reserved.line[l] EXCEPT !.status = "RELEASED", !.back = @ + reserved.line[l].reserved]
           ELSE reserved.line[l]
    BY DEF HandBack
  <1>14. SoundBook(handed)
    BY <1>2, <1>11, HandBackKeeps
  <1>15. \A l \in Lines : reserved.line[l] \in Quantities
    BY <1>11, SoundTypes
  <1>. HIDE DEF reserved
  <1>16. ASSUME NEW l \in Lines PROVE Accounted(handed.line[l], l, after)
    <2>. DEFINE r == reserved.line[l]
                s == handed.line[l]
    <2>1. r \in Quantities /\ Accounted(r, l, after)
          /\ s = IF l \in free THEN [r EXCEPT !.status = "RELEASED", !.back = @ + r.reserved] ELSE r
      BY <1>10, <1>13, <1>15
    <2>2. l \in free => r.status = "ACTIVE"
      BY <1>2, <1>11, <1>12
    <2>. HIDE DEF r, s
    <2>3. CASE l \in free
      <3>1. /\ s.reserved = r.reserved /\ s.back = r.back + r.reserved /\ s.status = "RELEASED"
            /\ r.reserved \in Nat /\ r.back \in Nat
        BY <2>1, <2>3 DEF Quantities
      <3>2. r.back = 0 /\ <<"version", VersionOf[l]>> \in after
        BY <2>1, <2>2, <2>3 DEF Accounted
      <3>3. s.back <= s.reserved
        BY <3>1, <3>2
      <3>. QED  BY <3>1, <3>2, <3>3 DEF Accounted, s
    <2>4. CASE l \notin free
      BY <2>1, <2>4 DEF s
    <2>. QED  BY <2>3, <2>4
  <1>. HIDE DEF handed, waiting
  <1>17. \A l \in Lines : Accounted(filled.line[l], l, after)
    BY <1>2, <1>14, <1>16, SoundTypes, TopUpAccounts
  <1>. HIDE DEF filled, touched
  <1>18. L \in SUBSET Lines
    BY <1>2
  <1>. HIDE DEF L
  <1>. QED  BY <1>1, <1>5, <1>17, <1>18, ExecuteAccounts DEF after

LEMMA ReceiveAccounts ==
  ASSUME IInv, HandBacksAccounted, NEW w \in Workers, NEW r \in Receipts, Receive(w, r)
  PROVE  HandBacksAccounted'
  <1>. DEFINE item == Delivery[r].item
              qty == Delivery[r].qty
              waiting == Waiting(Book, {item})
              arrived == Arrived(r)
              filled == TopUp(arrived, waiting)
              claims == {<<"receipt", r>>}
              after == claimed \union claims
  <1>1. Execute(w, filled, {item}, waiting, Empty, claims)
    BY DEF Receive
  <1>2. SoundBook(Book) /\ Book.stock = stock /\ Book.line = line /\ DOMAIN stock = Items
    BY BookSound
  <1>3. qty \in Nat /\ waiting \in SUBSET Lines /\ DOMAIN tx = Workers
    BY QuantityAssumption DEF Waiting, IInv, Types
  <1>4. /\ \A i \in Items : arrived.stock[i] = IF i = item THEN [stock[i] EXCEPT !.onHand = @ + qty] ELSE stock[i]
        /\ arrived.line = line
    <2>1. arrived.stock = [stock EXCEPT ![item].onHand = @ + qty] /\ arrived.line = line
      BY <1>2 DEF Arrived, Book
    <2>. HIDE DEF arrived
    <2>. QED  BY <1>2, <2>1
  <1>. HIDE DEF item, qty, arrived, waiting
  <1>5. ASSUME NEW i \in Items PROVE Available(arrived.stock[i]) \in Int
    <2>. DEFINE s == stock[i]
                t == arrived.stock[i]
    <2>1. s \in [onHand : Nat, reserved : Int, locked : Nat, frozen : Nat] /\ Available(s) \in Nat
      BY <1>2, SoundTypes
    <2>2. t = s \/ t = [s EXCEPT !.onHand = @ + qty]
      BY <1>4
    <2>. HIDE DEF s, t
    <2>3. CASE t = s
      BY <2>1, <2>3 DEF t
    <2>4. CASE t = [s EXCEPT !.onHand = @ + qty]
      <3>1. t \in [onHand : Nat, reserved : Int, locked : Nat, frozen : Nat]
        BY <1>3, <2>1, <2>4
      <3>2. Available(t) \in Int
        BY <3>1 DEF Available
      <3>. QED  BY <3>2 DEF t
    <2>. QED  BY <2>2, <2>3, <2>4
  <1>6. \A l \in Lines : /\ arrived.line[l] \in Quantities /\ Short(arrived.line[l], l) \in Nat
                         /\ Accounted(arrived.line[l], l, after)
    BY <1>2, <1>4, SoundTypes, MoreClaims DEF HandBacksAccounted
  <1>. HIDE DEF after
  <1>7. \A l \in Lines : Accounted(filled.line[l], l, after)
    BY <1>3, <1>5, <1>6, TopUpAccounts
  <1>. HIDE DEF filled, claims
  <1>. QED  BY <1>1, <1>3, <1>7, ExecuteAccounts DEF after

(* What is picked, shipped or put back on the shelf was not handed back.   *)
LEMMA OutboundAccounts ==
  ASSUME NEW r, NEW s, NEW l, NEW claims, Accounted(r, l, claims),
         s.back = r.back, s.reserved = r.reserved, s.status \in {r.status, "SHIPPED"}
  PROVE  Accounted(s, l, claims)
  BY DEF Accounted

LEMMA LockAccounts ==
  ASSUME NEW b, NEW q, NEW claims, \A l \in Lines : b.line[l] \in Quantities,
         \A l \in Lines : Accounted(b.line[l], l, claims)
  PROVE  \A l \in Lines : Accounted(Lock(b, q).line[l], l, claims)
  <1>. SUFFICES ASSUME NEW l \in Lines PROVE Accounted(Lock(b, q).line[l], l, claims)
    OBVIOUS
  <1>. DEFINE r == b.line[l]
              s == Lock(b, q).line[l]
  <1>1. s = [r EXCEPT !.locked = @ + q[l]] /\ r \in Quantities /\ Accounted(r, l, claims)
    BY DEF Lock
  <1>. HIDE DEF r, s
  <1>2. s.back = r.back /\ s.reserved = r.reserved /\ s.status = r.status
    BY <1>1 DEF Quantities
  <1>3. Accounted(s, l, claims)
    BY <1>1, <1>2, OutboundAccounts
  <1>. QED  BY <1>3 DEF s

LEMMA PickingAccounts ==
  ASSUME IInv, HandBacksAccounted, NEW w \in Workers, NEW o \in Outbounds,
         \/ ConfirmOutbound(w, o) \/ CancelOutbound(w, o)
         \/ \E q \in Orders : CreateOutbound(w, o, q)
  PROVE  HandBacksAccounted'
  <1>1. SoundBook(Book) /\ Book.line = line /\ DOMAIN tx = Workers
    BY BookSound DEF IInv, Types
  <1>2. \A l \in Lines : /\ Book.line[l] \in Quantities /\ Short(Book.line[l], l) \in Nat
                         /\ Accounted(Book.line[l], l, claimed \union {})
    BY <1>1, SoundTypes, MoreClaims DEF HandBacksAccounted
  <1>3. ASSUME ConfirmOutbound(w, o) PROVE HandBacksAccounted'
    <2>. DEFINE q == outbound[o].picked
                book == Shipped(q)
                lists == [x \in {o} |-> [outbound[o] EXCEPT !.status = "CONFIRMED"]]
    <2>1. Execute(w, book, ItemsOf(Picked(q)), Picked(q), lists, {})
      BY <1>3 DEF ConfirmOutbound
    <2>2. \A l \in Lines : Accounted(book.line[l], l, claimed \union {})
      <3>. SUFFICES ASSUME NEW l \in Lines PROVE Accounted(book.line[l], l, claimed \union {})
        OBVIOUS
      <3>. DEFINE r == line[l]
                  s == book.line[l]
                  n == q[l]
                  done == IF n > 0 /\ r.shipped + n >= Demand[l] THEN "SHIPPED" ELSE r.status
      <3>1. r \in Quantities /\ Accounted(r, l, claimed \union {})
        BY <1>1, <1>2
      <3>2. s = [r EXCEPT !.locked = @ - n, !.shipped = @ + n, !.status = done]
        BY DEF Shipped
      <3>3. done \in {r.status, "SHIPPED"}
        OBVIOUS
      <3>. HIDE DEF r, s, n, done
      <3>4. s.back = r.back /\ s.reserved = r.reserved /\ s.status = done
        BY <3>1, <3>2 DEF Quantities
      <3>5. Accounted(s, l, claimed \union {})
        BY <3>1, <3>3, <3>4, OutboundAccounts
      <3>. QED  BY <3>5 DEF s
    <2>3. Picked(q) \in SUBSET Lines
      BY PickedLines
    <2>. HIDE DEF q, book, lists
    <2>. QED  BY <1>1, <2>1, <2>2, <2>3, ExecuteAccounts
  <1>4. ASSUME CancelOutbound(w, o) PROVE HandBacksAccounted'
    <2>. DEFINE q == outbound[o].picked
                less == [l \in Lines |-> -q[l]]
                book == Lock(Book, less)
                lists == [x \in {o} |-> [outbound[o] EXCEPT !.status = "CANCELLED"]]
    <2>1. Execute(w, book, ItemsOf(Picked(q)), Picked(q), lists, {})
      BY <1>4 DEF CancelOutbound, Unlock
    <2>2. \A l \in Lines : Accounted(book.line[l], l, claimed \union {})
      <3>. HIDE DEF less
      <3>. QED  BY <1>2, LockAccounts
    <2>3. Picked(q) \in SUBSET Lines
      BY PickedLines
    <2>. HIDE DEF q, book, lists
    <2>. QED  BY <1>1, <2>1, <2>2, <2>3, ExecuteAccounts
  <1>5. ASSUME NEW q \in Orders, CreateOutbound(w, o, q) PROVE HandBacksAccounted'
    <2>. DEFINE L == Picked(q)
                W == {l \in L : q[l] > Ready(line[l])}
                topped == TopUp(Book, W)
                book == Lock(topped, q)
                lists == [x \in {o} |-> [status |-> "DRAFT", picked |-> q]]
    <2>1. Execute(w, book, ItemsOf(L), L, lists, {})
      BY <1>5 DEF CreateOutbound
    <2>2. L \in SUBSET Lines /\ W \in SUBSET Lines
      BY PickedLines
    <2>. HIDE DEF L, W
    <2>3. \A l \in Lines : Accounted(topped.line[l], l, claimed \union {})
      <3>1. \A i \in Items : Available(Book.stock[i]) \in Int
        BY <1>1, SoundTypes
      <3>. HIDE DEF topped
      <3>2. \A l \in Lines : Accounted(TopUp(Book, W).line[l], l, claimed \union {})
        BY <1>2, <2>2, <3>1, TopUpAccounts
      <3>. QED  BY <3>2 DEF topped
    <2>4. \A l \in Lines : topped.line[l] \in Quantities
      BY <1>1, <2>2, SoundTypes, TopUpKeeps
    <2>. HIDE DEF topped
    <2>5. \A l \in Lines : Accounted(book.line[l], l, claimed \union {})
      BY <2>3, <2>4, LockAccounts
    <2>. HIDE DEF book, lists
    <2>. QED  BY <1>1, <2>1, <2>2, <2>5, ExecuteAccounts
  <1>. QED  BY <1>3, <1>4, <1>5

LEMMA CommitAccounts ==
  ASSUME IInv, HandBacksAccounted, NEW w \in Workers, Commit(w)
  PROVE  HandBacksAccounted'
  <1>1. /\ line' = Overlay(line, tx[w].line) /\ claimed' = claimed \union tx[w].claims
        /\ DOMAIN line = Lines /\ DOMAIN tx = Workers /\ tx' = [tx EXCEPT ![w] = Idle]
    BY DEF Commit, IInv, Types, TypeOK
  <1>2. \A l \in Lines : Accounted(line'[l], l, claimed')
    <2>. SUFFICES ASSUME NEW l \in Lines PROVE Accounted(line'[l], l, claimed')
      OBVIOUS
    <2>1. line'[l] = IF l \in DOMAIN tx[w].line THEN tx[w].line[l] ELSE line[l]
      BY <1>1, OverlayRows
    <2>2. Accounted(line[l], l, claimed \union tx[w].claims)
      BY MoreClaims DEF HandBacksAccounted
    <2>3. l \in DOMAIN tx[w].line => Accounted(tx[w].line[l], l, claimed \union tx[w].claims)
      BY DEF HandBacksAccounted
    <2>. QED  BY <1>1, <2>1, <2>2, <2>3
  <1>3. ASSUME NEW v \in Workers, NEW l \in DOMAIN tx'[v].line
        PROVE  Accounted(tx'[v].line[l], l, claimed' \union tx'[v].claims)
    <2>1. CASE v = w
      BY <1>1, <1>3, <2>1 DEF Idle, Empty
    <2>2. CASE v # w
      <3>1. tx'[v] = tx[v]
        BY <1>1, <2>2
      <3>2. Accounted(tx[v].line[l], l, claimed \union tx[v].claims)
        BY <3>1 DEF HandBacksAccounted
      <3>3. Accounted(tx[v].line[l], l, (claimed \union tx[v].claims) \union tx[w].claims)
        BY <3>2, MoreClaims
      <3>4. (claimed \union tx[v].claims) \union tx[w].claims = claimed' \union tx[v].claims
        BY <1>1
      <3>. QED  BY <3>1, <3>3, <3>4
    <2>. QED  BY <2>1, <2>2
  <1>. QED  BY <1>2, <1>3 DEF HandBacksAccounted, Accounted

LEMMA RollbackAccounts ==
  ASSUME IInv, HandBacksAccounted, NEW w \in Workers, Rollback(w)
  PROVE  HandBacksAccounted'
  <1>1. line' = line /\ claimed' = claimed /\ tx' = [tx EXCEPT ![w] = Idle] /\ DOMAIN tx = Workers
    BY DEF Rollback, rows, IInv, Types
  <1>2. \A l \in Lines : Accounted(line'[l], l, claimed')
    BY <1>1 DEF HandBacksAccounted
  <1>3. ASSUME NEW v \in Workers, NEW l \in DOMAIN tx'[v].line
        PROVE  Accounted(tx'[v].line[l], l, claimed' \union tx'[v].claims)
    <2>1. CASE v = w
      BY <1>1, <1>3, <2>1 DEF Idle, Empty
    <2>2. CASE v # w
      BY <1>1, <1>3, <2>2 DEF HandBacksAccounted
    <2>. QED  BY <2>1, <2>2
  <1>. QED  BY <1>2, <1>3 DEF HandBacksAccounted, Accounted

LEMMA FreezeByAccounts ==
  ASSUME IInv, HandBacksAccounted, NEW w \in Workers, NEW i, NEW n, FreezeBy(w, i, n)
  PROVE  HandBacksAccounted'
  <1>1. DOMAIN tx = Workers
    BY DEF IInv, Types
  <1>2. {} \in SUBSET Lines
    OBVIOUS
  <1>. DEFINE book == [Book EXCEPT !.stock[i].frozen = @ + n]
  <1>3. Execute(w, book, {i}, {}, Empty, {})
    BY DEF FreezeBy
  <1>. HIDE DEF book
  <1>. QED  BY <1>1, <1>2, <1>3, ExecuteAccounts

LEMMA HandBacksAlwaysAccounted == Spec => []HandBacksAccounted
  <1>1. Init => HandBacksAccounted
    <2>. SUFFICES ASSUME Init PROVE HandBacksAccounted
      OBVIOUS
    <2>1. \A l \in Lines : line[l].status = "none" /\ line[l].back = 0 /\ line[l].reserved = 0
      BY DEF Init
    <2>2. \A w \in Workers : DOMAIN tx[w].line = {}
      BY DEF Init, Idle, Empty
    <2>. QED  BY <2>1, <2>2 DEF HandBacksAccounted, Accounted
  <1>2. IInv /\ HandBacksAccounted /\ [Next]_vars => HandBacksAccounted'
    <2>. SUFFICES ASSUME IInv, HandBacksAccounted, [Next]_vars PROVE HandBacksAccounted'
      OBVIOUS
    <2>1. CASE UNCHANGED vars
      BY <2>1 DEF vars, rows, HandBacksAccounted, Accounted
    <2>2. CASE Next
      <3>. PICK w \in Workers :
             \/ Commit(w) \/ Rollback(w)
             \/ \E v \in Versions : AllocateContract(w, v)
             \/ \E r \in Receipts : Receive(w, r)
             \/ \E o \in Outbounds : ConfirmOutbound(w, o) \/ CancelOutbound(w, o)
             \/ \E o \in Outbounds, q \in Orders : CreateOutbound(w, o, q)
             \/ \E i \in Items, n \in Frozen : Freeze(w, i, n) \/ Unfreeze(w, i, n)
        BY <2>2 DEF Next
      <3>1. CASE Commit(w) \/ Rollback(w)
        BY <3>1, CommitAccounts, RollbackAccounts
      <3>2. CASE \E v \in Versions : AllocateContract(w, v)
        BY <3>2, AllocateAccounts
      <3>3. CASE \E r \in Receipts : Receive(w, r)
        BY <3>3, ReceiveAccounts
      <3>4. CASE \/ \E o \in Outbounds : ConfirmOutbound(w, o) \/ CancelOutbound(w, o)
                 \/ \E o \in Outbounds, q \in Orders : CreateOutbound(w, o, q)
        BY <3>4, PickingAccounts
      <3>5. CASE \E i \in Items, n \in Frozen : Freeze(w, i, n) \/ Unfreeze(w, i, n)
        BY <3>5, FreezeByAccounts DEF Freeze, Unfreeze
      <3>. QED  BY <3>1, <3>2, <3>3, <3>4, <3>5
    <2>. QED  BY <2>1, <2>2
  <1>. QED  BY <1>1, <1>2, Invariance, PTL DEF Spec

(* The one way a line in force comes to lack the stock it was promised:    *)
(* goods of a reservation that was handed back are picked all the same.    *)
(* As long as CreateOutbound takes none of those, the goods are there      *)
(* (LinesAreBacked, outbound.go:53-58).                                    *)
THEOREM BackedUnlessGivenUpIsPicked == Spec => [](GivenUpForGood => LinesAreBacked)
  <1>1. ASSUME IInv, HandBacksAccounted, GivenUpForGood PROVE LinesAreBacked
    <2>. SUFFICES ASSUME NEW i \in Items
                  PROVE  stock[i].reserved >= Total([l \in Lines |-> Ready(line[l])],
                                                    {l \in LinesOf(i) : line[l].status = "ACTIVE"})
      BY DEF LinesAreBacked
    <2>. DEFINE held == [l \in Lines |-> Held(line[l])]
                ready == [l \in Lines |-> Ready(line[l])]
                active == {l \in LinesOf(i) : line[l].status = "ACTIVE"}
    <2>1. ASSUME NEW l \in Lines
          PROVE  held[l] \in Nat /\ ready[l] \in Int /\ (line[l].status = "ACTIVE" => held[l] = ready[l])
      <3>. DEFINE r == line[l]
      <3>1. /\ r \in Quantities /\ Ready(r) \in Nat /\ Accounted(r, l, claimed)
            /\ r.back > 0 => r.locked = 0 /\ r.shipped = 0
        <4>1. SoundBook(Book) /\ Book.line = line
          BY <1>1, BookSound
        <4>. QED  BY <1>1, <4>1, SoundTypes DEF HandBacksAccounted, GivenUpForGood
      <3>. HIDE DEF r
      <3>2. Ready(r) \in Nat /\ Held(r) \in Nat /\ (r.status = "ACTIVE" => Held(r) = Ready(r))
        BY <3>1 DEF Accounted, Quantities, Held, Ready
      <3>. QED  BY <3>2 DEF r
    <2>2. stock[i].reserved = Total(held, LinesOf(i))
      BY <1>1 DEF IInv, BooksBalance
    <2>3. active \subseteq LinesOf(i) /\ \A l \in active : line[l].status = "ACTIVE"
      OBVIOUS
    <2>. HIDE DEF held, ready, active
    <2>4. Total(held, active) <= Total(held, LinesOf(i))
      BY <2>1, <2>3, LinesFinite, SumOfFewer
    <2>5. Total(held, active) = Total(ready, active)
      BY <2>1, <2>3, LinesFinite, SumsAgree
    <2>6. Total(held, active) \in Int /\ Total(held, LinesOf(i)) \in Int
      BY <2>1, <2>3, LinesFinite, SumType
    <2>7. stock[i].reserved >= Total(ready, active)
      BY <2>2, <2>4, <2>5, <2>6
    <2>. QED  BY <2>7 DEF ready, active
  <1>2. IInv /\ HandBacksAccounted => (GivenUpForGood => LinesAreBacked)
    BY <1>1
  <1>. QED  BY <1>2, Invariance, HandBacksAlwaysAccounted, PTL
=============================================================================
