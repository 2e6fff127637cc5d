--------------------------- MODULE OrderBook_proofs ---------------------------
(***************************************************************************)
(* For any set of orders, quantities, prices and any tolerance: every      *)
(* variable of OrderBook keeps its type, the book stays valid, and reports  *)
(* are never applied beyond what an order has filled, nor get stuck; a     *)
(* position is the sum of the fills, its basis an average of their prices. *)
(***************************************************************************)
EXTENDS OrderBook, Sums_proofs, FiniteSetTheorems, WellFoundedInduction, TLAPS

-----------------------------------------------------------------------------
(* Fractions.                                                              *)

LEMMA MaxExists ==
    ASSUME NEW d \in Nat, NEW S \in SUBSET (1..d), S # {}
    PROVE  Max(S) \in S /\ \A y \in S : y <= Max(S)
<1> DEFINE Below == {p \in Nat \X Nat : p[1] < p[2]}
           T == {n \in Nat : d - n \in S}
<1>1. IsWellFoundedOn(Below, Nat)
  BY NatLessThanWellFounded DEF OpToRel
<1>2. T \subseteq Nat /\ T # {}
  <2>1. PICK y \in S : TRUE
    OBVIOUS
  <2>2. y \in 1..d
    BY <2>1
  <2>3. d - y \in Nat /\ d - (d - y) = y
    BY <2>2
  <2> QED BY <2>1, <2>3
<1>3. PICK m \in T : \A n \in T : <<n, m>> \notin Below
  <2> HIDE DEF T, Below
  <2> QED BY <1>1, <1>2, WFMin
<1>4. ASSUME NEW y \in S PROVE d - m >= y
  <2>1. y \in 1..d
    BY <1>4
  <2>2. d - y \in T
    BY <2>1
  <2>3. ~ (d - y < m)
    BY <1>2, <1>3, <2>2
  <2> QED BY <1>2, <1>3, <2>1, <2>3
<1>5. d - m \in S
  BY <1>3
<1>6. \E x \in S : \A y \in S : x >= y
  BY <1>4, <1>5
<1>7. Max(S) \in S /\ \A y \in S : Max(S) >= y
  BY <1>6, Zenon DEF Max
<1> QED BY <1>7

LEMMA MinExists ==
    ASSUME NEW S \in SUBSET Nat, S # {}
    PROVE  Min(S) \in S /\ \A y \in S : Min(S) <= y
<1> DEFINE Below == {p \in Nat \X Nat : p[1] < p[2]}
<1>1. IsWellFoundedOn(Below, Nat)
  BY NatLessThanWellFounded DEF OpToRel
<1>2. PICK m \in S : \A n \in S : <<n, m>> \notin Below
  <2> HIDE DEF Below
  <2> QED BY <1>1, WFMin
<1>3. ASSUME NEW n \in S PROVE m <= n
  <2>1. m \in Nat /\ n \in Nat /\ <<n, m>> \notin Below
    BY <1>2
  <2> QED BY <2>1
<1>4. \E x \in S : \A y \in S : x <= y
  BY <1>3
<1> QED BY <1>4, Zenon DEF Min

LEMMA Products ==
    /\ \A m, n \in Int : m * n \in Int
    /\ \A m, n \in Nat : m * n \in Nat
    /\ \A m, n \in Nat \ {0} : m * n \in Nat \ {0}
OBVIOUS

LEMMA FractionType ==
    ASSUME NEW n \in Int, NEW d \in Nat \ {0}
    PROVE  /\ Reduced(n, d) \in [num : Int, den : Nat \ {0}]
           /\ n \in Nat => Reduced(n, d) \in Averages
<1> DEFINE common == {g \in 1..d : n % g = 0 /\ d % g = 0}
           g == Max(common)
<1>1. 1 \in common
  OBVIOUS
<1>2. g \in common
  <2> HIDE DEF g
  <2>1. common \in SUBSET (1..d) /\ common # {}
    BY <1>1
  <2> HIDE DEF common
  <2> QED BY <2>1, MaxExists DEF g
<1>3. g \in 1..d
  BY <1>2
<1>4. d % g = 0
  BY <1>2
<1> HIDE DEF g
<1>5. n \div g \in Int /\ (n \in Nat => n \div g \in Nat)
  BY <1>3
<1>6. d \div g \in Nat \ {0}
  BY <1>3, <1>4
<1>7. Reduced(n, d) = [num |-> n \div g, den |-> d \div g]
  BY DEF Reduced, g
<1> QED BY <1>5, <1>6, <1>7 DEF Averages

LEMMA AverageArithmetic ==
    ASSUME NEW a \in Averages, NEW b \in Averages, NEW k \in Nat
    PROVE  /\ Whole(k) \in Averages
           /\ Plus(a, b) \in Averages
           /\ Minus(a, b) \in [num : Int, den : Nat \ {0}]
           /\ Times(a, k) \in Averages
           /\ k # 0 => Over(a, k) \in Averages
<1>1. /\ a.num \in Nat /\ a.den \in Nat \ {0}
      /\ b.num \in Nat /\ b.den \in Nat \ {0}
  BY DEF Averages
<1>2. Whole(k) \in Averages
  BY DEF Whole, Averages
<1>3. a.den * b.den \in Nat \ {0}
  BY <1>1, Products
<1>4. Plus(a, b) \in Averages
  <2>1. a.num * b.den \in Nat /\ b.num * a.den \in Nat
    BY <1>1, Products
  <2> DEFINE n == a.num * b.den + b.num * a.den
  <2>2. n \in Nat /\ n \in Int
    BY <2>1
  <2> HIDE DEF n
  <2>3. Reduced(n, a.den * b.den) \in Averages
    BY <1>3, <2>2, FractionType
  <2> QED BY <2>3 DEF Plus, n
<1>5. Minus(a, b) \in [num : Int, den : Nat \ {0}]
  <2>1. a.num * b.den \in Int /\ b.num * a.den \in Int
    BY <1>1, Products
  <2> DEFINE n == a.num * b.den - b.num * a.den
  <2>2. n \in Int
    BY <2>1
  <2> HIDE DEF n
  <2>3. Reduced(n, a.den * b.den) \in [num : Int, den : Nat \ {0}]
    BY <1>3, <2>2, FractionType
  <2> QED BY <2>3 DEF Minus, n
<1>6. Times(a, k) \in Averages
  <2>1. a.num * k \in Nat /\ a.num * k \in Int
    BY <1>1, Products
  <2> QED BY <1>1, <2>1, FractionType DEF Times
<1>7. ASSUME k # 0 PROVE Over(a, k) \in Averages
  <2>1. a.den * k \in Nat \ {0}
    BY <1>1, <1>7, Products
  <2>2. a.num \in Int /\ a.num \in Nat
    BY <1>1
  <2> QED BY <2>1, <2>2, FractionType DEF Over
<1> QED BY <1>2, <1>4, <1>5, <1>6, <1>7

-----------------------------------------------------------------------------
(* What the operations return.                                             *)

Positions == [quantity : Int, avg : Averages \cup {NoPrice}]

(* A position that holds something has a cost basis.                       *)
HasBasis(pos) == pos.quantity # 0 => pos.avg \in Averages

LEMMA UpdatedType ==
    ASSUME NEW pos \in Positions, HasBasis(pos),
           NEW delta \in Int, delta # 0, NEW price \in Averages
    PROVE  Updated(pos, delta, price) \in Positions /\ HasBasis(Updated(pos, delta, price))
<1> DEFINE abs(n) == IF n < 0 THEN -n ELSE n
           quantity == pos.quantity + delta
           blend == IF pos.quantity = 0 THEN price
                    ELSE Over(Plus(Times(pos.avg, abs(pos.quantity)),
                                   Times(price, abs(delta))), abs(quantity))
<1>1. pos.quantity \in Int /\ quantity \in Int
  BY DEF Positions
<1>2. abs(pos.quantity) \in Nat /\ abs(delta) \in Nat /\ abs(quantity) \in Nat
  BY <1>1
<1>3. quantity # 0 => abs(quantity) # 0
  BY <1>1
<1>4. ASSUME quantity # 0 PROVE blend \in Averages
  <2>1. CASE pos.quantity = 0
    BY <2>1
  <2>2. CASE pos.quantity # 0
    <3> HIDE DEF abs, quantity
    <3>1. pos.avg \in Averages
      BY <2>2 DEF HasBasis
    <3>2. Times(pos.avg, abs(pos.quantity)) \in Averages
      BY <1>2, <3>1, AverageArithmetic
    <3>3. Times(price, abs(delta)) \in Averages
      BY <1>2, AverageArithmetic
    <3>4. Plus(Times(pos.avg, abs(pos.quantity)), Times(price, abs(delta))) \in Averages
      BY <1>2, <3>2, <3>3, AverageArithmetic
    <3> QED BY <1>2, <1>3, <1>4, <2>2, <3>4, AverageArithmetic
  <2> QED BY <2>1, <2>2
<1> DEFINE grows == pos.quantity = 0 \/ (pos.quantity > 0) = (delta > 0)
           flips == (pos.quantity > 0) # (quantity > 0)
           avg == IF quantity = 0 THEN NoPrice
                  ELSE IF grows THEN blend ELSE IF flips THEN price ELSE pos.avg
<1>5. quantity # 0 => avg \in Averages
  <2> HIDE DEF blend, flips
  <2> QED BY <1>4 DEF HasBasis
<1>6. avg \in Averages \cup {NoPrice}
  <2> HIDE DEF blend, flips, grows
  <2> QED BY <1>5
<1>7. Updated(pos, delta, price) = [quantity |-> quantity, avg |-> avg]
  BY DEF Updated
<1> HIDE DEF avg, quantity
<1> QED BY <1>1, <1>5, <1>6, <1>7 DEF Positions, HasBasis

(* What the last leaf of a step needs to know of an order.                 *)
LEMMA OrderFields ==
    ASSUME NEW o \in Orders
    PROVE  /\ o.symbol \in Symbols /\ o.side \in {"BUY", "SELL"}
           /\ o.quantity \in Nat /\ Tolerance \in Nat
           /\ o.limit \in Prices \cup {NoPrice} /\ o.status \in Statuses
           /\ o.filled \in Nat /\ o.avg \in Averages \cup {NoPrice}
BY OrderBookAssumption DEF Orders

LEMMA NewAverageType ==
    ASSUME NEW o \in Orders, NEW n \in Nat \ {0}, NEW p \in Prices \cup {NoPrice}
    PROVE  NewAverage(o, n, p) \in Averages \cup {NoPrice}
<1>1. CASE p = NoPrice
  BY <1>1, OrderFields DEF NewAverage
<1>2. CASE p # NoPrice
  <2> DEFINE prior == IF o.avg = NoPrice THEN Whole(0) ELSE Times(o.avg, o.filled)
  <2>1. p \in Nat /\ p * n \in Nat /\ o.filled + n \in Nat \ {0} /\ o.filled \in Nat
    BY <1>2, OrderBookAssumption, OrderFields, Products
  <2>2. Whole(0) \in Averages /\ Whole(p * n) \in Averages
    BY <2>1 DEF Whole, Averages
  <2>3. prior \in Averages
    BY <2>1, <2>2, OrderFields, AverageArithmetic
  <2> HIDE DEF prior
  <2>4. Plus(prior, Whole(p * n)) \in Averages
    BY <2>2, <2>3, AverageArithmetic
  <2>5. Over(Plus(prior, Whole(p * n)), o.filled + n) \in Averages
    BY <2>1, <2>4, AverageArithmetic
  <2> QED BY <1>2, <2>5 DEF NewAverage, prior
<1> QED BY <1>1, <1>2

LEMMA ReportedPriceType ==
    ASSUME NEW o \in Orders, ReportedPrice(o) # NoPrice
    PROVE  ReportedPrice(o) \in Averages
<1>1. CASE o.avg # NoPrice
  BY <1>1, OrderFields DEF ReportedPrice
<1>2. CASE o.avg = NoPrice
  <2>1. o.limit \in Nat /\ ReportedPrice(o) = Whole(o.limit)
    BY <1>2, OrderBookAssumption, OrderFields DEF ReportedPrice
  <2> QED BY <2>1 DEF Whole, Averages
<1> QED BY <1>1, <1>2

-----------------------------------------------------------------------------
(* The inductive invariant.  A fill is only within bounds if what it is    *)
(* added to was; a report only stays harmless if the order it names never  *)
(* falls behind it.                                                        *)

OpenWithinQuantity ==
    \A id \in OrderIds :
        Known(id) /\ book[id].status \in {"NEW", "SUBMITTED"}
            => book[id].filled <= book[id].quantity

ReportsAreBehind ==
    \A r \in reports : Known(r[1]) /\ r[2].filled <= book[r[1]].filled

BookInv == BookValid /\ OpenWithinQuantity

ReportInv ==
    /\ \A s \in Symbols : HasBasis(position[s])
    /\ ReportsAreBehind
    /\ NothingAppliedTwice

Inv == TypeOK /\ BookInv /\ ReportInv

LEMMA InitInv == Init => Inv
<1> SUFFICES ASSUME Init PROVE Inv
  OBVIOUS
<1>1. TypeOK
  BY AverageArithmetic DEF Init, TypeOK, Averages, Whole
<1>2. BookInv
  BY DEF Init, BookInv, BookValid, OpenWithinQuantity, Known
<1>3. ReportInv
  BY DEF Init, ReportInv, ReportsAreBehind, NothingAppliedTwice, HasBasis, Known
<1> QED BY <1>1, <1>2, <1>3 DEF Inv

(* An operation that replaces one order by one that is valid, has filled   *)
(* as much and is reported or not, and books nothing, keeps the invariant. *)
LEMMA OrderChanges ==
    ASSUME Inv, NEW id \in OrderIds, NEW o \in Orders, Valid(o),
           o.status \in {"NEW", "SUBMITTED"} => o.filled <= o.quantity,
           Known(id) => book[id].filled <= o.filled,
           book' = [book EXCEPT ![id] = o],
           Report(id) \/ UNCHANGED reports,
           unpriced' \subseteq OrderIds, UNCHANGED <<position, applied>>
    PROVE  Inv'
<1>1. book[id] \in Orders \cup {NoOrder} /\ book'[id] = o /\ o # NoOrder
  BY OrderBookAssumption DEF Inv, TypeOK
<1>2. \A i \in OrderIds \ {id} : book'[i] = book[i]
  BY DEF Inv, TypeOK
<1>3. TypeOK'
  BY <1>1 DEF Inv, TypeOK, Report
<1>4. BookInv'
  BY <1>1, <1>2 DEF Inv, BookInv, BookValid, OpenWithinQuantity, Known, Valid
<1>5. o.filled \in Nat /\ (Known(id) => book[id].filled \in Nat)
  BY <1>1, OrderFields DEF Known
<1>6. ReportsAreBehind'
  <2> SUFFICES ASSUME NEW r \in reports'
               PROVE  (Known(r[1]) /\ r[2].filled <= book[r[1]].filled)'
    BY DEF ReportsAreBehind
  <2>1. CASE r = <<id, o>>
    BY <1>1, <1>5, <2>1 DEF Known
  <2>2. CASE r # <<id, o>>
    <3>1. r \in reports /\ r \in OrderIds \X Orders
      BY <1>1, <2>2 DEF Report, Inv, TypeOK
    <3>2. Known(r[1]) /\ r[2].filled <= book[r[1]].filled /\ r[2].filled \in Nat
      BY <3>1, OrderFields DEF Inv, ReportInv, ReportsAreBehind
    <3>3. CASE r[1] = id
      BY <1>1, <1>5, <3>2, <3>3 DEF Known
    <3>4. CASE r[1] # id
      BY <1>2, <3>1, <3>2, <3>4 DEF Known
    <3> QED BY <3>3, <3>4
  <2> QED BY <2>1, <2>2
<1>7. NothingAppliedTwice'
  <2> SUFFICES ASSUME NEW i \in OrderIds
               PROVE  (applied[i].filled <=
                           (IF Known(i) THEN book[i].filled ELSE 0))'
    BY DEF NothingAppliedTwice
  <2>1. applied[i].filled <= (IF Known(i) THEN book[i].filled ELSE 0)
    BY DEF Inv, ReportInv, NothingAppliedTwice
  <2>2. applied[i].filled \in Nat
    BY DEF Inv, TypeOK
  <2> QED BY <1>1, <1>2, <1>5, <2>1, <2>2 DEF Known
<1> QED BY <1>3, <1>4, <1>6, <1>7 DEF Inv, ReportInv

LEMMA CreateInv == ASSUME Inv, NEW id \in OrderIds, Create(id) PROVE Inv'
<1>1. PICK s \in Symbols, side \in {"BUY", "SELL"}, q \in Quantities,
           limit \in Prices \cup {NoPrice} :
           book' = [book EXCEPT ![id] = Order(s, side, q, limit, "NEW", 0, NoPrice)]
  BY DEF Create
<1> DEFINE o == Order(s, side, q, limit, "NEW", 0, NoPrice)
<1>2. o \in Orders /\ Valid(o) /\ o.filled <= o.quantity
  BY OrderBookAssumption DEF Order, Orders, Valid, Statuses
<1>3. ~ Known(id) /\ UNCHANGED <<reports, position, applied, unpriced>>
  BY DEF Create
<1> HIDE DEF o
<1>4. unpriced' \subseteq OrderIds
  BY <1>3 DEF Inv, TypeOK
<1> QED BY <1>1, <1>2, <1>3, <1>4, OrderChanges DEF o

(* What register puts into the book.                                       *)
LEMMA RegisteredOrder ==
    ASSUME NEW id \in OrderIds, Register(id)
    PROVE  \E o \in Orders, price \in Prices :
              /\ Valid(o) /\ o.filled <= o.quantity
              /\ o.avg = IF o.filled = 0 THEN NoPrice ELSE Whole(price)
              /\ book' = [book EXCEPT ![id] = o]
<1>1. PICK s \in Symbols, side \in {"BUY", "SELL"}, q \in Quantities,
           status \in Statuses \ {"NEW"}, price \in Prices :
           \E filled \in 0..q :
              LET o == Order(s, side, q, NoPrice, status, filled,
                             IF filled = 0 THEN NoPrice ELSE Whole(price))
              IN Valid(o) /\ book' = [book EXCEPT ![id] = o]
  BY DEF Register
<1> PICK filled \in 0..q :
           LET o == Order(s, side, q, NoPrice, status, filled,
                          IF filled = 0 THEN NoPrice ELSE Whole(price))
           IN Valid(o) /\ book' = [book EXCEPT ![id] = o]
  BY <1>1
<1> DEFINE o == Order(s, side, q, NoPrice, status, filled,
                      IF filled = 0 THEN NoPrice ELSE Whole(price))
<1>2. Whole(price) \in Averages
  BY OrderBookAssumption DEF Whole, Averages
<1>3. /\ o \in Orders /\ o.filled <= o.quantity
      /\ o.avg = IF o.filled = 0 THEN NoPrice ELSE Whole(price)
  BY <1>2, OrderBookAssumption DEF Order, Orders
<1>4. Valid(o) /\ book' = [book EXCEPT ![id] = o]
  OBVIOUS
<1> HIDE DEF o
<1> QED BY <1>3, <1>4

LEMMA RegisterInv == ASSUME Inv, NEW id \in OrderIds, Register(id) PROVE Inv'
<1>1. PICK o \in Orders : /\ Valid(o) /\ o.filled <= o.quantity
                          /\ book' = [book EXCEPT ![id] = o]
  BY RegisteredOrder
<1>2. ~ Known(id) /\ Report(id) /\ UNCHANGED <<position, applied, unpriced>>
  BY DEF Register
<1>3. unpriced' \subseteq OrderIds
  BY <1>2 DEF Inv, TypeOK
<1> QED BY <1>1, <1>2, <1>3, OrderChanges

LEMMA MoveInv ==
    ASSUME Inv, NEW id \in OrderIds,
           NEW status \in {"SUBMITTED", "CANCELLED", "REJECTED"}, Move(id, status)
    PROVE  Inv'
<1> DEFINE o == [book[id] EXCEPT !.status = status]
<1>1. book[id] \in Orders /\ Known(id) /\ status \in ValidTransitions(book[id].status)
  BY DEF Move, Transition, Known, Inv, TypeOK
<1>2. o \in Orders /\ o.filled = book[id].filled /\ o.quantity = book[id].quantity
      /\ o.status = status
  BY <1>1 DEF Orders, Statuses
<1>3. Valid(book[id])
  BY <1>1 DEF Inv, BookInv, BookValid
<1>4. Valid(o)
  BY <1>2, <1>3 DEF Valid
<1>5. status = "SUBMITTED" => book[id].status = "NEW"
  BY <1>1, OrderFields DEF ValidTransitions, Statuses
<1>6. o.status \in {"NEW", "SUBMITTED"} => o.filled <= o.quantity
  BY <1>1, <1>2, <1>5 DEF Inv, BookInv, OpenWithinQuantity
<1>7. book' = [book EXCEPT ![id] = o] /\ UNCHANGED <<reports, position, applied, unpriced>>
  BY DEF Move
<1>8. book[id].filled <= o.filled
  BY <1>1, <1>2, OrderFields
<1> HIDE DEF o
<1>9. unpriced' \subseteq OrderIds
  BY <1>7 DEF Inv, TypeOK
<1> QED BY <1>2, <1>4, <1>6, <1>7, <1>8, <1>9, OrderChanges

(* What a fill makes of the order it fills.                                *)
LEMMA FilledOrder ==
    ASSUME Inv, NEW id \in OrderIds, Fill(id)
    PROVE  /\ Known(id) /\ book[id] \in Orders
           /\ \E o \in Orders, n \in Nat \ {0}, p \in Prices \cup {NoPrice} :
                 /\ Valid(o) /\ o.status \notin {"NEW", "SUBMITTED"}
                 /\ o.filled = book[id].filled + n
                 /\ o.avg = NewAverage(book[id], n, p)
                 /\ o.symbol = book[id].symbol /\ o.side = book[id].side
                 /\ book' = [book EXCEPT ![id] = o]
                 /\ unpriced' = IF p = NoPrice THEN unpriced \cup {id} ELSE unpriced
<1> DEFINE b == book[id]
<1>1. PICK n \in 1..(Remaining(b) + Tolerance), p \in Prices \cup {NoPrice} :
           /\ Transition(id, FillStatus(b, n))
           /\ book' = [book EXCEPT ![id] =
                 [b EXCEPT !.filled = b.filled + n,
                           !.avg = NewAverage(b, n, p),
                           !.status = FillStatus(b, n)]]
           /\ unpriced' = IF p = NoPrice THEN unpriced \cup {id} ELSE unpriced
  BY DEF Fill
<1> DEFINE o == [b EXCEPT !.filled = b.filled + n,
                          !.avg = NewAverage(b, n, p),
                          !.status = FillStatus(b, n)]
<1>2. b \in Orders /\ Known(id)
  BY DEF Fill, Known, Inv, TypeOK
<1>3. Valid(b) /\ (b.status \in {"NEW", "SUBMITTED"} => b.filled <= b.quantity)
  BY <1>2 DEF Inv, BookInv, BookValid, OpenWithinQuantity
<1>4. /\ b.filled \in Nat /\ b.quantity \in Nat /\ Tolerance \in Nat
      /\ b.status \in Statuses
  BY <1>2, OrderFields
<1>5. Remaining(b) \in Nat
  BY <1>4 DEF Remaining
<1>6. n \in Nat \ {0} /\ n <= Remaining(b) + Tolerance
  BY <1>4, <1>5
<1>7. FillStatus(b, n) \in {"FILLED", "PARTIALLY_FILLED"}
  BY DEF FillStatus
<1>8. NewAverage(b, n, p) \in Averages \cup {NoPrice}
  BY <1>2, <1>6, NewAverageType
<1>9. b.filled <= b.quantity
  <2>1. b.status \in {"SUBMITTED", "PARTIALLY_FILLED"}
    BY <1>1, <1>4, <1>7 DEF Transition, ValidTransitions, Statuses
  <2> QED BY <1>3, <1>4, <2>1 DEF Valid
<1>10. /\ o \in Orders /\ o.filled = b.filled + n /\ o.quantity = b.quantity
       /\ o.status = FillStatus(b, n) /\ o.avg = NewAverage(b, n, p)
       /\ o.symbol = b.symbol /\ o.side = b.side
  <2> DEFINE filled == b.filled + n
             avg == NewAverage(b, n, p)
             status == FillStatus(b, n)
  <2>1. filled \in Nat /\ status \in Statuses /\ avg \in Averages \cup {NoPrice}
    BY <1>4, <1>6, <1>7, <1>8 DEF Statuses
  <2>2. o = [b EXCEPT !.filled = filled, !.avg = avg, !.status = status]
    OBVIOUS
  <2> HIDE DEF o, b, filled, avg, status
  <2>3. /\ o \in Orders /\ o.filled = filled /\ o.quantity = b.quantity
        /\ o.status = status /\ o.avg = avg /\ o.symbol = b.symbol /\ o.side = b.side
    BY <1>2, <2>1, <2>2 DEF Orders
  <2> QED BY <2>3 DEF filled, status, avg
<1>11. book' = [book EXCEPT ![id] = o]
  BY <1>1 DEF o
<1>12. unpriced' = IF p = NoPrice THEN unpriced \cup {id} ELSE unpriced
  BY <1>1
<1> HIDE DEF o, b
<1>13. Remaining(b) = b.quantity - b.filled
  BY <1>4, <1>9 DEF Remaining
<1>14. Valid(o)
  BY <1>4, <1>6, <1>10, <1>13 DEF Valid, FillStatus
<1>15. o.status \notin {"NEW", "SUBMITTED"}
  BY <1>7, <1>10
<1> QED BY <1>2, <1>6, <1>10, <1>11, <1>12, <1>14, <1>15 DEF b

LEMMA FillInv == ASSUME Inv, NEW id \in OrderIds, Fill(id) PROVE Inv'
<1>1. PICK o \in Orders, n \in Nat \ {0}, p \in Prices \cup {NoPrice} :
          /\ Valid(o) /\ o.status \notin {"NEW", "SUBMITTED"}
          /\ o.filled = book[id].filled + n
          /\ book' = [book EXCEPT ![id] = o]
          /\ unpriced' = IF p = NoPrice THEN unpriced \cup {id} ELSE unpriced
  BY FilledOrder
<1>2. Known(id) /\ book[id] \in Orders /\ book[id].filled <= o.filled
  BY <1>1, FilledOrder, OrderFields
<1>3. Report(id) /\ UNCHANGED <<position, applied>>
  BY DEF Fill
<1>4. unpriced' \subseteq OrderIds
  BY <1>1 DEF Inv, TypeOK
<1> QED BY <1>1, <1>2, <1>3, <1>4, OrderChanges

(* What update_fill relies on when a report gets through its guards.       *)
LEMMA ApplicableFacts ==
    ASSUME Inv, NEW id \in OrderIds, NEW o \in Orders, Applicable(id, o)
    PROVE  /\ Increment(id, o) \in Nat \ {0}
           /\ Added(id, o) \in Averages
           /\ Notional(o) \in Averages
           /\ o.filled > applied[id].filled
<1>1. o.filled \in Nat /\ applied[id].filled \in Nat /\ applied[id].notional \in Averages
  BY OrderFields DEF Inv, TypeOK
<1>2. Increment(id, o) \in Nat \ {0} /\ o.filled > applied[id].filled
  BY <1>1 DEF Applicable, Increment
<1>3. Notional(o) \in Averages
  <2>1. ReportedPrice(o) \in Averages
    BY ReportedPriceType DEF Applicable
  <2> QED BY <1>1, <2>1, AverageArithmetic DEF Notional
<1>4. Added(id, o) \in Averages
  <2>1. Added(id, o) \in [num : Int, den : Nat \ {0}]
    <3> HIDE DEF Notional
    <3>1. Minus(Notional(o), applied[id].notional) \in [num : Int, den : Nat \ {0}]
      BY <1>1, <1>3, AverageArithmetic
    <3> QED BY <3>1 DEF Added
  <2>2. Added(id, o).num > 0
    BY DEF Applicable
  <2> QED BY <2>1, <2>2 DEF Averages
<1> QED BY <1>2, <1>3, <1>4

LEMMA UpdateFillInv ==
    ASSUME Inv, NEW r \in reports, UpdateFill(r[1], r[2]) PROVE Inv'
<1> DEFINE id == r[1]
           o == r[2]
<1>1. id \in OrderIds /\ o \in Orders /\ Known(id) /\ o.filled <= book[id].filled
  BY DEF Inv, TypeOK, ReportInv, ReportsAreBehind
<1>2. /\ Applicable(id, o) /\ Book(id, o)
      /\ applied' = [applied EXCEPT ![id] = [filled |-> o.filled,
                                             notional |-> Notional(o)]]
      /\ UNCHANGED <<book, reports, unpriced>>
  BY DEF UpdateFill
<1> HIDE DEF id, o
<1>3. /\ Increment(id, o) \in Nat \ {0} /\ Added(id, o) \in Averages
      /\ Notional(o) \in Averages /\ o.filled \in Nat /\ o.symbol \in Symbols
  BY <1>1, <1>2, ApplicableFacts, OrderFields
<1>4. /\ position' \in [Symbols -> Positions]
      /\ \A s \in Symbols : HasBasis(position'[s])
  <2> DEFINE pos == position[o.symbol]
             delta == IF o.side = "BUY" THEN Increment(id, o) ELSE -Increment(id, o)
             price == Over(Added(id, o), Increment(id, o))
  <2>1. position \in [Symbols -> Positions] /\ pos \in Positions /\ HasBasis(pos)
    BY <1>3 DEF Inv, TypeOK, Positions, ReportInv
  <2>2. delta \in Int /\ delta # 0
    BY <1>3
  <2>3. price \in Averages
    BY <1>3, AverageArithmetic
  <2>4. position' = [position EXCEPT ![o.symbol] = Updated(pos, delta, price)]
    BY <1>2 DEF Book
  <2> HIDE DEF pos, delta, price
  <2>5. Updated(pos, delta, price) \in Positions /\ HasBasis(Updated(pos, delta, price))
    BY <2>1, <2>2, <2>3, UpdatedType
  <2>6. \A s \in Symbols : HasBasis(position[s])
    BY DEF Inv, ReportInv
  <2>7. \A s \in Symbols :
            position'[s] = IF s = o.symbol THEN Updated(pos, delta, price) ELSE position[s]
    BY <1>3, <2>1, <2>4
  <2>8. position' \in [Symbols -> Positions]
    BY <1>3, <2>1, <2>4, <2>5
  <2>9. ASSUME NEW s \in Symbols PROVE HasBasis(position'[s])
    BY <2>5, <2>6, <2>7
  <2> QED BY <2>8, <2>9
<1>5. applied' \in [OrderIds -> [filled : Nat, notional : Averages]]
  BY <1>1, <1>2, <1>3 DEF Inv, TypeOK
<1>6. TypeOK'
  BY <1>2, <1>4, <1>5 DEF Inv, TypeOK, Positions
<1>7. BookInv' /\ ReportsAreBehind'
  BY <1>2 DEF Inv, BookInv, BookValid, OpenWithinQuantity, ReportInv,
              ReportsAreBehind, Known
<1>8. NothingAppliedTwice'
  BY <1>1, <1>2 DEF Inv, TypeOK, ReportInv, NothingAppliedTwice, Known
<1> QED BY <1>4, <1>6, <1>7, <1>8 DEF Inv, ReportInv, HasBasis

LEMMA NextInv == Inv /\ [Next]_vars => Inv'
<1> SUFFICES ASSUME Inv, [Next]_vars PROVE Inv'
  OBVIOUS
<1>1. ASSUME NEW id \in OrderIds, Create(id) PROVE Inv'
  BY <1>1, CreateInv
<1>2. ASSUME NEW id \in OrderIds, Register(id) PROVE Inv'
  BY <1>2, RegisterInv
<1>3. ASSUME NEW id \in OrderIds, Submit(id) \/ Cancel(id) \/ Reject(id) PROVE Inv'
  BY <1>3, MoveInv DEF Submit, Cancel, Reject
<1>4. ASSUME NEW id \in OrderIds, Fill(id) PROVE Inv'
  BY <1>4, FillInv
<1>5. ASSUME NEW r \in reports, UpdateFill(r[1], r[2]) PROVE Inv'
  BY <1>5, UpdateFillInv
<1>6. CASE UNCHANGED vars
  BY <1>6 DEF vars, Inv, TypeOK, BookInv, BookValid, OpenWithinQuantity,
              ReportInv, ReportsAreBehind, NothingAppliedTwice, Known, HasBasis
<1> QED BY <1>1, <1>2, <1>3, <1>4, <1>5, <1>6 DEF Next

LEMMA Invariance == Spec => []Inv
BY InitInv, NextInv, PTL DEF Spec

-----------------------------------------------------------------------------
(* Every variable has its type, whatever is filled, reported and applied:  *)
(* update_fill never divides by an increment of zero, nor books a negative *)
(* price.                                                                  *)
THEOREM TypeCorrect == Spec => []TypeOK
<1>1. Inv => TypeOK
  BY DEF Inv
<1> QED BY <1>1, Invariance, PTL

(* No sequence of create_order, register, submit, fill, cancel and reject  *)
(* leaves an order that Order.validate would refuse.                       *)
THEOREM OrdersStayValid == Spec => []BookValid
<1>1. Inv => BookValid
  BY DEF Inv, BookInv
<1> QED BY <1>1, Invariance, PTL

(* update_fill never applies more of an order than the order has filled,   *)
(* however often and in whatever order its reports arrive.                 *)
THEOREM ReportsApplyOnce == Spec => []NothingAppliedTwice
<1>1. Inv => NothingAppliedTwice
  BY DEF Inv, ReportInv
<1> QED BY <1>1, Invariance, PTL

-----------------------------------------------------------------------------
(* A position is the sum of what was applied.  An operation changes the    *)
(* sum by what it changes in its own order, so the invariant needs that a  *)
(* report names the symbol and the side of the order it is booked for.     *)

Weight(id, s) ==
    IF Known(id) /\ book[id].symbol = s
    THEN Side(book[id]) * applied[id].filled ELSE 0

Weights(s) == [id \in OrderIds |-> Weight(id, s)]

Held(s) == SumOver(Weights(s), OrderIds)

ReportsNameTheirOrder ==
    \A r \in reports : /\ r[2].symbol = book[r[1]].symbol
                       /\ r[2].side = book[r[1]].side

PositionInv == ReportsNameTheirOrder /\ \A s \in Symbols : position[s].quantity = Held(s)

(* The sum of the property is the sum the lemmas are about.                *)
LEMMA HeldIsSum ==
    ASSUME NEW s
    PROVE  MapThenSumSet(LAMBDA id : IF Known(id) /\ book[id].symbol = s
                                       THEN Side(book[id]) * applied[id].filled
                                       ELSE 0, OrderIds)
           = Held(s)
<1> DEFINE w == Weights(s)
           P(g) == g = [t \in SUBSET OrderIds |->
                           IF t = {} THEN 0
                           ELSE Weight(Chosen(t), s) + g[t \ {Chosen(t)}]]
           c == CHOOSE g : P(g)
<1>1. MapThenSumSet(LAMBDA id : IF Known(id) /\ book[id].symbol = s
                                  THEN Side(book[id]) * applied[id].filled
                                  ELSE 0, OrderIds)
      = c[OrderIds]
  BY DEF MapThenSumSet, MapThenFoldSet, Chosen, Weight
<1>2. ASSUME NEW g PROVE P(g) <=> Folds(g, w, OrderIds)
  <2>1. \A t \in SUBSET OrderIds : t # {} => w[Chosen(t)] = Weight(Chosen(t), s)
    BY ChosenIn DEF Weights
  <2>2. [t \in SUBSET OrderIds |->
            IF t = {} THEN 0 ELSE Weight(Chosen(t), s) + g[t \ {Chosen(t)}]]
        = [t \in SUBSET OrderIds |->
            IF t = {} THEN 0 ELSE w[Chosen(t)] + g[t \ {Chosen(t)}]]
    <3> HIDE DEF w
    <3> QED BY <2>1
  <2> HIDE DEF w
  <2> QED BY <2>2 DEF Folds
<1>3. IsFiniteSet(OrderIds)
  BY OrderBookAssumption
<1> HIDE DEF w
<1>4. \E g : P(g)
  BY <1>2, <1>3, FoldExists
<1>5. P(c)
  <2> HIDE DEF P
  <2> QED BY <1>4, Zenon
<1> HIDE DEF c, P
<1>6. Folds(c, w, OrderIds)
  BY <1>2, <1>5
<1> DEFINE h == CHOOSE g : Folds(g, w, OrderIds)
<1>7. Folds(h, w, OrderIds)
  <2>1. \E g : Folds(g, w, OrderIds)
    BY <1>3, FoldExists
  <2> QED BY <2>1, Zenon
<1>8. SumOver(w, OrderIds) = h[OrderIds]
  BY SumIsFold
<1> HIDE DEF h
<1>9. c[OrderIds] = h[OrderIds]
  BY <1>3, <1>6, <1>7, FoldsAgree
<1> QED BY <1>1, <1>8, <1>9 DEF Held, w

LEMMA HeldMeansPosition ==
    PositionIsFills <=> \A s \in Symbols : position[s].quantity = Held(s)
BY HeldIsSum DEF PositionIsFills


LEMMA SideType ==
    ASSUME NEW o \in Orders
    PROVE  /\ Side(o) \in {1, -1}
           /\ \A n \in Int : Side(o) * n = (IF o.side = "BUY" THEN n ELSE -n)
BY OrderFields DEF Side

LEMMA WeightType == Inv => \A s \in Symbols, id \in OrderIds : Weights(s)[id] \in Int
<1> SUFFICES ASSUME Inv, NEW s \in Symbols, NEW id \in OrderIds
             PROVE  Weight(id, s) \in Int
  BY DEF Weights
<1>1. applied[id].filled \in Int
  BY DEF Inv, TypeOK
<1>2. Known(id) => book[id] \in Orders
  BY DEF Inv, TypeOK, Known
<1>3. Known(id) => Side(book[id]) * applied[id].filled \in Int
  BY <1>1, <1>2, SideType
<1> QED BY <1>3 DEF Weight

(* An order that appears, or that moves on without changing its symbol or  *)
(* its side, changes no position: nothing of it is applied by that.        *)
LEMMA OrderKeepsHeld ==
    ASSUME Inv, NEW id \in OrderIds, NEW o \in Orders,
           Known(id) => o.symbol = book[id].symbol /\ o.side = book[id].side,
           book' = [book EXCEPT ![id] = o],
           Report(id) \/ UNCHANGED reports, UNCHANGED <<position, applied>>,
           PositionInv
    PROVE  PositionInv'
<1>1. book'[id] = o /\ o # NoOrder /\ \A i \in OrderIds \ {id} : book'[i] = book[i]
  BY OrderBookAssumption DEF Inv, TypeOK
<1>2. ReportsNameTheirOrder'
  <2> SUFFICES ASSUME NEW r \in reports'
               PROVE  (r[2].symbol = book[r[1]].symbol /\ r[2].side = book[r[1]].side)'
    BY DEF ReportsNameTheirOrder
  <2>1. CASE r = <<id, o>>
    BY <1>1, <2>1
  <2>2. CASE r # <<id, o>>
    <3>1. r \in reports /\ r[1] \in OrderIds /\ Known(r[1])
      BY <1>1, <2>2 DEF Report, Inv, TypeOK, ReportInv, ReportsAreBehind
    <3>2. r[2].symbol = book[r[1]].symbol /\ r[2].side = book[r[1]].side
      BY <3>1 DEF PositionInv, ReportsNameTheirOrder
    <3> QED BY <1>1, <3>1, <3>2
  <2> QED BY <2>1, <2>2
<1>3. ASSUME NEW s \in Symbols PROVE position'[s].quantity = Held(s)'
  <2>1. ASSUME NEW i \in OrderIds PROVE Weight(i, s)' = Weight(i, s)
    <3>1. CASE i # id
      BY <1>1, <3>1 DEF Weight, Known
    <3>2. CASE i = id /\ Known(id)
      BY <1>1, <3>2 DEF Weight, Known, Side
    <3>3. CASE i = id /\ ~ Known(id)
      <4>1. applied[id].filled = 0
        BY <3>3 DEF Inv, TypeOK, ReportInv, NothingAppliedTwice
      <4>2. Side(o) * 0 = 0
        BY SideType
      <4> QED BY <1>1, <3>3, <4>1, <4>2 DEF Weight, Known
    <3> QED BY <3>1, <3>2, <3>3
  <2>2. Weights(s)' = Weights(s)
    BY <2>1 DEF Weights
  <2> QED BY <2>2 DEF PositionInv, Held
<1> QED BY <1>2, <1>3 DEF PositionInv

(* A booked report adds to one weight what it adds to the position.        *)
LEMMA UpdateFillKeepsHeld ==
    ASSUME Inv, NEW r \in reports, UpdateFill(r[1], r[2]), PositionInv
    PROVE  PositionInv'
<1> DEFINE id == r[1]
           o == r[2]
<1>1. /\ id \in OrderIds /\ o \in Orders /\ Known(id) /\ book[id] \in Orders
      /\ o.symbol = book[id].symbol /\ o.side = book[id].side
  BY DEF Inv, TypeOK, ReportInv, ReportsAreBehind, Known, PositionInv,
         ReportsNameTheirOrder
<1>2. /\ Applicable(id, o) /\ Book(id, o)
      /\ applied' = [applied EXCEPT ![id] = [filled |-> o.filled,
                                             notional |-> Notional(o)]]
      /\ UNCHANGED <<book, reports, unpriced>>
  BY DEF UpdateFill
<1>3. ReportsNameTheirOrder'
  BY <1>2 DEF PositionInv, ReportsNameTheirOrder
<1> HIDE DEF id, o
<1>4. /\ o.filled \in Int /\ applied[id].filled \in Int /\ o.symbol \in Symbols
      /\ position[o.symbol].quantity \in Int
  BY <1>1, OrderFields DEF Inv, TypeOK
<1>5. /\ applied'[id].filled = o.filled
      /\ \A i \in OrderIds \ {id} : applied'[i] = applied[i]
  BY <1>1, <1>2 DEF Inv, TypeOK
<1>6. Side(book[id]) = Side(o) /\ Side(o) \in {1, -1}
  BY <1>1, SideType DEF Side
<1>7. /\ \A s \in Symbols \ {o.symbol} : position'[s] = position[s]
      /\ position'[o.symbol].quantity
            = position[o.symbol].quantity + Side(o) * (o.filled - applied[id].filled)
  <2> DEFINE delta == IF o.side = "BUY" THEN Increment(id, o) ELSE -Increment(id, o)
             price == Over(Added(id, o), Increment(id, o))
             pos == position[o.symbol]
  <2>1. position' = [position EXCEPT ![o.symbol] = Updated(pos, delta, price)]
    BY <1>2 DEF Book
  <2>2. delta = Side(o) * (o.filled - applied[id].filled)
    BY <1>1, <1>4, SideType DEF Increment
  <2>3. position \in [Symbols -> Positions]
    BY DEF Inv, TypeOK, Positions
  <2> HIDE DEF delta, price
  <2>4. Updated(pos, delta, price).quantity = pos.quantity + delta
    BY DEF Updated
  <2> QED BY <1>4, <2>1, <2>2, <2>3, <2>4
<1>8. ASSUME NEW s \in Symbols PROVE position'[s].quantity = Held(s)'
  <2> DEFINE w == Weights(s)
             v == Weights(s)'
  <2>1. Inv'
    BY UpdateFillInv
  <2>2. \A i \in OrderIds : w[i] \in Int /\ v[i] \in Int
    <3>1. \A i \in OrderIds : w[i] \in Int
      BY WeightType
    <3>2. ASSUME NEW i \in OrderIds PROVE v[i] \in Int
      <4>1. applied'[i].filled \in Int /\ (Known(i)' => Side(book[i])' \in {1, -1})
        BY <2>1 DEF Inv, TypeOK, Side
      <4> QED BY <4>1 DEF Weights, Weight
    <3> QED BY <3>1, <3>2
  <2>3. \A i \in OrderIds \ {id} : v[i] = w[i]
    BY <1>2, <1>5 DEF Weights, Weight, Known
  <2>4. v[id] - w[id] = IF s = o.symbol
                        THEN Side(o) * (o.filled - applied[id].filled) ELSE 0
    <3>1. w[id] = IF s = o.symbol THEN Side(o) * applied[id].filled ELSE 0
      BY <1>1, <1>6 DEF Weights, Weight
    <3>2. v[id] = IF s = o.symbol THEN Side(o) * o.filled ELSE 0
      BY <1>1, <1>2, <1>5, <1>6 DEF Weights, Weight, Known
    <3> HIDE DEF v, w
    <3> QED BY <1>4, <1>6, <3>1, <3>2
  <2>5. IsFiniteSet(OrderIds)
    BY OrderBookAssumption
  <2>6. Held(s) = SumOver(w, OrderIds) /\ Held(s)' = SumOver(v, OrderIds)
    BY DEF Held
  <2> HIDE DEF v, w
  <2>7. SumOver(v, OrderIds) = SumOver(w, OrderIds) + (v[id] - w[id])
    BY <1>1, <2>2, <2>3, <2>5, SumMoves
  <2>8. SumOver(w, OrderIds) \in Int
    BY <2>2, <2>5, SumType
  <2>9. position[s].quantity = Held(s)
    BY DEF PositionInv
  <2> QED BY <1>4, <1>6, <1>7, <2>4, <2>6, <2>7, <2>8, <2>9
<1> QED BY <1>3, <1>8 DEF PositionInv


LEMMA InitPosition == Init => PositionInv
<1> SUFFICES ASSUME Init PROVE PositionInv
  OBVIOUS
<1>1. ASSUME NEW s \in Symbols PROVE Held(s) = 0
  <2>1. \A i \in OrderIds : Weights(s)[i] = 0
    BY DEF Init, Weights, Weight, Known
  <2>2. IsFiniteSet(OrderIds)
    BY OrderBookAssumption
  <2> QED BY <2>1, <2>2, SumOfZeros DEF Held
<1> QED BY <1>1 DEF PositionInv, ReportsNameTheirOrder, Init

LEMMA NextPosition == Inv /\ PositionInv /\ [Next]_vars => PositionInv'
<1> SUFFICES ASSUME Inv, PositionInv, [Next]_vars PROVE PositionInv'
  OBVIOUS
<1>1. ASSUME NEW id \in OrderIds, Create(id) PROVE PositionInv'
  <2>1. PICK s \in Symbols, side \in {"BUY", "SELL"}, q \in Quantities,
             limit \in Prices \cup {NoPrice} :
             book' = [book EXCEPT ![id] = Order(s, side, q, limit, "NEW", 0, NoPrice)]
    BY <1>1 DEF Create
  <2> DEFINE o == Order(s, side, q, limit, "NEW", 0, NoPrice)
  <2>2. o \in Orders
    BY OrderBookAssumption DEF Order, Orders, Statuses
  <2>3. ~ Known(id) /\ UNCHANGED <<reports, position, applied>>
    BY <1>1 DEF Create
  <2> HIDE DEF o
  <2> QED BY <2>1, <2>2, <2>3, OrderKeepsHeld DEF o
<1>2. ASSUME NEW id \in OrderIds, Register(id) PROVE PositionInv'
  <2>1. PICK o : o \in Orders /\ book' = [book EXCEPT ![id] = o]
    BY <1>2, RegisteredOrder
  <2>2. ~ Known(id) /\ Report(id) /\ UNCHANGED <<position, applied>>
    BY <1>2 DEF Register
  <2> QED BY <2>1, <2>2, OrderKeepsHeld
<1>3. ASSUME NEW id \in OrderIds, NEW status, Move(id, status)
      PROVE  PositionInv'
  <2> DEFINE o == [book[id] EXCEPT !.status = status]
  <2>1. book[id] \in Orders /\ Known(id) /\ status \in ValidTransitions(book[id].status)
    BY <1>3 DEF Move, Transition, Known, Inv, TypeOK
  <2>2. status \in Statuses
    BY <2>1 DEF ValidTransitions, Statuses
  <2>3. o \in Orders /\ o.symbol = book[id].symbol /\ o.side = book[id].side
    BY <2>1, <2>2 DEF Orders
  <2>4. book' = [book EXCEPT ![id] = o] /\ UNCHANGED <<reports, position, applied>>
    BY <1>3 DEF Move
  <2> HIDE DEF o
  <2> QED BY <2>3, <2>4, OrderKeepsHeld
<1>4. ASSUME NEW id \in OrderIds, Fill(id) PROVE PositionInv'
  <2>1. PICK o : /\ o \in Orders /\ book' = [book EXCEPT ![id] = o]
                 /\ o.symbol = book[id].symbol /\ o.side = book[id].side
    BY <1>4, FilledOrder
  <2>2. Report(id) /\ UNCHANGED <<position, applied>>
    BY <1>4 DEF Fill
  <2> QED BY <2>1, <2>2, OrderKeepsHeld
<1>5. ASSUME NEW r \in reports, UpdateFill(r[1], r[2]) PROVE PositionInv'
  BY <1>5, UpdateFillKeepsHeld
<1>6. CASE UNCHANGED vars
  BY <1>6 DEF vars, PositionInv, ReportsNameTheirOrder, Held, Weights, Weight, Known, Side
<1> QED BY <1>1, <1>2, <1>3, <1>4, <1>5, <1>6 DEF Next, Submit, Cancel, Reject


(* Duplicated, late and reordered reports are applied exactly once: every  *)
(* position of PositionManager is, at all times, the signed sum of what    *)
(* the orders in its symbol have reported filled.                          *)
THEOREM PositionsAreFills == Spec => []PositionIsFills
<1>1. Inv /\ PositionInv => PositionIsFills
  BY HeldMeansPosition DEF PositionInv
<1> QED BY <1>1, InitPosition, NextPosition, Invariance, PTL DEF Spec

-----------------------------------------------------------------------------
(* Bounds on ratios of whole numbers.                                      *)

Ratios == [num : Int, den : Nat \ {0}]

AtLeast(f, c) == c * f.den <= f.num
NoMore(f, c) == f.num <= c * f.den

LEMMA WholeQuotient ==
    ASSUME NEW n \in Int, NEW g \in Nat \ {0}, n % g = 0
    PROVE  n = g * (n \div g) /\ n \div g \in Int
OBVIOUS

LEMMA ScaledOrder ==
    ASSUME NEW a \in Int, NEW b \in Int, NEW g \in Nat \ {0}
    PROVE  (a <= b <=> g * a <= g * b) /\ (g * a = g * b => a = b)
OBVIOUS

LEMMA Reorder ==
    \A a, b, c \in Int : /\ a * b = b * a /\ a * b \in Int
                         /\ a * (b * c) = b * (a * c)
                         /\ a * (b * c) = (a * b) * c
OBVIOUS

LEMMA TimesSums ==
    \A a, b, c \in Int : /\ (b + c) * a = b * a + c * a
                         /\ (b - c) * a = b * a - c * a
                         /\ a * (b + c) = a * b + a * c
                         /\ a * (b - c) = a * b - a * c
OBVIOUS

(* Reducing a fraction changes neither its value nor what bounds it.       *)
LEMMA FractionValue ==
    ASSUME NEW n \in Int, NEW d \in Nat \ {0}
    PROVE  \E g \in Nat \ {0} : /\ Reduced(n, d) \in Ratios
                                /\ n = g * Reduced(n, d).num
                                /\ d = g * Reduced(n, d).den
<1> DEFINE common == {g \in 1..d : n % g = 0 /\ d % g = 0}
           g == Max(common)
<1>1. g \in common
  <2> HIDE DEF g
  <2>1. common \in SUBSET (1..d) /\ common # {}
    <3>1. 1 \in common
      OBVIOUS
    <3> QED BY <3>1
  <2> HIDE DEF common
  <2> QED BY <2>1, MaxExists DEF g
<1>2. g \in Nat \ {0} /\ n % g = 0 /\ d % g = 0
  BY <1>1
<1>3. Reduced(n, d).num = n \div g /\ Reduced(n, d).den = d \div g
  BY DEF Reduced
<1> HIDE DEF g
<1>4. n = g * (n \div g) /\ d = g * (d \div g)
  BY <1>2, WholeQuotient
<1> QED BY <1>2, <1>3, <1>4, FractionType DEF Ratios

LEMMA FractionBounds ==
    ASSUME NEW n \in Int, NEW d \in Nat \ {0}, NEW c \in Int
    PROVE  /\ AtLeast(Reduced(n, d), c) <=> c * d <= n
           /\ NoMore(Reduced(n, d), c) <=> n <= c * d
<1>1. PICK g \in Nat \ {0} : /\ Reduced(n, d) \in Ratios
                             /\ n = g * Reduced(n, d).num
                             /\ d = g * Reduced(n, d).den
  BY FractionValue
<1> DEFINE p == Reduced(n, d).num
           q == Reduced(n, d).den
<1>2. p \in Int /\ q \in Int /\ g \in Int
  BY <1>1 DEF Ratios
<1>3. n = g * p /\ d = g * q
  BY <1>1
<1> HIDE DEF p, q
<1>4. c * d = g * (c * q) /\ c * q \in Int
  BY <1>2, <1>3, Reorder
<1>5. (c * q <= p <=> c * d <= n) /\ (p <= c * q <=> n <= c * d)
  BY <1>2, <1>3, <1>4, ScaledOrder
<1> QED BY <1>5 DEF AtLeast, NoMore, p, q

LEMMA ReducedSame ==
    ASSUME NEW n \in Int, NEW d \in Nat \ {0}
    PROVE  Reduced(n, d).num * d = n * Reduced(n, d).den
<1>1. PICK g \in Nat \ {0} : /\ Reduced(n, d) \in Ratios
                             /\ n = g * Reduced(n, d).num
                             /\ d = g * Reduced(n, d).den
  BY FractionValue
<1>2. \A p, q \in Int : p * (g * q) = (g * p) * q
  OBVIOUS
<1> QED BY <1>1, <1>2 DEF Ratios

LEMMA TimesBounds ==
    ASSUME NEW a \in Averages, NEW k \in Nat, NEW c \in Int
    PROVE  /\ AtLeast(a, c) => AtLeast(Times(a, k), c * k)
           /\ NoMore(a, c) => NoMore(Times(a, k), c * k)
<1> DEFINE p == a.num
           q == a.den
<1>1. p \in Int /\ q \in Nat \ {0} /\ p * k \in Int /\ c * k \in Int
  BY Reorder DEF Averages
<1>2. (c * q <= p => (c * k) * q <= p * k) /\ (p <= c * q => p * k <= (c * k) * q)
  <2> HIDE DEF p, q
  <2>1. c * q \in Int /\ (c * k) * q = k * (c * q) /\ p * k = k * p
    BY <1>1, Reorder
  <2>2. CASE k = 0
    BY <1>1, <2>1, <2>2
  <2>3. CASE k # 0
    BY <1>1, <2>1, <2>3, ScaledOrder
  <2> QED BY <2>2, <2>3
<1> QED BY <1>1, <1>2, FractionBounds DEF Times, AtLeast, NoMore

LEMMA OverBounds ==
    ASSUME NEW a \in Averages, NEW k \in Nat \ {0}, NEW c \in Int
    PROVE  /\ AtLeast(a, c * k) => AtLeast(Over(a, k), c)
           /\ NoMore(a, c * k) => NoMore(Over(a, k), c)
<1> DEFINE p == a.num
           q == a.den
<1>1. p \in Int /\ q \in Nat \ {0} /\ q * k \in Nat \ {0}
  BY Products DEF Averages
<1>2. c * (q * k) = (c * k) * q
  <2> HIDE DEF p, q
  <2> QED BY <1>1, Reorder
<1> QED BY <1>1, <1>2, FractionBounds DEF Over, AtLeast, NoMore

LEMMA PlusBounds ==
    ASSUME NEW a \in Averages, NEW b \in Averages, NEW c \in Int, NEW e \in Int
    PROVE  /\ AtLeast(a, c) /\ AtLeast(b, e) => AtLeast(Plus(a, b), c + e)
           /\ NoMore(a, c) /\ NoMore(b, e) => NoMore(Plus(a, b), c + e)
<1> DEFINE p == a.num
           q == a.den
           r == b.num
           s == b.den
<1>1. /\ p \in Int /\ q \in Nat \ {0} /\ r \in Int /\ s \in Nat \ {0}
      /\ q * s \in Nat \ {0} /\ p * s \in Int /\ r * q \in Int
  BY Products DEF Averages
<1>2. /\ c * q <= p /\ e * s <= r => (c + e) * (q * s) <= p * s + r * q
      /\ p <= c * q /\ r <= e * s => p * s + r * q <= (c + e) * (q * s)
  <2> HIDE DEF p, q, r, s
  <2>1. /\ c * q \in Int /\ e * s \in Int /\ q \in Int /\ s \in Int
        /\ s * p \in Int /\ q * r \in Int /\ c * (q * s) \in Int /\ e * (q * s) \in Int
    BY <1>1, Reorder
  <2>2. /\ c * q <= p <=> s * (c * q) <= s * p
        /\ p <= c * q <=> s * p <= s * (c * q)
    BY <1>1, <2>1, ScaledOrder
  <2>3. /\ e * s <= r <=> q * (e * s) <= q * r
        /\ r <= e * s <=> q * r <= q * (e * s)
    BY <1>1, <2>1, ScaledOrder
  <2>4. s * (c * q) = c * (q * s) /\ q * (e * s) = e * (q * s)
    BY <1>1, <2>1, Reorder
  <2>5. (c + e) * (q * s) = c * (q * s) + e * (q * s)
    BY <1>1, TimesSums
  <2>6. s * p = p * s /\ q * r = r * q
    BY <1>1, Reorder
  <2> QED BY <2>1, <2>2, <2>3, <2>4, <2>5, <2>6
<1>3. Plus(a, b) = Reduced(p * s + r * q, q * s) /\ p * s + r * q \in Int
  BY <1>1 DEF Plus
<1> QED BY <1>1, <1>2, <1>3, FractionBounds DEF AtLeast, NoMore

LEMMA MinusBounds ==
    ASSUME NEW y \in Averages, NEW x \in Averages, NEW c \in Int
    PROVE  /\ AtLeast(Minus(y, x), c)
                <=> c * (y.den * x.den) <= y.num * x.den - x.num * y.den
           /\ NoMore(Minus(y, x), c)
                <=> y.num * x.den - x.num * y.den <= c * (y.den * x.den)
<1> DEFINE n == y.num * x.den - x.num * y.den
           d == y.den * x.den
<1>1. y.num * x.den \in Int /\ x.num * y.den \in Int /\ d \in Nat \ {0}
  BY Products DEF Averages
<1>2. n \in Int
  BY <1>1
<1>3. Minus(y, x) = Reduced(n, d)
  BY DEF Minus
<1> HIDE DEF n, d
<1> QED BY <1>1, <1>2, <1>3, FractionBounds DEF n, d

(* The pure arithmetic of adding two differences of ratios p/a, q/b, r/d.  *)
LEMMA DifferencesAdd ==
    ASSUME NEW p \in Int, NEW q \in Int, NEW r \in Int,
           NEW a \in Nat \ {0}, NEW b \in Nat \ {0}, NEW d \in Nat \ {0},
           NEW c \in Int, NEW e \in Int
    PROVE  /\ c * (b * a) <= q * a - p * b /\ e * (d * b) <= r * b - q * d
                => (c + e) * (d * a) <= r * a - p * d
           /\ q * a - p * b <= c * (b * a) /\ r * b - q * d <= e * (d * b)
                => r * a - p * d <= (c + e) * (d * a)
<1> DEFINE u == q * a - p * b
           v == r * b - q * d
           w == r * a - p * d
           m == b * a
           n == d * b
           k == d * a
<1>1. /\ q * a \in Int /\ p * b \in Int /\ r * b \in Int /\ q * d \in Int
      /\ r * a \in Int /\ p * d \in Int /\ m \in Int /\ n \in Int /\ k \in Int
  BY Reorder
<1>2. u \in Int /\ v \in Int /\ w \in Int
  BY <1>1
<1>3. b * w = d * u + a * v
  <2>1. /\ b * w = b * (r * a) - b * (p * d)
        /\ d * u = d * (q * a) - d * (p * b)
        /\ a * v = a * (r * b) - a * (q * d)
    BY <1>1, TimesSums
  <2>2. /\ b * (r * a) = a * (r * b) /\ d * (q * a) = a * (q * d)
        /\ b * (p * d) = d * (p * b)
    BY Reorder
  <2>3. /\ b * (r * a) \in Int /\ b * (p * d) \in Int /\ d * (q * a) \in Int
    BY <1>1, Reorder
  <2> HIDE DEF u, v, w
  <2> QED BY <2>1, <2>2, <2>3
<1>4. d * (c * m) = b * (c * k) /\ a * (e * n) = b * (e * k)
  <2>1. d * m = b * k /\ a * n = b * k
    BY Reorder
  <2>2. /\ d * (c * m) = c * (d * m) /\ b * (c * k) = c * (b * k)
        /\ a * (e * n) = e * (a * n) /\ b * (e * k) = e * (b * k)
    <3> HIDE DEF m, n, k
    <3> QED BY <1>1, Reorder
  <2> QED BY <2>1, <2>2
<1> HIDE DEF u, v, w, m, n, k
<1>5. (c + e) * k = c * k + e * k /\ c * k \in Int /\ e * k \in Int
      /\ c * m \in Int /\ e * n \in Int
  BY <1>1, TimesSums, Reorder
<1>6. b * (c * k + e * k) = b * (c * k) + b * (e * k)
  BY <1>5, TimesSums
<1>7. /\ (c * m <= u => d * (c * m) <= d * u) /\ (u <= c * m => d * u <= d * (c * m))
      /\ (e * n <= v => a * (e * n) <= a * v) /\ (v <= e * n => a * v <= a * (e * n))
  BY <1>2, <1>5, ScaledOrder
<1>8. /\ d * u \in Int /\ a * v \in Int /\ d * (c * m) \in Int /\ a * (e * n) \in Int
      /\ b * w \in Int /\ c * k + e * k \in Int
  BY <1>2, <1>5, Reorder
<1>9. /\ b * (c * k + e * k) <= b * w <=> c * k + e * k <= w
      /\ b * w <= b * (c * k + e * k) <=> w <= c * k + e * k
  BY <1>2, <1>8, ScaledOrder
<1>10. /\ c * m <= u /\ e * n <= v => (c + e) * k <= w
       /\ u <= c * m /\ v <= e * n => w <= (c + e) * k
  BY <1>3, <1>4, <1>5, <1>6, <1>7, <1>8, <1>9
<1> QED BY <1>10 DEF u, v, w, m, n, k

-----------------------------------------------------------------------------
(* What k bought at the prices paid may have cost.                         *)

Lo == Min(Prices)
Hi == Max(Prices)

Between(f, k) == AtLeast(f, Lo * k) /\ NoMore(f, Hi * k)

LEMMA PriceRange ==
    /\ Lo \in Nat \ {0} /\ Hi \in Nat \ {0}
    /\ \A p \in Prices : p \in Nat \ {0} /\ Lo <= p /\ p <= Hi
<1>1. Prices \subseteq Nat \ {0} /\ Prices # {} /\ IsFiniteSet(Prices)
  BY OrderBookAssumption
<1> DEFINE w == [p \in Prices |-> p]
           total == SumOver(w, Prices)
<1>2. total \in Nat /\ \A p \in Prices : w[p] <= total
  <2>1. \A p \in Prices : w[p] \in Int /\ w[p] >= 0
    BY <1>1
  <2> HIDE DEF w
  <2>2. \A p \in Prices : w[p] \in Int
    BY <2>1
  <2>3. SumOver(w, Prices) \in Int /\ SumOver(w, Prices) >= 0
    BY <1>1, <2>1, <2>2, SumType
  <2>4. \A p \in Prices : w[p] <= SumOver(w, Prices)
    BY <1>1, <2>1, SumBounds
  <2> QED BY <2>3, <2>4
<1>3. Prices \in SUBSET (1..total)
  <2> HIDE DEF total
  <2> QED BY <1>1, <1>2
<1> HIDE DEF total, w
<1>4. Hi \in Prices /\ \A p \in Prices : p <= Hi
  BY <1>1, <1>2, <1>3, MaxExists DEF Hi
<1>5. Lo \in Prices /\ \A p \in Prices : Lo <= p
  BY <1>1, MinExists DEF Lo
<1> QED BY <1>1, <1>4, <1>5


LEMMA BetweenTimes ==
    ASSUME NEW a \in Averages, NEW k \in Nat, Between(a, 1)
    PROVE  Between(Times(a, k), k)
<1>1. Lo \in Int /\ Hi \in Int /\ Lo * 1 = Lo /\ Hi * 1 = Hi
  BY PriceRange
<1> QED BY <1>1, TimesBounds DEF Between

LEMMA BetweenOver ==
    ASSUME NEW a \in Averages, NEW k \in Nat \ {0}, Between(a, k)
    PROVE  Between(Over(a, k), 1)
<1>1. Lo \in Int /\ Hi \in Int /\ Lo * 1 = Lo /\ Hi * 1 = Hi
  BY PriceRange
<1> QED BY <1>1, OverBounds DEF Between

LEMMA BetweenPlus ==
    ASSUME NEW a \in Averages, NEW b \in Averages, NEW k \in Nat, NEW m \in Nat,
           Between(a, k), Between(b, m)
    PROVE  Between(Plus(a, b), k + m)
<1>1. /\ Lo * (k + m) = Lo * k + Lo * m /\ Lo * k \in Int /\ Lo * m \in Int
      /\ Hi * (k + m) = Hi * k + Hi * m /\ Hi * k \in Int /\ Hi * m \in Int
  BY PriceRange, TimesSums, Reorder
<1> QED BY <1>1, PlusBounds DEF Between

LEMMA BetweenBounds == ASSUME NEW a \in Averages PROVE PriceBounds(a) <=> Between(a, 1)
<1>1. Lo \in Int /\ Hi \in Int /\ a.num \in Int /\ a.den \in Int
  BY PriceRange DEF Averages
<1> QED BY <1>1 DEF PriceBounds, Between, AtLeast, NoMore, AtMost, Whole, Lo, Hi

-----------------------------------------------------------------------------
(* A step of a trail: from one amount of fills and money to a later one.   *)

Steps == [filled : Nat, notional : Averages]

Paid(x, y) ==
    x.filled <= y.filled
        => Between(Minus(y.notional, x.notional), y.filled - x.filled)

LEMMA PaidItself == ASSUME NEW x \in Steps PROVE Paid(x, x)
<1>1. x.notional \in Averages /\ x.filled - x.filled = 0 /\ Lo * 0 = 0 /\ Hi * 0 = 0
  BY PriceRange DEF Steps
<1>2. x.notional.num \in Int /\ x.notional.den \in Int
  BY <1>1 DEF Averages
<1> DEFINE p == x.notional.num
           q == x.notional.den
<1>3. p * q - p * q = 0 /\ 0 * (q * q) = 0
  <2>1. p * q \in Int /\ q * q \in Int
    BY <1>2, Reorder
  <2> QED BY <2>1
<1> HIDE DEF p, q
<1>4. AtLeast(Minus(x.notional, x.notional), 0) /\ NoMore(Minus(x.notional, x.notional), 0)
  BY <1>1, <1>3, MinusBounds DEF p, q
<1> QED BY <1>1, <1>4 DEF Paid, Between

LEMMA PaidOnward ==
    ASSUME NEW x \in Steps, NEW y \in Steps, NEW z \in Steps,
           x.filled <= y.filled, y.filled <= z.filled, Paid(x, y), Paid(y, z)
    PROVE  Paid(x, z)
<1> DEFINE k == y.filled - x.filled
           m == z.filled - y.filled
<1>1. /\ x.notional \in Averages /\ y.notional \in Averages /\ z.notional \in Averages
      /\ x.filled \in Nat /\ y.filled \in Nat /\ z.filled \in Nat
  BY DEF Steps
<1>2. k \in Int /\ m \in Int /\ k + m = z.filled - x.filled
  BY <1>1
<1>3. Between(Minus(y.notional, x.notional), k) /\ Between(Minus(z.notional, y.notional), m)
  BY DEF Paid
<1> HIDE DEF k, m
<1>4. /\ Lo * (k + m) = Lo * k + Lo * m /\ Lo * k \in Int /\ Lo * m \in Int
      /\ Hi * (k + m) = Hi * k + Hi * m /\ Hi * k \in Int /\ Hi * m \in Int
  BY <1>2, PriceRange, TimesSums, Reorder
<1>5. \A a \in Averages : a.num \in Int /\ a.den \in Nat \ {0}
  BY DEF Averages
<1>6. ASSUME NEW c \in Int, NEW e \in Int
      PROVE  /\ /\ AtLeast(Minus(y.notional, x.notional), c)
                /\ AtLeast(Minus(z.notional, y.notional), e)
                => AtLeast(Minus(z.notional, x.notional), c + e)
             /\ /\ NoMore(Minus(y.notional, x.notional), c)
                /\ NoMore(Minus(z.notional, y.notional), e)
                => NoMore(Minus(z.notional, x.notional), c + e)
  <2>1. c + e \in Int
    OBVIOUS
  <2> DEFINE p == x.notional.num
             a == x.notional.den
             q == y.notional.num
             b == y.notional.den
             r == z.notional.num
             d == z.notional.den
  <2>2. /\ AtLeast(Minus(y.notional, x.notional), c) <=> c * (b * a) <= q * a - p * b
        /\ NoMore(Minus(y.notional, x.notional), c) <=> q * a - p * b <= c * (b * a)
    BY <1>1, MinusBounds
  <2>3. /\ AtLeast(Minus(z.notional, y.notional), e) <=> e * (d * b) <= r * b - q * d
        /\ NoMore(Minus(z.notional, y.notional), e) <=> r * b - q * d <= e * (d * b)
    BY <1>1, MinusBounds
  <2>4. /\ AtLeast(Minus(z.notional, x.notional), c + e)
              <=> (c + e) * (d * a) <= r * a - p * d
        /\ NoMore(Minus(z.notional, x.notional), c + e)
              <=> r * a - p * d <= (c + e) * (d * a)
    BY <1>1, <2>1, MinusBounds
  <2>5. /\ p \in Int /\ q \in Int /\ r \in Int
        /\ a \in Nat \ {0} /\ b \in Nat \ {0} /\ d \in Nat \ {0}
    BY <1>1, <1>5
  <2> HIDE DEF p, q, r, a, b, d
  <2>6. /\ c * (b * a) <= q * a - p * b /\ e * (d * b) <= r * b - q * d
             => (c + e) * (d * a) <= r * a - p * d
        /\ q * a - p * b <= c * (b * a) /\ r * b - q * d <= e * (d * b)
             => r * a - p * d <= (c + e) * (d * a)
    BY <2>5, DifferencesAdd
  <2> QED BY <2>2, <2>3, <2>4, <2>6
<1>7. Between(Minus(z.notional, x.notional), k + m)
  BY <1>3, <1>4, <1>6 DEF Between
<1> QED BY <1>2, <1>7 DEF Paid


(* The money of an order that has filled, and where that puts it.          *)
Money(o) == IF o.filled = 0 THEN Whole(0) ELSE Times(o.avg, o.filled)

Point(o) == [filled |-> o.filled, notional |-> Money(o)]

Start == [filled |-> 0, notional |-> Whole(0)]

Priced(o) == o.avg = NoPrice <=> o.filled = 0

LEMMA PointType ==
    ASSUME NEW o \in Orders, Priced(o)
    PROVE  Start \in Steps /\ Point(o) \in Steps /\ Money(o) \in Averages
<1>1. o.filled \in Nat /\ (o.filled # 0 => o.avg \in Averages)
  BY OrderFields DEF Priced
<1>2. Whole(0) \in Averages
  BY DEF Whole, Averages
<1>3. Money(o) \in Averages
  BY <1>1, <1>2, AverageArithmetic DEF Money
<1> QED BY <1>1, <1>2, <1>3 DEF Steps, Start, Point

(* The pure arithmetic of two equalities of ratios u/a = v/b = w/c.        *)
LEMMA SameOnward ==
    ASSUME NEW u \in Int, NEW v \in Int, NEW w \in Int,
           NEW a \in Nat \ {0}, NEW b \in Nat \ {0}, NEW c \in Nat \ {0},
           u * b = v * a, v * c = w * b
    PROVE  u * c = w * a
<1>1. b * (u * c) = c * (u * b) /\ b * (w * a) = a * (w * b)
  BY Reorder
<1>2. c * (v * a) = a * (v * c)
  BY Reorder
<1>3. b * (u * c) = b * (w * a)
  BY <1>1, <1>2
<1>4. u * c \in Int /\ w * a \in Int
  BY Reorder
<1> QED BY <1>3, <1>4, ScaledOrder

(* A first fill at one of the prices, or what register takes over.         *)
LEMMA PaidFromStart ==
    ASSUME NEW a \in Averages, NEW k \in Nat, Between(a, k)
    PROVE  Paid(Start, [filled |-> k, notional |-> a])
<1>1. Whole(0) \in Averages /\ Lo * k \in Int /\ Hi * k \in Int
  BY PriceRange, Reorder DEF Whole, Averages
<1>2. a.num \in Int /\ a.den \in Int
  BY DEF Averages
<1> DEFINE p == a.num
           q == a.den
<1>3. q * 1 = q /\ p * 1 = p /\ 0 * q = 0 /\ p - 0 = p
  BY <1>2
<1>4. ASSUME NEW c \in Int
      PROVE  /\ AtLeast(a, c) => AtLeast(Minus(a, Whole(0)), c)
             /\ NoMore(a, c) => NoMore(Minus(a, Whole(0)), c)
  <2>1. Whole(0).num = 0 /\ Whole(0).den = 1
    BY DEF Whole
  <2> QED BY <1>1, <1>3, <2>1, MinusBounds DEF AtLeast, NoMore
<1>5. Between(Minus(a, Whole(0)), k)
  BY <1>1, <1>4 DEF Between
<1> QED BY <1>5 DEF Paid, Start

LEMMA BetweenWhole == ASSUME NEW p \in Prices PROVE Whole(p) \in Averages /\ Between(Whole(p), 1)
BY PriceRange DEF Whole, Averages, Between, AtLeast, NoMore

LEMMA RegisteredPoint ==
    ASSUME NEW o \in Orders, NEW price \in Prices,
           o.avg = IF o.filled = 0 THEN NoPrice ELSE Whole(price)
    PROVE  /\ Priced(o)
           /\ o.filled = 0 => Point(o) = Start
           /\ o.filled # 0 => Paid(Start, Point(o))
<1>1. Whole(price) \in Averages /\ Between(Whole(price), 1) /\ o.filled \in Nat
  BY BetweenWhole, OrderFields
<1>2. Priced(o)
  BY <1>1, OrderBookAssumption DEF Priced
<1>3. ASSUME o.filled # 0 PROVE Paid(Start, Point(o))
  <2>1. Money(o) = Times(Whole(price), o.filled)
    BY <1>3 DEF Money
  <2>2. Times(Whole(price), o.filled) \in Averages /\ Between(Times(Whole(price), o.filled), o.filled)
    BY <1>1, BetweenTimes, AverageArithmetic
  <2> QED BY <1>1, <2>1, <2>2, PaidFromStart DEF Point
<1>4. o.filled = 0 => Point(o) = Start
  BY DEF Point, Start, Money
<1> QED BY <1>2, <1>3, <1>4

LEMMA FilledPoint ==
    ASSUME NEW b \in Orders, Priced(b), NEW n \in Nat \ {0}, NEW price \in Prices,
           price # NoPrice,
           NEW o \in Orders, o.filled = b.filled + n, o.avg = NewAverage(b, n, price)
    PROVE  Priced(o) /\ Paid(Point(b), Point(o))
<1> DEFINE prior == Money(b)
           k == b.filled + n
           add == price * n
           sum == Plus(prior, Whole(add))
           avg == Over(sum, k)
           total == Times(avg, k)
<1>1. /\ prior \in Averages /\ b.filled \in Nat /\ k \in Nat \ {0}
      /\ price \in Nat \ {0} /\ add \in Nat
  BY PointType, OrderFields, PriceRange, Products
<1>2. Whole(add) \in Averages /\ Whole(add).num = add /\ Whole(add).den = 1
  BY <1>1 DEF Whole, Averages
<1>3. NewAverage(b, n, price) = avg
  BY DEF NewAverage, Money, Priced
<1> HIDE DEF prior, add, k
<1>4. sum \in Averages
  BY <1>1, <1>2, AverageArithmetic
<1>5. avg \in Averages
  <2> HIDE DEF sum
  <2> QED BY <1>1, <1>4, AverageArithmetic
<1>6. total \in Averages
  <2> HIDE DEF avg
  <2> QED BY <1>1, <1>5, AverageArithmetic
<1>7. Priced(o) /\ Money(o) = total
  <2>1. o.filled = k /\ o.filled # 0
    BY <1>1 DEF k
  <2>2. o.avg = avg /\ o.avg # NoPrice
    BY <1>3, <1>5, OrderBookAssumption
  <2> QED BY <2>1, <2>2 DEF Priced, Money
<1> DEFINE p == prior.num
           q == prior.den
<1>8. p \in Int /\ q \in Nat \ {0} /\ p + add * q \in Int /\ add * q \in Int
  <2>1. p \in Int /\ q \in Nat \ {0} /\ q \in Int /\ add \in Int
    BY <1>1 DEF Averages
  <2> QED BY <2>1, Reorder
<1>9. sum.num * q = (p + add * q) * sum.den
  <2>1. p * 1 = p /\ q * 1 = q
    BY <1>8
  <2>2. sum = Reduced(p + add * q, q)
    BY <1>2, <2>1 DEF Plus
  <2> HIDE DEF p, q, sum
  <2> QED BY <1>8, <2>2, ReducedSame
<1>10. avg.num * (sum.den * k) = sum.num * avg.den
  <2>1. sum.num \in Int /\ sum.den * k \in Nat \ {0}
    BY <1>1, <1>4, Products DEF Averages
  <2> HIDE DEF sum
  <2> QED BY <2>1, ReducedSame DEF Over
<1>11. total.num * avg.den = (avg.num * k) * total.den
  <2>1. avg.num * k \in Int /\ avg.den \in Nat \ {0}
    BY <1>1, <1>5, Products DEF Averages
  <2> HIDE DEF avg
  <2> QED BY <2>1, ReducedSame DEF Times
<1>12. /\ total.num \in Int /\ avg.num \in Int /\ sum.num \in Int /\ k \in Int
       /\ total.den \in Nat \ {0} /\ avg.den \in Nat \ {0} /\ sum.den \in Nat \ {0}
  BY <1>1, <1>4, <1>5, <1>6 DEF Averages
<1> HIDE DEF total, avg, sum, p, q
<1>13. (avg.num * k) * sum.den = sum.num * avg.den /\ avg.num * k \in Int
  <2>1. avg.num * (sum.den * k) = (avg.num * k) * sum.den
    BY <1>12, Reorder
  <2> QED BY <1>10, <1>12, <2>1, Reorder
<1>14. total.num * sum.den = sum.num * total.den
  <2> DEFINE u == total.num
             a == total.den
             v == avg.num * k
             f == avg.den
             w == sum.num
             c == sum.den
  <2>1. /\ u \in Int /\ v \in Int /\ w \in Int /\ u * f = v * a /\ v * c = w * f
        /\ a \in Nat \ {0} /\ f \in Nat \ {0} /\ c \in Nat \ {0}
    BY <1>11, <1>12, <1>13
  <2> HIDE DEF u, a, v, f, w, c
  <2>2. u * c = w * a
    BY <2>1, SameOnward
  <2> QED BY <2>2 DEF u, a, w, c
<1>15. total.num * q = (p + add * q) * total.den
  <2> DEFINE u == total.num
             a == total.den
             v == sum.num
             f == sum.den
             w == p + add * q
  <2>1. /\ u \in Int /\ v \in Int /\ w \in Int /\ u * f = v * a /\ v * q = w * f
        /\ a \in Nat \ {0} /\ f \in Nat \ {0} /\ q \in Nat \ {0}
    BY <1>8, <1>9, <1>12, <1>14
  <2> HIDE DEF u, a, v, f, w
  <2>2. u * q = w * a
    BY <2>1, SameOnward
  <2> QED BY <2>2 DEF u, a, w
<1>16. total.num * q - p * total.den = add * (total.den * q)
  <2>1. (p + add * q) * total.den = p * total.den + (add * q) * total.den
    BY <1>8, <1>12, TimesSums
  <2>2. (add * q) * total.den = add * (total.den * q)
    BY <1>1, <1>8, <1>12, Reorder
  <2>3. p * total.den \in Int /\ add * (total.den * q) \in Int
    BY <1>1, <1>8, <1>12, Reorder
  <2> QED BY <1>15, <2>1, <2>2, <2>3
<1>17. total.den * q \in Nat \ {0}
  BY <1>8, <1>12, Products
<1>18. /\ Lo * n \in Int /\ Lo * n <= add /\ Hi * n \in Int /\ add <= Hi * n
  <2>1. /\ n * Lo <= n * price /\ n * price <= n * Hi
        /\ n * Lo = Lo * n /\ n * Hi = Hi * n /\ n * price = price * n
    BY <1>1, PriceRange, ScaledOrder, Reorder
  <2> QED BY <2>1, PriceRange, Reorder DEF add
<1>19. ASSUME NEW c \in Int
       PROVE  /\ c <= add => c * (total.den * q) <= add * (total.den * q)
              /\ add <= c => add * (total.den * q) <= c * (total.den * q)
  <2> DEFINE z == total.den * q
  <2>1. z * c = c * z /\ z * add = add * z /\ add \in Int
    BY <1>1, <1>17, Reorder
  <2> HIDE DEF z
  <2>2. z \in Nat \ {0}
    BY <1>17 DEF z
  <2>3. (c <= add => z * c <= z * add) /\ (add <= c => z * add <= z * c)
    BY <2>1, <2>2, ScaledOrder
  <2> QED BY <2>1, <2>3 DEF z
<1>20. Between(Minus(total, prior), n)
  BY <1>1, <1>6, <1>16, <1>18, <1>19, MinusBounds DEF Between, p, q
<1>21. Point(o).filled - Point(b).filled = n
  BY <1>1 DEF Point
<1>22. Point(o).notional = total /\ Point(b).notional = prior
  BY <1>7 DEF Point, prior
<1> QED BY <1>7, <1>20, <1>21, <1>22 DEF Paid


(* A blended basis lies between what it is blended from.                   *)
LEMMA UpdatedBetween ==
    ASSUME NEW pos \in Positions, HasBasis(pos),
           pos.quantity # 0 => Between(pos.avg, 1),
           NEW delta \in Int, delta # 0, NEW price \in Averages, Between(price, 1),
           Updated(pos, delta, price).quantity # 0
    PROVE  Between(Updated(pos, delta, price).avg, 1)
<1> DEFINE abs(n) == IF n < 0 THEN -n ELSE n
           quantity == pos.quantity + delta
           merged == Over(Plus(Times(pos.avg, abs(pos.quantity)),
                               Times(price, abs(delta))), abs(quantity))
           blend == IF pos.quantity = 0 THEN price ELSE merged
           grows == pos.quantity = 0 \/ (pos.quantity > 0) = (delta > 0)
           flips == (pos.quantity > 0) # (quantity > 0)
           avg == IF quantity = 0 THEN NoPrice
                  ELSE IF grows THEN blend ELSE IF flips THEN price ELSE pos.avg
<1>1. Updated(pos, delta, price) = [quantity |-> quantity, avg |-> avg]
  BY DEF Updated
<1>2. quantity # 0
  BY <1>1
<1>3. pos.quantity \in Int /\ quantity \in Int
  BY DEF Positions
<1>4. ASSUME grows, pos.quantity # 0 PROVE Between(merged, 1)
  <2>1. /\ abs(pos.quantity) \in Nat /\ abs(delta) \in Nat /\ abs(quantity) \in Nat \ {0}
        /\ abs(pos.quantity) + abs(delta) = abs(quantity)
    BY <1>2, <1>3, <1>4
  <2>2. pos.avg \in Averages /\ Between(pos.avg, 1)
    BY <1>4 DEF HasBasis
  <2> DEFINE a == Times(pos.avg, abs(pos.quantity))
             b == Times(price, abs(delta))
             k == abs(pos.quantity)
             m == abs(delta)
             t == abs(quantity)
  <2>3. k \in Nat /\ m \in Nat /\ t \in Nat \ {0} /\ k + m = t
    BY <2>1
  <2>4. a = Times(pos.avg, k) /\ b = Times(price, m) /\ merged = Over(Plus(a, b), t)
    OBVIOUS
  <2> HIDE DEF a, b, k, m, t, merged, abs, quantity, grows
  <2>5. a \in Averages /\ b \in Averages /\ Between(a, k) /\ Between(b, m)
    BY <2>2, <2>3, <2>4, AverageArithmetic, BetweenTimes
  <2>6. Plus(a, b) \in Averages /\ Between(Plus(a, b), t)
    BY <2>3, <2>5, AverageArithmetic, BetweenPlus
  <2> QED BY <2>3, <2>4, <2>6, BetweenOver
<1>5. Between(avg, 1)
  <2> HIDE DEF quantity, flips, merged
  <2>1. CASE pos.quantity = 0
    BY <1>2, <2>1
  <2>2. CASE pos.quantity # 0
    <3> HIDE DEF grows
    <3> QED BY <1>2, <1>4, <2>2
  <2> QED BY <2>1, <2>2
<1> HIDE DEF avg, quantity
<1> QED BY <1>1, <1>5

-----------------------------------------------------------------------------
(* The invariant: whatever is known of an order, from nothing filled over  *)
(* its reports and what was applied of them to the order in the book, lies *)
(* on one trail, each step of which bought at prices that were paid.       *)

Trail(id) ==
    {Start, applied[id]}
        \cup {Point(r[2]) : r \in {q \in reports : q[1] = id}}
        \cup (IF Known(id) THEN {Point(book[id])} ELSE {})

OneTrail(T) == \A x, y \in T : Paid(x, y)

AllPriced ==
    /\ \A id \in OrderIds : Known(id) => Priced(book[id])
    /\ \A r \in reports : Priced(r[2])

BasesBetween == \A s \in Symbols : position[s].quantity # 0 => Between(position[s].avg, 1)

TrailInv == AllPriced /\ BasesBetween /\ \A id \in OrderIds : OneTrail(Trail(id))

BasisInv == unpriced = {} => TrailInv

LEMMA TrailType ==
    ASSUME Inv, AllPriced, NEW id \in OrderIds
    PROVE  /\ Trail(id) \subseteq Steps
           /\ \A x \in Trail(id) :
                 x.filled <= (IF Known(id) THEN book[id].filled ELSE 0)
<1> DEFINE last == IF Known(id) THEN book[id].filled ELSE 0
<1>1. last \in Nat /\ (Known(id) => book[id] \in Orders /\ last = book[id].filled)
  BY OrderFields DEF Inv, TypeOK, Known
<1> HIDE DEF last
<1>2. Start \in Steps /\ Start.filled <= last
  BY <1>1 DEF Start, Steps, Whole, Averages
<1>3. applied[id] \in Steps /\ applied[id].filled <= last
  BY DEF Inv, TypeOK, Steps, ReportInv, NothingAppliedTwice, last
<1>4. ASSUME NEW r \in reports, r[1] = id
      PROVE  Point(r[2]) \in Steps /\ Point(r[2]).filled <= last
  <2>1. r[2] \in Orders /\ Priced(r[2]) /\ Known(id) /\ r[2].filled <= book[id].filled
    BY <1>4 DEF Inv, TypeOK, AllPriced, ReportInv, ReportsAreBehind
  <2>2. Point(r[2]) \in Steps
    BY <2>1, PointType
  <2> QED BY <1>1, <2>1, <2>2 DEF Point
<1>5. ASSUME Known(id)
      PROVE  Point(book[id]) \in Steps /\ Point(book[id]).filled <= last
  <2>1. book[id] \in Orders /\ Priced(book[id]) /\ last = book[id].filled
    BY <1>1, <1>5 DEF AllPriced
  <2> QED BY <1>1, <2>1, PointType DEF Point
<1>6. ASSUME NEW x \in Trail(id) PROVE x \in Steps /\ x.filled <= last
  <2>1. \/ x = Start \/ x = applied[id]
        \/ \E r \in reports : r[1] = id /\ x = Point(r[2])
        \/ Known(id) /\ x = Point(book[id])
    BY DEF Trail
  <2> QED BY <1>2, <1>3, <1>4, <1>5, <2>1
<1> QED BY <1>6 DEF last

(* A trail goes on from its last point.                                    *)
LEMMA TrailGoesOn ==
    ASSUME NEW T \in SUBSET Steps, OneTrail(T), NEW b \in T, NEW p \in Steps,
           \A x \in T : x.filled <= b.filled, b.filled < p.filled, Paid(b, p)
    PROVE  OneTrail(T \cup {p})
<1> SUFFICES ASSUME NEW x \in T \cup {p}, NEW y \in T \cup {p} PROVE Paid(x, y)
  BY DEF OneTrail
<1>1. \A z \in Steps : z.filled \in Nat
  BY DEF Steps
<1>2. CASE x \in T /\ y \in T
  BY <1>2 DEF OneTrail
<1>3. CASE x \in T /\ y = p
  <2>1. x \in Steps /\ b \in Steps /\ x.filled <= b.filled /\ b.filled <= p.filled
    BY <1>1, <1>3
  <2>2. Paid(x, b)
    BY <1>3 DEF OneTrail
  <2> QED BY <1>3, <2>1, <2>2, PaidOnward
<1>4. CASE x = p /\ y \in T
  <2>1. ~ (p.filled <= y.filled)
    BY <1>1, <1>4
  <2> QED BY <1>4, <2>1 DEF Paid
<1>5. CASE x = p /\ y = p
  BY <1>5, PaidItself
<1> QED BY <1>2, <1>3, <1>4, <1>5

LEMMA ShorterTrail ==
    ASSUME NEW T, NEW U \in SUBSET T, OneTrail(T) PROVE OneTrail(U)
BY DEF OneTrail


LEMMA OrderKeepsTrails ==
    ASSUME Inv, TrailInv, NEW id \in OrderIds, NEW o \in Orders, Priced(o),
           OneTrail(Trail(id) \cup {Point(o)}),
           book' = [book EXCEPT ![id] = o],
           Report(id) \/ UNCHANGED reports, UNCHANGED <<position, applied>>
    PROVE  TrailInv'
<1>1. book'[id] = o /\ \A i \in OrderIds \ {id} : book'[i] = book[i]
  BY DEF Inv, TypeOK
<1>2. \A r \in reports' : r \in reports \/ r = <<id, o>>
  BY <1>1 DEF Report
<1>3. AllPriced'
  BY <1>1, <1>2 DEF TrailInv, AllPriced, Known, Priced
<1>4. BasesBetween'
  BY DEF TrailInv, BasesBetween
<1>5. ASSUME NEW i \in OrderIds PROVE OneTrail(Trail(i))'
  <2>1. CASE i = id
    <3>1. Trail(i)' \subseteq Trail(id) \cup {Point(o)}
      <4> SUFFICES ASSUME NEW x \in Trail(i)' PROVE x \in Trail(id) \cup {Point(o)}
        OBVIOUS
      <4>1. \/ x = Start \/ x = applied[id]
            \/ \E r \in reports' : r[1] = id /\ x = Point(r[2])
            \/ x = Point(o)
        BY <1>1, <2>1 DEF Trail, Start, Point, Money
      <4>2. ASSUME NEW r \in reports', r[1] = id, x = Point(r[2])
            PROVE  x \in Trail(id) \cup {Point(o)}
        BY <1>2, <4>2 DEF Trail
      <4> QED BY <4>1, <4>2 DEF Trail
    <3>2. OneTrail(Trail(i)')
      BY <3>1, ShorterTrail
    <3> QED BY <3>2 DEF OneTrail, Paid, Between
  <2>2. CASE i # id
    <3>1. Trail(i)' \subseteq Trail(i)
      <4> SUFFICES ASSUME NEW x \in Trail(i)' PROVE x \in Trail(i)
        OBVIOUS
      <4>1. \/ x = Start \/ x = applied[i]
            \/ \E r \in reports' : r[1] = i /\ x = Point(r[2])
            \/ Known(i) /\ x = Point(book[i])
        BY <1>1, <2>2 DEF Trail, Start, Point, Money, Known
      <4>2. ASSUME NEW r \in reports', r[1] = i, x = Point(r[2]) PROVE x \in Trail(i)
        BY <1>2, <2>2, <4>2 DEF Trail
      <4> QED BY <4>1, <4>2 DEF Trail
    <3>2. OneTrail(Trail(i)')
      BY <3>1, ShorterTrail DEF TrailInv
    <3> QED BY <3>2 DEF OneTrail, Paid, Between
  <2> QED BY <2>1, <2>2
<1> QED BY <1>3, <1>4, <1>5 DEF TrailInv

LEMMA SamePoint ==
    ASSUME TrailInv, NEW id \in OrderIds, NEW p \in Trail(id)
    PROVE  OneTrail(Trail(id) \cup {p})
<1>1. Trail(id) \cup {p} = Trail(id)
  OBVIOUS
<1> QED BY <1>1 DEF TrailInv

LEMMA CreateTrail ==
    ASSUME Inv, TrailInv, NEW id \in OrderIds, Create(id) PROVE TrailInv'
<1>1. PICK s \in Symbols, side \in {"BUY", "SELL"}, q \in Quantities,
           limit \in Prices \cup {NoPrice} :
           book' = [book EXCEPT ![id] = Order(s, side, q, limit, "NEW", 0, NoPrice)]
  BY DEF Create
<1> DEFINE o == Order(s, side, q, limit, "NEW", 0, NoPrice)
<1>2. o \in Orders /\ Priced(o) /\ Point(o) = Start
  BY OrderBookAssumption DEF Order, Orders, Statuses, Priced, Point, Start, Money
<1>3. UNCHANGED <<reports, position, applied>>
  BY DEF Create
<1>4. Start \in Trail(id)
  BY DEF Trail
<1> HIDE DEF o
<1>5. OneTrail(Trail(id) \cup {Point(o)})
  BY <1>2, <1>4, SamePoint
<1> QED BY <1>1, <1>2, <1>3, <1>5, OrderKeepsTrails DEF o

LEMMA RegisterTrail ==
    ASSUME Inv, TrailInv, NEW id \in OrderIds, Register(id) PROVE TrailInv'
<1>1. PICK o \in Orders, price \in Prices :
          /\ o.avg = IF o.filled = 0 THEN NoPrice ELSE Whole(price)
          /\ book' = [book EXCEPT ![id] = o]
  BY RegisteredOrder
<1>2. ~ Known(id) /\ Report(id) /\ UNCHANGED <<position, applied>>
  BY DEF Register
<1>3. /\ Priced(o) /\ (o.filled = 0 => Point(o) = Start)
      /\ (o.filled # 0 => Paid(Start, Point(o)))
  BY <1>1, RegisteredPoint
<1>4. /\ Trail(id) \subseteq Steps /\ Start \in Trail(id) /\ Point(o) \in Steps
      /\ \A x \in Trail(id) : x.filled <= Start.filled
  <2>1. \A x \in Trail(id) : x.filled <= 0
    BY <1>2, TrailType DEF TrailInv
  <2> QED BY <1>3, <2>1, TrailType, PointType DEF TrailInv, Trail, Start
<1>5. OneTrail(Trail(id) \cup {Point(o)})
  <2>1. CASE o.filled = 0
    BY <1>3, <1>4, <2>1, SamePoint
  <2>2. CASE o.filled # 0
    <3>1. Start.filled < Point(o).filled /\ OneTrail(Trail(id))
      BY <2>2, OrderFields DEF Start, Point, TrailInv
    <3> QED BY <1>3, <1>4, <2>2, <3>1, TrailGoesOn
  <2> QED BY <2>1, <2>2
<1> QED BY <1>1, <1>2, <1>3, <1>5, OrderKeepsTrails

LEMMA MoveTrail ==
    ASSUME Inv, TrailInv, NEW id \in OrderIds, NEW status, Move(id, status)
    PROVE  TrailInv'
<1> DEFINE o == [book[id] EXCEPT !.status = status]
<1>1. book[id] \in Orders /\ Known(id) /\ status \in ValidTransitions(book[id].status)
  BY DEF Move, Transition, Known, Inv, TypeOK
<1>2. status \in Statuses
  BY <1>1 DEF ValidTransitions, Statuses
<1>3. o \in Orders /\ o.filled = book[id].filled /\ o.avg = book[id].avg
  BY <1>1, <1>2 DEF Orders
<1>4. book' = [book EXCEPT ![id] = o] /\ UNCHANGED <<reports, position, applied>>
  BY DEF Move
<1> HIDE DEF o
<1>5. Priced(o) /\ Point(o) = Point(book[id]) /\ Point(book[id]) \in Trail(id)
  BY <1>1, <1>3 DEF TrailInv, AllPriced, Priced, Point, Money, Trail
<1>6. OneTrail(Trail(id) \cup {Point(o)})
  BY <1>5, SamePoint
<1> QED BY <1>3, <1>4, <1>5, <1>6, OrderKeepsTrails

LEMMA FillTrail ==
    ASSUME Inv, TrailInv, NEW id \in OrderIds, Fill(id), unpriced' = {}
    PROVE  TrailInv'
<1>1. PICK o \in Orders, n \in Nat \ {0}, p \in Prices \cup {NoPrice} :
          /\ o.filled = book[id].filled + n
          /\ o.avg = NewAverage(book[id], n, p)
          /\ book' = [book EXCEPT ![id] = o]
          /\ unpriced' = IF p = NoPrice THEN unpriced \cup {id} ELSE unpriced
  BY FilledOrder
<1> DEFINE b == book[id]
<1>2. p # NoPrice /\ p \in Prices
  BY <1>1
<1>3. Known(id) /\ b \in Orders /\ Priced(b)
  BY FilledOrder DEF TrailInv, AllPriced
<1>4. Report(id) /\ UNCHANGED <<position, applied>>
  BY DEF Fill
<1>5. Priced(o) /\ Paid(Point(b), Point(o))
  <2> HIDE DEF b
  <2>1. o.filled = b.filled + n /\ o.avg = NewAverage(b, n, p)
    BY <1>1 DEF b
  <2> QED BY <1>2, <1>3, <2>1, FilledPoint
<1>6. /\ Trail(id) \subseteq Steps /\ Point(b) \in Trail(id) /\ OneTrail(Trail(id))
      /\ \A x \in Trail(id) : x.filled <= b.filled
  BY <1>3, TrailType DEF TrailInv, Trail
<1>7. Point(b).filled = b.filled /\ Point(b).filled < Point(o).filled /\ Point(o) \in Steps
  BY <1>1, <1>3, <1>5, OrderFields, PointType DEF Point
<1> HIDE DEF b
<1>8. OneTrail(Trail(id) \cup {Point(o)})
  BY <1>5, <1>6, <1>7, TrailGoesOn
<1> QED BY <1>1, <1>4, <1>5, <1>8, OrderKeepsTrails

LEMMA UpdateFillTrail ==
    ASSUME Inv, TrailInv, NEW r \in reports, UpdateFill(r[1], r[2])
    PROVE  TrailInv'
<1> DEFINE id == r[1]
           o == r[2]
<1>1. id \in OrderIds /\ o \in Orders /\ Priced(o) /\ Point(o) \in Trail(id)
  BY DEF Inv, TypeOK, TrailInv, AllPriced, Trail
<1>2. /\ Applicable(id, o) /\ Book(id, o)
      /\ applied' = [applied EXCEPT ![id] = [filled |-> o.filled,
                                             notional |-> Notional(o)]]
      /\ UNCHANGED <<book, reports, unpriced>>
  BY DEF UpdateFill
<1> HIDE DEF id, o
<1>3. /\ Increment(id, o) \in Nat \ {0} /\ Added(id, o) \in Averages
      /\ o.filled > applied[id].filled
      /\ o.filled \in Nat /\ applied[id].filled \in Nat /\ o.symbol \in Symbols
  BY <1>1, <1>2, ApplicableFacts, OrderFields DEF Inv, TypeOK
<1>4. Money(o) = Notional(o) /\ Point(o) = [filled |-> o.filled, notional |-> Notional(o)]
  <2>1. o.filled # 0
    BY <1>3
  <2> QED BY <1>1, <2>1 DEF Priced, Money, Notional, ReportedPrice, Point
<1>5. Between(Added(id, o), Increment(id, o))
  <2>1. Paid(applied[id], Point(o))
    BY <1>1 DEF TrailInv, OneTrail, Trail
  <2>2. applied[id].filled <= Point(o).filled
    BY <1>3 DEF Point
  <2> QED BY <1>4, <2>1, <2>2 DEF Paid, Point, Added, Increment
<1>6. AllPriced'
  BY <1>2 DEF TrailInv, AllPriced, Known
<1>7. BasesBetween'
  <2> DEFINE pos == position[o.symbol]
             delta == IF o.side = "BUY" THEN Increment(id, o) ELSE -Increment(id, o)
             price == Over(Added(id, o), Increment(id, o))
             now == Updated(pos, delta, price)
  <2>1. /\ position \in [Symbols -> Positions] /\ pos \in Positions /\ HasBasis(pos)
        /\ (pos.quantity # 0 => Between(pos.avg, 1))
    BY <1>3 DEF Inv, TypeOK, Positions, ReportInv, TrailInv, BasesBetween
  <2>2. delta \in Int /\ delta # 0
    BY <1>3
  <2>3. price \in Averages /\ Between(price, 1)
    BY <1>3, <1>5, AverageArithmetic, BetweenOver
  <2>4. position' = [position EXCEPT ![o.symbol] = now]
    BY <1>2 DEF Book
  <2> HIDE DEF pos, delta, price
  <2>5. now.quantity # 0 => Between(now.avg, 1)
    BY <2>1, <2>2, <2>3, UpdatedBetween
  <2> HIDE DEF now
  <2>6. \A s \in Symbols : position'[s] = IF s = o.symbol THEN now ELSE position[s]
    BY <1>3, <2>1, <2>4
  <2> QED BY <2>5, <2>6 DEF TrailInv, BasesBetween
<1>8. ASSUME NEW i \in OrderIds PROVE OneTrail(Trail(i))'
  <2>1. applied'[i] \in Trail(i)
    <3>1. applied'[i] = IF i = id THEN Point(o) ELSE applied[i]
      BY <1>1, <1>2, <1>4 DEF Inv, TypeOK
    <3> QED BY <1>1, <3>1 DEF Trail
  <2>2. Trail(i)' \subseteq Trail(i)
    BY <1>2, <2>1 DEF Trail, Known, Start, Point, Money
  <2>3. OneTrail(Trail(i)')
    BY <2>2, ShorterTrail DEF TrailInv
  <2> QED BY <2>3 DEF OneTrail, Paid, Between
<1> QED BY <1>6, <1>7, <1>8 DEF TrailInv

LEMMA InitBasis == Init => BasisInv
<1> SUFFICES ASSUME Init PROVE TrailInv
  BY DEF BasisInv
<1>1. AllPriced /\ BasesBetween
  BY DEF Init, AllPriced, BasesBetween, Known
<1>2. ASSUME NEW id \in OrderIds PROVE OneTrail(Trail(id))
  <2>1. Trail(id) \subseteq {Start}
    BY DEF Init, Trail, Start, Known
  <2>2. Start \in Steps
    BY DEF Start, Steps, Whole, Averages
  <2> QED BY <2>1, <2>2, PaidItself DEF OneTrail
<1> QED BY <1>1, <1>2 DEF TrailInv

LEMMA NextBasis == Inv /\ BasisInv /\ [Next]_vars => BasisInv'
<1> SUFFICES ASSUME Inv, BasisInv, [Next]_vars, unpriced' = {} PROVE TrailInv'
  BY DEF BasisInv
<1>1. unpriced = {}
  BY DEF Next, Create, Register, Submit, Fill, Cancel, Reject, Move, UpdateFill, vars
<1>2. TrailInv
  BY <1>1 DEF BasisInv
<1>3. ASSUME NEW id \in OrderIds, Create(id) PROVE TrailInv'
  BY <1>2, <1>3, CreateTrail
<1>4. ASSUME NEW id \in OrderIds, Register(id) PROVE TrailInv'
  BY <1>2, <1>4, RegisterTrail
<1>5. ASSUME NEW id \in OrderIds, Submit(id) \/ Cancel(id) \/ Reject(id) PROVE TrailInv'
  BY <1>2, <1>5, MoveTrail DEF Submit, Cancel, Reject
<1>6. ASSUME NEW id \in OrderIds, Fill(id) PROVE TrailInv'
  BY <1>2, <1>6, FillTrail
<1>7. ASSUME NEW r \in reports, UpdateFill(r[1], r[2]) PROVE TrailInv'
  BY <1>2, <1>7, UpdateFillTrail
<1>8. CASE UNCHANGED vars
  BY <1>2, <1>8 DEF vars, TrailInv, AllPriced, BasesBetween, OneTrail, Trail, Known,
                    Priced, Start, Point, Money, Paid, Between
<1> QED BY <1>3, <1>4, <1>5, <1>6, <1>7, <1>8 DEF Next

(* However reports are merged, skipped, repeated or delayed, a cost basis  *)
(* lies between the lowest and the highest price, as long as every fill    *)
(* carried a price: update_fill books the money between two reports, and   *)
(* that money bought at prices that were paid.                             *)
THEOREM BasesAreAverages == Spec => []BasisWithinPrices
<1>1. Inv /\ BasisInv => BasisWithinPrices
  <2> SUFFICES ASSUME Inv, BasisInv, unpriced = {}, NEW s \in Symbols,
                      position[s].quantity # 0
               PROVE  PriceBounds(position[s].avg)
    BY DEF BasisWithinPrices
  <2>1. position[s].avg \in Averages /\ Between(position[s].avg, 1)
    BY DEF Inv, ReportInv, HasBasis, BasisInv, TrailInv, BasesBetween
  <2> QED BY <2>1, BetweenBounds
<1> QED BY <1>1, InitBasis, NextBasis, Invariance, PTL DEF Spec

(* As long as every fill carried a price, the newest state of an order is  *)
(* never refused by update_fill: what was applied lies on the order's      *)
(* trail, and the rest of the trail was paid for.                          *)
THEOREM NewestReportsApply == Spec => []NewestReportApplies
<1>1. Inv /\ BasisInv => NewestReportApplies
  <2> SUFFICES ASSUME Inv, BasisInv, unpriced = {}, NEW id \in OrderIds,
                      Known(id), book[id].filled > applied[id].filled
               PROVE  Applicable(id, book[id])
    BY DEF NewestReportApplies
  <2> DEFINE o == book[id]
  <2>1. o \in Orders /\ Valid(o) /\ applied[id].filled \in Nat /\ o.filled \in Nat
    BY OrderFields DEF Inv, TypeOK, BookInv, BookValid, Known
  <2>2. /\ TrailInv /\ Priced(o)
        /\ applied[id] \in Trail(id) /\ Point(o) \in Trail(id)
    BY DEF BasisInv, TrailInv, AllPriced, Trail
  <2>3. o.filled > applied[id].filled
    OBVIOUS
  <2> HIDE DEF o
  <2>4. o.filled # 0 /\ Increment(id, o) \in Nat \ {0} /\ Increment(id, o) > 0
    BY <2>1, <2>3 DEF Increment
  <2>5. o.avg # NoPrice /\ ReportedPrice(o) # NoPrice /\ Money(o) = Notional(o)
    BY <2>2, <2>4 DEF Priced, ReportedPrice, Money, Notional
  <2>6. Between(Added(id, o), Increment(id, o))
    <3>1. Paid(applied[id], Point(o))
      BY <2>2 DEF TrailInv, OneTrail
    <3>2. Point(o).filled = o.filled /\ Point(o).notional = Notional(o)
      BY <2>5 DEF Point
    <3>3. applied[id].filled <= o.filled
      BY <2>1, <2>3
    <3> QED BY <3>1, <3>2, <3>3 DEF Paid, Added, Increment
  <2>7. Added(id, o) \in [num : Int, den : Nat \ {0}]
    <3>1. Notional(o) \in Averages /\ applied[id].notional \in Averages
      BY <2>1, <2>2, <2>5, PointType DEF Inv, TypeOK
    <3> QED BY <3>1, AverageArithmetic DEF Added
  <2>8. Added(id, o).num > 0
    <3> DEFINE k == Increment(id, o)
               d == Added(id, o).den
    <3>1. Lo \in Nat \ {0}
      BY PriceRange
    <3>2. k \in Nat \ {0} /\ d \in Nat \ {0}
      BY <2>4, <2>7
    <3>3. (Lo * k) * d <= Added(id, o).num
      BY <2>6 DEF Between, AtLeast
    <3> HIDE DEF k, d
    <3>4. (Lo * k) * d \in Nat \ {0}
      BY <3>1, <3>2, Products
    <3> QED BY <2>7, <3>3, <3>4
  <2> QED BY <2>1, <2>4, <2>5, <2>8 DEF Applicable, o
<1> QED BY <1>1, InitBasis, NextBasis, Invariance, PTL DEF Spec
=============================================================================
