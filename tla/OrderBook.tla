------------------------------ MODULE OrderBook ------------------------------
(***************************************************************************)
(* OrderManager (execution/order_manager.py), which owns the lifecycle of  *)
(* every order, and PositionManager (execution/position_manager.py), which *)
(* turns cumulative fill reports into positions.  The two are joined by    *)
(* reports: an order as it was after some fill, delivered to update_fill   *)
(* late, repeatedly, out of order or never.                                *)
(*                                                                         *)
(* Quantities are whole ticks; Tolerance is the 1e-9 of the code in ticks. *)
(* Prices are exact: averages are fractions in lowest terms.               *)
(***************************************************************************)
EXTENDS Integers, FiniteSets, FiniteSetsExt

CONSTANTS
    OrderIds,
    Symbols,
    Quantities, \* order quantities
    Prices,     \* prices fills and limits may carry
    Tolerance,  \* how far a fill may miss the order quantity
    NoOrder,    \* an id not in the book
    NoPrice     \* avg_fill_price or limit_price is None

VARIABLES
    book,     \* OrderManager._orders
    reports,  \* orders as they were after a fill, still to be delivered
    position, \* PositionManager._positions, quantity 0 for a flat symbol
    applied,  \* PositionManager._applied_fills
    unpriced  \* history: orders some fill of which carried no price

vars == <<book, reports, position, applied, unpriced>>

-----------------------------------------------------------------------------
(* Fractions.                                                              *)

Reduced(n, d) ==
    LET common == {g \in 1..d : n % g = 0 /\ d % g = 0}
    IN [num |-> n \div Max(common), den |-> d \div Max(common)]

Whole(n) == [num |-> n, den |-> 1]
Plus(a, b) == Reduced(a.num * b.den + b.num * a.den, a.den * b.den)
Minus(a, b) == Reduced(a.num * b.den - b.num * a.den, a.den * b.den)
Times(a, k) == Reduced(a.num * k, a.den)
Over(a, k) == Reduced(a.num, a.den * k)
AtMost(a, b) == a.num * b.den <= b.num * a.den

-----------------------------------------------------------------------------
(* Orders.                                                                 *)

Statuses ==
    {"NEW", "SUBMITTED", "PARTIALLY_FILLED", "FILLED", "CANCELLED", "REJECTED"}

Averages == [num : Nat, den : Nat \ {0}]

Orders ==
    [symbol : Symbols, side : {"BUY", "SELL"}, quantity : Quantities,
     limit : Prices \cup {NoPrice}, status : Statuses, filled : Nat,
     avg : Averages \cup {NoPrice}]

ASSUME OrderBookAssumption ==
    /\ Quantities \subseteq Nat \ {0}
    /\ Prices \subseteq Nat \ {0} /\ Prices # {} /\ IsFiniteSet(Prices)
    /\ IsFiniteSet(OrderIds)
    /\ Tolerance \in Nat
    /\ NoOrder \notin Orders /\ NoPrice \notin Averages

(* _VALID_TRANSITIONS.                                                     *)
ValidTransitions(s) ==
    CASE s = "NEW" -> {"SUBMITTED", "CANCELLED", "REJECTED"}
      [] s = "SUBMITTED" -> {"PARTIALLY_FILLED", "FILLED", "CANCELLED", "REJECTED"}
      [] s = "PARTIALLY_FILLED" -> {"PARTIALLY_FILLED", "FILLED", "CANCELLED"}
      [] OTHER -> {}

(* The part of Order.validate that concerns fills.                         *)
Valid(o) ==
    /\ o.filled >= 0
    /\ o.filled <= o.quantity + Tolerance
    /\ o.status = "FILLED" =>
          /\ o.filled - o.quantity <= Tolerance
          /\ o.quantity - o.filled <= Tolerance
    /\ o.status = "PARTIALLY_FILLED" =>
          0 < o.filled /\ o.filled < o.quantity - Tolerance

Remaining(o) == IF o.filled < o.quantity THEN o.quantity - o.filled ELSE 0

Order(symbol, side, quantity, limit, status, filled, avg) ==
    [symbol |-> symbol, side |-> side, quantity |-> quantity, limit |-> limit,
     status |-> status, filled |-> filled, avg |-> avg]

(* update_fill sees the order after any fill, whenever it is delivered.    *)
Report(id) == reports' = reports \cup {<<id, book'[id]>>}

Known(id) == book[id] # NoOrder

-----------------------------------------------------------------------------
Init ==
    /\ book = [id \in OrderIds |-> NoOrder]
    /\ reports = {}
    /\ position = [s \in Symbols |-> [quantity |-> 0, avg |-> NoPrice]]
    /\ applied = [id \in OrderIds |-> [filled |-> 0, notional |-> Whole(0)]]
    /\ unpriced = {}

(* create_order: a NEW order under an unused id.                           *)
Create(id) ==
    /\ ~ Known(id)
    /\ \E s \in Symbols, side \in {"BUY", "SELL"}, q \in Quantities,
          limit \in Prices \cup {NoPrice} :
          book' = [book EXCEPT ![id] = Order(s, side, q, limit, "NEW", 0, NoPrice)]
    /\ UNCHANGED <<reports, position, applied, unpriced>>

(* register: an order some broker adapter returned, in any valid state, with *)
(* the average price of what is filled; a venue fills no more than ordered. *)
Register(id) ==
    /\ ~ Known(id)
    /\ \E s \in Symbols, side \in {"BUY", "SELL"}, q \in Quantities,
          status \in Statuses \ {"NEW"}, price \in Prices :
          \E filled \in 0..q :
             LET o == Order(s, side, q, NoPrice, status, filled,
                            IF filled = 0 THEN NoPrice ELSE Whole(price))
             IN /\ Valid(o)
                /\ book' = [book EXCEPT ![id] = o]
    /\ Report(id)
    /\ UNCHANGED <<position, applied, unpriced>>

(* _transition raises unless the new status is a legal successor.          *)
Transition(id, status) ==
    /\ Known(id)
    /\ status \in ValidTransitions(book[id].status)

(* submit, cancel and reject.                                              *)
Move(id, status) ==
    /\ Transition(id, status)
    /\ book' = [book EXCEPT ![id].status = status]
    /\ UNCHANGED <<reports, position, applied, unpriced>>

Submit(id) == Move(id, "SUBMITTED")
Cancel(id) == Move(id, "CANCELLED")
Reject(id) == Move(id, "REJECTED")

(* Mutant: the average is the price of the last fill.                      *)
NewAverageLast(o, n, p) == IF p = NoPrice THEN o.avg ELSE Whole(p)

(* The volume-weighted average after a fill of n at price p.               *)
NewAverage(o, n, p) ==
    IF p = NoPrice THEN o.avg
    ELSE LET prior == IF o.avg = NoPrice THEN Whole(0) ELSE Times(o.avg, o.filled)
         IN Over(Plus(prior, Whole(p * n)), o.filled + n)

(* Mutant: the tolerance is forgotten.                                     *)
FillStatusExact(o, n) ==
    IF Remaining(o) - n <= 0 THEN "FILLED" ELSE "PARTIALLY_FILLED"

FillStatus(o, n) ==
    IF Remaining(o) - n <= Tolerance THEN "FILLED" ELSE "PARTIALLY_FILLED"

(* fill: an increment, by default all that remains, with or without a price. *)
Fill(id) ==
    /\ Known(id)
    /\ LET o == book[id]
       IN \E n \in 1..(Remaining(o) + Tolerance), p \in Prices \cup {NoPrice} :
             /\ Transition(id, FillStatus(o, n))
             /\ book' = [book EXCEPT ![id] =
                   [o EXCEPT !.filled = o.filled + n,
                             !.avg = NewAverage(o, n, p),
                             !.status = FillStatus(o, n)]]
             /\ unpriced' = IF p = NoPrice THEN unpriced \cup {id} ELSE unpriced
    /\ Report(id)
    /\ UNCHANGED <<position, applied>>

-----------------------------------------------------------------------------
(* Positions.                                                              *)

(* PositionManager.update: blend when exposure opens or grows, restart the *)
(* basis when the sign flips, keep it when exposure shrinks, forget it     *)
(* when it closes.                                                         *)
Updated(pos, delta, price) ==
    LET quantity == pos.quantity + delta
        grows == pos.quantity = 0 \/ (pos.quantity > 0) = (delta > 0)
        flips == (pos.quantity > 0) # (quantity > 0)
        abs(n) == IF n < 0 THEN -n ELSE n
        blend == IF pos.quantity = 0 THEN price
                 ELSE Over(Plus(Times(pos.avg, abs(pos.quantity)),
                                Times(price, abs(delta))), abs(quantity))
    IN [quantity |-> quantity,
        avg |-> IF quantity = 0 THEN NoPrice
                ELSE IF grows THEN blend
                ELSE IF flips THEN price
                ELSE pos.avg]

ReportedPrice(o) ==
    IF o.avg # NoPrice THEN o.avg
    ELSE IF o.limit # NoPrice THEN Whole(o.limit) ELSE NoPrice

Notional(o) == Times(ReportedPrice(o), o.filled)

(* What a report adds to what was applied of its order, in quantity and in *)
(* money.                                                                  *)
Increment(id, o) == o.filled - applied[id].filled
Added(id, o) == Minus(Notional(o), applied[id].notional)

(* Mutant: the money is not required to grow.                              *)
ApplicableAnyMoney(id, o) ==
    /\ Valid(o)
    /\ Increment(id, o) > 0
    /\ ReportedPrice(o) # NoPrice

(* A stale report, one without a price and one whose notional does not     *)
(* grow raise or return, and change nothing.                               *)
Applicable(id, o) ==
    /\ Valid(o)
    /\ Increment(id, o) > 0
    /\ ReportedPrice(o) # NoPrice
    /\ Added(id, o).num > 0

(* Mutant: the money is spread over everything filled so far.              *)
BookOverAll(id, o) ==
    position' = [position EXCEPT ![o.symbol] =
        Updated(@, IF o.side = "BUY" THEN Increment(id, o) ELSE -Increment(id, o),
                Over(Added(id, o), o.filled))]

(* Mutant: a report is booked as if it were an increment.                  *)
BookWholeReport(id, o) ==
    position' = [position EXCEPT ![o.symbol] =
        Updated(@, IF o.side = "BUY" THEN o.filled ELSE -o.filled,
                Over(Added(id, o), Increment(id, o)))]

(* The new quantity and money are booked at their own average price.       *)
Book(id, o) ==
    position' = [position EXCEPT ![o.symbol] =
        Updated(@, IF o.side = "BUY" THEN Increment(id, o) ELSE -Increment(id, o),
                Over(Added(id, o), Increment(id, o)))]

(* Mutant: reports are added up, as if each were an increment.             *)
UpdateFillAdding(id, o) ==
    /\ Valid(o)
    /\ o.filled > 0
    /\ ReportedPrice(o) # NoPrice
    /\ position' = [position EXCEPT ![o.symbol] =
          Updated(@, IF o.side = "BUY" THEN o.filled ELSE -o.filled, ReportedPrice(o))]
    /\ applied' = [applied EXCEPT ![id].filled = @ + o.filled]
    /\ UNCHANGED <<book, reports, unpriced>>

(* update_fill, on whichever report arrives.                               *)
UpdateFill(id, o) ==
    /\ Applicable(id, o)
    /\ Book(id, o)
    /\ applied' = [applied EXCEPT ![id] = [filled |-> o.filled,
                                           notional |-> Notional(o)]]
    /\ UNCHANGED <<book, reports, unpriced>>

Next ==
    \/ \E id \in OrderIds :
          \/ Create(id) \/ Register(id)
          \/ Submit(id) \/ Fill(id) \/ Cancel(id) \/ Reject(id)
    \/ \E r \in reports : UpdateFill(r[1], r[2])

Spec == Init /\ [][Next]_vars

-----------------------------------------------------------------------------
(* Every variable has its type.                                            *)
TypeOK ==
    /\ book \in [OrderIds -> Orders \cup {NoOrder}]
    /\ reports \subseteq OrderIds \X Orders
    /\ position \in [Symbols -> [quantity : Int, avg : Averages \cup {NoPrice}]]
    /\ applied \in [OrderIds -> [filled : Nat, notional : Averages]]
    /\ unpriced \subseteq OrderIds

(* Every order in the book would pass Order.validate again: no sequence of *)
(* fills, within the tolerance of each check, leaves an order overfilled,  *)
(* FILLED short of its quantity or PARTIALLY_FILLED at either end.         *)
BookValid == \A id \in OrderIds : Known(id) => Valid(book[id])

Side(o) == IF o.side = "BUY" THEN 1 ELSE -1

(* Duplicated, late and reordered reports are applied exactly once: the    *)
(* position in a symbol is what its orders have reported filled.           *)
PositionIsFills ==
    \A s \in Symbols :
        position[s].quantity =
            MapThenSumSet(LAMBDA id : IF Known(id) /\ book[id].symbol = s
                                        THEN Side(book[id]) * applied[id].filled
                                        ELSE 0, OrderIds)

(* A report delivered again, or after a newer one, never adds up to more   *)
(* than the order has filled.                                              *)
NothingAppliedTwice ==
    \A id \in OrderIds :
        applied[id].filled <= (IF Known(id) THEN book[id].filled ELSE 0)

(* No report gets stuck: whatever was applied before, the newest state of  *)
(* an order is one update_fill accepts, unless nothing in it is new, as    *)
(* long as every fill carried a price.  (Without, a report priced at the   *)
(* limit may be worth more than all the fills together, and the order's    *)
(* further reports are refused.)                                           *)
NewestReportApplies ==
    unpriced = {} =>
        \A id \in OrderIds :
            Known(id) /\ book[id].filled > applied[id].filled
                => Applicable(id, book[id])

PriceBounds(a) == AtMost(Whole(Min(Prices)), a) /\ AtMost(a, Whole(Max(Prices)))

(* A cost basis is an average of prices that were paid, also after partial *)
(* reports were merged, skipped or delivered late, as long as every fill   *)
(* carried a price.                                                        *)
BasisWithinPrices ==
    unpriced = {} =>
        \A s \in Symbols :
            position[s].quantity # 0 => PriceBounds(position[s].avg)

(* "Volume-weighted average fill price across partial fills"               *)
(* (order_manager.py:357): an average fill price, once there is one, lies  *)
(* between the prices of the fills.                                        *)
AverageWithinPrices ==
    \A id \in OrderIds :
        Known(id) /\ book[id].avg # NoPrice => PriceBounds(book[id].avg)
=============================================================================
