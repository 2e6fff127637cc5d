------------------------------ MODULE Rebalance ------------------------------
(***************************************************************************)
(* Sizing and the pre-trade gate over the life of an account.  Each cycle  *)
(* turns target weights into whole-share orders                            *)
(* (PositionManager.target_weights_to_orders), lets PreTradeRiskCheck judge *)
(* them, and sends the sells, or without sells the buys; the venue fills    *)
(* them share by share or cancels them; the next cycle starts from what    *)
(* the account then holds.  Two prices differ: orders are sized and judged *)
(* at the last finalized close, while the broker values the account, and   *)
(* fills, at the market's price, which moves at any time.  Module           *)
(* PaperCycle has the same cycles without the arithmetic: its Target is    *)
(* TargetShares here.                                                      *)
(*                                                                         *)
(* Weights are fractions with the denominator Unit, and prices, cash and   *)
(* equity are whole: comparisons are exact, without the code's 1e-9 slack. *)
(***************************************************************************)
EXTENDS Integers, FiniteSets, FiniteSetsExt

CONSTANTS
    Symbols,           \* the universe, also allowed_symbols
    Prices,            \* prices a symbol may have
    Unit,              \* weight 1.0
    Mode,              \* "long_only" or "market_neutral"
    Targets,           \* target weight vectors the strategy may return
    MaxPositionWeight, \* caps of the gate, in the same unit
    MaxGross,
    MaxOrderNotional,  \* per order and per batch, or NoCap
    MaxNotional,
    NoCap,
    MinTradeNotional,  \* smaller trades are skipped
    InitialCash,
    MaxEquity,         \* bound on what the account may come to be worth
    MaxMoves,          \* bound on market moves and new closes
    MaxCancels         \* bound on cancelled orders

ASSUME RebalanceAssumption ==
    /\ IsFiniteSet(Symbols)
    /\ Prices \subseteq Nat \ {0}
    /\ Unit \in Nat \ {0}
    /\ Mode \in {"long_only", "market_neutral"}
    /\ Targets \subseteq [Symbols -> Int]
    /\ MaxPositionWeight \in 0..Unit
    /\ MaxGross \in Nat
    /\ MaxOrderNotional \in Nat \cup {NoCap}
    /\ MaxNotional \in Nat \cup {NoCap}
    /\ MinTradeNotional \in Nat
    /\ InitialCash \in Nat \ {0}
    /\ MaxEquity \in Nat /\ MaxMoves \in Nat /\ MaxCancels \in Nat

VARIABLES
    price,    \* the market's price of each symbol
    close,    \* last finalized close of each symbol
    target,   \* target weights the strategy decided on the closes
    cash,
    shares,   \* positions
    open,     \* orders at the venue
    sizedAt,  \* history: the closes the latest orders were sized on
    sizedFor, \* history: the equity they were sized for
    slippage, \* history: debt then, and what prices took since
    moves,    \* history: market moves and new closes
    cancels   \* history: cancelled orders

sizing == <<sizedAt, sizedFor>>

vars == <<price, close, target, cash, shares, open, sizing, slippage, moves, cancels>>

-----------------------------------------------------------------------------
Abs(n) == IF n < 0 THEN -n ELSE n
SumOf(f) == MapThenSumSet(LAMBDA s : f[s], DOMAIN f)

(* Account equity, as the broker values it.                                *)
Equity == cash + SumOf([s \in Symbols |-> shares[s] * price[s]])

(* Mutant: nearest share.                                                  *)
NearestShares(s, capital) ==
    LET whole == (2 * Abs(target[s]) * capital + Unit * close[s])
                     \div (2 * Unit * close[s])
    IN IF target[s] < 0 THEN -whole ELSE whole

(* math.trunc(weight * capital / price).                                   *)
TargetShares(s, capital) ==
    LET whole == (Abs(target[s]) * capital) \div (Unit * close[s])
    IN IF target[s] < 0 THEN -whole ELSE whole

Order(s, delta) ==
    [symbol |-> s, side |-> IF delta > 0 THEN "BUY" ELSE "SELL",
     quantity |-> Abs(delta)]

(* target_weights_to_orders: one order for each symbol targeted or held    *)
(* whose trade is not dust.                                                *)
SizedOrders(capital) ==
    LET delta(s) == TargetShares(s, capital) - shares[s]
    IN {Order(s, delta(s)) : s \in
           {s \in Symbols : delta(s) # 0
                            /\ Abs(delta(s)) * close[s] >= MinTradeNotional}}

-----------------------------------------------------------------------------
(* PreTradeRiskCheck.  A book is given as its weights in parts of a base.  *)

CheckWeights(weight, base) ==
    /\ \A s \in DOMAIN weight :
          /\ Abs(weight[s]) <= base
          /\ Abs(weight[s]) * Unit <= MaxPositionWeight * base
    /\ IF Mode = "long_only"
         THEN \A s \in DOMAIN weight : weight[s] >= 0
         ELSE SumOf(weight) = 0
    /\ SumOf([s \in DOMAIN weight |-> Abs(weight[s])]) * Unit <= MaxGross * base

Notional(o) == o.quantity * close[o.symbol]

CheckOrders(orders) ==
    /\ \A o \in orders :
          /\ o.symbol \in Symbols
          /\ MaxOrderNotional # NoCap => Notional(o) <= MaxOrderNotional
    /\ MaxNotional # NoCap => MapThenSumSet(Notional, orders) <= MaxNotional

Signed(o) == IF o.side = "BUY" THEN o.quantity ELSE -o.quantity

PostTrade(orders) ==
    [s \in Symbols |-> shares[s] +
        MapThenSumSet(LAMBDA o : IF o.symbol = s THEN Signed(o) ELSE 0, orders)]

(* check_post_trade_positions: the book all orders together would give.    *)
CheckPostTrade(orders, capital) ==
    LET after == PostTrade(orders)
    IN CheckWeights([s \in {s \in Symbols : after[s] # 0} |-> after[s] * close[s]],
                    capital)

(* Mutant: only the orders are judged, not the books before and after.     *)
AssertSafeOrders(orders, capital) == CheckOrders(orders)

(* assert_safe, as run_paper calls it.                                     *)
AssertSafe(orders, capital) ==
    /\ CheckWeights(target, Unit)
    /\ CheckOrders(orders)
    /\ CheckPostTrade(orders, capital)

(* Mutant: sells and buys together.                                        *)
PhaseOfEverything(orders) == orders

(* Mutant: the buys wait for a cycle without sells that never sends them.   *)
PhaseOfSells(orders) == {o \in orders : o.side = "SELL"}

(* run_paper sends sells, if there are any, and else buys.                 *)
Phase(orders) ==
    LET sells == {o \in orders : o.side = "SELL"}
    IN IF sells # {} THEN sells ELSE orders

-----------------------------------------------------------------------------
Init ==
    /\ price \in [Symbols -> Prices]
    /\ close = price
    /\ target \in Targets
    /\ cash = InitialCash
    /\ shares = [s \in Symbols |-> 0]
    /\ open = {}
    /\ sizedAt = close
    /\ sizedFor = InitialCash
    /\ slippage = 0
    /\ moves = 0
    /\ cancels = 0

(* What the account is worth more to the broker than at the closes.        *)
Gap == Equity - (cash + SumOf([s \in Symbols |-> shares[s] * close[s]]))

Excess(n) == IF n > 0 THEN n ELSE 0

(* A submitting cycle: refused while orders are open, failed without       *)
(* equity, rejected by the gate, or else its phase is at the venue.        *)
Cycle ==
    /\ open = {}
    /\ Equity > 0
    /\ \E capital \in {Equity} : \E orders \in {SizedOrders(capital)} :
          /\ orders # {}
          /\ AssertSafe(orders, capital)
          /\ open' = Phase(orders)
          /\ sizedAt' = close
          /\ sizedFor' = capital
          /\ slippage' = Excess(-cash) + Excess(Gap)
    /\ UNCHANGED <<price, close, target, cash, shares, moves, cancels>>

(* The venue fills part of an order, at the market's price.                *)
Fill ==
    /\ \E o \in open : \E n \in 1..o.quantity :
          LET signed == IF o.side = "BUY" THEN n ELSE -n
          IN /\ shares' = [shares EXCEPT ![o.symbol] = @ + signed]
             /\ cash' = cash - signed * price[o.symbol]
             /\ slippage' = slippage
                    + Excess(signed * (price[o.symbol] - sizedAt[o.symbol]))
             /\ open' = (open \ {o}) \cup
                    (IF n = o.quantity THEN {} ELSE {[o EXCEPT !.quantity = @ - n]})
    /\ UNCHANGED <<price, close, target, sizing, moves, cancels>>

(* The venue cancels what is left of an order.                             *)
Cancel ==
    /\ cancels < MaxCancels
    /\ \E o \in open : open' = open \ {o}
    /\ cancels' = cancels + 1
    /\ UNCHANGED <<price, close, target, cash, shares, sizing, slippage, moves>>

(* Prices move, orders at the venue or not.                                *)
MarketMoves ==
    /\ moves < MaxMoves
    /\ price' \in [Symbols -> Prices]
    /\ moves' = moves + 1
    /\ UNCHANGED <<close, target, cash, shares, open, sizing, slippage, cancels>>
    /\ Equity' <= MaxEquity

(* The session's close is final, and the strategy decides on it.           *)
MarketCloses ==
    /\ moves < MaxMoves
    /\ close' = price
    /\ target' \in Targets
    /\ moves' = moves + 1
    /\ UNCHANGED <<price, cash, shares, open, sizing, slippage, cancels>>

Next == Cycle \/ Fill \/ Cancel \/ MarketMoves \/ MarketCloses

Spec == Init /\ [][Next]_vars

(* The operator keeps running the cycle, on later days if need be (within a *)
(* day the client ids of PaperCycle keep an order that was cancelled from  *)
(* being sent again), and the venue keeps filling.                         *)
FairSpec == Spec /\ WF_vars(Cycle) /\ WF_vars(Fill)

-----------------------------------------------------------------------------
(* A long-only account never goes short, and comes to owe only what prices *)
(* took: whatever part of whichever orders was filled, at whatever prices, *)
(* before the rest was cancelled, its debt is no more than it was when the *)
(* orders were sized, plus what the broker's valuation then exceeded the   *)
(* closes by, plus what the fills cost above the closes.  The buys are     *)
(* sized, and sent, only when the sells are in the account.                *)
NoLeverage ==
    Mode = "long_only" => cash + slippage >= 0 /\ \A s \in Symbols : shares[s] >= 0

(* The gate lets pass what sizing makes of a target it would let pass: a   *)
(* cycle is never stuck between a book it must leave and orders it may not *)
(* send, however far prices moved away from the last target, and the       *)
(* market's from the closes.  With a share cheaper than the smallest trade *)
(* it may be: the excess over a cap can be too small to sell.  And a       *)
(* market-neutral book is seldom neutral in whole shares.                  *)
GateAcceptsSizing ==
    /\ Mode = "long_only"
    /\ open = {} /\ Equity > 0
    /\ CheckWeights(target, Unit)
    /\ \A s \in Symbols : close[s] >= MinTradeNotional
    => AssertSafe(SizedOrders(Equity), Equity)

(* Worth of a position at the closes the latest orders were sized on.      *)
Value(s) == Abs(shares[s] * sizedAt[s])
Invested == SumOf([s \in Symbols |-> Value(s)])

(* No fill takes a position, or the whole book, above its cap, nor further *)
(* above it if prices had taken it there, at the closes and the equity its *)
(* order was sized with.  (At the price it fills at it may well be above:  *)
(* nothing in the code bounds the price of a market order.)                *)
FillsRespectCaps ==
    [][shares' # shares =>
          /\ \A s \in Symbols :
                \/ Value(s)' <= Value(s)
                \/ Value(s)' * Unit <= MaxPositionWeight * sizedFor
          /\ \/ Invested' <= Invested
             \/ Invested' * Unit <= MaxGross * sizedFor]_vars

(* Once the market rests and the venue stops cancelling, cycle after cycle *)
(* reaches an acceptable target and stays there, unless the account is     *)
(* worth nothing any more: no orders chase rounding, nor the difference    *)
(* between the closes and the market's prices.                             *)
Converges ==
    <>[](CheckWeights(target, Unit) /\ Equity > 0
            => open = {} /\ SizedOrders(Equity) = {})
=============================================================================
