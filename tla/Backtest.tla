------------------------------ MODULE Backtest ------------------------------
(***************************************************************************)
(* The two backtest engines (backtest/engines) on the same decisions.      *)
(* First a market runs: bars close, and a strategy dates a target on a bar *)
(* or between two.  Then the decisions travel as a target tape             *)
(* (backtest/conformance.py) and both engines replay them bar by bar over  *)
(* the recorded prices, the event-driven one with cash and shares, the     *)
(* vectorized one with weights, both through TransactionCostModel.         *)
(*                                                                         *)
(* A share position is modelled by its value at the bar's close, and a     *)
(* price by its relative to the bar before.                                *)
(***************************************************************************)
EXTENDS Fractions, FiniteSets, Sequences

CONSTANTS
    Symbols,
    NBars,        \* bound on the length of the price index
    MaxDecisions, \* bound on the rows of the weights frame
    Settings,     \* how the engines are constructed, below
    Relatives,    \* what the prices of all symbols may do over one bar
    TargetsOf(_), \* the target weights a strategy may state under a setting
    None

(* A setting: cost rates, the concession of the execution model, the money *)
(* the ADV cap lets a bar trade in each symbol, max_gross, which the       *)
(* engines refuse unless it is positive, and the return of cash per bar.   *)
ASSUME BacktestAssumption ==
    /\ IsFiniteSet(Symbols)
    /\ NBars \in Nat \ {0} /\ MaxDecisions \in Nat /\ None \notin 1..NBars
    /\ \A c \in Settings :
          /\ {c.buy, c.sell, c.slip, c.gross, c.yield} \subseteq Fractions /\ Zero \prec c.gross
          /\ c.capacity \in [Symbols -> Fractions] \cup {None}
          /\ TargetsOf(c) \subseteq [Symbols -> Fractions]
    /\ Relatives \subseteq [Symbols -> Fractions]

(* Cost rates are below 100%, a concession is one, a cap is a share of a   *)
(* volume, cash never returns -100%, and prices are positive.              *)
ASSUME RatesAssumption ==
    /\ \A c \in Settings :
          /\ \A rate \in {c.buy, c.sell} : Zero \preceq rate /\ rate \prec One
          /\ Zero \preceq c.slip /\ Negative(One) \prec c.yield
          /\ c.capacity # None => \A s \in Symbols : Zero \preceq c.capacity[s]
    /\ \A move \in Relatives : \A s \in Symbols : Zero \prec move[s]

VARIABLES
    setting,
    clock,     \* 2 * b at the close of bar b, odd between two bars
    moves,     \* the price relatives of the bars so far
    decisions, \* the weights frame: dated targets
    live,      \* history: for each bar, what a trader would have sent for it
    bar,       \* the bar the engines are at, 0 while the market runs
    event,     \* the event-driven engine
    vector     \* the vectorized engine

vars == <<setting, clock, moves, decisions, live, bar, event, vector>>

Bars == 1..NBars
Flat == [s \in Symbols |-> Zero]

-----------------------------------------------------------------------------
(* TransactionCostModel.apply_costs: the change of weights that is traded. *)

(* The ADV cap: no more than the capacity of each symbol.                  *)
Bounded(desired, cap) ==
    IF cap = None THEN desired
    ELSE [s \in Symbols |->
            IF desired[s] \prec Zero THEN Negative(Lesser(Negative(desired[s]), cap[s]))
            ELSE Lesser(desired[s], cap[s])]

(* The legs that reduce a position, none past zero.                        *)
Reducing(previous, traded) ==
    [s \in Symbols |->
        IF Zero \prec previous[s] /\ traded[s] \prec Zero
          THEN Greater(traded[s], Negative(previous[s]))
        ELSE IF previous[s] \prec Zero /\ Zero \prec traded[s]
          THEN Lesser(traded[s], Negative(previous[s]))
        ELSE Zero]

(* Mutant: each leg is capped on its own.                                  *)
TradedApart(previous, target, cap, limit) == Bounded(Difference(target, previous), cap)

(* Reductions first; what increases exposure is scaled to the limit.       *)
Allowed(reduced, reducing, increasing, limit) ==
    LET room == limit \ominus Gross(reduced)
    IN IF room \prec Zero THEN reducing
       ELSE IF Gross(Sum2(reduced, increasing)) \preceq limit THEN Sum2(reducing, increasing)
       ELSE Sum2(reducing, Scaled(increasing, room \oslash Gross(increasing)))

Traded(previous, target, cap, limit) ==
    LET bounded == Bounded(Difference(target, previous), cap)
        reducing == Reducing(previous, bounded)
    IN Allowed(Sum2(previous, reducing), reducing, Difference(bounded, reducing), limit)

Cost(traded) ==
    LET buys == [s \in Symbols |-> Greater(traded[s], Zero)]
        sells == [s \in Symbols |-> Greater(Negative(traded[s]), Zero)]
    IN (Total(buys) \otimes setting.buy) \oplus (Total(sells) \otimes setting.sell)

-----------------------------------------------------------------------------
(* The calendar.                                                           *)

(* Mutant: a decision on a bar executes at that bar's close.               *)
SnapSameClose(at) ==
    LET due == {b \in Bars : 2 * b >= at}
    IN IF due = {} THEN None ELSE CHOOSE b \in due : \A c \in due : b <= c

(* A decision executes on the first bar strictly after it, or never.       *)
Snap(at) ==
    LET due == {b \in Bars : 2 * b > at}
    IN IF due = {} THEN None ELSE CHOOSE b \in due : \A c \in due : b <= c

(* Of the decisions for one bar, the last.                                 *)
TargetAt(frame, b) ==
    LET due == {d \in frame : Snap(d.at) = b}
    IN IF due = {} THEN None
       ELSE (CHOOSE d \in due : \A e \in due : e.at <= d.at).target

(* enforce_exposure_contract.                                              *)
WithinContract(weights, limit) ==
    /\ \A s \in Symbols : Size(weights[s]) \preceq One
    /\ Gross(weights) \preceq limit

(* A tape has a row for every symbol of every decision, and no shorts.     *)
ToTape(frame) ==
    UNION {{[at |-> d.at, symbol |-> s, weight |-> d.target[s]] : s \in Symbols} : d \in frame}

ValidTape(rows) ==
    /\ rows # {}
    /\ \A row \in rows : Zero \preceq row.weight
    /\ \A at \in {row.at : row \in rows} :
          LET group == {row \in rows : row.at = at}
          IN /\ {row.symbol : row \in group} = Symbols
             /\ Cardinality(group) = Cardinality(Symbols)
             /\ Total([s \in Symbols |-> (CHOOSE row \in group : row.symbol = s).weight])
                   \preceq setting.gross

FromTape(rows) ==
    {[at |-> at, target |->
        [s \in Symbols |-> (CHOOSE row \in rows : row.at = at /\ row.symbol = s).weight]] :
     at \in {row.at : row \in rows}}
-----------------------------------------------------------------------------
Init ==
    /\ setting \in Settings
    /\ clock = 1
    /\ moves = << >>
    /\ decisions = {}
    /\ live = << >>
    /\ bar = 0
    /\ event = [state |-> "running", cash |-> One, held |-> Flat, equity |-> One]
    /\ vector = [state |-> "running", weights |-> Flat, equity |-> One]

(* The next bar closes.  It is the close a trader's order for a target     *)
(* dated before it would be filled at.                                     *)
CloseBar ==
    /\ bar = 0 /\ clock % 2 = 1 /\ Len(moves) < NBars
    /\ clock' = clock + 1
    /\ \E move \in Relatives :
          /\ Len(moves) = 0 => \A s \in Symbols : move[s] = One
          /\ moves' = Append(moves, move)
    /\ live' = Append(live,
         LET recent == {d \in decisions : d.at \in {clock - 1, clock}}
         IN IF recent = {} THEN None
            ELSE (CHOOSE d \in recent : \A e \in recent : e.at <= d.at).target)
    /\ UNCHANGED <<setting, decisions, bar, event, vector>>

(* Time passes between two closes.                                         *)
Wait ==
    /\ bar = 0 /\ clock % 2 = 0 /\ Len(moves) < NBars
    /\ clock' = clock + 1
    /\ UNCHANGED <<setting, moves, decisions, live, bar, event, vector>>

(* A strategy dates a target now, knowing every close so far.              *)
Decide ==
    /\ bar = 0 /\ Cardinality(decisions) < MaxDecisions
    /\ \A d \in decisions : d.at # clock
    /\ \E target \in TargetsOf(setting) :
          /\ WithinContract(target, setting.gross)
          /\ decisions' = decisions \cup {[at |-> clock, target |-> target]}
    /\ UNCHANGED <<setting, clock, moves, live, bar, event, vector>>

(* The frame is handed over, as a tape when it is a valid one.             *)
Submit ==
    /\ bar = 0 /\ Len(moves) = NBars
    /\ LET rows == ToTape(decisions)
       IN decisions' = IF ValidTape(rows) THEN FromTape(rows) ELSE decisions
    /\ bar' = 1
    /\ UNCHANGED <<setting, clock, moves, live, event, vector>>

-----------------------------------------------------------------------------
(* EventDrivenBacktest.                                                    *)

(* Mutant: the target is a share of the equity before costs.               *)
PostCostBefore(previous, target) == One

(* _cost_aware_rebalance: the q with q = 1 - cost of trading to target * q. *)
(* The iteration of the code converges to it; here the symbols bought are  *)
(* those for which the linear equation they make agrees.                   *)
PostCost(previous, target) ==
    LET Over(f, S) == Total([s \in S |-> f[s]])
        Left(f, bought) == One \oplus (setting.buy \otimes Over(f, bought))
                               \ominus (setting.sell \otimes Over(f, Symbols \ bought))
        Consistent(bought, q) ==
          /\ Zero \prec Left(target, bought) /\ Zero \prec q
          /\ \A s \in Symbols :
                IF s \in bought THEN previous[s] \preceq (target[s] \otimes q)
                ELSE (target[s] \otimes q) \prec previous[s]
        Solution(bought) == Left(previous, bought) \oslash Left(target, bought)
        consistent == {S \in SUBSET Symbols : Consistent(S, Solution(S))}
    IN IF consistent = {} THEN Zero ELSE Solution(CHOOSE S \in consistent : TRUE)

Failed(engine, reason) == [engine EXCEPT !.state = reason]

(* Financing is not modelled, so a long-only unlevered book must pay.      *)
Refuses(held, cash) ==
    /\ setting.gross \preceq One
    /\ \A s \in Symbols : Zero \preceq held[s]
    /\ cash \prec Zero

Settled(engine, held, cash, afterCosts) ==
    IF Refuses(held, cash) THEN Failed(engine, "financing")
    ELSE IF setting.slip = Zero /\ cash \oplus Total(held) # afterCosts
      THEN Failed(engine, "unreconciled")
    ELSE [engine EXCEPT !.cash = cash, !.held = held]

(* Pay for what was traded; each leg fills a concession away.              *)
Paid(engine, nav, q, traded) ==
    LET paid == Total(traded) \oplus (Gross(traded) \otimes setting.slip) \oplus Cost(traded)
    IN Settled(engine, Sum2(engine.held, Scaled(traded, nav)),
               engine.cash \ominus (nav \otimes paid), nav \otimes q)

(* Trade to a target, as a share of the equity after costs.                *)
TradedTo(engine, nav, previous, target, q) ==
    IF q \preceq Zero THEN Failed(engine, "exhausted")
    ELSE Paid(engine, nav, q,
              Traded(previous, Scaled(target, q), None, setting.gross \otimes q))

Rebalanced(engine, nav, target) ==
    LET previous == Scaled(engine.held, One \oslash nav)
    IN TradedTo(engine, nav, previous, target, PostCost(previous, target))

(* The mark at the close; weights that drifted are checked like any other. *)
Marked(engine) ==
    LET nav == engine.cash \oplus Total(engine.held)
    IN IF engine.state # "running" THEN engine
       ELSE IF nav \preceq Zero THEN Failed(engine, "exhausted")
       ELSE IF \E s \in Symbols : nav \prec Size(engine.held[s])
         THEN Failed(engine, "out of bounds")
       ELSE [engine EXCEPT !.equity = nav]

(* The return of cash into a bar; a series that misses one is refused.     *)
CashReturn == setting.yield

Accrued(engine, move) ==
    [engine EXCEPT
        !.cash = @ \otimes (One \oplus CashReturn),
        !.held = [s \in Symbols |-> @[s] \otimes move[s]]]

AtClose(engine, target) ==
    LET nav == engine.cash \oplus Total(engine.held)
    IN IF nav \preceq Zero THEN Failed(engine, "exhausted")
       ELSE Marked(IF target = None THEN engine ELSE Rebalanced(engine, nav, target))

(* One bar: accrue and revalue, rebalance if due, mark.                    *)
EventBar(engine, move, target) == AtClose(Accrued(engine, move), target)

-----------------------------------------------------------------------------
(* VectorizedBacktest.                                                     *)

(* The return of a bar on weights held over it.                            *)
Segment(weights, move) ==
    Dot(weights, [s \in Symbols |-> move[s] \ominus One])
    \oplus (CashReturn \otimes (One \ominus Total(weights)))

(* Mutant: the weights executed at a bar earn the return into it.          *)
VectorBarEarly(engine, move, target) ==
    LET weights == IF target = None THEN engine.weights ELSE target
        traded == Difference(weights, engine.weights)
        equity == engine.equity \otimes (One \oplus Segment(weights, move))
                                \otimes (One \ominus Cost(traded))
    IN IF equity \preceq Zero THEN Failed(engine, "exhausted")
       ELSE [engine EXCEPT !.weights = weights, !.equity = equity]

(* The targets executed against the equity at the close.                   *)
Executed(engine, nav, traded) ==
    LET equity == nav \otimes (One \ominus Cost(traded))
    IN IF equity \preceq Zero THEN Failed(engine, "exhausted")
       ELSE [engine EXCEPT !.weights = Sum2(@, traded), !.equity = equity]

(* One bar: earn on the weights executed before it, then rebalance if due. *)
VectorBar(engine, move, target) ==
    LET nav == engine.equity \otimes (One \oplus Segment(engine.weights, move))
    IN IF nav \preceq Zero THEN Failed(engine, "exhausted")
       ELSE IF target = None THEN [engine EXCEPT !.equity = nav]
       ELSE Executed(engine, nav,
               Traded(engine.weights, target,
                      IF setting.capacity = None THEN None
                      ELSE Scaled(setting.capacity, One \oslash nav),
                      setting.gross))

-----------------------------------------------------------------------------
(* Each engine replays the next bar, unless it has raised.                 *)
Replay ==
    /\ bar \in Bars
    /\ LET target == TargetAt(decisions, bar)
       IN /\ event' = IF event.state = "running"
                        THEN EventBar(event, moves[bar], target) ELSE event
          /\ vector' = IF vector.state = "running"
                        THEN VectorBar(vector, moves[bar], target) ELSE vector
    /\ bar' = bar + 1
    /\ UNCHANGED <<setting, clock, moves, decisions, live>>

Next == CloseBar \/ Wait \/ Decide \/ Submit \/ Replay

Spec == Init /\ [][Next]_vars

-----------------------------------------------------------------------------
(* Replaying a whole frame over a whole price history executes, bar for    *)
(* bar, what a trader knowing only the past would have sent: the last      *)
(* target dated before the bar's close, whether dated on a bar or between  *)
(* bars, replaced by a later one or too late to execute, and whether or    *)
(* not it travelled as a target tape.                                      *)
ReplaysLive == bar > 0 => \A b \in Bars : TargetAt(decisions, b) = live[b]

LongOnly ==
    /\ setting.gross \preceq One
    /\ \A d \in decisions : \A s \in Symbols : Zero \preceq d.target[s]

(* Costs, drift and the return of cash never make a long-only unlevered    *)
(* book borrow: its cash stays non-negative, and the engine gives up only  *)
(* on fills worse than the close it sizes at.                              *)
LongOnlyIsFunded ==
    LongOnly =>
        /\ Zero \preceq event.cash
        /\ event.state = "running" \/ (event.state = "financing" /\ setting.slip # Zero)
        /\ vector.state = "running"

(* What was executed keeps to max_gross, although the ADV cap executes     *)
(* part of each leg and costs shrink the equity that weights are shares    *)
(* of: in the vectorized engine always, in the event-driven one at every   *)
(* rebalance filled at the close.                                          *)
GrossWithinLimit ==
    /\ Gross(vector.weights) \preceq setting.gross
    /\ bar > 1 /\ event.state = "running" /\ live[bar - 1] # None /\ setting.slip = Zero =>
          Gross(event.held) \preceq (setting.gross \otimes event.equity)

(* Without costs, caps and concessions the engines have the same equity at *)
(* every bar as long as every bar since the first trade was rebalanced, so *)
(* that there is no drift between rebalances for them to differ on.        *)
EnginesAgree ==
    /\ {setting.buy, setting.sell, setting.slip} = {Zero} /\ setting.capacity = None
    /\ \A b, c \in 1..(bar - 2) : b < c /\ live[b] # None => live[c] # None
    /\ event.state = "running" /\ vector.state = "running"
    => event.equity = vector.equity

(* "naturally handles position drift between rebalances"                   *)
(* (event_driven.py:12): a run does not stop because prices moved what it  *)
(* holds, short of exhausting its equity.                                  *)
DriftIsMarked == event.state # "out of bounds"
=============================================================================
