------------------------------ MODULE Studies --------------------------------
(***************************************************************************)
(* The experiments (scripts/run_expansion_experiments.py,                  *)
(* scripts/run_paper_experiments.py): the targets of a strategy, replayed  *)
(* by the engines of Backtest under variants of the protocol, compared     *)
(* with benchmarks, decomposed and resampled.  P is a panel of closes, c   *)
(* holds the parameters: cost rate, return of cash, first session          *)
(* evaluated.                                                              *)
(***************************************************************************)
EXTENDS Expansion

CONSTANT MaxSessions

NoTargets(setting) == {}

(* The engines, over some assets.                                          *)
Book(assets, setting) == INSTANCE Backtest WITH
    Symbols <- assets,
    NBars <- MaxSessions, MaxDecisions <- 0, Settings <- {}, Relatives <- {},
    TargetsOf <- NoTargets, None <- Raised, clock <- 0, moves <- <<>>, decisions <- {},
    live <- <<>>, bar <- 0, event <- 0, vector <- 0

Setting(rate, yield) ==
    [buy |-> rate, sell |-> rate, slip |-> Zero, gross |-> One, yield |-> yield,
     capacity |-> Raised]

(* The frozen portfolio under study.                                       *)
Targets(P, n, c) == Portfolios(P, n, c)[c.portfolio]

(* _strategy_targets: monthly decisions that have their history, at their  *)
(* closes; they travel as a tape.                                          *)
StrategyTargets(P, c) ==
    LET frame == {[at |-> 2 * d, target |-> Targets(P, d, c)] :
                     d \in MonthlyDecisionDates(P, c.evaluation, Len(P))}
        known == {d \in frame : d.target # Raised}
        tape == Book(Symbols, Setting(Zero, Zero))!ToTape(known)
    IN  IF known = {} THEN {} ELSE Book(Symbols, Setting(Zero, Zero))!FromTape(tape)

(* exposure_matched_comparator_targets of the frame.                       *)
ComparatorFrame(frame) ==
    {[d EXCEPT !.target = ComparatorTargets(@)] : d \in frame}

(* invalid_same_close_result: dated before the close before the decision.  *)
SameCloseFrame(frame) ==
    LET Early(d) == Max({1, d.at \div 2 - 1})
    IN  {[at |-> 2 * Early(d) - 1, target |-> d.target] :
            d \in {d \in frame : ~\E e \in frame : e.at > d.at /\ Early(e) = Early(d)}}

Relatives(P) ==
    [b \in DOMAIN P |->
        [s \in DOMAIN P[1] |-> IF b = 1 THEN One ELSE Fraction(P[b][s], P[b - 1][s])]]

(* The books at the closes of the bars first .. last, and at the start.    *)
Replayed(start, first, last, Bar(_, _)) ==
    LET After(books, b) ==
          LET book == Bar(books[Len(books)], b)
              alike == {f \in DOMAIN book : book[f] = start[f]}
          IN  Append(books, IF alike = DOMAIN book THEN start ELSE book)
        all == MapThenFoldSet(LAMBDA b, books : After(books, b), <<start>>, LAMBDA b : b, Max,
                              first..last)
    IN  [b \in first - 1..last |-> all[b - first + 2]]

(* run_engine.                                                             *)
EventDriven(P, frame, setting) ==
    LET relatives == Relatives(P)
    IN  Replayed([state |-> "running", cash |-> One, held |-> Book(Symbols, setting)!Flat,
                  equity |-> One],
                 1, Len(P),
                 LAMBDA book, b : Book(Symbols, setting)!EventBar(
                                      book, relatives[b], Book(Symbols, setting)!TargetAt(frame, b)))

Vectorized(P, frame, setting) ==
    LET relatives == Relatives(P)
    IN  Replayed([state |-> "running", weights |-> Book(Symbols, setting)!Flat, equity |-> One],
                 1, Len(P),
                 LAMBDA book, b : Book(Symbols, setting)!VectorBar(
                                      book, relatives[b], Book(Symbols, setting)!TargetAt(frame, b)))

(* _run_target_variant.                                                    *)
RunTargetVariant(P, frame, c) ==
    LET actual == Setting(c.rate, c.yield)
    IN  [baseline |-> EventDriven(P, frame, actual),
         same_close |-> EventDriven(P, SameCloseFrame(frame), actual),
         zero_cash |-> EventDriven(P, frame, Setting(c.rate, Zero)),
         zero_cost |-> EventDriven(P, frame, Setting(Zero, c.yield)),
         costed_comparator |-> EventDriven(P, ComparatorFrame(frame), actual),
         vectorized |-> Vectorized(P, frame, actual)]

(* protocol_row, causally_valid: what a study may publish.                 *)
CausallyValid(runs) == DOMAIN runs \ {"same_close"}

-----------------------------------------------------------------------------
(* Series over the evaluated sessions of an event-driven run.              *)
Net(books, b) == (books[b].equity \oslash books[b - 1].equity) \ominus One

GrossReturn(books, P, b, yield) ==
    LET before == books[b - 1]
        nav == Dot(before.held, Relatives(P)[b]) \oplus (before.cash \otimes (One \oplus yield))
    IN  (nav \oslash before.equity) \ominus One

Exposure(books, b) == Gross(books[b - 1].held) \oslash books[b - 1].equity

(* The part of it that the holdings earn, and the part of the cash.        *)
Contributions(books, P, b, yield) ==
    LET before == books[b - 1]
        moved == [s \in Symbols |-> Relatives(P)[b][s] \ominus One]
    IN  [asset |-> Dot(before.held, moved) \oslash before.equity,
         cash |-> (before.cash \otimes yield) \oslash before.equity]

(* performance_metrics: what a run is worth at its end, the worst fall     *)
(* from an earlier peak, and the mean exposure.                            *)
Metrics(books, first, last) ==
    LET growth == [b \in first..last |-> books[b].equity \oslash books[first - 1].equity]
        Peak(b) == CHOOSE g \in {One} \cup {growth[m] : m \in first..b} :
                      \A m \in first..b : growth[m] \preceq g
        Falls == {(growth[b] \oslash Peak(b)) \ominus One : b \in first..last}
    IN  [total |-> growth[last] \ominus One,
         drawdown |-> CHOOSE f \in Falls : \A g \in Falls : f \preceq g,
         exposure |-> Total([b \in first..last |-> Exposure(books, b)])
                         \oslash Fraction(last - first + 1, 1)]

(* _benchmark_returns: a basket of equal weights at the close before the   *)
(* evaluation, held; relatives of its curve.                               *)
BasketCurve(P, base) ==
    [b \in base..Len(P) |->
        Total([s \in Symbols |-> Fraction(P[b][s], P[base][s])])
            \oslash Fraction(Cardinality(Symbols), 1)]

BenchmarkReturn(P, base, b) ==
    (BasketCurve(P, base)[b] \oslash BasketCurve(P, base)[b - 1]) \ominus One

(* _costed_target_exposure_comparator: the basket at the target exposure;  *)
(* the target in force at the base executes there, before the evaluation.  *)
ExposureFrame(frame, base) ==
    LET before == {d \in frame : d.at < 2 * base}
        seed == IF before = {} THEN Zero
                ELSE Gross((CHOOSE d \in before : \A e \in before : e.at <= d.at).target)
        later == {d \in frame : d.at >= 2 * base}
    IN  {[at |-> 2 * base - 1, target |-> [s \in {"basket"} |-> seed]]} \cup
        {[at |-> d.at, target |-> [s \in {"basket"} |-> Gross(d.target)]] : d \in later}

CostedTargetExposureComparator(P, frame, c) ==
    LET base == c.evaluation - 1
        setting == Setting(c.rate, c.yield)
        curve == BasketCurve(P, base)
        Bar(book, b) ==
          Book({"basket"}, setting)!EventBar(book,
              [s \in {"basket"} |-> IF b = base THEN One ELSE curve[b] \oslash curve[b - 1]],
              Book({"basket"}, setting)!TargetAt(ExposureFrame(frame, base), b))
    IN  Replayed([state |-> "running", cash |-> One, held |-> Book({"basket"}, setting)!Flat,
                  equity |-> One],
                 base, Len(P), Bar)

(* _engine_result.                                                         *)
EngineResult(P, frame, engine, setting) ==
    IF engine = "vectorized" THEN Vectorized(P, frame, setting)
    ELSE EventDriven(P, frame, setting)

(* invalid_same_close_diagnostic.                                          *)
InvalidSameCloseDiagnostic(P, frame, setting) ==
    EngineResult(P, SameCloseFrame(frame), "event_driven", setting)

(* run_experiments: the decisions of the whole panel, warm-up included, if *)
(* the warm-up is long enough, replayed under the switches of the protocol *)
(* and by both engines.                                                    *)
RunExperiments(P, c) ==
    LET frame == StrategyTargets(P, [c EXCEPT !.evaluation = 1])
        actual == Setting(c.rate, c.yield)
    IN  IF Targets(P, c.evaluation - 1, c) = Raised THEN Raised
        ELSE [audited |-> EngineResult(P, frame, "event_driven", actual),
              zero_cash |-> EngineResult(P, frame, "event_driven", Setting(c.rate, Zero)),
              zero_cost |-> EngineResult(P, frame, "event_driven", Setting(Zero, c.yield)),
              same_close |-> InvalidSameCloseDiagnostic(P, frame, actual),
              vectorized |-> EngineResult(P, frame, "vectorized", actual),
              comparator |-> CostedTargetExposureComparator(P, frame, c)]

(* _yearly_return_rows; the panels are so short that a month is a year.    *)
YearlyReturnRows(books, window) ==
    LET year == [b \in window |-> Month[b]]
        Returns(y) == [b \in {b \in window : year[b] = y} |-> One \oplus Net(books, b)]
    IN  [y \in {year[b] : b \in window} |->
            FoldFunction(LAMBDA r, growth : growth \otimes r, One, Returns(y)) \ominus One]

(* _subperiod_rows: periods are pairs of a first and a last session.       *)
SubperiodRows(books, periods) ==
    [p \in periods |->
        LET metrics == Metrics(books, p[1], p[2])
        IN  [total |-> metrics.total, drawdown |-> metrics.drawdown]]

-----------------------------------------------------------------------------
Mixed(exposure, risky, cash) ==
    (exposure \otimes risky) \oplus ((One \ominus exposure) \otimes cash)

(* return_decomposition: net excess over cash in four components.          *)
ReturnDecomposition(books, P, c) ==
    LET window == c.evaluation..Len(P)
        exposure == [b \in window |-> Exposure(books, b)]
        constant == Total(exposure) \oslash Fraction(Cardinality(window), 1)
        gross == [b \in window |-> GrossReturn(books, P, b, c.yield)]
        passive == [b \in window |-> BenchmarkReturn(P, c.evaluation - 1, b)]
        matched == [b \in window |-> Mixed(exposure[b], passive[b], c.yield)]
        level == [b \in window |-> Mixed(constant, passive[b], c.yield)]
    IN  [active |-> Difference(gross, matched),
         timing |-> Difference(matched, level),
         passive |-> [b \in window |-> level[b] \ominus c.yield],
         cost |-> [b \in window |-> Net(books, b) \ominus gross[b]]]

(* compute of the published report: each session beside a security and the *)
(* basket held at the same exposure; only for long books without leverage. *)
Compute(books, P, security, c) ==
    LET window == c.evaluation..Len(P)
        Matched(b, risky) == Mixed(Exposure(books, b), risky, c.yield)
    IN  IF \E b \in window : \/ One \prec Exposure(books, b)
                             \/ \E s \in Symbols : books[b - 1].held[s] \prec Zero
          THEN Raised
          ELSE [b \in window |->
                   [excess |-> Net(books, b) \ominus c.yield,
                    contributions |-> Contributions(books, P, b, c.yield),
                    security |-> Matched(b, Relatives(P)[b][security] \ominus One),
                    basket |-> Matched(b, BenchmarkReturn(P, c.evaluation - 1, b))]]

(* circular_block_indices: blocks from the starts drawn, around the end.   *)
CircularBlockIndices(observations, block, starts) ==
    [i \in 1..observations |->
        ((starts[((i - 1) \div block) + 1] + ((i - 1) % block)) % observations) + 1]

(* circular_block_bootstrap_frame: one draw of the sum of a column; every  *)
(* column uses the same rows.                                              *)
Drawn(column, indices) ==
    Total([i \in DOMAIN indices |-> column[Min(DOMAIN column) + indices[i] - 1]])

-----------------------------------------------------------------------------
(* What the reports say of the sessions up to n; a study of a longer panel *)
(* must say the same of them.                                              *)
Upto(n, books) == [b \in {b \in DOMAIN books : b <= n} |-> books[b]]

PaperRows(n, c, runs) ==
    IF runs = Raised THEN Raised
    ELSE [runs |-> [v \in CausallyValid(runs) |-> Upto(n, runs[v])],
          yearly |-> YearlyReturnRows(runs.audited, c.evaluation..n),
          subperiods |-> SubperiodRows(runs.audited, {<<c.evaluation, n>>})]

Summarised(P, n, c, runs, paper, published) ==
    [runs |-> [v \in CausallyValid(runs) |-> Upto(n, runs[v])],
     paper |-> PaperRows(n, c, paper),
     metrics |-> Metrics(runs.baseline, c.evaluation, n),
     published |-> Upto(n, published),
     benchmark |-> [b \in c.evaluation..n |-> BenchmarkReturn(P, c.evaluation - 1, b)]]

Published(P, n, c, runs) ==
    Summarised(P, n, c, runs, RunExperiments(P, c),
               Compute(runs.baseline, P, Min(Symbols), c))

Reported(P, n, c) == Published(P, n, c, RunTargetVariant(P, StrategyTargets(P, c), c))

(* Costs cost: without them the same targets are never worth less, and     *)
(* drift never takes the books out of what the published report accepts.   *)
CostsCost(P, c, books, free) ==
    /\ \A b \in DOMAIN books :
          books[b].state = "running" /\ books[b].equity \preceq free[b].equity
    /\ Len(P) >= c.evaluation => Compute(books, P, Min(Symbols), c) # Raised

(* Asset and cash contributions make the gross return, every day.          *)
ContributionsAddUp(P, c, books) ==
    \A b \in c.evaluation..Len(P) :
        LET earned == Contributions(books, P, b, c.yield)
        IN  GrossReturn(books, P, b, c.yield) = earned.asset \oplus earned.cash

(* The rows of a draw are blocks, and the components of the decomposition  *)
(* make the net excess in it.                                              *)
DrawAddsUp(rows, block, parts, excess) ==
    /\ \A i \in 1..Len(rows) - 1 :
          i % block # 0 => rows[i + 1] = (rows[i] % Len(rows)) + 1
    /\ Drawn(excess, rows) =
          FoldSet(LAMBDA part, sum : sum \oplus Drawn(parts[part], rows), Zero, DOMAIN parts)

(* And so they do every day.                                               *)
ComponentsAddUp(window, parts, excess) ==
    /\ \A b \in window :
          excess[b] = FoldSet(LAMBDA part, sum : sum \oplus parts[part][b], Zero, DOMAIN parts)
    /\ LET size == Cardinality(window)
       IN  \A block \in 1..size, first \in 0..size - 1 :
              DrawAddsUp(CircularBlockIndices(size, block,
                                              [k \in 1..size |-> (first + k * k) % size]),
                         block, parts, excess)

(* The years chain to the whole evaluation, and so do two subperiods that  *)
(* split it; neither of these can have fallen further than the whole.      *)
RowsChain(P, c, books) ==
    Len(P) >= c.evaluation =>
    LET first == c.evaluation
        last == Len(P)
        whole == Metrics(books, first, last)
        rows == YearlyReturnRows(books, first..last)
        Chained(f) == FoldFunction(LAMBDA r, growth : growth \otimes (One \oplus r), One, f)
    IN  /\ Chained(rows) = One \oplus whole.total
        /\ \A split \in first..last - 1 :
              LET periods == {<<first, split>>, <<split + 1, last>>}
                  parts == SubperiodRows(books, periods)
              IN  /\ Chained([p \in periods |-> parts[p].total]) = One \oplus whole.total
                  /\ \A p \in periods : whole.drawdown \preceq parts[p].drawdown

BooksAddUp(P, c, books, free) ==
    LET window == c.evaluation..Len(P)
    IN  /\ CostsCost(P, c, books, free)
        /\ ContributionsAddUp(P, c, books)
        /\ RowsChain(P, c, books)
        /\ ComponentsAddUp(window, ReturnDecomposition(books, P, c),
                           [b \in window |-> Net(books, b) \ominus c.yield])

FrameAddsUp(P, c, frame) ==
    BooksAddUp(P, c, EventDriven(P, frame, Setting(c.rate, c.yield)),
               EventDriven(P, frame, Setting(Zero, c.yield)))

StudyAddsUp(P, c) == FrameAddsUp(P, c, StrategyTargets(P, c))
=============================================================================
