------------------------------ MODULE Signals --------------------------------
(***************************************************************************)
(* Factors and timing models (alpha/factors, alpha/feature_engineering,    *)
(* timing) as columns computed over a whole panel: the value at session n  *)
(* is known by the closes, headlines and observations it is made of.  In a *)
(* record c are the parameters of the classes.                             *)
(***************************************************************************)
EXTENDS Integers, FiniteSetsExt, Sequences

CONSTANT NaN

(* The rows from first to last, or not a number when the panel begins later. *)
Rows(P, first, last) == IF first >= 1 /\ first <= last THEN SubSeq(P, first, last) ELSE NaN

(* k returns up to session n: pct_change and rolling(k, min_periods=k).    *)
Returns(P, n, k) == Rows(P, n - k, n)

(* MomentumFactor.compute: prices.shift(gap) / prices.shift(lookback).     *)
Momentum(P, n, lookback, gap) ==
    IF n > lookback THEN <<P[n - gap], P[n - lookback]>> ELSE NaN

(* residual_momentum: the formation's residuals, each from a regression    *)
(* over its own window, summed up to the gap.                              *)
ResidualMomentum(P, n, c) ==
    Rows(P, n - c.gap - (c.lookback - c.gap) + 1 - c.window, n - c.gap)

(* LowVolFactor: volatility and beta are those of the session before.      *)
RealizedVolatility(P, n, c) == Returns(P, n - 1, c.window)

Beta(P, n, c) == Returns(P, n - 1, c.betaWindow)

Composite(P, n, c) == {RealizedVolatility(P, n, c), Beta(P, n, c)} \ {NaN}

(* fit_predict_cross_sectional: the sessions a model is trained on for     *)
(* session n, whose forward returns have ended when purge covers them.     *)
TrainDates(n, c) == {m \in 1..n - c.purge - 1 : m >= n - c.trainWindow - c.purge}

ForwardReturn(P, m, c) ==
    IF m + c.horizon <= Len(P) THEN <<P[m], P[m + c.horizon]>> ELSE NaN

(* Every step-th session after the first full window, unless too few of    *)
(* its training rows are complete.                                         *)
CrossSectional(P, n, c) ==
    LET first == c.trainWindow + c.purge + 1
        train == {<<Returns(P, m, c.window), ForwardReturn(P, m, c)>> : m \in TrainDates(n, c)}
        complete == {row \in train : row[1] # NaN /\ row[2] # NaN}
    IN  IF n < first \/ (n - first) % c.step # 0 \/ Cardinality(complete) < c.minTrain
          THEN NaN
          ELSE [train |-> complete, current |-> Returns(P, n, c.window)]

(* MacroFeatures: an observation is carried forward from its publication.  *)
Prepared(M, n, lag) == IF n > lag THEN M[n - lag] ELSE NaN

MacroFeatures(M, n, c) ==
    [spread |-> <<Prepared(M, n, 0), Prepared(M, n, c.lag)>>,
     change |-> <<Prepared(M, n, c.lag), Prepared(M, n - c.gap, c.lag)>>]

(* aggregate_daily with as_of: the headlines published by the decision in  *)
(* the lookback.  Those of a day are given oldest first: its copy that is  *)
(* kept is the first.                                                      *)
Deduplicated(headlines) == IF "open" \in headlines THEN {"open"} ELSE headlines

AggregateDaily(news, n, c) ==
    {k \in (Max({1, n - c.newsLookback})..n) \X {"open", "late"} :
        k[2] \in Deduplicated(news[k[1]]) /\ (k[1] = n => k[2] = "open")}

-----------------------------------------------------------------------------
(* The timing models are given what is known, P, and ask for the last row. *)
(* KAMA: the average is seeded after the window and runs on from it.  *)
KamaGates(P, c) == IF Len(P) > c.window THEN P ELSE 0

Sign(x, y) == IF x > y THEN 1 ELSE IF x < y THEN -1 ELSE 0

(* TSMomentum: the last return is left out; shorts become flat.             *)
TrailingSignal(P, s, c) ==
    LET last == Len(P) - 1
    IN  IF last < 2 THEN 0 ELSE Sign(P[last][s], P[Max({1, last - c.lookback})][s])

TsmomGates(P, c) ==
    [s \in DOMAIN P[1] |->
        IF c.allowShort THEN TrailingSignal(P, s, c) ELSE Max({0, TrailingSignal(P, s, c)})]

(* HMMRegime: features from the returns so far, and the state of the last  *)
(* row; the windows of realized volatility start short.                    *)
RegimeFeatures(P, vol) ==
    [n \in 2..Len(P) |-> SubSeq(P, Max({1, n - vol}), n)]

(* VIXScaler: without a level the scale is the floor.                      *)
VixScale(level) == IF level = NaN THEN "floor" ELSE level
=============================================================================
