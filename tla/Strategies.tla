----------------------------- MODULE Strategies ------------------------------
(***************************************************************************)
(* The strategies (quantcortex/strategies) as generate_weights runs them   *)
(* over the sorted decisions of a panel: what each decision, at the close  *)
(* of session n, selects and allocates by is known by the windows of the   *)
(* panel it reads, the branch it takes and the model it has.  In a record  *)
(* c are the parameters of the constructors.                               *)
(***************************************************************************)
EXTENDS Signals

CONSTANTS
    Period,         \* Period[n]: the calendar period in which models are kept
    RegimeReturns,  \* a regime is read from so many returns (60 in the code)
    MinTrainRows    \* MomentumMLStrategy trains on so many rows (50)

Decided(P, decisions) == decisions \cap DOMAIN P

(* build_context: prices up to the decision.                               *)
BuildContext(P, n) == SubSeq(P, 1, n)

-----------------------------------------------------------------------------
(* MultiAssetRotation.                                                     *)

(* Mutant: the skipped sessions are not counted.                           *)
RequiredHistoryWithoutGap(c) ==
    Max({2 * c.lookback + 1,
         IF c.regime THEN Max({RegimeReturns + 1, c.vol + 1}) ELSE 0,
         IF c.vixScale THEN c.vixWindow + 1 ELSE 0,
         c.ir + 1})

(* required_history.                                                       *)
RequiredHistory(c) ==
    Max({c.gap + 2 * c.lookback + 1,
         IF c.regime THEN Max({RegimeReturns + 1, c.vol + 1}) ELSE 0,
         IF c.vixScale THEN c.vixWindow + 1 ELSE 0,
         c.ir + 1})

(* Intervals of sessions: the closes read by each part, from n closes.     *)
InformationWindow(n, c) == (n - Min({c.ir, n - 1}))..n

FormationWindow(n, c) == Max({1, n - c.gap - c.lookback})..(n - c.gap)

EstimationWindow(n, c) ==
    (Max({1, n - c.gap - c.lookback}) - c.lookback)..Max({1, n - c.gap - c.lookback})

PlainWindow(n, c) == Max({1, n - c.gap - c.lookback})..Max({1, n - c.gap})

VixWindow(n, c) == (n - Min({c.vixWindow, n - 1}))..n

HasResidual(n, c) == n >= c.gap + 2 * c.lookback + 1

Across(px, window) == [n \in window |-> px[n]]

(* select: groups ranked by information ratio, their members by residual   *)
(* or else plain momentum.                                                 *)
RotationScores(px, c) ==
    LET n == Len(px)
    IN  [groups |-> Across(px, InformationWindow(n, c)),
         members |-> IF HasResidual(n, c)
                       THEN <<Across(px, FormationWindow(n, c)),
                              Across(px, EstimationWindow(n, c))>>
                       ELSE <<Across(px, PlainWindow(n, c))>>]

(* _regime_overlay scales to nothing, and _vix_overlay to the floor, what  *)
(* there is too little history for.                                        *)
RegimeOverlay(px, c) ==
    IF ~c.regime THEN "off"
    ELSE IF Len(px) - 1 < RegimeReturns THEN "flat" ELSE RegimeFeatures(px, c.vol)

VixOverlay(px, c) ==
    IF ~c.vixScale THEN "off"
    ELSE VixScale(IF Len(px) - 1 < 2 THEN NaN ELSE Across(px, VixWindow(Len(px), c)))

MultiAssetRotation(P, n, c) ==
    LET px == BuildContext(P, n)
    IN  [scores |-> RotationScores(px, c), regime |-> RegimeOverlay(px, c),
         vix |-> VixOverlay(px, c)]

-----------------------------------------------------------------------------
(* MacroTimingStrategy: the momentum of classes and of their members over  *)
(* one window, and a regime that is BEAR while there is too little history. *)
MacroTiming(P, n, c) ==
    LET px == BuildContext(P, n)
        lb == Min({c.lookback, n - 1})
        gap == Min({c.gap, Max({0, lb - 2})})
    IN  [momentum |-> IF gap > 0 /\ lb > gap THEN SubSeq(px, n - lb, n - gap)
                                             ELSE SubSeq(px, n - lb, n),
         regime |-> IF ~c.regime THEN "off"
                    ELSE IF n - 1 < RegimeReturns THEN "bear" ELSE RegimeFeatures(px, c.vol)]

-----------------------------------------------------------------------------
(* MomentumMLStrategy.  Its features look back over c.window returns.      *)
MinHistory(c) == c.window + c.gap + c.horizon + c.margin

ColdStart(px, c) ==
    LET n == Len(px)
        lb == Min({c.lookback, n - 1})
        gap == IF lb > 1 THEN Min({c.gap, lb - 1}) ELSE 0
    IN  IF n <= c.gap + 1 THEN NaN ELSE Momentum(px, n, lb, gap)

FeaturePanel(px, m, c) == Returns(px, m, c.window + c.gap)

(* _maybe_refit: once in a period, on the latest dates with a label.       *)
RefitDue(last, now) == Period[now] > Period[last]

TrainRows(px, c) ==
    LET complete == {m \in DOMAIN px :
                        /\ FeaturePanel(px, m, c) # NaN
                        /\ ForwardReturn(px, m, c) # NaN}
        latest == {m \in complete :
                      Cardinality({l \in complete : l > m}) < c.maxTrain}
    IN  {<<m, FeaturePanel(px, m, c), ForwardReturn(px, m, c)>> : m \in latest}

MaybeRefit(model, px, c) ==
    IF model # NaN /\ ~RefitDue(model.at, Len(px)) THEN model
    ELSE LET train == TrainRows(px, c)
         IN  IF train = {} \/ Cardinality(train) * Cardinality(DOMAIN px[1]) < MinTrainRows
               THEN model
               ELSE [at |-> Len(px), train |-> train]

(* The model after the decisions up to session n.                          *)
FittedModel(P, decisions, n, c) ==
    LET after[k \in 0..n] ==
            IF k = 0 THEN NaN
            ELSE IF k \notin decisions \/ k < 2 \/ k < MinHistory(c) THEN after[k - 1]
            ELSE MaybeRefit(after[k - 1], BuildContext(P, k), c)
    IN  after[n]

MomentumML(P, decisions, n, c) ==
    LET px == BuildContext(P, n)
        model == FittedModel(P, decisions, n, c)
    IN  IF n < MinHistory(c) \/ model = NaN
          THEN ColdStart(px, c)
          ELSE [model |-> model, current |-> FeaturePanel(px, n, c)]

-----------------------------------------------------------------------------
(* SentimentNLPStrategy: momentum, or the whole return when none can be    *)
(* scored, blended with the headlines there are.                           *)
Sentiment(P, news, n, c) ==
    LET px == BuildContext(P, n)
        lb == Min({c.lookback, n - 1})
        plain == <<px[n], px[1]>>
    IN  [momentum |-> IF lb <= 1 THEN <<plain>>
                      ELSE <<Momentum(px, n, lb, Min({c.gap, lb - 1})), plain>>,
         sentiment |-> AggregateDaily(news, n, c)]

-----------------------------------------------------------------------------
(* DRLPortfolioStrategy: a policy trained on the latest window, at most    *)
(* once a period, and asked with the weights of the decision before.       *)
MaybeTrain(held, px, c) ==
    LET window == SubSeq(px, Max({1, Len(px) - c.trainWindow}), Len(px))
    IN  IF \/ held.at # 0 /\ held.model # NaN /\ ~RefitDue(held.at, Len(px))
           \/ Len(window) - 1 <= c.window + 1
          THEN held
          ELSE [held EXCEPT !.model = window, !.at = Len(px)]

DRL(P, decisions, n, c) ==
    LET after[k \in 0..n] ==
            IF k = 0 THEN [model |-> NaN, at |-> 0, weights |-> "flat"]
            ELSE IF k \notin decisions \/ k < 2 THEN after[k - 1]
            ELSE LET held == MaybeTrain(after[k - 1], BuildContext(P, k), c)
                 IN  [held EXCEPT !.weights =
                         IF held.model = NaN
                           THEN <<BuildContext(P, k)>>
                           ELSE <<BuildContext(P, k), held.model, held.weights>>]
    IN  after[n]
=============================================================================
