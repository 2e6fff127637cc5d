------------------------------ MODULE Overlays -------------------------------
(***************************************************************************)
(* A strategy's pipeline at each of its decisions (BaseStrategy.rebalance): *)
(* an allocation, the timing overlays, the risk overlays, and the contract *)
(* of what is emitted.  Solver output, regimes, levels of the VIX, trends, *)
(* estimates of risk and the equity of the account are what the market      *)
(* makes them, or cannot be had: a solver fails, a model does not fit, data *)
(* are missing or do not match the book.  Then the decision ends in an      *)
(* exception.  The circuit breaker keeps its latch from one decision to the *)
(* next.                                                                   *)
(***************************************************************************)
EXTENDS Portfolio

CONSTANTS
    Pipelines,  \* the strategies: optimizer, mode, bounds, overlays, parameters
    Solutions,  \* vectors a solver may return
    Scales,     \* ratios: target to level, target to realized, edge
    Loadings,   \* the loadings of a policed factor there may be
    Navs,       \* what the account may be worth
    None

VARIABLES
    strategy,
    solution, alive, \* what the optimizer was given, until an overlay is applied
    stage,    \* "allocate", "overlay", "emitted", or an exception: "raised" by
              \* the pipeline itself, "failed" for want of a solution or an estimate
    rest,     \* the overlays still to apply
    book,     \* the weights so far
    loading,  \* the loadings of the last factor limit
    target,   \* what was emitted last
    equity,   \* the equity curve, a value for each decision
    operated, \* decisions before which an operator reset the breaker
    tripped   \* CircuitBreaker._tripped

vars == <<strategy, solution, alive, stage, rest, book, loading, target, equity,
          operated, tripped>>

Flat == [a \in Assets |-> Zero]

Init ==
    /\ strategy \in Pipelines
    /\ solution = Flat /\ alive = Assets
    /\ stage = "allocate"
    /\ rest = <<>>
    /\ book = Flat /\ target = Flat
    /\ loading = Flat
    /\ equity = <<CHOOSE nav \in Navs : \A n \in Navs : n \preceq nav>>
    /\ operated = {}
    /\ tripped = FALSE

Allocated(s, w, l) ==
    LET o == [mode |-> s.mode, lower |-> s.lower, upper |-> s.upper]
    IN  Optimize(
          CASE s.optimizer = "equal" -> EqualWeight(Assets)
            [] s.optimizer = "mean_variance" -> MeanVariance(w, l, o)
            [] s.optimizer = "minimum_variance" -> MinimumVariance(w, l, o)
            [] s.optimizer = "risk_parity" -> RiskParity(w, l, o)
            [] s.optimizer = "hrp" -> HierarchicalRiskParity(w, s.order, l, o)
            [] s.optimizer = "black_litterman" ->
                  BlackLitterman(EqualWeight(Assets), s.views, w, l, o)
            [] s.optimizer = "drl" -> DRLAllocator(s.trained, w, target, l, o), o)

Allocates(allocation, w) ==
    /\ book' = IF allocation = Refused THEN Flat ELSE allocation
    /\ stage' = IF allocation # Refused THEN "overlay"
                ELSE IF w = Refused THEN "failed" ELSE "raised"
    /\ solution' = IF w = Refused THEN Flat ELSE w

Allocate ==
    /\ stage = "allocate"
    /\ \E w \in Solutions \cup {Refused}, l \in SUBSET Assets :
          /\ Allocates(EnforceWeightContract(Allocated(strategy, w, l), strategy.mode,
                                             PlusMinusOne), w)
          /\ alive' = l
    /\ rest' = strategy.overlays
    /\ UNCHANGED <<strategy, loading, target, equity, operated, tripped>>

-----------------------------------------------------------------------------
(* Overlays.  Apart from those that can lever a book, they hold what they  *)
(* return to the gross they were given, or to 1.                           *)
Unlevered(w) == Greater(One, Gross(w))

Largest(w) == CHOOSE x \in {Size(w[a]) : a \in DOMAIN w} :
                 \A a \in DOMAIN w : Size(w[a]) \preceq x

(* So that no weight leaves [-1, 1].                                       *)
WithinBox(scale, w) ==
    IF Zero \prec Largest(w) THEN Lesser(scale, One \oslash Largest(w)) ELSE scale

WithinLeverage(scale, w, leverage) ==
    IF Zero \prec Gross(w) THEN Lesser(scale, leverage \oslash Gross(w)) ELSE scale

RegimeScale == [bear |-> Zero, sideways |-> Fraction(1, 2), bull |-> One]

ScaleWeights(w, regime) ==
    EnforceExposureContract(Scaled(w, RegimeScale[regime]), Unlevered(w), PlusMinusOne)

(* KAMA and TSMomentum: a gate for each asset.                             *)
Gated(w, gates) ==
    EnforceExposureContract([a \in Assets |-> w[a] \otimes Fraction(gates[a], 1)],
                            Unlevered(w), PlusMinusOne)

Multiplier(signs, allowShort) ==
    [a \in Assets |-> IF allowShort \/ signs[a] > 0 THEN signs[a] ELSE 0]

(* VIXScaler: ratio is target to level; without a level, the floor.        *)
ComputeScale(ratio, p) == IF ratio = None THEN p.floor ELSE Clip(ratio, p.floor, p.cap)

VixApply(w, ratio, p) ==
    EnforceExposureContract(
        Scaled(w, WithinBox(ComputeScale(ratio, p), w)),
        IF One \prec p.cap THEN Greater(Unlevered(w), Gross(w) \otimes p.cap)
                           ELSE Unlevered(w),
        PlusMinusOne)

(* VolTargeting: without measurable risk (None) exposure is held.          *)
VolApply(w, ratio, p) ==
    LET scale == IF ratio = None THEN One ELSE Clip(ratio, p.minScale, p.leverage)
    IN  EnforceExposureContract(
            Scaled(w, WithinBox(WithinLeverage(scale, w, p.leverage), w)),
            p.leverage, PlusMinusOne)

(* KellyCriterion: edge is the portfolio's mean over its variance; there   *)
(* is no bet without either.                                               *)
KellyApply(w, edge, p) ==
    LET scale == IF edge = None \/ Gross(w) = Zero THEN Zero
                 ELSE Clip(p.fraction \otimes edge, Zero, p.leverage)
    IN  EnforceExposureContract(
            Scaled(w, WithinBox(WithinLeverage(scale, w, p.leverage), w)),
            p.leverage, PlusMinusOne)

(* FactorExposureLimiter for one factor: the least adjustment to the cap,  *)
(* then signs, gross, box, and last the exposure again.                    *)
Projected(w, l, cap) ==
    LET e == Dot(l, w)
    IN  IF Size(e) \preceq cap THEN w
        ELSE LET edge == IF Zero \prec e THEN cap ELSE Negative(cap)
             IN  Sum2(w, Scaled(l, (edge \ominus e) \oslash Dot(l, l)))

KeepSigns(adjusted, w) ==
    [a \in Assets |-> Clip(adjusted[a],
                           IF w[a] \prec Zero THEN Negative(One) ELSE Zero,
                           IF Zero \prec w[a] THEN One ELSE Zero)]

KeepGross(adjusted, w) ==
    IF Gross(w) \prec Gross(adjusted) /\ Zero \prec Gross(w)
      THEN Scaled(adjusted, Gross(w) \oslash Gross(adjusted)) ELSE adjusted

KeepCap(adjusted, l, cap) ==
    IF cap \prec Size(Dot(l, adjusted))
      THEN Scaled(adjusted, cap \oslash Size(Dot(l, adjusted))) ELSE adjusted

(* Mutant: the box is enforced after the exposure.                         *)
FactorApplyClippedLast(w, l, p) ==
    LET signed == IF p.preserveSigns THEN KeepSigns(Projected(w, l, p.exposure), w)
                  ELSE Projected(w, l, p.exposure)
        adjusted == KeepGross(signed, w)
    IN  IF Size(Dot(l, w)) \preceq p.exposure THEN w
        ELSE EnforceExposureContract(Clipped(adjusted, Negative(One), One),
                                     Unlevered(w), PlusMinusOne)

FactorApply(w, l, p) ==
    LET signed == IF p.preserveSigns THEN KeepSigns(Projected(w, l, p.exposure), w)
                  ELSE Projected(w, l, p.exposure)
        boxed == Clipped(KeepGross(signed, w), Negative(One), One)
    IN  EnforceExposureContract(
            IF Size(Dot(l, w)) \preceq p.exposure THEN w ELSE KeepCap(boxed, l, p.exposure),
            Unlevered(w), PlusMinusOne)

(* Mutant: a capped book is invested in full.                              *)
PositionLimitInvested(w, cap) ==
    IF \E a \in Assets : w[a] \prec Zero THEN Refused
    ELSE IF Fraction(Cardinality(Assets), 1) \otimes cap \prec One
      THEN Clipped(w, Zero, cap)
      ELSE ProjectBoundedSum(w, One, Zero, cap)

(* MultiAssetRotation._position_limit_overlay: what a capped position      *)
(* gives up goes to the others if they can hold it.                        *)
PositionLimit(w, cap) ==
    IF \E a \in Assets : w[a] \prec Zero THEN Refused
    ELSE IF Fraction(Cardinality(Assets), 1) \otimes cap \prec Total(w)
      THEN Clipped(w, Zero, cap)
      ELSE ProjectBoundedSum(w, Total(w), Zero, cap)

(* CircuitBreaker.                                                         *)
Drawdown(curve) ==
    LET peak == CHOOSE x \in {curve[n] : n \in DOMAIN curve} :
                   \A n \in DOMAIN curve : curve[n] \preceq x
    IN  One \ominus (curve[Len(curve)] \oslash peak)

UpdateState(held, drawdown, p) ==
    IF held THEN ~(p.autoReset /\ drawdown \preceq p.resetDrawdown)
    ELSE p.maxDrawdown \preceq drawdown

-----------------------------------------------------------------------------
(* apply_overlays: each overlay is given what the one before returned, and *)
(* an estimate, or data it refuses.                                        *)
Apply(overlay, estimate, weights) ==
    /\ stage = "overlay" /\ rest # <<>> /\ Head(rest) = overlay
    /\ IF estimate = Refused
         THEN stage' = "failed" /\ UNCHANGED <<rest, book>>
         ELSE /\ rest' = Tail(rest)
              /\ book' = IF weights = Refused THEN book ELSE weights
              /\ stage' = IF weights = Refused THEN "raised" ELSE "overlay"
    /\ solution' = Flat /\ alive' = Assets
    /\ UNCHANGED <<strategy, target, equity, operated>>

(* Refused: the features are no numbers, or the model does not fit.        *)
Regime ==
    \E regime \in DOMAIN RegimeScale \cup {Refused} :
        /\ Apply("regime", regime, ScaleWeights(book, regime))
        /\ UNCHANGED <<loading, tripped>>

(* Refused: a price is none, or the columns are not those of the book.     *)
Kama ==
    \E gates \in [Assets -> {0, 1}] \cup {Refused} :
        Apply("kama", gates, Gated(book, gates)) /\ UNCHANGED <<loading, tripped>>

(* Refused: a return is none, or the columns are not those of the book.    *)
TSMomentum ==
    \E signs \in [Assets -> {-1, 0, 1}] \cup {Refused} :
        /\ Apply("tsmom", signs, Gated(book, Multiplier(signs, strategy.allowShort)))
        /\ UNCHANGED <<loading, tripped>>

(* Refused: an empty series of levels.                                     *)
Vix ==
    \E ratio \in Scales \cup {None, Refused} :
        Apply("vix", ratio, VixApply(book, ratio, strategy)) /\ UNCHANGED <<loading, tripped>>

(* Refused: a return is missing, or there are fewer than two.              *)
VolTargeting ==
    \E ratio \in Scales \cup {None, Refused} :
        Apply("vol", ratio, VolApply(book, ratio, strategy)) /\ UNCHANGED <<loading, tripped>>

(* Refused: expectations or covariances that are none.                     *)
Kelly ==
    \E edge \in Scales \cup {None, Refused} :
        Apply("kelly", edge, KellyApply(book, edge, strategy)) /\ UNCHANGED <<loading, tripped>>

(* Refused: a loading is missing, or the rows are not those of the book.   *)
Factor ==
    \E l \in Loadings \cup {Refused} :
        /\ Apply("factor", l, FactorApply(book, l, strategy))
        /\ loading' = IF l = Refused THEN loading ELSE l
        /\ UNCHANGED tripped

Limit ==
    /\ Apply("limit", book, PositionLimit(book, strategy.position))
    /\ UNCHANGED <<loading, tripped>>

(* Refused: no equity curve, or values in it that are none.                *)
Breaker ==
    \E curve \in {equity, Refused} :
        LET now == UpdateState(tripped, Drawdown(curve), strategy)
        IN  /\ Apply("breaker", curve,
                     EnforceExposureContract(IF now THEN Flat ELSE book, Unlevered(book),
                                             PlusMinusOne))
            /\ tripped' = IF curve = Refused THEN tripped ELSE now
            /\ UNCHANGED loading

(* The target of the decision.                                             *)
Emit ==
    LET final == EnforceExposureContract(book, strategy.maxGross, PlusMinusOne)
    IN  /\ stage = "overlay" /\ rest = <<>>
        /\ stage' = IF final = Refused THEN "raised" ELSE "emitted"
        /\ target' = IF final = Refused THEN target ELSE final
        /\ UNCHANGED <<strategy, solution, alive, rest, book, loading, equity, operated, tripped>>

(* The market moves to the next decision; an operator may reset a breaker. *)
NextDecision ==
    /\ stage = "emitted"
    /\ Len(equity) < strategy.decisions
    /\ \E nav \in Navs : equity' = Append(equity, nav)
    /\ \/ UNCHANGED <<operated, tripped>>
       \/ tripped /\ tripped' = FALSE /\ operated' = operated \cup {Len(equity) + 1}
    /\ stage' = "allocate"
    /\ book' = Flat /\ loading' = Flat
    /\ UNCHANGED <<strategy, solution, alive, rest, target>>

Next ==
    \/ Allocate \/ Regime \/ Kama \/ TSMomentum \/ Vix \/ VolTargeting \/ Kelly
    \/ Factor \/ Limit \/ Breaker \/ Emit \/ NextDecision

Spec == Init /\ [][Next]_vars

-----------------------------------------------------------------------------
TypeOK ==
    /\ strategy \in Pipelines
    /\ stage \in {"allocate", "overlay", "emitted", "raised", "failed"}
    /\ book \in [Assets -> Fractions] /\ target \in [Assets -> Fractions]
    /\ equity \in Seq(Navs) /\ Len(equity) <= strategy.decisions
    /\ tripped \in BOOLEAN

Applied(overlay) == \E n \in DOMAIN strategy.overlays : strategy.overlays[n] = overlay

(* Nothing comes after the overlay but what scales a whole book down.      *)
LastBut(overlay, scaling) ==
    \E n \in DOMAIN strategy.overlays :
        /\ strategy.overlays[n] = overlay
        /\ \A m \in DOMAIN strategy.overlays : m > n => strategy.overlays[m] \in scaling

Deleveraging == {"regime", "breaker"} \cup IF One \prec strategy.cap THEN {} ELSE {"vix"}

(* What no optimizer can answer: too few observations, bounds that leave   *)
(* no book, scores that prefer nothing, or a book nobody could hold.       *)
NoAllocation ==
    LET s == strategy
        columns == IF s.optimizer \in {"mean_variance", "minimum_variance", "risk_parity"}
                     THEN alive ELSE Assets
        several == Cardinality(columns) > 1
        floor == IF s.mode = "long_only" THEN Greater(Zero, s.lower) ELSE s.lower
        scored == \/ s.optimizer = "risk_parity"
                  \/ s.optimizer = "black_litterman" /\ s.views # {}
    IN  \/ s.optimizer # "equal" /\ alive # columns
        \/ columns = {}
        \/ columns # Assets /\ ~(floor \preceq Zero /\ Zero \preceq s.upper)
        \/ ~Feasible(Cardinality(columns), TargetSum(s.mode), floor, s.upper)
        \/ s.optimizer = "hrp" /\ \E a \in Assets : solution[a] \preceq Zero
        \/ scored /\ several /\ s.mode = "long_only"
           /\ \A a \in columns : solution[a] \preceq Zero
        \/ several /\ s.mode = "market_neutral"
           /\ \A a, b \in columns : solution[a] = solution[b]
        \/ s.optimizer = "drl" /\ s.trained
           /\ (One \prec Gross(target) \/ \E a \in Assets : target[a] \prec Zero)

(* The breaker has been over its limit, and since then neither an operator *)
(* nor, if it may reset itself, the drawdown has released it.              *)
Halted ==
    LET drawdown == [n \in DOMAIN equity |-> Drawdown(SubSeq(equity, 1, n))]
    IN  \E n \in DOMAIN equity :
            /\ strategy.maxDrawdown \preceq drawdown[n]
            /\ \A m \in DOMAIN equity :
                  m > n => /\ m \notin operated
                           /\ ~(strategy.autoReset /\ drawdown[m] \preceq strategy.resetDrawdown)

(***************************************************************************)
(* TargetsWithinLimits: whatever a solver returns and the market does, a   *)
(* decision for which there is a solution and each estimate ends in an     *)
(* exception only if there is no allocation, never in a contract on the    *)
(* way; assets without observations get nothing; and the target that is    *)
(* emitted keeps every limit it passed, also those that only later         *)
(* overlays could break.  It is flat exactly while the breaker is halted.  *)
(***************************************************************************)
TargetsWithinLimits ==
    /\ stage = "raised" => rest = strategy.overlays /\ NoAllocation
    /\ stage = "overlay" /\ rest = strategy.overlays =>
          /\ ~NoAllocation
          /\ strategy.optimizer # "equal" => \A a \in Assets \ alive : book[a] = Zero
    /\ stage = "emitted" =>
          /\ Gross(target) \preceq strategy.maxGross
          /\ InBox(target, IF strategy.mode = "long_only" /\ ~strategy.allowShort
                             THEN Zero ELSE Negative(One), One)
          /\ Applied("limit") => InBox(target, Zero, strategy.position)
          /\ LastBut("factor", Deleveraging) =>
                Size(Dot(loading, target)) \preceq strategy.exposure
          /\ strategy.mode = "market_neutral" /\ ~Applied("tsmom") /\ ~Applied("factor") =>
                Total(target) = Zero
          /\ Applied("breaker") =>
                /\ tripped = Halted
                /\ tripped => target = Flat

(***************************************************************************)
(* OverlaysRestrain: an overlay that cannot lever adds no gross; one that  *)
(* can stays within its leverage; none turns a long into a short, except a *)
(* momentum gate that may (allow_short) and a factor limit that need not   *)
(* keep signs (preserve_signs=False, which no strategy here sets); those   *)
(* with one scale keep the proportions; and the position limit moves money *)
(* only out of positions over the cap, and keeps all of it invested when   *)
(* the cap leaves room.                                                    *)
(***************************************************************************)
OverlaysRestrain ==
    [][stage = "overlay" /\ rest # <<>> /\ rest' # rest =>
          LET overlay == Head(rest)
              room == Fraction(Cardinality(Assets), 1) \otimes strategy.position
          IN  /\ overlay \in {"vol", "kelly"} => Gross(book') \preceq strategy.leverage
              /\ overlay = "vix" =>
                    Gross(book') \preceq Gross(book) \otimes Greater(One, strategy.cap)
              /\ overlay \notin {"vol", "kelly", "vix"} => Gross(book') \preceq Gross(book)
              /\ \/ overlay = "tsmom" /\ strategy.allowShort
                 \/ overlay = "factor" /\ ~strategy.preserveSigns
                 \/ \A a \in Assets : Zero \preceq book[a] \otimes book'[a]
              /\ overlay \in {"regime", "vix", "vol", "kelly", "breaker"} =>
                    \A a, b \in Assets :
                        book'[a] \otimes book[b] = book'[b] \otimes book[a]
              /\ overlay = "limit" =>
                    /\ Gross(book) \preceq room => Gross(book') = Gross(book)
                    /\ \A a \in Assets :
                          book[a] \preceq strategy.position => book[a] \preceq book'[a]
      ]_vars
=============================================================================
