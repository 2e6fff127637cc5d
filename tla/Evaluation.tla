----------------------------- MODULE Evaluation ------------------------------
(***************************************************************************)
(* How a factor is judged: folds that walk forward, information            *)
(* coefficients against forward returns, quantiles, and the detector of    *)
(* features that look ahead.  A cross-section is a function from symbols   *)
(* to fractions or NaN, a column a sequence of numbers or NaN.             *)
(***************************************************************************)
EXTENDS Fractions, FiniteSets, FiniteSetsExt, Sequences

CONSTANT NaN

(* WalkForwardOptimizer.split, over the indices 0 .. n - 1: the k-th fold, *)
(* its training rows purged of those whose labels reach past the training  *)
(* window.                                                                 *)
Fold(k, w) ==
    LET trainEnd == w.train + k * w.test
        start == IF w.mode = "expanding" THEN 0 ELSE trainEnd - w.train
        testStart == trainEnd + w.gap
    IN  [train |-> start..trainEnd - w.label - 1,
         test |-> testStart..testStart + w.test - 1]

(* Folds that fit, except those that the purge empties.                    *)
Split(n, w) == {fold \in {Fold(k, w) : k \in 0..n} : fold.train # {} /\ Max(fold.test) < n}

(* The label of a training row has ended before the embargo, no row is     *)
(* tested twice, and none is left out between two that are tested.         *)
FoldsApart(n, w) ==
    LET folds == Split(n, w)
        tested == UNION {fold.test : fold \in folds}
    IN  /\ \A fold \in folds :
              \A m \in fold.train, t \in fold.test : m + w.label + w.gap < t
        /\ Cardinality(tested) = w.test * Cardinality(folds)
        /\ tested # {} => tested = Min(tested)..Max(tested)

-----------------------------------------------------------------------------
(* FactorDecay._forward_return: the return over a trailing window of lag   *)
(* rows, shifted back by lag.  R[n] is the gross return over the session n. *)
Compounded(R, n, lag) ==
    IF n < lag \/ \E m \in n - lag + 1..n : R[m] = NaN THEN NaN
    ELSE FoldFunction(LAMBDA a, b : a \otimes b, One, [m \in n - lag + 1..n |-> R[m]])

ForwardReturn(R, n, lag) == IF n + lag > Len(R) THEN NaN ELSE Compounded(R, n + lag, lag)

Known(x) == {s \in DOMAIN x : x[s] # NaN}

(* Twice the average rank of a value in a cross-section.                   *)
Rank(x, s) ==
    2 * Cardinality({t \in DOMAIN x : x[t] \prec x[s]}) +
        Cardinality({t \in DOMAIN x : x[t] = x[s]}) + 1

Ranks(x) == [s \in DOMAIN x |-> Rank(x, s)]

(* Covariance of two vectors of integers, times the square of their size.  *)
SumOf(f) == FoldFunction(+, 0, f)

Covariance(x, y) ==
    Cardinality(DOMAIN x) * SumOf([s \in DOMAIN x |-> x[s] * y[s]]) - SumOf(x) * SumOf(y)

(* compute_information_coefficient for one date.  Without ties both        *)
(* variances are the same; with ties among three names or more the         *)
(* coefficient is irrational, and no instance has three.                   *)
Coefficient(a, b) ==
    IF Cardinality(DOMAIN a) < 2 \/ 0 \in {Covariance(a, a), Covariance(b, b)} THEN NaN
    ELSE Fraction(Covariance(a, b), Covariance(a, a))

InformationCoefficient(x, y) ==
    LET pairs == Known(x) \cap Known(y)
    IN  Coefficient(Ranks(Restrict(x, pairs)), Ranks(Restrict(y, pairs)))

Mean(f) ==
    IF DOMAIN f = {} THEN NaN ELSE Total(f) \oslash Fraction(Cardinality(DOMAIN f), 1)

Average(f) == Mean(Restrict(f, Known(f)))

(* FactorDecay.compute: the mean coefficient at each lag; F[n] and R[n]     *)
(* are cross-sections.                                                     *)
Payoff(R, n, lag) ==
    [s \in DOMAIN R[1] |-> ForwardReturn([m \in DOMAIN R |-> R[m][s]], n, lag)]

Decay(F, R, maxLag) ==
    [lag \in 1..maxLag |->
        Average([n \in DOMAIN F |-> InformationCoefficient(F[n], Payoff(R, n, lag))])]

Interpolated(decay, before, last) ==
    LET drop == Size(decay[before]) \ominus Size(decay[last])
        excess == Size(decay[before]) \ominus (Size(decay[1]) \oslash Fraction(2, 1))
    IN  Fraction(before, 1) \oplus ((excess \oslash drop) \otimes Fraction(last - before, 1))

(* FactorDecay.half_life: interpolated between the first lag at which half *)
(* is lost and the known lag before it.                                    *)
HalfLife(decay) ==
    LET known == Known(decay) \ {1}
        halved == {l \in known : Size(decay[l]) \otimes Fraction(2, 1) \preceq Size(decay[1])}
        last == Min(halved)
    IN  IF decay[1] = NaN \/ decay[1] = Zero THEN NaN
        ELSE IF halved = {} THEN "inf"
        ELSE Interpolated(decay, Max({1} \cup {l \in known : l < last}), last)

(* Half of the first coefficient is lost after the first lag.              *)
LifeWithinLags(decay) ==
    \A life \in {HalfLife(decay)} \ {NaN, "inf"} :
        One \prec life /\ life \preceq Fraction(Len(decay), 1)

-----------------------------------------------------------------------------
(* _quantile_labels: the edges are quantiles of the ranks, interpolated    *)
(* between the two nearest; a label that nobody has makes the date void.   *)
Smallest(x, k) ==
    CHOOSE v \in Range(x) :
        /\ Cardinality({s \in DOMAIN x : x[s] < v}) < k
        /\ k <= Cardinality({s \in DOMAIN x : x[s] <= v})

Edge(x, j, quantiles) ==
    LET position == (Cardinality(DOMAIN x) - 1) * j
        k == position \div quantiles + 1
        part == position % quantiles
        next == IF part = 0 THEN k ELSE k + 1
    IN  Fraction(Smallest(x, k) * (quantiles - part) + Smallest(x, next) * part, quantiles)

Labels(ranks, quantiles) ==
    [s \in DOMAIN ranks |->
        Min({j \in 1..quantiles : Fraction(ranks[s], 1) \preceq Edge(ranks, j, quantiles)})]

WholeLabels(labels, quantiles) == IF Range(labels) = 1..quantiles THEN labels ELSE <<>>

QuantileLabels(row, quantiles) ==
    WholeLabels(Labels(Ranks(Restrict(row, Known(row))), quantiles), quantiles)

(* quantile_returns: the mean of each bucket at each date, and of the      *)
(* spread between the last and the first at the dates that have both.      *)
QuantileReturns(L, Y, quantiles) ==
    [q \in 1..quantiles |->
        [n \in DOMAIN L |->
            Average([s \in {s \in DOMAIN L[n] : L[n][s] = q} |-> Y[n][s]])]]

Spread(bottom, top) ==
    Average([n \in Known(top) \cap Known(bottom) |-> top[n] \ominus bottom[n]])

(* factor_turnover: against the last date that had a top bucket.           *)
FactorTurnover(top) ==
    [n \in DOMAIN top |->
        LET earlier == {m \in 1..n - 1 : top[m] # {}}
        IN  IF top[n] = {} \/ earlier = {} THEN NaN
            ELSE Fraction(Cardinality(top[n] \ top[Max(earlier)]), Cardinality(top[n]))]

(* AlphalensReport.compute.                                                *)
Summary(ic, by, top) ==
    [ic |-> ic, mean |-> Average(ic),
     hits |-> Cardinality({n \in Known(ic) : Zero \prec ic[n]}),
     quantiles |-> [q \in DOMAIN by |-> Average(by[q])],
     spread |-> Spread(by[1], by[Len(by)]),
     turnover |-> FactorTurnover(top)]

Judgement(F, Y, L, quantiles) ==
    Summary([n \in DOMAIN F |-> InformationCoefficient(F[n], Y[n])],
            QuantileReturns(L, Y, quantiles),
            [n \in DOMAIN F |-> {s \in DOMAIN L[n] : L[n][s] = quantiles}])

Report(F, Y, quantiles) ==
    Judgement(F, Y, [n \in DOMAIN F |-> QuantileLabels(F[n], quantiles)], quantiles)

-----------------------------------------------------------------------------
(* LookaheadDetector: rows without a value at either end of a column.      *)
LeadingNans(col) == IF Known(col) = {} THEN Len(col) ELSE Min(Known(col)) - 1

TrailingNans(col) == IF Known(col) = {} THEN Len(col) ELSE Len(col) - Max(Known(col))

Shift(col, lag) ==
    [n \in DOMAIN col |-> IF n - lag \in DOMAIN col THEN col[n - lag] ELSE NaN]

(* The square of a correlation, or nothing for too few pairs or a constant. *)
Explained(covariance, variances) ==
    IF variances = 0 THEN Zero ELSE Fraction(covariance ^ 2, variances)

Correlated(a, b, minObs) ==
    IF Cardinality(DOMAIN a) < minObs THEN Zero
    ELSE Explained(Covariance(a, b), Covariance(a, a) * Covariance(b, b))

Correlation(x, y, minObs) ==
    LET pairs == Known(x) \cap Known(y)
    IN  Correlated(Restrict(x, pairs), Restrict(y, pairs), minObs)

Best(col, ref, lags, d) ==
    FoldSet(Greater, Zero, {Correlation(col, Shift(ref, lag), d.minObs) : lag \in lags})

CheckTrailingNans(col) == TrailingNans(col) > LeadingNans(col)

(* The thresholds are squares too.  A margin of zero: what counts is that  *)
(* a later lag explains more.                                              *)
CheckReferenceAlignment(col, ref, d) ==
    LET future == Best(col, ref, -d.maxLag..-1, d)
    IN  d.threshold \preceq future /\ Best(col, ref, 0..d.maxLag, d) \prec future

CheckTargetLeakage(col, target, d) ==
    d.targetThreshold \preceq Correlation(col, target, d.minObs)

Scan(col, target, ref, d) ==
    {check \in {"trailing", "reference", "target"} :
        CASE check = "trailing" -> CheckTrailingNans(col)
          [] check = "reference" -> CheckReferenceAlignment(col, ref, d)
          [] check = "target" -> target # NaN /\ CheckTargetLeakage(col, target, d)}

(* A copy of what is known is clean, a copy of what is to come is found.   *)
DetectsShifts(ref, d) ==
    \A lag \in 0..d.maxLag :
        /\ Scan(Shift(ref, lag), NaN, ref, d) = {}
        /\ lag \in 1..Len(ref) - 1 => Scan(Shift(ref, -lag), NaN, ref, d) # {}
=============================================================================
