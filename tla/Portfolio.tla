----------------------------- MODULE Portfolio -------------------------------
(***************************************************************************)
(* The weight contracts and the optimisers (quantcortex/portfolio).  What   *)
(* a numerical solver returns is an argument; what is done with it until   *)
(* the book leaves optimize() is modelled, in exact arithmetic.  A vector   *)
(* is a function from assets; Refused stands for an exception, also where   *)
(* a solution is expected: the solver failed, or the panel it was to be     *)
(* solved for has fewer than two complete rows.                            *)
(***************************************************************************)
EXTENDS Fractions, FiniteSets, Sequences

CONSTANTS Assets, Refused

PlusMinusOne == [lower |-> Negative(One), upper |-> One]

TargetSum(mode) == IF mode = "long_only" THEN One ELSE Zero

InBox(w, lower, upper) == \A a \in DOMAIN w : lower \preceq w[a] /\ w[a] \preceq upper

EnforceWeightContract(w, mode, box) ==
    IF /\ w # Refused
       /\ DOMAIN w # {}
       /\ mode = "long_only" => \A a \in DOMAIN w : Zero \preceq w[a]
       /\ InBox(w, box.lower, box.upper)
       /\ Total(w) = TargetSum(mode)
      THEN w ELSE Refused

EnforceExposureContract(w, maxGross, box) ==
    IF /\ w # Refused
       /\ DOMAIN w # {}
       /\ InBox(w, box.lower, box.upper)
       /\ Gross(w) \preceq maxGross
      THEN w ELSE Refused

Clip(x, lower, upper) == Lesser(Greater(x, lower), upper)

Clipped(w, lower, upper) == [a \in DOMAIN w |-> Clip(w[a], lower, upper)]

Centred(w) ==
    LET mean == Total(w) \oslash Fraction(Cardinality(DOMAIN w), 1)
    IN  [a \in DOMAIN w |-> w[a] \ominus mean]

NormalizeLongOnly(raw) ==
    LET floored == [a \in DOMAIN raw |-> Greater(raw[a], Zero)]
    IN  IF Total(floored) = Zero THEN Refused ELSE Scaled(floored, One \oslash Total(floored))

NormalizeMarketNeutral(raw) ==
    LET demeaned == Centred(raw)
    IN  IF Gross(demeaned) = Zero THEN Refused
        ELSE Centred(Clipped(Scaled(demeaned, One \oslash Gross(demeaned)),
                             Negative(One), One))

(***************************************************************************)
(* project_bounded_sum: the theta the bisection converges to makes the     *)
(* clipped vector sum to the target; it follows from which weights are at   *)
(* a bound.                                                                *)
(***************************************************************************)
Feasible(count, target, lower, upper) ==
    /\ Fraction(count, 1) \otimes lower \preceq target
    /\ target \preceq Fraction(count, 1) \otimes upper

Thetas(raw, target, lower, upper) ==
    LET splits == {p \in (SUBSET DOMAIN raw) \X (SUBSET DOMAIN raw) :
                      p[1] \cap p[2] = {} /\ p[1] \cup p[2] # DOMAIN raw}
        free(p) == DOMAIN raw \ (p[1] \cup p[2])
        bound(p) == (Fraction(Cardinality(p[1]), 1) \otimes lower)
                       \oplus (Fraction(Cardinality(p[2]), 1) \otimes upper)
    IN  {((Total(Restrict(raw, free(p))) \oplus bound(p)) \ominus target)
            \oslash Fraction(Cardinality(free(p)), 1) : p \in splits}

ProjectBoundedSum(raw, target, lower, upper) ==
    LET count == Fraction(Cardinality(DOMAIN raw), 1)
        shifted(theta) == Clipped([a \in DOMAIN raw |-> raw[a] \ominus theta], lower, upper)
    IN  IF ~Feasible(Cardinality(DOMAIN raw), target, lower, upper) THEN Refused
        ELSE IF target = count \otimes lower THEN [a \in DOMAIN raw |-> lower]
        ELSE IF target = count \otimes upper THEN [a \in DOMAIN raw |-> upper]
        ELSE shifted(CHOOSE theta \in Thetas(raw, target, lower, upper) :
                        Total(shifted(theta)) = target)

-----------------------------------------------------------------------------
(* PortfolioOptimizer: o has the mode and the bounds of a weight.          *)
Floor(o) == IF o.mode = "long_only" THEN Greater(Zero, o.lower) ELSE o.lower

ProjectConfiguredBounds(w, o) ==
    IF w = Refused THEN Refused
    ELSE ProjectBoundedSum(w, TargetSum(o.mode), Floor(o), o.upper)

Optimize(raw, o) == EnforceWeightContract(raw, o.mode, o)

EqualWeight(columns) == [a \in columns |-> Fraction(1, Cardinality(columns))]

Single(columns, o) ==
    ProjectConfiguredBounds([a \in columns |-> TargetSum(o.mode)], o)

(* Solvers: the solution is projected onto the feasible weights.  An asset *)
(* on its own needs none.                                                  *)
MeanVarianceSubset(solution, columns, o) ==
    IF Cardinality(columns) = 1 THEN Single(columns, o)
    ELSE IF solution = Refused THEN Refused
    ELSE IF o.mode = "market_neutral"
      THEN ProjectConfiguredBounds(NormalizeMarketNeutral(Restrict(solution, columns)), o)
      ELSE ProjectConfiguredBounds(Restrict(solution, columns), o)

MinimumVarianceSubset(solution, columns, o) ==
    IF Cardinality(columns) = 1 THEN Single(columns, o)
    ELSE IF solution = Refused THEN Refused
    ELSE ProjectConfiguredBounds(Restrict(solution, columns), o)

(* The log barrier keeps the solution positive.                            *)
RiskParitySubset(solution, columns, o) ==
    IF Cardinality(columns) = 1 THEN Single(columns, o)
    ELSE IF solution = Refused THEN Refused
    ELSE ProjectConfiguredBounds(NormalizeLongOnly(Restrict(solution, columns)), o)

(* Assets without two observations get no weight, if the bounds let them.  *)
OnAlive(w, alive, o) ==
    LET whole == IF o.mode = "long_only" THEN One \oslash Total(w) ELSE One
    IN  IF \/ alive = {}
           \/ alive # Assets /\ ~(Floor(o) \preceq Zero /\ Zero \preceq o.upper)
           \/ w = Refused
          THEN Refused
          ELSE [a \in Assets |-> IF a \in alive THEN w[a] \otimes whole ELSE Zero]

MeanVariance(solution, alive, o) ==
    OnAlive(MeanVarianceSubset(solution, alive, o), alive, o)

MinimumVariance(solution, alive, o) ==
    OnAlive(MinimumVarianceSubset(solution, alive, o), alive, o)

RiskParity(solution, alive, o) ==
    OnAlive(RiskParitySubset(solution, alive, o), alive, o)

(* Hierarchical risk parity: variance tells the assets apart, order is the *)
(* leaf order of the clusters.                                             *)
InverseVariance(variance, items) ==
    Total([i \in DOMAIN items |-> One \oslash variance[items[i]]])

ClusterVariance(variance, items) == One \oslash InverseVariance(variance, items)

(* _get_rec_bipart: of a cluster's capital, the part each asset gets.      *)
RecBipart(variance) ==
    LET parts[items \in Seq(Assets)] ==
          IF Len(items) = 1 THEN [a \in Range(items) |-> One]
          ELSE LET left == SubSeq(items, 1, Len(items) \div 2)
                   right == SubSeq(items, Len(items) \div 2 + 1, Len(items))
                   v == ClusterVariance(variance, left)
                   alpha == One \ominus (v \oslash (v \oplus ClusterVariance(variance, right)))
               IN  [a \in Range(items) |->
                      IF a \in Range(left) THEN parts[left][a] \otimes alpha
                                           ELSE parts[right][a] \otimes (One \ominus alpha)]
    IN  parts

HierarchicalRiskParity(variance, order, alive, o) ==
    IF alive # Assets \/ variance = Refused THEN Refused
    ELSE IF Cardinality(Assets) = 1 THEN Single(Assets, o)
    ELSE IF \E a \in Assets : variance[a] \preceq Zero THEN Refused
    ELSE ProjectConfiguredBounds(RecBipart(variance)[order], o)

(* Black-Litterman: without views the market's own weights.                *)
MarketWeights(caps) ==
    IF (\E a \in DOMAIN caps : caps[a] \prec Zero) \/ Total(caps) = Zero THEN Refused
    ELSE Scaled(caps, One \oslash Total(caps))

BlackLitterman(caps, views, posterior, alive, o) ==
    LET market == MarketWeights(caps)
        raw == IF views = {} THEN market ELSE posterior
    IN  IF alive # Assets \/ posterior = Refused THEN Refused
        ELSE IF Cardinality(Assets) = 1 THEN Single(Assets, o)
        ELSE IF market = Refused THEN Refused
        ELSE ProjectConfiguredBounds(
                IF o.mode = "long_only" THEN NormalizeLongOnly(raw)
                ELSE NormalizeMarketNeutral(raw), o)

(* The softmax of an action: positive, ordered as the action.              *)
Softmax(action) ==
    LET least == CHOOSE x \in {action[a] : a \in DOMAIN action} :
                    \A a \in DOMAIN action : x \preceq action[a]
    IN  NormalizeLongOnly([a \in DOMAIN action |-> One \oplus (action[a] \ominus least)])

(* DRLAllocator: a trained policy must be told a book it could hold.  An   *)
(* untrained one that may not fall back on its heuristic has no action.    *)
DRLAllocator(trained, action, previous, alive, o) ==
    IF alive # Assets THEN Refused
    ELSE IF Cardinality(Assets) = 1 THEN Single(Assets, o)
    ELSE IF trained /\ EnforceExposureContract(previous, One, [lower |-> Zero, upper |-> One])
                          = Refused
      THEN Refused
    ELSE IF action = Refused THEN Refused
    ELSE ProjectConfiguredBounds(Softmax(action), o)
=============================================================================
