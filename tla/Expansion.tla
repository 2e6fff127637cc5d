----------------------------- MODULE Expansion -------------------------------
(***************************************************************************)
(* The portfolios of the frozen expansion protocol (research/expansion.py). *)
(* A panel is a sequence of sessions, each with the closes of all symbols;  *)
(* the study computes the targets of every decision from the whole panel.  *)
(* Symbols are numbers, so that their order is the alphabetical one.  What *)
(* a fitted model says is known by what it was fitted to and asked about.    *)
(* In a record c are the parameters of the protocol.                       *)
(***************************************************************************)
EXTENDS Fractions, FiniteSets, FiniteSetsExt, Sequences

CONSTANTS
    Symbols,
    Month,   \* Month[n]: the month of session n
    Raised

(* monthly_decision_dates: the first session of each month in the window.  *)
MonthlyDecisionDates(P, start, end) ==
    LET selected == {n \in DOMAIN P : start <= n /\ n <= end}
    IN  {n \in selected : ~\E m \in selected : m < n /\ Month[m] = Month[n]}

(* Mutant: ties are not broken.                                            *)
PrecedesByValue(values, s, t) == values[s] \prec values[t]

(* _ordered_symbols: ties go to the first symbol.  The first k.            *)
Precedes(values, s, t) ==
    \/ values[s] \prec values[t]
    \/ values[s] = values[t] /\ s < t

Lowest(values, k) ==
    {s \in DOMAIN values : Cardinality({t \in DOMAIN values : Precedes(values, t, s)}) < k}

Highest(values, k) == Lowest([s \in DOMAIN values |-> Negative(values[s])], k)

Weighted(selected, count) ==
    [s \in Symbols |-> IF s \in selected THEN Fraction(1, count) ELSE Zero]

Growth(P, n, m) == [s \in Symbols |-> Fraction(P[n][s], P[m][s])]

(* _decision_position: a decision needs its history.                       *)
HasHistory(n, sessions) == n > sessions

TimeSeriesMomentumTargets(P, n, c) ==
    IF ~HasHistory(n, c.lookback) THEN Raised
    ELSE LET signal == Growth(P, n, n - c.lookback)
             selected == {s \in Symbols : One \prec signal[s]}
         IN  Weighted(selected, Max({1, Cardinality(selected)}))

CrossSectionalMomentumTargets(P, n, c) ==
    IF ~HasHistory(n, c.lookback) THEN Raised
    ELSE Weighted(Highest(Growth(P, n - c.skip, n - c.lookback), c.count),
                  c.count)

(* The part of an unused slot stays in cash.                               *)
ShortTermReversalTargets(P, n, c) ==
    IF ~HasHistory(n, c.reversal) THEN Raised
    ELSE LET trailing == Growth(P, n, n - c.reversal)
             eligible == {s \in Symbols : trailing[s] \prec One}
         IN  Weighted(Lowest(Restrict(trailing, eligible), c.count), c.count)

(* _learned_feature_table: what a decision's features and label are made   *)
(* of, for the decisions with enough history.                              *)
Features(P, n, c) == SubSeq(P, n - c.window, n)

Label(P, n, c) == <<P[n], P[n + c.label]>>

FeatureDates(P, c) ==
    {n \in MonthlyDecisionDates(P, 1, Len(P)) : HasHistory(n, c.window)}

LabelDates(P, c) == {n \in FeatureDates(P, c) : n + c.label <= Len(P)}

(* Mutant: labels are used before their horizon has passed.                *)
CandidatesUnripe(P, n, c) == {m \in LabelDates(P, c) : m < n}

(* Labels that have ended at the decision.                                 *)
Candidates(P, n, c) == {m \in LabelDates(P, c) : m + c.label <= n}

Latest(dates, k) == {m \in dates : Cardinality({l \in dates : l > m}) < k}

LearnedTargets(P, n, c) ==
    LET selected == Latest(Candidates(P, n, c), c.maxTrain)
    IN  IF n \notin FeatureDates(P, c) \/ Cardinality(selected) < c.minMonths THEN Raised
        ELSE [train |-> {<<Features(P, m, c), Label(P, m, c)>> : m \in selected},
              current |-> Features(P, n, c)]

(* exposure_matched_comparator_targets.                                    *)
ComparatorTargets(weights) ==
    [s \in Symbols |-> Total(weights) \oslash Fraction(Cardinality(Symbols), 1)]

Portfolios(P, n, c) ==
    [time_series |-> TimeSeriesMomentumTargets(P, n, c),
     cross_sectional |-> CrossSectionalMomentumTargets(P, n, c),
     reversal |-> ShortTermReversalTargets(P, n, c)]

Funded(weights) ==
    /\ \A s \in Symbols : Zero \preceq weights[s]
    /\ Total(weights) \preceq One
=============================================================================
