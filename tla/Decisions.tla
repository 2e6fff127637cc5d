----------------------------- MODULE Decisions -------------------------------
(***************************************************************************)
(* Research and live trading ask the same code: what is decided at the     *)
(* close of a session, from a panel that ends there, against what a study  *)
(* computes for that decision from the panel as it is later.               *)
(***************************************************************************)
EXTENDS Strategies

CONSTANTS
    Symbols, Month, Raised,
    Sessions,    \* the sessions there may be: closes, headlines, observation
    Parameters,  \* the parameters the models may be constructed with
    MaxSessions  \* bound

VARIABLES
    sessions, \* the sessions so far
    c,        \* the parameters
    decided   \* decided[n]: what was decided at the close of session n

vars == <<sessions, c, decided>>

Alpha == INSTANCE Alpha158
Judged == INSTANCE Evaluation
Study == INSTANCE Studies

Column(T, field) == [n \in DOMAIN T |-> T[n][field]]

(* What the panel T says of the decision at session n.  The factors are    *)
(* columns; a strategy answers when there is a return.                     *)
Factors(T, n) ==
    LET P == Column(T, "closes")
    IN  <<Momentum(P, n, c.lookback, c.gap), ResidualMomentum(P, n, c), Composite(P, n, c),
          CrossSectional(P, n, c), MacroFeatures(Column(T, "macro"), n, c),
          KamaGates(BuildContext(P, n), c), TsmomGates(BuildContext(P, n), c)>>

GenerateWeights(T, n) ==
    LET P == Column(T, "closes")
    IN  IF n < 2 \/ n \notin c.decisions THEN <<>>
        ELSE <<MultiAssetRotation(P, n, c), MacroTiming(P, n, c),
               MomentumML(P, c.decisions, n, c),
               Sentiment(P, Column(T, "news"), n, c), DRL(P, c.decisions, n, c)>>

Bars(T, s) == [n \in DOMAIN T |-> T[n].bars[s]]

Features(T, n) == [s \in Symbols |-> Alpha!Compute(Bars(T, s), n, c.windows)]

(* A report on the close as a factor, over the dates whose payoff is known *)
(* at session n.                                                           *)
Gains(P) ==
    [n \in DOMAIN P |->
        [s \in Symbols |-> IF n = 1 THEN NaN ELSE Judged!Fraction(P[n][s], P[n - 1][s])]]

Values(P) == [n \in DOMAIN P |-> [s \in Symbols |-> Judged!Fraction(P[n][s], 1)]]

Evidence(T, n) ==
    LET P == Column(T, "closes")
        dates == 1..n - c.lag
        payoffs == [m \in dates |-> Judged!Payoff(Gains(P), m, c.lag)]
    IN  IF n \notin c.reports THEN NaN ELSE Judged!Report(SubSeq(Values(P), 1, n - c.lag), payoffs, 2)

Studied(T, n) ==
    IF n \in c.studies THEN Study!Reported(Column(T, "closes"), n, c) ELSE NaN

Answer(T, n) ==
    [studied |-> Studied(T, n),
     features |-> Features(T, n),
     evidence |-> Evidence(T, n),
     portfolios |-> Study!Portfolios(Column(T, "closes"), n, c),
     learned |-> Study!LearnedTargets(Column(T, "closes"), n, c),
     factors |-> Factors(T, n),
     strategies |-> GenerateWeights(T, n)]

Init ==
    /\ sessions = <<>>
    /\ c \in Parameters
    /\ decided = <<>>

Close ==
    /\ Len(sessions) < MaxSessions
    /\ \E s \in Sessions : sessions' = Append(sessions, s)
    /\ decided' = Append(decided, Answer(sessions', Len(sessions')))
    /\ UNCHANGED c

Next == Close

Spec == Init /\ [][Next]_vars

-----------------------------------------------------------------------------
(* Weights are long only and need no borrowing, and so does the comparator *)
(* with the same exposure.                                                 *)
TypeOK ==
    /\ sessions \in Seq(Sessions) /\ c \in Parameters
    /\ Len(decided) = Len(sessions)
    /\ LET P == Column(sessions, "closes")
       IN  Len(sessions) \in c.reports => Judged!LifeWithinLags(Judged!Decay(Values(P), Gains(P), 3))
    /\ \A n \in DOMAIN decided :
          \A name \in DOMAIN decided[n].portfolios :
             LET weights == decided[n].portfolios[name]
             IN  weights # Raised =>
                    /\ Study!Funded(weights)
                    /\ Study!Total(Study!ComparatorTargets(weights)) = Study!Total(weights)

(***************************************************************************)
(* NothingForeseen: whatever sessions follow, a study of the longer panel  *)
(* decides for a session what was decided when it closed: no label, model, *)
(* observation or headline of a later session enters, in columns computed  *)
(* over the whole panel or in models kept from decision to decision.       *)
(***************************************************************************)
(* The folds of walk-forward tests keep labels apart, and the detector of  *)
(* features that look ahead knows a copy of the future from one of the past. *)
NothingForeseen ==
    /\ \A n \in 1..Len(decided) - 1 : decided[n] = Answer(sessions, n)
    /\ Len(sessions) \in c.studies =>
          Study!StudyAddsUp(Column(sessions, "closes"), c)
    /\ \A w \in c.folds : Judged!FoldsApart(Len(sessions), w)
    /\ LET closes == Column(sessions, "closes")
       IN  \A s \in Symbols :
              Judged!DetectsShifts([n \in DOMAIN closes |-> closes[n][s]], c.detector)

(***************************************************************************)
(* HistorySuffices: required_history is exactly the history from which no  *)
(* part of MultiAssetRotation falls back: both residual windows, the       *)
(* information ratio, the volatility of the last regime row and the proxy  *)
(* for VIX are whole, and no overlay is neutral for want of data.          *)
(***************************************************************************)
FullWindows(n) ==
    /\ HasResidual(n, c)
    /\ InformationWindow(n, c) = (n - c.ir)..n /\ n - c.ir >= 1
    /\ FormationWindow(n, c) = (n - c.gap - c.lookback)..(n - c.gap)
    /\ EstimationWindow(n, c) \subseteq 1..n
    /\ c.regime => n - 1 >= RegimeReturns /\ n - c.vol >= 1
    /\ c.vixScale => VixWindow(n, c) = (n - c.vixWindow)..n /\ n - c.vixWindow >= 1

HistorySuffices ==
    \A n \in DOMAIN sessions : n >= RequiredHistory(c) <=> FullWindows(n)
=============================================================================
