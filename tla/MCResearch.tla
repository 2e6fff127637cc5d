----------------------------- MODULE MCResearch ------------------------------
(***************************************************************************)
(* The parts of the research: a behaviour exercises one of them, they do   *)
(* not call each other, and leaves the others as they started.             *)
(***************************************************************************)
EXTENDS Fundamentals, Fractions, TLC

CONSTANTS
    exercisable, \* the parts to exercise
    NaN, Panels,
    Symbols,
    MaxTime, MaxCommits, MaxMatrices, MaxSupplied, MaxDay, MaxChanges \* bounds

(* None is no day, and an exception no book.                               *)
ASSUME ResearchAssumption ==
    None \notin Symbols /\ None \notin Int /\ Raised \notin [{1, 2, 3} -> Fractions]

VARIABLES
    exercised,
    clock, commits, kept, dirty, tree, csv, metadata, matrix, job, supplied,
    day, members, added, log, history,
    date, closes, splits, dividends, fair, shares, wealth,
    sessions, parameters, decided,
    strategy, solution, alive, stage, rest, book, loading, target, equity, operated, tripped,
    start, now, finalized, feed, accepted

Release == INSTANCE Release

Membership == INSTANCE Membership WITH today <- day

Adjustments == INSTANCE Adjustments WITH
    Prices <- {Fraction(2, 1), Fraction(4, 1)},
    Ratios <- {One, Fraction(2, 1), Fraction(1, 2)},
    Amounts <- {Zero, One}, MaxDay <- 3, Closed <- None, today <- date

Half == Fraction(1, 2)

Bar(open, high, low, close, volume) ==
    [open |-> open, high |-> high, low |-> low, close |-> close, volume |-> volume]

FoldLengths ==
    [train : {1, 2, 3}, test : {1, 2}, gap : {0, 1}, label : {0, 1, 2},
     mode : {"expanding", "rolling"}]

(* Two sessions make a month; the sessions are enough for a model that is  *)
(* trained, kept through a period, and replaced.                           *)
Decisions == INSTANCE Decisions WITH
    Symbols <- {1, 2}, MaxSessions <- 7, RegimeReturns <- 3, MinTrainRows <- 2,
    Month <- <<1, 1, 2, 2, 3, 3, 4>>, Period <- <<1, 1, 1, 1, 2, 2, 3>>,
    c <- parameters,
    Sessions <- {[closes |-> <<1, 1>>, news |-> {}, macro |-> 0,
                  bars |-> <<Bar(1, 1, 1, 1, 0), Bar(2, 3, 1, 1, 1)>>],
                 [closes |-> <<2, 1>>, news |-> {"open"}, macro |-> 1,
                  bars |-> <<Bar(1, 2, 1, 2, 2), Bar(1, 2, 1, 1, 1)>>],
                 [closes |-> <<1, 2>>, news |-> {"open", "late"}, macro |-> 0,
                  bars |-> <<Bar(2, 3, 1, 1, 1), Bar(2, 2, 1, 2, 3)>>]},
    Parameters <-
        {[lookback |-> 2, gap |-> gap, skip |-> 1, reversal |-> 1, count |-> 1,
          window |-> 2, betaWindow |-> 1, horizon |-> 1 + gap, label |-> 1 + 2 * gap,
          margin |-> 0,
          minMonths |-> 1, trainWindow |-> 4, minTrain |-> 1, maxTrain |-> 2,
          purge |-> 1, step |-> 1, lag |-> 1, newsLookback |-> 2,
          windows |-> {2, 3}, reports |-> {5}, studies |-> {6 * gap},
          portfolio |-> "reversal",
          rate |-> Half, yield |-> Half, evaluation |-> 4, folds |-> FoldLengths,
          detector |-> [maxLag |-> 2, minObs |-> 3, threshold |-> Fraction(81, 100),
                        targetThreshold |-> Fraction(97, 100)],
          ir |-> 3, vol |-> 5 - 3 * gap, vixWindow |-> 2, regime |-> TRUE,
          vixScale |-> TRUE, allowShort |-> gap = 1,
          decisions |-> {2, 4, 5, 6, 7} \ {2 * gap}] : gap \in {0, 1}}

(* Strategies: what the project ships, and overlays in the orders in which *)
(* a limit could be lost.                                                  *)
Two == Fraction(2, 1)
Plain ==
    [optimizer |-> "equal", mode |-> "long_only", lower |-> Negative(One), upper |-> One,
     order |-> <<2, 3, 1>>, views |-> {}, trained |-> FALSE,
     overlays |-> <<"regime">>, decisions |-> 1, maxGross |-> One,
     allowShort |-> FALSE, floor |-> Fraction(1, 4), cap |-> One,
     minScale |-> Zero, leverage |-> One, fraction |-> Half,
     exposure |-> Fraction(1, 4), preserveSigns |-> TRUE, position |-> Half,
     maxDrawdown |-> Fraction(1, 5), resetDrawdown |-> Fraction(1, 10), autoReset |-> FALSE]
Levered == [Plain EXCEPT !.leverage = Two, !.maxGross = Two]
Strategies ==
    {Plain,
     [Plain EXCEPT !.optimizer = "mean_variance", !.upper = Fraction(3, 4),
                   !.overlays = <<"regime", "vix", "limit">>],
     [Plain EXCEPT !.optimizer = "minimum_variance", !.lower = Fraction(1, 8),
                   !.overlays = <<"kama", "factor", "vix">>],
     [Plain EXCEPT !.optimizer = "risk_parity", !.upper = Half,
                   !.overlays = <<"breaker">>, !.autoReset = TRUE, !.decisions = 3],
     [Levered EXCEPT !.optimizer = "hrp",
                     !.overlays = <<"factor", "kelly", "breaker">>, !.decisions = 3],
     [Levered EXCEPT !.optimizer = "black_litterman", !.views = {"view"},
                     !.mode = "market_neutral", !.upper = Half,
                     !.overlays = <<"vol", "regime">>],
     [Levered EXCEPT !.optimizer = "black_litterman", !.overlays = <<"vix", "limit">>,
                     !.cap = Two],
     [Plain EXCEPT !.optimizer = "mean_variance", !.mode = "market_neutral",
                   !.overlays = <<"tsmom", "factor">>, !.allowShort = TRUE],
     [Plain EXCEPT !.optimizer = "drl", !.trained = TRUE,
                   !.overlays = <<"regime", "kama">>, !.decisions = 2]}

Vector(x, y, z) == <<Fraction(x, 1), Fraction(y, 1), Fraction(z, 1)>>

Overlays == INSTANCE Overlays WITH
    Assets <- {1, 2, 3}, Refused <- Raised, Pipelines <- Strategies,
    Solutions <- {Vector(1, 1, 1), Vector(2, 1, 1), Vector(4, 1, 0),
                  Vector(-1, 1, 3), Vector(-1, -1, 0)},
    Scales <- {Half, Fraction(3, 1)},
    Loadings <- {Vector(1, 0, -1), Vector(1, 1, 2)},
    Navs <- {Fraction(8, 1), Fraction(9, 1), Fraction(10, 1)}

(* Holidays on a Saturday, a Sunday, a Thursday and over Easter, and years *)
(* with fewer holidays.                                                    *)
Calendar == INSTANCE Calendar WITH
    today <- now, Ahead <- 6,
    Starts <- {<<2021, 12, 22>>, <<2022, 12, 21>>,
               <<2024, 3, 27>>, <<2026, 11, 24>>,
               <<2010, 12, 29>>, <<1997, 1, 1>>}

overlays == <<strategy, solution, alive, stage, rest, book, loading, target, equity,
              operated, tripped>>
release == <<clock, commits, kept, dirty, tree, csv, metadata, matrix, job, supplied>>
membership == <<day, members, added, log, history>>
calendar == <<start, now, finalized, feed, accepted>>
adjustments == <<date, closes, splits, dividends, fair, shares, wealth>>
decisions == <<sessions, parameters, decided>>

ResearchInit ==
    /\ exercised \in exercisable
    /\ Init
    /\ Release!Init
    /\ Membership!Init
    /\ Adjustments!Init
    /\ Decisions!Init
    /\ Overlays!Init
    /\ Calendar!Init
    /\ exercised # "membership" => members = Symbols /\ added = [s \in Symbols |-> None]
    /\ exercised # "adjustments" => closes[1] = One \oplus One
    /\ exercised # "decisions" => parameters.gap = 0
    /\ exercised # "overlays" => strategy = Plain
    /\ exercised # "calendar" => start = Calendar!Date(2021, 12, 22)

(* The first session of a panel is the base of its prices.                 *)
ResearchNext ==
    \/ /\ exercised = "fundamentals"
       /\ Next
       /\ UNCHANGED <<exercised, release, membership, adjustments, decisions, overlays, calendar>>
    \/ /\ exercised = "release"
       /\ Release!Next
       /\ UNCHANGED <<exercised, vars, membership, adjustments, decisions, overlays, calendar>>
    \/ /\ exercised = "membership"
       /\ Membership!Next
       /\ UNCHANGED <<exercised, vars, release, adjustments, decisions, overlays, calendar>>
    \/ /\ exercised = "adjustments"
       /\ Adjustments!Next
       /\ UNCHANGED <<exercised, vars, release, membership, decisions, overlays, calendar>>
    \/ /\ exercised = "decisions"
       /\ Decisions!Next
       /\ sessions'[1].closes = <<1, 1>>
       /\ UNCHANGED <<exercised, vars, release, membership, adjustments, overlays, calendar>>
    \/ /\ exercised = "overlays"
       /\ Overlays!Next
       /\ UNCHANGED <<exercised, vars, release, membership, adjustments, decisions, calendar>>
    \/ /\ exercised = "calendar"
       /\ Calendar!Next
       /\ UNCHANGED <<exercised, vars, release, membership, adjustments, decisions, overlays>>

ResearchSpec ==
    ResearchInit
    /\ [][ResearchNext]_<<exercised, vars, release, membership, adjustments, decisions,
                          overlays, calendar>>

Symmetry == Permutations(Panels)

-----------------------------------------------------------------------------
AllFields ==
    {"net_income", "ebitda", "gross_profit", "revenue", "operating_cashflow",
     "shares_outstanding", "book_value", "enterprise_value", "total_assets"}

(* Reports with every field, and reports without the flows.                *)
Reported ==
    {AllFields, {"shares_outstanding", "book_value", "enterprise_value", "total_assets"}}

(* Every variable of each part has its type.                               *)
ResearchTypes ==
    /\ TypeOK
    /\ Release!TypeOK
    /\ Membership!TypeOK
    /\ Adjustments!TypeOK
    /\ Decisions!TypeOK
    /\ Overlays!TypeOK
    /\ Calendar!TypeOK

(* A published paper was built from one release (Release).                 *)
PdfIsOneRelease == Release!PdfIsOneRelease

(* A rerun gives what was reviewed (Release).                              *)
RerunsReproduceReviewed == Release!RerunsReproduceReviewed

(* Who was a member is what PITMembership says (Membership).               *)
MembershipIsHistory == Membership!MembershipIsHistory

(* Adjusted closes have the returns of a holder (Adjustments).             *)
ReturnsArePreserved == Adjustments!ReturnsArePreserved

(* No decision depends on a later session (Decisions), and a live one on   *)
(* none that is not over (Calendar).                                       *)
DecisionsStand == Decisions!NothingForeseen /\ Calendar!ActsOnFinalSessions

(* required_history is the history that nothing falls back for (Decisions). *)
HistorySuffices == Decisions!HistorySuffices

(* The targets of a strategy keep every limit (Overlays).                  *)
TargetsWithinLimits == Overlays!TargetsWithinLimits

(* No overlay adds risk it is not meant to add (Overlays).                 *)
OverlaysRestrain == Overlays!OverlaysRestrain
=============================================================================
