---------------------------- MODULE Adjustments ------------------------------
(***************************************************************************)
(* Splits and dividends (data/processors/adjustments.py): prices of one    *)
(* symbol come in session by session, with corporate actions effective on  *)
(* days with and without a session; back-adjusted closes are computed from *)
(* all that is known.  Against them stands what one share became for       *)
(* somebody who reinvested each dividend, kept forward day by day, at what *)
(* the last close is worth after the actions since.  Amounts are per share *)
(* before a split of the same day, as apply_adjustments takes them.        *)
(***************************************************************************)
EXTENDS Fractions

CONSTANTS
    Prices, Ratios, Amounts, \* closes, split ratios and dividends, as fractions
    MaxDay,                  \* bound
    Closed                   \* no session on a day

VARIABLES
    today,
    closes,    \* raw closes of the sessions, by day
    splits,    \* split ratios by effective day
    dividends, \* amounts by ex-date
    fair,      \* what the last close is worth after the actions since
    shares,    \* what one share has become
    wealth     \* what it was worth at each session

vars == <<today, closes, splits, dividends, fair, shares, wealth>>

Sessions == DOMAIN closes

Latest(days) == CHOOSE d \in days : \A e \in days : e <= d

(* Mutant: the close of the ex-date itself is taken for the prior close.   *)
PriorCloseSame(day) == closes[Latest({d \in Sessions : d <= day})]

(* The last close strictly before an ex-date.                              *)
PriorClose(day) == closes[Latest({d \in Sessions : d < day})]

Product(f) == FoldFunction(LAMBDA a, b : a \otimes b, One, f)

(* _split_factors: a close before a split is divided by its ratio.         *)
SplitFactor(d, known) ==
    Product([e \in {e \in known : e > d /\ splits[e] # One} |-> One \oslash splits[e]])

(* _dividend_factors: and before an ex-date scaled by 1 - amount / close.  *)
DividendFactor(d, known) ==
    Product([e \in {e \in known : e > d /\ dividends[e] # Zero} |->
                One \ominus (dividends[e] \oslash PriorClose(e))])

(* apply_adjustments: adj_close from some of the actions.                  *)
AdjustedClose(S, D) ==
    [d \in Sessions |->
        closes[d] \otimes SplitFactor(d, S) \otimes DividendFactor(d, D)]

(* validate_adjustment: the factors a series implies, relative to its last *)
(* day, are those of all the actions.                                      *)
ValidAdjustment(adjusted) ==
    LET implied == [d \in Sessions |-> adjusted[d] \oslash closes[d]]
        expected == [d \in Sessions |-> SplitFactor(d, DOMAIN splits)
                                        \otimes DividendFactor(d, DOMAIN dividends)]
        last == Latest(Sessions)
    IN  \A d \in Sessions :
            implied[d] \oslash implied[last] = expected[d] \oslash expected[last]

-----------------------------------------------------------------------------
Init ==
    /\ today = 1
    /\ \E p \in Prices :
          /\ closes = [d \in {1} |-> p]
          /\ fair = p
          /\ wealth = [d \in {1} |-> p]
    /\ splits = [d \in {} |-> One]
    /\ dividends = [d \in {} |-> Zero]
    /\ shares = One

Extended(f, d, v) == [e \in DOMAIN f \cup {d} |-> IF e = d THEN v ELSE f[e]]

(* A day passes, with or without a session, a split and a dividend.  A     *)
(* dividend not smaller than the prior close is refused as bad data, and   *)
(* nobody pays out all that a share is worth.                              *)
NextDay ==
    /\ today < MaxDay
    /\ today' = today + 1
    /\ \E p \in Prices \cup {Closed}, r \in Ratios, a \in Amounts :
          /\ a \prec closes[Latest(Sessions)] /\ a \prec fair
          /\ splits' = Extended(splits, today', r)
          /\ dividends' = Extended(dividends, today', a)
          /\ shares' = shares \otimes r \otimes (fair \oslash (fair \ominus a))
          /\ IF p = Closed
               THEN /\ fair' = (fair \ominus a) \oslash r
                    /\ UNCHANGED <<closes, wealth>>
               ELSE /\ fair' = p
                    /\ closes' = Extended(closes, today', p)
                    /\ wealth' = Extended(wealth, today', shares' \otimes p)

Next == NextDay

Spec == Init /\ [][Next]_vars

-----------------------------------------------------------------------------
TypeOK ==
    /\ today \in 1..MaxDay
    /\ Sessions \subseteq 1..today /\ 1 \in Sessions
    /\ \A d \in Sessions : closes[d] \in Prices /\ Zero \prec wealth[d]
    /\ DOMAIN splits = 2..today /\ DOMAIN dividends = 2..today
    /\ Zero \prec fair

SameReturns(adjusted) ==
    \A d, e \in Sessions : adjusted[d] \otimes wealth[e] = adjusted[e] \otimes wealth[d]

(* No share goes ex-dividend after another action since the last session.  *)
Undisturbed ==
    \A e, f \in DOMAIN splits :
        /\ dividends[e] # Zero
        /\ f < e /\ \A d \in Sessions : ~(f <= d /\ d < e)
        => splits[f] = One /\ dividends[f] = Zero

(***************************************************************************)
(* ReturnsArePreserved: adjusted closes, computed backward from all that   *)
(* happened, have at every time the returns of the holder, so a return     *)
(* once seen is not changed by an action that comes later; and             *)
(* validate_adjustment accepts the closes adjusted for some of the actions *)
(* exactly when they have those returns.  This holds as long as no         *)
(* dividend follows another action in the same gap between two sessions:   *)
(* there _dividend_factors takes the raw prior close for the price, which  *)
(* the earlier action has already reduced (two dividends of 1 after a      *)
(* close of 4 scale it by 9/16, and a holder keeps 1/2 of it).             *)
(***************************************************************************)
ReturnsArePreserved ==
    Undisturbed =>
    /\ SameReturns(AdjustedClose(DOMAIN splits, DOMAIN dividends))
    /\ \A S \in SUBSET DOMAIN splits, D \in SUBSET DOMAIN dividends :
          LET adjusted == AdjustedClose(S, D)
          IN  ValidAdjustment(adjusted) <=> SameReturns(adjusted)
=============================================================================
