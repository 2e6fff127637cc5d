------------------------------ MODULE Alpha158 -------------------------------
(***************************************************************************)
(* The features of Alpha158 at bar n of one instrument, as the integers    *)
(* they are quotients of: every quotient is one of a numerator by an open, *)
(* a range, a close, a volume or a sum of moves given here.                *)
(***************************************************************************)
EXTENDS Signals, Functions

SumOf(f) == FoldFunction(+, 0, f)

Size(k) == Max({k, -k})

(* KBAR: the parts of the candle, taken relative to the open and the range. *)
AddKbar(b) ==
    [mid |-> b.close - b.open,
     up |-> b.high - Max({b.open, b.close}),
     low |-> Min({b.open, b.close}) - b.low,
     shift |-> 2 * b.close - b.high - b.low,
     open |-> b.open, range |-> b.high - b.low]

(* PRICE: relative to the close; without a vwap it is the typical price.   *)
AddPrice(b) == <<b.open, b.high, b.low, b.high + b.low + b.close, b.close>>

(* Ordinary least squares of y on 0, 1, ..: the slope, the part explained  *)
(* and the residual of the last point, times their common denominators.    *)
RollingRegression(y) ==
    LET w == Len(y)
        sumX == SumOf([i \in 1..w |-> i - 1])
        denom == w * SumOf([i \in 1..w |-> (i - 1) ^ 2]) - sumX ^ 2
        sumY == SumOf(y)
        slope == w * SumOf([i \in 1..w |-> (i - 1) * y[i]]) - sumX * sumY
        total == w * SumOf([i \in 1..w |-> y[i] ^ 2]) - sumY ^ 2
    IN  [slope |-> <<slope, denom>>,
         rsqr |-> IF total = 0 THEN NaN ELSE <<slope ^ 2, denom * total>>,
         residual |-> w * denom * y[w] - (denom * sumY - slope * sumX) - slope * w * (w - 1)]

RollingRank(y) == Cardinality({i \in DOMAIN y : y[i] <= y[Len(y)]})

(* argmax and argmin are the first of several.                             *)
RollingIdxmax(y) == Min({i \in DOMAIN y : y[i] = Max(Range(y))}) - 1

RollingIdxmin(y) == Min({i \in DOMAIN y : y[i] = Min(Range(y))}) - 1

(* A correlation is that of these pairs.                                   *)
RollingCorr(x, y) == [i \in DOMAIN x |-> <<x[i], y[i]>>]

-----------------------------------------------------------------------------
Of(B, field) == [i \in DOMAIN B |-> B[i][field]]

(* What a full window of w bars says.                                      *)
Levels(B) ==
    LET close == Of(B, "close")
        low == Min(Range(Of(B, "low")))
        high == Max(Range(Of(B, "high")))
    IN  [moments |-> <<close, Of(B, "volume")>>,
         regression |-> RollingRegression(close),
         max |-> high, min |-> low, rank |-> RollingRank(close),
         rsv |-> <<close[Len(B)] - low, high - low>>,
         imax |-> RollingIdxmax(Of(B, "high")) + 1,
         imin |-> RollingIdxmin(Of(B, "low")) + 1,
         corr |-> RollingCorr(close, Of(B, "volume"))]

Steps(x) == [i \in 1..Len(x) - 1 |-> x[i + 1] - x[i]]

Upward(steps) == SumOf([i \in DOMAIN steps |-> Max({0, steps[i]})])

Downward(steps) == SumOf([i \in DOMAIN steps |-> Max({0, -steps[i]})])

(* What w steps say: these need the bar before the window.                 *)
Moves(B) ==
    LET close == Steps(Of(B, "close"))
        volume == Steps(Of(B, "volume"))
    IN  [roc |-> <<B[1].close, B[Len(B)].close>>,
         cord |-> RollingCorr(Of(B, "close"), Of(B, "volume")),
         cnt |-> <<Cardinality({i \in DOMAIN close : close[i] > 0}),
                   Cardinality({i \in DOMAIN close : close[i] < 0})>>,
         sum |-> <<Upward(close), Downward(close)>>,
         wvma |-> [i \in DOMAIN close |-> <<Size(close[i]), B[i].close, B[i + 1].volume>>],
         vsum |-> <<Upward(volume), Downward(volume)>>]

AddRolling(B, n, w) ==
    [levels |-> IF n < w THEN NaN ELSE Levels(Rows(B, n - w + 1, n)),
     moves |-> IF n <= w THEN NaN ELSE Moves(Rows(B, n - w, n))]

(* Bars the code refuses.                                                  *)
Valid(B) ==
    \A b \in Range(B) :
        /\ Min({b.open, b.low, b.close}) > 0 /\ b.volume >= 0
        /\ b.high >= Max({b.open, b.low, b.close})
        /\ b.low <= Min({b.open, b.high, b.close})

Compute(B, n, windows) ==
    IF ~Valid(B) THEN NaN
    ELSE <<AddKbar(B[n]), AddPrice(B[n]), [w \in windows |-> AddRolling(B, n, w)]>>
=============================================================================
