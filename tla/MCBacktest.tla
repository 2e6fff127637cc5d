----------------------------- MODULE MCBacktest -----------------------------
(***************************************************************************)
(* An instance of Backtest: two symbols, rates and weights coarse enough   *)
(* for exact arithmetic to stay small.                                     *)
(***************************************************************************)
EXTENDS Backtest, TLC

CONSTANTS s1, s2

Half == Fraction(1, 2)
Eighth == Fraction(1, 8)
Pair(x, y) == s1 :> x @@ s2 :> y

(* Free of charge; taxed sales; concessions; a levered long-short book;    *)
(* an ADV cap.                                                             *)
Free ==
    [buy |-> Zero, sell |-> Zero, slip |-> Zero, gross |-> One, yield |-> Half, capacity |-> None]
MCSettings ==
    {Free,
     [Free EXCEPT !.buy = Eighth, !.sell = Fraction(1, 4)],
     [Free EXCEPT !.slip = Eighth, !.yield = Zero],
     [Free EXCEPT !.buy = Eighth, !.sell = Eighth, !.gross = Fraction(3, 2), !.yield = Zero],
     [Free EXCEPT !.capacity = Pair(Half, Eighth), !.yield = Zero],
     [Free EXCEPT !.capacity = Pair(Eighth, Half), !.yield = Zero]}

MCRelatives ==
    {Pair(One, One)} \cup
    UNION {{Pair(x, One), Pair(One, x)} : x \in {Fraction(2, 1), Half}}

Short == Negative(Half)
LongTargets == {Pair(One, Zero), Pair(Zero, One), Pair(Half, Half)}
ShortTargets == {Pair(One, Short), Pair(Short, One), Flat}
MCTargetsOf(c) == IF One \prec c.gross THEN ShortTargets ELSE LongTargets

Alike == Permutations(Symbols)
=============================================================================
