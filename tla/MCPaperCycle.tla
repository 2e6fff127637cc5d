---------------------------- MODULE MCPaperCycle ----------------------------
(***************************************************************************)
(* Instances of PaperCycle for TLC.                                        *)
(***************************************************************************)
EXTENDS PaperCycle, TLC

(* The wanted book stands still: two shares to sell, which may trade one   *)
(* by one, and one to buy.                                                 *)
StillSymbols == {"old", "new"}
StillTarget == [e \in {1} |-> [s \in StillSymbols |-> IF s = "new" THEN 1 ELSE 0]]
StillHoldings == [s \in StillSymbols |-> IF s = "old" THEN 2 ELSE 0]

(* Nothing left behind, or a sell whose outcome an older release lost.     *)
OldSell == [day |-> 1, symbol |-> "old", side |-> "SELL", quantity |-> 2]
NothingLeft == {NoLedger}
LostSell == {[NoLedger EXCEPT ![OldSell] = "UNKNOWN"]}
StillLegacy == NothingLeft \cup LostSell

(* The wanted book follows the account's equity: nothing to do, or a sell  *)
(* of two shares with another sell behind it; and then buys back.          *)
DriftSymbols == {"old", "new"}
DriftTarget ==
    [e \in {1, 2} |->
        [s \in DriftSymbols |-> IF s = "old" THEN 4 - 2 * e ELSE 2 - e]]
DriftHoldings == [s \in DriftSymbols |-> IF s = "old" THEN 2 ELSE 1]

(* One leg, whose size follows the equity.                                 *)
LegSymbols == {"old"}
LegTarget == [e \in {1, 2} |-> [s \in LegSymbols |-> 2 - e]]
LegHoldings == [s \in LegSymbols |-> 2]

(* The invocations are alike.                                              *)
CycleSymmetry == Permutations(Cycles)
=============================================================================
