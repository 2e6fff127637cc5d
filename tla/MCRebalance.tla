---------------------------- MODULE MCRebalance ----------------------------
(***************************************************************************)
(* Instances of Rebalance for TLC.                                         *)
(***************************************************************************)
EXTENDS Rebalance

(* Both symbols, one up to the cap, nothing; and one beyond the cap, which *)
(* the gate must refuse.                                                   *)
LongTargets ==
    {w \in [Symbols -> {0, 1, 3, 4}] : SumOf(w) <= Unit}
=============================================================================
