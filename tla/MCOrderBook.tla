----------------------------- MODULE MCOrderBook -----------------------------
(***************************************************************************)
(* Instances of OrderBook for TLC.  Order ids are interchangeable, and the *)
(* properties checked are invariants, so symmetry is sound.                *)
(***************************************************************************)
EXTENDS OrderBook, TLC

AnyOrder == Permutations(OrderIds)
=============================================================================
