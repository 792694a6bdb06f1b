----------------------------- MODULE MCFlowChain -----------------------------
(* Rates in both directions.                                               *)
EXTENDS FlowChain

BothWays == {-1, 2}
=============================================================================
