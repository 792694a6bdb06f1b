-------------------------- MODULE MCLeakDetection --------------------------
(* Two configurations for LeakDetection: the burst rule is faster to enter *)
(* and to clear.  In the first a burst ends only below every continuous    *)
(* flow, in the second a steady continuous flow ends it; the second clears *)
(* later and gives up sooner.                                              *)
EXTENDS LeakDetection

Quick == [entry |-> [r \in Rules |-> IF r = "BURST" THEN 6 ELSE 3],
          low |-> [r \in Rules |-> 1],
          enter |-> [r \in Rules |-> IF r = "BURST" THEN 1 ELSE 2],
          clear |-> [r \in Rules |-> IF r = "BURST" THEN 1 ELSE 2],
          confirm |-> 3, gap |-> 2]

Slow == [Quick EXCEPT !.low["BURST"] = 4, !.clear = [r \in Rules |-> 3], !.gap = 1]

TwoConfigs == {Quick, Slow}

\* Reverse, zero, between the thresholds, steady, high and a burst.
SixFlows == {-1, 0, 2, 3, 5, 6}
=============================================================================
