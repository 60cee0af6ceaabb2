------------------------------- MODULE MCLive -------------------------------
(***************************************************************************)
(* A full node "a" that settles two epochs, a cell "b" that settles one,   *)
(* and a light node "l" that works for the neuron of a.                    *)
(***************************************************************************)
EXTENDS Live

Modes == [n \in Node |-> CASE n = "a" -> "Full" [] n = "b" -> "Cell" [] n = "l" -> "Light"]
Neurons == [n \in Node |-> IF n = "b" THEN 11 ELSE 10]
Links == [n \in Node |-> IF n = "l" THEN 0 ELSE 1]
Epochs == [n \in Node |-> CASE n = "a" -> 2 [] n = "b" -> 1 [] n = "l" -> 0]

(* The claims of b are worth something only to a settler that folds in     *)
(* another miner's samples.                                                *)
Marginal(c, accs) == IF c.by = "b" /\ accs = <<>> THEN 0 ELSE c.id[1] + Len(accs)
=============================================================================
