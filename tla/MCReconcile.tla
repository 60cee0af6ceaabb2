---------------------------- MODULE MCReconcile -----------------------------
(***************************************************************************)
(* Two nodes; a is honest; b signs up to three signals at step 0, one of   *)
(* them on another network, and a step 1 on top of the first two, which    *)
(* have the same chain position.                                           *)
(***************************************************************************)
EXTENDS Reconcile, FiniteSets, TLC

CONSTANTS n1, n2

TwoNodes == {n1, n2}
Symmetry == Permutations(TwoNodes)

TwoNeurons == {"a", "b"}
OnlyA == {"a"}

Sig(u, w, k, p, i, t) ==
    [neuron |-> u, network |-> w, step |-> k, prev |-> p, id |-> i, to |-> t]

A0 == Sig("a", "v", 0, Genesis, 4, "y")
A1 == Sig("a", "v", 1, hash(A0), 1, "x")
B0 == Sig("b", "v", 0, Genesis, 5, "x")
B0x == Sig("b", "v", 0, Genesis, 3, "y")
B0y == Sig("b", "w", 0, Genesis, 2, NoLinks)
B1 == Sig("b", "v", 1, hash(B0), 6, "y")

TwoChains == {A0, B0, B0x, B0y, B1}
ChainOfA == {A0, A1, B0, B0x}

(* Focus as the number of signals that point at the particle. *)
InDegree(view, p) == Cardinality({s \in view : s.to = p})
=============================================================================
