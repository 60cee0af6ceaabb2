------------------------------ MODULE Rewards -------------------------------
(***************************************************************************)
(* Receipts of src/src/rewards.rs: the split of an epoch's budget over the *)
(* claims, the hash of a receipt and what a neuron is paid.  Pure          *)
(* operators.  The weights, fixed-point shares after tok's clip, are       *)
(* naturals; the products w * budget fit the u128 the code computes in.    *)
(***************************************************************************)
EXTENDS Integers, SequencesExt, Lists

TotalOf(s) == Total(s, DOMAIN s)

FirstPositive(w) == CHOOSE i \in DOMAIN w : w[i] > 0 /\ \A j \in 1 .. i - 1 : w[j] = 0

(* What the proportional pass gives: the last claim takes what is left, a  *)
(* claim without weight nothing.                                           *)
Proportional(w, budget) ==
    LET part == [i \in DOMAIN w |-> (w[i] * budget) \div TotalOf(w)]
    IN  [i \in DOMAIN w |->
            IF w[i] = 0 THEN 0
            ELSE IF i = Len(w) THEN budget - Total(part, 1 .. i - 1)
            ELSE part[i]]

(* Mutant of allocate_budget: what rounding leaves is not paid out. *)
allocate_budget_floor(w, budget) == Proportional(w, budget)

(* The split of the budget when some weight is positive; what is left      *)
(* after the proportional pass goes to the first claim with weight.        *)
allocate_budget(w, budget) ==
    LET given == Proportional(w, budget)
    IN  [given EXCEPT ![FirstPositive(w)] = @ + (budget - TotalOf(given))]

(* The shares of one neuron, in the order of its claims. *)
SharesOf(shares, u) == Chosen(shares, {i \in DOMAIN shares : shares[i].neuron = u})

(* A receipt is identified by epoch, beacon and the shares, stably sorted  *)
(* by neuron.                                                              *)
receipt_hash(r) ==
    [epoch |-> r.epoch, beacon |-> r.beacon,
     shares |-> [u \in {s.neuron : s \in ToSet(r.shares)} |-> SharesOf(r.shares, u)]]

(* share_of: the first share of the neuron, 0 if it has none. *)
share_of(h, u) == IF u \in DOMAIN h.shares THEN Head(h.shares[u]).amount ELSE 0
=============================================================================
