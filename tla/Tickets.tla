------------------------------ MODULE Tickets -------------------------------
(***************************************************************************)
(* Settlement tickets and the fold monoid of src/src/tickets.rs, with the  *)
(* fold tree of src/src/ticket_proof.rs.  Pure operators.                  *)
(*                                                                         *)
(* A ticket is a sample: the miner that found it and the nonce.  Its       *)
(* marginal vector is determined by the nonce and only ever summed, so an  *)
(* accumulator keeps, in place of sum_m, how often each sample went into   *)
(* that sum.  The commitment is a hash of the other fields.                *)
(***************************************************************************)
EXTENDS Integers, Sequences, FiniteSets

CONSTANTS
    Miner,
    Nonce,             \* nonces a grind can reach, in order from 0
    Win(_, _)          \* the win-test: a hash of miner and nonce is below target

Sample == Miner \X Nonce

ASSUME TicketsAssumption ==
    /\ Nonce \in SUBSET Nat
    /\ IsFiniteSet(Miner) /\ IsFiniteSet(Nonce)
    /\ \A m \in Miner, n \in Nonce : Win(m, n) \in BOOLEAN

Dim == Nat

ClusterAcc == [cnt : [Sample -> Nat], k : Nat, seen : SUBSET Sample, dim : Dim]

empty(d) == [cnt |-> [x \in Sample |-> 0], k |-> 0, seen |-> {}, dim |-> d]

(* Grind the nonces from start on until want of them win. *)
grind_settlement(m, start, want) ==
    LET winners == {n \in Nonce : n >= start /\ Win(m, n)}
    IN  {<<m, n>> : n \in {w \in winners : Cardinality({v \in winners : v < w}) < want}}

(* Mutant of absorb_ticket: seen is not consulted. *)
absorb_ticket_again(acc, x, d) ==
    [cnt |-> [acc.cnt EXCEPT ![x] = @ + 1], k |-> acc.k + 1,
     seen |-> acc.seen \cup {x}, dim |-> d]

(* Absorb a ticket whose vector has length d.  A pair that was seen is     *)
(* ignored; one of the wrong length is remembered as seen and ignored,     *)
(* unless nothing was summed yet.                                          *)
absorb_ticket(acc, x, d) ==
    IF x \in acc.seen THEN acc
    ELSE IF acc.dim # d /\ acc.k # 0
    THEN [acc EXCEPT !.seen = @ \cup {x}]
    ELSE [cnt |-> [acc.cnt EXCEPT ![x] = @ + 1], k |-> acc.k + 1,
          seen |-> acc.seen \cup {x}, dim |-> d]

(* What absorbing the tickets of T, all of length d, one by one into an    *)
(* empty accumulator makes (CountedOnce of Algorithms).                       *)
self_fold(d, T) ==
    [cnt |-> [x \in Sample |-> IF x \in T THEN 1 ELSE 0], k |-> Cardinality(T),
     seen |-> T, dim |-> d]

Overlap2(l, r) == l.seen \cap r.seen # {}

Larger(l, r) == IF l.k >= r.k THEN l ELSE r

(* Lengths differ: the side with more samples, and both sides' pairs. *)
FoldUneven(l, r) ==
    [Larger(l, r) EXCEPT !.seen = l.seen \cup r.seen,
                         !.k = Cardinality(l.seen \cup r.seen)]

(* Mutant of fold_acc: where the sides overlap, the left sums are kept. *)
fold_acc_left(l, r) ==
    IF l.dim # r.dim THEN FoldUneven(l, r)
    ELSE [cnt |-> IF Overlap2(l, r) THEN l.cnt ELSE [x \in Sample |-> l.cnt[x] + r.cnt[x]],
          k |-> Cardinality(l.seen \cup r.seen),
          seen |-> l.seen \cup r.seen, dim |-> l.dim]

(* The sums are added whether or not the sides share samples; k counts     *)
(* shared samples once.                                                    *)
fold_acc(l, r) ==
    IF l.dim # r.dim THEN FoldUneven(l, r)
    ELSE [cnt |-> [x \in Sample |-> l.cnt[x] + r.cnt[x]],
          k |-> IF Overlap2(l, r) THEN Cardinality(l.seen \cup r.seen) ELSE l.k + r.k,
          seen |-> l.seen \cup r.seen, dim |-> l.dim]

(* fold_acc_checked refuses what shares a sample; otherwise it is fold_acc. *)
FoldRefused(l, r) == Overlap2(l, r)

(* Mutant of PairUp: an odd one is folded with itself. *)
PairUpTwice(level) ==
    [i \in 1 .. (Len(level) + 1) \div 2 |->
        fold_acc(level[2 * i - 1], level[IF 2 * i <= Len(level) THEN 2 * i ELSE 2 * i - 1])]

(* One level of the fold tree: neighbours are folded, an odd one is kept. *)
PairUp(level) ==
    [i \in 1 .. (Len(level) + 1) \div 2 |->
        IF 2 * i <= Len(level) THEN fold_acc(level[2 * i - 1], level[2 * i])
                               ELSE level[2 * i - 1]]

(* prove_fold_tree and assemble_fold_tree: levels until one is left. *)
FoldTree(leaves) ==
    LET level[j \in 0 .. Len(leaves)] == IF j = 0 THEN leaves ELSE PairUp(level[j - 1])
    IN  level[Len(leaves)][1]

(* The sum holds each canonical pair once and nothing else, and k is their *)
(* number: mean_shares then is the mean of the marginals.                  *)
CountsOnce(acc) ==
    /\ \A x \in Sample : acc.cnt[x] = IF x \in acc.seen THEN 1 ELSE 0
    /\ acc.k = Cardinality(acc.seen)
=============================================================================
