------------------------------ MODULE Shapley -------------------------------
(***************************************************************************)
(* src/src/settlement.rs and src/src/marginal_cert.rs: the division of a   *)
(* cluster's value over its contributors, and tickets whose marginals are  *)
(* replayed.  Pure operators.  Contributors are 1 .. n.  The value of a    *)
(* coalition, the impulse tru computes for its links weighted by their     *)
(* surprise, is given as a function v on the sets of contributors.  The    *)
(* division by the number of samples is left to the reader of a sum.       *)
(***************************************************************************)
EXTENDS Lists

Swap(s, i, j) == [s EXCEPT ![i] = s[j], ![j] = s[i]]

(* Mutant of marginals: the value before is not updated. *)
marginals_whole(v, order) ==
    [i \in DOMAIN order |->
        LET at == CHOOSE k \in DOMAIN order : order[k] = i
        IN  v[{order[k] : k \in 1 .. at}]]

(* What each contributor adds to those before it in the order. *)
marginals(v, order) ==
    [i \in DOMAIN order |->
        LET at == CHOOSE k \in DOMAIN order : order[k] = i
            before == {order[k] : k \in 1 .. at - 1}
        IN  v[before \cup {i}] - (IF before = {} THEN 0 ELSE v[before])]

(* The recursion of permutations: the position where r are left takes     *)
(* each of the values from there on, and the swap is undone.               *)
permutations(n) ==
    LET go[r \in 0 .. n] ==
            [a \in SetToSeqs(1 .. n) |->
               IF r = 0 THEN <<a>>
               ELSE FlattenSeq([i \in 1 .. r |-> go[r - 1][Swap(a, n - r + 1, n - r + i)]])]
    IN  go[n][[x \in 1 .. n |-> x]]

(* What the random stream can give: for i = n down to 2, a number below i. *)
Draws(n) == {d \in [2 .. n -> 0 .. n - 1] : \A i \in 2 .. n : d[i] < i}

(* Mutant of Draw: one position too few. *)
DrawShort(d, i) == (d[i] % (i - 1)) + 1

(* next() modulo the positions left. *)
Draw(d, i) == (d[i] % i) + 1

(* Fisher-Yates over the draws of beacon and nonce: after r passes the     *)
(* last r positions are settled, and the first needs no draw.              *)
ordering(n, d) ==
    LET perm[r \in 0 .. n] ==
            IF r = 0 THEN [x \in 1 .. n |-> x]
            ELSE IF r = n THEN perm[r - 1]
            ELSE Swap(perm[r - 1], n - r + 1, Draw(d, n - r + 1))
    IN  perm[n]

Plus(a, b) == [i \in DOMAIN a |-> a[i] + b[i]]

Zero(n) == [i \in 1 .. n |-> 0]

(* The loop that adds up vectors of n values. *)
Summed(n, vectors) ==
    LET acc[k \in 0 .. Len(vectors)] ==
            IF k = 0 THEN Zero(n) ELSE Plus(acc[k - 1], vectors[k])
    IN  acc[Len(vectors)]

(* The sums of shapley_exact: marginals over all orderings. *)
shapley_exact(n, v) ==
    LET orders == permutations(n)
    IN  Summed(n, [k \in DOMAIN orders |-> marginals(v, orders[k])])

(* The sums of shapley: marginals over the orderings of the given draws. *)
shapley(n, v, draws) ==
    Summed(n, [k \in DOMAIN draws |-> marginals(v, ordering(n, draws[k]))])

-----------------------------------------------------------------------------
(* Tickets.  Hash and seal are ideal: a commitment is the vector it        *)
(* commits to.  draws[nonce] is what beacon and nonce give.                *)

(* Mutant of replay_marginals: the published vector is not compared. *)
replay_marginals_commitment(v, n, draws, t) ==
    /\ n # 0 /\ Len(t.marginals) = n
    /\ marginals(v, ordering(n, draws[t.nonce])) = t.commitment

(* Does a ticket's vector replay? *)
replay_marginals(v, n, draws, t) ==
    LET m == marginals(v, ordering(n, draws[t.nonce]))
    IN  /\ n # 0 /\ Len(t.marginals) = n
        /\ m = t.commitment /\ m = t.marginals

(* A certificate: the seal folds the ticket. *)
Certificate(n, draws, t) ==
    [ticket |-> t, order |-> ordering(n, draws[t.nonce]), seal |-> <<t>>]

(* It is issued for a ticket that replays. *)
certify_ticket(v, n, draws, t) ==
    IF replay_marginals(v, n, draws, t) THEN <<Certificate(n, draws, t)>> ELSE <<>>

(* Win-test (the score is below the target for the nonces in winning),     *)
(* replay, seal, ordering.                                                 *)
verify_certified_ticket(v, n, draws, winning, cert) ==
    /\ cert.ticket.nonce \in winning
    /\ replay_marginals(v, n, draws, cert.ticket)
    /\ cert.seal # <<>>
    /\ cert.order = ordering(n, draws[cert.ticket.nonce])

(* A batch is sealed when every ticket of it replays. *)
prove_replayed_batch(v, n, draws, tickets) ==
    tickets # <<>> /\ \A i \in DOMAIN tickets : replay_marginals(v, n, draws, tickets[i])

-----------------------------------------------------------------------------
(* The lottery estimates the Shapley division without bias: over all the   *)
(* streams of draws that beacon and nonce can give, each ordering comes up *)
(* equally often, so that the sums of shapley are those of shapley_exact;  *)
(* those divide the whole value of the cluster, and a contributor that     *)
(* adds nothing to any coalition gets nothing.                             *)
LotteryUnbiased(n, v) ==
    LET exact == shapley_exact(n, v)
    IN  /\ shapley(n, v, SetToSeq(Draws(n))) = exact
        /\ Total(exact, 1 .. n) = Len(permutations(n)) * v[1 .. n]
        /\ \A i \in 1 .. n :
              (\A S \in (SUBSET (1 .. n)) \ {{}, {i}} : v[S \cup {i}] = v[S \ {i}])
                 /\ v[{i}] = 0 => exact[i] = 0

(* Whatever vectors and commitments miners publish for the nonces, those   *)
(* that are certified sum to what the lottery itself gives for the winning *)
(* nonces, and every batch of them can be sealed: no published vector that *)
(* the public inputs do not replay to gets in, and none of the others is   *)
(* left out (verify_certified_ticket, prove_replayed_batch).               *)
CertifiedIsLottery(v, n, draws, winning, Vectors) ==
    LET offered == [nonce : DOMAIN draws, marginals : Vectors, commitment : Vectors]
        in == {t \in offered :
                 verify_certified_ticket(v, n, draws, winning, Certificate(n, draws, t))}
        batch == SetToSeq(in)
    IN  /\ Summed(n, [k \in DOMAIN batch |-> batch[k].marginals])
             = shapley(n, v, [i \in 1 .. Cardinality(winning) |-> draws[SetToSeq(winning)[i]]])
        /\ in # {} => prove_replayed_batch(v, n, draws, batch)
        /\ in = {t \in offered : t.nonce \in winning /\ certify_ticket(v, n, draws, t) # <<>>}
=============================================================================
