------------------------- MODULE Algorithms_proofs --------------------------
(***************************************************************************)
(* Theorems of Algorithms, for inputs of any length and any constants: the *)
(* split of a budget, the tips and their evidence, the mesh, the threshold *)
(* of finality, the beacon, namespaced trees, the codecs, the clusters of  *)
(* claims, the division of a cluster's value, and the accumulators of      *)
(* settlement tickets.                                                     *)
(***************************************************************************)
EXTENDS Algorithms, Lists_proofs, TLAPS

(***************************************************************************)
(* The split of a budget.                                                  *)
(***************************************************************************)

(* The weights of a split are naturals. *)
WeightsOK == kind = "budget" => input \in Seq(Nat)

(* The input of a split starts empty. *)
LEMMA WeightsOKInit == Init => WeightsOK
  BY DEF Init, WeightsOK

(* An action takes the input of its own algorithm, and only AddWeight that *)
(* of a split.                                                             *)
LEMMA OnlyAddWeight ==
    ASSUME Next, kind' = "budget"
    PROVE  kind = "budget" /\ \E w \in 0 .. MaxWeight : AddWeight(w)
  BY DEF Next, AddWeight, AddClaim, AddValue, AddLeaf, AddAnswer, AddShard, AddItem, AddFrame,
         AddMessage, AddContent, AddFocus, FoldsBlock, Follows, JoinsMesh, Subscribes, TakesSome,
         Publishes, Exports, Joins, Applies, Audits, Issues, TakesPlace, TipStep,
         MeshStep, Absorbs, Folds, FoldStep, Grows

(* Every step keeps them. *)
LEMMA WeightsOKStep ==
    ASSUME WeightsOK, [Next]_vars
    PROVE  WeightsOK'
<1>1. CASE UNCHANGED vars
  BY <1>1 DEF vars, WeightsOK
<1>2. CASE Next
  <2> SUFFICES ASSUME kind' = "budget" PROVE input' \in Seq(Nat)
    BY DEF WeightsOK
  <2>1. PICK w \in 0 .. MaxWeight : AddWeight(w)
    BY <1>2, OnlyAddWeight
  <2>2. w \in Nat /\ input \in Seq(Nat)
    BY <1>2, OnlyAddWeight, AlgorithmsAssumption DEF WeightsOK
  <2>3. QED
    BY <2>1, <2>2 DEF AddWeight
<1>3. QED
  BY <1>1, <1>2

(* A state with such weights splits every budget as promised. *)
LEMMA WeightsSplit == WeightsOK => BudgetConserved
<1> SUFFICES ASSUME WeightsOK, kind = "budget", TotalOf(input) > 0, NEW b \in Budgets
             PROVE  Fair(allocate_budget(input, b), input, b)
  BY DEF BudgetConserved, Fair
<1>1. input \in Seq(Nat) /\ b \in Nat
  BY AlgorithmsAssumption DEF WeightsOK
<1>2. QED
  BY <1>1, AllocateFacts

(* allocate_budget pays out the whole budget and not more, nothing to a    *)
(* claim without weight, and to every other its proportional part up to a  *)
(* token per claim: for any budget and any number of claims of any weight. *)
THEOREM BudgetConservedHolds == Spec => []BudgetConserved
<1>1. Init => WeightsOK
  BY WeightsOKInit
<1>2. WeightsOK /\ [Next]_vars => WeightsOK'
  BY WeightsOKStep
<1>3. WeightsOK => BudgetConserved
  BY WeightsSplit
<1>4. QED
  BY <1>1, <1>2, <1>3, PTL DEF Spec

(***************************************************************************)
(* Tips and their evidence.                                                *)
(***************************************************************************)

(* What is folded of a block. *)
Witness == [height : Int, root : Int]

(* A height, a root and an accumulator. *)
Placed(x) == x.height \in Nat /\ x.root \in Int /\ x.acc \in Seq(Witness)

(* An accumulator that decides is continuous. *)
FoldedOK(x) == Decidable(x.acc) => Continuous(x.acc, x.height, x.root)

(* The prover never lacks an accumulator: all it has folded it has folded. *)
ProverOK(p) ==
    /\ Placed(p) /\ p = [height |-> p.height, root |-> p.root, acc |-> p.acc]
    /\ p.acc # <<>> => Continuous(p.acc, p.height, p.root)

(* A checkpoint; if it is genuine it is continuous. *)
SentOK(c, genuine) ==
    /\ Placed(c) /\ c = [height |-> c.height, root |-> c.root, acc |-> c.acc]
    /\ genuine => FoldedOK(c)

(* A tip; what it is trusted for decides, and if genuine is continuous. *)
TipOK(t, genuine) ==
    /\ Placed(t) /\ t = TipAt(t, t.trust)
    /\ t.trust = "FoldDecided" => Decidable(t.acc)
    /\ genuine => FoldedOK(t)

(* From the place that was taken to the tip. *)
Path(t, since) == <<block_witness(since.height, since.root)>> \o Own(t, since)

(* A tip, trusted or not, comes in order from the place that it took. *)
SinceOK(t, since) ==
    /\ Placed(since) /\ IsPrefix(since.acc, t.acc)
    /\ Path(t, since) \in Seq(Witness) /\ Path(t, since) # <<>>
    /\ Continuous(Path(t, since), t.height, t.root)

(* Evidence was issued over the tip that was noted. *)
IssuedAt(e, i) ==
    /\ i = IssuerOf(i) /\ i.height \in Nat /\ i.root \in Int
    /\ e # <<>> => \E k \in {"Local", "Certified"} : e = <<issue(k, "book", "s", i, <<>>)>>

(* The record of a state of the tips. *)
State(prover, sent, tip, since, evidence, issuer, genuine, sentGenuine) ==
    [prover |-> prover, sent |-> sent, tip |-> tip, since |-> since, evidence |-> evidence,
     issuer |-> issuer, genuine |-> genuine, sentGenuine |-> sentGenuine]

(* A state of the tips, part by part. *)
TipInput(x) ==
    /\ x = State(x.prover, x.sent, x.tip, x.since, x.evidence, x.issuer, x.genuine, x.sentGenuine)
    /\ x.genuine \in BOOLEAN /\ x.sentGenuine \in BOOLEAN
    /\ ProverOK(x.prover) /\ SentOK(x.sent, x.sentGenuine) /\ TipOK(x.tip, x.genuine)
    /\ SinceOK(x.tip, x.since) /\ IssuedAt(x.evidence, x.issuer)

(* The inductive invariant of the tips.  Of what comes with an             *)
(* accumulator that is not genuine nothing is known but the place; all     *)
(* others are continuous, the trusted and the untrusted.                   *)
TipInv == kind = "tip" => TipInput(input)

(* The state with some fields replaced. *)
WithProver(x, y) == [x EXCEPT !.prover = y]
WithSent(x, y, b) == [x EXCEPT !.sent = y, !.sentGenuine = b]
WithTip(x, y) == [x EXCEPT !.tip = y]
WithPlace(x, y, c, b) == [x EXCEPT !.tip = y, !.since = c, !.genuine = b]
WithEvidence(x, y, i) == [x EXCEPT !.evidence = y, !.issuer = i]

(* An update of fields changes those fields. *)
LEMMA ProverUpdated ==
    ASSUME NEW p, NEW c, NEW t, NEW s, NEW e, NEW i, NEW g, NEW sg, NEW y,
           NEW x, x = State(p, c, t, s, e, i, g, sg)
    PROVE  WithProver(x, y) = State(y, c, t, s, e, i, g, sg)
  BY DEF State, WithProver

(* A new checkpoint is under way. *)
LEMMA SentUpdated ==
    ASSUME NEW p, NEW c, NEW t, NEW s, NEW e, NEW i, NEW g, NEW sg, NEW y, NEW b,
           NEW x, x = State(p, c, t, s, e, i, g, sg)
    PROVE  WithSent(x, y, b) = State(p, y, t, s, e, i, g, b)
<1> DEFINE x1 == [x EXCEPT !.sent = y]
<1>1. x1 = State(p, y, t, s, e, i, g, sg)
  BY DEF State
<1> HIDE DEF x1
<1> DEFINE x2 == [x1 EXCEPT !.sentGenuine = b]
<1>2. x2 = State(p, y, t, s, e, i, g, b)
  BY <1>1 DEF State
<1> HIDE DEF x2
<1>3. WithSent(x, y, b) = x2
  BY DEF WithSent, x1, x2
<1>4. QED
  BY <1>2, <1>3

(* The tip moves on. *)
LEMMA TipUpdated ==
    ASSUME NEW p, NEW c, NEW t, NEW s, NEW e, NEW i, NEW g, NEW sg, NEW y,
           NEW x, x = State(p, c, t, s, e, i, g, sg)
    PROVE  WithTip(x, y) = State(p, c, y, s, e, i, g, sg)
  BY DEF State, WithTip

(* The tip takes a place. *)
LEMMA PlaceUpdated ==
    ASSUME NEW p, NEW c, NEW t, NEW s, NEW e, NEW i, NEW g, NEW sg, NEW y, NEW z, NEW b,
           NEW x, x = State(p, c, t, s, e, i, g, sg)
    PROVE  WithPlace(x, y, z, b) = State(p, c, y, z, e, i, b, sg)
<1> DEFINE x1 == [x EXCEPT !.tip = y]
<1>1. x1 = State(p, c, y, s, e, i, g, sg)
  BY DEF State
<1> HIDE DEF x1
<1> DEFINE x2 == [x1 EXCEPT !.since = z]
<1>2. x2 = State(p, c, y, z, e, i, g, sg)
  BY <1>1 DEF State
<1> HIDE DEF x2
<1> DEFINE x3 == [x2 EXCEPT !.genuine = b]
<1>3. x3 = State(p, c, y, z, e, i, b, sg)
  BY <1>2 DEF State
<1> HIDE DEF x3
<1>4. WithPlace(x, y, z, b) = x3
  BY DEF WithPlace, x1, x2, x3
<1>5. QED
  BY <1>3, <1>4

(* Evidence is issued. *)
LEMMA EvidenceUpdated ==
    ASSUME NEW p, NEW c, NEW t, NEW s, NEW e, NEW i, NEW g, NEW sg, NEW y, NEW z,
           NEW x, x = State(p, c, t, s, e, i, g, sg)
    PROVE  WithEvidence(x, y, z) = State(p, c, t, s, y, z, g, sg)
<1> DEFINE x1 == [x EXCEPT !.evidence = y]
<1>1. x1 = State(p, c, t, s, y, i, g, sg)
  BY DEF State
<1> HIDE DEF x1
<1> DEFINE x2 == [x1 EXCEPT !.issuer = z]
<1>2. x2 = State(p, c, t, s, y, z, g, sg)
  BY <1>1 DEF State
<1> HIDE DEF x2
<1>3. WithEvidence(x, y, z) = x2
  BY DEF WithEvidence, x1, x2
<1>4. QED
  BY <1>2, <1>3

(* What folding a height on top of lower ones gives. *)
LEMMA FoldContinues ==
    ASSUME NEW acc \in Seq(Witness), NEW h0 \in Nat, NEW r0 \in Int, NEW h \in Nat, NEW r \in Int,
           acc # <<>> => (Continuous(acc, h0, r0) /\ h >= h0),
           NEW new, new = fold(acc, block_witness(h, r))
    PROVE  new \in Seq(Witness) /\ new # <<>> /\ new # NoAcc /\ Continuous(new, h, r)
<1> DEFINE w == block_witness(h, r)
           n == Len(acc)
<1>0. new = Append(acc, w)
  BY DEF fold
<1>1. w \in Witness /\ w.height = h /\ w = [height |-> h, root |-> r]
  BY DEF block_witness, Witness
<1>2. n \in Nat /\ new \in Seq(Witness) /\ Len(new) = n + 1 /\ new[n + 1] = w
      /\ \A i \in 1 .. n : new[i] = acc[i]
  BY <1>0, <1>1
<1>3. new # NoAcc
  <2>1. NoAcc = <<[height |-> -1, root |-> -1]>>
    BY DEF NoAcc, block_witness
  <2>2. SUFFICES ASSUME new = NoAcc PROVE FALSE
    OBVIOUS
  <2>3. n = 0 /\ new[1] = [height |-> -1, root |-> -1]
    <3>1. Len(new) = 1 /\ new[1] = [height |-> -1, root |-> -1]
      BY <2>1, <2>2
    <3>2. QED
      BY <1>2, <3>1
  <2>4. QED
    BY <1>1, <1>2, <2>3
<1>4. Last(new) = w
  BY <1>2 DEF Last
<1>5. ASSUME NEW i \in 2 .. n + 1 PROVE new[i].height >= new[i - 1].height
  <2>1. n > 0 /\ acc # <<>>
    BY <1>2
  <2>2. acc[n] = block_witness(h0, r0) /\ h >= h0
        /\ \A j \in 2 .. n : acc[j].height >= acc[j - 1].height
    BY <2>1 DEF Continuous, Last
  <2>3. acc[n].height = h0
    BY <2>2 DEF block_witness
  <2>4. CASE i = n + 1
    BY <1>1, <1>2, <2>1, <2>2, <2>3, <2>4
  <2>5. CASE i \in 2 .. n
    <3>1. i \in 1 .. n /\ i - 1 \in 1 .. n
      BY <1>2, <2>5
    <3>2. new[i] = acc[i] /\ new[i - 1] = acc[i - 1]
      BY <1>2, <3>1
    <3>3. acc[i].height >= acc[i - 1].height
      BY <2>2, <2>5
    <3>4. QED
      BY <3>2, <3>3
  <2>6. QED
    BY <1>2, <2>4, <2>5
<1>6. Continuous(new, h, r)
  BY <1>2, <1>4, <1>5 DEF Continuous
<1>7. new # <<>>
  BY <1>2
<1>8. QED
  BY <1>2, <1>3, <1>6, <1>7

(* A state of the tips is as good as its parts. *)
LEMMA TipInputOf ==
    ASSUME NEW p, NEW c, NEW t, NEW s, NEW e, NEW i, NEW g \in BOOLEAN, NEW sg \in BOOLEAN,
           ProverOK(p), SentOK(c, sg), TipOK(t, g), SinceOK(t, s), IssuedAt(e, i)
    PROVE  TipInput(State(p, c, t, s, e, i, g, sg))
<1> DEFINE x == State(p, c, t, s, e, i, g, sg)
<1>1. /\ x.prover = p /\ x.sent = c /\ x.tip = t /\ x.since = s /\ x.evidence = e
      /\ x.issuer = i /\ x.genuine = g /\ x.sentGenuine = sg
  BY DEF State
<1> HIDE DEF x
<1>2. x = State(x.prover, x.sent, x.tip, x.since, x.evidence, x.issuer, x.genuine, x.sentGenuine)
  BY <1>1 DEF x
<1>3. TipInput(x)
  BY <1>1, <1>2 DEF TipInput
<1>4. QED
  BY <1>3 DEF x

(* The place of a tip is one that it comes from. *)
LEMMA PlaceTaken ==
    ASSUME NEW t, Placed(t)
    PROVE  SinceOK(t, to_checkpoint(t))
<1> DEFINE c == to_checkpoint(t)
           w == block_witness(t.height, t.root)
<1>1. c.height = t.height /\ c.root = t.root /\ c.acc = t.acc
  BY DEF to_checkpoint
<1>2. t.height \in Nat /\ t.root \in Int /\ t.acc \in Seq(Witness) /\ Len(t.acc) \in Nat
  BY DEF Placed
<1> HIDE DEF c
<1>3. IsPrefix(c.acc, t.acc)
  BY <1>1, <1>2 DEF IsPrefix
<1>4. Own(t, c) = <<>>
  BY <1>1, <1>2 DEF Own
<1>5. w \in Witness
  BY <1>2 DEF Witness, block_witness
<1> HIDE DEF w
<1>6. Path(t, c) = <<w>>
  BY <1>1, <1>4, <1>5 DEF Path, w
<1> DEFINE one == <<w>>
<1>7. one \in Seq(Witness) /\ Len(one) = 1 /\ one[1] = w /\ one # <<>>
  BY <1>5
<1> HIDE DEF one
<1>8. Continuous(one, t.height, t.root)
  BY <1>7 DEF Continuous, Last, w
<1>9. SinceOK(t, c)
  BY <1>1, <1>2, <1>3, <1>6, <1>7, <1>8 DEF SinceOK, Placed, one
<1>10. QED
  BY <1>9 DEF c

(* from_local, join_checkpoint, to_checkpoint and checkpoint carry height, *)
(* root and accumulator over.                                              *)
LEMMA TipAtFacts ==
    ASSUME NEW ck, NEW trust
    PROVE  /\ TipAt(ck, trust).height = ck.height /\ TipAt(ck, trust).root = ck.root
           /\ TipAt(ck, trust).acc = ck.acc /\ TipAt(ck, trust).trust = trust
           /\ TipAt(TipAt(ck, trust), trust) = TipAt(ck, trust)
  BY DEF TipAt

(* The first state of the tips. *)
LEMMA TipInvInit == Init => TipInv
<1> SUFFICES ASSUME Init, kind = "tip" PROVE TipInput(input)
  BY DEF TipInv
<1>1. input = State(NewProver, checkpoint(NewProver), untrusted, to_checkpoint(untrusted),
                    <<>>, IssuerOf(untrusted), TRUE, TRUE)
  BY DEF Init, State
<1>2. <<>> \in Seq(Witness) /\ NoAcc \in Seq(Witness)
  BY DEF NoAcc, Witness, block_witness
<1>3. ProverOK(NewProver)
  BY <1>2 DEF ProverOK, Placed, NewProver, GenesisRoot
<1>4. SentOK(checkpoint(NewProver), TRUE)
  BY <1>2 DEF SentOK, Placed, checkpoint, NewProver, GenesisRoot, FoldedOK, Decidable
<1>5. TipOK(untrusted, TRUE)
  BY <1>2 DEF TipOK, Placed, untrusted, GenesisRoot, FoldedOK, Decidable, TipAt
<1>6. IssuedAt(<<>>, IssuerOf(untrusted))
  BY DEF IssuedAt, IssuerOf, untrusted, GenesisRoot
<1>7. SinceOK(untrusted, to_checkpoint(untrusted))
  BY <1>5, PlaceTaken DEF TipOK
<1>8. QED
  BY <1>1, <1>3, <1>4, <1>5, <1>6, <1>7, TipInputOf

(* Heights and roots that are folded. *)
LEMMA HeightsRoots == TipHeights \subseteq Nat /\ TipRoots \subseteq Int
  BY AlgorithmsAssumption

(* The prover folds, a height that is not below its last. *)
LEMMA ProverFolds ==
    ASSUME NEW p, ProverOK(p), NEW h \in Nat, NEW r \in Int, CanFoldBlock(p, h)
    PROVE  ProverOK(fold_block(p, h, r))
<1> DEFINE new == fold(p.acc, block_witness(h, r))
           q == fold_block(p, h, r)
<1>1. p.acc \in Seq(Witness) /\ p.height \in Nat /\ p.root \in Int
      /\ (p.acc # <<>> => (Continuous(p.acc, p.height, p.root) /\ h >= p.height))
  BY DEF ProverOK, Placed, CanFoldBlock
<1>2. q = [height |-> h, root |-> r, acc |-> new]
  BY DEF fold_block
<1> HIDE DEF new, q
<1>3. new \in Seq(Witness) /\ Continuous(new, h, r)
  <2> DEFINE a == p.acc
             h0 == p.height
             r0 == p.root
  <2>1. /\ a \in Seq(Witness) /\ h0 \in Nat /\ r0 \in Int
        /\ a # <<>> => (Continuous(a, h0, r0) /\ h >= h0)
    BY <1>1
  <2>2. new = fold(a, block_witness(h, r))
    BY DEF new
  <2> HIDE DEF a, h0, r0
  <2>3. QED
    BY <2>1, <2>2, FoldContinues
<1>4. ProverOK(q)
  BY <1>2, <1>3 DEF ProverOK, Placed
<1>5. QED
  BY <1>4 DEF q

(* Its checkpoint is continuous. *)
LEMMA ProverSends ==
    ASSUME NEW p, ProverOK(p), NEW genuine
    PROVE  SentOK(checkpoint(p), genuine)
  BY DEF ProverOK, SentOK, checkpoint, FoldedOK, Decidable

(* The checkpoint of a tip is what the tip is. *)
LEMMA TipSends ==
    ASSUME NEW t, NEW genuine, TipOK(t, genuine)
    PROVE  SentOK(to_checkpoint(t), genuine)
<1> DEFINE c == to_checkpoint(t)
<1>1. c = [height |-> t.height, root |-> t.root, acc |-> t.acc]
  BY DEF to_checkpoint
<1>2. c.height = t.height /\ c.root = t.root /\ c.acc = t.acc
  BY <1>1
<1> HIDE DEF c
<1>3. SentOK(c, genuine)
  BY <1>1, <1>2 DEF SentOK, TipOK, Placed, FoldedOK
<1>4. QED
  BY <1>3 DEF c

(* A tip takes a checkpoint, with a trust that a fold must back. *)
LEMMA TipTakes ==
    ASSUME NEW c, NEW genuine, SentOK(c, genuine), NEW trust,
           trust = "FoldDecided" => Decidable(c.acc)
    PROVE  TipOK(TipAt(c, trust), genuine)
<1> DEFINE t == TipAt(c, trust)
<1>1. t.height = c.height /\ t.root = c.root /\ t.acc = c.acc /\ t.trust = trust
      /\ TipAt(t, trust) = t
  BY TipAtFacts
<1> HIDE DEF t
<1>2. TipOK(t, genuine)
  BY <1>1 DEF SentOK, TipOK, Placed, FoldedOK
<1>3. QED
  BY <1>2 DEF t

(* A checkpoint may claim any place beside any accumulator. *)
LEMMA ClaimSends ==
    ASSUME NEW h \in Nat, NEW r \in Int, NEW a \in Seq(Witness)
    PROVE  SentOK([height |-> h, root |-> r, acc |-> a], FALSE)
<1> DEFINE c == [height |-> h, root |-> r, acc |-> a]
<1>1. c.height = h /\ c.root = r /\ c.acc = a
  OBVIOUS
<1> HIDE DEF c
<1>2. c = [height |-> c.height, root |-> c.root, acc |-> c.acc]
  BY <1>1 DEF c
<1>3. SentOK(c, FALSE)
  BY <1>1, <1>2 DEF SentOK, Placed
<1>4. QED
  BY <1>3 DEF c

(* What a sequence is extended with comes after any part of its end. *)
LEMMA AppendEnd ==
    ASSUME NEW a \in Seq(Witness), NEW w \in Witness, NEW n \in 0 .. Len(a)
    PROVE  /\ SubSeq(Append(a, w), 1, n) = SubSeq(a, 1, n)
           /\ SubSeq(Append(a, w), n + 1, Len(a) + 1) = Append(SubSeq(a, n + 1, Len(a)), w)
<1> DEFINE b == Append(a, w)
           m == Len(a)
<1>1. m \in Nat /\ b \in Seq(Witness) /\ Len(b) = m + 1 /\ b[m + 1] = w
      /\ \A i \in 1 .. m : b[i] = a[i]
  OBVIOUS
<1> HIDE DEF b
<1>2. SubSeq(b, 1, n) = SubSeq(a, 1, n)
  BY <1>1
<1> DEFINE x == SubSeq(b, n + 1, m + 1)
           s == SubSeq(a, n + 1, m)
           y == Append(s, w)
<1>3. /\ x \in Seq(Witness) /\ Len(x) = m + 1 - n /\ \A i \in 1 .. m + 1 - n : x[i] = b[n + i]
      /\ s \in Seq(Witness) /\ Len(s) = m - n /\ \A i \in 1 .. m - n : s[i] = a[n + i]
  BY <1>1
<1> HIDE DEF x, s
<1>4. y \in Seq(Witness) /\ Len(y) = m + 1 - n /\ y[m - n + 1] = w
      /\ \A i \in 1 .. m - n : y[i] = s[i]
  BY <1>3
<1> HIDE DEF y
<1>5. \A i \in 1 .. m + 1 - n : x[i] = y[i]
  <2> SUFFICES ASSUME NEW i \in 1 .. m + 1 - n PROVE x[i] = y[i]
    OBVIOUS
  <2>1. CASE i = m + 1 - n
    BY <1>1, <1>3, <1>4, <2>1
  <2>2. CASE i \in 1 .. m - n
    <3>1. n + i \in 1 .. m
      BY <1>1, <2>2
    <3>2. QED
      BY <1>1, <1>3, <1>4, <2>2, <3>1
  <2>3. QED
    BY <1>1, <2>1, <2>2
<1>6. x = y
  BY <1>1, <1>3, <1>4, <1>5
<1>7. QED
  BY <1>2, <1>6 DEF b, x, y, s

(* What is folded on top of the accumulator comes last on the path. *)
LEMMA PathGrows ==
    ASSUME NEW t, NEW s, SinceOK(t, s), Placed(t), NEW h \in Nat, NEW r \in Int, h >= t.height,
           NEW u, u.acc = fold(t.acc, block_witness(h, r)), u.height = h, u.root = r
    PROVE  SinceOK(u, s)
<1> DEFINE w == block_witness(h, r)
           a == t.acc
           n == Len(s.acc)
           path == Path(t, s)
<1>1. a \in Seq(Witness) /\ t.height \in Nat /\ t.root \in Int /\ s.acc \in Seq(Witness)
      /\ w \in Witness /\ n \in 0 .. Len(a) /\ Len(a) \in Nat
  BY DEF Placed, SinceOK, IsPrefix, Witness, block_witness
<1>2. u.acc = Append(a, w) /\ Len(u.acc) = Len(a) + 1
  BY <1>1 DEF fold
<1> HIDE DEF w, a
<1>3. IsPrefix(s.acc, u.acc)
  <2>1. SubSeq(u.acc, 1, n) = SubSeq(a, 1, n)
    BY <1>1, <1>2, AppendEnd
  <2>2. SubSeq(s.acc, 1, n) = SubSeq(a, 1, n)
    BY DEF SinceOK, IsPrefix, a
  <2>3. QED
    BY <1>1, <1>2, <2>1, <2>2 DEF IsPrefix
<1>4. Path(u, s) = Append(path, w)
  <2> DEFINE one == <<block_witness(s.height, s.root)>>
             own == SubSeq(a, n + 1, Len(a))
  <2>1. Own(u, s) = Append(own, w)
    BY <1>1, <1>2, AppendEnd DEF Own
  <2>2. path = one \o own
    BY DEF Path, Own, a
  <2>3. own \in Seq(Witness)
    BY <1>1
  <2>4. block_witness(s.height, s.root) \in Witness
    BY DEF SinceOK, Placed, Witness, block_witness
  <2>5. one \in Seq(Witness)
    BY <2>4
  <2>6. Path(u, s) = one \o Append(own, w)
    BY <2>1 DEF Path
  <2> HIDE DEF one, own, path
  <2>7. one \o Append(own, w) = Append(one \o own, w)
    BY <1>1, <2>3, <2>5
  <2>8. QED
    BY <2>2, <2>6, <2>7
<1>5. path \in Seq(Witness) /\ path # <<>> /\ Continuous(path, t.height, t.root)
  BY DEF SinceOK
<1> HIDE DEF path
<1>6. Append(path, w) \in Seq(Witness) /\ Append(path, w) # <<>> /\ Continuous(Append(path, w), h, r)
  <2> DEFINE h0 == t.height
             r0 == t.root
             new == fold(path, block_witness(h, r))
  <2>1. h0 \in Nat /\ r0 \in Int /\ path \in Seq(Witness)
        /\ (path # <<>> => (Continuous(path, h0, r0) /\ h >= h0))
    BY <1>1, <1>5
  <2>2. new = Append(path, w)
    BY DEF fold, w
  <2> HIDE DEF h0, r0, new
  <2>3. new = fold(path, block_witness(h, r))
    BY DEF new
  <2>4. new \in Seq(Witness) /\ new # <<>> /\ Continuous(new, h, r)
    BY <2>1, <2>3, FoldContinues
  <2>5. QED
    BY <2>2, <2>4
<1>7. QED
  BY <1>3, <1>4, <1>6 DEF SinceOK

(* A trusted tip follows: it folds a height that is not below its own. *)
LEMMA TipFollows ==
    ASSUME NEW t, NEW genuine, TipOK(t, genuine), NEW h \in Nat, NEW r \in Int, CanAdvance(t, h)
    PROVE  TipOK(advance_fold(t, h, r), genuine)
<1> DEFINE new == fold(t.acc, block_witness(h, r))
           u == [height |-> h, root |-> r, acc |-> new, trust |-> t.trust]
<1>1. t = [height |-> t.height, root |-> t.root, acc |-> t.acc, trust |-> t.trust]
      /\ t.acc # NoAcc /\ t.acc # <<>> /\ h >= t.height /\ Placed(t)
      /\ (genuine => Continuous(t.acc, t.height, t.root))
  BY DEF TipOK, TipAt, CanAdvance, Decidable, FoldedOK
<1>2. advance_fold(t, h, r) = u
  BY <1>1 DEF advance_fold
<1>3. /\ t.acc \in Seq(Witness) /\ t.height \in Nat /\ t.root \in Int
  BY <1>1 DEF Placed
<1> HIDE DEF new
<1>4. new \in Seq(Witness) /\ new # <<>> /\ new # NoAcc
  <2>1. block_witness(h, r) \in Witness /\ Len(t.acc) \in Nat \ {0}
    BY <1>1, <1>3 DEF Witness, block_witness
  <2>2. new \in Seq(Witness) /\ Len(new) = Len(t.acc) + 1
    BY <1>3, <2>1 DEF new, fold
  <2>3. Len(new) # 0 /\ Len(new) # 1
    BY <2>1, <2>2
  <2>4. Len(NoAcc) = 1
    BY DEF NoAcc
  <2>5. new # NoAcc
    BY <2>3, <2>4
  <2>6. new # <<>>
    BY <2>3
  <2>7. QED
    BY <2>2, <2>5, <2>6
<1>5. genuine => Continuous(new, h, r)
  BY <1>1, <1>3, FoldContinues DEF new
<1>6. u.height = h /\ u.root = r /\ u.acc = new /\ u.trust = t.trust
      /\ u = TipAt(u, u.trust)
  BY DEF TipAt
<1> HIDE DEF u
<1>7. TipOK(u, genuine)
  BY <1>4, <1>5, <1>6 DEF TipOK, Placed, FoldedOK, Decidable
<1>8. QED
  BY <1>2, <1>7

(* A node applies a checkpoint; its accumulator is kept when the           *)
(* checkpoint has none, and is then not genuine.                           *)
LEMMA TipApplies ==
    ASSUME NEW t, NEW genuine, TipOK(t, genuine), NEW c, NEW sentGenuine, SentOK(c, sentGenuine)
    PROVE  TipOK(advance_local(t, c), IF c.acc = NoAcc THEN t.acc = NoAcc ELSE sentGenuine)
<1> DEFINE a == IF c.acc = NoAcc THEN t.acc ELSE c.acc
           s == IF c.acc = NoAcc THEN t.acc = NoAcc ELSE sentGenuine
           u == [height |-> c.height, root |-> c.root, acc |-> a, trust |-> "LocalApplied"]
<1>1. advance_local(t, c) = u
  BY DEF advance_local, TipAt
<1>2. u.height = c.height /\ u.root = c.root /\ u.acc = a /\ u.trust = "LocalApplied"
      /\ u = TipAt(u, u.trust)
  BY DEF TipAt
<1>3. a \in Seq(Witness) /\ c.height \in Nat /\ c.root \in Int
  BY DEF TipOK, SentOK, Placed
<1>4. s => (Decidable(a) => Continuous(a, c.height, c.root))
  BY DEF SentOK, FoldedOK, Decidable
<1> HIDE DEF a, s, u
<1>5. TipOK(u, s)
  BY <1>2, <1>3, <1>4 DEF TipOK, Placed, FoldedOK
<1>6. QED
  BY <1>1, <1>5 DEF s

(* A tip is audited: it becomes trusted for a fold that decides. *)
LEMMA TipAudits ==
    ASSUME NEW t, NEW genuine, TipOK(t, genuine), Decidable(t.acc)
    PROVE  TipOK(redecide(t), genuine)
<1> DEFINE u == [height |-> t.height, root |-> t.root, acc |-> t.acc, trust |-> "FoldDecided"]
<1>1. t = [height |-> t.height, root |-> t.root, acc |-> t.acc, trust |-> t.trust]
  BY DEF TipOK, TipAt
<1>2. redecide(t) = u
  BY <1>1 DEF redecide
<1>3. u.height = t.height /\ u.root = t.root /\ u.acc = t.acc /\ u.trust = "FoldDecided"
      /\ u = TipAt(u, u.trust)
  BY DEF TipAt
<1> HIDE DEF u
<1>4. QED
  BY <1>2, <1>3 DEF TipOK, Placed, FoldedOK

(* What is issued is local or certified evidence over the tip. *)
LEMMA TipIssues ==
    ASSUME NEW t, NEW g, TipOK(t, g), NEW phi, NEW i \in DOMAIN Issued(t, phi)
    PROVE  IssuedAt(<<Issued(t, phi)[i]>>, IssuerOf(t))
<1> DEFINE l == issue("Local", "book", "s", t, <<>>)
           c == issue("Certified", "book", "s", t, <<>>)
           rest == issue_from_domain("book", "s", t, <<>>, phi, <<0, One>>, 0, One, 0, One, One)
<1>1. Issued(t, phi) = <<l>> \o rest /\ (rest = <<c>> \/ rest = <<>>)
  BY DEF Issued, issue_from_domain
<1> HIDE DEF l, c, rest
<1>2. Issued(t, phi)[i] \in {l, c}
  <2> DEFINE M == {l, c}
  <2>1. l \in M /\ c \in M
    OBVIOUS
  <2> HIDE DEF M
  <2>2. <<l>> \in Seq(M) /\ <<c>> \in Seq(M) /\ <<>> \in Seq(M)
    BY <2>1
  <2>3. rest \in Seq(M)
    BY <1>1, <2>2
  <2>4. Issued(t, phi) \in Seq(M)
    BY <1>1, <2>2, <2>3
  <2>5. QED
    BY <2>4 DEF M
<1>3. PICK k \in {"Local", "Certified"} :
          Issued(t, phi)[i] = issue(k, "book", "s", t, <<>>)
  BY <1>2 DEF l, c
<1> DEFINE u == IssuerOf(t)
<1>4. /\ t.height \in Nat /\ t.root \in Int
      /\ u.height = t.height /\ u.root = t.root /\ u.trust = t.trust
  BY DEF TipOK, Placed, IssuerOf
<1>5. u = IssuerOf(u)
  BY DEF IssuerOf
<1> HIDE DEF u
<1>6. issue(k, "book", "s", t, <<>>) = issue(k, "book", "s", u, <<>>)
  BY <1>4 DEF issue, grade4
<1>7. IssuedAt(<<Issued(t, phi)[i]>>, u)
  BY <1>3, <1>4, <1>5, <1>6 DEF IssuedAt
<1>8. QED
  BY <1>7 DEF u

(* Only the actions of the tips change a tip. *)
LEMMA OnlyTips ==
    ASSUME Next, kind' = "tip"
    PROVE  /\ kind = "tip"
           /\ \/ \E h \in TipHeights, root \in TipRoots : FoldsBlock(h, root) \/ Follows(h, root)
              \/ Exports \/ Joins \/ Applies \/ Audits \/ Issues
  BY DEF Next, AddWeight, AddClaim, AddValue, AddLeaf, AddAnswer, AddShard, AddItem, AddFrame,
         AddMessage, AddContent, AddFocus, JoinsMesh, Subscribes, TakesSome, Publishes,
         FoldsBlock, Follows, Exports, Joins, Applies, Audits, Issues, TakesPlace, TipStep,
         MeshStep, Absorbs, Folds, FoldStep, Grows

(* Every step keeps the invariant of the tips. *)
LEMMA TipInvStep ==
    ASSUME TipInv, [Next]_vars
    PROVE  TipInv'
<1>1. CASE UNCHANGED vars
  BY <1>1 DEF vars, TipInv
<1>2. CASE Next
  <2> SUFFICES ASSUME kind' = "tip" PROVE TipInput(input')
    BY DEF TipInv
  <2> DEFINE p == input.prover
             c == input.sent
             t == input.tip
             s == input.since
             e == input.evidence
             i == input.issuer
             g == input.genuine
             sg == input.sentGenuine
  <2>1. TipInput(input)
    BY <1>2, OnlyTips DEF TipInv
  <2>2. /\ input = State(p, c, t, s, e, i, g, sg)
        /\ g \in BOOLEAN /\ sg \in BOOLEAN
        /\ ProverOK(p) /\ SentOK(c, sg) /\ TipOK(t, g) /\ SinceOK(t, s) /\ IssuedAt(e, i)
    BY <2>1 DEF TipInput
  <2>3. ASSUME NEW h \in TipHeights, NEW root \in TipRoots, FoldsBlock(h, root)
        PROVE  TipInput(input')
    <3>1. input' = WithProver(input, fold_block(p, h, root)) /\ CanFoldBlock(p, h)
      BY <2>3 DEF FoldsBlock, TipStep, WithProver
    <3>2. ProverOK(fold_block(p, h, root))
      BY <2>2, <3>1, ProverFolds, HeightsRoots
    <3> HIDE DEF p, c, t, s, e, i, g, sg
    <3>3. input' = State(fold_block(p, h, root), c, t, s, e, i, g, sg)
      BY <2>2, <3>1, ProverUpdated
    <3>4. QED
      BY <2>2, <3>2, <3>3, TipInputOf
  <2>4. ASSUME NEW u, TipOK(u, g), SinceOK(u, s), TipStep([input EXCEPT !.tip = u])
        PROVE  TipInput(input')
    <3>1. input' = WithTip(input, u)
      BY <2>4 DEF TipStep, WithTip
    <3> HIDE DEF p, c, t, s, e, i, g, sg
    <3>2. input' = State(p, c, u, s, e, i, g, sg)
      BY <2>2, <3>1, TipUpdated
    <3>3. QED
      BY <2>2, <2>4, <3>2, TipInputOf
  <2>5. ASSUME NEW h \in TipHeights, NEW root \in TipRoots, Follows(h, root)
        PROVE  TipInput(input')
    <3> DEFINE u == advance_fold(t, h, root)
    <3>1. TipStep([input EXCEPT !.tip = u]) /\ CanAdvance(t, h)
      BY <2>5 DEF Follows
    <3> HIDE DEF p, c, t, s, e, i, g, sg
    <3>2. TipOK(u, g)
      BY <2>2, <3>1, TipFollows, HeightsRoots
    <3>3. t.acc # NoAcc /\ Placed(t) /\ h >= t.height
      BY <2>2, <3>1 DEF TipOK, CanAdvance, Decidable
    <3>4. u.acc = fold(t.acc, block_witness(h, root)) /\ u.height = h /\ u.root = root
      BY <3>3 DEF advance_fold
    <3> HIDE DEF u
    <3>5. SinceOK(u, s)
      BY <2>2, <3>3, <3>4, PathGrows, HeightsRoots
    <3>6. QED
      BY <2>4, <3>1, <3>2, <3>5
  <2>6. ASSUME NEW d, NEW f \in BOOLEAN, SentOK(d, f),
               TipStep([input EXCEPT !.sent = d, !.sentGenuine = f])
        PROVE  TipInput(input')
    <3>1. input' = WithSent(input, d, f)
      BY <2>6 DEF TipStep, WithSent
    <3> HIDE DEF p, c, t, s, e, i, g, sg
    <3>2. input' = State(p, d, t, s, e, i, g, f)
      BY <2>2, <3>1, SentUpdated
    <3>3. QED
      BY <2>2, <2>6, <3>2, TipInputOf
  <2>7. CASE Exports
    <3>1. CASE TipStep([input EXCEPT !.sent = checkpoint(input.prover), !.sentGenuine = TRUE])
      BY <2>2, <2>6, <3>1, ProverSends
    <3>2. CASE TipStep([input EXCEPT !.sent = to_checkpoint(input.tip), !.sentGenuine = input.genuine])
      BY <2>2, <2>6, <3>2, TipSends
    <3>3. ASSUME NEW h \in TipHeights, NEW root \in TipRoots,
                 NEW acc \in {NoAcc, input.prover.acc, input.tip.acc},
                 TipStep([input EXCEPT !.sent = [height |-> h, root |-> root, acc |-> acc],
                                       !.sentGenuine = FALSE])
          PROVE  TipInput(input')
      <4> DEFINE d == [height |-> h, root |-> root, acc |-> acc]
      <4>1. NoAcc \in Seq(Witness) /\ p.acc \in Seq(Witness) /\ t.acc \in Seq(Witness)
        BY <2>2 DEF NoAcc, Witness, block_witness, ProverOK, TipOK, Placed
      <4>2. acc \in Seq(Witness)
        BY <4>1
      <4>3. SentOK(d, FALSE)
        BY <4>2, ClaimSends, HeightsRoots
      <4>4. TipStep([input EXCEPT !.sent = d, !.sentGenuine = FALSE])
        BY <3>3
      <4> HIDE DEF d
      <4>5. QED
        BY <2>6, <4>3, <4>4
    <3>4. QED
      BY <2>7, <3>1, <3>2, <3>3 DEF Exports
  <2>8. ASSUME NEW u, NEW f \in BOOLEAN, TipOK(u, f), TakesPlace(u, f)
        PROVE  TipInput(input')
    <3> DEFINE d == to_checkpoint(u)
    <3>1. input' = WithPlace(input, u, d, f)
      BY <2>8 DEF TakesPlace, TipStep, WithPlace
    <3>2. SinceOK(u, d)
      BY <2>8, PlaceTaken DEF TipOK
    <3> HIDE DEF p, c, t, s, e, i, g, sg, d
    <3>3. input' = State(p, c, u, d, e, i, f, sg)
      BY <2>2, <3>1, PlaceUpdated
    <3>4. QED
      BY <2>2, <2>8, <3>2, <3>3, TipInputOf
  <2>9. CASE Joins
    <3>1. TakesPlace(join_checkpoint(c), sg)
      BY <2>9 DEF Joins
    <3>2. TipOK(join_checkpoint(c), sg)
      BY <2>2, TipTakes DEF join_checkpoint
    <3> HIDE DEF p, c, t, s, e, i, g, sg
    <3>3. QED
      BY <2>2, <2>8, <3>1, <3>2
  <2>10. CASE Applies
    <3> DEFINE f == IF c.acc = NoAcc THEN t.acc = NoAcc ELSE sg
    <3>1. TakesPlace(advance_local(t, c), f)
      BY <2>10 DEF Applies
    <3>2. TipOK(advance_local(t, c), f) /\ f \in BOOLEAN
      BY <2>2, TipApplies
    <3> HIDE DEF p, c, t, s, e, i, g, sg, f
    <3>3. QED
      BY <2>8, <3>1, <3>2
  <2>11. CASE Audits
    <3> DEFINE u == redecide(t)
    <3>1. TipStep([input EXCEPT !.tip = u]) /\ Decidable(t.acc)
      BY <2>11 DEF Audits
    <3>2. TipOK(u, g)
      BY <2>2, <3>1, TipAudits
    <3>3. u.acc = t.acc /\ u.height = t.height /\ u.root = t.root
      BY <2>2 DEF redecide, TipOK, TipAt
    <3> HIDE DEF p, c, t, s, e, i, g, sg, u
    <3>4. SinceOK(u, s)
      BY <2>2, <3>3 DEF SinceOK, Path, Own
    <3>5. QED
      BY <2>4, <3>1, <3>2, <3>4
  <2>12. CASE Issues
    <3>1. PICK phi \in {0, One} : \E j \in DOMAIN Issued(t, phi) :
              TipStep([input EXCEPT !.evidence = <<Issued(t, phi)[j]>>, !.issuer = IssuerOf(t)])
      BY <2>12 DEF Issues
    <3>2. PICK j \in DOMAIN Issued(t, phi) :
              TipStep([input EXCEPT !.evidence = <<Issued(t, phi)[j]>>, !.issuer = IssuerOf(t)])
      BY <3>1
    <3> DEFINE x == <<Issued(t, phi)[j]>>
               y == IssuerOf(t)
    <3>3. IssuedAt(x, y)
      BY <2>2, TipIssues
    <3>4. input' = WithEvidence(input, x, y)
      BY <3>2 DEF TipStep, WithEvidence
    <3> HIDE DEF p, c, t, s, e, i, g, sg, x, y
    <3>5. input' = State(p, c, t, s, x, y, g, sg)
      BY <2>2, <3>4, EvidenceUpdated
    <3>6. QED
      BY <2>2, <3>3, <3>5, TipInputOf
  <2>13. QED
    BY <1>2, <2>3, <2>5, <2>7, <2>9, <2>10, <2>11, <2>12, OnlyTips
<1>3. QED
  BY <1>1, <1>2

(* The evidence with one field replaced. *)
Altered(ev) ==
    {[ev EXCEPT !.book_id = "other"], [ev EXCEPT !.signal_id = "other"],
     [ev EXCEPT !.height = @ + 1], [ev EXCEPT !.root = @ + 1],
     [ev EXCEPT !.nullifier_hash = nullifier_set_hash(<<"other">>)],
     [ev EXCEPT !.kind = IF @ = "Certified" THEN "Local" ELSE "Certified"]}

(* Evidence that was issued over a place of grade 4 is accepted at the     *)
(* trusted tips of its height and root alone, and not with another field.  *)
LEMMA EvidenceFacts ==
    ASSUME NEW k \in {"Local", "Certified"}, NEW h \in Nat, NEW r \in Int,
           NEW s, s.height = h, s.root = r, NEW t
    PROVE  LET ev == issue(k, "book", "s", s, <<>>)
           IN  /\ verify_evidence(ev, t) <=> grade4(s) /\ grade4(t) /\ t.height = h /\ t.root = r
               /\ \A x \in Altered(ev) : ~ verify_evidence(x, t)
<1> DEFINE nh == [nullifiers |-> <<>>]
           Ev(b, sg, x, y, n, kd) ==
               [book_id |-> b, signal_id |-> sg, height |-> x, root |-> y,
                nullifier_hash |-> n, kind |-> kd,
                binding |-> bind(k, "book", "s", h, r, nh, grade4(s))]
           ev == issue(k, "book", "s", s, <<>>)
           OK(b, sg, x, y, n, kd) ==
               /\ grade4(t) /\ t.height = x /\ t.root = y
               /\ k = kd /\ b = "book" /\ sg = "s" /\ x = h /\ y = r /\ n = nh /\ grade4(s) = TRUE
<1>1. ev = Ev("book", "s", h, r, nh, k)
  BY DEF issue, nullifier_set_hash
<1>2. ASSUME NEW b, NEW sg, NEW x, NEW y, NEW n, NEW kd
      PROVE  verify_evidence(Ev(b, sg, x, y, n, kd), t) <=> OK(b, sg, x, y, n, kd)
  BY DEF verify_evidence, bind
<1>3. grade4(s) \in BOOLEAN
  BY DEF grade4
<1>4. ev.height = h /\ ev.root = r /\ ev.kind = k
  BY <1>1
<1>5. verify_evidence(ev, t) <=> grade4(s) /\ grade4(t) /\ t.height = h /\ t.root = r
  <2>1. verify_evidence(ev, t) <=> OK("book", "s", h, r, nh, k)
    <3> HIDE DEF Ev, OK, ev
    <3> QED BY <1>1, <1>2
  <2>2. QED
    BY <1>3, <1>4, <2>1
<1>6. /\ [ev EXCEPT !.book_id = "other"] = Ev("other", "s", h, r, nh, k)
      /\ [ev EXCEPT !.signal_id = "other"] = Ev("book", "other", h, r, nh, k)
      /\ [ev EXCEPT !.height = @ + 1] = Ev("book", "s", h + 1, r, nh, k)
      /\ [ev EXCEPT !.root = @ + 1] = Ev("book", "s", h, r + 1, nh, k)
      /\ [ev EXCEPT !.nullifier_hash = nullifier_set_hash(<<"other">>)]
           = Ev("book", "s", h, r, [nullifiers |-> <<"other">>], k)
      /\ [ev EXCEPT !.kind = IF @ = "Certified" THEN "Local" ELSE "Certified"]
           = Ev("book", "s", h, r, nh, IF k = "Certified" THEN "Local" ELSE "Certified")
  BY <1>1, <1>4 DEF nullifier_set_hash
<1>7. [nullifiers |-> <<"other">>] # nh /\ h + 1 # h /\ r + 1 # r
      /\ (IF k = "Certified" THEN "Local" ELSE "Certified") # k
  <2>1. <<"other">> # <<>>
    OBVIOUS
  <2>2. QED
    BY <2>1
<1>8. /\ ~ verify_evidence(Ev("other", "s", h, r, nh, k), t)
      /\ ~ verify_evidence(Ev("book", "other", h, r, nh, k), t)
      /\ ~ verify_evidence(Ev("book", "s", h + 1, r, nh, k), t)
      /\ ~ verify_evidence(Ev("book", "s", h, r + 1, nh, k), t)
      /\ ~ verify_evidence(Ev("book", "s", h, r, [nullifiers |-> <<"other">>], k), t)
      /\ ~ verify_evidence(Ev("book", "s", h, r, nh,
                              IF k = "Certified" THEN "Local" ELSE "Certified"), t)
  <2> DEFINE other == IF k = "Certified" THEN "Local" ELSE "Certified"
             hash == [nullifiers |-> <<"other">>]
  <2>1. ~ OK("other", "s", h, r, nh, k) /\ ~ OK("book", "other", h, r, nh, k)
    OBVIOUS
  <2>2. ~ OK("book", "s", h + 1, r, nh, k) /\ ~ OK("book", "s", h, r + 1, nh, k)
    BY <1>7
  <2>3. ~ OK("book", "s", h, r, hash, k) /\ ~ OK("book", "s", h, r, nh, other)
    BY <1>7
  <2> HIDE DEF Ev, OK, other, hash, nh
  <2>4. ~ verify_evidence(Ev("other", "s", h, r, nh, k), t)
        /\ ~ verify_evidence(Ev("book", "other", h, r, nh, k), t)
    BY <1>2, <2>1
  <2>5. ~ verify_evidence(Ev("book", "s", h + 1, r, nh, k), t)
        /\ ~ verify_evidence(Ev("book", "s", h, r + 1, nh, k), t)
    BY <1>2, <2>2
  <2>6. ~ verify_evidence(Ev("book", "s", h, r, hash, k), t)
        /\ ~ verify_evidence(Ev("book", "s", h, r, nh, other), t)
    BY <1>2, <2>3
  <2>7. QED
    BY <2>4, <2>5, <2>6 DEF other, hash
<1> HIDE DEF ev, Ev
<1>9. \A x \in Altered(ev) : ~ verify_evidence(x, t)
  BY <1>6, <1>8 DEF Altered
<1>10. QED
  BY <1>5, <1>9 DEF ev

(* The invariant of the tips is what is promised of them. *)
LEMMA TipInvTrusted == TipInv => TipsTrusted
<1> SUFFICES ASSUME TipInv, kind = "tip"
             PROVE  /\ FoldContinuous(input.tip, input.since)
                    /\ input.genuine => HistoryContinuous(input.tip)
                    /\ input.evidence # <<>> => EvidenceAtTip(input.evidence[1], input.issuer, input.tip)
  BY DEF TipsTrusted
<1>1. TipOK(input.tip, input.genuine) /\ SinceOK(input.tip, input.since)
      /\ IssuedAt(input.evidence, input.issuer)
  BY DEF TipInv, TipInput
<1>2. FoldContinuous(input.tip, input.since)
  BY <1>1 DEF TipOK, SinceOK, Path, FoldContinuous
<1>3. input.genuine => HistoryContinuous(input.tip)
  BY <1>1 DEF TipOK, FoldedOK, HistoryContinuous
<1>4. ASSUME input.evidence # <<>>
      PROVE  EvidenceAtTip(input.evidence[1], input.issuer, input.tip)
  <2> DEFINE s == input.issuer
             t == input.tip
             h == s.height
             r == s.root
  <2>1. PICK k \in {"Local", "Certified"} : input.evidence = <<issue(k, "book", "s", s, <<>>)>>
    BY <1>1, <1>4 DEF IssuedAt
  <2> DEFINE ev == issue(k, "book", "s", s, <<>>)
  <2>2. h \in Nat /\ r \in Int
    BY <1>1 DEF IssuedAt
  <2>3. input.evidence[1] = ev
    BY <2>1
  <2> HIDE DEF s, t
  <2>4. ASSUME NEW x
        PROVE  /\ verify_evidence(ev, x) <=> grade4(s) /\ grade4(x) /\ x.height = h /\ x.root = r
               /\ \A o \in Altered(ev) : ~ verify_evidence(o, x)
    BY <2>2, EvidenceFacts
  <2> HIDE DEF ev, h, r
  <2>5. EvidenceAtTip(ev, s, t)
    <3>1. verify_evidence(ev, s) <=> grade4(s)
      BY <2>4 DEF h, r
    <3>2. verify_evidence(ev, t) =>
            grade4(s) /\ grade4(t) /\ t.height = s.height /\ t.root = s.root
      BY <2>4 DEF h, r
    <3>3. \A o \in Altered(ev) : ~ verify_evidence(o, s) /\ ~ verify_evidence(o, t)
      BY <2>4
    <3>4. QED
      BY <3>1, <3>2, <3>3 DEF EvidenceAtTip, Altered
  <2>6. QED
    BY <2>3, <2>5 DEF s, t
<1>5. QED
  BY <1>2, <1>3, <1>4

(* join_checkpoint, advance_fold, advance_local, redecide and fold_block,  *)
(* called in any order and with checkpoints that arrive late and claim any *)
(* height and root, trust for its fold only a tip that has folded in order *)
(* from the checkpoint it took last, and from the first height if that was *)
(* genuine; and evidence is accepted over its own tip if that is trusted,  *)
(* and else only at a trusted tip of its height and root.                  *)
THEOREM TipsTrustedHolds == Spec => []TipsTrusted
<1>1. Init => TipInv
  BY TipInvInit
<1>2. TipInv /\ [Next]_vars => TipInv'
  BY TipInvStep
<1>3. TipInv => TipsTrusted
  BY TipInvTrusted
<1>4. QED
  BY <1>1, <1>2, <1>3, PTL DEF Spec

(***************************************************************************)
(* The mesh.                                                               *)
(***************************************************************************)

(* The content ids in s. *)
Ids(s) == {cid(m) : m \in ToSet(s)}

(* No content id is in s twice. *)
Distinct(s) ==
    IsInjective(s) /\ \A l \in ToSet(s), m \in ToSet(s) : cid(l) = cid(m) => l = m

(* Lists of messages. *)
Inboxes == Seq(MeshMessages)

(* What a peer was owed, it took or has, once; that is what it has seen. *)
PeerOK(p, peer, owed, taken) ==
    /\ peer = [inbox |-> peer.inbox, seen |-> peer.seen, subs |-> peer.subs]
    /\ peer.inbox \in Inboxes /\ taken \in Inboxes
    /\ Distinct(peer.inbox) /\ Distinct(taken) /\ Ids(peer.inbox) \cap Ids(taken) = {}
    /\ peer.seen = Ids(peer.inbox) \cup Ids(taken)
    /\ \A c : c \in peer.seen <=> <<p, c>> \in owed

(* What is owed are pairs of peer and content id. *)
Pairs(owed) == \A x \in owed : x = <<x[1], x[2]>>

(* The record of a state of the mesh. *)
History(mesh, owed, taken) == [mesh |-> mesh, owed |-> owed, taken |-> taken]

(* The inductive invariant of the mesh; who has not joined is owed nothing *)
(* and took nothing.                                                       *)
MeshInput(x) ==
    /\ x = History(x.mesh, x.owed, x.taken) /\ Pairs(x.owed)
    /\ x.mesh = [peers |-> x.mesh.peers, fanout |-> x.mesh.fanout]
    /\ Joined(x.mesh) \subseteq MeshPeers /\ x.mesh.peers = [p \in Joined(x.mesh) |-> x.mesh.peers[p]]
    /\ x.taken = [p \in MeshPeers |-> x.taken[p]]
    /\ \A p \in Joined(x.mesh) : PeerOK(p, x.mesh.peers[p], x.owed, x.taken[p])
    /\ \A p \in MeshPeers \ Joined(x.mesh) : x.taken[p] = <<>> /\ \A c : <<p, c>> \notin x.owed

(* The same as a predicate on states. *)
MeshInv == kind = "mesh" => MeshInput(input)

(* Distinct lists with different ids make a distinct list. *)
LEMMA Concatenate ==
    ASSUME NEW M, NEW s \in Seq(M), NEW t \in Seq(M), Distinct(s), Distinct(t),
           Ids(s) \cap Ids(t) = {}
    PROVE  s \o t \in Seq(M) /\ Distinct(s \o t) /\ Ids(s \o t) = Ids(s) \cup Ids(t)
<1> DEFINE u == s \o t
<1>1. /\ DOMAIN s = 1 .. Len(s) /\ DOMAIN t = 1 .. Len(t) /\ Len(s) \in Nat /\ Len(t) \in Nat
      /\ u \in Seq(M) /\ DOMAIN u = 1 .. Len(s) + Len(t)
      /\ \A i \in 1 .. Len(s) : u[i] = s[i]
      /\ \A i \in 1 .. Len(t) : u[Len(s) + i] = t[i]
  OBVIOUS
<1> HIDE DEF u
<1>2. \A i \in DOMAIN u : (i \in DOMAIN s /\ u[i] = s[i])
                          \/ (i - Len(s) \in DOMAIN t /\ u[i] = t[i - Len(s)])
  <2> SUFFICES ASSUME NEW i \in DOMAIN u, i \notin DOMAIN s
               PROVE  i - Len(s) \in DOMAIN t /\ u[i] = t[i - Len(s)]
    BY <1>1
  <2> DEFINE j == i - Len(s)
  <2>1. j \in 1 .. Len(t) /\ i = Len(s) + j
    BY <1>1
  <2>2. QED
    BY <1>1, <2>1
<1>3. ToSet(u) = ToSet(s) \cup ToSet(t)
  <2>1. \A x \in ToSet(s) : x \in ToSet(u)
    BY <1>1 DEF ToSet
  <2>2. \A x \in ToSet(t) : x \in ToSet(u)
    <3> SUFFICES ASSUME NEW j \in DOMAIN t PROVE t[j] \in ToSet(u)
      BY DEF ToSet
    <3>1. Len(s) + j \in DOMAIN u /\ u[Len(s) + j] = t[j]
      BY <1>1
    <3>2. QED
      BY <3>1 DEF ToSet
  <2>3. \A x \in ToSet(u) : x \in ToSet(s) \cup ToSet(t)
    BY <1>2 DEF ToSet
  <2>4. QED
    BY <2>1, <2>2, <2>3
<1>4. ASSUME NEW l \in ToSet(u), NEW m \in ToSet(u), cid(l) = cid(m) PROVE l = m
  BY <1>3, <1>4 DEF Distinct, Ids
<1>5. ASSUME NEW i \in DOMAIN u, NEW j \in DOMAIN u, u[i] = u[j] PROVE i = j
  <2>1. CASE i \in DOMAIN s /\ j \in DOMAIN s
    BY <1>1, <1>5, <2>1 DEF Distinct, IsInjective
  <2>2. CASE i \notin DOMAIN s /\ j \notin DOMAIN s
    <3>1. i - Len(s) \in DOMAIN t /\ j - Len(s) \in DOMAIN t /\ t[i - Len(s)] = t[j - Len(s)]
      BY <1>2, <1>5, <2>2
    <3>2. i - Len(s) = j - Len(s)
      BY <3>1 DEF Distinct, IsInjective
    <3>3. QED
      BY <1>1, <3>2
  <2>3. ASSUME NEW a \in DOMAIN s, NEW b \in DOMAIN t, s[a] = t[b] PROVE FALSE
    BY <2>3 DEF Ids, ToSet
  <2>4. QED
    BY <1>2, <1>5, <2>1, <2>2, <2>3
<1>6. QED
  BY <1>1, <1>3, <1>4, <1>5 DEF u, Distinct, IsInjective, Ids

(* Taking some of a distinct list leaves two that share no id. *)
LEMMA Divide ==
    ASSUME NEW M, NEW s \in Seq(M), Distinct(s), NEW K,
           NEW a, a = Chosen(s, K), NEW b, b = Chosen(s, DOMAIN s \ K)
    PROVE  /\ a \in Seq(M) /\ b \in Seq(M) /\ Distinct(a) /\ Distinct(b)
           /\ Ids(a) \cap Ids(b) = {} /\ Ids(a) \cup Ids(b) = Ids(s)
<1> DEFINE R == DOMAIN s \ K
<1>1. /\ a \in Seq(M) /\ ToSet(a) = {s[k] : k \in K \cap DOMAIN s}
      /\ IsInjective(a)
  BY ChosenFacts DEF Distinct
<1>2. /\ b \in Seq(M) /\ ToSet(b) = {s[k] : k \in R \cap DOMAIN s}
      /\ IsInjective(b)
  BY ChosenFacts DEF Distinct
<1>3. ToSet(s) = {s[k] : k \in DOMAIN s}
  BY DEF ToSet
<1>4. ToSet(a) \cup ToSet(b) = ToSet(s)
  BY <1>1, <1>2, <1>3
<1>5. Distinct(a) /\ Distinct(b)
  BY <1>1, <1>2, <1>4 DEF Distinct
<1>6. ASSUME NEW l \in ToSet(a), NEW m \in ToSet(b), cid(l) = cid(m) PROVE FALSE
  <2>1. l = m
    BY <1>4, <1>6 DEF Distinct
  <2>2. PICK i \in K \cap DOMAIN s : l = s[i]
    BY <1>1
  <2>3. PICK j \in R \cap DOMAIN s : m = s[j]
    BY <1>2
  <2>4. QED
    BY <2>1, <2>2, <2>3 DEF Distinct, IsInjective
<1>7. QED
  BY <1>1, <1>2, <1>4, <1>5, <1>6 DEF Ids

(* A list of one message. *)
LEMMA Single ==
    ASSUME NEW M, NEW m \in M
    PROVE  <<m>> \in Seq(M) /\ Distinct(<<m>>) /\ Ids(<<m>>) = {cid(m)}
<1>1. <<m>> \in Seq(M) /\ DOMAIN <<m>> = {1} /\ <<m>>[1] = m
  OBVIOUS
<1> DEFINE s == <<m>>
<1> HIDE DEF s
<1>2. ToSet(s) = {m} /\ IsInjective(s)
  BY <1>1 DEF s, ToSet, IsInjective
<1>3. Distinct(s) /\ Ids(s) = {cid(m)}
  BY <1>2 DEF Distinct, Ids
<1>4. QED
  BY <1>1, <1>3 DEF s

(* The empty list. *)
LEMMA NoMessage == <<>> \in Inboxes /\ Distinct(<<>>) /\ Ids(<<>>) = {}
  BY DEF Inboxes, Distinct, Ids, ToSet, IsInjective

(* A message that is published to a peer is owed to it and, unless it was  *)
(* seen, put in its inbox.                                                 *)
LEMMA PushFacts ==
    ASSUME NEW p, NEW peer, NEW owed, NEW taken, PeerOK(p, peer, owed, taken),
           NEW m \in MeshMessages, NEW new, \A c : <<p, c>> \in new <=> c = cid(m)
    PROVE  PeerOK(p, Push(peer, m), owed \cup new, taken)
<1>1. CASE cid(m) \in peer.seen
  <2>1. Push(peer, m) = peer
    BY <1>1 DEF Push
  <2>2. QED
    BY <1>1, <2>1 DEF PeerOK
<1>2. CASE cid(m) \notin peer.seen
  <2> DEFINE i == Append(peer.inbox, m)
             q == [inbox |-> i, seen |-> peer.seen \cup {cid(m)}, subs |-> peer.subs]
  <2>1. Push(peer, m) = q
    BY <1>2 DEF Push
  <2>2. q.inbox = i /\ q.seen = peer.seen \cup {cid(m)} /\ q.subs = peer.subs
        /\ q = [inbox |-> q.inbox, seen |-> q.seen, subs |-> q.subs]
    OBVIOUS
  <2>3. i = peer.inbox \o <<m>>
    BY DEF PeerOK, Inboxes
  <2>4. i \in Inboxes /\ Distinct(i) /\ Ids(i) = Ids(peer.inbox) \cup {cid(m)}
    <3> DEFINE one == <<m>>
    <3>1. one \in Seq(MeshMessages) /\ Distinct(one) /\ Ids(one) = {cid(m)} /\ i = peer.inbox \o one
      BY <2>3, Single
    <3> HIDE DEF one, i
    <3>2. peer.inbox \in Seq(MeshMessages) /\ Distinct(peer.inbox)
          /\ Ids(peer.inbox) \cap Ids(one) = {}
      BY <1>2, <3>1 DEF PeerOK, Inboxes
    <3>3. QED
      BY <3>1, <3>2, Concatenate DEF Inboxes
  <2> HIDE DEF i, q
  <2>5. PeerOK(p, q, owed \cup new, taken)
    BY <1>2, <2>2, <2>4 DEF PeerOK
  <2>6. QED
    BY <2>1, <2>5
<1>3. QED
  BY <1>1, <1>2

(* What is published to others does not concern a peer. *)
LEMMA OthersPushed ==
    ASSUME NEW p, NEW peer, NEW owed, NEW taken, PeerOK(p, peer, owed, taken),
           NEW new, \A c : <<p, c>> \notin new
    PROVE  PeerOK(p, peer, owed \cup new, taken)
<1>1. \A c : <<p, c>> \in owed \cup new <=> <<p, c>> \in owed
  OBVIOUS
<1>2. QED
  BY <1>1 DEF PeerOK

(* Nor does it matter what it listens to. *)
LEMMA SubscribeFacts ==
    ASSUME NEW p, NEW peer, NEW owed, NEW taken, PeerOK(p, peer, owed, taken), NEW topic
    PROVE  PeerOK(p, [peer EXCEPT !.subs = @ \cup {topic}], owed, taken)
<1> DEFINE q == [inbox |-> peer.inbox, seen |-> peer.seen, subs |-> peer.subs \cup {topic}]
<1>1. [peer EXCEPT !.subs = @ \cup {topic}] = q
  <2> DEFINE x == peer.subs \cup {topic}
  <2>1. peer = [inbox |-> peer.inbox, seen |-> peer.seen, subs |-> peer.subs]
    BY DEF PeerOK
  <2>2. [peer EXCEPT !.subs = x] = [inbox |-> peer.inbox, seen |-> peer.seen, subs |-> x]
    <3> HIDE DEF x
    <3> QED BY <2>1
  <2>3. QED
    BY <2>2
<1>2. q.inbox = peer.inbox /\ q.seen = peer.seen
      /\ q = [inbox |-> q.inbox, seen |-> q.seen, subs |-> q.subs]
  OBVIOUS
<1> HIDE DEF q
<1>3. PeerOK(p, q, owed, taken)
  BY <1>2 DEF PeerOK
<1>4. QED
  BY <1>1, <1>3

(* A peer that takes some of its inbox. *)
LEMMA TakeFacts ==
    ASSUME NEW p, NEW peer, NEW owed, NEW taken, PeerOK(p, peer, owed, taken), NEW K
    PROVE  PeerOK(p, [peer EXCEPT !.inbox = Chosen(peer.inbox, DOMAIN peer.inbox \ K)], owed,
                  taken \o Chosen(peer.inbox, K))
<1> DEFINE s == peer.inbox
           a == Chosen(s, K)
           b == Chosen(s, DOMAIN s \ K)
           q == [inbox |-> b, seen |-> peer.seen, subs |-> peer.subs]
<1>1. [peer EXCEPT !.inbox = b] = q
  BY DEF PeerOK
<1>2. q.inbox = b /\ q.seen = peer.seen /\ q.subs = peer.subs
      /\ q = [inbox |-> q.inbox, seen |-> q.seen, subs |-> q.subs]
  OBVIOUS
<1>3. s \in Seq(MeshMessages) /\ taken \in Seq(MeshMessages) /\ Distinct(s) /\ Distinct(taken)
      /\ Ids(s) \cap Ids(taken) = {} /\ peer.seen = Ids(s) \cup Ids(taken)
      /\ \A c : c \in peer.seen <=> <<p, c>> \in owed
  BY DEF PeerOK, Inboxes
<1>0. a = Chosen(s, K) /\ b = Chosen(s, DOMAIN s \ K)
  OBVIOUS
<1> HIDE DEF a, b, q, s
<1>4. /\ a \in Seq(MeshMessages) /\ b \in Seq(MeshMessages) /\ Distinct(a) /\ Distinct(b)
      /\ Ids(a) \cap Ids(b) = {} /\ Ids(a) \cup Ids(b) = Ids(s)
  <2>1. s \in Seq(MeshMessages) /\ Distinct(s)
    BY <1>3
  <2> DEFINE M == MeshMessages
  <2>2. s \in Seq(M)
    BY <2>1
  <2> HIDE DEF M
  <2>3. /\ a \in Seq(M) /\ b \in Seq(M) /\ Distinct(a) /\ Distinct(b)
        /\ Ids(a) \cap Ids(b) = {} /\ Ids(a) \cup Ids(b) = Ids(s)
    BY <1>0, <2>1, <2>2, Divide
  <2>4. QED
    BY <2>3 DEF M
<1>5. /\ taken \o a \in Seq(MeshMessages) /\ Distinct(taken \o a)
      /\ Ids(taken \o a) = Ids(taken) \cup Ids(a)
  <2>1. Ids(taken) \cap Ids(a) = {}
    BY <1>3, <1>4
  <2>2. QED
    BY <1>3, <1>4, <2>1, Concatenate
<1>6. PeerOK(p, q, owed, taken \o a)
  BY <1>2, <1>3, <1>4, <1>5 DEF PeerOK, Inboxes
<1>7. QED
  BY <1>1, <1>6 DEF a, b, s

(* The state with one field replaced. *)
WithMesh(x, y) == [x EXCEPT !.mesh = y]
WithOwed(x, y) == [x EXCEPT !.owed = y]
WithTaken(x, y) == [x EXCEPT !.taken = y]

(* An update of a field changes that field. *)
LEMMA HistoryUpdates ==
    ASSUME NEW mesh, NEW owed, NEW taken, NEW y, NEW x, x = History(mesh, owed, taken)
    PROVE  /\ WithMesh(x, y) = History(y, owed, taken)
           /\ WithOwed(x, y) = History(mesh, y, taken)
           /\ WithTaken(x, y) = History(mesh, owed, y)
  BY DEF History, WithMesh, WithOwed, WithTaken

(* A state of the mesh, by its parts. *)
LEMMA MeshInputOf ==
    ASSUME NEW J \in SUBSET MeshPeers, NEW peers, peers = [p \in J |-> peers[p]], NEW fanout,
           NEW owed, Pairs(owed), NEW taken, taken = [p \in MeshPeers |-> taken[p]],
           \A p \in J : PeerOK(p, peers[p], owed, taken[p]),
           \A p \in MeshPeers \ J : taken[p] = <<>> /\ \A c : <<p, c>> \notin owed
    PROVE  MeshInput(History([peers |-> peers, fanout |-> fanout], owed, taken))
<1> DEFINE mesh == [peers |-> peers, fanout |-> fanout]
           x == History(mesh, owed, taken)
<1>1. mesh.peers = peers /\ mesh.fanout = fanout /\ DOMAIN peers = J
  OBVIOUS
<1>2. Joined(mesh) = J
  BY <1>1 DEF Joined
<1> HIDE DEF mesh
<1>3. x.mesh = mesh /\ x.owed = owed /\ x.taken = taken /\ x = History(x.mesh, x.owed, x.taken)
  BY DEF History
<1> HIDE DEF x
<1>4. x.mesh = [peers |-> x.mesh.peers, fanout |-> x.mesh.fanout]
  BY <1>1, <1>3 DEF mesh
<1>5. MeshInput(x)
  BY <1>1, <1>2, <1>3, <1>4 DEF MeshInput
<1>6. QED
  BY <1>5 DEF x, mesh

(* Only the actions of the mesh change a mesh. *)
LEMMA OnlyMesh ==
    ASSUME Next, kind' = "mesh"
    PROVE  /\ kind = "mesh"
           /\ \/ \E p \in MeshPeers : JoinsMesh(p)
              \/ \E ps \in Subscriptions : Subscribes(ps[1], ps[2])
              \/ \E p \in Takers : TakesSome(p)
              \/ \E p \in Publishers, m \in MeshMessages : Publishes(p, m)
  BY DEF Next, AddWeight, AddClaim, AddValue, AddLeaf, AddAnswer, AddShard, AddItem, AddFrame,
         AddMessage, AddContent, AddFocus, JoinsMesh, Subscribes, TakesSome, Publishes,
         FoldsBlock, Follows, Exports, Joins, Applies, Audits, Issues, TakesPlace, TipStep,
         MeshStep, Absorbs, Folds, FoldStep, Grows

(* The first state of the mesh. *)
LEMMA MeshInvInit == Init => MeshInv
<1> SUFFICES ASSUME Init, kind = "mesh" PROVE MeshInput(input)
  BY DEF MeshInv
<1> DEFINE f == IF Fanout < 2 THEN 2 ELSE Fanout
           taken == [p \in MeshPeers |-> <<>>]
<1>1. input = History(NewMesh(Fanout), {}, taken)
  BY DEF Init, History
<1>2. NewMesh(Fanout) = [peers |-> <<>>, fanout |-> f]
  BY DEF NewMesh
<1>3. <<>> = [p \in {} |-> <<>>[p]] /\ {} \in SUBSET MeshPeers
  OBVIOUS
<1>4. taken = [p \in MeshPeers |-> taken[p]] /\ \A p \in MeshPeers : taken[p] = <<>>
  OBVIOUS
<1> HIDE DEF taken, f
<1> DEFINE none == <<>>
<1>5. none = [p \in {} |-> none[p]]
  BY <1>3
<1> HIDE DEF none
<1>6. MeshInput(History([peers |-> none, fanout |-> f], {}, taken))
  <2>1. \A p \in {} : PeerOK(p, none[p], {}, taken[p])
    OBVIOUS
  <2>2. \A p \in MeshPeers \ {} : taken[p] = <<>> /\ \A c : <<p, c>> \notin {}
    BY <1>4
  <2>3. Pairs({})
    BY DEF Pairs
  <2>4. QED
    BY <1>3, <1>4, <1>5, <2>1, <2>2, <2>3, MeshInputOf
<1>7. QED
  BY <1>1, <1>2, <1>6 DEF none, f

(* Every step keeps the invariant of the mesh. *)
LEMMA MeshInvStep ==
    ASSUME MeshInv, [Next]_vars
    PROVE  MeshInv'
<1>1. CASE UNCHANGED vars
  BY <1>1 DEF vars, MeshInv
<1>2. CASE Next
  <2> SUFFICES ASSUME kind' = "mesh" PROVE MeshInput(input')
    BY DEF MeshInv
  <2> DEFINE mesh == input.mesh
             J == DOMAIN mesh.peers
             P0 == mesh.peers
             f == mesh.fanout
             o == input.owed
             tk == input.taken
  <2>1. MeshInput(input)
    BY <1>2, OnlyMesh DEF MeshInv
  <2>2. /\ input = History(mesh, o, tk) /\ mesh = [peers |-> P0, fanout |-> f]
        /\ J \in SUBSET MeshPeers /\ P0 = [p \in J |-> P0[p]] /\ Joined(mesh) = J
        /\ tk = [p \in MeshPeers |-> tk[p]] /\ Pairs(o)
        /\ \A p \in J : PeerOK(p, P0[p], o, tk[p])
        /\ \A p \in MeshPeers \ J : tk[p] = <<>> /\ \A c : <<p, c>> \notin o
    BY <2>1 DEF MeshInput, Joined
  <2>3. ASSUME NEW p \in MeshPeers, JoinsMesh(p)
        PROVE  MeshInput(input')
    <3> DEFINE K == J \cup {p}
               new == [q \in K |-> IF q \in J THEN P0[q] ELSE NewPeer]
               m1 == [peers |-> new, fanout |-> f]
    <3>1. input' = WithMesh(input, join(mesh, p))
      BY <2>3 DEF JoinsMesh, MeshStep, WithMesh
    <3>2. join(mesh, p) = m1
      BY <2>2 DEF join
    <3>3. new = [q \in K |-> new[q]] /\ K \in SUBSET MeshPeers
      BY <2>2
    <3>4. ASSUME NEW q \in K PROVE PeerOK(q, new[q], o, tk[q])
      <4>1. CASE q \in J
        BY <2>2, <4>1
      <4>2. CASE q \notin J
        <5>1. new[q] = NewPeer /\ tk[q] = <<>> /\ \A c : <<q, c>> \notin o
          BY <2>2, <4>2
        <5> HIDE DEF new
        <5>2. QED
          BY <5>1, NoMessage DEF PeerOK, NewPeer
      <4>3. QED
        BY <4>1, <4>2
    <3>5. \A q \in MeshPeers \ K : tk[q] = <<>> /\ \A c : <<q, c>> \notin o
      BY <2>2
    <3> HIDE DEF mesh, J, P0, f, o, tk, K, new
    <3>6. MeshInput(History(m1, o, tk))
      BY <2>2, <3>3, <3>4, <3>5, MeshInputOf
    <3>7. QED
      BY <2>2, <3>1, <3>2, <3>6, HistoryUpdates
  <2>4. ASSUME NEW p, NEW topic, Subscribes(p, topic)
        PROVE  MeshInput(input')
    <3> DEFINE new == [q \in J |-> IF q = p THEN [P0[q] EXCEPT !.subs = @ \cup {topic}] ELSE P0[q]]
               m1 == [peers |-> new, fanout |-> f]
    <3>1. input' = WithMesh(input, subscribe(mesh, p, topic))
      BY <2>4 DEF Subscribes, MeshStep, WithMesh
    <3>2. subscribe(mesh, p, topic) = m1
      BY <2>2 DEF subscribe
    <3>3. new = [q \in J |-> new[q]]
      OBVIOUS
    <3>4. ASSUME NEW q \in J PROVE PeerOK(q, new[q], o, tk[q])
      <4>1. new[q] = IF q = p THEN [P0[q] EXCEPT !.subs = @ \cup {topic}] ELSE P0[q]
        OBVIOUS
      <4>2. PeerOK(q, P0[q], o, tk[q])
        BY <2>2
      <4>3. PeerOK(q, [P0[q] EXCEPT !.subs = @ \cup {topic}], o, tk[q])
        BY <4>2, SubscribeFacts
      <4> HIDE DEF new
      <4>4. QED
        BY <4>1, <4>2, <4>3
    <3> HIDE DEF mesh, J, P0, f, o, tk, new
    <3>5. MeshInput(History(m1, o, tk))
      BY <2>2, <3>3, <3>4, MeshInputOf
    <3>6. QED
      BY <2>2, <3>1, <3>2, <3>5, HistoryUpdates
  <2>5. ASSUME NEW p, NEW m \in MeshMessages, Publishes(p, m)
        PROVE  MeshInput(input')
    <3> DEFINE to == Targets(mesh, p, m) \cup ({p} \cap J)
               more == {<<q, cid(m)>> : q \in to}
               new == [q \in J |-> IF q \in to THEN Push(P0[q], m) ELSE P0[q]]
               m1 == [peers |-> new, fanout |-> f]
    <3>1. input' = WithOwed(WithMesh(input, publish(mesh, p, m)), o \cup more)
      BY <2>2, <2>5 DEF Publishes, MeshStep, WithMesh, WithOwed
    <3>2. publish(mesh, p, m) = m1
      BY <2>2 DEF publish
    <3>3. new = [q \in J |-> new[q]] /\ to \subseteq J
      BY <2>2 DEF Targets
    <3>4. ASSUME NEW q \in J PROVE PeerOK(q, new[q], o \cup more, tk[q])
      <4>1. CASE q \in to
        <5>1. \A c : <<q, c>> \in more <=> c = cid(m)
          BY <4>1
        <5>2. new[q] = Push(P0[q], m)
          BY <4>1
        <5>3. PeerOK(q, P0[q], o, tk[q])
          BY <2>2
        <5> HIDE DEF more, new, P0, o, tk
        <5>4. PeerOK(q, Push(P0[q], m), o \cup more, tk[q])
          BY <5>1, <5>3, PushFacts
        <5>5. QED
          BY <5>2, <5>4
      <4>2. CASE q \notin to
        <5>1. \A c : <<q, c>> \notin more
          BY <4>2
        <5>2. new[q] = P0[q]
          BY <4>2
        <5>3. PeerOK(q, P0[q], o, tk[q])
          BY <2>2
        <5> HIDE DEF more, new, P0, o, tk
        <5>4. PeerOK(q, P0[q], o \cup more, tk[q])
          BY <5>1, <5>3, OthersPushed
        <5>5. QED
          BY <5>2, <5>4
      <4>3. QED
        BY <4>1, <4>2
    <3>5. \A q \in MeshPeers \ J : tk[q] = <<>> /\ \A c : <<q, c>> \notin o \cup more
      BY <2>2, <3>3
    <3>6. Pairs(o \cup more)
      BY <2>2 DEF Pairs
    <3> HIDE DEF mesh, J, P0, f, o, tk, new, to, more
    <3>7. MeshInput(History(m1, o \cup more, tk))
      BY <2>2, <3>3, <3>4, <3>5, <3>6, MeshInputOf
    <3>8. WithMesh(input, publish(mesh, p, m)) = History(m1, o, tk)
      BY <2>2, <3>2, HistoryUpdates
    <3>9. QED
      BY <3>1, <3>7, <3>8, HistoryUpdates
  <2>6. ASSUME NEW p \in Takers, TakesSome(p)
        PROVE  MeshInput(input')
    <3>1. PICK W, t : /\ t = Takes(mesh, p, W)
                      /\ input' = [input EXCEPT !.mesh = t.mesh, !.taken[p] = @ \o t.taken]
      BY <2>6 DEF TakesSome, MeshStep, drain, peer_accs, peer_claims
    <3> DEFINE s == InboxOf(mesh, p)
               K == {i \in DOMAIN s : s[i] \in W}
               a == Chosen(s, K)
               b == Chosen(s, DOMAIN s \ K)
               new == [q \in J |-> IF q = p THEN [P0[q] EXCEPT !.inbox = b] ELSE P0[q]]
               m1 == [peers |-> new, fanout |-> f]
               tk1 == [q \in MeshPeers |-> IF q = p THEN tk[q] \o a ELSE tk[q]]
    <3>2. Takes(mesh, p, W) = [taken |-> a, mesh |-> WithInbox(mesh, p, b)]
      BY DEF Takes
    <3>3. WithInbox(mesh, p, b) = m1
      <4> HIDE DEF b
      <4> QED
        BY <2>2 DEF WithInbox
    <3>4. input' = WithTaken(WithMesh(input, m1), tk1)
      <4>0. t.mesh = m1 /\ t.taken = a
        <5> HIDE DEF m1, a, b
        <5> QED BY <3>1, <3>2, <3>3
      <4>1. input' = WithTaken(WithMesh(input, m1), [tk EXCEPT ![p] = @ \o a])
        <5> HIDE DEF m1, a
        <5> QED BY <2>2, <3>1, <4>0 DEF WithTaken, WithMesh
      <4>2. [tk EXCEPT ![p] = @ \o a] = tk1
        <5> HIDE DEF a
        <5> QED BY <2>2, AlgorithmsAssumption
      <4>3. QED
        BY <4>1, <4>2
    <3>5. new = [q \in J |-> new[q]] /\ tk1 = [q \in MeshPeers |-> tk1[q]] /\ p \in MeshPeers
      BY AlgorithmsAssumption
    <3>6. ASSUME NEW q \in J PROVE PeerOK(q, new[q], o, tk1[q])
      <4>1. CASE q = p
        <5>1. s = P0[q].inbox
          BY <2>2, <4>1 DEF InboxOf
        <5>2. new[q] = [P0[q] EXCEPT !.inbox = b] /\ tk1[q] = tk[q] \o a
          BY <3>5, <4>1
        <5>3. a = Chosen(P0[q].inbox, K) /\ b = Chosen(P0[q].inbox, DOMAIN P0[q].inbox \ K)
          BY <5>1
        <5> DEFINE peer == P0[q]
        <5>4. PeerOK(q, peer, o, tk[q])
          BY <2>2
        <5> HIDE DEF new, tk1, a, b, K, s, peer, tk
        <5>5. PeerOK(q, [peer EXCEPT !.inbox = Chosen(peer.inbox, DOMAIN peer.inbox \ K)], o,
                     tk[q] \o Chosen(peer.inbox, K))
          BY <5>4, TakeFacts
        <5>6. QED
          BY <5>2, <5>3, <5>5 DEF peer
      <4>2. CASE q # p
        <5>1. new[q] = P0[q] /\ tk1[q] = tk[q]
          BY <2>2, <4>2
        <5> HIDE DEF new, tk1
        <5>2. QED
          BY <2>2, <5>1
      <4>3. QED
        BY <4>1, <4>2
    <3>7. \A q \in MeshPeers \ J : tk1[q] = <<>> /\ \A c : <<q, c>> \notin o
      <4> SUFFICES ASSUME NEW q \in MeshPeers \ J PROVE tk1[q] = <<>>
        BY <2>2
      <4>1. CASE q = p
        <5>1. s = <<>>
          BY <2>2, <4>1 DEF InboxOf
        <5>2. a = <<>>
          <6>1. <<>> \in Seq(MeshMessages) /\ a = Chosen(<<>>, K)
            BY <5>1
          <6>2. a \in Seq(MeshMessages) /\ ToSet(a) = {}
            <7> DEFINE e == <<>>
            <7>1. e \in Seq(MeshMessages) /\ DOMAIN e = {} /\ a = Chosen(e, K)
              BY <6>1
            <7> HIDE DEF e, a, K
            <7>2. a \in Seq(MeshMessages) /\ ToSet(a) = {e[k] : k \in K \cap DOMAIN e}
              BY <7>1, ChosenFacts
            <7>3. QED
              BY <7>1, <7>2
          <6> HIDE DEF a
          <6>3. Len(a) \in Nat /\ DOMAIN a = 1 .. Len(a) /\ \A i \in DOMAIN a : a[i] \in ToSet(a)
            BY <6>2 DEF ToSet
          <6>4. Len(a) = 0
            <7>1. \A i \in 1 .. Len(a) : FALSE
              BY <6>2, <6>3
            <7>2. QED
              BY <6>3, <7>1
          <6>5. QED
            BY <6>2, <6>4
        <5>3. tk1[q] = <<>> \o <<>>
          BY <2>2, <4>1, <5>2
        <5>4. QED
          BY <5>3
      <4>2. CASE q # p
        BY <2>2, <4>2
      <4>3. QED
        BY <4>1, <4>2
    <3> HIDE DEF mesh, J, P0, f, o, tk, new, tk1
    <3>8. MeshInput(History(m1, o, tk1))
      BY <2>2, <3>5, <3>6, <3>7, MeshInputOf
    <3>9. WithMesh(input, m1) = History(m1, o, tk)
      BY <2>2, HistoryUpdates
    <3>10. QED
      BY <3>4, <3>8, <3>9, HistoryUpdates
  <2>7. QED
    BY <1>2, <2>3, <2>4, <2>5, <2>6, OnlyMesh
<1>3. QED
  BY <1>1, <1>2

(* A list without repeated ids counts each of its ids once. *)
LEMMA IdCountedOnce ==
    ASSUME NEW M, NEW s \in Seq(M), Distinct(s), NEW c \in Ids(s)
    PROVE  CountId(c, s) = 1
<1>1. PICK i \in DOMAIN s : cid(s[i]) = c
  BY DEF Ids, ToSet
<1>2. ASSUME NEW j \in DOMAIN s, cid(s[j]) = c PROVE j = i
  <2>1. s[i] \in ToSet(s) /\ s[j] \in ToSet(s)
    BY DEF ToSet
  <2>2. QED
    BY <1>1, <1>2, <2>1 DEF Distinct, IsInjective
<1>3. {j \in DOMAIN s : cid(s[j]) = c} = {i}
  BY <1>1, <1>2
<1>4. QED
  BY <1>3, FS_Singleton DEF CountId

(* The invariant of the mesh is what is promised of it. *)
LEMMA MeshInvExact == MeshInv => MeshExact
<1> SUFFICES ASSUME MeshInv, kind = "mesh", NEW p \in Joined(input.mesh),
                    NEW all, all = input.taken[p] \o input.mesh.peers[p].inbox
             PROVE  /\ \A c \in {o[2] : o \in {x \in input.owed : x[1] = p}} : CountId(c, all) = 1
                    /\ \A i \in DOMAIN all : <<p, cid(all[i])>> \in input.owed
  BY DEF MeshExact, PublishedOnce
<1> DEFINE s == input.taken[p]
           t == input.mesh.peers[p].inbox
           owed == input.owed
<1>1. PeerOK(p, input.mesh.peers[p], owed, s)
  BY DEF MeshInv, MeshInput
<1>2. /\ s \in Seq(MeshMessages) /\ t \in Seq(MeshMessages) /\ Distinct(s) /\ Distinct(t)
      /\ Ids(s) \cap Ids(t) = {} /\ all = s \o t
  BY <1>1 DEF PeerOK, Inboxes
<1>3. \A c : c \in Ids(s) \cup Ids(t) <=> <<p, c>> \in owed
  BY <1>1 DEF PeerOK
<1> HIDE DEF s, t
<1>4. all \in Seq(MeshMessages) /\ Distinct(all) /\ Ids(all) = Ids(s) \cup Ids(t)
  BY <1>2, Concatenate
<1>5. ASSUME NEW i \in DOMAIN all PROVE <<p, cid(all[i])>> \in owed
  BY <1>3, <1>4 DEF Ids, ToSet
<1>6. ASSUME NEW x \in owed, x[1] = p PROVE CountId(x[2], all) = 1
  <2>1. x = <<p, x[2]>>
    BY <1>6 DEF MeshInv, MeshInput, Pairs
  <2>2. x[2] \in Ids(all)
    BY <1>3, <1>4, <2>1
  <2>3. QED
    BY <1>4, <2>2, IdCountedOnce
<1>7. QED
  BY <1>5, <1>6

(* publish, drain, peer_accs and peer_claims, in any order and any number  *)
(* of times: what is published to a peer of the mesh, by whomever and      *)
(* under whatever topic, is in its inbox or was taken from it exactly      *)
(* once, and nothing else is.                                              *)
THEOREM MeshExactHolds == Spec => []MeshExact
<1>1. Init => MeshInv
  BY MeshInvInit
<1>2. MeshInv /\ [Next]_vars => MeshInv'
  BY MeshInvStep
<1>3. MeshInv => MeshExact
  BY MeshInvExact
<1>4. QED
  BY <1>1, <1>2, <1>3, PTL DEF Spec

(***************************************************************************)
(* The threshold of a domain.  Let m be the mean of n particles, rounded   *)
(* down, r what rounding left, k those that cross by more than rounding    *)
(* explains, and m + e the least focus among these.  If 2 * k > n, the     *)
(* others are so far below the mean that the variance is at least e * e up *)
(* to rounding, and m + e does not cross.                                  *)
(***************************************************************************)

(* A square lies above each of its tangents. *)
LEMMA Tangent ==
    ASSUME NEW x \in Int, NEW a \in Int
    PROVE  x * x + a * a >= 2 * a * x
<1>1. (x - a) * (x - a) >= 0
  <2> DEFINE y == x - a
  <2>1. y \in Int
    OBVIOUS
  <2> HIDE DEF y
  <2>2. y * y >= 0
    BY <2>1
  <2>3. QED
    BY <2>2 DEF y
<1>2. (x - a) * (x - a) = x * x + a * a - 2 * a * x
  BY SMT
<1>3. QED
  BY <1>1, <1>2

(* The same of a sum of squares. *)
LEMMA TangentTotal ==
    ASSUME NEW D, NEW f \in [D -> Nat], NEW g \in [D -> Nat], \A i \in D : g[i] = f[i] * f[i],
           NEW S \in SUBSET D, IsFiniteSet(S), NEW a \in Int
    PROVE  Total(g, S) + Cardinality(S) * (a * a) >= 2 * a * Total(f, S)
<1> DEFINE F == {T \in SUBSET S : Total(g, T) + Cardinality(T) * (a * a) >= 2 * a * Total(f, T)}
<1>1. {} \in F
  <2>1. Total(g, {}) = 0 /\ Total(f, {}) = 0 /\ Cardinality({}) = 0
    BY TotalFacts, FS_EmptySet
  <2>2. QED
    BY <2>1
<1>2. ASSUME NEW T \in SUBSET S, T \in F, NEW x \in S \ T PROVE T \cup {x} \in F
  <2>1. IsFiniteSet(T) /\ T \in SUBSET D /\ x \in D \ T
    BY FS_Subset
  <2> DEFINE G == Total(g, T)
             H == Total(f, T)
             C == Cardinality(T)
             y == f[x]
             b == a * a
  <2>2. Total(g, T \cup {x}) = G + g[x] /\ G \in Nat
    BY <2>1, TotalFacts
  <2>3. Total(f, T \cup {x}) = H + y /\ H \in Nat
    BY <2>1, TotalFacts
  <2>4. Cardinality(T \cup {x}) = C + 1 /\ C \in Nat
    BY <2>1, FS_AddElement, FS_CardinalityType
  <2>5. y \in Nat /\ g[x] = y * y /\ b \in Int /\ G + C * b >= 2 * a * H
    BY <1>2
  <2> HIDE DEF G, H, C, y
  <2>6. y * y + b >= 2 * a * y
    BY <2>5, Tangent DEF b
  <2> HIDE DEF b
  <2>7. (C + 1) * b = C * b + b /\ 2 * a * (H + y) = 2 * a * H + 2 * a * y
        /\ C * b \in Int /\ 2 * a * H \in Int /\ 2 * a * y \in Int /\ y * y \in Int
    BY <2>3, <2>4, <2>5
  <2>8. (G + y * y) + (C + 1) * b >= 2 * a * (H + y)
    BY <2>2, <2>5, <2>6, <2>7
  <2>9. QED
    BY <2>2, <2>3, <2>4, <2>5, <2>8 DEF b
<1> HIDE DEF F
<1>3. S \in F
  BY <1>1, <1>2, GrowsTo
<1>4. QED
  BY <1>3 DEF F

(* Squares that are rounded one by one lose less than a unit each. *)
LEMMA RoundedTotal ==
    ASSUME NEW D, NEW g \in [D -> Nat], NEW h \in [D -> Nat], \A i \in D : h[i] = g[i] \div One,
           NEW S \in SUBSET D, IsFiniteSet(S)
    PROVE  Total(g, S) <= One * Total(h, S) + Cardinality(S) * (One - 1)
<1> DEFINE F == {T \in SUBSET S : Total(g, T) <= One * Total(h, T) + Cardinality(T) * (One - 1)}
<1>0. One \in Nat \ {0}
  BY AlgorithmsAssumption
<1>1. {} \in F
  <2>1. Total(g, {}) = 0 /\ Total(h, {}) = 0 /\ Cardinality({}) = 0
    BY TotalFacts, FS_EmptySet
  <2>2. QED
    BY <1>0, <2>1
<1>2. ASSUME NEW T \in SUBSET S, T \in F, NEW x \in S \ T PROVE T \cup {x} \in F
  <2>1. IsFiniteSet(T) /\ T \in SUBSET D /\ x \in D \ T
    BY FS_Subset
  <2> DEFINE G == Total(g, T)
             H == Total(h, T)
             C == Cardinality(T)
             y == g[x]
             z == h[x]
             o == One
  <2>2. Total(g, T \cup {x}) = G + y /\ G \in Nat
    BY <2>1, TotalFacts
  <2>3. Total(h, T \cup {x}) = H + z /\ H \in Nat
    BY <2>1, TotalFacts
  <2>4. Cardinality(T \cup {x}) = C + 1 /\ C \in Nat
    BY <2>1, FS_AddElement, FS_CardinalityType
  <2>5. y \in Nat /\ z \in Nat /\ z = y \div o /\ o \in Nat \ {0} /\ G <= o * H + C * (o - 1)
    BY <1>0, <1>2
  <2> HIDE DEF G, H, C, y, z, o
  <2>6. y <= o * z + (o - 1)
    BY <2>5
  <2>7. (C + 1) * (o - 1) = C * (o - 1) + (o - 1) /\ o * (H + z) = o * H + o * z
        /\ C * (o - 1) \in Int /\ o * H \in Int /\ o * z \in Int
    BY <2>3, <2>4, <2>5
  <2>8. G + y <= o * (H + z) + (C + 1) * (o - 1)
    BY <2>2, <2>5, <2>6, <2>7
  <2>9. QED
    BY <2>2, <2>3, <2>4, <2>8 DEF o
<1> HIDE DEF F
<1>3. S \in F
  BY <1>1, <1>2, GrowsTo
<1>4. QED
  BY <1>3 DEF F

(* A sum of what is at least a. *)
LEMMA LeastTotal ==
    ASSUME NEW D, NEW f \in [D -> Nat], NEW S \in SUBSET D, IsFiniteSet(S), NEW a \in Nat,
           \A i \in S : f[i] >= a
    PROVE  Total(f, S) >= Cardinality(S) * a
<1> DEFINE F == {T \in SUBSET S : Total(f, T) >= Cardinality(T) * a}
<1>1. {} \in F
  <2>1. Total(f, {}) = 0 /\ Cardinality({}) = 0
    BY TotalFacts, FS_EmptySet
  <2>2. QED
    BY <2>1
<1>2. ASSUME NEW T \in SUBSET S, T \in F, NEW x \in S \ T PROVE T \cup {x} \in F
  <2>1. IsFiniteSet(T) /\ T \in SUBSET D /\ x \in D \ T
    BY FS_Subset
  <2> DEFINE H == Total(f, T)
             C == Cardinality(T)
             y == f[x]
  <2>2. Total(f, T \cup {x}) = H + y /\ H \in Nat
    BY <2>1, TotalFacts
  <2>3. Cardinality(T \cup {x}) = C + 1 /\ C \in Nat
    BY <2>1, FS_AddElement, FS_CardinalityType
  <2>4. y \in Nat /\ y >= a /\ H >= C * a
    BY <1>2
  <2> HIDE DEF H, C, y
  <2>5. (C + 1) * a = C * a + a /\ C * a \in Int
    BY <2>3
  <2>6. H + y >= (C + 1) * a
    BY <2>2, <2>4, <2>5
  <2>7. QED
    BY <2>2, <2>3, <2>6
<1> HIDE DEF F
<1>3. S \in F
  BY <1>1, <1>2, GrowsTo
<1>4. QED
  BY <1>3 DEF F

(* If more than half are at least e above the mean, the others make up for *)
(* it, and are not below 0: e is hardly above the mean itself.             *)
LEMMA NotFarAbove ==
    ASSUME NEW n \in Nat, NEW k \in Nat, 2 * k >= n + 1, NEW m \in Nat, NEW e \in Nat \ {0},
           NEW r \in 0 .. n - 1, n * m + r >= k * (m + e)
    PROVE  r * (m - e) >= 1 - n
<1>1. CASE e <= m
  <2> DEFINE g == m - e
  <2>1. g \in Nat
    BY <1>1
  <2> HIDE DEF g
  <2>2. r * g >= 0
    BY <2>1
  <2>3. QED
    BY <2>2 DEF g
<1>2. CASE e > m
  <2> DEFINE g == e - m
  <2>1. g \in Nat \ {0} /\ e = m + g
    BY <1>2
  <2> HIDE DEF g
  <2>2. k * (m + e) = 2 * k * m + k * g
    <3>1. k * (m + (m + g)) = 2 * k * m + k * g
      BY <2>1
    <3>2. QED
      BY <2>1, <3>1
  <2>3. (2 * k - 1) * m >= n * m
    <3> DEFINE a == 2 * k - 1 - n
    <3>1. a \in Nat
      OBVIOUS
    <3> HIDE DEF a
    <3>2. a * m >= 0
      BY <3>1
    <3>3. a * m = (2 * k - 1) * m - n * m
      BY DEF a
    <3>4. QED
      BY <3>2, <3>3
  <2>4. (2 * k - 1) * m = 2 * k * m - m
    OBVIOUS
  <2>5. k * g <= 2 * k - 2
    <3> DEFINE a == 2 * k * m
               b == k * g
               c == n * m
    <3>1. a \in Int /\ b \in Int /\ c \in Int
      BY <2>1
    <3>2. c + r >= a + b /\ a - m >= c
      BY <2>2, <2>3, <2>4
    <3> HIDE DEF a, b, c
    <3>3. b <= r - m
      BY <3>1, <3>2
    <3>4. b <= 2 * k - 2
      BY <3>1, <3>3
    <3>5. QED
      BY <3>4 DEF b
  <2>6. g = 1
    <3> SUFFICES ASSUME g # 1 PROVE FALSE
      OBVIOUS
    <3> DEFINE h == g - 2
    <3>1. h \in Nat
      BY <2>1
    <3>2. k * h = k * g - 2 * k
      BY <2>1
    <3> HIDE DEF h
    <3>3. k * h >= 0
      BY <3>1
    <3>4. QED
      BY <2>1, <2>5, <3>2, <3>3
  <2>7. m - e = -1
    BY <2>1, <2>6
  <2>8. r * (m - e) = -r
    BY <2>7
  <2>9. QED
    BY <2>8
<1>3. QED
  BY <1>1, <1>2

(* Then the squares are as large as if all were e away from the mean. *)
LEMMA Spread ==
    ASSUME NEW n \in Nat, NEW k \in Nat, 2 * k >= n + 1, NEW m \in Nat, NEW e \in Nat \ {0},
           NEW r \in 0 .. n - 1, NEW u \in Nat, NEW v \in Nat, u + v = n * m + r, u >= k * (m + e),
           NEW p \in Nat, p + k * ((m + e) * (m + e)) >= 2 * (m + e) * u,
           NEW q \in Nat, q + (n - k) * ((m - e) * (m - e)) >= 2 * (m - e) * v
    PROVE  p + q >= n * (m * m) + n * (e * e) - 2 * n
<1>1. n * m + r >= k * (m + e)
  <2> DEFINE a == n * m
             b == k * (m + e)
  <2>1. a \in Int /\ b \in Int
    OBVIOUS
  <2> HIDE DEF a, b
  <2>2. QED
    BY <2>1 DEF a, b
<1>2. r * (m - e) >= 1 - n
  BY <1>1, NotFarAbove
<1>3. e * u >= e * (k * (m + e))
  <2> DEFINE d == u - k * (m + e)
  <2>1. d \in Nat
    OBVIOUS
  <2>2. e * d = e * u - e * (k * (m + e))
    OBVIOUS
  <2> HIDE DEF d
  <2>3. e * d >= 0
    BY <2>1
  <2>4. QED
    BY <2>2, <2>3
<1>4. (4 * k - n) * (e * e) >= n * (e * e) + 2
  <2> DEFINE d == 4 * k - 2 * n - 2
             f == e * e
  <2>1. d \in Nat /\ f \in Nat /\ f >= 1
    BY SMT
  <2>2. d * f >= 0
    <3> HIDE DEF d, f
    <3> QED BY <2>1
  <2>3. (4 * k - n) * f = n * f + d * f + 2 * f
    <3> HIDE DEF f
    <3> QED BY <2>1
  <2> HIDE DEF d, f
  <2>4. n * f \in Int /\ d * f \in Int
    BY <2>1
  <2>5. QED
    BY <2>1, <2>2, <2>3, <2>4 DEF f
<1>5. v = n * m + r - u
  OBVIOUS
<1>6. 2 * (m + e) * u + 2 * (m - e) * v = 4 * (e * u) + 2 * (m - e) * (n * m + r)
  BY <1>5
<1>7. 4 * (e * (k * (m + e))) + 2 * (m - e) * (n * m + r)
        - k * ((m + e) * (m + e)) - (n - k) * ((m - e) * (m - e))
      = n * (m * m) + (4 * k - n) * (e * e) + 2 * (r * (m - e))
  BY SMT
<1> DEFINE a1 == k * ((m + e) * (m + e))
           a2 == (n - k) * ((m - e) * (m - e))
           a3 == 2 * (m + e) * u
           a4 == 2 * (m - e) * v
           a5 == e * u
           a6 == e * (k * (m + e))
           a7 == 2 * (m - e) * (n * m + r)
           a8 == n * (m * m)
           a9 == n * (e * e)
           b1 == (4 * k - n) * (e * e)
           b2 == r * (m - e)
<1>8. /\ a1 \in Int /\ a2 \in Int /\ a3 \in Int /\ a4 \in Int /\ a5 \in Int /\ a6 \in Int
      /\ a7 \in Int /\ a8 \in Int /\ a9 \in Int /\ b1 \in Int /\ b2 \in Int
  OBVIOUS
<1>9. /\ p + a1 >= a3 /\ q + a2 >= a4 /\ a5 >= a6 /\ a3 + a4 = 4 * a5 + a7
      /\ 4 * a6 + a7 - a1 - a2 = a8 + b1 + 2 * b2 /\ b1 >= a9 + 2 /\ b2 >= 1 - n
  BY <1>2, <1>3, <1>4, <1>6, <1>7
<1> HIDE DEF a1, a2, a3, a4, a5, a6, a7, a8, a9, b1, b2
<1>10. p + q >= a8 + a9 - 2 * n
  BY <1>8, <1>9
<1>11. QED
  BY <1>10 DEF a8, a9

(* A quotient by One, and a product with what is at least One. *)
LEMMA AtLeast ==
    ASSUME NEW o \in Nat \ {0}, NEW a \in Nat, NEW b \in Nat, a >= o
    PROVE  (a * b) \div o \in Nat /\ (a * b) \div o >= b
<1> DEFINE c == a * b
           d == c \div o
<1>1. c \in Nat /\ c >= o * b
  <2> DEFINE f == a - o
  <2>1. f \in Nat
    OBVIOUS
  <2>2. f * b = a * b - o * b
    OBVIOUS
  <2> HIDE DEF f
  <2>3. f * b >= 0
    BY <2>1
  <2>4. QED
    BY <2>2, <2>3
<1> HIDE DEF c
<1>2. d \in Nat /\ c <= o * d + (o - 1)
  BY <1>1
<1> HIDE DEF d
<1>3. d >= b
  <2> SUFFICES ASSUME d < b PROVE FALSE
    BY <1>2
  <2> DEFINE f == b - d - 1
  <2>1. f \in Nat
    BY <1>2
  <2>2. o * f = o * b - o * d - o
    BY <1>2
  <2> HIDE DEF f
  <2>3. o * f >= 0
    BY <2>1
  <2>4. QED
    BY <1>1, <1>2, <2>2, <2>3
<1>4. QED
  BY <1>2, <1>3 DEF c, d

(* Squares as large as Spread says leave no particle e above the mean      *)
(* three units beyond the threshold.                                       *)
LEMMA NotBeyond ==
    ASSUME NEW n \in Nat \ {0}, NEW o \in Nat \ {0}, NEW e \in Nat, NEW m \in Nat,
           NEW q \in Nat, NEW s \in Nat, NEW var \in Nat,
           q <= o * s + n * (o - 1), var >= (s \div n) - ((m * m) \div o),
           q >= n * (m * m) + n * (e * e) - 2 * n,
           (e * e) \div o >= var + 3
    PROVE  FALSE
<1> DEFINE sq == s \div n
           mm == m * m
           mu == mm \div o
           ee == e * e
           w == ee \div o
<1>1. mm \in Nat /\ ee \in Nat
  OBVIOUS
<1>2. sq \in Nat /\ s <= n * sq + (n - 1)
  OBVIOUS
<1>3. mu \in Nat /\ o * mu <= mm
  <2> HIDE DEF mm
  <2> QED BY <1>1
<1>4. w \in Nat /\ o * w <= ee
  <2> HIDE DEF ee
  <2> QED BY <1>1
<1>5. /\ q <= o * s + n * (o - 1) /\ var >= sq - mu /\ q >= n * mm + n * ee - 2 * n
      /\ w >= var + 3
  OBVIOUS
<1> HIDE DEF sq, mm, mu, ee, w
<1>6. o * w >= o * sq - o * mu + 3 * o
  <2> DEFINE f == w - (sq - mu + 3)
  <2>1. f \in Nat
    BY <1>2, <1>3, <1>4, <1>5
  <2>2. o * f = o * w - (o * sq - o * mu + 3 * o)
    BY <1>2, <1>3, <1>4
  <2> HIDE DEF f
  <2>3. o * f >= 0
    BY <2>1
  <2>4. o * w \in Int /\ o * sq \in Int /\ o * mu \in Int
    BY <1>2, <1>3, <1>4
  <2>5. QED
    BY <2>2, <2>3, <2>4
<1>7. mm + ee >= o * sq + 3 * o
  <2>1. o * w \in Int /\ o * sq \in Int /\ o * mu \in Int
    BY <1>2, <1>3, <1>4
  <2>2. QED
    BY <1>1, <1>3, <1>4, <1>6, <2>1
<1>8. n * mm + n * ee >= n * (o * sq) + 3 * (n * o)
  <2> DEFINE f == mm + ee - (o * sq + 3 * o)
  <2>1. f \in Nat
    BY <1>1, <1>2, <1>7
  <2>2. n * f = n * mm + n * ee - (n * (o * sq) + 3 * (n * o))
    BY <1>1, <1>2
  <2> HIDE DEF f
  <2>3. n * f >= 0
    BY <2>1
  <2>4. n * mm \in Int /\ n * ee \in Int /\ n * (o * sq) \in Int
    BY <1>1, <1>2
  <2>5. QED
    BY <2>2, <2>3, <2>4
<1>9. o * s <= n * (o * sq) + o * (n - 1)
  <2> DEFINE f == n * sq + (n - 1) - s
  <2>1. f \in Nat
    BY <1>2
  <2>2. o * f = n * (o * sq) + o * (n - 1) - o * s
    BY <1>2
  <2> HIDE DEF f
  <2>3. o * f >= 0
    BY <2>1
  <2>4. n * (o * sq) \in Int
    BY <1>2
  <2>5. QED
    BY <2>2, <2>3, <2>4
<1> DEFINE A == n * (o * sq)
           B == n * o
           C == o * s
           G == n * mm
           H == n * ee
<1>10. A \in Int /\ B \in Int /\ C \in Int /\ G \in Int /\ H \in Int
  BY <1>1, <1>2
<1>11. n * (o - 1) = B - n /\ o * (n - 1) = B - o /\ B >= n
  <2>1. n * (o - 1) = n * o - n /\ o * (n - 1) = n * o - o
    OBVIOUS
  <2> DEFINE f == o - 1
  <2>2. f \in Nat /\ n * f = n * o - n
    OBVIOUS
  <2> HIDE DEF f
  <2>3. n * f >= 0
    BY <2>2
  <2>4. QED
    BY <2>1, <2>2, <2>3
<1>12. q <= C + (B - n) /\ C <= A + (B - o) /\ G + H >= A + 3 * B /\ q >= G + H - 2 * n
  BY <1>5, <1>8, <1>9, <1>11
<1> HIDE DEF A, B, C, G, H
<1>13. QED
  BY <1>10, <1>11, <1>12

(* Never more than half of a domain crosses the threshold by more than     *)
(* rounding explains: for any number of particles, any focus and any kappa *)
(* of at least 1.                                                          *)
LEMMA HalfFacts ==
    ASSUME NEW d \in Seq(Nat), NEW kappa \in Nat, kappa >= One
    PROVE  AtMostHalf(d, kappa)
<1> DEFINE n == Len(d)
           D == 1 .. n
           K == {i \in DOMAIN d : crosses_threshold(d[i], d, kappa) /\ Beyond(d[i], d, kappa) > Rounding}
           k == Cardinality(K)
           X == Total(d, D)
           g == [i \in D |-> d[i] * d[i]]
           h == [i \in D |-> (d[i] * d[i]) \div One]
           S == Total(h, D)
           m == mean(d)
           var == variance(d)
<1>0. One \in Nat \ {0}
  BY AlgorithmsAssumption
<1>1. n \in Nat /\ DOMAIN d = D /\ d \in [D -> Nat] /\ K \in SUBSET D
  OBVIOUS
<1>2. IsFiniteSet(D) /\ Cardinality(D) = n /\ IsFiniteSet(K) /\ k \in Nat /\ k <= n
  BY <1>1, Numbers, FS_Subset, FS_CardinalityType
<1> SUFFICES ASSUME 2 * k > n PROVE FALSE
  BY <1>2 DEF AtMostHalf
<1>3. K # {} /\ n \in Nat \ {0} /\ d # <<>>
  <2>1. K # {}
    BY <1>1, <1>2, FS_EmptySet
  <2>2. QED
    BY <1>1, <2>1
<1>4. X \in Nat /\ m = X \div n
  BY <1>1, <1>2, <1>3, TotalFacts DEF mean, Over, SumOf
<1> DEFINE r == X - n * m
<1>5. m \in Nat /\ X = n * m + r /\ r \in 0 .. n - 1
  <2> HIDE DEF X, n, m
  <2> QED BY <1>3, <1>4
<1>6. g \in [D -> Nat] /\ h \in [D -> Nat] /\ \A i \in D : h[i] = g[i] \div One
  <2>1. ASSUME NEW x \in Nat PROVE x * x \in Nat /\ (x * x) \div One \in Nat
    <3> DEFINE y == x * x
    <3>1. y \in Nat
      OBVIOUS
    <3> HIDE DEF y
    <3>2. y \div One \in Nat
      BY <1>0, <3>1
    <3>3. QED
      BY <3>1, <3>2 DEF y
  <2>2. \A i \in D : d[i] \in Nat
    BY <1>1
  <2>3. QED
    BY <2>1, <2>2
<1>7. S \in Nat /\ var \in Nat /\ var >= (S \div n) - ((m * m) \div One)
  <2>1. S \in Nat
    <3> HIDE DEF h, D
    <3> QED BY <1>2, <1>6, TotalFacts
  <2> DEFINE sq == S \div n
             mu == (m * m) \div One
  <2>2. sq \in Nat /\ mu \in Nat
    <3> DEFINE mm == m * m
    <3>1. mm \in Nat
      <4> HIDE DEF m
      <4> QED BY <1>5
    <3> HIDE DEF mm, S, n
    <3>2. mm \div One \in Nat
      BY <1>0, <3>1, Quotient
    <3>3. S \div n \in Nat
      BY <1>3, <2>1, Quotient
    <3>4. QED
      BY <3>2, <3>3 DEF mm
  <2>3. var = IF sq >= mu THEN sq - mu ELSE 0
    <3>1. [i \in DOMAIN d |-> Times(d[i], d[i])] = h /\ DOMAIN h = D
      BY <1>1 DEF Times
    <3> HIDE DEF h, D, m, n
    <3>2. QED
      BY <1>3, <3>1 DEF variance, Over, SumOf, Times, m, n
  <2> HIDE DEF sq, mu, var, S
  <2>4. var \in Nat /\ var >= sq - mu
    BY <2>2, <2>3
  <2>5. QED
    BY <2>1, <2>4 DEF sq, mu
<1>8. \A i \in K : d[i] \in Nat /\ d[i] > m
  BY <1>1 DEF crosses_threshold
<1>9. PICK j \in K : \A i \in K : d[j] <= d[i]
  <2> DEFINE T == {d[i] : i \in K}
  <2>1. T \in SUBSET Nat /\ T # {}
    BY <1>3, <1>8
  <2> HIDE DEF T
  <2>2. PICK x \in T : \A y \in T : x <= y
    BY <2>1, LeastNat
  <2>3. QED
    BY <2>2 DEF T
<1> DEFINE e == d[j] - m
<1>10. e \in Nat \ {0} /\ d[j] = m + e /\ \A i \in K : d[i] >= m + e
  BY <1>5, <1>8, <1>9
<1>11. (e * e) \div One >= var + 3
  <2> DEFINE kk == (kappa * kappa) \div One
             t == (kk * var) \div One
             w == (e * e) \div One
  <2>1. w - t > 2
    BY DEF Beyond, Times, Rounding
  <2>2. kk \in Nat /\ kk >= kappa
    BY <1>0, AtLeast
  <2> HIDE DEF kk
  <2>3. kk >= One
    BY <1>0, <2>2
  <2> HIDE DEF var
  <2>4. t \in Nat /\ t >= var
    BY <1>0, <1>7, <2>2, <2>3, AtLeast
  <2>5. w \in Int
    BY <1>0, <1>10
  <2> HIDE DEF t, w
  <2>6. w >= var + 3
    BY <1>7, <2>1, <2>4, <2>5
  <2>7. QED
    BY <2>6 DEF w
<1> DEFINE O == D \ K
           u == Total(d, K)
           v == Total(d, O)
           p == Total(g, K)
           q == Total(g, O)
           Q == Total(g, D)
<1>12. IsFiniteSet(O) /\ O \in SUBSET D /\ Cardinality(O) = n - k
  <2>1. Cardinality(D \ K) = Cardinality(D) - Cardinality(D \cap K)
    BY <1>2, FS_Difference
  <2>2. D \cap K = K
    BY <1>1
  <2>3. QED
    BY <1>1, <1>2, <2>1, <2>2, FS_Subset
<1> HIDE DEF K, D, O, g, h, n, m, e, var
<1>13. u \in Nat /\ v \in Nat /\ p \in Nat /\ q \in Nat /\ Q \in Nat
  BY <1>1, <1>2, <1>6, <1>12, TotalFacts
<1>14. u + v = X /\ p + q = Q
  <2>1. O = D \ K /\ D \in SUBSET D
    BY DEF O
  <2>2. Total(d, D) = Total(d, K) + Total(d, D \ K)
    BY <1>1, <1>2, <2>1, TotalPart
  <2>3. Total(g, D) = Total(g, K) + Total(g, D \ K)
    BY <1>1, <1>2, <1>6, <2>1, TotalPart
  <2>4. QED
    BY <2>1, <2>2, <2>3
<1>15. u >= k * (m + e)
  BY <1>1, <1>2, <1>5, <1>10, LeastTotal
<1>16. \A i \in D : g[i] = d[i] * d[i]
  BY DEF g
<1>17. p + k * ((m + e) * (m + e)) >= 2 * (m + e) * u
  <2> DEFINE a == m + e
  <2>1. a \in Int
    BY <1>5, <1>10
  <2> HIDE DEF a
  <2>2. p + Cardinality(K) * (a * a) >= 2 * a * u
    BY <1>1, <1>2, <1>6, <1>16, <2>1, TangentTotal
  <2>3. QED
    BY <2>2 DEF a
<1>18. q + (n - k) * ((m - e) * (m - e)) >= 2 * (m - e) * v
  <2> DEFINE a == m - e
  <2>1. a \in Int
    BY <1>5, <1>10
  <2> HIDE DEF a
  <2>2. q + Cardinality(O) * (a * a) >= 2 * a * v
    BY <1>1, <1>6, <1>12, <1>16, <2>1, TangentTotal
  <2>3. QED
    BY <1>12, <2>2 DEF a
<1>19. Q <= One * S + n * (One - 1)
  BY <1>2, <1>6, RoundedTotal
<1> HIDE DEF u, v, p, q, Q, X, S, k, r
<1>20. Q >= n * (m * m) + n * (e * e) - 2 * n
  <2>1. 2 * k >= n + 1 /\ u + v = n * m + r
    BY <1>2, <1>3, <1>5, <1>14
  <2>2. p + q >= n * (m * m) + n * (e * e) - 2 * n
    BY <1>2, <1>3, <1>5, <1>10, <1>13, <1>15, <1>17, <1>18, <2>1, Spread
  <2>3. QED
    BY <1>14, <2>2
<1>21. QED
  BY <1>0, <1>3, <1>5, <1>7, <1>10, <1>11, <1>13, <1>19, <1>20, NotBeyond

(* The focus of a domain is a natural number of units. *)
FocusOK == kind = "domain" => input \in Seq(Nat)

(* A domain starts empty. *)
LEMMA FocusOKInit == Init => FocusOK
  BY DEF Init, FocusOK

(* Only AddFocus changes a domain. *)
LEMMA OnlyAddFocus ==
    ASSUME Next, kind' = "domain"
    PROVE  kind = "domain" /\ \E f \in Foci : AddFocus(f)
  BY DEF Next, AddWeight, AddClaim, AddValue, AddLeaf, AddAnswer, AddShard, AddItem, AddFrame,
         AddMessage, AddContent, AddFocus, FoldsBlock, Follows, JoinsMesh, Subscribes, TakesSome,
         Publishes, Exports, Joins, Applies, Audits, Issues, TakesPlace, TipStep,
         MeshStep, Absorbs, Folds, FoldStep, Grows

(* Every step keeps it so. *)
LEMMA FocusOKStep ==
    ASSUME FocusOK, [Next]_vars
    PROVE  FocusOK'
<1>1. CASE UNCHANGED vars
  BY <1>1 DEF vars, FocusOK
<1>2. CASE Next
  <2> SUFFICES ASSUME kind' = "domain" PROVE input' \in Seq(Nat)
    BY DEF FocusOK
  <2>1. PICK f \in Foci : AddFocus(f)
    BY <1>2, OnlyAddFocus
  <2>2. f \in Nat /\ input \in Seq(Nat)
    BY <1>2, OnlyAddFocus, AlgorithmsAssumption DEF FocusOK
  <2>3. QED
    BY <2>1, <2>2 DEF AddFocus
<1>3. QED
  BY <1>1, <1>2

(* And every such domain, cut at any epsilon, is as promised. *)
LEMMA FocusHalf == FocusOK => HalfAtMost
<1> SUFFICES ASSUME FocusOK, kind = "domain",
                    NEW kappa \in {One, One + One \div 2, 2 * One}, NEW epsilon
             PROVE  AtMostHalf(EpsilonSupport(input, epsilon), kappa)
  BY DEF HalfAtMost
<1>1. kappa \in Nat /\ kappa >= One
  BY AlgorithmsAssumption
<1>2. EpsilonSupport(input, epsilon) \in Seq(Nat)
  BY ChosenFacts DEF EpsilonSupport, FocusOK
<1>3. QED
  BY <1>1, <1>2, HalfFacts

(* crosses_threshold, over mean and variance in fixed-point numbers, never *)
(* lets more than half of a domain beyond the threshold by more than the   *)
(* rounding explains: for domains of any size, any focus and any unit.     *)
THEOREM HalfAtMostHolds == Spec => []HalfAtMost
<1>1. Init => FocusOK
  BY FocusOKInit
<1>2. FocusOK /\ [Next]_vars => FocusOK'
  BY FocusOKStep
<1>3. FocusOK => HalfAtMost
  BY FocusHalf
<1>4. QED
  BY <1>1, <1>2, <1>3, PTL DEF Spec

(***************************************************************************)
(* The beacon and its delay.                                               *)
(***************************************************************************)

(* The delay of any input is a natural number. *)
LEMMA EvaluateFacts ==
    ASSUME NEW x \in Nat, NEW t \in Nat
    PROVE  evaluate(x, t).output \in Nat
<1> DEFINE y == x % P
           a == IF y = 0 THEN 1 ELSE y
           Step(v) == (v * v) % P
           step == [p \in Nat \X (1 .. t) |-> Step(p[1])]
           IsSq(f) == f = [i \in 0 .. t |-> IF i = 0 THEN IF y = 0 THEN 1 ELSE y
                                            ELSE (f[i - 1] * f[i - 1]) % P]
           sq == CHOOSE f : IsSq(f)
<1>1. P \in Nat \ {0} /\ a \in Nat /\ \A v \in Nat : Step(v) \in Nat
  BY AlgorithmsAssumption
<1>2. evaluate(x, t).output = sq[t]
  BY DEF evaluate
<1>3. PICK f : Unfolds(f, step, a, Nat, t)
  <2>1. StepsIn(step, Nat, t)
    BY <1>1 DEF StepsIn
  <2> HIDE DEF step, a
  <2>2. QED
    BY <1>1, <2>1, Recursion
<1>4. IsSq(f)
  <2>1. /\ f = [i \in 0 .. t |-> f[i]] /\ f[0] = a
        /\ \A i \in 1 .. t : f[i - 1] \in Nat /\ f[i] = step[<<f[i - 1], i>>]
    <3> HIDE DEF step, a
    <3> QED BY <1>3 DEF Unfolds
  <2>2. \A i \in 1 .. t : f[i] = (f[i - 1] * f[i - 1]) % P
    BY <2>1
  <2>3. f[0] = IF y = 0 THEN 1 ELSE y
    BY <2>1
  <2> HIDE DEF step, y, Step, a
  <2>4. \A i \in 0 .. t : f[i] = IF i = 0 THEN IF y = 0 THEN 1 ELSE y
                                 ELSE (f[i - 1] * f[i - 1]) % P
    BY <2>2, <2>3
  <2>5. QED
    BY <2>1, <2>4
<1>5. IsSq(sq)
  <2> HIDE DEF IsSq
  <2> QED BY <1>4
<1> HIDE DEF sq
<1> DEFINE S == {i \in 0 .. t : sq[i] \in Nat}
<1>6. 0 \in S
  BY <1>1, <1>5
<1>7. ASSUME NEW i \in 0 .. t - 1, i \in S PROVE i + 1 \in S
  <2>1. sq[i + 1] = Step(sq[i]) /\ sq[i] \in Nat
    BY <1>5, <1>7
  <2>2. QED
    BY <1>1, <2>1
<1>8. \A i \in 0 .. t : i \in S
  <2> HIDE DEF S
  <2> QED BY <1>6, <1>7, UpTo
<1>9. QED
  BY <1>2, <1>8

(* A delay that was run is valid. *)
LEMMA RunVerifies ==
    ASSUME NEW x, NEW t \in Nat \ {0}
    PROVE  verify_vdf(evaluate(x, t)) /\ evaluate(x, t).input = x
  BY DEF verify_vdf, evaluate

(* Delay proofs as signals carry them. *)
VdfProofs == [input : Nat, output : Nat, iterations : Nat]

Verified(proofs) == {i \in DOMAIN proofs : verify_vdf(proofs[i])}

(* The outputs of the valid delays, in order of the signals. *)
LEMMA CollectPlaces ==
    ASSUME NEW proofs \in Seq(VdfProofs)
    PROVE  /\ collect_signal_outputs(proofs) \in Seq(Int)
           /\ \E e \in Bijection(DOMAIN collect_signal_outputs(proofs), Verified(proofs)) :
                \A i \in DOMAIN collect_signal_outputs(proofs) :
                   collect_signal_outputs(proofs)[i] = proofs[e[i]].output
<1> DEFINE K == Verified(proofs)
           good == Chosen(proofs, K)
           out == collect_signal_outputs(proofs)
<1>1. good \in Seq(VdfProofs)
  BY ChosenPlaces
<1>2. PICK e : Places(e, good, proofs, K, Len(proofs))
  BY ChosenPlaces
<1>3. out = [i \in DOMAIN good |-> good[i].output]
  BY DEF collect_signal_outputs, Verified
<1>4. K \cap (1 .. Len(proofs)) = K
  BY DEF Verified
<1> HIDE DEF good, out, K
<1>5. Len(good) \in Nat /\ DOMAIN good = 1 .. Len(good) /\ \A i \in DOMAIN good : good[i].output \in Int
  <2>1. Len(good) \in Nat /\ DOMAIN good = 1 .. Len(good) /\ \A i \in DOMAIN good : good[i] \in VdfProofs
    BY <1>1
  <2>2. QED
    BY <2>1 DEF VdfProofs
<1>6. out \in Seq(Int) /\ DOMAIN out = 1 .. Len(good)
  BY <1>3, <1>5
<1>7. e \in Bijection(DOMAIN out, K) /\ \A i \in DOMAIN out : out[i] = proofs[e[i]].output
  <2>1. /\ e \in [DOMAIN out -> K] /\ \A i \in DOMAIN out : good[i] = proofs[e[i]]
        /\ \A i, j \in DOMAIN out : i < j => e[i] < e[j]
        /\ \A k \in K : \E i \in DOMAIN out : e[i] = k
    BY <1>2, <1>4, <1>6 DEF Places
  <2>2. ASSUME NEW i \in DOMAIN out, NEW j \in DOMAIN out, e[i] = e[j] PROVE i = j
    <3>1. e[i] \in Int /\ i \in Int /\ j \in Int
      <4>1. K \subseteq Int
        BY DEF K, Verified
      <4>2. e[i] \in K /\ DOMAIN out \subseteq Int
        BY <1>5, <1>6, <2>1
      <4>3. QED
        BY <4>1, <4>2
    <3>2. ~ (i < j) /\ ~ (j < i)
      BY <2>1, <2>2, <3>1
    <3>3. QED
      BY <3>1, <3>2
  <2>3. QED
    BY <1>3, <1>5, <1>6, <2>1, <2>2 DEF Bijection, Injection, Surjection, IsInjective
<1>8. QED
  BY <1>6, <1>7 DEF out, K

(* Signals listed from the back have the same sorted outputs. *)
LEMMA CollectReverse ==
    ASSUME NEW proofs \in Seq(VdfProofs)
    PROVE  Ascending(collect_signal_outputs(Reverse(proofs))) = Ascending(collect_signal_outputs(proofs))
<1> DEFINE n == Len(proofs)
           back == Reverse(proofs)
           s == collect_signal_outputs(back)
           t == collect_signal_outputs(proofs)
           A == Verified(back)
           B == Verified(proofs)
           f == [i \in A |-> n - i + 1]
<1>1. /\ n \in Nat /\ DOMAIN proofs = 1 .. n
      /\ back \in Seq(VdfProofs) /\ DOMAIN back = 1 .. n
      /\ \A i \in 1 .. n : back[i] = proofs[n - i + 1] /\ n - i + 1 \in 1 .. n
  <2>1. back \in Seq(VdfProofs) /\ Len(back) = n
        /\ \A i \in 1 .. n : back[i] = proofs[n - i + 1] /\ n - i + 1 \in 1 .. n
    BY ReverseFacts
  <2> HIDE DEF back
  <2>2. QED
    BY <2>1
<1>2. s \in Seq(Int) /\ t \in Seq(Int)
  BY <1>1, CollectPlaces
<1>3. PICK d \in Bijection(DOMAIN s, A) : \A i \in DOMAIN s : s[i] = back[d[i]].output
  BY <1>1, CollectPlaces
<1>4. PICK e \in Bijection(DOMAIN t, B) : \A i \in DOMAIN t : t[i] = proofs[e[i]].output
  BY CollectPlaces
<1> HIDE DEF s, t, back, n
<1>5. /\ A \subseteq 1 .. n /\ B \subseteq 1 .. n
      /\ \A i \in 1 .. n : i \in A <=> n - i + 1 \in B
  BY <1>1 DEF Verified
<1> HIDE DEF A, B
<1>6. \A i \in A : f[i] \in B /\ f[i] = n - i + 1 /\ i \in Int
  BY <1>5
<1>7. \A k \in B : n - k + 1 \in A /\ f[n - k + 1] = k
  <2>1. \A k \in B : n - k + 1 \in 1 .. n /\ n - (n - k + 1) + 1 = k
    BY <1>1, <1>5
  <2>2. QED
    BY <1>5, <2>1
<1> DEFINE h == [i \in DOMAIN s |-> CHOOSE j \in DOMAIN t : e[j] = f[d[i]]]
<1>8. /\ d \in [DOMAIN s -> A] /\ (\A i, j \in DOMAIN s : d[i] = d[j] => i = j)
      /\ \A k \in A : \E i \in DOMAIN s : d[i] = k
  BY <1>3 DEF Bijection, Injection, Surjection, IsInjective
<1>9. /\ e \in [DOMAIN t -> B] /\ (\A i, j \in DOMAIN t : e[i] = e[j] => i = j)
      /\ \A k \in B : \E i \in DOMAIN t : e[i] = k
  BY <1>4 DEF Bijection, Injection, Surjection, IsInjective
<1>10. ASSUME NEW i \in DOMAIN s PROVE h[i] \in DOMAIN t /\ e[h[i]] = f[d[i]]
  <2>1. f[d[i]] \in B
    BY <1>6, <1>8
  <2> HIDE DEF f
  <2>2. QED
    BY <1>9, <2>1
<1>11. h \in Bijection(DOMAIN s, DOMAIN t)
  <2>1. h \in [DOMAIN s -> DOMAIN t]
    BY <1>10
  <2> HIDE DEF h
  <2>2. ASSUME NEW i \in DOMAIN s, NEW j \in DOMAIN s, h[i] = h[j] PROVE i = j
    <3>1. f[d[i]] = f[d[j]] /\ d[i] \in A /\ d[j] \in A
      BY <1>8, <1>10, <2>2
    <3>2. n - d[i] + 1 = n - d[j] + 1 /\ d[i] \in Int /\ d[j] \in Int
      BY <1>6, <3>1
    <3>3. d[i] = d[j]
      BY <1>1, <3>2
    <3>4. QED
      BY <1>8, <3>3
  <2>3. ASSUME NEW k \in DOMAIN t PROVE \E i \in DOMAIN s : h[i] = k
    <3>1. e[k] \in B /\ n - e[k] + 1 \in A /\ f[n - e[k] + 1] = e[k]
      BY <1>7, <1>9
    <3>2. PICK i \in DOMAIN s : d[i] = n - e[k] + 1
      BY <1>8, <3>1
    <3>3. e[h[i]] = e[k] /\ h[i] \in DOMAIN t
      BY <1>10, <3>1, <3>2
    <3>4. QED
      BY <1>9, <3>3
  <2>4. QED
    BY <2>1, <2>2, <2>3 DEF Bijection, Injection, Surjection, IsInjective
<1>12. ASSUME NEW i \in DOMAIN s PROVE s[i] = t[h[i]]
  <2>1. /\ d[i] \in A /\ h[i] \in DOMAIN t /\ e[h[i]] = f[d[i]]
    BY <1>8, <1>10
  <2> HIDE DEF h
  <2>2. f[d[i]] = n - d[i] + 1 /\ d[i] \in 1 .. n
    BY <1>5, <1>6, <2>1
  <2> HIDE DEF f
  <2>3. s[i] = proofs[n - d[i] + 1].output
    BY <1>1, <1>3, <2>2
  <2>4. QED
    BY <1>4, <2>1, <2>2, <2>3
<1> HIDE DEF h
<1>13. Ascending(s) = Ascending(t)
  BY <1>2, <1>11, <1>12, AscendingSame
<1>14. QED
  BY <1>13 DEF s, t, back
(* An artifact as the code holds it. *)
ArtifactOf(e, prev, claims, signals, vdf, digest) ==
    [epoch |-> e, prev |-> prev, claims_root |-> claims, signal_root |-> signals,
     outer_vdf |-> vdf, beacon |-> digest]

(* The delay of a beacon is paid for its own fields, in any order of       *)
(* claims and signals, and for no others.                                  *)
LEMMA DelayFacts ==
    ASSUME NEW e, NEW prev, NEW ids \in Seq(Int), NEW proofs \in Seq(VdfProofs),
           NEW t \in Nat \ {0}, NEW other
    PROVE  DelayBound(e, prev, ids, proofs, t, other)
<1> DEFINE claims == claims_root(ids)
           signals == signal_vdf_root(collect_signal_outputs(proofs))
           x == vdf_input(e, prev, claims, signals)
           vdf == evaluate(x, t)
           art == open_beacon(e, prev, claims, collect_signal_outputs(proofs), t)
           again == open_beacon(e, prev, claims_root(Reverse(ids)), collect_signal_outputs(Reverse(proofs)), t)
           digest(a) == [a EXCEPT !.beacon = beacon_digest(a.epoch, a.prev, a.claims_root,
                                                           a.signal_root, a.outer_vdf.output)]
           relabelled == {digest([art EXCEPT !.epoch = other.epoch]),
                          digest([art EXCEPT !.prev = other.prev]),
                          digest([art EXCEPT !.claims_root = other.claims_root]),
                          digest([art EXCEPT !.signal_root = other.signal_root])}
           Input(a) == vdf_input(a.epoch, a.prev, a.claims_root, a.signal_root)
<1>1. verify_vdf(vdf) /\ vdf.input = x
  BY RunVerifies
<1>2. art = ArtifactOf(e, prev, claims, signals, vdf, beacon_digest(e, prev, claims, signals, vdf.output))
  BY DEF open_beacon, ArtifactOf
<1>3. again = art
  <2>1. claims_root(Reverse(ids)) = claims
    BY AscendingReverse DEF claims_root
  <2>2. signal_vdf_root(collect_signal_outputs(Reverse(proofs))) = signals
    BY CollectReverse DEF signal_vdf_root
  <2>3. QED
    BY <2>1, <2>2 DEF open_beacon
<1> HIDE DEF claims, signals, x, vdf, art, again
<1>4. /\ art.outer_vdf = vdf /\ Input(art) = x
      /\ art.beacon = beacon_digest(art.epoch, art.prev, art.claims_root, art.signal_root, art.outer_vdf.output)
  BY <1>2 DEF ArtifactOf, x
<1>5. verify_beacon(art) /\ verify_vdf(art.outer_vdf)
  BY <1>1, <1>4 DEF verify_beacon
<1>6. ASSUME NEW a \in relabelled PROVE a.outer_vdf = vdf
  <2>1. /\ [art EXCEPT !.epoch = other.epoch].outer_vdf = vdf
        /\ [art EXCEPT !.prev = other.prev].outer_vdf = vdf
        /\ [art EXCEPT !.claims_root = other.claims_root].outer_vdf = vdf
        /\ [art EXCEPT !.signal_root = other.signal_root].outer_vdf = vdf
    BY <1>2 DEF ArtifactOf
  <2>2. /\ digest([art EXCEPT !.epoch = other.epoch]).outer_vdf = vdf
        /\ digest([art EXCEPT !.prev = other.prev]).outer_vdf = vdf
        /\ digest([art EXCEPT !.claims_root = other.claims_root]).outer_vdf = vdf
        /\ digest([art EXCEPT !.signal_root = other.signal_root]).outer_vdf = vdf
    BY <1>2, <2>1 DEF ArtifactOf
  <2> HIDE DEF digest
  <2>3. QED
    BY <2>2
<1>7. ASSUME NEW a \in relabelled, Input(a) # Input(art) PROVE ~ verify_beacon(a)
  <2>1. a.outer_vdf.input = x /\ Input(a) # x
    BY <1>1, <1>4, <1>6, <1>7
  <2> HIDE DEF relabelled
  <2>2. QED
    BY <2>1 DEF verify_beacon
<1>8. QED
  <2> HIDE DEF relabelled
  <2>1. /\ verify_beacon(art) /\ again = art
        /\ \A a \in relabelled : Input(a) # Input(art) => ~ verify_beacon(a)
        /\ verify_vdf(art.outer_vdf)
    BY <1>3, <1>5, <1>7
  <2>2. QED
    BY <2>1 DEF DelayBound, relabelled, art, again, claims

(* A beacon is opened over numbered claims and delays. *)
ContentOK == kind = "beacon" => input \in Seq([id : Nat, delay : VdfProofs])

(* It starts over none. *)
LEMMA ContentOKInit == Init => ContentOK
  BY DEF Init, ContentOK

(* Only AddContent changes what it is opened over. *)
LEMMA OnlyAddContent ==
    ASSUME Next, kind' = "beacon"
    PROVE  kind = "beacon" /\ \E id \in 1 .. MaxLen, delay \in Delays : AddContent(id, delay)
  BY DEF Next, AddWeight, AddClaim, AddValue, AddLeaf, AddAnswer, AddShard, AddItem, AddFrame,
         AddMessage, AddContent, AddFocus, FoldsBlock, Follows, JoinsMesh, Subscribes, TakesSome,
         Publishes, Exports, Joins, Applies, Audits, Issues, TakesPlace, TipStep,
         MeshStep, Absorbs, Folds, FoldStep, Grows

(* The delays, good and bad, are those of naturals. *)
LEMMA DelaysOK == Delays \subseteq VdfProofs
<1>1. evaluate(3, 2) \in VdfProofs
  <2>1. evaluate(3, 2).output \in Nat
    BY EvaluateFacts
  <2>2. evaluate(3, 2) = [input |-> 3, output |-> evaluate(3, 2).output, iterations |-> 2]
    BY DEF evaluate
  <2> HIDE DEF evaluate
  <2>3. QED
    BY <2>1, <2>2 DEF VdfProofs
<1>2. [evaluate(4, 1) EXCEPT !.output = 1] \in VdfProofs
  <2>1. evaluate(4, 1) = [input |-> 4, output |-> evaluate(4, 1).output, iterations |-> 1]
    BY DEF evaluate
  <2>2. [evaluate(4, 1) EXCEPT !.output = 1] = [input |-> 4, output |-> 1, iterations |-> 1]
    BY <2>1
  <2>3. QED
    BY <2>2 DEF VdfProofs
<1>3. [input |-> P, output |-> P, iterations |-> 0] \in VdfProofs
  BY AlgorithmsAssumption DEF VdfProofs
<1>4. QED
  BY <1>1, <1>2, <1>3 DEF Delays

(* Every step keeps the contents so. *)
LEMMA ContentOKStep ==
    ASSUME ContentOK, [Next]_vars
    PROVE  ContentOK'
<1> DEFINE C == [id : Nat, delay : VdfProofs]
<1>1. CASE UNCHANGED vars
  BY <1>1 DEF vars, ContentOK
<1>2. CASE Next
  <2> SUFFICES ASSUME kind' = "beacon" PROVE input' \in Seq(C)
    BY DEF ContentOK
  <2>1. PICK id \in 1 .. MaxLen, delay \in Delays : AddContent(id, delay)
    BY <1>2, OnlyAddContent
  <2>2. [id |-> id, delay |-> delay] \in C
    BY DelaysOK, AlgorithmsAssumption
  <2>3. input \in Seq(C)
    BY <1>2, OnlyAddContent DEF ContentOK
  <2> HIDE DEF C
  <2>4. QED
    BY <2>1, <2>2, <2>3 DEF AddContent
<1>3. QED
  BY <1>1, <1>2

(* And a beacon over such contents is bound to them. *)
LEMMA ContentBound == ContentOK => BeaconBound
<1> DEFINE ids == [i \in DOMAIN input |-> input[i].id]
           delays == [i \in DOMAIN input |-> input[i].delay]
           other == open_beacon(2, 8, claims_root(<<9>>), <<5>>, 2)
<1> SUFFICES ASSUME ContentOK, kind = "beacon", NEW t \in 1 .. 2
             PROVE  DelayBound(1, 7, ids, delays, t, other)
  BY DEF BeaconBound
<1>1. input \in Seq([id : Nat, delay : VdfProofs])
  BY DEF ContentOK
<1>2. DOMAIN input = 1 .. Len(input) /\ Len(input) \in Nat
      /\ \A i \in DOMAIN input : input[i].id \in Int /\ input[i].delay \in VdfProofs
  <2> DEFINE C == [id : Nat, delay : VdfProofs]
  <2>1. \A i \in DOMAIN input : input[i] \in C
    <3>1. input \in Seq(C)
      BY <1>1
    <3> HIDE DEF C
    <3>2. QED
      BY <3>1
  <2>2. DOMAIN input = 1 .. Len(input) /\ Len(input) \in Nat
    BY <1>1
  <2>3. QED
    BY <2>1, <2>2
<1>3. ids \in Seq(Int) /\ delays \in Seq(VdfProofs)
  BY <1>2
<1> HIDE DEF ids, delays, other
<1>4. QED
  BY <1>3, DelayFacts

(* A beacon verifies in whatever order the claims and signals are listed   *)
(* and with invalid signal delays among them, and its delay is good for no *)
(* other epoch, parent, claims or signals (open_beacon, verify_beacon):    *)
(* for any number of claims and signals and any order of the field.        *)
THEOREM BeaconBoundHolds == Spec => []BeaconBound
<1>1. Init => ContentOK
  BY ContentOKInit
<1>2. ContentOK /\ [Next]_vars => ContentOK'
  BY ContentOKStep
<1>3. ContentOK => BeaconBound
  BY ContentBound
<1>4. QED
  BY <1>1, <1>2, <1>3, PTL DEF Spec

(***************************************************************************)
(* Namespaced trees.                                                       *)
(***************************************************************************)

(* Leaves are pairs of a namespace and the hash of their data. *)
LeafPairs == Nat \X Nat

(* The node of a leaf. *)
LeafNode(l) == [hash |-> hash_leaf(l), min |-> l[1], max |-> l[1]]

(* The nodes of s by size and start, as build_tree defines them from those *)
(* of smaller sizes.                                                       *)
NodesOf(f, s, k) ==
    [lo \in 1 .. Len(s) - k + 1 |->
        IF k = 1 THEN LeafNode(s[lo])
        ELSE hash_pair(f[k \div 2][lo], f[k - k \div 2][lo + k \div 2])]

IsTree(f, s) == \A k \in 1 .. Len(s) : f[k] = NodesOf(f, s, k)

(* A half is smaller than the whole, and not empty. *)
LEMMA Halves ==
    ASSUME NEW k \in Nat, k > 1
    PROVE  k \div 2 \in 1 .. k - 1 /\ k - k \div 2 \in 1 .. k - 1
  OBVIOUS

(* Only smaller nodes count. *)
LEMMA NodesAgree ==
    ASSUME NEW s, NEW k \in Nat \ {0}, NEW f, NEW g, \A j \in 1 .. k - 1 : f[j] = g[j]
    PROVE  NodesOf(f, s, k) = NodesOf(g, s, k)
<1>1. CASE k = 1
  BY <1>1 DEF NodesOf
<1>2. CASE k > 1
  <2>1. f[k \div 2] = g[k \div 2] /\ f[k - k \div 2] = g[k - k \div 2]
    BY <1>2, Halves
  <2>2. QED
    BY <2>1 DEF NodesOf
<1>3. QED
  BY <1>1, <1>2

(* There is such a tree. *)
LEMMA TreeExists ==
    ASSUME NEW s \in Seq(LeafPairs)
    PROVE  \E f : f = [k \in 1 .. Len(s) |-> NodesOf(f, s, k)]
<1> DEFINE n == Len(s)
           Upto(f, m) == \A k \in 1 .. m : f[k] = NodesOf(f, s, k)
           S == {m \in 0 .. n : \E f : Upto(f, m)}
<1>1. n \in Nat
  OBVIOUS
<1>2. 0 \in S
  <2>1. Upto(<<>>, 0)
    OBVIOUS
  <2>2. QED
    BY <1>1, <2>1
<1>3. ASSUME NEW m \in 0 .. n - 1, m \in S PROVE m + 1 \in S
  <2>1. PICK f : Upto(f, m)
    BY <1>3
  <2> DEFINE g == [k \in 1 .. n |-> IF k <= m THEN f[k] ELSE NodesOf(f, s, k)]
  <2>2. ASSUME NEW k \in 1 .. m + 1 PROVE g[k] = NodesOf(g, s, k)
    <3>1. k \in 1 .. n /\ k \in Nat \ {0} /\ m \in Nat
      BY <1>1
    <3>2. \A j \in 1 .. k - 1 : f[j] = g[j]
      BY <3>1
    <3>3. NodesOf(f, s, k) = NodesOf(g, s, k)
      BY <3>1, <3>2, NodesAgree
    <3>4. g[k] = NodesOf(f, s, k)
      <4>1. CASE k <= m
        BY <2>1, <3>1, <4>1
      <4>2. CASE ~ (k <= m)
        BY <3>1, <4>2
      <4>3. QED
        BY <4>1, <4>2
    <3>5. QED
      BY <3>3, <3>4
  <2> HIDE DEF g
  <2>3. Upto(g, m + 1)
    BY <2>2
  <2>4. QED
    BY <1>1, <2>3
<1>4. n \in S
  <2> HIDE DEF S, n
  <2>1. \A i \in 0 .. n : i \in S
    BY <1>1, <1>2, <1>3, UpTo
  <2>2. QED
    BY <1>1, <2>1
<1>5. PICK f : Upto(f, n)
  BY <1>4
<1> DEFINE g == [k \in 1 .. n |-> f[k]]
<1>6. \A k \in 1 .. n : g[k] = NodesOf(g, s, k)
  <2>1. ASSUME NEW k \in 1 .. n PROVE NodesOf(f, s, k) = NodesOf(g, s, k)
    <3>1. k \in Nat \ {0} /\ \A j \in 1 .. k - 1 : f[j] = g[j]
      BY <1>1
    <3> HIDE DEF g, n
    <3>2. QED
      BY <3>1, NodesAgree
  <2>2. QED
    BY <1>5, <2>1
<1>7. g = [k \in 1 .. n |-> NodesOf(g, s, k)]
  <2>1. DOMAIN g = 1 .. n /\ g = [k \in 1 .. n |-> g[k]]
    OBVIOUS
  <2> HIDE DEF g, n
  <2>2. QED
    BY <1>6, <2>1
<1>8. QED
  BY <1>7

(* build_tree gives the node of all leaves in such a tree. *)
LEMMA BuildTree ==
    ASSUME NEW s \in Seq(LeafPairs)
    PROVE  \E f : IsTree(f, s) /\ build_tree(s) = IF s = <<>> THEN EmptyNode ELSE f[Len(s)][1]
<1> DEFINE Node(f) ==
              f = [k \in 1 .. Len(s) |->
                     [lo \in 1 .. Len(s) - k + 1 |->
                        IF k = 1 THEN [hash |-> hash_leaf(s[lo]), min |-> s[lo][1], max |-> s[lo][1]]
                        ELSE hash_pair(f[k \div 2][lo], f[k - k \div 2][lo + k \div 2])]]
           node == CHOOSE f : Node(f)
<1>1. \E f : Node(f)
  BY TreeExists DEF NodesOf, LeafNode
<1>2. Node(node)
  <2> HIDE DEF Node
  <2> QED BY <1>1
<1>3. build_tree(s) = IF s = <<>> THEN EmptyNode ELSE node[Len(s)][1]
  BY DEF build_tree
<1> HIDE DEF node
<1>4. IsTree(node, s)
  BY <1>2 DEF IsTree, NodesOf, LeafNode
<1>5. QED
  BY <1>3, <1>4
(* The hash of the node of k leaves of s from lo on: that of a leaf, or of *)
(* a left and a right half.                                                *)
IsLeaf(f, s, k, lo) == k = 1 /\ f[k][lo].hash = [leaf |-> s[lo]]

IsPair(f, k, lo, l, r) ==
    /\ l \in 1 .. k - 1 /\ r \in 1 .. k - 1 /\ l = k \div 2 /\ l + r = k
    /\ f[k][lo].hash = [left |-> f[l][lo].hash, right |-> f[r][lo + l].hash,
                        min |-> f[l][lo].min, max |-> f[r][lo + l].max]

(* What a node of a tree is. *)
LEMMA NodeFacts ==
    ASSUME NEW s \in Seq(LeafPairs), NEW f, IsTree(f, s), NEW k \in 1 .. Len(s),
           NEW lo \in 1 .. Len(s) - k + 1
    PROVE  /\ k = 1 => IsLeaf(f, s, k, lo)
           /\ k > 1 => IsPair(f, k, lo, k \div 2, k - k \div 2)
<1>1. f[k][lo] = NodesOf(f, s, k)[lo]
  BY DEF IsTree
<1>2. ASSUME k = 1 PROVE f[k][lo].hash = [leaf |-> s[lo]]
  <2>1. f[k][lo] = LeafNode(s[lo])
    BY <1>1, <1>2 DEF NodesOf
  <2>2. QED
    BY <2>1 DEF LeafNode, hash_leaf
<1>3. ASSUME k > 1 PROVE IsPair(f, k, lo, k \div 2, k - k \div 2)
  <2> DEFINE l == k \div 2
             r == k - l
  <2>1. l \in 1 .. k - 1 /\ r \in 1 .. k - 1 /\ l + r = k
    BY <1>3, Halves
  <2>2. f[k][lo] = hash_pair(f[l][lo], f[r][lo + l])
    BY <1>1, <1>3 DEF NodesOf
  <2>3. f[k][lo].hash = [left |-> f[l][lo].hash, right |-> f[r][lo + l].hash,
                         min |-> f[l][lo].min, max |-> f[r][lo + l].max]
    <3> HIDE DEF l, r
    <3> QED BY <2>2 DEF hash_pair
  <2>4. QED
    BY <2>1, <2>3 DEF IsPair
<1>4. QED
  BY <1>2, <1>3 DEF IsLeaf

(* The hash of a leaf is not that of a pair. *)
LEMMA LeafNoPair ==
    ASSUME NEW f, NEW g, NEW s, NEW k, NEW lo, NEW i, NEW lp, NEW l, NEW r,
           IsLeaf(f, s, k, lo), IsPair(g, i, lp, l, r)
    PROVE  f[k][lo].hash # g[i][lp].hash
<1>1. DOMAIN f[k][lo].hash = {"leaf"}
  BY DEF IsLeaf
<1>2. "left" \in DOMAIN g[i][lp].hash
  BY DEF IsPair
<1>3. QED
  BY <1>1, <1>2

(* Equal hashes of pairs have equal halves. *)
LEMMA PairHalves ==
    ASSUME NEW f, NEW g, NEW k, NEW lo, NEW l, NEW r, NEW kg, NEW lg, NEW ll, NEW rg,
           IsPair(f, k, lo, l, r), IsPair(g, kg, lg, ll, rg), f[k][lo].hash = g[kg][lg].hash
    PROVE  f[l][lo].hash = g[ll][lg].hash /\ f[r][lo + l].hash = g[rg][lg + ll].hash
<1>1. f[k][lo].hash.left = f[l][lo].hash /\ f[k][lo].hash.right = f[r][lo + l].hash
  BY DEF IsPair
<1>2. g[kg][lg].hash.left = g[ll][lg].hash /\ g[kg][lg].hash.right = g[rg][lg + ll].hash
  BY DEF IsPair
<1>3. QED
  BY <1>1, <1>2

(* The hash tells the size and the leaves. *)
HashTells(f, s, g, t, k, l, lo, lp) ==
    f[k][lo].hash = g[l][lp].hash => k = l /\ \A i \in 0 .. k - 1 : s[lo + i] = t[lp + i]

(* Nodes of the same hash are over the same leaves: sizes and leaves can   *)
(* be read off the hash, however the halves fall.                          *)
LEMMA TreesDiffer ==
    ASSUME NEW s \in Seq(LeafPairs), NEW t \in Seq(LeafPairs), NEW f, NEW g, IsTree(f, s), IsTree(g, t)
    PROVE  \A k \in 1 .. Len(s), l \in 1 .. Len(t) :
             \A lo \in 1 .. Len(s) - k + 1, lp \in 1 .. Len(t) - l + 1 :
               HashTells(f, s, g, t, k, l, lo, lp)
<1> DEFINE n == Len(s)
           Same(k, l, lo, lp) == k = l /\ \A i \in 0 .. k - 1 : s[lo + i] = t[lp + i]
           Good(k) == \A l \in 1 .. Len(t) :
                        \A lo \in 1 .. Len(s) - k + 1, lp \in 1 .. Len(t) - l + 1 :
                          f[k][lo].hash = g[l][lp].hash => Same(k, l, lo, lp)
           S == {m \in 0 .. n : \A k \in 1 .. m : Good(k)}
<1>1. n \in Nat /\ Len(t) \in Nat
  OBVIOUS
<1>2. 0 \in S
  BY <1>1
<1>3. ASSUME NEW m \in 0 .. n - 1, m \in S PROVE m + 1 \in S
  <2>1. ASSUME NEW k \in 1 .. m + 1, NEW l \in 1 .. Len(t), NEW lo \in 1 .. n - k + 1,
               NEW lp \in 1 .. Len(t) - l + 1, f[k][lo].hash = g[l][lp].hash
        PROVE  Same(k, l, lo, lp)
    <3>0. k \in 1 .. n /\ k \in Nat /\ l \in Nat /\ lo \in Nat /\ lp \in Nat
      BY <1>1
    <3>1. CASE k = 1 /\ l = 1
      <4>1. IsLeaf(f, s, k, lo) /\ IsLeaf(g, t, l, lp)
        BY <3>0, <3>1, NodeFacts
      <4>2. [leaf |-> s[lo]].leaf = [leaf |-> t[lp]].leaf
        BY <2>1, <4>1 DEF IsLeaf
      <4>3. s[lo] = t[lp]
        BY <4>2
      <4>4. QED
        BY <3>0, <3>1, <4>3
    <3>2. CASE k = 1 /\ l > 1
      <4>1. IsLeaf(f, s, k, lo) /\ IsPair(g, l, lp, l \div 2, l - l \div 2)
        BY <3>0, <3>2, NodeFacts
      <4>2. QED
        BY <2>1, <4>1, LeafNoPair
    <3>3. CASE k > 1 /\ l = 1
      <4>1. IsLeaf(g, t, l, lp) /\ IsPair(f, k, lo, k \div 2, k - k \div 2)
        BY <3>0, <3>3, NodeFacts
      <4>2. QED
        BY <2>1, <4>1, LeafNoPair
    <3>4. CASE k > 1 /\ l > 1
      <4> DEFINE kl == k \div 2
                 kr == k - k \div 2
                 ll == l \div 2
                 lr == l - l \div 2
      <4>p. IsPair(f, k, lo, kl, kr) /\ IsPair(g, l, lp, ll, lr)
        BY <3>0, <3>4, NodeFacts
      <4> HIDE DEF kl, kr, ll, lr
      <4>3. f[kl][lo].hash = g[ll][lp].hash /\ f[kr][lo + kl].hash = g[lr][lp + ll].hash
        BY <2>1, <4>p, PairHalves
      <4>0. kl + kr = k /\ ll + lr = l
        BY <4>p DEF IsPair
      <4>1. kl \in 1 .. k - 1 /\ kr \in 1 .. k - 1
        BY <4>p DEF IsPair
      <4>2. ll \in 1 .. l - 1 /\ lr \in 1 .. l - 1
        BY <4>p DEF IsPair
      <4>4. kl \in 1 .. m /\ kr \in 1 .. m /\ ll \in 1 .. Len(t) /\ lr \in 1 .. Len(t)
        BY <1>1, <3>0, <4>1, <4>2
      <4>5. /\ lo \in 1 .. n - kl + 1 /\ lp \in 1 .. Len(t) - ll + 1
            /\ lo + kl \in 1 .. n - kr + 1 /\ lp + ll \in 1 .. Len(t) - lr + 1
        BY <1>1, <3>0, <4>0, <4>1, <4>2
      <4>6. Good(kl) /\ Good(kr)
        BY <1>3, <4>4
      <4>7. Same(kl, ll, lo, lp) /\ Same(kr, lr, lo + kl, lp + ll)
        BY <4>3, <4>4, <4>5, <4>6
      <4>8. k = l /\ kl = ll
        BY <3>0, <4>0, <4>7
      <4>9. ASSUME NEW i \in 0 .. k - 1 PROVE s[lo + i] = t[lp + i]
        <5>1. CASE i < kl
          <6>1. i \in 0 .. kl - 1
            BY <4>1, <5>1, <3>0
          <6>2. QED
            BY <4>7, <6>1
        <5>2. CASE i >= kl
          <6>1. i - kl \in 0 .. kr - 1 /\ lo + kl + (i - kl) = lo + i /\ lp + ll + (i - kl) = lp + i
            BY <3>0, <4>0, <4>1, <4>2, <4>8, <5>2
          <6>2. QED
            BY <4>7, <6>1
        <5>3. QED
          BY <3>0, <4>1, <5>1, <5>2
      <4>10. QED
        BY <4>8, <4>9
    <3>5. QED
      BY <3>0, <3>1, <3>2, <3>3, <3>4
  <2> HIDE DEF Same
  <2>2. \A k \in 1 .. m + 1 : Good(k)
    BY <2>1
  <2>3. m + 1 \in 0 .. n
    BY <1>1
  <2> HIDE DEF Good
  <2>4. QED
    BY <2>2, <2>3
<1>4. n \in S
  <2> HIDE DEF S, n
  <2>1. \A i \in 0 .. n : i \in S
    BY <1>1, <1>2, <1>3, UpTo
  <2>2. QED
    BY <1>1, <2>1
<1>5. QED
  BY <1>4 DEF HashTells

(* Different lists of leaves have different trees. *)
LEMMA TreeInjective ==
    ASSUME NEW s \in Seq(LeafPairs), NEW t \in Seq(LeafPairs), build_tree(s) = build_tree(t)
    PROVE  s = t
<1>1. PICK f : IsTree(f, s) /\ build_tree(s) = IF s = <<>> THEN EmptyNode ELSE f[Len(s)][1]
  BY BuildTree
<1>2. PICK g : IsTree(g, t) /\ build_tree(t) = IF t = <<>> THEN EmptyNode ELSE g[Len(t)][1]
  BY BuildTree
<1>3. ASSUME NEW r \in Seq(LeafPairs), NEW h, IsTree(h, r), r # <<>> PROVE h[Len(r)][1] # EmptyNode
  <2>1. Len(r) \in 1 .. Len(r) /\ 1 \in 1 .. Len(r) - Len(r) + 1 /\ Len(r) \in Nat
    BY <1>3
  <2>2. CASE Len(r) = 1
    <3>1. h[Len(r)][1].hash = [leaf |-> r[1]]
      BY <1>3, <2>1, <2>2, NodeFacts DEF IsLeaf
    <3>2. r[1] # <<>>
      <4>1. r[1] \in LeafPairs
        <5>1. 1 \in 1 .. Len(r)
          BY <2>1, <2>2
        <5> HIDE DEF LeafPairs
        <5>2. QED
          BY <1>3, <5>1
      <4>2. Len(r[1]) = 2 /\ Len(<<>>) = 0
        BY <4>1 DEF LeafPairs
      <4>3. 2 # 0
        OBVIOUS
      <4>4. QED
        BY <4>2, <4>3, Zenon
    <3>3. EmptyNode.hash = [leaf |-> <<>>]
      BY DEF EmptyNode
    <3>4. [leaf |-> r[1]].leaf # [leaf |-> <<>>].leaf
      BY <3>2
    <3>5. QED
      BY <3>1, <3>3, <3>4
  <2>3. CASE Len(r) > 1
    <3>1. IsPair(h, Len(r), 1, Len(r) \div 2, Len(r) - Len(r) \div 2)
      BY <1>3, <2>1, <2>3, NodeFacts
    <3>2. "left" \in DOMAIN h[Len(r)][1].hash
      BY <3>1 DEF IsPair
    <3>3. DOMAIN EmptyNode.hash = {"leaf"}
      BY DEF EmptyNode
    <3>4. QED
      BY <3>2, <3>3
  <2>4. Len(r) = 1 \/ Len(r) > 1
    <3>1. \A n \in Nat : n \in 1 .. n => n = 1 \/ n > 1
      OBVIOUS
    <3>2. QED
      BY <2>1, <3>1, Zenon
  <2>5. QED
    BY <2>2, <2>3, <2>4
<1>4. s = <<>> <=> t = <<>>
  BY <1>1, <1>2, <1>3
<1>5. CASE s # <<>>
  <2>1. f[Len(s)][1].hash = g[Len(t)][1].hash
    BY <1>1, <1>2, <1>4, <1>5
  <2>2. /\ Len(s) \in 1 .. Len(s) /\ 1 \in 1 .. Len(s) - Len(s) + 1
        /\ Len(t) \in 1 .. Len(t) /\ 1 \in 1 .. Len(t) - Len(t) + 1
    BY <1>4, <1>5
  <2>3. Len(s) = Len(t) /\ \A i \in 0 .. Len(s) - 1 : s[1 + i] = t[1 + i]
    <3> DEFINE k == Len(s)
               l == Len(t)
    <3>1. k \in 1 .. Len(s) /\ l \in 1 .. Len(t) /\ 1 \in 1 .. Len(s) - k + 1 /\ 1 \in 1 .. Len(t) - l + 1
          /\ f[k][1].hash = g[l][1].hash
      BY <2>1, <2>2
    <3> HIDE DEF k, l
    <3>2. k = l /\ \A i \in 0 .. k - 1 : s[1 + i] = t[1 + i]
      <4>1. HashTells(f, s, g, t, k, l, 1, 1)
        BY <1>1, <1>2, <3>1, TreesDiffer, Zenon
      <4>2. k = l /\ \A i \in 0 .. k - 1 : s[1 + i] = t[1 + i]
        BY <3>1, <4>1 DEF HashTells
      <4>3. QED
        BY <4>2
    <3>3. QED
      BY <3>2 DEF k, l
  <2>4. \A i \in 1 .. Len(s) : i - 1 \in 0 .. Len(s) - 1 /\ 1 + (i - 1) = i
    OBVIOUS
  <2>5. \A i \in 1 .. Len(s) : s[i] = t[i]
    BY <2>3, <2>4
  <2>6. QED
    BY <2>3, <2>5
<1>6. QED
  BY <1>4, <1>5
(* Leaves in order. *)
InLeafOrder(s) == \A i, j \in 1 .. Len(s) : i < j => ~ LeafLess(s[j], s[i])

(* LeafLess orders leaves. *)
LEMMA LeafOrder ==
    ASSUME NEW s \in Seq(LeafPairs)
    PROVE  /\ s \in Seq(ToSet(s)) /\ ToSet(s) \subseteq LeafPairs
           /\ Orders({p \in ToSet(s) \X ToSet(s) : LeafLess(p[1], p[2])}, ToSet(s))
<1> DEFINE V == ToSet(s)
           less == {p \in V \X V : LeafLess(p[1], p[2])}
<1>1. s \in Seq(V)
  BY DEF ToSet
<1>2. V \subseteq LeafPairs
  <2> HIDE DEF LeafPairs
  <2> QED BY DEF ToSet
<1>3. ASSUME NEW a \in V, NEW b \in V PROVE <<a, b>> \in less <=> LeafLess(a, b)
  <2> HIDE DEF V
  <2> QED OBVIOUS
<1>4. ASSUME NEW a \in V, NEW b \in V, NEW c \in V
      PROVE  /\ <<a, a>> \notin less
             /\ <<a, b>> \in less /\ <<b, c>> \in less => <<a, c>> \in less
             /\ <<a, b>> \in less => <<a, c>> \in less \/ <<c, b>> \in less
  <2>1. a[1] \in Nat /\ a[2] \in Nat /\ b[1] \in Nat /\ b[2] \in Nat /\ c[1] \in Nat /\ c[2] \in Nat
    BY <1>2 DEF LeafPairs
  <2>2. /\ ~ LeafLess(a, a)
        /\ LeafLess(a, b) /\ LeafLess(b, c) => LeafLess(a, c)
        /\ LeafLess(a, b) => LeafLess(a, c) \/ LeafLess(c, b)
    BY <2>1 DEF LeafLess
  <2> HIDE DEF less, V
  <2>3. QED
    BY <1>3, <2>2
<1>5. QED
  <2> HIDE DEF less, V
  <2>1. Orders(less, V)
    BY <1>4 DEF Orders
  <2>2. QED
    BY <1>1, <1>2, <2>1 DEF less, V

(* What Sorted gives. *)
LEMMA SortedFacts ==
    ASSUME NEW leaves \in Seq(LeafPairs)
    PROVE  /\ Sorted(leaves) \in Seq(LeafPairs) /\ Len(Sorted(leaves)) = Len(leaves)
           /\ InLeafOrder(Sorted(leaves))
<1> DEFINE V == ToSet(leaves)
           less == {p \in V \X V : LeafLess(p[1], p[2])}
           s == Sorted(leaves)
<1>1. s = Arranged(leaves, less)
  BY DEF Sorted
<1>2. leaves \in Seq(V) /\ V \subseteq LeafPairs /\ Orders(less, V)
  BY LeafOrder
<1> HIDE DEF s, V
<1>d. DOMAIN leaves = 1 .. Len(leaves) /\ Len(leaves) \in Nat
  OBVIOUS
<1>3. /\ s \in Seq(V) /\ Len(s) = Len(leaves)
      /\ \A k, l \in 1 .. Len(leaves) : k < l => <<s[l], s[k]>> \notin less
  <2> HIDE DEF less
  <2> QED BY <1>1, <1>2, <1>d, ArrangedFacts
<1>4. s \in Seq(LeafPairs)
  <2> HIDE DEF LeafPairs
  <2> QED BY <1>2, <1>3
<1>5. ASSUME NEW i \in 1 .. Len(s), NEW j \in 1 .. Len(s), i < j PROVE ~ LeafLess(s[j], s[i])
  <2>1. s[j] \in V /\ s[i] \in V
    BY <1>3
  <2>2. <<s[j], s[i]>> \notin less
    BY <1>3, <1>5
  <2>3. QED
    BY <2>1, <2>2
<1>6. QED
  BY <1>3, <1>4, <1>5 DEF s, InLeafOrder

(* The leaves of a namespace, in order. *)
OfNamespace(s, ns) == \A i \in 1 .. Len(s) : s[i][1] = ns

(* They are those that matching_leaves gives. *)
LEMMA MatchingFacts ==
    ASSUME NEW leaves \in Seq(LeafPairs), NEW ns
    PROVE  /\ Matching(leaves, ns) \in Seq(LeafPairs)
           /\ OfNamespace(Matching(leaves, ns), ns) /\ InLeafOrder(Matching(leaves, ns))
<1> DEFINE s == Sorted(leaves)
           K == {i \in DOMAIN s : s[i][1] = ns}
           m == Matching(leaves, ns)
<1>1. m = Chosen(s, K)
  BY DEF Matching
<1>2. s \in Seq(LeafPairs) /\ InLeafOrder(s)
  BY SortedFacts
<1> HIDE DEF s, m
<1>3. m \in Seq(LeafPairs) /\ \E e : Places(e, m, s, K, Len(s))
  <2> HIDE DEF LeafPairs, K
  <2> QED BY <1>1, <1>2, ChosenPlaces
<1>4. PICK e : Places(e, m, s, K, Len(s))
  BY <1>3
<1>5. /\ \A i \in 1 .. Len(m) : e[i] \in K /\ e[i] \in 1 .. Len(s) /\ m[i] = s[e[i]]
      /\ \A i, j \in 1 .. Len(m) : i < j => e[i] < e[j]
  <2> HIDE DEF K
  <2> QED BY <1>4 DEF Places
<1>6. OfNamespace(m, ns)
  BY <1>5 DEF OfNamespace
<1>7. InLeafOrder(m)
  <2> HIDE DEF K
  <2> QED BY <1>2, <1>5 DEF InLeafOrder
<1>8. QED
  BY <1>3, <1>6, <1>7 DEF m

(* A part of such leaves is such leaves. *)
LEMMA PartMatches ==
    ASSUME NEW m \in Seq(LeafPairs), NEW ns, OfNamespace(m, ns), InLeafOrder(m),
           NEW i \in 1 .. Len(m), NEW j \in 0 .. Len(m)
    PROVE  /\ SubSeq(m, i, j) \in Seq(LeafPairs)
           /\ OfNamespace(SubSeq(m, i, j), ns) /\ InLeafOrder(SubSeq(m, i, j))
<1> DEFINE c == SubSeq(m, i, j)
<1>1. i \in Nat /\ j \in Nat /\ Len(m) \in Nat
  OBVIOUS
<1>2. c \in Seq(LeafPairs) /\ Len(c) \in Nat
  <2> HIDE DEF LeafPairs
  <2> QED BY <1>1
<1>3. ASSUME NEW k \in 1 .. Len(c) PROVE c[k] = m[i + k - 1] /\ i + k - 1 \in 1 .. Len(m)
  <2>1. Len(c) = IF i <= j THEN j - i + 1 ELSE 0
    <3> HIDE DEF LeafPairs
    <3> QED BY <1>1
  <2> HIDE DEF LeafPairs
  <2>2. i <= j /\ k \in 1 .. j - i + 1
    <3> HIDE DEF c
    <3> QED BY <1>1, <1>2, <2>1
  <2>3. i + k - 1 \in 1 .. Len(m)
    BY <1>1, <2>2
  <2>4. QED
    BY <1>1, <2>2, <2>3
<1> HIDE DEF c
<1>4. OfNamespace(c, ns)
  BY <1>3 DEF OfNamespace
<1>5. ASSUME NEW k \in 1 .. Len(c), NEW l \in 1 .. Len(c), k < l PROVE ~ LeafLess(c[l], c[k])
  <2>1. c[k] = m[i + k - 1] /\ i + k - 1 \in 1 .. Len(m) /\ c[l] = m[i + l - 1] /\ i + l - 1 \in 1 .. Len(m)
    BY <1>3
  <2>2. i + k - 1 < i + l - 1
    BY <1>1, <1>2, <1>5
  <2>3. QED
    BY <2>1, <2>2 DEF InLeafOrder
<1>6. QED
  BY <1>2, <1>4, <1>5 DEF c, InLeafOrder

(* A proof over such leaves passes verify at its own root. *)
LEMMA OrderedVerifies ==
    ASSUME NEW q, NEW root, q.root = root, q.leaves \in Seq(LeafPairs),
           OfNamespace(q.leaves, q.namespace), InLeafOrder(q.leaves)
    PROVE  verify(q, root)
<1> DEFINE c == q.leaves
<1>1. Len(c) \in Nat /\ DOMAIN c = 1 .. Len(c)
  OBVIOUS
<1>2. \A i \in DOMAIN c : c[i][1] = q.namespace
  BY <1>1 DEF OfNamespace
<1>3. ASSUME NEW i \in 2 .. Len(c) PROVE ~ LeafLess(c[i], c[i - 1])
  <2>1. i \in 1 .. Len(c) /\ i - 1 \in 1 .. Len(c) /\ i - 1 < i
    BY <1>1
  <2>2. QED
    BY <2>1 DEF InLeafOrder
<1>4. QED
  BY <1>2, <1>3 DEF verify

(* verify_full accepts the proof of the verifier's own leaves, and of no   *)
(* other and no fewer.                                                     *)
LEMMA CompleteFacts ==
    ASSUME NEW leaves \in Seq(LeafPairs), NEW Namespaces, NEW Others \in SUBSET Seq(LeafPairs)
    PROVE  ProofsComplete(leaves, Others, Namespaces)
<1> SUFFICES ASSUME NEW ns \in Namespaces, NEW other \in Others PROVE ProofComplete(leaves, other, ns)
  BY DEF ProofsComplete
<1> DEFINE m == Matching(leaves, ns)
           same == Sorted(leaves) = Sorted(other)
           p == prove(leaves, ns)
           q(c) == [namespace |-> ns, leaves |-> c, root |-> build(leaves), total_leaves |-> Len(leaves)]
<1>1. other \in Seq(LeafPairs)
  OBVIOUS
<1>2. /\ Sorted(leaves) \in Seq(LeafPairs) /\ Sorted(other) \in Seq(LeafPairs)
  BY <1>1, SortedFacts
<1>3. build(leaves) = build(other) <=> same
  BY <1>2, TreeInjective DEF build
<1>4. same => Matching(other, ns) = m
  BY DEF Matching
<1>5. m \in Seq(LeafPairs) /\ OfNamespace(m, ns) /\ InLeafOrder(m)
  BY MatchingFacts
<1>6. Matching(other, ns) \in Seq(LeafPairs)
  BY <1>1, MatchingFacts
<1>7. p = q(m)
  BY DEF prove
<1>8. \A c : [p EXCEPT !.leaves = c] = q(c)
  BY <1>7
<1> HIDE DEF m, p, same
<1>9. ASSUME NEW c \in Seq(LeafPairs), OfNamespace(c, ns), InLeafOrder(c)
      PROVE  /\ same => verify(q(c), build(other))
             /\ verify_full(other, q(c)) <=> (same /\ c = m)
  <2>1. q(c).root = build(leaves) /\ q(c).leaves = c /\ q(c).namespace = ns
    OBVIOUS
  <2> HIDE DEF q
  <2>2. ASSUME same PROVE verify(q(c), build(other))
    <3>1. q(c).root = build(other)
      BY <1>3, <2>1, <2>2
    <3>2. QED
      BY <1>9, <2>1, <3>1, OrderedVerifies
  <2>3. verify(q(c), build(other)) => same
    BY <1>3, <2>1 DEF verify
  <2>4. ASSUME verify_full(other, q(c)) PROVE same /\ c = m
    <3>1. same
      BY <2>3, <2>4 DEF verify_full
    <3>2. Len(m) = Len(c) /\ \A i \in DOMAIN m : m[i] = c[i]
      BY <1>4, <2>1, <2>4, <3>1 DEF verify_full
    <3>3. QED
      <4> HIDE DEF LeafPairs
      <4> QED BY <1>5, <1>9, <3>1, <3>2
  <2>5. ASSUME same, c = m PROVE verify_full(other, q(c))
    <3>1. Matching(other, q(c).namespace) = q(c).leaves
      BY <1>4, <2>1, <2>5
    <3>2. QED
      BY <2>2, <2>5, <3>1 DEF verify_full
  <2>6. QED
    BY <2>2, <2>4, <2>5
<1>10. verify_full(other, p) <=> same
  BY <1>5, <1>7, <1>9
<1>11. p.leaves = m
  BY <1>7
<1>12. ASSUME NEW i \in 1 .. Len(m), NEW j \in 0 .. Len(m)
       PROVE  /\ same => verify(q(SubSeq(m, i, j)), build(other))
              /\ verify_full(other, q(SubSeq(m, i, j))) <=> (same /\ SubSeq(m, i, j) = m)
  <2> HIDE DEF q
  <2> QED BY <1>5, <1>9, PartMatches
<1>13. ASSUME NEW cut \in Parts(m)
       PROVE  /\ same => verify(q(cut), build(other))
              /\ verify_full(other, q(cut)) <=> (same /\ cut = m)
  <2>1. PICK i \in 1 .. Len(m), j \in 0 .. Len(m) : cut = SubSeq(m, i, j)
    BY DEF Parts
  <2> HIDE DEF q
  <2>2. QED
    BY <1>12, <2>1
<1>14. ASSUME NEW cut \in Parts(p.leaves)
       PROVE  /\ same => verify([p EXCEPT !.leaves = cut], build(other))
              /\ verify_full(other, [p EXCEPT !.leaves = cut]) <=> (same /\ cut = p.leaves)
  <2>1. [p EXCEPT !.leaves = cut] = q(cut) /\ cut \in Parts(m)
    BY <1>8, <1>11
  <2> HIDE DEF q
  <2>2. QED
    BY <1>11, <1>13, <2>1
<1>15. QED
  BY <1>10, <1>14 DEF p, same, ProofComplete

(* The leaves of a tree are pairs. *)
LeavesOK == kind = "leaves" => input \in Seq(LeafPairs)

(* A tree starts without leaves. *)
LEMMA LeavesOKInit == Init => LeavesOK
  BY DEF Init, LeavesOK

(* Only AddLeaf adds any. *)
LEMMA OnlyAddLeaf ==
    ASSUME Next, kind' = "leaves"
    PROVE  kind = "leaves" /\ \E l \in Leaves : AddLeaf(l)
  BY DEF Next, AddWeight, AddClaim, AddValue, AddLeaf, AddAnswer, AddShard, AddItem, AddFrame,
         AddMessage, AddContent, AddFocus, FoldsBlock, Follows, JoinsMesh, Subscribes, TakesSome,
         Publishes, Exports, Joins, Applies, Audits, Issues, TakesPlace, TipStep,
         MeshStep, Absorbs, Folds, FoldStep, Grows

(* The leaves of the inputs are pairs. *)
LEMMA LeavesArePairs == Leaves \subseteq LeafPairs
  BY DEF Leaves, LeafPairs

(* Every step keeps them pairs. *)
LEMMA LeavesOKStep ==
    ASSUME LeavesOK, [Next]_vars
    PROVE  LeavesOK'
<1>1. CASE UNCHANGED vars
  BY <1>1 DEF vars, LeavesOK
<1>2. CASE Next
  <2> SUFFICES ASSUME kind' = "leaves" PROVE input' \in Seq(LeafPairs)
    BY DEF LeavesOK
  <2>1. PICK l \in Leaves : AddLeaf(l)
    BY <1>2, OnlyAddLeaf
  <2>2. l \in LeafPairs /\ input \in Seq(LeafPairs)
    BY <1>2, OnlyAddLeaf, LeavesArePairs DEF LeavesOK
  <2>3. QED
    BY <2>1, <2>2 DEF AddLeaf
<1>3. QED
  BY <1>1, <1>2

(* And over such leaves proofs are complete. *)
LEMMA LeavesComplete == LeavesOK => NamespaceComplete
<1> DEFINE Others == UNION {[1 .. n -> Leaves] : n \in 0 .. MaxLen}
<1> SUFFICES ASSUME LeavesOK, kind = "leaves"
             PROVE  ProofsComplete(input, Others, 1 .. 3)
  BY DEF NamespaceComplete
<1>1. input \in Seq(LeafPairs)
  BY DEF LeavesOK
<1>2. Others \in SUBSET Seq(LeafPairs)
  <2>1. ASSUME NEW n \in 0 .. MaxLen, NEW s \in [1 .. n -> Leaves] PROVE s \in Seq(LeafPairs)
    <3>1. n \in Nat
      BY AlgorithmsAssumption
    <3>2. s \in [1 .. n -> LeafPairs]
      BY LeavesArePairs
    <3>3. QED
      BY <3>1, <3>2
  <2>2. QED
    BY <2>1
<1> HIDE DEF Others
<1>3. QED
  BY <1>1, <1>2, CompleteFacts

(* verify_full accepts a completeness proof exactly if it was made from    *)
(* the verifier's leaves, in whatever order, and omits none, while verify  *)
(* alone accepts one that does (build, prove, verify, verify_full): for    *)
(* trees over any number of leaves.                                        *)
THEOREM NamespaceCompleteHolds == Spec => []NamespaceComplete
<1>1. Init => LeavesOK
  BY LeavesOKInit
<1>2. LeavesOK /\ [Next]_vars => LeavesOK'
  BY LeavesOKStep
<1>3. LeavesOK => NamespaceComplete
  BY LeavesComplete
<1>4. QED
  BY <1>1, <1>2, <1>3, PTL DEF Spec

(***************************************************************************)
(* The codecs.                                                             *)
(***************************************************************************)

(* A list of options. *)
Optional(x) == x = <<>> \/ \E v : x = <<v>>

(* An option that is there. *)
LEMMA SomeValue ==
    ASSUME NEW x, Optional(x), x # <<>>
    PROVE  x = <<x[1]>>
<1>1. PICK v : x = <<v>>
  BY DEF Optional
<1>2. x[1] = v
  BY <1>1
<1>3. QED
  BY <1>1, <1>2

(* A list of one is not empty. *)
LEMMA SingleNotEmpty == ASSUME NEW v PROVE <<v>> # <<>>
<1>1. Len(<<v>>) = 1 /\ Len(<<>>) = 0
  OBVIOUS
<1>2. 1 # 0
  OBVIOUS
<1>3. QED
  BY <1>1, <1>2, Zenon

(* The decoders give options. *)
LEMMA FrameFacts ==
    ASSUME NEW ty, NEW x
    PROVE  /\ x = <<>> => CyberFrame(ty, x) = <<>>
           /\ \A v : x = <<v>> => CyberFrame(ty, x) = <<[type |-> ty, body |-> v]>>
<1>1. ASSUME x = <<>> PROVE CyberFrame(ty, x) = <<>>
  BY <1>1 DEF CyberFrame
<1>2. ASSUME NEW v, x = <<v>> PROVE CyberFrame(ty, x) = <<[type |-> ty, body |-> v]>>
  <2>1. DOMAIN x = 1 .. 1 /\ x[1] = v
    BY <1>2
  <2>2. CyberFrame(ty, x) = [i \in 1 .. 1 |-> [type |-> ty, body |-> v]]
    BY <2>1 DEF CyberFrame
  <2>3. QED
    BY <2>2
<1>3. QED
  BY <1>1, <1>2

(* The decoders give one value or none. *)
LEMMA DecodersOptional ==
    ASSUME NEW buf
    PROVE  Optional(deserialize_signal(buf)) /\ Optional(deserialize_intent(buf))
<1>1. Optional(deserialize_signal(buf))
  <2> DEFINE l == Section(buf, 2)
             m == Trailing(buf, l.next)
             d == Trailing(buf, m.next)
             ok == /\ Has(buf, 1) /\ l.ok /\ m.ok /\ d.ok
                   /\ \A i \in DOMAIN m.items : m.items[i].tag \in {0, 1}
             v == [head |-> buf[1].token, network |-> Self, links |-> l.items,
                   box_moves |-> m.items, delta_pi |-> d.items, proof |-> Nothing]
  <2>1. deserialize_signal(buf) = IF ok THEN <<v>> ELSE <<>>
    BY DEF deserialize_signal, Nothing
  <2> HIDE DEF ok, v
  <2>2. QED
    BY <2>1 DEF Optional
<1>2. Optional(deserialize_intent(buf))
  BY DEF deserialize_intent, Optional, Nothing
<1>3. QED
  BY <1>1, <1>2

(* What a frame decodes to. *)
LEMMA EventFacts ==
    ASSUME NEW f
    PROVE  /\ Optional(DecodeEvent(f))
           /\ f.sigil = "ZAP" => DecodeEvent(f) = CyberFrame("Signal", deserialize_signal(f.payload))
           /\ f.sigil = "KET" => DecodeEvent(f) = CyberFrame("Intent", deserialize_intent(f.payload))
           /\ f.sigil \notin {"ZAP", "KET"} => DecodeEvent(f) = <<>>
<1>1. /\ f.sigil = "ZAP" => DecodeEvent(f) = CyberFrame("Signal", deserialize_signal(f.payload))
      /\ f.sigil = "KET" => DecodeEvent(f) = CyberFrame("Intent", deserialize_intent(f.payload))
      /\ f.sigil \notin {"ZAP", "KET"} => DecodeEvent(f) = <<>>
  BY DEF DecodeEvent, Nothing
<1>2. ASSUME NEW ty, NEW x, Optional(x) PROVE Optional(CyberFrame(ty, x))
  BY <1>2, FrameFacts DEF Optional
<1>3. QED
  BY <1>1, <1>2, DecodersOptional DEF Optional

(* A frame as a log holds it: not cut, and an intent with its payload. *)
LogFrame(f) == f # Cut /\ (f.sigil = "KET" => Has(f.payload, 1))

(* The frames before a tear. *)
LEMMA WholeOfTorn ==
    ASSUME NEW F, NEW s \in Seq(F), \A f \in F : f # Cut, NEW torn \in {<<>>, <<Cut>>}
    PROVE  Whole(s \o torn) = s
<1> DEFINE G == F \cup {Cut}
           t == s \o torn
           n == Len(s)
           K == {i \in DOMAIN t : t[i] # Cut}
<1>1. s \in Seq(G) /\ torn \in Seq(G) /\ n \in Nat /\ Len(torn) \in {0, 1}
      /\ \A i \in 1 .. Len(torn) : torn[i] = Cut
  <2>1. s \in Seq(G) /\ n \in Nat
    OBVIOUS
  <2>2. CASE torn = <<>>
    BY <2>1, <2>2
  <2>3. CASE torn = <<Cut>>
    <3>1. Len(torn) = 1 /\ torn[1] = Cut /\ torn \in Seq(G)
      BY <2>3
    <3>2. QED
      BY <2>1, <3>1
  <2>4. QED
    BY <2>2, <2>3
<1> HIDE DEF G
<1>2. /\ t \in Seq(G) /\ Len(t) = n + Len(torn) /\ DOMAIN t = 1 .. Len(t)
      /\ \A i \in 1 .. n : t[i] = s[i]
      /\ \A i \in n + 1 .. Len(t) : t[i] = torn[i - n]
  BY <1>1
<1>3. K \cap (1 .. Len(t)) = 1 .. n /\ n \in 0 .. Len(t)
  <2>1. ASSUME NEW i \in 1 .. n PROVE i \in K
    <3>1. s[i] \in F
      OBVIOUS
    <3>2. QED
      BY <1>1, <1>2, <3>1
  <2>2. ASSUME NEW i \in K PROVE i \in 1 .. n
    <3>1. i \in 1 .. Len(t) /\ t[i] # Cut
      BY <1>2
    <3> HIDE DEF t
    <3>2. i \notin n + 1 .. Len(t)
      <4>1. i \in n + 1 .. Len(t) => i - n \in 1 .. Len(torn)
        BY <1>1, <1>2
      <4>2. QED
        BY <1>1, <1>2, <3>1, <4>1
    <3>3. QED
      BY <1>1, <1>2, <3>1, <3>2
  <2>3. n \in 0 .. Len(t) /\ \A i \in 1 .. n : i \in 1 .. Len(t)
    BY <1>1, <1>2
  <2> HIDE DEF K, t, n
  <2>4. QED
    BY <2>1, <2>2, <2>3
<1> HIDE DEF K
<1>4. Chosen(t, K) = SubSeq(t, 1, n)
  <2> HIDE DEF t, n
  <2> QED BY <1>2, <1>3, ChosenFirst
<1>5. SubSeq(t, 1, n) = s
  <2>1. SubSeq(t, 1, n) \in Seq(G) /\ Len(SubSeq(t, 1, n)) = n /\ \A i \in 1 .. n : SubSeq(t, 1, n)[i] = t[i]
    <3> HIDE DEF t, n
    <3> QED BY <1>1, <1>2, <1>3
  <2> HIDE DEF t
  <2>2. QED
    BY <1>1, <1>2, <2>1
<1>6. QED
  BY <1>4, <1>5 DEF Whole, K
(* What is there of a list of options, and at which places it was. *)
LEMMA PresentPlaces ==
    ASSUME NEW n \in Nat, NEW x, DOMAIN x = 1 .. n, x = [i \in 1 .. n |-> x[i]],
           \A i \in 1 .. n : Optional(x[i]),
           NEW K, K = {i \in 1 .. n : x[i] # <<>>}
    PROVE  \E e : /\ Places(e, Present(x), [i \in 1 .. n |-> x[i][1]], K, n)
                  /\ \A i \in 1 .. Len(Present(x)) : x[e[i]] = <<Present(x)[i]>>
                  /\ Present(x) \in Seq({x[i][1] : i \in 1 .. n})
<1> DEFINE X == {x[i] : i \in 1 .. n}
           some == Chosen(x, K)
           p == Present(x)
           z == [i \in 1 .. n |-> x[i][1]]
           Z == {x[i][1] : i \in 1 .. n}
<1>1. x \in Seq(X) /\ Len(x) = n
  OBVIOUS
<1>2. p = [i \in DOMAIN some |-> some[i][1]]
  BY DEF Present, Nothing
<1>3. some \in Seq(X) /\ \E e : Places(e, some, x, K, n)
  <2> HIDE DEF X
  <2> QED BY <1>1, ChosenPlaces
<1>4. PICK e : Places(e, some, x, K, n)
  BY <1>3
<1> HIDE DEF some, p, X
<1>5. Len(some) \in Nat /\ DOMAIN some = 1 .. Len(some)
  BY <1>3
<1>6. DOMAIN p = 1 .. Len(some) /\ \A i \in 1 .. Len(some) : p[i] = some[i][1]
  BY <1>2, <1>5
<1>7. /\ \A i \in 1 .. Len(some) : e[i] \in K /\ e[i] \in 1 .. n /\ some[i] = x[e[i]]
  BY <1>4 DEF Places
<1>8. p \in Seq(Z) /\ Len(p) = Len(some)
  <2>1. ASSUME NEW i \in 1 .. Len(some) PROVE p[i] \in Z
    <3>1. e[i] \in 1 .. n /\ p[i] = x[e[i]][1]
      BY <1>6, <1>7
    <3>2. QED
      BY <3>1
  <2>2. p = [i \in 1 .. Len(some) |-> p[i]]
    BY <1>2, <1>5, <1>6
  <2> HIDE DEF Z
  <2>3. QED
    BY <1>5, <2>1, <2>2
<1>9. \A i \in 1 .. Len(p) : x[e[i]] = <<p[i]>>
  <2>1. ASSUME NEW i \in 1 .. Len(some) PROVE x[e[i]] = <<p[i]>>
    <3>1. e[i] \in 1 .. n /\ x[e[i]] # <<>> /\ p[i] = x[e[i]][1]
      BY <1>6, <1>7
    <3>2. QED
      BY <3>1, SomeValue
  <2>2. QED
    BY <1>8, <2>1
<1>10. Places(e, p, z, K, n)
  <2>1. \A i \in 1 .. Len(p) : p[i] = z[e[i]]
    BY <1>6, <1>7, <1>8
  <2> HIDE DEF z
  <2>2. QED
    BY <1>4, <1>8, <2>1 DEF Places
<1>11. QED
  BY <1>8, <1>9, <1>10 DEF p

(* Replaying a log. *)
LEMMA ReplayFacts ==
    ASSUME NEW F, \A f \in F : LogFrame(f), NEW log \in Seq(F)
    PROVE  LogReplays(log)
<1> SUFFICES ASSUME NEW k \in 0 .. Len(log), NEW torn \in {<<>>, <<Cut>>}
             PROVE  LET whole == SubSeq(log, 1, k)
                        events == decode_events(whole \o torn)
                        good == Chosen(whole, {i \in DOMAIN whole : DecodeEvent(whole[i]) # Nothing})
                        signals == Chosen(events, {i \in DOMAIN events : events[i].type = "Signal"})
                    IN  /\ \A i \in DOMAIN whole : whole[i].sigil = "KET" =>
                              [type |-> "Intent", body |-> whole[i].payload[1].token] \in ToSet(events)
                        /\ Len(events) = Len(good)
                        /\ \A i \in DOMAIN good : DecodeEvent(good[i]) = <<events[i]>>
                        /\ decode_signals(whole \o torn) = [i \in DOMAIN signals |-> signals[i].body]
  BY DEF LogReplays
<1> DEFINE whole == SubSeq(log, 1, k)
           n == Len(whole)
           x == [i \in DOMAIN whole |-> DecodeEvent(whole[i])]
           y == [i \in DOMAIN whole |->
                   IF whole[i].sigil = "ZAP" THEN deserialize_signal(whole[i].payload) ELSE Nothing]
           z == [i \in 1 .. n |-> x[i][1]]
           K == {i \in 1 .. n : x[i] # <<>>}
           J == {i \in 1 .. n : y[i] # <<>>}
           events == decode_events(whole \o torn)
           good == Chosen(whole, {i \in DOMAIN whole : DecodeEvent(whole[i]) # Nothing})
           L == {i \in DOMAIN events : events[i].type = "Signal"}
           signals == Chosen(events, L)
           decoded == decode_signals(whole \o torn)
<1>1. whole \in Seq(F) /\ n \in Nat /\ DOMAIN whole = 1 .. n /\ \A i \in 1 .. n : whole[i] \in F
  <2>1. k \in Nat /\ Len(log) \in Nat
    OBVIOUS
  <2>2. whole \in Seq(F)
    BY <2>1
  <2> HIDE DEF whole
  <2>3. QED
    BY <2>2
<1>2. Whole(whole \o torn) = whole
  <2> HIDE DEF whole
  <2> QED BY <1>1, WholeOfTorn DEF LogFrame
<1>3. events = Present(x) /\ decoded = Present(y)
  BY <1>2 DEF decode_events, decode_signals
<1>4. good = Chosen(whole, K)
  BY <1>1 DEF Nothing
<1> HIDE DEF events, decoded, whole, good
<1>x. DOMAIN x = 1 .. n /\ x = [i \in 1 .. n |-> x[i]] /\ \A i \in 1 .. n : x[i] = DecodeEvent(whole[i])
  BY <1>1
<1>y. DOMAIN y = 1 .. n /\ y = [i \in 1 .. n |-> y[i]]
      /\ \A i \in 1 .. n : y[i] = IF whole[i].sigil = "ZAP" THEN deserialize_signal(whole[i].payload) ELSE <<>>
  BY <1>1 DEF Nothing
<1> HIDE DEF x, y, n
<1>5. ASSUME NEW i \in 1 .. n PROVE Optional(x[i]) /\ Optional(y[i])
  BY <1>x, <1>y, EventFacts, DecodersOptional DEF Optional
<1>6. PICK e : /\ Places(e, events, z, K, n) /\ events \in Seq({x[i][1] : i \in 1 .. n})
               /\ \A i \in 1 .. Len(events) : x[e[i]] = <<events[i]>>
  <2>1. \E e : /\ Places(e, Present(x), [i \in 1 .. n |-> x[i][1]], K, n)
               /\ \A i \in 1 .. Len(Present(x)) : x[e[i]] = <<Present(x)[i]>>
               /\ Present(x) \in Seq({x[i][1] : i \in 1 .. n})
    BY <1>1, <1>x, <1>5, PresentPlaces
  <2>2. QED
    BY <1>3, <2>1
<1>7. PICK d : /\ Places(d, decoded, [i \in 1 .. n |-> y[i][1]], J, n)
               /\ decoded \in Seq({y[i][1] : i \in 1 .. n})
               /\ \A i \in 1 .. Len(decoded) : y[d[i]] = <<decoded[i]>>
  <2>1. \E d : /\ Places(d, Present(y), [i \in 1 .. n |-> y[i][1]], J, n)
               /\ \A i \in 1 .. Len(Present(y)) : y[d[i]] = <<Present(y)[i]>>
               /\ Present(y) \in Seq({y[i][1] : i \in 1 .. n})
    BY <1>1, <1>y, <1>5, PresentPlaces
  <2>2. QED
    BY <1>3, <2>1
<1> DEFINE Z == {x[i][1] : i \in 1 .. n}
<1>ev. events \in Seq(Z) /\ Len(events) \in Nat /\ DOMAIN events = 1 .. Len(events)
  BY <1>6
<1>8. ASSUME NEW i \in DOMAIN whole, whole[i].sigil = "KET"
      PROVE  [type |-> "Intent", body |-> whole[i].payload[1].token] \in ToSet(events)
  <2> DEFINE v == whole[i].payload[1].token
             ev == [type |-> "Intent", body |-> v]
  <2>1. i \in 1 .. n /\ whole[i] \in F
    BY <1>1, <1>8
  <2>2. Has(whole[i].payload, 1)
    BY <1>8, <2>1 DEF LogFrame
  <2>3. deserialize_intent(whole[i].payload) = <<v>>
    BY <2>2 DEF deserialize_intent
  <2>4. x[i] = <<ev>>
    <3>1. x[i] = CyberFrame("Intent", deserialize_intent(whole[i].payload))
      BY <1>8, <1>x, <2>1, EventFacts
    <3>2. QED
      BY <2>3, <3>1, FrameFacts
  <2> HIDE DEF ev, v
  <2>5. i \in K
    BY <2>1, <2>4, SingleNotEmpty
  <2>6. PICK j \in 1 .. Len(events) : e[j] = i
    BY <1>6, <2>1, <2>5 DEF Places
  <2>7. <<events[j]>> = <<ev>>
    BY <1>6, <2>4, <2>6
  <2>8. events[j] = ev
    BY <2>7
  <2>9. QED
    BY <1>ev, <2>6, <2>8 DEF ToSet, ev, v
<1>9. good \in Seq(F) /\ \E g : Places(g, good, whole, K, n)
  <2> HIDE DEF K
  <2> QED BY <1>1, <1>4, ChosenPlaces DEF n
<1>10. PICK g : Places(g, good, whole, K, n)
  BY <1>9
<1>11. Len(events) = Len(good) /\ \A i \in 1 .. Len(events) : e[i] = g[i]
  <2>1. Len(good) \in Nat
    BY <1>9
  <2> HIDE DEF K, z
  <2>2. QED
    BY <1>1, <1>6, <1>10, <1>ev, <2>1, PlacesSame
<1>12. ASSUME NEW i \in DOMAIN good PROVE DecodeEvent(good[i]) = <<events[i]>>
  <2>1. i \in 1 .. Len(good) /\ i \in 1 .. Len(events)
    BY <1>9, <1>11
  <2>2. good[i] = whole[g[i]] /\ g[i] \in 1 .. n
    BY <1>10, <2>1 DEF Places
  <2>3. x[g[i]] = <<events[i]>>
    BY <1>6, <1>11, <2>1
  <2>4. QED
    BY <1>x, <2>2, <2>3
<1>13. z \in Seq(Z) /\ Len(z) = n
  <2>1. z = [i \in 1 .. n |-> z[i]] /\ \A i \in 1 .. n : z[i] \in Z
    OBVIOUS
  <2> HIDE DEF z, Z
  <2>2. QED
    BY <1>1, <2>1
<1> HIDE DEF Z
<1>14. events = Chosen(z, K)
  <2> HIDE DEF z, K
  <2> QED BY <1>6, <1>13, <1>ev, ChosenIs
<1> DEFINE H == {e[i] : i \in L \cap (1 .. Len(events))}
<1>15. signals = Chosen(z, H)
  <2> HIDE DEF z, K, L
  <2> QED BY <1>6, <1>13, <1>14, ChosenTwice
<1>16. ASSUME NEW i \in 1 .. n
       PROVE  i \in J <=> x[i] # <<>> /\ x[i][1].type = "Signal"
  <2>0. /\ whole[i].sigil = "ZAP" => x[i] = CyberFrame("Signal", y[i])
        /\ whole[i].sigil = "KET" => x[i] = CyberFrame("Intent", deserialize_intent(whole[i].payload))
        /\ whole[i].sigil \notin {"ZAP", "KET"} => x[i] = <<>>
        /\ whole[i].sigil # "ZAP" => y[i] = <<>>
    BY <1>x, <1>y, EventFacts
  <2>1. CASE whole[i].sigil = "ZAP"
    <3>1. CASE y[i] = <<>>
      BY <2>0, <2>1, <3>1, FrameFacts
    <3>2. CASE y[i] # <<>>
      <4>1. y[i] = <<y[i][1]>>
        BY <1>5, <3>2, SomeValue
      <4>2. x[i] = <<[type |-> "Signal", body |-> y[i][1]]>>
        <5>1. PICK v : y[i] = <<v>>
          BY <4>1
        <5>2. x[i] = <<[type |-> "Signal", body |-> v]>>
          BY <2>0, <2>1, <5>1, FrameFacts
        <5>3. y[i][1] = v
          BY <5>1
        <5>4. QED
          BY <5>2, <5>3
      <4>3. x[i] # <<>> /\ x[i][1] = [type |-> "Signal", body |-> y[i][1]]
        BY <4>2, SingleNotEmpty
      <4>4. QED
        BY <3>2, <4>3
    <3>3. QED
      BY <3>1, <3>2
  <2>2. CASE whole[i].sigil = "KET"
    <3>1. y[i] = <<>>
      BY <2>0, <2>2
    <3>2. ASSUME x[i] # <<>> PROVE x[i][1].type # "Signal"
      <4>1. deserialize_intent(whole[i].payload) # <<>>
        BY <2>0, <2>2, <3>2, FrameFacts
      <4>2. PICK v : deserialize_intent(whole[i].payload) = <<v>>
        BY <4>1, DecodersOptional DEF Optional
      <4>3. x[i] = <<[type |-> "Intent", body |-> v]>>
        BY <2>0, <2>2, <4>2, FrameFacts
      <4>4. x[i][1].type = "Intent"
        BY <4>3
      <4>5. QED
        BY <4>4
    <3>3. QED
      BY <3>1, <3>2
  <2>3. CASE whole[i].sigil \notin {"ZAP", "KET"}
    BY <2>0, <2>3
  <2>4. QED
    BY <2>1, <2>2, <2>3
<1>17. H = J
  <2>1. ASSUME NEW i \in L \cap (1 .. Len(events)) PROVE e[i] \in J
    <3>1. e[i] \in 1 .. n /\ x[e[i]] = <<events[i]>>
      BY <1>6 DEF Places
    <3>2. x[e[i]] # <<>> /\ x[e[i]][1] = events[i]
      BY <3>1, SingleNotEmpty
    <3> HIDE DEF J
    <3>3. QED
      BY <1>16, <3>1, <3>2
  <2>2. ASSUME NEW j \in J PROVE j \in H
    <3>1. j \in 1 .. n /\ x[j] # <<>> /\ x[j][1].type = "Signal"
      BY <1>16
    <3>2. PICK i \in 1 .. Len(events) : e[i] = j
      BY <1>6, <3>1 DEF Places
    <3>3. x[j] = <<events[i]>>
      BY <1>6, <3>2
    <3>4. events[i].type = "Signal"
      BY <3>1, <3>3
    <3>5. i \in L
      BY <1>ev, <3>4
    <3>6. QED
      BY <3>2, <3>5
  <2> HIDE DEF J
  <2>3. QED
    BY <2>1, <2>2
<1>18. signals \in Seq(Z) /\ \E h : Places(h, signals, z, J, n)
  <2> HIDE DEF z, J, signals, H
  <2> QED BY <1>13, <1>15, <1>17, ChosenPlaces
<1>19. PICK h : Places(h, signals, z, J, n)
  BY <1>18
<1> HIDE DEF signals
<1>20. Len(signals) = Len(decoded) /\ \A i \in 1 .. Len(signals) : h[i] = d[i]
  <2>1. Len(signals) \in Nat /\ Len(decoded) \in Nat
    BY <1>7, <1>18
  <2> HIDE DEF J, z
  <2>2. QED
    BY <1>1, <1>7, <1>19, <2>1, PlacesSame
<1>21. ASSUME NEW i \in 1 .. Len(signals) PROVE decoded[i] = signals[i].body
  <2>1. i \in 1 .. Len(decoded) /\ h[i] \in J /\ h[i] \in 1 .. n /\ signals[i] = z[h[i]] /\ h[i] = d[i]
    BY <1>19, <1>20 DEF Places
  <2>2. y[h[i]] = <<decoded[i]>>
    BY <1>7, <2>1
  <2>3. signals[i] = x[h[i]][1]
    BY <2>1
  <2>4. whole[h[i]].sigil = "ZAP" /\ x[h[i]] = CyberFrame("Signal", y[h[i]])
    <3>1. y[h[i]] # <<>>
      BY <2>1
    <3>2. QED
      BY <1>x, <1>y, <2>1, <3>1, EventFacts
  <2>5. x[h[i]] = <<[type |-> "Signal", body |-> decoded[i]]>>
    BY <2>2, <2>4, FrameFacts
  <2>6. QED
    BY <2>3, <2>5
<1>22. decoded = [i \in DOMAIN signals |-> signals[i].body]
  <2>1. DOMAIN signals = 1 .. Len(signals) /\ decoded = [i \in 1 .. Len(decoded) |-> decoded[i]]
    BY <1>7, <1>18
  <2>2. QED
    BY <1>20, <1>21, <2>1
<1>23. QED
  BY <1>8, <1>11, <1>12, <1>22 DEF events, decoded, whole, good, signals, L

(* c is what a cut leaves of buf: w whole tokens, and perhaps bytes of one *)
(* more.                                                                   *)
Reads(c, buf, w) ==
    /\ w \in Nat /\ Len(c) \in {w, w + 1}
    /\ \A p \in 1 .. Len(c) : c[p] # Cut <=> p <= w
    /\ \A p \in 1 .. w : c[p] = buf[p]

(* The items stand as a section at p of buf. *)
SectionAt(buf, p, items) ==
    /\ buf[p] = Token(Len(items))
    /\ \A i \in 1 .. Len(items) : buf[p + i] = Token(items[i])

(* A token is not the rest of one that was cut. *)
LEMMA TokenFacts ==
    ASSUME NEW x
    PROVE  Token(x) # Cut /\ Token(x).token = x
BY DEF Token, Cut

(* Exactly the whole tokens of a cut buffer can be read. *)
LEMMA HasFacts ==
    ASSUME NEW c, NEW buf, NEW w, Reads(c, buf, w), NEW p \in Nat \ {0}
    PROVE  Has(c, p) <=> p <= w
<1>1. w \in Nat /\ Len(c) \in {w, w + 1} /\ \A q \in 1 .. Len(c) : c[q] # Cut <=> q <= w
  BY DEF Reads
<1>2. CASE p <= Len(c)
  BY <1>1, <1>2 DEF Has
<1>3. CASE ~ (p <= Len(c))
  BY <1>1, <1>3 DEF Has
<1>4. QED
  BY <1>2, <1>3

(* A section is read whole or not at all. *)
LEMMA SectionFacts ==
    ASSUME NEW c, NEW buf, NEW w, Reads(c, buf, w), NEW p \in Nat \ {0},
           NEW M, NEW items \in Seq(M), SectionAt(buf, p, items)
    PROVE  /\ w >= p + Len(items) =>
                 Section(c, p) = [ok |-> TRUE, items |-> items, next |-> p + Len(items) + 1]
           /\ w < p + Len(items) => Section(c, p).ok = FALSE
<1> DEFINE n == Len(items)
           ok == \A i \in 1 .. n : Has(c, p + i)
<1>1. n \in Nat /\ w \in Nat
  BY DEF Reads
<1>2. CASE w < p
  <2>1. ~ Has(c, p)
    BY <1>1, <1>2, HasFacts
  <2>2. Section(c, p).ok = FALSE
    BY <2>1 DEF Section
  <2>3. ~ (w >= p + n)
    BY <1>1, <1>2
  <2>4. QED
    BY <2>2, <2>3
<1>3. CASE w >= p
  <2>1. Has(c, p)
    BY <1>1, <1>3, HasFacts
  <2>2. c[p] = buf[p] /\ c[p].token = n
    <3>1. p \in 1 .. w
      BY <1>1, <1>3
    <3>2. QED
      BY <3>1, TokenFacts DEF Reads, SectionAt
  <2>3. Section(c, p) = [ok |-> ok, items |-> IF ok THEN [i \in 1 .. n |-> c[p + i].token] ELSE <<>>,
                         next |-> p + n + 1]
    BY <2>1, <2>2 DEF Section
  <2>4. ASSUME w >= p + n PROVE ok
    <3>1. ASSUME NEW i \in 1 .. n PROVE Has(c, p + i)
      <4>1. p + i \in Nat \ {0} /\ p + i <= w
        BY <1>1, <2>4
      <4>2. QED
        BY <4>1, HasFacts
    <3>2. QED
      BY <3>1
  <2>5. ASSUME w < p + n PROVE ~ ok
    <3>1. n \in 1 .. n /\ p + n \in Nat \ {0} /\ ~ (p + n <= w)
      BY <1>1, <1>3, <2>5
    <3>2. ~ Has(c, p + n)
      BY <3>1, HasFacts
    <3>3. QED
      BY <3>1, <3>2
  <2>6. ASSUME w >= p + n PROVE [i \in 1 .. n |-> c[p + i].token] = items
    <3>1. ASSUME NEW i \in 1 .. n PROVE c[p + i].token = items[i]
      <4>1. p + i \in 1 .. w
        BY <1>1, <2>6
      <4>2. c[p + i] = Token(items[i])
        BY <4>1 DEF Reads, SectionAt
      <4>3. QED
        BY <4>2, TokenFacts
    <3>2. items = [i \in 1 .. n |-> items[i]]
      OBVIOUS
    <3>3. QED
      BY <3>1, <3>2
  <2> HIDE DEF ok
  <2>7. ok \in BOOLEAN
    BY DEF ok
  <2>8. CASE w >= p + n
    <3>1. ok = TRUE
      BY <2>4, <2>7, <2>8
    <3>2. Section(c, p) = [ok |-> TRUE, items |-> items, next |-> p + n + 1]
      BY <2>3, <2>6, <2>8, <3>1
    <3>3. QED
      BY <1>1, <2>8, <3>2
  <2>9. CASE w < p + n
    <3>1. ok = FALSE
      BY <2>5, <2>7, <2>9
    <3>2. Section(c, p).ok = FALSE
      BY <2>3, <3>1
    <3>3. QED
      BY <1>1, <2>9, <3>2
  <2>10. QED
    BY <1>1, <2>8, <2>9
<1>4. w < p \/ w >= p
  BY <1>1
<1>5. QED
  BY <1>2, <1>3, <1>4, Zenon

(* What a cut leaves. *)
LEMMA CutsFacts ==
    ASSUME NEW T, Cut \notin T, NEW buf \in Seq(T), NEW c \in Cuts(buf)
    PROVE  \E w \in 0 .. Len(buf) - 1 : Reads(c, buf, w)
<1> DEFINE front == {SubSeq(buf, 1, i) : i \in 0 .. Len(buf) - 1}
<1>1. c \in front \/ \E b \in front : c = Append(b, Cut)
  BY DEF Cuts
<1>2. PICK b \in front : c = b \/ c = Append(b, Cut)
  BY <1>1
<1>3. PICK w \in 0 .. Len(buf) - 1 : b = SubSeq(buf, 1, w)
  OBVIOUS
<1>4. w \in Nat /\ Len(buf) \in Nat /\ w < Len(buf)
  BY <1>3
<1>5. b \in Seq(T) /\ Len(b) = w /\ \A p \in 1 .. w : b[p] = buf[p] /\ buf[p] \in T
  BY <1>3, <1>4
<1> HIDE DEF front
<1>6. CASE c = b
  <2>1. Len(c) = w /\ \A p \in 1 .. w : c[p] = buf[p] /\ c[p] # Cut
    BY <1>5, <1>6
  <2>2. \A p \in 1 .. Len(c) : p \in 1 .. w /\ p <= w
    BY <1>4, <2>1
  <2>3. \A p \in 1 .. Len(c) : c[p] # Cut <=> p <= w
    BY <2>1, <2>2
  <2>4. Reads(c, buf, w)
    BY <1>4, <2>1, <2>3 DEF Reads
  <2>5. QED
    BY <2>4, Zenon
<1>7. CASE c = Append(b, Cut)
  <2>1. Len(c) = w + 1 /\ c[w + 1] = Cut /\ \A p \in 1 .. w : c[p] = b[p]
    BY <1>4, <1>5, <1>7
  <2>2. \A p \in 1 .. Len(c) : p \in 1 .. w \/ p = w + 1
    BY <1>4, <2>1
  <2>3. \A p \in 1 .. Len(c) : c[p] # Cut <=> p <= w
    BY <1>4, <1>5, <2>1, <2>2
  <2>4. QED
    BY <1>4, <1>5, <2>1, <2>3 DEF Reads
<1>8. QED
  BY <1>2, <1>6, <1>7

(* A buffer that was not cut has all its tokens. *)
LEMMA ReadsAll ==
    ASSUME NEW T, Cut \notin T, NEW buf \in Seq(T)
    PROVE  Reads(buf, buf, Len(buf))
BY DEF Reads

(* A section as it is written. *)
LEMMA CountedFacts ==
    ASSUME NEW M, NEW items \in Seq(M), NEW T, Token(Len(items)) \in T, \A x \in M : Token(x) \in T
    PROVE  /\ Counted(items) \in Seq(T) /\ Len(Counted(items)) = Len(items) + 1
           /\ SectionAt(Counted(items), 1, items)
<1> DEFINE n == Len(items)
           h == <<Token(n)>>
           t == [i \in 1 .. n |-> Token(items[i])]
<1>1. n \in Nat /\ DOMAIN items = 1 .. n /\ \A i \in 1 .. n : items[i] \in M
  OBVIOUS
<1>2. Counted(items) = h \o t
  BY <1>1 DEF Counted
<1>3. h \in Seq(T) /\ Len(h) = 1 /\ h[1] = Token(n)
  OBVIOUS
<1>4. t \in Seq(T) /\ Len(t) = n /\ \A i \in 1 .. n : t[i] = Token(items[i])
  BY <1>1
<1> HIDE DEF h, t
<1>5. /\ h \o t \in Seq(T) /\ Len(h \o t) = n + 1 /\ (h \o t)[1] = h[1]
      /\ \A i \in 1 .. n : (h \o t)[1 + i] = t[i]
  <2>1. h \o t \in Seq(T) /\ Len(h \o t) = Len(h) + Len(t) /\ \A i \in 1 .. Len(h) : (h \o t)[i] = h[i]
    BY <1>3, <1>4, ConcatFacts
  <2>2. StandsAt(h \o t, Len(h), t)
    BY <1>3, <1>4, ConcatFacts
  <2>3. QED
    BY <1>1, <1>3, <1>4, <2>1, <2>2 DEF StandsAt
<1>6. QED
  BY <1>2, <1>3, <1>4, <1>5 DEF SectionAt

(* A section that stands in a buffer. *)
LEMMA SectionStands ==
    ASSUME NEW M, NEW items \in Seq(M), NEW c, NEW p \in Nat, StandsAt(c, p, Counted(items)),
           SectionAt(Counted(items), 1, items), Len(Counted(items)) = Len(items) + 1
    PROVE  SectionAt(c, p + 1, items)
<1> DEFINE n == Len(items)
           b == Counted(items)
<1>1. n \in Nat /\ Len(b) = n + 1
  OBVIOUS
<1>2. \A j \in 1 .. n + 1 : c[p + j] = b[j]
  BY <1>1 DEF StandsAt
<1> HIDE DEF b
<1>3. c[p + 1] = b[1]
  BY <1>1, <1>2
<1>4. ASSUME NEW i \in 1 .. n PROVE c[(p + 1) + i] = b[1 + i]
  <2>1. 1 + i \in 1 .. n + 1 /\ (p + 1) + i = p + (1 + i)
    BY <1>1
  <2>2. QED
    BY <1>2, <2>1
<1>5. QED
  BY <1>3, <1>4 DEF SectionAt, b

(* A signal whose moves have the tags that are written. *)
IsSignal(s, L, D) ==
    /\ s = [head |-> s.head, network |-> s.network, links |-> s.links, box_moves |-> s.box_moves,
            delta_pi |-> s.delta_pi, proof |-> s.proof]
    /\ s.links \in Seq(L) /\ s.box_moves \in Seq([tag : {0, 1}]) /\ s.delta_pi \in Seq(D)

(* Where the sections of a payload are. *)
LEMMA PayloadFacts ==
    ASSUME NEW L, NEW D, NEW s, IsSignal(s, L, D)
    PROVE  LET buf == serialize_signal(s)
               a == Len(s.links)
               b == Len(s.box_moves)
               d == Len(s.delta_pi)
           IN  /\ \E T : Cut \notin T /\ buf \in Seq(T)
               /\ Len(buf) = a + b + d + 4 /\ buf[1] = Token(s.head)
               /\ SectionAt(buf, 2, s.links) /\ SectionAt(buf, a + 3, s.box_moves)
               /\ SectionAt(buf, a + b + 4, s.delta_pi)
<1> DEFINE buf == serialize_signal(s)
           a == Len(s.links)
           b == Len(s.box_moves)
           d == Len(s.delta_pi)
           B == [tag : {0, 1}]
           U == {s.head} \cup Nat \cup L \cup B \cup D
           T == {Token(x) : x \in U}
           h == <<Token(s.head)>>
           l == Counted(s.links)
           m == Counted(s.box_moves)
           p == Counted(s.delta_pi)
<1>1. s.links \in Seq(L) /\ s.box_moves \in Seq(B) /\ s.delta_pi \in Seq(D)
  BY DEF IsSignal
<1>2. a \in Nat /\ b \in Nat /\ d \in Nat
  BY <1>1
<1>3. buf = ((h \o l) \o m) \o p
  BY DEF serialize_signal
<1>4. Cut \notin T
  BY TokenFacts
<1>5. \A x \in U : Token(x) \in T
  OBVIOUS
<1>6. s.head \in U /\ a \in U /\ b \in U /\ d \in U /\ L \subseteq U /\ B \subseteq U /\ D \subseteq U
  BY <1>2
<1>7. h \in Seq(T) /\ Len(h) = 1 /\ h[1] = Token(s.head)
  BY <1>5, <1>6
<1> HIDE DEF T, U, B
<1>8. l \in Seq(T) /\ Len(l) = a + 1 /\ SectionAt(l, 1, s.links)
  BY <1>1, <1>5, <1>6, CountedFacts
<1>9. m \in Seq(T) /\ Len(m) = b + 1 /\ SectionAt(m, 1, s.box_moves)
  BY <1>1, <1>5, <1>6, CountedFacts
<1>10. p \in Seq(T) /\ Len(p) = d + 1 /\ SectionAt(p, 1, s.delta_pi)
  BY <1>1, <1>5, <1>6, CountedFacts
<1> HIDE DEF h, l, m, p, a, b, d
<1> DEFINE u == h \o l
           v == u \o m
           w == v \o p
<1>11. u \in Seq(T) /\ Len(u) = a + 2 /\ u[1] = h[1] /\ StandsAt(u, 1, l)
  <2>1. u \in Seq(T) /\ Len(u) = Len(h) + Len(l) /\ \A i \in 1 .. Len(h) : u[i] = h[i]
    BY <1>7, <1>8, ConcatFacts
  <2>2. StandsAt(u, Len(h), l)
    BY <1>7, <1>8, ConcatFacts
  <2> HIDE DEF u
  <2>3. QED
    BY <1>2, <1>7, <1>8, <2>1, <2>2
<1> HIDE DEF u
<1>12. v \in Seq(T) /\ Len(v) = a + b + 3 /\ v[1] = h[1] /\ StandsAt(v, 1, l) /\ StandsAt(v, a + 2, m)
  <2>1. v \in Seq(T) /\ Len(v) = Len(u) + Len(m) /\ \A i \in 1 .. Len(u) : v[i] = u[i]
    BY <1>9, <1>11, ConcatFacts
  <2>2. StandsAt(v, Len(u), m)
    BY <1>9, <1>11, ConcatFacts
  <2>3. StandsAt(v, 1, l)
    <3>1. 1 + Len(l) <= Len(u)
      BY <1>2, <1>8, <1>11
    <3>2. QED
      BY <1>8, <1>9, <1>11, <3>1, StandsStill
  <2> HIDE DEF v
  <2>4. QED
    BY <1>2, <1>9, <1>11, <2>1, <2>2, <2>3
<1> HIDE DEF v
<1>13. /\ w \in Seq(T) /\ Len(w) = a + b + d + 4 /\ w[1] = h[1] /\ StandsAt(w, 1, l)
       /\ StandsAt(w, a + 2, m) /\ StandsAt(w, a + b + 3, p)
  <2>1. w \in Seq(T) /\ Len(w) = Len(v) + Len(p) /\ \A i \in 1 .. Len(v) : w[i] = v[i]
    BY <1>10, <1>12, ConcatFacts
  <2>2. StandsAt(w, Len(v), p)
    BY <1>10, <1>12, ConcatFacts
  <2>3. StandsAt(w, 1, l)
    <3>1. 1 + Len(l) <= Len(v)
      BY <1>2, <1>8, <1>12
    <3>2. QED
      BY <1>8, <1>10, <1>12, <3>1, StandsStill
  <2>4. StandsAt(w, a + 2, m)
    <3>1. (a + 2) + Len(m) <= Len(v) /\ a + 2 \in Nat
      BY <1>2, <1>9, <1>12
    <3>2. QED
      BY <1>9, <1>10, <1>12, <3>1, StandsStill
  <2> HIDE DEF w
  <2>5. QED
    BY <1>2, <1>10, <1>12, <2>1, <2>2, <2>3, <2>4
<1>14. w = buf
  BY <1>3 DEF u, v, w
<1> HIDE DEF w, buf
<1>15. SectionAt(w, 1 + 1, s.links)
  <2>1. StandsAt(w, 1, Counted(s.links)) /\ SectionAt(Counted(s.links), 1, s.links)
        /\ Len(Counted(s.links)) = Len(s.links) + 1
    BY <1>8, <1>13 DEF l, a
  <2>2. QED
    BY <1>1, <2>1, SectionStands
<1>16. SectionAt(w, (a + 2) + 1, s.box_moves)
  <2>1. StandsAt(w, a + 2, Counted(s.box_moves)) /\ SectionAt(Counted(s.box_moves), 1, s.box_moves)
        /\ Len(Counted(s.box_moves)) = Len(s.box_moves) + 1 /\ a + 2 \in Nat
    BY <1>2, <1>9, <1>13 DEF m, b
  <2>2. QED
    BY <1>1, <2>1, SectionStands
<1>17. SectionAt(w, (a + b + 3) + 1, s.delta_pi)
  <2>1. StandsAt(w, a + b + 3, Counted(s.delta_pi)) /\ SectionAt(Counted(s.delta_pi), 1, s.delta_pi)
        /\ Len(Counted(s.delta_pi)) = Len(s.delta_pi) + 1 /\ a + b + 3 \in Nat
    BY <1>2, <1>10, <1>13 DEF p, d
  <2>2. QED
    BY <1>1, <2>1, SectionStands
<1>18. 1 + 1 = 2 /\ (a + 2) + 1 = a + 3 /\ (a + b + 3) + 1 = a + b + 4
  BY <1>2
<1>19. QED
  BY <1>4, <1>7, <1>13, <1>14, <1>15, <1>16, <1>17, <1>18 DEF buf, a, b, d

(* The same signal with other trailing sections. *)
With(s, m, d) ==
    [head |-> s.head, network |-> Self, links |-> s.links, box_moves |-> m, delta_pi |-> d,
     proof |-> Nothing]

(* How a signal with the moves b and the payments d comes back. *)
ComesBack(s, b, d) ==
    /\ Rebuilt(s) = With(s, b, d)
    /\ [Rebuilt(s) EXCEPT !.box_moves = <<>>, !.delta_pi = <<>>] = With(s, <<>>, <<>>)
    /\ [Rebuilt(s) EXCEPT !.delta_pi = <<>>] = With(s, b, <<>>)

(* The fields of a signal that comes back. *)
LEMMA RebuiltFacts ==
    ASSUME NEW h, NEW n, NEW l, NEW b, NEW d, NEW p, NEW s,
           s = [head |-> h, network |-> n, links |-> l, box_moves |-> b, delta_pi |-> d, proof |-> p]
    PROVE  ComesBack(s, b, d)
<1> DEFINE R(m, q) == [head |-> h, network |-> Self, links |-> l, box_moves |-> m, delta_pi |-> q,
                       proof |-> Nothing]
<1>1. \A m, q : With(s, m, q) = R(m, q)
  BY DEF With
<1>2. ASSUME NEW x PROVE [s EXCEPT !.network = x] = [head |-> h, network |-> x, links |-> l,
                          box_moves |-> b, delta_pi |-> d, proof |-> p]
  OBVIOUS
<1>3. Rebuilt(s) = [[s EXCEPT !.network = Self] EXCEPT !.proof = Nothing]
  BY DEF Rebuilt
<1>4. Rebuilt(s) = R(b, d)
  BY <1>2, <1>3
<1>5. [R(b, d) EXCEPT !.box_moves = <<>>] = R(<<>>, d) /\ [R(b, d) EXCEPT !.delta_pi = <<>>] = R(b, <<>>)
  OBVIOUS
<1>6. [R(b, d) EXCEPT !.box_moves = <<>>, !.delta_pi = <<>>] =
          [[R(b, d) EXCEPT !.box_moves = <<>>] EXCEPT !.delta_pi = <<>>]
  <2> HIDE DEF R
  <2> QED OBVIOUS
<1>7. [R(<<>>, d) EXCEPT !.delta_pi = <<>>] = R(<<>>, <<>>)
  OBVIOUS
<1> HIDE DEF R
<1>8. QED
  BY <1>1, <1>4, <1>5, <1>6, <1>7 DEF ComesBack

(* Reading a payload of which w tokens are whole. *)
LEMMA SignalRead ==
    ASSUME NEW L, NEW D, NEW s, IsSignal(s, L, D), NEW c, NEW w, Reads(c, serialize_signal(s), w)
    PROVE  /\ w = Len(serialize_signal(s)) =>
                 deserialize_signal(c) = <<With(s, s.box_moves, s.delta_pi)>>
           /\ w < Len(serialize_signal(s)) =>
                 deserialize_signal(c) \in {Nothing, <<With(s, <<>>, <<>>)>>, <<With(s, s.box_moves, <<>>)>>}
<1> DEFINE buf == serialize_signal(s)
           a == Len(s.links)
           b == Len(s.box_moves)
           d == Len(s.delta_pi)
           l == Section(c, 2)
           m == Trailing(c, l.next)
           p == Trailing(c, m.next)
           ok == /\ Has(c, 1) /\ l.ok /\ m.ok /\ p.ok
                 /\ \A i \in DOMAIN m.items : m.items[i].tag \in {0, 1}
           v == [head |-> c[1].token, network |-> Self, links |-> l.items,
                 box_moves |-> m.items, delta_pi |-> p.items, proof |-> Nothing]
           full(n) == [ok |-> TRUE, items |-> <<>>, next |-> n]
<1>1. s.links \in Seq(L) /\ s.box_moves \in Seq([tag : {0, 1}]) /\ s.delta_pi \in Seq(D)
  BY DEF IsSignal
<1>2. a \in Nat /\ b \in Nat /\ d \in Nat /\ w \in Nat /\ Len(c) \in {w, w + 1}
  BY <1>1 DEF Reads
<1>3. /\ Len(buf) = a + b + d + 4 /\ buf[1] = Token(s.head) /\ SectionAt(buf, 2, s.links)
      /\ SectionAt(buf, a + 3, s.box_moves) /\ SectionAt(buf, a + b + 4, s.delta_pi)
  BY PayloadFacts
<1>4. deserialize_signal(c) = IF ok THEN <<v>> ELSE Nothing
  BY DEF deserialize_signal
<1>5. Reads(c, buf, w)
  OBVIOUS
<1> HIDE DEF buf
<1>6. /\ w >= 2 + a => l = [ok |-> TRUE, items |-> s.links, next |-> 2 + a + 1]
      /\ w < 2 + a => l.ok = FALSE
  <2>1. 2 \in Nat \ {0}
    OBVIOUS
  <2>2. QED
    BY <1>1, <1>3, <1>5, <2>1, SectionFacts
<1>7. /\ w >= (a + 3) + b => Section(c, a + 3) = [ok |-> TRUE, items |-> s.box_moves, next |-> (a + 3) + b + 1]
      /\ w < (a + 3) + b => Section(c, a + 3).ok = FALSE
  <2>1. a + 3 \in Nat \ {0}
    <3> HIDE DEF a
    <3> QED BY <1>2
  <2>2. QED
    BY <1>1, <1>3, <1>5, <2>1, SectionFacts
<1>8. /\ w >= (a + b + 4) + d => Section(c, a + b + 4) = [ok |-> TRUE, items |-> s.delta_pi, next |-> (a + b + 4) + d + 1]
      /\ w < (a + b + 4) + d => Section(c, a + b + 4).ok = FALSE
  <2>1. a + b + 4 \in Nat \ {0}
    <3> HIDE DEF a, b
    <3> QED BY <1>2
  <2>2. QED
    BY <1>1, <1>3, <1>5, <2>1, SectionFacts
<1>9. \A n : Trailing(c, n) = IF n <= Len(c) THEN Section(c, n) ELSE full(n)
  BY DEF Trailing
<1>10. \A i \in 1 .. b : s.box_moves[i].tag \in {0, 1}
  <2>1. \A x \in [tag : {0, 1}] : x.tag \in {0, 1}
    OBVIOUS
  <2>2. ASSUME NEW B, NEW t \in Seq(B) PROVE \A i \in 1 .. Len(t) : t[i] \in B
    OBVIOUS
  <2>4. \A i \in 1 .. b : s.box_moves[i] \in [tag : {0, 1}]
    BY <1>1, <2>2, Zenon
  <2>3. QED
    BY <2>1, <2>4
<1>11. DOMAIN s.box_moves = 1 .. b
  BY <1>1
<1> HIDE DEF a, b, d
<1>12. CASE w < 2 + a
  <2>1. ~ ok
    BY <1>6, <1>12
  <2>2. deserialize_signal(c) = Nothing
    BY <1>4, <2>1
  <2>3. w # Len(buf)
    BY <1>2, <1>3, <1>12
  <2>4. QED
    BY <2>2, <2>3 DEF buf
<1>13. ASSUME w >= 2 + a
       PROVE  /\ l.ok = TRUE /\ l.items = s.links /\ l.next = a + 3
              /\ Has(c, 1) /\ c[1].token = s.head
  <2>1. l.ok = TRUE /\ l.items = s.links /\ l.next = a + 3
    BY <1>2, <1>6, <1>13
  <2>2. Has(c, 1)
    BY <1>2, <1>5, <1>13, HasFacts
  <2>3. c[1] = buf[1]
    BY <1>2, <1>5, <1>13 DEF Reads
  <2>4. c[1].token = s.head
    BY <1>3, <2>3, TokenFacts
  <2>5. QED
    BY <2>1, <2>2, <2>4
<1>14. CASE w >= 2 + a /\ w < a + 3 + b
  <2>1. l.ok = TRUE /\ l.items = s.links /\ l.next = a + 3 /\ Has(c, 1) /\ c[1].token = s.head
    BY <1>13, <1>14
  <2>2. w # Len(buf) /\ w < Len(buf)
    BY <1>2, <1>3, <1>14
  <2>3. CASE a + 3 <= Len(c)
    <3>1. m = Section(c, a + 3)
      BY <1>9, <2>1, <2>3
    <3>2. m.ok = FALSE
      BY <1>7, <1>14, <3>1
    <3>3. ~ ok
      BY <3>2
    <3>4. deserialize_signal(c) = Nothing
      BY <1>4, <3>3
    <3>5. QED
      BY <2>2, <3>4 DEF buf
  <2>4. CASE ~ (a + 3 <= Len(c))
    <3>1. m = full(a + 3)
      BY <1>9, <2>1, <2>4
    <3>2. m.ok = TRUE /\ m.items = <<>> /\ m.next = a + 3
      BY <3>1
    <3>3. p = full(a + 3)
      BY <1>9, <2>4, <3>2
    <3>4. p.ok = TRUE /\ p.items = <<>>
      BY <3>3
    <3> HIDE DEF l, m, p
    <3>5. ok
      BY <2>1, <3>2, <3>4
    <3>6. v = With(s, <<>>, <<>>)
      BY <2>1, <3>2, <3>4 DEF With
    <3>7. deserialize_signal(c) = <<With(s, <<>>, <<>>)>>
      BY <1>4, <3>5, <3>6
    <3>8. QED
      BY <2>2, <3>7 DEF buf
  <2>5. QED
    BY <2>3, <2>4
<1>15. CASE w >= a + 3 + b
  <2>1. l.ok = TRUE /\ l.items = s.links /\ l.next = a + 3 /\ Has(c, 1) /\ c[1].token = s.head
    <3>1. w >= 2 + a
      BY <1>2, <1>15
    <3>2. QED
      BY <1>13, <3>1
  <2>2. m.ok = TRUE /\ m.items = s.box_moves /\ m.next = a + b + 4
    <3>1. a + 3 <= Len(c)
      BY <1>2, <1>15
    <3>2. m = Section(c, a + 3)
      BY <1>9, <2>1, <3>1
    <3>3. m = [ok |-> TRUE, items |-> s.box_moves, next |-> (a + 3) + b + 1]
      BY <1>7, <1>15, <3>2
    <3>4. (a + 3) + b + 1 = a + b + 4
      BY <1>2
    <3> HIDE DEF m
    <3>5. QED
      BY <3>3, <3>4
  <2>3. p = Trailing(c, a + b + 4)
    BY <2>2
  <2> HIDE DEF l, m, p
  <2>4. ok <=> p.ok
    BY <1>10, <1>11, <2>1, <2>2
  <2>5. v = With(s, s.box_moves, p.items)
    BY <2>1, <2>2 DEF With
  <2>6. CASE w = Len(buf)
    <3>1. a + b + 4 <= Len(c) /\ w >= (a + b + 4) + d /\ ~ (w < Len(buf))
      BY <1>2, <1>3, <2>6
    <3>2. p = [ok |-> TRUE, items |-> s.delta_pi, next |-> (a + b + 4) + d + 1]
      BY <1>8, <1>9, <2>3, <3>1
    <3>3. p.ok = TRUE /\ p.items = s.delta_pi
      BY <3>2
    <3>4. deserialize_signal(c) = <<With(s, s.box_moves, s.delta_pi)>>
      BY <1>4, <2>4, <2>5, <3>3
    <3>5. QED
      BY <3>1, <3>4 DEF buf
  <2>7. CASE w < Len(buf)
    <3>1. w < (a + b + 4) + d /\ w # Len(buf)
      BY <1>2, <1>3, <2>7
    <3>2. CASE a + b + 4 <= Len(c)
      <4>1. p.ok = FALSE
        BY <1>8, <1>9, <2>3, <3>1, <3>2
      <4>2. deserialize_signal(c) = Nothing
        BY <1>4, <2>4, <4>1
      <4>3. QED
        BY <3>1, <4>2 DEF buf
    <3>3. CASE ~ (a + b + 4 <= Len(c))
      <4>1. p = full(a + b + 4)
        BY <1>9, <2>3, <3>3
      <4>2. p.ok = TRUE /\ p.items = <<>>
        BY <4>1
      <4>3. deserialize_signal(c) = <<With(s, s.box_moves, <<>>)>>
        BY <1>4, <2>4, <2>5, <4>2
      <4>4. QED
        BY <3>1, <4>3 DEF buf
    <3>4. QED
      BY <3>2, <3>3
  <2>8. CASE w > Len(buf)
    BY <1>2, <1>3, <2>8 DEF buf
  <2>9. QED
    BY <1>2, <1>3, <2>6, <2>7, <2>8
<1>16. QED
  BY <1>2, <1>12, <1>14, <1>15

(* The codec of signals. *)
LEMMA SignalFacts ==
    ASSUME NEW L, NEW D, NEW s, IsSignal(s, L, D)
    PROVE  SignalWholeOrNone(s)
<1> DEFINE buf == serialize_signal(s)
           f == encode_signal_frame(s)
<1>1. s = [head |-> s.head, network |-> s.network, links |-> s.links, box_moves |-> s.box_moves,
           delta_pi |-> s.delta_pi, proof |-> s.proof]
  BY DEF IsSignal
<1>2. /\ Rebuilt(s) = With(s, s.box_moves, s.delta_pi)
      /\ [Rebuilt(s) EXCEPT !.box_moves = <<>>, !.delta_pi = <<>>] = With(s, <<>>, <<>>)
      /\ [Rebuilt(s) EXCEPT !.delta_pi = <<>>] = With(s, s.box_moves, <<>>)
  <2>1. PICK h, n, l, b, d, p : s = [head |-> h, network |-> n, links |-> l, box_moves |-> b,
                                     delta_pi |-> d, proof |-> p]
    BY <1>1
  <2>2. s.box_moves = b /\ s.delta_pi = d
    BY <2>1
  <2>3. ComesBack(s, b, d)
    BY <2>1, RebuiltFacts, Zenon
  <2>4. QED
    BY <2>2, <2>3 DEF ComesBack
<1>3. PICK T : Cut \notin T /\ buf \in Seq(T)
  BY PayloadFacts
<1>4. deserialize_signal(buf) = <<Rebuilt(s)>>
  <2>1. Reads(buf, buf, Len(buf))
    BY <1>3, ReadsAll
  <2>2. QED
    BY <1>2, <2>1, SignalRead
<1>5. decode_signal_frame(<<f>>) = <<Rebuilt(s)>>
  <2>1. f.sigil = "ZAP" /\ f.payload = buf /\ f # Cut
    BY DEF encode_signal_frame, Cut
  <2> HIDE DEF f
  <2>2. <<f>>[1] = f /\ Len(<<f>>) = 1
    OBVIOUS
  <2>3. Has(<<f>>, 1)
    BY <2>1, <2>2 DEF Has
  <2>4. QED
    BY <1>4, <2>1, <2>2, <2>3 DEF decode_signal_frame
<1>6. ASSUME NEW c \in Cuts(buf)
      PROVE  deserialize_signal(c) \in {Nothing, <<With(s, <<>>, <<>>)>>, <<With(s, s.box_moves, <<>>)>>}
  <2>1. PICK w \in 0 .. Len(buf) - 1 : Reads(c, buf, w)
    BY <1>3, CutsFacts
  <2>2. w < Len(buf)
    BY <1>3
  <2>3. QED
    BY <2>1, <2>2, SignalRead
<1>7. QED
  BY <1>2, <1>5, <1>6 DEF SignalWholeOrNone

(* What is in the tokens of a stream. *)
Words == Nat \cup {<<"FSET", 1>>, "FSC1", "claim", "acc", "receipt"}

Tokens == {Token(x) : x \in Words}

(* The tokens of a stream are whole. *)
LEMMA TokensFacts ==
    /\ Cut \notin Tokens
    /\ \A n \in Nat : Token(n) \in Tokens
    /\ Token(<<"FSET", 1>>) \in Tokens /\ Token("FSC1") \in Tokens
    /\ \A ty \in {"claim", "acc", "receipt"} : Token(ty) \in Tokens
<1>1. Cut \notin Tokens
  BY TokenFacts DEF Tokens
<1>2. \A x \in Words : Token(x) \in Tokens
  BY DEF Tokens
<1>3. QED
  BY <1>1, <1>2 DEF Words

(* A set that is written in order is read as it was. *)
LEMMA SetWritten ==
    ASSUME NEW S, IsFiniteSet(S), S \subseteq Nat
    PROVE  Ascending(SetToSeq(S)) \in Seq(Nat) /\ ToSet(Ascending(SetToSeq(S))) = S
<1> DEFINE n == Cardinality(S)
           f == SetToSeq(S)
           t == Ascending(f)
<1>1. n \in Nat
  BY FS_CardinalityType
<1>4. f \in [1 .. n -> S]
  BY SetToSeqFacts
<1>5. \A x \in S : \E k \in 1 .. n : f[k] = x
  BY SetToSeqFacts
<1> HIDE DEF f, n
<1>6. f \in Seq(Nat) /\ Len(f) = n /\ DOMAIN f = 1 .. n /\ f \in Seq(Int)
  <2>1. f \in [1 .. n -> Nat]
    BY <1>4
  <2>2. f \in Seq(Nat)
    BY <1>1, <2>1
  <2>3. QED
    BY <1>1, <2>1, <2>2
<1>7. PICK p \in Bijection(DOMAIN f, DOMAIN f) : \A k \in DOMAIN f : t[k] = f[p[k]]
  BY <1>6, AscendingFacts
<1>8. t \in Seq(Int) /\ Len(t) = n
  BY <1>6, AscendingFacts
<1> HIDE DEF t
<1>9. /\ \A k \in 1 .. n : p[k] \in 1 .. n
      /\ \A j \in 1 .. n : \E k \in 1 .. n : p[k] = j
  BY <1>6 DEF Bijection, Injection, Surjection
<1>10. t \in Seq(Nat)
  <2>1. ASSUME NEW k \in 1 .. n PROVE t[k] \in Nat
    <3>1. t[k] = f[p[k]] /\ p[k] \in 1 .. n
      BY <1>6, <1>7, <1>9
    <3>2. f[p[k]] \in S
      BY <1>4, <3>1
    <3>3. QED
      BY <3>1, <3>2
  <2>2. QED
    BY <1>1, <1>8, <2>1
<1>11. ToSet(t) = S
  <2>0. DOMAIN t = 1 .. n
    BY <1>8
  <2>1. ASSUME NEW x \in ToSet(t) PROVE x \in S
    <3>1. PICK k \in 1 .. n : t[k] = x
      BY <2>0 DEF ToSet
    <3>2. QED
      BY <1>4, <1>6, <1>7, <1>9, <3>1
  <2>2. ASSUME NEW x \in S PROVE x \in ToSet(t)
    <3>1. PICK j \in 1 .. n : f[j] = x
      BY <1>5
    <3>2. PICK k \in 1 .. n : p[k] = j
      BY <1>9
    <3>3. t[k] = x
      BY <1>6, <1>7, <3>1, <3>2
    <3>4. QED
      BY <2>0, <3>3 DEF ToSet
  <2>3. QED
    BY <2>1, <2>2
<1>12. QED
  BY <1>10, <1>11 DEF f, t

(* An accumulator as it is written. *)
IsAcc(acc) ==
    /\ acc = [sum_m |-> acc.sum_m, seen |-> acc.seen, commitment |-> acc.commitment]
    /\ acc.sum_m \in Seq(Nat) /\ IsFiniteSet(acc.seen) /\ acc.seen \subseteq Nat
    /\ acc.commitment \in Nat

(* Where its parts are. *)
LEMMA AccWritten ==
    ASSUME NEW acc, IsAcc(acc)
    PROVE  LET body == encode_acc_body(acc)
               a == Len(acc.sum_m)
               t == Ascending(SetToSeq(acc.seen))
           IN  /\ body \in Seq(Tokens) /\ Len(body) = a + Len(t) + 3
               /\ SectionAt(body, 1, acc.sum_m) /\ SectionAt(body, a + 2, t)
               /\ body[a + Len(t) + 3] = Token(acc.commitment)
<1> DEFINE body == encode_acc_body(acc)
           a == Len(acc.sum_m)
           t == Ascending(SetToSeq(acc.seen))
           b == Len(t)
           l == Counted(acc.sum_m)
           m == Counted(t)
           h == <<Token(acc.commitment)>>
           u == l \o m
           v == u \o h
<1>1. acc.sum_m \in Seq(Nat) /\ acc.commitment \in Nat
  BY DEF IsAcc
<1>2. t \in Seq(Nat)
  BY SetWritten DEF IsAcc
<1> HIDE DEF t
<1>3. a \in Nat /\ b \in Nat
  BY <1>1, <1>2
<1>4. body = v
  BY DEF encode_acc_body, t
<1>5. l \in Seq(Tokens) /\ Len(l) = a + 1 /\ SectionAt(l, 1, acc.sum_m)
  BY <1>1, <1>3, TokensFacts, CountedFacts
<1>6. m \in Seq(Tokens) /\ Len(m) = b + 1 /\ SectionAt(m, 1, t)
  BY <1>2, <1>3, TokensFacts, CountedFacts
<1>7. h \in Seq(Tokens) /\ Len(h) = 1 /\ h[1] = Token(acc.commitment)
  BY <1>1, TokensFacts
<1> HIDE DEF a, b, l, m, h, body
<1>8. u \in Seq(Tokens) /\ Len(u) = a + b + 2 /\ StandsAt(u, 0, l) /\ StandsAt(u, a + 1, m)
  <2>1. u \in Seq(Tokens) /\ Len(u) = Len(l) + Len(m)
    BY <1>5, <1>6, ConcatFacts
  <2>2. StandsAt(u, 0, l) /\ StandsAt(u, Len(l), m)
    BY <1>5, <1>6, ConcatFacts
  <2> HIDE DEF u
  <2>3. QED
    BY <1>3, <1>5, <1>6, <2>1, <2>2
<1> HIDE DEF u
<1>9. /\ v \in Seq(Tokens) /\ Len(v) = a + b + 3 /\ StandsAt(v, 0, l) /\ StandsAt(v, a + 1, m)
      /\ v[a + b + 3] = h[1]
  <2>1. v \in Seq(Tokens) /\ Len(v) = Len(u) + Len(h) /\ StandsAt(v, Len(u), h)
    BY <1>7, <1>8, ConcatFacts
  <2>2. v[Len(u) + 1] = h[1]
    BY <1>7, <2>1 DEF StandsAt
  <2>3. 0 + Len(l) <= Len(u) /\ (a + 1) + Len(m) <= Len(u) /\ a + 1 \in Nat
    BY <1>3, <1>5, <1>6, <1>8
  <2>4. StandsAt(v, 0, l)
    BY <1>5, <1>7, <1>8, <2>3, StandsStill
  <2>5. StandsAt(v, a + 1, m)
    BY <1>6, <1>7, <1>8, <2>3, StandsStill
  <2> HIDE DEF v
  <2>6. QED
    BY <1>3, <1>7, <1>8, <2>1, <2>2, <2>4, <2>5
<1> HIDE DEF v
<1>10. SectionAt(v, 0 + 1, acc.sum_m)
  <2>1. StandsAt(v, 0, Counted(acc.sum_m)) /\ SectionAt(Counted(acc.sum_m), 1, acc.sum_m)
        /\ Len(Counted(acc.sum_m)) = Len(acc.sum_m) + 1
    BY <1>5, <1>9 DEF l, a
  <2>2. QED
    BY <1>1, <2>1, SectionStands
<1>11. SectionAt(v, (a + 1) + 1, t)
  <2>1. StandsAt(v, a + 1, Counted(t)) /\ SectionAt(Counted(t), 1, t)
        /\ Len(Counted(t)) = Len(t) + 1 /\ a + 1 \in Nat
    BY <1>3, <1>6, <1>9 DEF m, b
  <2>2. QED
    BY <1>2, <2>1, SectionStands
<1>12. 0 + 1 = 1 /\ (a + 1) + 1 = a + 2
  BY <1>3
<1>13. /\ body \in Seq(Tokens) /\ Len(body) = a + b + 3
       /\ SectionAt(body, 1, acc.sum_m) /\ SectionAt(body, a + 2, t)
       /\ body[a + b + 3] = Token(acc.commitment)
  BY <1>4, <1>7, <1>9, <1>10, <1>11, <1>12
<1>14. QED
  BY <1>13 DEF body, a, b, t

(* A section that stands in a part. *)
LEMMA SectionInside ==
    ASSUME NEW c, NEW p \in Nat, NEW T, NEW b \in Seq(T), StandsAt(c, p, b),
           NEW q \in Nat \ {0}, NEW M, NEW items \in Seq(M), SectionAt(b, q, items),
           q + Len(items) <= Len(b)
    PROVE  SectionAt(c, p + q, items)
<1> DEFINE n == Len(items)
<1>1. n \in Nat /\ Len(b) \in Nat
  OBVIOUS
<1>2. c[p + q] = b[q]
  <2>1. q \in 1 .. Len(b)
    BY <1>1
  <2>2. QED
    BY <2>1 DEF StandsAt
<1>3. ASSUME NEW i \in 1 .. n PROVE c[(p + q) + i] = b[q + i]
  <2>1. q + i \in 1 .. Len(b) /\ (p + q) + i = p + (q + i)
    BY <1>1
  <2>2. c[p + (q + i)] = b[q + i]
    BY <2>1 DEF StandsAt
  <2>3. QED
    BY <2>1, <2>2
<1>4. QED
  BY <1>2, <1>3 DEF SectionAt

(* An accumulator is read whole or not at all. *)
LEMMA AccRead ==
    ASSUME NEW acc, IsAcc(acc), NEW buf, NEW p \in Nat, StandsAt(buf, p, encode_acc_body(acc)),
           NEW c, NEW w, Reads(c, buf, w)
    PROVE  /\ w >= p + Len(encode_acc_body(acc)) => decode_acc_body(c, p + 1) = <<acc>>
           /\ w < p + Len(encode_acc_body(acc)) => decode_acc_body(c, p + 1) = Nothing
<1> DEFINE body == encode_acc_body(acc)
           a == Len(acc.sum_m)
           t == Ascending(SetToSeq(acc.seen))
           b == Len(t)
           sums == Section(c, p + 1)
           seen == Section(c, sums.next)
           v == [sum_m |-> sums.items, seen |-> ToSet(seen.items), commitment |-> c[seen.next].token]
<1>1. /\ body \in Seq(Tokens) /\ Len(body) = a + b + 3 /\ SectionAt(body, 1, acc.sum_m)
      /\ SectionAt(body, a + 2, t) /\ body[a + b + 3] = Token(acc.commitment)
  BY AccWritten
<1>2. acc.sum_m \in Seq(Nat) /\ t \in Seq(Nat) /\ ToSet(t) = acc.seen
  BY SetWritten DEF IsAcc
<1>3. a \in Nat /\ b \in Nat /\ w \in Nat
  BY <1>2 DEF Reads
<1>4. decode_acc_body(c, p + 1) = IF sums.ok /\ seen.ok /\ Has(c, seen.next) THEN <<v>> ELSE Nothing
  BY DEF decode_acc_body
<1>5. StandsAt(buf, p, body)
  OBVIOUS
<1>6. acc = [sum_m |-> acc.sum_m, seen |-> acc.seen, commitment |-> acc.commitment]
  BY DEF IsAcc
<1> HIDE DEF body, t
<1>7. SectionAt(buf, p + 1, acc.sum_m)
  <2>1. 1 \in Nat \ {0} /\ 1 + a <= Len(body)
    <3> HIDE DEF a, b
    <3> QED BY <1>1, <1>3
  <2>2. QED
    BY <1>1, <1>2, <1>5, <2>1, SectionInside
<1>8. SectionAt(buf, p + (a + 2), t)
  <2>1. a + 2 \in Nat \ {0} /\ (a + 2) + b <= Len(body)
    <3> HIDE DEF a, b
    <3> QED BY <1>1, <1>3
  <2>2. QED
    BY <1>1, <1>2, <1>5, <2>1, SectionInside
<1>9. /\ w >= (p + 1) + a => sums = [ok |-> TRUE, items |-> acc.sum_m, next |-> (p + 1) + a + 1]
      /\ w < (p + 1) + a => sums.ok = FALSE
  <2>1. p + 1 \in Nat \ {0}
    OBVIOUS
  <2>2. QED
    BY <1>2, <1>7, <2>1, SectionFacts
<1>10. /\ w >= (p + (a + 2)) + b => Section(c, p + (a + 2)) = [ok |-> TRUE, items |-> t, next |-> (p + (a + 2)) + b + 1]
       /\ w < (p + (a + 2)) + b => Section(c, p + (a + 2)).ok = FALSE
  <2>1. p + (a + 2) \in Nat \ {0}
    <3> HIDE DEF a
    <3> QED BY <1>3
  <2>2. QED
    BY <1>2, <1>8, <2>1, SectionFacts
<1> HIDE DEF a, b
<1>11. CASE w < (p + 1) + a
  <2>1. decode_acc_body(c, p + 1) = Nothing
    BY <1>4, <1>9, <1>11
  <2>2. ~ (w >= p + Len(body))
    BY <1>1, <1>3, <1>11
  <2>3. QED
    BY <2>1, <2>2 DEF body
<1>12. CASE w >= (p + 1) + a
  <2>1. sums = [ok |-> TRUE, items |-> acc.sum_m, next |-> (p + 1) + a + 1]
    BY <1>9, <1>12
  <2>2. (p + 1) + a + 1 = p + (a + 2)
    BY <1>3
  <2>3. sums.ok = TRUE /\ sums.items = acc.sum_m /\ sums.next = p + (a + 2)
    BY <2>1, <2>2
  <2> HIDE DEF sums
  <2>4. seen = Section(c, p + (a + 2))
    BY <2>3
  <2>5. CASE w < (p + (a + 2)) + b
    <3>1. decode_acc_body(c, p + 1) = Nothing
      BY <1>4, <1>10, <2>4, <2>5
    <3>2. ~ (w >= p + Len(body))
      BY <1>1, <1>3, <2>5
    <3>3. QED
      BY <3>1, <3>2 DEF body
  <2>6. CASE w >= (p + (a + 2)) + b
    <3>1. seen = [ok |-> TRUE, items |-> t, next |-> (p + (a + 2)) + b + 1]
      BY <1>10, <2>4, <2>6
    <3>2. (p + (a + 2)) + b + 1 = p + (a + b + 3) /\ p + (a + b + 3) \in Nat \ {0}
      BY <1>3
    <3>3. seen.ok = TRUE /\ seen.items = t /\ seen.next = p + (a + b + 3)
      BY <3>1, <3>2
    <3> HIDE DEF seen
    <3>4. Has(c, seen.next) <=> p + (a + b + 3) <= w
      BY <3>2, <3>3, HasFacts
    <3>5. CASE w >= p + Len(body)
      <4>1. p + (a + b + 3) <= w /\ ~ (w < p + Len(body)) /\ p + (a + b + 3) \in 1 .. w
            /\ a + b + 3 \in 1 .. Len(body)
        BY <1>1, <1>3, <3>5
      <4>2. c[p + (a + b + 3)] = buf[p + (a + b + 3)]
        BY <4>1 DEF Reads
      <4>3. buf[p + (a + b + 3)] = Token(acc.commitment)
        BY <1>1, <1>5, <4>1 DEF StandsAt
      <4>4. c[seen.next].token = acc.commitment
        BY <3>3, <4>2, <4>3, TokenFacts
      <4>5. v = acc
        BY <1>2, <1>6, <2>3, <3>3, <4>4
      <4>6. decode_acc_body(c, p + 1) = <<acc>>
        BY <1>4, <2>3, <3>3, <3>4, <4>1, <4>5
      <4>7. QED
        BY <4>1, <4>6 DEF body
    <3>6. CASE w < p + Len(body)
      <4>1. ~ (p + (a + b + 3) <= w) /\ ~ (w >= p + Len(body))
        BY <1>1, <1>3, <3>6
      <4>2. decode_acc_body(c, p + 1) = Nothing
        BY <1>4, <3>4, <4>1
      <4>3. QED
        BY <4>1, <4>2 DEF body
    <3>7. QED
      BY <1>1, <1>3, <3>5, <3>6
  <2>7. QED
    BY <1>3, <2>5, <2>6
<1>13. QED
  BY <1>3, <1>11, <1>12

(* Messages as they are sent. *)
IsClaim(m) ==
    /\ m = [kind |-> "claim", fixed |-> m.fixed, links |-> m.links]
    /\ m.fixed \in Nat /\ m.links \in Seq(Nat)

IsAccMessage(m) ==
    m = [kind |-> "acc", fixed |-> m.fixed, acc |-> m.acc] /\ m.fixed \in Nat /\ IsAcc(m.acc)

IsReceipt(m) == m = [kind |-> "receipt", fixed |-> m.fixed] /\ m.fixed \in Nat

IsMessage(m) == IsClaim(m) \/ IsAccMessage(m) \/ IsReceipt(m)

(* What stands before the body. *)
LEMMA HeaderFacts ==
    ASSUME NEW ty \in {"claim", "acc", "receipt"}, NEW f \in Nat, NEW rest \in Seq(Tokens)
    PROVE  LET buf == header(ty) \o <<Token(f)>> \o rest
           IN  /\ buf \in Seq(Tokens) /\ Len(buf) = 3 + Len(rest) /\ StandsAt(buf, 3, rest)
               /\ buf[1] = Token(<<"FSET", 1>>) /\ buf[2] = Token(ty) /\ buf[3] = Token(f)
<1> DEFINE h == header(ty) \o <<Token(f)>>
           buf == h \o rest
<1>1. Token(<<"FSET", 1>>) \in Tokens /\ Token(ty) \in Tokens /\ Token(f) \in Tokens
  BY TokensFacts
<1>2. ASSUME NEW x \in Tokens, NEW y \in Tokens, NEW z \in Tokens
      PROVE  LET t == <<x, y>> \o <<z>>
             IN  t \in Seq(Tokens) /\ Len(t) = 3 /\ t[1] = x /\ t[2] = y /\ t[3] = z
  OBVIOUS
<1>3. h \in Seq(Tokens) /\ Len(h) = 3 /\ h[1] = Token(<<"FSET", 1>>) /\ h[2] = Token(ty) /\ h[3] = Token(f)
  BY <1>1, <1>2 DEF header
<1> HIDE DEF h
<1>4. buf \in Seq(Tokens) /\ Len(buf) = Len(h) + Len(rest) /\ \A i \in 1 .. Len(h) : buf[i] = h[i]
  BY <1>3, ConcatFacts
<1>5. StandsAt(buf, Len(h), rest)
  BY <1>3, ConcatFacts
<1> HIDE DEF buf
<1>6. /\ buf \in Seq(Tokens) /\ Len(buf) = 3 + Len(rest) /\ StandsAt(buf, 3, rest)
      /\ buf[1] = Token(<<"FSET", 1>>) /\ buf[2] = Token(ty) /\ buf[3] = Token(f)
  BY <1>3, <1>4, <1>5
<1>7. QED
  BY <1>6 DEF buf, h

(* Reading it. *)
LEMMA HeaderRead ==
    ASSUME NEW ty, NEW f, NEW buf, NEW c, NEW w, Reads(c, buf, w),
           buf[1] = Token(<<"FSET", 1>>), buf[2] = Token(ty), buf[3] = Token(f)
    PROVE  /\ w < 3 => decode_settle_msg(c) = Nothing
           /\ w >= 3 => /\ Has(c, 1) /\ Has(c, 2) /\ Has(c, 3) /\ c[1].token = <<"FSET", 1>>
                        /\ c[2].token = ty /\ c[3].token = f
<1>1. w \in Nat
  BY DEF Reads
<1>2. (Has(c, 1) <=> 1 <= w) /\ (Has(c, 2) <=> 2 <= w) /\ (Has(c, 3) <=> 3 <= w)
  BY HasFacts
<1>3. ASSUME w < 3 PROVE decode_settle_msg(c) = Nothing
  <2>1. ~ Has(c, 3)
    BY <1>1, <1>2, <1>3
  <2>2. QED
    BY <2>1 DEF decode_settle_msg
<1>4. ASSUME w >= 3 PROVE c[1] = buf[1] /\ c[2] = buf[2] /\ c[3] = buf[3]
  <2>1. 1 \in 1 .. w /\ 2 \in 1 .. w /\ 3 \in 1 .. w
    BY <1>1, <1>4
  <2>2. QED
    BY <2>1 DEF Reads
<1>5. ASSUME w >= 3 PROVE Has(c, 1) /\ Has(c, 2) /\ Has(c, 3)
  BY <1>1, <1>2, <1>5
<1>6. QED
  BY <1>3, <1>4, <1>5, TokenFacts

(* A claim is read whole or not at all. *)
LEMMA ClaimRead ==
    ASSUME NEW m, IsClaim(m), NEW c, NEW w, Reads(c, encode_settle_msg(m), w)
    PROVE  /\ encode_settle_msg(m) \in Seq(Tokens) /\ Len(encode_settle_msg(m)) \in Nat \ {0}
           /\ w = Len(encode_settle_msg(m)) => decode_settle_msg(c) = <<m>>
           /\ w < Len(encode_settle_msg(m)) => decode_settle_msg(c) = Nothing
<1> DEFINE body == encode_settle_msg(m)
           rest == Counted(m.links)
           n == Len(m.links)
           l == decode_claim_body(c, 4)
<1>1. m.kind = "claim" /\ m.fixed \in Nat /\ m.links \in Seq(Nat) /\ n \in Nat
      /\ m = [kind |-> "claim", fixed |-> m.fixed, links |-> m.links]
  BY DEF IsClaim
<1>2. body = header("claim") \o <<Token(m.fixed)>> \o rest
  BY <1>1 DEF encode_settle_msg, encode_claim_body
<1>3. rest \in Seq(Tokens) /\ Len(rest) = n + 1 /\ SectionAt(rest, 1, m.links)
  BY <1>1, TokensFacts, CountedFacts
<1>4. /\ body \in Seq(Tokens) /\ Len(body) = 3 + Len(rest) /\ StandsAt(body, 3, rest)
      /\ body[1] = Token(<<"FSET", 1>>) /\ body[2] = Token("claim") /\ body[3] = Token(m.fixed)
  <2>1. "claim" \in {"claim", "acc", "receipt"}
    OBVIOUS
  <2> HIDE DEF rest, body
  <2>2. QED
    BY <1>1, <1>2, <1>3, <2>1, HeaderFacts
<1>5. Reads(c, body, w) /\ w \in Nat
  BY DEF Reads
<1> HIDE DEF body
<1>6. SectionAt(body, 3 + 1, m.links)
  BY <1>1, <1>3, <1>4, SectionStands
<1>7. 3 + 1 = 4 /\ 4 \in Nat \ {0}
  OBVIOUS
<1>8. /\ w >= 4 + n => Section(c, 4) = [ok |-> TRUE, items |-> m.links, next |-> 4 + n + 1]
      /\ w < 4 + n => Section(c, 4).ok = FALSE
  BY <1>1, <1>5, <1>6, <1>7, SectionFacts
<1>9. Len(body) = 4 + n
  <2> HIDE DEF n, rest
  <2> QED BY <1>1, <1>3, <1>4
<1>10. /\ w < 3 => decode_settle_msg(c) = Nothing
       /\ w >= 3 => /\ Has(c, 1) /\ Has(c, 2) /\ Has(c, 3) /\ c[1].token = <<"FSET", 1>>
                    /\ c[2].token = "claim" /\ c[3].token = m.fixed
  BY <1>4, <1>5, HeaderRead
<1> HIDE DEF n
<1>11. ASSUME w >= 3
       PROVE  decode_settle_msg(c) =
                 [i \in DOMAIN l |-> [kind |-> "claim", fixed |-> m.fixed, links |-> l[i]]]
  BY <1>10, <1>11 DEF decode_settle_msg
<1>12. CASE w >= 4 + n
  <2>1. Section(c, 4).ok = TRUE /\ Section(c, 4).items = m.links
    BY <1>8, <1>12
  <2>2. l = <<m.links>>
    BY <2>1 DEF decode_claim_body
  <2>3. DOMAIN l = 1 .. 1 /\ l[1] = m.links
    BY <2>2
  <2>4. w >= 3 /\ ~ (w < Len(body))
    BY <1>1, <1>5, <1>9, <1>12
  <2> HIDE DEF l
  <2>5. decode_settle_msg(c) = [i \in 1 .. 1 |-> m]
    BY <1>1, <1>11, <2>3, <2>4
  <2>6. decode_settle_msg(c) = <<m>>
    BY <2>5
  <2>7. QED
    BY <1>1, <1>4, <1>9, <2>4, <2>6 DEF body
<1>13. CASE w < 4 + n
  <2>1. decode_settle_msg(c) = Nothing
    <3>1. CASE w < 3
      BY <1>10, <3>1
    <3>2. CASE w >= 3
      <4>1. l = <<>>
        BY <1>8, <1>13 DEF decode_claim_body, Nothing
      <4>2. DOMAIN l = {}
        BY <4>1
      <4> HIDE DEF l
      <4>3. decode_settle_msg(c) = [i \in {} |-> m]
        BY <1>11, <3>2, <4>2
      <4>4. QED
        BY <4>3 DEF Nothing
    <3>3. QED
      BY <1>5, <3>1, <3>2
  <2>2. w # Len(body)
    BY <1>1, <1>5, <1>9, <1>13
  <2>3. QED
    BY <1>1, <1>4, <1>9, <2>1, <2>2 DEF body
<1>14. QED
  BY <1>1, <1>5, <1>12, <1>13

(* So is an accumulator. *)
LEMMA AccMessageRead ==
    ASSUME NEW m, IsAccMessage(m), NEW c, NEW w, Reads(c, encode_settle_msg(m), w)
    PROVE  /\ encode_settle_msg(m) \in Seq(Tokens) /\ Len(encode_settle_msg(m)) \in Nat \ {0}
           /\ w = Len(encode_settle_msg(m)) => decode_settle_msg(c) = <<m>>
           /\ w < Len(encode_settle_msg(m)) => decode_settle_msg(c) = Nothing
<1> DEFINE body == encode_settle_msg(m)
           rest == encode_acc_body(m.acc)
           n == Len(rest)
           l == decode_acc_body(c, 4)
<1>1. m.kind = "acc" /\ m.fixed \in Nat /\ IsAcc(m.acc)
      /\ m = [kind |-> "acc", fixed |-> m.fixed, acc |-> m.acc]
  BY DEF IsAccMessage
<1>2. body = header("acc") \o <<Token(m.fixed)>> \o rest
  BY <1>1 DEF encode_settle_msg
<1>3. rest \in Seq(Tokens) /\ n \in Nat
  <2>1. rest \in Seq(Tokens)
    BY <1>1, AccWritten
  <2> HIDE DEF rest
  <2>2. QED
    BY <2>1
<1>4. /\ body \in Seq(Tokens) /\ Len(body) = 3 + n /\ StandsAt(body, 3, rest)
      /\ body[1] = Token(<<"FSET", 1>>) /\ body[2] = Token("acc") /\ body[3] = Token(m.fixed)
  <2>1. "acc" \in {"claim", "acc", "receipt"}
    OBVIOUS
  <2> HIDE DEF rest, body
  <2>2. QED
    BY <1>1, <1>2, <1>3, <2>1, HeaderFacts
<1>5. Reads(c, body, w) /\ w \in Nat
  BY DEF Reads
<1> HIDE DEF body
<1>6. 3 + 1 = 4 /\ 3 \in Nat
  OBVIOUS
<1>7. /\ w >= 3 + n => decode_acc_body(c, 3 + 1) = <<m.acc>>
      /\ w < 3 + n => decode_acc_body(c, 3 + 1) = Nothing
  BY <1>1, <1>4, <1>5, <1>6, AccRead
<1>8. /\ w < 3 => decode_settle_msg(c) = Nothing
      /\ w >= 3 => /\ Has(c, 1) /\ Has(c, 2) /\ Has(c, 3) /\ c[1].token = <<"FSET", 1>>
                   /\ c[2].token = "acc" /\ c[3].token = m.fixed
  BY <1>4, <1>5, HeaderRead
<1> HIDE DEF n
<1>9. ASSUME w >= 3
      PROVE  decode_settle_msg(c) =
                 [i \in DOMAIN l |-> [kind |-> "acc", fixed |-> m.fixed, acc |-> l[i]]]
  BY <1>8, <1>9 DEF decode_settle_msg
<1>10. CASE w >= 3 + n
  <2>1. l = <<m.acc>>
    BY <1>6, <1>7, <1>10
  <2>2. DOMAIN l = 1 .. 1 /\ l[1] = m.acc
    BY <2>1
  <2>3. w >= 3 /\ ~ (w < Len(body))
    BY <1>3, <1>4, <1>5, <1>10
  <2> HIDE DEF l
  <2>4. decode_settle_msg(c) = [i \in 1 .. 1 |-> m]
    BY <1>1, <1>9, <2>2, <2>3
  <2>5. decode_settle_msg(c) = <<m>>
    BY <2>4
  <2>6. QED
    BY <1>3, <1>4, <2>3, <2>5 DEF body
<1>11. CASE w < 3 + n
  <2>1. decode_settle_msg(c) = Nothing
    <3>1. CASE w < 3
      BY <1>8, <3>1
    <3>2. CASE w >= 3
      <4>1. l = <<>>
        BY <1>6, <1>7, <1>11 DEF Nothing
      <4>2. DOMAIN l = {}
        BY <4>1
      <4> HIDE DEF l
      <4>3. decode_settle_msg(c) = [i \in {} |-> m]
        BY <1>9, <3>2, <4>2
      <4>4. QED
        BY <4>3 DEF Nothing
    <3>3. QED
      BY <1>5, <3>1, <3>2
  <2>2. w # Len(body)
    BY <1>3, <1>4, <1>5, <1>11
  <2>3. QED
    BY <1>3, <1>4, <2>1, <2>2 DEF body
<1>12. QED
  BY <1>3, <1>5, <1>10, <1>11

(* And a receipt. *)
LEMMA ReceiptRead ==
    ASSUME NEW m, IsReceipt(m), NEW c, NEW w, Reads(c, encode_settle_msg(m), w)
    PROVE  /\ encode_settle_msg(m) \in Seq(Tokens) /\ Len(encode_settle_msg(m)) \in Nat \ {0}
           /\ w = Len(encode_settle_msg(m)) => decode_settle_msg(c) = <<m>>
           /\ w < Len(encode_settle_msg(m)) => decode_settle_msg(c) = Nothing
<1> DEFINE body == encode_settle_msg(m)
           rest == <<>>
<1>1. m.kind = "receipt" /\ m.fixed \in Nat /\ m = [kind |-> "receipt", fixed |-> m.fixed]
  BY DEF IsReceipt
<1>2. body = header("receipt") \o <<Token(m.fixed)>> \o rest
  BY <1>1 DEF encode_settle_msg
<1>3. rest \in Seq(Tokens) /\ Len(rest) = 0
  OBVIOUS
<1>4. /\ body \in Seq(Tokens) /\ Len(body) = 3 + Len(rest)
      /\ body[1] = Token(<<"FSET", 1>>) /\ body[2] = Token("receipt") /\ body[3] = Token(m.fixed)
  <2>1. "receipt" \in {"claim", "acc", "receipt"}
    OBVIOUS
  <2> HIDE DEF rest, body
  <2>2. QED
    BY <1>1, <1>2, <1>3, <2>1, HeaderFacts
<1>5. Reads(c, body, w) /\ w \in Nat
  BY DEF Reads
<1>6. Len(body) = 3
  <2> HIDE DEF rest
  <2> QED BY <1>3, <1>4
<1> HIDE DEF body
<1>7. /\ w < 3 => decode_settle_msg(c) = Nothing
      /\ w >= 3 => /\ Has(c, 1) /\ Has(c, 2) /\ Has(c, 3) /\ c[1].token = <<"FSET", 1>>
                   /\ c[2].token = "receipt" /\ c[3].token = m.fixed
  BY <1>4, <1>5, HeaderRead
<1>8. ASSUME w >= 3 PROVE decode_settle_msg(c) = <<m>>
  <2>1. decode_settle_msg(c) = <<[kind |-> "receipt", fixed |-> m.fixed]>>
    BY <1>7, <1>8 DEF decode_settle_msg
  <2>2. QED
    BY <1>1, <2>1
<1>9. 3 \in Nat \ {0}
  OBVIOUS
<1>10. QED
  BY <1>4, <1>5, <1>6, <1>7, <1>8, <1>9 DEF body

(* A message is read whole or not at all. *)
LEMMA MessageRead ==
    ASSUME NEW m, IsMessage(m), NEW c, NEW w, Reads(c, encode_settle_msg(m), w)
    PROVE  /\ encode_settle_msg(m) \in Seq(Tokens) /\ Len(encode_settle_msg(m)) \in Nat \ {0}
           /\ w = Len(encode_settle_msg(m)) => decode_settle_msg(c) = <<m>>
           /\ w < Len(encode_settle_msg(m)) => decode_settle_msg(c) = Nothing
<1>1. CASE IsClaim(m)
  BY <1>1, ClaimRead, Zenon
<1>2. CASE IsAccMessage(m)
  BY <1>2, AccMessageRead, Zenon
<1>3. CASE IsReceipt(m)
  BY <1>3, ReceiptRead, Zenon
<1>4. QED
  BY <1>1, <1>2, <1>3 DEF IsMessage

(* Nothing at all can be read of any buffer. *)
LEMMA ReadsNone ==
    ASSUME NEW buf
    PROVE  Reads(<<>>, buf, 0)
BY DEF Reads

(* What is whole of a buffer that was cut. *)
LEMMA WholeFacts ==
    ASSUME NEW M, NEW c \in Seq(M), NEW buf, NEW w, Reads(c, buf, w)
    PROVE  Whole(c) = SubSeq(c, 1, w) /\ Len(Whole(c)) = w
<1> DEFINE K == {i \in DOMAIN c : c[i] # Cut}
<1>0. w \in Nat /\ (Len(c) = w \/ Len(c) = w + 1)
  BY DEF Reads
<1>1. \A p \in 1 .. Len(c) : c[p] # Cut <=> p <= w
  BY DEF Reads
<1>2. w \in 0 .. Len(c) /\ K \cap (1 .. Len(c)) = 1 .. w
  <2>1. DOMAIN c = 1 .. Len(c) /\ Len(c) \in Nat
    OBVIOUS
  <2>2. \A i \in 1 .. w : i \in 1 .. Len(c)
    BY <1>0
  <2>3. w \in 0 .. Len(c)
    BY <1>0
  <2>4. ASSUME NEW i \in 1 .. Len(c) PROVE i <= w <=> i \in 1 .. w
    <3>1. i \in Int /\ 1 <= i /\ w \in Int
      BY <1>0
    <3>2. QED
      BY <3>1
  <2>5. QED
    BY <1>1, <2>1, <2>2, <2>3, <2>4
<1>3. Whole(c) = Chosen(c, K)
  BY DEF Whole
<1> HIDE DEF K
<1>4. Whole(c) = SubSeq(c, 1, w)
  BY <1>2, <1>3, ChosenFirst
<1>5. Len(SubSeq(c, 1, w)) = w
  BY <1>0, <1>2
<1>6. QED
  BY <1>4, <1>5

(* A tail of a list. *)
From(c, p) == SubSeq(c, p + 1, Len(c))

(* The part of a buffer after p. *)
LEMMA FromFacts ==
    ASSUME NEW M, NEW c \in Seq(M), NEW p \in 0 .. Len(c)
    PROVE  /\ From(c, p) \in Seq(M) /\ Len(From(c, p)) = Len(c) - p
           /\ \A i \in 1 .. Len(c) - p : From(c, p)[i] = c[p + i]
<1> DEFINE r == From(c, p)
<1>1. Len(c) \in Nat /\ p \in Nat /\ p <= Len(c)
  OBVIOUS
<1>2. r \in Seq(M)
  BY <1>1 DEF From
<1>3. Len(r) = Len(c) - p
  BY <1>1 DEF From
<1>4. ASSUME NEW i \in 1 .. Len(c) - p PROVE r[i] = c[p + i]
  <2>1. r[i] = c[(p + 1) + i - 1]
    BY <1>1 DEF From
  <2>2. (p + 1) + i - 1 = p + i
    BY <1>1
  <2>3. QED
    BY <2>1, <2>2
<1>5. QED
  BY <1>2, <1>3, <1>4

(* A tail of what was cut is cut where it was. *)
LEMMA ReadsFrom ==
    ASSUME NEW M, NEW c \in Seq(M), NEW T, NEW buf \in Seq(T), NEW w, Reads(c, buf, w), w <= Len(buf),
           NEW p \in 0 .. w
    PROVE  Reads(From(c, p), From(buf, p), w - p) /\ p \in 0 .. Len(c)
<1> DEFINE r == From(c, p)
           b == From(buf, p)
<1>1. /\ w \in Nat /\ Len(c) \in {w, w + 1} /\ \A q \in 1 .. Len(c) : c[q] # Cut <=> q <= w
      /\ \A q \in 1 .. w : c[q] = buf[q]
  BY DEF Reads
<1>2. p \in 0 .. Len(c) /\ p \in 0 .. Len(buf) /\ p \in Nat /\ p <= w /\ Len(c) \in Nat /\ Len(buf) \in Nat
  BY <1>1
<1>3. Len(r) = Len(c) - p /\ \A i \in 1 .. Len(c) - p : r[i] = c[p + i]
  BY <1>2, FromFacts
<1>4. \A i \in 1 .. Len(buf) - p : b[i] = buf[p + i]
  BY <1>2, FromFacts
<1> HIDE DEF r, b
<1>5. w - p \in Nat /\ Len(r) \in {w - p, (w - p) + 1}
  BY <1>1, <1>2, <1>3
<1>6. ASSUME NEW i \in 1 .. Len(r) PROVE r[i] # Cut <=> i <= w - p
  <2>1. i \in 1 .. Len(c) - p /\ p + i \in 1 .. Len(c) /\ (p + i <= w <=> i <= w - p)
    BY <1>1, <1>2, <1>3
  <2>2. QED
    BY <1>1, <1>3, <2>1
<1>7. ASSUME NEW i \in 1 .. w - p PROVE r[i] = b[i]
  <2>1. i \in 1 .. Len(c) - p /\ i \in 1 .. Len(buf) - p /\ p + i \in 1 .. w
    BY <1>1, <1>2
  <2>2. QED
    BY <1>1, <1>3, <1>4, <2>1
<1>8. QED
  BY <1>2, <1>5, <1>6, <1>7 DEF Reads, r, b

(* The tail of a tail. *)
LEMMA FromFrom ==
    ASSUME NEW M, NEW c \in Seq(M), NEW p \in 0 .. Len(c), NEW q \in 0 .. Len(c) - p
    PROVE  From(From(c, p), q) = From(c, p + q)
<1> DEFINE r == From(c, p)
<1>1. Len(c) \in Nat /\ p \in Nat /\ q \in Nat /\ p + q \in 0 .. Len(c)
  OBVIOUS
<1>2. r \in Seq(M) /\ Len(r) = Len(c) - p /\ \A i \in 1 .. Len(c) - p : r[i] = c[p + i]
  BY FromFacts
<1> HIDE DEF r
<1>3. q \in 0 .. Len(r)
  BY <1>2
<1>4. /\ From(r, q) \in Seq(M) /\ Len(From(r, q)) = Len(r) - q
      /\ \A i \in 1 .. Len(r) - q : From(r, q)[i] = r[q + i]
  BY <1>2, <1>3, FromFacts
<1>5. /\ From(c, p + q) \in Seq(M) /\ Len(From(c, p + q)) = Len(c) - (p + q)
      /\ \A i \in 1 .. Len(c) - (p + q) : From(c, p + q)[i] = c[(p + q) + i]
  BY <1>1, FromFacts
<1>6. Len(c) - (p + q) = Len(r) - q
  BY <1>1, <1>2
<1>7. ASSUME NEW i \in 1 .. Len(r) - q PROVE From(r, q)[i] = From(c, p + q)[i]
  <2>1. q + i \in 1 .. Len(c) - p /\ p + (q + i) = (p + q) + i
    BY <1>1, <1>2
  <2>2. QED
    BY <1>2, <1>4, <1>5, <1>6, <2>1
<1>8. From(r, q) = From(c, p + q)
  <2> DEFINE x == From(r, q)
             y == From(c, p + q)
             n == Len(r) - q
  <2>1. x \in Seq(M) /\ y \in Seq(M) /\ Len(x) = n /\ Len(y) = n /\ \A i \in 1 .. n : x[i] = y[i]
    BY <1>4, <1>5, <1>6, <1>7
  <2> HIDE DEF x, y, n
  <2>2. x = y
    BY <2>1
  <2>3. QED
    BY <2>2 DEF x, y
<1>9. QED
  BY <1>8 DEF r

(* Splitting off a frame that stands at the beginning. *)
LEMMA SplitFacts ==
    ASSUME NEW body \in Seq(Tokens), NEW c, NEW M, c \in Seq(M), NEW buf, NEW w, Reads(c, buf, w),
           buf[1] = Token(Len(body)), StandsAt(buf, 1, body)
    PROVE  /\ w >= 1 + Len(body) => split_frame(c) = <<[body |-> body, rest |-> From(c, 1 + Len(body))]>>
           /\ w < 1 + Len(body) => split_frame(c) = Nothing
<1> DEFINE n == Len(body)
<1>1. n \in Nat /\ w \in Nat /\ Len(c) \in Nat /\ Len(c) \in {w, w + 1}
  BY DEF Reads
<1>2. Has(c, 1) <=> 1 <= w
  BY HasFacts
<1>3. Len(Whole(c)) = w
  BY WholeFacts
<1>4. CASE w = 0
  <2>1. split_frame(c) = Nothing
    BY <1>2, <1>4 DEF split_frame
  <2>2. ~ (w >= 1 + n)
    BY <1>1, <1>4
  <2>3. QED
    BY <2>1, <2>2
<1>5. CASE w # 0
  <2>1. Has(c, 1) /\ c[1].token = n
    <3>1. 1 <= w /\ 1 \in 1 .. w
      BY <1>1, <1>5
    <3>2. c[1] = Token(n)
      BY <3>1 DEF Reads
    <3>3. QED
      BY <1>2, <3>1, <3>2, TokenFacts
  <2>2. split_frame(c) = IF w < 1 + n THEN Nothing
                         ELSE <<[body |-> SubSeq(c, 2, n + 1), rest |-> SubSeq(c, n + 2, Len(c))]>>
    BY <1>3, <2>1 DEF split_frame
  <2>3. CASE w < 1 + n
    <3>1. ~ (w >= 1 + n)
      BY <1>1, <2>3
    <3>2. QED
      BY <2>2, <2>3, <3>1
  <2>4. CASE w >= 1 + n
    <3> DEFINE b == SubSeq(c, 2, n + 1)
    <3>1. ~ (w < 1 + n) /\ n + 2 = (1 + n) + 1 /\ n + 1 <= Len(c)
      BY <1>1, <2>4
    <3>2. b \in Seq(M) /\ Len(b) = n /\ \A i \in 1 .. n : b[i] = c[2 + i - 1]
      BY <1>1, <3>1
    <3>3. ASSUME NEW i \in 1 .. n PROVE b[i] = body[i]
      <4>1. 2 + i - 1 = 1 + i /\ 1 + i \in 1 .. w
        BY <1>1, <2>4
      <4>2. c[1 + i] = buf[1 + i]
        BY <4>1 DEF Reads
      <4>3. buf[1 + i] = body[i]
        BY DEF StandsAt
      <4>4. QED
        BY <3>2, <4>1, <4>2, <4>3
    <3>4. b = body
      <4> HIDE DEF b
      <4> QED BY <3>2, <3>3
    <3>5. SubSeq(c, n + 2, Len(c)) = From(c, 1 + n)
      BY <3>1 DEF From
    <3> HIDE DEF b, n
    <3>6. split_frame(c) = <<[body |-> body, rest |-> From(c, 1 + n)]>>
      BY <2>2, <3>1, <3>4, <3>5 DEF b
    <3>7. QED
      BY <3>1, <3>6 DEF n
  <2>5. QED
    BY <1>1, <2>3, <2>4
<1>6. QED
  BY <1>4, <1>5

(* A frame as it is written. *)
LEMMA FrameWritten ==
    ASSUME NEW m, IsMessage(m)
    PROVE  LET body == encode_settle_msg(m)
               f == encode_frame(body)
           IN  /\ body \in Seq(Tokens) /\ f \in Seq(Tokens) /\ Len(f) = 1 + Len(body)
               /\ f[1] = Token(Len(body)) /\ StandsAt(f, 1, body) /\ decode_settle_msg(body) = <<m>>
<1> DEFINE body == encode_settle_msg(m)
           h == <<Token(Len(body))>>
           f == h \o body
<1>1. body \in Seq(Tokens)
  BY ReadsNone, MessageRead
<1>2. Len(body) \in Nat /\ Reads(body, body, Len(body))
  <2> HIDE DEF body
  <2>1. Len(body) \in Nat
    BY <1>1
  <2>2. QED
    BY <1>1, <2>1, TokensFacts, ReadsAll
<1>3. decode_settle_msg(body) = <<m>>
  BY <1>2, MessageRead
<1> HIDE DEF body
<1>4. h \in Seq(Tokens) /\ Len(h) = 1 /\ h[1] = Token(Len(body))
  BY <1>2, TokensFacts
<1>5. encode_frame(body) = f
  BY DEF encode_frame
<1> HIDE DEF h
<1>6. f \in Seq(Tokens) /\ Len(f) = Len(h) + Len(body) /\ \A i \in 1 .. Len(h) : f[i] = h[i]
  BY <1>1, <1>4, ConcatFacts
<1>7. StandsAt(f, Len(h), body)
  BY <1>1, <1>4, ConcatFacts
<1> HIDE DEF f
<1>8. /\ f \in Seq(Tokens) /\ Len(f) = 1 + Len(body) /\ f[1] = Token(Len(body)) /\ StandsAt(f, 1, body)
  BY <1>2, <1>4, <1>6, <1>7
<1>9. QED
  BY <1>1, <1>3, <1>5, <1>8 DEF body

(* The frames of the messages ms and where they are in the stream. *)
Framed(ms, frame, off, stream) ==
    /\ frame = [i \in 1 .. Len(ms) |-> encode_frame(encode_settle_msg(ms[i]))]
    /\ stream = FlattenSeq(frame) /\ Offsets(off, frame)

(* The frames of messages have offsets in the stream. *)
LEMMA FramedFacts ==
    ASSUME NEW N, \A m \in N : IsMessage(m), NEW ms \in Seq(N), NEW frame, NEW off, NEW stream,
           Framed(ms, frame, off, stream)
    PROVE  /\ frame \in Seq(Seq(Tokens)) /\ Len(frame) = Len(ms)
           /\ stream \in Seq(Tokens) /\ Len(stream) = off[Len(ms)]
           /\ off \in [0 .. Len(ms) -> Nat] /\ off[0] = 0
           /\ \A k \in 1 .. Len(ms) :
                 /\ off[k] = off[k - 1] + 1 + Len(encode_settle_msg(ms[k]))
                 /\ StandsAt(stream, off[k - 1], frame[k])
                 /\ frame[k] = encode_frame(encode_settle_msg(ms[k])) /\ IsMessage(ms[k])
<1> DEFINE n == Len(ms)
<1>1. n \in Nat /\ \A i \in 1 .. n : ms[i] \in N
  OBVIOUS
<1>2. \A i \in 1 .. n : IsMessage(ms[i])
  BY <1>1
<1>3. ASSUME NEW i \in 1 .. n
      PROVE  frame[i] \in Seq(Tokens) /\ frame[i] = encode_frame(encode_settle_msg(ms[i]))
             /\ Len(frame[i]) = 1 + Len(encode_settle_msg(ms[i]))
  <2>1. frame[i] = encode_frame(encode_settle_msg(ms[i]))
    BY DEF Framed
  <2>2. QED
    BY <1>2, <2>1, FrameWritten
<1>4. frame \in Seq(Seq(Tokens)) /\ Len(frame) = n
  <2>1. frame = [i \in 1 .. n |-> frame[i]]
    BY DEF Framed
  <2> DEFINE A == Seq(Tokens)
  <2>2. \A i \in 1 .. n : frame[i] \in A
    BY <1>3
  <2> HIDE DEF A, n
  <2>3. frame \in Seq(A) /\ Len(frame) = n
    BY <1>1, <2>1, <2>2
  <2>4. QED
    BY <2>3 DEF A, n
<1>5. Offsets(off, frame) /\ stream = FlattenSeq(frame)
  BY DEF Framed
<1>6. stream \in Seq(Tokens) /\ Flattened(stream, off, frame)
  BY <1>4, <1>5, FlattenFacts
<1>7. /\ off \in [0 .. n -> Nat] /\ off[0] = 0
      /\ \A k \in 1 .. n : off[k] = off[k - 1] + Len(frame[k])
  BY <1>4, <1>5 DEF Offsets
<1>8. Len(stream) = off[n] /\ \A k \in 1 .. n : StandsAt(stream, off[k - 1], frame[k])
  BY <1>4, <1>6 DEF Flattened
<1>9. ASSUME NEW k \in 1 .. n PROVE off[k] = off[k - 1] + 1 + Len(encode_settle_msg(ms[k]))
  <2>1. off[k - 1] \in Nat
    BY <1>1, <1>7
  <2>2. Len(encode_settle_msg(ms[k])) \in Nat
    <3>1. encode_settle_msg(ms[k]) \in Seq(Tokens)
      BY <1>2, FrameWritten
    <3>2. QED
      BY <3>1
  <2>3. off[k] = off[k - 1] + (1 + Len(encode_settle_msg(ms[k])))
    BY <1>3, <1>7
  <2>4. QED
    BY <2>1, <2>2, <2>3
<1>10. QED
  BY <1>2, <1>3, <1>4, <1>6, <1>7, <1>8, <1>9

(* k is the number of messages that are whole in the first w tokens. *)
Complete(off, n, w, k) == k \in 0 .. n /\ off[k] <= w /\ (k < n => w < off[k + 1])

(* One pass of the loop, with t messages behind it. *)
LEMMA PassFacts ==
    ASSUME NEW N, \A m \in N : IsMessage(m), NEW ms \in Seq(N), NEW frame, NEW off, NEW stream,
           Framed(ms, frame, off, stream),
           NEW M, NEW c \in Seq(M), NEW w, Reads(c, stream, w), w <= Len(stream),
           NEW k, Complete(off, Len(ms), w, k), NEW t \in 0 .. k
    PROVE  /\ off[t] \in 0 .. w /\ off[t] \in 0 .. Len(c)
           /\ t < k => /\ split_frame(From(c, off[t])) =
                             <<[body |-> encode_settle_msg(ms[t + 1]), rest |-> From(c, off[t + 1])]>>
                       /\ decode_settle_msg(encode_settle_msg(ms[t + 1])) = <<ms[t + 1]>>
           /\ t = k => split_frame(From(c, off[t])) = Nothing
<1> DEFINE n == Len(ms)
           r == From(c, off[t])
           b == From(stream, off[t])
           body == encode_settle_msg(ms[t + 1])
           f == encode_frame(body)
<1>1. /\ frame \in Seq(Seq(Tokens)) /\ Len(frame) = n
      /\ stream \in Seq(Tokens) /\ Len(stream) = off[n] /\ off \in [0 .. n -> Nat]
  BY FramedFacts
<1>2. \A j \in 1 .. n : /\ off[j] = off[j - 1] + 1 + Len(encode_settle_msg(ms[j]))
                        /\ StandsAt(stream, off[j - 1], frame[j])
                        /\ frame[j] = encode_frame(encode_settle_msg(ms[j])) /\ IsMessage(ms[j])
  BY FramedFacts
<1>3. k \in 0 .. n /\ off[k] <= w /\ (k < n => w < off[k + 1])
  BY DEF Complete
<1>4. n \in Nat /\ k \in Nat /\ t \in Nat /\ t <= k /\ k <= n /\ t \in 0 .. n
  <2>1. n \in Nat
    OBVIOUS
  <2> HIDE DEF n
  <2>2. QED
    BY <1>3, <2>1
<1>5. w \in Nat /\ (Len(c) = w \/ Len(c) = w + 1)
  BY DEF Reads
<1>6. off[t] \in 0 .. w /\ off[t] \in Nat
  <2>1. off[t] <= off[k]
    BY <1>1, <1>3, <1>4, OffsetsGrow DEF Framed
  <2>2. off[t] \in Nat /\ off[k] \in Nat
    BY <1>1, <1>3, <1>4
  <2>3. QED
    BY <1>3, <1>5, <2>1, <2>2
<1>7. Reads(r, b, w - off[t]) /\ off[t] \in 0 .. Len(c)
  BY <1>1, <1>6, ReadsFrom
<1>8. r \in Seq(M) /\ Len(r) = Len(c) - off[t]
  BY <1>7, FromFacts
<1> HIDE DEF r, b
<1>9. ASSUME t < n
      PROVE  /\ IsMessage(ms[t + 1]) /\ off[t + 1] = off[t] + 1 + Len(body) /\ Len(body) \in Nat
             /\ body \in Seq(Tokens) /\ decode_settle_msg(body) = <<ms[t + 1]>>
             /\ b[1] = Token(Len(body)) /\ StandsAt(b, 1, body) /\ off[t + 1] \in Nat
  <2>1. t + 1 \in 1 .. n /\ (t + 1) - 1 = t /\ t + 1 \in 0 .. n
    <3> HIDE DEF n
    <3> QED BY <1>4, <1>9
  <2>2. /\ off[t + 1] = off[(t + 1) - 1] + 1 + Len(body) /\ StandsAt(stream, off[(t + 1) - 1], frame[t + 1])
        /\ frame[t + 1] = f /\ IsMessage(ms[t + 1])
    BY <1>2, <2>1
  <2>3. off[t + 1] = off[t] + 1 + Len(body) /\ StandsAt(stream, off[t], f) /\ off[t + 1] \in Nat
    BY <1>1, <2>1, <2>2
  <2>4. /\ body \in Seq(Tokens) /\ f \in Seq(Tokens) /\ Len(f) = 1 + Len(body)
        /\ f[1] = Token(Len(body)) /\ StandsAt(f, 1, body) /\ decode_settle_msg(body) = <<ms[t + 1]>>
    BY <2>2, FrameWritten
  <2> HIDE DEF body, f
  <2>5. Len(body) \in Nat
    BY <2>4
  <2>6. off[t + 1] <= off[n]
    <3>1. t + 1 \in 0 .. Len(frame) /\ n \in 0 .. Len(frame) /\ t + 1 <= n
      BY <1>1, <1>4, <2>1
    <3>2. QED
      BY <1>1, <3>1, OffsetsGrow DEF Framed
  <2>7. off[n] \in Nat
    BY <1>1, <1>4
  <2>8. \A i \in 1 .. Len(stream) - off[t] : b[i] = stream[off[t] + i]
    <3>1. off[t] \in 0 .. Len(stream)
      BY <1>1, <1>6, <2>3, <2>5, <2>6, <2>7
    <3>2. QED
      BY <1>1, <3>1, FromFacts DEF b
  <2>9. ASSUME NEW i \in 1 .. Len(f) PROVE b[i] = f[i]
    <3>1. i \in 1 .. Len(stream) - off[t]
      BY <1>1, <1>6, <2>3, <2>4, <2>5, <2>6, <2>7
    <3>2. QED
      BY <2>3, <2>8, <3>1 DEF StandsAt
  <2>10. b[1] = Token(Len(body))
    BY <2>4, <2>5, <2>9
  <2>11. ASSUME NEW i \in 1 .. Len(body) PROVE b[1 + i] = body[i]
    <3>1. 1 + i \in 1 .. Len(f)
      BY <2>4, <2>5
    <3>2. QED
      BY <2>4, <2>9, <3>1 DEF StandsAt
  <2>12. StandsAt(b, 1, body)
    BY <2>11 DEF StandsAt
  <2>13. QED
    BY <2>2, <2>3, <2>4, <2>5, <2>10, <2>12
<1> HIDE DEF body, n
<1>10. ASSUME t < n
       PROVE  /\ w - off[t] >= 1 + Len(body) => split_frame(r) = <<[body |-> body, rest |-> From(r, 1 + Len(body))]>>
              /\ w - off[t] < 1 + Len(body) => split_frame(r) = Nothing
  <2>1. body \in Seq(Tokens) /\ b[1] = Token(Len(body)) /\ StandsAt(b, 1, body)
    BY <1>9, <1>10
  <2>2. QED
    BY <1>7, <1>8, <2>1, SplitFacts
<1>11. ASSUME t < k
       PROVE  split_frame(r) = <<[body |-> body, rest |-> From(c, off[t + 1])]>>
              /\ decode_settle_msg(body) = <<ms[t + 1]>>
  <2>1. t < n
    BY <1>4, <1>11
  <2>2. /\ off[t + 1] = off[t] + 1 + Len(body) /\ Len(body) \in Nat /\ off[t + 1] \in Nat
        /\ decode_settle_msg(body) = <<ms[t + 1]>>
    BY <1>9, <2>1
  <2>3. off[t + 1] <= off[k]
    <3>1. t + 1 \in 0 .. n /\ t + 1 <= k
      BY <1>4, <1>11
    <3>2. QED
      BY <1>1, <1>3, <3>1, OffsetsGrow DEF Framed
  <2>4. off[k] \in Nat
    BY <1>1, <1>3
  <2>5. w - off[t] >= 1 + Len(body)
    BY <1>3, <1>5, <1>6, <2>2, <2>3, <2>4
  <2>6. split_frame(r) = <<[body |-> body, rest |-> From(r, 1 + Len(body))]>>
    BY <1>10, <2>1, <2>5
  <2>7. From(r, 1 + Len(body)) = From(c, off[t] + (1 + Len(body)))
    <3>1. 1 + Len(body) \in 0 .. Len(c) - off[t]
      BY <1>5, <1>6, <2>2, <2>5
    <3>2. QED
      BY <1>7, <3>1, FromFrom DEF r
  <2>8. off[t] + (1 + Len(body)) = off[t + 1]
    <3>1. off[t + 1] = off[t] + 1 + Len(body) /\ Len(body) \in Nat /\ off[t] \in Nat
      BY <1>6, <2>2
    <3>2. \A x, y \in Nat : x + 1 + y = x + (1 + y)
      OBVIOUS
    <3>3. QED
      BY <3>1, <3>2
  <2>9. QED
    BY <2>2, <2>6, <2>7, <2>8
<1>12. ASSUME t = k PROVE split_frame(r) = Nothing
  <2>1. CASE t < n
    <3>1. off[t + 1] = off[t] + 1 + Len(body) /\ Len(body) \in Nat /\ off[t + 1] \in Nat
      BY <1>9, <2>1
    <3>2. w < off[t + 1]
      BY <1>3, <1>12, <2>1
    <3>3. w - off[t] < 1 + Len(body)
      BY <1>5, <1>6, <3>1, <3>2
    <3>4. QED
      BY <1>10, <2>1, <3>3
  <2>2. CASE ~ (t < n)
    <3>1. t = n
      BY <1>4, <2>2
    <3>2. w - off[t] = 0
      BY <1>1, <1>5, <1>6, <3>1
    <3>3. ~ Has(r, 1)
      <4>1. Has(r, 1) <=> 1 <= w - off[t]
        BY <1>7, HasFacts
      <4>2. QED
        BY <3>2, <4>1
    <3>4. QED
      BY <3>3 DEF split_frame
  <2>3. QED
    BY <2>1, <2>2
<1>13. QED
  BY <1>6, <1>7, <1>11, <1>12 DEF r, body

(* Each frame has a token at least. *)
LEMMA OffsetsApart ==
    ASSUME NEW n \in Nat, NEW off, off \in [0 .. n -> Nat], \A k \in 1 .. n : off[k - 1] + 1 <= off[k],
           NEW i \in 0 .. n, NEW j \in 0 .. n, i <= j
    PROVE  off[i] + (j - i) <= off[j]
<1> DEFINE S == {k \in 0 .. n : i <= k => off[i] + (k - i) <= off[k]}
<1>1. 0 \in S
  OBVIOUS
<1>2. ASSUME NEW k \in 0 .. n - 1, k \in S PROVE k + 1 \in S
  <2>1. k + 1 \in 1 .. n /\ k + 1 \in 0 .. n /\ (k + 1) - 1 = k /\ k \in 0 .. n /\ i \in Nat /\ k \in Nat
    OBVIOUS
  <2>2. off[(k + 1) - 1] + 1 <= off[k + 1]
    BY <2>1
  <2>3. off[k] + 1 <= off[k + 1] /\ off[k] \in Nat /\ off[k + 1] \in Nat /\ off[i] \in Nat
    BY <2>1, <2>2
  <2>4. ASSUME i <= k + 1 PROVE off[i] + ((k + 1) - i) <= off[k + 1]
    <3>1. CASE i = k + 1
      BY <2>3, <3>1
    <3>2. CASE i # k + 1
      <4>1. i <= k
        BY <2>1, <2>4, <3>2
      <4>2. off[i] + (k - i) <= off[k]
        BY <1>2, <4>1
      <4>3. QED
        BY <2>1, <2>3, <4>2
    <3>3. QED
      BY <3>1, <3>2
  <2>5. QED
    BY <2>1, <2>4
<1>3. j \in S
  <2> HIDE DEF S
  <2>1. \A k \in 0 .. n : k \in S
    BY <1>1, <1>2, UpTo
  <2>2. QED
    BY <2>1
<1>4. QED
  BY <1>3

(* The loop over the tail of c after j messages takes those up to k. *)
Drains(c, off, ms, j, k) ==
    /\ Drained(From(c, off[j])).got = SubSeq(ms, j + 1, k)
    /\ Drained(From(c, off[j])).rest = From(c, off[k])

(* The loop takes the messages that are whole, in order, and leaves the    *)
(* rest.                                                                   *)
LEMMA DrainFacts ==
    ASSUME NEW N, \A m \in N : IsMessage(m), NEW ms \in Seq(N), NEW frame, NEW off, NEW stream,
           Framed(ms, frame, off, stream),
           NEW M, NEW c \in Seq(M), NEW w, Reads(c, stream, w), w <= Len(stream),
           NEW k, Complete(off, Len(ms), w, k), NEW j \in 0 .. k
    PROVE  Drains(c, off, ms, j, k)
<1> DEFINE n == Len(ms)
           buf == From(c, off[j])
           L == Len(buf)
           St(t) == [got |-> SubSeq(ms, j + 1, t), rest |-> From(c, off[t])]
           At(i) == IF j + i <= k THEN j + i ELSE k
           First == [got |-> <<>>, rest |-> buf]
           Step(a) == IF split_frame(a.rest) = Nothing THEN a
                      ELSE [got |-> a.got \o decode_settle_msg(split_frame(a.rest)[1].body),
                            rest |-> split_frame(a.rest)[1].rest]
           IsAfter(f) == f = [i \in 0 .. L |-> IF i = 0 THEN First ELSE Step(f[i - 1])]
           after == CHOOSE f : IsAfter(f)
<1>1. n \in Nat /\ k \in 0 .. n /\ k \in Nat /\ j \in Nat /\ j <= k /\ k <= n
  <2>1. n \in Nat /\ k \in 0 .. n
    BY DEF Complete
  <2> HIDE DEF n
  <2>2. QED
    BY <2>1
<1>2. Drained(buf) = after[L]
  BY DEF Drained
<1>3. ASSUME NEW t \in 0 .. k
      PROVE  /\ off[t] \in 0 .. w /\ off[t] \in 0 .. Len(c)
             /\ t < k => /\ split_frame(From(c, off[t])) =
                               <<[body |-> encode_settle_msg(ms[t + 1]), rest |-> From(c, off[t + 1])]>>
                         /\ decode_settle_msg(encode_settle_msg(ms[t + 1])) = <<ms[t + 1]>>
             /\ t = k => split_frame(From(c, off[t])) = Nothing
  BY PassFacts
<1>4. off[j] \in 0 .. Len(c)
  BY <1>3
<1>5. L = Len(c) - off[j] /\ L \in Nat
  <2>1. L = Len(c) - off[j]
    BY <1>4, FromFacts
  <2>2. Len(c) \in Nat
    OBVIOUS
  <2> HIDE DEF L
  <2>3. QED
    BY <1>4, <2>1, <2>2
<1>6. k - j <= L
  <2>1. /\ off \in [0 .. n -> Nat]
        /\ \A i \in 1 .. n : off[i] = off[i - 1] + 1 + Len(encode_settle_msg(ms[i])) /\ IsMessage(ms[i])
    BY FramedFacts
  <2>2. ASSUME NEW i \in 1 .. n PROVE off[i - 1] + 1 <= off[i]
    <3>1. encode_settle_msg(ms[i]) \in Seq(Tokens)
      BY <2>1, FrameWritten
    <3>2. Len(encode_settle_msg(ms[i])) \in Nat
      BY <3>1
    <3>3. off[i - 1] \in Nat /\ off[i] = off[i - 1] + 1 + Len(encode_settle_msg(ms[i]))
      <4>1. i - 1 \in 0 .. n
        <5> HIDE DEF n
        <5> QED BY <1>1
      <4>2. QED
        BY <2>1, <4>1
    <3>4. QED
      BY <3>2, <3>3
  <2>3. off[j] + (k - j) <= off[k]
    <3>1. j \in 0 .. n
      BY <1>1
    <3> HIDE DEF n
    <3>2. QED
      BY <1>1, <2>1, <2>2, <3>1, OffsetsApart
  <2>4. off[k] \in 0 .. Len(c) /\ Len(c) \in Nat
    <3>1. k \in 0 .. k
      BY <1>1
    <3>2. off[k] \in 0 .. Len(c)
      BY <1>3, <3>1, Zenon
    <3>3. QED
      BY <3>2
  <2> HIDE DEF L, n
  <2>5. QED
    BY <1>1, <1>4, <1>5, <2>3, <2>4
<1> HIDE DEF buf, L
<1>7. St(j) = First
  <2>1. SubSeq(ms, j + 1, j) = <<>>
    BY <1>1
  <2>2. QED
    BY <2>1 DEF buf
<1>8. ASSUME NEW t \in 0 .. k, t >= j PROVE (t < k => Step(St(t)) = St(t + 1)) /\ (t = k => Step(St(t)) = St(t))
  <2> DEFINE a == St(t)
  <2>1. a.got = SubSeq(ms, j + 1, t) /\ a.rest = From(c, off[t])
    OBVIOUS
  <2>2. ASSUME t = k PROVE Step(a) = a
    <3> HIDE DEF a
    <3> QED BY <1>3, <2>1, <2>2
  <2>3. ASSUME t < k PROVE Step(a) = St(t + 1)
    <3> DEFINE f == split_frame(a.rest)
               body == encode_settle_msg(ms[t + 1])
               v == [body |-> body, rest |-> From(c, off[t + 1])]
    <3>1. f = <<v>> /\ decode_settle_msg(body) = <<ms[t + 1]>>
      <4> HIDE DEF a
      <4> QED BY <1>3, <2>1, <2>3
    <3> HIDE DEF f
    <3>2. f # Nothing
      <4> HIDE DEF v
      <4> QED BY <3>1, SingleNotEmpty DEF Nothing
    <3>3. f[1].body = body /\ f[1].rest = From(c, off[t + 1])
      <4>1. f[1] = v
        <5> HIDE DEF v
        <5> QED BY <3>1
      <4>2. QED
        BY <4>1
    <3>4. SubSeq(ms, j + 1, t) \o <<ms[t + 1]>> = SubSeq(ms, j + 1, t + 1)
      <4>1. t \in Nat /\ t + 1 <= n /\ j <= t
        <5> HIDE DEF n
        <5> QED BY <1>1, <1>8, <2>3
      <4> DEFINE x == SubSeq(ms, j + 1, t)
                 y == SubSeq(ms, j + 1, t + 1)
                 h == <<ms[t + 1]>>
      <4>2. x \in Seq(N) /\ Len(x) = t - j /\ \A i \in 1 .. t - j : x[i] = ms[j + i]
        <5>1. x \in Seq(N) /\ Len(x) = t - j /\ \A i \in 1 .. t - j : x[i] = ms[(j + 1) + i - 1]
          BY <1>1, <4>1
        <5>2. \A i \in 1 .. t - j : (j + 1) + i - 1 = j + i
          BY <1>1
        <5> HIDE DEF x
        <5>3. QED
          BY <5>1, <5>2
      <4>3. y \in Seq(N) /\ Len(y) = (t + 1) - j /\ \A i \in 1 .. (t + 1) - j : y[i] = ms[j + i]
        <5>1. y \in Seq(N) /\ Len(y) = (t + 1) - j /\ \A i \in 1 .. (t + 1) - j : y[i] = ms[(j + 1) + i - 1]
          BY <1>1, <4>1
        <5>2. \A i \in 1 .. (t + 1) - j : (j + 1) + i - 1 = j + i
          BY <1>1
        <5> HIDE DEF y
        <5>3. QED
          BY <5>1, <5>2
      <4>4. ms[t + 1] \in N
        BY <4>1
      <4>5. h \in Seq(N) /\ Len(h) = 1 /\ h[1] = ms[t + 1]
        BY <4>4
      <4> HIDE DEF x, y, h
      <4>6. x \o h \in Seq(N) /\ Len(x \o h) = Len(x) + Len(h) /\ \A i \in 1 .. Len(x) : (x \o h)[i] = x[i]
        BY <4>2, <4>5, ConcatFacts
      <4>7. StandsAt(x \o h, Len(x), h)
        BY <4>2, <4>5, ConcatFacts
      <4> DEFINE z == x \o h
      <4>8. z[(t - j) + 1] = ms[t + 1]
        <5>1. 1 \in 1 .. Len(h)
          BY <4>5
        <5>2. z[Len(x) + 1] = h[1]
          BY <4>7, <5>1 DEF StandsAt
        <5>3. QED
          BY <4>2, <4>5, <5>2
      <4>9. z \in Seq(N) /\ Len(z) = (t + 1) - j
        BY <1>1, <4>1, <4>2, <4>5, <4>6
      <4>10. ASSUME NEW i \in 1 .. (t + 1) - j PROVE z[i] = y[i]
        <5>1. CASE i \in 1 .. t - j
          BY <4>2, <4>3, <4>6, <5>1
        <5>2. CASE i = (t - j) + 1
          <6>1. j + i = t + 1
            BY <1>1, <4>1, <5>2
          <6>2. QED
            BY <4>3, <4>8, <5>2, <6>1
        <5>3. i \in 1 .. t - j \/ i = (t - j) + 1
          BY <1>1, <4>1
        <5>4. QED
          BY <5>1, <5>2, <5>3, Zenon
      <4> HIDE DEF z
      <4>11. z = y
        BY <4>3, <4>9, <4>10
      <4>12. QED
        BY <4>11 DEF x, y, z, h
    <3> HIDE DEF a
    <3>5. Step(a) = [got |-> a.got \o decode_settle_msg(f[1].body), rest |-> f[1].rest]
      BY <3>2 DEF f
    <3>6. QED
      BY <2>1, <3>1, <3>3, <3>4, <3>5
  <2>4. QED
    BY <2>2, <2>3
<1> HIDE DEF St, Step, First
<1>9. At(0) = j /\ \A i \in 1 .. L : /\ At(i - 1) \in 0 .. k /\ At(i - 1) >= j
                                     /\ At(i) = IF At(i - 1) < k THEN At(i - 1) + 1 ELSE At(i - 1)
                                     /\ ~ (At(i - 1) < k) => At(i - 1) = k
  BY <1>1, <1>5
<1>10. At(L) = k
  BY <1>1, <1>5, <1>6
<1>11. ASSUME NEW i \in 1 .. L PROVE Step(St(At(i - 1))) = St(At(i))
  <2> DEFINE t == At(i - 1)
  <2>1. t \in 0 .. k /\ t >= j /\ At(i) = (IF t < k THEN t + 1 ELSE t) /\ (~ (t < k) => t = k)
    BY <1>9
  <2> HIDE DEF t, At
  <2>2. CASE t < k
    BY <1>8, <2>1, <2>2 DEF t
  <2>3. CASE ~ (t < k)
    BY <1>8, <2>1, <2>3 DEF t
  <2>4. QED
    BY <2>2, <2>3
<1> HIDE DEF At
<1> DEFINE g == [i \in 0 .. L |-> St(At(i))]
<1>12. IsAfter(g)
  <2>1. ASSUME NEW i \in 0 .. L PROVE g[i] = IF i = 0 THEN First ELSE Step(g[i - 1])
    <3>1. CASE i = 0
      BY <1>7, <1>9, <3>1
    <3>2. CASE i # 0
      <4>1. i \in 1 .. L /\ i - 1 \in 0 .. L
        BY <1>5, <3>2
      <4>2. QED
        BY <1>11, <3>2, <4>1
    <3>3. QED
      BY <3>1, <3>2
  <2>2. g = [i \in 0 .. L |-> g[i]]
    OBVIOUS
  <2> HIDE DEF g
  <2>3. QED
    BY <2>1, <2>2
<1>13. IsAfter(after)
  <2> HIDE DEF IsAfter
  <2> QED BY <1>12
<1> HIDE DEF after
<1>14. \A i \in 0 .. L : after[i] = IF i = 0 THEN First ELSE Step(after[i - 1])
  BY <1>13, Zenon
<1> DEFINE S == {i \in 0 .. L : after[i] = St(At(i))}
<1>15. 0 \in S
  <2>1. 0 \in 0 .. L
    BY <1>5
  <2>2. QED
    BY <1>7, <1>9, <1>14, <2>1
<1>16. ASSUME NEW i \in 0 .. L - 1, i \in S PROVE i + 1 \in S
  <2>1. i + 1 \in 1 .. L /\ i + 1 \in 0 .. L /\ (i + 1) - 1 = i /\ i + 1 # 0
    BY <1>5
  <2>2. after[i + 1] = Step(after[i])
    BY <1>14, <2>1
  <2>3. Step(St(At(i))) = St(At(i + 1))
    BY <1>11, <2>1
  <2>4. QED
    BY <1>16, <2>1, <2>2, <2>3
<1>17. after[L] = St(k)
  <2>1. L \in S
    <3> HIDE DEF S
    <3>1. \A i \in 0 .. L : i \in S
      BY <1>5, <1>15, <1>16, UpTo
    <3>2. QED
      BY <1>5, <3>1
  <2>2. QED
    BY <1>10, <2>1
<1>18. Drained(From(c, off[j])) = St(k)
  BY <1>2, <1>17 DEF buf
<1>19. St(k).got = SubSeq(ms, j + 1, k) /\ St(k).rest = From(c, off[k])
  BY DEF St
<1>20. QED
  BY <1>18, <1>19, Zenon DEF Drains

(* The accumulator under the other magic. *)
LEMMA SelfAccFacts ==
    ASSUME NEW f \in Nat, NEW acc, IsAcc(acc)
    PROVE  /\ decode_self_acc(encode_self_acc(f, acc)) = <<[fixed |-> f, acc |-> acc]>>
           /\ \A c \in Cuts(encode_self_acc(f, acc)) : decode_self_acc(c) = Nothing
<1> DEFINE rest == encode_acc_body(acc)
           h == <<Token("FSC1"), Token(f)>>
           buf == h \o rest
           n == Len(rest)
           v == [fixed |-> f, acc |-> acc]
<1>1. rest \in Seq(Tokens) /\ n \in Nat
  <2>1. rest \in Seq(Tokens)
    BY AccWritten
  <2> HIDE DEF rest
  <2>2. QED
    BY <2>1
<1>2. h \in Seq(Tokens) /\ Len(h) = 2 /\ h[1] = Token("FSC1") /\ h[2] = Token(f)
  BY TokensFacts
<1>3. encode_self_acc(f, acc) = buf
  BY DEF encode_self_acc
<1> HIDE DEF h, rest
<1>4. buf \in Seq(Tokens) /\ Len(buf) = Len(h) + n /\ \A i \in 1 .. Len(h) : buf[i] = h[i]
  BY <1>1, <1>2, ConcatFacts
<1>5. StandsAt(buf, Len(h), rest)
  BY <1>1, <1>2, ConcatFacts
<1> HIDE DEF buf, n
<1>6. Len(buf) = 2 + n /\ StandsAt(buf, 2, rest) /\ buf[1] = Token("FSC1") /\ buf[2] = Token(f)
  BY <1>2, <1>4, <1>5
<1>7. ASSUME NEW c, NEW w, Reads(c, buf, w)
      PROVE  /\ w >= 2 + n => decode_self_acc(c) = <<v>>
             /\ w < 2 + n => decode_self_acc(c) = Nothing
  <2> DEFINE l == decode_acc_body(c, 3)
  <2>1. w \in Nat
    BY <1>7 DEF Reads
  <2>2. (Has(c, 1) <=> 1 <= w) /\ (Has(c, 2) <=> 2 <= w)
    BY <1>7, HasFacts
  <2>3. 2 + 1 = 3 /\ 2 \in Nat
    OBVIOUS
  <2>4. /\ w >= 2 + n => decode_acc_body(c, 2 + 1) = <<acc>>
        /\ w < 2 + n => decode_acc_body(c, 2 + 1) = Nothing
    BY <1>6, <1>7, <2>3, AccRead DEF n, rest
  <2>5. CASE w < 2
    <3>1. ~ Has(c, 2)
      BY <2>1, <2>2, <2>5
    <3>2. decode_self_acc(c) = Nothing
      BY <3>1 DEF decode_self_acc
    <3>3. ~ (w >= 2 + n)
      BY <1>1, <2>1, <2>5
    <3>4. QED
      BY <3>2, <3>3
  <2>6. CASE w >= 2
    <3>1. Has(c, 1) /\ Has(c, 2) /\ 1 \in 1 .. w /\ 2 \in 1 .. w
      BY <2>1, <2>2, <2>6
    <3>2. c[1] = buf[1] /\ c[2] = buf[2]
      BY <1>7, <3>1 DEF Reads
    <3>3. c[1].token = "FSC1" /\ c[2].token = f
      BY <1>6, <3>2, TokenFacts
    <3>4. decode_self_acc(c) = [i \in DOMAIN l |-> [fixed |-> f, acc |-> l[i]]]
      BY <3>1, <3>3 DEF decode_self_acc
    <3>5. CASE w >= 2 + n
      <4>1. l = <<acc>>
        BY <2>3, <2>4, <3>5
      <4>2. DOMAIN l = 1 .. 1 /\ l[1] = acc
        BY <4>1
      <4> HIDE DEF l
      <4>3. decode_self_acc(c) = [i \in 1 .. 1 |-> v]
        BY <3>4, <4>2
      <4>4. decode_self_acc(c) = <<v>>
        <5> HIDE DEF v
        <5> QED BY <4>3
      <4>5. ~ (w < 2 + n)
        BY <1>1, <2>1, <3>5
      <4>6. QED
        BY <4>4, <4>5
    <3>6. CASE w < 2 + n
      <4>1. l = <<>>
        BY <2>3, <2>4, <3>6 DEF Nothing
      <4>2. DOMAIN l = {}
        BY <4>1
      <4> HIDE DEF l
      <4>3. decode_self_acc(c) = [i \in {} |-> v]
        BY <3>4, <4>2
      <4>4. decode_self_acc(c) = Nothing
        BY <4>3 DEF Nothing
      <4>5. ~ (w >= 2 + n)
        BY <1>1, <2>1, <3>6
      <4>6. QED
        BY <4>4, <4>5
    <3>7. QED
      BY <1>1, <2>1, <3>5, <3>6
  <2>7. QED
    BY <2>1, <2>5, <2>6
<1>8. decode_self_acc(buf) = <<v>>
  <2>1. Reads(buf, buf, Len(buf))
    BY <1>4, TokensFacts, ReadsAll
  <2>2. Len(buf) >= 2 + n
    BY <1>1, <1>6
  <2>3. QED
    BY <1>7, <2>1, <2>2
<1>9. ASSUME NEW c \in Cuts(buf) PROVE decode_self_acc(c) = Nothing
  <2>1. PICK w \in 0 .. Len(buf) - 1 : Reads(c, buf, w)
    BY <1>4, TokensFacts, CutsFacts
  <2>2. w < 2 + n
    BY <1>1, <1>6
  <2>3. QED
    BY <1>7, <2>1, <2>2
<1>10. QED
  BY <1>3, <1>8, <1>9

(* No message that was cut decodes. *)
LEMMA MessageCut ==
    ASSUME NEW m, IsMessage(m), NEW c \in Cuts(encode_settle_msg(m))
    PROVE  decode_settle_msg(c) = Nothing
<1> DEFINE body == encode_settle_msg(m)
<1>1. body \in Seq(Tokens)
  BY ReadsNone, MessageRead
<1>2. Len(body) \in Nat
  <2> HIDE DEF body
  <2> QED BY <1>1
<1>3. PICK w \in 0 .. Len(body) - 1 : Reads(c, body, w)
  BY <1>1, TokensFacts, CutsFacts
<1>4. w < Len(body)
  BY <1>2
<1>5. QED
  BY <1>3, <1>4, MessageRead

Greatest(S) == CHOOSE x \in S : \A y \in S : y <= x

(* How many messages are whole. *)
LEMMA GreatestComplete ==
    ASSUME NEW n \in Nat, NEW off \in [0 .. n -> Nat], off[0] = 0, NEW w \in Nat,
           \A i, j \in 0 .. n : i <= j => off[i] <= off[j], NEW S, S = {k \in 0 .. n : off[k] <= w}
    PROVE  Complete(off, n, w, Greatest(S)) /\ Greatest(S) \in S
<1>1. S \subseteq 0 .. n /\ S # {}
  <2>1. 0 \in S
    OBVIOUS
  <2>2. QED
    BY <2>1
<1>2. PICK k \in S : \A j \in S : j <= k
  BY <1>1, GreatestUpTo
<1>3. k \in 0 .. n /\ off[k] <= w /\ k \in Nat
  OBVIOUS
<1>4. ASSUME k < n PROVE w < off[k + 1]
  <2>1. k + 1 \in 0 .. n /\ ~ (k + 1 <= k)
    BY <1>3, <1>4
  <2>2. k + 1 \notin S
    BY <1>2, <2>1
  <2>3. ~ (off[k + 1] <= w) /\ off[k + 1] \in Nat
    BY <2>1, <2>2
  <2>4. QED
    BY <2>3
<1>5. \A x \in S : (\A y \in S : y <= x) => x = k
  <2>1. ASSUME NEW x \in S, \A y \in S : y <= x PROVE x = k
    <3>1. x <= k /\ k <= x /\ x \in Int
      BY <1>2, <2>1
    <3>2. QED
      BY <1>3, <3>1
  <2>2. QED
    BY <2>1
<1>6. Greatest(S) = k
  BY <1>2, <1>5 DEF Greatest
<1>7. QED
  BY <1>2, <1>3, <1>4, <1>6 DEF Complete

(* The whole list in two parts. *)
LEMMA TwoParts ==
    ASSUME NEW M, NEW s \in Seq(M), NEW p \in 0 .. Len(s), NEW q \in p .. Len(s)
    PROVE  SubSeq(s, p + 1, q) \o SubSeq(s, q + 1, Len(s)) = From(s, p)
<1> DEFINE x == SubSeq(s, p + 1, q)
           y == From(s, q)
           z == x \o y
           u == From(s, p)
<1>1. Len(s) \in Nat /\ p \in Nat /\ q \in Nat /\ p <= q /\ q <= Len(s) /\ q \in 0 .. Len(s)
  OBVIOUS
<1>2. x \in Seq(M) /\ Len(x) = q - p /\ \A i \in 1 .. q - p : x[i] = s[p + i]
  <2>1. x \in Seq(M) /\ Len(x) = q - p /\ \A i \in 1 .. q - p : x[i] = s[(p + 1) + i - 1]
    BY <1>1
  <2>2. \A i \in 1 .. q - p : (p + 1) + i - 1 = p + i
    BY <1>1
  <2> HIDE DEF x
  <2>3. QED
    BY <2>1, <2>2
<1>3. y \in Seq(M) /\ Len(y) = Len(s) - q /\ \A i \in 1 .. Len(s) - q : y[i] = s[q + i]
  BY <1>1, FromFacts
<1>4. u \in Seq(M) /\ Len(u) = Len(s) - p /\ \A i \in 1 .. Len(s) - p : u[i] = s[p + i]
  BY FromFacts
<1> HIDE DEF x, y, u
<1>5. z \in Seq(M) /\ Len(z) = Len(x) + Len(y) /\ (\A i \in 1 .. Len(x) : z[i] = x[i])
  BY <1>2, <1>3, ConcatFacts
<1>6. StandsAt(z, Len(x), y)
  BY <1>2, <1>3, ConcatFacts
<1> HIDE DEF z
<1>7. Len(z) = Len(s) - p
  BY <1>1, <1>2, <1>3, <1>5
<1>8. ASSUME NEW i \in 1 .. Len(s) - p PROVE z[i] = u[i]
  <2>1. CASE i \in 1 .. q - p
    BY <1>2, <1>4, <1>5, <2>1
  <2>2. CASE i \notin 1 .. q - p
    <3> DEFINE j == i - (q - p)
    <3>1. j \in 1 .. Len(s) - q /\ i = (q - p) + j /\ q + j = p + i
      BY <1>1, <2>2
    <3> HIDE DEF j
    <3>2. z[(q - p) + j] = y[j]
      BY <1>2, <1>3, <1>6, <3>1 DEF StandsAt
    <3>3. QED
      BY <1>3, <1>4, <3>1, <3>2
  <2>3. QED
    BY <2>1, <2>2
<1>9. z = u
  <2> DEFINE n == Len(s) - p
  <2>1. z \in Seq(M) /\ u \in Seq(M) /\ Len(z) = n /\ Len(u) = n /\ \A i \in 1 .. n : z[i] = u[i]
    BY <1>4, <1>5, <1>7, <1>8
  <2> HIDE DEF n
  <2>2. QED
    BY <2>1
<1>10. QED
  BY <1>9 DEF x, y, z, u, From

(* After nothing comes everything. *)
LEMMA FromNone ==
    ASSUME NEW M, NEW s \in Seq(M)
    PROVE  From(s, 0) = s /\ SubSeq(s, 1, Len(s)) = s
<1>1. Len(s) \in Nat /\ 0 \in 0 .. Len(s) /\ 0 + 1 = 1
  OBVIOUS
<1>2. SubSeq(s, 1, Len(s)) = s
  BY <1>1
<1>3. QED
  BY <1>1, <1>2 DEF From

(* The codec of settlement messages. *)
LEMMA StreamFacts ==
    ASSUME NEW N, \A m \in N : IsMessage(m), NEW ms \in Seq(N)
    PROVE  StreamExact(ms)
<1> DEFINE n == Len(ms)
           frame == [i \in DOMAIN ms |-> encode_frame(encode_settle_msg(ms[i]))]
           stream == FlattenSeq(frame)
<1>1. n \in Nat /\ DOMAIN ms = 1 .. n /\ \A i \in 1 .. n : IsMessage(ms[i])
  <2>1. n \in Nat /\ DOMAIN ms = 1 .. n /\ \A i \in 1 .. n : ms[i] \in N
    OBVIOUS
  <2>2. QED
    BY <2>1
<1>2. frame \in Seq(Seq(Tokens))
  <2> DEFINE A == Seq(Tokens)
  <2>1. \A i \in 1 .. n : encode_frame(encode_settle_msg(ms[i])) \in A
    BY <1>1, FrameWritten
  <2> HIDE DEF A, n
  <2>2. frame \in Seq(A)
    BY <1>1, <2>1
  <2>3. QED
    BY <2>2 DEF A
<1>3. PICK off : Offsets(off, frame)
  BY <1>2, OffsetsExist
<1>4. Framed(ms, frame, off, stream)
  BY <1>1, <1>3 DEF Framed
<1> HIDE DEF frame, stream
<1>5. /\ Len(frame) = n /\ stream \in Seq(Tokens) /\ Len(stream) = off[n]
      /\ off \in [0 .. n -> Nat] /\ off[0] = 0
  BY <1>4, FramedFacts
<1>6. ASSUME NEW i \in 0 .. n, NEW j \in 0 .. n, i <= j PROVE off[i] <= off[j]
  BY <1>2, <1>3, <1>5, <1>6, OffsetsGrow
<1>7. n \in 0 .. n /\ 0 \in 0 .. n /\ off[n] \in Nat /\ \A i \in 0 .. n : off[i] \in Nat
  <2> HIDE DEF n
  <2> QED BY <1>1, <1>5
<1>8. Reads(stream, stream, Len(stream)) /\ Len(stream) <= Len(stream) /\ Complete(off, n, Len(stream), n)
  <2>1. Reads(stream, stream, Len(stream))
    BY <1>5, TokensFacts, ReadsAll
  <2>2. QED
    BY <1>1, <1>5, <1>7, <2>1 DEF Complete
<1>9. ASSUME NEW j \in 0 .. n PROVE Drained(From(stream, off[j])).got = SubSeq(ms, j + 1, n)
  <2>1. PICK k, w : k = n /\ w = Len(stream)
    OBVIOUS
  <2>2. /\ Reads(stream, stream, w) /\ w <= Len(stream) /\ Complete(off, Len(ms), w, k) /\ j \in 0 .. k
    BY <1>8, <2>1
  <2>3. stream \in Seq(Tokens)
    BY <1>5
  <2>4. Drains(stream, off, ms, j, k)
    BY <1>4, <2>2, <2>3, DrainFacts, Zenon
  <2>5. QED
    BY <2>1, <2>4 DEF Drains
<1>10. Drained(stream).got = ms
  <2>1. Drained(From(stream, off[0])).got = SubSeq(ms, 0 + 1, n)
    BY <1>7, <1>9
  <2>2. From(stream, 0) = stream
    BY <1>5, FromNone
  <2>3. SubSeq(ms, 1, n) = ms
    BY FromNone
  <2>4. 0 + 1 = 1
    OBVIOUS
  <2>5. QED
    BY <1>5, <2>1, <2>2, <2>3, <2>4
<1>11. ASSUME NEW c \in Cuts(stream)
       PROVE  LET read == Len(Whole(c))
                  fits == {k \in 0 .. Len(ms) : Len(FlattenSeq(SubSeq(frame, 1, k))) <= read}
                  first == Drained(c)
                  later == Drained(Whole(first.rest) \o SubSeq(stream, read + 1, Len(stream)))
              IN  /\ first.got = SubSeq(ms, 1, CHOOSE k \in fits : \A j \in fits : j <= k)
                  /\ first.got \o later.got = ms
  <2> DEFINE T == Tokens \cup {Cut}
             fits == {k \in 0 .. n : Len(FlattenSeq(SubSeq(frame, 1, k))) <= Len(Whole(c))}
             first == Drained(c)
             later == Drained(Whole(first.rest) \o SubSeq(stream, Len(Whole(c)) + 1, Len(stream)))
  <2>1. PICK w \in 0 .. Len(stream) - 1 : Reads(c, stream, w)
    BY <1>5, <1>11, TokensFacts, CutsFacts
  <2>2. w \in Nat /\ w < Len(stream) /\ w <= Len(stream) /\ Len(stream) \in Nat /\ w \in 0 .. Len(stream)
    BY <1>5, <1>7, <2>1
  <2>3. c \in Seq(T)
    <3> DEFINE front == {SubSeq(stream, 1, i) : i \in 0 .. Len(stream) - 1}
    <3>1. PICK b \in front : c = b \/ c = Append(b, Cut)
      BY <1>11 DEF Cuts
    <3>2. PICK i \in 0 .. Len(stream) - 1 : b = SubSeq(stream, 1, i)
      OBVIOUS
    <3>3. b \in Seq(Tokens)
      BY <1>5, <2>2, <3>2
    <3> HIDE DEF front
    <3>4. b \in Seq(T)
      BY <3>3
    <3>5. QED
      BY <3>1, <3>4
  <2>4. Len(Whole(c)) = w /\ Whole(c) = SubSeq(c, 1, w)
    <3> HIDE DEF T
    <3> QED BY <2>1, <2>3, WholeFacts
  <2>5. ASSUME NEW k \in 0 .. n PROVE Len(FlattenSeq(SubSeq(frame, 1, k))) = off[k]
    <3> DEFINE tt == SubSeq(frame, 1, k)
    <3>1. k \in Nat /\ k <= Len(frame) /\ k \in 0 .. Len(frame)
      BY <1>1, <1>5
    <3>2. tt \in Seq(Seq(Tokens)) /\ Len(tt) = k
      <4> DEFINE A == Seq(Tokens)
      <4>1. frame \in Seq(A)
        BY <1>2
      <4> HIDE DEF A
      <4>2. tt \in Seq(A) /\ Len(tt) = k
        BY <3>1, <4>1
      <4>3. QED
        BY <4>2 DEF A
    <3>3. PICK g : Offsets(g, tt)
      <4> HIDE DEF tt
      <4> QED BY <3>2, OffsetsExist
    <3>4. g[k] = off[k]
      BY <1>2, <1>3, <3>1, <3>3, OffsetsSame
    <3>5. Flattened(FlattenSeq(tt), g, tt)
      <4> HIDE DEF tt
      <4> QED BY <3>2, <3>3, FlattenFacts
    <3>6. QED
      BY <3>2, <3>4, <3>5 DEF Flattened
  <2>6. fits = {k \in 0 .. n : off[k] <= w}
    <3> HIDE DEF n
    <3> QED BY <2>4, <2>5
  <2> HIDE DEF fits
  <2> DEFINE k == Greatest(fits)
  <2>7. Complete(off, n, w, k) /\ k \in fits
    <3> HIDE DEF n
    <3>1. n \in Nat /\ off \in [0 .. n -> Nat] /\ off[0] = 0 /\ w \in Nat
      BY <1>1, <1>5, <1>6, <2>2
    <3>2. \A i, j \in 0 .. n : i <= j => off[i] <= off[j]
      BY <1>1, <1>5, <1>6
    <3>3. QED
      BY <3>1, <3>2, <2>6, GreatestComplete, Zenon
  <2> HIDE DEF k
  <2>8. k \in 0 .. n /\ off[k] <= w /\ k \in 0 .. k /\ 0 \in 0 .. k /\ off[k] \in Nat
    <3> HIDE DEF n
    <3> QED BY <1>1, <1>7, <2>7 DEF Complete
  <2>9. first.got = SubSeq(ms, 1, k) /\ first.rest = From(c, off[k])
    <3>1. Drained(From(c, off[0])).got = SubSeq(ms, 0 + 1, k) /\ Drained(From(c, off[0])).rest = From(c, off[k])
      <4> HIDE DEF T
      <4>1. Drains(c, off, ms, 0, k)
        BY <1>4, <2>1, <2>2, <2>3, <2>7, <2>8, DrainFacts, Zenon
      <4>2. QED
        BY <4>1 DEF Drains
    <3>2. From(c, 0) = c
      <4> HIDE DEF T
      <4> QED BY <2>3, FromNone
    <3>3. 0 + 1 = 1
      OBVIOUS
    <3>4. QED
      BY <1>5, <3>1, <3>2, <3>3
  <2> HIDE DEF first, T
  <2>10. off[k] \in 0 .. w /\ off[k] \in 0 .. Len(c) /\ Reads(From(c, off[k]), From(stream, off[k]), w - off[k])
    <3>1. off[k] \in 0 .. w
      BY <2>2, <2>8
    <3>2. QED
      BY <1>5, <2>1, <2>2, <2>3, <3>1, ReadsFrom
  <2>11. Whole(first.rest) = SubSeq(stream, off[k] + 1, w)
    <3> DEFINE r == From(c, off[k])
               x == SubSeq(r, 1, w - off[k])
               y == SubSeq(stream, off[k] + 1, w)
               d == w - off[k]
    <3>1. r \in Seq(T) /\ Len(r) = Len(c) - off[k] /\ \A i \in 1 .. Len(c) - off[k] : r[i] = c[off[k] + i]
      BY <2>3, <2>10, FromFacts
    <3>2. Whole(r) = x
      BY <2>10, <3>1, WholeFacts
    <3>3. d \in Nat /\ w <= Len(c) /\ d <= Len(r) /\ Len(r) \in Nat
      <4>1. Len(c) = w \/ Len(c) = w + 1
        BY <2>1 DEF Reads
      <4>2. QED
        BY <2>2, <2>8, <3>1, <4>1
    <3> HIDE DEF r
    <3>4. Len(x) = d /\ x \in Seq(T) /\ \A i \in 1 .. d : x[i] = r[i]
      <4>1. w - off[k] = d
        OBVIOUS
      <4> HIDE DEF d
      <4>2. QED
        BY <3>1, <3>3, <4>1
    <3>5. Len(y) = d /\ y \in Seq(Tokens) /\ \A i \in 1 .. d : y[i] = stream[off[k] + i]
      <4>1. Len(y) = d /\ y \in Seq(Tokens) /\ \A i \in 1 .. d : y[i] = stream[(off[k] + 1) + i - 1]
        BY <1>5, <2>2, <2>8
      <4>2. \A i \in 1 .. d : (off[k] + 1) + i - 1 = off[k] + i
        BY <2>8, <3>3
      <4> HIDE DEF y, d
      <4>3. QED
        BY <4>1, <4>2
    <3>6. ASSUME NEW i \in 1 .. d PROVE x[i] = y[i]
      <4>1. off[k] + i \in 1 .. w /\ i \in 1 .. Len(c) - off[k]
        BY <2>2, <2>8, <3>3
      <4>2. c[off[k] + i] = stream[off[k] + i]
        BY <2>1, <4>1 DEF Reads
      <4> HIDE DEF x, y, d
      <4>3. QED
        BY <3>1, <3>4, <3>5, <4>1, <4>2
    <3> HIDE DEF x, y, d
    <3>7. y \in Seq(T)
      BY <3>5 DEF T
    <3>8. x = y
      BY <3>4, <3>5, <3>6, <3>7
    <3>9. QED
      BY <2>9, <3>2, <3>8 DEF r, y
  <2>12. Whole(first.rest) \o SubSeq(stream, w + 1, Len(stream)) = From(stream, off[k])
    <3>1. off[k] \in 0 .. Len(stream) /\ w \in off[k] .. Len(stream)
      BY <2>2, <2>8
    <3>2. SubSeq(stream, off[k] + 1, w) \o SubSeq(stream, w + 1, Len(stream)) = From(stream, off[k])
      BY <1>5, <3>1, TwoParts
    <3>3. QED
      BY <2>11, <3>2
  <2>13. later.got = SubSeq(ms, k + 1, n)
    BY <1>9, <2>4, <2>8, <2>12
  <2> HIDE DEF later
  <2>14. first.got \o later.got = ms
    <3>1. 0 \in 0 .. n /\ k \in 0 .. n /\ 0 + 1 = 1
      BY <1>7, <2>8
    <3>2. SubSeq(ms, 0 + 1, k) \o SubSeq(ms, k + 1, Len(ms)) = From(ms, 0)
      BY <3>1, TwoParts
    <3>3. From(ms, 0) = ms
      BY FromNone
    <3>4. QED
      BY <2>9, <2>13, <3>1, <3>2, <3>3
  <2>15. first.got = SubSeq(ms, 1, CHOOSE x \in fits : \A y \in fits : y <= x)
    BY <2>9 DEF k, Greatest
  <2>16. QED
    BY <2>14, <2>15 DEF first, later, fits
<1>12. ASSUME NEW i \in DOMAIN ms
       PROVE  /\ \A c \in Cuts(encode_settle_msg(ms[i])) : decode_settle_msg(c) = Nothing
              /\ ms[i].kind = "acc" =>
                    LET b == encode_self_acc(ms[i].fixed, ms[i].acc)
                    IN  /\ decode_self_acc(b) = <<[fixed |-> ms[i].fixed, acc |-> ms[i].acc]>>
                        /\ \A c \in Cuts(b) : decode_self_acc(c) = Nothing
  <2>1. IsMessage(ms[i])
    BY <1>1, <1>12
  <2>2. \A c \in Cuts(encode_settle_msg(ms[i])) : decode_settle_msg(c) = Nothing
    BY <2>1, MessageCut
  <2>3. ASSUME ms[i].kind = "acc" PROVE ms[i].fixed \in Nat /\ IsAcc(ms[i].acc)
    <3>1. ASSUME IsClaim(ms[i]) PROVE FALSE
      <4>1. ms[i].kind = "claim"
        BY <3>1 DEF IsClaim
      <4>2. QED
        BY <2>3, <4>1
    <3>2. ASSUME IsReceipt(ms[i]) PROVE FALSE
      <4>1. ms[i].kind = "receipt"
        BY <3>2 DEF IsReceipt
      <4>2. QED
        BY <2>3, <4>1
    <3>3. QED
      BY <2>1, <3>1, <3>2 DEF IsMessage, IsAccMessage
  <2>4. QED
    BY <2>2, <2>3, SelfAccFacts
<1>13. QED
  BY <1>10, <1>11, <1>12 DEF StreamExact, frame, stream

(* The inputs of the codecs. *)
CodecOK ==
    /\ kind = "signal" => IsSignal(input, Nat, Nat)
    /\ kind = "log" => input \in Seq(LogFrames)
    /\ kind = "stream" => input \in Seq(Messages)

(* A signal starts empty; so do a log and a stream. *)
LEMMA CodecOKInit == Init => CodecOK
<1> SUFFICES ASSUME Init PROVE CodecOK
  OBVIOUS
<1>1. ASSUME kind = "signal" PROVE IsSignal(input, Nat, Nat)
  <2> DEFINE R(l, b, d) == [head |-> "h", network |-> "other", links |-> l, box_moves |-> b,
                            delta_pi |-> d, proof |-> <<"sigma">>]
  <2>1. input = [ASignal EXCEPT !.links = <<>>, !.box_moves = <<>>, !.delta_pi = <<>>]
    BY <1>1 DEF Init
  <2>2. \E l, b, d : ASignal = R(l, b, d)
    BY DEF ASignal
  <2>3. PICK l, b, d : ASignal = R(l, b, d)
    BY <2>2
  <2>4. input = [[[ASignal EXCEPT !.links = <<>>] EXCEPT !.box_moves = <<>>] EXCEPT !.delta_pi = <<>>]
    BY <2>1
  <2>5. [R(l, b, d) EXCEPT !.links = <<>>] = R(<<>>, b, d)
    OBVIOUS
  <2>6. [R(<<>>, b, d) EXCEPT !.box_moves = <<>>] = R(<<>>, <<>>, d)
    OBVIOUS
  <2>7. [R(<<>>, <<>>, d) EXCEPT !.delta_pi = <<>>] = R(<<>>, <<>>, <<>>)
    OBVIOUS
  <2>8. input = R(<<>>, <<>>, <<>>)
    <3> HIDE DEF R
    <3> QED BY <2>3, <2>4, <2>5, <2>6, <2>7
  <2>9. input.links = <<>> /\ input.box_moves = <<>> /\ input.delta_pi = <<>>
        /\ input = [head |-> input.head, network |-> input.network, links |-> input.links,
                    box_moves |-> input.box_moves, delta_pi |-> input.delta_pi, proof |-> input.proof]
    BY <2>8
  <2>10. <<>> \in Seq(Nat) /\ <<>> \in Seq([tag : {0, 1}])
    OBVIOUS
  <2>11. QED
    BY <2>9, <2>10 DEF IsSignal
<1>2. kind \in {"log", "stream"} => input = <<>>
  BY DEF Init
<1>3. \A S : <<>> \in Seq(S)
  OBVIOUS
<1>4. <<>> \in Seq(LogFrames) /\ <<>> \in Seq(Messages)
  BY <1>3, Zenon
<1>5. QED
  <2>1. kind = "log" => input \in Seq(LogFrames)
    <3> SUFFICES ASSUME kind = "log" PROVE input \in Seq(LogFrames)
      OBVIOUS
    <3>1. input = <<>>
      BY <1>2
    <3>2. QED
      BY <3>1, <1>4, Zenon
  <2>2. kind = "stream" => input \in Seq(Messages)
    <3> SUFFICES ASSUME kind = "stream" PROVE input \in Seq(Messages)
      OBVIOUS
    <3>1. input = <<>>
      BY <1>2
    <3>2. QED
      BY <3>1, <1>4, Zenon
  <2>3. QED
    BY <1>1, <2>1, <2>2, Zenon DEF CodecOK

(* Only AddItem, AddFrame and AddMessage change them. *)
LEMMA OnlyCodecs ==
    ASSUME Next, kind' \in {"signal", "log", "stream"}
    PROVE  /\ kind = kind'
           /\ kind = "signal" => \/ \E section \in {"links", "delta_pi"}, x \in {1, 2} : AddItem(section, x)
                                 \/ \E tag \in {0, 1} : AddItem("box_moves", [tag |-> tag])
           /\ kind = "log" => \E f \in LogFrames : AddFrame(f)
           /\ kind = "stream" => \E m \in Messages : AddMessage(m)
  BY DEF Next, AddWeight, AddClaim, AddValue, AddLeaf, AddAnswer, AddShard, AddItem, AddFrame,
         AddMessage, AddContent, AddFocus, FoldsBlock, Follows, JoinsMesh, Subscribes, TakesSome,
         Publishes, Exports, Joins, Applies, Audits, Issues, TakesPlace, TipStep,
         MeshStep, Absorbs, Folds, FoldStep, Grows

(* A section that grows. *)
LEMMA ItemAdded ==
    ASSUME NEW s, IsSignal(s, Nat, Nat), NEW x
    PROVE  /\ x \in Nat => /\ IsSignal([s EXCEPT !["links"] = Append(@, x)], Nat, Nat)
                           /\ IsSignal([s EXCEPT !["delta_pi"] = Append(@, x)], Nat, Nat)
           /\ x \in [tag : {0, 1}] => IsSignal([s EXCEPT !["box_moves"] = Append(@, x)], Nat, Nat)
<1> DEFINE B == [tag : {0, 1}]
           R(h, n, l, b, d, p) == [head |-> h, network |-> n, links |-> l, box_moves |-> b,
                                   delta_pi |-> d, proof |-> p]
<1>1. PICK h, n, l, b, d, p : s = R(h, n, l, b, d, p)
  BY DEF IsSignal
<1>2. l \in Seq(Nat) /\ b \in Seq(B) /\ d \in Seq(Nat)
  <2>1. s.links = l /\ s.box_moves = b /\ s.delta_pi = d
    BY <1>1
  <2>2. QED
    BY <2>1 DEF IsSignal
<1>3. ASSUME NEW l2 \in Seq(Nat), NEW b2 \in Seq(B), NEW d2 \in Seq(Nat), NEW z, z = R(h, n, l2, b2, d2, p)
      PROVE  IsSignal(z, Nat, Nat)
  <2>1. z.head = h /\ z.network = n /\ z.links = l2 /\ z.box_moves = b2 /\ z.delta_pi = d2 /\ z.proof = p
    BY <1>3
  <2>2. z = [head |-> z.head, network |-> z.network, links |-> z.links, box_moves |-> z.box_moves,
             delta_pi |-> z.delta_pi, proof |-> z.proof]
    BY <1>3, <2>1
  <2>3. QED
    BY <2>1, <2>2 DEF IsSignal
<1>4. ASSUME x \in Nat PROVE IsSignal([s EXCEPT !["links"] = Append(@, x)], Nat, Nat)
  <2>1. [s EXCEPT !["links"] = Append(@, x)] = R(h, n, Append(l, x), b, d, p)
    BY <1>1
  <2>2. Append(l, x) \in Seq(Nat)
    BY <1>2, <1>4
  <2> HIDE DEF R, B
  <2>3. QED
    BY <1>2, <1>3, <2>1, <2>2
<1>5. ASSUME x \in Nat PROVE IsSignal([s EXCEPT !["delta_pi"] = Append(@, x)], Nat, Nat)
  <2>1. [s EXCEPT !["delta_pi"] = Append(@, x)] = R(h, n, l, b, Append(d, x), p)
    BY <1>1
  <2>2. Append(d, x) \in Seq(Nat)
    BY <1>2, <1>5
  <2> HIDE DEF R, B
  <2>3. QED
    BY <1>2, <1>3, <2>1, <2>2
<1>6. ASSUME x \in B PROVE IsSignal([s EXCEPT !["box_moves"] = Append(@, x)], Nat, Nat)
  <2>1. [s EXCEPT !["box_moves"] = Append(@, x)] = R(h, n, l, Append(b, x), d, p)
    BY <1>1
  <2> HIDE DEF R, B
  <2>2. Append(b, x) \in Seq(B)
    BY <1>2, <1>6
  <2>3. QED
    BY <1>2, <1>3, <2>1, <2>2
<1>7. QED
  BY <1>4, <1>5, <1>6

(* Every step keeps them. *)
LEMMA CodecOKStep ==
    ASSUME CodecOK, [Next]_vars
    PROVE  CodecOK'
<1>1. CASE UNCHANGED vars
  BY <1>1 DEF vars, CodecOK
<1>2. CASE Next
  <2>1. CASE kind' = "signal"
    <3>1. kind = "signal" /\ IsSignal(input, Nat, Nat)
      BY <1>2, <2>1, OnlyCodecs DEF CodecOK
    <3>2. CASE \E section \in {"links", "delta_pi"}, x \in {1, 2} : AddItem(section, x)
      <4>1. PICK section \in {"links", "delta_pi"}, x \in {1, 2} : AddItem(section, x)
        BY <3>2
      <4>2. input' = [input EXCEPT ![section] = Append(@, x)] /\ x \in Nat
        BY <4>1 DEF AddItem
      <4>3. IsSignal(input', Nat, Nat)
        <5>1. CASE section = "links"
          <6>1. input' = [input EXCEPT !["links"] = Append(@, x)]
            BY <4>2, <5>1
          <6>2. IsSignal([input EXCEPT !["links"] = Append(@, x)], Nat, Nat)
            BY <3>1, <4>2, ItemAdded
          <6>3. QED
            BY <6>1, <6>2, Zenon
        <5>2. CASE section = "delta_pi"
          <6>1. input' = [input EXCEPT !["delta_pi"] = Append(@, x)]
            BY <4>2, <5>2
          <6>2. IsSignal([input EXCEPT !["delta_pi"] = Append(@, x)], Nat, Nat)
            BY <3>1, <4>2, ItemAdded
          <6>3. QED
            BY <6>1, <6>2, Zenon
        <5>3. QED
          BY <5>1, <5>2
      <4>4. QED
        BY <2>1, <4>3 DEF CodecOK
    <3>3. CASE \E tag \in {0, 1} : AddItem("box_moves", [tag |-> tag])
      <4>1. PICK tag \in {0, 1} : AddItem("box_moves", [tag |-> tag])
        BY <3>3
      <4> DEFINE x == [tag |-> tag]
      <4>2. x \in [tag : {0, 1}]
        OBVIOUS
      <4>3. input' = [input EXCEPT !["box_moves"] = Append(@, x)]
        BY <4>1 DEF AddItem
      <4> HIDE DEF x
      <4>4. IsSignal(input', Nat, Nat)
        BY <3>1, <4>2, <4>3, ItemAdded
      <4>5. QED
        BY <2>1, <4>4 DEF CodecOK
    <3>4. QED
      BY <1>2, <2>1, <3>1, <3>2, <3>3, OnlyCodecs
  <2>2. CASE kind' = "log"
    <3>1. kind = "log" /\ input \in Seq(LogFrames) /\ \E f \in LogFrames : AddFrame(f)
      BY <1>2, <2>2, OnlyCodecs DEF CodecOK
    <3>2. input' \in Seq(LogFrames)
      BY <3>1 DEF AddFrame
    <3>3. QED
      BY <2>2, <3>2 DEF CodecOK
  <2>3. CASE kind' = "stream"
    <3>1. kind = "stream" /\ input \in Seq(Messages) /\ \E m \in Messages : AddMessage(m)
      BY <1>2, <2>3, OnlyCodecs DEF CodecOK
    <3>2. input' \in Seq(Messages)
      BY <3>1 DEF AddMessage
    <3>3. QED
      BY <2>3, <3>2 DEF CodecOK
  <2>4. QED
    BY <2>1, <2>2, <2>3 DEF CodecOK
<1>3. QED
  BY <1>1, <1>2

(* The frames of a log are not cut, and an intent has its payload. *)
LEMMA FramesLogged == \A f \in LogFrames : LogFrame(f)
<1>1. LogFrame(encode_signal_frame(ASignal))
  BY DEF LogFrame, encode_signal_frame, Cut
<1>2. LogFrame(encode_intent_frame([intent |-> 1]))
  <2> DEFINE t == Token([intent |-> 1])
  <2>1. t # Cut
    BY TokenFacts
  <2>2. encode_intent_frame([intent |-> 1]) = [sigil |-> "KET", payload |-> <<t>>]
    BY DEF encode_intent_frame, serialize_intent
  <2> HIDE DEF t
  <2>3. Has(<<t>>, 1)
    BY <2>1 DEF Has
  <2>4. QED
    BY <2>2, <2>3 DEF LogFrame, Cut
<1>3. LogFrame([sigil |-> "DOC", payload |-> <<Cut>>])
  BY DEF LogFrame, Cut
<1>4. \A p : LogFrame([sigil |-> "ZAP", payload |-> p])
  BY DEF LogFrame, Cut
<1>5. QED
  BY <1>1, <1>2, <1>3, <1>4 DEF LogFrames

(* The messages are messages. *)
LEMMA MessagesSent == \A m \in Messages : IsMessage(m)
<1>1. ASSUME NEW m \in [kind : {"claim"}, fixed : {1}, links : {<<>>, <<1, 2>>}] PROVE IsClaim(m)
  <2>1. <<>> \in Seq(Nat) /\ <<1, 2>> \in Seq(Nat)
    OBVIOUS
  <2>2. m = [kind |-> m.kind, fixed |-> m.fixed, links |-> m.links]
        /\ m.kind = "claim" /\ m.fixed = 1 /\ (m.links = <<>> \/ m.links = <<1, 2>>)
    OBVIOUS
  <2>3. m.fixed \in Nat /\ m.links \in Seq(Nat)
    <3>1. m.fixed \in Nat
      BY <2>2
    <3>2. CASE m.links = <<>>
      BY <2>1, <3>1, <3>2, Zenon
    <3>3. CASE m.links = <<1, 2>>
      BY <2>1, <3>1, <3>3, Zenon
    <3>4. QED
      BY <2>2, <3>2, <3>3
  <2>4. m = [kind |-> "claim", fixed |-> m.fixed, links |-> m.links]
    BY <2>2
  <2>5. QED
    BY <2>2, <2>3, <2>4, Zenon DEF IsClaim
<1>2. ASSUME NEW s \in {{}, {1, 2}}
      PROVE  IsAccMessage([kind |-> "acc", fixed |-> 1,
                           acc |-> [sum_m |-> <<3, 4>>, seen |-> s, commitment |-> 7]])
  <2> DEFINE acc == [sum_m |-> <<3, 4>>, seen |-> s, commitment |-> 7]
  <2>1. <<3, 4>> \in Seq(Nat) /\ s \subseteq Nat
    OBVIOUS
  <2>2. IsFiniteSet(s)
    <3>1. IsFiniteSet({}) /\ IsFiniteSet({1})
      BY FS_EmptySet, FS_Singleton
    <3>2. IsFiniteSet({1} \cup {2})
      BY <3>1, FS_AddElement
    <3>3. {1, 2} = {1} \cup {2}
      OBVIOUS
    <3>4. QED
      BY <3>1, <3>2, <3>3
  <2>3. acc.sum_m = <<3, 4>> /\ acc.seen = s /\ acc.commitment = 7
    OBVIOUS
  <2>4. IsAcc(acc)
    BY <2>1, <2>2, <2>3 DEF IsAcc
  <2> HIDE DEF acc
  <2>5. IsAccMessage([kind |-> "acc", fixed |-> 1, acc |-> acc])
    BY <2>4 DEF IsAccMessage
  <2>6. QED
    BY <2>5 DEF acc
<1>3. ASSUME NEW m \in [kind : {"receipt"}, fixed : {1, 2}] PROVE IsReceipt(m)
  BY DEF IsReceipt
<1>4. QED
  BY <1>1, <1>2, <1>3 DEF Messages, IsMessage

(* And for them the codecs are exact. *)
LEMMA CodecOKExact == CodecOK => CodecsExact
<1> SUFFICES ASSUME CodecOK PROVE CodecsExact
  OBVIOUS
<1>1. ASSUME kind = "signal" PROVE SignalWholeOrNone(input)
  BY <1>1, SignalFacts DEF CodecOK
<1>2. ASSUME kind = "log" PROVE LogReplays(input)
  BY <1>2, FramesLogged, ReplayFacts DEF CodecOK
<1>3. ASSUME kind = "stream" PROVE StreamExact(input)
  BY <1>3, MessagesSent, StreamFacts DEF CodecOK
<1>4. QED
  BY <1>1, <1>2, <1>3 DEF CodecsExact

(* Signals, logs and streams of any length are read back whole and in      *)
(* order, and wherever a payload, a log or a stream is cut nothing is read *)
(* but what was whole: a signal without its trailing sections at most, the *)
(* events before the tear, the messages before the cut, and the others     *)
(* with the bytes that come later (serialize_signal, deserialize_signal,   *)
(* decode_events, decode_signals, encode_settle_msg, decode_settle_msg,    *)
(* split_frame, handle_inbound, encode_self_acc, decode_self_acc).         *)
THEOREM CodecsExactHolds == Spec => []CodecsExact
<1>1. Init => CodecOK
  BY CodecOKInit
<1>2. CodecOK /\ [Next]_vars => CodecOK'
  BY CodecOKStep
<1>3. CodecOK => CodecsExact
  BY CodecOKExact
<1>4. QED
  BY <1>1, <1>2, <1>3, PTL DEF Spec

(***************************************************************************)
(* The clusters of claims.                                                 *)
(***************************************************************************)

(* A forest over n claims. *)
IsForest(parent, n) == parent \in [1 .. n -> 1 .. n] /\ \A y \in 1 .. n : parent[y] <= y

(* up gives the root of every claim up to m. *)
Climbs(up, parent, m) == up = [y \in 1 .. m |-> IF parent[y] = y THEN y ELSE up[parent[y]]]

(* There is such a function. *)
LEMMA ClimbsExist ==
    ASSUME NEW n \in Nat, NEW parent, IsForest(parent, n)
    PROVE  \A m \in 0 .. n : \E up : Climbs(up, parent, m)
<1> DEFINE S == {m \in 0 .. n : \E up : Climbs(up, parent, m)}
<1>1. 0 \in S
  <2> DEFINE u == [y \in 1 .. 0 |-> 0]
  <2>1. u = [y \in 1 .. 0 |-> IF parent[y] = y THEN y ELSE u[parent[y]]]
    OBVIOUS
  <2> HIDE DEF u
  <2>2. Climbs(u, parent, 0)
    BY <2>1 DEF Climbs
  <2>3. QED
    BY <2>2
<1>2. ASSUME NEW m \in 0 .. n - 1, m \in S PROVE m + 1 \in S
  <2>1. PICK u : Climbs(u, parent, m)
    BY <1>2
  <2> DEFINE top == IF parent[m + 1] = m + 1 THEN m + 1 ELSE u[parent[m + 1]]
             v == [y \in 1 .. m + 1 |-> IF y = m + 1 THEN top ELSE u[y]]
  <2>2. \A y \in 1 .. m : v[y] = u[y]
    OBVIOUS
  <2>3. v[m + 1] = top
    OBVIOUS
  <2>4. ASSUME NEW y \in 1 .. m + 1
        PROVE  v[y] = IF parent[y] = y THEN y ELSE v[parent[y]]
    <3>1. y \in 1 .. n /\ parent[y] \in 1 .. n /\ parent[y] <= y
      BY DEF IsForest
    <3> HIDE DEF v
    <3>2. CASE y = m + 1
      <4>1. parent[y] # y => parent[y] \in 1 .. m
        BY <3>1, <3>2
      <4>2. parent[y] # y => v[parent[y]] = u[parent[y]]
        BY <2>2, <4>1
      <4>3. QED
        BY <2>3, <3>2, <4>2
    <3>3. CASE y # m + 1
      <4>1. y \in 1 .. m /\ parent[y] \in 1 .. m
        BY <3>1, <3>3
      <4>2. u[y] = IF parent[y] = y THEN y ELSE u[parent[y]]
        BY <2>1, <4>1 DEF Climbs
      <4>3. QED
        BY <2>2, <4>1, <4>2
    <3>4. QED
      BY <3>2, <3>3
  <2>5. v = [y \in 1 .. m + 1 |-> v[y]]
    OBVIOUS
  <2> HIDE DEF v
  <2>6. v = [y \in 1 .. m + 1 |-> IF parent[y] = y THEN y ELSE v[parent[y]]]
    BY <2>4, <2>5
  <2>7. Climbs(v, parent, m + 1)
    BY <2>6, Zenon DEF Climbs
  <2>8. QED
    BY <2>7
<1>3. \A m \in 0 .. n : m \in S
  <2> HIDE DEF S
  <2> QED BY <1>1, <1>2, UpTo
<1>4. QED
  BY <1>3

(* Two of them agree where both are defined. *)
LEMMA ClimbsAgree ==
    ASSUME NEW n \in Nat, NEW parent, IsForest(parent, n), NEW m \in 0 .. n, NEW l \in 0 .. n,
           NEW u, Climbs(u, parent, m), NEW v, Climbs(v, parent, l)
    PROVE  \A y \in (1 .. m) \cap (1 .. l) : u[y] = v[y]
<1> DEFINE T == {y \in (1 .. m) \cap (1 .. l) : u[y] # v[y]}
<1> SUFFICES ASSUME T # {} PROVE FALSE
  OBVIOUS
<1>1. T \in SUBSET Nat
  OBVIOUS
<1>2. PICK y \in T : \A z \in T : y <= z
  <2> HIDE DEF T
  <2> QED BY <1>1, LeastNat
<1>3. y \in 1 .. m /\ y \in 1 .. l /\ y \in 1 .. n /\ u[y] # v[y]
  OBVIOUS
<1>4. parent[y] \in 1 .. n /\ parent[y] <= y
  BY <1>3 DEF IsForest
<1>5. u[y] = (IF parent[y] = y THEN y ELSE u[parent[y]])
      /\ v[y] = (IF parent[y] = y THEN y ELSE v[parent[y]])
  BY <1>3 DEF Climbs
<1>6. parent[y] # y /\ u[parent[y]] # v[parent[y]]
  BY <1>3, <1>5
<1>7. parent[y] \in 1 .. m /\ parent[y] \in 1 .. l /\ ~ (y <= parent[y])
  BY <1>3, <1>4, <1>6
<1>8. parent[y] \in T
  BY <1>6, <1>7
<1>9. QED
  BY <1>2, <1>7, <1>8

(* The root of x: its own parent, or the root of its parent. *)
FindsUp(parent, x) ==
    IF parent[x] = x THEN find(parent, x) = x ELSE find(parent, x) = find(parent, parent[x])

(* find climbs so. *)
LEMMA FindStep ==
    ASSUME NEW n \in Nat, NEW parent, IsForest(parent, n), NEW x \in 1 .. n
    PROVE  FindsUp(parent, x)
<1> DEFINE up(m) == CHOOSE u : Climbs(u, parent, m)
<1>1. ASSUME NEW m \in 0 .. n PROVE Climbs(up(m), parent, m)
  <2>1. \E u : Climbs(u, parent, m)
    BY ClimbsExist
  <2>2. QED
    BY <2>1, Zenon
<1>2. ASSUME NEW z \in 1 .. n PROVE find(parent, z) = up(z)[z]
  BY Zenon DEF find, Climbs
<1>3. x \in 0 .. n /\ parent[x] \in 1 .. n /\ parent[x] \in 0 .. n /\ parent[x] <= x
  BY DEF IsForest
<1> HIDE DEF up
<1>4. up(x)[x] = IF parent[x] = x THEN x ELSE up(x)[parent[x]]
  <2>1. Climbs(up(x), parent, x)
    BY <1>1, <1>3
  <2>2. x \in 1 .. x
    OBVIOUS
  <2>3. QED
    BY <2>1, <2>2 DEF Climbs
<1>5. up(x)[parent[x]] = up(parent[x])[parent[x]]
  <2>1. parent[x] \in (1 .. x) \cap (1 .. parent[x])
    BY <1>3
  <2>2. Climbs(up(x), parent, x) /\ Climbs(up(parent[x]), parent, parent[x])
    BY <1>1, <1>3
  <2>3. QED
    BY <1>3, <2>1, <2>2, ClimbsAgree
<1>6. QED
  <2>1. find(parent, x) = up(x)[x] /\ find(parent, parent[x]) = up(parent[x])[parent[x]]
    BY <1>2, <1>3
  <2>2. QED
    BY <1>4, <1>5, <2>1 DEF FindsUp

(* A root is not above the claim, and its own parent. *)
LEMMA FindFacts ==
    ASSUME NEW n \in Nat, NEW parent, IsForest(parent, n), NEW x \in 1 .. n
    PROVE  /\ find(parent, x) \in 1 .. n /\ find(parent, x) <= x
           /\ parent[find(parent, x)] = find(parent, x)
           /\ find(parent, find(parent, x)) = find(parent, x)
<1> DEFINE Good(y) == /\ find(parent, y) \in 1 .. n /\ find(parent, y) <= y
                      /\ parent[find(parent, y)] = find(parent, y)
           T == {y \in 1 .. n : ~ Good(y)}
<1>1. T = {}
  <2> SUFFICES ASSUME T # {} PROVE FALSE
    OBVIOUS
  <2>1. T \in SUBSET Nat
    OBVIOUS
  <2>2. PICK y \in T : \A z \in T : y <= z
    <3> HIDE DEF T
    <3> QED BY <2>1, LeastNat
  <2>3. y \in 1 .. n /\ ~ Good(y)
    OBVIOUS
  <2>4. parent[y] \in 1 .. n /\ parent[y] <= y
    BY <2>3 DEF IsForest
  <2>5. FindsUp(parent, y)
    BY <2>3, FindStep
  <2>6. CASE parent[y] = y
    <3>1. find(parent, y) = y
      BY <2>5, <2>6 DEF FindsUp
    <3>2. QED
      BY <2>3, <2>6, <3>1
  <2>7. CASE parent[y] # y
    <3>1. find(parent, y) = find(parent, parent[y])
      BY <2>5, <2>7 DEF FindsUp
    <3>2. Good(parent[y])
      <4>1. ~ (y <= parent[y])
        BY <2>3, <2>4, <2>7
      <4> HIDE DEF Good
      <4>2. QED
        BY <2>2, <2>4, <4>1
    <3>3. Good(y)
      BY <2>3, <2>4, <3>1, <3>2
    <3>4. QED
      BY <2>3, <3>3
  <2>8. QED
    BY <2>6, <2>7
<1>2. Good(x)
  BY <1>1
<1>3. find(parent, find(parent, x)) = find(parent, x)
  <2>1. FindsUp(parent, find(parent, x))
    BY <1>2, FindStep
  <2>2. QED
    BY <1>2, <2>1 DEF FindsUp
<1>4. QED
  BY <1>2, <1>3

(* hi is hung below lo: who had the root hi now has lo. *)
Moves(parent, p2, n, lo, hi) ==
    \A x \in 1 .. n : find(p2, x) = IF find(parent, x) = hi THEN lo ELSE find(parent, x)

(* So it is when both are roots. *)
LEMMA HungBelow ==
    ASSUME NEW n \in Nat, NEW parent, IsForest(parent, n), NEW lo \in 1 .. n, NEW hi \in 1 .. n,
           lo <= hi, parent[lo] = lo, parent[hi] = hi
    PROVE  /\ IsForest([parent EXCEPT ![hi] = lo], n)
           /\ Moves(parent, [parent EXCEPT ![hi] = lo], n, lo, hi)
<1> DEFINE p2 == [parent EXCEPT ![hi] = lo]
<1>1. p2[hi] = lo /\ \A y \in 1 .. n : y # hi => p2[y] = parent[y]
  BY DEF IsForest
<1>2. IsForest(p2, n)
  BY DEF IsForest
<1> HIDE DEF p2
<1> DEFINE Good(x) == find(p2, x) = IF find(parent, x) = hi THEN lo ELSE find(parent, x)
           T == {y \in 1 .. n : ~ Good(y)}
<1>3. T = {}
  <2> SUFFICES ASSUME T # {} PROVE FALSE
    OBVIOUS
  <2>1. T \in SUBSET Nat
    OBVIOUS
  <2>2. PICK y \in T : \A z \in T : y <= z
    <3> HIDE DEF T
    <3> QED BY <2>1, LeastNat
  <2>3. y \in 1 .. n /\ ~ Good(y)
    OBVIOUS
  <2>4. parent[y] \in 1 .. n /\ parent[y] <= y
    BY <2>3 DEF IsForest
  <2>5. FindsUp(parent, y) /\ FindsUp(p2, y) /\ FindsUp(p2, lo) /\ FindsUp(parent, lo)
    BY <1>2, <2>3, FindStep
  <2>6. find(p2, lo) = lo
    <3>1. p2[lo] = lo
      BY <1>1
    <3>2. QED
      BY <2>5, <3>1 DEF FindsUp
  <2>7. CASE y = hi
    <3>1. find(parent, y) = hi
      BY <2>5, <2>7 DEF FindsUp
    <3>2. find(p2, y) = lo
      BY <1>1, <2>5, <2>6, <2>7 DEF FindsUp
    <3>3. QED
      BY <2>3, <3>1, <3>2
  <2>8. CASE y # hi /\ parent[y] = y
    <3>1. find(parent, y) = y /\ find(p2, y) = y
      BY <1>1, <2>3, <2>5, <2>8 DEF FindsUp
    <3>2. QED
      BY <2>3, <2>8, <3>1
  <2>9. CASE y # hi /\ parent[y] # y
    <3>1. find(parent, y) = find(parent, parent[y]) /\ find(p2, y) = find(p2, parent[y])
      BY <1>1, <2>3, <2>5, <2>9 DEF FindsUp
    <3>2. Good(parent[y])
      <4>1. ~ (y <= parent[y])
        BY <2>3, <2>4, <2>9
      <4> HIDE DEF Good
      <4>2. QED
        BY <2>2, <2>4, <4>1
    <3>3. QED
      BY <2>3, <3>1, <3>2
  <2>10. QED
    BY <2>7, <2>8, <2>9
<1>4. Moves(parent, p2, n, lo, hi)
  BY <1>3 DEF Moves
<1>5. QED
  BY <1>2, <1>4 DEF p2

(* Two claims have one root. *)
Same(parent, x, y) == find(parent, x) = find(parent, y)

(* union joins the trees of a and b and no others. *)
Merged(parent, p2, n, a, b) ==
    \A x, y \in 1 .. n :
        Same(p2, x, y) <=> \/ Same(parent, x, y)
                           \/ Same(parent, x, a) /\ Same(parent, y, b)
                           \/ Same(parent, x, b) /\ Same(parent, y, a)

(* So it is. *)
LEMMA UnionFacts ==
    ASSUME NEW n \in Nat, NEW parent, IsForest(parent, n), NEW a \in 1 .. n, NEW b \in 1 .. n
    PROVE  IsForest(union(parent, a, b), n) /\ Merged(parent, union(parent, a, b), n, a, b)
<1> DEFINE ra == find(parent, a)
           rb == find(parent, b)
           p2 == union(parent, a, b)
<1>1. ra \in 1 .. n /\ rb \in 1 .. n /\ parent[ra] = ra /\ parent[rb] = rb
  BY FindFacts
<1>2. p2 = IF ra < rb THEN [parent EXCEPT ![rb] = ra] ELSE [parent EXCEPT ![ra] = rb]
  BY DEF union
<1> HIDE DEF ra, rb, p2
<1>3. IsForest(p2, n) /\ (Moves(parent, p2, n, ra, rb) \/ Moves(parent, p2, n, rb, ra))
  <2>1. CASE ra < rb
    <3>1. ra <= rb
      BY <1>1, <2>1
    <3>2. p2 = [parent EXCEPT ![rb] = ra]
      BY <1>2, <2>1
    <3>3. QED
      BY <1>1, <3>1, <3>2, HungBelow
  <2>2. CASE ~ (ra < rb)
    <3>1. rb <= ra
      BY <1>1, <2>2
    <3>2. p2 = [parent EXCEPT ![ra] = rb]
      BY <1>2, <2>2
    <3>3. QED
      BY <1>1, <3>1, <3>2, HungBelow
  <2>3. QED
    BY <2>1, <2>2
<1>4. ASSUME NEW x \in 1 .. n, NEW y \in 1 .. n
      PROVE  Same(p2, x, y) <=> \/ Same(parent, x, y)
                                \/ Same(parent, x, a) /\ Same(parent, y, b)
                                \/ Same(parent, x, b) /\ Same(parent, y, a)
  BY <1>3, Zenon DEF Moves, Same, ra, rb
<1>5. QED
  BY <1>3, <1>4 DEF Merged, p2

(* The supports of claims x and y meet. *)
Meet(near, x, y) == near[x] \cap near[y] # {}

(* A set of claims whose supports meet no others. *)
Closed(near, n, A) == \A x \in A, y \in (1 .. n) \ A : ~ Meet(near, x, y) /\ ~ Meet(near, y, x)

(* Nothing is joined that does not hang together. *)
Sound(parent, near, n) ==
    \A A \in SUBSET (1 .. n) : Closed(near, n, A) =>
        \A x, y \in 1 .. n : Same(parent, x, y) /\ x \in A => y \in A

(* All is joined that meets, up to the pair i, j of the loops. *)
Covers(parent, near, n, i, j) ==
    \A x, y \in 1 .. n :
        x < y /\ Meet(near, x, y) /\ (x < i \/ (x = i /\ y <= j)) => Same(parent, x, y)

(* The state of the loops after the pair i, j. *)
United(parent, near, n, i, j) ==
    IsForest(parent, n) /\ Sound(parent, near, n) /\ Covers(parent, near, n, i, j)

(* One more pair. *)
LEMMA PairFacts ==
    ASSUME NEW n \in Nat, NEW near, NEW parent, NEW i \in 1 .. n, NEW j \in 1 .. n,
           United(parent, near, n, i, j - 1)
    PROVE  United(IF i < j /\ Meet(near, i, j) THEN union(parent, i, j) ELSE parent, near, n, i, j)
<1>1. CASE i < j /\ Meet(near, i, j)
  <2> DEFINE p2 == union(parent, i, j)
  <2>1. IsForest(p2, n) /\ Merged(parent, p2, n, i, j)
    BY UnionFacts DEF United
  <2> HIDE DEF p2
  <2>2. Sound(p2, near, n)
    <3> SUFFICES ASSUME NEW A \in SUBSET (1 .. n), Closed(near, n, A),
                        NEW x \in 1 .. n, NEW y \in 1 .. n, Same(p2, x, y), x \in A
                 PROVE  y \in A
      BY DEF Sound
    <3>1. i \in A <=> j \in A
      BY <1>1 DEF Closed
    <3>2. \A v, w \in 1 .. n : Same(parent, v, w) /\ v \in A => w \in A
      BY DEF United, Sound
    <3>3. \A v, w \in 1 .. n : Same(parent, v, w) => Same(parent, w, v)
      BY DEF Same
    <3>4. CASE Same(parent, x, y)
      BY <3>2, <3>4
    <3>5. CASE Same(parent, x, i) /\ Same(parent, y, j)
      BY <3>1, <3>2, <3>3, <3>5
    <3>6. CASE Same(parent, x, j) /\ Same(parent, y, i)
      BY <3>1, <3>2, <3>3, <3>6
    <3>7. QED
      BY <2>1, <3>4, <3>5, <3>6 DEF Merged
  <2>3. Covers(p2, near, n, i, j)
    <3> SUFFICES ASSUME NEW x \in 1 .. n, NEW y \in 1 .. n, x < y, Meet(near, x, y),
                        x < i \/ (x = i /\ y <= j)
                 PROVE  Same(p2, x, y)
      BY DEF Covers
    <3>1. CASE x = i /\ y = j
      <4>1. Same(parent, x, i) /\ Same(parent, y, j)
        BY <3>1 DEF Same
      <4>2. QED
        BY <2>1, <4>1 DEF Merged
    <3>2. CASE ~ (x = i /\ y = j)
      <4>1. x < i \/ (x = i /\ y <= j - 1)
        BY <3>2
      <4>2. Same(parent, x, y)
        BY <4>1 DEF United, Covers
      <4>3. QED
        BY <2>1, <4>2 DEF Merged
    <3>3. QED
      BY <3>1, <3>2
  <2>4. QED
    BY <1>1, <2>1, <2>2, <2>3 DEF United, p2
<1>2. CASE ~ (i < j /\ Meet(near, i, j))
  <2>1. Covers(parent, near, n, i, j)
    <3> SUFFICES ASSUME NEW x \in 1 .. n, NEW y \in 1 .. n, x < y, Meet(near, x, y),
                        x < i \/ (x = i /\ y <= j)
                 PROVE  Same(parent, x, y)
      BY DEF Covers
    <3>1. x < i \/ (x = i /\ y <= j - 1)
      <4>1. ~ (x = i /\ y = j)
        BY <1>2
      <4>2. QED
        BY <4>1
    <3>2. QED
      BY <3>1 DEF United, Covers
  <2>2. QED
    BY <1>2, <2>1 DEF United
<1>3. QED
  BY <1>1, <1>2

(* The forests over n claims. *)
Forests(n) == {p \in [1 .. n -> 1 .. n] : IsForest(p, n)}

(* What one pair does to a forest. *)
Paired(p, near, i, j) == IF i < j /\ Meet(near, i, j) THEN union(p, i, j) ELSE p

(* It stays a forest. *)
LEMMA PairedForest ==
    ASSUME NEW n \in Nat, NEW near, NEW p \in Forests(n), NEW i \in 1 .. n, NEW j \in 1 .. n
    PROVE  Paired(p, near, i, j) \in Forests(n)
<1>1. \A q : q \in Forests(n) <=> IsForest(q, n)
  BY DEF Forests, IsForest
<1>2. IsForest(union(p, i, j), n)
  BY <1>1, UnionFacts
<1>3. QED
  BY <1>1, <1>2 DEF Paired

(* The states of the inner loop for claim i. *)
Rows(row, parent, i, near, n) ==
    row = [j \in 0 .. n |-> IF j = 0 THEN parent ELSE Paired(row[j - 1], near, i, j)]

(* They exist, and forests stay forests. *)
LEMMA UniteForest ==
    ASSUME NEW X, NEW near \in Seq(X), NEW parent \in Forests(Len(near)), NEW i \in 1 .. Len(near)
    PROVE  /\ Unite(parent, i, near) \in Forests(Len(near))
           /\ \E r : Rows(r, parent, i, near, Len(near)) /\ Unite(parent, i, near) = r[Len(near)]
<1> DEFINE n == Len(near)
           A == Forests(n)
           step == [x \in A \X (1 .. n) |-> Paired(x[1], near, i, x[2])]
<1>1. n \in Nat /\ i \in 1 .. n
  OBVIOUS
<1>2. parent \in A
  OBVIOUS
<1> HIDE DEF n
<1>3. \E row : Rows(row, parent, i, near, n)
  <2>1. ASSUME NEW p \in A, NEW j \in 1 .. n PROVE step[<<p, j>>] = Paired(p, near, i, j)
    OBVIOUS
  <2>2. StepsIn(step, A, n)
    <3> SUFFICES ASSUME NEW p \in A, NEW j \in 1 .. n PROVE step[<<p, j>>] \in A
      BY DEF StepsIn
    <3> HIDE DEF step
    <3> QED BY <1>1, <2>1, PairedForest
  <2> HIDE DEF A, step
  <2>3. PICK f : Unfolds(f, step, parent, A, n)
    BY <1>1, <1>2, <2>2, Recursion
  <2>4. ASSUME NEW j \in 0 .. n
        PROVE  f[j] = IF j = 0 THEN parent ELSE Paired(f[j - 1], near, i, j)
    <3>1. CASE j = 0
      BY <2>3, <3>1 DEF Unfolds
    <3>2. CASE j # 0
      <4>1. j \in 1 .. n /\ j - 1 \in 0 .. n
        BY <1>1, <3>2
      <4>2. f[j] = step[<<f[j - 1], j>>] /\ f[j - 1] \in A
        BY <2>3, <4>1 DEF Unfolds
      <4>3. QED
        BY <2>1, <3>2, <4>1, <4>2
    <3>3. QED
      BY <3>1, <3>2
  <2>5. f = [j \in 0 .. n |-> f[j]]
    BY <2>3 DEF Unfolds
  <2>6. f = [j \in 0 .. n |-> IF j = 0 THEN parent ELSE Paired(f[j - 1], near, i, j)]
    BY <2>4, <2>5
  <2>7. QED
    BY <2>6, Zenon DEF Rows
<1> DEFINE r == CHOOSE row : Rows(row, parent, i, near, n)
<1>4. Rows(r, parent, i, near, n)
  BY <1>3, Zenon
<1>5. Unite(parent, i, near) = r[n]
  BY Zenon DEF Unite, Rows, Paired, Meet, n
<1> HIDE DEF r, A
<1>6. r[0] = parent /\ \A j \in 1 .. n : r[j] = Paired(r[j - 1], near, i, j)
  BY <1>1, <1>4 DEF Rows
<1> DEFINE S == {j \in 0 .. n : r[j] \in A}
<1>7. 0 \in S
  BY <1>1, <1>2, <1>6
<1>8. ASSUME NEW j \in 0 .. n - 1, j \in S PROVE j + 1 \in S
  <2>1. j + 1 \in 1 .. n /\ (j + 1) - 1 = j /\ j + 1 \in 0 .. n
    BY <1>1
  <2>2. Paired(r[j], near, i, j + 1) \in A
    BY <1>1, <1>8, <2>1, PairedForest DEF A
  <2>3. r[j + 1] = Paired(r[j], near, i, j + 1)
    BY <1>6, <2>1
  <2>4. QED
    BY <2>1, <2>2, <2>3
<1>9. n \in S
  <2> HIDE DEF S
  <2>1. \A j \in 0 .. n : j \in S
    BY <1>1, <1>7, <1>8, UpTo
  <2>2. QED
    BY <1>1, <2>1
<1>10. QED
  BY <1>4, <1>5, <1>9 DEF n, A

(* The loop joins claim i with all later ones it meets. *)
LEMMA UniteFacts ==
    ASSUME NEW X, NEW near \in Seq(X), NEW parent, NEW i \in 1 .. Len(near),
           United(parent, near, Len(near), i, 0)
    PROVE  United(Unite(parent, i, near), near, Len(near), i, Len(near))
<1> DEFINE n == Len(near)
<1>1. n \in Nat /\ i \in 1 .. n
  OBVIOUS
<1>2. parent \in Forests(n)
  BY DEF United, Forests, IsForest
<1>3. PICK r : Rows(r, parent, i, near, n) /\ Unite(parent, i, near) = r[n]
  BY <1>2, UniteForest
<1> HIDE DEF n
<1>4. r[0] = parent /\ \A j \in 1 .. n : r[j] = Paired(r[j - 1], near, i, j)
  BY <1>1, <1>3 DEF Rows
<1> DEFINE S == {j \in 0 .. n : United(r[j], near, n, i, j)}
<1>5. 0 \in S
  BY <1>1, <1>4 DEF n
<1>6. ASSUME NEW j \in 0 .. n - 1, j \in S PROVE j + 1 \in S
  <2>1. j + 1 \in 1 .. n /\ (j + 1) - 1 = j /\ j + 1 \in 0 .. n
    BY <1>1
  <2>2. United(r[j], near, n, i, (j + 1) - 1)
    BY <1>6, <2>1
  <2>3. United(Paired(r[j], near, i, j + 1), near, n, i, j + 1)
    BY <1>1, <2>1, <2>2, PairFacts, Zenon DEF Paired
  <2>4. r[j + 1] = Paired(r[j], near, i, j + 1)
    BY <1>4, <2>1
  <2>5. QED
    BY <2>1, <2>3, <2>4
<1>7. n \in S
  <2> HIDE DEF S
  <2>1. \A j \in 0 .. n : j \in S
    BY <1>1, <1>5, <1>6, UpTo
  <2>2. QED
    BY <1>1, <2>1
<1>8. QED
  BY <1>3, <1>7 DEF n

(* Before the loops every claim is its own root. *)
LEMMA OwnRoots ==
    ASSUME NEW n \in Nat, NEW near, NEW own, own = [k \in 1 .. n |-> k]
    PROVE  \A i \in 0 .. 1 : United(own, near, n, i, 0)
<1>1. IsForest(own, n)
  BY DEF IsForest
<1>2. ASSUME NEW x \in 1 .. n PROVE find(own, x) = x
  <2>1. FindsUp(own, x) /\ own[x] = x
    BY <1>1, FindStep
  <2>2. QED
    BY <2>1 DEF FindsUp
<1>3. Sound(own, near, n)
  BY <1>2 DEF Sound, Same
<1>4. \A i \in 0 .. 1 : Covers(own, near, n, i, 0)
  BY DEF Covers
<1>5. QED
  BY <1>1, <1>3, <1>4 DEF United

(* The states of the outer loop. *)
Unites(after, near, n) ==
    after = [i \in 0 .. n |-> IF i = 0 THEN [k \in DOMAIN near |-> k] ELSE Unite(after[i - 1], i, near)]

(* A row that is done is one before the next. *)
LEMMA NextRow ==
    ASSUME NEW n \in Nat, NEW near, NEW p, NEW i \in 0 .. n, United(p, near, n, i, n)
    PROVE  United(p, near, n, i + 1, 0)
<1>1. Covers(p, near, n, i + 1, 0)
  <2> SUFFICES ASSUME NEW x \in 1 .. n, NEW y \in 1 .. n, x < y, Meet(near, x, y),
                      x < i + 1 \/ (x = i + 1 /\ y <= 0)
               PROVE  Same(p, x, y)
    BY DEF Covers
  <2>1. x < i \/ (x = i /\ y <= n)
    OBVIOUS
  <2>2. QED
    BY <2>1 DEF United, Covers
<1>2. QED
  BY <1>1 DEF United

(* After both loops the trees are what hangs together. *)
LEMMA ForestFacts ==
    ASSUME NEW X, NEW near \in Seq(X)
    PROVE  United(Forest(near), near, Len(near), Len(near), Len(near))
<1> DEFINE n == Len(near)
           A == Forests(n)
           own == [k \in DOMAIN near |-> k]
           step == [x \in A \X (1 .. n) |-> Unite(x[1], x[2], near)]
<1>1. n \in Nat /\ own = [k \in 1 .. n |-> k]
  OBVIOUS
<1>2. own \in A
  <2>1. own \in [1 .. n -> 1 .. n] /\ \A k \in 1 .. n : own[k] <= k
    BY <1>1
  <2>2. QED
    BY <2>1 DEF Forests, IsForest
<1>3. \A p \in A, i \in 1 .. n : Unite(p, i, near) \in A
  BY UniteForest
<1> HIDE DEF n, own
<1>4. \E after : Unites(after, near, n)
  <2>1. ASSUME NEW p \in A, NEW j \in 1 .. n PROVE step[<<p, j>>] = Unite(p, j, near)
    OBVIOUS
  <2> HIDE DEF A, step
  <2>2. StepsIn(step, A, n)
    BY <1>3, <2>1 DEF StepsIn
  <2>3. PICK f : Unfolds(f, step, own, A, n)
    BY <1>1, <1>2, <2>2, Recursion
  <2>4. ASSUME NEW j \in 0 .. n
        PROVE  f[j] = IF j = 0 THEN own ELSE Unite(f[j - 1], j, near)
    <3>1. CASE j = 0
      BY <2>3, <3>1 DEF Unfolds
    <3>2. CASE j # 0
      <4>1. j \in 1 .. n /\ j - 1 \in 0 .. n
        BY <1>1, <3>2
      <4>2. f[j] = step[<<f[j - 1], j>>] /\ f[j - 1] \in A
        BY <2>3, <4>1 DEF Unfolds
      <4>3. QED
        BY <2>1, <3>2, <4>1, <4>2
    <3>3. QED
      BY <3>1, <3>2
  <2>5. f = [j \in 0 .. n |-> f[j]]
    BY <2>3 DEF Unfolds
  <2>6. f = [j \in 0 .. n |-> IF j = 0 THEN own ELSE Unite(f[j - 1], j, near)]
    BY <2>4, <2>5
  <2>7. QED
    BY <2>6, Zenon DEF Unites, own
<1> DEFINE r == CHOOSE after : Unites(after, near, n)
<1>5. Unites(r, near, n)
  BY <1>4, Zenon
<1>6. Forest(near) = r[n]
  BY Zenon DEF Forest, Unites, n
<1> HIDE DEF r, A
<1>7. r[0] = own /\ \A i \in 1 .. n : r[i] = Unite(r[i - 1], i, near)
  BY <1>1, <1>5 DEF Unites, own
<1> DEFINE S == {i \in 0 .. n : United(r[i], near, n, i + 1, 0) /\ (i > 0 => United(r[i], near, n, i, n))}
<1>8. 0 \in S
  BY <1>1, <1>7, OwnRoots
<1>9. ASSUME NEW i \in 0 .. n - 1, i \in S PROVE i + 1 \in S
  <2>1. i + 1 \in 1 .. n /\ (i + 1) - 1 = i /\ i + 1 \in 0 .. n
    BY <1>1
  <2>2. United(r[i], near, n, i + 1, 0)
    BY <1>9
  <2>3. United(Unite(r[i], i + 1, near), near, n, i + 1, n)
    BY <2>1, <2>2, UniteFacts DEF n
  <2>4. r[i + 1] = Unite(r[i], i + 1, near)
    BY <1>7, <2>1
  <2>5. United(r[i + 1], near, n, i + 1, n)
    BY <2>3, <2>4
  <2>6. United(r[i + 1], near, n, (i + 1) + 1, 0)
    BY <1>1, <2>1, <2>5, NextRow
  <2>7. QED
    BY <2>1, <2>5, <2>6
<1>10. n \in S
  <2> HIDE DEF S
  <2>1. \A i \in 0 .. n : i \in S
    BY <1>1, <1>8, <1>9, UpTo
  <2>2. QED
    BY <1>1, <2>1
<1>11. United(r[n], near, n, n, n)
  <2>1. CASE n > 0
    BY <1>10, <2>1
  <2>2. CASE n = 0
    <3>1. United(own, near, n, 0, 0)
      BY <1>1, OwnRoots
    <3>2. QED
      BY <1>7, <2>2, <3>1
  <2>3. QED
    BY <1>1, <2>1, <2>2
<1>12. QED
  BY <1>1, <1>6, <1>11 DEF n

(* Claims as they are partitioned: their ids are numbers, and different. *)
IsClaims(claims) ==
    /\ \E C : claims \in Seq(C)
    /\ \A i \in DOMAIN claims : claims[i].id \in Nat
    /\ \A i, j \in DOMAIN claims : i # j => claims[i].id # claims[j].id

(* The claims of one root. *)
Tree(parent, n, r) == {i \in 1 .. n : find(parent, i) = r}

(* The groups are the trees of a forest, each once, listed by id. *)
Grouped(g, claims, parent, n) ==
    /\ g \in Seq(Seq(1 .. n))
    /\ \A k \in DOMAIN g : \E r \in 1 .. n : ToSet(g[k]) = Tree(parent, n, find(parent, r))
    /\ \A i \in 1 .. n : \E k \in DOMAIN g : i \in ToSet(g[k])
    /\ \A k, l \in DOMAIN g : k # l => ToSet(g[k]) \cap ToSet(g[l]) = {}
    /\ \A k \in DOMAIN g : \A i, j \in DOMAIN g[k] :
          i < j => claims[g[k][i]].id < claims[g[k][j]].id

(* Groups gives them. *)
LEMMA GroupsFacts ==
    ASSUME NEW claims, IsClaims(claims), NEW parent, IsForest(parent, Len(claims))
    PROVE  Grouped(Groups(claims, parent), claims, parent, Len(claims))
<1> DEFINE n == Len(claims)
           index == [i \in 1 .. n |-> i]
           K == {find(parent, i) : i \in 1 .. n}
           roots == Chosen(index, K)
           tree(k) == Chosen(index, Tree(parent, n, roots[k]))
           key == [i \in 1 .. n |-> claims[i].id]
           g == Groups(claims, parent)
<1>1. n \in Nat /\ DOMAIN claims = 1 .. n
  BY DEF IsClaims
<1> HIDE DEF n
<1>2. key \in [1 .. n -> Nat] /\ \A i, j \in 1 .. n : i # j => key[i] # key[j]
  BY <1>1 DEF IsClaims
<1>3. ById(claims) = KeyLess(key, 1 .. n)
  BY <1>1 DEF ById, KeyLess
<1>4. roots \in Seq(1 .. n) /\ ToSet(roots) = K /\ \A i, j \in DOMAIN roots : i # j => roots[i] # roots[j]
  <2>1. K \in SUBSET (1 .. n)
    BY <1>1, FindFacts DEF n
  <2> HIDE DEF K
  <2>2. QED
    BY <1>1, <2>1, IndexChosen
<1>5. g = [k \in DOMAIN roots |-> Arranged(tree(k), KeyLess(key, 1 .. n))]
  BY <1>1, <1>3, Zenon DEF Groups, Tree
<1>6. ASSUME NEW k \in DOMAIN roots
      PROVE  /\ tree(k) \in Seq(1 .. n) /\ ToSet(tree(k)) = Tree(parent, n, roots[k])
             /\ SortedBy(Arranged(tree(k), KeyLess(key, 1 .. n)), tree(k), key, 1 .. n)
  <2> DEFINE t == tree(k)
  <2>1. t \in Seq(1 .. n) /\ ToSet(t) = Tree(parent, n, roots[k]) /\ \A i, j \in DOMAIN t : i # j => t[i] # t[j]
    <3>1. Tree(parent, n, roots[k]) \in SUBSET (1 .. n)
      BY DEF Tree
    <3>2. QED
      BY <1>1, <3>1, IndexChosen
  <2> HIDE DEF t, key
  <2>2. \A i, j \in DOMAIN t : i # j => key[t[i]] # key[t[j]]
    <3>1. \A i \in DOMAIN t : t[i] \in 1 .. n
      BY <2>1, ItemIn
    <3>2. QED
      BY <1>2, <2>1, <3>1
  <2>3. SortedBy(Arranged(t, KeyLess(key, 1 .. n)), t, key, 1 .. n)
    BY <1>2, <2>1, <2>2, SortedByKey
  <2>4. QED
    BY <2>1, <2>3 DEF t
<1> HIDE DEF roots, tree, g, K
<1>7. DOMAIN g = DOMAIN roots /\ \A k \in DOMAIN g : SortedBy(g[k], tree(k), key, 1 .. n)
  BY <1>5, <1>6
<1>8. \A k \in DOMAIN g : ToSet(g[k]) = Tree(parent, n, roots[k])
  BY <1>6, <1>7 DEF SortedBy
<1>9. g \in Seq(Seq(1 .. n))
  <2>1. \A k \in DOMAIN g : g[k] \in Seq(1 .. n)
    BY <1>7 DEF SortedBy
  <2>2. DOMAIN g = 1 .. Len(roots) /\ Len(roots) \in Nat
    BY <1>4, <1>7
  <2>3. g = [k \in 1 .. Len(roots) |-> g[k]]
    BY <1>5, <1>7, <2>2
  <2> HIDE DEF key
  <2>4. QED
    BY <2>1, <2>2, <2>3
<1>10. \A k \in DOMAIN g : \E r \in 1 .. n : ToSet(g[k]) = Tree(parent, n, find(parent, r))
  <2> SUFFICES ASSUME NEW k \in DOMAIN g PROVE \E r \in 1 .. n : ToSet(g[k]) = Tree(parent, n, find(parent, r))
    OBVIOUS
  <2>1. roots[k] \in K
    BY <1>4, <1>7 DEF ToSet
  <2>2. QED
    BY <1>8, <2>1 DEF K
<1>11. ASSUME NEW i \in 1 .. n PROVE \E k \in DOMAIN g : i \in ToSet(g[k])
  <2>1. find(parent, i) \in K
    BY DEF K
  <2>2. PICK k \in DOMAIN roots : roots[k] = find(parent, i)
    BY <1>4, <2>1 DEF ToSet
  <2>3. i \in Tree(parent, n, roots[k])
    BY <2>2 DEF Tree
  <2>4. QED
    BY <1>7, <1>8, <2>3
<1>12. ASSUME NEW k \in DOMAIN g, NEW l \in DOMAIN g, k # l PROVE ToSet(g[k]) \cap ToSet(g[l]) = {}
  <2>1. roots[k] # roots[l]
    BY <1>4, <1>7, <1>12
  <2>2. QED
    BY <1>8, <2>1 DEF Tree
<1>13. ASSUME NEW k \in DOMAIN g, NEW i \in DOMAIN g[k], NEW j \in DOMAIN g[k], i < j
       PROVE  claims[g[k][i]].id < claims[g[k][j]].id
  <2>1. key[g[k][i]] < key[g[k][j]]
    BY <1>7, <1>13 DEF SortedBy
  <2>2. g[k][i] \in 1 .. n /\ g[k][j] \in 1 .. n
    <3>1. g[k] \in Seq(1 .. n)
      BY <1>7 DEF SortedBy
    <3>2. QED
      BY <3>1, ItemIn
  <2>3. QED
    BY <2>1, <2>2
<1>14. QED
  BY <1>9, <1>10, <1>11, <1>12, <1>13 DEF Grouped, n, g

(* The trees of a forest. *)
Trees(parent, n) == {Tree(parent, n, find(parent, r)) : r \in 1 .. n}

(* Claims meet both ways or not at all, and those that meet have one root. *)
LEMMA MeetSame ==
    ASSUME NEW n \in Nat, NEW near, NEW parent, United(parent, near, n, n, n),
           NEW x \in 1 .. n, NEW y \in 1 .. n, Meet(near, x, y)
    PROVE  Meet(near, y, x) /\ Same(parent, x, y)
<1>1. Meet(near, y, x)
  BY DEF Meet
<1>2. \A v, w \in 1 .. n : v < w /\ Meet(near, v, w) => Same(parent, v, w)
  <2> SUFFICES ASSUME NEW v \in 1 .. n, NEW w \in 1 .. n, v < w, Meet(near, v, w)
               PROVE  Same(parent, v, w)
    OBVIOUS
  <2>1. v < n \/ (v = n /\ w <= n)
    OBVIOUS
  <2>2. QED
    BY <2>1 DEF United, Covers
<1>3. x < y \/ y < x \/ x = y
  OBVIOUS
<1>4. QED
  BY <1>1, <1>2, <1>3 DEF Same

(* After both loops the trees are the components. *)
LEMMA TreesAreComponents ==
    ASSUME NEW n \in Nat, NEW near, DOMAIN near = 1 .. n, NEW parent, United(parent, near, n, n, n)
    PROVE  IsComponents(Trees(parent, n), near)
<1>1. \A r \in 1 .. n : r \in Tree(parent, n, find(parent, r))
  BY DEF Tree
<1>2. \A b \in Trees(parent, n) : \E r \in 1 .. n : b = Tree(parent, n, find(parent, r))
  BY DEF Trees
<1>3. \A b \in Trees(parent, n) : b \subseteq 1 .. n /\ \A x \in b, y \in 1 .. n : y \in b <=> Same(parent, x, y)
  BY <1>2 DEF Tree, Same
<1>4. UNION Trees(parent, n) = DOMAIN near
  <2>1. ASSUME NEW r \in 1 .. n PROVE r \in UNION Trees(parent, n)
    <3>1. Tree(parent, n, find(parent, r)) \in Trees(parent, n)
      BY DEF Trees
    <3>2. QED
      BY <1>1, <3>1
  <2>2. QED
    BY <1>3, <2>1
<1>5. {} \notin Trees(parent, n)
  BY <1>1, <1>2
<1>6. ASSUME NEW a \in Trees(parent, n), NEW b \in Trees(parent, n), a # b, NEW x \in a, NEW y \in b
      PROVE  x # y /\ near[x] \cap near[y] = {}
  <2>1. x \in 1 .. n /\ y \in 1 .. n
    BY <1>3
  <2>2. ~ Same(parent, x, y)
    <3> SUFFICES ASSUME Same(parent, x, y) PROVE FALSE
      OBVIOUS
    <3>1. ASSUME NEW z \in 1 .. n PROVE z \in a <=> z \in b
      BY <1>3, <2>1 DEF Same
    <3>2. a = b
      BY <1>3, <3>1
    <3>3. QED
      BY <1>6, <3>2
  <2>3. ~ Meet(near, x, y)
    BY <2>1, <2>2, MeetSame
  <2>4. QED
    BY <2>2, <2>3 DEF Same, Meet
<1>7. ASSUME NEW b \in Trees(parent, n), NEW part \in (SUBSET b) \ {{}, b},
             ~ \E x \in part, y \in b \ part : near[x] \cap near[y] # {}
      PROVE  FALSE
  <2>1. part \in SUBSET (1 .. n) /\ part \subseteq b
    BY <1>3
  <2>2. \A x \in part, y \in b \ part : ~ Meet(near, x, y)
    BY <1>7 DEF Meet
  <2>3. Closed(near, n, part)
    <3> SUFFICES ASSUME NEW x \in part, NEW y \in (1 .. n) \ part
                 PROVE  ~ Meet(near, x, y) /\ ~ Meet(near, y, x)
      BY DEF Closed
    <3>1. x \in 1 .. n /\ x \in b /\ y \in 1 .. n
      BY <2>1
    <3>2. Meet(near, x, y) <=> Meet(near, y, x)
      BY DEF Meet
    <3>3. CASE y \in b
      BY <2>2, <3>2, <3>3
    <3>4. CASE y \notin b
      <4>1. ~ Same(parent, x, y)
        BY <1>3, <3>1, <3>4
      <4>2. QED
        BY <3>1, <3>2, <4>1, MeetSame
    <3>5. QED
      BY <3>3, <3>4
  <2>4. PICK x \in part : TRUE
    BY <1>7
  <2>5. PICK y \in b : y \notin part
    BY <1>7, <2>1
  <2>6. x \in b /\ x \in 1 .. n /\ y \in 1 .. n /\ Same(parent, x, y)
    BY <1>3, <2>1
  <2>7. y \in part
    BY <2>1, <2>3, <2>6 DEF United, Sound
  <2>8. QED
    BY <2>5, <2>7
<1>8. \A b \in Trees(parent, n) : \A part \in (SUBSET b) \ {{}, b} :
         \E x \in part, y \in b \ part : near[x] \cap near[y] # {}
  BY <1>7
<1>9. QED
  BY <1>4, <1>5, <1>6, <1>8 DEF IsComponents

(* The clusters hold the trees, listed by id. *)
Listed(c, claims, parent, n) ==
    /\ {ToSet(s) : s \in ToSet(c)} = Trees(parent, n)
    /\ \A i, j \in DOMAIN c : i < j => claims[c[i][1]].id < claims[c[j][1]].id
    /\ \A i \in DOMAIN c : \A j, k \in DOMAIN c[i] : j < k => claims[c[i][j]].id < claims[c[i][k]].id

(* Sorting the groups gives that. *)
LEMMA ListedFacts ==
    ASSUME NEW claims, IsClaims(claims), NEW parent, IsForest(parent, Len(claims)),
           NEW g, Grouped(g, claims, parent, Len(claims))
    PROVE  Listed(Arranged(g, ByFirst(claims, g)), claims, parent, Len(claims))
<1> DEFINE n == Len(claims)
           V == ToSet(g)
           key == [x \in V |-> claims[x[1]].id]
           c == Arranged(g, ByFirst(claims, g))
<1>1. n \in Nat /\ DOMAIN claims = 1 .. n
  BY DEF IsClaims
<1> HIDE DEF n
<1>2. /\ g \in Seq(Seq(1 .. n))
      /\ \A k \in DOMAIN g : \E r \in 1 .. n : ToSet(g[k]) = Tree(parent, n, find(parent, r))
      /\ \A i \in 1 .. n : \E k \in DOMAIN g : i \in ToSet(g[k])
      /\ \A k, l \in DOMAIN g : k # l => ToSet(g[k]) \cap ToSet(g[l]) = {}
      /\ \A k \in DOMAIN g : \A i, j \in DOMAIN g[k] :
            i < j => claims[g[k][i]].id < claims[g[k][j]].id
  BY Zenon DEF Grouped, n
<1>3. \A k \in DOMAIN g : g[k] \in Seq(1 .. n)
  BY <1>2, ItemIn
<1>4. \A x : x \in V <=> \E k \in DOMAIN g : x = g[k]
  BY DEF ToSet
<1>5. g \in Seq(V)
  <2>1. DOMAIN g = 1 .. Len(g) /\ Len(g) \in Nat /\ g = [k \in 1 .. Len(g) |-> g[k]]
    BY <1>2
  <2>2. \A k \in 1 .. Len(g) : g[k] \in V
    BY <1>4, <2>1
  <2> HIDE DEF V
  <2>3. QED
    BY <2>1, <2>2
<1>6. ASSUME NEW k \in DOMAIN g PROVE g[k][1] \in 1 .. n /\ g[k][1] \in ToSet(g[k])
  <2> DEFINE x == g[k]
  <2>1. x \in Seq(1 .. n)
    BY <1>3
  <2>2. PICK r \in 1 .. n : ToSet(x) = Tree(parent, n, find(parent, r))
    BY <1>2
  <2>3. r \in ToSet(x)
    BY <2>2 DEF Tree
  <2> HIDE DEF x
  <2>4. PICK i \in DOMAIN x : x[i] = r
    BY <2>3 DEF ToSet
  <2>5. 1 \in DOMAIN x
    <3>1. DOMAIN x = 1 .. Len(x) /\ Len(x) \in Nat
      BY <2>1
    <3>2. QED
      BY <2>4, <3>1
  <2>6. x[1] \in ToSet(x)
    BY <2>5 DEF ToSet
  <2>7. x[1] \in 1 .. n
    BY <2>1, <2>5, ItemIn
  <2>8. QED
    BY <2>6, <2>7 DEF x
<1>7. key \in [V -> Nat]
  <2>1. ASSUME NEW x \in V PROVE claims[x[1]].id \in Nat
    <3>1. x[1] \in 1 .. n
      BY <1>4, <1>6
    <3>2. QED
      BY <1>1, <3>1 DEF IsClaims
  <2> HIDE DEF V
  <2>2. QED
    BY <2>1
<1>8. ASSUME NEW k \in DOMAIN g, NEW l \in DOMAIN g, k # l PROVE key[g[k]] # key[g[l]]
  <2>1. g[k] \in V /\ g[l] \in V
    BY <1>4
  <2>2. g[k][1] # g[l][1]
    <3>1. g[k][1] \in ToSet(g[k]) /\ g[l][1] \in ToSet(g[l])
      BY <1>6
    <3>2. ToSet(g[k]) \cap ToSet(g[l]) = {}
      BY <1>2, <1>8, Zenon
    <3>3. QED
      BY <3>1, <3>2, Zenon
  <2>3. claims[g[k][1]].id # claims[g[l][1]].id
    BY <1>1, <1>6, <2>2 DEF IsClaims
  <2>4. key[g[k]] = claims[g[k][1]].id /\ key[g[l]] = claims[g[l][1]].id
    <3> HIDE DEF V
    <3> QED BY <2>1
  <2>5. QED
    BY <2>3, <2>4
<1>9. ByFirst(claims, g) = KeyLess(key, V)
  <2>1. ASSUME NEW x \in V PROVE key[x] = claims[x[1]].id
    <3> HIDE DEF V
    <3> QED OBVIOUS
  <2> HIDE DEF key
  <2>2. ByFirst(claims, g) = {p \in V \X V : claims[p[1][1]].id < claims[p[2][1]].id}
    BY Zenon DEF ByFirst
  <2>3. ASSUME NEW p \in V \X V PROVE claims[p[1][1]].id < claims[p[2][1]].id <=> key[p[1]] < key[p[2]]
    <3>1. p[1] \in V /\ p[2] \in V
      <4> HIDE DEF V
      <4> QED OBVIOUS
    <3>2. QED
      BY <2>1, <3>1
  <2> HIDE DEF V
  <2>4. QED
    BY <2>2, <2>3, Zenon DEF KeyLess
<1>10. SortedBy(c, g, key, V)
  <2>1. SortedBy(Arranged(g, KeyLess(key, V)), g, key, V)
    <3> HIDE DEF key, V
    <3> QED BY <1>5, <1>7, <1>8, SortedByKey
  <2>2. QED
    BY <1>9, <2>1
<1> HIDE DEF c, key, V
<1>11. {ToSet(s) : s \in ToSet(c)} = Trees(parent, n)
  <2>1. ToSet(c) = V
    BY <1>10 DEF SortedBy, V
  <2>2. ASSUME NEW s \in V PROVE ToSet(s) \in Trees(parent, n)
    BY <1>2, <1>4 DEF Trees
  <2>3. ASSUME NEW r \in 1 .. n
        PROVE  \E s \in V : ToSet(s) = Tree(parent, n, find(parent, r))
    <3>1. PICK k \in DOMAIN g : r \in ToSet(g[k])
      BY <1>2
    <3>2. PICK q \in 1 .. n : ToSet(g[k]) = Tree(parent, n, find(parent, q))
      BY <1>2
    <3>3. find(parent, r) = find(parent, q)
      BY <3>1, <3>2 DEF Tree
    <3>4. QED
      BY <1>4, <3>2, <3>3
  <2>4. ASSUME NEW t \in Trees(parent, n) PROVE \E s \in V : t = ToSet(s)
    BY <2>3 DEF Trees
  <2>5. QED
    BY <2>1, <2>2, <2>4
<1>12. \A i \in DOMAIN c : c[i] \in V
  BY <1>10, ItemIn DEF SortedBy
<1>13. ASSUME NEW i \in DOMAIN c, NEW j \in DOMAIN c, i < j
       PROVE  claims[c[i][1]].id < claims[c[j][1]].id
  <2>1. key[c[i]] < key[c[j]]
    BY <1>10, <1>13 DEF SortedBy
  <2>2. key[c[i]] = claims[c[i][1]].id /\ key[c[j]] = claims[c[j][1]].id
    BY <1>12 DEF key
  <2>3. QED
    BY <2>1, <2>2
<1>14. ASSUME NEW i \in DOMAIN c, NEW j \in DOMAIN c[i], NEW k \in DOMAIN c[i], j < k
       PROVE  claims[c[i][j]].id < claims[c[i][k]].id
  <2>1. PICK l \in DOMAIN g : c[i] = g[l]
    BY <1>4, <1>12
  <2>2. QED
    BY <1>2, <1>14, <2>1
<1>15. QED
  BY <1>11, <1>13, <1>14 DEF Listed, n, c

(* The particles of a seed and a graph. *)
Everywhere(seed, adj) == seed \cup DOMAIN adj \cup UNION {adj[p] : p \in DOMAIN adj}

(* path leads from seed to q in d hops. *)
Leads(path, d, seed, adj, q) ==
    /\ path \in [0 .. d -> Everywhere(seed, adj)]
    /\ path[0] \in seed /\ path[d] = q
    /\ \A i \in 1 .. d : path[i - 1] \in DOMAIN adj /\ path[i] \in adj[path[i - 1]]

(* The neighbours of S. *)
Around(S, adj) == UNION {adj[p] : p \in S \cap DOMAIN adj}

(* What is within radius hops is what such a path leads to. *)
LEMMA WithinIs ==
    ASSUME NEW seed, NEW adj, NEW r
    PROVE  Within(seed, adj, r) =
              {q \in Everywhere(seed, adj) : \E d \in 0 .. r : \E path : Leads(path, d, seed, adj, q)}
  BY Zenon DEF Within, Leads, Everywhere

(* No hop leads nowhere. *)
LEMMA WithinZero ==
    ASSUME NEW seed, NEW adj
    PROVE  Within(seed, adj, 0) = seed
<1> DEFINE all == Everywhere(seed, adj)
           W == Within(seed, adj, 0)
<1>0. \A q : q \in W <=> q \in all /\ \E d \in 0 .. 0 : \E path : Leads(path, d, seed, adj, q)
  BY WithinIs
<1>1. seed \subseteq all
  BY DEF Everywhere
<1> HIDE DEF all, W
<1>2. ASSUME NEW q \in seed PROVE q \in W
  <2> DEFINE path == [i \in 0 .. 0 |-> q]
  <2>1. path \in [0 .. 0 -> all] /\ path[0] = q
    BY <1>1
  <2>2. \A i \in 1 .. 0 : FALSE
    OBVIOUS
  <2> HIDE DEF path
  <2>3. Leads(path, 0, seed, adj, q)
    BY <2>1, <2>2 DEF Leads, all
  <2>4. QED
    BY <1>0, <1>1, <2>3
<1>3. ASSUME NEW q \in W PROVE q \in seed
  <2>1. PICK path : Leads(path, 0, seed, adj, q)
    BY <1>0
  <2>2. QED
    BY <2>1 DEF Leads
<1>4. QED
  BY <1>2, <1>3 DEF W

(* One hop more leads to the neighbours. *)
LEMMA WithinStep ==
    ASSUME NEW seed, NEW adj, NEW r \in Nat
    PROVE  Within(seed, adj, r + 1) = Within(seed, adj, r) \cup Around(Within(seed, adj, r), adj)
<1> DEFINE all == Everywhere(seed, adj)
           W(k) == Within(seed, adj, k)
<1>1. \A k, q : q \in W(k) <=> q \in all /\ \E d \in 0 .. k : \E path : Leads(path, d, seed, adj, q)
  BY WithinIs
<1>2. \A p \in DOMAIN adj : adj[p] \subseteq all
  BY DEF Everywhere
<1> HIDE DEF all, W
<1>3. ASSUME NEW q \in W(r) PROVE q \in W(r + 1)
  <2>1. PICK d \in 0 .. r : \E path : Leads(path, d, seed, adj, q)
    BY <1>1
  <2>2. d \in 0 .. r + 1
    OBVIOUS
  <2>3. QED
    BY <1>1, <1>3, <2>1, <2>2
<1>4. ASSUME NEW p \in W(r), p \in DOMAIN adj, NEW q \in adj[p] PROVE q \in W(r + 1)
  <2>1. PICK d \in 0 .. r : \E path : Leads(path, d, seed, adj, p)
    BY <1>1
  <2>2. PICK path : Leads(path, d, seed, adj, p)
    BY <2>1
  <2> DEFINE next == [i \in 0 .. d + 1 |-> IF i = d + 1 THEN q ELSE path[i]]
  <2>3. q \in all
    BY <1>2, <1>4
  <2>4. \A i \in 0 .. d : path[i] \in all
    BY <2>2 DEF Leads, all
  <2>5. next \in [0 .. d + 1 -> all]
    BY <2>3, <2>4
  <2>6. next[d + 1] = q /\ \A i \in 0 .. d : next[i] = path[i]
    OBVIOUS
  <2> HIDE DEF next
  <2>7. next[0] \in seed
    BY <2>2, <2>6 DEF Leads
  <2>8. ASSUME NEW i \in 1 .. d + 1 PROVE next[i - 1] \in DOMAIN adj /\ next[i] \in adj[next[i - 1]]
    <3>1. CASE i = d + 1
      <4>1. next[i - 1] = p
        BY <2>2, <2>6, <3>1 DEF Leads
      <4>2. QED
        BY <1>4, <2>6, <3>1, <4>1
    <3>2. CASE i # d + 1
      <4>1. i \in 1 .. d /\ i - 1 \in 0 .. d /\ i \in 0 .. d
        BY <3>2
      <4>2. QED
        BY <2>2, <2>6, <4>1 DEF Leads
    <3>3. QED
      BY <3>1, <3>2
  <2>9. Leads(next, d + 1, seed, adj, q)
    BY <2>5, <2>6, <2>7, <2>8 DEF Leads, all
  <2>10. d + 1 \in 0 .. r + 1
    OBVIOUS
  <2>11. QED
    BY <1>1, <2>3, <2>9, <2>10
<1>5. ASSUME NEW q \in W(r + 1), q \notin W(r) PROVE \E p \in W(r) \cap DOMAIN adj : q \in adj[p]
  <2>1. PICK d \in 0 .. r + 1 : \E path : Leads(path, d, seed, adj, q)
    BY <1>1
  <2>2. d = r + 1
    <3>1. q \in all
      BY <1>1
    <3>2. d \notin 0 .. r
      BY <1>1, <1>5, <2>1, <3>1
    <3>3. QED
      BY <3>2
  <2>3. PICK path : Leads(path, r + 1, seed, adj, q)
    BY <2>1, <2>2
  <2> DEFINE before == [i \in 0 .. r |-> path[i]]
             p == path[r]
  <2>4. path[r] \in DOMAIN adj /\ q \in adj[path[r]]
    <3>1. r + 1 \in 1 .. r + 1 /\ (r + 1) - 1 = r
      OBVIOUS
    <3>2. QED
      BY <2>3, <3>1 DEF Leads
  <2>5. path[r] \in all /\ before \in [0 .. r -> all]
    BY <2>3 DEF Leads, all
  <2>6. \A i \in 0 .. r : before[i] = path[i]
    OBVIOUS
  <2> HIDE DEF before
  <2>7. before[0] \in seed /\ before[r] = path[r]
    BY <2>3, <2>6 DEF Leads
  <2>8. ASSUME NEW i \in 1 .. r PROVE before[i - 1] \in DOMAIN adj /\ before[i] \in adj[before[i - 1]]
    <3>1. i \in 1 .. r + 1 /\ i - 1 \in 0 .. r /\ i \in 0 .. r
      OBVIOUS
    <3>2. QED
      BY <2>3, <2>6, <3>1 DEF Leads
  <2>9. Leads(before, r, seed, adj, path[r])
    BY <2>5, <2>7, <2>8 DEF Leads, all
  <2>10. path[r] \in W(r)
    <3>1. r \in 0 .. r
      OBVIOUS
    <3>2. QED
      BY <1>1, <2>5, <2>9, <3>1
  <2>11. QED
    BY <2>4, <2>10
<1>6. \A q : q \in Around(W(r), adj) <=> \E p \in W(r) \cap DOMAIN adj : q \in adj[p]
  BY DEF Around
<1>7. W(r + 1) = W(r) \cup Around(W(r), adj)
  BY <1>3, <1>4, <1>5, <1>6
<1>8. QED
  BY <1>7 DEF W

(* One round of epsilon_support. *)
Hop(g, adj) ==
    [support |-> g.support \cup (Around(g.frontier, adj) \ g.support),
     frontier |-> Around(g.frontier, adj) \ g.support]

(* Its rounds. *)
Hops(grow, seed, adj, radius) ==
    grow = [r \in 0 .. radius |->
              IF r = 0 THEN [support |-> seed, frontier |-> seed] ELSE Hop(grow[r - 1], adj)]

(* epsilon_support finds all that is within radius hops: what is not on    *)
(* the frontier has its neighbours in the support.                         *)
LEMMA SupportWithin ==
    ASSUME NEW seed, NEW adj, NEW radius \in Nat
    PROVE  epsilon_support(seed, adj, radius) = Within(seed, adj, radius)
<1> DEFINE all == Everywhere(seed, adj)
           A == [support : SUBSET all, frontier : SUBSET all]
           first == [support |-> seed, frontier |-> seed]
           step == [x \in A \X (1 .. radius) |-> Hop(x[1], adj)]
           W(r) == Within(seed, adj, r)
<1>1. seed \subseteq all
  BY DEF Everywhere
<1>2. ASSUME NEW S PROVE Around(S, adj) \subseteq all
  BY DEF Around, Everywhere
<1> HIDE DEF all
<1>3. first \in A
  BY <1>1
<1>4. ASSUME NEW g \in A PROVE Hop(g, adj) \in A
  <2>1. Around(g.frontier, adj) \subseteq all
    BY <1>2
  <2>2. g.support \in SUBSET all
    OBVIOUS
  <2>3. QED
    BY <2>1, <2>2 DEF Hop
<1>5. \E grow : Hops(grow, seed, adj, radius)
  <2>1. ASSUME NEW g \in A, NEW r \in 1 .. radius PROVE step[<<g, r>>] = Hop(g, adj)
    OBVIOUS
  <2> HIDE DEF A, step, first
  <2>2. StepsIn(step, A, radius)
    BY <1>4, <2>1 DEF StepsIn
  <2>3. PICK f : Unfolds(f, step, first, A, radius)
    BY <1>3, <2>2, Recursion
  <2>4. ASSUME NEW r \in 0 .. radius
        PROVE  f[r] = IF r = 0 THEN first ELSE Hop(f[r - 1], adj)
    <3>1. CASE r = 0
      BY <2>3, <3>1 DEF Unfolds
    <3>2. CASE r # 0
      <4>1. r \in 1 .. radius /\ r - 1 \in 0 .. radius
        BY <3>2
      <4>2. f[r] = step[<<f[r - 1], r>>] /\ f[r - 1] \in A
        BY <2>3, <4>1 DEF Unfolds
      <4>3. QED
        BY <2>1, <3>2, <4>1, <4>2
    <3>3. QED
      BY <3>1, <3>2
  <2>5. f = [r \in 0 .. radius |-> f[r]]
    BY <2>3 DEF Unfolds
  <2>6. f = [r \in 0 .. radius |-> IF r = 0 THEN first ELSE Hop(f[r - 1], adj)]
    BY <2>4, <2>5
  <2>7. QED
    BY <2>6, Zenon DEF Hops, first
<1> DEFINE g == CHOOSE grow : Hops(grow, seed, adj, radius)
<1>6. Hops(g, seed, adj, radius)
  BY <1>5, Zenon
<1>7. epsilon_support(seed, adj, radius) = g[radius].support
  BY Zenon DEF epsilon_support, Hops, Hop, Around
<1> HIDE DEF g, A, first, step
<1>8. g[0] = [support |-> seed, frontier |-> seed] /\ \A r \in 1 .. radius : g[r] = Hop(g[r - 1], adj)
  BY <1>6 DEF Hops
<1> DEFINE Good(r) == /\ g[r].support = W(r) /\ g[r].frontier \subseteq W(r)
                      /\ \A p \in (W(r) \ g[r].frontier) \cap DOMAIN adj : adj[p] \subseteq W(r)
           S == {r \in 0 .. radius : Good(r)}
<1>9. 0 \in S
  <2>1. W(0) = seed
    BY WithinZero
  <2>2. g[0].support = seed /\ g[0].frontier = seed
    BY <1>8
  <2> HIDE DEF W
  <2>3. Good(0)
    BY <2>1, <2>2
  <2>4. QED
    BY <2>3
<1>10. ASSUME NEW r \in 0 .. radius - 1, r \in S PROVE r + 1 \in S
  <2> DEFINE F == g[r].frontier
             N == Around(F, adj)
  <2>1. r \in Nat /\ r + 1 \in 1 .. radius /\ (r + 1) - 1 = r /\ r + 1 \in 0 .. radius
    OBVIOUS
  <2>2. W(r + 1) = W(r) \cup Around(W(r), adj)
    BY <2>1, WithinStep
  <2>3. Good(r)
    BY <1>10
  <2>4. g[r + 1] = Hop(g[r], adj)
    BY <1>8, <2>1
  <2> HIDE DEF W
  <2>5. g[r + 1].support = W(r) \cup (N \ W(r)) /\ g[r + 1].frontier = N \ W(r)
    BY <2>3, <2>4 DEF Hop
  <2>6. \A T, q : q \in Around(T, adj) <=> \E p \in T \cap DOMAIN adj : q \in adj[p]
    BY DEF Around
  <2>7. W(r) \cup N = W(r) \cup Around(W(r), adj)
    <3>1. N \subseteq Around(W(r), adj)
      BY <2>3, <2>6
    <3>2. ASSUME NEW q \in Around(W(r), adj) PROVE q \in W(r) \cup N
      <4>1. PICK p \in W(r) \cap DOMAIN adj : q \in adj[p]
        BY <2>6
      <4>2. CASE p \in F
        BY <2>6, <4>1, <4>2
      <4>3. CASE p \notin F
        BY <2>3, <4>1, <4>3
      <4>4. QED
        BY <4>2, <4>3
    <3> HIDE DEF N
    <3>3. QED
      BY <3>1, <3>2
  <2>8. Good(r + 1)
    <3>1. g[r + 1].support = W(r + 1) /\ g[r + 1].frontier \subseteq W(r + 1)
      <4> HIDE DEF N
      <4> QED BY <2>2, <2>5, <2>7
    <3>2. ASSUME NEW p \in (W(r + 1) \ g[r + 1].frontier) \cap DOMAIN adj, NEW q \in adj[p]
          PROVE  q \in W(r + 1)
      <4>1. p \in W(r)
        <5> HIDE DEF N
        <5> QED BY <2>2, <2>5, <2>7
      <4>2. q \in Around(W(r), adj)
        BY <2>6, <4>1
      <4>3. QED
        BY <2>2, <4>2
    <3>3. QED
      BY <3>1, <3>2
  <2>9. QED
    BY <2>1, <2>8
<1>11. radius \in S
  <2> HIDE DEF S
  <2>1. \A r \in 0 .. radius : r \in S
    BY <1>9, <1>10, UpTo
  <2>2. QED
    BY <2>1
<1>12. QED
  BY <1>7, <1>11

(* The clusters of any claims are the components. *)
LEMMA ClustersFacts ==
    ASSUME NEW claims, IsClaims(claims), NEW adj, NEW radius \in Nat
    PROVE  ClustersAreComponents(claims, adj, radius)
<1> DEFINE n == Len(claims)
           near == [i \in DOMAIN claims |-> Within(claim_particles(claims[i]), adj, radius)]
           supports == [i \in DOMAIN claims |-> epsilon_support(claim_particles(claims[i]), adj, radius)]
           parent == Forest(near)
           g == Groups(claims, parent)
           c == partition_into_clusters(claims, adj, radius)
<1>1. n \in Nat /\ DOMAIN claims = 1 .. n
  BY DEF IsClaims
<1>2. supports = near
  <2>1. ASSUME NEW i \in DOMAIN claims
        PROVE  epsilon_support(claim_particles(claims[i]), adj, radius)
                  = Within(claim_particles(claims[i]), adj, radius)
    BY SupportWithin
  <2>2. QED
    BY <2>1, Zenon
<1>3. c = Arranged(g, ByFirst(claims, g))
  <2>1. c = LET h == Groups(claims, Forest(supports)) IN Arranged(h, ByFirst(claims, h))
    BY Zenon DEF partition_into_clusters
  <2> HIDE DEF c, supports, near
  <2>2. QED
    BY <1>2, <2>1, Zenon
<1>4. DOMAIN near = 1 .. n /\ \E X : near \in Seq(X)
  <2> DEFINE X == {near[i] : i \in 1 .. n}
  <2>1. near \in [1 .. n -> X]
    BY <1>1
  <2> HIDE DEF near, X, n
  <2>2. near \in Seq(X)
    BY <1>1, <2>1
  <2>3. QED
    BY <2>1, <2>2
<1>5. ClustersAreComponents(claims, adj, radius) <=>
        /\ IsComponents({ToSet(s) : s \in ToSet(c)}, near)
        /\ \A i, j \in DOMAIN c : i < j => claims[c[i][1]].id < claims[c[j][1]].id
        /\ \A i \in DOMAIN c : \A j, k \in DOMAIN c[i] :
              j < k => claims[c[i][j]].id < claims[c[i][k]].id
  BY Zenon DEF ClustersAreComponents
<1> HIDE DEF near, supports, c
<1>6. Len(near) = n
  BY <1>1, <1>4
<1>7. United(parent, near, n, n, n)
  BY <1>4, <1>6, ForestFacts
<1>8. IsForest(parent, n)
  BY <1>7 DEF United
<1> HIDE DEF parent
<1>9. Grouped(g, claims, parent, n)
  BY <1>8, GroupsFacts
<1>10. Listed(c, claims, parent, n)
  <2> HIDE DEF g
  <2>1. Listed(Arranged(g, ByFirst(claims, g)), claims, parent, n)
    BY <1>8, <1>9, ListedFacts
  <2>2. QED
    BY <1>3, <2>1, Zenon
<1>11. IsComponents(Trees(parent, n), near)
  BY <1>1, <1>4, <1>7, TreesAreComponents
<1>12. QED
  <2>1. {ToSet(s) : s \in ToSet(c)} = Trees(parent, n)
    BY <1>10, Zenon DEF Listed
  <2>2. IsComponents({ToSet(s) : s \in ToSet(c)}, near)
    BY <1>11, <2>1, Zenon
  <2>3. QED
    BY <1>5, <1>10, <2>2, Zenon DEF Listed

(* Claims have different numbers for ids. *)
ClaimsOK == kind = "claims" => IsClaims(input)

(* There are none at first. *)
LEMMA ClaimsOKInit == Init => ClaimsOK
<1> SUFFICES ASSUME Init, kind = "claims" PROVE IsClaims(input)
  BY DEF ClaimsOK
<1>1. input = <<>>
  BY DEF Init
<1>2. <<>> \in Seq({}) /\ DOMAIN <<>> = {}
  OBVIOUS
<1>3. QED
  BY <1>1, <1>2 DEF IsClaims

(* Only AddClaim adds one. *)
LEMMA OnlyAddClaim ==
    ASSUME Next, kind' = "claims"
    PROVE  kind = "claims" /\ \E id \in 1 .. MaxLen, links \in Links : AddClaim(id, links)
  BY DEF Next, AddWeight, AddClaim, AddValue, AddLeaf, AddAnswer, AddShard, AddItem, AddFrame,
         AddMessage, AddContent, AddFocus, FoldsBlock, Follows, JoinsMesh, Subscribes, TakesSome,
         Publishes, Exports, Joins, Applies, Audits, Issues, TakesPlace, TipStep,
         MeshStep, Absorbs, Folds, FoldStep, Grows

(* One more claim, with another id. *)
LEMMA ClaimAdded ==
    ASSUME NEW claims, IsClaims(claims), NEW x, x.id \in Nat,
           \A i \in DOMAIN claims : claims[i].id # x.id
    PROVE  IsClaims(Append(claims, x))
<1> DEFINE n == Len(claims)
           a == Append(claims, x)
<1>1. PICK C : claims \in Seq(C)
  BY DEF IsClaims
<1>2. n \in Nat /\ DOMAIN claims = 1 .. n
  BY <1>1
<1>3. a \in Seq(C \cup {x})
  <2>1. claims \in Seq(C \cup {x})
    BY <1>1
  <2>2. QED
    BY <2>1
<1>4. DOMAIN a = 1 .. n + 1 /\ a[n + 1] = x /\ \A i \in 1 .. n : a[i] = claims[i]
  BY <1>1
<1> HIDE DEF a, n
<1>5. \A i \in 1 .. n + 1 : i = n + 1 \/ i \in 1 .. n
  BY <1>2
<1>6. ASSUME NEW i \in DOMAIN a PROVE a[i].id \in Nat
  BY <1>2, <1>4, <1>5 DEF IsClaims
<1>7. ASSUME NEW i \in DOMAIN a, NEW j \in DOMAIN a, i # j PROVE a[i].id # a[j].id
  <2>1. CASE i \in 1 .. n /\ j \in 1 .. n
    BY <1>2, <1>4, <1>7, <2>1 DEF IsClaims
  <2>2. CASE i = n + 1 /\ j \in 1 .. n
    BY <1>2, <1>4, <2>2
  <2>3. CASE j = n + 1 /\ i \in 1 .. n
    BY <1>2, <1>4, <2>3
  <2>4. QED
    BY <1>4, <1>5, <1>7, <2>1, <2>2, <2>3
<1>8. QED
  BY <1>3, <1>6, <1>7 DEF IsClaims, a

(* Every step keeps them so. *)
LEMMA ClaimsOKStep ==
    ASSUME ClaimsOK, [Next]_vars
    PROVE  ClaimsOK'
<1>1. CASE UNCHANGED vars
  BY <1>1 DEF vars, ClaimsOK
<1>2. CASE Next
  <2> SUFFICES ASSUME kind' = "claims" PROVE IsClaims(input)'
    BY DEF ClaimsOK
  <2>1. kind = "claims" /\ \E id \in 1 .. MaxLen, links \in Links : AddClaim(id, links)
    BY <1>2, OnlyAddClaim
  <2>2. PICK id \in 1 .. MaxLen, links \in Links : AddClaim(id, links)
    BY <2>1
  <2> DEFINE x == [id |-> id, links |-> links]
  <2>3. x.id = id /\ id \in Nat
    BY AlgorithmsAssumption
  <2>4. input' = Append(input, x) /\ \A i \in DOMAIN input : input[i].id # id
    BY <2>2 DEF AddClaim
  <2>5. IsClaims(input)
    BY <2>1 DEF ClaimsOK
  <2> HIDE DEF x
  <2>6. IsClaims(Append(input, x))
    BY <2>3, <2>4, <2>5, ClaimAdded
  <2>7. QED
    BY <2>4, <2>6
<1>3. QED
  BY <1>1, <1>2

(* And such claims are partitioned as promised. *)
LEMMA ClaimsClustered == ClaimsOK => ClustersExact
<1> SUFFICES ASSUME ClaimsOK, kind = "claims", NEW radius \in Radii
             PROVE  ClustersAreComponents(input, [p \in Particles |-> {p - 1, p + 1} \cap Particles], radius)
  BY DEF ClustersExact
<1>1. IsClaims(input) /\ radius \in Nat
  BY AlgorithmsAssumption DEF ClaimsOK
<1>2. QED
  BY <1>1, ClustersFacts

(* However many claims come in whatever order, the clusters are the        *)
(* connected components of those with a particle within radius hops of     *)
(* both, listed by id (partition_into_clusters, epsilon_support).          *)
THEOREM ClustersExactHolds == Spec => []ClustersExact
<1>1. Init => ClaimsOK
  BY ClaimsOKInit
<1>2. ClaimsOK /\ [Next]_vars => ClaimsOK'
  BY ClaimsOKStep
<1>3. ClaimsOK => ClustersExact
  BY ClaimsClustered
<1>4. QED
  BY <1>1, <1>2, <1>3, PTL DEF Spec

(***************************************************************************)
(* The division of a cluster's value.  A marginal may be negative.         *)
(***************************************************************************)

Vectors(n) == [1 .. n -> Int]

(* The values of contributor i in a list of vectors. *)
Column(vs, i) == [k \in 1 .. Len(vs) |-> vs[k][i]]

(* acc holds the sums after each vector. *)
Accumulates(acc, n, vs, m) ==
    acc = [k \in 0 .. m |-> IF k = 0 THEN Zero(n) ELSE Plus(acc[k - 1], vs[k])]

(* Two vectors added. *)
LEMMA PlusFacts ==
    ASSUME NEW n \in Nat, NEW a \in Vectors(n), NEW b \in Vectors(n)
    PROVE  Plus(a, b) \in Vectors(n) /\ \A i \in 1 .. n : Plus(a, b)[i] = a[i] + b[i]
  BY DEF Vectors, Plus

(* There is such a list of sums. *)
LEMMA SumsExist ==
    ASSUME NEW n \in Nat, NEW vs \in Seq(Vectors(n))
    PROVE  \E acc : Accumulates(acc, n, vs, Len(vs))
<1> DEFINE m == Len(vs)
           A == Vectors(n)
           step == [x \in A \X (1 .. m) |-> Plus(x[1], vs[x[2]])]
<1>1. m \in Nat /\ \A k \in 1 .. m : vs[k] \in A
  OBVIOUS
<1>2. Zero(n) \in A
  BY DEF Zero, Vectors
<1> HIDE DEF m
<1>3. ASSUME NEW a \in A, NEW k \in 1 .. m PROVE step[<<a, k>>] = Plus(a, vs[k])
  OBVIOUS
<1>4. StepsIn(step, A, m)
  <2> SUFFICES ASSUME NEW a \in A, NEW k \in 1 .. m PROVE step[<<a, k>>] \in A
    BY DEF StepsIn
  <2> HIDE DEF step
  <2>1. a \in Vectors(n) /\ vs[k] \in Vectors(n)
    BY <1>1
  <2>2. Plus(a, vs[k]) \in Vectors(n)
    BY <2>1, PlusFacts
  <2>3. QED
    BY <1>3, <2>2
<1> HIDE DEF A, step
<1>5. PICK f : Unfolds(f, step, Zero(n), A, m)
  BY <1>1, <1>2, <1>4, Recursion
<1>6. ASSUME NEW k \in 0 .. m
      PROVE  f[k] = IF k = 0 THEN Zero(n) ELSE Plus(f[k - 1], vs[k])
  <2>1. CASE k = 0
    BY <1>5, <2>1 DEF Unfolds
  <2>2. CASE k # 0
    <3>1. k \in 1 .. m /\ k - 1 \in 0 .. m
      BY <1>1, <2>2
    <3>2. f[k] = step[<<f[k - 1], k>>] /\ f[k - 1] \in A
      BY <1>5, <3>1 DEF Unfolds
    <3>3. QED
      BY <1>3, <2>2, <3>1, <3>2
  <2>3. QED
    BY <2>1, <2>2
<1>7. f = [k \in 0 .. m |-> f[k]]
  BY <1>5 DEF Unfolds
<1>8. f = [k \in 0 .. m |-> IF k = 0 THEN Zero(n) ELSE Plus(f[k - 1], vs[k])]
  BY <1>6, <1>7
<1>9. QED
  BY <1>8, Zenon DEF Accumulates, m

(* The loop, vector by vector. *)
LEMMA SummedSteps ==
    ASSUME NEW n \in Nat, NEW vs \in Seq(Vectors(n))
    PROVE  \E acc \in [0 .. Len(vs) -> Vectors(n)] :
              /\ Summed(n, vs) = acc[Len(vs)] /\ acc[0] = Zero(n)
              /\ \A k \in 1 .. Len(vs) : acc[k] = Plus(acc[k - 1], vs[k])
<1> DEFINE m == Len(vs)
           acc == CHOOSE a : Accumulates(a, n, vs, m)
<1>1. m \in Nat /\ \A k \in 1 .. m : vs[k] \in Vectors(n)
  OBVIOUS
<1>2. Accumulates(acc, n, vs, m)
  BY SumsExist, Zenon
<1>3. Summed(n, vs) = acc[m]
  BY Zenon DEF Summed, Accumulates
<1> HIDE DEF acc, m
<1>4. /\ acc[0] = Zero(n) /\ \A k \in 1 .. m : acc[k] = Plus(acc[k - 1], vs[k])
      /\ acc = [k \in 0 .. m |-> acc[k]]
  BY <1>1, <1>2 DEF Accumulates
<1> DEFINE S == {k \in 0 .. m : acc[k] \in Vectors(n)}
<1>5. 0 \in S
  BY <1>1, <1>4 DEF Zero, Vectors
<1>6. ASSUME NEW k \in 0 .. m - 1, k \in S PROVE k + 1 \in S
  <2>1. k + 1 \in 1 .. m /\ k + 1 \in 0 .. m /\ (k + 1) - 1 = k
    BY <1>1
  <2>2. acc[k + 1] = Plus(acc[k], vs[k + 1]) /\ acc[k] \in Vectors(n) /\ vs[k + 1] \in Vectors(n)
    BY <1>1, <1>4, <1>6, <2>1
  <2>3. QED
    BY <2>1, <2>2, PlusFacts
<1>7. \A k \in 0 .. m : k \in S
  <2> HIDE DEF S
  <2> QED BY <1>1, <1>5, <1>6, UpTo
<1>8. acc \in [0 .. m -> Vectors(n)]
  BY <1>4, <1>7
<1>9. QED
  BY <1>3, <1>4, <1>8 DEF m

(* The loop adds up every column. *)
LEMMA SummedFacts ==
    ASSUME NEW n \in Nat, NEW vs \in Seq(Vectors(n))
    PROVE  /\ Summed(n, vs) \in Vectors(n)
           /\ \A i \in 1 .. n : Summed(n, vs)[i] = Total(Column(vs, i), 1 .. Len(vs))
           /\ \A i \in 1 .. n : Column(vs, i) \in [1 .. Len(vs) -> Int]
<1> DEFINE m == Len(vs)
<1>1. m \in Nat /\ \A k \in 1 .. m : vs[k] \in Vectors(n)
  OBVIOUS
<1>2. PICK acc \in [0 .. m -> Vectors(n)] :
         /\ Summed(n, vs) = acc[m] /\ acc[0] = Zero(n)
         /\ \A k \in 1 .. m : acc[k] = Plus(acc[k - 1], vs[k])
  BY SummedSteps
<1>3. \A i \in 1 .. n : Column(vs, i) \in [1 .. m -> Int]
  BY <1>1 DEF Column, Vectors
<1> HIDE DEF m
<1> DEFINE Right(k) == \A i \in 1 .. n : acc[k][i] = Total(Column(vs, i), 1 .. k)
           S == {k \in 0 .. m : Right(k)}
<1>4. 0 \in S
  <2>1. \A i \in 1 .. n : acc[0][i] = 0
    BY <1>2 DEF Zero
  <2>2. ASSUME NEW i \in 1 .. n PROVE Total(Column(vs, i), 1 .. 0) = 0
    <3>1. Column(vs, i) \in [1 .. m -> Int] /\ IsFiniteSet({}) /\ 1 .. 0 = {}
      BY <1>3, FS_EmptySet
    <3>2. Total(Column(vs, i), {}) = 0
      BY <3>1, TotalInts
    <3>3. QED
      BY <3>1, <3>2
  <2>3. QED
    BY <1>1, <2>1, <2>2
<1>5. ASSUME NEW k \in 0 .. m - 1, k \in S PROVE k + 1 \in S
  <2>1. k + 1 \in 1 .. m /\ k + 1 \in 0 .. m /\ k \in 0 .. m /\ (k + 1) - 1 = k /\ k \in Nat
    BY <1>1
  <2>2. acc[k + 1] = Plus(acc[k], vs[k + 1]) /\ acc[k] \in Vectors(n) /\ vs[k + 1] \in Vectors(n)
    BY <1>1, <1>2, <2>1
  <2>3. \A i \in 1 .. n : acc[k + 1][i] = acc[k][i] + vs[k + 1][i]
    BY <2>2, PlusFacts
  <2>4. ASSUME NEW i \in 1 .. n PROVE acc[k + 1][i] = Total(Column(vs, i), 1 .. k + 1)
    <3>1. /\ Column(vs, i) \in [1 .. m -> Int] /\ 1 .. k \in SUBSET (1 .. m)
          /\ k + 1 \in (1 .. m) \ (1 .. k) /\ 1 .. k + 1 = (1 .. k) \cup {k + 1}
      <4>1. /\ 1 .. k \in SUBSET (1 .. m) /\ k + 1 \in (1 .. m) \ (1 .. k)
            /\ 1 .. k + 1 = (1 .. k) \cup {k + 1}
        BY <1>1, <2>1
      <4>2. QED
        BY <1>3, <4>1
    <3>2. IsFiniteSet(1 .. k)
      BY <2>1, Numbers
    <3>3. Total(Column(vs, i), (1 .. k) \cup {k + 1}) = Total(Column(vs, i), 1 .. k) + Column(vs, i)[k + 1]
      <4> DEFINE g == Column(vs, i)
                 D == 1 .. m
                 T == 1 .. k
                 x == k + 1
      <4>1. g \in [D -> Int] /\ T \in SUBSET D /\ IsFiniteSet(T) /\ x \in D \ T
        BY <3>1, <3>2
      <4> HIDE DEF g, D, T, x
      <4>2. Total(g, T \cup {x}) = Total(g, T) + g[x]
        BY <4>1, TotalInts
      <4>3. QED
        BY <4>2 DEF g, T, x
    <3>4. Column(vs, i)[k + 1] = vs[k + 1][i]
      BY <2>1 DEF Column, m
    <3>5. acc[k][i] = Total(Column(vs, i), 1 .. k)
      BY <1>5
    <3>6. QED
      BY <2>3, <3>1, <3>3, <3>4, <3>5
  <2>5. QED
    BY <2>1, <2>4
<1>6. m \in S
  <2> HIDE DEF S
  <2>1. \A k \in 0 .. m : k \in S
    BY <1>1, <1>4, <1>5, UpTo
  <2>2. QED
    BY <1>1, <2>1
<1>7. Summed(n, vs) \in Vectors(n)
  BY <1>1, <1>2
<1>8. QED
  BY <1>2, <1>3, <1>6, <1>7 DEF m

(* The order of the vectors does not matter. *)
LEMMA SummedMoved ==
    ASSUME NEW n \in Nat, NEW vs \in Seq(Vectors(n)), NEW ws \in Seq(Vectors(n)),
           NEW f \in Bijection(1 .. Len(vs), 1 .. Len(ws)),
           \A k \in 1 .. Len(vs) : vs[k] = ws[f[k]]
    PROVE  Summed(n, vs) = Summed(n, ws)
<1>1. f \in [1 .. Len(vs) -> 1 .. Len(ws)] /\ Len(vs) \in Nat
  BY DEF Bijection, Injection
<1>2. ASSUME NEW i \in 1 .. n PROVE Summed(n, vs)[i] = Summed(n, ws)[i]
  <2>1. Column(vs, i) \in [1 .. Len(vs) -> Int] /\ Column(ws, i) \in [1 .. Len(ws) -> Int]
    BY SummedFacts
  <2>2. ASSUME NEW k \in 1 .. Len(vs) PROVE Column(vs, i)[k] = Column(ws, i)[f[k]]
    BY <1>1 DEF Column
  <2>3. IsFiniteSet(1 .. Len(vs))
    BY <1>1, Numbers
  <2>4. Total(Column(vs, i), 1 .. Len(vs)) = Total(Column(ws, i), 1 .. Len(ws))
    <3> DEFINE g == Column(vs, i)
               h == Column(ws, i)
               S == 1 .. Len(vs)
               T == 1 .. Len(ws)
    <3>1. /\ IsFiniteSet(S) /\ f \in Bijection(S, T) /\ g \in [S -> Int] /\ h \in [T -> Int]
          /\ \A k \in S : g[k] = h[f[k]]
      BY <2>1, <2>2, <2>3
    <3> HIDE DEF g, h, S, T
    <3>2. Total(g, S) = Total(h, T)
      BY <3>1, TotalMoved
    <3>3. QED
      BY <3>2 DEF g, h, S, T
  <2>5. QED
    BY <2>4, SummedFacts
<1>3. Summed(n, vs) \in Vectors(n) /\ Summed(n, ws) \in Vectors(n)
  BY SummedFacts
<1>4. QED
  BY <1>2, <1>3 DEF Vectors

(***************************************************************************)
(* Orderings.                                                              *)
(***************************************************************************)

(* The orderings of n contributors. *)
Orderings(n) == {a \in [1 .. n -> 1 .. n] : \A i, j \in 1 .. n : i # j => a[i] # a[j]}

(* They are the sequences of SequencesExt, and have every contributor. *)
LEMMA OrderingsFacts ==
    ASSUME NEW n \in Nat
    PROVE  /\ SetToSeqs(1 .. n) = Orderings(n)
           /\ \A a \in Orderings(n) : \A x \in 1 .. n : \E k \in 1 .. n : a[k] = x
           /\ [x \in 1 .. n |-> x] \in Orderings(n)
<1>1. IsFiniteSet(1 .. n) /\ Cardinality(1 .. n) = n
  BY Numbers
<1>2. SetToSeqs(1 .. n) = Orderings(n)
  BY <1>1 DEF SetToSeqs, Orderings
<1>3. ASSUME NEW a \in Orderings(n) PROVE \A x \in 1 .. n : \E k \in 1 .. n : a[k] = x
  <2> DEFINE D == 1 .. n
  <2>1. a \in Injection(D, D) /\ IsFiniteSet(D)
    BY <1>1 DEF Orderings, Injection, IsInjective
  <2> HIDE DEF D
  <2>2. a \in Surjection(D, D)
    BY <2>1, FS_Injection
  <2>3. QED
    BY <2>2 DEF Surjection, D
<1>4. [x \in 1 .. n |-> x] \in Orderings(n)
  BY DEF Orderings
<1>5. QED
  BY <1>2, <1>3, <1>4

(* A swap. *)
LEMMA SwapFacts ==
    ASSUME NEW n \in Nat, NEW a \in Orderings(n), NEW i \in 1 .. n, NEW j \in 1 .. n
    PROVE  /\ Swap(a, i, j) \in Orderings(n)
           /\ Swap(a, i, j)[i] = a[j] /\ Swap(a, i, j)[j] = a[i]
           /\ \A x \in (1 .. n) \ {i, j} : Swap(a, i, j)[x] = a[x]
<1> DEFINE b == Swap(a, i, j)
<1>1. a \in [1 .. n -> 1 .. n] /\ \A x, y \in 1 .. n : x # y => a[x] # a[y]
  BY DEF Orderings
<1>2. b \in [1 .. n -> 1 .. n]
  BY <1>1 DEF Swap
<1>3. b[i] = a[j] /\ b[j] = a[i] /\ \A x \in (1 .. n) \ {i, j} : b[x] = a[x]
  BY <1>1 DEF Swap
<1> HIDE DEF b
<1>4. \A x, y \in 1 .. n : x # y => b[x] # b[y]
  BY <1>1, <1>3
<1>5. b \in Orderings(n)
  BY <1>2, <1>4 DEF Orderings
<1>6. QED
  BY <1>3, <1>5 DEF b

(* Orderings with the same first k. *)
Agree(a, b, k) == \A x \in 1 .. k : a[x] = b[x]

(* u lists the orderings with the first k of a, each once. *)
ListsFrom(u, n, a, k) ==
    /\ u \in Seq(Orderings(n)) /\ IsInjective(u)
    /\ ToSet(u) = {b \in Orderings(n) : Agree(a, b, k)}

(* What the recursion gives where r positions are left. *)
Branches(g, n, a, r) == [i \in 1 .. r |-> g[Swap(a, n - r + 1, n - r + i)]]

Branched(g, n, a, r) == IF r = 0 THEN <<a>> ELSE FlattenSeq(Branches(g, n, a, r))

(* Position k takes the value at j: the orderings that go on from there. *)
LEMMA SwapAgrees ==
    ASSUME NEW n \in Nat, NEW a \in Orderings(n), NEW k \in 1 .. n, NEW j \in k .. n,
           NEW b \in Orderings(n)
    PROVE  Agree(Swap(a, k, j), b, k) <=> Agree(a, b, k - 1) /\ b[k] = a[j]
<1>1. j \in 1 .. n
  OBVIOUS
<1>2. Swap(a, k, j)[k] = a[j] /\ \A x \in (1 .. n) \ {k, j} : Swap(a, k, j)[x] = a[x]
  BY <1>1, SwapFacts
<1>3. \A x \in 1 .. k - 1 : Swap(a, k, j)[x] = a[x]
  BY <1>2
<1>4. 1 .. k = (1 .. k - 1) \cup {k}
  OBVIOUS
<1>5. QED
  BY <1>2, <1>3, <1>4 DEF Agree

(* An ordering that agrees with a up to k - 1 takes a value of a that is   *)
(* not before k.                                                           *)
LEMMA NextValue ==
    ASSUME NEW n \in Nat, NEW a \in Orderings(n), NEW k \in 1 .. n,
           NEW b \in Orderings(n), Agree(a, b, k - 1)
    PROVE  \E j \in k .. n : b[k] = a[j]
<1>1. b[k] \in 1 .. n /\ \A x \in 1 .. n : x # k => b[x] # b[k]
  BY DEF Orderings
<1>2. PICK j \in 1 .. n : a[j] = b[k]
  BY <1>1, OrderingsFacts
<1>3. ~ (j < k)
  <2> SUFFICES ASSUME j < k PROVE FALSE
    OBVIOUS
  <2>1. j \in 1 .. k - 1 /\ j # k
    OBVIOUS
  <2>2. a[j] = b[j]
    BY <2>1 DEF Agree
  <2>3. QED
    BY <1>1, <1>2, <2>1, <2>2
<1>4. j \in k .. n
  BY <1>3
<1>5. QED
  BY <1>2, <1>4

(* One position. *)
LEMMA BranchedFacts ==
    ASSUME NEW n \in Nat, NEW r \in 0 .. n, NEW g, NEW a \in Orderings(n),
           r # 0 => \A b \in Orderings(n) : ListsFrom(g[b], n, b, n - r + 1)
    PROVE  ListsFrom(Branched(g, n, a, r), n, a, n - r)
<1>1. CASE r = 0
  <2> DEFINE u == <<a>>
  <2>1. u \in Seq(Orderings(n)) /\ DOMAIN u = {1} /\ u[1] = a
    OBVIOUS
  <2>2. Branched(g, n, a, r) = u
    BY <1>1 DEF Branched
  <2> HIDE DEF u
  <2>3. IsInjective(u) /\ ToSet(u) = {a}
    BY <2>1 DEF IsInjective, ToSet
  <2>4. {b \in Orderings(n) : Agree(a, b, n)} = {a}
    <3>1. ASSUME NEW b \in Orderings(n), Agree(a, b, n) PROVE b = a
      BY <3>1 DEF Orderings, Agree
    <3>2. Agree(a, a, n)
      BY DEF Agree
    <3>3. QED
      BY <3>1, <3>2
  <2>5. n - r = n
    BY <1>1
  <2>6. QED
    BY <2>1, <2>2, <2>3, <2>4, <2>5 DEF ListsFrom
<1>2. CASE r # 0
  <2> DEFINE k == n - r + 1
             ss == Branches(g, n, a, r)
             to(i) == n - r + i
  <2>1. k \in 1 .. n /\ k - 1 = n - r /\ \A i \in 1 .. r : to(i) \in k .. n
    BY <1>2
  <2>2. ASSUME NEW i \in 1 .. r
        PROVE  ListsFrom(ss[i], n, Swap(a, k, to(i)), k)
    <3>1. ss[i] = g[Swap(a, k, to(i))]
      BY DEF Branches
    <3>2. k \in 1 .. n /\ to(i) \in 1 .. n
      BY <2>1
    <3>3. Swap(a, k, to(i)) \in Orderings(n)
      BY <3>2, SwapFacts
    <3>4. QED
      BY <1>2, <3>1, <3>3
  <2>3. DOMAIN ss = 1 .. r /\ Len(ss) = r /\ ss \in Seq(Seq(Orderings(n)))
    <3>1. \A i \in 1 .. r : ss[i] \in Seq(Orderings(n))
      BY <2>2 DEF ListsFrom
    <3>2. ss = [i \in 1 .. r |-> ss[i]]
      BY DEF Branches
    <3> HIDE DEF ss
    <3>3. ss \in [1 .. r -> Seq(Orderings(n))]
      BY <3>1, <3>2
    <3>4. QED
      BY <3>3
  <2>4. ASSUME NEW i \in 1 .. r
        PROVE  /\ IsInjective(ss[i])
               /\ ToSet(ss[i]) = {b \in Orderings(n) : Agree(a, b, k - 1) /\ b[k] = a[to(i)]}
    <3> HIDE DEF k, ss
    <3>1. ToSet(ss[i]) = {b \in Orderings(n) : Agree(Swap(a, k, to(i)), b, k)} /\ IsInjective(ss[i])
      BY <2>2 DEF ListsFrom
    <3>2. to(i) \in k .. n
      BY <2>1
    <3> HIDE DEF to
    <3>3. \A b \in Orderings(n) : Agree(Swap(a, k, to(i)), b, k) <=> Agree(a, b, k - 1) /\ b[k] = a[to(i)]
      BY <2>1, <3>2, SwapAgrees
    <3>4. QED
      BY <3>1, <3>3
  <2>5. ASSUME NEW i \in 1 .. r, NEW j \in 1 .. r, i # j
        PROVE  ToSet(ss[i]) \cap ToSet(ss[j]) = {}
    <3>1. to(i) # to(j) /\ to(i) \in 1 .. n /\ to(j) \in 1 .. n
      BY <2>1, <2>5
    <3>2. a[to(i)] # a[to(j)]
      BY <3>1 DEF Orderings
    <3> HIDE DEF to, ss, k
    <3>3. QED
      BY <2>4, <3>2
  <2>6. /\ FlattenSeq(ss) \in Seq(Orderings(n)) /\ IsInjective(FlattenSeq(ss))
        /\ ToSet(FlattenSeq(ss)) = UNION {ToSet(ss[i]) : i \in 1 .. r}
    <3> HIDE DEF ss
    <3> QED BY <2>3, <2>4, <2>5, FlattenOnce
  <2>7. UNION {ToSet(ss[i]) : i \in 1 .. r} = {b \in Orderings(n) : Agree(a, b, k - 1)}
    <3>1. ASSUME NEW b \in Orderings(n), Agree(a, b, k - 1) PROVE \E i \in 1 .. r : b[k] = a[to(i)]
      <4>1. PICK j \in k .. n : b[k] = a[j]
        <5> HIDE DEF k
        <5> QED BY <2>1, <3>1, NextValue
      <4>2. j - (n - r) \in 1 .. r /\ to(j - (n - r)) = j
        OBVIOUS
      <4>3. QED
        BY <4>1, <4>2
    <3> HIDE DEF k, to, ss
    <3>2. QED
      BY <2>4, <3>1
  <2>8. Branched(g, n, a, r) = FlattenSeq(ss)
    BY <1>2 DEF Branched
  <2>9. QED
    BY <2>1, <2>6, <2>7, <2>8 DEF ListsFrom
<1>3. QED
  BY <1>1, <1>2

(* go is the recursion of permutations. *)
Goes(go, n) == go = [r \in 0 .. n |-> [a \in SetToSeqs(1 .. n) |-> Branched(go[r - 1], n, a, r)]]

(* A position keeps lists of orderings. *)
LEMMA BranchedLists ==
    ASSUME NEW n \in Nat, NEW r \in 1 .. n, NEW g \in [Orderings(n) -> Seq(Orderings(n))],
           NEW a \in Orderings(n)
    PROVE  Branched(g, n, a, r) \in Seq(Orderings(n))
<1> DEFINE ss == Branches(g, n, a, r)
<1>1. ASSUME NEW i \in 1 .. r PROVE ss[i] \in Seq(Orderings(n))
  <2>1. n - r + 1 \in 1 .. n /\ n - r + i \in 1 .. n
    OBVIOUS
  <2>2. Swap(a, n - r + 1, n - r + i) \in Orderings(n)
    BY <2>1, SwapFacts
  <2>3. ss[i] = g[Swap(a, n - r + 1, n - r + i)]
    BY DEF Branches
  <2>4. QED
    BY <2>2, <2>3
<1>2. ss = [i \in 1 .. r |-> ss[i]]
  BY DEF Branches
<1>3. Branched(g, n, a, r) = FlattenSeq(ss)
  BY DEF Branched
<1> HIDE DEF ss
<1>4. ss \in [1 .. r -> Seq(Orderings(n))]
  BY <1>1, <1>2
<1>5. ss \in Seq(Seq(Orderings(n)))
  BY <1>4
<1>6. PICK off : Offsets(off, ss)
  BY <1>5, OffsetsExist
<1>7. QED
  BY <1>3, <1>5, <1>6, FlattenFacts

(* There is such a recursion. *)
LEMMA GoesExist ==
    ASSUME NEW n \in Nat
    PROVE  \E go : Goes(go, n)
<1> DEFINE B == Orderings(n)
           A == [B -> Seq(B)]
           one == [a \in B |-> <<a>>]
           step == [x \in A \X (1 .. n) |-> [a \in B |-> Branched(x[1], n, a, x[2])]]
<1>1. one \in A
  OBVIOUS
<1>2. ASSUME NEW g \in A, NEW r \in 1 .. n
      PROVE  step[<<g, r>>] = [a \in B |-> Branched(g, n, a, r)]
  OBVIOUS
<1>3. StepsIn(step, A, n)
  <2> SUFFICES ASSUME NEW g \in A, NEW r \in 1 .. n PROVE step[<<g, r>>] \in A
    BY DEF StepsIn
  <2>1. \A a \in B : Branched(g, n, a, r) \in Seq(B)
    BY BranchedLists
  <2>2. [a \in B |-> Branched(g, n, a, r)] \in A
    <3> HIDE DEF B
    <3> QED BY <2>1
  <2> HIDE DEF step, A
  <2>3. QED
    BY <1>2, <2>2
<1> HIDE DEF A, step, one
<1>4. PICK f : Unfolds(f, step, one, A, n)
  BY <1>1, <1>3, Recursion
<1>5. ASSUME NEW r \in 0 .. n PROVE f[r] = [a \in B |-> Branched(f[r - 1], n, a, r)]
  <2>1. CASE r = 0
    <3>1. \A a \in B : Branched(f[r - 1], n, a, r) = <<a>>
      BY <2>1 DEF Branched
    <3>2. f[r] = [a \in B |-> <<a>>]
      BY <1>4, <2>1 DEF Unfolds, one
    <3>3. QED
      BY <3>1, <3>2
  <2>2. CASE r # 0
    <3>1. r \in 1 .. n /\ r - 1 \in 0 .. n
      BY <2>2
    <3>2. f[r] = step[<<f[r - 1], r>>] /\ f[r - 1] \in A
      BY <1>4, <3>1 DEF Unfolds
    <3>3. QED
      BY <1>2, <3>1, <3>2
  <2>3. QED
    BY <2>1, <2>2
<1>6. f = [r \in 0 .. n |-> f[r]]
  BY <1>4 DEF Unfolds
<1>7. f = [r \in 0 .. n |-> [a \in B |-> Branched(f[r - 1], n, a, r)]]
  BY <1>5, <1>6
<1>8. B = SetToSeqs(1 .. n)
  BY OrderingsFacts
<1>9. QED
  BY <1>7, <1>8, Zenon DEF Goes

(* permutations lists all orderings, each once. *)
LEMMA PermutationsFacts ==
    ASSUME NEW n \in Nat
    PROVE  /\ permutations(n) \in Seq(Orderings(n)) /\ IsInjective(permutations(n))
           /\ ToSet(permutations(n)) = Orderings(n)
<1> DEFINE go == CHOOSE g : Goes(g, n)
           start == [x \in 1 .. n |-> x]
<1>1. Goes(go, n)
  BY GoesExist, Zenon
<1>2. permutations(n) = go[n][start]
  BY Zenon DEF permutations, Goes, Branched, Branches
<1> HIDE DEF go, start
<1>3. SetToSeqs(1 .. n) = Orderings(n) /\ start \in Orderings(n)
  BY OrderingsFacts DEF start
<1>4. ASSUME NEW r \in 0 .. n, NEW a \in Orderings(n)
      PROVE  go[r][a] = Branched(go[r - 1], n, a, r)
  <2>1. go = [q \in 0 .. n |-> [b \in Orderings(n) |-> Branched(go[q - 1], n, b, q)]]
    BY <1>1, <1>3 DEF Goes
  <2>2. go[r] = [b \in Orderings(n) |-> Branched(go[r - 1], n, b, r)]
    BY <2>1, Zenon
  <2>3. QED
    BY <2>2, Zenon
<1> DEFINE S == {r \in 0 .. n : \A a \in Orderings(n) : ListsFrom(go[r][a], n, a, n - r)}
<1>5. 0 \in S
  <2>1. ASSUME NEW a \in Orderings(n) PROVE ListsFrom(go[0][a], n, a, n - 0)
    <3>1. go[0][a] = Branched(go[0 - 1], n, a, 0)
      BY <1>4, 0 \in 0 .. n
    <3>2. ListsFrom(Branched(go[0 - 1], n, a, 0), n, a, n - 0)
      BY BranchedFacts
    <3>3. QED
      BY <3>1, <3>2
  <2>2. QED
    BY <2>1
<1>6. ASSUME NEW r \in 0 .. n - 1, r \in S PROVE r + 1 \in S
  <2>1. r + 1 \in 0 .. n /\ (r + 1) - 1 = r /\ n - (r + 1) + 1 = n - r
    OBVIOUS
  <2>2. ASSUME NEW a \in Orderings(n) PROVE ListsFrom(go[r + 1][a], n, a, n - (r + 1))
    <3>1. go[r + 1][a] = Branched(go[(r + 1) - 1], n, a, r + 1)
      BY <1>4, <2>1
    <3>2. \A b \in Orderings(n) : ListsFrom(go[r][b], n, b, n - (r + 1) + 1)
      BY <1>6, <2>1
    <3>3. ListsFrom(Branched(go[r], n, a, r + 1), n, a, n - (r + 1))
      BY <2>1, <3>2, BranchedFacts
    <3>4. QED
      BY <2>1, <3>1, <3>3
  <2>3. QED
    BY <2>1, <2>2
<1>7. n \in S
  <2> HIDE DEF S
  <2>1. \A r \in 0 .. n : r \in S
    BY <1>5, <1>6, UpTo
  <2>2. QED
    BY <2>1
<1>8. ListsFrom(go[n][start], n, start, n - n) /\ n - n = 0
  BY <1>3, <1>7
<1>9. {b \in Orderings(n) : Agree(start, b, 0)} = Orderings(n)
  BY DEF Agree
<1>10. QED
  BY <1>2, <1>8, <1>9 DEF ListsFrom

(***************************************************************************)
(* The draws of Fisher and Yates are a bijection onto the orderings.       *)
(***************************************************************************)

(* Pass r of the shuffle. *)
Shuffled(a, n, d, r) == IF r = n THEN a ELSE Swap(a, n - r + 1, Draw(d, n - r + 1))

(* p holds what each pass gives. *)
Passes(p, n, d) ==
    p = [r \in 0 .. n |-> IF r = 0 THEN [x \in 1 .. n |-> x]
                          ELSE IF r = n THEN p[r - 1]
                          ELSE Swap(p[r - 1], n - r + 1, Draw(d, n - r + 1))]

IsRun(p, n, d) ==
    /\ p \in [0 .. n -> Orderings(n)] /\ p[0] = [x \in 1 .. n |-> x]
    /\ \A r \in 1 .. n : p[r] = Shuffled(p[r - 1], n, d, r)

(* A draw is one of the positions up to i. *)
LEMMA DrawFacts ==
    ASSUME NEW n \in Nat, NEW d \in Draws(n), NEW i \in 2 .. n
    PROVE  d[i] \in 0 .. i - 1 /\ Draw(d, i) = d[i] + 1 /\ Draw(d, i) \in 1 .. i
<1>1. d[i] \in 0 .. n - 1 /\ d[i] < i
  BY DEF Draws
<1> DEFINE x == d[i]
<1>2. x \in Nat /\ x < i /\ i \in Nat
  BY <1>1
<1> HIDE DEF x
<1>3. x % i = x
  BY <1>2
<1>4. QED
  BY <1>2, <1>3 DEF Draw, x

(* A pass keeps an ordering an ordering. *)
LEMMA ShuffledFacts ==
    ASSUME NEW n \in Nat, NEW d \in Draws(n), NEW r \in 1 .. n, NEW a \in Orderings(n)
    PROVE  /\ Shuffled(a, n, d, r) \in Orderings(n)
           /\ r = n => Shuffled(a, n, d, r) = a
           /\ r # n => /\ n - r + 1 \in 2 .. n
                       /\ Shuffled(a, n, d, r)[n - r + 1] = a[d[n - r + 1] + 1]
           /\ \A x \in 1 .. n : x > n - r + 1 => Shuffled(a, n, d, r)[x] = a[x]
<1>1. CASE r = n
  BY <1>1 DEF Shuffled
<1>2. CASE r # n
  <2> DEFINE i == n - r + 1
             j == Draw(d, i)
  <2>1. i \in 2 .. n /\ i \in 1 .. n
    BY <1>2
  <2>2. j = d[i] + 1 /\ j \in 1 .. i
    <3> HIDE DEF i
    <3> QED BY <2>1, DrawFacts
  <2>3. j \in 1 .. n
    BY <2>1, <2>2
  <2>4. Shuffled(a, n, d, r) = Swap(a, i, j)
    BY <1>2 DEF Shuffled
  <2> HIDE DEF i, j
  <2>5. /\ Swap(a, i, j) \in Orderings(n) /\ Swap(a, i, j)[i] = a[j]
        /\ \A x \in (1 .. n) \ {i, j} : Swap(a, i, j)[x] = a[x]
    BY <2>1, <2>3, SwapFacts
  <2>6. \A x \in 1 .. n : x > i => Swap(a, i, j)[x] = a[x]
    BY <2>1, <2>2, <2>5
  <2>7. QED
    BY <1>2, <2>1, <2>2, <2>4, <2>5, <2>6 DEF i
<1>3. QED
  BY <1>1, <1>2

(* ordering is such a run. *)
LEMMA OrderingRun ==
    ASSUME NEW n \in Nat, NEW d \in Draws(n)
    PROVE  \E p : IsRun(p, n, d) /\ ordering(n, d) = p[n]
<1> DEFINE A == Orderings(n)
           start == [x \in 1 .. n |-> x]
           step == [x \in A \X (1 .. n) |-> Shuffled(x[1], n, d, x[2])]
<1>1. start \in A
  BY OrderingsFacts
<1>2. ASSUME NEW a \in A, NEW r \in 1 .. n PROVE step[<<a, r>>] = Shuffled(a, n, d, r)
  OBVIOUS
<1>3. StepsIn(step, A, n)
  <2> SUFFICES ASSUME NEW a \in A, NEW r \in 1 .. n PROVE step[<<a, r>>] \in A
    BY DEF StepsIn
  <2> HIDE DEF step
  <2>1. QED
    BY <1>2, ShuffledFacts
<1> HIDE DEF A, step, start
<1>4. PICK f : Unfolds(f, step, start, A, n)
  BY <1>1, <1>3, Recursion
<1>5. ASSUME NEW r \in 0 .. n
      PROVE  f[r] = IF r = 0 THEN start
                    ELSE IF r = n THEN f[r - 1]
                    ELSE Swap(f[r - 1], n - r + 1, Draw(d, n - r + 1))
  <2>1. CASE r = 0
    BY <1>4, <2>1 DEF Unfolds
  <2>2. CASE r # 0
    <3>1. r \in 1 .. n /\ r - 1 \in 0 .. n
      BY <2>2
    <3>2. f[r] = step[<<f[r - 1], r>>] /\ f[r - 1] \in A
      BY <1>4, <3>1 DEF Unfolds
    <3>3. f[r] = Shuffled(f[r - 1], n, d, r)
      BY <1>2, <3>1, <3>2
    <3>4. QED
      BY <2>2, <3>3 DEF Shuffled
  <2>3. QED
    BY <2>1, <2>2
<1>6. f = [r \in 0 .. n |-> f[r]]
  BY <1>4 DEF Unfolds
<1>7. f = [r \in 0 .. n |-> IF r = 0 THEN start
                            ELSE IF r = n THEN f[r - 1]
                            ELSE Swap(f[r - 1], n - r + 1, Draw(d, n - r + 1))]
  BY <1>5, <1>6
<1>8. Passes(f, n, d)
  BY <1>7, Zenon DEF Passes, start
<1> DEFINE p == CHOOSE q : Passes(q, n, d)
<1>9. Passes(p, n, d)
  BY <1>8, Zenon
<1>10. ordering(n, d) = p[n]
  BY Zenon DEF ordering, Passes
<1> HIDE DEF p
<1>11. p[0] = start /\ \A r \in 1 .. n : p[r] = Shuffled(p[r - 1], n, d, r)
  BY <1>9 DEF Passes, Shuffled, start
<1>12. DOMAIN p = 0 .. n
  BY <1>9 DEF Passes
<1> DEFINE S == {r \in 0 .. n : p[r] \in A}
<1>13. 0 \in S
  BY <1>1, <1>11
<1>14. ASSUME NEW r \in 0 .. n - 1, r \in S PROVE r + 1 \in S
  <2>1. r + 1 \in 1 .. n /\ (r + 1) - 1 = r /\ r + 1 \in 0 .. n
    OBVIOUS
  <2>2. p[r + 1] = Shuffled(p[r], n, d, r + 1) /\ p[r] \in A
    BY <1>11, <1>14, <2>1
  <2>3. QED
    BY <2>1, <2>2, ShuffledFacts DEF A
<1>15. \A r \in 0 .. n : r \in S
  <2> HIDE DEF S
  <2> QED BY <1>13, <1>14, UpTo
<1>16. p \in [0 .. n -> A]
  <2>1. p = [r \in 0 .. n |-> p[r]]
    BY <1>9 DEF Passes
  <2>2. QED
    BY <1>15, <2>1
<1>17. IsRun(p, n, d)
  BY <1>11, <1>16 DEF IsRun, A, start
<1>18. QED
  BY <1>10, <1>17

(* A run depends on the draws it has made. *)
LEMMA RunsSame ==
    ASSUME NEW n \in Nat, NEW d \in Draws(n), NEW e \in Draws(n),
           NEW p, IsRun(p, n, d), NEW q, IsRun(q, n, e), NEW m \in 0 .. n,
           \A i \in 2 .. n : i > n - m => d[i] = e[i]
    PROVE  p[m] = q[m]
<1> DEFINE S == {r \in 0 .. m : p[r] = q[r]}
<1>1. 0 \in S
  BY DEF IsRun
<1>2. ASSUME NEW r \in 0 .. m - 1, r \in S PROVE r + 1 \in S
  <2> DEFINE i == n - (r + 1) + 1
  <2>1. r + 1 \in 1 .. n /\ (r + 1) - 1 = r /\ r + 1 \in 0 .. m
    OBVIOUS
  <2>2. p[r + 1] = Shuffled(p[r], n, d, r + 1) /\ q[r + 1] = Shuffled(p[r], n, e, r + 1)
    BY <1>2, <2>1 DEF IsRun
  <2>3. r + 1 # n => Draw(d, i) = Draw(e, i)
    <3> SUFFICES ASSUME r + 1 # n PROVE Draw(d, i) = Draw(e, i)
      OBVIOUS
    <3>1. i \in 2 .. n /\ i > n - m
      OBVIOUS
    <3> HIDE DEF i
    <3>2. QED
      BY <3>1 DEF Draw
  <2>4. p[r + 1] = q[r + 1]
    BY <2>2, <2>3 DEF Shuffled
  <2>5. QED
    BY <2>1, <2>4
<1>3. \A r \in 0 .. m : r \in S
  <2> HIDE DEF S
  <2>1. m \in Nat
    OBVIOUS
  <2> QED BY <1>1, <1>2, <2>1, UpTo
<1>4. QED
  BY <1>3

(* The positions that a run has settled stay as they are. *)
LEMMA RunStays ==
    ASSUME NEW n \in Nat, NEW d \in Draws(n), NEW p, IsRun(p, n, d), NEW m \in 0 .. n,
           NEW x \in 1 .. n, x > n - m
    PROVE  p[n][x] = p[m][x]
<1> DEFINE S == {k \in 0 .. n - m : p[m + k][x] = p[m][x]}
<1>1. 0 \in S
  <2>1. m + 0 = m /\ 0 \in 0 .. n - m
    OBVIOUS
  <2>2. QED
    BY <2>1
<1>2. ASSUME NEW k \in 0 .. (n - m) - 1, k \in S PROVE k + 1 \in S
  <2> DEFINE r == m + k
  <2>1. /\ r + 1 \in 1 .. n /\ (r + 1) - 1 = r /\ r \in 0 .. n /\ k + 1 \in 0 .. n - m
        /\ m + (k + 1) = r + 1 /\ x > n - (r + 1) + 1
    OBVIOUS
  <2>2. p[r][x] = p[m][x]
    BY <1>2
  <2> HIDE DEF r
  <2>3. p[r + 1] = Shuffled(p[r], n, d, r + 1) /\ p[r] \in Orderings(n)
    BY <2>1 DEF IsRun
  <2>4. p[r + 1][x] = p[r][x]
    BY <2>1, <2>3, ShuffledFacts
  <2>5. p[m + (k + 1)][x] = p[m][x]
    BY <2>1, <2>2, <2>4
  <2>6. QED
    BY <2>1, <2>5
<1>3. \A k \in 0 .. n - m : k \in S
  <2> HIDE DEF S
  <2>1. n - m \in Nat
    OBVIOUS
  <2> QED BY <1>1, <1>2, <2>1, UpTo
<1>4. n - m \in S /\ m + (n - m) = n
  BY <1>3
<1>5. QED
  BY <1>4

(* Different draws give different orderings. *)
LEMMA OrderingOnce ==
    ASSUME NEW n \in Nat, NEW d \in Draws(n), NEW e \in Draws(n), ordering(n, d) = ordering(n, e)
    PROVE  d = e
<1>1. PICK p : IsRun(p, n, d) /\ ordering(n, d) = p[n]
  BY OrderingRun
<1>2. PICK q : IsRun(q, n, e) /\ ordering(n, e) = q[n]
  BY OrderingRun
<1>3. p[n] = q[n]
  BY <1>1, <1>2
<1> DEFINE Equal(r) == \A i \in 2 .. n : i > n - r => d[i] = e[i]
           S == {r \in 0 .. n : Equal(r)}
<1>4. 0 \in S
  OBVIOUS
<1>5. ASSUME NEW r \in 0 .. n - 1, r \in S PROVE r + 1 \in S
  <2> DEFINE i == n - (r + 1) + 1
  <2>1. r + 1 \in 1 .. n /\ (r + 1) - 1 = r /\ r \in 0 .. n /\ r + 1 \in 0 .. n /\ i = n - r
    OBVIOUS
  <2>2. Equal(r)
    BY <1>5
  <2>3. p[r] = q[r]
    BY <1>1, <1>2, <2>1, <2>2, RunsSame
  <2>4. i \in 2 .. n => d[i] = e[i]
    <3> SUFFICES ASSUME i \in 2 .. n PROVE d[i] = e[i]
      OBVIOUS
    <3>1. r + 1 # n /\ i > n - (r + 1) /\ i \in 1 .. n
      OBVIOUS
    <3>2. p[r + 1][i] = p[n][i] /\ q[r + 1][i] = q[n][i]
      <4> HIDE DEF i
      <4>1. p[n][i] = p[r + 1][i]
        BY <1>1, <2>1, <3>1, RunStays
      <4>2. q[n][i] = q[r + 1][i]
        BY <1>2, <2>1, <3>1, RunStays
      <4>3. QED
        BY <4>1, <4>2
    <3>3. p[r] \in Orderings(n) /\ p[r + 1] = Shuffled(p[r], n, d, r + 1)
      BY <1>1, <2>1 DEF IsRun
    <3>4. q[r + 1] = Shuffled(p[r], n, e, r + 1)
      BY <1>2, <2>1, <2>3 DEF IsRun
    <3>5. p[r + 1][i] = p[r][d[i] + 1] /\ q[r + 1][i] = p[r][e[i] + 1]
      BY <2>1, <3>1, <3>3, <3>4, ShuffledFacts
    <3>6. p[r][d[i] + 1] = p[r][e[i] + 1]
      BY <1>3, <3>2, <3>5
    <3>7. d[i] \in 0 .. i - 1 /\ e[i] \in 0 .. i - 1
      <4> HIDE DEF i
      <4> QED BY DrawFacts
    <3>8. d[i] + 1 \in 1 .. n /\ e[i] + 1 \in 1 .. n
      <4> HIDE DEF i
      <4> QED BY <3>1, <3>7
    <3>9. d[i] + 1 = e[i] + 1
      BY <3>3, <3>6, <3>8 DEF Orderings
    <3>10. QED
      BY <3>7, <3>9
  <2>5. Equal(r + 1)
    <3> SUFFICES ASSUME NEW x \in 2 .. n, x > n - (r + 1) PROVE d[x] = e[x]
      OBVIOUS
    <3>1. CASE x > n - r
      BY <2>2, <3>1
    <3>2. CASE ~ (x > n - r)
      <4>1. x = i
        BY <3>2
      <4>2. QED
        BY <2>4, <4>1
    <3>3. QED
      BY <3>1, <3>2
  <2>6. QED
    BY <2>1, <2>5
<1>6. n \in S
  <2> HIDE DEF S
  <2>1. \A r \in 0 .. n : r \in S
    BY <1>4, <1>5, UpTo
  <2>2. QED
    BY <2>1
<1>7. \A i \in 2 .. n : d[i] = e[i]
  BY <1>6
<1>8. QED
  BY <1>7 DEF Draws

(* Every ordering is drawn. *)
LEMMA OrderingOnto ==
    ASSUME NEW n \in Nat, NEW b \in Orderings(n)
    PROVE  \E d \in Draws(n) : ordering(n, d) = b
<1> DEFINE Settled(p, r) == \A x \in 1 .. n : x > n - r => p[r][x] = b[x]
           S == {r \in 0 .. n : \E d \in Draws(n) : \E p : IsRun(p, n, d) /\ Settled(p, r)}
<1>0. \A d \in Draws(n) : \E p : IsRun(p, n, d) /\ ordering(n, d) = p[n]
  BY OrderingRun
<1>1. 0 \in S
  <2> DEFINE d == [i \in 2 .. n |-> 0]
  <2>1. d \in Draws(n)
    BY DEF Draws
  <2> HIDE DEF d
  <2>2. PICK p : IsRun(p, n, d)
    BY <1>0, <2>1
  <2>3. Settled(p, 0)
    OBVIOUS
  <2> HIDE DEF Settled
  <2>4. QED
    BY <2>1, <2>2, <2>3
<1>2. ASSUME NEW r \in 0 .. n - 1, r \in S PROVE r + 1 \in S
  <2>0. PICK d \in Draws(n) : \E p : IsRun(p, n, d) /\ Settled(p, r)
    BY <1>2
  <2>1. PICK p : IsRun(p, n, d) /\ Settled(p, r)
    BY <2>0
  <2> DEFINE i == n - r
  <2>2. /\ i \in 1 .. n /\ r + 1 \in 1 .. n /\ r + 1 \in 0 .. n /\ r \in 0 .. n /\ (r + 1) - 1 = r
        /\ n - (r + 1) + 1 = i /\ n - (r + 1) = i - 1
    OBVIOUS
  <2>3. p[r] \in Orderings(n)
    BY <2>1, <2>2 DEF IsRun
  <2>4. b[i] \in 1 .. n /\ \A x \in 1 .. n : x # i => b[x] # b[i]
    BY <2>2 DEF Orderings
  <2>5. PICK j \in 1 .. n : p[r][j] = b[i]
    BY <2>3, <2>4, OrderingsFacts
  <2>6. j \in 1 .. i
    <3> SUFFICES ASSUME j > i PROVE FALSE
      BY <2>2
    <3>1. p[r][j] = b[j]
      BY <2>1
    <3>2. QED
      BY <2>4, <2>5, <3>1
  <2>7. CASE i = 1
    <3>1. r + 1 = n /\ j = 1
      BY <2>6, <2>7
    <3>2. p[r + 1] = p[r]
      BY <2>1, <2>2, <3>1 DEF IsRun, Shuffled
    <3>3. Settled(p, r + 1)
      <4> SUFFICES ASSUME NEW x \in 1 .. n PROVE p[r][x] = b[x]
        BY <3>2
      <4>1. CASE x = 1
        BY <2>5, <2>7, <3>1, <4>1
      <4>2. CASE x # 1
        BY <2>1, <2>7, <4>2
      <4>3. QED
        BY <4>1, <4>2
    <3> HIDE DEF Settled
    <3>4. QED
      BY <2>1, <2>2, <3>3
  <2>8. CASE i # 1
    <3> DEFINE e == [d EXCEPT ![i] = j - 1]
    <3>1. i \in 2 .. n
      BY <2>2, <2>8
    <3>2. e \in Draws(n) /\ e[i] = j - 1 /\ \A x \in 2 .. n : x # i => e[x] = d[x]
      <4> HIDE DEF i
      <4>1. d \in [2 .. n -> 0 .. n - 1] /\ \A x \in 2 .. n : d[x] < x
        BY DEF Draws
      <4>2. j - 1 \in 0 .. n - 1 /\ j - 1 < i
        BY <2>6, <3>1
      <4>3. e \in [2 .. n -> 0 .. n - 1]
        BY <3>1, <4>1, <4>2
      <4>4. e[i] = j - 1 /\ \A x \in 2 .. n : x # i => e[x] = d[x]
        BY <3>1, <4>1
      <4> HIDE DEF e
      <4>5. \A x \in 2 .. n : e[x] < x
        BY <4>1, <4>2, <4>4
      <4>6. QED
        BY <4>3, <4>4, <4>5 DEF Draws
    <3> HIDE DEF e
    <3>3. PICK q : IsRun(q, n, e)
      BY <1>0, <3>2
    <3>4. q[r] = p[r]
      <4>1. \A x \in 2 .. n : x > n - r => e[x] = d[x]
        BY <3>2
      <4>2. QED
        BY <2>1, <2>2, <3>2, <3>3, <4>1, RunsSame
    <3>5. q[r + 1] = Shuffled(p[r], n, e, r + 1)
      BY <2>2, <3>3, <3>4 DEF IsRun
    <3>6. r + 1 # n
      BY <2>8
    <3>7. q[r + 1][i] = p[r][e[i] + 1] /\ \A x \in 1 .. n : x > i => q[r + 1][x] = p[r][x]
      <4> HIDE DEF i
      <4> QED BY <2>2, <2>3, <3>2, <3>5, <3>6, ShuffledFacts
    <3>8. q[r + 1][i] = b[i]
      <4>1. e[i] + 1 = j
        BY <3>2
      <4>2. QED
        BY <2>5, <3>7, <4>1
    <3>9. Settled(q, r + 1)
      <4> SUFFICES ASSUME NEW x \in 1 .. n, x > n - (r + 1) PROVE q[r + 1][x] = b[x]
        OBVIOUS
      <4>1. CASE x = i
        BY <3>8, <4>1
      <4>2. CASE x # i
        <5>1. x > i
          BY <4>2
        <5>2. QED
          BY <2>1, <3>7, <5>1
      <4>3. QED
        BY <4>1, <4>2
    <3> HIDE DEF Settled
    <3>10. QED
      BY <2>2, <3>2, <3>3, <3>9
  <2>9. QED
    BY <2>7, <2>8
<1>3. n \in S
  <2> HIDE DEF S
  <2>1. \A r \in 0 .. n : r \in S
    BY <1>1, <1>2, UpTo
  <2>2. QED
    BY <2>1
<1>3a. PICK d \in Draws(n) : \E p : IsRun(p, n, d) /\ Settled(p, n)
  BY <1>3
<1>4. PICK p : IsRun(p, n, d) /\ Settled(p, n)
  BY <1>3a
<1>5. PICK q : IsRun(q, n, d) /\ ordering(n, d) = q[n]
  BY <1>0
<1>6. q[n] = p[n]
  <2>1. n \in 0 .. n /\ \A i \in 2 .. n : i > n - n => d[i] = d[i]
    OBVIOUS
  <2>2. QED
    BY <1>4, <1>5, <2>1, RunsSame
<1>7. p[n] = b
  <2>1. p[n] \in Orderings(n) /\ \A x \in 1 .. n : p[n][x] = b[x]
    BY <1>4 DEF IsRun
  <2>2. QED
    BY <2>1 DEF Orderings
<1>8. QED
  BY <1>5, <1>6, <1>7

(* What is drawn is an ordering. *)
LEMMA OrderingIn ==
    ASSUME NEW n \in Nat, NEW d \in Draws(n)
    PROVE  ordering(n, d) \in Orderings(n)
<1>1. PICK p : IsRun(p, n, d) /\ ordering(n, d) = p[n]
  BY OrderingRun
<1>2. QED
  BY <1>1 DEF IsRun

(* The orderings, and so the draws, are finitely many. *)
LEMMA DrawsFinite ==
    ASSUME NEW n \in Nat
    PROVE  IsFiniteSet(Draws(n))
<1> DEFINE u == permutations(n)
           m == Len(u)
<1>1. u \in Seq(Orderings(n)) /\ ToSet(u) = Orderings(n)
  BY PermutationsFacts
<1> HIDE DEF u
<1>2. m \in Nat /\ DOMAIN u = 1 .. m /\ u \in [1 .. m -> Orderings(n)]
  BY <1>1
<1>3. u \in Surjection(1 .. m, Orderings(n))
  BY <1>1, <1>2 DEF Surjection, ToSet
<1>4. IsFiniteSet(Orderings(n))
  <2>1. IsFiniteSet(1 .. m)
    BY <1>2, Numbers
  <2> HIDE DEF m
  <2>2. QED
    BY <1>3, <2>1, FS_Surjection
<1> DEFINE f == [d \in Draws(n) |-> ordering(n, d)]
<1>5. f \in [Draws(n) -> Orderings(n)]
  BY OrderingIn
<1>6. \A d, e \in Draws(n) : f[d] = f[e] => d = e
  BY OrderingOnce
<1> HIDE DEF f
<1>7. f \in Injection(Draws(n), Orderings(n))
  BY <1>5, <1>6 DEF Injection, IsInjective
<1>8. QED
  BY <1>4, <1>7, FS_Injection

(***************************************************************************)
(* Marginals.                                                              *)
(***************************************************************************)

(* Coalitions have values. *)
Game(v, n) == \A S \in (SUBSET (1 .. n)) \ {{}} : v[S] \in Int

(* The first k of an ordering, and what they are worth. *)
Ahead(a, k) == {a[x] : x \in 1 .. k}

Worth(v, a, k) == IF k = 0 THEN 0 ELSE v[Ahead(a, k)]

(* The first ones of an ordering. *)
LEMMA AheadFacts ==
    ASSUME NEW n \in Nat, NEW a \in Orderings(n), NEW k \in 1 .. n
    PROVE  /\ Ahead(a, k) \in (SUBSET (1 .. n)) \ {{}}
           /\ Ahead(a, k - 1) \in SUBSET (1 .. n)
           /\ Ahead(a, k - 1) = {} <=> k = 1
           /\ Ahead(a, k) = Ahead(a, k - 1) \cup {a[k]}
           /\ a[k] \notin Ahead(a, k - 1) /\ a[k] \in 1 .. n
<1>1. \A x \in 1 .. n : a[x] \in 1 .. n /\ \A y \in 1 .. n : x # y => a[x] # a[y]
  BY DEF Orderings
<1>2. 1 .. k = (1 .. k - 1) \cup {k} /\ 1 .. k \subseteq 1 .. n /\ 1 .. k - 1 \subseteq 1 .. n
      /\ k \notin 1 .. k - 1 /\ (k # 1 => 1 \in 1 .. k - 1) /\ (k = 1 => 1 .. k - 1 = {})
  OBVIOUS
<1>3. Ahead(a, k) = Ahead(a, k - 1) \cup {a[k]}
  BY <1>2 DEF Ahead
<1>4. Ahead(a, k - 1) \in SUBSET (1 .. n) /\ a[k] \notin Ahead(a, k - 1) /\ a[k] \in 1 .. n
  BY <1>1, <1>2 DEF Ahead
<1>5. Ahead(a, k - 1) = {} <=> k = 1
  BY <1>2 DEF Ahead
<1>6. QED
  BY <1>3, <1>4, <1>5

(* The contributor at place k gets what it adds. *)
LEMMA MarginalsFacts ==
    ASSUME NEW n \in Nat, NEW v, Game(v, n), NEW a \in Orderings(n)
    PROVE  /\ marginals(v, a) \in Vectors(n)
           /\ \A k \in 1 .. n : /\ marginals(v, a)[a[k]] = Worth(v, a, k) - Worth(v, a, k - 1)
                                /\ Worth(v, a, k) \in Int /\ Worth(v, a, k - 1) \in Int
<1> DEFINE m == marginals(v, a)
           at(i) == CHOOSE k \in 1 .. n : a[k] = i
           Mine(i) == LET before == {a[x] : x \in 1 .. at(i) - 1}
                      IN  v[before \cup {i}] - (IF before = {} THEN 0 ELSE v[before])
<1>1. DOMAIN a = 1 .. n /\ \A k, l \in 1 .. n : a[k] = a[l] => k = l
  BY DEF Orderings
<1>2. m = [i \in 1 .. n |-> Mine(i)]
  BY <1>1 DEF marginals
<1>3. ASSUME NEW k \in 1 .. n
      PROVE  /\ Mine(a[k]) = Worth(v, a, k) - Worth(v, a, k - 1)
             /\ Worth(v, a, k) \in Int /\ Worth(v, a, k - 1) \in Int /\ a[k] \in 1 .. n
  <2>1. at(a[k]) = k
    BY <1>1
  <2> HIDE DEF at
  <2>2. /\ Ahead(a, k) \in (SUBSET (1 .. n)) \ {{}} /\ Ahead(a, k - 1) \in SUBSET (1 .. n)
        /\ (Ahead(a, k - 1) = {} <=> k = 1) /\ Ahead(a, k) = Ahead(a, k - 1) \cup {a[k]}
        /\ a[k] \in 1 .. n
    BY AheadFacts
  <2>3. Mine(a[k]) = v[Ahead(a, k)] - (IF Ahead(a, k - 1) = {} THEN 0 ELSE v[Ahead(a, k - 1)])
    BY <2>1, <2>2 DEF Ahead
  <2> HIDE DEF Mine
  <2>4. Worth(v, a, k) = v[Ahead(a, k)] /\ v[Ahead(a, k)] \in Int
    BY <2>2 DEF Worth, Game
  <2>5. /\ Worth(v, a, k - 1) = IF Ahead(a, k - 1) = {} THEN 0 ELSE v[Ahead(a, k - 1)]
        /\ Worth(v, a, k - 1) \in Int
    <3>1. k - 1 = 0 <=> k = 1
      OBVIOUS
    <3>2. QED
      BY <2>2, <3>1 DEF Worth, Game
  <2>6. QED
    BY <2>2, <2>3, <2>4, <2>5
<1> HIDE DEF Mine, at
<1>4. \A k \in 1 .. n : m[a[k]] = Mine(a[k])
  BY <1>2, <1>3
<1>5. \A i \in 1 .. n : Mine(i) \in Int
  <2> SUFFICES ASSUME NEW i \in 1 .. n PROVE Mine(i) \in Int
    OBVIOUS
  <2>1. PICK k \in 1 .. n : a[k] = i
    BY OrderingsFacts
  <2>2. QED
    BY <1>3, <2>1
<1>6. m \in Vectors(n)
  BY <1>2, <1>5 DEF Vectors
<1>7. QED
  BY <1>3, <1>4, <1>6

(* In every ordering the whole value is divided. *)
LEMMA MarginalsDivide ==
    ASSUME NEW n \in Nat \ {0}, NEW v, Game(v, n), NEW a \in Orderings(n)
    PROVE  Total(marginals(v, a), 1 .. n) = v[1 .. n]
<1> DEFINE m == marginals(v, a)
           D == 1 .. n
           h == [k \in D |-> m[a[k]]]
<1>1. m \in [D -> Int]
  BY MarginalsFacts DEF Vectors
<1>2. a \in Bijection(D, D) /\ IsFiniteSet(D)
  <2>1. a \in [D -> D] /\ \A i, j \in D : a[i] = a[j] => i = j
    BY DEF Orderings
  <2>2. \A x \in D : \E k \in D : a[k] = x
    BY OrderingsFacts
  <2>3. IsFiniteSet(D)
    BY Numbers
  <2>4. QED
    BY <2>1, <2>2, <2>3 DEF Bijection, Injection, Surjection, IsInjective
<1>3. \A k \in D : a[k] \in D
  BY DEF Orderings
<1>4. h \in [D -> Int]
  <2> HIDE DEF m, D
  <2> QED BY <1>1, <1>3
<1>5. Total(h, D) = Total(m, D)
  <2>1. \A k \in D : h[k] = m[a[k]]
    OBVIOUS
  <2> HIDE DEF h, m, D
  <2>2. QED
    BY <1>1, <1>2, <1>4, <2>1, TotalMoved
<1>6. \A k \in D : /\ h[k] = Worth(v, a, k) - Worth(v, a, k - 1)
                   /\ Worth(v, a, k) \in Int /\ Worth(v, a, k - 1) \in Int
  BY MarginalsFacts
<1> DEFINE S == {k \in 0 .. n : Total(h, 1 .. k) = Worth(v, a, k)}
<1> HIDE DEF h, m
<1>7. 0 \in S
  <2>1. IsFiniteSet({}) /\ 1 .. 0 = {}
    BY FS_EmptySet
  <2> HIDE DEF D
  <2>2. Total(h, {}) = 0
    BY <1>4, <2>1, TotalInts
  <2>3. QED
    BY <2>1, <2>2 DEF Worth
<1>8. ASSUME NEW k \in 0 .. n - 1, k \in S PROVE k + 1 \in S
  <2> DEFINE T == 1 .. k
             x == k + 1
  <2>1. /\ x \in D \ T /\ T \in SUBSET D /\ 1 .. x = T \cup {x} /\ x - 1 = k /\ x \in 0 .. n
        /\ IsFiniteSet(T)
    BY Numbers
  <2>2. Total(h, T) = Worth(v, a, k)
    BY <1>8
  <2> HIDE DEF T, x, D
  <2>3. Total(h, T \cup {x}) = Total(h, T) + h[x]
    <3>1. h \in [D -> Int] /\ T \in SUBSET D /\ IsFiniteSet(T) /\ x \in D \ T
      BY <1>4, <2>1
    <3>2. QED
      BY <3>1, TotalInts
  <2>4. h[x] = Worth(v, a, x) - Worth(v, a, k) /\ Worth(v, a, x) \in Int /\ Worth(v, a, k) \in Int
    BY <1>6, <2>1
  <2>5. Total(h, 1 .. x) = Worth(v, a, x)
    <3> DEFINE y == Worth(v, a, x)
               z == Worth(v, a, k)
    <3>1. Total(h, 1 .. x) = z + (y - z) /\ y \in Int /\ z \in Int
      BY <2>1, <2>2, <2>3, <2>4
    <3> HIDE DEF y, z
    <3>2. z + (y - z) = y
      BY <3>1
    <3>3. QED
      BY <3>1, <3>2 DEF y
  <2>6. QED
    BY <2>1, <2>5 DEF x
<1>9. n \in S
  <2> HIDE DEF S
  <2>1. \A k \in 0 .. n : k \in S
    BY <1>7, <1>8, UpTo
  <2>2. QED
    BY <2>1
<1>10. Ahead(a, n) = 1 .. n
  <2>1. \A x \in 1 .. n : a[x] \in 1 .. n
    BY <1>3
  <2>2. \A x \in 1 .. n : \E k \in 1 .. n : a[k] = x
    BY OrderingsFacts
  <2>3. QED
    BY <2>1, <2>2 DEF Ahead
<1>11. QED
  BY <1>5, <1>9, <1>10 DEF Worth, m

(* Contributor i adds nothing to any coalition. *)
AddsNothing(v, n, i) ==
    (\A S \in (SUBSET (1 .. n)) \ {{}, {i}} : v[S \cup {i}] = v[S \ {i}]) /\ v[{i}] = 0

(* Who adds nothing to any coalition gets nothing in any ordering. *)
LEMMA MarginalsNull ==
    ASSUME NEW n \in Nat, NEW v, Game(v, n), NEW a \in Orderings(n), NEW i \in 1 .. n,
           AddsNothing(v, n, i)
    PROVE  marginals(v, a)[i] = 0
<1>1. PICK k \in 1 .. n : a[k] = i
  BY OrderingsFacts
<1>2. marginals(v, a)[i] = Worth(v, a, k) - Worth(v, a, k - 1) /\ Worth(v, a, k - 1) \in Int
  BY <1>1, MarginalsFacts
<1>3. /\ Ahead(a, k) \in SUBSET (1 .. n) /\ (Ahead(a, k - 1) = {} <=> k = 1)
      /\ Ahead(a, k) = Ahead(a, k - 1) \cup {i} /\ i \notin Ahead(a, k - 1)
  BY <1>1, AheadFacts
<1>4. Worth(v, a, k) = v[Ahead(a, k)]
  BY DEF Worth
<1>5. CASE k = 1
  <2>1. Ahead(a, k) = {i} /\ Worth(v, a, k - 1) = 0
    BY <1>3, <1>5 DEF Worth
  <2>2. v[{i}] = 0
    BY DEF AddsNothing
  <2>3. QED
    BY <1>2, <1>4, <2>1, <2>2
<1>6. CASE k # 1
  <2>1. Ahead(a, k) # {} /\ Ahead(a, k) # {i}
    BY <1>3, <1>6
  <2>2. Ahead(a, k) \cup {i} = Ahead(a, k) /\ Ahead(a, k) \ {i} = Ahead(a, k - 1)
    BY <1>3
  <2>3. v[Ahead(a, k) \cup {i}] = v[Ahead(a, k) \ {i}]
    BY <1>3, <2>1 DEF AddsNothing
  <2>4. Worth(v, a, k - 1) = v[Ahead(a, k - 1)]
    BY <1>6 DEF Worth
  <2>5. Worth(v, a, k) = Worth(v, a, k - 1)
    BY <1>4, <2>2, <2>3, <2>4
  <2> DEFINE y == Worth(v, a, k - 1)
  <2>6. marginals(v, a)[i] = y - y /\ y \in Int
    BY <1>2, <2>5
  <2> HIDE DEF y
  <2>7. QED
    BY <2>6
<1>7. QED
  BY <1>5, <1>6

(* Sums add. *)
LEMMA TotalPlus ==
    ASSUME NEW n \in Nat, NEW a \in Vectors(n), NEW b \in Vectors(n)
    PROVE  Total(Plus(a, b), 1 .. n) = Total(a, 1 .. n) + Total(b, 1 .. n)
<1> DEFINE D == 1 .. n
           c == Plus(a, b)
           F == {T \in SUBSET D : Total(c, T) = Total(a, T) + Total(b, T)}
<1>1. IsFiniteSet(D) /\ IsFiniteSet({})
  BY Numbers, FS_EmptySet
<1>2. a \in [D -> Int] /\ b \in [D -> Int] /\ c \in [D -> Int] /\ \A x \in D : c[x] = a[x] + b[x]
  BY PlusFacts DEF Vectors
<1> HIDE DEF c, D
<1>3. {} \in F
  <2>1. Total(a, {}) = 0
    BY <1>1, <1>2, TotalInts
  <2>2. Total(b, {}) = 0
    BY <1>1, <1>2, TotalInts
  <2>3. Total(c, {}) = 0
    BY <1>1, <1>2, TotalInts
  <2>4. QED
    BY <2>1, <2>2, <2>3
<1>4. ASSUME NEW T \in SUBSET D, T \in F, NEW x \in D \ T PROVE T \cup {x} \in F
  <2>1. IsFiniteSet(T)
    BY <1>1, FS_Subset
  <2>2. Total(a, T \cup {x}) = Total(a, T) + a[x] /\ Total(a, T) \in Int
    BY <1>2, <2>1, TotalInts
  <2>3. Total(b, T \cup {x}) = Total(b, T) + b[x] /\ Total(b, T) \in Int
    BY <1>2, <2>1, TotalInts
  <2>4. Total(c, T \cup {x}) = Total(c, T) + c[x] /\ Total(c, T) \in Int
    BY <1>2, <2>1, TotalInts
  <2>5. Total(c, T) = Total(a, T) + Total(b, T) /\ c[x] = a[x] + b[x] /\ a[x] \in Int /\ b[x] \in Int
    BY <1>2, <1>4
  <2>6. Total(c, T \cup {x}) = Total(a, T \cup {x}) + Total(b, T \cup {x})
    BY <2>2, <2>3, <2>4, <2>5
  <2>7. QED
    BY <2>6
<1>5. D \in F
  <2> HIDE DEF F
  <2> QED BY <1>1, <1>3, <1>4, GrowsTo
<1>6. QED
  BY <1>5 DEF c, D

(* Vectors that each divide c divide it together as often as there are     *)
(* vectors.                                                                *)
LEMMA SummedDivide ==
    ASSUME NEW n \in Nat, NEW vs \in Seq(Vectors(n)), NEW c \in Int,
           \A k \in 1 .. Len(vs) : Total(vs[k], 1 .. n) = c
    PROVE  Total(Summed(n, vs), 1 .. n) = Len(vs) * c
<1> DEFINE m == Len(vs)
<1>1. m \in Nat /\ \A k \in 1 .. m : vs[k] \in Vectors(n)
  OBVIOUS
<1>2. PICK acc \in [0 .. m -> Vectors(n)] :
         /\ Summed(n, vs) = acc[m] /\ acc[0] = Zero(n)
         /\ \A k \in 1 .. m : acc[k] = Plus(acc[k - 1], vs[k])
  BY SummedSteps
<1>3. \A k \in 1 .. m : Total(vs[k], 1 .. n) = c
  OBVIOUS
<1> HIDE DEF m
<1> DEFINE S == {k \in 0 .. m : Total(acc[k], 1 .. n) = k * c}
<1>4. 0 \in S
  <2> DEFINE D == 1 .. n
             g == acc[0]
  <2>1. IsFiniteSet(D) /\ g \in [D -> Int] /\ \A x \in D : g[x] = 0
    BY <1>2, Numbers DEF Zero
  <2> HIDE DEF D, g
  <2>2. Total(g, D) = 0
    BY <2>1, TotalZeros
  <2>3. 0 * c = 0
    OBVIOUS
  <2>4. QED
    BY <1>1, <2>2, <2>3 DEF D, g
<1>5. ASSUME NEW k \in 0 .. m - 1, k \in S PROVE k + 1 \in S
  <2>1. k + 1 \in 1 .. m /\ k + 1 \in 0 .. m /\ k \in 0 .. m /\ (k + 1) - 1 = k /\ k \in Int
    BY <1>1
  <2>2. acc[k + 1] = Plus(acc[k], vs[k + 1]) /\ acc[k] \in Vectors(n) /\ vs[k + 1] \in Vectors(n)
    BY <1>1, <1>2, <2>1
  <2>3. Total(acc[k + 1], 1 .. n) = Total(acc[k], 1 .. n) + Total(vs[k + 1], 1 .. n)
    BY <2>2, TotalPlus
  <2>4. Total(acc[k], 1 .. n) = k * c /\ Total(vs[k + 1], 1 .. n) = c
    BY <1>3, <1>5, <2>1
  <2>5. (k + 1) * c = k * c + 1 * c /\ 1 * c = c
    BY <2>1, Products
  <2>6. QED
    BY <2>1, <2>3, <2>4, <2>5
<1>6. m \in S
  <2> HIDE DEF S
  <2>1. \A k \in 0 .. m : k \in S
    BY <1>1, <1>4, <1>5, UpTo
  <2>2. QED
    BY <1>1, <2>1
<1>7. QED
  BY <1>2, <1>6 DEF m

(* The marginals of a list of orderings. *)
LEMMA MarginalsListed ==
    ASSUME NEW n \in Nat, NEW v, Game(v, n), NEW m \in Nat, NEW os \in [1 .. m -> Orderings(n)]
    PROVE  LET vs == [k \in 1 .. m |-> marginals(v, os[k])]
           IN  vs \in Seq(Vectors(n)) /\ Len(vs) = m
<1> DEFINE vs == [k \in 1 .. m |-> marginals(v, os[k])]
<1>1. \A k \in 1 .. m : marginals(v, os[k]) \in Vectors(n)
  BY MarginalsFacts
<1>2. vs \in [1 .. m -> Vectors(n)]
  BY <1>1
<1> HIDE DEF vs
<1>3. vs \in Seq(Vectors(n)) /\ Len(vs) = m
  BY <1>2
<1>4. QED
  BY <1>3 DEF vs

(* The sums over all draws are those over all orderings. *)
LEMMA DrawnSums ==
    ASSUME NEW n \in Nat, NEW v, Game(v, n)
    PROVE  shapley(n, v, SetToSeq(Draws(n))) = shapley_exact(n, v)
<1> DEFINE ds == SetToSeq(Draws(n))
           D == 1 .. Len(ds)
           os == permutations(n)
           O == 1 .. Len(os)
           drawn == [k \in D |-> ordering(n, ds[k])]
           ws == [k \in D |-> marginals(v, drawn[k])]
           vs == [k \in O |-> marginals(v, os[k])]
           f == [k \in D |-> CHOOSE j \in O : os[j] = drawn[k]]
<1>1. /\ ds \in Seq(Draws(n)) /\ Len(ds) \in Nat /\ DOMAIN ds = D
      /\ \A k, l \in D : ds[k] = ds[l] => k = l
      /\ \A d \in Draws(n) : \E k \in D : ds[k] = d
  BY DrawsFinite, SetToSeqFacts
<1>2. /\ os \in Seq(Orderings(n)) /\ IsInjective(os) /\ ToSet(os) = Orderings(n)
      /\ Len(os) \in Nat /\ DOMAIN os = O
  BY PermutationsFacts
<1> HIDE DEF ds, os
<1>3. \A k \in D : ds[k] \in Draws(n) /\ drawn[k] = ordering(n, ds[k]) /\ drawn[k] \in Orderings(n)
  BY <1>1, OrderingIn
<1>4. drawn \in [D -> Orderings(n)] /\ os \in [O -> Orderings(n)]
  BY <1>2, <1>3
<1>5. ws \in Seq(Vectors(n)) /\ Len(ws) = Len(ds) /\ \A k \in D : ws[k] = marginals(v, drawn[k])
  <2> HIDE DEF drawn
  <2>1. \A k \in D : ws[k] = marginals(v, drawn[k])
    OBVIOUS
  <2>2. QED
    BY <1>1, <1>4, <2>1, MarginalsListed
<1>6. vs \in Seq(Vectors(n)) /\ Len(vs) = Len(os) /\ \A k \in O : vs[k] = marginals(v, os[k])
  <2>1. \A k \in O : vs[k] = marginals(v, os[k])
    OBVIOUS
  <2> DEFINE m == Len(os)
  <2>2. m \in Nat /\ os \in [1 .. m -> Orderings(n)] /\ vs = [k \in 1 .. m |-> marginals(v, os[k])]
    BY <1>2, <1>4
  <2> HIDE DEF m, vs, O
  <2>3. vs \in Seq(Vectors(n)) /\ Len(vs) = m
    BY <2>2, MarginalsListed
  <2>4. QED
    BY <2>1, <2>3 DEF m
<1>7. shapley(n, v, ds) = Summed(n, ws)
  <2>1. ws = [k \in DOMAIN ds |-> marginals(v, ordering(n, ds[k]))]
    BY <1>1, <1>3
  <2>2. QED
    BY <2>1 DEF shapley
<1>8. shapley_exact(n, v) = Summed(n, vs)
  BY <1>2 DEF shapley_exact, os
<1> HIDE DEF drawn, vs, ws
<1>9. ASSUME NEW k \in D PROVE f[k] \in O /\ os[f[k]] = drawn[k]
  <2>1. \E j \in O : os[j] = drawn[k]
    BY <1>2, <1>3 DEF ToSet
  <2>2. QED
    BY <2>1
<1> HIDE DEF f
<1>10. f \in Bijection(D, O)
  <2>1. f \in [D -> O]
    BY <1>9 DEF f
  <2>2. ASSUME NEW k \in D, NEW l \in D, f[k] = f[l] PROVE k = l
    <3>1. ordering(n, ds[k]) = ordering(n, ds[l])
      BY <1>3, <1>9, <2>2
    <3>2. ds[k] = ds[l]
      BY <1>3, <3>1, OrderingOnce
    <3>3. QED
      BY <1>1, <3>2
  <2>3. ASSUME NEW j \in O PROVE \E k \in D : f[k] = j
    <3>1. PICK d \in Draws(n) : ordering(n, d) = os[j]
      BY <1>4, OrderingOnto
    <3>2. PICK k \in D : ds[k] = d
      BY <1>1
    <3>3. os[f[k]] = os[j] /\ f[k] \in O
      BY <1>3, <1>9, <3>1, <3>2
    <3>4. f[k] = j
      BY <1>2, <3>3 DEF IsInjective
    <3>5. QED
      BY <3>4
  <2>4. QED
    BY <2>1, <2>2, <2>3 DEF Bijection, Injection, Surjection, IsInjective
<1>11. \A k \in D : ws[k] = vs[f[k]]
  BY <1>5, <1>6, <1>9
<1>12. Summed(n, ws) = Summed(n, vs)
  BY <1>5, <1>6, <1>10, <1>11, SummedMoved
<1>13. QED
  BY <1>7, <1>8, <1>12 DEF ds

(* The lottery is unbiased, for any number of contributors and any values  *)
(* of the coalitions.                                                      *)
LEMMA UnbiasedFacts ==
    ASSUME NEW n \in Nat \ {0}, NEW v, Game(v, n)
    PROVE  LotteryUnbiased(n, v)
<1> DEFINE os == permutations(n)
           m == Len(os)
           vs == [k \in 1 .. m |-> marginals(v, os[k])]
           exact == shapley_exact(n, v)
<1>1. os \in Seq(Orderings(n)) /\ m \in Nat /\ DOMAIN os = 1 .. m /\ os \in [1 .. m -> Orderings(n)]
  <2>1. os \in Seq(Orderings(n))
    BY PermutationsFacts
  <2> HIDE DEF os
  <2>2. QED
    BY <2>1
<1>2. exact = Summed(n, vs)
  BY <1>1 DEF shapley_exact
<1> HIDE DEF os, m
<1>3. vs \in Seq(Vectors(n)) /\ Len(vs) = m /\ \A k \in 1 .. m : vs[k] = marginals(v, os[k])
  <2>1. \A k \in 1 .. m : vs[k] = marginals(v, os[k])
    OBVIOUS
  <2>2. QED
    BY <1>1, <2>1, MarginalsListed
<1> HIDE DEF vs
<1>4. Total(exact, 1 .. n) = m * v[1 .. n]
  <2>1. v[1 .. n] \in Int
    <3>1. 1 .. n \in (SUBSET (1 .. n)) \ {{}}
      <4>1. 1 \in 1 .. n
        OBVIOUS
      <4>2. QED
        BY <4>1
    <3>2. QED
      BY <3>1 DEF Game
  <2>2. \A k \in 1 .. m : Total(vs[k], 1 .. n) = v[1 .. n]
    BY <1>1, <1>3, MarginalsDivide
  <2> DEFINE c == v[1 .. n]
  <2>3. c \in Int /\ \A k \in 1 .. Len(vs) : Total(vs[k], 1 .. n) = c
    BY <1>3, <2>1, <2>2
  <2> HIDE DEF c
  <2>4. Total(Summed(n, vs), 1 .. n) = Len(vs) * c
    BY <1>3, <2>3, SummedDivide
  <2>5. QED
    BY <1>2, <1>3, <2>4 DEF c
<1>5. ASSUME NEW i \in 1 .. n, AddsNothing(v, n, i)
      PROVE  exact[i] = 0
  <2> DEFINE g == Column(vs, i)
             D == 1 .. m
  <2>1. g \in [D -> Int] /\ exact[i] = Total(g, D)
    BY <1>2, <1>3, SummedFacts
  <2>2. ASSUME NEW k \in D PROVE g[k] = 0
    <3> DEFINE a == os[k]
    <3>1. a \in Orderings(n)
      BY <1>1
    <3> HIDE DEF a
    <3>2. marginals(v, a)[i] = 0
      BY <1>5, <3>1, MarginalsNull
    <3>3. QED
      BY <1>3, <3>2 DEF Column, a
  <2>3. IsFiniteSet(D)
    BY <1>1, Numbers
  <2> HIDE DEF g, D
  <2>4. Total(g, D) = 0
    BY <2>1, <2>2, <2>3, TotalZeros
  <2>5. QED
    BY <2>1, <2>4
<1>6. shapley(n, v, SetToSeq(Draws(n))) = exact
  BY DrawnSums
<1> HIDE DEF exact
<1>7. QED
  BY <1>4, <1>5, <1>6 DEF LotteryUnbiased, AddsNothing, exact, m, os

(* The ticket that the lottery gives for a nonce. *)
TicketOf(v, n, draws, w) ==
    [nonce |-> w, marginals |-> marginals(v, ordering(n, draws[w])),
     commitment |-> marginals(v, ordering(n, draws[w]))]

(* What beacon and nonce give are draws, the winning nonces are some of    *)
(* them, and the vectors of the lottery are among those published.         *)
Lottery(v, n, draws, winning, Vecs) ==
    /\ Game(v, n) /\ \A w \in DOMAIN draws : draws[w] \in Draws(n)
    /\ winning \subseteq DOMAIN draws /\ IsFiniteSet(winning)
    /\ \A w \in winning : marginals(v, ordering(n, draws[w])) \in Vecs

(* What can be published, and what of it is certified. *)
Offered(draws, Vecs) == [nonce : DOMAIN draws, marginals : Vecs, commitment : Vecs]

Certified(v, n, draws, winning, Vecs) ==
    {t \in Offered(draws, Vecs) :
       verify_certified_ticket(v, n, draws, winning, Certificate(n, draws, t))}

(* A ticket replays, is certified and verifies exactly when it is the one  *)
(* of the lottery.                                                         *)
LEMMA TicketFacts ==
    ASSUME NEW n \in Nat \ {0}, NEW v, NEW draws, NEW winning, NEW Vecs,
           Lottery(v, n, draws, winning, Vecs), NEW t \in Offered(draws, Vecs)
    PROVE  /\ t.nonce \in winning =>
                 (replay_marginals(v, n, draws, t) <=> t = TicketOf(v, n, draws, t.nonce))
           /\ certify_ticket(v, n, draws, t) # <<>> <=> replay_marginals(v, n, draws, t)
           /\ verify_certified_ticket(v, n, draws, winning, Certificate(n, draws, t))
                <=> t.nonce \in winning /\ replay_marginals(v, n, draws, t)
<1> DEFINE m == marginals(v, ordering(n, draws[t.nonce]))
<1>1. t = [nonce |-> t.nonce, marginals |-> t.marginals, commitment |-> t.commitment]
      /\ t.nonce \in DOMAIN draws
  BY DEF Offered
<1>2. m \in Vectors(n)
  <2>1. draws[t.nonce] \in Draws(n) /\ Game(v, n)
    BY <1>1 DEF Lottery
  <2>2. ordering(n, draws[t.nonce]) \in Orderings(n)
    BY <2>1, OrderingIn
  <2>3. QED
    BY <2>1, <2>2, MarginalsFacts
<1>3. Len(m) = n
  <2> HIDE DEF m
  <2> QED BY <1>2 DEF Vectors
<1>4. replay_marginals(v, n, draws, t) <=> Len(t.marginals) = n /\ m = t.commitment /\ m = t.marginals
  BY DEF replay_marginals
<1>5. TicketOf(v, n, draws, t.nonce) = [nonce |-> t.nonce, marginals |-> m, commitment |-> m]
  BY DEF TicketOf
<1> HIDE DEF m
<1>6. replay_marginals(v, n, draws, t) <=> t = TicketOf(v, n, draws, t.nonce)
  <2>1. ASSUME t = TicketOf(v, n, draws, t.nonce) PROVE t.marginals = m /\ t.commitment = m
    <3> DEFINE u == [nonce |-> t.nonce, marginals |-> m, commitment |-> m]
    <3>1. u.marginals = m /\ u.commitment = m
      OBVIOUS
    <3>2. t = u
      BY <1>5, <2>1
    <3> HIDE DEF u
    <3>3. QED
      BY <3>1, <3>2
  <2>2. QED
    BY <1>1, <1>3, <1>4, <1>5, <2>1
<1>7. certify_ticket(v, n, draws, t) # <<>> <=> replay_marginals(v, n, draws, t)
  <2>1. <<Certificate(n, draws, t)>> # <<>>
    BY SingleNotEmpty
  <2>2. QED
    BY <2>1 DEF certify_ticket
<1>8. verify_certified_ticket(v, n, draws, winning, Certificate(n, draws, t))
        <=> t.nonce \in winning /\ replay_marginals(v, n, draws, t)
  <2> DEFINE c == Certificate(n, draws, t)
  <2>1. c.ticket = t /\ c.order = ordering(n, draws[t.nonce]) /\ c.seal = <<t>>
    BY DEF Certificate
  <2>2. <<t>> # <<>>
    BY SingleNotEmpty
  <2> HIDE DEF c
  <2>3. verify_certified_ticket(v, n, draws, winning, c)
          <=> t.nonce \in winning /\ replay_marginals(v, n, draws, t)
    BY <2>1, <2>2, Zenon DEF verify_certified_ticket
  <2>4. QED
    BY <2>3 DEF c
<1>9. QED
  BY <1>6, <1>7, <1>8

(* The certified tickets correspond to the winning nonces. *)
LEMMA CertifiedOnce ==
    ASSUME NEW n \in Nat \ {0}, NEW v, NEW draws, NEW winning, NEW Vecs,
           Lottery(v, n, draws, winning, Vecs)
    PROVE  /\ IsFiniteSet(Certified(v, n, draws, winning, Vecs))
           /\ \A t \in Certified(v, n, draws, winning, Vecs) :
                 /\ t.nonce \in winning /\ t = TicketOf(v, n, draws, t.nonce)
                 /\ t.marginals = marginals(v, ordering(n, draws[t.nonce]))
           /\ \A w \in winning : \E t \in Certified(v, n, draws, winning, Vecs) : t.nonce = w
<1> DEFINE C == Certified(v, n, draws, winning, Vecs)
           O == Offered(draws, Vecs)
<1>1. ASSUME NEW t \in C PROVE t \in O /\ t.nonce \in winning /\ t = TicketOf(v, n, draws, t.nonce)
  <2>1. t \in O /\ verify_certified_ticket(v, n, draws, winning, Certificate(n, draws, t))
    BY DEF Certified
  <2> HIDE DEF O
  <2>2. QED
    BY <2>1, TicketFacts DEF O
<1>2. ASSUME NEW w \in winning PROVE TicketOf(v, n, draws, w) \in C /\ TicketOf(v, n, draws, w).nonce = w
  <2> DEFINE t == TicketOf(v, n, draws, w)
             m == marginals(v, ordering(n, draws[w]))
  <2>1. m \in Vecs /\ w \in DOMAIN draws
    BY DEF Lottery
  <2>2. t = [nonce |-> w, marginals |-> m, commitment |-> m]
    BY DEF TicketOf
  <2> HIDE DEF m, t
  <2>3. t \in Offered(draws, Vecs) /\ t.nonce = w
    BY <2>1, <2>2 DEF Offered
  <2>4. t = TicketOf(v, n, draws, t.nonce)
    BY <2>3 DEF t
  <2>5. verify_certified_ticket(v, n, draws, winning, Certificate(n, draws, t))
    BY <2>3, <2>4, TicketFacts
  <2>6. t \in C
    BY <2>3, <2>5 DEF Certified
  <2>7. QED
    BY <2>3, <2>6 DEF t
<1>3. IsFiniteSet(C)
  <2> DEFINE F == [w \in winning |-> TicketOf(v, n, draws, w)]
  <2> HIDE DEF C
  <2>1. F \in [winning -> C] /\ \A t \in C : \E w \in winning : F[w] = t
    BY <1>1, <1>2
  <2> HIDE DEF F
  <2>2. F \in Surjection(winning, C)
    BY <2>1 DEF Surjection
  <2>3. IsFiniteSet(winning)
    BY DEF Lottery
  <2>4. QED
    BY <2>2, <2>3, FS_Surjection
<1>4. ASSUME NEW t \in C PROVE t.marginals = marginals(v, ordering(n, draws[t.nonce]))
  <2> DEFINE u == TicketOf(v, n, draws, t.nonce)
  <2>1. u.marginals = marginals(v, ordering(n, draws[t.nonce]))
    BY DEF TicketOf
  <2>2. t = u
    BY <1>1
  <2> HIDE DEF u
  <2>3. QED
    BY <2>1, <2>2
<1> HIDE DEF C
<1>5. QED
  BY <1>1, <1>2, <1>3, <1>4 DEF C

(* The certified tickets sum to what the lottery gives for the winning     *)
(* nonces, and can be sealed.                                              *)
LEMMA CertifiedFacts ==
    ASSUME NEW n \in Nat \ {0}, NEW v, NEW draws, NEW winning, NEW Vecs,
           Lottery(v, n, draws, winning, Vecs)
    PROVE  CertifiedIsLottery(v, n, draws, winning, Vecs)
<1> DEFINE C == Certified(v, n, draws, winning, Vecs)
           batch == SetToSeq(C)
           ws == SetToSeq(winning)
           p == Cardinality(C)
           q == Cardinality(winning)
           M(w) == marginals(v, ordering(n, draws[w]))
           bs == [k \in DOMAIN batch |-> batch[k].marginals]
           dr == [i \in 1 .. q |-> draws[ws[i]]]
           cs == [k \in DOMAIN dr |-> marginals(v, ordering(n, dr[k]))]
           f == [k \in 1 .. p |-> CHOOSE j \in 1 .. q : ws[j] = batch[k].nonce]
<1>1. /\ IsFiniteSet(C)
      /\ \A t \in C : t.nonce \in winning /\ t = TicketOf(v, n, draws, t.nonce) /\ t.marginals = M(t.nonce)
      /\ \A w \in winning : \E t \in C : t.nonce = w
  BY CertifiedOnce
<1>2. \A w \in winning : M(w) \in Vectors(n)
  <2> SUFFICES ASSUME NEW w \in winning PROVE M(w) \in Vectors(n)
    OBVIOUS
  <2>1. draws[w] \in Draws(n) /\ Game(v, n)
    BY DEF Lottery
  <2>2. ordering(n, draws[w]) \in Orderings(n)
    BY <2>1, OrderingIn
  <2>3. QED
    BY <2>1, <2>2, MarginalsFacts
<1>3. /\ p \in Nat /\ DOMAIN batch = 1 .. p /\ batch \in Seq(C) /\ Len(batch) = p
      /\ \A k, l \in 1 .. p : batch[k] = batch[l] => k = l
      /\ \A t \in C : \E k \in 1 .. p : batch[k] = t
  <2> HIDE DEF C
  <2> QED BY <1>1, SetToSeqFacts
<1>4. /\ q \in Nat /\ ws \in Seq(winning) /\ Len(ws) = q
      /\ \A k, l \in 1 .. q : ws[k] = ws[l] => k = l
      /\ \A w \in winning : \E k \in 1 .. q : ws[k] = w
  <2>1. IsFiniteSet(winning)
    BY DEF Lottery
  <2>2. QED
    BY <2>1, SetToSeqFacts
<1> HIDE DEF C, batch, ws, p, q, M
<1>5. (\A k \in 1 .. p : batch[k] \in C) /\ (\A k \in 1 .. q : ws[k] \in winning)
  BY <1>3, <1>4
<1>6. bs \in Seq(Vectors(n)) /\ Len(bs) = p /\ \A k \in 1 .. p : bs[k] = M(batch[k].nonce)
  <2>1. \A k \in 1 .. p : batch[k].marginals = M(batch[k].nonce) /\ M(batch[k].nonce) \in Vectors(n)
    BY <1>1, <1>2, <1>5
  <2>2. bs \in [1 .. p -> Vectors(n)] /\ \A k \in 1 .. p : bs[k] = M(batch[k].nonce)
    BY <1>3, <2>1
  <2> HIDE DEF bs
  <2>3. QED
    BY <1>3, <2>2
<1>7. cs \in Seq(Vectors(n)) /\ Len(cs) = q /\ \A k \in 1 .. q : cs[k] = M(ws[k])
  <2>1. DOMAIN dr = 1 .. q /\ \A k \in 1 .. q : dr[k] = draws[ws[k]]
    OBVIOUS
  <2> HIDE DEF dr
  <2>2. \A k \in 1 .. q : cs[k] = M(ws[k]) /\ M(ws[k]) \in Vectors(n)
    BY <1>2, <1>5, <2>1 DEF M
  <2>3. cs \in [1 .. q -> Vectors(n)]
    BY <2>1, <2>2
  <2> HIDE DEF cs
  <2>4. QED
    BY <1>4, <2>2, <2>3
<1>8. ASSUME NEW k \in 1 .. p PROVE f[k] \in 1 .. q /\ ws[f[k]] = batch[k].nonce
  <2>1. \E j \in 1 .. q : ws[j] = batch[k].nonce
    BY <1>1, <1>4, <1>5
  <2>2. QED
    BY <2>1
<1> HIDE DEF bs, cs
<1>9. f \in Bijection(1 .. Len(bs), 1 .. Len(cs))
  <2>1. f \in [1 .. p -> 1 .. q]
    BY <1>8
  <2> HIDE DEF f
  <2>2. ASSUME NEW k \in 1 .. p, NEW l \in 1 .. p, f[k] = f[l] PROVE k = l
    <3>1. batch[k].nonce = batch[l].nonce
      BY <1>8, <2>2
    <3>2. batch[k] = batch[l]
      BY <1>1, <1>5, <3>1
    <3>3. QED
      BY <1>3, <3>2
  <2>3. ASSUME NEW j \in 1 .. q PROVE \E k \in 1 .. p : f[k] = j
    <3>1. PICK t \in C : t.nonce = ws[j]
      BY <1>1, <1>5
    <3>2. PICK k \in 1 .. p : batch[k] = t
      BY <1>3
    <3>3. f[k] = j
      BY <1>4, <1>8, <3>1, <3>2
    <3>4. QED
      BY <3>3
  <2>4. QED
    BY <1>6, <1>7, <2>1, <2>2, <2>3 DEF Bijection, Injection, Surjection, IsInjective
<1>10. \A k \in 1 .. Len(bs) : bs[k] = cs[f[k]]
  BY <1>6, <1>7, <1>8
<1>11. Summed(n, bs) = shapley(n, v, dr)
  <2>1. Summed(n, bs) = Summed(n, cs)
    <3> HIDE DEF f
    <3> QED BY <1>6, <1>7, <1>9, <1>10, SummedMoved
  <2>2. shapley(n, v, dr) = Summed(n, cs)
    BY DEF shapley, cs
  <2>3. QED
    BY <2>1, <2>2
<1> HIDE DEF f, dr
<1>12. C # {} => prove_replayed_batch(v, n, draws, batch)
  <2> SUFFICES ASSUME C # {} PROVE prove_replayed_batch(v, n, draws, batch)
    OBVIOUS
  <2>1. batch # <<>>
    <3>1. PICK k \in 1 .. p : TRUE
      BY <1>3
    <3>2. Len(batch) # 0
      BY <1>3
    <3>3. QED
      BY <3>2
  <2>2. \A k \in DOMAIN batch : replay_marginals(v, n, draws, batch[k])
    <3> SUFFICES ASSUME NEW t \in C PROVE replay_marginals(v, n, draws, t)
      BY <1>3, <1>5
    <3>1. t \in Offered(draws, Vecs)
      BY DEF C, Certified
    <3>2. QED
      BY <1>1, <3>1, TicketFacts
  <2>3. QED
    BY <2>1, <2>2 DEF prove_replayed_batch
<1>13. C = {t \in Offered(draws, Vecs) : t.nonce \in winning /\ certify_ticket(v, n, draws, t) # <<>>}
  <2>1. \A t \in Offered(draws, Vecs) :
           verify_certified_ticket(v, n, draws, winning, Certificate(n, draws, t))
             <=> t.nonce \in winning /\ certify_ticket(v, n, draws, t) # <<>>
    BY TicketFacts
  <2>2. QED
    BY <2>1, Zenon DEF C, Certified
<1>14. QED
  BY <1>11, <1>12, <1>13, Zenon DEF CertifiedIsLottery, bs, dr, ws, q, batch, C, Certified, Offered

(***************************************************************************)
(* The inductive invariant: the values of coalitions are numbers.          *)
(***************************************************************************)
ValuesOK == kind = "coalitions" => input \in Seq(Nat)

(* The list of values starts empty. *)
LEMMA ValuesOKInit == Init => ValuesOK
  BY DEF Init, ValuesOK

(* Only AddValue takes the list of values. *)
LEMMA OnlyAddValue ==
    ASSUME Next, kind' = "coalitions"
    PROVE  kind = "coalitions" /\ \E x \in 0 .. MaxValue : AddValue(x)
  BY DEF Next, AddWeight, AddClaim, AddValue, AddLeaf, AddAnswer, AddShard, AddItem, AddFrame,
         AddMessage, AddContent, AddFocus, FoldsBlock, Follows, JoinsMesh, Subscribes, TakesSome,
         Publishes, Exports, Joins, Applies, Audits, Issues, TakesPlace, TipStep,
         MeshStep, Absorbs, Folds, FoldStep, Grows

(* Every step keeps them numbers. *)
LEMMA ValuesOKStep ==
    ASSUME ValuesOK, [Next]_vars
    PROVE  ValuesOK'
<1>1. CASE UNCHANGED vars
  BY <1>1 DEF vars, ValuesOK
<1>2. CASE Next
  <2> SUFFICES ASSUME kind' = "coalitions" PROVE input' \in Seq(Nat)
    BY DEF ValuesOK
  <2>1. PICK x \in 0 .. MaxValue : AddValue(x)
    BY <1>2, OnlyAddValue
  <2>2. x \in Nat /\ input \in Seq(Nat)
    BY <1>2, OnlyAddValue, AlgorithmsAssumption DEF ValuesOK
  <2>3. QED
    BY <2>1, <2>2 DEF AddValue
<1>3. QED
  BY <1>1, <1>2

(* A whole list gives every coalition a value. *)
LEMMA ValuesGame ==
    ASSUME input \in Seq(Nat), Len(input) = Len(Coalitions), NEW n \in 1 .. 3
    PROVE  Game(Values, n)
<1> DEFINE U == (SUBSET (1 .. 3)) \ {{}}
           q == Cardinality(U)
<1>1. IsFiniteSet(U)
  <2>1. IsFiniteSet(1 .. 3)
    BY Numbers
  <2>2. IsFiniteSet(SUBSET (1 .. 3))
    BY <2>1, FS_SUBSET
  <2>3. QED
    BY <2>2, FS_Subset
<1>2. Coalitions = SetToSeq(U)
  BY DEF Coalitions
<1>3. Values = [S \in U |-> input[CHOOSE i \in DOMAIN Coalitions : Coalitions[i] = S]]
  BY DEF Values
<1>4. \A S \in (SUBSET (1 .. n)) \ {{}} : S \in U
  <2>1. 1 .. n \subseteq 1 .. 3
    OBVIOUS
  <2>2. QED
    BY <2>1
<1> HIDE DEF U
<1>5. /\ q \in Nat /\ Len(Coalitions) = q /\ DOMAIN Coalitions = 1 .. q
      /\ \A x \in U : \E k \in 1 .. q : Coalitions[k] = x
  BY <1>1, <1>2, SetToSeqFacts
<1> HIDE DEF q
<1>6. ASSUME NEW S \in U PROVE Values[S] \in Int
  <2> DEFINE i == CHOOSE i \in DOMAIN Coalitions : Coalitions[i] = S
  <2>1. i \in 1 .. q
    BY <1>5
  <2>2. Values[S] = input[i]
    BY <1>3
  <2> HIDE DEF i
  <2>3. input[i] \in Nat
    BY <1>5, <2>1
  <2>4. QED
    BY <2>2, <2>3
<1>7. QED
  BY <1>4, <1>6 DEF Game

(* The draws of two contributors give one of their two orderings. *)
LEMMA TwoOrderings ==
    /\ \A k \in 1 .. 3 : [i \in {2} |-> k % 2] \in Draws(2)
    /\ Orderings(2) = {<<1, 2>>, <<2, 1>>}
<1>1. 2 .. 2 = {2} /\ 0 .. 2 - 1 = 0 .. 1 /\ 1 .. 2 = {1, 2}
  OBVIOUS
<1>2. \A k \in 1 .. 3 : k % 2 \in 0 .. 1 /\ k % 2 < 2
  OBVIOUS
<1>3. \A k \in 1 .. 3 : [i \in {2} |-> k % 2] \in Draws(2)
  BY <1>1, <1>2 DEF Draws
<1>4. ASSUME NEW a \in Orderings(2) PROVE a \in {<<1, 2>>, <<2, 1>>}
  <2>1. a \in [1 .. 2 -> 1 .. 2] /\ a[1] # a[2] /\ a[1] \in {1, 2} /\ a[2] \in {1, 2}
    BY <1>1 DEF Orderings
  <2>2. a = <<a[1], a[2]>>
    BY <1>1, <2>1
  <2>3. (a[1] = 1 /\ a[2] = 2) \/ (a[1] = 2 /\ a[2] = 1)
    BY <2>1
  <2>4. QED
    BY <2>2, <2>3
<1>5. <<1, 2>> \in Orderings(2) /\ <<2, 1>> \in Orderings(2)
  BY <1>1 DEF Orderings
<1>6. QED
  BY <1>3, <1>4, <1>5

(* A state with such values has a fair lottery. *)
LEMMA ValuesFair == ValuesOK => LotteryFair
<1> SUFFICES ASSUME ValuesOK, kind = "coalitions", Len(input) = Len(Coalitions)
             PROVE  LET draws == [k \in 1 .. 3 |-> [i \in {2} |-> k % 2]]
                        vectors == {marginals(Values, o) : o \in {<<1, 2>>, <<2, 1>>}} \cup {<<0, 1>>}
                    IN  /\ \A n \in 1 .. 3 : LotteryUnbiased(n, Values)
                        /\ CertifiedIsLottery(Values, 2, draws, {1, 2}, vectors)
  BY DEF LotteryFair
<1> DEFINE draws == [k \in 1 .. 3 |-> [i \in {2} |-> k % 2]]
           vectors == {marginals(Values, o) : o \in {<<1, 2>>, <<2, 1>>}} \cup {<<0, 1>>}
<1>1. \A n \in 1 .. 3 : Game(Values, n) /\ n \in Nat \ {0}
  BY ValuesGame DEF ValuesOK
<1>2. \A n \in 1 .. 3 : LotteryUnbiased(n, Values)
  BY <1>1, UnbiasedFacts
<1>3. Lottery(Values, 2, draws, {1, 2}, vectors)
  <2>1. \A w \in DOMAIN draws : draws[w] \in Draws(2)
    BY TwoOrderings
  <2>2. {1, 2} \subseteq DOMAIN draws
    OBVIOUS
  <2>3. IsFiniteSet({1, 2})
    <3>1. 1 .. 2 = {1, 2}
      OBVIOUS
    <3>2. IsFiniteSet(1 .. 2)
      BY Numbers
    <3>3. QED
      BY <3>1, <3>2
  <2> HIDE DEF draws
  <2>4. ASSUME NEW w \in {1, 2} PROVE marginals(Values, ordering(2, draws[w])) \in vectors
    <3>1. ordering(2, draws[w]) \in Orderings(2)
      BY <2>1, <2>2, OrderingIn
    <3>2. QED
      BY <3>1, TwoOrderings
  <2>5. Game(Values, 2)
    BY <1>1
  <2> HIDE DEF vectors
  <2>6. QED
    BY <2>1, <2>2, <2>3, <2>4, <2>5 DEF Lottery
<1> HIDE DEF draws, vectors
<1>4. CertifiedIsLottery(Values, 2, draws, {1, 2}, vectors)
  BY <1>3, CertifiedFacts
<1>5. QED
  BY <1>2, <1>4 DEF draws, vectors

(* The lottery of settlement.rs gives over all draws what shapley_exact    *)
(* gives over all orderings, divides the whole value and nothing to who    *)
(* adds nothing, whatever the coalitions are worth; and of the vectors     *)
(* published for the nonces exactly those of the winning ones are          *)
(* certified and sealed.                                                   *)
THEOREM LotteryFairHolds == Spec => []LotteryFair
<1>1. Init => ValuesOK
  BY ValuesOKInit
<1>2. ValuesOK /\ [Next]_vars => ValuesOK'
  BY ValuesOKStep
<1>3. ValuesOK => LotteryFair
  BY ValuesFair
<1>4. QED
  BY <1>1, <1>2, <1>3, PTL DEF Spec

(***************************************************************************)
(* The accumulators of a cluster: any finite sets of miners and nonces,    *)
(* any win-test and any number of accumulators.                            *)
(***************************************************************************)

(* An accumulator over vectors of length Len0 whose k is the number of     *)
(* pairs it has seen.                                                      *)
Tidy(a) == a \in ClusterAcc /\ a.dim = Len0 /\ a.k = Cardinality(a.seen)

(* The inductive invariant of the accumulators. *)
TidyInv ==
    kind = "fold" => input = [s \in Slot |-> input[s]] /\ \A s \in Slot : Tidy(input[s])

(* A set of samples is finite: miners and nonces are. *)
LEMMA SeenFinite ==
  ASSUME NEW S \in SUBSET Sample
  PROVE  IsFiniteSet(S) /\ Cardinality(S) \in Nat
<1>1. IsFiniteSet(Sample)
  BY TicketsAssumption, FS_Product DEF Sample
<1> QED
  BY <1>1, FS_Subset, FS_CardinalityType

(* absorb_ticket keeps k the number of pairs seen. *)
LEMMA AbsorbTidy ==
  ASSUME NEW a, Tidy(a), NEW x \in Sample
  PROVE  Tidy(absorb_ticket(a, x, Len0))
<1>1. CASE x \in a.seen
  BY <1>1 DEF absorb_ticket
<1>2. CASE x \notin a.seen
  <2>1. a.seen \in SUBSET Sample /\ a.k \in Nat /\ a.cnt \in [Sample -> Nat] /\ a.dim = Len0
    BY DEF Tidy, ClusterAcc
  <2>2. Cardinality(a.seen \cup {x}) = a.k + 1
    BY <1>2, <2>1, SeenFinite, FS_AddElement DEF Tidy
  <2>3. [a.cnt EXCEPT ![x] = @ + 1] \in [Sample -> Nat]
    BY <2>1
  <2>4. absorb_ticket(a, x, Len0)
          = [cnt |-> [a.cnt EXCEPT ![x] = @ + 1], k |-> a.k + 1,
             seen |-> a.seen \cup {x}, dim |-> Len0]
    BY <1>2, <2>1 DEF absorb_ticket
  <2> QED
    BY <2>1, <2>2, <2>3, <2>4, AlgorithmsAssumption DEF Tidy, ClusterAcc
<1> QED
  BY <1>1, <1>2

(* fold_acc of tidy accumulators: sums are added, pairs united, and k is   *)
(* the number of united pairs whether or not the sides overlap.            *)
LEMMA FoldTidy ==
  ASSUME NEW l, NEW r, Tidy(l), Tidy(r)
  PROVE  /\ fold_acc(l, r)
              = [cnt |-> [x \in Sample |-> l.cnt[x] + r.cnt[x]],
                 k |-> Cardinality(l.seen \cup r.seen),
                 seen |-> l.seen \cup r.seen, dim |-> Len0]
         /\ Tidy(fold_acc(l, r))
<1>1. /\ l.seen \in SUBSET Sample /\ r.seen \in SUBSET Sample
      /\ l.cnt \in [Sample -> Nat] /\ r.cnt \in [Sample -> Nat]
      /\ l.dim = Len0 /\ r.dim = Len0
      /\ l.k = Cardinality(l.seen) /\ r.k = Cardinality(r.seen)
      /\ l.k \in Nat /\ r.k \in Nat
  BY DEF Tidy, ClusterAcc
<1>2. ~ Overlap2(l, r) => l.k + r.k = Cardinality(l.seen \cup r.seen)
  <2>1. Cardinality(l.seen \cup r.seen)
          = Cardinality(l.seen) + Cardinality(r.seen) - Cardinality(l.seen \cap r.seen)
    BY <1>1, SeenFinite, FS_Union
  <2>2. ~ Overlap2(l, r) => Cardinality(l.seen \cap r.seen) = 0
    BY FS_EmptySet DEF Overlap2
  <2>3. l.k + r.k \in Nat
    BY <1>1
  <2> QED
    BY <1>1, <2>1, <2>2, <2>3
<1>3. fold_acc(l, r)
        = [cnt |-> [x \in Sample |-> l.cnt[x] + r.cnt[x]],
           k |-> Cardinality(l.seen \cup r.seen),
           seen |-> l.seen \cup r.seen, dim |-> Len0]
  BY <1>1, <1>2 DEF fold_acc
<1>4. l.seen \cup r.seen \in SUBSET Sample /\ Cardinality(l.seen \cup r.seen) \in Nat
  BY <1>1, SeenFinite
<1>5. [x \in Sample |-> l.cnt[x] + r.cnt[x]] \in [Sample -> Nat]
  BY <1>1
<1> QED
  BY <1>3, <1>4, <1>5, AlgorithmsAssumption DEF Tidy, ClusterAcc

(* Initially every accumulator is tidy. *)
LEMMA EmptyTidy == Tidy(empty(Len0)) /\ CountsOnce(empty(Len0))
<1>1. empty(Len0) = [cnt |-> [x \in Sample |-> 0], k |-> 0, seen |-> {}, dim |-> Len0]
  BY DEF empty
<1> QED
  BY <1>1, AlgorithmsAssumption, FS_EmptySet DEF Tidy, CountsOnce, ClusterAcc

(* Only the two actions of the accumulators change one. *)
LEMMA OnlyFold ==
    ASSUME Next, kind' = "fold"
    PROVE  /\ kind = "fold"
           /\ \/ \E s \in Slot, x \in Sample : Absorbs(s, x)
              \/ \E s, t \in Slot : Folds(s, t)
  BY DEF Next, AddWeight, AddClaim, AddValue, AddLeaf, AddAnswer, AddShard, AddItem, AddFrame,
         AddMessage, AddContent, AddFocus, FoldsBlock, Follows, JoinsMesh, Subscribes, TakesSome,
         Publishes, Exports, Joins, Applies, Audits, Issues, TakesPlace, TipStep,
         MeshStep, Absorbs, Folds, FoldStep, Grows

(* The first accumulators are tidy and count nothing. *)
LEMMA FoldInit == Init => TidyInv /\ CountedOnce
<1> SUFFICES ASSUME Init, kind = "fold"
             PROVE  /\ input = [s \in Slot |-> input[s]]
                    /\ \A s \in Slot : Tidy(input[s]) /\ CountsOnce(input[s])
  BY DEF TidyInv, CountedOnce
<1>1. input = [s \in Slot |-> empty(Len0)]
  BY DEF Init
<1>2. QED
  BY <1>1, EmptyTidy

(* Every step keeps them tidy. *)
LEMMA TidyStep ==
  ASSUME TidyInv, [Next]_vars
  PROVE  TidyInv'
<1>1. CASE UNCHANGED vars
  BY <1>1 DEF vars, TidyInv
<1>2. CASE Next
  <2> SUFFICES ASSUME kind' = "fold"
               PROVE  input' = [s \in Slot |-> input'[s]] /\ \A s \in Slot : Tidy(input'[s])
    BY DEF TidyInv
  <2>1. input = [s \in Slot |-> input[s]] /\ \A s \in Slot : Tidy(input[s])
    BY <1>2, OnlyFold DEF TidyInv
  <2>2. ASSUME NEW s \in Slot, NEW a, Tidy(a), FoldStep(s, a)
        PROVE  input' = [r \in Slot |-> input'[r]] /\ \A r \in Slot : Tidy(input'[r])
    BY <2>1, <2>2 DEF FoldStep
  <2>3. ASSUME NEW s \in Slot, NEW x \in Sample, Absorbs(s, x)
        PROVE  input' = [r \in Slot |-> input'[r]] /\ \A r \in Slot : Tidy(input'[r])
    <3>1. FoldStep(s, absorb_ticket(input[s], x, Len0))
      BY <2>3 DEF Absorbs
    <3>2. Tidy(absorb_ticket(input[s], x, Len0))
      BY <2>1, AbsorbTidy
    <3> QED
      BY <2>2, <3>1, <3>2
  <2>4. ASSUME NEW s \in Slot, NEW t \in Slot, Folds(s, t)
        PROVE  input' = [r \in Slot |-> input'[r]] /\ \A r \in Slot : Tidy(input'[r])
    <3>1. FoldStep(s, fold_acc(input[s], input[t]))
      BY <2>4 DEF Folds
    <3>2. Tidy(fold_acc(input[s], input[t]))
      BY <2>1, FoldTidy
    <3> QED
      BY <2>2, <3>1, <3>2
  <2> QED
    BY <1>2, <2>3, <2>4, OnlyFold
<1> QED
  BY <1>1, <1>2

(* fold_acc is commutative and associative on the accumulators of every    *)
(* reachable state, whether or not they overlap.                           *)
THEOREM MonoidLawsHold == Spec => []MonoidLaws
<1>1. TidyInv => MonoidLaws
  <2> SUFFICES ASSUME TidyInv, kind = "fold", NEW s \in Slot, NEW t \in Slot, NEW u \in Slot
               PROVE  /\ fold_acc(input[s], input[t]) = fold_acc(input[t], input[s])
                      /\ fold_acc(fold_acc(input[s], input[t]), input[u])
                           = fold_acc(input[s], fold_acc(input[t], input[u]))
    BY DEF MonoidLaws
  <2> DEFINE a == input[s]
             b == input[t]
             c == input[u]
  <2>1. Tidy(a) /\ Tidy(b) /\ Tidy(c)
    BY DEF TidyInv
  <2> HIDE DEF a, b, c
  <2>2. /\ a.cnt \in [Sample -> Nat] /\ b.cnt \in [Sample -> Nat] /\ c.cnt \in [Sample -> Nat]
    BY <2>1 DEF Tidy, ClusterAcc
  <2>3. fold_acc(a, b) = fold_acc(b, a)
    <3>1. [x \in Sample |-> a.cnt[x] + b.cnt[x]] = [x \in Sample |-> b.cnt[x] + a.cnt[x]]
      BY <2>2
    <3>2. a.seen \cup b.seen = b.seen \cup a.seen
      OBVIOUS
    <3>3. fold_acc(a, b) = [cnt |-> [x \in Sample |-> a.cnt[x] + b.cnt[x]],
                            k |-> Cardinality(a.seen \cup b.seen),
                            seen |-> a.seen \cup b.seen, dim |-> Len0]
      BY <2>1, FoldTidy
    <3>4. fold_acc(b, a) = [cnt |-> [x \in Sample |-> b.cnt[x] + a.cnt[x]],
                            k |-> Cardinality(b.seen \cup a.seen),
                            seen |-> b.seen \cup a.seen, dim |-> Len0]
      BY <2>1, FoldTidy
    <3> QED
      BY <3>1, <3>2, <3>3, <3>4
  <2>4. fold_acc(fold_acc(a, b), c) = fold_acc(a, fold_acc(b, c))
    <3> DEFINE ab == fold_acc(a, b)
               bc == fold_acc(b, c)
    <3>1. /\ Tidy(ab) /\ Tidy(bc)
          /\ ab.cnt = [x \in Sample |-> a.cnt[x] + b.cnt[x]] /\ ab.seen = a.seen \cup b.seen
          /\ bc.cnt = [x \in Sample |-> b.cnt[x] + c.cnt[x]] /\ bc.seen = b.seen \cup c.seen
      <4>1. /\ Tidy(ab)
            /\ ab = [cnt |-> [x \in Sample |-> a.cnt[x] + b.cnt[x]],
                     k |-> Cardinality(a.seen \cup b.seen),
                     seen |-> a.seen \cup b.seen, dim |-> Len0]
        BY <2>1, FoldTidy
      <4>2. /\ Tidy(bc)
            /\ bc = [cnt |-> [x \in Sample |-> b.cnt[x] + c.cnt[x]],
                     k |-> Cardinality(b.seen \cup c.seen),
                     seen |-> b.seen \cup c.seen, dim |-> Len0]
        BY <2>1, FoldTidy
      <4> HIDE DEF ab, bc
      <4> QED
        BY <4>1, <4>2
    <3> HIDE DEF ab, bc
    <3>5. Tidy(ab) /\ Tidy(bc)
      BY <3>1
    <3>2. [x \in Sample |-> ab.cnt[x] + c.cnt[x]] = [x \in Sample |-> a.cnt[x] + bc.cnt[x]]
      BY <2>2, <3>1
    <3>3. ab.seen \cup c.seen = a.seen \cup bc.seen
      BY <3>1
    <3>4. fold_acc(ab, c) = fold_acc(a, bc)
      <4>1. fold_acc(ab, c) = [cnt |-> [x \in Sample |-> ab.cnt[x] + c.cnt[x]],
                               k |-> Cardinality(ab.seen \cup c.seen),
                               seen |-> ab.seen \cup c.seen, dim |-> Len0]
        BY <2>1, <3>5, FoldTidy
      <4>2. fold_acc(a, bc) = [cnt |-> [x \in Sample |-> a.cnt[x] + bc.cnt[x]],
                               k |-> Cardinality(a.seen \cup bc.seen),
                               seen |-> a.seen \cup bc.seen, dim |-> Len0]
        BY <2>1, <3>5, FoldTidy
      <4> QED
        BY <3>2, <3>3, <4>1, <4>2
    <3> QED
      BY <3>4 DEF ab, bc
  <2> QED
    BY <2>3, <2>4 DEF a, b, c
<1>2. Init => TidyInv
  BY FoldInit
<1>3. TidyInv /\ [Next]_vars => TidyInv'
  BY TidyStep
<1> QED
  BY <1>1, <1>2, <1>3, PTL DEF Spec

(* Every step with fold_acc_checked keeps the pairs counted once. *)
LEMMA CountedStep ==
  ASSUME Checked = TRUE, TidyInv, CountedOnce, [Next]_vars
  PROVE  CountedOnce'
<1>1. CASE UNCHANGED vars
  BY <1>1 DEF vars, CountedOnce
<1>2. CASE Next
  <2> SUFFICES ASSUME kind' = "fold" PROVE \A r \in Slot : CountsOnce(input'[r])
    BY DEF CountedOnce
  <2>0. /\ input = [s \in Slot |-> input[s]]
        /\ \A s \in Slot : Tidy(input[s]) /\ CountsOnce(input[s])
    BY <1>2, OnlyFold DEF TidyInv, CountedOnce
  <2>1. ASSUME NEW s \in Slot, NEW x \in Sample, Absorbs(s, x)
        PROVE  \A r \in Slot : CountsOnce(input'[r])
    <3> DEFINE a == input[s]
    <3>1. Tidy(a) /\ CountsOnce(a)
      BY <2>0
    <3> HIDE DEF a
    <3>2. CountsOnce(absorb_ticket(a, x, Len0))
      <4>1. CASE x \in a.seen
        BY <3>1, <4>1 DEF absorb_ticket
      <4>2. CASE x \notin a.seen
        <5>1. a.cnt \in [Sample -> Nat] /\ a.dim = Len0
          BY <3>1 DEF Tidy, ClusterAcc
        <5>2. absorb_ticket(a, x, Len0)
                = [cnt |-> [a.cnt EXCEPT ![x] = @ + 1], k |-> a.k + 1,
                   seen |-> a.seen \cup {x}, dim |-> Len0]
          BY <4>2, <5>1 DEF absorb_ticket
        <5>3. (a.k + 1) = Cardinality(a.seen \cup {x})
          <6>1. a.seen \in SUBSET Sample /\ a.k = Cardinality(a.seen)
            BY <3>1 DEF Tidy, ClusterAcc
          <6> QED
            BY <4>2, <6>1, SeenFinite, FS_AddElement
        <5>4. \A y \in Sample : [a.cnt EXCEPT ![x] = @ + 1][y]
                                  = IF y \in a.seen \cup {x} THEN 1 ELSE 0
          BY <3>1, <4>2, <5>1 DEF CountsOnce
        <5> QED
          <6> DEFINE f == [a.cnt EXCEPT ![x] = @ + 1]
          <6>1. /\ absorb_ticket(a, x, Len0).cnt = f
                /\ absorb_ticket(a, x, Len0).k = Cardinality(a.seen \cup {x})
                /\ absorb_ticket(a, x, Len0).seen = a.seen \cup {x}
            BY <5>2, <5>3
          <6> HIDE DEF f
          <6> QED
            BY <5>4, <6>1 DEF CountsOnce, f
      <4> QED
        BY <4>1, <4>2
    <3>3. input' = [input EXCEPT ![s] = absorb_ticket(a, x, Len0)]
      BY <2>1 DEF Absorbs, FoldStep, a
    <3> QED
      BY <2>0, <3>2, <3>3
  <2>2. ASSUME NEW s \in Slot, NEW t \in Slot, Folds(s, t)
        PROVE  \A r \in Slot : CountsOnce(input'[r])
    <3> DEFINE a == input[s]
               b == input[t]
    <3>1. /\ Tidy(a) /\ CountsOnce(a) /\ Tidy(b) /\ CountsOnce(b)
          /\ a.seen \cap b.seen = {}
          /\ input' = [input EXCEPT ![s] = fold_acc(a, b)]
      BY <2>0, <2>2 DEF Folds, FoldStep, FoldRefused, Overlap2
    <3> HIDE DEF a, b
    <3>2. CountsOnce(fold_acc(a, b))
      <4>1. fold_acc(a, b)
              = [cnt |-> [x \in Sample |-> a.cnt[x] + b.cnt[x]],
                 k |-> Cardinality(a.seen \cup b.seen),
                 seen |-> a.seen \cup b.seen, dim |-> Len0]
        BY <3>1, FoldTidy
      <4>2. ASSUME NEW x \in Sample
            PROVE  a.cnt[x] + b.cnt[x] = IF x \in a.seen \cup b.seen THEN 1 ELSE 0
        BY <3>1 DEF CountsOnce
      <4> QED
        BY <4>1, <4>2 DEF CountsOnce
    <3> QED
      BY <2>0, <3>1, <3>2
  <2> QED
    BY <1>2, <2>1, <2>2, OnlyFold
<1> QED
  BY <1>1, <1>2

(* Folding with fold_acc_checked, every accumulator counts each canonical  *)
(* (id, n) pair once, whatever is absorbed again and folded in whatever    *)
(* order.                                                                  *)
THEOREM CountedOnceHolds ==
  ASSUME Checked = TRUE
  PROVE  Spec => []CountedOnce
<1>1. Init => TidyInv /\ CountedOnce
  BY FoldInit
<1>2. TidyInv /\ CountedOnce /\ [Next]_vars => TidyInv' /\ CountedOnce'
  BY TidyStep, CountedStep
<1> QED
  BY <1>1, <1>2, PTL DEF Spec
=============================================================================
