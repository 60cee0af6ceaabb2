-------------------------------- MODULE Tip ---------------------------------
(***************************************************************************)
(* src/src/tip.rs over src/src/step.rs, and the evidence that is issued    *)
(* over a tip (src/src/finality_evidence.rs, nullifier_set_hash of         *)
(* src/src/pay_proof.rs).  Pure operators on tips, provers and             *)
(* checkpoints.  An accumulator is the sequence of the steps folded into   *)
(* it.  Hashes are ideal; every step folds, and an accumulator with steps  *)
(* is decided under any statement, since the steps' material is not bound  *)
(* by the witness (step.rs).                                               *)
(***************************************************************************)
EXTENDS Finality

GenesisRoot == 0

block_witness(height, root) == [height |-> height, root |-> root]

(* The None of an optional accumulator. *)
NoAcc == <<block_witness(-1, -1)>>

(* What fold makes of an accumulator and decide of a decidable one. *)
fold(acc, step) == Append(acc, step)

Decidable(acc) == acc # NoAcc /\ acc # <<>>

grade4(tip) == tip.trust \in {"LocalApplied", "FoldDecided"}

TipAt(ck, trust) == [height |-> ck.height, root |-> ck.root, acc |-> ck.acc, trust |-> trust]

from_local(ck) == TipAt(ck, "LocalApplied")

untrusted == [height |-> 0, root |-> GenesisRoot, acc |-> NoAcc, trust |-> "Untrusted"]

join_checkpoint(ck) == TipAt(ck, IF Decidable(ck.acc) THEN "FoldDecided" ELSE "Untrusted")

(* An accumulator that the checkpoint lacks is kept. *)
advance_local(tip, ck) ==
    [TipAt(ck, "LocalApplied") EXCEPT !.acc = IF ck.acc = NoAcc THEN tip.acc ELSE @]

(* Mutant of CanAdvance: an older height is folded on top of a newer. *)
CanAdvanceBack(tip, height) == tip.trust = "FoldDecided"

CanAdvance(tip, height) == tip.trust = "FoldDecided" /\ height >= tip.height

advance_fold(tip, height, root) ==
    [height |-> height, root |-> root, trust |-> tip.trust,
     acc |-> fold(IF tip.acc = NoAcc THEN <<>> ELSE tip.acc, block_witness(height, root))]

redecide(tip) == [tip EXCEPT !.trust = "FoldDecided"]

to_checkpoint(tip) == [height |-> tip.height, root |-> tip.root, acc |-> tip.acc]

-----------------------------------------------------------------------------
(* TipProver. *)

NewProver == [height |-> 0, root |-> GenesisRoot, acc |-> <<>>]

CanFoldBlock(prover, height) == ~ (height < prover.height /\ prover.acc # <<>>)

fold_block(prover, height, root) ==
    [height |-> height, root |-> root, acc |-> fold(prover.acc, block_witness(height, root))]

checkpoint(prover) == prover

-----------------------------------------------------------------------------
(* Finality evidence. *)

nullifier_set_hash(nullifiers) == [nullifiers |-> nullifiers]

bind(kind, book, signal, height, root, nullifiers, grade) ==
    [kind |-> kind, book |-> book, signal |-> signal, height |-> height, root |-> root,
     nullifiers |-> nullifiers, grade4 |-> grade]

(* Mutant of issue: the grade of the issuer's tip is not bound. *)
issue_ungraded(kind, book, signal, tip, nullifiers) ==
    LET nh == nullifier_set_hash(nullifiers)
    IN  [book_id |-> book, signal_id |-> signal, height |-> tip.height, root |-> tip.root,
         nullifier_hash |-> nh, kind |-> kind,
         binding |-> bind(kind, book, signal, tip.height, tip.root, nh, TRUE)]

(* issue_local and issue_certified, by their kind. *)
issue(kind, book, signal, tip, nullifiers) ==
    LET nh == nullifier_set_hash(nullifiers)
    IN  [book_id |-> book, signal_id |-> signal, height |-> tip.height, root |-> tip.root,
         nullifier_hash |-> nh, kind |-> kind,
         binding |-> bind(kind, book, signal, tip.height, tip.root, nh, grade4(tip))]

(* Certified evidence is issued for what finalizes in its domain. *)
issue_from_domain(book, signal, tip, nullifiers, phi, d, uncert, gap, kappa_d, c, kappa) ==
    IF finalizes(phi, d, uncert, gap, kappa_d, c, kappa)
    THEN <<issue("Certified", book, signal, tip, nullifiers)>> ELSE <<>>

verify_evidence(ev, tip) ==
    /\ grade4(tip)
    /\ tip.height = ev.height /\ tip.root = ev.root
    /\ ev.binding = bind(ev.kind, ev.book_id, ev.signal_id, ev.height, ev.root,
                         ev.nullifier_hash, TRUE)

-----------------------------------------------------------------------------
(* What the tip folded itself, on top of the checkpoint it took last. *)
Own(tip, since) == SubSeq(tip.acc, Len(since.acc) + 1, Len(tip.acc))

(* The place and the steps acc are one history: it ends at this place, and *)
(* the heights are in order.                                               *)
Continuous(acc, height, root) ==
    /\ Last(acc) = block_witness(height, root)
    /\ \A i \in 2 .. Len(acc) : acc[i].height >= acc[i - 1].height

(* A tip that is trusted for its fold has folded on, without a gap in its  *)
(* accumulator and with the heights in order, from the place it took last  *)
(* to its own (join_checkpoint, advance_local, advance_fold, redecide).    *)
(* Whether that place was folded before it is not known: decide agrees     *)
(* with whatever height and root come with an accumulator.                 *)
FoldContinuous(tip, since) ==
    tip.trust = "FoldDecided" =>
        /\ Decidable(tip.acc) /\ IsPrefix(since.acc, tip.acc)
        /\ Continuous(<<block_witness(since.height, since.root)>> \o Own(tip, since),
                      tip.height, tip.root)

(* Where the accumulator comes from a prover and its place with it, the    *)
(* tip is what was folded last, from the first height on.                  *)
HistoryContinuous(tip) ==
    tip.trust = "FoldDecided" => Continuous(tip.acc, tip.height, tip.root)

(* Evidence is accepted at the tip it was issued over exactly when that    *)
(* was of grade 4; it is accepted elsewhere only at a trusted tip that has *)
(* come to the same height and root; and with a field replaced, the book   *)
(* too, it is accepted nowhere (issue_local, issue_from_domain, verify).   *)
(* verify is not told the book of the tip, so that a tip of another book   *)
(* is told apart by height and root alone.                                 *)
EvidenceAtTip(ev, issuer, tip) ==
    LET others == {[ev EXCEPT !.book_id = "other"], [ev EXCEPT !.signal_id = "other"],
                   [ev EXCEPT !.height = @ + 1], [ev EXCEPT !.root = @ + 1],
                   [ev EXCEPT !.nullifier_hash = nullifier_set_hash(<<"other">>)],
                   [ev EXCEPT !.kind = IF @ = "Certified" THEN "Local" ELSE "Certified"]}
    IN  /\ verify_evidence(ev, issuer) <=> grade4(issuer)
        /\ verify_evidence(ev, tip) =>
              grade4(issuer) /\ grade4(tip) /\ tip.height = issuer.height /\ tip.root = issuer.root
        /\ \A o \in others : ~ verify_evidence(o, issuer) /\ ~ verify_evidence(o, tip)
=============================================================================
