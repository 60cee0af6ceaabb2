-------------------------------- MODULE Live --------------------------------
(***************************************************************************)
(* The live node of src/src/live.rs with the epoch runner of               *)
(* src/src/epoch.rs, tips (src/src/tip.rs), epoch certificates             *)
(* (src/src/epoch_cert.rs) and the rewards they credit.  Full and cell     *)
(* nodes log signals, close epochs and settle; light nodes follow tips and *)
(* certificates.  Signals, SelfAccs, certificates and tips travel between  *)
(* nodes in any order, late, and any number of times.                      *)
(*                                                                         *)
(* Proofs and hashes are ideal: a beacon is the record of what it hashes,  *)
(* everything issued verifies.  A SelfAcc is the miner and the beacon it   *)
(* was ground under; Tickets has what folding does to the sums.  The       *)
(* marginals come from tru and enter as the weights of the claims.         *)
(***************************************************************************)
EXTENDS Rewards, FiniteSets

CONSTANTS
    Node,
    Mode,            \* Full, Cell or Light
    NeuronOf,        \* the neuron a node works for
    Budget,          \* budget of every epoch
    Depth,           \* settle_depth: heights until a reward matures
    Weight(_, _),    \* share of a claim, given the SelfAccs folded in
    MaxLinks,        \* bound, per node: signals in its log when it links
    MaxEpoch,        \* bound, per node: the last epoch it settles
    MaxAccs,         \* bound: peer SelfAccs a node holds
    MaxHeight,       \* bound: heights a light node advances to
    Genesis          \* GENESIS_PREV

Light == {n \in Node : Mode[n] = "Light"}

Heavy == Node \ Light

ASSUME LiveAssumption ==
    /\ Mode \in [Node -> {"Full", "Cell", "Light"}]
    /\ DOMAIN NeuronOf = Node
    /\ {Budget, Depth, MaxAccs, MaxHeight} \subseteq Nat
    /\ MaxLinks \in [Node -> Nat] /\ MaxEpoch \in [Node -> Nat]
    /\ Budget > 0

VARIABLES
    tip,         \* height and trust
    signals,     \* the signal log
    epoch,       \* EpochRunner: number, prev_beacon, phase, claims, claims_root, beacon
    peer_accs,   \* SelfAccs absorbed, in order
    pending,     \* pending_rewards
    credited,    \* credited_receipts
    matured,     \* matured_reward
    sent,        \* signals linked anywhere
    mined,       \* SelfAccs published
    certs,       \* certificates issued, with the issuer
    claimed      \* history: <<node, epoch, signal>> for every claim proposed

vars == <<tip, signals, epoch, peer_accs, pending, credited, matured, sent, mined, certs, claimed>>

node == <<tip, signals, epoch, peer_accs, pending, credited, matured>>

NoRoot == {}

(* The tip of a light node that has not joined. *)
untrusted == [height |-> 0, trust |-> "Untrusted"]

(* A tip from a checkpoint that was applied, without its accumulator. *)
from_local(h) == [height |-> h, trust |-> "LocalApplied"]

(* The tip at height h that TipProver seals and join_checkpoint decides. *)
seal_tip(h) == [height |-> h, trust |-> "FoldDecided"]

grade4(trust) == trust \in {"LocalApplied", "FoldDecided"}

NewEpoch(num, prev) ==
    [num |-> num, prev |-> prev, phase |-> "Propose", claims |-> <<>>,
     root |-> NoRoot, beacon |-> Genesis]

Init ==
    /\ tip = [n \in Node |-> IF n \in Light THEN untrusted ELSE seal_tip(0)]
    /\ signals = [n \in Node |-> {}]
    /\ epoch = [n \in Node |-> NewEpoch(1, Genesis)]
    /\ peer_accs = [n \in Node |-> <<>>]
    /\ pending = [n \in Node |-> {}]
    /\ credited = [n \in Node |-> {}]
    /\ matured = [n \in Node |-> 0]
    /\ sent = {} /\ mined = {} /\ certs = {} /\ claimed = {}

-----------------------------------------------------------------------------
(* Rewards of a node.                                                      *)

(* Mutant of Due: one height too late. *)
DueLate(x, h) == h > x.mint + Depth

Due(x, h) == h >= x.mint + Depth

(* The amount of a set of pending rewards. *)
Owed(P) == Total([x \in P |-> x.amount], P)

(* mature_rewards, at tip height h with the pending rewards P. *)
mature_rewards(n, P, h) ==
    LET due == {x \in P : Due(x, h)}
    IN  /\ pending' = [pending EXCEPT ![n] = P \ due]
        /\ matured' = [matured EXCEPT ![n] = @ + Owed(due)]

(* Mutant of Credited: a receipt that was applied is applied again. *)
CreditedAgain(n, r, mint) ==
    LET u == NeuronOf[n]
        h == receipt_hash(r)
    IN  IF share_of(h, u) = 0 THEN pending[n]
        ELSE pending[n] \cup {[amount |-> share_of(h, u), receipt |-> h, mint |-> mint]}

(* Mutant of Credited: a receipt without a share leaves a pending reward of 0. *)
CreditedZero(n, r, mint) ==
    LET h == receipt_hash(r)
    IN  IF h \in credited[n] THEN pending[n]
        ELSE pending[n] \cup {[amount |-> share_of(h, NeuronOf[n]), receipt |-> h, mint |-> mint]}

(* The pending rewards after credit_receipt. *)
Credited(n, r, mint) ==
    LET u == NeuronOf[n]
        h == receipt_hash(r)
    IN  IF h \in credited[n] \/ share_of(h, u) = 0 THEN pending[n]
        ELSE pending[n] \cup {[amount |-> share_of(h, u), receipt |-> h, mint |-> mint]}

(* credit_receipt, then mature_rewards at height h. *)
CreditAndMature(n, r, mint, h) ==
    /\ credited' = [credited EXCEPT ![n] = @ \cup {receipt_hash(r)}]
    /\ mature_rewards(n, Credited(n, r, mint), h)

-----------------------------------------------------------------------------
(* Signals.                                                                *)

Ids(n) == {s.id : s \in signals[n]}

(* Mutant of Logged: a signal that is in the log is not recognised. *)
LoggedNever(n, s) == FALSE

Logged(n, s) == s.id \in Ids(n)

(* Mutant of Proposes: a late signal joins the claims of a closed epoch. *)
ProposesLate(e) == TRUE

(* bump_tip: fold one height, seal, and let rewards mature. *)
bump_tip(n) ==
    /\ tip' = [tip EXCEPT ![n] = seal_tip(@.height + 1)]
    /\ mature_rewards(n, pending[n], tip[n].height + 1)

(* A signal becomes a claim while the propose window is open. *)
Proposes(e) == e.phase = "Propose"

(* ingest_signal of a node that does not have the signal. *)
Ingest(n, s) ==
    /\ signals' = [signals EXCEPT ![n] = @ \cup {s}]
    /\ IF Proposes(epoch[n])
       THEN /\ epoch' = [epoch EXCEPT ![n].claims = Append(@, s)]
            /\ claimed' = claimed \cup {<<n, epoch[n].num, s>>}
       ELSE UNCHANGED <<epoch, claimed>>
    /\ bump_tip(n)
    /\ UNCHANGED <<peer_accs, credited, mined, certs>>

(* A signal arrives; one that is in the log changes nothing. *)
ingest_signal(n, s) ==
    /\ n \in Heavy /\ s \in sent
    /\ ~ Logged(n, s)
    /\ Ingest(n, s)
    /\ UNCHANGED sent

(* link: a new signal of the node's neuron.  Its id is the length of the   *)
(* log and the neuron; by stands for its links.                            *)
link(n) ==
    /\ n \in Heavy
    /\ Cardinality(signals[n]) < MaxLinks[n]
    /\ LET s == [id |-> <<Cardinality(signals[n]) + 1, NeuronOf[n]>>,
                 neuron |-> NeuronOf[n], by |-> n]
       IN  /\ ~ Logged(n, s)
           /\ Ingest(n, s)
           /\ sent' = sent \cup {s}

-----------------------------------------------------------------------------
(* The epoch runner.                                                       *)

freeze(e) == [e EXCEPT !.root = {s.id : s \in ToSet(e.claims)}, !.phase = "Frozen"]

(* The beacon covers every signal of the log. *)
open_beacon(e, S) ==
    [e EXCEPT !.beacon = [epoch |-> e.num, prev |-> e.prev, root |-> e.root,
                          sigs |-> {s.id : s \in S}],
              !.phase = "BeaconReady"]

(* The runner with propose closed and the beacon open. *)
Opened(n) ==
    IF epoch[n].phase = "Propose" THEN open_beacon(freeze(epoch[n]), signals[n]) ELSE epoch[n]

(* Mutant of next_epoch: the beacon is not carried over. *)
next_epoch_genesis(e) == NewEpoch(e.num + 1, Genesis)

next_epoch(e) == NewEpoch(e.num + 1, e.beacon)

(* Without claims freezing fails; an open beacon stays. *)
freeze_and_beacon(n) ==
    /\ n \in Heavy
    /\ epoch[n].phase = "Propose" /\ epoch[n].claims # <<>>
    /\ epoch' = [epoch EXCEPT ![n] = Opened(n)]
    /\ UNCHANGED <<tip, signals, peer_accs, pending, credited, matured, sent, mined, certs, claimed>>

mine_self_acc(n) ==
    /\ n \in Heavy
    /\ epoch[n].phase = "BeaconReady"
    /\ mined' = mined \cup {[miner |-> NeuronOf[n], beacon |-> epoch[n].beacon]}
    /\ UNCHANGED <<node, sent, certs, claimed>>

(* absorb_peer_acc: whatever arrives, in whatever phase. *)
absorb_peer_acc(n, a) ==
    /\ n \in Heavy /\ a \in mined
    /\ Len(peer_accs[n]) < MaxAccs
    /\ peer_accs' = [peer_accs EXCEPT ![n] = Append(@, a)]
    /\ UNCHANGED <<tip, signals, epoch, pending, credited, matured, sent, mined, certs, claimed>>

(* settle_with_peers: the weights of the claims, by the folded samples. *)
Weights(e, accs) == [i \in DOMAIN e.claims |-> Weight(e.claims[i], accs)]

Receipt(e, accs) ==
    LET amount == allocate_budget(Weights(e, accs), Budget)
    IN  [epoch |-> e.num, beacon |-> e.beacon,
         shares |-> [i \in DOMAIN e.claims |->
                       [neuron |-> e.claims[i].neuron, amount |-> amount[i]]]]

(* The certificate of a settled epoch, with the issuer. *)
issue_epoch_cert(n, e, r) ==
    [by |-> n, epoch |-> e.num, height |-> tip[n].height, trust |-> tip[n].trust,
     claims_root |-> e.root, settle |-> r]

(* verify_epoch_cert, where the hashes, VDFs and seals are as issued. *)
verify_epoch_cert(c) ==
    /\ grade4(c.trust)
    /\ c.settle.beacon.root = c.claims_root
    /\ c.settle.beacon.epoch = c.epoch /\ c.settle.epoch = c.epoch

(* close_and_settle_epoch.  When no claim has weight the settle fails: the *)
(* beacon stays open and the SelfAccs stay where they are.                 *)
close_and_settle_epoch(n) ==
    /\ n \in Heavy
    /\ epoch[n].num <= MaxEpoch[n]
    /\ epoch[n].claims # <<>>
    /\ LET e == Opened(n)
           r == Receipt(e, peer_accs[n])
       IN  \/ /\ TotalOf(Weights(e, peer_accs[n])) = 0
              /\ epoch' = [epoch EXCEPT ![n] = e]
              /\ UNCHANGED <<peer_accs, pending, credited, matured, certs>>
           \/ /\ TotalOf(Weights(e, peer_accs[n])) > 0
              /\ certs' = certs \cup {issue_epoch_cert(n, e, r)}
              /\ CreditAndMature(n, r, tip[n].height, tip[n].height)
              /\ peer_accs' = [peer_accs EXCEPT ![n] = <<>>]
              /\ epoch' = [epoch EXCEPT ![n] = next_epoch(e)]
    /\ UNCHANGED <<tip, signals, sent, mined, claimed>>

-----------------------------------------------------------------------------
(* Certificates and tips at the other nodes.                               *)

(* The tip after accept_epoch_cert. *)
AcceptedTip(n, c) ==
    IF n \in Light /\ (c.trust = "FoldDecided" \/ c.height >= tip[n].height)
    THEN from_local(c.height) ELSE tip[n]

accept_epoch_cert(n, c) ==
    /\ c \in certs
    /\ verify_epoch_cert(c)
    /\ tip' = [tip EXCEPT ![n] = AcceptedTip(n, c)]
    /\ CreditAndMature(n, c.settle, c.height, AcceptedTip(n, c).height)
    /\ UNCHANGED <<signals, epoch, peer_accs, sent, mined, certs, claimed>>

(* light_join, from a tip a full or cell node exported some time ago. *)
light_join(n, h) ==
    /\ n \in Light
    /\ \E m \in Heavy : h <= tip[m].height
    /\ tip' = [tip EXCEPT ![n] = seal_tip(h)]
    /\ UNCHANGED <<signals, epoch, peer_accs, pending, credited, matured, sent, mined, certs, claimed>>

light_advance(n, h) ==
    /\ n \in Light
    /\ tip[n].trust = "FoldDecided" /\ h >= tip[n].height
    /\ tip' = [tip EXCEPT ![n].height = h]
    /\ UNCHANGED <<signals, epoch, peer_accs, pending, credited, matured, sent, mined, certs, claimed>>

Next ==
    \/ \E n \in Node : link(n)
    \/ \E n \in Node, s \in sent : ingest_signal(n, s)
    \/ \E n \in Node : freeze_and_beacon(n)
    \/ \E n \in Node : mine_self_acc(n)
    \/ \E n \in Node, a \in mined : absorb_peer_acc(n, a)
    \/ \E n \in Node : close_and_settle_epoch(n)
    \/ \E n \in Node, c \in certs : accept_epoch_cert(n, c)
    \/ \E n \in Node, h \in 0 .. MaxHeight : light_join(n, h)
    \/ \E n \in Node, h \in 0 .. MaxHeight : light_advance(n, h)

Spec == Init /\ [][Next]_vars

-----------------------------------------------------------------------------
(* Properties.                                                             *)

(* Types of the variables. *)
TypeOK ==
    /\ tip \in [Node -> [height : Nat, trust : {"Untrusted", "LocalApplied", "FoldDecided"}]]
    /\ \A n \in Node :
          /\ signals[n] \subseteq sent
          /\ epoch[n].num \in Nat \ {0}
          /\ epoch[n].phase \in {"Propose", "BeaconReady"}
          /\ ToSet(epoch[n].claims) \subseteq signals[n]
          /\ ToSet(peer_accs[n]) \subseteq mined
          /\ \A x \in pending[n] : /\ x.amount \in Nat \ {0} /\ x.mint \in Nat
                                   /\ x.receipt \in credited[n]
          /\ matured[n] \in Nat

(* What a node has been paid and is still to be paid is what the receipts  *)
(* it credited give its neuron, each counted once, however often and in    *)
(* whatever order certificates come in and tips move.                      *)
RewardsConserved ==
    \A n \in Node :
        matured[n] + Owed(pending[n])
          = Total([h \in credited[n] |-> share_of(h, NeuronOf[n])], credited[n])

(* A full or cell node holds back a reward exactly until the tip is Depth  *)
(* above the height it was minted at: nothing pending is due.              *)
NothingOverdue ==
    \A n \in Heavy : \A x \in pending[n] : tip[n].height < x.mint + Depth

(* A signal is claimed in at most one epoch of a node, and once there:     *)
(* redelivery in a later epoch does not pay it again.                      *)
ClaimedOnce ==
    /\ \A x, y \in claimed : x[1] = y[1] /\ x[3].id = y[3].id => x = y
    /\ \A n \in Node : Len(epoch[n].claims) = Cardinality(ToSet(epoch[n].claims))

(* From the freeze on the claims are the ones claims_root and the beacon   *)
(* commit to, whatever signals arrive meanwhile.                           *)
FrozenClaims ==
    \A n \in Node : epoch[n].phase = "BeaconReady" =>
        LET e == epoch[n]
        IN  /\ e.root = {s.id : s \in ToSet(e.claims)}
            /\ e.beacon.root = e.root
            /\ e.beacon.epoch = e.num

(* The certificates of a node chain: the beacon of each epoch after the    *)
(* first is drawn from the beacon its own certificate of the epoch before  *)
(* settled under.                                                          *)
BeaconsChain ==
    \A c \in certs :
        IF c.epoch = 1 THEN c.settle.beacon.prev = Genesis
        ELSE \E b \in certs : /\ b.by = c.by /\ b.epoch = c.epoch - 1
                              /\ c.settle.beacon.prev = b.settle.beacon
=============================================================================
