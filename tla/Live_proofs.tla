---------------------------- MODULE Live_proofs -----------------------------
(***************************************************************************)
(* Proofs about Live, for every set of nodes, every budget, depth and      *)
(* weight of the claims, and every bound.                                  *)
(***************************************************************************)
EXTENDS Live, Lists_proofs, FiniteSetTheorems, TLAPS

-----------------------------------------------------------------------------
(* The epoch runner: what a step does to the runner of a node.             *)

(* The record of an epoch, in the two phases it is left in. *)
EpochOK(e) ==
    /\ e = [num |-> e.num, prev |-> e.prev, phase |-> e.phase, claims |-> e.claims,
            root |-> e.root, beacon |-> e.beacon]
    /\ e.num \in Nat \ {0}
    /\ e.phase \in {"Propose", "BeaconReady"}

(* From the freeze on claims, root and beacon belong together. *)
Committed(e) ==
    /\ e.root = {s.id : s \in ToSet(e.claims)}
    /\ e.beacon.root = e.root
    /\ e.beacon.epoch = e.num
    /\ e.beacon.prev = e.prev

RunnerInv ==
    /\ epoch = [n \in Node |-> epoch[n]]
    /\ \A n \in Node : /\ EpochOK(epoch[n])
                       /\ epoch[n].phase = "BeaconReady" => Committed(epoch[n])

(* A certificate of the epoch that n has open, under its beacon. *)
Certifies(c, n) ==
    c.by = n /\ c.epoch = epoch[n].num /\ c.settle.beacon = Opened(n).beacon

(* The record with one field replaced. *)
Claiming(e, c) == [e EXCEPT !.claims = c]
WithRoot(e, r) == [e EXCEPT !.root = r]
WithPhase(e, p) == [e EXCEPT !.phase = p]
WithBeacon(e, b) == [e EXCEPT !.beacon = b]

RunnerStep ==
    /\ epoch' = [n \in Node |-> epoch'[n]]
    /\ certs \subseteq certs'
    /\ \A c \in certs' \ certs : \E n \in Node : Certifies(c, n)
    /\ \A n \in Node :
          \/ epoch'[n] = epoch[n]
          \/ /\ epoch[n].phase = "Propose"
             /\ \E c : epoch'[n] = Claiming(epoch[n], c)
          \/ epoch'[n] = Opened(n)
          \/ epoch'[n] = next_epoch(Opened(n)) /\ \E c \in certs' : Certifies(c, n)

(* The record of an epoch by its fields, and what replacing one of them    *)
(* does.                                                                   *)
Fields(num, prev, phase, claims, root, beacon) ==
    [num |-> num, prev |-> prev, phase |-> phase, claims |-> claims,
     root |-> root, beacon |-> beacon]

(* An update of a field changes that field. *)
LEMMA FieldUpdates ==
    ASSUME NEW num, NEW prev, NEW phase, NEW claims, NEW root, NEW beacon, NEW x,
           NEW e, e = Fields(num, prev, phase, claims, root, beacon)
    PROVE  /\ WithRoot(e, x) = Fields(num, prev, phase, claims, x, beacon)
           /\ WithPhase(e, x) = Fields(num, prev, x, claims, root, beacon)
           /\ Claiming(e, x) = Fields(num, prev, phase, x, root, beacon)
           /\ WithBeacon(e, x) = Fields(num, prev, phase, claims, root, x)
BY DEF Fields, WithRoot, WithPhase, Claiming, WithBeacon

(* Freezing and opening the beacon leave number, parent and claims alone   *)
(* and commit to them.                                                     *)
LEMMA FreezeFacts ==
    ASSUME NEW e, EpochOK(e), NEW S
    PROVE  LET o == open_beacon(freeze(e), S)
           IN  /\ EpochOK(o) /\ Committed(o) /\ o.phase = "BeaconReady"
               /\ o.num = e.num /\ o.prev = e.prev /\ o.claims = e.claims
<1> DEFINE R == {s.id : s \in ToSet(e.claims)}
           f == freeze(e)
           B == [epoch |-> f.num, prev |-> f.prev, root |-> f.root, sigs |-> {s.id : s \in S}]
           o == open_beacon(f, S)
<1>0. e = Fields(e.num, e.prev, e.phase, e.claims, e.root, e.beacon)
  BY DEF EpochOK, Fields
<1>1. f = WithPhase(WithRoot(e, R), "Frozen")
  BY DEF freeze, WithPhase, WithRoot
<1>2. o = WithPhase(WithBeacon(f, B), "BeaconReady")
  BY DEF open_beacon, WithPhase, WithBeacon
<1> HIDE DEF R, f, B, o
<1>3. f = Fields(e.num, e.prev, "Frozen", e.claims, R, e.beacon)
  BY <1>0, <1>1, FieldUpdates
<1>4. o = Fields(e.num, e.prev, "BeaconReady", e.claims, R, B)
  BY <1>2, <1>3, FieldUpdates
<1>5. f.num = e.num /\ f.prev = e.prev /\ f.root = R
  BY <1>3 DEF Fields
<1>6. B.epoch = e.num /\ B.prev = e.prev /\ B.root = R
  BY <1>5 DEF B
<1>7. o.num = e.num /\ o.prev = e.prev /\ o.phase = "BeaconReady"
        /\ o.claims = e.claims /\ o.root = R /\ o.beacon = B
  BY <1>4 DEF Fields
<1>8. R = {s.id : s \in ToSet(o.claims)}
  BY <1>7 DEF R
<1>9. EpochOK(o)
  BY <1>4, <1>7 DEF EpochOK, Fields
<1>10. Committed(o)
  BY <1>6, <1>7, <1>8 DEF Committed
<1>11. QED
  BY <1>7, <1>9, <1>10 DEF o, f

(* The same for the runner of a node, whose open beacon stays. *)
LEMMA OpenedFacts ==
    ASSUME RunnerInv, NEW n \in Node
    PROVE  /\ EpochOK(Opened(n)) /\ Committed(Opened(n))
           /\ Opened(n).phase = "BeaconReady"
           /\ Opened(n).num = epoch[n].num /\ Opened(n).prev = epoch[n].prev
           /\ Opened(n).claims = epoch[n].claims
<1>1. CASE epoch[n].phase = "Propose"
  BY <1>1, FreezeFacts DEF Opened, RunnerInv
<1>2. CASE epoch[n].phase # "Propose"
  BY <1>2 DEF Opened, RunnerInv, EpochOK
<1>3. QED
  BY <1>1, <1>2

(* Every step is a step of the runners. *)
LEMMA RunnerStepHolds == RunnerInv /\ [Next]_vars => RunnerStep
<1> SUFFICES ASSUME RunnerInv, [Next]_vars PROVE RunnerStep
  OBVIOUS
<1>0. epoch = [n \in Node |-> epoch[n]]
  BY DEF RunnerInv
<1>1. ASSUME UNCHANGED <<epoch, certs>> PROVE RunnerStep
  BY <1>0, <1>1 DEF RunnerStep
<1>2. ASSUME NEW n \in Node, NEW s, Ingest(n, s) PROVE RunnerStep
  <2>1. CASE Proposes(epoch[n])
    <3>1. epoch' = [epoch EXCEPT ![n] = Claiming(epoch[n], Append(epoch[n].claims, s))]
      BY <1>2, <2>1 DEF Ingest, Claiming
    <3>2. certs' = certs /\ epoch[n].phase = "Propose"
      BY <1>2, <2>1 DEF Ingest, Proposes
    <3>3. QED
      BY <1>0, <3>1, <3>2 DEF RunnerStep
  <2>2. CASE ~ Proposes(epoch[n])
    BY <1>1, <1>2, <2>2 DEF Ingest
  <2>3. QED
    BY <2>1, <2>2
<1>3. ASSUME NEW n \in Node, freeze_and_beacon(n) PROVE RunnerStep
  <2>1. epoch' = [epoch EXCEPT ![n] = Opened(n)] /\ certs' = certs
    BY <1>3 DEF freeze_and_beacon
  <2>2. QED
    BY <1>0, <2>1 DEF RunnerStep
<1>4. ASSUME NEW n \in Node, close_and_settle_epoch(n) PROVE RunnerStep
  <2> DEFINE e == Opened(n)
             r == Receipt(e, peer_accs[n])
             c == issue_epoch_cert(n, e, r)
  <2>1. \/ epoch' = [epoch EXCEPT ![n] = e] /\ certs' = certs
        \/ epoch' = [epoch EXCEPT ![n] = next_epoch(e)] /\ certs' = certs \cup {c}
    BY <1>4 DEF close_and_settle_epoch
  <2>2. Certifies(c, n)
    BY OpenedFacts DEF Certifies, issue_epoch_cert, Receipt
  <2> HIDE DEF c
  <2>3. CASE epoch' = [epoch EXCEPT ![n] = e] /\ certs' = certs
    BY <1>0, <2>3 DEF RunnerStep
  <2>4. CASE epoch' = [epoch EXCEPT ![n] = next_epoch(e)] /\ certs' = certs \cup {c}
    BY <1>0, <2>2, <2>4 DEF RunnerStep
  <2>5. QED
    BY <2>1, <2>3, <2>4
<1>5. ASSUME NEW n \in Node, link(n) PROVE RunnerStep
  BY <1>2, <1>5 DEF link
<1>6. ASSUME NEW n \in Node, NEW s \in sent, ingest_signal(n, s) PROVE RunnerStep
  BY <1>2, <1>6 DEF ingest_signal
<1>7. ASSUME NEW n \in Node, mine_self_acc(n) PROVE RunnerStep
  BY <1>1, <1>7 DEF mine_self_acc, node
<1>8. ASSUME NEW n \in Node, NEW a \in mined, absorb_peer_acc(n, a) PROVE RunnerStep
  BY <1>1, <1>8 DEF absorb_peer_acc
<1>9. ASSUME NEW n \in Node, NEW c \in certs, accept_epoch_cert(n, c) PROVE RunnerStep
  BY <1>1, <1>9 DEF accept_epoch_cert
<1>10. ASSUME NEW n \in Node, NEW h \in 0 .. MaxHeight, light_join(n, h) \/ light_advance(n, h)
       PROVE  RunnerStep
  BY <1>1, <1>10 DEF light_join, light_advance
<1>11. CASE UNCHANGED vars
  BY <1>1, <1>11 DEF vars
<1>12. QED
  BY <1>3, <1>4, <1>5, <1>6, <1>7, <1>8, <1>9, <1>10, <1>11 DEF Next

(* A runner in the propose window is still a record of an epoch after a    *)
(* claim is added.                                                         *)
LEMMA ProposedFacts ==
    ASSUME NEW e, EpochOK(e), NEW c
    PROVE  LET f == Claiming(e, c)
           IN  /\ EpochOK(f) /\ f.phase = e.phase /\ f.num = e.num /\ f.prev = e.prev
               /\ f.claims = c
<1>1. e = Fields(e.num, e.prev, e.phase, e.claims, e.root, e.beacon)
  BY DEF EpochOK, Fields
<1>2. Claiming(e, c) = Fields(e.num, e.prev, e.phase, c, e.root, e.beacon)
  BY <1>1, FieldUpdates
<1>3. QED
  BY <1>2 DEF EpochOK, Fields

(* The next epoch starts from the beacon of this one. *)
LEMMA NextEpochFacts ==
    ASSUME NEW e, EpochOK(e)
    PROVE  /\ EpochOK(next_epoch(e)) /\ next_epoch(e).phase = "Propose"
           /\ next_epoch(e).num = e.num + 1 /\ next_epoch(e).prev = e.beacon
BY DEF EpochOK, next_epoch, NewEpoch

(* Every step of a runner keeps it in order. *)
LEMMA RunnerInvStep == RunnerInv /\ RunnerStep => RunnerInv'
<1> SUFFICES ASSUME RunnerInv, RunnerStep PROVE RunnerInv'
  OBVIOUS
<1>1. ASSUME NEW n \in Node
      PROVE  EpochOK(epoch'[n]) /\ (epoch'[n].phase = "BeaconReady" => Committed(epoch'[n]))
  <2>0. EpochOK(epoch[n]) /\ (epoch[n].phase = "BeaconReady" => Committed(epoch[n]))
    BY DEF RunnerInv
  <2>1. CASE epoch'[n] = epoch[n]
    BY <2>0, <2>1
  <2>2. CASE /\ epoch[n].phase = "Propose"
             /\ \E c : epoch'[n] = Claiming(epoch[n], c)
    <3>1. PICK c : epoch'[n] = Claiming(epoch[n], c)
      BY <2>2
    <3>2. EpochOK(epoch'[n]) /\ epoch'[n].phase = epoch[n].phase
      BY <2>0, <3>1, ProposedFacts
    <3>3. QED
      BY <2>2, <3>2
  <2>3. CASE epoch'[n] = Opened(n)
    BY <2>3, OpenedFacts
  <2>4. CASE epoch'[n] = next_epoch(Opened(n))
    BY <2>4, OpenedFacts, NextEpochFacts
  <2>5. QED
    BY <2>1, <2>2, <2>3, <2>4 DEF RunnerStep
<1>2. QED
  BY <1>1 DEF RunnerInv, RunnerStep

(* And so does the start. *)
LEMMA RunnerInvInit == Init => RunnerInv
BY DEF Init, RunnerInv, EpochOK, NewEpoch

(* What freeze, open_beacon and next_epoch of epoch.rs establish is never  *)
(* undone: from the freeze on the claims are the ones that the root and    *)
(* the beacon commit to.                                                   *)
THEOREM FrozenClaimsHolds == Spec => []FrozenClaims
<1>1. RunnerInv => FrozenClaims
  BY DEF RunnerInv, FrozenClaims, Committed
<1>2. RunnerInv /\ [Next]_vars => RunnerInv'
  BY RunnerStepHolds, RunnerInvStep
<1>3. QED
  BY <1>1, <1>2, RunnerInvInit, PTL DEF Spec

-----------------------------------------------------------------------------
(* The chain of beacons.                                                   *)

(* An epoch after the first has the beacon of a certificate of the epoch   *)
(* before as its parent.                                                   *)
Parented(n) ==
    IF epoch[n].num = 1 THEN epoch[n].prev = Genesis
    ELSE \E b \in certs : /\ b.by = n /\ b.epoch = epoch[n].num - 1
                          /\ b.settle.beacon = epoch[n].prev

ChainInv == RunnerInv /\ (\A n \in Node : Parented(n)) /\ BeaconsChain

(* Every step keeps the beacons chained. *)
LEMMA ChainInvStep == ChainInv /\ [Next]_vars => ChainInv'
<1> SUFFICES ASSUME ChainInv, [Next]_vars PROVE ChainInv'
  OBVIOUS
<1>1. RunnerInv /\ RunnerStep /\ RunnerInv'
  BY RunnerStepHolds, RunnerInvStep DEF ChainInv
<1>2. ASSUME NEW n \in Node PROVE Parented(n)'
  <2>0. Parented(n) /\ certs \subseteq certs' /\ EpochOK(epoch[n])
    BY <1>1 DEF ChainInv, RunnerStep, RunnerInv
  <2>1. CASE epoch'[n].num = epoch[n].num /\ epoch'[n].prev = epoch[n].prev
    BY <2>0, <2>1 DEF Parented
  <2>2. CASE epoch'[n] = next_epoch(Opened(n)) /\ \E c \in certs' : Certifies(c, n)
    <3>1. epoch'[n].num = epoch[n].num + 1 /\ epoch'[n].prev = Opened(n).beacon
      BY <1>1, <2>2, OpenedFacts, NextEpochFacts
    <3>2. PICK c \in certs' : Certifies(c, n)
      BY <2>2
    <3>3. epoch[n].num \in Nat \ {0}
      BY <2>0 DEF EpochOK
    <3>4. QED
      BY <3>1, <3>2, <3>3 DEF Parented, Certifies
  <2>3. QED
    BY <1>1, <2>0, <2>1, <2>2, OpenedFacts, ProposedFacts DEF RunnerStep
<1>3. ASSUME NEW c \in certs'
      PROVE  IF c.epoch = 1 THEN c.settle.beacon.prev = Genesis
             ELSE \E b \in certs' : /\ b.by = c.by /\ b.epoch = c.epoch - 1
                                    /\ c.settle.beacon.prev = b.settle.beacon
  <2>1. CASE c \in certs
    BY <1>1, <2>1 DEF ChainInv, BeaconsChain, RunnerStep
  <2>2. CASE c \notin certs
    <3>1. PICK n \in Node : Certifies(c, n)
      BY <1>1, <2>2 DEF RunnerStep
    <3>2. c.settle.beacon.prev = epoch[n].prev
      BY <1>1, <3>1, OpenedFacts DEF Certifies, Committed
    <3>3. QED
      BY <1>1, <3>1, <3>2 DEF ChainInv, Parented, Certifies, RunnerStep
  <2>3. QED
    BY <2>1, <2>2
<1>4. QED
  BY <1>1, <1>2, <1>3 DEF ChainInv, BeaconsChain

(* Every certificate that close_and_settle_epoch issues settles under a    *)
(* beacon drawn from the one of the node's certificate before, with        *)
(* failed settles and late signals in between.                             *)
THEOREM BeaconsChainHolds == Spec => []BeaconsChain
<1>1. Init => ChainInv
  BY RunnerInvInit DEF Init, ChainInv, Parented, BeaconsChain, NewEpoch
<1>2. ChainInv => BeaconsChain
  BY DEF ChainInv
<1>3. QED
  BY <1>1, <1>2, ChainInvStep, PTL DEF Spec

-----------------------------------------------------------------------------
(* Rewards mature in time.                                                 *)

Tip == [height : Nat, trust : {"Untrusted", "LocalApplied", "FoldDecided"}]

MintInv ==
    /\ tip \in [Node -> Tip]
    /\ pending = [n \in Node |-> pending[n]]
    /\ \A n \in Node : \A x \in pending[n] : x.mint \in Nat
    /\ \A c \in certs : c.height \in Nat
    /\ NothingOverdue

(* What mature_rewards leaves is not due. *)
LEMMA MatureFacts ==
    ASSUME NEW n \in Node, NEW P, NEW h \in Nat, \A x \in P : x.mint \in Nat,
           pending = [m \in Node |-> pending[m]],
           mature_rewards(n, P, h)
    PROVE  /\ pending' = [m \in Node |-> pending'[m]]
           /\ \A m \in Node : m # n => pending'[m] = pending[m]
           /\ \A x \in pending'[n] : x.mint \in Nat /\ h < x.mint + Depth
<1>1. Depth \in Nat
  BY LiveAssumption
<1>2. pending' = [pending EXCEPT ![n] = P \ {x \in P : Due(x, h)}]
  BY DEF mature_rewards
<1>3. pending'[n] = P \ {x \in P : Due(x, h)}
  BY <1>2
<1>4. pending' = [m \in Node |-> pending'[m]] /\ \A m \in Node : m # n => pending'[m] = pending[m]
  BY <1>2
<1>5. \A x \in pending'[n] : x.mint \in Nat /\ h < x.mint + Depth
  BY <1>1, <1>3 DEF Due
<1>6. QED
  BY <1>4, <1>5

(* A step that lets the rewards of n mature at the height its tip then     *)
(* has, and that moves no other tip.                                       *)
LEMMA MatureStep ==
    ASSUME MintInv, NEW n \in Node, NEW P, \A x \in P : x.mint \in Nat,
           tip' \in [Node -> Tip], \A m \in Node : m # n => tip'[m] = tip[m],
           mature_rewards(n, P, tip'[n].height), \A c \in certs' : c.height \in Nat
    PROVE  MintInv'
<1>1. tip'[n].height \in Nat
  BY DEF Tip
<1>2. /\ pending' = [m \in Node |-> pending'[m]]
      /\ \A m \in Node : m # n => pending'[m] = pending[m]
      /\ \A x \in pending'[n] : x.mint \in Nat /\ tip'[n].height < x.mint + Depth
  BY <1>1, MatureFacts DEF MintInv
<1>3. QED
  BY <1>2 DEF MintInv, NothingOverdue, Heavy

(* The pending rewards after a receipt is credited. *)
LEMMA CreditedFacts ==
    ASSUME MintInv, NEW n \in Node, NEW r, NEW h \in Nat
    PROVE  \A x \in Credited(n, r, h) : x.mint \in Nat
<1>1. \A x \in pending[n] : x.mint \in Nat
  BY DEF MintInv
<1>2. QED
  BY <1>1 DEF Credited

(* Every step keeps minting heights and tips in order. *)
LEMMA MintInvStep == MintInv /\ [Next]_vars => MintInv'
<1> SUFFICES ASSUME MintInv, [Next]_vars PROVE MintInv'
  OBVIOUS
<1>0. /\ tip \in [Node -> Tip] /\ \A m \in Node : tip[m].height \in Nat
      /\ \A m \in Node : \A x \in pending[m] : x.mint \in Nat
      /\ \A c \in certs : c.height \in Nat
  BY DEF MintInv, Tip
<1>1. ASSUME UNCHANGED <<tip, pending, certs>> PROVE MintInv'
  BY <1>1 DEF MintInv, NothingOverdue
<1>2. ASSUME NEW n \in Node, NEW s, Ingest(n, s) PROVE MintInv'
  <2>1. tip' = [tip EXCEPT ![n] = seal_tip(tip[n].height + 1)] /\ certs' = certs
    BY <1>2 DEF Ingest, bump_tip
  <2>2. tip' \in [Node -> Tip] /\ tip'[n].height = tip[n].height + 1
    BY <1>0, <2>1 DEF Tip, seal_tip
  <2>3. mature_rewards(n, pending[n], tip'[n].height)
    BY <1>2, <2>2 DEF Ingest, bump_tip
  <2>4. QED
    BY <1>0, <2>1, <2>2, <2>3, MatureStep
<1>3. ASSUME NEW n \in Node, close_and_settle_epoch(n) PROVE MintInv'
  <2> DEFINE e == Opened(n)
             r == Receipt(e, peer_accs[n])
             c == issue_epoch_cert(n, e, r)
  <2>1. \/ UNCHANGED <<tip, pending, certs>>
        \/ /\ tip' = tip /\ certs' = certs \cup {c}
           /\ mature_rewards(n, Credited(n, r, tip[n].height), tip[n].height)
    BY <1>3 DEF close_and_settle_epoch, CreditAndMature
  <2>2. c.height = tip[n].height
    BY DEF issue_epoch_cert
  <2> HIDE DEF r, c
  <2>3. \A x \in Credited(n, r, tip[n].height) : x.mint \in Nat
    BY <1>0, CreditedFacts
  <2>4. QED
    BY <1>0, <1>1, <2>1, <2>2, <2>3, MatureStep
<1>4. ASSUME NEW n \in Node, NEW c \in certs, accept_epoch_cert(n, c) PROVE MintInv'
  <2>1. /\ tip' = [tip EXCEPT ![n] = AcceptedTip(n, c)] /\ certs' = certs
        /\ mature_rewards(n, Credited(n, c.settle, c.height), AcceptedTip(n, c).height)
    BY <1>4 DEF accept_epoch_cert, CreditAndMature
  <2>2. AcceptedTip(n, c) \in Tip
    BY <1>0 DEF AcceptedTip, from_local, Tip
  <2>3. tip' \in [Node -> Tip] /\ tip'[n] = AcceptedTip(n, c)
    BY <1>0, <2>1, <2>2
  <2>4. \A x \in Credited(n, c.settle, c.height) : x.mint \in Nat
    BY <1>0, CreditedFacts
  <2>5. QED
    BY <1>0, <2>1, <2>3, <2>4, MatureStep
<1>5. ASSUME NEW n \in Node, NEW h \in 0 .. MaxHeight, light_join(n, h) \/ light_advance(n, h)
      PROVE  MintInv'
  <2>1. n \in Light /\ UNCHANGED <<pending, certs>>
    BY <1>5 DEF light_join, light_advance
  <2>2. tip' \in [Node -> Tip] /\ \A m \in Node : m # n => tip'[m] = tip[m]
    <3>1. h \in Nat
      BY LiveAssumption
    <3>2. CASE light_join(n, h)
      BY <1>0, <3>1, <3>2 DEF light_join, seal_tip, Tip
    <3>3. CASE light_advance(n, h)
      BY <1>0, <3>1, <3>3 DEF light_advance, Tip
    <3>4. QED
      BY <1>5, <3>2, <3>3
  <2>3. QED
    BY <2>1, <2>2 DEF MintInv, NothingOverdue, Heavy
<1>6. ASSUME NEW n \in Node, link(n) PROVE MintInv'
  BY <1>2, <1>6 DEF link
<1>7. ASSUME NEW n \in Node, NEW s \in sent, ingest_signal(n, s) PROVE MintInv'
  BY <1>2, <1>7 DEF ingest_signal
<1>8. ASSUME NEW n \in Node, freeze_and_beacon(n) \/ mine_self_acc(n) PROVE MintInv'
  BY <1>1, <1>8 DEF freeze_and_beacon, mine_self_acc, node
<1>9. ASSUME NEW n \in Node, NEW a \in mined, absorb_peer_acc(n, a) PROVE MintInv'
  BY <1>1, <1>9 DEF absorb_peer_acc
<1>10. CASE UNCHANGED vars
  BY <1>1, <1>10 DEF vars
<1>11. QED
  BY <1>3, <1>4, <1>5, <1>6, <1>7, <1>8, <1>9, <1>10 DEF Next

(* They are at the start. *)
LEMMA MintInvInit == Init => MintInv
BY DEF Init, MintInv, NothingOverdue, Tip, untrusted, seal_tip, Heavy

(* mature_rewards runs wherever the tip of a full or cell node rises or a  *)
(* reward is credited, so nothing pending is ever due there.               *)
THEOREM NothingOverdueHolds == Spec => []NothingOverdue
<1>1. Init => MintInv
  BY MintInvInit
<1>2. MintInv => NothingOverdue
  BY DEF MintInv
<1>3. QED
  BY <1>1, <1>2, MintInvStep, PTL DEF Spec

-----------------------------------------------------------------------------
(* Signals are claimed once.                                               *)

(* A sequence of different elements of S. *)
Distinct(q, S) ==
    /\ q \in Seq(S) /\ IsFiniteSet(ToSet(q))
    /\ Len(q) = Cardinality(ToSet(q))

(* The claims of a node are different signals of its log. *)
ClaimInv ==
    /\ RunnerInv
    /\ signals = [n \in Node |-> signals[n]]
    /\ \A x \in claimed : x[1] \in Node /\ x[3] \in signals[x[1]]
    /\ \A n \in Node : Distinct(epoch[n].claims, signals[n])
    /\ ClaimedOnce

(* No claims are distinct claims. *)
LEMMA DistinctEmpty == ASSUME NEW S PROVE Distinct(<<>>, S)
<1>1. <<>> \in Seq(S) /\ ToSet(<<>>) = {} /\ Len(<<>>) = 0
  BY DEF ToSet
<1>2. IsFiniteSet({}) /\ Cardinality({}) = 0
  BY FS_EmptySet
<1>3. QED
  BY <1>1, <1>2 DEF Distinct

(* Claims stay distinct when more signals are known. *)
LEMMA DistinctGrown ==
    ASSUME NEW S, NEW T, S \subseteq T, NEW q, Distinct(q, S)
    PROVE  Distinct(q, T)
BY DEF Distinct

(* Appending an element that is new. *)
LEMMA DistinctAppend ==
    ASSUME NEW S, NEW q, Distinct(q, S), NEW s, s \notin S
    PROVE  Distinct(Append(q, s), S \cup {s})
<1> DEFINE T == S \cup {s}
           a == Append(q, s)
<1>1. q \in Seq(S) /\ IsFiniteSet(ToSet(q)) /\ Len(q) = Cardinality(ToSet(q))
  BY DEF Distinct
<1>2. q \in Seq(T) /\ s \in T
  BY <1>1
<1>3. /\ a \in Seq(T) /\ Len(a) = Len(q) + 1 /\ Len(q) \in Nat
      /\ DOMAIN q = 1 .. Len(q) /\ DOMAIN a = 1 .. Len(q) + 1
      /\ a[Len(q) + 1] = s /\ \A i \in 1 .. Len(q) : a[i] = q[i]
  BY <1>2
<1>4. ToSet(a) = ToSet(q) \cup {s}
  <2> HIDE DEF a
  <2>1. ASSUME NEW x \in ToSet(a) PROVE x \in ToSet(q) \cup {s}
    <3>1. PICK i \in 1 .. Len(q) + 1 : x = a[i]
      BY <1>3, <2>1 DEF ToSet
    <3>2. CASE i \in 1 .. Len(q)
      BY <1>3, <3>1, <3>2 DEF ToSet
    <3>3. CASE i = Len(q) + 1
      BY <1>3, <3>1, <3>3
    <3>4. QED
      BY <1>3, <3>1, <3>2, <3>3
  <2>2. ASSUME NEW x \in ToSet(q) PROVE x \in ToSet(a)
    <3>1. PICK i \in 1 .. Len(q) : x = q[i]
      BY <1>3, <2>2 DEF ToSet
    <3>2. x = a[i] /\ i \in 1 .. Len(q) + 1
      BY <1>3, <3>1
    <3>3. QED
      BY <1>3, <3>2 DEF ToSet
  <2>3. s \in ToSet(a)
    <3>1. Len(q) + 1 \in DOMAIN a
      BY <1>3
    <3>2. QED
      BY <1>3, <3>1 DEF ToSet
  <2>4. QED
    BY <2>1, <2>2, <2>3
<1>5. s \notin ToSet(q)
  BY <1>1 DEF ToSet
<1>6. IsFiniteSet(ToSet(a)) /\ Cardinality(ToSet(a)) = Cardinality(ToSet(q)) + 1
  BY <1>1, <1>4, <1>5, FS_AddElement
<1>7. QED
  BY <1>1, <1>3, <1>6 DEF Distinct

(* A step that logs no signal keeps or empties the claims. *)
LEMMA ClaimsKept ==
    ASSUME ClaimInv, RunnerInv', UNCHANGED <<signals, claimed>>,
           \A n \in Node : epoch'[n].claims \in {epoch[n].claims, <<>>}
    PROVE  ClaimInv'
<1>1. \A n \in Node : Distinct(epoch'[n].claims, signals'[n])
  BY DistinctEmpty DEF ClaimInv
<1>2. QED
  BY <1>1 DEF ClaimInv, ClaimedOnce, Distinct

(* A signal with an id that the log does not have is logged, and claimed   *)
(* if the window is open.                                                  *)
LEMMA ClaimsAdded ==
    ASSUME ClaimInv, RunnerInv', NEW n \in Node, NEW s, ~ Logged(n, s), Ingest(n, s)
    PROVE  ClaimInv'
<1>0. s.id \notin {x.id : x \in signals[n]}
  BY DEF Logged, Ids
<1>1. s \notin signals[n]
  BY <1>0
<1>2. signals' = [signals EXCEPT ![n] = @ \cup {s}]
  BY DEF Ingest
<1>3. /\ signals' = [m \in Node |-> signals'[m]]
      /\ signals'[n] = signals[n] \cup {s}
      /\ \A m \in Node : m # n => signals'[m] = signals[m]
  BY <1>2 DEF ClaimInv
<1>4. CASE Proposes(epoch[n])
  <2>1. /\ epoch' = [epoch EXCEPT ![n] = Claiming(epoch[n], Append(epoch[n].claims, s))]
        /\ claimed' = claimed \cup {<<n, epoch[n].num, s>>}
    BY <1>4 DEF Ingest, Claiming
  <2>2. epoch'[n].claims = Append(epoch[n].claims, s)
    <3>1. EpochOK(epoch[n]) /\ epoch = [m \in Node |-> epoch[m]]
      BY DEF ClaimInv, RunnerInv
    <3> DEFINE c == Append(epoch[n].claims, s)
    <3>2. epoch'[n] = Claiming(epoch[n], c)
      BY <2>1, <3>1
    <3> HIDE DEF c
    <3>3. epoch'[n].claims = c
      BY <3>1, <3>2, ProposedFacts
    <3>4. QED
      BY <3>3 DEF c
  <2>3. \A m \in Node : m # n => epoch'[m] = epoch[m]
    <3>1. epoch = [m \in Node |-> epoch[m]]
      BY DEF ClaimInv, RunnerInv
    <3>2. QED
      BY <2>1, <3>1
  <2>4. ASSUME NEW m \in Node PROVE Distinct(epoch'[m].claims, signals'[m])
    <3>1. CASE m = n
      <4>1. Distinct(Append(epoch[n].claims, s), signals[n] \cup {s})
        BY <1>1, DistinctAppend DEF ClaimInv
      <4>2. QED
        BY <1>3, <2>2, <3>1, <4>1
    <3>2. CASE m # n
      BY <1>3, <2>3, <3>2 DEF ClaimInv
    <3>3. QED
      BY <3>1, <3>2
  <2>5. \A x \in claimed' : x[1] \in Node /\ x[3] \in signals'[x[1]]
    BY <1>3, <2>1 DEF ClaimInv
  <2>6. ASSUME NEW x \in claimed', NEW y \in claimed', x[1] = y[1], x[3].id = y[3].id
        PROVE  x = y
    <3>1. \A z \in claimed : z[1] = n => z[3].id # s.id
      BY <1>0 DEF ClaimInv
    <3>2. QED
      BY <2>1, <2>6, <3>1 DEF ClaimInv, ClaimedOnce
  <2>7. QED
    BY <1>3, <2>4, <2>5, <2>6 DEF ClaimInv, ClaimedOnce, Distinct
<1>5. CASE ~ Proposes(epoch[n])
  <2>1. epoch' = epoch /\ claimed' = claimed
    BY <1>5 DEF Ingest
  <2>2. ASSUME NEW m \in Node PROVE Distinct(epoch'[m].claims, signals'[m])
    <3>1. signals[m] \subseteq signals'[m]
      BY <1>3
    <3>2. QED
      BY <2>1, <3>1, DistinctGrown DEF ClaimInv
  <2>3. QED
    BY <1>3, <2>1, <2>2 DEF ClaimInv, ClaimedOnce, Distinct
<1>6. QED
  BY <1>4, <1>5

(* Every step keeps the claims of an epoch distinct. *)
LEMMA ClaimInvStep == ClaimInv /\ [Next]_vars => ClaimInv'
<1> SUFFICES ASSUME ClaimInv, [Next]_vars PROVE ClaimInv'
  OBVIOUS
<1>0. RunnerInv /\ RunnerInv' /\ epoch = [m \in Node |-> epoch[m]]
  BY RunnerStepHolds, RunnerInvStep DEF ClaimInv, RunnerInv
<1>1. ASSUME UNCHANGED <<signals, claimed, epoch>> PROVE ClaimInv'
  BY <1>0, <1>1, ClaimsKept
<1>2. ASSUME NEW n \in Node, freeze_and_beacon(n) PROVE ClaimInv'
  <2>1. epoch' = [epoch EXCEPT ![n] = Opened(n)] /\ UNCHANGED <<signals, claimed>>
    BY <1>2 DEF freeze_and_beacon
  <2>2. \A m \in Node : epoch'[m].claims = epoch[m].claims
    BY <1>0, <2>1, OpenedFacts
  <2>3. QED
    BY <1>0, <2>1, <2>2, ClaimsKept
<1>3. ASSUME NEW n \in Node, close_and_settle_epoch(n) PROVE ClaimInv'
  <2>1. /\ \/ epoch' = [epoch EXCEPT ![n] = Opened(n)]
           \/ epoch' = [epoch EXCEPT ![n] = next_epoch(Opened(n))]
        /\ UNCHANGED <<signals, claimed>>
    BY <1>3 DEF close_and_settle_epoch
  <2>2. next_epoch(Opened(n)).claims = <<>>
    BY DEF next_epoch, NewEpoch
  <2>3. \A m \in Node : epoch'[m].claims \in {epoch[m].claims, <<>>}
    BY <1>0, <2>1, <2>2, OpenedFacts
  <2>4. QED
    BY <1>0, <2>1, <2>3, ClaimsKept
<1>4. ASSUME NEW n \in Node, link(n) PROVE ClaimInv'
  BY <1>0, <1>4, ClaimsAdded DEF link
<1>5. ASSUME NEW n \in Node, NEW s \in sent, ingest_signal(n, s) PROVE ClaimInv'
  BY <1>0, <1>5, ClaimsAdded DEF ingest_signal
<1>6. ASSUME NEW n \in Node, mine_self_acc(n) PROVE ClaimInv'
  BY <1>1, <1>6 DEF mine_self_acc, node
<1>7. ASSUME NEW n \in Node, NEW a \in mined, absorb_peer_acc(n, a) PROVE ClaimInv'
  BY <1>1, <1>7 DEF absorb_peer_acc
<1>8. ASSUME NEW n \in Node, NEW c \in certs, accept_epoch_cert(n, c) PROVE ClaimInv'
  BY <1>1, <1>8 DEF accept_epoch_cert
<1>9. ASSUME NEW n \in Node, NEW h \in 0 .. MaxHeight, light_join(n, h) \/ light_advance(n, h)
      PROVE  ClaimInv'
  BY <1>1, <1>9 DEF light_join, light_advance
<1>10. CASE UNCHANGED vars
  BY <1>1, <1>10 DEF vars
<1>11. QED
  BY <1>2, <1>3, <1>4, <1>5, <1>6, <1>7, <1>8, <1>9, <1>10 DEF Next

(* They are at the start. *)
LEMMA ClaimInvInit == Init => ClaimInv
<1> SUFFICES ASSUME Init PROVE ClaimInv
  OBVIOUS
<1>1. \A n \in Node : epoch[n].claims = <<>>
  BY DEF Init, NewEpoch
<1>2. \A n \in Node : Distinct(epoch[n].claims, signals[n])
  BY <1>1, DistinctEmpty
<1>3. RunnerInv /\ signals = [n \in Node |-> signals[n]] /\ claimed = {}
  BY RunnerInvInit DEF Init
<1>4. QED
  BY <1>2, <1>3 DEF ClaimInv, ClaimedOnce, Distinct

(* The log of ingest_signal is what keeps a signal from being claimed a    *)
(* second time, in its epoch or in a later one.                            *)
THEOREM ClaimedOnceHolds == Spec => []ClaimedOnce
<1>1. Init => ClaimInv
  BY ClaimInvInit
<1>2. ClaimInv => ClaimedOnce
  BY DEF ClaimInv
<1>3. QED
  BY <1>1, <1>2, ClaimInvStep, PTL DEF Spec
-----------------------------------------------------------------------------
(* Rewards are conserved.                                                  *)

Neuron == {NeuronOf[n] : n \in Node}

Signal == [id : Nat \X Neuron, neuron : Neuron, by : Node]

(* The weight of a claim is a u128, whatever SelfAccs were folded in. *)
WeightsNatural == \A c \in Signal : \A A : \A accs \in Seq(A) : Weight(c, accs) \in Nat

(* A receipt pays every neuron a natural number. *)
Pays(h) == \A u : share_of(h, u) \in Nat

Earned(C, u) == Total([h \in C |-> share_of(h, u)], C)

(* The account of a node: what is pending belongs to receipts it credited, *)
(* and with what has matured it is what they give its neuron.              *)
Account(P, C, m, u) ==
    /\ IsFiniteSet(P) /\ IsFiniteSet(C) /\ m \in Nat
    /\ \A x \in P : x.amount \in Nat \ {0} /\ x.receipt \in C
    /\ \A h \in C : Pays(h)
    /\ m + Owed(P) = Earned(C, u)

(* The functions Owed and Earned sum. *)
LEMMA OwedFacts ==
    ASSUME NEW P, IsFiniteSet(P), \A x \in P : x.amount \in Nat, NEW T \in SUBSET P
    PROVE  Owed(T) = Total([x \in P |-> x.amount], T) /\ Owed(T) \in Nat
<1> DEFINE f == [x \in T |-> x.amount]
           g == [x \in P |-> x.amount]
<1>1. f \in [T -> Nat] /\ g \in [P -> Nat] /\ \A x \in T : f[x] = g[x]
  OBVIOUS
<1>2. IsFiniteSet(T) /\ T \in SUBSET (T \cap P) /\ T \in SUBSET T
  BY FS_Subset
<1>3. Owed(T) = Total(f, T)
  BY DEF Owed
<1> HIDE DEF f, g
<1>4. Total(f, T) = Total(g, T) /\ Total(f, T) \in Nat
  BY <1>1, <1>2, TotalSame, TotalFacts
<1>5. QED
  BY <1>3, <1>4 DEF g

(* What a neuron earned by some of the receipts, as a sum over these. *)
LEMMA EarnedFacts ==
    ASSUME NEW C, IsFiniteSet(C), \A h \in C : Pays(h), NEW u, NEW T \in SUBSET C
    PROVE  Earned(T, u) = Total([h \in C |-> share_of(h, u)], T) /\ Earned(T, u) \in Nat
<1> DEFINE f == [h \in T |-> share_of(h, u)]
           g == [h \in C |-> share_of(h, u)]
<1>1. f \in [T -> Nat] /\ g \in [C -> Nat] /\ \A x \in T : f[x] = g[x]
  BY DEF Pays
<1>2. IsFiniteSet(T) /\ T \in SUBSET (T \cap C) /\ T \in SUBSET T
  BY FS_Subset
<1>3. Earned(T, u) = Total(f, T)
  BY DEF Earned
<1> HIDE DEF f, g
<1>4. Total(f, T) = Total(g, T) /\ Total(f, T) \in Nat
  BY <1>1, <1>2, TotalSame, TotalFacts
<1>5. QED
  BY <1>3, <1>4 DEF g

(* Rewards that mature go from what is pending to what has matured. *)
LEMMA AccountMatures ==
    ASSUME NEW P, NEW C, NEW m, NEW u, Account(P, C, m, u), NEW due \in SUBSET P
    PROVE  Account(P \ due, C, m + Owed(due), u)
<1> DEFINE g == [x \in P |-> x.amount]
           rest == P \ due
<1>1. /\ IsFiniteSet(P) /\ IsFiniteSet(C) /\ m \in Nat
      /\ \A x \in P : x.amount \in Nat /\ x.amount \in Nat \ {0} /\ x.receipt \in C
      /\ \A h \in C : Pays(h)
      /\ m + Owed(P) = Earned(C, u)
  BY DEF Account
<1>2. g \in [P -> Nat]
  BY <1>1
<1>3. rest \in SUBSET P /\ P \in SUBSET P /\ IsFiniteSet(rest)
  BY <1>1, FS_Subset
<1>4. /\ Owed(P) = Total(g, P) /\ Owed(due) = Total(g, due) /\ Owed(due) \in Nat
      /\ Owed(rest) = Total(g, rest) /\ Owed(rest) \in Nat
  BY <1>1, <1>3, OwedFacts
<1> HIDE DEF g
<1>5. Total(g, P) = Total(g, due) + Total(g, P \ due)
  BY <1>1, <1>2, <1>3, TotalPart
<1>6. m + Owed(due) + Owed(rest) = Earned(C, u) /\ m + Owed(due) \in Nat
  BY <1>1, <1>4, <1>5
<1>7. QED
  BY <1>1, <1>3, <1>6 DEF Account

(* A receipt that is credited for the first time adds what it pays; one    *)
(* that was credited, or that pays nothing, adds nothing.                  *)
LEMMA AccountCredits ==
    ASSUME NEW P, NEW C, NEW m, NEW u, Account(P, C, m, u), NEW h, Pays(h), NEW mint,
           NEW Q, Q = IF h \in C \/ share_of(h, u) = 0 THEN P
                      ELSE P \cup {[amount |-> share_of(h, u), receipt |-> h, mint |-> mint]}
    PROVE  Account(Q, C \cup {h}, m, u)
<1> DEFINE s == share_of(h, u)
           x == [amount |-> s, receipt |-> h, mint |-> mint]
           B == C \cup {h}
           k == [c \in B |-> share_of(c, u)]
<1>1. /\ IsFiniteSet(P) /\ IsFiniteSet(C) /\ m \in Nat
      /\ \A y \in P : y.amount \in Nat \ {0} /\ y.receipt \in C
      /\ \A c \in C : Pays(c)
      /\ m + Owed(P) = Earned(C, u)
  BY DEF Account
<1>2. s \in Nat
  BY DEF Pays
<1>3. CASE h \in C
  <2>1. Q = P /\ B = C
    BY <1>3
  <2>2. QED
    BY <2>1
<1>4. CASE h \notin C
  <2>1. IsFiniteSet(B) /\ (\A c \in B : Pays(c)) /\ C \in SUBSET B /\ B \in SUBSET B /\ h \in B \ C
    BY <1>1, <1>4, FS_AddElement
  <2>2. k \in [B -> Nat] /\ k[h] = s
    BY <2>1 DEF Pays
  <2>3. Earned(B, u) = Total(k, B) /\ Earned(C, u) = Total(k, C) /\ Earned(C, u) \in Nat
    BY <2>1, EarnedFacts
  <2> HIDE DEF k
  <2>4. Total(k, C \cup {h}) = Total(k, C) + k[h]
    <3>1. \A y \in B \ C : Total(k, C \cup {y}) = Total(k, C) + k[y]
      BY <1>1, <2>1, <2>2, TotalFacts
    <3>2. QED
      BY <2>1, <3>1
  <2>5. Earned(B, u) = Earned(C, u) + s
    BY <2>2, <2>3, <2>4
  <2>6. IsFiniteSet(Q) /\ (\A y \in Q : y.amount \in Nat \ {0} /\ y.receipt \in B)
        /\ Owed(Q) = Owed(P) + s /\ Owed(P) \in Nat
    <3>0. (\A y \in P : y.amount \in Nat) /\ P \in SUBSET P
      BY <1>1
    <3>1. Owed(P) \in Nat
      BY <1>1, <3>0, OwedFacts
    <3>2. CASE s = 0
      BY <1>1, <3>1, <3>2
    <3>3. CASE s # 0
      <4>1. Q = P \cup {x} /\ x.amount = s /\ x.receipt = h
        BY <1>4, <3>3
      <4> HIDE DEF x
      <4>2. x \notin P
        BY <1>1, <1>4, <4>1
      <4>3. IsFiniteSet(Q) /\ \A y \in Q : y.amount \in Nat \ {0} /\ y.receipt \in B
        BY <1>1, <1>2, <3>3, <4>1, FS_AddElement
      <4> DEFINE g == [y \in Q |-> y.amount]
      <4>4. g \in [Q -> Nat] /\ g[x] = s /\ P \in SUBSET Q /\ Q \in SUBSET Q /\ x \in Q \ P
            /\ \A y \in Q : y.amount \in Nat
        BY <4>1, <4>2, <4>3
      <4>5. Owed(Q) = Total(g, Q) /\ Owed(P) = Total(g, P)
        BY <4>3, <4>4, OwedFacts
      <4> HIDE DEF g
      <4>6. \A y \in Q \ P : Total(g, P \cup {y}) = Total(g, P) + g[y]
        BY <1>1, <4>4, TotalFacts
      <4>7. QED
        BY <3>1, <4>1, <4>3, <4>4, <4>5, <4>6
    <3>4. QED
      BY <3>2, <3>3
  <2>7. m + Owed(Q) = Earned(B, u)
    BY <1>1, <1>2, <2>3, <2>5, <2>6
  <2>8. QED
    BY <1>1, <2>1, <2>6, <2>7 DEF Account
<1>5. QED
  BY <1>3, <1>4
(* What a settled epoch pays is natural: allocate_budget never gives out   *)
(* more than there is.                                                     *)
LEMMA ReceiptPays ==
    ASSUME WeightsNatural, NEW e, e.claims \in Seq(Signal), NEW A, NEW accs \in Seq(A),
           TotalOf(Weights(e, accs)) > 0
    PROVE  Pays(receipt_hash(Receipt(e, accs)))
<1> DEFINE D == DOMAIN e.claims
           w == Weights(e, accs)
           amount == allocate_budget(w, Budget)
           shares == [i \in D |-> [neuron |-> e.claims[i].neuron, amount |-> amount[i]]]
           Share == [neuron : Neuron, amount : Nat]
           U == {s.neuron : s \in ToSet(shares)}
           h == receipt_hash(Receipt(e, accs))
<1>1. D = 1 .. Len(e.claims) /\ Len(e.claims) \in Nat /\ \A i \in D : e.claims[i] \in Signal
  OBVIOUS
<1>2. w \in Seq(Nat) /\ DOMAIN w = D
  <2>1. w = [i \in D |-> Weight(e.claims[i], accs)]
    BY DEF Weights
  <2>2. \A i \in D : Weight(e.claims[i], accs) \in Nat
    BY <1>1 DEF WeightsNatural
  <2>3. w \in [D -> Nat]
    BY <2>1, <2>2
  <2> HIDE DEF w
  <2>4. QED
    BY <1>1, <2>3
<1> HIDE DEF w
<1>3. amount \in [D -> Nat]
  <2>1. Budget \in Nat /\ TotalOf(w) > 0
    BY LiveAssumption DEF w
  <2>2. Fair(amount, w, Budget)
    BY <1>2, <2>1, AllocateFacts
  <2> HIDE DEF amount
  <2>3. QED
    BY <1>2, <2>2 DEF Fair
<1>4. Receipt(e, accs) = [epoch |-> e.num, beacon |-> e.beacon, shares |-> shares]
  BY DEF Receipt, w
<1> HIDE DEF amount
<1>5. shares \in Seq(Share) /\ DOMAIN shares = D
  <2>1. \A i \in D : [neuron |-> e.claims[i].neuron, amount |-> amount[i]] \in Share
    BY <1>1, <1>3 DEF Signal
  <2>2. shares \in [D -> Share]
    BY <2>1
  <2> HIDE DEF shares, Share
  <2>3. QED
    BY <1>1, <2>2
<1> HIDE DEF shares, D
<1>6. h.shares = [u \in U |-> SharesOf(shares, u)]
  <2>1. Receipt(e, accs).shares = shares
    BY <1>4
  <2>2. QED
    BY <2>1 DEF receipt_hash
<1> HIDE DEF h
<1>7. SUFFICES ASSUME NEW u PROVE share_of(h, u) \in Nat
  BY DEF Pays, h
<1>8. CASE u \notin U
  BY <1>6, <1>8 DEF share_of
<1>9. CASE u \in U
  <2> DEFINE K == {i \in DOMAIN shares : shares[i].neuron = u}
             q == Chosen(shares, K)
  <2>1. share_of(h, u) = Head(q).amount
    BY <1>6, <1>9 DEF share_of, SharesOf
  <2>2. PICK i \in DOMAIN shares : shares[i].neuron = u
    BY <1>9 DEF ToSet
  <2>3. i \in K \cap DOMAIN shares
    BY <2>2
  <2> HIDE DEF Share, K
  <2>4. q \in Seq(Share) /\ ToSet(q) = {shares[k] : k \in K \cap DOMAIN shares}
    BY <1>5, ChosenFacts
  <2> HIDE DEF q
  <2>5. ToSet(q) # {}
    BY <2>3, <2>4
  <2>6. q # <<>>
    BY <2>5 DEF ToSet
  <2>7. Head(q) \in Share
    BY <2>4, <2>6
  <2>8. QED
    BY <2>1, <2>7 DEF Share
<1>10. QED
  BY <1>8, <1>9

(* The inductive invariant: the types of what is sent around and the       *)
(* accounts.                                                               *)
SignalsOK == sent \subseteq Signal /\ \A n \in Node : signals[n] \subseteq sent /\ IsFiniteSet(signals[n])

AccsOK == peer_accs \in [Node -> Seq(mined)]

CertsOK == \A c \in certs : Pays(receipt_hash(c.settle))

AccountsOK ==
    /\ pending = [n \in Node |-> pending[n]]
    /\ credited = [n \in Node |-> credited[n]]
    /\ matured = [n \in Node |-> matured[n]]
    /\ \A n \in Node : Account(pending[n], credited[n], matured[n], NeuronOf[n])

PayInv == ClaimInv /\ MintInv /\ SignalsOK /\ AccsOK /\ CertsOK /\ AccountsOK

(* Rewards mature at a node whose account was right before. *)
LEMMA MaturesRight ==
    ASSUME AccountsOK, NEW n \in Node, NEW P, NEW C, NEW h,
           Account(P, C, matured[n], NeuronOf[n]), mature_rewards(n, P, h),
           credited' = [credited EXCEPT ![n] = C]
    PROVE  AccountsOK'
<1> DEFINE due == {x \in P : Due(x, h)}
<1>1. pending' = [pending EXCEPT ![n] = P \ due] /\ matured' = [matured EXCEPT ![n] = @ + Owed(due)]
  BY DEF mature_rewards
<1>2. Account(P \ due, C, matured[n] + Owed(due), NeuronOf[n])
  BY AccountMatures
<1> HIDE DEF due
<1>3. /\ pending = [m \in Node |-> pending[m]] /\ credited = [m \in Node |-> credited[m]]
      /\ matured = [m \in Node |-> matured[m]]
  BY DEF AccountsOK
<1>4. /\ pending'[n] = P \ due /\ credited'[n] = C /\ matured'[n] = matured[n] + Owed(due)
      /\ \A m \in Node : m # n => /\ pending'[m] = pending[m] /\ credited'[m] = credited[m]
                                  /\ matured'[m] = matured[m]
  BY <1>1, <1>3
<1>5. /\ pending' = [m \in Node |-> pending'[m]] /\ credited' = [m \in Node |-> credited'[m]]
      /\ matured' = [m \in Node |-> matured'[m]]
  BY <1>1, <1>3
<1>6. ASSUME NEW m \in Node PROVE Account(pending'[m], credited'[m], matured'[m], NeuronOf[m])
  <2>1. CASE m = n
    BY <1>2, <1>4, <2>1
  <2>2. CASE m # n
    BY <1>4, <2>2 DEF AccountsOK
  <2>3. QED
    BY <2>1, <2>2
<1>7. QED
  BY <1>5, <1>6 DEF AccountsOK

(* A receipt that is credited once, and what matures with it, keep every   *)
(* account balanced.                                                       *)
LEMMA CreditsRight ==
    ASSUME AccountsOK, NEW n \in Node, NEW r, Pays(receipt_hash(r)), NEW mint, NEW h,
           CreditAndMature(n, r, mint, h)
    PROVE  AccountsOK'
<1> DEFINE c == receipt_hash(r)
           P == Credited(n, r, mint)
           C == credited[n] \cup {c}
<1>1. credited' = [credited EXCEPT ![n] = C] /\ mature_rewards(n, P, h)
  BY DEF CreditAndMature
<1>2. P = IF c \in credited[n] \/ share_of(c, NeuronOf[n]) = 0 THEN pending[n]
          ELSE pending[n] \cup {[amount |-> share_of(c, NeuronOf[n]), receipt |-> c, mint |-> mint]}
  BY DEF Credited
<1>3. Account(pending[n], credited[n], matured[n], NeuronOf[n]) /\ Pays(c)
  BY DEF AccountsOK
<1> HIDE DEF c, P
<1>4. Account(P, C, matured[n], NeuronOf[n])
  BY <1>2, <1>3, AccountCredits
<1> HIDE DEF C
<1>5. QED
  BY <1>1, <1>4, MaturesRight

(* What leaves the accounts alone. *)
LEMMA AccountsStay == ASSUME AccountsOK, UNCHANGED <<pending, credited, matured>> PROVE AccountsOK'
  BY DEF AccountsOK

(* A signal is logged; the tip rises and rewards mature. *)
LEMMA IngestPays ==
    ASSUME PayInv, NEW n \in Node, NEW s \in sent', sent \subseteq sent', sent' \subseteq Signal,
           Ingest(n, s)
    PROVE  SignalsOK' /\ AccsOK' /\ CertsOK' /\ AccountsOK'
<1>1. /\ signals' = [signals EXCEPT ![n] = @ \cup {s}] /\ bump_tip(n)
      /\ peer_accs' = peer_accs /\ credited' = credited /\ mined' = mined /\ certs' = certs
  BY DEF Ingest
<1>2. signals = [m \in Node |-> signals[m]]
  BY DEF PayInv, ClaimInv
<1>3. ASSUME NEW m \in Node PROVE signals'[m] \subseteq sent' /\ IsFiniteSet(signals'[m])
  <2>1. signals'[m] \in {signals[m], signals[m] \cup {s}}
    BY <1>1, <1>2
  <2>2. signals[m] \subseteq sent /\ IsFiniteSet(signals[m])
    BY DEF PayInv, SignalsOK
  <2>3. IsFiniteSet(signals[m] \cup {s})
    BY <2>2, FS_AddElement
  <2>4. QED
    BY <2>1, <2>2, <2>3
<1>4. AccountsOK'
  <2>1. AccountsOK /\ Account(pending[n], credited[n], matured[n], NeuronOf[n])
        /\ credited = [m \in Node |-> credited[m]]
    BY DEF PayInv, AccountsOK
  <2>2. credited' = [credited EXCEPT ![n] = credited[n]]
    BY <1>1, <2>1
  <2>3. mature_rewards(n, pending[n], tip[n].height + 1)
    BY <1>1 DEF bump_tip
  <2>4. QED
    BY <2>1, <2>2, <2>3, MaturesRight
<1>5. AccsOK' /\ CertsOK'
  BY <1>1 DEF PayInv, AccsOK, CertsOK
<1>6. QED
  BY <1>3, <1>4, <1>5 DEF SignalsOK
(* The epoch that is closed has signals as claims. *)
LEMMA ClosedPays ==
    ASSUME WeightsNatural, PayInv, NEW n \in Node, TotalOf(Weights(Opened(n), peer_accs[n])) > 0
    PROVE  Pays(receipt_hash(Receipt(Opened(n), peer_accs[n])))
<1>1. RunnerInv /\ Distinct(epoch[n].claims, signals[n])
  BY DEF PayInv, ClaimInv
<1>2. Opened(n).claims \in Seq(signals[n])
  BY <1>1, OpenedFacts DEF Distinct
<1>3. signals[n] \subseteq Signal /\ peer_accs[n] \in Seq(mined)
  BY DEF PayInv, SignalsOK, AccsOK
<1>4. Opened(n).claims \in Seq(Signal)
  BY <1>2, <1>3
<1>5. QED
  BY <1>3, <1>4, ReceiptPays

(* Every step keeps the accounts balanced. *)
LEMMA PayInvStep == WeightsNatural /\ PayInv /\ [Next]_vars => PayInv'
<1> SUFFICES ASSUME WeightsNatural, PayInv, [Next]_vars PROVE PayInv'
  OBVIOUS
<1>0. /\ ClaimInv' /\ MintInv' /\ SignalsOK /\ AccsOK /\ CertsOK /\ AccountsOK
      /\ sent \subseteq Signal
  BY ClaimInvStep, MintInvStep DEF PayInv, SignalsOK
<1> SUFFICES SignalsOK' /\ AccsOK' /\ CertsOK' /\ AccountsOK'
  BY <1>0 DEF PayInv
<1>1. ASSUME UNCHANGED <<signals, sent, peer_accs, mined, certs, pending, credited, matured>>
      PROVE  SignalsOK' /\ AccsOK' /\ CertsOK' /\ AccountsOK'
  BY <1>0, <1>1, AccountsStay DEF SignalsOK, AccsOK, CertsOK
<1>2. ASSUME NEW n \in Node, link(n) PROVE SignalsOK' /\ AccsOK' /\ CertsOK' /\ AccountsOK'
  <2> DEFINE c == Cardinality(signals[n])
             s == [id |-> <<c + 1, NeuronOf[n]>>, neuron |-> NeuronOf[n], by |-> n]
  <2>1. Ingest(n, s) /\ sent' = sent \cup {s}
    BY <1>2 DEF link
  <2>2. c \in Nat
    BY <1>0, FS_CardinalityType DEF SignalsOK
  <2> HIDE DEF c
  <2>3. s \in Signal
    BY <2>2 DEF Signal, Neuron
  <2> HIDE DEF s
  <2>4. s \in sent' /\ sent \subseteq sent' /\ sent' \subseteq Signal
    BY <1>0, <2>1, <2>3
  <2>5. QED
    BY <2>1, <2>4, IngestPays
<1>3. ASSUME NEW n \in Node, NEW s \in sent, ingest_signal(n, s)
      PROVE  SignalsOK' /\ AccsOK' /\ CertsOK' /\ AccountsOK'
  <2>1. Ingest(n, s) /\ sent' = sent
    BY <1>3 DEF ingest_signal
  <2>2. s \in sent' /\ sent \subseteq sent' /\ sent' \subseteq Signal
    BY <1>0, <2>1
  <2>3. QED
    BY <2>1, <2>2, IngestPays
<1>4. ASSUME NEW n \in Node, freeze_and_beacon(n)
      PROVE  SignalsOK' /\ AccsOK' /\ CertsOK' /\ AccountsOK'
  BY <1>1, <1>4 DEF freeze_and_beacon
<1>5. ASSUME NEW n \in Node, mine_self_acc(n)
      PROVE  SignalsOK' /\ AccsOK' /\ CertsOK' /\ AccountsOK'
  <2>1. /\ mined \subseteq mined'
        /\ UNCHANGED <<signals, sent, peer_accs, certs, pending, credited, matured>>
    BY <1>5 DEF mine_self_acc, node
  <2>2. AccsOK'
    BY <1>0, <2>1 DEF AccsOK
  <2>3. QED
    BY <1>0, <2>1, <2>2, AccountsStay DEF SignalsOK, CertsOK
<1>6. ASSUME NEW n \in Node, NEW a \in mined, absorb_peer_acc(n, a)
      PROVE  SignalsOK' /\ AccsOK' /\ CertsOK' /\ AccountsOK'
  <2>1. /\ peer_accs' = [peer_accs EXCEPT ![n] = Append(@, a)]
        /\ UNCHANGED <<signals, sent, mined, certs, pending, credited, matured>>
    BY <1>6 DEF absorb_peer_acc
  <2>2. AccsOK'
    <3>1. Append(peer_accs[n], a) \in Seq(mined)
      BY <1>0, <1>6 DEF AccsOK
    <3>2. QED
      BY <1>0, <2>1, <3>1 DEF AccsOK
  <2>3. QED
    BY <1>0, <2>1, <2>2, AccountsStay DEF SignalsOK, CertsOK
<1>7. ASSUME NEW n \in Node, close_and_settle_epoch(n)
      PROVE  SignalsOK' /\ AccsOK' /\ CertsOK' /\ AccountsOK'
  <2> DEFINE e == Opened(n)
             r == Receipt(e, peer_accs[n])
             t == TotalOf(Weights(e, peer_accs[n]))
             c == issue_epoch_cert(n, e, r)
  <2>1. UNCHANGED <<signals, sent, mined>>
    BY <1>7 DEF close_and_settle_epoch
  <2>2. \/ UNCHANGED <<peer_accs, pending, credited, matured, certs>>
        \/ /\ t > 0 /\ certs' = certs \cup {c}
           /\ CreditAndMature(n, r, tip[n].height, tip[n].height)
           /\ peer_accs' = [peer_accs EXCEPT ![n] = <<>>]
    BY <1>7 DEF close_and_settle_epoch
  <2>3. CASE UNCHANGED <<peer_accs, pending, credited, matured, certs>>
    BY <1>1, <2>1, <2>3
  <2>4. CASE /\ t > 0 /\ certs' = certs \cup {c}
             /\ CreditAndMature(n, r, tip[n].height, tip[n].height)
             /\ peer_accs' = [peer_accs EXCEPT ![n] = <<>>]
    <3>1. Pays(receipt_hash(r))
      BY <2>4, ClosedPays
    <3>2. c.settle = r
      BY DEF issue_epoch_cert
    <3> HIDE DEF r, c, e, t
    <3>3. CertsOK'
      BY <1>0, <2>4, <3>1, <3>2 DEF CertsOK
    <3>4. AccountsOK'
      BY <1>0, <2>4, <3>1, CreditsRight
    <3>5. AccsOK'
      <4>1. <<>> \in Seq(mined)
        OBVIOUS
      <4>2. QED
        BY <1>0, <2>1, <2>4, <4>1 DEF AccsOK
    <3>6. SignalsOK'
      BY <1>0, <2>1 DEF SignalsOK
    <3>7. QED
      BY <3>3, <3>4, <3>5, <3>6
  <2>5. QED
    BY <2>2, <2>3, <2>4
<1>8. ASSUME NEW n \in Node, NEW c \in certs, accept_epoch_cert(n, c)
      PROVE  SignalsOK' /\ AccsOK' /\ CertsOK' /\ AccountsOK'
  <2>1. /\ CreditAndMature(n, c.settle, c.height, AcceptedTip(n, c).height)
        /\ UNCHANGED <<signals, peer_accs, sent, mined, certs>>
    BY <1>8 DEF accept_epoch_cert
  <2>2. Pays(receipt_hash(c.settle))
    BY <1>0 DEF CertsOK
  <2>3. AccountsOK'
    BY <1>0, <2>1, <2>2, CreditsRight
  <2>4. QED
    BY <1>0, <2>1, <2>3 DEF SignalsOK, AccsOK, CertsOK
<1>9. ASSUME NEW n \in Node, NEW h \in 0 .. MaxHeight, light_join(n, h) \/ light_advance(n, h)
      PROVE  SignalsOK' /\ AccsOK' /\ CertsOK' /\ AccountsOK'
  BY <1>1, <1>9 DEF light_join, light_advance
<1>10. CASE UNCHANGED vars
  BY <1>1, <1>10 DEF vars
<1>11. QED
  BY <1>2, <1>3, <1>4, <1>5, <1>6, <1>7, <1>8, <1>9, <1>10 DEF Next

(* They are at the start. *)
LEMMA PayInvInit == Init => PayInv
<1> SUFFICES ASSUME Init PROVE PayInv
  OBVIOUS
<1>1. ClaimInv
  BY ClaimInvInit
<1>2. MintInv
  BY MintInvInit
<1>3. SignalsOK /\ CertsOK
  BY FS_EmptySet DEF Init, SignalsOK, CertsOK
<1>4. AccsOK
  <2>1. <<>> \in Seq(mined)
    OBVIOUS
  <2>2. QED
    BY <2>1 DEF Init, AccsOK
<1>5. AccountsOK
  <2>1. Owed({}) = 0
    <3>1. [x \in {} |-> x.amount] \in [{} -> Nat]
      OBVIOUS
    <3>2. QED
      BY <3>1, FS_EmptySet, TotalFacts DEF Owed
  <2>2. ASSUME NEW u PROVE Earned({}, u) = 0
    <3>1. [x \in {} |-> share_of(x, u)] \in [{} -> Nat]
      OBVIOUS
    <3>2. QED
      BY <3>1, FS_EmptySet, TotalFacts DEF Earned
  <2>3. \A u : Account({}, {}, 0, u)
    BY <2>1, <2>2, FS_EmptySet DEF Account
  <2>4. QED
    BY <2>3 DEF Init, AccountsOK
<1>6. QED
  BY <1>1, <1>2, <1>3, <1>4, <1>5 DEF PayInv

(* The accounts are always balanced. *)
LEMMA PayInvHolds == ASSUME WeightsNatural PROVE Spec => []PayInv
<1>1. PayInv /\ [Next]_vars => PayInv'
  BY PayInvStep
<1>2. QED
  BY <1>1, PayInvInit, PTL DEF Spec

(* A node is paid, and is still to be paid, what the receipts it credited  *)
(* give its neuron, for any number of nodes, epochs and certificates: a    *)
(* certificate that comes again credits nothing, and maturing moves the    *)
(* amount without changing it.  The weights of claims are naturals, as the *)
(* u128 of allocate_budget are.                                            *)
THEOREM RewardsConservedHolds == ASSUME WeightsNatural PROVE Spec => []RewardsConserved
<1>1. PayInv => RewardsConserved
  BY DEF PayInv, AccountsOK, Account, RewardsConserved, Earned
<1>2. QED
  BY <1>1, PayInvHolds, PTL

(* The types: what a node has logged and absorbed was sent by someone, its *)
(* claims are in its log, and what is pending is a positive amount of a    *)
(* receipt it credited.                                                    *)
THEOREM TypeOKHolds == ASSUME WeightsNatural PROVE Spec => []TypeOK
<1>1. ASSUME PayInv PROVE TypeOK
  <2>1. tip \in [Node -> Tip]
    BY <1>1 DEF PayInv, MintInv
  <2>2. ASSUME NEW n \in Node
        PROVE  /\ signals[n] \subseteq sent
               /\ epoch[n].num \in Nat \ {0}
               /\ epoch[n].phase \in {"Propose", "BeaconReady"}
               /\ ToSet(epoch[n].claims) \subseteq signals[n]
               /\ ToSet(peer_accs[n]) \subseteq mined
               /\ \A x \in pending[n] : /\ x.amount \in Nat \ {0} /\ x.mint \in Nat
                                        /\ x.receipt \in credited[n]
               /\ matured[n] \in Nat
    <3>1. signals[n] \subseteq sent
      BY <1>1 DEF PayInv, SignalsOK
    <3>2. epoch[n].num \in Nat \ {0} /\ epoch[n].phase \in {"Propose", "BeaconReady"}
      BY <1>1 DEF PayInv, ClaimInv, RunnerInv, EpochOK
    <3>3. epoch[n].claims \in Seq(signals[n]) /\ peer_accs[n] \in Seq(mined)
      BY <1>1 DEF PayInv, ClaimInv, Distinct, AccsOK
    <3>4. ToSet(epoch[n].claims) \subseteq signals[n]
      BY <3>3 DEF ToSet
    <3>5. ToSet(peer_accs[n]) \subseteq mined
      BY <3>3 DEF ToSet
    <3>6. \A x \in pending[n] : x.mint \in Nat
      BY <1>1 DEF PayInv, MintInv
    <3>7. matured[n] \in Nat /\ \A x \in pending[n] : x.amount \in Nat \ {0} /\ x.receipt \in credited[n]
      BY <1>1 DEF PayInv, AccountsOK, Account
    <3>8. QED
      BY <3>1, <3>2, <3>4, <3>5, <3>6, <3>7
  <2>3. QED
    BY <2>1, <2>2 DEF TypeOK, Tip
<1>2. QED
  BY <1>1, PayInvHolds, PTL
=============================================================================
