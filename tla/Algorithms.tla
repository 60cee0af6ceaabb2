----------------------------- MODULE Algorithms -----------------------------
(***************************************************************************)
(* The sequential algorithms of the library against what they promise.     *)
(* The state is the input of one of them; an action per algorithm extends  *)
(* the input by one element, and an invariant per algorithm relates what   *)
(* the code computes for the input to a reference definition.              *)
(***************************************************************************)
EXTENDS Rewards, Partition, Shapley, Nmt, Das, Codec, Beacon, Finality,
        Tip, Mesh, Tickets

CONSTANTS
    MaxLen,        \* bound on the elements of an input
    MaxSection,    \* bound on the items of a section of a signal
    MaxWeight,     \* bound on a weight
    Budgets,       \* budgets that are split
    Particles,     \* a path of particles, numbered
    Radii,         \* radii of an epsilon-support
    MaxValue,      \* bound on the value of a coalition
    Foci,          \* the focus of a particle, in units of 1 / One
    MaxDomain,     \* bound on the particles of a domain
    TipHeights,    \* heights that are folded and claimed
    TipRoots,      \* and their roots
    MeshPeers,     \* peers of a mesh, numbered
    MeshMessages,  \* what they publish
    Fanout,        \* peers that a message is pushed to
    Publishers,    \* the peers that publish
    Takers,        \* the peers that take
    Subscriptions, \* <<peer, topic>>: what may be subscribed
    Slot,          \* accumulators of a cluster that is settled
    Len0,          \* its contributors: the length of every vector
    Checked        \* fold with fold_acc_checked?

ASSUME AlgorithmsAssumption ==
    /\ {MaxLen, MaxSection, MaxWeight, MaxValue, MaxDomain} \subseteq Nat
    /\ Budgets \subseteq Nat /\ Particles \subseteq Nat /\ Radii \subseteq Nat
    /\ One \in Nat \ {0} /\ Foci \subseteq 0 .. One /\ P \in Nat \ {0}
    /\ TipHeights \subseteq Nat /\ TipRoots \subseteq Int
    /\ MeshPeers \subseteq Nat /\ Fanout \in Nat
    /\ Publishers \subseteq MeshPeers /\ Takers \subseteq MeshPeers
    /\ \A m \in MeshMessages : m.kind \in {"claim", "acc", "receipt"}
    /\ Len0 \in Dim /\ Checked \in BOOLEAN

VARIABLES
    kind,      \* the algorithm
    input      \* its input

vars == <<kind, input>>

Grows(k, max) == kind = k /\ Len(input) < max /\ UNCHANGED kind

-----------------------------------------------------------------------------
(* The inputs. *)

(* The coalitions of three contributors, in a fixed order. *)
Coalitions == SetToSeq((SUBSET (1 .. 3)) \ {{}})

AddWeight(w) == Grows("budget", MaxLen + 1) /\ input' = Append(input, w)

(* Claims of different ids; one or two links. *)
Links == {{l} : l \in {p \in Particles \X Particles : p[1] <= p[2]}}
            \cup {{<<1, 1>>, <<p, p>>} : p \in Particles}

AddClaim(id, links) ==
    /\ Grows("claims", MaxLen)
    /\ \A i \in DOMAIN input : input[i].id # id
    /\ input' = Append(input, [id |-> id, links |-> links])

AddValue(x) == Grows("coalitions", Len(Coalitions)) /\ input' = Append(input, x)

Leaves == {1, 2} \X {1, 2}

AddLeaf(l) == Grows("leaves", MaxLen) /\ input' = Append(input, l)

(* Answers to the requests for three of four shards, all of which decoding *)
(* takes.  The data are the polynomial x^2, so that two shards each have   *)
(* the same content.                                                       *)
Square == <<0, 0, 0, 0, 0, 0, 1>>

Answers ==
    {<<>>} \cup {<<[shard_index |-> i, shard_data |-> x]>> :
                   i \in 0 .. 4, x \in {s.data : s \in ToSet(encode(Square, 3, 4))} \cup {<<5>>}}

AddAnswer(a) == Grows("answers", MaxLen) /\ input' = Append(input, a)

(* Shards that are brought to decode: of the indices in range and one      *)
(* above, and one that is cut.                                             *)
AddShard(index, cut) ==
    Grows("shards", MaxLen + 1) /\ input' = Append(input, [index |-> index, cut |-> cut])

(* Sections of a signal: links, moves of boxes and payments. *)
AddItem(section, x) ==
    /\ kind = "signal" /\ Len(input[section]) < MaxSection
    /\ input' = [input EXCEPT ![section] = Append(@, x)]
    /\ UNCHANGED kind

ASignal == [head |-> "h", network |-> "other", links |-> <<1, 2>>, proof |-> <<"sigma">>,
            box_moves |-> <<[tag |-> 0], [tag |-> 1]>>, delta_pi |-> <<5>>]

(* Frames of a log: a signal, an intent, one with another sigil, one with  *)
(* a payload that does not decode.                                         *)
LogFrames ==
    {encode_signal_frame(ASignal), encode_intent_frame([intent |-> 1]),
     [sigil |-> "DOC", payload |-> <<Cut>>],
     [sigil |-> "ZAP", payload |-> SubSeq(serialize_signal(ASignal), 1, 3)]}

AddFrame(f) == Grows("log", MaxLen) /\ input' = Append(input, f)

Messages ==
    [kind : {"claim"}, fixed : {1}, links : {<<>>, <<1, 2>>}]
      \cup {[kind |-> "acc", fixed |-> 1, acc |-> [sum_m |-> <<3, 4>>, seen |-> s, commitment |-> 7]] :
              s \in {{}, {1, 2}}}
      \cup [kind : {"receipt"}, fixed : {1, 2}]

AddMessage(m) == Grows("stream", MaxLen) /\ input' = Append(input, m)

(* A beacon is opened over claims and the delays of signals, good and bad. *)
Delays ==
    {evaluate(3, 2), [evaluate(4, 1) EXCEPT !.output = 1], [input |-> P, output |-> P, iterations |-> 0]}

AddContent(id, delay) ==
    /\ Grows("beacon", MaxLen)
    /\ \A i \in DOMAIN input : input[i].id # id
    /\ input' = Append(input, [id |-> id, delay |-> delay])

(* Focus of the particles of a domain, in order. *)
AddFocus(f) ==
    /\ Grows("domain", MaxDomain)
    /\ \A i \in DOMAIN input : input[i] <= f
    /\ input' = Append(input, f)

(* A prover folds heights; a checkpoint is handed on and arrives later:    *)
(* the prover's, a tip's, or one that claims any height and root beside an *)
(* accumulator that was folded elsewhere or beside none; and a tip joins,  *)
(* follows, applies and audits; evidence is issued over it.  sent is the   *)
(* checkpoint under way.  Ghosts: since is the place and the accumulator   *)
(* that the tip took last, issuer the tip that the evidence was issued     *)
(* over, and genuine and sentGenuine tell whether the accumulator of the   *)
(* tip and of the checkpoint came with its own height and root, and was    *)
(* not kept by advance_local because a checkpoint came without.            *)
TipStep(next) == kind = "tip" /\ input' = next /\ UNCHANGED kind

IssuerOf(tip) == [height |-> tip.height, root |-> tip.root, trust |-> tip.trust]

FoldsBlock(h, root) ==
    /\ kind = "tip" /\ CanFoldBlock(input.prover, h) /\ Len(input.prover.acc) < MaxSection
    /\ TipStep([input EXCEPT !.prover = fold_block(@, h, root)])

Exports ==
    /\ kind = "tip"
    /\ \/ TipStep([input EXCEPT !.sent = checkpoint(input.prover), !.sentGenuine = TRUE])
       \/ TipStep([input EXCEPT !.sent = to_checkpoint(input.tip), !.sentGenuine = input.genuine])
       \/ \E h \in TipHeights, root \in TipRoots, acc \in {NoAcc, input.prover.acc, input.tip.acc} :
             TipStep([input EXCEPT !.sent = [height |-> h, root |-> root, acc |-> acc],
                                   !.sentGenuine = FALSE])

TakesPlace(tip, genuine) ==
    TipStep([input EXCEPT !.tip = tip, !.since = to_checkpoint(tip), !.genuine = genuine])

Joins ==
    kind = "tip" /\ TakesPlace(join_checkpoint(input.sent), input.sentGenuine)

Follows(h, root) ==
    /\ kind = "tip" /\ CanAdvance(input.tip, h) /\ Len(input.tip.acc) < MaxSection
    /\ TipStep([input EXCEPT !.tip = advance_fold(@, h, root)])

Applies ==
    /\ kind = "tip"
    /\ TakesPlace(advance_local(input.tip, input.sent),
                  IF input.sent.acc = NoAcc THEN input.tip.acc = NoAcc ELSE input.sentGenuine)

Audits ==
    /\ kind = "tip" /\ Decidable(input.tip.acc)
    /\ TipStep([input EXCEPT !.tip = redecide(@)])

Issued(tip, phi) ==
    <<issue("Local", "book", "s", tip, <<>>)>>
      \o issue_from_domain("book", "s", tip, <<>>, phi, <<0, One>>, 0, One, 0, One, One)

Issues ==
    /\ kind = "tip"
    /\ \E phi \in {0, One} : \E i \in DOMAIN Issued(input.tip, phi) :
          TipStep([input EXCEPT !.evidence = <<Issued(input.tip, phi)[i]>>,
                                !.issuer = IssuerOf(input.tip)])

(* Peers join a mesh, subscribe, publish, again and again, and take; owed  *)
(* and taken are the history.                                              *)
MeshStep(next) == kind = "mesh" /\ input' = next /\ UNCHANGED kind

JoinsMesh(p) ==
    kind = "mesh" /\ MeshStep([input EXCEPT !.mesh = join(@, p)])

Subscribes(p, topic) ==
    kind = "mesh" /\ MeshStep([input EXCEPT !.mesh = subscribe(@, p, topic)])

Publishes(p, m) ==
    /\ kind = "mesh"
    /\ MeshStep([input EXCEPT !.mesh = publish(@, p, m),
                              !.owed = @ \cup {<<q, cid(m)>> : q \in
                                  Targets(input.mesh, p, m) \cup ({p} \cap Joined(input.mesh))}])

TakesSome(p) ==
    /\ kind = "mesh"
    /\ \E topic \in {m.topic : m \in MeshMessages} :
       \E t \in {drain(input.mesh, p), peer_accs(input.mesh, p, topic),
                 peer_claims(input.mesh, p, topic)} :
          MeshStep([input EXCEPT !.mesh = t.mesh, !.taken[p] = @ \o t.taken])

(* Accumulators of one cluster while it is settled: winning tickets are    *)
(* absorbed, in any order and again and again, and accumulators are folded *)
(* together.  A fold takes the place of the first; the second stays where  *)
(* it came from and may be folded again.                                   *)
FoldStep(s, acc) == kind = "fold" /\ input' = [input EXCEPT ![s] = acc] /\ UNCHANGED kind

Absorbs(s, x) ==
    kind = "fold" /\ Win(x[1], x[2]) /\ FoldStep(s, absorb_ticket(input[s], x, Len0))

Folds(s, t) ==
    /\ kind = "fold" /\ s # t
    /\ ~ (Checked /\ FoldRefused(input[s], input[t]))
    /\ FoldStep(s, fold_acc(input[s], input[t]))

-----------------------------------------------------------------------------
Init ==
    \/ kind \in {"budget", "claims", "coalitions", "leaves", "answers", "shards", "log",
                 "stream", "beacon", "domain"} /\ input = <<>>
    \/ kind = "signal" /\ input = [ASignal EXCEPT !.links = <<>>, !.box_moves = <<>>,
                                                   !.delta_pi = <<>>]
    \/ kind = "tip" /\ input = [prover |-> NewProver, sent |-> checkpoint(NewProver),
                                tip |-> untrusted, since |-> to_checkpoint(untrusted),
                                evidence |-> <<>>, issuer |-> IssuerOf(untrusted),
                                genuine |-> TRUE, sentGenuine |-> TRUE]
    \/ kind = "mesh" /\ input = [mesh |-> NewMesh(Fanout), owed |-> {},
                                 taken |-> [p \in MeshPeers |-> <<>>]]
    \/ kind = "fold" /\ input = [s \in Slot |-> empty(Len0)]

Next ==
    \/ \E w \in 0 .. MaxWeight : AddWeight(w)
    \/ \E id \in 1 .. MaxLen, links \in Links : AddClaim(id, links)
    \/ \E x \in 0 .. MaxValue : AddValue(x)
    \/ \E l \in Leaves : AddLeaf(l)
    \/ \E a \in Answers : AddAnswer(a)
    \/ \E index \in 0 .. 4 : AddShard(index, FALSE)
    \/ AddShard(1, TRUE)
    \/ \E section \in {"links", "delta_pi"}, x \in {1, 2} : AddItem(section, x)
    \/ \E tag \in {0, 1} : AddItem("box_moves", [tag |-> tag])
    \/ \E f \in LogFrames : AddFrame(f)
    \/ \E m \in Messages : AddMessage(m)
    \/ \E id \in 1 .. MaxLen, delay \in Delays : AddContent(id, delay)
    \/ \E f \in Foci : AddFocus(f)
    \/ \E h \in TipHeights, root \in TipRoots : FoldsBlock(h, root) \/ Follows(h, root)
    \/ \E p \in MeshPeers : JoinsMesh(p)
    \/ \E ps \in Subscriptions : Subscribes(ps[1], ps[2])
    \/ \E p \in Takers : TakesSome(p)
    \/ \E p \in Publishers, m \in MeshMessages : Publishes(p, m)
    \/ Exports \/ Joins \/ Applies \/ Audits \/ Issues
    \/ \E s \in Slot, x \in Sample : Absorbs(s, x)
    \/ \E s, t \in Slot : Folds(s, t)

Spec == Init /\ [][Next]_vars

-----------------------------------------------------------------------------
(* allocate_budget: the whole budget is paid and not more, a claim without *)
(* weight gets nothing, and every other its proportional part up to one    *)
(* token per claim (the last claim and the first with weight absorb the    *)
(* rounding).                                                              *)
BudgetConserved ==
    kind = "budget" /\ TotalOf(input) > 0 =>
        \A b \in Budgets :
            LET a == allocate_budget(input, b)
                t == TotalOf(input)
            IN  /\ TotalOf(a) = b
                /\ \A i \in DOMAIN input :
                      /\ input[i] = 0 => a[i] = 0
                      /\ input[i] > 0 => a[i] >= (input[i] * b) \div t
                      /\ a[i] * t <= input[i] * b + Len(input) * t

(* partition_into_clusters gives the connected components of the claims    *)
(* whose supports overlap, listed by id, whatever the order of the claims. *)
ClustersExact ==
    kind = "claims" =>
        \A radius \in Radii :
            ClustersAreComponents(input, [p \in Particles |-> {p - 1, p + 1} \cap Particles], radius)

(* The coalition values that the input stands for. *)
Values == [S \in (SUBSET (1 .. 3)) \ {{}} |-> input[CHOOSE i \in DOMAIN Coalitions : Coalitions[i] = S]]

(* The sums of shapley over all draws are those of shapley_exact, which    *)
(* divide the whole value and give nothing to who adds nothing; and of all *)
(* vectors that are published for three nonces, of which two win, exactly  *)
(* those of the lottery are certified and sealed.                          *)
LotteryFair ==
    kind = "coalitions" /\ Len(input) = Len(Coalitions) =>
        LET draws == [k \in 1 .. 3 |-> [i \in {2} |-> k % 2]]
            vectors == {marginals(Values, o) : o \in {<<1, 2>>, <<2, 1>>}} \cup {<<0, 1>>}
        IN  /\ \A n \in 1 .. 3 : LotteryUnbiased(n, Values)
            /\ CertifiedIsLottery(Values, 2, draws, {1, 2}, vectors)

(* verify_full accepts the proof of exactly the same leaves, and none that *)
(* omits a leaf; verify alone accepts those too.                           *)
NamespaceComplete ==
    kind = "leaves" => ProofsComplete(input, UNION {[1 .. n -> Leaves] : n \in 0 .. MaxLen}, 1 .. 3)

(* Any k shards restore the data, and repeated, foreign and short ones are *)
(* refused, for codes of 2 and 4 shards and data that do not fill the last *)
(* element and the last group; and of the answers to a round of sampling   *)
(* those that verify under a trusted root decode to the data exactly when  *)
(* k of them differ, which the verdict Available alone does not promise:   *)
(* decide_availability counts a shard that is answered twice twice.        *)
ShardsRestore ==
    /\ kind = "shards" =>
          \A kn \in {<<1, 2>>, <<2, 2>>, <<2, 4>>, <<3, 4>>} :
              \A data \in {<<>>, <<1>>, <<1, 1, 0, 1, 0, 1, 1>>} :
                  DecodesOrRefuses(data, input, kn[1], kn[2])
    /\ kind = "answers" =>
          LET c == commit(encode(Square, 3, 4), 3)
          IN  \A roots \in {c.shard_roots, [c.shard_roots EXCEPT ![1] = root_hash(<<5>>)]} :
                  AvailableDecodes(Square, c, roots, input)

(* A signal comes back whole, and of a cut payload no part of a section    *)
(* does; a torn log gives every signal and intent before the tear, and a   *)
(* cut stream the messages before the cut, whole and in order.             *)
CodecsExact ==
    /\ kind = "signal" => SignalWholeOrNone(input)
    /\ kind = "log" => LogReplays(input)
    /\ kind = "stream" => StreamExact(input)

(* A delay is valid for the epoch, parent, claims and signals it was run   *)
(* for, in whatever order these are listed, and for no others.             *)
BeaconBound ==
    kind = "beacon" =>
        LET ids == [i \in DOMAIN input |-> input[i].id]
            delays == [i \in DOMAIN input |-> input[i].delay]
            other == open_beacon(2, 8, claims_root(<<9>>), <<5>>, 2)
        IN  \A t \in 1 .. 2 : DelayBound(1, 7, ids, delays, t, other)

(* Never more than half of a domain crosses the threshold by more than the *)
(* rounding of the fixed-point numbers explains, for kappa from 1 to 2, so *)
(* that both sides of a conflict are final only by rounding                *)
(* (crosses_threshold, mean, variance).                                    *)
HalfAtMost ==
    kind = "domain" =>
        \A kappa \in {One, One + One \div 2, 2 * One}, epsilon \in {0, One \div 4} :
            AtMostHalf(EpsilonSupport(input, epsilon), kappa)

(* A tip trusted for its fold has folded on in order from the checkpoint   *)
(* it took last, and if that was genuine from the first height; a claimed  *)
(* place that the accumulator never folded is trusted all the same, but    *)
(* nothing is passed over after it.  Evidence is accepted where it was     *)
(* issued, if the tip was trusted, elsewhere only at the same height and   *)
(* root, and none of its fields can be replaced (join_checkpoint,          *)
(* advance_fold, redecide, verify).                                        *)
TipsTrusted ==
    kind = "tip" =>
        /\ FoldContinuous(input.tip, input.since)
        /\ input.genuine => HistoryContinuous(input.tip)
        /\ input.evidence # <<>> => EvidenceAtTip(input.evidence[1], input.issuer, input.tip)

(* What is published to a peer of the mesh is in its inbox or was taken    *)
(* from it exactly once.                                                   *)
MeshExact == kind = "mesh" => PublishedOnce(input.mesh, input.owed, input.taken)

(* Folded with fold_acc_checked, every accumulator counts each canonical   *)
(* (id, n) pair once, whatever was absorbed twice and folded in whatever   *)
(* topology; that is, it is what self_fold makes of the pairs it has seen. *)
CountedOnce == kind = "fold" => \A s \in Slot : CountsOnce(input[s])

(* fold_acc is commutative and associative on the accumulators that occur, *)
(* so that the tree may be assembled in any topology.                      *)
MonoidLaws ==
    kind = "fold" =>
        \A s, t, u \in Slot :
            LET l == input[s]
                m == input[t]
                r == input[u]
            IN  /\ fold_acc(l, m) = fold_acc(m, l)
                /\ fold_acc(fold_acc(l, m), r) = fold_acc(l, fold_acc(m, r))
=============================================================================
