---------------------------- MODULE SettleRadio -----------------------------
(***************************************************************************)
(* Multi-miner settlement over radio: src/src/radio_settle.rs, the message *)
(* identities of src/src/gossip.rs and settle_with_peer_accs of            *)
(* src/src/rewards.rs.                                                     *)
(*                                                                         *)
(* A node has an inbox, the set of content ids it has seen and its topic   *)
(* subscriptions, guarded by one lock.  Tasks run on the nodes: a task     *)
(* publishes messages (to its own inbox and, one connection each, to the   *)
(* node's peers) and then collects those of its kind and topic.  Taking    *)
(* the inbox and putting back what was not wanted are two lock sections.   *)
(***************************************************************************)
EXTENDS Tickets, SequencesExt, Lists

CONSTANTS
    Node, Topic,
    Peers,          \* peer book of each node
    Task,           \* tasks that run on the nodes
    On,             \* the node of a task
    Kind,           \* what a task collects: "acc", "claim" or, if it only publishes, "none"
    About,          \* the topic it collects
    Posts,          \* the messages a task publishes
    Start,          \* start_nonce of the grind of a task that settles
    Tries,          \* tickets it wants
    Want,           \* SelfAccs wait_self_accs waits for
    MinerOf,        \* miner id of a task
    Added,          \* accumulators its caller adds to the collected ones: its own
    Clients,        \* contributors of the cluster
    KMin            \* samples meets_precision asks for

Msg == UNION {Posts[t] : t \in Task}

ASSUME RadioAssumption ==
    /\ Peers \in [Node -> SUBSET Node]
    /\ On \in [Task -> Node] /\ About \in [Task -> Topic]
    /\ Kind \in [Task -> {"acc", "claim", "none"}]
    /\ MinerOf \in [Task -> Miner] /\ Start \in [Task -> Nat] /\ Tries \in [Task -> Nat]
    /\ Want \in Nat /\ KMin \in Nat \ {0} /\ Clients \in Dim
    /\ Posts \in [Task -> SUBSET Msg] /\ \A t \in Task : IsFiniteSet(Posts[t])
    /\ \A m \in Msg : m.topic \in Topic /\ m.kind \in {"acc", "claim", "receipt"}
    /\ \A m \in Msg : m.kind = "acc" => m.acc \in ClusterAcc
    /\ Added \in [Task -> Seq(ClusterAcc)]

VARIABLES
    inbox, seen, subs,      \* RadioState of each node
    wire,                   \* <<node, message>>: sent to the node, not read yet
    arrived,                \* history: messages each node's filter has let in
    pc,                     \* of each task
    post,                   \* messages the task has still to publish
    dial,                   \* the message being published and the peers still to dial
    hand,                   \* drained messages to be put back
    got,                    \* what the task has collected, in order
    root                    \* the root accumulator a task settled on

vars == <<inbox, seen, subs, wire, arrived, pc, post, dial, hand, got, root>>

radio == <<inbox, seen, subs, wire, arrived>>

NoRoot == empty(0)

NoDial == [msg |-> {}, peers |-> {}]

(* The identity messages are deduplicated by.  That of a claim announce is *)
(* the claim id alone.                                                     *)
content_id(m) ==
    CASE m.kind = "acc" -> <<"selfacc", m.topic, m.miner, m.acc>>
      [] m.kind = "claim" -> <<"claim", m.claim>>
      [] m.kind = "receipt" -> <<"rcpt", m.topic, m.receipt>>

Init ==
    /\ inbox = [n \in Node |-> <<>>]
    /\ seen = [n \in Node |-> {}]
    /\ subs = [n \in Node |-> {}]
    /\ wire = {}
    /\ arrived = [n \in Node |-> {}]
    /\ pc = [t \in Task |-> "new"]
    /\ post = Posts
    /\ dial = [t \in Task |-> NoDial]
    /\ hand = [t \in Task |-> <<>>]
    /\ got = [t \in Task |-> <<>>]
    /\ root = [t \in Task |-> NoRoot]

(* ingest: filter by topic (no subscription means all), then by identity. *)
ingest(n, m) ==
    IF subs[n] # {} /\ m.topic \notin subs[n]
    THEN UNCHANGED <<inbox, seen, arrived>>
    ELSE /\ arrived' = [arrived EXCEPT ![n] = @ \cup {m}]
         /\ seen' = [seen EXCEPT ![n] = @ \cup {content_id(m)}]
         /\ inbox' = IF content_id(m) \in seen[n] THEN inbox
                     ELSE [inbox EXCEPT ![n] = Append(@, m)]

(* A frame is read from a connection. *)
handle_inbound(n, m) ==
    /\ <<n, m>> \in wire
    /\ wire' = wire \ {<<n, m>>}
    /\ ingest(n, m)
    /\ UNCHANGED <<subs, pc, post, dial, hand, got, root>>

(* The sender closed the connection before the frame was read. *)
LoseFrame(n, m) ==
    /\ <<n, m>> \in wire
    /\ wire' = wire \ {<<n, m>>}
    /\ UNCHANGED <<inbox, seen, subs, arrived, pc, post, dial, hand, got, root>>

subscribe(t) ==
    /\ pc[t] = "new"
    /\ subs' = [subs EXCEPT ![On[t]] = @ \cup {About[t]}]
    /\ pc' = [pc EXCEPT ![t] = "ready"]
    /\ UNCHANGED <<inbox, seen, wire, arrived, post, dial, hand, got, root>>

(* publish: local ingest, then the peers one after the other. *)
publish(t, m) ==
    /\ pc[t] = "ready"
    /\ m \in post[t]
    /\ ingest(On[t], m)
    /\ post' = [post EXCEPT ![t] = @ \ {m}]
    /\ dial' = [dial EXCEPT ![t] = [msg |-> {m}, peers |-> Peers[On[t]] \ {On[t]}]]
    /\ pc' = [pc EXCEPT ![t] = "push"]
    /\ UNCHANGED <<subs, wire, hand, got, root>>

(* push_to_peer; a peer that cannot be reached is skipped. *)
push_to_peer(t, p) ==
    /\ pc[t] = "push"
    /\ p \in dial[t].peers
    /\ dial' = [dial EXCEPT ![t] = [msg |-> @.msg, peers |-> @.peers \ {p}]]
    /\ \/ wire' = wire \cup {<<p, m>> : m \in dial[t].msg}
       \/ UNCHANGED wire
    /\ UNCHANGED <<inbox, seen, subs, arrived, pc, post, hand, got, root>>

Published(t) ==
    /\ pc[t] = "push"
    /\ dial[t].peers = {}
    /\ dial' = [dial EXCEPT ![t] = NoDial]
    /\ pc' = [pc EXCEPT ![t] = "ready"]
    /\ UNCHANGED <<radio, post, hand, got, root>>

(* wait_self_accs and collect_claims poll once everything is published. *)
Polling(t) == pc[t] = "ready" /\ post[t] = {} /\ Kind[t] # "none"

(* Mutant of Wanted: the kind of the message is not looked at. *)
WantedTopic(t, m) == m.topic = About[t]

Wanted(t, m) == m.kind = Kind[t] /\ m.topic = About[t]

Enough(t) == Len(got[t]) >= Want

(* Mutant of Rest: what was not wanted is dropped. *)
RestDropped(t) == <<>>

(* Mutant of Rest: what was collected is put back, too. *)
RestAll(t) == inbox[On[t]]

(* Where the messages a task wants are in the inbox. *)
WantedAt(t) == {i \in DOMAIN inbox[On[t]] : Wanted(t, inbox[On[t]][i])}

(* What a drain leaves to be put back. *)
Rest(t) == Chosen(inbox[On[t]], DOMAIN inbox[On[t]] \ WantedAt(t))

(* The dedupe of wait_self_accs: of equal accumulators the first is kept. *)
Retain(s) == Chosen(s, {i \in DOMAIN s : \A j \in 1 .. i - 1 : s[j].acc # s[i].acc})

Collected(t) ==
    LET all == got[t] \o Chosen(inbox[On[t]], WantedAt(t))
    IN  IF Kind[t] = "acc" THEN Retain(all) ELSE all

(* First half of collect_self_accs and collect_claims: take everything. *)
drain(t) ==
    /\ Polling(t)
    /\ hand' = [hand EXCEPT ![t] = Rest(t)]
    /\ got' = [got EXCEPT ![t] = Collected(t)]
    /\ inbox' = [inbox EXCEPT ![On[t]] = <<>>]
    /\ pc' = [pc EXCEPT ![t] = "drained"]
    /\ UNCHANGED <<seen, subs, wire, arrived, post, dial, root>>

(* Mutant of Requeue: one poll, whatever it brought, and no other. *)
RequeueLast(t) ==
    /\ pc[t] = "drained"
    /\ inbox' = [inbox EXCEPT ![On[t]] = @ \o hand[t]]
    /\ hand' = [hand EXCEPT ![t] = <<>>]
    /\ pc' = [pc EXCEPT ![t] = IF Kind[t] = "acc" THEN "settle" ELSE "failed"]
    /\ UNCHANGED <<seen, subs, wire, arrived, post, dial, got, root>>

(* Second half: put back what was not wanted.  wait_self_accs returns when *)
(* it has enough; collect_claims returns at once and is called again.      *)
Requeue(t) ==
    /\ pc[t] = "drained"
    /\ inbox' = [inbox EXCEPT ![On[t]] = @ \o hand[t]]
    /\ hand' = [hand EXCEPT ![t] = <<>>]
    /\ pc' = [pc EXCEPT ![t] = IF Kind[t] = "acc" /\ Enough(t) THEN "settle" ELSE "ready"]
    /\ UNCHANGED <<seen, subs, wire, arrived, post, dial, got, root>>

(* The timeout of wait_self_accs. *)
Timeout(t) ==
    /\ Polling(t) /\ Kind[t] = "acc"
    /\ pc' = [pc EXCEPT ![t] = "settle"]
    /\ UNCHANGED <<radio, post, dial, hand, got, root>>

(* The tickets of the task's own grind. *)
Mined(t) == grind_settlement(MinerOf[t], Start[t], Tries[t])

(* What it settles with: all it collected, its own accumulator too when it *)
(* published one, and what its caller adds.                                *)
PeerAccs(t) == [i \in DOMAIN got[t] |-> got[t][i].acc] \o Added[t]

(* The leaves of the tree: the task's own grind and those. *)
Leaves(t) == <<self_fold(Clients, Mined(t))>> \o PeerAccs(t)

(* settle_with_peer_accs: fold, and settle unless there are too few samples. *)
settle_with_peer_accs(t) ==
    /\ pc[t] = "settle"
    /\ LET r == FoldTree(Leaves(t))
       IN  \/ /\ r.k >= KMin
              /\ root' = [root EXCEPT ![t] = r]
              /\ pc' = [pc EXCEPT ![t] = "settled"]
           \/ /\ r.k < KMin
              /\ pc' = [pc EXCEPT ![t] = "failed"]
              /\ UNCHANGED root
    /\ UNCHANGED <<radio, post, dial, hand, got>>

Next ==
    \/ \E n \in Node, m \in Msg : handle_inbound(n, m) \/ LoseFrame(n, m)
    \/ \E t \in Task : subscribe(t)
    \/ \E t \in Task, m \in Msg : publish(t, m)
    \/ \E t \in Task, p \in Node : push_to_peer(t, p)
    \/ \E t \in Task : Published(t)
    \/ \E t \in Task : drain(t)
    \/ \E t \in Task : Requeue(t)
    \/ \E t \in Task : Timeout(t)
    \/ \E t \in Task : settle_with_peer_accs(t)

Spec == Init /\ [][Next]_vars

(* Frames are read, publishing and polling go on.  Once the timeout of     *)
(* wait_self_accs has expired the next turn of its loop ends it, however   *)
(* often it drains in between.                                             *)
FairSpec ==
    /\ Spec
    /\ \A n \in Node, m \in Msg : WF_vars(handle_inbound(n, m))
    /\ \A t \in Task : /\ WF_vars(subscribe(t))
                       /\ \A m \in Msg : WF_vars(publish(t, m))
                       /\ \A p \in Node : WF_vars(push_to_peer(t, p))
                       /\ WF_vars(Published(t))
                       /\ WF_vars(drain(t))
                       /\ WF_vars(Requeue(t))
                       /\ SF_vars(Timeout(t))

-----------------------------------------------------------------------------
(* What messages are published.                                            *)

(* A commitment on a topic comes from one miner: wait_self_accs would drop *)
(* the second message that carries it.                                     *)
AccsDistinct ==
    \A m, o \in Msg :
        m.kind = "acc" /\ o.kind = "acc" /\ m.topic = o.topic /\ m.acc = o.acc => m = o

(* A content id stands for one message: ingest would drop the second one. *)
IdsDistinct == \A m, o \in Msg : content_id(m) = content_id(o) => m = o

(* The accumulators a settling task can come by are self folds over the    *)
(* contributors of its cluster.  They may share samples.                   *)
SelfFolds ==
    \A t \in Task : Kind[t] = "acc" =>
        \A a \in {m.acc : m \in {x \in Msg : x.kind = "acc" /\ x.topic = About[t]}} \cup ToSet(Added[t]) :
            a.dim = Clients /\ CountsOnce(a)

-----------------------------------------------------------------------------
Tasks(n) == {t \in Task : On[t] = n}

Count(m, s) == Cardinality({i \in DOMAIN s : s[i] = m})

(* The places of node n where m is: in the inbox, in the hand of a task    *)
(* between drain and requeue, or collected.                                *)
Where(n, m) ==
    LET in(place, f, x) == {<<place, x, i>> : i \in {j \in DOMAIN f[x] : f[x][j] = m}}
    IN  in("inbox", inbox, n)
          \cup UNION {in("hand", hand, t) \cup in("got", got, t) : t \in Tasks(n)}

(* Types of the variables. *)
TypeOK ==
    /\ inbox \in [Node -> Seq(Msg)]
    /\ seen \in [Node -> SUBSET {content_id(m) : m \in Msg}]
    /\ subs \in [Node -> SUBSET Topic]
    /\ wire \in SUBSET (Node \X Msg)
    /\ arrived \in [Node -> SUBSET Msg]
    /\ pc \in [Task -> {"new", "ready", "push", "drained", "settle", "settled", "failed"}]
    /\ post \in [Task -> SUBSET Msg]
    /\ dial \in [Task -> [msg : SUBSET Msg, peers : SUBSET Node]]
    /\ hand \in [Task -> Seq(Msg)]
    /\ got \in [Task -> Seq(Msg)]
    /\ root \in [Task -> ClusterAcc]
    /\ \A t \in Task : \A i \in DOMAIN got[t] : got[t][i].kind = Kind[t]

(* What the filter of a node has let in is there exactly once, however     *)
(* often it is received and however drains, requeues and new arrivals      *)
(* interleave: nothing is lost and nothing is handed out twice.            *)
ArrivedOnce == \A n \in Node : \A m \in arrived[n] : Cardinality(Where(n, m)) = 1

(* The accumulator a task settles on has summed a sample as often as it is *)
(* in the leaves, the task's own grind and all it collected, however many  *)
(* they are and in whatever order they came; and its k is the number of    *)
(* different samples (prove_fold_tree, fold_acc).  A sample that is in two *)
(* leaves, as the task's own are when its SelfAcc comes back, is summed    *)
(* twice and counted once.                                                 *)
LeavesCounted ==
    \A t \in Task : pc[t] = "settled" =>
        LET leaves == Leaves(t)
        IN  /\ root[t].seen = UNION {leaves[i].seen : i \in DOMAIN leaves}
            /\ root[t].k = Cardinality(root[t].seen)
            /\ \A x \in Sample :
                  root[t].cnt[x] = Cardinality({i \in DOMAIN leaves : x \in leaves[i].seen})

(* Each canonical (id, n) pair is counted once in what a task settles on   *)
(* (src/specs/fold-mining.md, the fold step).                              *)
SettledOnce == \A t \in Task : pc[t] = "settled" => CountsOnce(root[t])

(* Of each node: let in and not yet collected, and collected. *)
Waiting == [n \in Node |-> ToSet(inbox[n]) \cup UNION {ToSet(hand[t]) : t \in Tasks(n)}]
Given == [n \in Node |-> UNION {ToSet(got[t]) : t \in Tasks(n)}]

(* The radio is such a transport: seen from outside, a node's messages are *)
(* those of its inbox and of the tasks between drain and requeue, and they *)
(* are handed out when a task collects them.  A drain that races another   *)
(* or a new arrival neither loses a message nor hands it out twice.        *)
Transport == INSTANCE Inbox WITH waiting <- Waiting, given <- Given

HandsOutOnce == Transport!Spec

(* A claim that was let in is eventually handed to the task that collects  *)
(* the claims of its topic, although other tasks of the node take it out   *)
(* of the inbox and put it back while they look for accumulators.          *)
ClaimsHandedOut ==
    \A t \in Task, m \in Msg :
        Kind[t] = "claim" /\ Wanted(t, m) =>
            ((m \in arrived[On[t]]) ~> (Count(m, got[t]) = 1))
=============================================================================
