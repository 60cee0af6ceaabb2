-------------------------------- MODULE Mesh --------------------------------
(***************************************************************************)
(* SettleMesh of src/src/gossip.rs: the in-process mesh of settlement      *)
(* messages.  Pure operators on a mesh, which maps each peer that joined,  *)
(* a number, to its inbox, the content ids it has seen and its             *)
(* subscriptions.  A claim is announced under its own id alone, whatever   *)
(* the topic.                                                              *)
(***************************************************************************)
EXTENDS Integers, FiniteSets, SequencesExt, Lists

NewMesh(fanout) == [peers |-> <<>>, fanout |-> IF fanout < 2 THEN 2 ELSE fanout]

NewPeer == [inbox |-> <<>>, seen |-> {}, subs |-> {}]

Joined(mesh) == DOMAIN mesh.peers

join(mesh, p) ==
    [mesh EXCEPT !.peers =
        [q \in Joined(mesh) \cup {p} |-> IF q \in Joined(mesh) THEN @[q] ELSE NewPeer]]

subscribe(mesh, p, topic) ==
    IF p \in Joined(mesh) THEN [mesh EXCEPT !.peers[p].subs = @ \cup {topic}] ELSE mesh

cid(m) == IF m.kind = "claim" THEN <<"claim", m.body>> ELSE <<m.kind, m.topic, m.body>>

(* Mutant of Push: the content id is not consulted. *)
PushAgain(peer, m) ==
    [inbox |-> Append(peer.inbox, m), seen |-> peer.seen \cup {cid(m)}, subs |-> peer.subs]

Push(peer, m) ==
    IF cid(m) \in peer.seen THEN peer
    ELSE [inbox |-> Append(peer.inbox, m), seen |-> peer.seen \cup {cid(m)}, subs |-> peer.subs]

(* The first fanout others, by id, that listen to the topic. *)
Targets(mesh, from, m) ==
    LET listen == {q \in Joined(mesh) \ {from} :
                     mesh.peers[q].subs = {} \/ m.topic \in mesh.peers[q].subs}
    IN  {q \in listen : Cardinality({r \in listen : r < q}) < mesh.fanout}

(* To the publisher itself, whatever its subscriptions, and the targets. *)
publish(mesh, from, m) ==
    LET to == Targets(mesh, from, m) \cup ({from} \cap Joined(mesh))
    IN  [mesh EXCEPT !.peers = [q \in Joined(mesh) |-> IF q \in to THEN Push(@[q], m) ELSE @[q]]]

InboxOf(mesh, p) == IF p \in Joined(mesh) THEN mesh.peers[p].inbox ELSE <<>>

WithInbox(mesh, p, s) == IF p \in Joined(mesh) THEN [mesh EXCEPT !.peers[p].inbox = s] ELSE mesh

(* drain, peer_accs and peer_claims: what is taken, of the wanted, and the *)
(* mesh after.                                                             *)
Takes(mesh, p, wanted) ==
    LET inbox == InboxOf(mesh, p)
        K == {i \in DOMAIN inbox : inbox[i] \in wanted}
    IN  [taken |-> Chosen(inbox, K), mesh |-> WithInbox(mesh, p, Chosen(inbox, DOMAIN inbox \ K))]

drain(mesh, p) == Takes(mesh, p, ToSet(InboxOf(mesh, p)))

OfKind(mesh, p, k, topic) == {m \in ToSet(InboxOf(mesh, p)) : m.kind = k /\ m.topic = topic}

peer_accs(mesh, p, topic) == Takes(mesh, p, OfKind(mesh, p, "acc", topic))

peer_claims(mesh, p, topic) == Takes(mesh, p, OfKind(mesh, p, "claim", topic))

-----------------------------------------------------------------------------
(* How often a message of content id c is in s. *)
CountId(c, s) == Cardinality({i \in DOMAIN s : cid(s[i]) = c})

(* Every content id that was published to a peer, as often as it was, by   *)
(* whomever and under whatever topic, is in its inbox or was taken from it *)
(* exactly once, and nothing else is (publish, drain, peer_accs,           *)
(* peer_claims).  owed holds peer and content id, taken what each peer     *)
(* took.                                                                   *)
PublishedOnce(mesh, owed, taken) ==
    \A p \in Joined(mesh) :
        LET all == taken[p] \o mesh.peers[p].inbox
        IN  /\ \A c \in {o[2] : o \in {x \in owed : x[1] = p}} : CountId(c, all) = 1
            /\ \A i \in DOMAIN all : <<p, cid(all[i])>> \in owed
=============================================================================
