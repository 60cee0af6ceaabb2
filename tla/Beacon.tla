------------------------------- MODULE Beacon -------------------------------
(***************************************************************************)
(* src/src/beacon.rs and src/src/vdf.rs: the epoch beacon and the delay    *)
(* function under it.  Pure operators.  Hashes are ideal, the record of    *)
(* what they cover; the delay function is computed, in a field of P        *)
(* elements, from numbers that may be above P as a u64 may be.             *)
(***************************************************************************)
EXTENDS Goldilocks, Lists

CONSTANTS
    Challenge(_)      \* challenge_from_hash: 8 bytes of a hash, never 0

(* T sequential squarings; 0 counts as 1. *)
evaluate(input, t) ==
    LET x == input % P
        sq[i \in 0 .. t] == IF i = 0 THEN IF x = 0 THEN 1 ELSE x ELSE (sq[i - 1] * sq[i - 1]) % P
    IN  [input |-> input, output |-> sq[t], iterations |-> t]

(* Re-evaluation; without iterations input and output are compared. *)
verify_vdf(p) ==
    IF p.iterations = 0 THEN p.input = p.output \/ (p.input = 0 /\ p.output = 1)
    ELSE evaluate(p.input, p.iterations).output = p.output

(* Claim ids and delay outputs are sorted before they are hashed. *)
claims_root(ids) == [claims |-> Ascending(ids)]

signal_vdf_root(outputs) == [signals |-> Ascending(outputs)]

collect_signal_outputs(proofs) ==
    LET good == Chosen(proofs, {i \in DOMAIN proofs : verify_vdf(proofs[i])})
    IN  [i \in DOMAIN good |-> good[i].output]

vdf_input(epoch, prev, claims, signals) ==
    Challenge([epoch |-> epoch, prev |-> prev, claims |-> claims, signals |-> signals])

beacon_digest(epoch, prev, claims, signals, output) ==
    [epoch |-> epoch, prev |-> prev, claims |-> claims, signals |-> signals, outer |-> output]

open_beacon(epoch, prev, claims, outputs, t) ==
    LET signals == signal_vdf_root(outputs)
        vdf == evaluate(vdf_input(epoch, prev, claims, signals), t)
    IN  [epoch |-> epoch, prev |-> prev, claims_root |-> claims, signal_root |-> signals,
         outer_vdf |-> vdf, beacon |-> beacon_digest(epoch, prev, claims, signals, vdf.output)]

(* Mutant of verify_beacon: the input of the delay is not checked. *)
verify_beacon_relabel(art) ==
    /\ verify_vdf(art.outer_vdf)
    /\ art.beacon = beacon_digest(art.epoch, art.prev, art.claims_root, art.signal_root,
                                  art.outer_vdf.output)

verify_beacon(art) ==
    /\ verify_vdf(art.outer_vdf)
    /\ art.outer_vdf.input = vdf_input(art.epoch, art.prev, art.claims_root, art.signal_root)
    /\ art.beacon = beacon_digest(art.epoch, art.prev, art.claims_root, art.signal_root,
                                  art.outer_vdf.output)

-----------------------------------------------------------------------------
(* Let art be an artifact and other one opened for other fields.  art      *)
(* verifies; it still does with its claims and signals listed in any order *)
(* and with invalid signal delays among them; and none of its fields can   *)
(* be replaced by the other's, with the digest recomputed, unless both     *)
(* hash to one challenge: the delay is paid for one tuple of epoch,        *)
(* parent, claims and signals (verify_beacon).                             *)
DelayBound(e, prev, ids, proofs, t, other) ==
    LET art == open_beacon(e, prev, claims_root(ids), collect_signal_outputs(proofs), t)
        again == open_beacon(e, prev, claims_root(Reverse(ids)),
                             collect_signal_outputs(Reverse(proofs)), t)
        digest(a) == [a EXCEPT !.beacon = beacon_digest(a.epoch, a.prev, a.claims_root,
                                                        a.signal_root, a.outer_vdf.output)]
        relabelled == {digest([art EXCEPT !.epoch = other.epoch]),
                       digest([art EXCEPT !.prev = other.prev]),
                       digest([art EXCEPT !.claims_root = other.claims_root]),
                       digest([art EXCEPT !.signal_root = other.signal_root])}
        input(a) == vdf_input(a.epoch, a.prev, a.claims_root, a.signal_root)
    IN  /\ verify_beacon(art) /\ again = art
        /\ \A a \in relabelled : input(a) # input(art) => ~ verify_beacon(a)
        /\ verify_vdf(art.outer_vdf)
=============================================================================
