-------------------------------- MODULE Das ---------------------------------
(***************************************************************************)
(* src/src/das.rs over the code of Erasure: commitments to the shards of a *)
(* file and the verdict of a round of sampling.  Pure operators.  The hash *)
(* is ideal, the record of what it covers.                                 *)
(***************************************************************************)
EXTENDS Erasure

(* The bytes of a shard that are hashed and sent: its elements without the *)
(* index.                                                                  *)
shard_to_bytes(s) == s.data

root_hash(d) == [leaf |-> d]

global_root(roots) == [roots |-> roots]

commit(shards, k) ==
    LET roots == [i \in DOMAIN shards |-> root_hash(shard_to_bytes(shards[i]))]
    IN  [shard_roots |-> roots, root |-> global_root(roots), k |-> k, n |-> Len(shards)]

sample(s) == [shard_index |-> s.index, shard_data |-> shard_to_bytes(s)]

(* Mutant of verify_sample: the global root is not recomputed. *)
verify_sample_unbound(s, c) ==
    /\ s.shard_index < c.n /\ s.shard_index < Len(c.shard_roots)
    /\ root_hash(s.shard_data) = c.shard_roots[s.shard_index + 1]

(* The index is in range, the commitment is consistent, the data hashes to *)
(* the root at the index.                                                  *)
verify_sample(s, c) ==
    /\ s.shard_index < c.n /\ s.shard_index < Len(c.shard_roots)
    /\ global_root(c.shard_roots) = c.root
    /\ root_hash(s.shard_data) = c.shard_roots[s.shard_index + 1]

(* How many of the answers verify; an unanswered request is <<>>, an       *)
(* answered one <<sample>>.                                                *)
verify_availability(responses, c) ==
    Cardinality({i \in DOMAIN responses :
                   responses[i] # <<>> /\ verify_sample(responses[i][1], c)})

decide_availability(responses, c, min_verified) ==
    verify_availability(responses, c) >= min_verified

-----------------------------------------------------------------------------
(* What the verdict of a round is worth, for the commitment a client       *)
(* trusts by its root.  The round asks for different shards, but an answer *)
(* is not tied to its request, and one true shard that is answered k times *)
(* is Available.  So the promise is: whatever is answered (silence, stale  *)
(* shards, shards under another index, a list of shard roots spliced under *)
(* the trusted root), the answers that verify decode to the committed data *)
(* as soon as k of them differ in their index, and otherwise to nothing;   *)
(* and an Available round whose answers are decoded as they come gives the *)
(* data or, where a shard is repeated among the first k, is refused, and   *)
(* never gives other data (decide_availability, verify_sample, decode).    *)
AvailableDecodes(data, trusted, roots, responses) ==
    LET c == [trusted EXCEPT !.shard_roots = roots]
        good == SelectSeq(responses, LAMBDA r : r # <<>> /\ verify_sample(r[1], c))
        fetched == [i \in DOMAIN good |->
                      [index |-> good[i][1].shard_index, data |-> good[i][1].shard_data]]
        different(s) == Cardinality({s[i].index : i \in DOMAIN s})
        once == SetToSeq(ToSet(fetched))
        DataIf(enough) == IF enough THEN data ELSE Err
    IN  /\ decode(once, c.k, c.n, Len(data)) = DataIf(different(fetched) >= c.k)
        /\ decide_availability(responses, c, c.k) =>
              decode(fetched, c.k, c.n, Len(data))
                = DataIf(different(SubSeq(fetched, 1, c.k)) = c.k)
=============================================================================
