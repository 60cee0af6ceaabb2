-------------------------------- MODULE Nmt ---------------------------------
(***************************************************************************)
(* src/src/nmt.rs: namespaced Merkle trees and completeness proofs.  Pure  *)
(* operators.  A leaf is a pair <<namespace, data_hash>>, both naturals;   *)
(* the hash is ideal, the record of what it covers.                        *)
(***************************************************************************)
EXTENDS Lists

LeafLess(a, b) == a[1] < b[1] \/ (a[1] = b[1] /\ a[2] < b[2])

Sorted(leaves) ==
    Arranged(leaves, {p \in ToSet(leaves) \X ToSet(leaves) : LeafLess(p[1], p[2])})

hash_leaf(l) == [leaf |-> l]

hash_pair(l, r) ==
    [hash |-> [left |-> l.hash, right |-> r.hash, min |-> l.min, max |-> r.max],
     min |-> IF l.min <= r.min THEN l.min ELSE r.min,
     max |-> IF l.max >= r.max THEN l.max ELSE r.max]

(* The node of no leaves. *)
EmptyNode == [hash |-> [leaf |-> <<>>], min |-> -1, max |-> -1]

(* Halves are built and paired: node[k][lo] is that of the k leaves of s   *)
(* from lo on.                                                             *)
build_tree(s) ==
    LET node[k \in 1 .. Len(s)] ==
            [lo \in 1 .. Len(s) - k + 1 |->
                IF k = 1 THEN [hash |-> hash_leaf(s[lo]), min |-> s[lo][1], max |-> s[lo][1]]
                ELSE hash_pair(node[k \div 2][lo], node[k - k \div 2][lo + k \div 2])]
    IN  IF s = <<>> THEN EmptyNode ELSE node[Len(s)][1]

build(leaves) == build_tree(Sorted(leaves))

Matching(leaves, ns) ==
    LET s == Sorted(leaves) IN Chosen(s, {i \in DOMAIN s : s[i][1] = ns})

prove(leaves, ns) ==
    [namespace |-> ns, leaves |-> Matching(leaves, ns), root |-> build(leaves),
     total_leaves |-> Len(leaves)]

(* Against a trusted root: the root, the namespaces, the order. *)
verify(proof, trusted) ==
    /\ proof.root = trusted
    /\ \A i \in DOMAIN proof.leaves : proof.leaves[i][1] = proof.namespace
    /\ \A i \in 2 .. Len(proof.leaves) : ~ LeafLess(proof.leaves[i], proof.leaves[i - 1])

(* Mutant of verify_full: the lengths are not compared, so that the zip    *)
(* ends with the shorter list.                                             *)
verify_full_zip(all, proof) ==
    /\ verify(proof, build(all))
    /\ LET actual == Matching(all, proof.namespace)
       IN  \A i \in DOMAIN actual \cap DOMAIN proof.leaves : actual[i] = proof.leaves[i]

(* Against all leaves: the tree is rebuilt and the leaves are compared. *)
verify_full(all, proof) ==
    /\ verify(proof, build(all))
    /\ LET actual == Matching(all, proof.namespace)
       IN  /\ Len(actual) = Len(proof.leaves)
           /\ \A i \in DOMAIN actual : actual[i] = proof.leaves[i]

-----------------------------------------------------------------------------
(* Contiguous parts of a list. *)
Parts(s) == {SubSeq(s, i, j) : i \in 1 .. Len(s), j \in 0 .. Len(s)}

(* The proof of the leaves of ns passes a verifier that holds other        *)
(* exactly if it was made from the same leaves, and one with part of them  *)
(* only if it is all of them.                                              *)
ProofComplete(leaves, other, ns) ==
    LET p == prove(leaves, ns)
        same == Sorted(leaves) = Sorted(other)
    IN  /\ verify_full(other, p) <=> same
        /\ \A cut \in Parts(p.leaves) :
              LET q == [p EXCEPT !.leaves = cut]
              IN  /\ same => verify(q, build(other))
                  /\ verify_full(other, q) <=> (same /\ cut = p.leaves)

(* A completeness proof made from one set of leaves is accepted by a       *)
(* verifier with leaves of its own exactly if the two are the same leaves, *)
(* in whatever order each holds them, and the proof omits none: the proof  *)
(* that leaves one out, or claims an absence that is not so, passes verify *)
(* and is refused by verify_full.                                          *)
ProofsComplete(leaves, Others, Namespaces) ==
    \A ns \in Namespaces, other \in Others : ProofComplete(leaves, other, ns)
=============================================================================
