------------------------------- MODULE Lists --------------------------------
(***************************************************************************)
(* Loops over lists and sums over sets, in a form that can be reasoned     *)
(* about.                                                                  *)
(***************************************************************************)
EXTENDS Integers, SequencesExt

(* The elements of s at the positions in K, in order. *)
Chosen(s, K) ==
    LET out[i \in 0 .. Len(s)] ==
            IF i = 0 THEN <<>>
            ELSE IF i \in K THEN Append(out[i - 1], s[i]) ELSE out[i - 1]
    IN  out[Len(s)]

(* How many elements of s stand up to the one at i when s is sorted; those *)
(* that less, a set of pairs, does not tell apart keep their order.        *)
Ranks(s, less) ==
    [i \in DOMAIN s |-> Cardinality({j \in DOMAIN s :
        <<s[j], s[i]>> \in less \/ (<<s[i], s[j]>> \notin less /\ j <= i)})]

(* s sorted by less: a stable sort. *)
Arranged(s, less) == [k \in DOMAIN s |-> s[CHOOSE i \in DOMAIN s : Ranks(s, less)[i] = k]]

(* Numbers in ascending order. *)
Ascending(s) == Arranged(s, {p \in ToSet(s) \X ToSet(s) : p[1] < p[2]})

(* The sum of g over S. *)
Total(g, S) == MapThenSumSet(LAMBDA x : g[x], S)
=============================================================================
