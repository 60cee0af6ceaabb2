------------------------------ MODULE Erasure -------------------------------
(***************************************************************************)
(* src/src/erasure.rs: the Reed-Solomon code.  Pure operators, computed in *)
(* the field; polynomials and shards are indexed from 0.                   *)
(***************************************************************************)
EXTENDS Goldilocks, FiniteSets, SequencesExt

CONSTANTS
    ByteSize,     \* values of a byte
    PerElement,   \* bytes in an element, 7 in the code
    Err           \* decode refused

ASSUME ErasureAssumption ==
    ByteSize \in Nat \ {0} /\ PerElement \in Nat \ {0} /\ ByteSize ^ PerElement < P

SumOver(n, f(_)) == FoldFunction(+, 0, [i \in 0 .. n - 1 |-> f(i)])

ProductOver(S, f(_)) == FoldFunction(LAMBDA x, y : x * y, 1, [j \in S |-> f(j)])

CeilDiv(a, b) == (a + b - 1) \div b

-----------------------------------------------------------------------------
(* Little-endian groups of bytes; the last may be short. *)
bytes_to_elements(data) ==
    [e \in 1 .. CeilDiv(Len(data), PerElement) |->
        SumOver(PerElement, LAMBDA i :
            LET at == (e - 1) * PerElement + i + 1
            IN  IF at <= Len(data) THEN data[at] * ByteSize ^ i ELSE 0)]

elements_to_bytes(elements, original_len) ==
    LET bytes == [b \in 1 .. Len(elements) * PerElement |->
                    (elements[(b - 1) \div PerElement + 1]
                       \div ByteSize ^ ((b - 1) % PerElement)) % ByteSize]
    IN  SubSeq(bytes, 1, IF original_len < Len(bytes) THEN original_len ELSE Len(bytes))

(* The evaluations of a polynomial at the n-th roots of unity, in order,   *)
(* and the polynomial of n evaluations.                                    *)
ntt(poly, n) ==
    [s \in 0 .. n - 1 |-> SumOver(n, LAMBDA i : poly[i] * exp(RootOfUnity(n), s * i)) % P]

intt(evals, n) ==
    [i \in 0 .. n - 1 |->
        (inv(n) * SumOver(n, LAMBDA s : evals[s] * exp(inv(RootOfUnity(n)), s * i))) % P]

(* Groups of k elements are the coefficients of a polynomial each; shard s *)
(* has the s-th evaluation of every group.                                 *)
encode(data, k, n) ==
    LET elements == bytes_to_elements(data)
        groups == CeilDiv(Len(elements), k)
        coefficient(g, i) == LET at == (g - 1) * k + i + 1
                             IN  IF i < k /\ at <= Len(elements) THEN elements[at] ELSE 0
        evals == [g \in 1 .. groups |-> ntt([i \in 0 .. n - 1 |-> coefficient(g, i)], n)]
    IN  [s \in 1 .. n |-> [index |-> s - 1, data |-> [g \in 1 .. groups |-> evals[g][s - 1]]]]

(* The shards are those of all the indices 0 to n - 1. *)
is_complete(shards, n) ==
    Len(shards) = n /\ {shards[i].index : i \in DOMAIN shards} = 0 .. n - 1

decode_full(shards, k, n, groups, original_len) ==
    LET of(s) == CHOOSE i \in DOMAIN shards : shards[i].index = s
        poly == [g \in 1 .. groups |-> intt([s \in 0 .. n - 1 |-> shards[of(s)].data[g]], n)]
    IN  elements_to_bytes([e \in 1 .. groups * k |-> poly[(e - 1) \div k + 1][(e - 1) % k]],
                          original_len)

(* The coefficients of the product of x - x_j over the points but the i-th *)
Basis(points, i) ==
    LET k == Len(points)
        times(basis, x) ==
            [d \in 0 .. k - 1 |-> ((IF d = 0 THEN 0 ELSE basis[d - 1]) + basis[d] * (P - x)) % P]
    IN  FoldLeft(times, [d \in 0 .. k - 1 |-> IF d = 0 THEN 1 ELSE 0], RemoveAt(points, i))

lagrange_interpolate(points, values) ==
    LET k == Len(points)
        denom(i) == ProductOver(DOMAIN points \ {i}, LAMBDA j : points[i] - points[j]) % P
        term == [i \in DOMAIN points |->
                    LET scale == values[i] * inv(denom(i))
                        basis == Basis(points, i)
                    IN  [d \in 0 .. k - 1 |-> (scale * basis[d]) % P]]
    IN  [d \in 0 .. k - 1 |-> SumOver(k, LAMBDA i : term[i + 1][d]) % P]

(* Mutant of Usable: an index may come twice. *)
UsableTwice(available, n, groups) ==
    \A i \in DOMAIN available :
        available[i].index < n /\ Len(available[i].data) = groups

(* Of the shards that are used, the indices are in range and distinct and  *)
(* the numbers of groups agree.                                            *)
Usable(available, n, groups) ==
    /\ \A i \in DOMAIN available :
          available[i].index < n /\ Len(available[i].data) = groups
    /\ \A i, j \in DOMAIN available : i # j => available[i].index # available[j].index

(* A complete list is decoded by the inverse transform, any other by its   *)
(* first k shards.                                                         *)
decode(shards, k, n, original_len) ==
    LET available == SubSeq(shards, 1, k)
        groups == Len(shards[1].data)
        points == [i \in 1 .. k |-> exp(RootOfUnity(n), available[i].index)]
        coeffs == [g \in 1 .. groups |->
                     lagrange_interpolate(points, [i \in 1 .. k |-> available[i].data[g]])]
    IN  CASE (\A e \in 0 .. n : n # 2 ^ e) \/ Len(shards) < k \/ shards = <<>> -> Err
          [] Len(shards) = n /\ is_complete(shards, n) ->
                decode_full(shards, k, n, groups, original_len)
          [] ~ is_complete(shards, n) /\ ~ Usable(available, n, groups) -> Err
          [] OTHER -> elements_to_bytes(
                        [e \in 1 .. groups * k |-> coeffs[(e - 1) \div k + 1][(e - 1) % k]],
                        original_len)

-----------------------------------------------------------------------------
(* Any k shards of different indices, in any order and whatever follows    *)
(* them, give the data back; a list in which one of the first k is         *)
(* repeated, out of range or shorter than another is refused, never        *)
(* decoded to something else.  picks are the shards offered: a shard of    *)
(* encode, by its index, whole or cut by a group.  Cut shards that decode  *)
(* does not compare with whole ones are left out: those of a complete list *)
(* and k of the same length (decode).                                      *)
DecodesOrRefuses(data, picks, k, n) ==
    LET shards == encode(data, k, n)
        offered == [i \in DOMAIN picks |->
                      LET whole == shards[(picks[i].index % n) + 1].data
                      IN  [index |-> picks[i].index,
                           data |-> IF picks[i].cut /\ whole # <<>> THEN Front(whole) ELSE whole]]
        first == SubSeq(offered, 1, k)
        cut == {i \in DOMAIN picks : picks[i].cut}
        good == /\ Len(picks) >= k
                /\ Cardinality({s.index : s \in ToSet(first)}) = k
                /\ ToSet(first) \subseteq ToSet(shards)
    IN  \/ cut # {} /\ (is_complete(offered, n) \/ 1 .. k \subseteq cut)
        \/ decode(offered, k, n, Len(data)) = (IF good THEN data ELSE Err)
=============================================================================
