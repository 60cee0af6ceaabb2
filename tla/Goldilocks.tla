----------------------------- MODULE Goldilocks -----------------------------
(***************************************************************************)
(* The field of the library nebu that src/src/erasure.rs and               *)
(* src/src/vdf.rs compute in, at a small order P.  Pure operators.         *)
(***************************************************************************)
EXTENDS Integers

CONSTANTS
    P,            \* order of the field
    Generator     \* of the multiplicative group, 7 in the code

exp(x, e) == LET p[i \in 0 .. e] == IF i = 0 THEN 1 ELSE (p[i - 1] * x) % P IN p[e]

(* Zero has the inverse zero. *)
inv(x) == exp(x, P - 2)

(* Primitive n-th root of unity, for n that divide P - 1. *)
RootOfUnity(n) == exp(Generator, (P - 1) \div n)
=============================================================================
