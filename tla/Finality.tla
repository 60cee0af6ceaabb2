------------------------------ MODULE Finality ------------------------------
(***************************************************************************)
(* src/src/finality.rs: the adaptive threshold over a domain and the       *)
(* certification gate.  Pure operators.  Numbers are fixed-point, integers *)
(* in units of 1 / One; products and quotients of tru are rounded down.    *)
(***************************************************************************)
EXTENDS Integers, FiniteSets, SequencesExt, Lists

CONSTANT One      \* the number 1

Times(a, b) == (a * b) \div One

Over(a, n) == a \div n

SumOf(s) == Total(s, DOMAIN s)

(* The superlevel set: what has focus of at least epsilon, in order. *)
EpsilonSupport(focus, epsilon) == Chosen(focus, {i \in DOMAIN focus : focus[i] >= epsilon})

mean(d) == IF d = <<>> THEN 0 ELSE Over(SumOf(d), Len(d))

(* Clamped at zero: rounding can take the mean square below the square of  *)
(* the mean.                                                               *)
variance(d) ==
    LET sq == IF d = <<>> THEN 0 ELSE Over(SumOf([i \in DOMAIN d |-> Times(d[i], d[i])]), Len(d))
        mu == Times(mean(d), mean(d))
    IN  IF sq >= mu THEN sq - mu ELSE 0

(* Mutant of crosses_threshold: the square forgets the side of the mean. *)
crosses_threshold_both(phi, d, kappa) ==
    Times(phi - mean(d), phi - mean(d)) > Times(Times(kappa, kappa), variance(d))

crosses_threshold(phi, d, kappa) ==
    /\ phi > mean(d)
    /\ Times(phi - mean(d), phi - mean(d)) > Times(Times(kappa, kappa), variance(d))

(* The uncertified mass is below the bound, by cross-multiplication. *)
certified(uncert, gap, kappa_d, c, kappa) ==
    Times(uncert, Times(c, One + kappa)) < Times(One - kappa_d, gap)

finalizes(phi, d, uncert, gap, kappa_d, c, kappa) ==
    crosses_threshold(phi, d, kappa) /\ certified(uncert, gap, kappa_d, c, kappa)

-----------------------------------------------------------------------------
(* How far a focus is beyond the threshold, in squares. *)
Beyond(phi, d, kappa) ==
    Times(phi - mean(d), phi - mean(d)) - Times(Times(kappa, kappa), variance(d))

(* What the products, the mean and the variance lose by rounding is less   *)
(* than three units of 1 / One.                                            *)
Rounding == 2

(* Never more than half of a domain crosses the threshold by more than     *)
(* rounding explains.  Without the margin this is false: where the square  *)
(* of the focus is near 1 / One, rounding takes the variance to so little  *)
(* that five of nine particles cross.                                      *)
AtMostHalf(d, kappa) ==
    2 * Cardinality({i \in DOMAIN d : crosses_threshold(d[i], d, kappa)
                                      /\ Beyond(d[i], d, kappa) > Rounding}) <= Len(d)
=============================================================================
