---------------------------- MODULE MCAlgorithms ----------------------------
(***************************************************************************)
(* Inputs of three or four elements, a field of 13 elements, three bits to *)
(* an element, and a challenge above 13 that tells the fields of a beacon  *)
(* apart.                                                                  *)
(***************************************************************************)
EXTENDS Algorithms

SomeBudgets == {0, 1, 2, 3, 7, 10}
FourParticles == 1 .. 4
ZeroToTwo == 0 .. 2
SomeFoci == {0, 5, 6, 7, 22, 28, 56}
Digest(x) ==
    1 + x.epoch + 3 * x.prev + 5 * TotalOf(x.claims.claims) + 7 * TotalOf(x.signals.signals)

TwoHeights == 0 .. 1
TwoRoots == {GenesisRoot, GenesisRoot + 1}

(* Peers 3 and 4 come after the fanout unless others do not listen. *)
FourPeers == 1 .. 4
OneAndFour == {1, 4}
TwoAndThree == {2, 3}
ListenToU == {2, 4} \X {"U"}
SomeMessages ==
    {[kind |-> "claim", topic |-> "T", body |-> 1], [kind |-> "claim", topic |-> "U", body |-> 1],
     [kind |-> "acc", topic |-> "T", body |-> 1]}

(* Two miners with two nonces, of which one does not win. *)
TwoMiners == {"m", "o"}
TwoNonces == {0, 1}
ThreeSlots == {1, 2, 3}
Wins(m, n) == ~ (m = "o" /\ n = 1)
=============================================================================
