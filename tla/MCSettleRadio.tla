--------------------------- MODULE MCSettleRadio ----------------------------
(***************************************************************************)
(* A node "a" on which one task settles what the miner of "b" publishes    *)
(* while another collects claims.  The settler publishes its own           *)
(* accumulator, too, and adds it to what it collects, as cli.rs does.      *)
(* "b" and "c" announce the same claim.  One of mb's nonces does not win;  *)
(* none of mc's does, who collects nothing either and cannot settle.       *)
(***************************************************************************)
EXTENDS SettleRadio

Miners == {"s", "mb", "mc"}
Nonces == {0, 1}
Wins(m, n) == m = "s" \/ (m = "mb" /\ n = 1)
Topics == {"T"}

Tasks4 == {"settler", "claims", "pb", "pc"}

Acc(m) == self_fold(1, grind_settlement(m, 0, 2))
SelfAcc(t, m) == [kind |-> "acc", topic |-> t, miner |-> m, acc |-> Acc(m)]
ClaimAnnounce(t, c) == [kind |-> "claim", topic |-> t, claim |-> c]

StarPeers == [n \in {"a", "b", "c"} |-> IF n = "a" THEN {} ELSE {"a"}]
StarOn == [t \in Tasks4 |-> CASE t = "pb" -> "b" [] t = "pc" -> "c" [] OTHER -> "a"]
StarKind == [t \in Tasks4 |->
               CASE t \in {"settler", "pc"} -> "acc" [] t = "claims" -> "claim" [] OTHER -> "none"]
StarAbout == [t \in Tasks4 |-> "T"]
StarPosts == [t \in Tasks4 |->
                CASE t = "settler" -> {SelfAcc("T", "s")}
                  [] t = "pb" -> {SelfAcc("T", "mb"), ClaimAnnounce("T", "k")}
                  [] t = "pc" -> {ClaimAnnounce("T", "k")}
                  [] OTHER -> {}]
StarMiner == [t \in Tasks4 |-> CASE t = "pb" -> "mb" [] t = "pc" -> "mc" [] OTHER -> "s"]
FromZero == [t \in Tasks4 |-> 0]
OwnAdded == [t \in Tasks4 |-> IF t = "settler" THEN <<Acc("s")>> ELSE <<>>]
WantTwo == [t \in Tasks4 |-> 2]

(* The messages of this instance are as the theorems of SettleRadio_proofs *)
(* ask.                                                                    *)
ASSUME StarAssumption == AccsDistinct /\ IdsDistinct /\ SelfFolds
=============================================================================
