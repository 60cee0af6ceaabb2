----------------------------- MODULE MCSyncNode -----------------------------
(***************************************************************************)
(* Instances of SyncNode.  A process is <<kind, device>>.                  *)
(***************************************************************************)
EXTENDS SyncNode

OneName == {"f"}
OneContent == {1}
TwoContents == {1, 2}
OneDevice == {1}
TwoDevices == {1, 2}
ThreeDevices == 1 .. 3

DaemonOf(S) == {<<"daemon", d>> : d \in S}
CliOf(S) == {<<"cli", d>> : d \in S}

NoDaemon == {}
Daemon1 == DaemonOf({1})
Daemons12 == DaemonOf({1, 2})
Daemons23 == DaemonOf({2, 3})
Cli1 == CliOf({1})
Clis12 == CliOf({1, 2})

MCDir == [p \in Proc |-> p[2]]

Mesh == [d \in Device |-> Device \ {d}]
(* Each device pulls from the one before it. *)
Line == [d \in Device |-> {d - 1} \cap Device]

(* A fixed pseudo-random, collision-free order on the fields that are      *)
(* hashed, so that ties on the timestamp go either way.                    *)
MCHash(n, c, t, d) ==
    (((IF n = "f" THEN 0 ELSE 60) + 20 * (d - 1) + 4 * t + (c - 1)) * 37) % 127
=============================================================================
