------------------------------ MODULE MCVDisk -------------------------------
(***************************************************************************)
(* A disk "w" that tolerates one failure and a replicated disk "m" over    *)
(* three stores, one of them small; two files of the same data, and an     *)
(* entry and a tombstone from another manager whose clock is ahead.        *)
(***************************************************************************)
EXTENDS VDisk

CONSTANTS f1, f2, s1, s2, s3

TwoNames == {f1, f2}
ThreeStores == {s1, s2, s3}

(* The names are alike, and so are the two larger stores. *)
Symmetry == Permutations(TwoNames) \cup Permutations({s2, s3})

Tolerance == [d \in Disk |-> IF d = "w" THEN 1 ELSE Full]
Versions == [data : Data, k : 1 .. MaxSlots, n : {PowerOfTwo(m) : m \in 1 .. MaxSlots}]
SlotsOf == [d \in Disk |-> IF d = "w" THEN 3 ELSE 2]
Lengths == [x \in Data |-> 2]
Offers == [s \in Store |-> IF s = s1 THEN {3} ELSE {6}]
Managers == {"vdisk", "other"}

Other(x) == [content |-> [data |-> "x", k |-> 2, n |-> 4], ts |-> 1, dev |-> "other",
             deleted |-> x, devs |-> <<>>]
Others == {[f \in Name |-> Other(x)] : x \in BOOLEAN}

(* A fixed order on what is hashed, without collisions, so that ties go    *)
(* either way.                                                             *)
MCHash(f, v, t, d) ==
    (((v.k - 1) + 3 * (v.n \div 2) + 9 * t + (IF d = "vdisk" THEN 0 ELSE 27)) * 37) % 101
=============================================================================
