------------------------------ MODULE Registry ------------------------------
(***************************************************************************)
(* The file registry of src/src/store.rs (struct GSet): a map from file    *)
(* names to entries, merged last-writer-wins.  Everything here is a pure   *)
(* operator; SyncNode owns the copies of the registry that live in memory, *)
(* in registry.json and on the wire.                                       *)
(*                                                                         *)
(* A registry is a total function on Name, with NoEntry for a name the     *)
(* HashMap does not hold.  An entry keeps the fields the merge and the     *)
(* garbage collector look at: the content (which stands for the list       *)
(* shard_hashes), the timestamp, the device that wrote it and the          *)
(* tombstone flag.                                                         *)
(***************************************************************************)
EXTENDS Integers, FiniteSets

CONSTANTS
    Name,                \* file names
    Content,             \* file contents, one per list of shard hashes
    Device,              \* device ids
    MaxTime,             \* bound on the wall clocks, in milliseconds
    Drift,               \* MAX_CLOCK_DRIFT_MS
    MaxEntries,          \* MAX_REGISTRY_ENTRIES
    EntryHash(_, _, _, _), \* hemera over name, shard hashes, timestamp, device
    NoEntry              \* the name is not in the map

Time == 0 .. MaxTime

FileEntry == [content : Content, ts : Time, dev : Device, deleted : BOOLEAN]

GSet == [Name -> FileEntry \cup {NoEntry}]

ASSUME RegistryAssumption ==
    /\ MaxTime \in Nat
    /\ Drift \in Nat
    /\ MaxEntries \in Nat
    /\ NoEntry \notin FileEntry
    /\ \A n \in Name, c \in Content, t \in Time, d \in Device :
            EntryHash(n, c, t, d) \in Nat

(* hemera is a collision-free hash. *)
ASSUME HashAssumption ==
    \A n \in Name, c1, c2 \in Content, t1, t2 \in Time, d1, d2 \in Device :
        EntryHash(n, c1, t1, d1) = EntryHash(n, c2, t2, d2) =>
            c1 = c2 /\ t1 = t2 /\ d1 = d2

Empty == [n \in Name |-> NoEntry]

(* The hash covers name, shard hashes, timestamp and device; the tombstone *)
(* flag is not hashed.                                                     *)
compute_hash(n, e) == EntryHash(n, e.content, e.ts, e.dev)

(* e replaces f under the name n: higher timestamp, then higher hash. *)
Beats(n, e, f) ==
    \/ e.ts > f.ts
    \/ e.ts = f.ts /\ compute_hash(n, e) > compute_hash(n, f)

(* Mutant of LwwPick: the tie-break is gone. *)
LwwPickNoTieBreak(n, old, new) ==
    IF old = NoEntry \/ new.ts >= old.ts THEN new ELSE old

LwwPick(n, old, new) ==
    IF old = NoEntry \/ Beats(n, new, old) THEN new ELSE old

lww_insert(r, n, e) == [r EXCEPT ![n] = LwwPick(n, r[n], e)]

(* Trusted merge: every entry of the other registry is offered. *)
merge(r, other) ==
    [n \in Name |-> IF other[n] = NoEntry THEN r[n]
                                          ELSE LwwPick(n, r[n], other[n])]

(* An entry another device wrote passes validate: its name, shard list and *)
(* hash are as that device computed them, so only the clock can refuse it. *)
Valid(e, now) == e.ts <= now + Drift

Held(r) == {n \in Name : r[n] # NoEntry}

Live(r) == {n \in Held(r) : ~ r[n].deleted}

len(r) == Cardinality(Live(r))

(* Mutant of Offered: tombstones are not taken from peers. *)
OfferedLive(other, now) == {n \in Live(other) : Valid(other[n], now)}

(* The names of the other registry whose entries pass validation. *)
Offered(other, now) == {n \in Held(other) : Valid(other[n], now)}

(* Untrusted merge.  The entries arrive in HashMap order, so when the      *)
(* registry fills up which of the new names get in is arbitrary: the       *)
(* operator returns every outcome.                                         *)
validated_merge(r, other, now) ==
    LET ok       == Offered(other, now)
        fresh    == ok \ Held(r)
        room     == IF Cardinality(Held(r)) >= MaxEntries
                    THEN 0 ELSE MaxEntries - Cardinality(Held(r))
        fill     == IF Cardinality(fresh) <= room THEN Cardinality(fresh) ELSE room
        admitted == {S \in SUBSET fresh : Cardinality(S) = fill}
    IN  {[n \in Name |-> IF n \in S \cup (ok \ fresh)
                         THEN LwwPick(n, r[n], other[n]) ELSE r[n]] : S \in admitted}

LiveContents(r) == {r[n].content : n \in Live(r)}

HeldContents(r) == {r[n].content : n \in Held(r)}

(* new is at least as recent as old in the order the merge climbs. *)
AtLeast(n, new, old) ==
    old = NoEntry \/ (new # NoEntry /\ ~ Beats(n, old, new))

(* The same entry but for the tombstone flag, which is not hashed: neither *)
(* of the two beats the other, and of the two the one that is there stays. *)
Twin(e) == [e EXCEPT !.deleted = ~ @]
=============================================================================
