------------------------------- MODULE VDisk --------------------------------
(***************************************************************************)
(* The virtual disk manager of src/src/vdisk.rs with the erasure code of   *)
(* src/src/erasure.rs and the chunk stores of src/src/store.rs.  A disk is *)
(* a list of attached stores; a file is encoded into n shards, any k of    *)
(* which restore it, and shard i goes to store i modulo their number.      *)
(*                                                                         *)
(* Files are in a registry (module Registry): the content of an entry is   *)
(* the data with its k and n, which determine the shard hashes.  An entry  *)
(* also remembers the stores it was spread over; only the properties look  *)
(* at that.  The manager is borrowed mutably, so a call is never           *)
(* interleaved with another; rechunk and rebalance, which loop over the    *)
(* HashMap of files, take one step per file and keep the others waiting.   *)
(***************************************************************************)
EXTENDS Registry, Lists

CONSTANTS
    Disk, Store, Data,
    Redundancy,      \* per disk: store failures to tolerate, or Full
    Full,            \* Redundancy::Max
    Elements,        \* per data: its length in field elements
    Offer,           \* per store: capacities it is attached with, 0 for no limit
    Slots,           \* bound, per disk: attachments
    MaxSlots,        \* bound: attachments of any disk
    Foreign,         \* registries of other managers
    NoStore          \* capacity of a store that was never attached

(* next_power_of_two *)
PowerOfTwo(m) ==
    LET p[i \in 0 .. m] == IF i <= 1 THEN 1
                           ELSE IF p[i - 1] < i THEN 2 * p[i - 1] ELSE p[i - 1]
    IN  p[m]

Grid == PowerOfTwo(MaxSlots)

ASSUME VDiskAssumption ==
    /\ MaxSlots \in Nat /\ Slots \in [Disk -> 1 .. MaxSlots]
    /\ Redundancy \in [Disk -> Nat \cup {Full}] /\ Full \notin Nat
    /\ Elements \in [Data -> Nat \ {0}]
    /\ Offer \in [Store -> SUBSET Nat] /\ NoStore \notin Nat
    /\ IsFiniteSet(Store)
    /\ Content = [data : Data, k : 1 .. MaxSlots, n : {PowerOfTwo(m) : m \in 1 .. MaxSlots}]
    /\ Foreign \subseteq [Name -> [content : Content, ts : Time, dev : Device,
                                   deleted : BOOLEAN, devs : {<<>>}] \cup {NoEntry}]
    /\ "vdisk" \in Device
    /\ NoEntry \notin [content : Content, ts : Time, dev : Device,
                       deleted : BOOLEAN, devs : Seq(Store)]

VARIABLES
    now,          \* now_ms
    disks,        \* the disks that were created
    attachments,  \* per disk: the stores attached, in order
    capacity,     \* per store
    held,         \* per store: its chunks
    used,         \* per store: the space its counter says is taken
    registry,
    call          \* the call in progress

vars == <<now, disks, attachments, capacity, held, used, registry, call>>

NoCall == [op |-> "none"]

Idle == call = NoCall

Init ==
    /\ now = 0
    /\ disks = {}
    /\ attachments = [d \in Disk |-> <<>>]
    /\ capacity = [s \in Store |-> NoStore]
    /\ held = [s \in Store |-> {}]
    /\ used = [s \in Store |-> 0]
    /\ registry = Empty
    /\ call = NoCall

Tick ==
    /\ Idle /\ now < MaxTime
    /\ now' = now + 1
    /\ UNCHANGED <<disks, attachments, capacity, held, used, registry, call>>

-----------------------------------------------------------------------------
(* The erasure code.                                                       *)

(* Shard i is the polynomial's value at the i-th of n roots of unity, so   *)
(* it is the shard of any other n at that root; for k = 1 the polynomial   *)
(* is constant.  A chunk is known by the hash of its bytes, without index. *)
chunk(v, i) ==
    [data |-> v.data, k |-> v.k, root |-> IF v.k = 1 THEN 0 ELSE i * (Grid \div v.n)]

Chunk == UNION {{chunk(v, i) : i \in 0 .. v.n - 1} : v \in Content}

(* One field element per group of k. *)
Size(c) == (Elements[c.data] + c.k - 1) \div c.k

ChunkSize == [c \in Chunk |-> Size(c)]

(* The shards get_file finds when the stores in Lost are gone. *)
Available(v, Lost) ==
    {i \in 0 .. v.n - 1 : \E s \in Store \ Lost : chunk(v, i) \in held[s]}

(* get_file succeeds. *)
Readable(f) ==
    /\ f \in Live(registry)
    /\ LET v == registry[f].content IN Cardinality(Available(v, {})) >= v.k

-----------------------------------------------------------------------------
(* Chunk stores.                                                           *)

Fits(st, s, c) == capacity[s] = 0 \/ st.used[s] + Size(c) <= capacity[s]

(* Mutant of Stored: a chunk that is there is counted again. *)
StoredAgain(st, s, c) ==
    [held |-> [st.held EXCEPT ![s] = @ \cup {c}], used |-> [st.used EXCEPT ![s] = @ + Size(c)],
     ok |-> st.ok]

(* A chunk that is there is not counted again. *)
Stored(st, s, c) ==
    [held |-> [st.held EXCEPT ![s] = @ \cup {c}],
     used |-> [st.used EXCEPT ![s] = IF c \in st.held[s] THEN @ ELSE @ + Size(c)],
     ok |-> st.ok]

(* ChunkStore::put, in a sequence of puts that ends with the first failure. *)
PutShard(st, s, c) ==
    IF ~ st.ok THEN st
    ELSE IF Fits(st, s, c) THEN Stored(st, s, c)
    ELSE [st EXCEPT !.ok = FALSE]

(* Mutant of StoreOf: modulo k. *)
StoreOfModK(devs, v, i) == devs[(i % v.k) + 1]

(* Round-robin. *)
StoreOf(devs, v, i) == devs[(i % Len(devs)) + 1]

(* The stores after the shards of v were distributed over devs. *)
Distributed(devs, v) ==
    LET st[i \in 0 .. v.n] ==
            IF i = 0 THEN [held |-> held, used |-> used, ok |-> TRUE]
            ELSE PutShard(st[i - 1], StoreOf(devs, v, i - 1), chunk(v, i - 1))
    IN  st[v.n]

-----------------------------------------------------------------------------
(* Operations.                                                             *)

create_disk(d) ==
    /\ Idle /\ d \notin disks
    /\ disks' = disks \cup {d}
    /\ UNCHANGED <<now, attachments, capacity, held, used, registry, call>>

(* Mutant of StoreOpened: no chunk store is created. *)
StoreOpenedNever(s, c) == capacity

(* A store that is attached already keeps the capacity it was first given. *)
StoreOpened(s, c) ==
    IF capacity[s] = NoStore THEN [capacity EXCEPT ![s] = c] ELSE capacity

(* attach, of any store and as often as one likes. *)
attach(s, d, c) ==
    /\ Idle /\ d \in disks
    /\ Len(attachments[d]) < Slots[d]
    /\ attachments' = [attachments EXCEPT ![d] = Append(@, s)]
    /\ capacity' = StoreOpened(s, c)
    /\ UNCHANGED <<now, disks, held, used, registry, call>>

Failures(d) ==
    IF Redundancy[d] = Full THEN Len(attachments[d]) - 1 ELSE Redundancy[d]

(* There are more stores than failures to tolerate: otherwise n_devices - f *)
(* underflows or encode's assertion fails, before anything has changed.    *)
Encodable(d) == Len(attachments[d]) > Failures(d)

(* k and n of a file of data x on the disk as it is now. *)
Encoded(d, x) ==
    [data |-> x, k |-> Len(attachments[d]) - Failures(d), n |-> PowerOfTwo(Len(attachments[d]))]

Entry(d, v, t) ==
    [content |-> v, ts |-> t, dev |-> "vdisk", deleted |-> FALSE, devs |-> attachments[d]]

(* put_file: when a store is full the shards put so far stay and no entry  *)
(* is made.                                                                *)
put_file(d, f, x) ==
    /\ Idle /\ d \in disks
    /\ attachments[d] # <<>> /\ Encodable(d)
    /\ LET v == Encoded(d, x)
           st == Distributed(attachments[d], v)
       IN  /\ held' = st.held /\ used' = st.used
           /\ \/ st.ok /\ registry' = lww_insert(registry, f, Entry(d, v, now))
              \/ ~ st.ok /\ UNCHANGED registry
    /\ UNCHANGED <<now, disks, attachments, capacity, call>>

merge_registry(other) ==
    /\ Idle
    /\ registry' = merge(registry, other)
    /\ UNCHANGED <<now, disks, attachments, capacity, held, used, call>>

-----------------------------------------------------------------------------
(* rechunk.                                                                *)

(* Entries of whatever disk, with another k or n, tombstones included. *)
files_to_rechunk(d) ==
    {f \in Held(registry) :
        LET v == registry[f].content IN v # Encoded(d, v.data)}

rechunk(d) ==
    /\ Idle /\ d \in disks
    /\ Len(attachments[d]) >= 2 /\ Encodable(d)
    /\ call' = [op |-> "rechunk", disk |-> d, todo |-> files_to_rechunk(d), done |-> {}]
    /\ UNCHANGED <<now, disks, attachments, capacity, held, used, registry>>

(* Mutant of Restamp: the time of the rewrite, whatever it rewrites. *)
RestampNow(t) == now

(* Strictly later than the entry that is rewritten. *)
Restamp(t) == IF now > t THEN now ELSE t + 1

(* One file: skipped if it cannot be read, rewritten otherwise; a store    *)
(* that is full ends the call with the shards put so far.                  *)
RechunkFile(f) ==
    /\ call.op = "rechunk"
    /\ f \in call.todo
    /\ registry[f].ts < MaxTime
    /\ LET v == Encoded(call.disk, registry[f].content.data)
           st == Distributed(attachments[call.disk], v)
       IN  \/ /\ ~ Readable(f)
              /\ call' = [call EXCEPT !.todo = @ \ {f}]
              /\ UNCHANGED <<held, used, registry>>
           \/ /\ Readable(f) /\ st.ok
              /\ held' = st.held /\ used' = st.used
              /\ registry' = lww_insert(registry, f, Entry(call.disk, v, Restamp(registry[f].ts)))
              /\ call' = [op |-> "rechunk", disk |-> call.disk,
                          todo |-> call.todo \ {f}, done |-> call.done \cup {f}]
           \/ /\ Readable(f) /\ ~ st.ok
              /\ held' = st.held /\ used' = st.used
              /\ call' = NoCall
              /\ UNCHANGED registry
    /\ UNCHANGED <<now, disks, attachments, capacity>>

-----------------------------------------------------------------------------
(* rebalance.                                                              *)

(* What the i-th attached store holds above its share of all that is used. *)
Delta(devs, i) ==
    LET total(g) == FoldLeft(LAMBDA a, s : a + g[s], 0, devs)
    IN  used[devs[i]] - (total(used) * capacity[devs[i]]) \div total(capacity)

rebalance(d) ==
    /\ Idle /\ d \in disks
    /\ LET devs == attachments[d]
       IN  /\ Len(devs) >= 2
           /\ \E s \in ToSet(devs) : used[s] > 0
           /\ \E s \in ToSet(devs) : capacity[s] > 0
           /\ call' = [op |-> "rebalance", disk |-> d, todo |-> Live(registry),
                       delta |-> [i \in DOMAIN devs |-> Delta(devs, i)]]
    /\ UNCHANGED <<now, disks, attachments, capacity, held, used, registry>>

(* The attached stores that are over-full and hold the chunk c. *)
Sources(st, c) ==
    LET devs == attachments[call.disk]
    IN  {i \in DOMAIN devs : call.delta[i] > 0 /\ c \in st.held[devs[i]]}

(* Of the under-full ones that lack it, the one with the largest delta, of *)
(* equal ones the first attached.                                          *)
Destination(st, c) ==
    LET devs == attachments[call.disk]
        lack == {i \in DOMAIN devs : call.delta[i] < 0 /\ c \notin st.held[devs[i]]}
    IN  {i \in lack : \A j \in lack : \/ call.delta[i] > call.delta[j]
                                      \/ call.delta[i] = call.delta[j] /\ i <= j}

(* A chunk is copied if it fits; the source keeps it. *)
Moved(st, c) ==
    IF Sources(st, c) = {} \/ Destination(st, c) = {} THEN st
    ELSE LET s == attachments[call.disk][CHOOSE i \in Destination(st, c) : TRUE]
         IN  IF Fits(st, s, c) THEN Stored(st, s, c) ELSE st

(* The stores after the shards of v were looked at one by one. *)
Rebalanced(v) ==
    LET st[i \in 0 .. v.n] ==
            IF i = 0 THEN [held |-> held, used |-> used, ok |-> TRUE]
            ELSE Moved(st[i - 1], chunk(v, i - 1))
    IN  st[v.n]

RebalanceFile(f) ==
    /\ call.op = "rebalance"
    /\ f \in call.todo
    /\ LET st == Rebalanced(registry[f].content)
       IN  held' = st.held /\ used' = st.used
    /\ call' = [call EXCEPT !.todo = @ \ {f}]
    /\ UNCHANGED <<now, disks, attachments, capacity, registry>>

Return ==
    /\ ~ Idle /\ call.todo = {}
    /\ call' = NoCall
    /\ UNCHANGED <<now, disks, attachments, capacity, held, used, registry>>

-----------------------------------------------------------------------------
Next ==
    \/ Tick
    \/ \E d \in Disk : create_disk(d)
    \/ \E s \in Store, d \in Disk : \E c \in Offer[s] : attach(s, d, c)
    \/ \E d \in Disk, f \in Name, x \in Data : put_file(d, f, x)
    \/ \E r \in Foreign : merge_registry(r)
    \/ \E d \in Disk : rechunk(d)
    \/ \E f \in Name : RechunkFile(f)
    \/ \E d \in Disk : rebalance(d)
    \/ \E f \in Name : RebalanceFile(f)
    \/ Return

Spec == Init /\ [][Next]_vars

-----------------------------------------------------------------------------
(* Properties.                                                             *)

(* Types of the variables. *)
TypeOK ==
    /\ now \in Time
    /\ disks \subseteq Disk
    /\ \A d \in Disk : attachments[d] \in Seq({s \in Store : capacity[s] # NoStore})
    /\ capacity \in [Store -> Nat \cup {NoStore}]
    /\ held \in [Store -> SUBSET Chunk]
    /\ used \in [Store -> Nat]
    /\ \A f \in Held(registry) :
          /\ registry[f].content \in Content /\ registry[f].ts \in Time
          /\ registry[f].dev \in Device /\ registry[f].deleted \in BOOLEAN
    /\ call.op \in {"none", "rechunk", "rebalance"}

(* "Tolerate f device failures": a file that was spread over distinct      *)
(* stores is readable after the loss of any f of all stores, f being what  *)
(* its k leaves of the stores it was spread over.  That holds through full *)
(* stores, rewrites that fail half-way and rebalancing.                    *)
ToleratesLosses ==
    \A f \in Live(registry) :
        LET v == registry[f].content
            devs == registry[f].devs
        IN  devs # <<>> /\ IsInjective(devs) =>
                \A Lost \in SUBSET Store :
                    Cardinality(Lost) <= Len(devs) - v.k =>
                        Cardinality(Available(v, Lost)) >= v.k

(* "A rewrite must supersede what it rewrites": a file rechunk counts as   *)
(* rechunked has the new k and n in the registry, also when the entry it   *)
(* replaces is of the same millisecond or from a clock that is ahead.      *)
RechunkSupersedes ==
    call.op = "rechunk" =>
        \A f \in call.done :
            LET v == registry[f].content IN v = Encoded(call.disk, v.data)

(* The space counter of a store is the size of the chunks it holds, and    *)
(* never above its capacity, whatever is put twice or fails half-way.      *)
SpaceAccounted ==
    \A s \in Store : capacity[s] # NoStore =>
        /\ used[s] = Total(ChunkSize, held[s])
        /\ capacity[s] > 0 => used[s] <= capacity[s]
=============================================================================
