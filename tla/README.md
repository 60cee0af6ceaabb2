# A verification project for foculus

foculus is the Rust crate under `src/`: a peer-to-peer store of erasure-coded
files with a last-writer-wins registry, per-author signal chains with
equivocation handling and fork choice, and a settlement layer in which miners
sample marginals, fold their samples and pay an epoch's budget out. The modules
here are TLA+ models of that code. TLC checks them on small instances, and
TLAPS proves the main properties of each for every value of the constants. Paths below are relative to the repository (`src/src/node.rs` is the
file `src/node.rs` of the crate).

How to run, inside this directory:

    tlc -workers 2 -config SyncSingle.cfg MCSyncNode     # one run
    tlapm SyncNode_proofs.tla                            # one proof module

`PROJECT.json` lists the runs, the source lines behind every definition, the
hazards each property is for, the mutants that show a property can fail, the
findings and the theorems.

## 1. Inventory

### 1.1 Storage and sync

**File registry** (`store.rs`, `GSet`). State: a map from file name to entry
(shard hashes, timestamp, device, tombstone flag, hash). Operations:
`lww_insert`, trusted `merge`, `validated_merge` for what peers send (limits on
name, shard list, clock drift, number of entries), `len`, `live_shard_hashes`,
`compact`, `delta_since`. It is correct when the order the merge climbs is the
same at every process and nothing gets in that nobody wrote.

**Chunk store** (`store.rs`, `ChunkStore`). State: a directory of chunks by
hash, a space counter, a capacity. Operations: `put`, `get`, `gc`, `audit`.
Correct when a live file keeps its shards, gc takes only orphans, and the
counter is what is stored.

**Sync node** (`node.rs`, node commands of `cli.rs`). A device is a data
directory: `registry.json`, `peers.json`, `chunks/`. A daemon serves peers and
runs `background_sync` on a timer; every command (`put`, `get`, `rm`, `ls`,
`sync`, `gc`, ...) is a process of its own that loads `registry.json`, works,
and saves its whole copy back. Nothing locks the directory between processes;
inside a process a tokio `RwLock` guards the state. The peer protocol has
requests for the registry and for a chunk; the registry that is served is the
file, not memory. Hard: commands beside the daemon, requests awaited under the
write lock, crashes inside and between writes, torn files, clocks, a count that
decides whether to save.

**Virtual disk** (`vdisk.rs` over `erasure.rs` and `store.rs`). State: disks,
the stores attached to each, a registry, the chunk stores with capacities.
Operations: `create_disk`, `attach`, `put_file`, `get_file`, `merge_registry`,
`rechunk`, `rebalance`, `status`. A file is cut into k data shards and extended
to n, a power of two; shard i goes to store i modulo their number. Hard: stores
that fill up half-way, rewrites that must win a last-writer-wins comparison,
the rounding of n.

**Erasure code, data availability sampling, NMT** (`erasure.rs`, `das.rs`,
`nmt.rs`). Pure. `encode` packs bytes into field elements, groups of k of which
are the coefficients of a polynomial that is evaluated at the n-th roots of
unity; `decode` interpolates from k shards, or inverts the transform when all n
are there. `commit`, `verify_sample` and `decide_availability` judge a round of
sampling. A namespaced Merkle tree proves the leaves of a namespace. Hard:
repeated, foreign and short shards, shard lists that do not belong to the root
a client trusts, proofs that leave leaves out.

### 1.2 Signals and fork choice

**Signal chains** (`chain.rs`). State: the list of an author's signals, each
with the hash of the one before. Operations: `append` (equivocation, then step,
then prev) and `check_equivocation`.

**Conflict index, reconciler, fork choice** (`conflict.rs`, `reconcile.rs`,
`fork.rs`, `focus.rs`). State: signals grouped by author and step. `observe`
indexes one signal and resolves its group at once; `resolve_all` resolves every
group. Strategies: Serialize (no winner), MinHash (smallest id), Focus (most
focus in the graph of indexed links, computed by tru). Hard: delivery order and
repetition; the incremental verdict against the batch verdict.

**Finality** (`finality.rs`, `finality_evidence.rs`). `threshold` is the mean of a
domain plus a factor times its deviation, in fixed point; a particle is final
when its focus is above. `FinalityEvidence` binds a signal to the height and root
of a tip. Hard: rounding, and evidence that is shown at another tip than the one
it was issued at.

### 1.3 Settlement

**Tickets** (`tickets.rs`, `ticket_proof.rs`). A ticket is a winning pair
(miner, nonce) with its marginal vector. `ClusterAcc` sums vectors and remembers
the pairs. `absorb_ticket`, `self_fold`, `fold_acc`, `fold_acc_checked`, and the
fold tree of `prove_fold_tree`. Correct when every pair counts once and the tree
may have any shape.

**Gossip and radio** (`gossip.rs`, `radio_settle.rs`). State per node: inbox,
seen content ids, subscriptions, peer book. `publish` ingests locally and dials
the peers one by one; `collect_*` drains the inbox under one lock and puts the
rest back under another; `wait_self_accs` polls until a count or a timeout.
`SettleMesh` is an in-process mesh used in tests.

**Rewards** (`rewards.rs`). `allocate_budget`, receipts and their hash,
`share_of`, `settle_with_peer_accs`; scoring of marginals by tru.

**Epochs and the live node** (`epoch.rs`, `live.rs`, `tip.rs`, `step.rs`,
`epoch_cert.rs`, `beacon.rs`, `vdf.rs`). A node links and ingests signals (its
tip rises), freezes an epoch's claims under a root, draws a beacon from the
previous one, absorbs peers' SelfAccs, settles and issues a certificate; others
accept it. Rewards are pending until the tip is `settle_depth` above the mint
height. Light nodes join from a tip and follow certificates. Hard: late,
repeated and reordered signals, SelfAccs and certificates; a settle that fails
after the beacon was drawn.

**Tips** (`tip.rs`, `step.rs`). A prover folds heights into an accumulator and
exports checkpoints; a tip joins one, follows with folds, applies locally, or
audits its accumulator again. A tip knows how far it can be trusted.

**Partition** (`partition.rs`): claims whose supports in the link graph overlap
share a cluster. **Marginals** (`settlement.rs`, `marginal_cert.rs`): sampled
orderings, exact values, certificates whose marginals are computed again.
**Frames and wire** (`frames.rs`, `wire.rs`, the SelfAcc codec of `gossip.rs`):
signals and intents in a log of frames, settlement messages on a stream. Hard:
what is cut, by a crash or by a read, at any place.

**Pay proofs, settlement adapter, library root, binaries** are calls into zheng,
tru and tok, re-exports and entry points.

### 1.4 Interactions

`node.rs` keeps registries and chunk stores of `store.rs` and talks to other
nodes; `vdisk.rs` keeps its own registry and stores. `reconcile.rs` feeds on the
signals that `chain.rs` orders. The settler waits on `radio_settle.rs` for
SelfAccs and folds them with `tickets.rs`; `live.rs` drives `epoch.rs`, which
calls `rewards.rs`, and turns receipts into certificates that other live nodes
credit.

## 2. Modules

| module | models | state | actions |
|---|---|---|---|
| `Lists` | loops that pick elements of a list, sorting, sums over a set | none (pure operators) | |
| `Registry` | `GSet` of `store.rs` | none (pure operators) | |
| `SyncNode` | `node.rs`, node commands of `cli.rs` | clocks, `registry.json` and chunks per device; memory, program point, work record, peers left per process | start, crash, every command in the steps its locks and writes cut it into, `background_sync`, ctrl-c |
| `VDisk` | `vdisk.rs`, shard layout of `erasure.rs`, chunk store accounting | clock, disks, attachments, capacity, chunks and counter per store, registry, the call in progress | `create_disk`, `attach`, `put_file`, `merge_registry`, `rechunk`, `rebalance` |
| `Reconcile` | `chain.rs`, `conflict.rs`, `fork.rs`, `focus.rs`, `reconcile.rs` | signed signals; index, last verdicts, chains, reported equivocators per node | sign, observe, append |
| `Tickets` | `tickets.rs`, order of `ticket_proof.rs` | none (pure operators) | |
| `Inbox` | what a transport of settlement messages promises (abstract) | waiting and handed-out messages per node | let in, hand out |
| `SettleRadio` | `radio_settle.rs`, identities of `gossip.rs`, `settle_with_peer_accs` | inbox, seen, subscriptions, frames in flight; per task what it publishes, holds and collected | subscribe, publish, push, receive, lose, drain, requeue, timeout, settle |
| `Rewards` | budget, receipts, shares of `rewards.rs` | none (pure operators) | |
| `Live` | `live.rs`, `epoch.rs`, `tip.rs`, `epoch_cert.rs`, `beacon.rs` | every field of `LiveNode`; what travels between nodes | every operation of `LiveNode` |
| `Partition` | `partition.rs` | none (pure operators) | |
| `Shapley` | `settlement.rs`, `marginal_cert.rs` | none (pure operators) | |
| `Goldilocks`, `Erasure`, `Das` | the field, `erasure.rs`, `das.rs` | none (pure operators) | |
| `Nmt` | `nmt.rs` | none (pure operators) | |
| `Codec` | `frames.rs`, `wire.rs`, SelfAcc codec of `gossip.rs` | none (pure operators) | |
| `Beacon` | `beacon.rs`, `vdf.rs` | none (pure operators) | |
| `Finality`, `Tip` | `finality.rs`; `tip.rs`, `step.rs`, `finality_evidence.rs` | none (operators on tips, provers, checkpoints) | |
| `Mesh` | `SettleMesh` of `gossip.rs` | none (operators on a mesh) | |
| `Algorithms` | composes the pure modules | which algorithm, and its input | one per algorithm, extending its input; the operations of a tip, of a mesh and of the accumulators of a cluster |

`Rewards`, `SettleRadio`, `VDisk`, `Finality`, `Mesh`, `Partition`, `Shapley`, `Nmt`,
`Beacon` and `Codec` extend `Lists`;
`SyncNode` and `VDisk` extend `Registry`; `Algorithms` and `SettleRadio` extend
`Tickets`; `Live` extends `Rewards`; `Algorithms` extends `Rewards` and the pure
modules; `SettleRadio` instantiates `Inbox` under a refinement mapping. `MCx` instantiates `x` for
TLC, and `x_proofs` holds its theorems; `Lists_proofs` holds what the proofs of
`Live`, `SettleRadio`, `VDisk` and `Algorithms` share.

### 2.1 Choices worth knowing

*Registry.* A registry is a total function on names; the content of an entry
stands for the list of shard hashes. The entry hash is an operator constant over
exactly the fields the code hashes, so the tombstone flag is not part of it; it
is assumed free of collisions (`HashAssumption`). `Twin` of an entry is the entry
with the other tombstone flag, which the comparison cannot tell from it.
`validated_merge` returns the set of outcomes, because with the registry full
the order of a `HashMap` decides which new names get in.

*SyncNode.* `fs::write` of `registry.json` is two steps, truncation and
completion, and a crash in between leaves `Torn`, which loads as the empty
registry exactly as `unwrap_or_default` makes it. `CrashAt` says at which
program points processes may crash, `Overlap` whether two processes may use one
directory at a time, `OverflowChecks` whether the build panics on underflow.
A request is answered by any process of the device whose write lock is free;
asking a peer under a lock is a step that is disabled until then. `put_file`
keeps all shards on the device: `capacity_weighted_placement` is called with a
local capacity of `u64::MAX`, against which peers weigh nothing. `acked` and
`issued` are history variables: `acked` has every entry a put or delete of the device
reported as done, whether or not the registry took it.

*Reconcile.* Delivery is not modelled as a queue: any signed signal can be
observed or appended at any node again and again. A signal keeps the fields the
code compares, and its position hash leaves the payload out, as `Signal::hash`
does.

*Tickets.* In place of a summed vector an accumulator keeps how often each
sample went into the sum, so that "counted twice" can be said.

*SettleRadio.* Taking the inbox and putting the rest back are separate actions.
The frame a sender closes on before it is read can be lost. `arrived` is a
history variable. `publish` puts a message into the own inbox first, so that a
settler collects its own SelfAcc; `Added` is what the caller adds to the collected
ones, which in `cli.rs:1068` is that SelfAcc again, and `Leaves` has the task's own
grind besides.

*Live.* Proofs, hashes and the delay function are ideal: a beacon is the record
of what it hashes, and everything issued verifies. `link`, `ingest_signal` and
`close_and_settle_epoch` include the tip bump, crediting and maturing they end
with. The marginals of tru enter as a weight operator on a claim and the SelfAccs
folded in. `claimed` is a history variable.

*VDisk.* The manager is borrowed mutably, so calls do not interleave; the loops
of `rechunk` and `rebalance` over a `HashMap` take one step per file, in any
order, and block everything else until they return. An entry remembers the
stores it was spread over, which only a property looks at.

*Algorithms.* A sequential algorithm has no interleavings, only inputs. The state
is the input of one algorithm, an action extends it by one element, and so TLC
enumerates all inputs up to the bounds and an invariant compares the result with
a reference definition. Tips, the mesh and accumulators are stateful: there the
input is the object and the actions are its methods. The peers of the mesh, its
messages, fanout, publishers and subscriptions are constants, as are the miners,
nonces and accumulators of a cluster.

*Hashes* are ideal: the record of what the code hashes, so that equal hashes mean
equal content. The lottery of tickets is a set of winning nonces.

*Erasure and Beacon* compute, in a field of 13 elements in place of 2^64 - 2^32 + 1:
13 has the fourth roots of unity a code of 4 shards needs, and challenges may be
above it as a u64 may be above the real modulus.

*Codec.* A buffer is a sequence of fields and counts; `Cuts` cuts it at any
place, also within a field. What may be absent is a list of at most one. `Drained` is
the loop of `handle_inbound` over what it has read, with the rest that waits for the
next read. The container of a frame belongs to tape and is external.

*Sorting* (`Lists!Arranged`) puts the element at i where its rank says: the number of
elements that are smaller, or equal and not behind it, which is what a stable sort
does. *Partition* keeps the forest of `parent` and the order of both loops; path
compression moves no root and is left out. Its reference, `Within`, is stated by paths
and not by growing a set.

*Finality* keeps fixed-point rounding: numbers are integers in units of 1/`One`.

*Tip.* An accumulator is the list of the steps folded into it; deciding one that
is not empty succeeds under any statement, because `step.rs` does not bind the
material. So a checkpoint is worth what its sender is: `Exports` sends the
prover's, a tip's, and ones that claim any height and root beside either accumulator
or beside none, as the test at `tip.rs:345-357` joins one. `genuine` and
`sentGenuine` mark an accumulator that came with its own place; `since` is the
checkpoint the tip took last, and `issuer` the height, root and trust of the tip at
which the evidence was issued. These are history variables.

## 3. Runs

Seven runs pass and five end in a counterexample that is the finding of section
5.

| run | question | size |
|---|---|---|
| `SyncSingle` | commands, a daemon, restarts and crashes between writes, over two devices | 919 thousand states |
| `SyncDelivery` | do daemons keep syncing and deliver what was written (liveness) | 68 thousand |
| `SyncRelay` | does everybody converge over a line of three (violated) | |
| `SyncCycle` | do daemons that peer with each other keep syncing (violated) | |
| `SyncTorn` | is an acknowledged write safe from a crash inside a write (violated) | |
| `ReconcileMinHash` | reconciliation under MinHash, any delivery | 884 thousand |
| `ReconcileFocus` | the same question under Focus (violated) | |
| `RadioSettle` | settlement over radio with two tasks on one inbox, lost frames, the settler's own SelfAcc (liveness too) | 54 thousand |
| `SettleOwnAcc` | does a settlement count each pair once (violated) | |
| `Algorithms` | do the sequential algorithms compute what they promise, for all small inputs | 425 thousand |
| `LiveEpochs` | full, cell and light nodes over epochs | 203 thousand |
| `VDiskFiles` | files on two disks that share three stores | 1008 thousand |

### 3.1 What they check

*SyncSingle.* `AckDurable`: every put or delete that ever reported success is in
`registry.json`, or an entry that beats it is. The one exception is part of the
statement: in the millisecond of a tie, the twin of the entry may be there instead, so
that a delete within the millisecond of its file reports success and does nothing
(section 5.1). `FilesKept`: the shards of every live
file the device wrote are in its chunks directory. `Provenance`: no merge,
relay, restart or torn file makes an entry up. `GcOnlyOrphans`: no step takes
away a shard that the registry, or a running process, lists as live.
`MemMonotone`: a running process only moves up the merge order.

*SyncDelivery.* `AutoSyncRuns`: a daemon left running completes rounds again and
again. `DirectDelivery`: what a device has written reaches each daemon that
lists it as a peer.

*ReconcileMinHash.* `IncrementalIsBatch`: the last winner `observe` named is the
one `resolve_all` names. `HonestUnconflicted`: an author who signs once per step
is never in a conflict group. `ChainsAgree`: two nodes' chains of an author
differ only from a step on that the author signed twice. `PastPositionsFixed`: a
position hash fixes all positions below it.

*RadioSettle.* `ArrivedOnce`: a message the filter let in is there exactly once,
in the inbox, in a task's hand or collected. `LeavesCounted`: the root a task
settles on sums a pair as often as it is in the leaves, which may overlap, and its k
is the number of different pairs.
`HandsOutOnce`: the radio implements `Inbox`, where what waits is what is in the
inbox or in a task's hand and what is given is what tasks collected; draining and
putting back are stutters, so no race of two tasks and an arrival loses a message
or hands it out twice. `ClaimsHandedOut`: a claim that was let in reaches the task that collects
claims, although the other task keeps taking it out and putting it back.

*SettleOwnAcc.* `SettledOnce`: each pair is counted once in the root. It is not, for
the settler's own (section 5).

*Algorithms.*
- `BudgetConserved`: the amounts add up to the budget, nothing goes to a claim
  without weight, and each amount is proportional up to rounding.
- `ClustersExact`: the clusters are the connected components of claims with a particle
  within radius hops of both, listed by id, whatever the order of the claims.
- `LotteryFair`: summed over all draws the sampled marginals are the exact ones,
  these divide the whole value and give nothing to who adds nothing, and of all
  vectors that could be published exactly the lottery's are certified.
- `NamespaceComplete`: `verify_full` accepts the proof of exactly the leaves of the
  namespace.
- `ShardsRestore`: any k good shards restore the data by either way of decoding,
  and the others are refused; of the answers to a sampling round under a trusted
  root, those that verify decode to the data exactly when k of them have different
  indices, and never to other data. The verdict Available alone does not promise
  that: `decide_availability` counts a repeated shard each time (section 5.1).
- `CodecsExact`: a signal comes back whole, and of a cut one no part of a section; a
  torn log gives the frames before the tear, a cut stream the messages before the
  cut, and those after it with the bytes that come later.
- `BeaconBound`: a delay verifies for the epoch, parent, claims and signals it was
  run for, listed in any order, and for no others.
- `HalfAtMost`: at most half of a domain crosses the threshold by more than rounding
  explains, so that both sides of a conflict are final only by rounding. The margin
  is needed (section 5.1).
- `TipsTrusted`: a tip trusted for its fold has folded on, in order and without a
  gap, from the checkpoint it took last, whatever that claimed, and from the first
  height if it came with its own accumulator; evidence is accepted at the tip it was
  issued over exactly if that was trusted, elsewhere only at a trusted tip of the same
  height and root, and none of its fields, the book included, can be replaced.
- `MeshExact`: what is published to a peer is in its inbox or was taken from it,
  exactly once.
- `CountedOnce`: folded with `fold_acc_checked`, an accumulator counts each pair once,
  which is also what makes `self_fold` equal to absorbing one by one. `MonoidLaws`:
  `fold_acc` is commutative and associative on what occurs.

*LiveEpochs.* `RewardsConserved`: paid plus pending is what the credited receipts
give the neuron. `NothingOverdue`: nothing pending is due at a full or cell node.
`ClaimedOnce`: a signal is claimed in one epoch, once. `FrozenClaims`: from the
freeze on, the claims are those the root and the beacon commit to.
`BeaconsChain`: the beacon of an epoch is drawn from the one its issuer settled
the epoch before under.

*VDiskFiles.* `ToleratesLosses`: a file spread over distinct stores is readable
after the loss of as many stores as its k was chosen for. `RechunkSupersedes`: a
file counted as rechunked has the new encoding in the registry.
`SpaceAccounted`: the counter of a store is the size of what it holds and within
its capacity.

### 3.2 Bounds

*Sync runs.* One name, one content and clocks 0..1 give, for each device, a live
entry and a tombstone at two timestamps: updates, deletes, ties and entries from
a clock that is ahead by one, which drift 1 accepts. Initial clocks differ
between devices. `MaxIssued` bounds how many different entries commands make: 4
in `SyncSingle` (a put and a delete on each device), 2 in `SyncRelay`, and all
there are in the others. `SyncRelay` has one time and two contents instead: the
second put wins the tie by its hash and is an update that does not change the
number of files. Two devices are needed for
a relayed entry to come back, three (`SyncRelay`) for one that has to be passed
on. One shard per content: K and N only decide how many shards `get` walks, and
every shard is treated alike. `MaxEntries` is 2, so the cap is not reached with
one name in these runs; it is covered by the proofs, which hold for every cap.
`SyncSingle` has a daemon on one device and commands on both, so a daemon and a
command that talk to each other, and a command that runs after the daemon on the
same directory, both occur. Two devices peer with each other there; in
`SyncDelivery` the peers form a line, because two daemons that peer with each
other can block (section 5).

*ReconcileMinHash.* Two nodes and five signals: one of an honest author, three
rivals at step 0 of a dishonest one, one of them on another network, and a step
1 on top. Three rivals are the least for a group to be resolved, grow and be
resolved again; two with one position hash and a successor are the least for
chains to meet again above a difference. The nodes are symmetric.

*RadioSettle, SettleOwnAcc.* A node with two tasks, the settler, which publishes its
own SelfAcc and adds it to what it collects, and a collector of claims; a peer that
publishes an accumulator and a claim, and one that announces the same claim and
settles without winning a ticket, so that a settlement also fails. A nonce that does
not win makes the accumulators differ in size. Three leaves make a fold tree with an
odd level, four one without.

*Algorithms.* Budgets 0, 1, 2, 3, 7 and 10 over up to four claims with weights 0..4:
zero weights in every position, the last one included, and budgets smaller than
the number of claims. Three claims over a path of four particles, radii 0, 1 and 2:
two claims that only a third joins, and supports that take two hops. Coalition values 0..2 for up to three
contributors. Three leaves in two namespaces, each tree against all trees.
Codes with (k, n) = (1,2), (2,2), (2,4), (3,4) and data that fill neither the last
element nor the last group, with up to four shards in any order, one of them
above the range and one short; three answers to a sampling round. Sections of up
to two items, logs and streams of up to three, cut at every place. Beacons over
up to three signals with good and bad delays. Domains of up to nine
particles in units of 1/64, with focus 0, 5/64, 6/64, 7/64, 22/64, 28/64 or 56/64, in
ascending order, on which the threshold does not depend: among these is a domain of
nine in which rounding makes more than half of the particles cross. Tips over heights 0..1 with two roots and accumulators of
up to two steps (`MaxSection`): a height that is repeated, skipped and late, and any of
them claimed by a checkpoint. A mesh of four peers with the smallest fanout, 2, so
that some peers are beyond it. Two miners, two nonces of which one does not win, three
accumulators: a sample can reach an accumulator by two ways, and associativity needs
three.

*LiveEpochs.* A full node with two epochs, a cell with one and a light node that
works for the full node's neuron; one own signal each, one absorbed SelfAcc,
depth 1. Both epochs of the full node are settled with the other's certificate
arriving before, between and after.

*VDiskFiles.* Two names with the same data (equal shards are stored once), a disk
that tolerates one failure over up to three stores and a replicated disk over up
to two (`MaxSlots` is 3, a store attached twice included), one store too small for all of it, three clock values, and entries from
another manager stamped 1. The names, and the two larger stores, are symmetric.

### 3.3 Fairness

Safety runs use `Spec` without fairness.

`SyncNode!FairSpec`: clocks advance; a process that began a save, or is past the
point where a command can fail, carries on; the sync task of a daemon is
strongly fair. Its timer fires again and again, and where it waits for a peer's
answer, that answer waits for a lock which tokio grants in turn, so a peer whose
lock is free again and again does answer. Nothing is assumed of users or of
crashes: `DaemonsStayUp` is a hypothesis of the properties.

`SettleRadio!FairSpec`: a frame that stays in flight is read, a task goes on
publishing and polling. `Timeout` is strongly fair: once `wait_self_accs` is past
its deadline the next turn of its loop returns, however often it drains before
that. Frames may still be lost whenever they are in flight.

## 4. Proofs

All theorems hold for every value of the constants that satisfies the named
assumptions of the modules. Nothing need be finite in `SyncNode`, `Reconcile` and
`Live` (devices, processes, names, nodes and signals are any sets); `Tickets` has
finite sets of miners and nonces, `SettleRadio` and `VDisk` those their modules
assume, and the inputs of `Algorithms` have any length their bounds allow, which are
any numbers. The assumptions say that constants have their types, that the model
values for "no entry", "no file", "torn" are not entries or files, that
`1 <= K <= N`, in `Registry` that the entry hash has no collisions, and in `Reconcile`
that content ids tell signals apart. A theorem
that needs more says so in its statement; these hypotheses are named below, and
TLC evaluates those that are not about all sets on its instance.

**`SyncNode_proofs`.**
`TypeCorrect` is the type invariant, with a work record that fits the program
point (`JobOK`): later proofs need to know what a process carries when it reaches
a step. `MoveStep` and `JobStep` say once what an action of one process leaves
of the others.
`MemMonotoneHolds`: `LwwPickFacts` and `AtLeastOrder` show that the comparison is
a preorder and that picking never goes below either side; `MergeFacts` and
`ValidatedMergeFacts` lift that to whole registries.
`ProvenanceHolds`: `EntryStepHolds` describes a step by where each entry in
memory, on disk and in replies may have come from, with any number of
overlapping processes, crashes anywhere and torn files.
`AckDurableHolds` assumes `Overlap = FALSE` and no crash inside a save.
`AckDurable` is not inductive: a running process could save a memory that is
behind what was acknowledged. `AckInv` adds that a directory has at most one
running process, that a torn file belongs to a save in progress, that the memory
of a running process covers everything acknowledged on its device (is it, beats it or
is its twin), and that what it is about to acknowledge is covered by its memory. Both hypotheses are necessary:
`SyncTorn` shows the second, and of two overlapping processes the one that saves
last overwrites what the other saved.
`GcOnlyOrphansHolds`, from the same hypotheses. `ChunksStep` says that only
`GcSweep` makes a chunks directory smaller. It sweeps with a live set that was
computed a step earlier, so what has to be shown is that nothing was added to
the live files since: `GcInv` says that a command which has done nothing yet
holds what `registry.json` holds, and that between its two halves a gc carries the
live set of its memory, and so of the file.
`FilesKeptHolds`, again from the same hypotheses. `FilesKept` alone is not
inductive: an entry whose shards gc took after a delete could come back from a
peer that still has it. `KeptInv` rules this out. Everything a device issued is
acknowledged, or in the hands of a process about to acknowledge it (`Recorded`), so
by `AckInv` memory and disk are at least as far; and every live entry the device
issued has its shards, unless the device has gone on from it in memory and on disk
(`Forgotten`). `ForgottenStep` shows that the order never lets such an entry win
again, and `Provenance` that an entry with the device's name was issued by it.

**`Reconcile_proofs`.**
`Shape` says that nodes index and chain only signed signals.
`TypeCorrect` and `IncrementalIsBatchHolds` are for Serialize and MinHash, whose
verdict depends on the group alone (`VerdictLocal`); the invariant is that the
verdict of every conflicting group is that of the group as it is now.
`MinHashMember` needs that a non-empty set of ids has a least one.
`HonestUnconflictedHolds` adds that no two signed signals of an honest author
share a step. `PastPositionsFixedHolds` and `ChainsAgreeHolds` rest on `AllLinked`:
every entry of a chain is of its author, at its own step, on top of the entry
before.

**`Live_proofs`.**
`RunnerStep` describes what any action does to the epoch of one node: nothing,
claims added in Propose, freeze and beacon, a certificate and the next epoch.
`RunnerInv` says that from the freeze on root and beacon belong to the claims,
which `FrozenClaimsHolds` restates; it needs that a failed settle leaves the opened
epoch as it is. `BeaconsChainHolds`: `ChainInv` adds that the parent of the open
epoch is the beacon of the node's last certificate. `NothingOverdueHolds`:
`MintInv` adds that heights are numbers; `MatureFacts` says that after maturing nothing
due is left, and every action of a full or cell node that raises the tip or adds a
pending reward ends with it. `ClaimedOnceHolds`: `ClaimInv` relates the log, the
claims of the open epoch and those of earlier ones; a signal is claimed only when
it enters the log, and a logged signal does not enter again.
`RewardsConservedHolds` and `TypeOKHolds` assume `WeightsNatural`: the weight of a
claim is a natural number, as the code's `u128` is. `RewardsConserved` alone is not
inductive: a reward could mature that no credited receipt stands behind. `PayInv`
adds that every pending reward is positive and belongs to a receipt credited at the
node, that all receipts in certificates pay natural numbers, that the sets summed
over are finite, and the types of logs and SelfAccs; with it the account of a node
(`Account`) is kept when a receipt is credited (the sum over one more receipt) and
when rewards mature (the sum over two disjoint sets). `AllocateFacts` of `Lists_proofs`
supplies that a receipt pays natural numbers.

**`Lists_proofs`.** What a loop or a sum computes for every input needs induction.
The library's induction theorems take an operator, which the provers cannot
instantiate; the lemmas here take a set instead. `LeastNat` (a set of naturals has
a least element, from the well-foundedness of the naturals) gives `UpTo` (a set of
numbers with 0 and closed under the step up to n has n) and `Recursion` (a function
defined by recursion up to n exists and is unique); `GrowsTo` is the same for finite
sets that grow by one element. From these: `ChosenFacts` (a loop that picks elements
keeps exactly those, in order and as often as they were there), `TotalInts`,
`TotalMoved`, `TotalUnion`, `TotalPart` and `TotalRaised` (sums of integers over sets, which
do not depend on how the elements are named), and `AllocateFacts`: the
split of a budget adds up, pays nothing to a claim without weight and is
proportional up to rounding. Sorting: ranks are a bijection, so that a sorted list is
the old one rearranged with no two neighbours the wrong way round, and lists with the
same numbers as often sort to the same (`SortedByKey` and its neighbours). Lists that
stand one after the other: where each part of a flattened list starts (`Offsets`,
`FlattenFacts`), and that it has the elements of its parts, each once (`FlattenOnce`). The
list of a finite set has each element once (`SetToSeqFacts`).

**`SettleRadio_proofs`.**
`TypeOKHolds`: `PcInv` adds which program points may have something in hand.
`HandsOutOnceHolds` is the refinement: the initial states of the radio are initial
states of `Inbox`, and every step is a step of `Inbox` or a stutter. It needs
`RadioInv`, whose part `PlacedOnce` says that inboxes, hands and collected messages are
injective and pairwise disjoint at a node and that everything there has been seen:
otherwise a message let in twice could be handed out twice. Draining and putting
back are stutters because `Chosen` splits the inbox into what is wanted and the rest
(`ChosenFacts`). It assumes `AccsDistinct`: a commitment on a topic comes from one
miner, for `wait_self_accs` keeps one message of those that share it.
`ArrivedOnceHolds` assumes `IdsDistinct` besides: `content_id` leaves fields out, and a
second message with the same id is dropped for good. `ArrivedInv` adds the converse of
`PlacedOnce`: every seen id is of a message that is there.
`LeavesCountedHolds` assumes `SelfFolds` besides `AccsDistinct`: what a task can collect
and what its caller adds are self folds over the contributors of its cluster. They may
share samples, with each other and with the task's own grind. The theorem is for a fold
tree over any number of leaves. `Spread` says that every leaf went into one accumulator
of a level, which has seen the pairs of its leaves, sums each as often as these hold it
and has their number as k; `PairUpSpread` takes it from a level to the next, where the
leaves of two neighbours come together (`HoldersJoin`), and at the root all leaves have
(`TreeCounts`).

**`VDisk_proofs`.**
One inductive invariant, `VInv`, for all four theorems. `StoresOK`: the counter of a
store is the sum of the sizes of its chunks and within capacity; `Reach` says that
the puts of a call, even if it fails half-way, only add chunks and keep the account.
`FilesOK`: every shard of an entry that was spread over stores is in the store
round-robin gives it (`Placed`), and there are as many shards as stores at least.
`CallOK`: what the loops of `rechunk` and `rebalance` have done and have to do.
`SpaceAccountedHolds` and `TypeOKHolds` follow at once. `RechunkSupersedesHolds` rests
on the new stamp being above that of the entry it replaces, which the comparison of
the registry then prefers. `ToleratesLossesHolds` is an argument by counting: with
as many distinct stores as it was spread over, a file has its first shards one per
store, so a loss of some stores takes at most that many of these, and k remain.

**`Algorithms_proofs`.**
`BudgetConservedHolds` is `AllocateFacts` for every reachable input.
`TipsTrustedHolds`: `TipInv` says that the tip, trusted or not, comes in order from the
place it took last (`SinceOK`), that the prover's accumulator and those of a genuine
checkpoint and tip are continuous, that a tip trusted for its fold has an accumulator
that decides, and that evidence was issued over the tip that was noted. Of a place that
is only claimed nothing is assumed. The part on evidence follows because the binding
holds every field of it.
`MeshExactHolds`: `MeshInv` says of every peer that the ids it has seen are those of its
inbox and of what was taken from it, that these are distinct and disjoint, and that
they are what was published to it; for any sets of peers, messages, publishers and
subscriptions and any fanout.
`MonoidLawsHold`: in every accumulator, overlapping or not, k is the number of distinct
pairs seen and the length is the cluster's (`Tidy`). `CountedOnceHolds` is for
`fold_acc_checked` (`Checked`), where a fold joins disjoint sets of pairs.
`HalfAtMostHolds`: `HalfFacts` is the one-sided inequality of Chebyshev with rounding at
every operation, for any domain, unit and kappa of at least one. Suppose more than
half of n particles are at least e above the mean m. Then the squares sum up to at
least n(m^2 + e^2) less 2n (`Spread`, by the tangents of the square at m + e and m - e,
so that no root is needed), and a variance computed from such squares, with what
three truncated divisions can lose, is too large for e^2 to be more than two units
beyond it (`NotBeyond`).

`BeaconBoundHolds`: the roots are sorted, so that the order of claims and signals does
not matter (`CollectReverse`, and the sorting of `Lists_proofs`); the hashes are ideal, so
that the input of the delay has the epoch, the parent and both roots in it; and a delay
verifies for what `evaluate` computes (`RunVerifies`).
`NamespaceCompleteHolds`: the hash of a tree determines the list of its leaves
(`TreeInjective`, by induction on the size: a leaf is never a pair, and the halves of a
list are determined by its length). The leaves of a namespace stand together in the
sorted list, so what `verify_full` filters out of them is what `prove` has put in.
`CodecsExactHolds`: of a buffer that was cut, w tokens are whole, and a read succeeds
up to w (`HasFacts`, `CutsFacts`). `SectionFacts`: a section is read whole or fails;
from it what a signal, a message of each kind and a SelfAcc give when cut
(`SignalRead`, `MessageRead`, `SelfAccFacts`). `DrainFacts` is the state of the read
loop after i passes: the first i messages, and the stream from the offset of frame
i + 1 on, until a frame is not whole; it gives both what is read before the cut and
what the later bytes complete. `ReplayFacts` follows each frame of a log to its place
in what is decoded.
`ClustersExactHolds`: `find` climbs to a root, and `union` merges exactly the trees of
its arguments (`FindFacts`, `UnionFacts`). The loops keep `United`: parents are not
larger than their children; every set of claims that is closed under meeting supports
is a union of trees, so that no tree is too large; and the pairs that were handled and
meet share a root, so that none is too small. Then the trees are the components
(`TreesAreComponents`). `SupportWithin` shows that growing a frontier reaches what paths
reach, and `ClustersFacts` puts it together, for any link graph and any list of claims
with different ids.
`LotteryFairHolds`: the recursion of `permutations` lists, from position k on, the
orderings with the first k - 1 values that it has, each once (`BranchedFacts`), so from
the start all of them (`PermutationsFacts`). A pass of `ordering` settles a position that
no later pass touches, so that two streams of draws which differ give orderings which
differ at the first difference (`OrderingOnce`), and each ordering has its stream, chosen
position by position (`OrderingOnto`). Sums do not depend on the order of the vectors
(`SummedMoved`), hence the sums of `shapley` over all draws are those of `shapley_exact`
(`DrawnSums`). In one ordering the marginals telescope to the value of all
(`MarginalsDivide`). The certified tickets are those that replay, one for each winning
nonce (`CertifiedOnce`). `UnbiasedFacts` and `CertifiedFacts` are for any number of
contributors, any integer values of the coalitions, and any published vectors; the
theorem states them for the property's three contributors, whose values may be any
numbers.

**Only model-checked.** Liveness (`AutoSyncRuns`, `DirectDelivery`,
`ClaimsHandedOut`): the prover does not reason about fairness. The Focus
strategy, whose score is a constant operator. Of `Algorithms`: `ShardsRestore` (that k
values determine a polynomial of degree below k, over a field).

## 5. Findings

Each is a run whose counterexample TLC prints.

- `SyncRelay`: `background_sync` writes `registry.json` only when the number of
  live files grew (`node.rs:644`), and peers are served that file. Updates and
  tombstones are therefore not passed on, while `specs/structural-sync.md:400`
  promises convergence.
- `SyncCycle`: `background_sync` awaits a peer's chunk while it holds the write
  lock its own handler needs to answer that peer (`node.rs:638`). Two daemons that
  fetch from each other wait for ever; the daemon prints "auto-sync every {}s".
- `SyncTorn`: `registry.json` is rewritten in place and one that does not parse is
  read as empty (`node.rs:134`, `node.rs:595`), which the next save makes permanent.
- `ReconcileFocus`: `observe` resolves a group against the links indexed so far and
  does not come back to it when other links change the score
  (`reconcile.rs:68`); `reconcile.rs:10` says the two timings must agree.
- `SettleOwnAcc`: the settling command publishes its SelfAcc, which `publish` also puts
  into its own inbox (`radio_settle.rs:192`), collects it back, pushes it once more
  (`cli.rs:1068`), and `settle_with_peer_accs` grinds the same nonces again
  (`rewards.rs:386`). `fold_acc` adds the sums of overlapping accumulators and counts the
  overlap once in k (`tickets.rs:323`), so the settler's own samples weigh up to three
  times. `specs/fold-mining.md:40` says that each pair is counted once. A live node that
  absorbs its own SelfAcc, as the test at `live.rs:543` does, meets the same.

### 5.1 Other observations

Met while modelling and part of the models, without a run of their own.

*Sync.* A delete stamped by a slower clock, or in the same millisecond as the
entry, loses the comparison and still reports success (`node.rs:468`). An entry
and its tombstone of one millisecond have one hash, so each side keeps its own
(`store.rs:69`, `store.rs:261`). `gc` computes the live set, drops the lock and then
sweeps, so beside the put of another process it takes fresh shards
(`node.rs:499`). `after - before` underflows when a merge lowers the number of live
files (`node.rs:642`); a debug build panics. The comment on the delete says "Insert
tombstone with higher timestamp" (`node.rs:467`), which `now_ms()` does not ensure. Every command, `ls` too, saves its copy
of the registry when it ends (`cli.rs:870`).

*Signals.* `append` reports the author of a repeated signal as an equivocator
(`chain.rs:174`), the conflict index does not (`conflict.rs:41`). The position hash
leaves out the payload (`chain.rs:70`).

*Settlement.* `fold_acc_checked` refuses overlapping accumulators, and nothing but
tests calls it (`tickets.rs:376`). The
identity of a claim announcement has no topic (`gossip.rs:58`). `ingest` forwards to
nobody (`radio_settle.rs:87`), so only direct peers are reached. A node's own
SelfAcc counts towards the number `wait_self_accs` waits for (`radio_settle.rs:188`).
`share_of` pays only the first share of a neuron with several (`rewards.rs:571`).
SelfAccs ground under another beacon are absorbed (`live.rs:201`). A signal that
arrives between freeze and settle is logged and never claimed (`live.rs:162`). An
old certificate can lower the tip of a light node, and any certificate turns a
fold-decided tip into a locally applied one (`live.rs:328`). Two nodes that settle
one epoch each mint a full budget, and a third credits both (`live.rs:305`).

*Tips and evidence.* `advance_local` keeps the accumulator when the checkpoint has
none (`tip.rs:105`); a later `redecide` then makes the new height fold-decided over
an accumulator that never folded it. A checkpoint that claims a place its accumulator
never folded is joined as fold-decided, as the test at `tip.rs:345-357` shows. `verify`
of finality evidence takes no book of the tip (`finality_evidence.rs:146`): a tip of
another book that has the same height and root accepts the evidence, unless the caller
compares `book_id`, while the comment at lines 16-18 calls it meaningless there "even if
their tips coincide" and `specs/book-finality.md:34` "never interchangeable". What the
binding gives is that the book named in the evidence cannot be replaced. `nullifier_set_hash` depends on the order of the
nullifiers (`pay_proof.rs:113`).

*Finality.* The threshold is compared in squares, "Exact in the field, and equivalent
to the spec's condition" (`finality.rs:19`). It is, up to the rounding of the
fixed-point products and of the mean (`finality.rs:101`): in units of 1/16 the domain
with focus 11 five times and 3, 0, 3 and 2, and in units of 1/64 that with 22 five
times and 6, 7, 5 and 0, has five of nine particles above the threshold at kappa 1,
which no exact mean and deviation allow. They cross by at most two units.

*Codecs and the mesh.* A payload that ends at the end of a section decodes, without
the sections after it (`frames.rs`). The comment on decoding says "an empty
`delta_pi`" (`frames.rs:57`), and `delta_pi` is encoded. `SettleMesh` publishes to the
first peers up to the fanout, and nobody forwards (`gossip.rs:200`).

*Marginals and the beacon.* `verify_certified_ticket` checks the seal by itself and
does not tie it to the ticket (`marginal_cert.rs:101`). `vdf::verify` without
iterations compares input and output, and `evaluate` reduces the input, so a
challenge above the modulus fails its own proof (`vdf.rs:55`). `verify_beacon` takes
the number of squarings from the artifact and asks for no least number.

*Sampling.* `decide_availability` ties no answer to a request and does not compare
indices (`das.rs:146-160`): one true shard answered k times is Available and does not
decode. The test at `das.rs:305` ("an adversary hiding most of the data must not pass
sampling") answers each request with its own shard.

*Erasure code.* With all n shards `decode_full` compares no lengths, as the general
path does (`erasure.rs:137`): the first shard decides, and a shorter one panics. With
fewer, the first k are taken, and a repetition among them is an error even if later
ones would do (`erasure.rs:98`).

*Virtual disk.* A store can be attached twice and then holds two shares of every
file (`vdisk.rs:135`). After a fourth store joins three replicated ones k and n stay
as they are and rechunk passes over the file (`vdisk.rs:373`). `rechunk` looks at the
files of all disks. `put_file` in the millisecond of the entry it replaces may lose
the comparison. `rebalance` copies shards and removes none.

## 6. Not modelled

Bit rot, `audit`, heartbeats and peer health; errors of the file system other
than a full store; the sync task that goes on between ctrl-c and the end of the
process; changes of `peers.json` while a daemon runs; `get` asking its peers one
after the other (one step here); `compact`, `delta_since` and the Merkle root of the
registry, which decide nothing in the node. Cryptography (hemera, HyperNova,
signatures) and the computations of tru and tok. Forged certificates and forged
signals. The fold lottery of `tickets.rs`, which decides who is credited with a
fold. Pay proofs, `cluster_id` and `confidence()`, whose results nothing modelled
reads. The settlement commands of `cli.rs`, front ends of the radio but for what the
settler adds to its leaves, and its printing commands. Bytes within a field of a codec.

## 7. Plan

Done: registry and sync node, reconciliation, tickets and folding, radio
settlement and its abstract inbox, budget, live node, virtual disk, the sequential
algorithms; the proofs of section 4.

Next, in this order:

1. An abstract replicated registry (a set of issued entries; a replica's value is
   the greatest it has heard of) which `SyncNode` with one process per directory is
   shown to implement, by TLC first and then in `SyncNode_proofs`.
2. The fold lottery of `tickets.rs`; `compact` and `audit` of the store.
