------------------------------ MODULE SyncNode ------------------------------
(***************************************************************************)
(* The sync daemon of src/src/node.rs and the `foculus node` commands of   *)
(* src/src/cli.rs.  A device is a data directory: registry.json and the    *)
(* chunks directory.  Processes run over it: the daemon, which serves      *)
(* peers and runs background_sync, and short-lived commands, each of which *)
(* loads registry.json, does one thing, saves its memory back and exits.   *)
(* Nothing locks the directory between processes; inside a process a       *)
(* tokio RwLock guards the state, and the handler of an incoming request   *)
(* needs that lock for reading.                                            *)
(*                                                                         *)
(* A file content has N shards; every shard is written locally (the local  *)
(* capacity in capacity_weighted_placement is u64::MAX).                   *)
(***************************************************************************)
EXTENDS Registry

CONSTANTS
    Daemon,          \* daemon processes
    Cli,             \* command processes
    Dir,             \* the device whose data directory a process uses
    Peers,           \* peers.json of each device
    K, N,            \* shards per content: K of the N rebuild it
    NoFile, Torn,    \* registry.json does not exist; is truncated mid-write
    Overlap,         \* may two processes share a data directory at a time?
    CrashAt,         \* program points at which a process may crash
    OverflowChecks,  \* debug build: usize underflow panics
    MaxIssued        \* bound: entries made by puts and deletes

Proc == Daemon \cup Cli

Shard == Content \X (1 .. N)

ShardsOf(C) == C \X (1 .. N)

ASSUME SyncNodeAssumption ==
    /\ Daemon \cap Cli = {}
    /\ Dir \in [Proc -> Device]
    /\ Peers \in [Device -> SUBSET Device]
    /\ K \in Nat /\ N \in Nat /\ 1 <= K /\ K <= N
    /\ NoFile \notin GSet /\ Torn \notin GSet /\ NoFile # Torn
    /\ {Overlap, OverflowChecks} \subseteq BOOLEAN
    /\ MaxIssued \in Nat

VARIABLES
    now,       \* wall clock of each device
    disk,      \* registry.json of each device
    chunks,    \* shards in the chunks directory of each device
    mem,       \* SharedState.registry of each process
    pc,        \* what the process's command or sync task is doing
    job,       \* what it works on: an entry being written, chunks, a reply
    left,      \* background_sync: peers still to visit this round
    issued,    \* history: every <<name, entry>> a put or delete ever made
    acked      \* history: per device, every <<name, entry>> reported as done

vars == <<now, disk, chunks, mem, pc, job, left, issued, acked>>

NoJob == [name |-> NoEntry]

(* Program points in which fs::write has truncated registry.json and not   *)
(* finished, and the others.                                               *)
Saving == {"opsave", "syncsave", "bgsave", "stopsave", "exitsave"}

NotSaving == {"ready", "put", "get", "gc", "sync", "synced", "syncchunks",
              "exit", "bg", "bgreply", "bgchunks", "bgdead"}

(* Program points at which the process holds its RwLock for writing. *)
WriteHeld == {"put", "opsave", "syncsave", "syncchunks", "bgsave", "bgchunks"}

Up(p) == pc[p] # "down"

(* Mutant of Loaded: the tombstone flag is not in the file. *)
LoadedNoTombstones(d) ==
    IF disk[d] \in {NoFile, Torn} THEN Empty
    ELSE [n \in Name |-> IF disk[d][n] = NoEntry THEN NoEntry
                         ELSE [disk[d][n] EXCEPT !.deleted = FALSE]]

(* What serde_json makes of registry.json: a torn file parses to nothing,  *)
(* and unwrap_or_default turns that into the empty registry.               *)
Loaded(d) == IF disk[d] \in {NoFile, Torn} THEN Empty ELSE disk[d]

(* The reply of handle_connection to MSG_REGISTRY in process s: the file   *)
(* if there is one, else memory.                                           *)
Served(s) == IF disk[Dir[s]] = NoFile THEN mem[s] ELSE Loaded(Dir[s])

(* A process of device q whose handler can take the read lock now. *)
Answers(s, q) == Up(s) /\ Dir[s] = q /\ pc[s] \notin WriteHeld

Unreachable(q) == \A s \in Proc : Dir[s] = q => ~ Up(s)

(* fs::write of registry.json begins: the old contents are gone. *)
BeginSave(p) == disk' = [disk EXCEPT ![Dir[p]] = Torn]

(* Mutant of EndSave: tombstones are compacted away on the way out. *)
EndSaveCompacted(p) ==
    disk' = [disk EXCEPT ![Dir[p]] =
                [n \in Name |-> IF n \in Live(mem[p]) THEN mem[p][n] ELSE NoEntry]]

EndSave(p) == disk' = [disk EXCEPT ![Dir[p]] = mem[p]]

Goto(p, l) == pc' = [pc EXCEPT ![p] = l]

Init ==
    /\ now \in [Device -> Time]
    /\ disk = [d \in Device |-> NoFile]
    /\ chunks = [d \in Device |-> {}]
    /\ mem = [p \in Proc |-> Empty]
    /\ pc = [p \in Proc |-> "down"]
    /\ job = [p \in Proc |-> NoJob]
    /\ left = [p \in Proc |-> {}]
    /\ issued = {}
    /\ acked = [d \in Device |-> {}]

-----------------------------------------------------------------------------
(* The environment: clocks advance, processes start and crash.             *)

Tick(d) ==
    /\ now[d] < MaxTime
    /\ now' = [now EXCEPT ![d] = @ + 1]
    /\ UNCHANGED <<disk, chunks, mem, pc, job, left, issued, acked>>

Start(p) ==
    /\ ~ Up(p)
    /\ Overlap \/ Unreachable(Dir[p])
    /\ mem' = [mem EXCEPT ![p] = Loaded(Dir[p])]
    /\ Goto(p, "ready")
    /\ UNCHANGED <<now, disk, chunks, job, left, issued, acked>>

Reset(p) ==
    /\ mem' = [mem EXCEPT ![p] = Empty]
    /\ job' = [job EXCEPT ![p] = NoJob]
    /\ left' = [left EXCEPT ![p] = {}]
    /\ Goto(p, "down")

Crash(p) ==
    /\ Up(p)
    /\ pc[p] \in CrashAt
    /\ Reset(p)
    /\ UNCHANGED <<now, disk, chunks, issued, acked>>

-----------------------------------------------------------------------------
(* Commands.  Each one ends with node.save() in run_async, except when the *)
(* command fails: then `?` leaves run_async before the save.               *)

(* Mutant of LocalShards: with peers, some placement has the device keep   *)
(* nothing.                                                                *)
LocalShardsPlaced(p, c) == IF Peers[Dir[p]] = {} THEN ShardsOf({c}) ELSE {}

(* The shards of c that put_file keeps on the device itself. *)
LocalShards(p, c) == ShardsOf({c})

(* put_file, first half: take the write lock, write the shards. *)
PutChunks(p, n, c) ==
    /\ p \in Cli /\ pc[p] = "ready"
    /\ Cardinality(issued) < MaxIssued
    /\ chunks' = [chunks EXCEPT ![Dir[p]] = @ \cup LocalShards(p, c)]
    /\ job' = [job EXCEPT ![p] = [name |-> n, content |-> c]]
    /\ Goto(p, "put")
    /\ UNCHANGED <<now, disk, mem, left, issued, acked>>

(* The entry put_file and delete_file make: stamped with the clock,        *)
(* whatever the timestamp of the entry it should replace.                  *)
NewEntry(p, c, del) ==
    [content |-> c, ts |-> now[Dir[p]], dev |-> Dir[p], deleted |-> del]

(* Insert the entry, trusted, and begin the save. *)
Register(p, n, e) ==
    /\ mem' = [mem EXCEPT ![p] = lww_insert(@, n, e)]
    /\ job' = [job EXCEPT ![p] = [name |-> n, entry |-> e]]
    /\ issued' = issued \cup {<<n, e>>}
    /\ BeginSave(p)
    /\ Goto(p, "opsave")
    /\ UNCHANGED <<now, chunks, left, acked>>

(* put_file, second half. *)
PutRegister(p) ==
    /\ pc[p] = "put"
    /\ Register(p, job[p].name, NewEntry(p, job[p].content, FALSE))

Delete(p, n) ==
    /\ p \in Cli /\ pc[p] = "ready"
    /\ Cardinality(issued) < MaxIssued
    /\ n \in Live(mem[p])
    /\ Register(p, n, NewEntry(p, mem[p][n].content, TRUE))

(* The save of a put or delete completes and the command reports success,  *)
(* whether or not lww_insert took the entry.                               *)
OpSaved(p) ==
    /\ pc[p] = "opsave"
    /\ EndSave(p)
    /\ acked' = [acked EXCEPT ![Dir[p]] = @ \cup {<<job[p].name, job[p].entry>>}]
    /\ job' = [job EXCEPT ![p] = NoJob]
    /\ Goto(p, "exit")
    /\ UNCHANGED <<now, chunks, mem, left, issued>>

(* rm or get of an unknown or deleted name: the process ends unsaved. *)
UnknownName(p, n) ==
    /\ p \in Cli /\ pc[p] = "ready"
    /\ n \notin Live(mem[p])
    /\ Reset(p)
    /\ UNCHANGED <<now, disk, chunks, issued, acked>>

(* ls, status, add-peer, an audit that finds nothing corrupt: nothing      *)
(* happens to the registry or the chunks, but the process still saves its  *)
(* copy of the registry on the way out.                                    *)
ReadOnlyCommand(p) ==
    /\ p \in Cli /\ pc[p] = "ready"
    /\ Goto(p, "exit")
    /\ UNCHANGED <<now, disk, chunks, mem, job, left, issued, acked>>

(* Mutant of live_shard_hashes: only files the device wrote count. *)
live_shard_hashes_own(p) ==
    ShardsOf({mem[p][n].content : n \in {m \in Live(mem[p]) : mem[p][m].dev = Dir[p]}})

live_shard_hashes(p) == ShardsOf(LiveContents(mem[p]))

(* gc: the live set is computed from memory, the lock is dropped, and only *)
(* then is the directory listed and everything outside the set removed.    *)
GcMark(p) ==
    /\ p \in Cli /\ pc[p] = "ready"
    /\ job' = [job EXCEPT ![p] = [live |-> live_shard_hashes(p)]]
    /\ Goto(p, "gc")
    /\ UNCHANGED <<now, disk, chunks, mem, left, issued, acked>>

GcSweep(p) ==
    /\ pc[p] = "gc"
    /\ chunks' = [chunks EXCEPT ![Dir[p]] = @ \cap job[p].live]
    /\ job' = [job EXCEPT ![p] = NoJob]
    /\ Goto(p, "exit")
    /\ UNCHANGED <<now, disk, mem, left, issued, acked>>

(* Mutant of FirstShard: counted from zero. *)
FirstShardZero == 0

(* The walk begins at the first shard of the entry. *)
FirstShard == 1

(* get_file: walk the shards of the entry until K of them are in hand; a   *)
(* shard that is not here is taken from the first peer that has it and     *)
(* stored.  No lock is held meanwhile.                                     *)
GetStart(p, n) ==
    /\ p \in Cli /\ pc[p] = "ready"
    /\ n \in Live(mem[p])
    /\ job' = [job EXCEPT ![p] = [content |-> mem[p][n].content, at |-> FirstShard, have |-> 0]]
    /\ Goto(p, "get")
    /\ UNCHANGED <<now, disk, chunks, mem, left, issued, acked>>

GetShard(p) ==
    /\ pc[p] = "get" /\ job[p].at <= N /\ job[p].have < K
    /\ LET h == <<job[p].content, job[p].at>>
           d == Dir[p]
           Advance(k) == job' = [job EXCEPT ![p] = [content |-> job[p].content,
                                                    at |-> job[p].at + 1, have |-> k]]
           Has(q) == h \in chunks[q] /\ \E s \in Proc : Answers(s, q)
           Lacks(q) == Unreachable(q) \/ (h \notin chunks[q] /\ \E s \in Proc : Answers(s, q))
       IN  \/ /\ h \in chunks[d] \/ \E q \in Peers[d] : Has(q)
              /\ chunks' = [chunks EXCEPT ![d] = @ \cup {h}]
              /\ Advance(job[p].have + 1)
           \/ /\ h \notin chunks[d] /\ \A q \in Peers[d] : Lacks(q)
              /\ Advance(job[p].have)
              /\ UNCHANGED chunks
    /\ UNCHANGED <<now, disk, mem, pc, left, issued, acked>>

(* Enough shards, or none left to try: then get fails, unsaved. *)
GetDone(p) ==
    /\ pc[p] = "get"
    /\ \/ /\ job[p].have >= K
          /\ job' = [job EXCEPT ![p] = NoJob]
          /\ Goto(p, "exit")
          /\ UNCHANGED <<mem, left>>
       \/ /\ job[p].have < K /\ job[p].at > N
          /\ Reset(p)
    /\ UNCHANGED <<now, disk, chunks, issued, acked>>

ExitSave(p) ==
    /\ pc[p] = "exit"
    /\ BeginSave(p)
    /\ Goto(p, "exitsave")
    /\ UNCHANGED <<now, chunks, mem, job, left, issued, acked>>

Exit(p) ==
    /\ pc[p] = "exitsave"
    /\ EndSave(p)
    /\ Reset(p)
    /\ UNCHANGED <<now, chunks, issued, acked>>

-----------------------------------------------------------------------------
(* sync_with, as the commands `sync <peer>` and `sync` (all peers) run it. *)

(* sync_all: the peers are taken one after the other. *)
SyncAll(p) ==
    /\ p \in Cli /\ pc[p] = "ready"
    /\ left' = [left EXCEPT ![p] = Peers[Dir[p]]]
    /\ Goto(p, "sync")
    /\ UNCHANGED <<now, disk, chunks, mem, job, issued, acked>>

SyncFetch(p, q) ==
    /\ \/ p \in Cli /\ pc[p] = "ready" /\ q \in Peers[Dir[p]]
       \/ pc[p] = "sync" /\ q \in left[p]
    /\ left' = [left EXCEPT ![p] = @ \ {q}]
    /\ \E s \in Proc :
          /\ Answers(s, q)
          /\ job' = [job EXCEPT ![p] = [peer |-> q, reply |-> Served(s)]]
    /\ Goto(p, "synced")
    /\ UNCHANGED <<now, disk, chunks, mem, issued, acked>>

(* `sync <peer>` fails and ends unsaved; `sync` goes on to the next peer. *)
SyncFails(p, q) ==
    /\ Unreachable(q)
    /\ \/ /\ p \in Cli /\ pc[p] = "ready" /\ q \in Peers[Dir[p]]
          /\ Reset(p)
       \/ /\ pc[p] = "sync" /\ q \in left[p]
          /\ left' = [left EXCEPT ![p] = @ \ {q}]
          /\ UNCHANGED <<mem, pc, job>>
    /\ UNCHANGED <<now, disk, chunks, issued, acked>>

(* Merge under the write lock and begin the save.  The number of new files *)
(* is after - before in usize arithmetic; short marks its underflow.       *)
SyncMerge(p) ==
    /\ pc[p] = "synced"
    /\ \E r \in validated_merge(mem[p], job[p].reply, now[Dir[p]]) :
          /\ mem' = [mem EXCEPT ![p] = r]
          /\ job' = [job EXCEPT ![p] = [peer |-> job[p].peer,
                                        short |-> len(r) < len(mem[p]),
                                        todo |-> ShardsOf(HeldContents(r))]]
    /\ BeginSave(p)
    /\ Goto(p, "syncsave")
    /\ UNCHANGED <<now, chunks, left, issued, acked>>

SyncSaved(p) ==
    /\ pc[p] = "syncsave"
    /\ EndSave(p)
    /\ \/ /\ job[p].short /\ OverflowChecks      \* panic while printing
          /\ Reset(p)
       \/ /\ ~ (job[p].short /\ OverflowChecks)
          /\ Goto(p, "syncchunks") /\ UNCHANGED <<mem, job, left>>
    /\ UNCHANGED <<now, chunks, issued, acked>>

(* One turn of the chunk loop, the write lock still held: a shard that is  *)
(* present is skipped; otherwise the peer is asked and, without a timeout, *)
(* waited for until a handler there gets its read lock.                    *)
FetchChunk(p, h, here) ==
    /\ pc[p] = here
    /\ h \in job[p].todo
    /\ LET d == Dir[p]
           q == job[p].peer
       IN  \/ /\ h \in chunks[d] \/ Unreachable(q)
              /\ UNCHANGED chunks
           \/ /\ h \notin chunks[d]
              /\ \E s \in Proc : Answers(s, q)
              /\ chunks' = [chunks EXCEPT ![d] = @ \cup ({h} \cap chunks[q])]
    /\ job' = [job EXCEPT ![p].todo = @ \ {h}]
    /\ UNCHANGED <<now, disk, mem, pc, left, issued, acked>>

ChunksDone(p, here, next) ==
    /\ pc[p] = here
    /\ job[p].todo = {}
    /\ job' = [job EXCEPT ![p] = NoJob]
    /\ Goto(p, next)
    /\ UNCHANGED <<now, disk, chunks, mem, left, issued, acked>>

SyncChunk(p, h) == FetchChunk(p, h, "syncchunks")

SyncNextPeer(p) == ChunksDone(p, "syncchunks", "sync")

SyncDone(p) ==
    /\ pc[p] = "sync" /\ left[p] = {}
    /\ Goto(p, "exit")
    /\ UNCHANGED <<now, disk, chunks, mem, job, left, issued, acked>>

-----------------------------------------------------------------------------
(* background_sync: one round of the daemon's timer loop.                  *)

(* Merge registry.json, which commands may have rewritten, into memory. *)
BgLoad(p) ==
    /\ p \in Daemon /\ pc[p] = "ready"
    /\ mem' = [mem EXCEPT ![p] = merge(@, Loaded(Dir[p]))]
    /\ left' = [left EXCEPT ![p] = Peers[Dir[p]]]
    /\ Goto(p, "bg")
    /\ UNCHANGED <<now, disk, chunks, job, issued, acked>>

BgFetch(p, q) ==
    /\ pc[p] = "bg" /\ q \in left[p]
    /\ left' = [left EXCEPT ![p] = @ \ {q}]
    /\ \/ /\ \E s \in Proc :
                /\ Answers(s, q)
                /\ job' = [job EXCEPT ![p] = [peer |-> q, reply |-> Served(s)]]
          /\ Goto(p, "bgreply")
       \/ /\ Unreachable(q)
          /\ UNCHANGED <<job, pc>>
    /\ UNCHANGED <<now, disk, chunks, mem, issued, acked>>

(* Merge under the write lock.  registry.json is rewritten only when the   *)
(* number of live files grew; in a debug build a drop ends the sync task.  *)
BgMerge(p) ==
    /\ pc[p] = "bgreply"
    /\ \E r \in validated_merge(mem[p], job[p].reply, now[Dir[p]]) :
          LET work == [peer |-> job[p].peer, todo |-> ShardsOf(HeldContents(r))]
          IN  /\ mem' = [mem EXCEPT ![p] = r]
              /\ \/ /\ len(r) > len(mem[p])
                    /\ BeginSave(p)
                    /\ Goto(p, "bgsave")
                    /\ job' = [job EXCEPT ![p] = work]
                 \/ /\ ~ (len(r) > len(mem[p]))
                    /\ ~ (OverflowChecks /\ len(r) < len(mem[p]))
                    /\ Goto(p, "bgchunks")
                    /\ job' = [job EXCEPT ![p] = work]
                    /\ UNCHANGED disk
                 \/ /\ OverflowChecks /\ len(r) < len(mem[p])
                    /\ Goto(p, "bgdead")
                    /\ job' = [job EXCEPT ![p] = NoJob]
                    /\ UNCHANGED disk
    /\ UNCHANGED <<now, chunks, left, issued, acked>>

BgSaved(p) ==
    /\ pc[p] = "bgsave"
    /\ EndSave(p)
    /\ Goto(p, "bgchunks")
    /\ UNCHANGED <<now, chunks, mem, job, left, issued, acked>>

BgChunk(p, h) == FetchChunk(p, h, "bgchunks")

(* Mutant of BgNextPeer: the task ends instead of going on. *)
BgNextPeerEnds(p) == ChunksDone(p, "bgchunks", "bgdead")

BgNextPeer(p) == ChunksDone(p, "bgchunks", "bg")

BgRoundDone(p) ==
    /\ pc[p] = "bg" /\ left[p] = {}
    /\ Goto(p, "ready")
    /\ UNCHANGED <<now, disk, chunks, mem, job, left, issued, acked>>

(* ctrl-c: run_daemon saves (it needs the read lock, so it waits for a     *)
(* round that holds the write lock), then run_async saves once more.       *)
CtrlC(p) ==
    /\ p \in Daemon
    /\ pc[p] \in {"ready", "bg", "bgreply", "bgdead"}
    /\ BeginSave(p)
    /\ Goto(p, "stopsave")
    /\ UNCHANGED <<now, chunks, mem, job, left, issued, acked>>

StopSaved(p) ==
    /\ pc[p] = "stopsave"
    /\ EndSave(p)
    /\ Goto(p, "exit")
    /\ UNCHANGED <<now, chunks, mem, job, left, issued, acked>>

-----------------------------------------------------------------------------
Command(p) ==
    \/ \E n \in Name, c \in Content : PutChunks(p, n, c)
    \/ PutRegister(p)
    \/ \E n \in Name : Delete(p, n)
    \/ \E n \in Name : UnknownName(p, n)
    \/ OpSaved(p)
    \/ ReadOnlyCommand(p)
    \/ GcMark(p)
    \/ GcSweep(p)
    \/ \E n \in Name : GetStart(p, n)
    \/ GetShard(p)
    \/ GetDone(p)

SyncCommand(p) ==
    \/ SyncAll(p)
    \/ \E q \in Device : SyncFetch(p, q)
    \/ \E q \in Device : SyncFails(p, q)
    \/ SyncMerge(p)
    \/ SyncSaved(p)
    \/ \E h \in Shard : SyncChunk(p, h)
    \/ SyncNextPeer(p)
    \/ SyncDone(p)

Background(p) ==
    \/ BgLoad(p)
    \/ \E q \in Device : BgFetch(p, q)
    \/ BgMerge(p)
    \/ BgSaved(p)
    \/ \E h \in Shard : BgChunk(p, h)
    \/ BgNextPeer(p)
    \/ BgRoundDone(p)

Shutdown(p) == CtrlC(p) \/ StopSaved(p) \/ ExitSave(p) \/ Exit(p)

Next ==
    \/ \E d \in Device : Tick(d)
    \/ \E p \in Proc : Start(p) \/ Crash(p) \/ Command(p) \/ SyncCommand(p)
                          \/ Background(p) \/ Shutdown(p)

Spec == Init /\ [][Next]_vars

(* Time passes, a save or a command's second half runs to its end, and the *)
(* daemons' timers keep firing.  A request a handler cannot answer yet     *)
(* queues on a lock that tokio grants in turn, hence strong fairness for   *)
(* the sync task.  What users do, and crashes, stay unconstrained.         *)
FairSpec ==
    /\ Spec
    /\ \A d \in Device : WF_vars(Tick(d))
    /\ \A p \in Daemon : SF_vars(Background(p))
    /\ \A p \in Proc : WF_vars(PutRegister(p) \/ OpSaved(p) \/ GcSweep(p)
                               \/ StopSaved(p) \/ ExitSave(p) \/ Exit(p))

-----------------------------------------------------------------------------
(* Properties.                                                             *)

(* The work record a process carries at each program point. *)
WriteJob == [name : Name, content : Content]
AckJob == [name : Name, entry : FileEntry]
GetJob == [content : Content, at : Nat \ {0}, have : Nat]
GcJob == [live : SUBSET Shard]
ReplyJob == [peer : Device, reply : GSet]
SyncJob == [peer : Device, short : BOOLEAN, todo : SUBSET Shard]
BgJob == [peer : Device, todo : SUBSET Shard]

JobOK(p) ==
    /\ pc[p] = "put" => job[p] \in WriteJob
    /\ pc[p] = "opsave" => job[p] \in AckJob
    /\ pc[p] = "get" => job[p] \in GetJob
    /\ pc[p] = "gc" => job[p] \in GcJob
    /\ pc[p] \in {"synced", "bgreply"} => job[p] \in ReplyJob
    /\ pc[p] \in {"syncsave", "syncchunks"} => job[p] \in SyncJob
    /\ pc[p] \in {"bgsave", "bgchunks"} => job[p] \in BgJob

(* Types of the variables and of the work records. *)
TypeOK ==
    /\ now \in [Device -> Time]
    /\ disk \in [Device -> GSet \cup {NoFile, Torn}]
    /\ chunks \in [Device -> SUBSET Shard]
    /\ mem \in [Proc -> GSet]
    /\ pc \in [Proc -> {"down"} \cup Saving \cup NotSaving]
    /\ job \in [Proc -> {NoJob} \cup WriteJob \cup AckJob \cup GetJob
                            \cup GcJob \cup ReplyJob \cup SyncJob \cup BgJob]
    /\ \A p \in Proc : JobOK(p)
    /\ left \in [Proc -> SUBSET Device]
    /\ issued \in SUBSET (Name \X FileEntry)
    /\ acked \in [Device -> SUBSET (Name \X FileEntry)]

(* Every entry of r is one some put or delete created. *)
Known(r) == \A n \in Name : r[n] # NoEntry => <<n, r[n]>> \in issued

(* Merging, syncing, relaying and restarting never make an entry up: every *)
(* entry in any memory, any registry.json and any reply in flight is one   *)
(* that a put or delete created, stamped no later than its own device's    *)
(* clock reads now.                                                        *)
Provenance ==
    /\ \A p \in Proc : Known(mem[p])
    /\ \A d \in Device : Known(Loaded(d))
    /\ \A p \in Proc : pc[p] \in {"synced", "bgreply"} => Known(job[p].reply)
    /\ \A x \in issued : x[2].ts <= now[x[2].dev]

(* While a process runs, its copy of an entry is only ever replaced by one *)
(* that wins the last-writer-wins comparison, whatever is merged and in    *)
(* whatever order (lww_insert, merge, validated_merge).                    *)
MemMonotone ==
    [][\A p \in Proc, n \in Name :
          Up(p) /\ pc'[p] # "down" => AtLeast(n, mem'[p][n], mem[p][n])]_vars

(* With one process per data directory, what a put or delete reported as   *)
(* done is in registry.json, or an entry that beats it is, through syncs,  *)
(* other commands, shutdowns and crashes between writes.  The exception    *)
(* the code makes is spelled out: an entry of the same content stamped in  *)
(* the same millisecond may be there instead.  So a delete within the      *)
(* millisecond of its file, or a put of the same content within that of    *)
(* the delete, reports success and has no effect, although delete_file     *)
(* means to "Insert tombstone with higher timestamp" (node.rs, line 467);  *)
(* and one stamped by a clock behind that of the file is beaten at once.   *)
AckDurable ==
    \A d \in Device : disk[d] # Torn =>
        \A x \in acked[d] :
            LET n == x[1]
                e == Loaded(d)[n]
            IN  e # NoEntry /\ (e = x[2] \/ e = Twin(x[2]) \/ Beats(n, e, x[2]))

(* The shards of every live file this device wrote are in its chunks       *)
(* directory: no gc, sync, crash or later overwrite leaves registry.json   *)
(* pointing at shards that are gone.                                       *)
FilesKept ==
    \A d \in Device : disk[d] \notin {NoFile, Torn} =>
        \A n \in Live(disk[d]) :
            disk[d][n].dev = d => ShardsOf({disk[d][n].content}) \subseteq chunks[d]

(* gc removes only orphans: no step takes away a shard of a file that a    *)
(* running process of the device, or registry.json, lists as live.         *)
GcOnlyOrphans ==
    [][\A d \in Device :
          LET gone == chunks[d] \ chunks'[d]
          IN  /\ \A p \in Proc : Up(p) /\ Dir[p] = d =>
                    gone \cap ShardsOf(LiveContents(mem[p])) = {}
              /\ gone \cap ShardsOf(LiveContents(Loaded(d))) = {}]_vars

(* From some point on the daemons are left running. *)
DaemonsStayUp == <>[](\A p \in Daemon : Up(p) /\ pc[p] \notin {"stopsave", "exit", "exitsave"})

(* What a device acknowledged reaches every daemon that lists the device   *)
(* as a peer.                                                              *)
DirectDelivery ==
    DaemonsStayUp =>
        \A p \in Daemon, d \in Device, n \in Name :
            d \in Peers[Dir[p]] =>
                <>[](Loaded(d)[n] # NoEntry => AtLeast(n, mem[p][n], Loaded(d)[n]))

(* All daemons come to agree on every entry. *)
Convergence ==
    DaemonsStayUp =>
        <>[](\A p, q \in Daemon : mem[p] = mem[q])

(* A daemon that is left running keeps completing sync rounds. *)
AutoSyncRuns ==
    DaemonsStayUp => \A p \in Daemon : []<>(pc[p] = "ready")
=============================================================================
