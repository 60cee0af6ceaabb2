-------------------------- MODULE SyncNode_proofs ---------------------------
(***************************************************************************)
(* Proofs about Registry and SyncNode, for every set of devices, processes *)
(* and names, every peer graph and every hash function.                    *)
(***************************************************************************)
EXTENDS SyncNode, TLAPS

MaybeEntry == FileEntry \cup {NoEntry}

(* new is old, or wins against it. *)
Supersedes(n, new, old) ==
    new = old \/ (new # NoEntry /\ (old = NoEntry \/ Beats(n, new, old)))

-----------------------------------------------------------------------------
(* The merge operators of store.rs.                                        *)

(* Choosing between two entries of a name yields one of the two, and never *)
(* an older one than the entry already held.                               *)
LEMMA LwwPickFacts ==
    ASSUME NEW n \in Name, NEW old \in MaybeEntry, NEW new \in FileEntry
    PROVE  /\ LwwPick(n, old, new) \in {old, new}
           /\ LwwPick(n, old, new) \in FileEntry
           /\ Supersedes(n, LwwPick(n, old, new), old)
           /\ AtLeast(n, LwwPick(n, old, new), new)
<1>1. /\ compute_hash(n, new) \in Nat
      /\ new.ts \in Int
  BY RegistryAssumption DEF compute_hash, FileEntry, Time
<1>2. old # NoEntry => /\ compute_hash(n, old) \in Nat
                       /\ old.ts \in Int
  BY RegistryAssumption DEF compute_hash, FileEntry, MaybeEntry, Time
<1>3. QED
  BY <1>1, <1>2, RegistryAssumption DEF LwwPick, AtLeast, Supersedes, Beats, MaybeEntry

(* "At least as recent" is reflexive and transitive on the entries of one  *)
(* name: timestamp first, hash second.                                     *)
LEMMA AtLeastOrder ==
    ASSUME NEW n \in Name, NEW a \in MaybeEntry, NEW b \in MaybeEntry, NEW c \in MaybeEntry
    PROVE  /\ AtLeast(n, a, a)
           /\ AtLeast(n, c, b) /\ AtLeast(n, b, a) => AtLeast(n, c, a)
<1>1. \A e \in MaybeEntry : e # NoEntry => /\ compute_hash(n, e) \in Nat
                                           /\ e.ts \in Int
  BY RegistryAssumption DEF compute_hash, FileEntry, MaybeEntry, Time
<1>2. QED
  BY <1>1 DEF AtLeast, Beats

(* What supersedes an entry is at least as recent, and an entry that was   *)
(* passed over does not come back.                                         *)
LEMMA SupersedesFacts ==
    ASSUME NEW n \in Name, NEW new \in MaybeEntry, NEW old \in MaybeEntry, Supersedes(n, new, old)
    PROVE  /\ AtLeast(n, new, old)
           /\ \A e \in FileEntry : AtLeast(n, old, e) /\ old # e => new # e
<1>1. \A e \in MaybeEntry : e # NoEntry => /\ compute_hash(n, e) \in Nat
                                           /\ e.ts \in Int
  BY RegistryAssumption DEF compute_hash, FileEntry, MaybeEntry, Time
<1>2. QED
  BY <1>1, RegistryAssumption DEF AtLeast, Supersedes, Beats, MaybeEntry

(* Inserting one entry. *)
LEMMA InsertFacts ==
    ASSUME NEW r \in GSet, NEW m \in Name, NEW e \in FileEntry
    PROVE  /\ lww_insert(r, m, e) \in GSet
           /\ \A n \in Name : /\ Supersedes(n, lww_insert(r, m, e)[n], r[n])
                              /\ lww_insert(r, m, e)[n] # r[n] => n = m /\ lww_insert(r, m, e)[n] = e
           /\ AtLeast(m, lww_insert(r, m, e)[m], e)
<1>1. r[m] \in MaybeEntry
  BY DEF GSet, MaybeEntry
<1>2. /\ LwwPick(m, r[m], e) \in {r[m], e}
      /\ LwwPick(m, r[m], e) \in FileEntry
      /\ Supersedes(m, LwwPick(m, r[m], e), r[m])
      /\ AtLeast(m, LwwPick(m, r[m], e), e)
  BY <1>1, LwwPickFacts
<1>3. \A n \in Name : Supersedes(n, r[n], r[n])
  BY DEF Supersedes
<1>4. lww_insert(r, m, e) \in GSet
  BY <1>2 DEF lww_insert, GSet
<1>5. \A n \in Name : lww_insert(r, m, e)[n] = IF n = m THEN LwwPick(m, r[m], e) ELSE r[n]
  BY DEF lww_insert, GSet
<1>6. QED
  BY <1>2, <1>3, <1>4, <1>5

(* A merge, trusted or validated, is a registry; name by name it keeps the *)
(* entry it had or takes the other side's, and never goes back in time.    *)
LEMMA MergeFacts ==
    ASSUME NEW r \in GSet, NEW o \in GSet
    PROVE  /\ merge(r, o) \in GSet
           /\ \A n \in Name : /\ Supersedes(n, merge(r, o)[n], r[n])
                              /\ AtLeast(n, merge(r, o)[n], o[n])
                              /\ merge(r, o)[n] \in {r[n], o[n]}
<1>1. ASSUME NEW n \in Name, o[n] # NoEntry
      PROVE  /\ LwwPick(n, r[n], o[n]) \in {r[n], o[n]}
             /\ LwwPick(n, r[n], o[n]) \in FileEntry
             /\ Supersedes(n, LwwPick(n, r[n], o[n]), r[n])
             /\ AtLeast(n, LwwPick(n, r[n], o[n]), o[n])
  <2>1. r[n] \in MaybeEntry /\ o[n] \in FileEntry
    BY <1>1 DEF GSet, MaybeEntry
  <2>2. QED
    BY <2>1, LwwPickFacts
<1>2. \A n \in Name : Supersedes(n, r[n], r[n])
  BY DEF Supersedes
<1>3. \A n \in Name : merge(r, o)[n] = IF o[n] = NoEntry THEN r[n] ELSE LwwPick(n, r[n], o[n])
  BY DEF merge
<1>4. merge(r, o) \in GSet
  <2>1. \A n \in Name : (IF o[n] = NoEntry THEN r[n] ELSE LwwPick(n, r[n], o[n]))
                            \in FileEntry \cup {NoEntry}
    BY <1>1 DEF GSet
  <2>2. QED
    BY <2>1 DEF merge, GSet
<1>5. \A n \in Name : o[n] = NoEntry => AtLeast(n, r[n], o[n])
  BY DEF AtLeast
<1>6. QED
  BY <1>1, <1>2, <1>3, <1>4, <1>5

(* The same for the merge of entries from a peer: whichever entries were   *)
(* refused, each name keeps its entry or takes the peer's, never older.    *)
LEMMA ValidatedMergeFacts ==
    ASSUME NEW r \in GSet, NEW o \in GSet, NEW t, NEW s \in validated_merge(r, o, t)
    PROVE  /\ s \in GSet
           /\ \A n \in Name : /\ Supersedes(n, s[n], r[n])
                              /\ s[n] \in {r[n], o[n]}
<1>1. PICK A \in SUBSET Name, ok \in SUBSET Held(o) :
          s = [n \in Name |-> IF n \in A /\ n \in ok THEN LwwPick(n, r[n], o[n]) ELSE r[n]]
  <2> DEFINE ok == Offered(o, t)
             fresh == ok \ Held(r)
  <2>1. PICK S \in SUBSET fresh :
          s = [n \in Name |-> IF n \in S \cup (ok \ fresh) THEN LwwPick(n, r[n], o[n]) ELSE r[n]]
    BY DEF validated_merge
  <2>2. S \cup (ok \ fresh) \in SUBSET Name /\ ok \in SUBSET Held(o)
    BY DEF Held, Offered
  <2>3. \A n \in Name : n \in S \cup (ok \ fresh) => n \in ok
    OBVIOUS
  <2>4. QED
    BY <2>1, <2>2, <2>3
<1>2. ASSUME NEW n \in Name, n \in ok
      PROVE  /\ LwwPick(n, r[n], o[n]) \in {r[n], o[n]}
             /\ LwwPick(n, r[n], o[n]) \in FileEntry
             /\ Supersedes(n, LwwPick(n, r[n], o[n]), r[n])
  <2>1. r[n] \in MaybeEntry /\ o[n] \in FileEntry
    BY <1>2 DEF GSet, MaybeEntry, Held
  <2>2. QED
    BY <2>1, LwwPickFacts
<1>3. \A n \in Name : Supersedes(n, r[n], r[n])
  BY DEF Supersedes
<1>4. \A n \in Name : s[n] = IF n \in A /\ n \in ok THEN LwwPick(n, r[n], o[n]) ELSE r[n]
  BY <1>1
<1>5. s \in GSet
  <2>1. \A n \in Name : (IF n \in A /\ n \in ok THEN LwwPick(n, r[n], o[n]) ELSE r[n])
                            \in FileEntry \cup {NoEntry}
    BY <1>2 DEF GSet
  <2>2. QED
    BY <2>1, <1>1 DEF GSet
<1>6. QED
  BY <1>2, <1>3, <1>4, <1>5

-----------------------------------------------------------------------------
(* Type correctness.                                                       *)

Points == {"down"} \cup Saving \cup NotSaving

Jobs == {NoJob} \cup WriteJob \cup AckJob \cup GetJob \cup GcJob \cup ReplyJob
            \cup SyncJob \cup BgJob

(* registry.json always loads to some registry, a torn file to the empty   *)
(* one, and so does what a handler sends.                                  *)
LEMMA LoadedFacts ==
    ASSUME TypeOK
    PROVE  /\ Empty \in GSet
           /\ \A d \in Device : Loaded(d) \in GSet
           /\ \A s \in Proc : Served(s) \in GSet
<1>1. Empty \in GSet
  BY DEF Empty, GSet
<1>2. \A d \in Device : Loaded(d) \in GSet
  BY <1>1 DEF TypeOK, Loaded
<1>3. QED
  BY <1>1, <1>2, SyncNodeAssumption DEF TypeOK, Served

(* Steps that leave the work record of every process valid for the point   *)
(* the process is at: one process moves from its point to l with record j. *)
LEMMA JobStep ==
    ASSUME TypeOK, NEW p \in Proc, NEW l \in Points, NEW j \in Jobs,
           pc' = [pc EXCEPT ![p] = l], job' = [job EXCEPT ![p] = j],
           l = "put" => j \in WriteJob,
           l = "opsave" => j \in AckJob,
           l = "get" => j \in GetJob,
           l = "gc" => j \in GcJob,
           l \in {"synced", "bgreply"} => j \in ReplyJob,
           l \in {"syncsave", "syncchunks"} => j \in SyncJob,
           l \in {"bgsave", "bgchunks"} => j \in BgJob
    PROVE  /\ pc' \in [Proc -> Points]
           /\ job' \in [Proc -> Jobs]
           /\ \A x \in Proc : JobOK(x)'
<1>1. pc' \in [Proc -> Points] /\ job' \in [Proc -> Jobs]
  BY DEF TypeOK, Points, Jobs
<1>2. ASSUME NEW x \in Proc
      PROVE  JobOK(x)'
  <2>1. CASE x = p
    <3>1. pc'[x] = l /\ job'[x] = j
      BY <2>1 DEF TypeOK
    <3>2. QED
      BY <3>1 DEF JobOK
  <2>2. CASE x # p
    <3>1. pc'[x] = pc[x] /\ job'[x] = job[x] /\ JobOK(x)
      BY <2>2 DEF TypeOK
    <3>2. QED
      BY <3>1 DEF JobOK
  <2>3. QED
    BY <2>1, <2>2
<1>3. QED
  BY <1>1, <1>2

(* A process may also move to l and keep the record it has. *)
LEMMA MoveStep ==
    ASSUME TypeOK, NEW p \in Proc, NEW l \in Points,
           pc' = [pc EXCEPT ![p] = l], UNCHANGED job,
           \/ l \in {"ready", "exit", "sync", "bg", "stopsave", "exitsave", "down", "bgdead"}
           \/ pc[p] = "syncsave" /\ l = "syncchunks"
           \/ pc[p] = "bgsave" /\ l = "bgchunks"
    PROVE  /\ pc' \in [Proc -> Points]
           /\ job' \in [Proc -> Jobs]
           /\ \A x \in Proc : JobOK(x)'
<1>1. pc' \in [Proc -> Points] /\ job' \in [Proc -> Jobs]
  BY DEF TypeOK, Points, Jobs
<1>2. ASSUME NEW x \in Proc
      PROVE  JobOK(x)'
  <2>1. CASE x = p
    <3>1. pc'[x] = l /\ job'[x] = job[x] /\ JobOK(x)
      BY <2>1 DEF TypeOK
    <3>2. QED
      BY <3>1, <2>1 DEF JobOK
  <2>2. CASE x # p
    <3>1. pc'[x] = pc[x] /\ job'[x] = job[x] /\ JobOK(x)
      BY <2>2 DEF TypeOK
    <3>2. QED
      BY <3>1 DEF JobOK
  <2>3. QED
    BY <2>1, <2>2
<1>3. QED
  BY <1>1, <1>2

(* Every step preserves the types. *)
LEMMA TypeStep ==
    ASSUME TypeOK, [Next]_vars
    PROVE  TypeOK'
<1> DEFINE Rest == /\ now' \in [Device -> Time]
                   /\ disk' \in [Device -> GSet \cup {NoFile, Torn}]
                   /\ chunks' \in [Device -> SUBSET Shard]
                   /\ mem' \in [Proc -> GSet]
                   /\ left' \in [Proc -> SUBSET Device]
                   /\ issued' \in SUBSET (Name \X FileEntry)
                   /\ acked' \in [Device -> SUBSET (Name \X FileEntry)]
           Work == /\ pc' \in [Proc -> Points]
                   /\ job' \in [Proc -> Jobs]
                   /\ \A x \in Proc : JobOK(x)'
<1> SUFFICES Rest /\ Work
  BY DEF TypeOK, Points, Jobs
<1>a. /\ now \in [Device -> Time]
      /\ disk \in [Device -> GSet \cup {NoFile, Torn}]
      /\ chunks \in [Device -> SUBSET Shard]
      /\ mem \in [Proc -> GSet]
      /\ left \in [Proc -> SUBSET Device]
      /\ issued \in SUBSET (Name \X FileEntry)
      /\ acked \in [Device -> SUBSET (Name \X FileEntry)]
  BY DEF TypeOK
<1>b. Dir \in [Proc -> Device] /\ Peers \in [Device -> SUBSET Device]
  BY SyncNodeAssumption
<1>c. NoJob \in Jobs /\ WriteJob \subseteq Jobs /\ AckJob \subseteq Jobs
      /\ GetJob \subseteq Jobs /\ GcJob \subseteq Jobs
      /\ ReplyJob \subseteq Jobs /\ SyncJob \subseteq Jobs /\ BgJob \subseteq Jobs
  BY DEF Jobs
<1>d. Saving \cup NotSaving \cup {"down"} = Points
  BY DEF Points
<1>e. \A C \in SUBSET Content : ShardsOf(C) \in SUBSET Shard
  BY DEF ShardsOf, Shard
<1>f. \A r \in GSet : LiveContents(r) \in SUBSET Content /\ HeldContents(r) \in SUBSET Content
  BY DEF GSet, LiveContents, HeldContents, Live, Held, FileEntry
<1>0. CASE UNCHANGED vars
  BY <1>0, <1>a DEF vars, TypeOK, Points, Jobs, JobOK
<1>1. ASSUME NEW d \in Device, Tick(d)
      PROVE  Rest /\ Work
  <2>1. Work
    BY <1>1 DEF Tick, TypeOK, Points, Jobs, JobOK
  <2>2. Rest
    BY <1>1, <1>a, RegistryAssumption DEF Tick, Time
  <2>3. QED
    BY <2>1, <2>2
<1>2. ASSUME NEW p \in Proc, Start(p)
      PROVE  Rest /\ Work
  <2>1. Work
    BY <1>2, <1>d, MoveStep DEF Start, Goto, NotSaving
  <2>2. Rest
    BY <1>2, <1>a, <1>b, LoadedFacts DEF Start
  <2>3. QED
    BY <2>1, <2>2
<1>r. ASSUME NEW p \in Proc, Reset(p)
      PROVE  /\ Work
             /\ mem' \in [Proc -> GSet] /\ left' \in [Proc -> SUBSET Device]
  <2>1. Work
    BY <1>r, <1>c, <1>d, JobStep DEF Reset, Goto
  <2>2. QED
    BY <2>1, <1>r, <1>a, LoadedFacts DEF Reset
<1>3. ASSUME NEW p \in Proc, Crash(p)
      PROVE  Rest /\ Work
  BY <1>3, <1>a, <1>r DEF Crash
<1>g. ASSUME NEW p \in Proc
      PROVE  /\ BeginSave(p) => disk' \in [Device -> GSet \cup {NoFile, Torn}]
             /\ EndSave(p) => disk' \in [Device -> GSet \cup {NoFile, Torn}]
  BY <1>a, <1>b DEF BeginSave, EndSave
<1>4. ASSUME NEW p \in Proc, Command(p)
      PROVE  Rest /\ Work
  <2>1. ASSUME NEW n \in Name, NEW c \in Content, PutChunks(p, n, c)
        PROVE  Rest /\ Work
    <3>1. [name |-> n, content |-> c] \in WriteJob
      BY DEF WriteJob
    <3>2. Work
      BY <2>1, <3>1, <1>c, <1>d, JobStep DEF PutChunks, Goto, NotSaving
    <3>3. LocalShards(p, c) \in SUBSET Shard
      BY <1>e DEF LocalShards
    <3>4. Rest
      BY <2>1, <1>a, <1>b, <3>3 DEF PutChunks
    <3>5. QED
      BY <3>2, <3>4
  <2>e. ASSUME NEW n \in Name, NEW e \in FileEntry,
               mem' = [mem EXCEPT ![p] = lww_insert(@, n, e)],
               job' = [job EXCEPT ![p] = [name |-> n, entry |-> e]],
               issued' = issued \cup {<<n, e>>}, BeginSave(p), Goto(p, "opsave"),
               UNCHANGED <<now, chunks, left, acked>>
        PROVE  Rest /\ Work
    <3>1. [name |-> n, entry |-> e] \in AckJob
      BY DEF AckJob
    <3>2. Work
      BY <2>e, <3>1, <1>c, <1>d, JobStep DEF Goto, Saving
    <3>3. lww_insert(mem[p], n, e) \in GSet
      BY <1>a, InsertFacts
    <3>4. Rest
      BY <2>e, <1>a, <1>g, <3>3
    <3>5. QED
      BY <3>2, <3>4
  <2>2. CASE PutRegister(p)
    <3>1. job[p] \in WriteJob
      BY <2>2 DEF PutRegister, TypeOK, JobOK
    <3> DEFINE e == NewEntry(p, job[p].content, FALSE)
    <3>2. job[p].name \in Name /\ e \in FileEntry
      BY <3>1, <1>a, <1>b DEF WriteJob, FileEntry, NewEntry
    <3>3. QED
      BY <2>2, <2>e, <3>2 DEF PutRegister, Register
  <2>3. ASSUME NEW n \in Name, Delete(p, n)
        PROVE  Rest /\ Work
    <3> DEFINE e == NewEntry(p, mem[p][n].content, TRUE)
    <3>1. mem[p][n] \in FileEntry
      BY <2>3, <1>a DEF Delete, Live, Held, GSet
    <3>2. e \in FileEntry
      BY <3>1, <1>a, <1>b DEF FileEntry, NewEntry
    <3>3. QED
      BY <2>3, <2>e, <3>2 DEF Delete, Register
  <2>4. ASSUME NEW n \in Name, UnknownName(p, n)
        PROVE  Rest /\ Work
    BY <2>4, <1>a, <1>r DEF UnknownName
  <2>5. CASE OpSaved(p)
    <3>1. job[p] \in AckJob
      BY <2>5 DEF OpSaved, TypeOK, JobOK
    <3>2. job[p].name \in Name /\ job[p].entry \in FileEntry
      BY <3>1 DEF AckJob
    <3>3. acked[Dir[p]] \cup {<<job[p].name, job[p].entry>>} \in SUBSET (Name \X FileEntry)
      BY <3>2, <1>a, <1>b
    <3>4. Work
      BY <2>5, <1>c, <1>d, JobStep DEF OpSaved, Goto, NotSaving
    <3>5. Rest
      BY <2>5, <1>a, <1>b, <1>g, <3>3 DEF OpSaved
    <3>6. QED
      BY <3>4, <3>5
  <2>6. CASE ReadOnlyCommand(p)
    <3>1. Work
      BY <2>6, <1>d, MoveStep DEF ReadOnlyCommand, Goto, NotSaving
    <3>2. QED
      BY <3>1, <2>6, <1>a DEF ReadOnlyCommand
  <2>7. CASE GcMark(p)
    <3>1. [live |-> live_shard_hashes(p)] \in GcJob
      BY <1>a, <1>e, <1>f DEF GcJob, live_shard_hashes
    <3>2. Work
      BY <2>7, <3>1, <1>c, <1>d, JobStep DEF GcMark, Goto, NotSaving
    <3>3. QED
      BY <3>2, <2>7, <1>a DEF GcMark
  <2>8. CASE GcSweep(p)
    <3>1. Work
      BY <2>8, <1>c, <1>d, JobStep DEF GcSweep, Goto, NotSaving
    <3>2. QED
      BY <3>1, <2>8, <1>a, <1>b DEF GcSweep
  <2>9. ASSUME NEW n \in Name, GetStart(p, n)
        PROVE  Rest /\ Work
    <3>1. mem[p][n] \in FileEntry
      BY <2>9, <1>a DEF FirstShard, GetStart, Live, Held, GSet
    <3>2. [content |-> mem[p][n].content, at |-> 1, have |-> 0] \in GetJob
      BY <3>1 DEF GetJob, FileEntry
    <3>3. Work
      BY <2>9, <3>2, <1>c, <1>d, JobStep DEF FirstShard, GetStart, Goto, NotSaving
    <3>4. QED
      BY <2>9, <3>3, <1>a DEF FirstShard, GetStart
  <2>10. CASE GetShard(p)
    <3>1. job[p] \in GetJob /\ pc[p] = "get"
      BY <2>10 DEF GetShard, TypeOK, JobOK
    <3>2. PICK j \in GetJob : job' = [job EXCEPT ![p] = j]
      <4> DEFINE j(k) == [content |-> job[p].content, at |-> job[p].at + 1, have |-> k]
      <4>1. j(job[p].have) \in GetJob /\ j(job[p].have + 1) \in GetJob
        BY <3>1 DEF GetJob
      <4>2. \/ job' = [job EXCEPT ![p] = j(job[p].have)]
            \/ job' = [job EXCEPT ![p] = j(job[p].have + 1)]
        BY <2>10 DEF GetShard, TypeOK
      <4>3. QED
        BY <4>1, <4>2
    <3>3. pc' = [pc EXCEPT ![p] = "get"]
      BY <2>10, <3>1 DEF GetShard, TypeOK
    <3>4. Work
      BY <3>2, <3>3, <1>c, <1>d, JobStep DEF NotSaving
    <3>5. <<job[p].content, job[p].at>> \in Shard
      BY <2>10, <3>1, SyncNodeAssumption DEF GetShard, GetJob, Shard
    <3>6. chunks' \in [Device -> SUBSET Shard]
      BY <2>10, <3>5, <1>a, <1>b DEF GetShard
    <3>7. QED
      BY <2>10, <3>4, <3>6, <1>a DEF GetShard
  <2>11. CASE GetDone(p)
    <3>1. CASE Reset(p)
      BY <2>11, <3>1, <1>a, <1>r DEF GetDone
    <3>2. CASE job' = [job EXCEPT ![p] = NoJob] /\ Goto(p, "exit") /\ UNCHANGED <<mem, left>>
      <4>1. Work
        BY <3>2, <1>c, <1>d, JobStep DEF Goto, NotSaving
      <4>2. QED
        BY <4>1, <3>2, <2>11, <1>a DEF GetDone
    <3>3. QED
      BY <2>11, <3>1, <3>2 DEF GetDone
  <2>12. QED
    BY <1>4, <2>1, <2>2, <2>3, <2>4, <2>5, <2>6, <2>7, <2>8, <2>9, <2>10, <2>11 DEF Command
<1>h. ASSUME NEW p \in Proc, NEW h \in Shard, NEW here \in {"syncchunks", "bgchunks"},
             FetchChunk(p, h, here)
      PROVE  Rest /\ Work
  <2> DEFINE j == [job[p] EXCEPT !.todo = @ \ {h}]
  <2>1. JobOK(p) /\ pc[p] = here
    BY <1>h DEF FetchChunk, TypeOK
  <2>2. /\ here = "syncchunks" => job[p] \in SyncJob
        /\ here = "bgchunks" => job[p] \in BgJob
    BY <2>1 DEF JobOK
  <2>3. /\ here = "syncchunks" => j \in SyncJob
        /\ here = "bgchunks" => j \in BgJob
    BY <2>2 DEF SyncJob, BgJob
  <2>4. pc' = [pc EXCEPT ![p] = here] /\ job' = [job EXCEPT ![p] = j]
    BY <1>h DEF FetchChunk, TypeOK
  <2>5. here \in Points
    BY <1>d DEF NotSaving
  <2>6. Work
    BY <2>3, <2>4, <2>5, <1>c, JobStep
  <2>7. Rest
    BY <1>h, <1>a, <1>b DEF FetchChunk
  <2>8. QED
    BY <2>6, <2>7
<1>i. ASSUME NEW p \in Proc, NEW here, NEW next \in {"sync", "bg"}, ChunksDone(p, here, next)
      PROVE  Rest /\ Work
  <2>1. Work
    BY <1>i, <1>c, <1>d, JobStep DEF ChunksDone, Goto, NotSaving
  <2>2. QED
    BY <2>1, <1>i, <1>a DEF ChunksDone
<1>5. ASSUME NEW p \in Proc, SyncCommand(p)
      PROVE  Rest /\ Work
  <2>1. ASSUME NEW q \in Device, SyncFetch(p, q)
        PROVE  Rest /\ Work
    <3>1. PICK s \in Proc : job' = [job EXCEPT ![p] = [peer |-> q, reply |-> Served(s)]]
      BY <2>1 DEF SyncFetch
    <3>2. [peer |-> q, reply |-> Served(s)] \in ReplyJob
      BY LoadedFacts DEF ReplyJob
    <3>3. Work
      BY <2>1, <3>1, <3>2, <1>c, <1>d, JobStep DEF SyncFetch, Goto, NotSaving
    <3>4. QED
      BY <3>3, <2>1, <1>a DEF SyncFetch
  <2>2. ASSUME NEW q \in Device, SyncFails(p, q)
        PROVE  Rest /\ Work
    <3>1. CASE Reset(p)
      BY <2>2, <3>1, <1>a, <1>r DEF SyncFails
    <3>2. CASE left' = [left EXCEPT ![p] = @ \ {q}] /\ UNCHANGED <<mem, pc, job>>
      <4>1. Work
        BY <3>2 DEF TypeOK, Points, Jobs, JobOK
      <4>2. QED
        BY <4>1, <3>2, <2>2, <1>a DEF SyncFails
    <3>3. QED
      BY <2>2, <3>1, <3>2 DEF SyncFails
  <2>3. CASE SyncMerge(p)
    <3>1. job[p] \in ReplyJob
      BY <2>3 DEF SyncMerge, TypeOK, JobOK
    <3>2. job[p].peer \in Device /\ job[p].reply \in GSet
      BY <3>1 DEF ReplyJob
    <3>3. PICK r \in validated_merge(mem[p], job[p].reply, now[Dir[p]]) :
            /\ mem' = [mem EXCEPT ![p] = r]
            /\ job' = [job EXCEPT ![p] = [peer |-> job[p].peer,
                                          short |-> len(r) < len(mem[p]),
                                          todo |-> ShardsOf(HeldContents(r))]]
      BY <2>3 DEF SyncMerge
    <3>4. r \in GSet
      BY <3>2, <1>a, ValidatedMergeFacts
    <3>5. ShardsOf(HeldContents(r)) \in SUBSET Shard
      BY <3>4, <1>e, <1>f
    <3>6. (len(r) < len(mem[p])) \in BOOLEAN
      OBVIOUS
    <3>7. [peer |-> job[p].peer, short |-> len(r) < len(mem[p]),
           todo |-> ShardsOf(HeldContents(r))] \in SyncJob
      BY <3>2, <3>5, <3>6 DEF SyncJob
    <3>8. Work
      BY <2>3, <3>3, <3>7, <1>c, <1>d, JobStep DEF SyncMerge, Goto, Saving
    <3>9. QED
      BY <2>3, <3>3, <3>4, <3>8, <1>a, <1>g DEF SyncMerge
  <2>4. CASE SyncSaved(p)
    <3>1. CASE Reset(p)
      BY <2>4, <3>1, <1>a, <1>g, <1>r DEF SyncSaved
    <3>2. CASE Goto(p, "syncchunks") /\ UNCHANGED <<mem, job, left>>
      <4>1. Work
        BY <2>4, <3>2, <1>d, MoveStep DEF SyncSaved, Goto, NotSaving
      <4>2. QED
        BY <4>1, <3>2, <2>4, <1>a, <1>g DEF SyncSaved
    <3>3. QED
      BY <2>4, <3>1, <3>2 DEF SyncSaved
  <2>5. ASSUME NEW h \in Shard, SyncChunk(p, h)
        PROVE  Rest /\ Work
    BY <2>5, <1>h DEF SyncChunk
  <2>6. CASE SyncNextPeer(p)
    BY <2>6, <1>i DEF SyncNextPeer
  <2>7. CASE SyncDone(p)
    <3>1. Work
      BY <2>7, <1>d, MoveStep DEF SyncDone, Goto, NotSaving
    <3>2. QED
      BY <2>7, <3>1, <1>a DEF SyncDone
  <2>8. CASE SyncAll(p)
    <3>1. Work
      BY <2>8, <1>d, MoveStep DEF SyncAll, Goto, NotSaving
    <3>2. QED
      BY <2>8, <3>1, <1>a, <1>b DEF SyncAll
  <2>9. QED
    BY <1>5, <2>1, <2>2, <2>3, <2>4, <2>5, <2>6, <2>7, <2>8 DEF SyncCommand
<1>6. ASSUME NEW p \in Proc, Background(p)
      PROVE  Rest /\ Work
  <2>1. CASE BgLoad(p)
    <3>1. merge(mem[p], Loaded(Dir[p])) \in GSet
      BY <1>a, <1>b, LoadedFacts, MergeFacts
    <3>2. Work
      BY <2>1, <1>d, MoveStep DEF BgLoad, Goto, NotSaving
    <3>3. QED
      BY <2>1, <3>1, <3>2, <1>a, <1>b DEF BgLoad
  <2>2. ASSUME NEW q \in Device, BgFetch(p, q)
        PROVE  Rest /\ Work
    <3>1. CASE UNCHANGED <<job, pc>>
      <4>1. Work
        BY <3>1 DEF TypeOK, Points, Jobs, JobOK
      <4>2. QED
        BY <4>1, <2>2, <1>a DEF BgFetch
    <3>2. ASSUME NEW s \in Proc, job' = [job EXCEPT ![p] = [peer |-> q, reply |-> Served(s)]],
                 Goto(p, "bgreply")
          PROVE  Rest /\ Work
      <4>1. [peer |-> q, reply |-> Served(s)] \in ReplyJob
        BY LoadedFacts DEF ReplyJob
      <4>2. Work
        BY <3>2, <4>1, <1>c, <1>d, JobStep DEF Goto, NotSaving
      <4>3. QED
        BY <4>2, <2>2, <1>a DEF BgFetch
    <3>3. QED
      BY <2>2, <3>1, <3>2 DEF BgFetch
  <2>3. CASE BgMerge(p)
    <3>1. job[p] \in ReplyJob
      BY <2>3 DEF BgMerge, TypeOK, JobOK
    <3>2. job[p].peer \in Device /\ job[p].reply \in GSet
      BY <3>1 DEF ReplyJob
    <3> DEFINE work(r) == [peer |-> job[p].peer, todo |-> ShardsOf(HeldContents(r))]
    <3>3. PICK r \in validated_merge(mem[p], job[p].reply, now[Dir[p]]) :
            /\ mem' = [mem EXCEPT ![p] = r]
            /\ \/ BeginSave(p) /\ Goto(p, "bgsave") /\ job' = [job EXCEPT ![p] = work(r)]
               \/ UNCHANGED disk /\ Goto(p, "bgchunks") /\ job' = [job EXCEPT ![p] = work(r)]
               \/ UNCHANGED disk /\ Goto(p, "bgdead") /\ job' = [job EXCEPT ![p] = NoJob]
      BY <2>3 DEF BgMerge
    <3>4. r \in GSet
      BY <3>2, <1>a, ValidatedMergeFacts
    <3>5. work(r) \in BgJob
      BY <3>2, <3>4, <1>e, <1>f DEF BgJob
    <3>6. Work
      <4> HIDE DEF work
      <4>1. CASE Goto(p, "bgsave") /\ job' = [job EXCEPT ![p] = work(r)]
        BY <4>1, <3>5, <1>c, <1>d, JobStep DEF Goto, Saving
      <4>2. CASE Goto(p, "bgchunks") /\ job' = [job EXCEPT ![p] = work(r)]
        BY <4>2, <3>5, <1>c, <1>d, JobStep DEF Goto, NotSaving
      <4>3. CASE Goto(p, "bgdead") /\ job' = [job EXCEPT ![p] = NoJob]
        BY <4>3, <1>c, <1>d, JobStep DEF Goto, NotSaving
      <4>4. QED
        BY <3>3, <4>1, <4>2, <4>3
    <3>7. QED
      BY <2>3, <3>3, <3>4, <3>6, <1>a, <1>g DEF BgMerge
  <2>4. CASE BgSaved(p)
    <3>1. Work
      BY <2>4, <1>d, MoveStep DEF BgSaved, Goto, NotSaving
    <3>2. QED
      BY <2>4, <3>1, <1>a, <1>g DEF BgSaved
  <2>5. ASSUME NEW h \in Shard, BgChunk(p, h)
        PROVE  Rest /\ Work
    BY <2>5, <1>h DEF BgChunk
  <2>6. CASE BgNextPeer(p)
    BY <2>6, <1>i DEF BgNextPeer
  <2>7. CASE BgRoundDone(p)
    <3>1. Work
      BY <2>7, <1>d, MoveStep DEF BgRoundDone, Goto, NotSaving
    <3>2. QED
      BY <2>7, <3>1, <1>a DEF BgRoundDone
  <2>8. QED
    BY <1>6, <2>1, <2>2, <2>3, <2>4, <2>5, <2>6, <2>7 DEF Background
<1>7. ASSUME NEW p \in Proc, Shutdown(p)
      PROVE  Rest /\ Work
  <2>1. CASE CtrlC(p)
    <3>1. Work
      BY <2>1, <1>d, MoveStep DEF CtrlC, Goto, Saving
    <3>2. QED
      BY <2>1, <3>1, <1>a, <1>g DEF CtrlC
  <2>2. CASE StopSaved(p)
    <3>1. Work
      BY <2>2, <1>d, MoveStep DEF StopSaved, Goto, NotSaving
    <3>2. QED
      BY <2>2, <3>1, <1>a, <1>g DEF StopSaved
  <2>3. CASE ExitSave(p)
    <3>1. Work
      BY <2>3, <1>d, MoveStep DEF ExitSave, Goto, Saving
    <3>2. QED
      BY <2>3, <3>1, <1>a, <1>g DEF ExitSave
  <2>4. CASE Exit(p)
    BY <2>4, <1>a, <1>g, <1>r DEF Exit
  <2>5. QED
    BY <1>7, <2>1, <2>2, <2>3, <2>4 DEF Shutdown
<1>8. QED
  BY <1>0, <1>1, <1>2, <1>3, <1>4, <1>5, <1>6, <1>7 DEF Next

(* The daemon and the commands never leave the types the model gives their *)
(* memory, registry.json, chunk directory and work records, with any       *)
(* number of processes per directory and crashes at any point.             *)
THEOREM TypeCorrect == Spec => []TypeOK
<1>1. Init => TypeOK
  <2> SUFFICES ASSUME Init PROVE TypeOK
    OBVIOUS
  <2>1. Empty \in GSet
    BY DEF Empty, GSet
  <2>2. now \in [Device -> Time]
    BY RegistryAssumption DEF Init, Time
  <2>3. \A p \in Proc : JobOK(p)
    BY DEF Init, JobOK
  <2>4. QED
    BY <2>1, <2>2, <2>3 DEF Init, TypeOK
<1>2. TypeOK /\ [Next]_vars => TypeOK'
  BY TypeStep
<1>3. QED
  BY <1>1, <1>2, PTL DEF Spec

-----------------------------------------------------------------------------
(* What one step may do to memory.                                         *)

(* A running process's registry is left alone, dropped with the process,   *)
(* or replaced name by name with entries at least as recent.               *)
LEMMA MemStep ==
    ASSUME TypeOK, [Next]_vars, NEW x \in Proc, NEW n \in Name, Up(x), pc'[x] # "down"
    PROVE  Supersedes(n, mem'[x][n], mem[x][n])
<1>a. mem \in [Proc -> GSet] /\ Dir \in [Proc -> Device] /\ pc \in [Proc -> Points]
  BY SyncNodeAssumption DEF TypeOK, Points
<1>b. mem'[x] = mem[x] => Supersedes(n, mem'[x][n], mem[x][n])
  BY DEF Supersedes
<1>c. ASSUME NEW p \in Proc, Reset(p)
      PROVE  mem'[x] = mem[x]
  BY <1>a, <1>c DEF Reset, Goto
<1>d. ASSUME NEW p \in Proc, NEW r \in GSet, mem' = [mem EXCEPT ![p] = r],
             \A m \in Name : Supersedes(m, r[m], mem[p][m])
      PROVE  Supersedes(n, mem'[x][n], mem[x][n])
  BY <1>a, <1>b, <1>d
<1>e. ASSUME NEW p \in Proc, NEW m \in Name, NEW e \in FileEntry,
             mem' = [mem EXCEPT ![p] = lww_insert(@, m, e)]
      PROVE  Supersedes(n, mem'[x][n], mem[x][n])
  <2>1. mem[p] \in GSet
    BY <1>a
  <2>2. /\ lww_insert(mem[p], m, e) \in GSet
        /\ \A k \in Name : Supersedes(k, lww_insert(mem[p], m, e)[k], mem[p][k])
    BY <2>1, InsertFacts
  <2>3. QED
    BY <1>d, <1>e, <2>2
<1>f. ASSUME NEW p \in Proc, job[p] \in ReplyJob,
             NEW r \in validated_merge(mem[p], job[p].reply, now[Dir[p]]),
             mem' = [mem EXCEPT ![p] = r]
      PROVE  Supersedes(n, mem'[x][n], mem[x][n])
  <2>1. mem[p] \in GSet /\ job[p].reply \in GSet
    BY <1>a, <1>f DEF ReplyJob
  <2>2. r \in GSet /\ \A m \in Name : Supersedes(m, r[m], mem[p][m])
    BY <2>1, ValidatedMergeFacts
  <2>3. QED
    BY <1>d, <1>f, <2>2
<1>0. CASE UNCHANGED vars
  BY <1>0, <1>b DEF vars
<1>1. ASSUME NEW d \in Device, Tick(d)
      PROVE  mem'[x] = mem[x]
  BY <1>1 DEF Tick
<1>2. ASSUME NEW p \in Proc, Start(p) \/ Crash(p) \/ Shutdown(p)
      PROVE  mem'[x] = mem[x]
  BY <1>2, <1>a, <1>c
     DEF Start, Up, Crash, Shutdown, CtrlC, StopSaved, ExitSave, Exit
<1>3. ASSUME NEW p \in Proc, Command(p)
      PROVE  Supersedes(n, mem'[x][n], mem[x][n])
  <2>1. CASE PutRegister(p)
    <3>1. job[p] \in WriteJob
      BY <2>1 DEF PutRegister, TypeOK, JobOK
    <3>2. job[p].name \in Name /\ NewEntry(p, job[p].content, FALSE) \in FileEntry
      BY <3>1, <1>a DEF WriteJob, FileEntry, NewEntry, TypeOK
    <3>3. QED
      BY <2>1, <1>e, <3>2 DEF PutRegister, Register
  <2>2. ASSUME NEW m \in Name, Delete(p, m)
        PROVE  Supersedes(n, mem'[x][n], mem[x][n])
    <3>1. mem[p][m] \in FileEntry
      BY <2>2, <1>a DEF Delete, Live, Held, GSet
    <3>2. NewEntry(p, mem[p][m].content, TRUE) \in FileEntry
      BY <3>1, <1>a DEF FileEntry, NewEntry, TypeOK
    <3>3. QED
      BY <2>2, <1>e, <3>2 DEF Delete, Register
  <2>3. ASSUME NEW m \in Name, NEW c \in Content, PutChunks(p, m, c)
        PROVE  mem'[x] = mem[x]
    BY <2>3 DEF PutChunks
  <2>4. CASE OpSaved(p) \/ ReadOnlyCommand(p) \/ GcMark(p) \/ GcSweep(p) \/ GetShard(p) \/ GetDone(p)
    BY <2>4, <1>b, <1>c DEF OpSaved, ReadOnlyCommand, GcMark, GcSweep, GetShard, GetDone
  <2>5. ASSUME NEW m \in Name, UnknownName(p, m) \/ GetStart(p, m)
        PROVE  mem'[x] = mem[x]
    BY <2>5, <1>c DEF UnknownName, GetStart
  <2>6. QED
    BY <1>3, <1>b, <2>1, <2>2, <2>3, <2>4, <2>5 DEF Command
<1>4. ASSUME NEW p \in Proc, SyncCommand(p)
      PROVE  Supersedes(n, mem'[x][n], mem[x][n])
  <2>1. CASE SyncMerge(p)
    <3>1. job[p] \in ReplyJob
      BY <2>1 DEF SyncMerge, TypeOK, JobOK
    <3>2. QED
      BY <2>1, <3>1, <1>f DEF SyncMerge
  <2>2. ASSUME NEW q \in Device, SyncFetch(p, q) \/ SyncFails(p, q)
        PROVE  mem'[x] = mem[x]
    BY <2>2, <1>c DEF SyncFetch, SyncFails
  <2>3. CASE SyncSaved(p) \/ SyncDone(p) \/ SyncNextPeer(p) \/ SyncAll(p)
    BY <2>3, <1>b, <1>c DEF SyncSaved, SyncDone, SyncNextPeer, SyncAll, ChunksDone
  <2>4. ASSUME NEW h \in Shard, SyncChunk(p, h)
        PROVE  mem'[x] = mem[x]
    BY <2>4 DEF SyncChunk, FetchChunk
  <2>5. QED
    BY <1>4, <1>b, <2>1, <2>2, <2>3, <2>4 DEF SyncCommand
<1>5. ASSUME NEW p \in Proc, Background(p)
      PROVE  Supersedes(n, mem'[x][n], mem[x][n])
  <2>1. CASE BgMerge(p)
    <3>1. job[p] \in ReplyJob
      BY <2>1 DEF BgMerge, TypeOK, JobOK
    <3>2. QED
      BY <2>1, <3>1, <1>f DEF BgMerge
  <2>2. CASE BgLoad(p)
    <3>1. mem[p] \in GSet /\ Loaded(Dir[p]) \in GSet
      BY <1>a, LoadedFacts
    <3>2. /\ merge(mem[p], Loaded(Dir[p])) \in GSet
          /\ \A m \in Name : Supersedes(m, merge(mem[p], Loaded(Dir[p]))[m], mem[p][m])
      BY <3>1, MergeFacts
    <3>3. QED
      BY <2>2, <1>d, <3>2 DEF BgLoad
  <2>3. ASSUME NEW q \in Device, BgFetch(p, q)
        PROVE  mem'[x] = mem[x]
    BY <2>3 DEF BgFetch
  <2>4. CASE BgSaved(p) \/ BgNextPeer(p) \/ BgRoundDone(p)
    BY <2>4, <1>b DEF BgSaved, BgNextPeer, ChunksDone, BgRoundDone
  <2>5. ASSUME NEW h \in Shard, BgChunk(p, h)
        PROVE  mem'[x] = mem[x]
    BY <2>5 DEF BgChunk, FetchChunk
  <2>6. QED
    BY <1>5, <1>b, <2>1, <2>2, <2>3, <2>4, <2>5 DEF Background
<1>6. QED
  BY <1>b, <1>0, <1>1, <1>2, <1>3, <1>4, <1>5 DEF Next

(* Last-writer-wins memory never goes back while the process runs, with    *)
(* any number of devices, processes and crashes and any hash order.        *)
THEOREM MemMonotoneHolds == Spec => MemMonotone
<1>1. TypeOK /\ [Next]_vars =>
        [\A p \in Proc, n \in Name :
            Up(p) /\ pc'[p] # "down" => AtLeast(n, mem'[p][n], mem[p][n])]_vars
  <2> SUFFICES ASSUME TypeOK, [Next]_vars, NEW p \in Proc, NEW n \in Name, Up(p), pc'[p] # "down"
               PROVE  AtLeast(n, mem'[p][n], mem[p][n])
    OBVIOUS
  <2>1. mem[p][n] \in MaybeEntry /\ mem'[p][n] \in MaybeEntry
    BY TypeStep DEF TypeOK, GSet, MaybeEntry
  <2>2. QED
    BY <2>1, MemStep, SupersedesFacts
<1>2. QED
  BY <1>1, TypeCorrect, PTL DEF Spec, MemMonotone

-----------------------------------------------------------------------------
(* Where entries come from.                                                *)

(* One step, seen from the entries: the history only grows, by an entry    *)
(* stamped with its device's clock; registry.json is truncated or becomes  *)
(* some process's memory; a reply is what some handler served; and an      *)
(* entry in memory was there before, was in registry.json or in a reply,   *)
(* or has just been issued.                                                *)
EntryStep ==
    /\ issued \subseteq issued'
    /\ \A y \in issued' \ issued : y[2].dev \in Device /\ y[2].ts = now[y[2].dev]
    /\ \A d \in Device : now[d] <= now'[d]
    /\ \A d \in Device : \/ disk'[d] \in {disk[d], Torn}
                         \/ \E p \in Proc : disk'[d] = mem[p]
    /\ \A x \in Proc : pc'[x] \in {"synced", "bgreply"} =>
            \/ pc[x] \in {"synced", "bgreply"} /\ job'[x] = job[x]
            \/ \E s \in Proc : job'[x].reply = Served(s)
    /\ \A x \in Proc, n \in Name :
            \/ mem'[x][n] \in {mem[x][n], NoEntry, Loaded(Dir[x])[n]}
            \/ <<n, mem'[x][n]>> \in issued'
            \/ pc[x] \in {"synced", "bgreply"} /\ mem'[x][n] = job[x].reply[n]

(* Every step has that shape. *)
LEMMA EntryStepHolds ==
    ASSUME TypeOK, [Next]_vars
    PROVE  EntryStep
<1>a. /\ mem \in [Proc -> GSet] /\ Dir \in [Proc -> Device] /\ pc \in [Proc -> Points]
      /\ now \in [Device -> Time] /\ disk \in [Device -> GSet \cup {NoFile, Torn}]
      /\ job \in [Proc -> Jobs]
  BY SyncNodeAssumption DEF TypeOK, Points, Jobs
<1>t. \A d \in Device : now[d] \in Int
  BY <1>a DEF Time
<1> DEFINE Same == issued' = issued /\ now' = now
           DiskOK == \A d \in Device : \/ disk'[d] \in {disk[d], Torn}
                                       \/ \E p \in Proc : disk'[d] = mem[p]
           ReplyOK == \A x \in Proc : pc'[x] \in {"synced", "bgreply"} =>
                          \/ pc[x] \in {"synced", "bgreply"} /\ job'[x] = job[x]
                          \/ \E s \in Proc : job'[x].reply = Served(s)
           MemOK == \A x \in Proc, n \in Name :
                          \/ mem'[x][n] \in {mem[x][n], NoEntry, Loaded(Dir[x])[n]}
                          \/ <<n, mem'[x][n]>> \in issued'
                          \/ pc[x] \in {"synced", "bgreply"} /\ mem'[x][n] = job[x].reply[n]
<1>b. ASSUME NEW p \in Proc, BeginSave(p) \/ EndSave(p) \/ UNCHANGED disk
      PROVE  DiskOK
  BY <1>a, <1>b DEF BeginSave, EndSave
<1>c. ASSUME NEW p \in Proc, NEW l \in Points \ {"synced", "bgreply"}, Goto(p, l),
             \A x \in Proc : x # p => job'[x] = job[x]
      PROVE  ReplyOK
  BY <1>a, <1>c DEF Goto
<1>d. UNCHANGED mem => MemOK
  OBVIOUS
<1>e. UNCHANGED <<pc, job>> => ReplyOK
  OBVIOUS
<1>f. ASSUME NEW p \in Proc, Reset(p)
      PROVE  ReplyOK /\ MemOK
  <2>1. ReplyOK
    BY <1>a, <1>c, <1>f DEF Reset, Goto, Points
  <2>2. MemOK
    BY <1>a, <1>f DEF Reset, Empty
  <2>3. QED
    BY <2>1, <2>2
<1>g. Same /\ DiskOK /\ ReplyOK /\ MemOK => EntryStep
  BY <1>t DEF EntryStep
<1>h. ASSUME NEW p \in Proc, NEW m \in Name, NEW e \in FileEntry,
             e.dev = Dir[p], e.ts = now[Dir[p]],
             mem' = [mem EXCEPT ![p] = lww_insert(@, m, e)],
             job' = [job EXCEPT ![p] = [name |-> m, entry |-> e]],
             issued' = issued \cup {<<m, e>>}, BeginSave(p), Goto(p, "opsave"), now' = now
      PROVE  EntryStep
  <2>1. DiskOK
    BY <1>b, <1>h
  <2>2. ReplyOK
    BY <1>a, <1>c, <1>h DEF Goto, Points, Saving
  <2>3. \A n \in Name : lww_insert(mem[p], m, e)[n] # mem[p][n]
                            => n = m /\ lww_insert(mem[p], m, e)[n] = e
    BY <1>a, InsertFacts
  <2>4. MemOK
    BY <1>a, <1>h, <2>3
  <2>5. \A y \in issued' \ issued : y[2].dev \in Device /\ y[2].ts = now[y[2].dev]
    BY <1>a, <1>h
  <2>6. QED
    BY <1>h, <1>t, <2>1, <2>2, <2>4, <2>5 DEF EntryStep
<1>i. ASSUME NEW p \in Proc, job[p] \in ReplyJob, pc[p] \in {"synced", "bgreply"},
             NEW r \in validated_merge(mem[p], job[p].reply, now[Dir[p]]),
             mem' = [mem EXCEPT ![p] = r]
      PROVE  MemOK
  <2>1. \A n \in Name : r[n] \in {mem[p][n], job[p].reply[n]}
    BY <1>a, <1>i, ValidatedMergeFacts DEF ReplyJob
  <2>2. QED
    BY <1>a, <1>i, <2>1
<1>0. CASE UNCHANGED vars
  BY <1>0, <1>g, <1>d, <1>e DEF vars
<1>1. ASSUME NEW d \in Device, Tick(d)
      PROVE  EntryStep
  BY <1>1, <1>a, <1>t, <1>d, <1>e DEF Tick, EntryStep
<1>2. ASSUME NEW p \in Proc, Start(p)
      PROVE  EntryStep
  <2>1. ReplyOK
    BY <1>2, <1>c DEF Start, Points, NotSaving
  <2>2. MemOK
    BY <1>2, <1>a DEF Start
  <2>3. QED
    BY <1>2, <1>g, <2>1, <2>2 DEF Start
<1>3. ASSUME NEW p \in Proc, Crash(p)
      PROVE  EntryStep
  BY <1>3, <1>f, <1>g DEF Crash
<1>4. ASSUME NEW p \in Proc, Command(p)
      PROVE  EntryStep
  <2>1. ASSUME NEW n \in Name, NEW c \in Content, PutChunks(p, n, c)
        PROVE  EntryStep
    <3>1. ReplyOK
      BY <2>1, <1>a, <1>c DEF PutChunks, Points, NotSaving
    <3>2. QED
      BY <2>1, <3>1, <1>d, <1>g DEF PutChunks
  <2>2. CASE PutRegister(p)
    <3>1. job[p] \in WriteJob
      BY <2>2 DEF PutRegister, TypeOK, JobOK
    <3>2. job[p].name \in Name /\ NewEntry(p, job[p].content, FALSE) \in FileEntry
      BY <3>1, <1>a DEF WriteJob, FileEntry, NewEntry
    <3>3. QED
      BY <2>2, <1>h, <3>2 DEF PutRegister, Register, NewEntry
  <2>3. ASSUME NEW m \in Name, Delete(p, m)
        PROVE  EntryStep
    <3>1. mem[p][m] \in FileEntry
      BY <2>3, <1>a DEF Delete, Live, Held, GSet
    <3>2. NewEntry(p, mem[p][m].content, TRUE) \in FileEntry
      BY <3>1, <1>a DEF FileEntry, NewEntry
    <3>3. QED
      BY <2>3, <1>h, <3>2 DEF Delete, Register, NewEntry
  <2>4. ASSUME NEW m \in Name, UnknownName(p, m)
        PROVE  EntryStep
    BY <2>4, <1>f, <1>g DEF UnknownName
  <2>5. CASE OpSaved(p) \/ GcMark(p) \/ GcSweep(p) \/ ReadOnlyCommand(p)
    <3>1. ReplyOK
      BY <2>5, <1>a, <1>c DEF OpSaved, GcMark, GcSweep, ReadOnlyCommand, Points, NotSaving
    <3>2. QED
      BY <2>5, <3>1, <1>b, <1>d, <1>g DEF OpSaved, GcMark, GcSweep, ReadOnlyCommand
  <2>6. ASSUME NEW m \in Name, GetStart(p, m)
        PROVE  EntryStep
    <3>1. ReplyOK
      BY <2>6, <1>a, <1>c DEF GetStart, Points, NotSaving
    <3>2. QED
      BY <2>6, <3>1, <1>d, <1>g DEF GetStart
  <2>7. CASE GetShard(p)
    <3>1. ReplyOK
      BY <2>7, <1>a DEF GetShard
    <3>2. QED
      BY <2>7, <3>1, <1>d, <1>g DEF GetShard
  <2>8. CASE GetDone(p)
    <3>1. CASE Reset(p)
      BY <2>8, <3>1, <1>f, <1>g DEF GetDone
    <3>2. CASE job' = [job EXCEPT ![p] = NoJob] /\ Goto(p, "exit") /\ UNCHANGED <<mem, left>>
      <4>1. ReplyOK
        BY <3>2, <1>a, <1>c DEF Points, NotSaving
      <4>2. QED
        BY <2>8, <3>2, <4>1, <1>d, <1>g DEF GetDone
    <3>3. QED
      BY <2>8, <3>1, <3>2 DEF GetDone
  <2>9. QED
    BY <1>4, <2>1, <2>2, <2>3, <2>4, <2>5, <2>6, <2>7, <2>8 DEF Command
<1>j. ASSUME NEW p \in Proc, NEW h, NEW here \in {"syncchunks", "bgchunks"},
             FetchChunk(p, h, here)
      PROVE  EntryStep
  <2>1. ReplyOK
    BY <1>a, <1>j DEF FetchChunk
  <2>2. QED
    BY <1>j, <2>1, <1>d, <1>g DEF FetchChunk
<1>k. ASSUME NEW p \in Proc, NEW here, NEW next \in {"sync", "bg"}, ChunksDone(p, here, next)
      PROVE  EntryStep
  <2>1. ReplyOK
    BY <1>a, <1>c, <1>k DEF ChunksDone, Points, NotSaving
  <2>2. QED
    BY <1>k, <2>1, <1>d, <1>g DEF ChunksDone
<1>5. ASSUME NEW p \in Proc, SyncCommand(p)
      PROVE  EntryStep
  <2>1. ASSUME NEW q \in Device, SyncFetch(p, q)
        PROVE  EntryStep
    <3>1. ReplyOK
      BY <2>1, <1>a DEF SyncFetch, Goto
    <3>2. QED
      BY <2>1, <3>1, <1>d, <1>g DEF SyncFetch
  <2>2. ASSUME NEW q \in Device, SyncFails(p, q)
        PROVE  EntryStep
    <3>1. CASE Reset(p)
      BY <2>2, <3>1, <1>f, <1>g DEF SyncFails
    <3>2. CASE UNCHANGED <<mem, pc, job>>
      BY <2>2, <3>2, <1>d, <1>e, <1>g DEF SyncFails
    <3>3. QED
      BY <2>2, <3>1, <3>2 DEF SyncFails
  <2>3. CASE SyncMerge(p)
    <3>1. job[p] \in ReplyJob
      BY <2>3 DEF SyncMerge, TypeOK, JobOK
    <3>2. MemOK
      BY <2>3, <3>1, <1>i DEF SyncMerge
    <3>3. ReplyOK
      BY <2>3, <1>a, <1>c DEF SyncMerge, Points, Saving
    <3>4. QED
      BY <2>3, <3>2, <3>3, <1>b, <1>g DEF SyncMerge
  <2>4. CASE SyncSaved(p)
    <3>1. CASE Reset(p)
      BY <2>4, <3>1, <1>b, <1>f, <1>g DEF SyncSaved
    <3>2. CASE Goto(p, "syncchunks") /\ UNCHANGED <<mem, job, left>>
      <4>1. ReplyOK
        BY <3>2, <1>c DEF Points, NotSaving
      <4>2. QED
        BY <2>4, <3>2, <4>1, <1>b, <1>d, <1>g DEF SyncSaved
    <3>3. QED
      BY <2>4, <3>1, <3>2 DEF SyncSaved
  <2>5. ASSUME NEW h \in Shard, SyncChunk(p, h)
        PROVE  EntryStep
    BY <2>5, <1>j DEF SyncChunk
  <2>6. CASE SyncNextPeer(p)
    BY <2>6, <1>k DEF SyncNextPeer
  <2>7. CASE SyncDone(p) \/ SyncAll(p)
    <3>1. ReplyOK
      BY <2>7, <1>c DEF SyncDone, SyncAll, Points, NotSaving
    <3>2. QED
      BY <2>7, <3>1, <1>d, <1>g DEF SyncDone, SyncAll
  <2>8. QED
    BY <1>5, <2>1, <2>2, <2>3, <2>4, <2>5, <2>6, <2>7 DEF SyncCommand
<1>6. ASSUME NEW p \in Proc, Background(p)
      PROVE  EntryStep
  <2>1. CASE BgLoad(p)
    <3>1. \A n \in Name : merge(mem[p], Loaded(Dir[p]))[n] \in {mem[p][n], Loaded(Dir[p])[n]}
      BY <1>a, LoadedFacts, MergeFacts
    <3>2. MemOK
      BY <2>1, <3>1, <1>a DEF BgLoad
    <3>3. ReplyOK
      BY <2>1, <1>c DEF BgLoad, Points, NotSaving
    <3>4. QED
      BY <2>1, <3>2, <3>3, <1>g DEF BgLoad
  <2>2. ASSUME NEW q \in Device, BgFetch(p, q)
        PROVE  EntryStep
    <3>1. ReplyOK
      BY <2>2, <1>a DEF BgFetch, Goto
    <3>2. QED
      BY <2>2, <3>1, <1>d, <1>g DEF BgFetch
  <2>3. CASE BgMerge(p)
    <3>1. job[p] \in ReplyJob
      BY <2>3 DEF BgMerge, TypeOK, JobOK
    <3>2. MemOK
      BY <2>3, <3>1, <1>i DEF BgMerge
    <3>3. ReplyOK
      BY <2>3, <1>a, <1>c DEF BgMerge, Points, Saving, NotSaving
    <3>4. QED
      BY <2>3, <3>2, <3>3, <1>b, <1>g DEF BgMerge
  <2>4. CASE BgSaved(p) \/ BgRoundDone(p)
    <3>1. ReplyOK
      BY <2>4, <1>c DEF BgSaved, BgRoundDone, Points, NotSaving
    <3>2. QED
      BY <2>4, <3>1, <1>b, <1>d, <1>g DEF BgSaved, BgRoundDone
  <2>5. ASSUME NEW h \in Shard, BgChunk(p, h)
        PROVE  EntryStep
    BY <2>5, <1>j DEF BgChunk
  <2>6. CASE BgNextPeer(p)
    BY <2>6, <1>k DEF BgNextPeer
  <2>7. QED
    BY <1>6, <2>1, <2>2, <2>3, <2>4, <2>5, <2>6 DEF Background
<1>7. ASSUME NEW p \in Proc, Shutdown(p)
      PROVE  EntryStep
  <2>1. CASE CtrlC(p) \/ StopSaved(p) \/ ExitSave(p)
    <3>1. ReplyOK
      BY <2>1, <1>c DEF CtrlC, StopSaved, ExitSave, Points, Saving, NotSaving
    <3>2. QED
      BY <2>1, <3>1, <1>b, <1>d, <1>g DEF CtrlC, StopSaved, ExitSave
  <2>2. CASE Exit(p)
    BY <2>2, <1>b, <1>f, <1>g DEF Exit
  <2>3. QED
    BY <1>7, <2>1, <2>2 DEF Shutdown
<1>8. QED
  BY <1>0, <1>1, <1>2, <1>3, <1>4, <1>5, <1>6, <1>7 DEF Next

(* Every entry anywhere is one a put or delete made, stamped no later than *)
(* its device's clock: syncing, relaying through registry.json, torn files *)
(* and restarts make nothing up.                                           *)
THEOREM ProvenanceHolds == Spec => []Provenance
<1>1. Init => Provenance
  <2> SUFFICES ASSUME Init PROVE Provenance
    OBVIOUS
  <2>1. \A n \in Name : Empty[n] = NoEntry
    BY DEF Empty
  <2>2. /\ \A p \in Proc : mem[p] = Empty /\ pc[p] = "down"
        /\ \A d \in Device : Loaded(d) = Empty
        /\ issued = {}
    BY DEF Init, Loaded
  <2>3. QED
    BY <2>1, <2>2 DEF Provenance, Known
<1>2. ASSUME TypeOK, TypeOK', Provenance, [Next]_vars
      PROVE  Provenance'
  <2>1. EntryStep
    BY <1>2, EntryStepHolds
  <2>2. /\ \A p \in Proc : Dir[p] \in Device
        /\ \A d \in Device : now[d] \in Int /\ now'[d] \in Int
        /\ \A y \in issued : y[2].ts \in Int /\ y[2].dev \in Device
    BY <1>2, SyncNodeAssumption DEF TypeOK, Time, FileEntry
  <2>3. \A p \in Proc, n \in Name : mem[p][n] # NoEntry => <<n, mem[p][n]>> \in issued
    BY <1>2 DEF Provenance, Known
  <2>4. \A d \in Device, n \in Name : Loaded(d)[n] # NoEntry => <<n, Loaded(d)[n]>> \in issued
    BY <1>2 DEF Provenance, Known
  <2>5. \A p \in Proc, n \in Name : pc[p] \in {"synced", "bgreply"} /\ job[p].reply[n] # NoEntry
            => <<n, job[p].reply[n]>> \in issued
    BY <1>2 DEF Provenance, Known
  <2>6. issued \subseteq issued'
    BY <2>1 DEF EntryStep
  <2>7. \A p \in Proc : Known(mem[p])'
    BY <2>1, <2>2, <2>3, <2>4, <2>5, <2>6 DEF EntryStep, Known
  <2>8. ASSUME NEW d \in Device
        PROVE  Known(Loaded(d))'
    <3>1. \/ Loaded(d)' = Loaded(d)
          \/ Loaded(d)' = Empty
          \/ \E p \in Proc : Loaded(d)' = mem[p]
      BY <2>1 DEF EntryStep, Loaded
    <3>2. \A n \in Name : Empty[n] = NoEntry
      BY DEF Empty
    <3>3. QED
      BY <3>1, <3>2, <2>3, <2>4, <2>6 DEF Known
  <2>9. ASSUME NEW p \in Proc, pc'[p] \in {"synced", "bgreply"}
        PROVE  Known(job[p].reply)'
    <3>1. \A s \in Proc, n \in Name : Served(s)[n] # NoEntry => <<n, Served(s)[n]>> \in issued
      BY <2>2, <2>3, <2>4 DEF Served
    <3>2. QED
      BY <2>1, <2>5, <2>6, <2>9, <3>1 DEF EntryStep, Known
  <2>10. \A x \in issued' : x[2].ts <= now'[x[2].dev]
    BY <1>2, <2>1, <2>2 DEF EntryStep, Provenance
  <2>11. QED
    BY <2>7, <2>8, <2>9, <2>10 DEF Provenance
<1>3. QED
  BY <1>1, <1>2, TypeCorrect, PTL DEF Spec

-----------------------------------------------------------------------------
(* Durability of acknowledged operations.                                  *)

(* One step, seen from registry.json: nothing happens to it, a process     *)
(* starts, or one running process moves to l and on the way leaves the     *)
(* file alone, truncates it or completes it.                               *)
FileStep(p, l) ==
    /\ Up(p) /\ Goto(p, l)
    /\ \/ pc[p] \notin Saving /\ l \notin Saving /\ disk' = disk /\ acked' = acked
       \/ pc[p] \notin Saving /\ l \in Saving /\ BeginSave(p) /\ acked' = acked
       \/ pc[p] \in Saving /\ l \notin Saving /\ EndSave(p) /\ acked' = acked
       \/ l \notin Saving /\ OpSaved(p)

(* When no process crashes inside a save, every step has that shape. *)
LEMMA FileStepHolds ==
    ASSUME TypeOK, [Next]_vars, CrashAt \cap Saving = {}
    PROVE  \/ UNCHANGED <<pc, disk, acked>>
           \/ \E p \in Proc : Start(p)
           \/ \E p \in Proc, l \in Points : FileStep(p, l)
<1> DEFINE Goal == \/ UNCHANGED <<pc, disk, acked>>
                   \/ \E p \in Proc : Start(p)
                   \/ \E p \in Proc, l \in Points : FileStep(p, l)
<1>1. ASSUME NEW d \in Device, Tick(d) PROVE Goal
  BY <1>1 DEF Tick
<1>2. ASSUME NEW p \in Proc, Crash(p) PROVE Goal
  BY <1>2 DEF Crash, Reset, FileStep, Points, Saving
<1>3. ASSUME NEW p \in Proc, Command(p) PROVE Goal
  <2>1. ASSUME NEW n \in Name, NEW c \in Content, PutChunks(p, n, c) PROVE FileStep(p, "put")
    BY <2>1 DEF PutChunks, FileStep, Up, Saving
  <2>2. CASE PutRegister(p)
    <3>1. FileStep(p, "opsave")
      BY <2>2 DEF PutRegister, Register, FileStep, Up, Saving
    <3>2. QED
      BY <3>1 DEF Points, Saving
  <2>3. ASSUME NEW n \in Name, Delete(p, n) PROVE FileStep(p, "opsave")
    BY <2>3 DEF Delete, Register, FileStep, Up, Saving
  <2>4. ASSUME NEW n \in Name, UnknownName(p, n) PROVE FileStep(p, "down")
    BY <2>4 DEF UnknownName, Reset, FileStep, Up, Saving
  <2>5. OpSaved(p) => FileStep(p, "exit")
    BY DEF OpSaved, FileStep, Up, Saving
  <2>6. ReadOnlyCommand(p) \/ GcSweep(p) => FileStep(p, "exit")
    BY DEF ReadOnlyCommand, GcSweep, FileStep, Up, Saving
  <2>7. GcMark(p) => FileStep(p, "gc")
    BY DEF GcMark, FileStep, Up, Saving
  <2>8. ASSUME NEW n \in Name, GetStart(p, n) PROVE FileStep(p, "get")
    BY <2>8 DEF GetStart, FileStep, Up, Saving
  <2>9. GetShard(p) => UNCHANGED <<pc, disk, acked>>
    BY DEF GetShard
  <2>10. GetDone(p) => FileStep(p, "exit") \/ FileStep(p, "down")
    BY DEF GetDone, Reset, FileStep, Up, Saving
  <2>11. {"put", "opsave", "down", "exit", "gc", "get"} \subseteq Points
    BY DEF Points, Saving, NotSaving
  <2>12. QED
    BY <1>3, <2>1, <2>2, <2>3, <2>4, <2>5, <2>6, <2>7, <2>8, <2>9, <2>10, <2>11 DEF Command
<1>4. ASSUME NEW p \in Proc, SyncCommand(p) PROVE Goal
  <2>1. SyncAll(p) \/ SyncNextPeer(p) => FileStep(p, "sync")
    BY DEF SyncAll, SyncNextPeer, ChunksDone, FileStep, Up, Saving
  <2>2. ASSUME NEW q \in Device, SyncFetch(p, q) PROVE FileStep(p, "synced")
    BY <2>2 DEF SyncFetch, FileStep, Up, Saving
  <2>3. ASSUME NEW q \in Device, SyncFails(p, q)
        PROVE  FileStep(p, "down") \/ UNCHANGED <<pc, disk, acked>>
    BY <2>3 DEF SyncFails, Reset, FileStep, Up, Saving
  <2>4. SyncMerge(p) => FileStep(p, "syncsave")
    BY DEF SyncMerge, FileStep, Up, Saving
  <2>5. SyncSaved(p) => FileStep(p, "syncchunks") \/ FileStep(p, "down")
    BY DEF SyncSaved, Reset, FileStep, Up, Saving
  <2>6. ASSUME NEW h \in Shard, SyncChunk(p, h) PROVE UNCHANGED <<pc, disk, acked>>
    BY <2>6 DEF SyncChunk, FetchChunk
  <2>7. SyncDone(p) => FileStep(p, "exit")
    BY DEF SyncDone, FileStep, Up, Saving
  <2>8. {"sync", "synced", "syncsave", "syncchunks", "down", "exit"} \subseteq Points
    BY DEF Points, Saving, NotSaving
  <2>9. QED
    BY <1>4, <2>1, <2>2, <2>3, <2>4, <2>5, <2>6, <2>7, <2>8 DEF SyncCommand
<1>5. ASSUME NEW p \in Proc, Background(p) PROVE Goal
  <2>1. BgLoad(p) \/ BgNextPeer(p) => FileStep(p, "bg")
    BY DEF BgLoad, BgNextPeer, ChunksDone, FileStep, Up, Saving
  <2>2. ASSUME NEW q \in Device, BgFetch(p, q)
        PROVE  FileStep(p, "bgreply") \/ UNCHANGED <<pc, disk, acked>>
    BY <2>2 DEF BgFetch, FileStep, Up, Saving
  <2>3. BgMerge(p) => FileStep(p, "bgsave") \/ FileStep(p, "bgchunks") \/ FileStep(p, "bgdead")
    BY DEF BgMerge, FileStep, Up, Saving
  <2>4. BgSaved(p) => FileStep(p, "bgchunks")
    BY DEF BgSaved, FileStep, Up, Saving
  <2>5. ASSUME NEW h \in Shard, BgChunk(p, h) PROVE UNCHANGED <<pc, disk, acked>>
    BY <2>5 DEF BgChunk, FetchChunk
  <2>6. BgRoundDone(p) => FileStep(p, "ready")
    BY DEF BgRoundDone, FileStep, Up, Saving
  <2>7. {"bg", "bgreply", "bgsave", "bgchunks", "bgdead", "ready"} \subseteq Points
    BY DEF Points, Saving, NotSaving
  <2>8. QED
    BY <1>5, <2>1, <2>2, <2>3, <2>4, <2>5, <2>6, <2>7 DEF Background
<1>6. ASSUME NEW p \in Proc, Shutdown(p) PROVE Goal
  <2>1. CtrlC(p) => FileStep(p, "stopsave")
    BY DEF CtrlC, FileStep, Up, Saving
  <2>2. StopSaved(p) => FileStep(p, "exit")
    BY DEF StopSaved, FileStep, Up, Saving
  <2>3. ExitSave(p) => FileStep(p, "exitsave")
    BY DEF ExitSave, FileStep, Up, Saving
  <2>4. Exit(p) => FileStep(p, "down")
    BY DEF Exit, Reset, FileStep, Up, Saving
  <2>5. {"stopsave", "exit", "exitsave", "down"} \subseteq Points
    BY DEF Points, Saving, NotSaving
  <2>6. QED
    BY <1>6, <2>1, <2>2, <2>3, <2>4, <2>5 DEF Shutdown
<1>7. QED
  BY <1>1, <1>2, <1>3, <1>4, <1>5, <1>6 DEF Next, vars

(* What p is about to acknowledge is in its memory, or something newer is. *)
OpHeld(p) == AtLeast(job[p].name, mem[p][job[p].name], job[p].entry)

(* A process enters the save of a put or delete holding the entry, and     *)
(* until that save ends nothing touches its memory or its work record.     *)
LEMMA OpStep ==
    ASSUME TypeOK, [Next]_vars, NEW x \in Proc, pc'[x] = "opsave"
    PROVE  \/ OpHeld(x)'
           \/ pc[x] = "opsave" /\ mem'[x] = mem[x] /\ job'[x] = job[x]
<1>a. /\ mem \in [Proc -> GSet] /\ Dir \in [Proc -> Device] /\ pc \in [Proc -> Points]
      /\ now \in [Device -> Time] /\ job \in [Proc -> Jobs]
  BY SyncNodeAssumption DEF TypeOK, Points, Jobs
<1> DEFINE Other(p) == /\ \A y \in Proc \ {p} : mem'[y] = mem[y] /\ job'[y] = job[y] /\ pc'[y] = pc[y]
                       /\ pc'[p] # "opsave"
           Kept == pc[x] = "opsave" /\ mem'[x] = mem[x] /\ job'[x] = job[x]
<1>b. ASSUME NEW p \in Proc, Other(p) PROVE Kept
  BY <1>b
<1>r. ASSUME NEW p \in Proc, Reset(p) PROVE Other(p)
  BY <1>a, <1>r DEF Reset, Goto
<1>c. ASSUME NEW p \in Proc, NEW m \in Name, NEW e \in FileEntry,
             mem' = [mem EXCEPT ![p] = lww_insert(@, m, e)],
             job' = [job EXCEPT ![p] = [name |-> m, entry |-> e]],
             Goto(p, "opsave")
      PROVE  OpHeld(x)' \/ Kept
  <2>1. CASE x = p
    <3>1. mem[p] \in GSet
      BY <1>a
    <3>2. AtLeast(m, lww_insert(mem[p], m, e)[m], e)
      BY <3>1, InsertFacts
    <3>3. job'[x].name = m /\ job'[x].entry = e /\ mem'[x] = lww_insert(mem[p], m, e)
      BY <1>a, <1>c, <2>1
    <3>4. QED
      BY <3>2, <3>3 DEF OpHeld
  <2>2. CASE x # p
    BY <1>a, <1>c, <2>2 DEF Goto
  <2>3. QED
    BY <2>1, <2>2
<1>1. ASSUME NEW d \in Device, Tick(d) PROVE Kept
  BY <1>1 DEF Tick
<1>2. ASSUME NEW p \in Proc, Start(p) \/ Crash(p) PROVE Kept
  BY <1>2, <1>a, <1>b, <1>r DEF Start, Crash, Goto
<1>3. ASSUME NEW p \in Proc, Command(p) PROVE OpHeld(x)' \/ Kept
  <2>1. ASSUME NEW n \in Name, NEW c \in Content, PutChunks(p, n, c) PROVE Other(p)
    BY <2>1, <1>a DEF PutChunks, Goto
  <2>2. CASE PutRegister(p)
    <3>1. job[p] \in WriteJob
      BY <2>2 DEF PutRegister, TypeOK, JobOK
    <3>2. job[p].name \in Name /\ NewEntry(p, job[p].content, FALSE) \in FileEntry
      BY <3>1, <1>a DEF WriteJob, FileEntry, NewEntry
    <3>3. QED
      BY <2>2, <1>c, <3>2 DEF PutRegister, Register
  <2>3. ASSUME NEW n \in Name, Delete(p, n) PROVE OpHeld(x)' \/ Kept
    <3>1. mem[p][n] \in FileEntry
      BY <2>3, <1>a DEF Delete, Live, Held, GSet
    <3>2. NewEntry(p, mem[p][n].content, TRUE) \in FileEntry
      BY <3>1, <1>a DEF FileEntry, NewEntry
    <3>3. QED
      BY <2>3, <1>c, <3>2 DEF Delete, Register
  <2>4. ASSUME NEW n \in Name, UnknownName(p, n) \/ GetStart(p, n) PROVE Other(p)
    BY <2>4, <1>a, <1>r DEF UnknownName, GetStart, Goto
  <2>5. OpSaved(p) \/ ReadOnlyCommand(p) \/ GcMark(p) \/ GcSweep(p) => Other(p)
    BY <1>a DEF OpSaved, ReadOnlyCommand, GcMark, GcSweep, Goto
  <2>6. GetShard(p) \/ GetDone(p) => Other(p)
    BY <1>a, <1>r DEF GetShard, GetDone, Goto
  <2>7. QED
    BY <1>3, <1>b, <2>1, <2>2, <2>3, <2>4, <2>5, <2>6 DEF Command
<1>4. ASSUME NEW p \in Proc, SyncCommand(p) PROVE Kept
  <2>1. SyncAll(p) \/ SyncNextPeer(p) \/ SyncDone(p) => Other(p)
    BY <1>a DEF SyncAll, SyncNextPeer, SyncDone, ChunksDone, Goto
  <2>2. ASSUME NEW q \in Device, SyncFetch(p, q) \/ SyncFails(p, q) PROVE Other(p)
    BY <2>2, <1>a, <1>r DEF SyncFetch, SyncFails, Goto
  <2>3. SyncMerge(p) \/ SyncSaved(p) => Other(p)
    BY <1>a, <1>r DEF SyncMerge, SyncSaved, Goto
  <2>4. ASSUME NEW h \in Shard, SyncChunk(p, h) PROVE Other(p)
    BY <2>4, <1>a DEF SyncChunk, FetchChunk
  <2>5. QED
    BY <1>4, <1>b, <2>1, <2>2, <2>3, <2>4 DEF SyncCommand
<1>5. ASSUME NEW p \in Proc, Background(p) PROVE Kept
  <2>1. BgLoad(p) \/ BgNextPeer(p) \/ BgSaved(p) \/ BgRoundDone(p) => Other(p)
    BY <1>a DEF BgLoad, BgNextPeer, ChunksDone, BgSaved, BgRoundDone, Goto
  <2>2. ASSUME NEW q \in Device, BgFetch(p, q) PROVE Other(p)
    BY <2>2, <1>a DEF BgFetch, Goto
  <2>3. BgMerge(p) => Other(p)
    BY <1>a DEF BgMerge, Goto
  <2>4. ASSUME NEW h \in Shard, BgChunk(p, h) PROVE Other(p)
    BY <2>4, <1>a DEF BgChunk, FetchChunk
  <2>5. QED
    BY <1>5, <1>b, <2>1, <2>2, <2>3, <2>4 DEF Background
<1>6. ASSUME NEW p \in Proc, Shutdown(p) PROVE Kept
  <2>1. Other(p)
    BY <1>6, <1>a, <1>r DEF Shutdown, CtrlC, StopSaved, ExitSave, Exit, Goto
  <2>2. QED
    BY <1>b, <2>1
<1>7. QED
  BY <1>1, <1>2, <1>3, <1>4, <1>5, <1>6 DEF Next, vars

(* For every entry of A, the registry r holds it, its twin or one that     *)
(* beats it.                                                               *)
Covers(r, A) == \A x \in A : AtLeast(x[1], r[x[1]], x[2])

(* The strengthening: one process per directory; a truncated file belongs  *)
(* to a save in progress; what registry.json and a running process's       *)
(* memory hold covers everything the device acknowledged, and memory what  *)
(* the process is about to acknowledge.                                    *)
AckInv ==
    /\ \A d \in Device : disk[d] # Torn => Covers(Loaded(d), acked[d])
    /\ \A p, q \in Proc : Up(p) /\ Up(q) /\ Dir[p] = Dir[q] => p = q
    /\ \A d \in Device : disk[d] = Torn => \E p \in Proc : Dir[p] = d /\ pc[p] \in Saving
    /\ \A p \in Proc : Up(p) => Covers(mem[p], acked[Dir[p]])
    /\ \A p \in Proc : pc[p] = "opsave" => OpHeld(p)

(* Each step keeps AckInv when directories are not shared and no process   *)
(* crashes inside a save.                                                  *)
LEMMA AckStep ==
    ASSUME TypeOK, TypeOK', AckInv, [Next]_vars, Overlap = FALSE, CrashAt \cap Saving = {}
    PROVE  AckInv'
<1>a. /\ mem \in [Proc -> GSet] /\ Dir \in [Proc -> Device] /\ pc \in [Proc -> Points]
      /\ disk \in [Device -> GSet \cup {NoFile, Torn}]
      /\ acked \in [Device -> SUBSET (Name \X FileEntry)]
      /\ mem' \in [Proc -> GSet] /\ pc' \in [Proc -> Points]
  BY SyncNodeAssumption DEF TypeOK, Points
<1>b. "down" \notin Saving /\ "opsave" \in Saving
  BY DEF Saving
<1>1. \A p \in Proc : pc'[p] = "opsave" => OpHeld(p)'
  <2>1. \A p \in Proc : mem'[p] = mem[p] /\ job'[p] = job[p] => (OpHeld(p)' <=> OpHeld(p))
    BY DEF OpHeld
  <2>2. QED
    BY <2>1, OpStep DEF AckInv
<1>2. ASSUME NEW p \in Proc, Up(p), pc'[p] # "down", acked'[Dir[p]] = acked[Dir[p]]
      PROVE  Covers(mem'[p], acked'[Dir[p]])
  <2> SUFFICES ASSUME NEW x \in acked[Dir[p]] PROVE AtLeast(x[1], mem'[p][x[1]], x[2])
    BY <1>2 DEF Covers
  <2>1. AtLeast(x[1], mem[p][x[1]], x[2])
    BY <1>2 DEF AckInv, Covers
  <2>2. x \in Name \X FileEntry
    BY <1>a
  <2>3. /\ x[1] \in Name /\ x[2] \in MaybeEntry
        /\ mem'[p][x[1]] \in MaybeEntry /\ mem[p][x[1]] \in MaybeEntry
    BY <1>a, <2>2 DEF GSet, MaybeEntry
  <2>4. AtLeast(x[1], mem'[p][x[1]], mem[p][x[1]])
    BY <1>2, <2>3, MemStep, SupersedesFacts
  <2>5. QED
    BY <2>1, <2>3, <2>4, AtLeastOrder
<1>3. CASE UNCHANGED <<pc, disk, acked>>
  <2>1. \A d \in Device : disk'[d] # Torn => Covers(Loaded(d)', acked'[d])
    BY <1>3 DEF AckInv, Loaded
  <2>2. QED
    BY <1>1, <1>2, <1>3, <2>1 DEF AckInv, Up
<1>4. ASSUME NEW p \in Proc, Start(p)
      PROVE  AckInv'
  <2>1. /\ disk[Dir[p]] # Torn
        /\ \A q \in Proc : Dir[q] = Dir[p] => ~ Up(q)
    BY <1>4, <1>a, <1>b DEF Start, Unreachable, AckInv, Up
  <2>2. /\ disk' = disk /\ acked' = acked
        /\ mem'[p] = Loaded(Dir[p])
        /\ \A q \in Proc \ {p} : pc'[q] = pc[q]
        /\ pc'[p] = "ready"
    BY <1>a, <1>4 DEF Start, Goto
  <2>3. \A d \in Device : disk'[d] # Torn => Covers(Loaded(d)', acked'[d])
    BY <2>2 DEF AckInv, Loaded
  <2>4. Covers(mem'[p], acked'[Dir[p]])
    BY <2>1, <2>2, <1>a DEF AckInv
  <2>5. \A q \in Proc : Up(q)' => Covers(mem'[q], acked'[Dir[q]])
    BY <2>2, <2>4, <1>2 DEF Up
  <2>6. \A q, r \in Proc : Up(q)' /\ Up(r)' /\ Dir[q] = Dir[r] => q = r
    BY <2>1, <2>2 DEF AckInv, Up
  <2>7. \A d \in Device : disk'[d] = Torn => \E q \in Proc : Dir[q] = d /\ pc'[q] \in Saving
    BY <2>2, <1>4, <1>b DEF AckInv, Start, Up
  <2>8. QED
    BY <1>1, <2>3, <2>5, <2>6, <2>7 DEF AckInv
<1>5. ASSUME NEW p \in Proc, NEW l \in Points, FileStep(p, l)
      PROVE  AckInv'
  <2>1. /\ \A q \in Proc \ {p} : pc'[q] = pc[q]
        /\ pc'[p] = l /\ Up(p)
    BY <1>a, <1>5 DEF FileStep, Goto
  <2>2. \A q, r \in Proc : Up(q)' /\ Up(r)' /\ Dir[q] = Dir[r] => q = r
    BY <2>1 DEF AckInv, Up
  <2>3. \A q \in Proc \ {p} : Dir[q] = Dir[p] => ~ Up(q) /\ ~ Up(q)'
    BY <2>1 DEF AckInv, Up
  <2>4. /\ \A d \in Device \ {Dir[p]} : disk'[d] = disk[d] /\ acked'[d] = acked[d]
        /\ \/ disk'[Dir[p]] = disk[Dir[p]] /\ pc[p] \notin Saving /\ acked'[Dir[p]] = acked[Dir[p]]
           \/ disk'[Dir[p]] = Torn /\ l \in Saving /\ acked'[Dir[p]] = acked[Dir[p]]
           \/ disk'[Dir[p]] = mem[p] /\ acked'[Dir[p]] = acked[Dir[p]]
           \/ OpSaved(p) /\ disk'[Dir[p]] = mem[p]
    BY <1>a, <1>5 DEF FileStep, BeginSave, EndSave, OpSaved
  <2>5. mem[p] # Torn
    BY <1>a, SyncNodeAssumption
  <2>6. \A d \in Device : disk'[d] = Torn => \E q \in Proc : Dir[q] = d /\ pc'[q] \in Saving
    BY <2>1, <2>4, <2>5, <1>a DEF AckInv
  <2>7. /\ Covers(mem[p], acked'[Dir[p]])
        /\ pc'[p] # "down" => Covers(mem'[p], acked'[Dir[p]])
    <3>1. CASE acked'[Dir[p]] = acked[Dir[p]]
      BY <2>1, <1>2, <3>1 DEF AckInv
    <3>2. CASE OpSaved(p)
      <4>1. OpHeld(p)
        BY <3>2 DEF OpSaved, AckInv
      <4>2. acked'[Dir[p]] = acked[Dir[p]] \cup {<<job[p].name, job[p].entry>>} /\ mem' = mem
        BY <3>2, <1>a DEF OpSaved
      <4>3. Covers(mem[p], acked[Dir[p]])
        BY <2>1 DEF AckInv
      <4>4. QED
        BY <4>1, <4>2, <4>3 DEF OpHeld, Covers
    <3>3. QED
      BY <2>4, <3>1, <3>2
  <2>8. \A q \in Proc : Up(q)' => Covers(mem'[q], acked'[Dir[q]])
    <3>1. ASSUME NEW q \in Proc, Up(q)', q # p
          PROVE  Covers(mem'[q], acked'[Dir[q]])
      <4>1. Up(q) /\ pc'[q] # "down" /\ Dir[q] # Dir[p] /\ Dir[q] \in Device
        BY <2>1, <2>3, <3>1, <1>a DEF Up
      <4>2. QED
        BY <4>1, <2>4, <1>2
    <3>2. Up(p)' => Covers(mem'[p], acked'[Dir[p]])
      BY <2>7 DEF Up
    <3>3. QED
      BY <3>1, <3>2
  <2>9. \A d \in Device : disk'[d] # Torn => Covers(Loaded(d)', acked'[d])
    <3> SUFFICES ASSUME NEW d \in Device, disk'[d] # Torn
                 PROVE  Covers(Loaded(d)', acked'[d])
      OBVIOUS
    <3>1. CASE disk'[d] = disk[d] /\ acked'[d] = acked[d]
      BY <3>1 DEF AckInv, Loaded
    <3>2. CASE d = Dir[p] /\ disk'[d] = mem[p]
      <4>1. Loaded(d)' = mem[p]
        BY <3>2, <1>a, SyncNodeAssumption DEF Loaded
      <4>2. QED
        BY <3>2, <4>1, <2>7
    <3>3. QED
      BY <2>4, <3>1, <3>2
  <2>10. QED
    BY <1>1, <2>2, <2>6, <2>8, <2>9 DEF AckInv
<1>6. QED
  BY <1>3, <1>4, <1>5, FileStepHolds

(* AckInv holds throughout. *)
LEMMA AckInvHolds ==
    ASSUME Overlap = FALSE, CrashAt \cap Saving = {}
    PROVE  Spec => []AckInv
<1>1. Init => AckInv
  <2> SUFFICES ASSUME Init PROVE AckInv
    OBVIOUS
  <2>1. \A d \in Device : acked[d] = {}
    BY DEF Init
  <2>2. /\ \A p \in Proc : pc[p] = "down"
        /\ \A d \in Device : disk[d] # Torn
    BY SyncNodeAssumption DEF Init
  <2>3. \A d \in Device : Covers(Loaded(d), acked[d])
    BY <2>1 DEF Covers
  <2>4. QED
    BY <2>2, <2>3 DEF AckInv, Up
<1>2. TypeOK /\ TypeOK' /\ AckInv /\ [Next]_vars => AckInv'
  BY AckStep
<1>3. QED
  BY <1>1, <1>2, TypeCorrect, PTL DEF Spec

(* Of two entries of a name neither of which beats the other, one is the   *)
(* other or its twin: the hash covers all the fields but the flag.         *)
LEMMA TiedTwins ==
    ASSUME NEW n \in Name, NEW e \in FileEntry, NEW f \in FileEntry,
           ~ Beats(n, e, f), ~ Beats(n, f, e)
    PROVE  e = f \/ e = Twin(f)
<1>1. /\ e = [content |-> e.content, ts |-> e.ts, dev |-> e.dev, deleted |-> e.deleted]
      /\ f = [content |-> f.content, ts |-> f.ts, dev |-> f.dev, deleted |-> f.deleted]
      /\ e.content \in Content /\ e.ts \in Time /\ e.dev \in Device /\ e.deleted \in BOOLEAN
      /\ f.content \in Content /\ f.ts \in Time /\ f.dev \in Device /\ f.deleted \in BOOLEAN
  BY DEF FileEntry
<1>2. /\ compute_hash(n, e) \in Nat /\ compute_hash(n, f) \in Nat
      /\ e.ts \in Int /\ f.ts \in Int
  BY <1>1, RegistryAssumption DEF compute_hash, Time
<1>3. e.ts = f.ts /\ compute_hash(n, e) = compute_hash(n, f)
  BY <1>2 DEF Beats
<1>4. e.content = f.content /\ e.dev = f.dev
  BY <1>1, <1>3, HashAssumption DEF compute_hash
<1>5. e.deleted = f.deleted \/ e.deleted = ~ f.deleted
  BY <1>1, Zenon
<1>6. Twin(f) = [content |-> f.content, ts |-> f.ts, dev |-> f.dev, deleted |-> ~ f.deleted]
  BY <1>1 DEF Twin
<1>7. CASE e.deleted = f.deleted
  BY <1>1, <1>3, <1>4, <1>7
<1>8. CASE e.deleted = ~ f.deleted
  BY <1>1, <1>3, <1>4, <1>6, <1>8, Zenon
<1>9. QED
  BY <1>5, <1>7, <1>8

(* With one process at a time on a data directory, and crashes anywhere    *)
(* but inside a write of registry.json, what a put or delete has reported  *)
(* is in registry.json, or an entry that beats it is, or its twin of the   *)
(* same millisecond.  Both hypotheses are needed: the run SyncTorn crashes *)
(* inside a write, and of two processes that overlap the one that saves    *)
(* last overwrites what the other saved.                                   *)
THEOREM AckDurableHolds ==
    ASSUME Overlap = FALSE, CrashAt \cap Saving = {}
    PROVE  Spec => []AckDurable
<1>1. TypeOK /\ AckInv => AckDurable
  <2> SUFFICES ASSUME TypeOK, AckInv, NEW d \in Device, disk[d] # Torn, NEW x \in acked[d]
               PROVE  /\ Loaded(d)[x[1]] # NoEntry
                      /\ \/ Loaded(d)[x[1]] = x[2] \/ Loaded(d)[x[1]] = Twin(x[2])
                         \/ Beats(x[1], Loaded(d)[x[1]], x[2])
    BY DEF AckDurable
  <2>1. x \in Name \X FileEntry /\ Loaded(d) \in GSet
    BY RegistryAssumption DEF TypeOK, Loaded, GSet, Empty
  <2>2. x[1] \in Name /\ x[2] \in FileEntry /\ x[2] # NoEntry /\ Loaded(d)[x[1]] \in MaybeEntry
    BY <2>1, RegistryAssumption DEF GSet, MaybeEntry
  <2>3. AtLeast(x[1], Loaded(d)[x[1]], x[2])
    BY DEF AckInv, Covers
  <2>4. Loaded(d)[x[1]] # NoEntry /\ ~ Beats(x[1], x[2], Loaded(d)[x[1]])
    BY <2>2, <2>3 DEF AtLeast
  <2>5. QED
    BY <2>2, <2>4, TiedTwins DEF MaybeEntry
<1>2. QED
  BY <1>1, AckInvHolds, TypeCorrect, PTL

-----------------------------------------------------------------------------
(* Chunks.                                                                 *)

(* The points of the sync task. *)
BgPoints == {"bg", "bgreply", "bgsave", "bgchunks", "bgdead"}

(* x keeps its point, its memory and its work record. *)
Stays(x) == pc'[x] = pc[x] /\ mem'[x] = mem[x] /\ job'[x] = job[x]

(* How a process comes to be in the sync task, ready, or between the two   *)
(* halves of a put or a gc, and how it leaves the save of a put or delete. *)
LEMMA PointStep ==
    ASSUME TypeOK, [Next]_vars, NEW x \in Proc
    PROVE  /\ pc'[x] \in BgPoints => pc[x] \in BgPoints \/ x \in Daemon
           /\ pc'[x] = "ready" => Start(x) \/ pc[x] \in BgPoints \/ Stays(x)
           /\ pc'[x] = "gc" => GcMark(x) \/ Stays(x)
           /\ pc'[x] = "put" => Stays(x) \/ \E n \in Name, c \in Content : PutChunks(x, n, c)
           /\ pc[x] = "opsave" => OpSaved(x) \/ Crash(x) \/ Stays(x)
<1>a. mem \in [Proc -> GSet] /\ pc \in [Proc -> Points] /\ job \in [Proc -> Jobs]
  BY DEF TypeOK, Points, Jobs
<1> DEFINE Goal == /\ pc'[x] \in BgPoints => pc[x] \in BgPoints \/ x \in Daemon
                   /\ pc'[x] = "ready" => Start(x) \/ pc[x] \in BgPoints \/ Stays(x)
                   /\ pc'[x] = "gc" => GcMark(x) \/ Stays(x)
                   /\ pc'[x] = "put" => Stays(x) \/ \E n \in Name, c \in Content : PutChunks(x, n, c)
                   /\ pc[x] = "opsave" => OpSaved(x) \/ Crash(x) \/ Stays(x)
           Rest(p) == \A y \in Proc \ {p} : Stays(y)
           Away(p) == Rest(p) /\ pc'[p] \notin BgPoints \cup {"ready", "gc", "put"}
           Other(p) == Away(p) /\ pc[p] # "opsave"
           Task(p) == /\ Rest(p) /\ pc[p] # "opsave" /\ (pc[p] \in BgPoints \/ p \in Daemon)
                      /\ pc'[p] \in BgPoints
<1>b. ASSUME NEW p \in Proc, Other(p) \/ Task(p) PROVE Goal
  BY <1>b DEF BgPoints, Stays
<1>r. ASSUME NEW p \in Proc, Reset(p) PROVE Away(p)
  BY <1>a, <1>r DEF Reset, Goto, BgPoints, Stays
<1>0. CASE UNCHANGED vars
  BY <1>0 DEF vars, Stays, BgPoints
<1>1. ASSUME NEW d \in Device, Tick(d) PROVE Goal
  BY <1>1 DEF Tick, Stays, BgPoints
<1>2. ASSUME NEW p \in Proc, Start(p) PROVE Goal
  BY <1>2, <1>a DEF Start, Up, Goto, Stays, BgPoints
<1>3. ASSUME NEW p \in Proc, Crash(p) PROVE Goal
  <2>1. Away(p)
    BY <1>3, <1>r DEF Crash
  <2>2. QED
    BY <1>3, <2>1 DEF BgPoints, Stays
<1>4. ASSUME NEW p \in Proc, Command(p) PROVE Goal
  <2>1. ASSUME NEW n \in Name, NEW c \in Content, PutChunks(p, n, c) PROVE Goal
    BY <2>1, <1>a DEF PutChunks, Goto, Stays, BgPoints
  <2>2. PutRegister(p) => Other(p)
    BY <1>a DEF PutRegister, Register, Goto, Stays, BgPoints
  <2>3. ASSUME NEW n \in Name, Delete(p, n) PROVE Other(p)
    BY <2>3, <1>a DEF Delete, Register, Goto, Stays, BgPoints
  <2>4. ASSUME NEW n \in Name, UnknownName(p, n) \/ GetStart(p, n) PROVE Other(p)
    BY <2>4, <1>a, <1>r DEF UnknownName, GetStart, Goto, Stays, BgPoints
  <2>5. ReadOnlyCommand(p) \/ GcSweep(p) => Other(p)
    BY <1>a DEF ReadOnlyCommand, GcSweep, Goto, Stays, BgPoints
  <2>6. GetShard(p) \/ GetDone(p) => Other(p)
    BY <1>a, <1>r DEF GetShard, GetDone, Goto, Stays, BgPoints
  <2>7. GcMark(p) => Goal
    BY <1>a DEF GcMark, Goto, Stays, BgPoints
  <2>8. OpSaved(p) => Goal
    BY <1>a DEF OpSaved, Goto, Stays, BgPoints
  <2>9. QED
    BY <1>4, <1>b, <2>1, <2>2, <2>3, <2>4, <2>5, <2>6, <2>7, <2>8 DEF Command
<1>5. ASSUME NEW p \in Proc, SyncCommand(p) PROVE Goal
  <2>1. SyncAll(p) \/ SyncNextPeer(p) \/ SyncDone(p) => Other(p)
    BY <1>a DEF SyncAll, SyncNextPeer, SyncDone, ChunksDone, Goto, Stays, BgPoints
  <2>2. ASSUME NEW q \in Device, SyncFetch(p, q) \/ SyncFails(p, q) PROVE Other(p)
    BY <2>2, <1>a, <1>r DEF SyncFetch, SyncFails, Goto, Stays, BgPoints
  <2>3. SyncMerge(p) \/ SyncSaved(p) => Other(p)
    BY <1>a, <1>r DEF SyncMerge, SyncSaved, Goto, Stays, BgPoints
  <2>4. ASSUME NEW h \in Shard, SyncChunk(p, h) PROVE Other(p)
    BY <2>4, <1>a DEF SyncChunk, FetchChunk, Stays, BgPoints
  <2>5. QED
    BY <1>5, <1>b, <2>1, <2>2, <2>3, <2>4 DEF SyncCommand
<1>6. ASSUME NEW p \in Proc, Background(p) PROVE Goal
  <2>1. BgLoad(p) \/ BgNextPeer(p) \/ BgSaved(p) \/ BgMerge(p) => Task(p)
    BY <1>a DEF BgLoad, BgNextPeer, ChunksDone, BgSaved, BgMerge, Goto, Stays, BgPoints
  <2>2. ASSUME NEW q \in Device, BgFetch(p, q) PROVE Task(p)
    BY <2>2, <1>a DEF BgFetch, Goto, Stays, BgPoints
  <2>3. BgRoundDone(p) => Goal
    BY <1>a DEF BgRoundDone, Goto, Stays, BgPoints
  <2>4. ASSUME NEW h \in Shard, BgChunk(p, h) PROVE Task(p)
    BY <2>4, <1>a DEF BgChunk, FetchChunk, Stays, BgPoints
  <2>5. QED
    BY <1>6, <1>b, <2>1, <2>2, <2>3, <2>4 DEF Background
<1>7. ASSUME NEW p \in Proc, Shutdown(p) PROVE Goal
  <2>1. Other(p)
    BY <1>7, <1>a, <1>r DEF Shutdown, CtrlC, StopSaved, ExitSave, Exit, Goto, Stays, BgPoints
  <2>2. QED
    BY <1>b, <2>1
<1>8. QED
  BY <1>0, <1>1, <1>2, <1>3, <1>4, <1>5, <1>6, <1>7 DEF Next

(* Only the sweep of a gc removes chunks, and only of its own device. *)
LEMMA ChunksStep ==
    ASSUME TypeOK, [Next]_vars, NEW d \in Device
    PROVE  \/ chunks[d] \subseteq chunks'[d]
           \/ \E p \in Proc : GcSweep(p) /\ Dir[p] = d
<1>a. chunks \in [Device -> SUBSET Shard] /\ Dir \in [Proc -> Device]
  BY SyncNodeAssumption DEF TypeOK
<1>0. CASE UNCHANGED chunks
  BY <1>0
<1>1. ASSUME NEW p \in Proc, NEW X, chunks' = [chunks EXCEPT ![Dir[p]] = @ \cup X]
      PROVE  chunks[d] \subseteq chunks'[d]
  BY <1>1, <1>a
<1>2. ASSUME NEW p \in Proc, Command(p)
      PROVE  chunks[d] \subseteq chunks'[d] \/ (GcSweep(p) /\ Dir[p] = d)
  <2>1. ASSUME NEW n \in Name, NEW c \in Content, PutChunks(p, n, c)
        PROVE  chunks[d] \subseteq chunks'[d]
    BY <2>1, <1>1 DEF PutChunks
  <2>2. CASE GetShard(p)
    BY <2>2, <1>0, <1>1 DEF GetShard
  <2>3. CASE GcSweep(p)
    BY <2>3, <1>a DEF GcSweep
  <2>4. ASSUME NEW n \in Name, Delete(p, n) \/ UnknownName(p, n) \/ GetStart(p, n)
        PROVE  UNCHANGED chunks
    BY <2>4 DEF Delete, Register, UnknownName, GetStart
  <2>5. PutRegister(p) \/ OpSaved(p) \/ ReadOnlyCommand(p) \/ GcMark(p) \/ GetDone(p)
          => UNCHANGED chunks
    BY DEF PutRegister, Register, OpSaved, ReadOnlyCommand, GcMark, GetDone
  <2>6. QED
    BY <1>2, <2>1, <2>2, <2>3, <2>4, <2>5 DEF Command
<1>3. ASSUME NEW p \in Proc, NEW h \in Shard, SyncChunk(p, h) \/ BgChunk(p, h)
      PROVE  chunks[d] \subseteq chunks'[d]
  BY <1>3, <1>0, <1>1 DEF SyncChunk, BgChunk, FetchChunk
<1>4. ASSUME NEW p \in Proc, NEW q \in Device, SyncFetch(p, q) \/ SyncFails(p, q) \/ BgFetch(p, q)
      PROVE  UNCHANGED chunks
  BY <1>4 DEF SyncFetch, SyncFails, BgFetch
<1>5. ASSUME NEW p \in Proc,
             \/ SyncAll(p) \/ SyncMerge(p) \/ SyncSaved(p) \/ SyncNextPeer(p) \/ SyncDone(p)
             \/ BgLoad(p) \/ BgMerge(p) \/ BgSaved(p) \/ BgNextPeer(p) \/ BgRoundDone(p)
             \/ Start(p) \/ Crash(p) \/ Shutdown(p)
      PROVE  UNCHANGED chunks
  BY <1>5 DEF SyncAll, SyncMerge, SyncSaved, SyncNextPeer, SyncDone, ChunksDone, BgLoad, BgMerge,
              BgSaved, BgNextPeer, BgRoundDone, Start, Crash, Shutdown, CtrlC, StopSaved, ExitSave, Exit
<1>6. ASSUME NEW e \in Device, Tick(e) PROVE UNCHANGED chunks
  BY <1>6 DEF Tick
<1>7. QED
  BY <1>0, <1>2, <1>3, <1>4, <1>5, <1>6 DEF Next, vars, SyncCommand, Background

(* A command that has done nothing yet holds registry.json, and a gc       *)
(* between its two halves the live set of what it holds.                   *)
GcInv ==
    /\ \A p \in Proc : pc[p] \in BgPoints => p \in Daemon
    /\ \A p \in Proc : pc[p] = "gc" => p \in Cli /\ job[p].live = live_shard_hashes(p)
    /\ \A p \in Cli : pc[p] \in {"ready", "gc"} => mem[p] = Loaded(Dir[p])

(* Each step keeps GcInv, under the hypotheses of AckStep. *)
LEMMA GcInvStep ==
    ASSUME TypeOK, AckInv, GcInv, [Next]_vars, Overlap = FALSE, CrashAt \cap Saving = {}
    PROVE  GcInv'
<1>a. /\ pc \in [Proc -> Points] /\ disk \in [Device -> GSet \cup {NoFile, Torn}]
      /\ Dir \in [Proc -> Device] /\ job \in [Proc -> Jobs] /\ mem \in [Proc -> GSet]
      /\ Cli \subseteq Proc /\ Daemon \cap Cli = {}
  BY SyncNodeAssumption DEF TypeOK, Points, Jobs, Proc
<1>1. \A p \in Proc : pc'[p] \in BgPoints => p \in Daemon
  BY PointStep DEF GcInv
<1>2. ASSUME NEW p \in Proc, pc'[p] = "gc"
      PROVE  p \in Cli /\ job'[p].live = live_shard_hashes(p)'
  <2>1. CASE GcMark(p)
    <3>1. job'[p] = [live |-> live_shard_hashes(p)] /\ mem' = mem /\ p \in Cli
      BY <2>1, <1>a DEF GcMark
    <3>2. QED
      BY <3>1 DEF live_shard_hashes
  <2>2. CASE Stays(p)
    BY <1>2, <2>2 DEF Stays, GcInv, live_shard_hashes
  <2>3. QED
    BY <1>2, <2>1, <2>2, PointStep
<1>3. ASSUME NEW p \in Cli, pc'[p] \in {"ready", "gc"}
      PROVE  mem'[p] = Loaded(Dir[p])'
  <2>1. CASE Start(p)
    BY <1>a, <2>1 DEF Start, Loaded
  <2>2. CASE ~ Start(p)
    <3>1. pc[p] \in {"ready", "gc"} /\ mem'[p] = mem[p]
      <4>1. pc[p] \notin BgPoints
        BY <1>a DEF GcInv
      <4>2. GcMark(p) => pc[p] = "ready" /\ mem' = mem
        BY DEF GcMark
      <4>3. QED
        BY <1>3, <1>a, <2>2, <4>1, <4>2, PointStep DEF Stays
    <3>2. mem[p] = Loaded(Dir[p])
      BY <3>1 DEF GcInv
    <3>3. disk'[Dir[p]] = disk[Dir[p]]
      <4>1. ASSUME NEW q \in Proc, Start(q) PROVE disk' = disk
        BY <4>1 DEF Start
      <4>2. ASSUME NEW q \in Proc, NEW l \in Points, FileStep(q, l)
            PROVE  disk'[Dir[p]] = disk[Dir[p]]
        <5>1. CASE q = p
          <6>1. pc[p] \notin Saving /\ pc'[p] \notin Saving /\ pc'[p] = l
            BY <1>3, <1>a, <3>1, <4>2, <5>1 DEF Saving, FileStep, Goto
          <6>2. QED
            BY <4>2, <5>1, <6>1 DEF FileStep, OpSaved, Saving
        <5>2. CASE q # p
          <6>1. Dir[q] # Dir[p]
            BY <1>a, <3>1, <4>2, <5>2 DEF FileStep, AckInv, Up
          <6>2. QED
            BY <1>a, <4>2, <6>1 DEF FileStep, OpSaved, BeginSave, EndSave
        <5>3. QED
          BY <5>1, <5>2
      <4>3. QED
        BY <4>1, <4>2, FileStepHolds
    <3>4. QED
      BY <3>1, <3>2, <3>3 DEF Loaded
  <2>3. QED
    BY <2>1, <2>2
<1>4. QED
  BY <1>1, <1>2, <1>3 DEF GcInv

(* GcInv holds throughout. *)
LEMMA GcInvHolds ==
    ASSUME Overlap = FALSE, CrashAt \cap Saving = {}
    PROVE  Spec => []GcInv
<1>1. Init => GcInv
  BY SyncNodeAssumption DEF Init, GcInv, BgPoints, Proc
<1>2. TypeOK /\ AckInv /\ GcInv /\ [Next]_vars => GcInv'
  BY GcInvStep
<1>3. QED
  BY <1>1, <1>2, TypeCorrect, AckInvHolds, PTL DEF Spec

(* The sweep of a gc takes nothing that is live. *)
LEMMA SweepStep ==
    ASSUME TypeOK, AckInv, GcInv, NEW p \in Proc, GcSweep(p)
    PROVE  /\ chunks[Dir[p]] \cap ShardsOf(LiveContents(mem[p])) \subseteq chunks'[Dir[p]]
           /\ Loaded(Dir[p]) = mem[p]
           /\ \A q \in Proc : Up(q) /\ Dir[q] = Dir[p] => q = p
<1>1. Dir[p] \in Device /\ chunks \in [Device -> SUBSET Shard]
  BY SyncNodeAssumption DEF TypeOK
<1>2. /\ p \in Cli /\ pc[p] = "gc"
      /\ job[p].live = ShardsOf(LiveContents(mem[p]))
  BY DEF GcSweep, GcInv, live_shard_hashes
<1>3. chunks'[Dir[p]] = chunks[Dir[p]] \cap job[p].live
  BY <1>1 DEF GcSweep
<1>4. QED
  BY <1>2, <1>3 DEF GcInv, AckInv, Up

(* With one process at a time on a data directory, and crashes anywhere    *)
(* but inside a write of registry.json, no step takes away a shard of a    *)
(* file that registry.json or a running process lists as live, although gc *)
(* drops its lock between computing the live set and sweeping.             *)
THEOREM GcOnlyOrphansHolds ==
    ASSUME Overlap = FALSE, CrashAt \cap Saving = {}
    PROVE  Spec => GcOnlyOrphans
<1> DEFINE Step ==
      \A d \in Device :
          LET gone == chunks[d] \ chunks'[d]
          IN  /\ \A p \in Proc : Up(p) /\ Dir[p] = d =>
                    gone \cap ShardsOf(LiveContents(mem[p])) = {}
              /\ gone \cap ShardsOf(LiveContents(Loaded(d))) = {}
<1>1. ASSUME TypeOK, AckInv, GcInv, [Next]_vars PROVE Step
  <2> SUFFICES ASSUME NEW d \in Device
               PROVE  /\ \A p \in Proc : Up(p) /\ Dir[p] = d =>
                            (chunks[d] \ chunks'[d]) \cap ShardsOf(LiveContents(mem[p])) = {}
                      /\ (chunks[d] \ chunks'[d]) \cap ShardsOf(LiveContents(Loaded(d))) = {}
    OBVIOUS
  <2>1. CASE chunks[d] \subseteq chunks'[d]
    BY <2>1
  <2>2. ASSUME NEW q \in Proc, GcSweep(q), Dir[q] = d
        PROVE  /\ \A p \in Proc : Up(p) /\ Dir[p] = d =>
                     (chunks[d] \ chunks'[d]) \cap ShardsOf(LiveContents(mem[p])) = {}
               /\ (chunks[d] \ chunks'[d]) \cap ShardsOf(LiveContents(Loaded(d))) = {}
    BY <1>1, <2>2, SweepStep
  <2>3. QED
    BY <1>1, <2>1, <2>2, ChunksStep
<1>2. TypeOK /\ AckInv /\ GcInv /\ [Next]_vars => [Step]_vars
  BY <1>1
<1>3. QED
  BY <1>2, TypeCorrect, AckInvHolds, GcInvHolds, PTL DEF Spec, GcOnlyOrphans

-----------------------------------------------------------------------------
(* The files a device wrote.                                               *)

(* A step issues at most one entry, and the process that does so holds it  *)
(* to be acknowledged; the entry of a put is for the shards just written.  *)
LEMMA IssueStep ==
    ASSUME TypeOK, [Next]_vars, NEW y \in issued', y \notin issued
    PROVE  \E p \in Proc :
              /\ y[2].dev = Dir[p] /\ pc'[p] = "opsave"
              /\ job'[p].name = y[1] /\ job'[p].entry = y[2]
              /\ UNCHANGED chunks
              /\ ~ y[2].deleted => pc[p] = "put" /\ y[2].content = job[p].content
<1>a. pc \in [Proc -> Points] /\ job \in [Proc -> Jobs]
  BY DEF TypeOK, Points, Jobs
<1>1. ASSUME NEW p \in Proc, NEW n, NEW e, Register(p, n, e)
      PROVE  /\ y = <<n, e>> /\ pc'[p] = "opsave" /\ UNCHANGED chunks
             /\ job'[p].name = y[1] /\ job'[p].entry = y[2]
  BY <1>1, <1>a DEF Register, Goto
<1>2. ASSUME NEW p \in Proc, Command(p)
      PROVE  PutRegister(p) \/ \E n \in Name : Delete(p, n)
  BY <1>2 DEF Command, PutChunks, OpSaved, UnknownName, ReadOnlyCommand, GcMark, GcSweep,
              GetStart, GetShard, GetDone
<1>3. ASSUME NEW p \in Proc,
             Start(p) \/ Crash(p) \/ SyncCommand(p) \/ Background(p) \/ Shutdown(p)
      PROVE  FALSE
  <2>1. Start(p) \/ Crash(p) \/ Shutdown(p) => issued' = issued
    BY DEF Start, Crash, Shutdown, CtrlC, StopSaved, ExitSave, Exit
  <2>2. SyncCommand(p) => issued' = issued
    BY DEF SyncCommand, SyncAll, SyncFetch, SyncFails, SyncMerge, SyncSaved, SyncChunk, FetchChunk,
           SyncNextPeer, ChunksDone, SyncDone
  <2>3. Background(p) => issued' = issued
    BY DEF Background, BgLoad, BgFetch, BgMerge, BgSaved, BgChunk, FetchChunk, BgNextPeer,
           ChunksDone, BgRoundDone
  <2>4. QED
    BY <1>3, <2>1, <2>2, <2>3
<1>4. ASSUME NEW p \in Proc, PutRegister(p)
      PROVE  /\ y[2].dev = Dir[p] /\ pc'[p] = "opsave"
             /\ job'[p].name = y[1] /\ job'[p].entry = y[2]
             /\ UNCHANGED chunks
             /\ pc[p] = "put" /\ y[2].content = job[p].content
  BY <1>1, <1>4 DEF PutRegister, NewEntry
<1>5. ASSUME NEW p \in Proc, NEW n \in Name, Delete(p, n)
      PROVE  /\ y[2].dev = Dir[p] /\ pc'[p] = "opsave"
             /\ job'[p].name = y[1] /\ job'[p].entry = y[2]
             /\ UNCHANGED chunks
             /\ y[2].deleted
  BY <1>1, <1>5 DEF Delete, NewEntry
<1>6. PICK p \in Proc : Command(p)
  <2>1. \A d \in Device : Tick(d) => issued' = issued
    BY DEF Tick
  <2>2. QED
    BY <1>3, <2>1 DEF Next, vars
<1>7. QED
  BY <1>2, <1>4, <1>5, <1>6

(* Everything a device issued is acknowledged or about to be; the shards   *)
(* of a put in progress are there; and so are those of every live entry    *)
(* the device issued, unless the device has gone on to another entry, in   *)
(* memory and in registry.json.                                            *)
Recorded(y) ==
    \/ y \in acked[y[2].dev]
    \/ \E p \in Proc : /\ Dir[p] = y[2].dev /\ pc[p] = "opsave"
                        /\ job[p].name = y[1] /\ job[p].entry = y[2]

Forgotten(y) ==
    /\ \A p \in Proc : Up(p) /\ Dir[p] = y[2].dev => mem[p][y[1]] # y[2]
    /\ Loaded(y[2].dev)[y[1]] # y[2]

KeptInv ==
    /\ \A y \in issued : Recorded(y)
    /\ \A p \in Proc : pc[p] = "put" => ShardsOf({job[p].content}) \subseteq chunks[Dir[p]]
    /\ \A y \in issued : ~ y[2].deleted =>
          ShardsOf({y[2].content}) \subseteq chunks[y[2].dev] \/ Forgotten(y)

(* What is acknowledged, or about to be, is covered by every running       *)
(* process of the device.                                                  *)
LEMMA IssuedCovered ==
    ASSUME TypeOK, AckInv, NEW y \in issued, Recorded(y),
           NEW p \in Proc, Up(p), Dir[p] = y[2].dev
    PROVE  AtLeast(y[1], mem[p][y[1]], y[2])
<1>1. y[1] \in Name /\ y[2] \in FileEntry /\ y[2].dev \in Device
  BY DEF TypeOK, FileEntry
<1>4. CASE y \in acked[y[2].dev]
  BY <1>4 DEF AckInv, Covers
<1>5. ASSUME NEW q \in Proc, Dir[q] = y[2].dev, pc[q] = "opsave",
             job[q].name = y[1], job[q].entry = y[2]
      PROVE  AtLeast(y[1], mem[p][y[1]], y[2])
  <2>1. q = p
    BY <1>5 DEF AckInv, Up
  <2>2. QED
    BY <1>5, <2>1 DEF AckInv, OpHeld
<1>6. QED
  BY <1>4, <1>5 DEF Recorded

(* What was acknowledged stays so. *)
LEMMA AckedStep ==
    ASSUME TypeOK, [Next]_vars, CrashAt \cap Saving = {}, NEW d \in Device
    PROVE  acked[d] \subseteq acked'[d]
<1>1. acked \in [Device -> SUBSET (Name \X FileEntry)] /\ Dir \in [Proc -> Device]
  BY SyncNodeAssumption DEF TypeOK
<1>2. ASSUME NEW p \in Proc, OpSaved(p) PROVE acked[d] \subseteq acked'[d]
  BY <1>1, <1>2 DEF OpSaved
<1>3. QED
  BY <1>2, FileStepHolds DEF FileStep, Start

(* An entry stays recorded. *)
LEMMA RecordedStep ==
    ASSUME TypeOK, TypeOK', [Next]_vars, CrashAt \cap Saving = {},
           NEW y \in issued', y \in issued => Recorded(y)
    PROVE  Recorded(y)'
<1>a. /\ acked \in [Device -> SUBSET (Name \X FileEntry)] /\ Dir \in [Proc -> Device]
      /\ y \in Name \X FileEntry /\ y[2].dev \in Device
  BY SyncNodeAssumption DEF TypeOK, FileEntry
<1>1. CASE y \notin issued
  BY <1>1, IssueStep DEF Recorded
<1>2. CASE y \in acked[y[2].dev]
  BY <1>a, <1>2, AckedStep DEF Recorded
<1>3. ASSUME NEW p \in Proc, Dir[p] = y[2].dev, pc[p] = "opsave",
             job[p].name = y[1], job[p].entry = y[2]
      PROVE  Recorded(y)'
  <2>1. CASE OpSaved(p)
    <3>1. y = <<job[p].name, job[p].entry>>
      BY <1>a, <1>3
    <3>2. y \in acked'[y[2].dev]
      BY <1>a, <1>3, <2>1, <3>1 DEF OpSaved
    <3>3. QED
      BY <3>2 DEF Recorded
  <2>2. CASE Stays(p)
    BY <1>3, <2>2 DEF Stays, Recorded
  <2>3. ~ Crash(p)
    BY <1>3 DEF Crash, Saving
  <2>4. QED
    BY <1>3, <2>1, <2>2, <2>3, PointStep
<1>4. QED
  BY <1>1, <1>2, <1>3 DEF Recorded

(* No step brings back an entry that its device has gone on from: what     *)
(* the device holds instead covers it.                                     *)
LEMMA ForgottenStep ==
    ASSUME TypeOK, TypeOK', AckInv, [Next]_vars, CrashAt \cap Saving = {},
           NEW y \in issued, Recorded(y), Forgotten(y)
    PROVE  Forgotten(y)'
<1>a. /\ y[1] \in Name /\ y[2] \in FileEntry /\ y[2].dev \in Device
      /\ Dir \in [Proc -> Device] /\ pc \in [Proc -> Points] /\ mem \in [Proc -> GSet]
      /\ disk \in [Device -> GSet \cup {NoFile, Torn}]
  BY SyncNodeAssumption DEF TypeOK, FileEntry, Points
<1>1. ASSUME NEW p \in Proc, Up(p)', Dir[p] = y[2].dev
      PROVE  mem'[p][y[1]] # y[2]
  <2>1. CASE Up(p)
    <3>1. mem'[p][y[1]] \in MaybeEntry /\ mem[p][y[1]] \in MaybeEntry
      BY <1>a DEF TypeOK, GSet, MaybeEntry
    <3>2. Supersedes(y[1], mem'[p][y[1]], mem[p][y[1]])
      BY <1>a, <1>1, <2>1, MemStep DEF Up
    <3>3. AtLeast(y[1], mem[p][y[1]], y[2]) /\ mem[p][y[1]] # y[2]
      BY <1>1, <2>1, IssuedCovered DEF Forgotten
    <3>4. QED
      BY <1>a, <3>1, <3>2, <3>3, SupersedesFacts
  <2>2. CASE ~ Up(p)
    <3>1. Start(p)
      <4>1. ASSUME NEW q \in Proc, Start(q) PROVE q = p
        BY <1>1, <1>a, <2>2, <4>1 DEF Start, Goto, Up
      <4>2. ASSUME NEW q \in Proc, NEW l \in Points, FileStep(q, l) PROVE FALSE
        BY <1>1, <1>a, <2>2, <4>2 DEF FileStep, Goto, Up
      <4>3. pc' # pc
        BY <1>1, <2>2 DEF Up
      <4>4. QED
        BY <4>1, <4>2, <4>3, FileStepHolds
    <3>2. mem'[p] = Loaded(y[2].dev)
      BY <1>a, <1>1, <3>1 DEF Start
    <3>3. QED
      BY <3>2 DEF Forgotten
  <2>3. QED
    BY <2>1, <2>2
<1>2. Loaded(y[2].dev)'[y[1]] # y[2]
  <2>1. CASE disk'[y[2].dev] = disk[y[2].dev]
    BY <2>1 DEF Loaded, Forgotten
  <2>2. CASE disk'[y[2].dev] = Torn
    BY <1>a, <2>2, RegistryAssumption DEF Loaded, Empty
  <2>3. ASSUME NEW p \in Proc, Up(p), Dir[p] = y[2].dev, disk'[y[2].dev] = mem[p]
        PROVE  Loaded(y[2].dev)'[y[1]] # y[2]
    <3>1. mem[p] \in GSet
      BY <1>a
    <3>2. Loaded(y[2].dev)' = mem[p]
      BY <2>3, <3>1, SyncNodeAssumption DEF Loaded
    <3>3. QED
      BY <2>3, <3>2 DEF Forgotten
  <2>4. \/ disk'[y[2].dev] \in {disk[y[2].dev], Torn}
        \/ \E p \in Proc : Up(p) /\ Dir[p] = y[2].dev /\ disk'[y[2].dev] = mem[p]
    <3>1. ASSUME NEW q \in Proc, NEW l \in Points, FileStep(q, l)
          PROVE  \/ disk'[y[2].dev] \in {disk[y[2].dev], Torn}
                 \/ Up(q) /\ Dir[q] = y[2].dev /\ disk'[y[2].dev] = mem[q]
      BY <1>a, <3>1 DEF FileStep, BeginSave, EndSave, OpSaved
    <3>2. ASSUME NEW q \in Proc, Start(q) PROVE disk' = disk
      BY <3>2 DEF Start
    <3>3. QED
      BY <3>1, <3>2, FileStepHolds
  <2>5. QED
    BY <2>1, <2>2, <2>3, <2>4
<1>3. QED
  BY <1>1, <1>2 DEF Forgotten

(* Each step keeps KeptInv, under the hypotheses of AckStep. *)
LEMMA KeptStep ==
    ASSUME TypeOK, TypeOK', AckInv, GcInv, KeptInv, [Next]_vars,
           Overlap = FALSE, CrashAt \cap Saving = {}
    PROVE  KeptInv'
<1>a. /\ Dir \in [Proc -> Device] /\ pc \in [Proc -> Points] /\ mem \in [Proc -> GSet]
      /\ job \in [Proc -> Jobs] /\ chunks \in [Device -> SUBSET Shard]
  BY SyncNodeAssumption DEF TypeOK, Points, Jobs
<1>1. \A y \in issued' : Recorded(y)'
  BY RecordedStep DEF KeptInv
<1>2. ASSUME NEW p \in Proc, pc'[p] = "put"
      PROVE  ShardsOf({job'[p].content}) \subseteq chunks'[Dir[p]]
  <2>1. ASSUME NEW n \in Name, NEW c \in Content, PutChunks(p, n, c)
        PROVE  ShardsOf({job'[p].content}) \subseteq chunks'[Dir[p]]
    <3>1. job'[p].content = c /\ chunks'[Dir[p]] = chunks[Dir[p]] \cup ShardsOf({c})
      BY <1>a, <2>1 DEF PutChunks, LocalShards
    <3>2. QED
      BY <3>1
  <2>2. CASE Stays(p)
    <3>1. pc[p] = "put" /\ job'[p] = job[p]
      BY <1>2, <2>2 DEF Stays
    <3>2. ASSUME NEW q \in Proc, GcSweep(q), Dir[q] = Dir[p] PROVE FALSE
      <4>1. q = p
        BY <3>1, <3>2, SweepStep DEF Up
      <4>2. QED
        BY <3>1, <3>2, <4>1 DEF GcSweep
    <3>3. chunks[Dir[p]] \subseteq chunks'[Dir[p]]
      BY <1>a, <3>2, ChunksStep
    <3>4. QED
      BY <3>1, <3>3 DEF KeptInv
  <2>3. QED
    BY <1>2, <2>1, <2>2, PointStep
<1>3. ASSUME NEW y \in issued', ~ y[2].deleted
      PROVE  ShardsOf({y[2].content}) \subseteq chunks'[y[2].dev] \/ Forgotten(y)'
  <2>a. y[1] \in Name /\ y[2] \in FileEntry /\ y[2].dev \in Device
    BY DEF TypeOK, FileEntry
  <2>1. CASE y \notin issued
    <3>1. PICK p \in Proc : /\ y[2].dev = Dir[p] /\ UNCHANGED chunks
                            /\ pc[p] = "put" /\ y[2].content = job[p].content
      BY <1>3, <2>1, IssueStep
    <3>2. QED
      BY <3>1 DEF KeptInv
  <2>2. CASE y \in issued /\ Forgotten(y)
    BY <2>2, ForgottenStep DEF KeptInv
  <2>3. CASE y \in issued /\ ShardsOf({y[2].content}) \subseteq chunks[y[2].dev]
    <3>1. CASE chunks[y[2].dev] \subseteq chunks'[y[2].dev]
      BY <2>3, <3>1
    <3>2. ASSUME NEW p \in Proc, GcSweep(p), Dir[p] = y[2].dev
          PROVE  ShardsOf({y[2].content}) \subseteq chunks'[y[2].dev] \/ Forgotten(y)'
      <4>1. /\ chunks[Dir[p]] \cap ShardsOf(LiveContents(mem[p])) \subseteq chunks'[Dir[p]]
            /\ Loaded(Dir[p]) = mem[p]
            /\ \A q \in Proc : Up(q) /\ Dir[q] = Dir[p] => q = p
        BY <3>2, SweepStep
      <4>2. CASE mem[p][y[1]] = y[2]
        <5>1. y[1] \in Live(mem[p])
          BY <1>3, <2>a, <4>2, RegistryAssumption DEF Live, Held
        <5>2. y[2].content \in LiveContents(mem[p])
          BY <4>2, <5>1 DEF LiveContents
        <5>3. ShardsOf({y[2].content}) \subseteq ShardsOf(LiveContents(mem[p]))
          BY <5>2 DEF ShardsOf
        <5>4. QED
          BY <2>3, <3>2, <4>1, <5>3
      <4>3. CASE mem[p][y[1]] # y[2]
        <5>1. Forgotten(y)
          BY <3>2, <4>1, <4>3 DEF Forgotten
        <5>2. QED
          BY <2>2, <2>3, <5>1
      <4>4. QED
        BY <4>2, <4>3
    <3>3. QED
      BY <2>a, <3>1, <3>2, ChunksStep
  <2>4. QED
    BY <1>3, <2>1, <2>2, <2>3 DEF KeptInv
<1>4. QED
  BY <1>1, <1>2, <1>3 DEF KeptInv

(* With one process at a time on a data directory, and crashes anywhere    *)
(* but inside a write of registry.json, registry.json never lists a live   *)
(* file the device wrote itself whose shards are not all in its chunks     *)
(* directory: not after a put that stopped half-way, a gc, or an older     *)
(* entry of its own that comes back from a peer.                           *)
THEOREM FilesKeptHolds ==
    ASSUME Overlap = FALSE, CrashAt \cap Saving = {}
    PROVE  Spec => []FilesKept
<1>1. Init => KeptInv
  BY SyncNodeAssumption DEF Init, KeptInv
<1>2. TypeOK /\ TypeOK' /\ AckInv /\ GcInv /\ KeptInv /\ [Next]_vars => KeptInv'
  BY KeptStep
<1>3. TypeOK /\ Provenance /\ KeptInv => FilesKept
  <2> SUFFICES ASSUME TypeOK, Provenance, KeptInv, NEW d \in Device,
                      disk[d] \notin {NoFile, Torn}, NEW n \in Live(disk[d]), disk[d][n].dev = d
               PROVE  ShardsOf({disk[d][n].content}) \subseteq chunks[d]
    BY DEF FilesKept
  <2>1. n \in Name /\ disk[d][n] # NoEntry /\ ~ disk[d][n].deleted /\ Loaded(d) = disk[d]
    BY DEF Live, Held, Loaded
  <2>2. <<n, disk[d][n]>> \in issued
    BY <2>1 DEF Provenance, Known
  <2>3. ~ Forgotten(<<n, disk[d][n]>>)
    BY <2>1 DEF Forgotten
  <2>4. QED
    BY <2>1, <2>2, <2>3 DEF KeptInv
<1>4. QED
  BY <1>1, <1>2, <1>3, TypeCorrect, ProvenanceHolds, AckInvHolds, GcInvHolds, PTL DEF Spec
=============================================================================
