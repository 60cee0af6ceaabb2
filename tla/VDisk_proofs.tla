---------------------------- MODULE VDisk_proofs ----------------------------
(***************************************************************************)
(* Theorems of VDisk, for any disks, stores, files and redundancy.         *)
(***************************************************************************)
EXTENDS VDisk, Lists_proofs, TLAPS

(***************************************************************************)
(* Arithmetic.                                                             *)
(***************************************************************************)

(* next_power_of_two does not round down. *)
LEMMA PowerFacts ==
    ASSUME NEW m \in Nat \ {0}
    PROVE  PowerOfTwo(m) \in Nat /\ PowerOfTwo(m) >= m
<1> DEFINE Step(x, i) == IF i <= 1 THEN 1 ELSE IF x < i THEN 2 * x ELSE x
           step == [q \in Nat \X (1 .. m) |-> Step(q[1], q[2])]
           Is(f) == f = [i \in 0 .. m |->
                           IF i <= 1 THEN 1 ELSE IF f[i - 1] < i THEN 2 * f[i - 1] ELSE f[i - 1]]
           p == CHOOSE f : Is(f)
<1>1. \E f : Is(f)
  <2>1. PICK f : Unfolds(f, step, 1, Nat, m)
    <3>1. StepsIn(step, Nat, m)
      BY DEF StepsIn
    <3> HIDE DEF step
    <3>2. QED
      BY <3>1, Recursion
  <2>2. f \in [0 .. m -> Nat] /\ f[0] = 1 /\ \A i \in 1 .. m : f[i] = step[<<f[i - 1], i>>]
    BY <2>1 DEF Unfolds
  <2>3. ASSUME NEW i \in 1 .. m PROVE f[i] = Step(f[i - 1], i)
    <3> HIDE DEF step
    <3>1. f[i - 1] \in Nat /\ f[i] = step[<<f[i - 1], i>>]
      BY <2>2
    <3> USE DEF step
    <3>2. QED
      BY <3>1
  <2>4. Is(f)
    BY <2>2, <2>3
  <2>5. QED
    BY <2>4
<1>2. Is(p)
  <2> HIDE DEF Is
  <2> QED BY <1>1
<1>3. PowerOfTwo(m) = p[m]
  BY DEF PowerOfTwo
<1> HIDE DEF p
<1>4. p[0] = 1 /\ \A i \in 1 .. m : p[i] = Step(p[i - 1], i)
  BY <1>2
<1> DEFINE S == {i \in 0 .. m : p[i] \in Nat /\ p[i] >= 1 /\ p[i] >= i}
<1>5. 0 \in S
  BY <1>4
<1>6. ASSUME NEW i \in 0 .. m - 1, i \in S PROVE i + 1 \in S
  <2> DEFINE x == p[i]
             y == p[i + 1]
  <2>1. x \in Nat /\ x >= 1 /\ x >= i /\ y = Step(x, i + 1)
    BY <1>4, <1>6
  <2> HIDE DEF x, y
  <2>2. y \in Nat /\ y >= 1 /\ y >= i + 1
    BY <2>1
  <2>3. QED
    BY <2>2 DEF y
<1>7. \A i \in 0 .. m : i \in S
  <2> HIDE DEF S
  <2> QED BY <1>5, <1>6, UpTo
<1>8. QED
  BY <1>3, <1>7

(* Division and remainder. *)
LEMMA DivMod ==
    ASSUME NEW a \in Nat, NEW b \in Nat \ {0}
    PROVE  a \div b \in Nat /\ a % b \in 0 .. b - 1
  BY SMT

(* A number is its own remainder below the divisor. *)
LEMMA ModSmall ==
    ASSUME NEW b \in Nat \ {0}, NEW a \in 0 .. b - 1
    PROVE  a % b = a
  BY SMT

(***************************************************************************)
(* Chunk stores.                                                           *)
(***************************************************************************)

(* What a sequence of puts works on. *)
StoreState == [held : [Store -> SUBSET Chunk], used : [Store -> Nat], ok : BOOLEAN]

(* The counters say what is held, within the capacity, and a store that    *)
(* was never attached is empty.                                            *)
Accounted(st) ==
    \A s \in Store :
        /\ IsFiniteSet(st.held[s])
        /\ st.used[s] = Total(ChunkSize, st.held[s])
        /\ capacity[s] \in Nat \ {0} => st.used[s] <= capacity[s]
        /\ capacity[s] = NoStore => st.held[s] = {}

(* st came from old by putting chunks. *)
Grown(old, st) == \A s \in Store : old.held[s] \subseteq st.held[s]

(* A content's k and n. *)
LEMMA ContentFacts ==
    ASSUME NEW v \in Content
    PROVE  /\ v.data \in Data /\ v.k \in Nat \ {0} /\ v.n \in Nat
           /\ \A i \in 0 .. v.n - 1 : chunk(v, i) \in Chunk
<1>1. v \in [data : Data, k : 1 .. MaxSlots, n : {PowerOfTwo(m) : m \in 1 .. MaxSlots}]
      /\ MaxSlots \in Nat
  BY VDiskAssumption
<1>2. \A m \in 1 .. MaxSlots : PowerOfTwo(m) \in Nat
  BY <1>1, PowerFacts
<1>3. v.data \in Data /\ v.k \in 1 .. MaxSlots /\ \E m \in 1 .. MaxSlots : v.n = PowerOfTwo(m)
  BY <1>1
<1>4. QED
  BY <1>1, <1>2, <1>3 DEF Chunk

(* A chunk takes one field element per group. *)
LEMMA SizeFacts == ChunkSize \in [Chunk -> Nat] /\ \A c \in Chunk : ChunkSize[c] = Size(c)
<1>1. ASSUME NEW c \in Chunk PROVE Size(c) \in Nat
  <2>1. PICK v \in Content : \E i \in 0 .. v.n - 1 : c = chunk(v, i)
    BY DEF Chunk
  <2>2. c.data = v.data /\ c.k = v.k
    BY <2>1 DEF chunk
  <2>3. Elements[v.data] \in Nat \ {0} /\ v.k \in Nat \ {0}
    BY ContentFacts, VDiskAssumption
  <2> DEFINE a == Elements[c.data] + c.k - 1
             b == c.k
  <2>4. a \in Nat /\ b \in Nat \ {0}
    BY <2>2, <2>3
  <2>5. Size(c) = a \div b
    BY DEF Size
  <2> HIDE DEF a, b
  <2>6. QED
    BY <2>4, <2>5, DivMod
<1>2. QED
  BY <1>1 DEF ChunkSize

(* A put into an attached store that has room. *)
LEMMA StoredFacts ==
    ASSUME NEW st \in StoreState, Accounted(st), NEW s \in Store, capacity[s] \in Nat,
           NEW c \in Chunk, Fits(st, s, c)
    PROVE  /\ Stored(st, s, c) \in StoreState /\ Accounted(Stored(st, s, c))
           /\ Grown(st, Stored(st, s, c)) /\ c \in Stored(st, s, c).held[s]
           /\ Stored(st, s, c).ok = st.ok
<1> DEFINE h == [st.held EXCEPT ![s] = @ \cup {c}]
           u == [st.used EXCEPT ![s] = IF c \in st.held[s] THEN @ ELSE @ + Size(c)]
           new == Stored(st, s, c)
<1>1. st.held \in [Store -> SUBSET Chunk] /\ st.used \in [Store -> Nat] /\ st.ok \in BOOLEAN
  BY DEF StoreState
<1>2. Size(c) \in Nat /\ ChunkSize[c] = Size(c)
  BY SizeFacts
<1>3. new = [held |-> h, used |-> u, ok |-> st.ok]
  BY DEF Stored
<1>4. h \in [Store -> SUBSET Chunk] /\ u \in [Store -> Nat]
  BY <1>1, <1>2
<1>5. /\ h[s] = st.held[s] \cup {c} /\ \A t \in Store : t # s => h[t] = st.held[t] /\ u[t] = st.used[t]
      /\ u[s] = IF c \in st.held[s] THEN st.used[s] ELSE st.used[s] + Size(c)
  BY <1>1
<1> HIDE DEF h, u, new
<1>6. new.held = h /\ new.used = u /\ new.ok = st.ok /\ new \in StoreState
  BY <1>1, <1>3, <1>4 DEF StoreState
<1>7. IsFiniteSet(h[s])
  BY <1>5, FS_AddElement DEF Accounted
<1>8. u[s] = Total(ChunkSize, h[s])
  <2>1. CASE c \in st.held[s]
    <3>1. h[s] = st.held[s]
      BY <1>5, <2>1
    <3>2. QED
      BY <1>5, <2>1, <3>1 DEF Accounted
  <2>2. CASE c \notin st.held[s]
    <3>1. st.held[s] \in SUBSET Chunk /\ IsFiniteSet(st.held[s]) /\ c \in Chunk \ st.held[s]
      BY <1>1, <2>2 DEF Accounted
    <3>2. Total(ChunkSize, st.held[s] \cup {c}) = Total(ChunkSize, st.held[s]) + ChunkSize[c]
      BY <3>1, SizeFacts, TotalFacts
    <3>3. QED
      BY <1>2, <1>5, <2>2, <3>2 DEF Accounted
  <2>3. QED
    BY <2>1, <2>2
<1>9. capacity[s] \in Nat \ {0} => u[s] <= capacity[s]
  <2>1. st.used[s] \in Nat /\ (capacity[s] # 0 => st.used[s] <= capacity[s])
    BY <1>1 DEF Accounted
  <2>2. capacity[s] # 0 => st.used[s] + Size(c) <= capacity[s]
    BY DEF Fits
  <2>3. QED
    BY <1>2, <1>5, <2>1, <2>2
<1>10. capacity[s] # NoStore
  BY VDiskAssumption
<1>11. Accounted(new)
  <2>1. SUFFICES ASSUME NEW t \in Store
                 PROVE  /\ IsFiniteSet(h[t]) /\ u[t] = Total(ChunkSize, h[t])
                        /\ capacity[t] \in Nat \ {0} => u[t] <= capacity[t]
                        /\ capacity[t] = NoStore => h[t] = {}
    BY <1>6 DEF Accounted
  <2>2. CASE t = s
    BY <1>7, <1>8, <1>9, <1>10, <2>2
  <2>3. CASE t # s
    BY <1>5, <2>3 DEF Accounted
  <2>4. QED
    BY <2>2, <2>3
<1>12. Grown(st, new) /\ c \in new.held[s]
  BY <1>5, <1>6 DEF Grown
<1>13. QED
  BY <1>6, <1>11, <1>12 DEF new

(* The stores as a call finds them, and what puts can make of old. *)
Before == [held |-> held, used |-> used, ok |-> TRUE]

Reach(old) == {st \in StoreState : Accounted(st) /\ Grown(old, st)}

(* Puts that follow puts. *)
LEMMA ReachStep ==
    ASSUME NEW old, NEW st \in Reach(old), NEW new \in StoreState, Accounted(new), Grown(st, new)
    PROVE  new \in Reach(old)
  BY DEF Reach, Grown

(* One put of a sequence. *)
LEMMA PutFacts ==
    ASSUME NEW old, NEW st \in Reach(old), NEW s \in Store, capacity[s] \in Nat, NEW c \in Chunk
    PROVE  /\ PutShard(st, s, c) \in Reach(old) /\ Grown(st, PutShard(st, s, c))
           /\ PutShard(st, s, c).ok => st.ok /\ c \in PutShard(st, s, c).held[s]
<1> DEFINE new == PutShard(st, s, c)
<1>1. st \in StoreState /\ Accounted(st) /\ Grown(old, st)
  BY DEF Reach
<1>2. CASE ~ st.ok
  <2>1. new = st
    BY <1>2 DEF PutShard
  <2>2. Grown(st, st)
    BY DEF Grown
  <2>3. QED
    BY <1>2, <2>1, <2>2
<1>3. CASE st.ok /\ Fits(st, s, c)
  <2>1. new = Stored(st, s, c)
    BY <1>3 DEF PutShard
  <2>2. /\ new \in StoreState /\ Accounted(new) /\ Grown(st, new) /\ c \in new.held[s]
    BY <1>1, <1>3, <2>1, StoredFacts
  <2>3. QED
    BY <1>3, <2>2, ReachStep
<1>4. CASE st.ok /\ ~ Fits(st, s, c)
  <2>1. new = [st EXCEPT !.ok = FALSE]
    BY <1>4 DEF PutShard
  <2>2. new \in StoreState /\ new.held = st.held /\ new.used = st.used /\ new.ok = FALSE
    BY <1>1, <2>1 DEF StoreState
  <2>3. Accounted(new) /\ Grown(st, new)
    BY <1>1, <2>2 DEF Accounted, Grown
  <2>4. QED
    BY <2>2, <2>3, ReachStep
<1>5. QED
  BY <1>2, <1>3, <1>4

(* Stores that are attached. *)
Attached == {s \in Store : capacity[s] # NoStore}

(* A shard goes to an attached store of the disk. *)
LEMMA StoreOfFacts ==
    ASSUME NEW devs \in Seq(Attached), devs # <<>>, capacity \in [Store -> Nat \cup {NoStore}],
           NEW v, NEW i \in Nat
    PROVE  StoreOf(devs, v, i) \in Store /\ capacity[StoreOf(devs, v, i)] \in Nat
<1>1. Len(devs) \in Nat \ {0} /\ DOMAIN devs = 1 .. Len(devs)
  OBVIOUS
<1>2. i % Len(devs) \in 0 .. Len(devs) - 1
  BY <1>1, DivMod
<1>3. (i % Len(devs)) + 1 \in DOMAIN devs
  BY <1>1, <1>2
<1>4. StoreOf(devs, v, i) \in Attached
  BY <1>3 DEF StoreOf
<1>5. QED
  BY <1>4 DEF Attached

(* Distributing shards over attached stores only adds chunks, keeps the    *)
(* counters right, and when no store was full every shard is where it      *)
(* belongs.                                                                *)
LEMMA DistributedFacts ==
    ASSUME NEW devs \in Seq(Attached), devs # <<>>, capacity \in [Store -> Nat \cup {NoStore}],
           NEW v \in Content, Before \in StoreState, Accounted(Before)
    PROVE  /\ Distributed(devs, v) \in Reach(Before)
           /\ Distributed(devs, v).ok =>
                 \A i \in 0 .. v.n - 1 : chunk(v, i) \in Distributed(devs, v).held[StoreOf(devs, v, i)]
<1> DEFINE n == v.n
           A == Reach(Before)
           Step(x, i) == PutShard(x, StoreOf(devs, v, i - 1), chunk(v, i - 1))
           step == [q \in A \X (1 .. n) |-> Step(q[1], q[2])]
           Is(f) == f = [i \in 0 .. n |-> IF i = 0 THEN Before ELSE Step(f[i - 1], i)]
           st == CHOOSE f : Is(f)
<1>1. n \in Nat /\ \A i \in 0 .. n - 1 : chunk(v, i) \in Chunk
  BY ContentFacts
<1>2. Before \in A
  BY DEF Reach, Grown
<1>3. ASSUME NEW x \in A, NEW i \in 1 .. n
      PROVE  /\ Step(x, i) \in A /\ Grown(x, Step(x, i))
             /\ Step(x, i).ok => x.ok /\ chunk(v, i - 1) \in Step(x, i).held[StoreOf(devs, v, i - 1)]
  <2>1. i - 1 \in 0 .. n - 1 /\ i - 1 \in Nat
    BY <1>1
  <2>2. chunk(v, i - 1) \in Chunk
    BY <1>1, <2>1
  <2>3. StoreOf(devs, v, i - 1) \in Store /\ capacity[StoreOf(devs, v, i - 1)] \in Nat
    BY <2>1, StoreOfFacts
  <2> HIDE DEF n
  <2>4. QED
    BY <2>2, <2>3, PutFacts
<1> HIDE DEF n, A, Step
<1>4. \E f : Is(f)
  <2>1. PICK f : Unfolds(f, step, Before, A, n)
    <3>1. StepsIn(step, A, n)
      BY <1>3 DEF StepsIn
    <3> HIDE DEF step
    <3>2. QED
      BY <1>1, <1>2, <3>1, Recursion
  <2>2. f \in [0 .. n -> A] /\ f[0] = Before /\ \A i \in 1 .. n : f[i] = step[<<f[i - 1], i>>]
    BY <2>1 DEF Unfolds
  <2>3. ASSUME NEW i \in 1 .. n PROVE f[i] = Step(f[i - 1], i)
    <3> HIDE DEF step
    <3>1. f[i - 1] \in A /\ f[i] = step[<<f[i - 1], i>>]
      BY <1>1, <2>2
    <3> USE DEF step
    <3>2. QED
      BY <3>1
  <2>4. Is(f)
    BY <1>1, <2>2, <2>3
  <2>5. QED
    BY <2>4
<1>5. Is(st)
  <2> HIDE DEF Is
  <2> QED BY <1>4
<1>6. Distributed(devs, v) = st[n]
  BY DEF Distributed, Before, n, Step
<1> HIDE DEF st
<1>7. st[0] = Before /\ \A i \in 1 .. n : st[i] = Step(st[i - 1], i)
  BY <1>1, <1>5
<1> DEFINE In(x, j) == chunk(v, j) \in x.held[StoreOf(devs, v, j)]
           S == {i \in 0 .. n : st[i] \in A /\ (st[i].ok => \A j \in 0 .. i - 1 : In(st[i], j))}
<1>8. 0 \in S
  BY <1>1, <1>2, <1>7
<1>9. ASSUME NEW i \in 0 .. n - 1, i \in S PROVE i + 1 \in S
  <2> DEFINE x == st[i]
             y == st[i + 1]
  <2>1. i \in Nat /\ i + 1 \in 1 .. n /\ (i + 1) - 1 = i
    BY <1>1
  <2>2. x \in A /\ (x.ok => \A j \in 0 .. i - 1 : In(x, j)) /\ y = Step(x, i + 1)
    BY <1>7, <1>9, <2>1
  <2> HIDE DEF x, y
  <2>3. y \in A /\ Grown(x, y) /\ (y.ok => x.ok /\ In(y, i))
    BY <1>3, <2>1, <2>2
  <2>4. ASSUME y.ok, NEW j \in 0 .. i PROVE In(y, j)
    <3>1. CASE j = i
      BY <2>3, <2>4, <3>1
    <3>2. CASE j # i
      <4>1. j \in 0 .. i - 1 /\ j \in Nat
        BY <2>1, <3>2
      <4>2. StoreOf(devs, v, j) \in Store
        BY <4>1, StoreOfFacts
      <4>3. In(x, j)
        BY <2>2, <2>3, <2>4, <4>1
      <4>4. QED
        BY <2>3, <4>2, <4>3 DEF Grown
    <3>3. QED
      BY <3>1, <3>2
  <2> HIDE DEF In
  <2>5. y.ok => \A j \in 0 .. (i + 1) - 1 : In(y, j)
    BY <2>1, <2>4
  <2>6. QED
    BY <2>1, <2>3, <2>5 DEF y
<1>10. n \in S
  <2> HIDE DEF S
  <2>1. \A i \in 0 .. n : i \in S
    BY <1>1, <1>8, <1>9, UpTo
  <2>2. QED
    BY <1>1, <2>1
<1>11. QED
  BY <1>6, <1>10 DEF A, n

(* rebalance copies chunks to attached stores that have room for them. *)
LEMMA MovedFacts ==
    ASSUME NEW old, NEW st \in Reach(old), NEW c \in Chunk,
           attachments[call.disk] \in Seq(Attached), capacity \in [Store -> Nat \cup {NoStore}]
    PROVE  Moved(st, c) \in Reach(old)
<1> DEFINE devs == attachments[call.disk]
           i == CHOOSE x \in Destination(st, c) : TRUE
           s == devs[i]
<1>1. CASE Moved(st, c) = st
  BY <1>1
<1>2. CASE Moved(st, c) # st
  <2>1. Destination(st, c) # {} /\ Fits(st, s, c) /\ Moved(st, c) = Stored(st, s, c)
    BY <1>2 DEF Moved
  <2>2. i \in Destination(st, c)
    BY <2>1
  <2> HIDE DEF i
  <2>3. i \in DOMAIN devs
    BY <2>2 DEF Destination
  <2>4. s \in Attached
    BY <2>3
  <2> HIDE DEF s
  <2>5. s \in Store /\ capacity[s] \in Nat
    BY <2>4 DEF Attached
  <2>6. st \in StoreState /\ Accounted(st)
    BY DEF Reach
  <2>7. Stored(st, s, c) \in StoreState /\ Accounted(Stored(st, s, c)) /\ Grown(st, Stored(st, s, c))
    BY <2>1, <2>5, <2>6, StoredFacts
  <2>8. QED
    BY <2>1, <2>7, ReachStep
<1>3. QED
  BY <1>1, <1>2

(* So does the loop over the shards of a file. *)
LEMMA RebalancedFacts ==
    ASSUME NEW v \in Content, Before \in StoreState, Accounted(Before),
           attachments[call.disk] \in Seq(Attached), capacity \in [Store -> Nat \cup {NoStore}]
    PROVE  Rebalanced(v) \in Reach(Before)
<1> DEFINE n == v.n
           A == Reach(Before)
           Step(x, i) == Moved(x, chunk(v, i - 1))
           step == [q \in A \X (1 .. n) |-> Step(q[1], q[2])]
           Is(f) == f = [i \in 0 .. n |-> IF i = 0 THEN Before ELSE Step(f[i - 1], i)]
           st == CHOOSE f : Is(f)
<1>1. n \in Nat /\ \A i \in 0 .. n - 1 : chunk(v, i) \in Chunk
  BY ContentFacts
<1>2. Before \in A
  BY DEF Reach, Grown
<1>3. ASSUME NEW x \in A, NEW i \in 1 .. n PROVE Step(x, i) \in A
  <2>1. chunk(v, i - 1) \in Chunk
    BY <1>1
  <2>2. QED
    BY <2>1, MovedFacts
<1> HIDE DEF n, A, Step
<1>4. \E f : Is(f)
  <2>1. PICK f : Unfolds(f, step, Before, A, n)
    <3>1. StepsIn(step, A, n)
      BY <1>3 DEF StepsIn
    <3> HIDE DEF step
    <3>2. QED
      BY <1>1, <1>2, <3>1, Recursion
  <2>2. f \in [0 .. n -> A] /\ f[0] = Before /\ \A i \in 1 .. n : f[i] = step[<<f[i - 1], i>>]
    BY <2>1 DEF Unfolds
  <2>3. ASSUME NEW i \in 1 .. n PROVE f[i] = Step(f[i - 1], i)
    <3> HIDE DEF step
    <3>1. f[i - 1] \in A /\ f[i] = step[<<f[i - 1], i>>]
      BY <1>1, <2>2
    <3> USE DEF step
    <3>2. QED
      BY <3>1
  <2>4. Is(f)
    BY <1>1, <2>2, <2>3
  <2>5. QED
    BY <2>4
<1>5. Is(st)
  <2> HIDE DEF Is
  <2> QED BY <1>4
<1>6. Rebalanced(v) = st[n]
  BY DEF Rebalanced, Before, n, Step
<1> HIDE DEF st
<1>7. st[0] = Before /\ \A i \in 1 .. n : st[i] = Step(st[i - 1], i)
  BY <1>1, <1>5
<1> DEFINE S == {i \in 0 .. n : st[i] \in A}
<1>8. 0 \in S
  BY <1>1, <1>2, <1>7
<1>9. ASSUME NEW i \in 0 .. n - 1, i \in S PROVE i + 1 \in S
  <2>1. i + 1 \in 1 .. n /\ (i + 1) - 1 = i /\ i + 1 \in 0 .. n
    BY <1>1
  <2>2. st[i + 1] = Step(st[i], i + 1)
    BY <1>7, <2>1
  <2>3. QED
    BY <1>3, <1>9, <2>1, <2>2
<1>10. n \in S
  <2> HIDE DEF S
  <2>1. \A i \in 0 .. n : i \in S
    BY <1>1, <1>8, <1>9, UpTo
  <2>2. QED
    BY <1>1, <2>1
<1>11. QED
  BY <1>6, <1>10 DEF A, n

(***************************************************************************)
(* The inductive invariant.                                                *)
(***************************************************************************)

VEntry == [content : Content, ts : Time, dev : Device, deleted : BOOLEAN, devs : Seq(Store)]

DisksOK ==
    /\ now \in Time /\ disks \in SUBSET Disk
    /\ capacity \in [Store -> Nat \cup {NoStore}]
    /\ attachments \in [Disk -> Seq(Attached)]
    /\ \A d \in Disk : Len(attachments[d]) <= Slots[d]

StoresOK == Before \in StoreState /\ Accounted(Before)

(* Every shard of an entry that was spread over stores is in the store     *)
(* round-robin gives it, and there are at least as many shards as stores.  *)
Placed(e, h) ==
    e.devs # <<>> =>
        /\ e.content.k <= Len(e.devs) /\ Len(e.devs) <= e.content.n
        /\ \A i \in 0 .. e.content.n - 1 : chunk(e.content, i) \in h[StoreOf(e.devs, e.content, i)]

FilesOK ==
    /\ registry \in [Name -> VEntry \cup {NoEntry}]
    /\ \A f \in Held(registry) : Placed(registry[f], held)

(* A call that loops over files has files of the registry to do, and those *)
(* rechunk has done are as it leaves them.                                 *)
Rechunking ==
    /\ call = [op |-> "rechunk", disk |-> call.disk, todo |-> call.todo, done |-> call.done]
    /\ call.disk \in Disk /\ attachments[call.disk] # <<>> /\ Encodable(call.disk)
    /\ call.todo \subseteq Held(registry) /\ call.done \subseteq Held(registry)
    /\ call.todo \cap call.done = {}
    /\ \A f \in call.done :
          registry[f].content = Encoded(call.disk, registry[f].content.data)

Rebalancing ==
    /\ call = [op |-> "rebalance", disk |-> call.disk, todo |-> call.todo, delta |-> call.delta]
    /\ call.disk \in Disk /\ call.todo \subseteq Held(registry)

CallOK == call = NoCall \/ Rechunking \/ Rebalancing

VInv == DisksOK /\ StoresOK /\ FilesOK /\ CallOK

(* An entry of the registry. *)
LEMMA HeldFacts ==
    ASSUME FilesOK, NEW f \in Held(registry)
    PROVE  /\ f \in Name /\ registry[f] \in VEntry /\ registry[f].content \in Content
           /\ registry[f].ts \in Time /\ registry[f].devs \in Seq(Store)
           /\ registry[f].content.data \in Data
<1>1. f \in Name /\ registry[f] \in VEntry
  BY DEF FilesOK, Held
<1>2. QED
  BY <1>1, ContentFacts DEF VEntry

(* What k and n put_file and rechunk choose. *)
LEMMA EncodedFacts ==
    ASSUME DisksOK, NEW d \in Disk, attachments[d] # <<>>, Encodable(d), NEW x \in Data
    PROVE  /\ Encoded(d, x) \in Content /\ Encoded(d, x).data = x
           /\ Encoded(d, x).k <= Len(attachments[d]) /\ Len(attachments[d]) <= Encoded(d, x).n
<1> DEFINE l == Len(attachments[d])
           k == l - Failures(d)
           n == PowerOfTwo(l)
<1>1. attachments[d] \in Seq(Attached) /\ l <= Slots[d] /\ Slots[d] \in 1 .. MaxSlots /\ MaxSlots \in Nat
  BY VDiskAssumption DEF DisksOK
<1>2. l \in Nat \ {0} /\ l \in 1 .. MaxSlots
  BY <1>1
<1>3. Failures(d) \in Nat /\ l > Failures(d)
  <2>1. l > Failures(d)
    BY DEF Encodable
  <2>2. CASE Redundancy[d] = Full
    <3>1. Failures(d) = l - 1
      BY <2>2 DEF Failures
    <3>2. l \in Nat \ {0}
      BY <1>2
    <3> HIDE DEF l
    <3>3. l - 1 \in Nat
      BY <3>2
    <3>4. QED
      BY <2>1, <3>1, <3>3
  <2>3. CASE Redundancy[d] # Full
    <3>1. Redundancy[d] \in Nat
      BY <2>3, VDiskAssumption
    <3>2. Failures(d) = Redundancy[d]
      BY <2>3 DEF Failures
    <3>3. QED
      BY <2>1, <3>1, <3>2
  <2>4. QED
    BY <2>1, <2>2, <2>3
<1>4. Encoded(d, x) = [data |-> x, k |-> k, n |-> n]
  BY DEF Encoded
<1>5. n >= l /\ n \in Nat
  BY <1>2, PowerFacts
<1> HIDE DEF l, n
<1>6. k \in 1 .. MaxSlots /\ k <= l
  BY <1>1, <1>2, <1>3
<1> HIDE DEF k
<1>7. n \in {PowerOfTwo(m) : m \in 1 .. MaxSlots}
  BY <1>2 DEF n
<1>8. [data |-> x, k |-> k, n |-> n]
        \in [data : Data, k : 1 .. MaxSlots, n : {PowerOfTwo(m) : m \in 1 .. MaxSlots}]
  BY <1>6, <1>7
<1>9. Content = [data : Data, k : 1 .. MaxSlots, n : {PowerOfTwo(m) : m \in 1 .. MaxSlots}]
  BY VDiskAssumption
<1>10. QED
  BY <1>2, <1>4, <1>5, <1>6, <1>8, <1>9 DEF l
(***************************************************************************)
(* The steps.                                                              *)
(***************************************************************************)

(* Chunks stay where they are. *)
LEMMA PlacedStays ==
    ASSUME NEW e \in VEntry, NEW h, NEW g, Placed(e, h), \A s \in Store : h[s] \subseteq g[s]
    PROVE  Placed(e, g)
<1>1. SUFFICES ASSUME e.devs # <<>>, NEW i \in 0 .. e.content.n - 1
               PROVE  chunk(e.content, i) \in g[StoreOf(e.devs, e.content, i)]
  BY DEF Placed
<1>2. e.devs \in Seq(Store) /\ e.content \in Content
  BY DEF VEntry
<1>3. Len(e.devs) \in Nat \ {0} /\ DOMAIN e.devs = 1 .. Len(e.devs)
  BY <1>1, <1>2
<1>4. e.content.n \in Nat
  BY <1>2, ContentFacts
<1>5. i \in Nat
  BY <1>4
<1> DEFINE l == Len(e.devs)
           r == i % l
<1>6. l \in Nat \ {0} /\ r \in 0 .. l - 1
  BY <1>3, <1>5, DivMod
<1> HIDE DEF l, r
<1>7. r + 1 \in 1 .. l
  BY <1>6
<1>8. StoreOf(e.devs, e.content, i) \in Store
  BY <1>2, <1>3, <1>7 DEF StoreOf, l, r
<1>9. QED
  BY <1>1, <1>8 DEF Placed

(* The entry a file is given after its shards were put. *)
LEMMA EntryFacts ==
    ASSUME DisksOK, StoresOK, NEW d \in Disk, attachments[d] # <<>>, Encodable(d), NEW x \in Data,
           NEW t \in Time
    PROVE  LET v == Encoded(d, x)
               st == Distributed(attachments[d], v)
           IN  /\ Entry(d, v, t) \in VEntry /\ st \in Reach(Before)
               /\ st.ok => Placed(Entry(d, v, t), st.held)
<1> DEFINE v == Encoded(d, x)
           devs == attachments[d]
           st == Distributed(devs, v)
           e == Entry(d, v, t)
<1>1. v \in Content /\ v.k <= Len(devs) /\ Len(devs) <= v.n
  BY EncodedFacts
<1>2. devs \in Seq(Attached) /\ capacity \in [Store -> Nat \cup {NoStore}]
  BY DEF DisksOK
<1>3. Before \in StoreState /\ Accounted(Before)
  BY DEF StoresOK
<1>4. devs \in Seq(Store)
  BY <1>2 DEF Attached
<1>5. e = [content |-> v, ts |-> t, dev |-> "vdisk", deleted |-> FALSE, devs |-> devs]
  BY DEF Entry
<1> HIDE DEF v, devs
<1>6. /\ st \in Reach(Before)
      /\ st.ok => \A i \in 0 .. v.n - 1 : chunk(v, i) \in st.held[StoreOf(devs, v, i)]
  BY <1>1, <1>2, <1>3, DistributedFacts DEF devs
<1> HIDE DEF st, e
<1>7. e \in VEntry
  BY <1>1, <1>4, <1>5, VDiskAssumption DEF VEntry
<1>8. e.content = v /\ e.devs = devs
  BY <1>5
<1>9. st.ok => Placed(e, st.held)
  BY <1>1, <1>6, <1>8 DEF Placed
<1>10. QED
  BY <1>6, <1>7, <1>9 DEF v, devs, st, e

(* Which entry a name has after an insert: the one it had or the new one. *)
LEMMA InsertFacts ==
    ASSUME FilesOK, NEW h, \A s \in Store : held[s] \subseteq h[s], NEW f \in Name,
           NEW e \in VEntry, Placed(e, h)
    PROVE  LET r == lww_insert(registry, f, e)
           IN  /\ r \in [Name -> VEntry \cup {NoEntry}]
               /\ \A g \in Held(r) : Placed(r[g], h)
               /\ Held(r) = Held(registry) \cup {f}
               /\ \A g \in Name : g # f => r[g] = registry[g]
               /\ r[f] = LwwPick(f, registry[f], e)
<1> DEFINE r == lww_insert(registry, f, e)
<1>1. registry \in [Name -> VEntry \cup {NoEntry}]
  BY DEF FilesOK
<1>2. e # NoEntry
  BY VDiskAssumption DEF VEntry
<1>3. r = [registry EXCEPT ![f] = LwwPick(f, registry[f], e)]
  BY DEF lww_insert
<1>4. /\ LwwPick(f, registry[f], e) \in {registry[f], e}
      /\ LwwPick(f, registry[f], e) # NoEntry
  BY <1>2 DEF LwwPick
<1>5. r \in [Name -> VEntry \cup {NoEntry}] /\ r[f] = LwwPick(f, registry[f], e)
      /\ \A g \in Name : g # f => r[g] = registry[g]
  BY <1>1, <1>3, <1>4
<1> HIDE DEF r
<1>6. Held(r) = Held(registry) \cup {f}
  BY <1>4, <1>5 DEF Held
<1>7. ASSUME NEW g \in Held(r) PROVE Placed(r[g], h)
  <2>1. CASE g = f /\ r[f] = e
    BY <2>1
  <2>2. CASE g \in Held(registry) /\ r[g] = registry[g]
    <3>1. registry[g] \in VEntry /\ Placed(registry[g], held)
      BY <2>2, HeldFacts DEF FilesOK
    <3>2. QED
      BY <2>2, <3>1, PlacedStays
  <2>3. QED
    <3>1. g \in Name /\ r[g] # NoEntry
      BY <1>7 DEF Held
    <3>2. (g = f /\ r[f] = e) \/ r[g] = registry[g]
      BY <1>4, <1>5, <3>1
    <3>3. r[g] = registry[g] => g \in Held(registry)
      BY <3>1 DEF Held
    <3>4. QED
      BY <2>1, <2>2, <3>2, <3>3
<1>8. QED
  BY <1>5, <1>6, <1>7 DEF r

(* The stores after puts, and the files that were there before them. *)
LEMMA StoresStep ==
    ASSUME VInv, NEW st \in Reach(Before), held' = st.held, used' = st.used, UNCHANGED capacity
    PROVE  StoresOK' /\ \A s \in Store : held[s] \subseteq held'[s]
<1>1. st \in StoreState /\ Accounted(st) /\ Grown(Before, st)
  BY DEF Reach
<1>2. st.held \in [Store -> SUBSET Chunk] /\ st.used \in [Store -> Nat]
  BY <1>1 DEF StoreState
<1>3. Before' = [held |-> st.held, used |-> st.used, ok |-> TRUE]
  BY DEF Before
<1>4. Before' \in StoreState /\ Before'.held = st.held /\ Before'.used = st.used
  BY <1>2, <1>3 DEF StoreState
<1>5. (Before \in StoreState)'
  BY <1>4 DEF StoreState, Chunk, chunk, Grid
<1>6. Accounted(Before)'
  BY <1>1, <1>4 DEF Accounted, ChunkSize, Size, Chunk, chunk, Grid
<1>7. Before.held = held
  BY DEF Before
<1>8. QED
  BY <1>1, <1>5, <1>6, <1>7 DEF Grown, StoresOK

(* What the parts of the invariant depend on. *)
LEMMA DisksStays == ASSUME DisksOK, UNCHANGED <<now, disks, attachments, capacity>> PROVE DisksOK'
  BY DEF DisksOK, Attached

(* The stores depend on capacity, content and counter alone. *)
LEMMA StoresStay == ASSUME StoresOK, UNCHANGED <<capacity, held, used>> PROVE StoresOK'
  BY DEF StoresOK, Before, StoreState, Accounted

(* The files depend on what is held and registered alone. *)
LEMMA FilesStay == ASSUME FilesOK, UNCHANGED <<held, registry>> PROVE FilesOK'
  BY DEF FilesOK, Placed

(* A call that has ended is in order. *)
LEMMA CallIdle == ASSUME call' = NoCall PROVE CallOK'
  BY DEF CallOK

(* The initial state. *)
LEMMA VInvInit == Init => VInv
<1> SUFFICES ASSUME Init PROVE VInv
  OBVIOUS
<1> USE DEF Init
<1>1. DisksOK
  <2>1. 0 \in Time
    BY RegistryAssumption DEF Time
  <2>2. <<>> \in Seq(Attached) /\ Len(<<>>) = 0
    OBVIOUS
  <2>3. \A d \in Disk : Slots[d] >= 0
    BY VDiskAssumption
  <2>4. QED
    BY <2>1, <2>2, <2>3 DEF DisksOK
<1>2. StoresOK
  <2>1. Before = [held |-> [s \in Store |-> {}], used |-> [s \in Store |-> 0], ok |-> TRUE]
    BY DEF Before
  <2>2. Before \in StoreState
    BY <2>1 DEF StoreState
  <2>3. IsFiniteSet({}) /\ Total(ChunkSize, {}) = 0
    BY SizeFacts, FS_EmptySet, TotalFacts
  <2>4. \A s \in Store : capacity[s] = NoStore /\ NoStore \notin Nat
    BY VDiskAssumption
  <2>5. Accounted(Before)
    BY <2>1, <2>3, <2>4 DEF Accounted
  <2>6. QED
    BY <2>2, <2>5 DEF StoresOK
<1>3. FilesOK
  BY DEF FilesOK, Held, Empty
<1>4. QED
  BY <1>1, <1>2, <1>3 DEF VInv, CallOK

(* A store that is attached for the first time is empty, and one that was  *)
(* keeps the capacity it has.                                              *)
LEMMA AttachStep ==
    ASSUME VInv, NEW s \in Store, NEW d \in Disk, NEW c \in Offer[s], attach(s, d, c)
    PROVE  VInv'
<1>1. c \in Nat /\ NoStore \notin Nat
  BY VDiskAssumption
<1>2. /\ call = NoCall /\ Len(attachments[d]) < Slots[d]
      /\ attachments' = [attachments EXCEPT ![d] = Append(@, s)] /\ capacity' = StoreOpened(s, c)
      /\ now' = now /\ disks' = disks /\ held' = held /\ used' = used /\ registry' = registry
      /\ call' = call
  BY DEF attach, Idle
<1>3. /\ now \in Time /\ disks \in SUBSET Disk /\ capacity \in [Store -> Nat \cup {NoStore}]
      /\ attachments \in [Disk -> Seq(Attached)]
      /\ \A e \in Disk : Len(attachments[e]) <= Slots[e]
  BY DEF VInv, DisksOK
<1>4. /\ capacity' \in [Store -> Nat \cup {NoStore}] /\ capacity'[s] \in Nat
      /\ \A t \in Store : capacity[t] # NoStore => capacity'[t] = capacity[t]
      /\ \A t \in Store : t # s => capacity'[t] = capacity[t]
  BY <1>1, <1>2, <1>3 DEF StoreOpened
<1>5. s \in Attached' /\ Attached \subseteq Attached'
  BY <1>1, <1>4 DEF Attached
<1>6. DisksOK'
  <2> DEFINE A == Attached
             B == Attached'
  <2> HIDE DEF A, B
  <2>1. attachments \in [Disk -> Seq(A)] /\ A \subseteq B /\ s \in B
    BY <1>3, <1>5 DEF A, B
  <2>2. ASSUME NEW e \in Disk PROVE attachments'[e] \in Seq(B) /\ Len(attachments'[e]) <= Slots[e]
    <3> DEFINE q == attachments[e]
    <3>1. q \in Seq(B) /\ Len(q) <= Slots[e] /\ Slots[e] \in Nat
      BY <1>3, <2>1, VDiskAssumption
    <3>2. CASE e # d
      <4>1. attachments'[e] = q
        BY <1>2, <1>3, <3>2
      <4>2. QED
        BY <3>1, <4>1
    <3>3. CASE e = d
      <4>1. attachments'[e] = Append(q, s) /\ Len(q) < Slots[e]
        BY <1>2, <1>3, <3>3
      <4> HIDE DEF q
      <4>2. Append(q, s) \in Seq(B) /\ Len(Append(q, s)) = Len(q) + 1 /\ Len(q) \in Nat
        BY <2>1, <3>1
      <4>3. QED
        BY <3>1, <4>1, <4>2
    <3>4. QED
      BY <3>2, <3>3
  <2>3. attachments' \in [Disk -> Seq(B)]
    <3>1. DOMAIN attachments' = Disk /\ attachments' = [e \in Disk |-> attachments'[e]]
      BY <1>2, <1>3
    <3>2. QED
      BY <2>2, <3>1
  <2>4. QED
    BY <1>2, <1>3, <1>4, <2>2, <2>3 DEF DisksOK, B
<1>7. StoresOK'
  <2>1. Before' = Before /\ Before \in StoreState /\ Accounted(Before)
    BY <1>2 DEF Before, VInv, StoresOK
  <2>2. (Before \in StoreState)'
    BY <2>1 DEF StoreState
  <2>3. ASSUME NEW t \in Store
        PROVE  /\ IsFiniteSet(Before.held[t])
               /\ Before.used[t] = Total(ChunkSize, Before.held[t])
               /\ capacity'[t] \in Nat \ {0} => Before.used[t] <= capacity'[t]
               /\ capacity'[t] = NoStore => Before.held[t] = {}
    <3>1. CASE capacity[t] # NoStore \/ t # s
      BY <1>4, <2>1, <3>1 DEF Accounted
    <3>2. CASE capacity[t] = NoStore /\ t = s
      <4>1. Before.held[t] = {} /\ Before.used[t] = Total(ChunkSize, Before.held[t])
        BY <2>1, <3>2 DEF Accounted
      <4>2. Total(ChunkSize, {}) = 0
        BY SizeFacts, FS_EmptySet, TotalFacts
      <4>3. capacity'[t] # NoStore
        BY <1>1, <1>4, <3>2
      <4>4. QED
        BY <4>1, <4>2, <4>3, FS_EmptySet
    <3>3. QED
      BY <3>1, <3>2
  <2>4. Accounted(Before)'
    BY <2>1, <2>3 DEF Accounted
  <2>5. QED
    BY <2>2, <2>4 DEF StoresOK
<1>8. QED
  BY <1>2, <1>6, <1>7, FilesStay, CallIdle DEF VInv

(* put_file: the entry it makes has its shards placed. *)
LEMMA PutFileStep ==
    ASSUME VInv, NEW d \in Disk, NEW f \in Name, NEW x \in Data, put_file(d, f, x)
    PROVE  VInv'
<1> DEFINE v == Encoded(d, x)
           st == Distributed(attachments[d], v)
           e == Entry(d, v, now)
<1>1. DisksOK /\ StoresOK /\ FilesOK
  BY DEF VInv
<1>2. /\ call = NoCall /\ attachments[d] # <<>> /\ Encodable(d)
      /\ held' = st.held /\ used' = st.used
      /\ (st.ok /\ registry' = lww_insert(registry, f, e)) \/ (~ st.ok /\ UNCHANGED registry)
      /\ UNCHANGED <<now, disks, attachments, capacity, call>>
  BY DEF put_file, Idle
<1>3. now \in Time
  BY <1>1 DEF DisksOK
<1>4. e \in VEntry /\ st \in Reach(Before) /\ (st.ok => Placed(e, st.held))
  BY <1>1, <1>2, <1>3, EntryFacts
<1> HIDE DEF v, st, e
<1>5. StoresOK' /\ \A s \in Store : held[s] \subseteq held'[s]
  BY <1>2, <1>4, StoresStep
<1>6. FilesOK'
  <2>1. CASE st.ok
    <3>1. Placed(e, held') /\ registry' = lww_insert(registry, f, e)
      BY <1>2, <1>4, <2>1
    <3>2. /\ registry' \in [Name -> VEntry \cup {NoEntry}]
          /\ \A g \in Held(registry') : Placed(registry'[g], held')
      BY <1>1, <1>4, <1>5, <3>1, InsertFacts
    <3>3. QED
      BY <3>2 DEF FilesOK
  <2>2. CASE ~ st.ok
    <3>1. registry' = registry
      BY <1>2, <2>2
    <3>2. \A g \in Held(registry) : registry[g] \in VEntry /\ Placed(registry[g], held)
      BY <1>1, HeldFacts DEF FilesOK
    <3>3. \A g \in Held(registry) : Placed(registry[g], held')
      BY <1>5, <3>2, PlacedStays
    <3>4. QED
      BY <1>1, <3>1, <3>3 DEF FilesOK
  <2>3. QED
    BY <2>1, <2>2
<1>7. QED
  BY <1>1, <1>2, <1>5, <1>6, DisksStays, CallIdle DEF VInv

(* merge_registry: entries of other managers were never spread here. *)
LEMMA MergeStep == ASSUME VInv, NEW o \in Foreign, merge_registry(o) PROVE VInv'
<1> DEFINE E == [content : Content, ts : Time, dev : Device, deleted : BOOLEAN, devs : {<<>>}]
<1>1. o \in [Name -> E \cup {NoEntry}]
  BY VDiskAssumption
<1>2. \A e \in E : e \in VEntry /\ e.devs = <<>>
  <2>1. <<>> \in Seq(Store)
    OBVIOUS
  <2>2. QED
    BY <2>1 DEF VEntry
<1> HIDE DEF E
<1>3. \A e \in E : e \in VEntry /\ Placed(e, held)
  BY <1>2 DEF Placed
<1>4. registry \in [Name -> VEntry \cup {NoEntry}]
      /\ \A f \in Name : registry[f] # NoEntry => Placed(registry[f], held)
  BY DEF VInv, FilesOK, Held
<1>5. /\ registry' = merge(registry, o) /\ held' = held /\ call' = NoCall
      /\ UNCHANGED <<now, disks, attachments, capacity, held, used>>
  BY DEF merge_registry, Idle
<1>6. ASSUME NEW f \in Name
      PROVE  /\ registry'[f] \in VEntry \cup {NoEntry}
             /\ registry'[f] # NoEntry => Placed(registry'[f], held)
  <2>1. registry'[f] = registry[f] \/ (o[f] # NoEntry /\ registry'[f] = o[f])
    BY <1>5 DEF merge, LwwPick
  <2>2. o[f] # NoEntry => o[f] \in VEntry /\ Placed(o[f], held)
    BY <1>1, <1>3
  <2>3. QED
    BY <1>4, <2>1, <2>2
<1>7. registry' \in [Name -> VEntry \cup {NoEntry}]
  <2>1. registry' = [n \in Name |-> registry'[n]]
    BY <1>5 DEF merge
  <2>2. QED
    BY <1>6, <2>1
<1>8. FilesOK'
  BY <1>5, <1>6, <1>7 DEF FilesOK, Held
<1>9. QED
  BY <1>5, <1>8, DisksStays, StoresStay, CallIdle DEF VInv

(* rechunk and rebalance start with files of the registry. *)
LEMMA StartStep ==
    ASSUME VInv, NEW d \in Disk, rechunk(d) \/ rebalance(d)
    PROVE  VInv'
<1>1. /\ now' = now /\ disks' = disks /\ attachments' = attachments /\ capacity' = capacity
      /\ held' = held /\ used' = used /\ registry' = registry
  BY DEF rechunk, rebalance
<1>2. CallOK'
  <2>1. CASE rechunk(d)
    <3> DEFINE T == files_to_rechunk(d)
    <3>1. /\ call' = [op |-> "rechunk", disk |-> d, todo |-> T, done |-> {}]
          /\ Len(attachments[d]) >= 2 /\ Encodable(d)
      BY <2>1 DEF rechunk
    <3>2. T \subseteq Held(registry)
      BY DEF files_to_rechunk
    <3> HIDE DEF T
    <3>3. attachments[d] # <<>>
      BY <3>1
    <3>4. call'.disk = d /\ call'.todo = T /\ call'.done = {}
      BY <3>1
    <3>5. Encodable(d)'
      BY <1>1, <3>1 DEF Encodable, Failures
    <3>6. Rechunking'
      BY <1>1, <3>1, <3>2, <3>3, <3>4, <3>5 DEF Rechunking, Held
    <3>7. QED
      BY <3>6 DEF CallOK
  <2>2. CASE rebalance(d)
    <3> DEFINE devs == attachments[d]
               D == [i \in DOMAIN devs |-> Delta(devs, i)]
    <3>1. call' = [op |-> "rebalance", disk |-> d, todo |-> Live(registry), delta |-> D]
      BY <2>2 DEF rebalance
    <3> HIDE DEF D
    <3>2. call'.disk = d /\ call'.todo = Live(registry) /\ call'.delta = D
      BY <3>1
    <3>3. Rebalancing'
      BY <1>1, <3>1, <3>2 DEF Rebalancing, Held, Live
    <3>4. QED
      BY <3>3 DEF CallOK
  <2>3. QED
    BY <2>1, <2>2
<1>3. QED
  BY <1>1, <1>2, DisksStays, StoresStay, FilesStay DEF VInv

(* One file of rechunk: its new entry is later than the one it had. *)
LEMMA RechunkFileStep == ASSUME VInv, NEW f \in Name, RechunkFile(f) PROVE VInv'
<1> DEFINE d == call.disk
           x == registry[f].content.data
           v == Encoded(d, x)
           st == Distributed(attachments[d], v)
           t == Restamp(registry[f].ts)
           e == Entry(d, v, t)
<1>1. DisksOK /\ StoresOK /\ FilesOK /\ CallOK
  BY DEF VInv
<1>2. call.op = "rechunk" /\ f \in call.todo /\ registry[f].ts < MaxTime
      /\ UNCHANGED <<now, disks, attachments, capacity>>
  BY DEF RechunkFile
<1>3. Rechunking
  BY <1>1, <1>2 DEF CallOK, NoCall, Rebalancing
<1>4. d \in Disk /\ attachments[d] # <<>> /\ Encodable(d) /\ f \in Held(registry)
  BY <1>2, <1>3 DEF Rechunking
<1>5. x \in Data /\ registry[f].ts \in Time /\ registry[f] \in VEntry /\ registry[f] # NoEntry
  BY <1>1, <1>4, HeldFacts DEF Held
<1>6. t \in Time /\ t > registry[f].ts
  <2> DEFINE b == registry[f].ts
  <2>1. now \in 0 .. MaxTime /\ b \in 0 .. MaxTime /\ b < MaxTime /\ MaxTime \in Nat
    BY <1>1, <1>2, <1>5, RegistryAssumption DEF DisksOK, Time
  <2>2. t = IF now > b THEN now ELSE b + 1
    BY DEF Restamp
  <2> HIDE DEF b, t
  <2>3. t \in 0 .. MaxTime /\ t > b
    BY <2>1, <2>2
  <2>4. QED
    BY <2>3 DEF b, Time
<1> HIDE DEF t
<1>7. e \in VEntry /\ st \in Reach(Before) /\ (st.ok => Placed(e, st.held))
  BY <1>1, <1>4, <1>5, <1>6, EntryFacts
<1>8. v.data = x
  BY <1>1, <1>4, <1>5, EncodedFacts
<1>9. e.content = v /\ e.ts = t
  BY DEF Entry
<1>10. DisksOK'
  BY <1>1, <1>2, DisksStays
<1>11. /\ call = [op |-> "rechunk", disk |-> d, todo |-> call.todo, done |-> call.done]
       /\ call.todo \subseteq Held(registry) /\ call.done \subseteq Held(registry)
       /\ call.todo \cap call.done = {}
       /\ \A g \in call.done : registry[g].content = Encoded(d, registry[g].content.data)
  BY <1>3 DEF Rechunking
<1>12. \A c, y : Encodable(c)' = Encodable(c) /\ Encoded(c, y)' = Encoded(c, y)
  BY <1>2 DEF Encodable, Encoded, Failures
<1>13. CASE /\ ~ Readable(f)
            /\ call' = [call EXCEPT !.todo = @ \ {f}]
            /\ UNCHANGED <<held, used, registry>>
  <2>1. call' = [op |-> "rechunk", disk |-> d, todo |-> call.todo \ {f}, done |-> call.done]
    BY <1>11, <1>13
  <2>2. call'.disk = d /\ call'.todo = call.todo \ {f} /\ call'.done = call.done
    BY <2>1
  <2>3. Rechunking'
    BY <1>2, <1>4, <1>11, <1>12, <1>13, <2>1, <2>2 DEF Rechunking, Held
  <2>4. QED
    BY <1>1, <1>2, <1>10, <1>13, <2>3, StoresStay, FilesStay DEF VInv, CallOK
<1>14. CASE /\ Readable(f) /\ st.ok
            /\ held' = st.held /\ used' = st.used
            /\ registry' = lww_insert(registry, f, e)
            /\ call' = [op |-> "rechunk", disk |-> call.disk,
                         todo |-> call.todo \ {f}, done |-> call.done \cup {f}]
  <2>1. call' = [op |-> "rechunk", disk |-> d, todo |-> call.todo \ {f}, done |-> call.done \cup {f}]
    BY <1>14
  <2>2. call'.disk = d /\ call'.todo = call.todo \ {f} /\ call'.done = call.done \cup {f}
    BY <2>1
  <2> HIDE DEF st, e
  <2>3. StoresOK' /\ \A s \in Store : held[s] \subseteq held'[s]
    BY <1>2, <1>7, <1>14, StoresStep
  <2>4. Placed(e, held')
    BY <1>7, <1>14
  <2>5. /\ registry' \in [Name -> VEntry \cup {NoEntry}]
        /\ \A g \in Held(registry') : Placed(registry'[g], held')
        /\ Held(registry') = Held(registry) \cup {f}
        /\ \A g \in Name : g # f => registry'[g] = registry[g]
        /\ registry'[f] = LwwPick(f, registry[f], e)
    BY <1>1, <1>7, <1>14, <2>3, <2>4, InsertFacts
  <2>6. FilesOK'
    BY <2>5 DEF FilesOK
  <2>7. registry'[f] = e
    BY <1>6, <1>9, <2>5 DEF LwwPick, Beats
  <2>8. ASSUME NEW g \in call.done \cup {f}
        PROVE  registry'[g].content = Encoded(d, registry'[g].content.data)
    <3>1. CASE g = f
      BY <1>8, <1>9, <2>7, <3>1 DEF v
    <3>2. CASE g # f
      <4>1. g \in call.done /\ g \in Name
        BY <1>11, <3>2 DEF Held
      <4>2. registry'[g] = registry[g]
        BY <2>5, <3>2, <4>1
      <4>3. QED
        BY <1>11, <4>1, <4>2
    <3>3. QED
      BY <3>1, <3>2
  <2> HIDE DEF d
  <2>9. \A g \in call'.done : registry'[g].content = Encoded(call.disk, registry[g].content.data)'
    BY <1>12, <2>2, <2>8 DEF d
  <2>10. /\ call'.todo \subseteq Held(registry') /\ call'.done \subseteq Held(registry')
         /\ call'.todo \cap call'.done = {}
    BY <1>11, <2>2, <2>5
  <2>11. Rechunking'
    BY <1>2, <1>4, <1>12, <2>1, <2>2, <2>9, <2>10 DEF Rechunking
  <2>12. QED
    BY <1>10, <2>3, <2>6, <2>11 DEF VInv, CallOK
<1>15. CASE /\ Readable(f) /\ ~ st.ok
            /\ held' = st.held /\ used' = st.used
            /\ call' = NoCall
            /\ UNCHANGED registry
  <2> HIDE DEF st
  <2>1. StoresOK' /\ \A s \in Store : held[s] \subseteq held'[s]
    BY <1>2, <1>7, <1>15, StoresStep
  <2>2. \A g \in Held(registry) : registry[g] \in VEntry /\ Placed(registry[g], held)
    BY <1>1, HeldFacts DEF FilesOK
  <2>3. \A g \in Held(registry) : Placed(registry[g], held')
    BY <2>1, <2>2, PlacedStays
  <2>4. FilesOK'
    BY <1>1, <1>15, <2>3 DEF FilesOK
  <2>5. QED
    BY <1>10, <1>15, <2>1, <2>4, CallIdle DEF VInv
<1>16. QED
  BY <1>13, <1>14, <1>15 DEF RechunkFile, t

(* One file of rebalance: chunks are only copied. *)
LEMMA RebalanceFileStep == ASSUME VInv, NEW f \in Name, RebalanceFile(f) PROVE VInv'
<1> DEFINE st == Rebalanced(registry[f].content)
<1>1. DisksOK /\ StoresOK /\ FilesOK /\ CallOK
  BY DEF VInv
<1>2. /\ call.op = "rebalance" /\ f \in call.todo
      /\ held' = st.held /\ used' = st.used /\ call' = [call EXCEPT !.todo = @ \ {f}]
      /\ UNCHANGED <<now, disks, attachments, capacity, registry>>
  BY DEF RebalanceFile
<1>3. Rebalancing
  BY <1>1, <1>2 DEF CallOK, NoCall, Rechunking
<1>4. call.disk \in Disk /\ f \in Held(registry)
  BY <1>2, <1>3 DEF Rebalancing
<1>5. registry[f].content \in Content
  BY <1>1, <1>4, HeldFacts
<1>6. attachments[call.disk] \in Seq(Attached) /\ capacity \in [Store -> Nat \cup {NoStore}]
  BY <1>1, <1>4 DEF DisksOK
<1>7. st \in Reach(Before)
  BY <1>1, <1>5, <1>6, RebalancedFacts DEF StoresOK
<1> HIDE DEF st
<1>8. StoresOK' /\ \A s \in Store : held[s] \subseteq held'[s]
  BY <1>2, <1>7, StoresStep
<1>9. \A g \in Held(registry) : registry[g] \in VEntry /\ Placed(registry[g], held)
  BY <1>1, HeldFacts DEF FilesOK
<1>10. \A g \in Held(registry) : Placed(registry[g], held')
  BY <1>8, <1>9, PlacedStays
<1>11. FilesOK'
  BY <1>1, <1>2, <1>10 DEF FilesOK
<1>12. call' = [op |-> "rebalance", disk |-> call.disk, todo |-> call.todo \ {f}, delta |-> call.delta]
  BY <1>2, <1>3 DEF Rebalancing
<1>13. Rebalancing'
  <2>1. call'.disk = call.disk /\ call'.todo = call.todo \ {f} /\ call'.delta = call.delta
    BY <1>12
  <2>2. QED
    BY <1>2, <1>3, <1>12, <2>1 DEF Rebalancing
<1>14. QED
  BY <1>1, <1>2, <1>8, <1>11, <1>13, DisksStays DEF VInv, CallOK

(* The whole step. *)
LEMMA VInvStep == VInv /\ [Next]_vars => VInv'
<1> SUFFICES ASSUME VInv, [Next]_vars PROVE VInv'
  OBVIOUS
<1>1. CASE Tick
  <2>1. now' \in Time
    BY <1>1, RegistryAssumption DEF Tick, VInv, DisksOK, Time
  <2>2. DisksOK'
    BY <1>1, <2>1 DEF Tick, VInv, DisksOK, Attached
  <2>3. QED
    BY <1>1, <2>2, StoresStay, FilesStay, CallIdle DEF Tick, VInv, Idle
<1>2. CASE \E d \in Disk : create_disk(d)
  <2>1. DisksOK'
    BY <1>2 DEF create_disk, VInv, DisksOK, Attached
  <2>2. QED
    BY <1>2, <2>1, StoresStay, FilesStay, CallIdle DEF create_disk, VInv, Idle
<1>3. CASE \E s \in Store, d \in Disk : \E c \in Offer[s] : attach(s, d, c)
  BY <1>3, AttachStep
<1>4. CASE \E d \in Disk, f \in Name, x \in Data : put_file(d, f, x)
  BY <1>4, PutFileStep
<1>5. CASE \E o \in Foreign : merge_registry(o)
  BY <1>5, MergeStep
<1>6. CASE \E d \in Disk : rechunk(d)
  BY <1>6, StartStep
<1>7. CASE \E f \in Name : RechunkFile(f)
  BY <1>7, RechunkFileStep
<1>8. CASE \E d \in Disk : rebalance(d)
  BY <1>8, StartStep
<1>9. CASE \E f \in Name : RebalanceFile(f)
  BY <1>9, RebalanceFileStep
<1>10. CASE Return
  BY <1>10, DisksStays, StoresStay, FilesStay, CallIdle DEF Return, VInv
<1>11. CASE UNCHANGED vars
  <2>1. CallOK'
    BY <1>11 DEF vars, VInv, CallOK, Rechunking, Rebalancing, Encodable, Encoded, Failures, Held
  <2>2. QED
    BY <1>11, <2>1, DisksStays, StoresStay, FilesStay DEF vars, VInv
<1>12. QED
  BY <1>1, <1>2, <1>3, <1>4, <1>5, <1>6, <1>7, <1>8, <1>9, <1>10, <1>11 DEF Next

(* The invariant of the virtual disk. *)
LEMMA VInvHolds == Spec => []VInv
  BY VInvInit, VInvStep, PTL DEF Spec

(***************************************************************************)
(* The theorems.                                                           *)
(***************************************************************************)

(* The types of the manager's state. *)
THEOREM TypeOKHolds == Spec => []TypeOK
<1>1. ASSUME VInv PROVE TypeOK
  <2>1. /\ now \in Time /\ disks \subseteq Disk /\ capacity \in [Store -> Nat \cup {NoStore}]
        /\ \A d \in Disk : attachments[d] \in Seq(Attached)
    BY <1>1 DEF VInv, DisksOK
  <2>2. held \in [Store -> SUBSET Chunk] /\ used \in [Store -> Nat]
    <3>1. Before.held = held /\ Before.used = used /\ Before \in StoreState
      BY <1>1 DEF Before, VInv, StoresOK
    <3>2. QED
      BY <3>1 DEF StoreState
  <2>3. \A f \in Held(registry) :
           /\ registry[f].content \in Content /\ registry[f].ts \in Time
           /\ registry[f].dev \in Device /\ registry[f].deleted \in BOOLEAN
    BY <1>1, HeldFacts DEF VInv, VEntry
  <2>4. call.op \in {"none", "rechunk", "rebalance"}
    BY <1>1 DEF VInv, CallOK, NoCall, Rechunking, Rebalancing
  <2>5. QED
    BY <2>1, <2>2, <2>3, <2>4 DEF TypeOK, Attached
<1>2. QED
  BY <1>1, VInvHolds, PTL

(* What rechunk has rewritten has the k and n of the disk as it is, for    *)
(* any clocks: the timestamp of the rewrite is above the one it replaces.  *)
THEOREM RechunkSupersedesHolds == Spec => []RechunkSupersedes
<1>1. ASSUME VInv PROVE RechunkSupersedes
  <2>1. SUFFICES ASSUME call.op = "rechunk"
                 PROVE  \A f \in call.done :
                            registry[f].content = Encoded(call.disk, registry[f].content.data)
    BY DEF RechunkSupersedes
  <2>2. Rechunking
    BY <1>1, <2>1 DEF VInv, CallOK, NoCall, Rebalancing
  <2>3. QED
    BY <2>2 DEF Rechunking
<1>2. QED
  BY <1>1, VInvHolds, PTL

(* The counter of a store is the sum of the sizes of its chunks and stays  *)
(* within its capacity, for any stores, files and chunk sizes.             *)
THEOREM SpaceAccountedHolds == Spec => []SpaceAccounted
<1>1. ASSUME VInv PROVE SpaceAccounted
  <2>1. Before.held = held /\ Before.used = used /\ Accounted(Before)
    BY <1>1 DEF Before, VInv, StoresOK
  <2>2. capacity \in [Store -> Nat \cup {NoStore}]
    BY <1>1 DEF VInv, DisksOK
  <2>3. QED
    BY <2>1, <2>2 DEF SpaceAccounted, Accounted
<1>2. QED
  BY <1>1, VInvHolds, PTL

(* Of the stores a file was spread over, those that are not lost hold      *)
(* distinct shards.                                                        *)
LEMMA SurvivorsHold ==
    ASSUME VInv, NEW f \in Held(registry), registry[f].devs # <<>>, IsInjective(registry[f].devs),
           NEW Lost \in SUBSET Store, Cardinality(Lost) <= Len(registry[f].devs) - registry[f].content.k
    PROVE  Cardinality(Available(registry[f].content, Lost)) >= registry[f].content.k
<1> DEFINE v == registry[f].content
           devs == registry[f].devs
           l == Len(devs)
           I == 0 .. l - 1
           B == {j \in I : devs[j + 1] \in Lost}
           J == I \ B
           A == Available(v, Lost)
<1>1. FilesOK
  BY DEF VInv
<1>2. v \in Content /\ devs \in Seq(Store)
  BY <1>1, HeldFacts
<1>3. l \in Nat \ {0} /\ DOMAIN devs = 1 .. l
  BY <1>2
<1>4. v.k \in Nat /\ v.n \in Nat
  BY <1>2, ContentFacts
<1>5. /\ v.k <= l /\ l <= v.n
      /\ \A i \in 0 .. v.n - 1 : chunk(v, i) \in held[StoreOf(devs, v, i)]
  BY <1>1 DEF FilesOK, Placed
<1>6. IsFiniteSet(Lost) /\ Cardinality(Lost) <= l - v.k
  BY VDiskAssumption, FS_Subset
<1> HIDE DEF v, l
<1>7. B \subseteq I /\ IsFiniteSet(I) /\ Cardinality(I) = l
  <2>1. B \subseteq I
    OBVIOUS
  <2>2. 0 \in Int /\ l - 1 \in Int /\ ~ (0 > l - 1) /\ (l - 1) - 0 + 1 = l
    BY <1>3
  <2>3. IsFiniteSet(I) /\ Cardinality(I) = (l - 1) - 0 + 1
    BY <2>2, FS_Interval, Zenon
  <2>4. QED
    BY <2>1, <2>2, <2>3
<1>8. Cardinality(B) <= Cardinality(Lost)
  <2> DEFINE g == [j \in B |-> devs[j + 1]]
  <2>1. g \in [B -> Lost]
    OBVIOUS
  <2>2. ASSUME NEW a \in B, NEW b \in B, g[a] = g[b] PROVE a = b
    <3>1. a \in I /\ b \in I
      OBVIOUS
    <3>2. a + 1 \in DOMAIN devs /\ b + 1 \in DOMAIN devs
      BY <1>3, <3>1
    <3>3. devs[a + 1] = devs[b + 1]
      BY <2>2
    <3>4. a + 1 = b + 1
      BY <3>2, <3>3 DEF IsInjective
    <3>5. QED
      BY <1>3, <3>1, <3>4
  <2>3. g \in Injection(B, Lost)
    BY <2>1, <2>2 DEF Injection, IsInjective
  <2> HIDE DEF g, B
  <2>4. QED
    BY <1>6, <2>3, FS_Injection
<1>9. J \subseteq A
  <2>1. SUFFICES ASSUME NEW j \in J PROVE j \in A
    OBVIOUS
  <2>2. j \in I /\ devs[j + 1] \notin Lost
    BY <2>1
  <2>3. j \in 0 .. v.n - 1 /\ j + 1 \in DOMAIN devs
    BY <1>3, <1>4, <1>5, <2>2
  <2>4. j % l = j
    BY <1>3, <2>2, ModSmall
  <2>5. StoreOf(devs, v, j) = devs[j + 1]
    BY <2>4 DEF StoreOf, l
  <2>6. chunk(v, j) \in held[devs[j + 1]] /\ devs[j + 1] \in Store \ Lost
    BY <1>2, <1>5, <2>2, <2>3, <2>5
  <2>7. QED
    BY <2>3, <2>6 DEF Available
<1>10. IsFiniteSet(A)
  <2> DEFINE N == 0 .. v.n - 1
  <2>1. A \subseteq N
    BY DEF Available
  <2>2. 0 \in Int /\ v.n - 1 \in Int
    BY <1>4
  <2>3. IsFiniteSet(N)
    BY <2>2, FS_Interval
  <2> HIDE DEF A, N
  <2>4. QED
    BY <2>1, <2>3, FS_Subset
<1> HIDE DEF I, B, A
<1>11. Cardinality(J) = l - Cardinality(B) /\ IsFiniteSet(J)
  <2>1. I \cap B = B
    BY <1>7
  <2>2. IsFiniteSet(I \ B) /\ Cardinality(I \ B) = Cardinality(I) - Cardinality(I \cap B)
    BY <1>7, FS_Difference, Zenon
  <2>3. QED
    BY <1>7, <2>1, <2>2
<1>12. Cardinality(J) <= Cardinality(A)
  BY <1>9, <1>10, FS_Subset
<1>13. /\ Cardinality(B) \in Nat /\ Cardinality(Lost) \in Nat /\ Cardinality(A) \in Nat
       /\ Cardinality(J) \in Nat
  <2>1. IsFiniteSet(B)
    BY <1>7, FS_Subset
  <2>2. QED
    BY <1>6, <1>10, <1>11, <2>1, FS_CardinalityType
<1>14. Cardinality(A) >= v.k
  BY <1>3, <1>4, <1>6, <1>8, <1>11, <1>12, <1>13
<1>15. QED
  BY <1>14 DEF A, v

(* A file that was spread over distinct stores is read back after the loss *)
(* of any f of all stores, for any number of them and any redundancy.      *)
THEOREM ToleratesLossesHolds == Spec => []ToleratesLosses
<1>1. ASSUME VInv PROVE ToleratesLosses
  <2>1. SUFFICES ASSUME NEW f \in Held(registry), registry[f].devs # <<>>, IsInjective(registry[f].devs),
                        NEW Lost \in SUBSET Store,
                        Cardinality(Lost) <= Len(registry[f].devs) - registry[f].content.k
                 PROVE  Cardinality(Available(registry[f].content, Lost)) >= registry[f].content.k
    BY DEF ToleratesLosses, Live
  <2>2. QED
    BY <1>1, <2>1, SurvivorsHold
<1>2. QED
  BY <1>1, VInvHolds, PTL
=============================================================================
