-------------------------- MODULE Reconcile_proofs --------------------------
(***************************************************************************)
(* Proofs about Reconcile, for any number of nodes, neurons and signals    *)
(* and any order and multiplicity of deliveries.                           *)
(***************************************************************************)
EXTENDS Reconcile, SequenceTheorems, WellFoundedInduction, TLAPS

(* What a fork choice may return. *)
Verdict == {resolve_key(I, k) : I \in SUBSET Signal, k \in Key} \cup {None}

(* Nodes index signed signals only, and the variables have their shape. *)
Shape ==
    /\ net \in SUBSET Signal
    /\ index \in [Node -> SUBSET net]
    /\ told \in [Node -> [Key -> Verdict]]
    /\ chain \in [Node -> [Neuron -> Seq(net)]]
    /\ blamed \in [Node -> SUBSET Neuron]

(* What the assumptions say of one signal. *)
LEMMA SignalFacts ==
    ASSUME NEW s \in Signal
    PROVE  /\ s.neuron \in Neuron /\ s.step \in Nat /\ s.step \in Step /\ s.id \in Nat
           /\ equivocation_key(s) \in Key
  <1>1. s.neuron \in Neuron /\ s.step \in Step /\ s.id \in Nat
    BY ReconcileAssumption
  <1>2. MaxStep \in Nat
    BY ReconcileAssumption
  <1>3. s.step \in Nat
    BY <1>1, <1>2 DEF Step
  <1>4. QED
    BY <1>1, <1>3 DEF equivocation_key, Key

(* Updating a function of two arguments at one place. *)
LEMMA UpdateAt ==
    ASSUME NEW A, NEW B, NEW S, NEW f \in [A -> [B -> S]], NEW a \in A, NEW b \in B, NEW x \in S
    PROVE  /\ [f EXCEPT ![a][b] = x] \in [A -> [B -> S]]
           /\ \A c \in A, d \in B : [f EXCEPT ![a][b] = x][c][d]
                                      = IF c = a /\ d = b THEN x ELSE f[c][d]
  OBVIOUS

(* The shape is preserved by every step. *)
LEMMA ShapeStep ==
    ASSUME Shape, [Next]_vars
    PROVE  Shape'
  <1>1. CASE UNCHANGED vars
    BY <1>1 DEF Shape, vars
  <1>2. ASSUME NEW s \in Signal, Sign(s)
        PROVE  Shape'
    <2>1. net' \in SUBSET Signal /\ net \subseteq net'
      BY <1>2 DEF Sign, Shape
    <2>2. index' \in [Node -> SUBSET net']
      BY <1>2, <2>1 DEF Sign, Shape
    <2>3. \A q \in Seq(net) : q \in Seq(net')
      BY <2>1
    <2>4. chain' \in [Node -> [Neuron -> Seq(net')]]
      BY <1>2, <2>3 DEF Sign, Shape
    <2>5. QED
      BY <1>2, <2>1, <2>2, <2>4 DEF Sign, Shape
  <1>3. ASSUME NEW n \in Node, NEW s \in Signal, Observe(n, s)
        PROVE  Shape'
    <2>1. equivocation_key(s) \in Key
      BY SignalFacts
    <2>2. resolve_key(index[n] \cup {s}, equivocation_key(s)) \in Verdict
      BY <2>1, <1>3 DEF Verdict, Shape
    <2>3. told' \in [Node -> [Key -> Verdict]]
      BY <1>3, <2>1, <2>2 DEF Observe, Shape
    <2>4. index' \in [Node -> SUBSET net]
      BY <1>3 DEF Observe, Shape
    <2>5. QED
      BY <1>3, <2>3, <2>4 DEF Observe, Shape
  <1>4. ASSUME NEW n \in Node, NEW s \in Signal, Append_(n, s)
        PROVE  Shape'
    <2>1. s.neuron \in Neuron
      BY SignalFacts
    <2>2. Append(chain[n][s.neuron], s) \in Seq(net)
      BY <2>1, <1>4 DEF Append_, Shape
    <2>c. \/ chain' = [chain EXCEPT ![n][s.neuron] = Append(@, s)]
          \/ chain' = chain
      BY <1>4, Zenon DEF Append_
    <2>b. \/ blamed' = [blamed EXCEPT ![n] = @ \cup {s.neuron}]
          \/ blamed' = blamed
      BY <1>4, Zenon DEF Append_, Equivocation
    <2>u. PICK u \in Neuron : u = s.neuron
      BY <2>1
    <2>3. chain' \in [Node -> [Neuron -> Seq(net)]]
      <3>1. Append(chain[n][u], s) \in Seq(net)
        BY <2>2, <2>u
      <3>2. chain' = [chain EXCEPT ![n][u] = Append(chain[n][u], s)] \/ chain' = chain
        BY <2>c, <2>u
      <3>3. chain \in [Node -> [Neuron -> Seq(net)]]
        BY DEF Shape
      <3>4. [chain EXCEPT ![n][u] = Append(chain[n][u], s)] \in [Node -> [Neuron -> Seq(net)]]
        BY <3>1, <3>3, UpdateAt
      <3>5. QED
        BY <3>2, <3>3, <3>4
    <2>4. blamed' \in [Node -> SUBSET Neuron]
      <3>1. blamed' = [blamed EXCEPT ![n] = blamed[n] \cup {u}] \/ blamed' = blamed
        BY <2>b, <2>u
      <3>2. blamed \in [Node -> SUBSET Neuron]
        BY DEF Shape
      <3>3. QED
        BY <3>1, <3>2
    <2>5. QED
      BY <1>4, <2>3, <2>4 DEF Append_, Shape
  <1>5. QED
    BY <1>1, <1>2, <1>3, <1>4 DEF Next

(* The start has the shape. *)
LEMMA ShapeInit == Init => Shape
  <1>1. SUFFICES ASSUME Init PROVE Shape
    OBVIOUS
  <1>2. None \in Verdict
    BY DEF Verdict
  <1>3. <<>> \in Seq(net)
    OBVIOUS
  <1>4. QED
    BY <1>1, <1>2, <1>3 DEF Init, Shape

-----------------------------------------------------------------------------
(* A set of signals has a member of least content id: the winner MinHash   *)
(* names is a member of its group.                                         *)
LEMMA MinHashMember ==
    ASSUME NEW S \in SUBSET Signal, S # {}
    PROVE  MinHash(S) \in S
  <1> DEFINE T == {s.id : s \in S}
  <1>1. T \subseteq Nat /\ T # {}
    BY SignalFacts
  <1>2. PICK x \in T : \A y \in T : ~ (<<y, x>> \in OpToRel(<, Nat))
    <2> HIDE DEF T
    <2> QED BY <1>1, NatLessThanWellFounded, WFMin
  <1>3. PICK s \in S : x = s.id
    OBVIOUS
  <1>4. \A t \in S : s.id <= t.id
    <2>1. TAKE t \in S
    <2>2. t.id \in T /\ t.id \in Nat /\ x \in Nat
      BY <1>1
    <2>3. ~ (t.id < x)
      BY <2>2, <1>2 DEF OpToRel
    <2>4. QED
      BY <2>2, <2>3, <1>3
  <1>5. QED
    BY <1>3, <1>4 DEF MinHash

(* When the strategy does not read the view, a verdict is a member of its  *)
(* group or the refusal.                                                   *)
LEMMA VerdictType ==
    ASSUME Strategy # "Focus", NEW I \in SUBSET Signal, NEW k \in Key, group(I, k) # {}
    PROVE  resolve_key(I, k) \in group(I, k) \cup {ConflictUnderSerialize}
  <1>1. group(I, k) \in SUBSET Signal
    BY DEF group
  <1>2. MinHash(group(I, k)) \in group(I, k)
    BY <1>1, MinHashMember
  <1>3. Strategy \in {"Serialize", "MinHash"}
    BY ReconcileAssumption
  <1>4. QED
    BY <1>2, <1>3 DEF resolve_key, resolve

(* Verdicts told are members of their group or the refusal. *)
ToldMembers ==
    \A n \in Node, k \in Key :
        told[n][k] \in group(index[n], k) \cup {None, ConflictUnderSerialize}

(* Types of the variables hold whatever is signed and delivered. *)
THEOREM TypeCorrect ==
    ASSUME Strategy # "Focus"
    PROVE  Spec => []TypeOK
  <1>1. Init => Shape /\ ToldMembers
    <2>1. ASSUME Init PROVE ToldMembers
      BY <2>1 DEF Init, ToldMembers
    <2>2. QED
      BY <2>1, ShapeInit
  <1>2. Shape /\ ToldMembers /\ [Next]_vars => Shape' /\ ToldMembers'
    <2> SUFFICES ASSUME Shape, ToldMembers, [Next]_vars
                 PROVE  ToldMembers'
      BY ShapeStep
    <2>1. ASSUME UNCHANGED <<index, told>> PROVE ToldMembers'
      BY <2>1 DEF ToldMembers, group
    <2>2. ASSUME NEW n \in Node, NEW s \in Signal, Observe(n, s)
          PROVE  ToldMembers'
      <3> DEFINE I == index[n] \cup {s}
                 key == equivocation_key(s)
      <3>1. I \in SUBSET Signal /\ index' = [index EXCEPT ![n] = I]
        BY <2>2 DEF Observe, Shape
      <3>2. key \in Key /\ s \in group(I, key)
        BY SignalFacts DEF group
      <3>3. resolve_key(I, key) \in group(I, key) \cup {ConflictUnderSerialize}
        BY <3>1, <3>2, VerdictType
      <3>4. told' = [told EXCEPT ![n][key] = resolve_key(I, key)] \/ told' = told
        BY <2>2 DEF Observe
      <3>5. \A m \in Node, k \in Key : group(index[m], k) \subseteq group(index'[m], k)
        BY <3>1 DEF group, Shape
      <3>6. index'[n] = I
        BY <3>1 DEF Shape
      <3> SUFFICES ASSUME NEW m \in Node, NEW k \in Key
                   PROVE  told'[m][k] \in group(index'[m], k) \cup {None, ConflictUnderSerialize}
        BY DEF ToldMembers, group
      <3> HIDE DEF I, key
      <3>7. told[m][k] \in group(index'[m], k) \cup {None, ConflictUnderSerialize}
        BY <3>5 DEF ToldMembers
      <3>8. told'[m][k] = told[m][k]
              \/ (m = n /\ k = key /\ told'[m][k] = resolve_key(I, key))
        BY <3>4, <3>2 DEF Shape
      <3>9. QED
        BY <3>3, <3>6, <3>7, <3>8
    <2>3. ASSUME NEW s \in Signal, Sign(s) PROVE ToldMembers'
      BY <2>1, <2>3 DEF Sign
    <2>4. ASSUME NEW n \in Node, NEW s \in Signal, Append_(n, s) PROVE ToldMembers'
      BY <2>1, <2>4 DEF Append_
    <2>5. QED
      BY <2>1, <2>2, <2>3, <2>4 DEF Next, vars
  <1>3. Shape /\ ToldMembers => TypeOK
    <2> SUFFICES ASSUME Shape, ToldMembers PROVE TypeOK
      OBVIOUS
    <2>1. index \in [Node -> SUBSET Signal]
      BY DEF Shape
    <2>2. \A n \in Node, k \in Key : told[n][k] \in Signal \cup {None, ConflictUnderSerialize}
      BY <2>1 DEF ToldMembers, group
    <2>3. told \in [Node -> [Key -> Signal \cup {None, ConflictUnderSerialize}]]
      BY <2>2 DEF Shape
    <2>4. \A q \in Seq(net) : q \in Seq(Signal)
      BY DEF Shape
    <2>5. chain \in [Node -> [Neuron -> Seq(Signal)]]
      BY <2>4 DEF Shape
    <2>6. QED
      BY <2>1, <2>3, <2>5 DEF Shape, TypeOK
  <1>4. QED
    BY <1>1, <1>2, <1>3, PTL DEF Spec

-----------------------------------------------------------------------------
(* What Observe does to the index and the verdicts of one key. *)
LEMMA ObserveEffect ==
    ASSUME Shape, NEW n \in Node, NEW s \in Signal, Observe(n, s),
           NEW m \in Node, NEW k \in Key
    PROVE  /\ m # n \/ k # equivocation_key(s) =>
                /\ group(index'[m], k) = group(index[m], k)
                /\ told'[m][k] = told[m][k]
           /\ m = n /\ k = equivocation_key(s) =>
                /\ group(index'[m], k) = group(index[m], k) \cup {s}
                /\ told'[m][k] = IF Conflicting(index'[m], k)
                                 THEN resolve_key(index'[m], k) ELSE told[m][k]
  <1> DEFINE key == equivocation_key(s)
             I == index[n] \cup {s}
  <1>1. key \in Key
    BY SignalFacts
  <1>2. index' = [index EXCEPT ![n] = I] /\ index'[n] = I
    BY DEF Observe, Shape
  <1>3. index'[m] = IF m = n THEN I ELSE index[m]
    BY <1>2 DEF Shape
  <1>4. told' = IF Conflicting(I, key) THEN [told EXCEPT ![n][key] = resolve_key(I, key)]
                                       ELSE told
    BY DEF Observe
  <1>5. resolve_key(I, key) \in Verdict
    BY <1>1 DEF Verdict, Observe, Shape
  <1>6. told'[m][k] = IF m = n /\ k = key /\ Conflicting(I, key)
                      THEN resolve_key(I, key) ELSE told[m][k]
    <2> HIDE DEF I, key
    <2>1. told \in [Node -> [Key -> Verdict]]
      BY DEF Shape
    <2>2. QED
      BY <1>1, <1>4, <1>5, <2>1, UpdateAt
  <1>7. m # n \/ k # key => group(index'[m], k) = group(index[m], k)
    BY <1>3 DEF group
  <1>8. m = n /\ k = key => group(index'[m], k) = group(index[m], k) \cup {s}
    BY <1>3 DEF group
  <1>9. QED
    <2> HIDE DEF I, key
    <2> QED BY <1>2, <1>6, <1>7, <1>8 DEF key

(* A strategy other than Focus reads the group only. *)
LEMMA VerdictLocal ==
    ASSUME Strategy # "Focus", NEW I, NEW J, NEW k, group(I, k) = group(J, k)
    PROVE  resolve_key(I, k) = resolve_key(J, k) /\ Conflicting(I, k) = Conflicting(J, k)
  <1>1. Strategy \in {"Serialize", "MinHash"}
    BY ReconcileAssumption
  <1>2. QED
    BY <1>1 DEF resolve_key, resolve, Conflicting

(* The last verdict told is the verdict over what is indexed now. *)
ToldIsCurrent ==
    \A n \in Node, k \in Key :
        Conflicting(index[n], k) => told[n][k] = resolve_key(index[n], k)

(* Reconciler::observe and Reconciler::resolve_all name the same winners   *)
(* in every reachable state, for the strategies that do not read the view  *)
(* (Serialize and MinHash).                                                *)
THEOREM IncrementalIsBatchHolds ==
    ASSUME Strategy # "Focus"
    PROVE  Spec => []IncrementalIsBatch
  <1>1. Init => Shape /\ ToldIsCurrent
    <2>1. ASSUME Init PROVE ToldIsCurrent
      BY <2>1 DEF Init, ToldIsCurrent, Conflicting, group
    <2>2. QED
      BY <2>1, ShapeInit
  <1>2. Shape /\ ToldIsCurrent /\ [Next]_vars => Shape' /\ ToldIsCurrent'
    <2> SUFFICES ASSUME Shape, ToldIsCurrent, [Next]_vars
                 PROVE  ToldIsCurrent'
      BY ShapeStep
    <2>1. ASSUME UNCHANGED <<index, told>> PROVE ToldIsCurrent'
      <3> SUFFICES ASSUME NEW m \in Node, NEW k \in Key, Conflicting(index'[m], k)
                   PROVE  told'[m][k] = resolve_key(index'[m], k)
        BY DEF ToldIsCurrent, Conflicting, group, resolve_key, resolve
      <3> QED
        BY <2>1 DEF ToldIsCurrent
    <2>2. ASSUME NEW n \in Node, NEW s \in Signal, Observe(n, s)
          PROVE  ToldIsCurrent'
      <3> SUFFICES ASSUME NEW m \in Node, NEW k \in Key, Conflicting(index'[m], k)
                   PROVE  told'[m][k] = resolve_key(index'[m], k)
        BY DEF ToldIsCurrent, Conflicting, group, resolve_key, resolve
      <3>1. CASE m = n /\ k = equivocation_key(s)
        BY <2>2, <3>1, ObserveEffect
      <3>2. CASE m # n \/ k # equivocation_key(s)
        <4>1. group(index'[m], k) = group(index[m], k) /\ told'[m][k] = told[m][k]
          BY <2>2, <3>2, ObserveEffect
        <4>2. resolve_key(index'[m], k) = resolve_key(index[m], k)
                /\ Conflicting(index[m], k) = Conflicting(index'[m], k)
          BY <4>1, VerdictLocal
        <4>3. QED
          BY <4>1, <4>2 DEF ToldIsCurrent
      <3>3. QED
        BY <3>1, <3>2
    <2>3. ASSUME NEW s \in Signal, Sign(s) PROVE ToldIsCurrent'
      BY <2>1, <2>3 DEF Sign
    <2>4. ASSUME NEW n \in Node, NEW s \in Signal, Append_(n, s) PROVE ToldIsCurrent'
      BY <2>1, <2>4 DEF Append_
    <2>5. QED
      BY <2>1, <2>2, <2>3, <2>4 DEF Next, vars
  <1>3. ToldIsCurrent => IncrementalIsBatch
    BY DEF ToldIsCurrent, IncrementalIsBatch, conflicts, resolve_all
  <1>4. QED
    BY <1>1, <1>2, <1>3, PTL DEF Spec

-----------------------------------------------------------------------------
(* An honest neuron has signed at most one signal per step. *)
HonestOnce ==
    \A s, t \in net : s.neuron \in Honest /\ equivocation_key(s) = equivocation_key(t) => s = t

(* The conflict index never holds an honest neuron in conflict. *)
THEOREM HonestUnconflictedHolds == Spec => []HonestUnconflicted
  <1> DEFINE HonestUntold == \A n \in Node, k \in Key : k[1] \in Honest => told[n][k] = None
             Inv == Shape /\ HonestOnce /\ HonestUntold
  <1>u. ASSUME Shape, HonestOnce, NEW n \in Node, NEW k \in Key, k[1] \in Honest
        PROVE  ~ Conflicting(index[n], k)
    <2>1. SUFFICES ASSUME NEW s \in group(index[n], k), NEW t \in group(index[n], k)
                   PROVE  s = t
      BY DEF Conflicting
    <2>2. s \in net /\ t \in net /\ equivocation_key(s) = k /\ equivocation_key(t) = k
      BY <1>u DEF group, Shape
    <2>3. s.neuron = k[1]
      BY <2>2 DEF equivocation_key
    <2>4. QED
      BY <1>u, <2>2, <2>3 DEF HonestOnce
  <1>1. Init => Inv
    <2>1. ASSUME Init PROVE HonestOnce /\ HonestUntold
      BY <2>1 DEF Init, HonestOnce
    <2>2. QED
      BY <2>1, ShapeInit
  <1>2. Inv /\ [Next]_vars => Inv'
    <2> SUFFICES ASSUME Shape, HonestOnce, HonestUntold, [Next]_vars
                 PROVE  HonestOnce' /\ HonestUntold'
      BY ShapeStep
    <2>1. ASSUME NEW s \in Signal, Sign(s) PROVE HonestOnce' /\ HonestUntold'
      <3>1. HonestUntold'
        BY <2>1 DEF Sign
      <3>2. HonestOnce'
        <4>1. SUFFICES ASSUME NEW x \in net \cup {s}, NEW y \in net \cup {s}, x.neuron \in Honest,
                              equivocation_key(x) = equivocation_key(y)
                       PROVE  x = y
          BY <2>1 DEF HonestOnce, Sign, equivocation_key
        <4>2. x.neuron = y.neuron
          BY <4>1 DEF equivocation_key
        <4>3. CASE x \in net /\ y \in net
          BY <4>1, <4>3 DEF HonestOnce
        <4>4. CASE x = s
          BY <2>1, <4>1, <4>4 DEF Sign
        <4>5. CASE y = s
          BY <2>1, <4>1, <4>2, <4>5 DEF Sign
        <4>6. QED
          BY <4>3, <4>4, <4>5
      <3>3. QED
        BY <3>1, <3>2
    <2>2. ASSUME NEW n \in Node, NEW s \in Signal, Observe(n, s)
          PROVE  HonestOnce' /\ HonestUntold'
      <3>1. HonestOnce'
        BY <2>2 DEF Observe, HonestOnce, equivocation_key
      <3>2. Shape'
        BY ShapeStep
      <3>3. ASSUME NEW m \in Node, NEW k \in Key, k[1] \in Honest
            PROVE  told'[m][k] = None
        <4>1. told[m][k] = None
          BY <3>3
        <4>2. index'[m] \in SUBSET net
          BY <2>2, <3>2 DEF Shape, Observe
        <4>3. ~ Conflicting(index'[m], k)
          <5>1. SUFFICES ASSUME NEW x \in group(index'[m], k), NEW y \in group(index'[m], k)
                         PROVE  x = y
            BY DEF Conflicting
          <5>2. x \in net /\ y \in net /\ equivocation_key(x) = k /\ equivocation_key(y) = k
            BY <4>2 DEF group
          <5>3. x.neuron = k[1]
            BY <5>2 DEF equivocation_key
          <5>4. QED
            BY <3>3, <5>2, <5>3 DEF HonestOnce
        <4>4. QED
          BY <2>2, <4>1, <4>3, ObserveEffect
      <3>4. QED
        BY <3>1, <3>3
    <2>3. ASSUME NEW n \in Node, NEW s \in Signal, Append_(n, s)
          PROVE  HonestOnce' /\ HonestUntold'
      BY <2>3 DEF Append_, HonestOnce, equivocation_key
    <2>4. CASE UNCHANGED vars
      BY <2>4 DEF vars, HonestOnce, equivocation_key
    <2>5. QED
      BY <2>1, <2>2, <2>3, <2>4 DEF Next
  <1>3. Inv => HonestUnconflicted
    BY <1>u DEF HonestUnconflicted, conflicts
  <1>4. QED
    BY <1>1, <1>2, <1>3, PTL DEF Spec

-----------------------------------------------------------------------------
(* Every entry of a chain is of its neuron, at its own step, on top of the *)
(* entry before it.                                                        *)
Linked(c, u) ==
    \A i \in 1 .. Len(c) :
        /\ c[i].neuron = u /\ c[i].step = i - 1
        /\ i > 1 => c[i].prev = hash(c[i - 1])

AllLinked == \A n \in Node, u \in Neuron : Linked(chain[n][u], u)

(* PastPositionsFixed for one pair of chains. *)
SamePast(c, d) ==
    \A i \in DOMAIN c \cap DOMAIN d :
        hash(c[i]) = hash(d[i]) => \A j \in 1 .. i : hash(c[j]) = hash(d[j])

(* What append makes of a chain. *)
LEMMA AppendFacts ==
    ASSUME NEW S, NEW c \in Seq(S), NEW s \in S
    PROVE  /\ Append(c, s) \in Seq(S)
           /\ Len(c) \in Nat /\ Len(Append(c, s)) = Len(c) + 1
           /\ DOMAIN c = 1 .. Len(c) /\ DOMAIN Append(c, s) = 1 .. Len(c) + 1
           /\ \A i \in 1 .. Len(c) : Append(c, s)[i] = c[i]
           /\ Append(c, s)[Len(c) + 1] = s
  OBVIOUS

(* A signal that extends a chain leaves it linked. *)
LEMMA AppendLinked ==
    ASSUME NEW c \in Seq(Signal), NEW s \in Signal, Linked(c, s.neuron), Extends(c, s)
    PROVE  Linked(Append(c, s), s.neuron)
  <1> DEFINE e == Append(c, s)
  <1>1. /\ Len(c) \in Nat /\ Len(e) = Len(c) + 1
        /\ \A i \in 1 .. Len(c) : e[i] = c[i]
        /\ e[Len(c) + 1] = s
    BY AppendFacts
  <1> HIDE DEF e
  <1>2. SUFFICES ASSUME NEW i \in 1 .. Len(e)
                 PROVE  /\ e[i].neuron = s.neuron /\ e[i].step = i - 1
                        /\ i > 1 => e[i].prev = hash(e[i - 1])
    BY DEF Linked, e
  <1>3. CASE i <= Len(c)
    <2>1. i \in 1 .. Len(c) /\ (i > 1 => i - 1 \in 1 .. Len(c))
      BY <1>1, <1>2, <1>3
    <2>2. e[i] = c[i] /\ (i > 1 => e[i - 1] = c[i - 1])
      BY <1>1, <2>1
    <2>3. QED
      BY <2>1, <2>2 DEF Linked
  <1>4. CASE i = Len(c) + 1
    <2>1. e[i] = s /\ s.step = Len(c)
      BY <1>1, <1>4 DEF Extends
    <2>2. i - 1 = Len(c)
      BY <1>1, <1>4
    <2>3. ASSUME i > 1 PROVE e[i].prev = hash(e[i - 1])
      <3>1. Len(c) \in 1 .. Len(c)
        BY <1>1, <1>4, <2>3
      <3>2. c # <<>>
        BY <3>1
      <3>3. s.prev = hash(c[Len(c)])
        BY <3>2 DEF Extends
      <3>4. QED
        BY <1>1, <2>1, <2>2, <3>1, <3>3
    <2>4. QED
      BY <2>1, <2>2, <2>3
  <1>5. QED
    BY <1>1, <1>2, <1>3, <1>4

(* Position hashes are equal exactly when what they cover is. *)
LEMMA HashCovers ==
    ASSUME NEW s, NEW t, hash(s) = hash(t)
    PROVE  s.prev = t.prev
  BY DEF hash

(* A chain that is extended keeps its past in common with the others. *)
LEMMA AppendSamePast ==
    ASSUME NEW c \in Seq(Signal), NEW d \in Seq(Signal), NEW s \in Signal,
           Linked(d, s.neuron), SamePast(c, d), Extends(c, s)
    PROVE  SamePast(Append(c, s), d)
  <1> DEFINE e == Append(c, s)
  <1>1. /\ Len(c) \in Nat /\ DOMAIN c = 1 .. Len(c) /\ DOMAIN e = 1 .. Len(c) + 1
        /\ \A i \in 1 .. Len(c) : e[i] = c[i]
        /\ e[Len(c) + 1] = s
    BY AppendFacts
  <1>2. Len(d) \in Nat /\ DOMAIN d = 1 .. Len(d)
    OBVIOUS
  <1> HIDE DEF e
  <1>3. SUFFICES ASSUME NEW i \in DOMAIN e \cap DOMAIN d, hash(e[i]) = hash(d[i]),
                        NEW j \in 1 .. i
                 PROVE  hash(e[j]) = hash(d[j])
    BY DEF SamePast, e
  <1>4. i \in Nat /\ j \in Nat /\ 1 <= j /\ j <= i /\ i <= Len(c) + 1 /\ 1 <= i /\ i <= Len(d)
    BY <1>1, <1>2, <1>3
  <1>5. CASE i <= Len(c)
    <2>1. i \in DOMAIN c \cap DOMAIN d /\ j \in 1 .. Len(c) /\ i \in 1 .. Len(c)
      BY <1>1, <1>2, <1>4, <1>5
    <2>2. e[i] = c[i] /\ e[j] = c[j]
      BY <1>1, <2>1
    <2>3. hash(c[i]) = hash(d[i])
      BY <1>3, <2>2
    <2>4. QED
      BY <1>3, <2>1, <2>2, <2>3 DEF SamePast
  <1>6. CASE i = Len(c) + 1 /\ j = i
    BY <1>3, <1>6
  <1>7. CASE i = Len(c) + 1 /\ j < i
    <2>1. i > 1 /\ i - 1 = Len(c) /\ Len(c) \in DOMAIN c \cap DOMAIN d /\ j \in 1 .. Len(c)
      BY <1>1, <1>2, <1>4, <1>7
    <2>2. e[i] = s
      BY <1>1, <1>7
    <2>3. s.prev = d[i].prev
      BY <1>3, <2>2, HashCovers
    <2>4. d[i].prev = hash(d[Len(c)])
      BY <1>2, <1>4, <2>1 DEF Linked
    <2>5. c # <<>>
      BY <2>1
    <2>6. s.prev = hash(c[Len(c)])
      BY <2>5 DEF Extends
    <2>7. hash(c[Len(c)]) = hash(d[Len(c)])
      BY <2>3, <2>4, <2>6
    <2>8. hash(c[j]) = hash(d[j])
      BY <2>1, <2>7 DEF SamePast
    <2>9. e[j] = c[j]
      BY <1>1, <2>1
    <2>10. QED
      BY <2>8, <2>9
  <1>8. QED
    BY <1>1, <1>4, <1>5, <1>6, <1>7

(* Of two chains with a common past each has it with the other. *)
LEMMA SamePastSymmetric ==
    ASSUME NEW c, NEW d, SamePast(c, d)
    PROVE  SamePast(d, c)
  BY DEF SamePast

(* What append does to the chains of the nodes. *)
LEMMA AppendEffect ==
    ASSUME Shape, NEW n \in Node, NEW s \in Signal, Append_(n, s),
           NEW m \in Node, NEW u \in Neuron
    PROVE  \/ chain'[m][u] = chain[m][u]
           \/ /\ m = n /\ u = s.neuron
              /\ Extends(chain[m][u], s) /\ chain'[m][u] = Append(chain[m][u], s)
  <1>1. CASE chain' = chain
    BY <1>1
  <1>2. CASE Extends(chain[n][s.neuron], s)
               /\ chain' = [chain EXCEPT ![n][s.neuron] = Append(chain[n][s.neuron], s)]
    <2>1. PICK v \in Neuron : v = s.neuron
      BY SignalFacts
    <2>2. chain \in [Node -> [Neuron -> Seq(net)]]
      BY DEF Shape
    <2>3. s \in net
      BY DEF Append_
    <2>4. Append(chain[n][v], s) \in Seq(net)
      BY <2>2, <2>3
    <2>5. chain' = [chain EXCEPT ![n][v] = Append(chain[n][v], s)]
      BY <1>2, <2>1
    <2>6. chain'[m][u] = IF m = n /\ u = v THEN Append(chain[n][v], s) ELSE chain[m][u]
      BY <2>2, <2>4, <2>5, UpdateAt
    <2>7. QED
      BY <1>2, <2>1, <2>6
  <1>3. QED
    BY <1>1, <1>2, Zenon DEF Append_

(* The chains stay linked, and pairs of them keep the same past. *)
LEMMA ChainsStep ==
    ASSUME Shape, AllLinked, PastPositionsFixed, [Next]_vars
    PROVE  AllLinked' /\ PastPositionsFixed'
  <1>t. \A m \in Node, u \in Neuron : chain[m][u] \in Seq(Signal)
    <2>1. \A q \in Seq(net) : q \in Seq(Signal)
      BY DEF Shape
    <2>2. QED
      BY <2>1 DEF Shape
  <1>1. ASSUME UNCHANGED chain PROVE AllLinked' /\ PastPositionsFixed'
    <2>1. AllLinked'
      BY <1>1 DEF AllLinked
    <2>2. PastPositionsFixed'
      BY <1>1 DEF PastPositionsFixed
    <2>3. QED
      BY <2>1, <2>2
  <1>2. ASSUME NEW n \in Node, NEW s \in Signal, Append_(n, s)
        PROVE  AllLinked' /\ PastPositionsFixed'
    <2>1. AllLinked'
      <3>1. SUFFICES ASSUME NEW m \in Node, NEW u \in Neuron
                     PROVE  Linked(chain'[m][u], u)
        BY DEF AllLinked, Linked, hash
      <3>2. Linked(chain[m][u], u) /\ chain[m][u] \in Seq(Signal)
        BY <1>t DEF AllLinked
      <3>3. CASE chain'[m][u] = chain[m][u]
        BY <3>2, <3>3
      <3>4. CASE chain'[m][u] # chain[m][u]
        <4>1. u = s.neuron /\ Extends(chain[m][u], s) /\ chain'[m][u] = Append(chain[m][u], s)
          BY <1>2, <3>4, AppendEffect
        <4>2. QED
          BY <3>2, <4>1, AppendLinked
      <3>5. QED
        BY <3>3, <3>4
    <2>2. PastPositionsFixed'
      <3>1. SUFFICES ASSUME NEW m \in Node, NEW k \in Node, NEW u \in Neuron
                     PROVE  SamePast(chain'[m][u], chain'[k][u])
        BY DEF PastPositionsFixed, SamePast, hash
      <3>2. SamePast(chain[m][u], chain[k][u])
        BY DEF PastPositionsFixed, SamePast
      <3>3. chain[m][u] \in Seq(Signal) /\ chain[k][u] \in Seq(Signal)
        BY <1>t
      <3>4. Linked(chain[m][u], u) /\ Linked(chain[k][u], u)
        BY DEF AllLinked
      <3>5. CASE chain'[m][u] = chain[m][u] /\ chain'[k][u] = chain[k][u]
        BY <3>2, <3>5
      <3>6. CASE m = k
        BY <3>6 DEF SamePast
      <3>7. CASE chain'[m][u] # chain[m][u] /\ m # k
        <4>1. m = n /\ u = s.neuron /\ Extends(chain[m][u], s)
                /\ chain'[m][u] = Append(chain[m][u], s)
          BY <1>2, <3>7, AppendEffect
        <4>2. chain'[k][u] = chain[k][u]
          BY <1>2, <3>7, <4>1, AppendEffect
        <4>3. QED
          BY <3>2, <3>3, <3>4, <4>1, <4>2, AppendSamePast
      <3>8. CASE chain'[k][u] # chain[k][u] /\ m # k
        <4>1. k = n /\ u = s.neuron /\ Extends(chain[k][u], s)
                /\ chain'[k][u] = Append(chain[k][u], s)
          BY <1>2, <3>8, AppendEffect
        <4>2. chain'[m][u] = chain[m][u]
          BY <1>2, <3>8, <4>1, AppendEffect
        <4>3. SamePast(chain[k][u], chain[m][u])
          BY <3>2, SamePastSymmetric
        <4>4. SamePast(chain'[k][u], chain'[m][u])
          BY <3>3, <3>4, <4>1, <4>2, <4>3, AppendSamePast
        <4>5. QED
          BY <4>4, SamePastSymmetric
      <3>9. QED
        BY <3>5, <3>6, <3>7, <3>8
    <2>3. QED
      BY <2>1, <2>2
  <1>3. ASSUME NEW n \in Node, NEW s \in Signal, Observe(n, s)
        PROVE  AllLinked' /\ PastPositionsFixed'
    BY <1>1, <1>3 DEF Observe
  <1>4. ASSUME NEW s \in Signal, Sign(s) PROVE AllLinked' /\ PastPositionsFixed'
    BY <1>1, <1>4 DEF Sign
  <1>5. QED
    BY <1>1, <1>2, <1>3, <1>4 DEF Next, vars

(* Empty chains are linked and agree. *)
LEMMA ChainsInit == Init => AllLinked /\ PastPositionsFixed
  <1>1. SUFFICES ASSUME Init PROVE AllLinked /\ PastPositionsFixed
    OBVIOUS
  <1>2. \A n \in Node, u \in Neuron : chain[n][u] = <<>>
    BY <1>1 DEF Init
  <1>3. QED
    BY <1>2 DEF AllLinked, Linked, PastPositionsFixed

(* SignalChain::append fixes the positions below an entry: in every        *)
(* reachable state no two nodes' chains that agree on an entry's position  *)
(* hash differ in the position of an earlier one.                          *)
THEOREM PastPositionsFixedHolds == Spec => []PastPositionsFixed
  <1> DEFINE Inv == Shape /\ AllLinked /\ PastPositionsFixed
  <1>1. Init => Inv
    BY ShapeInit, ChainsInit
  <1>2. Inv /\ [Next]_vars => Inv'
    BY ShapeStep, ChainsStep
  <1>3. QED
    BY <1>1, <1>2, PTL DEF Spec

(* Chains of an author that has signed once per step agree wherever both   *)
(* have an entry.                                                          *)
THEOREM ChainsAgreeHolds == Spec => []ChainsAgree
  <1> DEFINE Inv == Shape /\ AllLinked /\ PastPositionsFixed
  <1>1. Init => Inv
    BY ShapeInit, ChainsInit
  <1>2. Inv /\ [Next]_vars => Inv'
    BY ShapeStep, ChainsStep
  <1>3. Inv => ChainsAgree
    <2>1. SUFFICES ASSUME Shape, AllLinked, NEW n \in Node, NEW m \in Node, NEW u \in Neuron,
                          NEW i \in DOMAIN chain[n][u] \cap DOMAIN chain[m][u]
                   PROVE  \/ chain[n][u][i] = chain[m][u][i]
                          \/ \E s, t \in net : /\ s # t /\ s.neuron = u /\ s.step < i
                                               /\ equivocation_key(s) = equivocation_key(t)
      BY DEF ChainsAgree
    <2> DEFINE s == chain[n][u][i]
               t == chain[m][u][i]
    <2>2. chain[n][u] \in Seq(net) /\ chain[m][u] \in Seq(net)
      BY <2>1 DEF Shape
    <2>3. i \in Nat /\ i \in 1 .. Len(chain[n][u]) /\ i \in 1 .. Len(chain[m][u])
      BY <2>1, <2>2
    <2>4. s \in net /\ t \in net
      BY <2>2, <2>3, ElementOfSeq
    <2>5. s.neuron = u /\ s.step = i - 1 /\ t.neuron = u /\ t.step = i - 1
      BY <2>1, <2>3 DEF AllLinked, Linked
    <2>6. s.step < i /\ equivocation_key(s) = equivocation_key(t)
      BY <2>3, <2>5 DEF equivocation_key
    <2> HIDE DEF s, t
    <2>7. s = t \/ \E x, y \in net : /\ x # y /\ x.neuron = u /\ x.step < i
                                     /\ equivocation_key(x) = equivocation_key(y)
      BY <2>4, <2>5, <2>6
    <2>8. QED
      BY <2>7, Zenon DEF s, t
  <1>4. QED
    BY <1>1, <1>2, <1>3, PTL DEF Spec
=============================================================================
