----------------------------- MODULE Reconcile ------------------------------
(***************************************************************************)
(* Signals, their hash chains and the reconciliation engine: chain.rs,     *)
(* conflict.rs, fork.rs, focus.rs and reconcile.rs.  Neurons sign signals; *)
(* every node receives them in any order and any number of times, and      *)
(* feeds each to its chain of that neuron (SignalChain::append) and to its *)
(* reconciler (Reconciler::observe).                                       *)
(*                                                                         *)
(* A signal keeps what the code compares: the neuron, the network, the     *)
(* step, the hash prev, its content id (a number, ordered as the bytes     *)
(* are) and the particle its links direct attention to.                    *)
(***************************************************************************)
EXTENDS Integers, Sequences

CONSTANTS
    Node,            \* nodes that receive signals
    Neuron,          \* authors
    Honest,          \* authors that sign at most one signal per step
    MaxStep,         \* bound on the steps
    Signal,          \* every signal an author may sign
    Strategy,        \* the ForkChoice: Serialize, MinHash or Focus
    Genesis,         \* the zero particle, prev of step 0
    NoLinks,         \* target of a signal without links
    Phi(_, _),       \* tru: focus of a particle over the links of some signals
    None, ConflictUnderSerialize

Step == 0 .. MaxStep

(* Chain position hash: neuron, step, prev and network, not the payload. *)
hash(s) == <<s.neuron, s.step, s.prev, s.network>>

Hash == {hash(s) : s \in Signal}

(* The conflict key is a hash of neuron and step. *)
Key == Neuron \X Step

(* Mutant of equivocation_key: the neuron is not hashed. *)
equivocation_key_step(s) == <<CHOOSE u \in Neuron : TRUE, s.step>>

equivocation_key(s) == <<s.neuron, s.step>>

ASSUME ReconcileAssumption ==
    /\ MaxStep \in Nat
    /\ Honest \subseteq Neuron
    /\ Strategy \in {"Serialize", "MinHash", "Focus"}
    /\ \A s \in Signal : /\ s.neuron \in Neuron /\ s.step \in Step /\ s.id \in Nat
                         /\ s.prev \in Hash \cup {Genesis}
    /\ \A s, t \in Signal : s.id = t.id => s = t
    /\ None \notin Signal /\ ConflictUnderSerialize \notin Signal
    /\ None # ConflictUnderSerialize

VARIABLES
    net,      \* signals signed so far; the network delivers any of them, again and again
    index,    \* ConflictIndex of each node: the signals it holds
    told,     \* the last winner observe returned, per node and key
    chain,    \* SignalChain per node and neuron
    blamed    \* neurons a node's append has reported as equivocators

vars == <<net, index, told, chain, blamed>>

Init ==
    /\ net = {}
    /\ index = [n \in Node |-> {}]
    /\ told = [n \in Node |-> [k \in Key |-> None]]
    /\ chain = [n \in Node |-> [u \in Neuron |-> <<>>]]
    /\ blamed = [n \in Node |-> {}]

-----------------------------------------------------------------------------
(* The conflict index.  Groups are maps from content id to signal, so a    *)
(* group is the set of indexed signals with the key.                       *)

group(I, k) == {s \in I : equivocation_key(s) = k}

(* More than one distinct signal under the key. *)
Conflicting(I, k) == \E s, t \in group(I, k) : s # t

conflicts(I) == {k \in Key : Conflicting(I, k)}

-----------------------------------------------------------------------------
(* Fork choice.                                                            *)

MinHash(S) == CHOOSE s \in S : \A t \in S : s.id <= t.id

(* Focus a signal directs into the graph of the view. *)
score(s, view) == IF s.to = NoLinks THEN 0 ELSE Phi(view, s.to)

Focus(S, view) ==
    IF \A s \in view : s.to = NoLinks
    THEN MinHash(S)
    ELSE CHOOSE s \in S : \A t \in S \ {s} :
            \/ score(s, view) > score(t, view)
            \/ score(s, view) = score(t, view) /\ s.id < t.id

(* resolve, for a group that is in conflict. *)
resolve(S, view) ==
    CASE Strategy = "Serialize" -> ConflictUnderSerialize
      [] Strategy = "MinHash" -> MinHash(S)
      [] Strategy = "Focus" -> Focus(S, view)

(* The view is every indexed link. *)
resolve_key(I, k) == resolve(group(I, k), I)

(* Batch timing: every indexed conflict at once. *)
resolve_all(I) == [k \in conflicts(I) |-> resolve_key(I, k)]

-----------------------------------------------------------------------------
(* Actions.                                                                *)

(* An author signs the next signal of its chain, or, if it is not honest,  *)
(* a second one at a step it has signed already.                           *)
Sign(s) ==
    /\ s \notin net
    /\ s.prev = Genesis \/ \E t \in net : hash(t) = s.prev
    /\ s.neuron \in Honest => \A t \in net : equivocation_key(t) # equivocation_key(s)
    /\ net' = net \cup {s}
    /\ UNCHANGED <<index, told, chain, blamed>>

(* Mutant of Observe: a group that was already in conflict is not resolved *)
(* again.                                                                  *)
ObserveOnce(n, s) ==
    /\ s \in net
    /\ LET I == index[n] \cup {s}
           k == equivocation_key(s)
       IN  /\ index' = [index EXCEPT ![n] = I]
           /\ told' = IF Conflicting(I, k) /\ ~ Conflicting(index[n], k)
                      THEN [told EXCEPT ![n][k] = resolve_key(I, k)]
                      ELSE told
    /\ UNCHANGED <<net, chain, blamed>>

(* Reconciler::observe: index the signal; if its group now holds more than *)
(* one signal, resolve that group at once.                                 *)
Observe(n, s) ==
    /\ s \in net
    /\ LET I == index[n] \cup {s}
           k == equivocation_key(s)
       IN  /\ index' = [index EXCEPT ![n] = I]
           /\ told' = IF Conflicting(I, k)
                      THEN [told EXCEPT ![n][k] = resolve_key(I, k)]
                      ELSE told
    /\ UNCHANGED <<net, chain, blamed>>

(* The chain holds a signal at this step with the same prev, the same one  *)
(* or another.                                                             *)
check_equivocation(n, s) ==
    LET c == chain[n][s.neuron]
    IN  s.step < Len(c) /\ c[s.step + 1].prev = s.prev

(* Mutants of Extends: any later signal is accepted; prev is not compared. *)
ExtendsLater(c, s) == s.step >= Len(c)

ExtendsAnyPrev(c, s) == s.step = Len(c)

(* The signal is the next one: its step is the length of the chain and its *)
(* prev the hash of the last entry, or Genesis.                            *)
Extends(c, s) ==
    /\ s.step = Len(c)
    /\ s.prev = IF c = <<>> THEN Genesis ELSE hash(c[Len(c)])

(* Mutant of Equivocation: held against the network. *)
EquivocationNetwork(n, s) == blamed' = [blamed EXCEPT ![n] = @ \cup {s.network}]

(* append fails with the Equivocation error: the chain is the neuron's. *)
Equivocation(n, s) == blamed' = [blamed EXCEPT ![n] = @ \cup {s.neuron}]

(* SignalChain::append: equivocation first, then the step, then prev. *)
Append_(n, s) ==
    /\ s \in net
    /\ LET c == chain[n][s.neuron]
       IN  \/ /\ check_equivocation(n, s)
              /\ Equivocation(n, s)
              /\ UNCHANGED chain
           \/ /\ ~ check_equivocation(n, s)
              /\ Extends(c, s)
              /\ chain' = [chain EXCEPT ![n][s.neuron] = Append(@, s)]
              /\ UNCHANGED blamed
           \/ /\ ~ check_equivocation(n, s)
              /\ ~ Extends(c, s)
              /\ UNCHANGED <<chain, blamed>>
    /\ UNCHANGED <<net, index, told>>

Next ==
    \/ \E s \in Signal : Sign(s)
    \/ \E n \in Node, s \in Signal : Observe(n, s)
    \/ \E n \in Node, s \in Signal : Append_(n, s)

Spec == Init /\ [][Next]_vars

-----------------------------------------------------------------------------
(* Properties.                                                             *)

(* Types of the variables. *)
TypeOK ==
    /\ net \in SUBSET Signal
    /\ index \in [Node -> SUBSET Signal]
    /\ told \in [Node -> [Key -> Signal \cup {None, ConflictUnderSerialize}]]
    /\ chain \in [Node -> [Neuron -> Seq(Signal)]]
    /\ blamed \in [Node -> SUBSET Neuron]

(* The two timings agree: for every conflict, in whatever order and how    *)
(* often the signals came, the last winner observe named is the winner     *)
(* resolve_all names now.                                                  *)
IncrementalIsBatch ==
    \A n \in Node : \A k \in conflicts(index[n]) : told[n][k] = resolve_all(index[n])[k]

(* Conflicts only ever name authors that signed twice: an honest neuron's  *)
(* signals never enter a conflict group, duplicated and reordered as they  *)
(* may be.                                                                 *)
HonestUnconflicted ==
    \A n \in Node, k \in Key : k[1] \in Honest =>
        k \notin conflicts(index[n]) /\ told[n][k] = None

(* Two nodes' chains of an author agree step by step, unless the author    *)
(* signed two signals at that step or an earlier one.                      *)
ChainsAgree ==
    \A n, m \in Node, u \in Neuron :
        \A i \in DOMAIN chain[n][u] \cap DOMAIN chain[m][u] :
            \/ chain[n][u][i] = chain[m][u][i]
            \/ \E s, t \in net : /\ s # t /\ s.neuron = u /\ s.step < i
                                 /\ equivocation_key(s) = equivocation_key(t)

(* Nothing can be inserted, removed or reordered below a signal: where two *)
(* nodes' chains of an author hold signals of the same chain position      *)
(* hash, their earlier entries have the same position hashes too.          *)
PastPositionsFixed ==
    \A n, m \in Node, u \in Neuron :
        \A i \in DOMAIN chain[n][u] \cap DOMAIN chain[m][u] :
            hash(chain[n][u][i]) = hash(chain[m][u][i]) =>
                \A j \in 1 .. i : hash(chain[n][u][j]) = hash(chain[m][u][j])
=============================================================================
