------------------------- MODULE SettleRadio_proofs -------------------------
(***************************************************************************)
(* Theorems of SettleRadio, for any nodes, peer books, tasks and messages. *)
(***************************************************************************)
EXTENDS SettleRadio, Lists_proofs, FiniteSetTheorems, TLAPS

(***************************************************************************)
(* The fold tree.                                                          *)
(***************************************************************************)

(* A set of samples is finite: miners and nonces are. *)
LEMMA SamplesFinite ==
    ASSUME NEW S \in SUBSET Sample
    PROVE  IsFiniteSet(S) /\ Cardinality(S) \in Nat
<1>1. IsFiniteSet(Sample)
  BY TicketsAssumption, FS_Product DEF Sample
<1>2. QED
  BY <1>1, FS_Subset, FS_CardinalityType

(* fold_acc makes an accumulator of two, whatever their lengths. *)
LEMMA FoldType ==
    ASSUME NEW l \in ClusterAcc, NEW r \in ClusterAcc
    PROVE  fold_acc(l, r) \in ClusterAcc
<1>1. /\ l.cnt \in [Sample -> Nat] /\ r.cnt \in [Sample -> Nat]
      /\ l.k \in Nat /\ r.k \in Nat /\ l.dim \in Dim /\ r.dim \in Dim
      /\ l.seen \in SUBSET Sample /\ r.seen \in SUBSET Sample
  BY DEF ClusterAcc
<1>2. l.seen \cup r.seen \in SUBSET Sample /\ Cardinality(l.seen \cup r.seen) \in Nat
  BY <1>1, SamplesFinite
<1>3. CASE l.dim # r.dim
  <2>1. Larger(l, r) \in ClusterAcc
    BY DEF Larger
  <2>2. FoldUneven(l, r) \in ClusterAcc
    BY <1>2, <2>1 DEF FoldUneven, ClusterAcc
  <2>3. QED
    BY <1>3, <2>2 DEF fold_acc
<1>4. CASE l.dim = r.dim
  <2>1. [x \in Sample |-> l.cnt[x] + r.cnt[x]] \in [Sample -> Nat]
    BY <1>1
  <2>2. (IF Overlap2(l, r) THEN Cardinality(l.seen \cup r.seen) ELSE l.k + r.k) \in Nat
    BY <1>1, <1>2
  <2>3. QED
    BY <1>1, <1>2, <1>4, <2>1, <2>2 DEF fold_acc, ClusterAcc
<1>5. QED
  BY <1>3, <1>4

(* Division by two rounds down. *)
LEMMA Halves ==
    ASSUME NEW l \in Nat
    PROVE  (l + 1) \div 2 \in Int /\ 2 * ((l + 1) \div 2) <= l + 1
           /\ l + 1 < 2 * ((l + 1) \div 2) + 2
  OBVIOUS

(* A level of the fold tree is about half as long as the one below it: at  *)
(* least one shorter, until one is left.                                   *)
LEMMA PairUpType ==
    ASSUME NEW s \in Seq(ClusterAcc), s # <<>>
    PROVE  /\ PairUp(s) \in Seq(ClusterAcc) /\ PairUp(s) # <<>>
           /\ Len(PairUp(s)) = (Len(s) + 1) \div 2
           /\ Len(s) = 1 => Len(PairUp(s)) = 1
           /\ Len(s) > 1 => Len(PairUp(s)) < Len(s)
<1> DEFINE l == Len(s)
           h == (l + 1) \div 2
           Up(i) == IF 2 * i <= l THEN fold_acc(s[2 * i - 1], s[2 * i]) ELSE s[2 * i - 1]
<1>1. /\ l \in Nat \ {0} /\ h \in Nat \ {0} /\ \A i \in 1 .. l : s[i] \in ClusterAcc
      /\ (l = 1 => h = 1) /\ (l > 1 => h < l)
      /\ \A i \in 1 .. h : 2 * i - 1 \in 1 .. l
  <2>1. l \in Nat \ {0} /\ \A i \in 1 .. l : s[i] \in ClusterAcc
    OBVIOUS
  <2> HIDE DEF l
  <2>2. h \in Int /\ 2 * h <= l + 1 /\ l + 1 < 2 * h + 2
    BY <2>1, Halves DEF h
  <2>3. QED
    BY <2>1, <2>2
<1>2. ASSUME NEW i \in 1 .. h PROVE Up(i) \in ClusterAcc
  <2>1. CASE 2 * i <= l
    <3>1. 2 * i \in 1 .. l /\ s[2 * i] \in ClusterAcc /\ s[2 * i - 1] \in ClusterAcc
      BY <1>1, <2>1
    <3>2. QED
      BY <2>1, <3>1, FoldType
  <2>2. CASE ~ (2 * i <= l)
    BY <1>1, <2>2
  <2>3. QED
    BY <2>1, <2>2
<1>3. PairUp(s) = [i \in 1 .. h |-> Up(i)]
  BY DEF PairUp
<1> HIDE DEF l, h, Up
<1>4. PairUp(s) \in Seq(ClusterAcc) /\ Len(PairUp(s)) = h
  BY <1>1, <1>2, <1>3
<1>5. QED
  BY <1>1, <1>4 DEF l, h

(* What every level keeps when neighbours are folded, and the leaves have, *)
(* the root has, too; and when the root is reached one is left.            *)
LEMMA TreeKeeps ==
    ASSUME NEW G \in SUBSET (Seq(ClusterAcc) \ {<<>>}), \A s \in G : PairUp(s) \in G,
           NEW leaves \in G
    PROVE  \E s \in G : Len(s) = 1 /\ FoldTree(leaves) = s[1]
<1> DEFINE n == Len(leaves)
           step == [p \in G \X (1 .. n) |-> PairUp(p[1])]
           IsLevel(f) == f = [j \in 0 .. n |-> IF j = 0 THEN leaves ELSE PairUp(f[j - 1])]
           level == CHOOSE f : IsLevel(f)
<1>1. n \in Nat \ {0}
  OBVIOUS
<1>2. \E f : IsLevel(f)
  <2>1. PICK f : Unfolds(f, step, leaves, G, n)
    <3>1. StepsIn(step, G, n)
      BY DEF StepsIn
    <3> HIDE DEF step, n
    <3>2. QED
      BY <1>1, <3>1, Recursion
  <2>2. ASSUME NEW j \in 1 .. n PROVE f[j] = PairUp(f[j - 1])
    <3> HIDE DEF step, n
    <3>1. f[j - 1] \in G /\ f[j] = step[<<f[j - 1], j>>]
      BY <1>1, <2>1 DEF Unfolds
    <3> USE DEF step
    <3>2. QED
      BY <3>1
  <2>3. IsLevel(f)
    <3> HIDE DEF n
    <3> QED BY <2>1, <2>2, <1>1 DEF Unfolds
  <2>4. QED
    BY <2>3
<1>3. IsLevel(level)
  <2> HIDE DEF IsLevel
  <2> QED BY <1>2
<1>4. FoldTree(leaves) = level[n][1]
  BY DEF FoldTree
<1>5. level[0] = leaves /\ \A j \in 1 .. n : level[j] = PairUp(level[j - 1])
  <2> HIDE DEF level, n
  <2> QED BY <1>1, <1>3
<1> HIDE DEF level
<1> DEFINE S == {j \in 0 .. n : level[j] \in G /\ Len(level[j]) <= IF j < n THEN n - j ELSE 1}
<1>6. 0 \in S
  BY <1>1, <1>5
<1>7. ASSUME NEW j \in 0 .. n - 1, j \in S PROVE j + 1 \in S
  <2>1. level[j + 1] = PairUp(level[j]) /\ level[j] \in G /\ j + 1 \in 0 .. n
    BY <1>1, <1>5, <1>7
  <2> DEFINE a == Len(level[j])
             b == Len(level[j + 1])
  <2>2. /\ level[j + 1] \in G /\ a \in Nat \ {0} /\ b \in Nat
        /\ (a = 1 => b = 1) /\ (a > 1 => b < a)
    <3>1. level[j] \in Seq(ClusterAcc) \ {<<>>} /\ level[j + 1] \in G
      BY <2>1
    <3> DEFINE x == level[j]
    <3> HIDE DEF x
    <3>2. x \in Seq(ClusterAcc) /\ x # <<>>
      BY <3>1 DEF x
    <3>3. PairUp(x) \in Seq(ClusterAcc) /\ (Len(x) = 1 => Len(PairUp(x)) = 1)
          /\ (Len(x) > 1 => Len(PairUp(x)) < Len(x))
      BY <3>2, PairUpType
    <3>4. QED
      BY <2>1, <3>1, <3>2, <3>3 DEF x
  <2>3. a <= n - j
    BY <1>7
  <2> HIDE DEF a, b, n
  <2>4. b <= IF j + 1 < n THEN n - (j + 1) ELSE 1
    BY <1>1, <2>1, <2>2, <2>3
  <2>5. QED
    BY <2>1, <2>2, <2>4 DEF b
<1>8. n \in S
  <2> HIDE DEF S, n
  <2>1. \A i \in 0 .. n : i \in S
    BY <1>1, <1>6, <1>7, UpTo
  <2>2. QED
    BY <1>1, <2>1
<1>9. level[n] \in G /\ Len(level[n]) = 1
  <2> DEFINE x == level[n]
             y == Len(x)
  <2>1. x \in G
    BY <1>1, <1>8
  <2>6. y <= 1
    BY <1>1, <1>8
  <2> HIDE DEF x, n
  <2>2. x \in Seq(ClusterAcc) /\ x # <<>>
    BY <2>1
  <2>3. y \in Nat /\ y # 0
    BY <2>2
  <2> HIDE DEF y
  <2>4. y = 1
    BY <2>3, <2>6
  <2>5. QED
    BY <2>1, <2>4 DEF x, y
<1>10. QED
  BY <1>4, <1>9

(* settle_with_peer_accs folds accumulators to an accumulator. *)
LEMMA TreeType ==
    ASSUME NEW leaves \in Seq(ClusterAcc), leaves # <<>>
    PROVE  FoldTree(leaves) \in ClusterAcc
<1> DEFINE G == Seq(ClusterAcc) \ {<<>>}
<1>1. leaves \in G /\ \A s \in G : PairUp(s) \in G
  BY PairUpType
<1> HIDE DEF G
<1>2. PICK s \in G : Len(s) = 1 /\ FoldTree(leaves) = s[1]
  <2>1. G \in SUBSET (Seq(ClusterAcc) \ {<<>>})
    BY DEF G
  <2>2. QED
    BY <1>1, <2>1, TreeKeeps
<1>3. QED
  BY <1>2 DEF G

(***************************************************************************)
(* Draining an inbox.                                                      *)
(***************************************************************************)

(* Elements of a concatenation. *)
LEMMA JoinedElements ==
    ASSUME NEW M, NEW s \in Seq(M), NEW r \in Seq(M)
    PROVE  /\ s \o r \in Seq(M) /\ Len(s \o r) = Len(s) + Len(r)
           /\ ToSet(s \o r) = ToSet(s) \cup ToSet(r)
           /\ IsInjective(s) /\ IsInjective(r) /\ ToSet(s) \cap ToSet(r) = {}
                => IsInjective(s \o r)
<1> DEFINE c == s \o r
           k == Len(s)
           l == Len(r)
<1>1. /\ c \in Seq(M) /\ k \in Nat /\ l \in Nat /\ Len(c) = k + l
      /\ DOMAIN c = 1 .. k + l /\ DOMAIN s = 1 .. k /\ DOMAIN r = 1 .. l
      /\ \A i \in 1 .. k : c[i] = s[i]
      /\ \A i \in 1 .. l : c[k + i] = r[i]
  OBVIOUS
<1> HIDE DEF c, k, l
<1>2. \A i \in 1 .. k + l : i \notin 1 .. k => i - k \in 1 .. l /\ c[i] = r[i - k]
  <2>1. \A i \in 1 .. k + l : i \notin 1 .. k => i - k \in 1 .. l /\ k + (i - k) = i
    BY <1>1
  <2>2. QED
    BY <1>1, <2>1
<1>3. ToSet(c) \subseteq ToSet(s) \cup ToSet(r)
  BY <1>1, <1>2 DEF ToSet
<1>4. ToSet(s) \subseteq ToSet(c)
  BY <1>1 DEF ToSet
<1>5. ToSet(r) \subseteq ToSet(c)
  BY <1>1 DEF ToSet
<1>6. ASSUME IsInjective(s), IsInjective(r), ToSet(s) \cap ToSet(r) = {},
             NEW i \in DOMAIN c, NEW j \in DOMAIN c, c[i] = c[j]
      PROVE  i = j
  <2>1. CASE i \in 1 .. k /\ j \in 1 .. k
    BY <1>1, <1>6, <2>1 DEF IsInjective
  <2>2. CASE i \notin 1 .. k /\ j \notin 1 .. k
    <3>1. /\ i - k \in DOMAIN r /\ j - k \in DOMAIN r
          /\ r[i - k] = r[j - k]
      BY <1>1, <1>2, <1>6, <2>2
    <3>2. i - k = j - k
      BY <1>6, <3>1 DEF IsInjective
    <3>3. QED
      BY <1>1, <3>2
  <2>3. CASE i \in 1 .. k /\ j \notin 1 .. k
    <3>1. c[i] = s[i] /\ i \in DOMAIN s
      BY <1>1, <2>3
    <3>2. j - k \in DOMAIN r /\ c[j] = r[j - k]
      BY <1>1, <1>2, <2>3
    <3>3. s[i] \in ToSet(s) /\ r[j - k] \in ToSet(r)
      BY <3>1, <3>2 DEF ToSet
    <3>4. QED
      BY <1>6, <3>1, <3>2, <3>3
  <2>4. CASE i \notin 1 .. k /\ j \in 1 .. k
    <3>1. c[j] = s[j] /\ j \in DOMAIN s
      BY <1>1, <2>4
    <3>2. i - k \in DOMAIN r /\ c[i] = r[i - k]
      BY <1>1, <1>2, <2>4
    <3>3. s[j] \in ToSet(s) /\ r[i - k] \in ToSet(r)
      BY <3>1, <3>2 DEF ToSet
    <3>4. QED
      BY <1>6, <3>1, <3>2, <3>3
  <2>5. QED
    BY <2>1, <2>2, <2>3, <2>4
<1>7. QED
  BY <1>1, <1>3, <1>4, <1>5, <1>6 DEF c, k, l, IsInjective

(* What a drain takes, what it puts back and what it keeps.                *)
LEMMA DrainFacts ==
    ASSUME NEW t \in Task, inbox[On[t]] \in Seq(Msg), got[t] \in Seq(Msg)
    PROVE  /\ Rest(t) \in Seq(Msg) /\ Collected(t) \in Seq(Msg)
           /\ ToSet(Rest(t)) = {m \in ToSet(inbox[On[t]]) : ~ Wanted(t, m)}
           /\ ToSet(Collected(t))
                \subseteq ToSet(got[t]) \cup {m \in ToSet(inbox[On[t]]) : Wanted(t, m)}
<1> DEFINE box == inbox[On[t]]
           at == WantedAt(t)
           new == Chosen(box, at)
           all == got[t] \o new
           K == {i \in DOMAIN all : \A j \in 1 .. i - 1 : all[j].acc # all[i].acc}
<1>1. at \subseteq DOMAIN box /\ \A i \in DOMAIN box : i \in at <=> Wanted(t, box[i])
  BY DEF WantedAt
<1>2. new \in Seq(Msg) /\ ToSet(new) = {box[i] : i \in at \cap DOMAIN box}
  <2> HIDE DEF at, box
  <2> QED BY ChosenFacts DEF box
<1>3. Rest(t) \in Seq(Msg) /\ ToSet(Rest(t)) = {box[i] : i \in (DOMAIN box \ at) \cap DOMAIN box}
  <2> DEFINE no == DOMAIN box \ at
  <2> HIDE DEF at, box, no
  <2>1. Chosen(box, no) \in Seq(Msg)
        /\ ToSet(Chosen(box, no)) = {box[i] : i \in no \cap DOMAIN box}
    BY ChosenFacts DEF box
  <2>2. QED
    BY <2>1 DEF Rest, box, at, no
<1> HIDE DEF at, box, new
<1>4. all \in Seq(Msg) /\ ToSet(all) = ToSet(got[t]) \cup ToSet(new)
  BY <1>2, JoinedElements
<1> HIDE DEF all
<1>5. Chosen(all, K) \in Seq(Msg) /\ ToSet(Chosen(all, K)) \subseteq ToSet(all)
  <2>1. Chosen(all, K) \in Seq(Msg)
        /\ ToSet(Chosen(all, K)) = {all[i] : i \in K \cap DOMAIN all}
    <3> HIDE DEF K
    <3> QED BY <1>4, ChosenFacts
  <2>2. QED
    BY <2>1 DEF ToSet
<1>6. Collected(t) = IF Kind[t] = "acc" THEN Chosen(all, K) ELSE all
  BY DEF Collected, Retain, all, new, at, box
<1>7. ToSet(Rest(t)) = {m \in ToSet(box) : ~ Wanted(t, m)}
  BY <1>1, <1>3 DEF ToSet
<1>8. ToSet(new) = {m \in ToSet(box) : Wanted(t, m)}
  BY <1>1, <1>2 DEF ToSet
<1> HIDE DEF K
<1>9. QED
  BY <1>3, <1>4, <1>5, <1>6, <1>7, <1>8 DEF box

(* What ingest does to the inbox, the ids and the history of its node. *)
LEMMA IngestFacts ==
    ASSUME NEW n \in Node, NEW m \in Msg, ingest(n, m),
           inbox \in [Node -> Seq(Msg)], arrived \in [Node -> SUBSET Msg],
           seen \in [Node -> SUBSET {content_id(x) : x \in Msg}]
    PROVE  /\ inbox' \in [Node -> Seq(Msg)] /\ arrived' \in [Node -> SUBSET Msg]
           /\ seen' \in [Node -> SUBSET {content_id(x) : x \in Msg}]
           /\ \A o \in Node : seen[o] \subseteq seen'[o]
           /\ \/ /\ inbox' = inbox
                 /\ \A o \in Node : \A x \in arrived'[o] :
                        x \in arrived[o] \/ (o = n /\ x = m /\ content_id(m) \in seen[n])
                 /\ seen' = seen
              \/ /\ inbox' = [inbox EXCEPT ![n] = Append(@, m)]
                 /\ content_id(m) \notin seen[n]
                 /\ seen' = [seen EXCEPT ![n] = @ \cup {content_id(m)}]
                 /\ arrived' = [arrived EXCEPT ![n] = @ \cup {m}]
<1>1. CASE subs[n] # {} /\ m.topic \notin subs[n]
  BY <1>1 DEF ingest
<1>2. CASE ~ (subs[n] # {} /\ m.topic \notin subs[n])
  <2>1. /\ arrived' = [arrived EXCEPT ![n] = @ \cup {m}]
        /\ seen' = [seen EXCEPT ![n] = @ \cup {content_id(m)}]
        /\ inbox' = IF content_id(m) \in seen[n] THEN inbox
                    ELSE [inbox EXCEPT ![n] = Append(@, m)]
    BY <1>2 DEF ingest
  <2>2. /\ arrived' \in [Node -> SUBSET Msg]
        /\ \A o \in Node : \A x \in arrived'[o] : x \in arrived[o] \/ (o = n /\ x = m)
    BY <2>1
  <2>3. /\ seen' \in [Node -> SUBSET {content_id(x) : x \in Msg}]
        /\ \A o \in Node : seen[o] \subseteq seen'[o]
    BY <2>1
  <2>4. CASE content_id(m) \in seen[n]
    <3>1. seen' = seen /\ inbox' = inbox
      BY <2>1, <2>4
    <3>2. QED
      BY <2>2, <2>3, <2>4, <3>1
  <2>5. CASE content_id(m) \notin seen[n]
    <3>1. inbox' = [inbox EXCEPT ![n] = Append(@, m)]
      BY <2>1, <2>5
    <3>2. inbox' \in [Node -> Seq(Msg)]
      BY <3>1
    <3>3. QED
      BY <2>1, <2>2, <2>3, <2>5, <3>1, <3>2
  <2>6. QED
    BY <2>4, <2>5
<1>3. QED
  BY <1>1, <1>2

(* The leaves settle_with_peer_accs folds are accumulators. *)
LEMMA LeavesType ==
    ASSUME TypeOK, NEW t \in Task, Kind[t] = "acc"
    PROVE  /\ Mined(t) \in SUBSET Sample
           /\ self_fold(Clients, Mined(t)) \in ClusterAcc
           /\ Leaves(t) \in Seq(ClusterAcc)
           /\ Leaves(t) # <<>>
           /\ \A i \in 1 .. Len(Leaves(t)) :
                 \/ Leaves(t)[i] = self_fold(Clients, Mined(t))
                 \/ Leaves(t)[i] \in {got[t][j].acc : j \in DOMAIN got[t]} \cup ToSet(Added[t])
<1>1. Mined(t) \in SUBSET Sample
  <2>1. MinerOf[t] \in Miner
    BY RadioAssumption
  <2> DEFINE W == {n \in Nonce : n >= Start[t] /\ Win(MinerOf[t], n)}
             F == {w \in W : Cardinality({v \in W : v < w}) < Tries[t]}
  <2>2. Mined(t) = {<<MinerOf[t], n>> : n \in F}
    BY DEF Mined, grind_settlement
  <2>3. F \subseteq Nonce
    OBVIOUS
  <2> HIDE DEF F
  <2>4. QED
    BY <2>1, <2>2, <2>3 DEF Sample
<1>2. Cardinality(Mined(t)) \in Nat
  BY <1>1, SamplesFinite
<1>3. self_fold(Clients, Mined(t)) \in ClusterAcc
  BY <1>1, <1>2, RadioAssumption DEF self_fold, ClusterAcc
<1> DEFINE g == got[t]
           x == self_fold(Clients, Mined(t))
           accs == [i \in DOMAIN g |-> g[i].acc]
<1>4. g \in Seq(Msg) /\ \A i \in DOMAIN g : g[i].kind = "acc"
  BY DEF TypeOK
<1> DEFINE add == Added[t]
           M == {g[j].acc : j \in DOMAIN g} \cup ToSet(add)
           one == <<x>>
<1>5. Leaves(t) = one \o (accs \o add)
  BY DEF Leaves, PeerAccs
<1> HIDE DEF g, x
<1>6. (\A i \in DOMAIN g : g[i].acc \in ClusterAcc) /\ add \in Seq(ClusterAcc)
  BY <1>4, RadioAssumption
<1>7. M \subseteq ClusterAcc
  BY <1>6 DEF ToSet
<1>8. accs \in Seq(M)
  BY <1>4
<1>9. add \in Seq(M)
  <2>1. \A i \in 1 .. Len(add) : add[i] \in M
    BY <1>6 DEF ToSet
  <2>2. QED
    BY <1>6, <2>1
<1> DEFINE N == M \cup {x}
<1>10. one \in Seq(N) /\ Len(one) = 1
  OBVIOUS
<1> HIDE DEF accs, add, M
<1>11. accs \o add \in Seq(N)
  BY <1>8, <1>9
<1> DEFINE rest == accs \o add
           all == one \o rest
<1> HIDE DEF one, N, rest
<1>r. rest \in Seq(N)
  BY <1>11 DEF rest
<1>12. all \in Seq(N) /\ Len(all) = 1 + Len(rest) /\ Len(rest) \in Nat
  <2>1. Len(rest) \in Nat
    BY <1>r
  <2>2. QED
    BY <1>10, <1>r, <2>1, JoinedElements
<1> HIDE DEF all
<1>13. all # <<>> /\ \A i \in 1 .. Len(all) : all[i] = x \/ all[i] \in M
  <2>1. \A i \in 1 .. Len(all) : all[i] \in N
    BY <1>12
  <2>2. QED
    BY <1>12, <2>1 DEF N
<1>14. all \in Seq(ClusterAcc)
  <2>1. \A i \in 1 .. Len(all) : all[i] \in ClusterAcc
    BY <1>3, <1>7, <1>13 DEF x
  <2>2. QED
    BY <1>12, <2>1
<1>15. Leaves(t) = all
  BY <1>5 DEF all, rest
<1>16. QED
  BY <1>1, <1>3, <1>13, <1>14, <1>15 DEF x, g, M, add

(***************************************************************************)
(* Types.                                                                  *)
(***************************************************************************)

(* TypeOK, and that only a task between drain and requeue has something in *)
(* its hand, and only one that collects accumulators settles.              *)
PcInv ==
    /\ TypeOK
    /\ \A t \in Task : hand[t] # <<>> => pc[t] = "drained"
    /\ \A t \in Task : pc[t] \in {"settle", "settled"} => Kind[t] = "acc"

(* The start is typed. *)
LEMMA PcInvInit == Init => PcInv
<1> SUFFICES ASSUME Init PROVE PcInv
  OBVIOUS
<1>2. post \in [Task -> SUBSET Msg]
  BY RadioAssumption DEF Init
<1>3. NoRoot \in ClusterAcc
  BY DEF NoRoot, empty, ClusterAcc, Dim
<1>4. NoDial \in [msg : SUBSET Msg, peers : SUBSET Node]
  BY DEF NoDial
<1>5. QED
  BY <1>2, <1>3, <1>4 DEF Init, TypeOK, PcInv

(* Every step keeps the types and the places of the tasks. *)
LEMMA PcInvStep == PcInv /\ [Next]_vars => PcInv'
<1> SUFFICES ASSUME PcInv, [Next]_vars PROVE PcInv'
  OBVIOUS
<1> USE DEF PcInv, TypeOK
<1>1. ASSUME NEW n \in Node, NEW m \in Msg, handle_inbound(n, m) PROVE PcInv'
  <2>1. /\ inbox' \in [Node -> Seq(Msg)] /\ arrived' \in [Node -> SUBSET Msg]
        /\ seen' \in [Node -> SUBSET {content_id(x) : x \in Msg}]
    BY <1>1, IngestFacts DEF handle_inbound
  <2>2. QED
    BY <1>1, <2>1 DEF handle_inbound
<1>2. ASSUME NEW n \in Node, NEW m \in Msg, LoseFrame(n, m) PROVE PcInv'
  BY <1>2 DEF LoseFrame
<1>3. ASSUME NEW t \in Task, subscribe(t) PROVE PcInv'
  <2>1. subs' \in [Node -> SUBSET Topic]
    <3>1. On[t] \in Node /\ About[t] \in Topic
      BY RadioAssumption
    <3>2. subs' = [subs EXCEPT ![On[t]] = subs[On[t]] \cup {About[t]}]
      BY <1>3 DEF subscribe
    <3>3. QED
      BY <3>1, <3>2
  <2>2. QED
    BY <1>3, <2>1 DEF subscribe
<1>4. ASSUME NEW t \in Task, NEW m \in Msg, publish(t, m) PROVE PcInv'
  <2>1. /\ inbox' \in [Node -> Seq(Msg)] /\ arrived' \in [Node -> SUBSET Msg]
        /\ seen' \in [Node -> SUBSET {content_id(x) : x \in Msg}]
    BY <1>4, IngestFacts, RadioAssumption DEF publish
  <2>2. [msg |-> {m}, peers |-> Peers[On[t]] \ {On[t]}]
          \in [msg : SUBSET Msg, peers : SUBSET Node]
    BY RadioAssumption
  <2>3. dial' \in [Task -> [msg : SUBSET Msg, peers : SUBSET Node]]
    BY <1>4, <2>2 DEF publish
  <2>4. QED
    BY <1>4, <2>1, <2>3 DEF publish
<1>5. ASSUME NEW t \in Task, NEW p \in Node, push_to_peer(t, p) PROVE PcInv'
  <2> DEFINE left == [msg |-> dial[t].msg, peers |-> dial[t].peers \ {p}]
  <2>1. left \in [msg : SUBSET Msg, peers : SUBSET Node] /\ dial[t].msg \in SUBSET Msg
    OBVIOUS
  <2>2. dial' = [dial EXCEPT ![t] = left]
    BY <1>5 DEF push_to_peer
  <2>3. wire' \in SUBSET (Node \X Msg)
    BY <1>5, <2>1 DEF push_to_peer
  <2> HIDE DEF left
  <2>4. dial' \in [Task -> [msg : SUBSET Msg, peers : SUBSET Node]]
    BY <2>1, <2>2
  <2>5. QED
    BY <1>5, <2>3, <2>4 DEF push_to_peer
<1>6. ASSUME NEW t \in Task, Published(t) PROVE PcInv'
  <2>1. NoDial \in [msg : SUBSET Msg, peers : SUBSET Node]
    BY DEF NoDial
  <2>2. QED
    BY <1>6, <2>1 DEF Published, radio
<1>7. ASSUME NEW t \in Task, drain(t) PROVE PcInv'
  <2> DEFINE R == Rest(t)
             C == Collected(t)
             box == inbox[On[t]]
  <2>1. On[t] \in Node /\ box \in Seq(Msg) /\ got[t] \in Seq(Msg)
    BY RadioAssumption
  <2>2. /\ R \in Seq(Msg) /\ C \in Seq(Msg)
        /\ ToSet(C) \subseteq ToSet(got[t]) \cup {m \in ToSet(box) : Wanted(t, m)}
    BY <2>1, DrainFacts
  <2>3. \A i \in DOMAIN C : C[i].kind = Kind[t]
    BY <2>2 DEF ToSet, Wanted
  <2>4. /\ hand' = [hand EXCEPT ![t] = R] /\ got' = [got EXCEPT ![t] = C]
        /\ inbox' = [inbox EXCEPT ![On[t]] = <<>>] /\ pc' = [pc EXCEPT ![t] = "drained"]
    BY <1>7 DEF drain
  <2> HIDE DEF R, C, box
  <2>5. hand' \in [Task -> Seq(Msg)] /\ got' \in [Task -> Seq(Msg)] /\ inbox' \in [Node -> Seq(Msg)]
    BY <2>1, <2>2, <2>4
  <2>6. \A u \in Task : \A i \in DOMAIN got'[u] : got'[u][i].kind = Kind[u]
    BY <2>3, <2>4
  <2>7. \A u \in Task : hand'[u] # <<>> => pc'[u] = "drained"
    BY <2>4
  <2>8. QED
    BY <1>7, <2>4, <2>5, <2>6, <2>7 DEF drain
<1>8. ASSUME NEW t \in Task, Requeue(t) PROVE PcInv'
  <2>1. On[t] \in Node
    BY RadioAssumption
  <2> DEFINE back == inbox[On[t]] \o hand[t]
  <2>2. back \in Seq(Msg)
    BY <2>1
  <2>3. /\ inbox' = [inbox EXCEPT ![On[t]] = back]
        /\ hand' = [hand EXCEPT ![t] = <<>>]
        /\ pc' = [pc EXCEPT ![t] = IF Kind[t] = "acc" /\ Enough(t) THEN "settle" ELSE "ready"]
    BY <1>8 DEF Requeue
  <2> HIDE DEF back
  <2>4. inbox' \in [Node -> Seq(Msg)]
    BY <2>2, <2>3
  <2>6. hand' \in [Task -> Seq(Msg)]
    BY <2>3
  <2>5. QED
    BY <1>8, <2>3, <2>4, <2>6 DEF Requeue
<1>9. ASSUME NEW t \in Task, Timeout(t) PROVE PcInv'
  BY <1>9 DEF Timeout, Polling, radio
<1>10. ASSUME NEW t \in Task, settle_with_peer_accs(t) PROVE PcInv'
  <2>1. Kind[t] = "acc"
    BY <1>10 DEF settle_with_peer_accs
  <2>2. Leaves(t) \in Seq(ClusterAcc) /\ Leaves(t) # <<>>
    BY <2>1, LeavesType
  <2>3. FoldTree(Leaves(t)) \in ClusterAcc
    BY <2>2, TreeType
  <2>4. root' \in [Task -> ClusterAcc]
    BY <1>10, <2>3 DEF settle_with_peer_accs
  <2>5. QED
    BY <1>10, <2>1, <2>4 DEF settle_with_peer_accs, radio
<1>11. CASE UNCHANGED vars
  BY <1>11 DEF vars
<1>12. QED
  BY <1>1, <1>2, <1>3, <1>4, <1>5, <1>6, <1>7, <1>8, <1>9, <1>10, <1>11 DEF Next

(* Every variable keeps its type, whatever is published, lost, drained and *)
(* folded, and what a task has collected is of the kind it collects.       *)
THEOREM TypeOKHolds == Spec => []TypeOK
<1>1. PcInv => TypeOK
  BY DEF PcInv
<1>2. QED
  BY <1>1, PcInvInit, PcInvStep, PTL DEF Spec

(***************************************************************************)
(* Where messages are.                                                     *)
(***************************************************************************)

(* No message is at two places of a node, and the ids of all of them are   *)
(* among those the node has seen.                                          *)
PlacedOnce ==
    /\ \A n \in Node : IsInjective(inbox[n])
    /\ \A t \in Task : IsInjective(hand[t]) /\ IsInjective(got[t])
    /\ \A t \in Task : \A m \in ToSet(got[t]) : Wanted(t, m)
    /\ \A t \in Task : ToSet(inbox[On[t]]) \cap (ToSet(hand[t]) \cup ToSet(got[t])) = {}
    /\ \A t, u \in Task : On[t] = On[u] =>
          /\ ToSet(hand[t]) \cap ToSet(got[u]) = {}
          /\ t # u => /\ ToSet(hand[t]) \cap ToSet(hand[u]) = {}
                      /\ ToSet(got[t]) \cap ToSet(got[u]) = {}
    /\ \A n \in Node : \A m \in ToSet(inbox[n]) : content_id(m) \in seen[n]
    /\ \A t \in Task : \A m \in ToSet(hand[t]) \cup ToSet(got[t]) : content_id(m) \in seen[On[t]]

RadioInv == PcInv /\ PlacedOnce

(* A message is appended to an inbox. *)
LEMMA AppendFacts ==
    ASSUME NEW M, NEW s \in Seq(M), NEW m \in M
    PROVE  /\ ToSet(Append(s, m)) = ToSet(s) \cup {m}
           /\ IsInjective(s) /\ m \notin ToSet(s) => IsInjective(Append(s, m))
<1> DEFINE c == Append(s, m)
           k == Len(s)
<1>1. /\ k \in Nat /\ DOMAIN c = 1 .. k + 1 /\ DOMAIN s = 1 .. k
      /\ \A i \in 1 .. k : c[i] = s[i]
      /\ c[k + 1] = m
  OBVIOUS
<1> HIDE DEF c, k
<1>2. \A i \in 1 .. k + 1 : i \in 1 .. k \/ i = k + 1
  BY <1>1
<1>3. ToSet(c) = ToSet(s) \cup {m}
  BY <1>1, <1>2 DEF ToSet
<1>4. ASSUME IsInjective(s), m \notin ToSet(s), NEW i \in DOMAIN c, NEW j \in DOMAIN c, c[i] = c[j]
      PROVE  i = j
  BY <1>1, <1>2, <1>4 DEF ToSet, IsInjective
<1>5. QED
  BY <1>3, <1>4 DEF c, IsInjective

(* What a drain keeps when accumulators are distinct: everything wanted,   *)
(* once.                                                                   *)
LEMMA DrainOnce ==
    ASSUME AccsDistinct, RadioInv, NEW t \in Task
    PROVE  /\ IsInjective(Rest(t)) /\ IsInjective(Collected(t))
           /\ ToSet(Collected(t)) = ToSet(got[t]) \cup {m \in ToSet(inbox[On[t]]) : Wanted(t, m)}
<1> DEFINE box == inbox[On[t]]
           at == WantedAt(t)
           new == Chosen(box, at)
           all == got[t] \o new
           K == {i \in DOMAIN all : \A j \in 1 .. i - 1 : all[j].acc # all[i].acc}
           no == DOMAIN box \ at
<1>1. /\ On[t] \in Node /\ box \in Seq(Msg) /\ got[t] \in Seq(Msg)
      /\ IsInjective(box) /\ IsInjective(got[t]) /\ ToSet(box) \cap ToSet(got[t]) = {}
      /\ \A m \in ToSet(got[t]) : Wanted(t, m)
  BY RadioAssumption DEF RadioInv, PcInv, TypeOK, PlacedOnce
<1>2. at \subseteq DOMAIN box /\ \A i \in DOMAIN box : i \in at <=> Wanted(t, box[i])
  BY DEF WantedAt
<1>3. /\ Rest(t) = Chosen(box, no)
      /\ Collected(t) = IF Kind[t] = "acc" THEN Chosen(all, K) ELSE all
  BY DEF Rest, Collected, Retain
<1> HIDE DEF at, box, no
<1>4. IsInjective(Rest(t))
  BY <1>1, <1>3, ChosenFacts
<1>5. /\ new \in Seq(Msg) /\ ToSet(new) = {box[i] : i \in at \cap DOMAIN box}
      /\ IsInjective(new)
  BY <1>1, ChosenFacts
<1> HIDE DEF new
<1>6. ToSet(new) = {m \in ToSet(box) : Wanted(t, m)}
  BY <1>2, <1>5 DEF ToSet
<1>7. all \in Seq(Msg) /\ ToSet(all) = ToSet(got[t]) \cup ToSet(new) /\ IsInjective(all)
  <2>1. ToSet(got[t]) \cap ToSet(new) = {}
    BY <1>1, <1>6
  <2>2. QED
    BY <1>1, <1>5, <2>1, JoinedElements
<1> HIDE DEF all
<1>8. ASSUME Kind[t] = "acc" PROVE K = DOMAIN all
  <2>1. ASSUME NEW i \in DOMAIN all, NEW j \in 1 .. i - 1 PROVE all[j].acc # all[i].acc
    <3>1. DOMAIN all = 1 .. Len(all) /\ Len(all) \in Nat
      BY <1>7
    <3>2. j \in DOMAIN all /\ j # i
      BY <3>1
    <3>3. all[i] \in ToSet(all) /\ all[j] \in ToSet(all) /\ all[i] \in Msg /\ all[j] \in Msg
      BY <1>7, <3>2 DEF ToSet
    <3>4. Wanted(t, all[i]) /\ Wanted(t, all[j])
      BY <1>1, <1>6, <1>7, <3>3
    <3>5. all[i] # all[j]
      BY <1>7, <3>2 DEF IsInjective
    <3>6. QED
      BY <1>8, <3>3, <3>4, <3>5 DEF Wanted, AccsDistinct
  <2>2. QED
    BY <2>1
<1>9. Kind[t] = "acc" => /\ IsInjective(Chosen(all, K))
                         /\ ToSet(Chosen(all, K)) = {all[k] : k \in DOMAIN all}
  <2> HIDE DEF K
  <2>1. IsInjective(Chosen(all, K)) /\ ToSet(Chosen(all, K)) = {all[k] : k \in K \cap DOMAIN all}
    BY <1>7, ChosenFacts
  <2>2. QED
    BY <1>8, <2>1
<1> HIDE DEF K
<1>10. QED
  BY <1>3, <1>4, <1>6, <1>7, <1>9 DEF ToSet, box

(* What a step does to the messages of the nodes: one is let in somewhere, *)
(* or a task drains its node's inbox, or puts back, or nothing moves.      *)
LetsIn(n, m) ==
    /\ inbox' = [inbox EXCEPT ![n] = Append(@, m)]
    /\ content_id(m) \notin seen[n]
    /\ seen' = [seen EXCEPT ![n] = @ \cup {content_id(m)}]
    /\ arrived' = [arrived EXCEPT ![n] = @ \cup {m}]
    /\ hand' = hand /\ got' = got

(* A message is received again: only the history may change. *)
Ignores(n, m) ==
    /\ UNCHANGED <<inbox, seen, hand, got>>
    /\ \A o \in Node : \A x \in arrived'[o] :
          x \in arrived[o] \/ (o = n /\ x = m /\ content_id(m) \in seen[n])

Still == UNCHANGED <<inbox, seen, arrived, hand, got>>

(* Every step lets a message in, ignores it, drains, puts back, or touches *)
(* no message.                                                             *)
LEMMA Moves ==
    ASSUME PcInv, [Next]_vars
    PROVE  \/ \E n \in Node, m \in Msg : LetsIn(n, m) \/ Ignores(n, m)
           \/ \E t \in Task : drain(t) \/ Requeue(t)
           \/ Still
<1>1. ASSUME NEW n \in Node, NEW m \in Msg, ingest(n, m), UNCHANGED <<hand, got>>
      PROVE  LetsIn(n, m) \/ Ignores(n, m)
  <2>1. \/ /\ inbox' = inbox
           /\ \A o \in Node : \A x \in arrived'[o] :
                  x \in arrived[o] \/ (o = n /\ x = m /\ content_id(m) \in seen[n])
           /\ seen' = seen
        \/ /\ inbox' = [inbox EXCEPT ![n] = Append(@, m)]
           /\ content_id(m) \notin seen[n]
           /\ seen' = [seen EXCEPT ![n] = @ \cup {content_id(m)}]
           /\ arrived' = [arrived EXCEPT ![n] = @ \cup {m}]
    BY <1>1, IngestFacts DEF PcInv, TypeOK
  <2>2. QED
    BY <1>1, <2>1 DEF LetsIn, Ignores
<1>2. ASSUME NEW n \in Node, NEW m \in Msg, handle_inbound(n, m)
      PROVE  LetsIn(n, m) \/ Ignores(n, m)
  BY <1>1, <1>2 DEF handle_inbound
<1>3. ASSUME NEW n \in Node, NEW m \in Msg, LoseFrame(n, m) PROVE Still
  BY <1>3 DEF LoseFrame, Still
<1>4. ASSUME NEW t \in Task, NEW m \in Msg, publish(t, m)
      PROVE  \E n \in Node : LetsIn(n, m) \/ Ignores(n, m)
  BY <1>1, <1>4, RadioAssumption DEF publish
<1>5. ASSUME NEW t \in Task, subscribe(t) \/ Published(t) \/ Timeout(t) \/ settle_with_peer_accs(t)
      PROVE  Still
  BY <1>5 DEF subscribe, Published, Timeout, settle_with_peer_accs, radio, Still
<1>6. ASSUME NEW t \in Task, NEW p \in Node, push_to_peer(t, p) PROVE Still
  BY <1>6 DEF push_to_peer, Still
<1>7. CASE UNCHANGED vars
  BY <1>7 DEF vars, Still
<1>8. QED
  BY <1>2, <1>3, <1>4, <1>5, <1>6, <1>7 DEF Next

(* A step leaves no message at two places. *)
LEMMA PlacedStep ==
    ASSUME AccsDistinct, RadioInv, [Next]_vars
    PROVE  PlacedOnce'
<1> USE DEF RadioInv
<1>t. /\ inbox \in [Node -> Seq(Msg)] /\ hand \in [Task -> Seq(Msg)] /\ got \in [Task -> Seq(Msg)]
      /\ seen \in [Node -> SUBSET {content_id(m) : m \in Msg}]
      /\ On \in [Task -> Node]
  BY RadioAssumption DEF PcInv, TypeOK
<1>1. ASSUME NEW n \in Node, NEW m \in Msg, LetsIn(n, m) PROVE PlacedOnce'
  <2> DEFINE new == Append(inbox[n], m)
  <2>1. m \notin ToSet(inbox[n])
    BY <1>1 DEF LetsIn, PlacedOnce
  <2>2. ToSet(new) = ToSet(inbox[n]) \cup {m} /\ IsInjective(new)
    BY <1>t, <2>1, AppendFacts DEF PlacedOnce
  <2>3. /\ inbox' = [inbox EXCEPT ![n] = new] /\ content_id(m) \notin seen[n]
        /\ seen' = [seen EXCEPT ![n] = @ \cup {content_id(m)}] /\ hand' = hand /\ got' = got
    BY <1>1 DEF LetsIn
  <2> HIDE DEF new
  <2>4. /\ inbox'[n] = new /\ \A o \in Node : o # n => inbox'[o] = inbox[o]
        /\ seen'[n] = seen[n] \cup {content_id(m)} /\ \A o \in Node : seen[o] \subseteq seen'[o]
    BY <1>t, <2>3
  <2>5. \A o \in Node : IsInjective(inbox'[o])
    BY <2>2, <2>4 DEF PlacedOnce
  <2>6. \A o \in Node : \A x \in ToSet(inbox'[o]) : content_id(x) \in seen'[o]
    <3>1. SUFFICES ASSUME NEW o \in Node, NEW x \in ToSet(inbox'[o]) PROVE content_id(x) \in seen'[o]
      OBVIOUS
    <3>2. CASE o = n
      BY <2>2, <2>4, <3>2 DEF PlacedOnce
    <3>3. CASE o # n
      BY <2>4, <3>3 DEF PlacedOnce
    <3>4. QED
      BY <3>2, <3>3
  <2>7. \A t \in Task : \A x \in ToSet(hand[t]) \cup ToSet(got[t]) : content_id(x) \in seen'[On[t]]
    BY <1>t, <2>4 DEF PlacedOnce
  <2>8. \A t \in Task : ToSet(inbox'[On[t]]) \cap (ToSet(hand[t]) \cup ToSet(got[t])) = {}
    <3>1. SUFFICES ASSUME NEW t \in Task
                   PROVE  ToSet(inbox'[On[t]]) \cap (ToSet(hand[t]) \cup ToSet(got[t])) = {}
      OBVIOUS
    <3>2. CASE On[t] = n
      <4>1. m \notin ToSet(hand[t]) \cup ToSet(got[t])
        BY <2>3, <3>2 DEF PlacedOnce
      <4>2. ToSet(inbox[n]) \cap (ToSet(hand[t]) \cup ToSet(got[t])) = {}
        BY <3>2 DEF PlacedOnce
      <4>3. QED
        BY <2>2, <2>4, <3>2, <4>1, <4>2
    <3>3. CASE On[t] # n
      BY <1>t, <2>4, <3>3 DEF PlacedOnce
    <3>4. QED
      BY <3>2, <3>3
  <2>9. QED
    BY <2>3, <2>5, <2>6, <2>7, <2>8 DEF PlacedOnce, Wanted
<1>2. ASSUME NEW n \in Node, NEW m \in Msg, Ignores(n, m) PROVE PlacedOnce'
  BY <1>2 DEF Ignores, PlacedOnce, Wanted
<1>3. ASSUME NEW t \in Task, drain(t) PROVE PlacedOnce'
  <2> DEFINE n == On[t]
             R == Rest(t)
             C == Collected(t)
             B == ToSet(inbox[n])
             W == {m \in B : Wanted(t, m)}
  <2>1. /\ IsInjective(R) /\ IsInjective(C)
        /\ ToSet(R) = B \ W /\ ToSet(C) = ToSet(got[t]) \cup W
    BY <1>t, DrainFacts, DrainOnce
  <2>2. /\ hand' = [hand EXCEPT ![t] = R] /\ got' = [got EXCEPT ![t] = C]
        /\ inbox' = [inbox EXCEPT ![n] = <<>>] /\ seen' = seen
        /\ hand[t] = <<>>
    BY <1>3 DEF drain, Polling, PcInv
  <2>3. W \subseteq B /\ \A m \in W : Wanted(t, m)
    OBVIOUS
  <2>4. ToSet(<<>>) = {} /\ IsInjective(<<>>)
    BY DEF ToSet, IsInjective
  <2> HIDE DEF R, C, W, n
  <2>5. /\ hand'[t] = R /\ \A u \in Task : u # t => hand'[u] = hand[u]
        /\ got'[t] = C /\ \A u \in Task : u # t => got'[u] = got[u]
        /\ inbox'[n] = <<>> /\ \A o \in Node : o # n => inbox'[o] = inbox[o]
        /\ On[t] = n /\ n \in Node
    BY <1>t, <2>2 DEF n
  <2>6. \A o \in Node : IsInjective(inbox'[o])
    BY <2>4, <2>5 DEF PlacedOnce
  <2>7. \A u \in Task : IsInjective(hand'[u]) /\ IsInjective(got'[u])
    BY <2>1, <2>5 DEF PlacedOnce
  <2>8. \A u \in Task : \A m \in ToSet(got'[u]) : Wanted(u, m)
    <3>1. \A m \in ToSet(got'[t]) : Wanted(t, m)
      BY <2>1, <2>3, <2>5 DEF PlacedOnce
    <3>2. QED
      BY <2>5, <3>1 DEF PlacedOnce
  <2>9. \A u \in Task : ToSet(inbox'[On[u]]) \cap (ToSet(hand'[u]) \cup ToSet(got'[u])) = {}
    <3>1. SUFFICES ASSUME NEW u \in Task
                   PROVE  ToSet(inbox'[On[u]]) \cap (ToSet(hand'[u]) \cup ToSet(got'[u])) = {}
      OBVIOUS
    <3>2. CASE On[u] = n
      BY <2>4, <2>5, <3>2
    <3>3. CASE On[u] # n
      BY <1>t, <2>5, <3>3 DEF PlacedOnce
    <3>4. QED
      BY <3>2, <3>3
  <2>10. ASSUME NEW u \in Task, NEW v \in Task, On[u] = On[v]
         PROVE  /\ ToSet(hand'[u]) \cap ToSet(got'[v]) = {}
                /\ u # v => /\ ToSet(hand'[u]) \cap ToSet(hand'[v]) = {}
                            /\ ToSet(got'[u]) \cap ToSet(got'[v]) = {}
    <3> DEFINE H(x) == ToSet(hand[x])
               G(x) == ToSet(got[x])
    <3>1. /\ ToSet(hand'[u]) = IF u = t THEN B \ W ELSE H(u)
          /\ ToSet(hand'[v]) = IF v = t THEN B \ W ELSE H(v)
          /\ ToSet(got'[u]) = IF u = t THEN G(u) \cup W ELSE G(u)
          /\ ToSet(got'[v]) = IF v = t THEN G(v) \cup W ELSE G(v)
      BY <2>1, <2>5
    <3>2. /\ H(u) \cap G(v) = {}
          /\ u # v => H(u) \cap H(v) = {} /\ G(u) \cap G(v) = {}
      BY <2>10 DEF PlacedOnce
    <3>3. u = t \/ v = t => /\ B \cap H(u) = {} /\ B \cap G(u) = {}
                            /\ B \cap H(v) = {} /\ B \cap G(v) = {}
      <4>1. u = t \/ v = t => On[u] = n /\ On[v] = n
        BY <2>5, <2>10
      <4>2. \A x \in Task : On[x] = n => B \cap H(x) = {} /\ B \cap G(x) = {}
        BY DEF PlacedOnce
      <4> HIDE DEF H, G, B
      <4>3. QED
        BY <4>1, <4>2
    <3> HIDE DEF H, G, B
    <3>4. QED
      BY <2>3, <3>1, <3>2, <3>3
  <2>11. \A o \in Node : \A m \in ToSet(inbox'[o]) : content_id(m) \in seen'[o]
    BY <2>2, <2>4, <2>5 DEF PlacedOnce
  <2>12. \A u \in Task : \A m \in ToSet(hand'[u]) \cup ToSet(got'[u]) : content_id(m) \in seen'[On[u]]
    <3>1. \A m \in ToSet(hand'[t]) \cup ToSet(got'[t]) : content_id(m) \in seen'[On[t]]
      <4>1. \A m \in B : content_id(m) \in seen[n]
        BY <2>5 DEF PlacedOnce
      <4>2. \A m \in ToSet(got[t]) : content_id(m) \in seen[n]
        BY <2>5 DEF PlacedOnce
      <4> HIDE DEF B
      <4>3. QED
        BY <2>1, <2>2, <2>3, <2>5, <4>1, <4>2
    <3>2. QED
      BY <2>2, <2>5, <3>1 DEF PlacedOnce
  <2>13. QED
    BY <2>6, <2>7, <2>8, <2>9, <2>10, <2>11, <2>12 DEF PlacedOnce, Wanted
<1>4. ASSUME NEW t \in Task, Requeue(t) PROVE PlacedOnce'
  <2> DEFINE n == On[t]
             R == inbox[n] \o hand[t]
  <2>1. /\ IsInjective(R) /\ ToSet(R) = ToSet(inbox[n]) \cup ToSet(hand[t])
    <3>1. IsInjective(inbox[n]) /\ IsInjective(hand[t]) /\ ToSet(inbox[n]) \cap ToSet(hand[t]) = {}
      BY <1>t DEF PlacedOnce
    <3>2. QED
      BY <1>t, <3>1, JoinedElements
  <2>2. /\ hand' = [hand EXCEPT ![t] = <<>>] /\ got' = got
        /\ inbox' = [inbox EXCEPT ![n] = R] /\ seen' = seen
    BY <1>4 DEF Requeue
  <2>3. ToSet(<<>>) = {} /\ IsInjective(<<>>)
    BY DEF ToSet, IsInjective
  <2> HIDE DEF R, n
  <2>4. /\ hand'[t] = <<>> /\ \A u \in Task : u # t => hand'[u] = hand[u]
        /\ inbox'[n] = R /\ \A o \in Node : o # n => inbox'[o] = inbox[o]
        /\ On[t] = n /\ n \in Node
    BY <1>t, <2>2 DEF n
  <2>5. \A o \in Node : IsInjective(inbox'[o])
    BY <2>1, <2>4 DEF PlacedOnce
  <2>6. \A u \in Task : IsInjective(hand'[u]) /\ ToSet(hand'[u]) \subseteq ToSet(hand[u])
    BY <2>3, <2>4 DEF PlacedOnce
  <2>7. \A u \in Task : ToSet(inbox'[On[u]]) \cap (ToSet(hand'[u]) \cup ToSet(got'[u])) = {}
    <3>1. SUFFICES ASSUME NEW u \in Task
                   PROVE  ToSet(inbox'[On[u]]) \cap (ToSet(hand'[u]) \cup ToSet(got[u])) = {}
      BY <2>2
    <3>2. CASE On[u] = n
      <4>1. ToSet(inbox[n]) \cap (ToSet(hand[u]) \cup ToSet(got[u])) = {}
        BY <3>2 DEF PlacedOnce
      <4>2. ToSet(hand[t]) \cap ToSet(got[u]) = {}
        BY <2>4, <3>2 DEF PlacedOnce
      <4>3. ToSet(hand[t]) \cap ToSet(hand'[u]) = {}
        BY <2>3, <2>4, <3>2 DEF PlacedOnce
      <4>4. QED
        BY <2>1, <2>4, <2>6, <3>2, <4>1, <4>2, <4>3
    <3>3. CASE On[u] # n
      <4>1. inbox'[On[u]] = inbox[On[u]]
        BY <1>t, <2>4, <3>3
      <4>2. ToSet(inbox[On[u]]) \cap (ToSet(hand[u]) \cup ToSet(got[u])) = {}
        BY DEF PlacedOnce
      <4>3. QED
        BY <2>6, <4>1, <4>2
    <3>4. QED
      BY <3>2, <3>3
  <2>8. ASSUME NEW u \in Task, NEW v \in Task, On[u] = On[v]
         PROVE  /\ ToSet(hand'[u]) \cap ToSet(got'[v]) = {}
                /\ u # v => /\ ToSet(hand'[u]) \cap ToSet(hand'[v]) = {}
                            /\ ToSet(got'[u]) \cap ToSet(got'[v]) = {}
    <3>1. /\ ToSet(hand[u]) \cap ToSet(got[v]) = {}
          /\ u # v => ToSet(hand[u]) \cap ToSet(hand[v]) = {} /\ ToSet(got[u]) \cap ToSet(got[v]) = {}
      BY <2>8 DEF PlacedOnce
    <3>2. QED
      BY <2>2, <2>6, <3>1
  <2>9. \A o \in Node : \A m \in ToSet(inbox'[o]) : content_id(m) \in seen'[o]
    <3>1. \A m \in ToSet(inbox[n]) \cup ToSet(hand[t]) : content_id(m) \in seen[n]
      BY <2>4 DEF PlacedOnce
    <3>2. QED
      BY <2>1, <2>2, <2>4, <3>1 DEF PlacedOnce
  <2>10. \A u \in Task : \A m \in ToSet(hand'[u]) \cup ToSet(got'[u]) : content_id(m) \in seen'[On[u]]
    BY <2>2, <2>6 DEF PlacedOnce
  <2>11. QED
    BY <2>2, <2>5, <2>6, <2>7, <2>8, <2>9, <2>10 DEF PlacedOnce, Wanted
<1>5. CASE Still
  BY <1>5 DEF Still, PlacedOnce, Wanted
<1>6. QED
  BY <1>1, <1>2, <1>3, <1>4, <1>5, Moves

(* The inductive invariant. *)
LEMMA RadioInvHolds ==
    ASSUME AccsDistinct
    PROVE  Spec => []RadioInv
<1>1. Init => RadioInv
  <2>1. ToSet(<<>>) = {} /\ IsInjective(<<>>)
    BY DEF ToSet, IsInjective
  <2>2. Init => PlacedOnce
    BY <2>1, RadioAssumption DEF Init, PlacedOnce
  <2>3. QED
    BY <2>2, PcInvInit DEF RadioInv
<1>2. RadioInv /\ [Next]_vars => RadioInv'
  BY PcInvStep, PlacedStep DEF RadioInv
<1>3. QED
  BY <1>1, <1>2, PTL DEF Spec

(***************************************************************************)
(* The radio as a transport.                                               *)
(***************************************************************************)

(* What the steps that move messages do to the waiting and to the given.   *)
LEMMA WaitingStep ==
    ASSUME AccsDistinct, RadioInv, [Next]_vars
    PROVE  \/ \E n \in Node, m \in Msg :
                /\ LetsIn(n, m)
                /\ m \notin Waiting[n] \cup Given[n]
                /\ Waiting' = [Waiting EXCEPT ![n] = @ \cup {m}]
                /\ Given' = Given
           \/ \E n \in Node : \E S \in SUBSET Waiting[n] :
                /\ Waiting' = [Waiting EXCEPT ![n] = @ \ S]
                /\ Given' = [Given EXCEPT ![n] = @ \cup S]
                /\ UNCHANGED <<seen, arrived>>
           \/ \E n \in Node, m \in Msg : Ignores(n, m) /\ UNCHANGED <<Waiting, Given>>
           \/ UNCHANGED <<Waiting, Given, seen, arrived>>
<1> USE DEF RadioInv
<1>t. /\ inbox \in [Node -> Seq(Msg)] /\ hand \in [Task -> Seq(Msg)] /\ got \in [Task -> Seq(Msg)]
      /\ On \in [Task -> Node]
  BY RadioAssumption DEF PcInv, TypeOK
<1>w. /\ Waiting = [n \in Node |-> Waiting[n]] /\ Given = [n \in Node |-> Given[n]]
      /\ Waiting' = [n \in Node |-> Waiting'[n]] /\ Given' = [n \in Node |-> Given'[n]]
  BY DEF Waiting, Given
<1>v. \A o \in Node :
        /\ \A x : x \in Waiting[o] <=> \/ x \in ToSet(inbox[o])
                                       \/ \E u \in Task : On[u] = o /\ x \in ToSet(hand[u])
        /\ \A x : x \in Waiting'[o] <=> \/ x \in ToSet(inbox'[o])
                                        \/ \E u \in Task : On[u] = o /\ x \in ToSet(hand'[u])
        /\ \A x : x \in Given[o] <=> \E u \in Task : On[u] = o /\ x \in ToSet(got[u])
        /\ \A x : x \in Given'[o] <=> \E u \in Task : On[u] = o /\ x \in ToSet(got'[u])
  BY DEF Waiting, Given, Tasks
<1>1. ASSUME NEW n \in Node, NEW m \in Msg, LetsIn(n, m)
      PROVE  /\ m \notin Waiting[n] \cup Given[n]
             /\ Waiting' = [Waiting EXCEPT ![n] = @ \cup {m}]
             /\ Given' = Given
  <2>1. ToSet(Append(inbox[n], m)) = ToSet(inbox[n]) \cup {m}
    BY <1>t, AppendFacts
  <2>2. \A o \in Node : ToSet(inbox'[o]) = IF o = n THEN ToSet(inbox[n]) \cup {m} ELSE ToSet(inbox[o])
    BY <1>1, <1>t, <2>1 DEF LetsIn
  <2>3. hand' = hand /\ got' = got /\ content_id(m) \notin seen[n]
    BY <1>1 DEF LetsIn
  <2>4. Given' = Given
    BY <2>3 DEF Given, Tasks
  <2>5. \A o \in Node : Waiting'[o] = IF o = n THEN Waiting[n] \cup {m} ELSE Waiting[o]
    BY <2>2, <2>3 DEF Waiting, Tasks
  <2>6. Waiting' = [Waiting EXCEPT ![n] = @ \cup {m}]
    BY <1>w, <2>5
  <2>7. m \notin Waiting[n] \cup Given[n]
    BY <2>3 DEF PlacedOnce, Waiting, Given, Tasks
  <2>8. QED
    BY <2>4, <2>6, <2>7
<1>2. ASSUME NEW n \in Node, NEW m \in Msg, Ignores(n, m) PROVE UNCHANGED <<Waiting, Given>>
  BY <1>2 DEF Ignores, Waiting, Given, Tasks
<1>3. ASSUME NEW t \in Task, drain(t)
      PROVE  \E n \in Node : \E S \in SUBSET Waiting[n] :
                /\ Waiting' = [Waiting EXCEPT ![n] = @ \ S]
                /\ Given' = [Given EXCEPT ![n] = @ \cup S]
                /\ UNCHANGED <<seen, arrived>>
  <2> DEFINE n == On[t]
             R == Rest(t)
             C == Collected(t)
             B == ToSet(inbox[n])
             W == {m \in B : Wanted(t, m)}
  <2>1. ToSet(R) = B \ W /\ ToSet(C) = ToSet(got[t]) \cup W
    BY <1>t, DrainFacts, DrainOnce
  <2>2. /\ hand' = [hand EXCEPT ![t] = R] /\ got' = [got EXCEPT ![t] = C]
        /\ inbox' = [inbox EXCEPT ![n] = <<>>] /\ UNCHANGED <<seen, arrived>>
        /\ hand[t] = <<>>
    BY <1>3 DEF drain, Polling, PcInv
  <2>3. W \subseteq B /\ ToSet(<<>>) = {}
    BY DEF ToSet
  <2>4. \A u \in Task : On[u] = n => B \cap ToSet(hand[u]) = {}
    BY DEF PlacedOnce
  <2>5. n \in Node
    BY <1>t
  <2> HIDE DEF R, C, W
  <2>6. /\ \A u \in Task : ToSet(hand'[u]) = IF u = t THEN B \ W ELSE ToSet(hand[u])
        /\ \A u \in Task : ToSet(got'[u]) = IF u = t THEN ToSet(got[t]) \cup W ELSE ToSet(got[u])
        /\ \A o \in Node : ToSet(inbox'[o]) = IF o = n THEN {} ELSE ToSet(inbox[o])
        /\ ToSet(hand[t]) = {}
    BY <1>t, <2>1, <2>2, <2>3, <2>5
  <2>7. \A o \in Node : Waiting'[o] = IF o = n THEN Waiting[n] \ W ELSE Waiting[o]
    <3>1. ASSUME NEW o \in Node, o # n PROVE Waiting'[o] = Waiting[o]
      <4>1. \A u \in Task : On[u] = o => ToSet(hand'[u]) = ToSet(hand[u])
        BY <2>6, <3>1
      <4>2. \A x : x \in Waiting'[o] <=> x \in Waiting[o]
        BY <1>v, <2>6, <3>1, <4>1
      <4>3. QED
        BY <4>2
    <3>2. Waiting'[n] \subseteq Waiting[n] \ W
      BY <2>3, <2>4, <2>5, <2>6 DEF Waiting, Tasks
    <3>3. Waiting[n] \ W \subseteq Waiting'[n]
      BY <2>3, <2>4, <2>5, <2>6 DEF Waiting, Tasks
    <3>4. QED
      BY <3>1, <3>2, <3>3
  <2>8. \A o \in Node : Given'[o] = IF o = n THEN Given[n] \cup W ELSE Given[o]
    <3>1. ASSUME NEW o \in Node, o # n PROVE Given'[o] = Given[o]
      <4>1. \A u \in Task : On[u] = o => ToSet(got'[u]) = ToSet(got[u])
        BY <2>6, <3>1
      <4>2. \A x : x \in Given'[o] <=> x \in Given[o]
        BY <1>v, <3>1, <4>1
      <4>3. QED
        BY <4>2
    <3>2. \A x : x \in Given'[n] <=> x \in Given[n] \/ x \in W
      BY <1>v, <2>5, <2>6
    <3>3. Given'[n] = Given[n] \cup W
      BY <3>2
    <3> HIDE DEF n
    <3>4. QED
      BY <3>1, <3>3
  <2>9. W \in SUBSET Waiting[n]
    BY <2>3, <2>5 DEF Waiting
  <2> HIDE DEF n, B
  <2>10. Waiting' = [Waiting EXCEPT ![n] = @ \ W] /\ Given' = [Given EXCEPT ![n] = @ \cup W]
    BY <1>w, <2>5, <2>7, <2>8
  <2>11. QED
    BY <2>2, <2>5, <2>9, <2>10
<1>4. ASSUME NEW t \in Task, Requeue(t) PROVE UNCHANGED <<Waiting, Given, seen, arrived>>
  <2> DEFINE n == On[t]
             R == inbox[n] \o hand[t]
  <2>1. ToSet(R) = ToSet(inbox[n]) \cup ToSet(hand[t])
    BY <1>t, JoinedElements
  <2>2. /\ hand' = [hand EXCEPT ![t] = <<>>] /\ got' = got
        /\ inbox' = [inbox EXCEPT ![n] = R] /\ UNCHANGED <<seen, arrived>>
    BY <1>4 DEF Requeue
  <2>3. ToSet(<<>>) = {} /\ n \in Node
    BY <1>t DEF ToSet
  <2> HIDE DEF R
  <2>4. /\ \A u \in Task : ToSet(hand'[u]) = IF u = t THEN {} ELSE ToSet(hand[u])
        /\ \A o \in Node : ToSet(inbox'[o])
             = IF o = n THEN ToSet(inbox[n]) \cup ToSet(hand[t]) ELSE ToSet(inbox[o])
    BY <1>t, <2>1, <2>2, <2>3
  <2>5. \A o \in Node : Waiting'[o] = Waiting[o]
    <3>1. ASSUME NEW o \in Node, o # n PROVE Waiting'[o] = Waiting[o]
      <4>1. \A u \in Task : On[u] = o => ToSet(hand'[u]) = ToSet(hand[u])
        BY <2>4, <3>1
      <4>2. \A x : x \in Waiting'[o] <=> x \in Waiting[o]
        BY <1>v, <2>4, <3>1, <4>1
      <4>3. QED
        BY <4>2
    <3>2. Waiting'[n] \subseteq Waiting[n]
      BY <2>3, <2>4 DEF Waiting, Tasks
    <3>3. Waiting[n] \subseteq Waiting'[n]
      BY <2>3, <2>4 DEF Waiting, Tasks
    <3>4. Waiting'[n] = Waiting[n]
      BY <3>2, <3>3
    <3> HIDE DEF n
    <3>5. QED
      BY <3>1, <3>4
  <2>6. Waiting' = Waiting
    BY <1>w, <2>5
  <2>7. Given' = Given
    BY <2>2 DEF Given, Tasks
  <2>8. QED
    BY <2>2, <2>6, <2>7
<1>5. CASE Still
  BY <1>5 DEF Still, Waiting, Given, Tasks
<1>6. QED
  BY <1>1, <1>2, <1>3, <1>4, <1>5, Moves

(* The radio is a transport that hands out once what it lets in, however   *)
(* drains, requeues and new arrivals interleave: it implements Inbox.      *)
THEOREM HandsOutOnceHolds ==
    ASSUME AccsDistinct
    PROVE  Spec => HandsOutOnce
<1>1. Init => Transport!Init
  <2>1. ToSet(<<>>) = {}
    BY DEF ToSet
  <2>2. QED
    BY <2>1, RadioAssumption DEF Init, Transport!Init, Waiting, Given, Tasks
<1>2. RadioInv /\ [Next]_vars => [Transport!Next]_<<Waiting, Given>>
  BY WaitingStep DEF Transport!Next, Transport!LetIn, Transport!HandOut
<1>3. QED
  BY <1>1, <1>2, RadioInvHolds, PTL DEF Spec, HandsOutOnce, Transport!Spec

(***************************************************************************)
(* Nothing that was let in is lost.                                        *)
(***************************************************************************)

(* Every id a node has seen belongs to a message that is there, and what   *)
(* the filter has let in is there.                                         *)
ArrivedInv ==
    \A n \in Node :
        /\ \A id \in seen[n] : \E m \in Waiting[n] \cup Given[n] : content_id(m) = id
        /\ arrived[n] \subseteq Waiting[n] \cup Given[n]

(* Every step keeps what has arrived in an inbox or with a task. *)
LEMMA ArrivedStep ==
    ASSUME AccsDistinct, IdsDistinct, RadioInv, ArrivedInv, [Next]_vars
    PROVE  ArrivedInv'
<1> DEFINE At(n) == Waiting[n] \cup Given[n]
<1>t. /\ inbox \in [Node -> Seq(Msg)] /\ hand \in [Task -> Seq(Msg)] /\ got \in [Task -> Seq(Msg)]
      /\ On \in [Task -> Node] /\ arrived \in [Node -> SUBSET Msg]
      /\ seen \in [Node -> SUBSET {content_id(m) : m \in Msg}]
  BY RadioAssumption DEF RadioInv, PcInv, TypeOK
<1>w. DOMAIN Waiting = Node /\ DOMAIN Given = Node
  BY DEF Waiting, Given
<1>m. \A n \in Node : At(n) \subseteq Msg
  <2>1. \A n \in Node : ToSet(inbox[n]) \subseteq Msg
    BY <1>t DEF ToSet
  <2>2. \A t \in Task : ToSet(hand[t]) \subseteq Msg /\ ToSet(got[t]) \subseteq Msg
    BY <1>t DEF ToSet
  <2>3. QED
    BY <2>1, <2>2 DEF Waiting, Given, Tasks
<1>1. ASSUME NEW n \in Node, NEW m \in Msg, LetsIn(n, m),
             Waiting' = [Waiting EXCEPT ![n] = @ \cup {m}], Given' = Given
      PROVE  ArrivedInv'
  <2>1. \A o \in Node : At(o)' = IF o = n THEN At(n) \cup {m} ELSE At(o)
    BY <1>1, <1>w
  <2>2. \A o \in Node : seen'[o] = IF o = n THEN seen[n] \cup {content_id(m)} ELSE seen[o]
    BY <1>1, <1>t DEF LetsIn
  <2>3. \A o \in Node : arrived'[o] = IF o = n THEN arrived[n] \cup {m} ELSE arrived[o]
    BY <1>1, <1>t DEF LetsIn
  <2>4. \A o \in Node : /\ \A id \in seen[o] : \E x \in At(o) : content_id(x) = id
                        /\ arrived[o] \subseteq At(o)
    BY DEF ArrivedInv
  <2>5. ASSUME NEW o \in Node
        PROVE  /\ \A id \in seen'[o] : \E x \in At(o)' : content_id(x) = id
               /\ arrived'[o] \subseteq At(o)'
    <3> HIDE DEF At
    <3>1. CASE o = n
      BY <2>1, <2>2, <2>3, <2>4, <3>1
    <3>2. CASE o # n
      BY <2>1, <2>2, <2>3, <2>4, <3>2
    <3>3. QED
      BY <3>1, <3>2
  <2>6. QED
    BY <2>5 DEF ArrivedInv
<1>2. ASSUME NEW n \in Node, NEW S \in SUBSET Waiting[n],
             Waiting' = [Waiting EXCEPT ![n] = @ \ S], Given' = [Given EXCEPT ![n] = @ \cup S],
             UNCHANGED <<seen, arrived>>
      PROVE  ArrivedInv'
  <2>1. \A o \in Node : At(o)' = At(o)
    BY <1>2, <1>w
  <2>2. QED
    BY <1>2, <2>1 DEF ArrivedInv
<1>3. ASSUME NEW n \in Node, NEW m \in Msg, Ignores(n, m), UNCHANGED <<Waiting, Given>>
      PROVE  ArrivedInv'
  <2>1. /\ seen' = seen /\ \A o \in Node : At(o)' = At(o)
        /\ \A o \in Node : \A x \in arrived'[o] :
              x \in arrived[o] \/ (o = n /\ x = m /\ content_id(m) \in seen[n])
    BY <1>3 DEF Ignores
  <2>2. content_id(m) \in seen[n] => m \in At(n)
    BY <1>m DEF ArrivedInv, IdsDistinct
  <2>3. \A o \in Node : arrived'[o] \subseteq At(o)
    BY <2>1, <2>2 DEF ArrivedInv
  <2>4. QED
    BY <2>1, <2>3 DEF ArrivedInv
<1>4. CASE UNCHANGED <<Waiting, Given, seen, arrived>>
  BY <1>4 DEF ArrivedInv
<1>5. QED
  BY <1>1, <1>2, <1>3, <1>4, WaitingStep

(* A message that is somewhere in a node is at one place. *)
LEMMA OnePlace ==
    ASSUME RadioInv, NEW n \in Node, NEW m \in Waiting[n] \cup Given[n]
    PROVE  Cardinality(Where(n, m)) = 1
<1> DEFINE In(i) == i \in DOMAIN inbox[n] /\ inbox[n][i] = m
           Hand(t, i) == On[t] = n /\ i \in DOMAIN hand[t] /\ hand[t][i] = m
           Got(t, i) == On[t] = n /\ i \in DOMAIN got[t] /\ got[t][i] = m
<1>1. \A p : p \in Where(n, m) <=>
         \/ \E i : In(i) /\ p = <<"inbox", n, i>>
         \/ \E t \in Task : \E i : Hand(t, i) /\ p = <<"hand", t, i>>
         \/ \E t \in Task : \E i : Got(t, i) /\ p = <<"got", t, i>>
  BY DEF Where, Tasks
<1>2. /\ \A i, j : In(i) /\ In(j) => i = j
      /\ \A t, u \in Task : \A i, j : Hand(t, i) /\ Hand(u, j) => t = u /\ i = j
      /\ \A t, u \in Task : \A i, j : Got(t, i) /\ Got(u, j) => t = u /\ i = j
      /\ \A t, u \in Task : \A i, j : ~ (Hand(t, i) /\ Got(u, j))
      /\ \A t \in Task : \A i, j : ~ (In(i) /\ Hand(t, j)) /\ ~ (In(i) /\ Got(t, j))
  <2>1. \A i, j : In(i) /\ In(j) => i = j
    BY DEF RadioInv, PlacedOnce, IsInjective
  <2>2. /\ \A i : In(i) => m \in ToSet(inbox[n])
        /\ \A t \in Task : \A i : Hand(t, i) => m \in ToSet(hand[t])
        /\ \A t \in Task : \A i : Got(t, i) => m \in ToSet(got[t])
    BY DEF ToSet
  <2>3. /\ \A t \in Task : \A i, j : Hand(t, i) /\ Hand(t, j) => i = j
        /\ \A t \in Task : \A i, j : Got(t, i) /\ Got(t, j) => i = j
    BY DEF RadioInv, PlacedOnce, IsInjective
  <2>4. ASSUME NEW t \in Task, On[t] = n
        PROVE  ToSet(inbox[n]) \cap (ToSet(hand[t]) \cup ToSet(got[t])) = {}
    BY <2>4 DEF RadioInv, PlacedOnce
  <2>5. ASSUME NEW t \in Task, NEW u \in Task, On[t] = n, On[u] = n
        PROVE  /\ ToSet(hand[t]) \cap ToSet(got[u]) = {}
               /\ t # u => /\ ToSet(hand[t]) \cap ToSet(hand[u]) = {}
                           /\ ToSet(got[t]) \cap ToSet(got[u]) = {}
    BY <2>5 DEF RadioInv, PlacedOnce
  <2>6. QED
    BY <2>1, <2>2, <2>3, <2>4, <2>5
<1>3. \E p : p \in Where(n, m)
  <2>1. \/ m \in ToSet(inbox[n])
        \/ \E t \in Task : On[t] = n /\ m \in ToSet(hand[t])
        \/ \E t \in Task : On[t] = n /\ m \in ToSet(got[t])
    BY DEF Waiting, Given, Tasks
  <2>2. \/ \E i : In(i)
        \/ \E t \in Task : \E i : Hand(t, i)
        \/ \E t \in Task : \E i : Got(t, i)
    BY <2>1 DEF ToSet
  <2> HIDE DEF In, Hand, Got
  <2>3. QED
    BY <1>1, <2>2
<1>4. PICK p : p \in Where(n, m)
  BY <1>3
<1> HIDE DEF In, Hand, Got
<1>5. ASSUME NEW q \in Where(n, m) PROVE q = p
  BY <1>1, <1>2, <1>4, <1>5
<1>6. Where(n, m) = {p}
  BY <1>4, <1>5
<1>7. QED
  BY <1>6, FS_Singleton

(* What the filter of a node has let in is there exactly once, however     *)
(* often it is received and however drains, requeues and arrivals          *)
(* interleave.                                                             *)
THEOREM ArrivedOnceHolds ==
    ASSUME AccsDistinct, IdsDistinct
    PROVE  Spec => []ArrivedOnce
<1>1. Init => ArrivedInv
  BY DEF Init, ArrivedInv
<1>2. RadioInv /\ ArrivedInv /\ [Next]_vars => ArrivedInv'
  BY ArrivedStep
<1>3. RadioInv /\ ArrivedInv => ArrivedOnce
  BY OnePlace DEF ArrivedInv, ArrivedOnce
<1>4. QED
  BY <1>1, <1>2, <1>3, RadioInvHolds, PTL DEF Spec

(***************************************************************************)
(* What is settled.                                                        *)
(***************************************************************************)

(* An accumulator over the contributors of the cluster whose k is the      *)
(* number of the pairs it has seen.                                        *)
Even(a) == a \in ClusterAcc /\ a.dim = Clients /\ a.k = Cardinality(a.seen)

(* fold_acc of two, whether or not they share a pair. *)
LEMMA FoldEven ==
    ASSUME NEW l, NEW r, Even(l), Even(r)
    PROVE  /\ Even(fold_acc(l, r)) /\ fold_acc(l, r).seen = l.seen \cup r.seen
           /\ \A x \in Sample : fold_acc(l, r).cnt[x] = l.cnt[x] + r.cnt[x]
<1>1. /\ l \in ClusterAcc /\ r \in ClusterAcc /\ l.dim = Clients /\ r.dim = Clients
      /\ l.seen \in SUBSET Sample /\ r.seen \in SUBSET Sample
      /\ l.k = Cardinality(l.seen) /\ r.k = Cardinality(r.seen) /\ l.k \in Nat /\ r.k \in Nat
  BY DEF Even, ClusterAcc
<1> DEFINE f == fold_acc(l, r)
           cnt == [x \in Sample |-> l.cnt[x] + r.cnt[x]]
           both == Cardinality(l.seen \cup r.seen)
<1>2. ~ Overlap2(l, r) => l.k + r.k = both
  <2>1. both = Cardinality(l.seen) + Cardinality(r.seen) - Cardinality(l.seen \cap r.seen)
    BY <1>1, SamplesFinite, FS_Union
  <2>2. ~ Overlap2(l, r) => Cardinality(l.seen \cap r.seen) = 0
    BY FS_EmptySet DEF Overlap2
  <2>3. l.k + r.k \in Nat
    BY <1>1
  <2>4. QED
    BY <1>1, <2>1, <2>2, <2>3
<1>3. f = [cnt |-> cnt, k |-> both, seen |-> l.seen \cup r.seen, dim |-> Clients]
  BY <1>1, <1>2 DEF fold_acc
<1>4. f \in ClusterAcc
  BY <1>1, FoldType
<1> HIDE DEF f, cnt, both
<1>5. f.dim = Clients /\ f.seen = l.seen \cup r.seen /\ f.k = both /\ f.cnt = cnt
  BY <1>3
<1>6. f.k = Cardinality(f.seen)
  BY <1>5 DEF both
<1>7. \A x \in Sample : f.cnt[x] = l.cnt[x] + r.cnt[x]
  BY <1>5 DEF cnt
<1>8. QED
  BY <1>4, <1>5, <1>6, <1>7 DEF Even, f

(* The leaves of own i that hold x. *)
Holders(leaves, own, i, x) == {j \in 1 .. Len(leaves) : own[j] = i /\ x \in leaves[j].seen}

(* Each leaf went into one accumulator of the level s, own says which:     *)
(* that has the pairs of its leaves, each as often as these hold it.       *)
Spread(s, leaves, own) ==
    /\ own \in [1 .. Len(leaves) -> 1 .. Len(s)]
    /\ \A i \in 1 .. Len(s) :
          /\ Even(s[i])
          /\ \A x : x \in s[i].seen <=> Holders(leaves, own, i, x) # {}
          /\ \A x \in Sample : s[i].cnt[x] = Cardinality(Holders(leaves, own, i, x))

(* Leaves that came into two neighbours, or into one. *)
LEMMA HoldersJoin ==
    ASSUME NEW leaves \in Seq(ClusterAcc), NEW own, NEW up,
           \A j \in 1 .. Len(leaves) : own[j] \in Nat /\ up[j] = (own[j] + 1) \div 2,
           NEW i \in Nat \ {0}, NEW x
    PROVE  /\ Holders(leaves, up, i, x)
                 = Holders(leaves, own, 2 * i - 1, x) \cup Holders(leaves, own, 2 * i, x)
           /\ Cardinality(Holders(leaves, up, i, x))
                 = Cardinality(Holders(leaves, own, 2 * i - 1, x))
                     + Cardinality(Holders(leaves, own, 2 * i, x))
<1> DEFINE n == Len(leaves)
           A == Holders(leaves, own, 2 * i - 1, x)
           B == Holders(leaves, own, 2 * i, x)
           C == Holders(leaves, up, i, x)
<1>1. n \in Nat /\ \A j \in 1 .. n : own[j] \in Nat /\ up[j] = (own[j] + 1) \div 2
  OBVIOUS
<1>2. ASSUME NEW j \in 1 .. n PROVE up[j] = i <=> own[j] = 2 * i - 1 \/ own[j] = 2 * i
  <2> DEFINE o == own[j]
             q == (o + 1) \div 2
  <2>1. o \in Nat /\ up[j] = q
    BY <1>1
  <2> HIDE DEF o
  <2>2. q \in Int /\ 2 * q <= o + 1 /\ o + 1 < 2 * q + 2
    BY <2>1, Halves
  <2> HIDE DEF q
  <2>3. q = i <=> o = 2 * i - 1 \/ o = 2 * i
    BY <2>1, <2>2
  <2>4. QED
    BY <2>1, <2>3 DEF o
<1> HIDE DEF n
<1>3. C = A \cup B /\ A \cap B = {} /\ A \subseteq 1 .. n /\ B \subseteq 1 .. n
  <2>1. 2 * i - 1 # 2 * i
    OBVIOUS
  <2>2. QED
    BY <1>2, <2>1 DEF Holders, n
<1> HIDE DEF A, B, C
<1>5. IsFiniteSet(1 .. n)
  BY <1>1, FS_Interval
<1>6. /\ IsFiniteSet(A) /\ IsFiniteSet(B)
      /\ Cardinality(A) \in Nat /\ Cardinality(B) \in Nat
  BY <1>3, <1>5, FS_Subset, FS_CardinalityType
<1>7. Cardinality(C) = Cardinality(A) + Cardinality(B)
  <2>1. Cardinality(A \cup B) = Cardinality(A) + Cardinality(B) - Cardinality(A \cap B)
    BY <1>6, FS_Union
  <2>2. Cardinality(A \cap B) = 0
    BY <1>3, FS_EmptySet
  <2>3. QED
    BY <1>3, <1>6, <2>1, <2>2
<1>8. QED
  BY <1>3, <1>7 DEF A, B, C

(* The next level of the fold tree has the leaves of the level below it. *)
LEMMA PairUpSpread ==
    ASSUME NEW leaves \in Seq(ClusterAcc), NEW s \in Seq(ClusterAcc), s # <<>>,
           NEW own, Spread(s, leaves, own)
    PROVE  \E up : Spread(PairUp(s), leaves, up)
<1> DEFINE l == Len(s)
           h == (l + 1) \div 2
           r == PairUp(s)
           n == Len(leaves)
           up == [j \in 1 .. n |-> (own[j] + 1) \div 2]
<1>1. l \in Nat \ {0} /\ n \in Nat /\ Len(r) = h /\ h \in Int /\ 2 * h <= l + 1 /\ l + 1 < 2 * h + 2
  <2>1. l \in Nat \ {0} /\ n \in Nat
    OBVIOUS
  <2>2. Len(r) = h
    BY PairUpType
  <2> HIDE DEF l, n
  <2>3. QED
    BY <2>1, <2>2, Halves
<1>2. \A i \in 1 .. h : r[i] = IF 2 * i <= l THEN fold_acc(s[2 * i - 1], s[2 * i]) ELSE s[2 * i - 1]
  BY DEF PairUp
<1>3. own \in [1 .. n -> 1 .. l]
  BY DEF Spread
<1> HIDE DEF l, h, r, n
<1>4. up \in [1 .. n -> 1 .. h]
  <2> SUFFICES ASSUME NEW j \in 1 .. n PROVE (own[j] + 1) \div 2 \in 1 .. h
    OBVIOUS
  <2> DEFINE o == own[j]
             q == (o + 1) \div 2
  <2>1. o \in 1 .. l /\ o \in Nat
    BY <1>1, <1>3
  <2> HIDE DEF o
  <2>2. q \in Int /\ 2 * q <= o + 1 /\ o + 1 < 2 * q + 2
    BY <2>1, Halves
  <2> HIDE DEF q
  <2>3. q \in 1 .. h
    BY <1>1, <2>1, <2>2
  <2>4. QED
    BY <2>3 DEF q, o
<1>5. \A j \in 1 .. n : up[j] = (own[j] + 1) \div 2
  OBVIOUS
<1> HIDE DEF up
<1>6. ASSUME NEW i \in 1 .. h
      PROVE  /\ Even(r[i])
             /\ \A x : x \in r[i].seen <=> Holders(leaves, up, i, x) # {}
             /\ \A x \in Sample : r[i].cnt[x] = Cardinality(Holders(leaves, up, i, x))
  <2> DEFINE a == 2 * i - 1
             b == 2 * i
             A(x) == Holders(leaves, own, a, x)
             B(x) == Holders(leaves, own, b, x)
             C(x) == Holders(leaves, up, i, x)
  <2>1. a \in 1 .. l /\ i \in Nat \ {0}
    BY <1>1
  <2>2. ASSUME NEW x
        PROVE  /\ C(x) = A(x) \cup B(x) /\ Cardinality(C(x)) = Cardinality(A(x)) + Cardinality(B(x))
               /\ b > l => B(x) = {}
    <3>1. \A j \in 1 .. Len(leaves) : own[j] \in 1 .. l /\ own[j] \in Nat
                                        /\ up[j] = (own[j] + 1) \div 2
      BY <1>1, <1>3, <1>5 DEF n
    <3>2. b > l => B(x) = {}
      BY <1>1, <2>1, <3>1 DEF Holders
    <3>3. QED
      BY <2>1, <3>1, <3>2, HoldersJoin
  <2>3. ASSUME NEW c \in 1 .. l
        PROVE  /\ Even(s[c])
               /\ \A x : x \in s[c].seen <=> Holders(leaves, own, c, x) # {}
               /\ \A x \in Sample : s[c].cnt[x] = Cardinality(Holders(leaves, own, c, x))
    BY DEF Spread, l
  <2>4. CASE b <= l
    <3>1. b \in 1 .. l /\ r[i] = fold_acc(s[a], s[b])
      BY <1>1, <1>2, <2>4
    <3>2. Even(s[a]) /\ Even(s[b])
      BY <2>1, <2>3, <3>1
    <3>3. /\ Even(r[i]) /\ r[i].seen = s[a].seen \cup s[b].seen
          /\ \A x \in Sample : r[i].cnt[x] = s[a].cnt[x] + s[b].cnt[x]
      BY <3>1, <3>2, FoldEven
    <3>4. ASSUME NEW x PROVE x \in r[i].seen <=> C(x) # {}
      <4>1. x \in s[a].seen <=> A(x) # {}
        BY <2>1, <2>3
      <4>2. x \in s[b].seen <=> B(x) # {}
        BY <2>3, <3>1
      <4> HIDE DEF A, B, C
      <4>3. QED
        BY <2>2, <3>3, <4>1, <4>2
    <3>5. ASSUME NEW x \in Sample PROVE r[i].cnt[x] = Cardinality(C(x))
      <4>1. s[a].cnt[x] = Cardinality(A(x))
        BY <2>1, <2>3
      <4>2. s[b].cnt[x] = Cardinality(B(x))
        BY <2>3, <3>1
      <4> HIDE DEF A, B, C
      <4>3. QED
        BY <2>2, <3>3, <4>1, <4>2
    <3>6. QED
      BY <3>3, <3>4, <3>5
  <2>5. CASE ~ (b <= l)
    <3>1. r[i] = s[a] /\ b > l
      BY <1>1, <1>2, <2>5
    <3>2. ASSUME NEW x PROVE C(x) = A(x)
      BY <2>2, <3>1
    <3>3. QED
      BY <2>1, <2>3, <3>1, <3>2
  <2>6. QED
    BY <2>4, <2>5
<1>7. Spread(r, leaves, up)
  BY <1>1, <1>4, <1>6 DEF Spread, n
<1>8. QED
  BY <1>7 DEF r

(* The root of a tree. *)
LEMMA TreeCounts ==
    ASSUME NEW leaves \in Seq(ClusterAcc), leaves # <<>>,
           \A i \in 1 .. Len(leaves) : Even(leaves[i]) /\ CountsOnce(leaves[i])
    PROVE  LET r == FoldTree(leaves)
           IN  /\ r.seen = UNION {leaves[i].seen : i \in DOMAIN leaves}
               /\ r.k = Cardinality(r.seen)
               /\ \A x \in Sample :
                     r.cnt[x] = Cardinality({i \in DOMAIN leaves : x \in leaves[i].seen})
<1> DEFINE n == Len(leaves)
           id == [j \in 1 .. n |-> j]
           G == {s \in Seq(ClusterAcc) : s # <<>> /\ \E own : Spread(s, leaves, own)}
<1>1. Spread(leaves, leaves, id)
  <2>1. n \in Nat /\ id \in [1 .. n -> 1 .. n]
    OBVIOUS
  <2>2. ASSUME NEW i \in 1 .. n, NEW x
        PROVE  Holders(leaves, id, i, x) = IF x \in leaves[i].seen THEN {i} ELSE {}
    BY DEF Holders
  <2>3. ASSUME NEW i \in 1 .. n, NEW x \in Sample
        PROVE  leaves[i].cnt[x] = Cardinality(Holders(leaves, id, i, x))
    <3>1. leaves[i].cnt[x] = IF x \in leaves[i].seen THEN 1 ELSE 0
      BY DEF CountsOnce
    <3>2. Cardinality({i}) = 1 /\ Cardinality({}) = 0
      BY FS_Singleton, FS_EmptySet
    <3>3. QED
      BY <2>2, <3>1, <3>2
  <2> HIDE DEF n, id
  <2>4. QED
    BY <2>1, <2>2, <2>3 DEF Spread, n
<1>2. leaves \in G /\ \A s \in G : PairUp(s) \in G
  <2>1. leaves \in G
    BY <1>1
  <2>2. ASSUME NEW s \in G PROVE PairUp(s) \in G
    <3>1. PICK own : Spread(s, leaves, own)
      OBVIOUS
    <3>2. \E up : Spread(PairUp(s), leaves, up)
      BY <3>1, PairUpSpread
    <3>3. PairUp(s) \in Seq(ClusterAcc) /\ PairUp(s) # <<>>
      BY PairUpType
    <3>4. QED
      BY <3>2, <3>3
  <2>3. QED
    BY <2>1, <2>2
<1> HIDE DEF G
<1>3. PICK s \in G : Len(s) = 1 /\ FoldTree(leaves) = s[1]
  <2>1. G \in SUBSET (Seq(ClusterAcc) \ {<<>>})
    BY DEF G
  <2>2. QED
    BY <1>2, <2>1, TreeKeeps
<1>4. PICK own : Spread(s, leaves, own)
  BY <1>3 DEF G
<1>5. own \in [1 .. n -> 1 .. 1] /\ 1 \in 1 .. Len(s)
  BY <1>3, <1>4 DEF Spread
<1>6. ASSUME NEW x PROVE Holders(leaves, own, 1, x) = {j \in DOMAIN leaves : x \in leaves[j].seen}
  <2>1. DOMAIN leaves = 1 .. n /\ \A j \in 1 .. n : own[j] = 1
    BY <1>5
  <2>2. QED
    BY <2>1 DEF Holders
<1> DEFINE r == s[1]
<1>7. /\ Even(r)
      /\ \A x : x \in r.seen <=> Holders(leaves, own, 1, x) # {}
      /\ \A x \in Sample : r.cnt[x] = Cardinality(Holders(leaves, own, 1, x))
  BY <1>4, <1>5 DEF Spread
<1> HIDE DEF r
<1>8. r.seen = UNION {leaves[i].seen : i \in DOMAIN leaves}
  BY <1>6, <1>7
<1>9. r.k = Cardinality(r.seen)
  BY <1>7 DEF Even
<1>10. \A x \in Sample : r.cnt[x] = Cardinality({i \in DOMAIN leaves : x \in leaves[i].seen})
  BY <1>6, <1>7
<1>11. QED
  BY <1>3, <1>8, <1>9, <1>10 DEF r

(* What is promised of the root of a tree. *)
Counted(r, leaves) ==
    /\ r.seen = UNION {leaves[i].seen : i \in DOMAIN leaves}
    /\ r.k = Cardinality(r.seen)
    /\ \A x \in Sample : r.cnt[x] = Cardinality({i \in DOMAIN leaves : x \in leaves[i].seen})

(* The leaves of a task that settles are self folds of the cluster. *)
LEMMA LeavesEven ==
    ASSUME SelfFolds, RadioInv, NEW t \in Task, Kind[t] = "acc", NEW i \in 1 .. Len(Leaves(t))
    PROVE  Even(Leaves(t)[i]) /\ CountsOnce(Leaves(t)[i])
<1> DEFINE a == Leaves(t)[i]
           x0 == self_fold(Clients, Mined(t))
           g == got[t]
<1>1. /\ Mined(t) \in SUBSET Sample /\ x0 \in ClusterAcc /\ a \in ClusterAcc
      /\ a = x0 \/ a \in {g[j].acc : j \in DOMAIN g} \cup ToSet(Added[t])
  BY LeavesType DEF RadioInv, PcInv
<1>2. Even(x0) /\ CountsOnce(x0)
  BY <1>1 DEF Even, self_fold, CountsOnce
<1>3. ASSUME NEW j \in DOMAIN g
      PROVE  g[j] \in Msg /\ g[j].kind = "acc" /\ g[j].topic = About[t]
  <2>1. g \in Seq(Msg) /\ Wanted(t, g[j])
    BY DEF RadioInv, PcInv, TypeOK, PlacedOnce, ToSet
  <2>2. QED
    BY <2>1 DEF Wanted
<1> HIDE DEF a, x0, g
<1>4. CASE a \in {g[j].acc : j \in DOMAIN g} \cup ToSet(Added[t])
  <2>1. a.dim = Clients /\ CountsOnce(a)
    BY <1>3, <1>4 DEF SelfFolds
  <2>2. QED
    BY <1>1, <2>1 DEF Even, CountsOnce, a
<1>5. QED
  BY <1>1, <1>2, <1>4 DEF a

(* The accumulator a task settles on sums a sample as often as it is in    *)
(* the task's own grind and in what it collected, its own SelfAcc too, for *)
(* any number of them, and its k is the number of different samples.       *)
THEOREM LeavesCountedHolds ==
    ASSUME AccsDistinct, SelfFolds
    PROVE  Spec => []LeavesCounted
<1>1. Init => LeavesCounted
  BY DEF Init, LeavesCounted
<1>2. RadioInv /\ LeavesCounted /\ [Next]_vars => LeavesCounted'
  <2> SUFFICES ASSUME RadioInv, LeavesCounted, [Next]_vars, NEW t \in Task, pc'[t] = "settled"
               PROVE  Counted(root'[t], Leaves(t)')
    BY DEF LeavesCounted, Counted
  <2>t. pc \in [Task -> {"new", "ready", "push", "drained", "settle", "settled", "failed"}]
        /\ root \in [Task -> ClusterAcc] /\ got \in [Task -> Seq(Msg)]
    BY DEF RadioInv, PcInv, TypeOK
  <2>1. CASE pc[t] = "settled"
    <3>1. root'[t] = root[t] /\ got'[t] = got[t]
      <4>1. ASSUME NEW n \in Node, NEW m \in Msg, handle_inbound(n, m) \/ LoseFrame(n, m)
            PROVE  root'[t] = root[t] /\ got'[t] = got[t]
        BY <4>1 DEF handle_inbound, LoseFrame
      <4>2. ASSUME NEW u \in Task, NEW m \in Msg, publish(u, m)
            PROVE  root'[t] = root[t] /\ got'[t] = got[t]
        BY <4>2 DEF publish
      <4>3. ASSUME NEW u \in Task, NEW p \in Node, push_to_peer(u, p)
            PROVE  root'[t] = root[t] /\ got'[t] = got[t]
        BY <4>3 DEF push_to_peer
      <4>4. ASSUME NEW u \in Task, subscribe(u) \/ Published(u) \/ Requeue(u) \/ Timeout(u)
            PROVE  root'[t] = root[t] /\ got'[t] = got[t]
        BY <4>4 DEF subscribe, Published, Requeue, Timeout
      <4>5. ASSUME NEW u \in Task, drain(u) PROVE root'[t] = root[t] /\ got'[t] = got[t]
        BY <2>1, <2>t, <4>5 DEF drain, Polling
      <4>6. ASSUME NEW u \in Task, settle_with_peer_accs(u)
            PROVE  root'[t] = root[t] /\ got'[t] = got[t]
        BY <2>1, <2>t, <4>6 DEF settle_with_peer_accs
      <4>7. CASE UNCHANGED vars
        BY <4>7 DEF vars
      <4>8. QED
        BY <4>1, <4>2, <4>3, <4>4, <4>5, <4>6, <4>7 DEF Next
    <3>2. Leaves(t)' = Leaves(t)
      BY <3>1 DEF Leaves, PeerAccs, Mined
    <3>3. Counted(root[t], Leaves(t))
      BY <2>1 DEF LeavesCounted, Counted
    <3>4. QED
      BY <3>1, <3>2, <3>3
  <2>2. CASE pc[t] # "settled"
    <3>1. settle_with_peer_accs(t)
      <4>1. ASSUME NEW n \in Node, NEW m \in Msg, handle_inbound(n, m) \/ LoseFrame(n, m)
            PROVE  pc'[t] = pc[t]
        BY <4>1 DEF handle_inbound, LoseFrame
      <4>2. ASSUME NEW u \in Task, NEW m \in Msg, publish(u, m) PROVE pc'[t] # "settled"
        BY <2>2, <2>t, <4>2 DEF publish
      <4>3. ASSUME NEW u \in Task, NEW p \in Node, push_to_peer(u, p) PROVE pc'[t] = pc[t]
        BY <4>3 DEF push_to_peer
      <4>4. ASSUME NEW u \in Task, subscribe(u) \/ Published(u) \/ Requeue(u) \/ Timeout(u) \/ drain(u)
            PROVE  pc'[t] # "settled"
        BY <2>2, <2>t, <4>4 DEF subscribe, Published, Requeue, Timeout, drain
      <4>5. ASSUME NEW u \in Task, settle_with_peer_accs(u), u # t PROVE pc'[t] # "settled"
        BY <2>2, <2>t, <4>5 DEF settle_with_peer_accs
      <4>6. CASE UNCHANGED vars
        BY <2>2, <4>6 DEF vars
      <4>7. QED
        BY <2>2, <4>1, <4>2, <4>3, <4>4, <4>5, <4>6 DEF Next
    <3>2. /\ root' = [root EXCEPT ![t] = FoldTree(Leaves(t))] /\ got' = got /\ pc[t] = "settle"
      BY <2>2, <2>t, <3>1 DEF settle_with_peer_accs
    <3>3. Kind[t] = "acc" /\ TypeOK
      BY <3>2 DEF RadioInv, PcInv
    <3> DEFINE s == Leaves(t)
    <3>4. s \in Seq(ClusterAcc) /\ s # <<>> /\ \A i \in 1 .. Len(s) : Even(s[i]) /\ CountsOnce(s[i])
      BY <3>3, LeavesType, LeavesEven
    <3>5. Counted(FoldTree(s), s)
      <4> HIDE DEF s
      <4> QED BY <3>4, TreeCounts DEF Counted
    <3>6. root'[t] = FoldTree(s) /\ Leaves(t)' = s
      BY <2>t, <3>2 DEF Leaves, PeerAccs, Mined
    <3>7. QED
      BY <3>5, <3>6
  <2>3. QED
    BY <2>1, <2>2
<1>3. QED
  BY <1>1, <1>2, RadioInvHolds, PTL DEF Spec
=============================================================================
