---------------------------- MODULE Lists_proofs ----------------------------
(***************************************************************************)
(* Induction up to a number and up to a finite set, the existence of the   *)
(* functions that are defined by recursion up to a number, what the loops, *)
(* the sort and the sums of Lists compute for every list and set, lists    *)
(* that stand one after the other in a list, and the split of a budget of  *)
(* Rewards for any weights.                                                *)
(***************************************************************************)
EXTENDS Rewards, FiniteSetTheorems, WellFoundedInduction, TLAPS

(* A set of naturals has a least element. *)
LEMMA LeastNat ==
    ASSUME NEW T \in SUBSET Nat, T # {}
    PROVE  \E x \in T : \A y \in T : x <= y
<1>1. PICK x \in T : \A y \in T : ~ (<<y, x>> \in OpToRel(<, Nat))
  BY NatLessThanWellFounded, WFMin
<1>2. ASSUME NEW y \in T PROVE x <= y
  <2>1. ~ (y < x)
    BY <1>1 DEF OpToRel
  <2>2. QED
    BY <2>1
<1>3. QED
  BY <1>2

(* Induction up to n. *)
LEMMA UpTo ==
    ASSUME NEW n \in Nat, NEW S, 0 \in S, \A i \in 0 .. n - 1 : i \in S => i + 1 \in S
    PROVE  \A i \in 0 .. n : i \in S
<1> DEFINE T == {i \in 0 .. n : i \notin S}
<1> SUFFICES ASSUME T # {} PROVE FALSE
  OBVIOUS
<1>1. PICK x \in T : \A y \in T : x <= y
  <2>1. T \in SUBSET Nat
    OBVIOUS
  <2>2. QED
    BY <2>1, LeastNat
<1>2. x # 0 /\ x - 1 \in 0 .. n - 1
  OBVIOUS
<1>3. x - 1 \in S
  BY <1>1, <1>2
<1>4. QED
  BY <1>2, <1>3

(* step maps a value of A and a number up to n to a value of A. *)
StepsIn(step, A, n) == \A x \in A, i \in 1 .. n : step[<<x, i>>] \in A

(* f starts at a and goes on with step. *)
Unfolds(f, step, a, A, n) ==
    /\ f \in [0 .. n -> A]
    /\ f[0] = a /\ \A i \in 1 .. n : f[i] = step[<<f[i - 1], i>>]

(* A function that is defined by recursion up to n exists. *)
LEMMA Recursion ==
    ASSUME NEW n \in Nat, NEW A, NEW a \in A, NEW step, StepsIn(step, A, n)
    PROVE  \E f : Unfolds(f, step, a, A, n)
<1> USE DEF StepsIn
<1> DEFINE Good(m, f) == f[0] = a /\ \A i \in 1 .. m : f[i] = step[<<f[i - 1], i>>]
           S == {m \in 0 .. n : \E f \in [0 .. m -> A] : Good(m, f)}
<1>1. 0 \in S
  <2> DEFINE f == [i \in 0 .. 0 |-> a]
  <2>1. f \in [0 .. 0 -> A] /\ Good(0, f)
    OBVIOUS
  <2>2. QED
    <3> HIDE DEF f
    <3> QED BY <2>1
<1>2. ASSUME NEW m \in 0 .. n - 1, m \in S PROVE m + 1 \in S
  <2>1. PICK f \in [0 .. m -> A] : Good(m, f)
    BY <1>2
  <2> DEFINE g == [i \in 0 .. m + 1 |-> IF i <= m THEN f[i] ELSE step[<<f[m], m + 1>>]]
  <2>2. f[m] \in A /\ m + 1 \in 1 .. n
    OBVIOUS
  <2>3. g \in [0 .. m + 1 -> A]
    BY <2>2
  <2>4. g[0] = a
    BY <2>1
  <2>5. ASSUME NEW i \in 1 .. m + 1 PROVE g[i] = step[<<g[i - 1], i>>]
    <3>1. CASE i <= m
      BY <2>1, <3>1
    <3>2. CASE i = m + 1
      BY <3>2
    <3>3. QED
      BY <3>1, <3>2
  <2>6. QED
    <3> HIDE DEF g
    <3> QED BY <2>3, <2>4, <2>5
<1>3. n \in S
  <2> HIDE DEF S
  <2>1. \A i \in 0 .. n : i \in S
    BY <1>1, <1>2, UpTo
  <2>2. QED
    BY <2>1
<1>4. QED
  BY <1>3 DEF Unfolds

(* Places says which position of s each element of c comes from: those in  *)
(* K up to m, in order.                                                    *)
Places(e, c, s, K, m) ==
    /\ e \in [1 .. Len(c) -> K \cap (1 .. m)]
    /\ \A i \in 1 .. Len(c) : c[i] = s[e[i]]
    /\ \A i, j \in 1 .. Len(c) : i < j => e[i] < e[j]
    /\ \A k \in K \cap (1 .. m) : \E i \in 1 .. Len(c) : e[i] = k

(* What the loop of Chosen computes. *)
LEMMA ChosenPlaces ==
    ASSUME NEW M, NEW s \in Seq(M), NEW K
    PROVE  Chosen(s, K) \in Seq(M) /\ \E e : Places(e, Chosen(s, K), s, K, Len(s))
<1> DEFINE n == Len(s)
           Step(x, i) == IF i \in K THEN Append(x, s[i]) ELSE x
           step == [p \in Seq(M) \X (1 .. n) |-> Step(p[1], p[2])]
           IsOut(f) == f = [i \in 0 .. n |-> IF i = 0 THEN <<>> ELSE Step(f[i - 1], i)]
           out == CHOOSE f : IsOut(f)
<1>1. n \in Nat /\ \A i \in 1 .. n : s[i] \in M
  OBVIOUS
<1>2. ASSUME NEW x \in Seq(M), NEW i \in 1 .. n
      PROVE  step[<<x, i>>] = Step(x, i) /\ Step(x, i) \in Seq(M)
  BY <1>1
<1>3. \E f : IsOut(f)
  <2> DEFINE nil == <<>>
             A == Seq(M)
  <2>1. PICK f : Unfolds(f, step, nil, A, n)
    <3>1. nil \in A /\ n \in Nat
      BY <1>1
    <3>2. StepsIn(step, A, n)
      BY <1>2 DEF StepsIn
    <3> HIDE DEF step, n, nil, A
    <3>3. QED
      BY <3>1, <3>2, Recursion
  <2>2. ASSUME NEW i \in 1 .. n PROVE f[i] = Step(f[i - 1], i)
    <3>1. f[i - 1] \in Seq(M)
      BY <1>1, <2>1 DEF Unfolds
    <3>2. QED
      BY <1>2, <2>1, <3>1 DEF Unfolds
  <2>3. IsOut(f)
    <3> HIDE DEF Step, n
    <3> QED BY <2>1, <2>2, <1>1 DEF Unfolds
  <2>4. QED
    BY <2>3
<1>4. IsOut(out)
  <2> HIDE DEF IsOut
  <2> QED BY <1>3
<1>5. Chosen(s, K) = out[n]
  BY DEF Chosen
<1>6. out[0] = <<>> /\ \A i \in 1 .. n : out[i] = Step(out[i - 1], i)
  <2> HIDE DEF out, Step, n
  <2> QED BY <1>1, <1>4
<1> HIDE DEF out
<1> DEFINE S == {m \in 0 .. n : out[m] \in Seq(M) /\ \E e : Places(e, out[m], s, K, m)}
<1>7. 0 \in S
  <2>1. Places(<<>>, <<>>, s, K, 0)
    BY DEF Places
  <2>2. out[0] \in Seq(M) /\ \E e : Places(e, out[0], s, K, 0)
    BY <1>6, <2>1
  <2>3. QED
    BY <1>1, <2>2
<1>8. ASSUME NEW m \in 0 .. n - 1, m \in S PROVE m + 1 \in S
  <2>1. PICK e : Places(e, out[m], s, K, m)
    BY <1>8
  <2>2. out[m + 1] = Step(out[m], m + 1) /\ out[m] \in Seq(M) /\ m + 1 \in 1 .. n /\ m \in Nat
    BY <1>1, <1>6, <1>8
  <2>3. CASE m + 1 \notin K
    <3>1. out[m + 1] = out[m]
      BY <2>2, <2>3
    <3>2. K \cap (1 .. m + 1) = K \cap (1 .. m)
      BY <2>2, <2>3
    <3>3. Places(e, out[m], s, K, m + 1)
      BY <2>1, <3>2 DEF Places
    <3>4. QED
      BY <2>2, <3>1, <3>3
  <2>4. CASE m + 1 \in K
    <3> DEFINE c == out[m]
               l == Len(c)
               d == Append(c, s[m + 1])
               g == [i \in 1 .. l + 1 |-> IF i <= l THEN e[i] ELSE m + 1]
    <3>1. out[m + 1] = d
      BY <2>2, <2>4
    <3>2. d \in Seq(M) /\ Len(d) = l + 1 /\ l \in Nat /\ d[l + 1] = s[m + 1]
          /\ \A i \in 1 .. l : d[i] = c[i]
      BY <1>1, <2>2
    <3>3. K \cap (1 .. m + 1) = (K \cap (1 .. m)) \cup {m + 1}
      BY <2>2, <2>4
    <3>e. /\ e \in [1 .. l -> K \cap (1 .. m)]
          /\ \A i \in 1 .. l : c[i] = s[e[i]]
          /\ \A i, j \in 1 .. l : i < j => e[i] < e[j]
          /\ \A k \in K \cap (1 .. m) : \E i \in 1 .. l : e[i] = k
      BY <2>1 DEF Places
    <3> HIDE DEF d, l, c
    <3>4. /\ \A i \in 1 .. l : g[i] = e[i] /\ g[i] \in K \cap (1 .. m)
          /\ g[l + 1] = m + 1 /\ DOMAIN g = 1 .. l + 1
      BY <3>2, <3>e
    <3> HIDE DEF g
    <3>5. g \in [1 .. l + 1 -> K \cap (1 .. m + 1)]
      <4>1. g = [i \in 1 .. l + 1 |-> g[i]]
        BY DEF g
      <4>2. \A i \in 1 .. l + 1 : g[i] \in K \cap (1 .. m + 1)
        BY <3>2, <3>3, <3>4
      <4>3. QED
        BY <4>1, <4>2
    <3>6. \A i \in 1 .. l + 1 : d[i] = s[g[i]]
      BY <3>2, <3>4, <3>e
    <3>7. ASSUME NEW i \in 1 .. l + 1, NEW j \in 1 .. l + 1, i < j PROVE g[i] < g[j]
      <4>1. i \in 1 .. l /\ g[i] = e[i] /\ e[i] \in 1 .. m
        <5>1. i \in 1 .. l
          BY <3>2, <3>7
        <5>2. QED
          BY <3>4, <5>1
      <4>2. CASE j = l + 1
        BY <2>2, <3>4, <4>1, <4>2
      <4>3. CASE j # l + 1
        <5>1. j \in 1 .. l /\ g[j] = e[j]
          BY <3>2, <3>4, <4>3
        <5>2. QED
          BY <3>7, <3>e, <4>1, <5>1
      <4>4. QED
        BY <4>2, <4>3
    <3>8. \A k \in K \cap (1 .. m + 1) : \E i \in 1 .. l + 1 : g[i] = k
      BY <3>2, <3>3, <3>4, <3>e
    <3>9. Places(g, d, s, K, m + 1)
      BY <3>2, <3>5, <3>6, <3>7, <3>8 DEF Places
    <3>10. QED
      BY <2>2, <3>1, <3>2, <3>9
  <2>5. QED
    BY <2>3, <2>4
<1>9. n \in S
  <2> HIDE DEF S, n
  <2>1. \A i \in 0 .. n : i \in S
    BY <1>1, <1>7, <1>8, UpTo
  <2>2. QED
    BY <1>1, <2>1
<1>10. QED
  BY <1>5, <1>9

(* The loop keeps the elements at the chosen positions and no others, each *)
(* as often as it was there.                                               *)
LEMMA ChosenFacts ==
    ASSUME NEW M, NEW s \in Seq(M), NEW K
    PROVE  /\ Chosen(s, K) \in Seq(M)
           /\ ToSet(Chosen(s, K)) = {s[k] : k \in K \cap DOMAIN s}
           /\ IsInjective(s) => IsInjective(Chosen(s, K))
<1> DEFINE c == Chosen(s, K)
<1>1. c \in Seq(M)
  BY ChosenPlaces
<1>2. PICK e : Places(e, c, s, K, Len(s))
  BY ChosenPlaces
<1> HIDE DEF c
<1>3. DOMAIN c = 1 .. Len(c) /\ DOMAIN s = 1 .. Len(s) /\ Len(c) \in Nat /\ Len(s) \in Nat
  BY <1>1
<1>4. ToSet(c) = {s[k] : k \in K \cap DOMAIN s}
  <2>1. /\ \A i \in DOMAIN c : e[i] \in K \cap DOMAIN s /\ c[i] = s[e[i]]
        /\ \A k \in K \cap DOMAIN s : \E i \in DOMAIN c : e[i] = k
    BY <1>2, <1>3 DEF Places
  <2>2. ASSUME NEW x PROVE x \in ToSet(c) <=> \E k \in K \cap DOMAIN s : x = s[k]
    <3>1. x \in ToSet(c) <=> \E i \in DOMAIN c : x = c[i]
      BY DEF ToSet
    <3>2. ASSUME NEW i \in DOMAIN c, x = c[i] PROVE \E k \in K \cap DOMAIN s : x = s[k]
      BY <2>1, <3>2
    <3>3. ASSUME NEW k \in K \cap DOMAIN s, x = s[k] PROVE \E i \in DOMAIN c : x = c[i]
      BY <2>1, <3>3
    <3>4. QED
      BY <3>1, <3>2, <3>3
  <2>3. QED
    BY <2>2
<1>5. ASSUME IsInjective(s), NEW i \in DOMAIN c, NEW j \in DOMAIN c, c[i] = c[j] PROVE i = j
  <2>1. /\ e[i] \in DOMAIN s /\ e[j] \in DOMAIN s /\ s[e[i]] = s[e[j]]
        /\ (i < j => e[i] < e[j]) /\ (j < i => e[j] < e[i])
    BY <1>2, <1>3, <1>5 DEF Places
  <2>2. e[i] = e[j]
    BY <1>5, <2>1 DEF IsInjective
  <2>3. QED
    BY <1>3, <2>1, <2>2
<1>6. QED
  BY <1>1, <1>4, <1>5 DEF c, IsInjective

(* The numbers up to n. *)
LEMMA Numbers == ASSUME NEW n \in Nat PROVE IsFiniteSet(1 .. n) /\ Cardinality(1 .. n) = n
<1>1. 1 \in Int /\ n \in Int
  OBVIOUS
<1>2. IsFiniteSet(1 .. n) /\ Cardinality(1 .. n) = IF 1 > n THEN 0 ELSE n - 1 + 1
  BY <1>1, FS_Interval
<1>3. QED
  BY <1>2

(* A set as a list. *)
LEMMA SetToSeqFacts ==
    ASSUME NEW S, IsFiniteSet(S)
    PROVE  /\ SetToSeq(S) \in Seq(S) /\ Len(SetToSeq(S)) = Cardinality(S)
           /\ DOMAIN SetToSeq(S) = 1 .. Cardinality(S) /\ Cardinality(S) \in Nat
           /\ \A k, l \in 1 .. Cardinality(S) : SetToSeq(S)[k] = SetToSeq(S)[l] => k = l
           /\ \A x \in S : \E k \in 1 .. Cardinality(S) : SetToSeq(S)[k] = x
<1> DEFINE n == Cardinality(S)
           f == SetToSeq(S)
<1>1. n \in Nat /\ ExistsBijection(1 .. n, S)
  BY FS_CardinalityType
<1>2. \E g \in Bijection(1 .. n, S) : TRUE
  BY <1>1 DEF ExistsBijection
<1>3. \E g \in [1 .. n -> S] : IsInjective(g)
  BY <1>2 DEF Bijection, Injection
<1>4. f \in [1 .. n -> S] /\ IsInjective(f)
  BY <1>3 DEF SetToSeq
<1>5. f \in Surjection(1 .. n, S)
  <2>1. f \in Injection(1 .. n, S)
    BY <1>4 DEF Injection
  <2>2. IsFiniteSet(1 .. n) /\ Cardinality(1 .. n) = Cardinality(S)
    BY <1>1, Numbers
  <2> HIDE DEF f, n
  <2>3. QED
    BY <2>1, <2>2, FS_Injection
<1> HIDE DEF f, n
<1>6. f \in Seq(S) /\ Len(f) = n /\ DOMAIN f = 1 .. n
  BY <1>1, <1>4
<1>7. QED
  BY <1>1, <1>4, <1>5, <1>6 DEF IsInjective, Surjection, f, n

(* The positions in K up to m that are not above x. *)
NotAbove(K, m, x) == {k \in K \cap (1 .. m) : k <= x}

Counts(e, n, K, m) == \A i \in 1 .. n : Cardinality(NotAbove(K, m, e[i])) = i

(* The chosen positions are numbered by how many of them there are up to   *)
(* each.                                                                   *)
LEMMA PlacesRank ==
    ASSUME NEW e, NEW c, NEW s, NEW K, NEW m \in Nat, Places(e, c, s, K, m), Len(c) \in Nat
    PROVE  /\ Cardinality(K \cap (1 .. m)) = Len(c)
           /\ Counts(e, Len(c), K, m)
<1> DEFINE n == Len(c)
           A == K \cap (1 .. m)
<1>1. /\ e \in [1 .. n -> A] /\ \A i, j \in 1 .. n : i < j => e[i] < e[j]
      /\ \A k \in A : \E i \in 1 .. n : e[i] = k
  BY DEF Places
<1>2. n \in Nat /\ A \subseteq Nat
  OBVIOUS
<1> HIDE DEF n, A
<1>3. ASSUME NEW i \in 1 .. n, NEW j \in 1 .. n PROVE (e[i] = e[j] => i = j) /\ (e[i] <= e[j] => i <= j)
  <2>1. e[i] \in Nat /\ e[j] \in Nat /\ i \in Nat /\ j \in Nat
    <3>1. e[i] \in A /\ e[j] \in A
      BY <1>1
    <3>2. e[i] \in Nat /\ e[j] \in Nat
      BY <1>2, <3>1, Zenon
    <3>3. i \in Nat /\ j \in Nat
      BY <1>2
    <3>4. QED
      BY <3>2, <3>3
  <2>2. (i < j => e[i] < e[j]) /\ (j < i => e[j] < e[i])
    BY <1>1
  <2>3. QED
    BY <2>1, <2>2
<1>4. e \in Bijection(1 .. n, A)
  BY <1>1, <1>3 DEF Bijection, Injection, Surjection, IsInjective
<1>5. Cardinality(A) = n
  <2>1. IsFiniteSet(1 .. n) /\ Cardinality(1 .. n) = n /\ ExistsBijection(1 .. n, A)
    BY <1>2, <1>4, Numbers DEF ExistsBijection
  <2>2. QED
    BY <2>1, FS_Bijection
<1>6. ASSUME NEW i \in 1 .. n PROVE Cardinality({k \in A : k <= e[i]}) = i
  <2> DEFINE B == {k \in A : k <= e[i]}
             g == [j \in 1 .. i |-> e[j]]
  <2>1. i \in Nat /\ 1 .. i \subseteq 1 .. n /\ i \in 1 .. i
    BY <1>2
  <2>2. \A j \in 1 .. i : e[j] \in B
    <3>1. ASSUME NEW j \in 1 .. i PROVE e[j] \in A /\ e[j] <= e[i]
      <4>1. j \in 1 .. n /\ e[j] \in A /\ e[i] \in A /\ j \in Nat /\ j <= i
        BY <1>1, <2>1
      <4>2. j < i \/ j = i
        BY <2>1, <4>1
      <4>3. e[j] \in Nat /\ e[i] \in Nat
        BY <1>2, <4>1
      <4>4. QED
        BY <1>1, <4>1, <4>2, <4>3
    <3>2. QED
      BY <3>1
  <2>3. \A k \in B : \E j \in 1 .. i : e[j] = k
    <3>1. ASSUME NEW k \in B PROVE \E j \in 1 .. i : e[j] = k
      <4>1. PICK j \in 1 .. n : e[j] = k
        BY <1>1
      <4>2. j <= i
        BY <1>3, <4>1
      <4>3. j \in 1 .. i
        BY <1>2, <4>2
      <4>4. QED
        BY <4>1, <4>3
    <3>2. QED
      BY <3>1
  <2> HIDE DEF B
  <2>4. g \in Bijection(1 .. i, B)
    <3>1. g \in [1 .. i -> B]
      BY <2>2
    <3>2. \A j, k \in 1 .. i : g[j] = g[k] => j = k
      BY <1>3, <2>1
    <3>3. \A k \in B : \E j \in 1 .. i : g[j] = k
      BY <2>3
    <3> HIDE DEF g
    <3>4. QED
      BY <3>1, <3>2, <3>3 DEF Bijection, Injection, Surjection, IsInjective
  <2>5. IsFiniteSet(1 .. i) /\ Cardinality(1 .. i) = i /\ ExistsBijection(1 .. i, B)
    BY <2>1, <2>4, Numbers DEF ExistsBijection
  <2>6. Cardinality(B) = i
    BY <2>5, FS_Bijection
  <2>7. QED
    BY <2>6 DEF B
<1>7. QED
  BY <1>5, <1>6 DEF n, A, NotAbove, Counts

(* So they are the same for any two lists. *)
LEMMA PlacesSame ==
    ASSUME NEW e, NEW c, NEW s, NEW d, NEW b, NEW t, NEW K, NEW L, NEW m \in Nat,
           K \cap (1 .. m) = L \cap (1 .. m),
           Places(e, c, s, K, m), Places(d, b, t, L, m), Len(c) \in Nat, Len(b) \in Nat
    PROVE  Len(c) = Len(b) /\ \A i \in 1 .. Len(c) : e[i] = d[i]
<1> DEFINE A == K \cap (1 .. m)
           n == Len(c)
<1>1. A = L \cap (1 .. m)
  OBVIOUS
<1>2. Len(c) = Len(b)
  <2>1. Cardinality(K \cap (1 .. m)) = Len(c)
    BY PlacesRank
  <2>2. Cardinality(L \cap (1 .. m)) = Len(b)
    BY PlacesRank
  <2>3. QED
    BY <2>1, <2>2
<1>3. ASSUME NEW i \in 1 .. n PROVE e[i] = d[i]
  <2>1. i \in 1 .. Len(b)
    BY <1>2
  <2>2. e[i] \in A /\ d[i] \in A
    BY <1>1, <2>1 DEF Places
  <2> DEFINE B(x) == {k \in A : k <= x}
  <2>3. Cardinality(B(e[i])) = i /\ Cardinality(B(d[i])) = i
    <3>1. Cardinality(NotAbove(K, m, e[i])) = i
      <4>1. Counts(e, Len(c), K, m)
        BY PlacesRank
      <4>2. QED
        BY <4>1 DEF Counts
    <3>2. Cardinality(NotAbove(L, m, d[i])) = i
      <4>1. Counts(d, Len(b), L, m)
        BY PlacesRank
      <4>2. QED
        BY <2>1, <4>1 DEF Counts
    <3>3. QED
      BY <1>1, <3>1, <3>2 DEF NotAbove
  <2>4. IsFiniteSet(A) /\ A \subseteq Nat
    <3>1. IsFiniteSet(1 .. m) /\ A \subseteq 1 .. m
      BY Numbers
    <3>2. A \subseteq Nat
      OBVIOUS
    <3> HIDE DEF A
    <3>3. QED
      BY <3>1, <3>2, FS_Subset
  <2> HIDE DEF A
  <2>5. ASSUME NEW x \in A, NEW y \in A, x < y, Cardinality(B(x)) = Cardinality(B(y)) PROVE FALSE
    <3>0. x \in Nat /\ y \in Nat /\ \A k \in A : k \in Nat
      BY <2>4
    <3>1. B(x) \subseteq B(y) /\ y \in B(y) /\ y \notin B(x) /\ B(y) \subseteq A
      <4>1. y \in B(y) /\ y \notin B(x) /\ B(y) \subseteq A
        BY <2>5, <3>0
      <4>2. ASSUME NEW k \in B(x) PROVE k \in B(y)
        <5>1. k \in A /\ k <= x /\ k \in Nat
          BY <3>0
        <5>2. k <= y
          BY <2>5, <3>0, <5>1
        <5>3. QED
          BY <5>1, <5>2
      <4>3. QED
        BY <4>1, <4>2
    <3>2. IsFiniteSet(B(y))
      BY <2>4, <3>1, FS_Subset
    <3>3. B(x) = B(y)
      <4> HIDE DEF B
      <4> QED BY <2>5, <3>1, <3>2, FS_Subset
    <3>4. QED
      BY <3>1, <3>3
  <2>6. ~ (e[i] < d[i]) /\ ~ (d[i] < e[i])
    BY <2>2, <2>3, <2>5
  <2>7. e[i] \in Nat /\ d[i] \in Nat
    BY <2>2, <2>4
  <2>8. QED
    BY <2>6, <2>7
<1>4. QED
  BY <1>2, <1>3

(* A list with such places is the one Chosen gives. *)
LEMMA ChosenIs ==
    ASSUME NEW M, NEW s \in Seq(M), NEW c \in Seq(M), NEW K, NEW e, Places(e, c, s, K, Len(s))
    PROVE  Chosen(s, K) = c
<1> DEFINE b == Chosen(s, K)
<1>1. b \in Seq(M)
  BY ChosenPlaces
<1>2. PICK d : Places(d, b, s, K, Len(s))
  BY ChosenPlaces
<1> HIDE DEF b
<1>3. Len(b) = Len(c) /\ \A i \in 1 .. Len(b) : d[i] = e[i]
  <2>1. Len(s) \in Nat /\ Len(b) \in Nat /\ Len(c) \in Nat
    BY <1>1
  <2>2. QED
    BY <1>2, <2>1, PlacesSame
<1>4. \A i \in 1 .. Len(b) : b[i] = c[i]
  BY <1>2, <1>3 DEF Places
<1>5. b = c
  BY <1>1, <1>3, <1>4
<1>6. QED
  BY <1>5 DEF b

(* Choosing at the same positions of two lists. *)
LEMMA ChosenTogether ==
    ASSUME NEW M, NEW N, NEW s \in Seq(M), NEW t \in Seq(N), Len(s) = Len(t), NEW K
    PROVE  /\ Len(Chosen(s, K)) = Len(Chosen(t, K))
           /\ \E e : Places(e, Chosen(s, K), s, K, Len(s)) /\ Places(e, Chosen(t, K), t, K, Len(t))
<1>1. Chosen(s, K) \in Seq(M) /\ Chosen(t, K) \in Seq(N)
  BY ChosenPlaces
<1>2. PICK e : Places(e, Chosen(s, K), s, K, Len(s))
  BY ChosenPlaces
<1>3. PICK d : Places(d, Chosen(t, K), t, K, Len(t))
  BY ChosenPlaces
<1>4. Len(Chosen(s, K)) = Len(Chosen(t, K)) /\ \A i \in 1 .. Len(Chosen(s, K)) : e[i] = d[i]
  <2>1. Len(s) \in Nat /\ Len(Chosen(s, K)) \in Nat /\ Len(Chosen(t, K)) \in Nat
    BY <1>1
  <2>2. QED
    BY <1>2, <1>3, <2>1, PlacesSame
<1>5. e = d
  BY <1>2, <1>3, <1>4 DEF Places
<1>6. QED
  BY <1>2, <1>3, <1>4, <1>5

(* Choosing the first w. *)
LEMMA ChosenFirst ==
    ASSUME NEW M, NEW s \in Seq(M), NEW K, NEW w \in 0 .. Len(s), K \cap (1 .. Len(s)) = 1 .. w
    PROVE  Chosen(s, K) = SubSeq(s, 1, w)
<1> DEFINE c == SubSeq(s, 1, w)
           e == [i \in 1 .. w |-> i]
<1>1. w \in Nat /\ Len(s) \in Nat
  OBVIOUS
<1>2. c \in Seq(M) /\ Len(c) = w /\ \A i \in 1 .. w : c[i] = s[i]
  BY <1>1
<1> HIDE DEF c
<1>3. Places(e, c, s, K, Len(s))
  <2>1. e \in [1 .. w -> 1 .. w] /\ \A i \in 1 .. w : e[i] = i
    OBVIOUS
  <2> HIDE DEF e
  <2>2. QED
    BY <1>2, <2>1 DEF Places
<1>4. QED
  BY <1>2, <1>3, ChosenIs DEF c

(* Choosing among what was chosen. *)
LEMMA ChosenTwice ==
    ASSUME NEW M, NEW s \in Seq(M), NEW K, NEW e, Places(e, Chosen(s, K), s, K, Len(s)), NEW L
    PROVE  Chosen(Chosen(s, K), L) = Chosen(s, {e[i] : i \in L \cap (1 .. Len(Chosen(s, K)))})
<1> DEFINE c == Chosen(s, K)
           b == Chosen(c, L)
           n == Len(s)
           I == L \cap (1 .. Len(c))
           J == {e[i] : i \in I}
<1>1. c \in Seq(M)
  BY ChosenPlaces
<1>2. b \in Seq(M) /\ \E d : Places(d, b, c, L, Len(c))
  <2> HIDE DEF c
  <2> QED BY <1>1, ChosenPlaces
<1>3. PICK d : Places(d, b, c, L, Len(c))
  BY <1>2
<1> DEFINE g == [i \in 1 .. Len(b) |-> e[d[i]]]
<1> HIDE DEF b
<1>4. /\ e \in [1 .. Len(c) -> K \cap (1 .. n)] /\ \A i \in 1 .. Len(c) : c[i] = s[e[i]]
      /\ \A i, j \in 1 .. Len(c) : i < j => e[i] < e[j]
  BY DEF Places
<1>5. /\ d \in [1 .. Len(b) -> I] /\ \A i \in 1 .. Len(b) : b[i] = c[d[i]]
      /\ \A i, j \in 1 .. Len(b) : i < j => d[i] < d[j]
      /\ \A k \in I : \E i \in 1 .. Len(b) : d[i] = k
  BY <1>3 DEF Places
<1> HIDE DEF c, n
<1>6. J \subseteq 1 .. n /\ J \cap (1 .. n) = J
  BY <1>4
<1>7. g \in [1 .. Len(b) -> J] /\ \A i \in 1 .. Len(b) : g[i] = e[d[i]] /\ d[i] \in 1 .. Len(c)
  <2>1. \A i \in 1 .. Len(b) : d[i] \in I
    BY <1>5
  <2>2. QED
    BY <2>1
<1> HIDE DEF g
<1>8. \A i \in 1 .. Len(b) : b[i] = s[g[i]]
  BY <1>4, <1>5, <1>7
<1>9. \A i, j \in 1 .. Len(b) : i < j => g[i] < g[j]
  BY <1>4, <1>5, <1>7
<1>10. \A k \in J : \E i \in 1 .. Len(b) : g[i] = k
  <2>1. ASSUME NEW k \in J PROVE \E i \in 1 .. Len(b) : g[i] = k
    <3>1. PICK j \in I : k = e[j]
      OBVIOUS
    <3>2. PICK i \in 1 .. Len(b) : d[i] = j
      BY <1>5
    <3>3. QED
      BY <1>7, <3>1, <3>2
  <2>2. QED
    BY <2>1
<1> HIDE DEF J, I
<1>11. Places(g, b, s, J, n)
  BY <1>6, <1>7, <1>8, <1>9, <1>10 DEF Places
<1>12. Chosen(s, J) = b
  BY <1>2, <1>11, ChosenIs DEF n
<1>13. QED
  BY <1>12 DEF b, c, J, I

(***************************************************************************)
(* Lists that stand one after the other in a list.                         *)
(***************************************************************************)

(* b stands in c after position p. *)
StandsAt(c, p, b) == \A i \in 1 .. Len(b) : c[p + i] = b[i]

(* Two lists, one after the other. *)
LEMMA ConcatFacts ==
    ASSUME NEW T, NEW a \in Seq(T), NEW b \in Seq(T)
    PROVE  /\ a \o b \in Seq(T) /\ Len(a \o b) = Len(a) + Len(b)
           /\ \A i \in 1 .. Len(a) : (a \o b)[i] = a[i]
           /\ StandsAt(a \o b, 0, a) /\ StandsAt(a \o b, Len(a), b)
<1>1. a \o b \in Seq(T) /\ Len(a \o b) = Len(a) + Len(b) /\ Len(a) \in Nat /\ Len(b) \in Nat
  OBVIOUS
<1>2. \A i \in 1 .. Len(a) : (a \o b)[i] = a[i]
  OBVIOUS
<1>3. ASSUME NEW i \in 1 .. Len(b) PROVE (a \o b)[Len(a) + i] = b[i]
  <2>1. Len(a) + i \in 1 .. Len(a) + Len(b) /\ (Len(a) + i) - Len(a) = i /\ ~ (Len(a) + i <= Len(a))
    BY <1>1
  <2>2. QED
    BY <2>1
<1>4. \A i \in 1 .. Len(a) : 0 + i = i
  OBVIOUS
<1>5. QED
  BY <1>1, <1>2, <1>3, <1>4 DEF StandsAt

(* What stands in the first of two lists stands in both together. *)
LEMMA StandsStill ==
    ASSUME NEW T, NEW a \in Seq(T), NEW b \in Seq(T), NEW U, NEW x \in Seq(U), NEW p \in Nat,
           StandsAt(a, p, x), p + Len(x) <= Len(a)
    PROVE  StandsAt(a \o b, p, x)
<1>1. \A i \in 1 .. Len(a) : (a \o b)[i] = a[i]
  BY ConcatFacts
<1>2. Len(a) \in Nat /\ Len(x) \in Nat
  OBVIOUS
<1>3. ASSUME NEW i \in 1 .. Len(x) PROVE (a \o b)[p + i] = x[i]
  <2>1. p + i \in 1 .. Len(a)
    BY <1>2
  <2>2. QED
    BY <1>1, <2>1 DEF StandsAt
<1>4. QED
  BY <1>3 DEF StandsAt

(* And what stands in a part stands in the whole. *)
LEMMA StandsInside ==
    ASSUME NEW c, NEW p \in Nat, NEW T, NEW b \in Seq(T), StandsAt(c, p, b),
           NEW q \in Nat, NEW U, NEW x \in Seq(U), StandsAt(b, q, x), q + Len(x) <= Len(b)
    PROVE  StandsAt(c, p + q, x)
<1>1. Len(b) \in Nat /\ Len(x) \in Nat
  OBVIOUS
<1>2. ASSUME NEW i \in 1 .. Len(x) PROVE c[(p + q) + i] = x[i]
  <2>1. q + i \in 1 .. Len(b) /\ (p + q) + i = p + (q + i)
    BY <1>1
  <2>2. c[p + (q + i)] = b[q + i]
    BY <2>1 DEF StandsAt
  <2>3. QED
    BY <2>1, <2>2 DEF StandsAt
<1>3. QED
  BY <1>2 DEF StandsAt

(* off[k] is the length of the first k lists. *)
Offsets(off, ss) ==
    /\ off \in [0 .. Len(ss) -> Nat] /\ off[0] = 0
    /\ \A k \in 1 .. Len(ss) : off[k] = off[k - 1] + Len(ss[k])

(* Lists one after the other: each stands at its offset. *)
Flattened(u, off, ss) ==
    /\ Len(u) = off[Len(ss)]
    /\ \A k \in 1 .. Len(ss) : StandsAt(u, off[k - 1], ss[k])

(* There are such offsets. *)
LEMMA OffsetsExist ==
    ASSUME NEW T, NEW ss \in Seq(Seq(T))
    PROVE  \E off : Offsets(off, ss)
<1> DEFINE n == Len(ss)
           step == [p \in Nat \X (1 .. n) |-> p[1] + Len(ss[p[2]])]
<1>1. n \in Nat /\ \A k \in 1 .. n : Len(ss[k]) \in Nat
  <2>1. n \in Nat /\ \A k \in 1 .. n : ss[k] \in Seq(T)
    OBVIOUS
  <2>2. QED
    BY <2>1
<1> HIDE DEF n
<1>2. \A x \in Nat, k \in 1 .. n : step[<<x, k>>] = x + Len(ss[k]) /\ x + Len(ss[k]) \in Nat
  BY <1>1
<1>3. PICK f : Unfolds(f, step, 0, Nat, n)
  <2>1. StepsIn(step, Nat, n) /\ 0 \in Nat
    BY <1>2 DEF StepsIn
  <2> HIDE DEF step
  <2>2. QED
    BY <1>1, <2>1, Recursion
<1>4. f \in [0 .. n -> Nat] /\ f[0] = 0 /\ \A k \in 1 .. n : f[k] = step[<<f[k - 1], k>>]
  BY <1>3 DEF Unfolds
<1> HIDE DEF step
<1>5. ASSUME NEW k \in 1 .. n PROVE f[k] = f[k - 1] + Len(ss[k])
  <2>1. f[k - 1] \in Nat
    BY <1>1, <1>4
  <2>2. QED
    BY <1>2, <1>4, <2>1
<1>6. QED
  BY <1>4, <1>5 DEF Offsets, n

(* Offsets do not decrease. *)
LEMMA OffsetsGrow ==
    ASSUME NEW T, NEW ss \in Seq(Seq(T)), NEW off, Offsets(off, ss),
           NEW i \in 0 .. Len(ss), NEW j \in 0 .. Len(ss), i <= j
    PROVE  off[i] <= off[j]
<1> DEFINE n == Len(ss)
           S == {k \in 0 .. n : i <= k => off[i] <= off[k]}
<1>1. n \in Nat /\ \A k \in 1 .. n : Len(ss[k]) \in Nat
  <2>1. n \in Nat /\ \A k \in 1 .. n : ss[k] \in Seq(T)
    OBVIOUS
  <2>2. QED
    BY <2>1
<1>2. off \in [0 .. n -> Nat] /\ \A k \in 1 .. n : off[k] = off[k - 1] + Len(ss[k])
  BY DEF Offsets
<1>x. i \in 0 .. n /\ j \in 0 .. n
  OBVIOUS
<1> HIDE DEF n
<1>3. 0 \in S
  BY <1>1, <1>2, <1>x
<1>4. ASSUME NEW k \in 0 .. n - 1, k \in S PROVE k + 1 \in S
  <2>1. k + 1 \in 1 .. n /\ (k + 1) - 1 = k /\ k \in 0 .. n /\ i \in Nat /\ k \in Nat
    BY <1>1, <1>x
  <2>2. off[k + 1] = off[k] + Len(ss[k + 1]) /\ off[k] \in Nat /\ off[k + 1] \in Nat
        /\ Len(ss[k + 1]) \in Nat /\ off[i] \in Nat
    <3>1. off[k + 1] = off[(k + 1) - 1] + Len(ss[k + 1])
      BY <1>2, <2>1
    <3>2. QED
      BY <1>1, <1>2, <1>x, <2>1, <3>1
  <2>3. ASSUME i <= k + 1 PROVE off[i] <= off[k + 1]
    <3>1. CASE i = k + 1
      BY <2>2, <3>1
    <3>2. CASE i # k + 1
      <4>1. i <= k
        BY <2>1, <2>3, <3>2
      <4>2. off[i] <= off[k]
        BY <1>4, <4>1
      <4>3. QED
        BY <2>2, <4>2
    <3>3. QED
      BY <3>1, <3>2
  <2>4. QED
    BY <2>1, <2>3
<1>5. j \in S
  <2> HIDE DEF S
  <2>1. \A k \in 0 .. n : k \in S
    BY <1>1, <1>3, <1>4, UpTo
  <2>2. QED
    BY <1>x, <2>1
<1>6. QED
  BY <1>5

(* The offsets of the first k lists are those of all. *)
LEMMA OffsetsSame ==
    ASSUME NEW T, NEW ss \in Seq(Seq(T)), NEW off, Offsets(off, ss),
           NEW k \in 0 .. Len(ss), NEW g, Offsets(g, SubSeq(ss, 1, k))
    PROVE  g[k] = off[k]
<1> DEFINE n == Len(ss)
           tt == SubSeq(ss, 1, k)
           S == {i \in 0 .. k : g[i] = off[i]}
<1>1. n \in Nat /\ k \in Nat /\ k <= n
  OBVIOUS
<1>2. Len(tt) = k /\ \A i \in 1 .. k : tt[i] = ss[i]
  BY <1>1
<1> HIDE DEF tt, n
<1>3. /\ g[0] = 0 /\ \A i \in 1 .. k : g[i] = g[i - 1] + Len(tt[i])
      /\ off[0] = 0 /\ \A i \in 1 .. n : off[i] = off[i - 1] + Len(ss[i])
  BY <1>2 DEF Offsets, tt, n
<1>4. 0 \in S
  BY <1>1, <1>3
<1>5. ASSUME NEW i \in 0 .. k - 1, i \in S PROVE i + 1 \in S
  <2>1. i + 1 \in 1 .. k /\ i + 1 \in 1 .. n /\ (i + 1) - 1 = i /\ i + 1 \in 0 .. k
    BY <1>1
  <2>2. g[i + 1] = g[(i + 1) - 1] + Len(tt[i + 1]) /\ off[i + 1] = off[(i + 1) - 1] + Len(ss[i + 1])
    BY <1>3, <2>1
  <2>3. g[i] = off[i] /\ tt[i + 1] = ss[i + 1]
    BY <1>2, <1>5, <2>1
  <2>4. QED
    BY <2>1, <2>2, <2>3
<1>6. k \in S
  <2> HIDE DEF S
  <2>1. \A i \in 0 .. k : i \in S
    BY <1>1, <1>4, <1>5, UpTo
  <2>2. QED
    BY <1>1, <2>1
<1>7. QED
  BY <1>6

(* What FlattenSeq computes. *)
LEMMA FlattenFacts ==
    ASSUME NEW T, NEW ss \in Seq(Seq(T)), NEW off, Offsets(off, ss)
    PROVE  FlattenSeq(ss) \in Seq(T) /\ Flattened(FlattenSeq(ss), off, ss)
<1> DEFINE n == Len(ss)
           A == Seq(T)
           IsFlat(f) == f = [i \in 1 .. n |-> IF i = 1 THEN ss[i] ELSE f[i - 1] \o ss[i]]
           flat == CHOOSE f : IsFlat(f)
           step == [p \in A \X (1 .. n) |-> p[1] \o ss[p[2]]]
           nil == <<>>
<1>1. n \in Nat /\ \A k \in 1 .. n : ss[k] \in A
  OBVIOUS
<1>2. /\ off \in [0 .. n -> Nat] /\ off[0] = 0
      /\ \A k \in 1 .. n : off[k] = off[k - 1] + Len(ss[k])
  BY DEF Offsets
<1>3. CASE n = 0
  <2>1. FlattenSeq(ss) = ss
    BY <1>3 DEF FlattenSeq
  <2>2. ss = <<>>
    BY <1>3
  <2>3. ss \in Seq(T) /\ Len(ss) = off[n] /\ \A k \in 1 .. n : FALSE
    BY <1>2, <1>3, <2>2
  <2>4. QED
    BY <2>1, <2>3 DEF Flattened
<1>4. CASE n # 0
  <2>0. 1 \in 1 .. n /\ n \in 1 .. n
    BY <1>1, <1>4
  <2>1. FlattenSeq(ss) = flat[n]
    BY <1>4 DEF FlattenSeq
  <2> HIDE DEF n
  <2>2. ASSUME NEW x \in A, NEW i \in 1 .. n PROVE x \o ss[i] \in A /\ step[<<x, i>>] = x \o ss[i]
    <3>1. ss[i] \in A
      BY <1>1
    <3>2. x \o ss[i] \in A
      BY <3>1
    <3>3. <<x, i>> \in A \X (1 .. n) /\ <<x, i>>[1] = x /\ <<x, i>>[2] = i
      <4> HIDE DEF A
      <4> QED OBVIOUS
    <3>4. QED
      BY <3>2, <3>3
  <2>3. nil \in A /\ \A x \in A : nil \o x = x
    OBVIOUS
  <2>4. \E f : IsFlat(f)
    <3>1. PICK f : Unfolds(f, step, nil, A, n)
      <4>1. StepsIn(step, A, n)
        BY <2>2 DEF StepsIn
      <4> HIDE DEF step, nil, A
      <4>2. QED
        BY <1>1, <2>3, <4>1, Recursion
    <3>2. f \in [0 .. n -> A] /\ f[0] = nil /\ \A i \in 1 .. n : f[i] = step[<<f[i - 1], i>>]
      BY <3>1 DEF Unfolds
    <3>3. ASSUME NEW i \in 1 .. n PROVE f[i] = f[i - 1] \o ss[i]
      <4> HIDE DEF step, A
      <4>1. f[i - 1] \in A /\ f[i] = step[<<f[i - 1], i>>]
        BY <1>1, <3>2
      <4>2. QED
        BY <2>2, <4>1
    <3>4. f[1] = ss[1]
      <4> HIDE DEF nil, A, step
      <4>1. f[1] = f[1 - 1] \o ss[1]
        BY <2>0, <3>3
      <4>2. 1 - 1 = 0
        OBVIOUS
      <4>3. QED
        BY <1>1, <2>0, <2>3, <3>2, <4>1, <4>2
    <3> DEFINE g == [i \in 1 .. n |-> f[i]]
    <3>5. ASSUME NEW i \in 1 .. n PROVE g[i] = IF i = 1 THEN ss[i] ELSE g[i - 1] \o ss[i]
      <4>1. CASE i = 1
        BY <3>4, <4>1
      <4>2. CASE i # 1
        <5>1. i - 1 \in 1 .. n
          BY <1>1, <4>2
        <5>2. QED
          BY <3>3, <4>2, <5>1
      <4>3. QED
        BY <4>1, <4>2
    <3>6. g = [i \in 1 .. n |-> g[i]]
      OBVIOUS
    <3> HIDE DEF g
    <3>7. IsFlat(g)
      BY <3>5, <3>6
    <3>8. QED
      BY <3>7
  <2>5. IsFlat(flat)
    <3> HIDE DEF IsFlat
    <3> QED BY <2>4
  <2> HIDE DEF flat
  <2>6. flat[1] = ss[1] /\ \A i \in 2 .. n : flat[i] = flat[i - 1] \o ss[i]
    <3>1. \A i \in 1 .. n : flat[i] = IF i = 1 THEN ss[i] ELSE flat[i - 1] \o ss[i]
      BY <2>5, Zenon
    <3>2. \A i \in 2 .. n : i \in 1 .. n /\ i # 1
      BY <1>1
    <3>3. QED
      BY <2>0, <3>1, <3>2
  <2> DEFINE Good(i) == /\ flat[i] \in A /\ Len(flat[i]) = off[i]
                        /\ \A k \in 1 .. i : StandsAt(flat[i], off[k - 1], ss[k])
             S == {i \in 0 .. n : i = 0 \/ Good(i)}
  <2>7. 0 \in S
    BY <1>1
  <2>8. ASSUME NEW i \in 0 .. n - 1, i \in S PROVE i + 1 \in S
    <3>1. i \in Nat /\ i + 1 \in 1 .. n /\ i + 1 \in 0 .. n /\ (i + 1) - 1 = i
      BY <1>1
    <3>2. off[i + 1] = off[i] + Len(ss[i + 1])
      <4>1. off[i + 1] = off[(i + 1) - 1] + Len(ss[i + 1])
        BY <1>2, <3>1
      <4>2. QED
        BY <3>1, <4>1
    <3>3. CASE i = 0
      <4>1. flat[1] \in A /\ Len(flat[1]) = off[1]
        <5>1. ss[1] \in Seq(T)
          BY <1>1, <2>0
        <5>2. Len(ss[1]) \in Nat
          BY <5>1
        <5>3. QED
          BY <1>2, <2>6, <3>2, <3>3, <5>1, <5>2
      <4>2. StandsAt(flat[1], off[0], ss[1])
        BY <1>2, <2>6 DEF StandsAt
      <4>3. \A k \in 1 .. 1 : StandsAt(flat[1], off[k - 1], ss[k])
        BY <4>2
      <4>4. Good(1) /\ i + 1 = 1
        BY <3>3, <4>1, <4>3
      <4> HIDE DEF Good
      <4>5. QED
        BY <3>1, <4>4
    <3>4. CASE i # 0
      <4> DEFINE x == flat[i]
                 y == ss[i + 1]
                 z == x \o y
      <4>1. flat[i + 1] = z
        <5>1. i + 1 \in 2 .. n
          BY <1>1, <3>1, <3>4
        <5>2. QED
          BY <2>6, <3>1, <5>1
      <4>2. x \in Seq(T) /\ Len(x) = off[i] /\ \A k \in 1 .. i : StandsAt(x, off[k - 1], ss[k])
        BY <2>8, <3>4
      <4>3. y \in Seq(T)
        BY <1>1, <3>1
      <4> HIDE DEF x, y
      <4>4. z \in Seq(T) /\ Len(z) = Len(x) + Len(y) /\ StandsAt(z, Len(x), y)
        BY <4>2, <4>3, ConcatFacts
      <4>5. ASSUME NEW k \in 1 .. i PROVE StandsAt(z, off[k - 1], ss[k])
        <5>1. k \in 1 .. n /\ k \in 0 .. n /\ k - 1 \in 0 .. n /\ i \in 0 .. n /\ k <= i
          BY <1>1, <3>1
        <5>2. off[k] = off[k - 1] + Len(ss[k]) /\ off[k - 1] \in Nat /\ ss[k] \in Seq(T)
          BY <1>1, <1>2, <5>1
        <5>3. off[k] <= off[i]
          BY <5>1, OffsetsGrow DEF n
        <5>4. off[k - 1] + Len(ss[k]) <= Len(x)
          BY <4>2, <5>2, <5>3
        <5>5. StandsAt(x, off[k - 1], ss[k])
          BY <4>2
        <5>6. QED
          BY <4>2, <4>3, <5>2, <5>4, <5>5, StandsStill
      <4>6. StandsAt(z, off[(i + 1) - 1], ss[i + 1])
        BY <3>1, <4>2, <4>4 DEF y
      <4>7. Len(z) = off[i + 1]
        BY <3>2, <4>2, <4>4 DEF y
      <4>8. \A k \in 1 .. i + 1 : StandsAt(z, off[k - 1], ss[k])
        <5>1. \A k \in 1 .. i + 1 : k \in 1 .. i \/ k = i + 1
          BY <3>1
        <5> HIDE DEF z
        <5>2. QED
          BY <4>5, <4>6, <5>1
      <4>9. Good(i + 1)
        <5> HIDE DEF z
        <5> QED BY <4>1, <4>4, <4>7, <4>8
      <4> HIDE DEF Good
      <4>10. QED
        BY <3>1, <4>9
    <3>5. QED
      BY <3>3, <3>4
  <2>9. n \in S
    <3> HIDE DEF S
    <3>1. \A i \in 0 .. n : i \in S
      BY <1>1, <2>7, <2>8, UpTo
    <3>2. QED
      BY <1>1, <3>1
  <2>10. Good(n)
    BY <1>4, <2>9
  <2>11. QED
    BY <2>1, <2>10 DEF Flattened, n
<1>5. QED
  BY <1>3, <1>4

(* A set of numbers up to n has a greatest. *)
LEMMA GreatestUpTo ==
    ASSUME NEW n \in Nat, NEW S, S \subseteq 0 .. n, S # {}
    PROVE  \E k \in S : \A j \in S : j <= k
<1> DEFINE T == {n - j : j \in S}
<1>1. T \in SUBSET Nat /\ T # {}
  <2>1. ASSUME NEW j \in S PROVE n - j \in Nat
    OBVIOUS
  <2>2. T \subseteq Nat
    BY <2>1, Zenon
  <2>3. PICK j : j \in S
    OBVIOUS
  <2>4. n - j \in T
    BY <2>3, Zenon
  <2>5. QED
    BY <2>2, <2>4, Zenon
<1>2. PICK x \in T : \A y \in T : x <= y
  <2> HIDE DEF T
  <2> QED BY <1>1, LeastNat
<1>3. PICK k \in S : x = n - k
  OBVIOUS
<1>4. ASSUME NEW j \in S PROVE j <= k
  <2>1. n - k <= n - j
    BY <1>2, <1>3
  <2>2. j \in Int /\ k \in Int
    OBVIOUS
  <2>3. QED
    BY <2>1, <2>2
<1>5. QED
  BY <1>4

(* Where a position of a flattened list comes from. *)
LEMMA PartOf ==
    ASSUME NEW T, NEW ss \in Seq(Seq(T)), NEW off, Offsets(off, ss), NEW p \in 1 .. off[Len(ss)]
    PROVE  \E k \in 1 .. Len(ss) : \E i \in 1 .. Len(ss[k]) : p = off[k - 1] + i
<1> DEFINE m == Len(ss)
           S == {k \in 0 .. m : off[k] < p}
<1>1. m \in Nat /\ off \in [0 .. m -> Nat] /\ off[0] = 0
      /\ \A k \in 1 .. m : off[k] = off[k - 1] + Len(ss[k]) /\ Len(ss[k]) \in Nat
  <2>1. m \in Nat /\ \A k \in 1 .. m : ss[k] \in Seq(T)
    OBVIOUS
  <2>2. \A k \in 1 .. m : Len(ss[k]) \in Nat
    BY <2>1
  <2>3. QED
    BY <2>1, <2>2 DEF Offsets
<1>2. p \in Nat /\ 1 <= p /\ p <= off[m]
  BY <1>1
<1> HIDE DEF m
<1>3. PICK k \in S : \A j \in S : j <= k
  <2>1. 0 \in S /\ S \subseteq 0 .. m
    BY <1>1, <1>2
  <2> HIDE DEF S
  <2>2. QED
    BY <1>1, <2>1, GreatestUpTo
<1>4. k \in 0 .. m /\ off[k] < p /\ k # m
  BY <1>1, <1>2, <1>3
<1>5. k + 1 \in 1 .. m /\ k + 1 \in 0 .. m /\ (k + 1) - 1 = k
  BY <1>1, <1>4
<1>6. ~ (off[k + 1] < p) /\ off[k + 1] \in Nat /\ off[k] \in Nat
  BY <1>1, <1>3, <1>4, <1>5
<1>7. off[k + 1] = off[k] + Len(ss[k + 1]) /\ Len(ss[k + 1]) \in Nat
  BY <1>1, <1>5
<1> DEFINE i == p - off[k]
<1>8. i \in 1 .. Len(ss[k + 1]) /\ p = off[k] + i
  BY <1>2, <1>4, <1>6, <1>7
<1> HIDE DEF i
<1>9. QED
  BY <1>5, <1>8 DEF m

(* Lists without repetitions and with nothing in common, one after the     *)
(* other.                                                                  *)
LEMMA FlattenOnce ==
    ASSUME NEW T, NEW ss \in Seq(Seq(T)), \A k \in 1 .. Len(ss) : IsInjective(ss[k]),
           \A k, l \in 1 .. Len(ss) : k # l => ToSet(ss[k]) \cap ToSet(ss[l]) = {}
    PROVE  /\ FlattenSeq(ss) \in Seq(T) /\ IsInjective(FlattenSeq(ss))
           /\ ToSet(FlattenSeq(ss)) = UNION {ToSet(ss[k]) : k \in 1 .. Len(ss)}
<1> DEFINE u == FlattenSeq(ss)
           m == Len(ss)
<1>1. PICK off : Offsets(off, ss)
  BY OffsetsExist
<1>2. u \in Seq(T) /\ Flattened(u, off, ss)
  BY <1>1, FlattenFacts
<1>3. m \in Nat /\ \A k \in 1 .. m : ss[k] \in Seq(T)
  OBVIOUS
<1> HIDE DEF u, m
<1>4. /\ Len(u) = off[m] /\ DOMAIN u = 1 .. Len(u)
      /\ \A k \in 1 .. m : \A i \in 1 .. Len(ss[k]) : u[off[k - 1] + i] = ss[k][i]
  <2>1. Len(u) = off[m] /\ \A k \in 1 .. m : StandsAt(u, off[k - 1], ss[k])
    BY <1>2 DEF Flattened, m
  <2>2. DOMAIN u = 1 .. Len(u)
    BY <1>2
  <2>3. QED
    BY <2>1, <2>2 DEF StandsAt
<1>5. ASSUME NEW k \in 1 .. m
      PROVE  /\ off[k - 1] \in Nat /\ off[k] \in Nat /\ off[k] <= off[m] /\ Len(ss[k]) \in Nat
             /\ off[k] = off[k - 1] + Len(ss[k]) /\ DOMAIN ss[k] = 1 .. Len(ss[k])
  <2>1. k - 1 \in 0 .. m /\ k \in 0 .. m /\ m \in 0 .. m /\ k <= m
    BY <1>3
  <2>2. off[k] <= off[m]
    BY <1>1, <2>1, OffsetsGrow DEF m
  <2>3. Len(ss[k]) \in Nat /\ DOMAIN ss[k] = 1 .. Len(ss[k])
    BY <1>3
  <2>4. QED
    BY <1>1, <2>1, <2>2, <2>3 DEF Offsets, m
<1>6. ASSUME NEW p \in DOMAIN u
      PROVE  \E k \in 1 .. m : \E i \in 1 .. Len(ss[k]) : p = off[k - 1] + i
  <2>1. p \in 1 .. off[Len(ss)]
    BY <1>4 DEF m
  <2>2. QED
    BY <1>1, <2>1, PartOf DEF m
<1>7. ToSet(u) = UNION {ToSet(ss[k]) : k \in 1 .. m}
  <2>1. ASSUME NEW p \in DOMAIN u PROVE \E k \in 1 .. m : u[p] \in ToSet(ss[k])
    <3>0. PICK k \in 1 .. m : \E i \in 1 .. Len(ss[k]) : p = off[k - 1] + i
      BY <1>6
    <3>1. PICK i \in 1 .. Len(ss[k]) : p = off[k - 1] + i
      BY <3>0
    <3>2. u[p] = ss[k][i] /\ i \in DOMAIN ss[k]
      BY <1>4, <1>5, <3>1
    <3>3. QED
      BY <3>2 DEF ToSet
  <2>2. ASSUME NEW k \in 1 .. m, NEW i \in DOMAIN ss[k] PROVE ss[k][i] \in ToSet(u)
    <3>1. i \in 1 .. Len(ss[k]) /\ off[k - 1] + i \in 1 .. Len(u)
      <4> DEFINE a == off[k - 1]
                 b == off[k]
                 c == off[m]
                 l == Len(ss[k])
      <4>1. a \in Nat /\ b \in Nat /\ b <= c /\ b = a + l /\ l \in Nat /\ i \in 1 .. l
        BY <1>5
      <4>2. c = Len(u) /\ c \in Nat
        BY <1>2, <1>4
      <4> HIDE DEF a, b, c, l
      <4>3. a + i \in 1 .. c
        BY <4>1, <4>2
      <4>4. QED
        BY <4>1, <4>2, <4>3 DEF a, l
    <3>2. QED
      BY <1>4, <3>1 DEF ToSet
  <2>3. ASSUME NEW x \in UNION {ToSet(ss[k]) : k \in 1 .. m} PROVE x \in ToSet(u)
    <3>1. PICK k \in 1 .. m : x \in ToSet(ss[k])
      OBVIOUS
    <3>2. PICK i \in DOMAIN ss[k] : x = ss[k][i]
      BY <3>1 DEF ToSet
    <3>3. QED
      BY <2>2, <3>2
  <2>4. ASSUME NEW x \in ToSet(u) PROVE x \in UNION {ToSet(ss[k]) : k \in 1 .. m}
    <3>1. PICK p \in DOMAIN u : x = u[p]
      BY DEF ToSet
    <3>2. QED
      BY <2>1, <3>1
  <2>5. QED
    BY <2>3, <2>4, Zenon
<1>8. ASSUME NEW p \in DOMAIN u, NEW q \in DOMAIN u, u[p] = u[q] PROVE p = q
  <2>k. PICK k \in 1 .. m : \E i \in 1 .. Len(ss[k]) : p = off[k - 1] + i
    BY <1>6
  <2>1. PICK i \in 1 .. Len(ss[k]) : p = off[k - 1] + i
    BY <2>k
  <2>l. PICK l \in 1 .. m : \E j \in 1 .. Len(ss[l]) : q = off[l - 1] + j
    BY <1>6
  <2>2. PICK j \in 1 .. Len(ss[l]) : q = off[l - 1] + j
    BY <2>l
  <2>3. u[p] = ss[k][i] /\ i \in DOMAIN ss[k] /\ u[q] = ss[l][j] /\ j \in DOMAIN ss[l]
    BY <1>4, <1>5, <2>1, <2>2
  <2>4. u[p] \in ToSet(ss[k]) /\ u[p] \in ToSet(ss[l])
    BY <1>8, <2>3 DEF ToSet
  <2>5. k = l
    BY <2>4 DEF m
  <2>6. i = j
    <3>1. IsInjective(ss[k])
      BY DEF m
    <3>2. QED
      BY <1>8, <2>3, <2>5, <3>1 DEF IsInjective
  <2>7. QED
    BY <2>1, <2>2, <2>5, <2>6
<1>9. QED
  BY <1>2, <1>7, <1>8 DEF IsInjective, u, m

(***************************************************************************)
(* Sorting.                                                                *)
(***************************************************************************)

(* less orders V, up to elements that it does not tell apart. *)
Orders(less, V) ==
    \A a, b, c \in V :
        /\ <<a, a>> \notin less
        /\ <<a, b>> \in less /\ <<b, c>> \in less => <<a, c>> \in less
        /\ <<a, b>> \in less => <<a, c>> \in less \/ <<c, b>> \in less

(* What stands up to position i of s. *)
Below(s, less, i) ==
    {j \in DOMAIN s : <<s[j], s[i]>> \in less \/ (<<s[i], s[j]>> \notin less /\ j <= i)}

(* Of two positions one stands before the other. *)
LEMMA BelowFacts ==
    ASSUME NEW V, NEW s \in Seq(V), NEW less, Orders(less, V), NEW i \in DOMAIN s, NEW j \in DOMAIN s
    PROVE  /\ i \in Below(s, less, i)
           /\ i \in Below(s, less, j) \/ j \in Below(s, less, i)
           /\ i # j => i \notin Below(s, less, j) \/ j \notin Below(s, less, i)
           /\ i \in Below(s, less, j) => Below(s, less, i) \subseteq Below(s, less, j)
<1>1. DOMAIN s = 1 .. Len(s) /\ Len(s) \in Nat /\ \A k \in DOMAIN s : s[k] \in V
  OBVIOUS
<1>2. i \in Below(s, less, i) /\ (i \in Below(s, less, j) \/ j \in Below(s, less, i))
  BY <1>1 DEF Below, Orders
<1>3. i # j => i \notin Below(s, less, j) \/ j \notin Below(s, less, i)
  <2>1. <<s[i], s[j]>> \notin less \/ <<s[j], s[i]>> \notin less
    BY <1>1 DEF Orders
  <2>2. i \in Int /\ j \in Int
    BY <1>1
  <2>3. QED
    BY <2>1, <2>2 DEF Below
<1>4. ASSUME i \in Below(s, less, j), NEW k \in Below(s, less, i) PROVE k \in Below(s, less, j)
  <2>1. k \in DOMAIN s /\ s[i] \in V /\ s[j] \in V /\ s[k] \in V /\ i \in Int /\ j \in Int /\ k \in Int
    BY <1>1, <1>4 DEF Below
  <2>2. /\ <<s[k], s[i]>> \in less \/ (<<s[i], s[k]>> \notin less /\ k <= i)
        /\ <<s[i], s[j]>> \in less \/ (<<s[j], s[i]>> \notin less /\ i <= j)
    BY <1>4 DEF Below
  <2>3. <<s[k], s[j]>> \in less \/ (<<s[j], s[k]>> \notin less /\ k <= j)
    <3>1. /\ <<s[k], s[i]>> \in less /\ <<s[i], s[j]>> \in less => <<s[k], s[j]>> \in less
          /\ <<s[k], s[i]>> \in less => <<s[k], s[j]>> \in less \/ <<s[j], s[i]>> \in less
          /\ <<s[i], s[j]>> \in less => <<s[i], s[k]>> \in less \/ <<s[k], s[j]>> \in less
          /\ <<s[j], s[k]>> \in less => <<s[j], s[i]>> \in less \/ <<s[i], s[k]>> \in less
      BY <2>1 DEF Orders
    <3>2. QED
      BY <2>1, <2>2, <3>1
  <2>4. QED
    BY <2>1, <2>3 DEF Below
<1>5. QED
  BY <1>2, <1>3, <1>4

(* Every position has its own rank, and every rank a position. *)
LEMMA RanksFacts ==
    ASSUME NEW V, NEW s \in Seq(V), NEW less, Orders(less, V)
    PROVE  Ranks(s, less) \in Bijection(DOMAIN s, DOMAIN s)
<1> DEFINE n == Len(s)
           B(i) == Below(s, less, i)
           rank == Ranks(s, less)
<1>1. DOMAIN s = 1 .. n /\ n \in Nat /\ IsFiniteSet(DOMAIN s) /\ Cardinality(DOMAIN s) = n
  BY Numbers
<1>2. ASSUME NEW i \in DOMAIN s
      PROVE  /\ rank[i] = Cardinality(B(i)) /\ IsFiniteSet(B(i)) /\ B(i) \subseteq DOMAIN s
             /\ rank[i] \in DOMAIN s
  <2>1. rank[i] = Cardinality(B(i)) /\ B(i) \subseteq DOMAIN s
    BY DEF Ranks, Below
  <2>2. IsFiniteSet(B(i)) /\ Cardinality(B(i)) <= n
    BY <1>1, <2>1, FS_Subset
  <2>3. B(i) # {}
    BY BelowFacts
  <2>4. Cardinality(B(i)) \in Nat /\ Cardinality(B(i)) # 0
    BY <2>2, <2>3, FS_CardinalityType, FS_EmptySet
  <2>5. QED
    BY <1>1, <2>1, <2>2, <2>4
<1>3. ASSUME NEW i \in DOMAIN s, NEW j \in DOMAIN s, i # j, i \in B(j) PROVE rank[i] < rank[j]
  <2>1. B(i) \subseteq B(j) /\ j \notin B(i) /\ j \in B(j)
    BY <1>3, BelowFacts
  <2>2. Cardinality(B(i)) <= Cardinality(B(j)) /\ (Cardinality(B(i)) = Cardinality(B(j)) => B(i) = B(j))
    BY <1>2, <2>1, FS_Subset
  <2>3. Cardinality(B(i)) \in Nat /\ Cardinality(B(j)) \in Nat
    BY <1>2, FS_CardinalityType
  <2>4. B(i) # B(j)
    BY <2>1
  <2>5. rank[i] = Cardinality(B(i)) /\ rank[j] = Cardinality(B(j))
    BY <1>2
  <2> HIDE DEF B, rank
  <2>6. QED
    BY <2>2, <2>3, <2>4, <2>5
<1>4. rank \in Injection(DOMAIN s, DOMAIN s)
  <2>1. rank \in [DOMAIN s -> DOMAIN s]
    BY <1>2 DEF Ranks
  <2>2. ASSUME NEW i \in DOMAIN s, NEW j \in DOMAIN s, rank[i] = rank[j] PROVE i = j
    <3>1. i \in B(j) \/ j \in B(i)
      BY BelowFacts
    <3>2. rank[i] \in Int /\ rank[j] \in Int
      BY <1>1, <1>2
    <3> HIDE DEF B, rank
    <3>3. QED
      BY <1>3, <2>2, <3>1, <3>2
  <2>3. QED
    BY <2>1, <2>2 DEF Injection, IsInjective
<1>5. rank \in Surjection(DOMAIN s, DOMAIN s)
  <2> HIDE DEF rank
  <2> QED BY <1>1, <1>4, FS_Injection
<1>6. QED
  BY <1>4, <1>5 DEF Bijection

(* The sorted list holds the elements of the list, each as often as the    *)
(* list does, and none of them is before a smaller one.                    *)
LEMMA ArrangedFacts ==
    ASSUME NEW V, NEW s \in Seq(V), NEW less, Orders(less, V)
    PROVE  /\ Arranged(s, less) \in Seq(V) /\ Len(Arranged(s, less)) = Len(s)
           /\ \E p \in Bijection(DOMAIN s, DOMAIN s) : \A k \in DOMAIN s :
                 Arranged(s, less)[k] = s[p[k]] /\ Ranks(s, less)[p[k]] = k
           /\ \A k, l \in DOMAIN s :
                 k < l => <<Arranged(s, less)[l], Arranged(s, less)[k]>> \notin less
<1> DEFINE n == Len(s)
           rank == Ranks(s, less)
           p == [k \in DOMAIN s |-> CHOOSE i \in DOMAIN s : rank[i] = k]
           a == Arranged(s, less)
<1>1. DOMAIN s = 1 .. n /\ n \in Nat /\ \A i \in DOMAIN s : s[i] \in V
  OBVIOUS
<1>2. /\ rank \in [DOMAIN s -> DOMAIN s]
      /\ \A i, j \in DOMAIN s : rank[i] = rank[j] => i = j
      /\ \A k \in DOMAIN s : \E i \in DOMAIN s : rank[i] = k
  BY RanksFacts DEF Bijection, Injection, Surjection, IsInjective
<1>3. ASSUME NEW k \in DOMAIN s PROVE p[k] \in DOMAIN s /\ rank[p[k]] = k /\ a[k] = s[p[k]]
  <2>1. a[k] = s[p[k]]
    BY DEF Arranged
  <2> HIDE DEF rank
  <2>2. QED
    BY <1>2, <2>1
<1>4. p \in Bijection(DOMAIN s, DOMAIN s)
  <2> HIDE DEF rank
  <2>1. p \in [DOMAIN s -> DOMAIN s]
    BY <1>3
  <2>2. \A k, l \in DOMAIN s : p[k] = p[l] => k = l
    <3> HIDE DEF p
    <3> QED BY <1>3
  <2>3. \A i \in DOMAIN s : \E k \in DOMAIN s : p[k] = i
    <3> HIDE DEF p
    <3>1. ASSUME NEW i \in DOMAIN s PROVE p[rank[i]] = i /\ rank[i] \in DOMAIN s
      <4>1. rank[i] \in DOMAIN s
        BY <1>2
      <4>2. QED
        BY <1>2, <1>3, <4>1
    <3>2. QED
      BY <3>1
  <2>4. QED
    BY <2>1, <2>2, <2>3 DEF Bijection, Injection, Surjection, IsInjective
<1>5. a \in Seq(V) /\ Len(a) = n
  <2>1. DOMAIN a = 1 .. n /\ \A k \in 1 .. n : a[k] \in V
    BY <1>1, <1>3 DEF Arranged
  <2>2. a = [k \in 1 .. n |-> a[k]]
    BY <1>1 DEF Arranged
  <2> HIDE DEF a, n
  <2>3. QED
    BY <1>1, <2>1, <2>2
<1>6. ASSUME NEW k \in DOMAIN s, NEW l \in DOMAIN s, k < l PROVE <<a[l], a[k]>> \notin less
  <2> DEFINE i == p[k]
             j == p[l]
  <2>1. i \in DOMAIN s /\ j \in DOMAIN s /\ rank[i] = k /\ rank[j] = l /\ a[k] = s[i] /\ a[l] = s[j]
    BY <1>3
  <2> HIDE DEF i, j, a, p
  <2>2. SUFFICES ASSUME <<s[j], s[i]>> \in less PROVE FALSE
    BY <2>1
  <2>3. Below(s, less, j) \subseteq Below(s, less, i)
    <3>1. j \in Below(s, less, i)
      BY <2>1, <2>2 DEF Below
    <3>2. QED
      BY <2>1, <3>1, BelowFacts
  <2>4. rank[i] = Cardinality(Below(s, less, i)) /\ rank[j] = Cardinality(Below(s, less, j))
    BY <2>1 DEF Ranks, Below
  <2>5. IsFiniteSet(Below(s, less, i))
    <3>1. IsFiniteSet(DOMAIN s) /\ Below(s, less, i) \subseteq DOMAIN s
      BY <1>1, Numbers DEF Below
    <3>2. QED
      BY <3>1, FS_Subset
  <2>6. l <= k
    BY <2>1, <2>3, <2>4, <2>5, FS_Subset
  <2>7. QED
    BY <1>1, <1>6, <2>6
<1>7. QED
  BY <1>3, <1>4, <1>5, <1>6

(* What is in a list of V is in V. *)
LEMMA ItemIn == ASSUME NEW V, NEW s \in Seq(V) PROVE \A i \in DOMAIN s : s[i] \in V
  OBVIOUS

(* The pairs of V with the smaller key first. *)
KeyLess(key, V) == {p \in V \X V : key[p[1]] < key[p[2]]}

(* a holds what s holds, by ascending key. *)
SortedBy(a, s, key, V) ==
    /\ a \in Seq(V) /\ Len(a) = Len(s) /\ ToSet(a) = ToSet(s)
    /\ \A k, l \in DOMAIN a : k < l => key[a[k]] < key[a[l]]

(* Elements with different keys are sorted by them. *)
LEMMA SortedByKey ==
    ASSUME NEW V, NEW s \in Seq(V), NEW key \in [V -> Nat],
           \A i, j \in DOMAIN s : i # j => key[s[i]] # key[s[j]]
    PROVE  SortedBy(Arranged(s, KeyLess(key, V)), s, key, V)
<1> DEFINE less == KeyLess(key, V)
           a == Arranged(s, less)
<1>1. \A x, y \in V : <<x, y>> \in less <=> key[x] < key[y]
  BY DEF KeyLess
<1>2. \A x \in V : key[x] \in Nat
  OBVIOUS
<1> HIDE DEF less
<1>3. Orders(less, V)
  <2> SUFFICES ASSUME NEW x \in V, NEW y \in V, NEW z \in V
               PROVE  /\ <<x, x>> \notin less
                      /\ <<x, y>> \in less /\ <<y, z>> \in less => <<x, z>> \in less
                      /\ <<x, y>> \in less => <<x, z>> \in less \/ <<z, y>> \in less
    BY DEF Orders
  <2>1. /\ <<x, x>> \in less <=> key[x] < key[x]
        /\ <<x, y>> \in less <=> key[x] < key[y]
        /\ <<y, z>> \in less <=> key[y] < key[z]
        /\ <<x, z>> \in less <=> key[x] < key[z]
        /\ <<z, y>> \in less <=> key[z] < key[y]
    BY <1>1
  <2>2. key[x] \in Nat /\ key[y] \in Nat /\ key[z] \in Nat
    BY <1>2
  <2>3. QED
    BY <2>1, <2>2
<1>4. /\ a \in Seq(V) /\ Len(a) = Len(s)
      /\ \E p \in Bijection(DOMAIN s, DOMAIN s) : \A k \in DOMAIN s : a[k] = s[p[k]]
      /\ \A k, l \in DOMAIN s : k < l => <<a[l], a[k]>> \notin less
  BY <1>3, ArrangedFacts
<1> HIDE DEF a
<1>5. PICK p \in Bijection(DOMAIN s, DOMAIN s) : \A k \in DOMAIN s : a[k] = s[p[k]]
  BY <1>4
<1>6. /\ \A k \in DOMAIN s : p[k] \in DOMAIN s
      /\ \A k, l \in DOMAIN s : k # l => p[k] # p[l]
      /\ \A i \in DOMAIN s : \E k \in DOMAIN s : p[k] = i
  BY <1>5 DEF Bijection, Injection, Surjection, IsInjective
<1>7. DOMAIN a = DOMAIN s /\ DOMAIN s \subseteq Nat
  BY <1>4
<1>8. ToSet(a) = ToSet(s)
  <2>1. ToSet(a) = {a[k] : k \in DOMAIN s} /\ ToSet(s) = {s[i] : i \in DOMAIN s}
    BY <1>7, Zenon DEF ToSet
  <2>2. ASSUME NEW k \in DOMAIN s PROVE a[k] \in ToSet(s)
    <3>1. a[k] = s[p[k]] /\ p[k] \in DOMAIN s
      BY <1>5, <1>6
    <3>2. QED
      BY <2>1, <3>1, Zenon
  <2>3. ASSUME NEW i \in DOMAIN s PROVE s[i] \in ToSet(a)
    <3>1. PICK k \in DOMAIN s : p[k] = i
      BY <1>6
    <3>2. a[k] = s[i]
      BY <1>5, <3>1
    <3>3. QED
      BY <2>1, <3>2
  <2>4. ASSUME NEW x PROVE x \in ToSet(a) <=> x \in ToSet(s)
    <3>1. x \in ToSet(a) => \E k \in DOMAIN s : x = a[k]
      BY <2>1
    <3>2. x \in ToSet(s) => \E i \in DOMAIN s : x = s[i]
      BY <2>1
    <3>3. QED
      BY <2>2, <2>3, <3>1, <3>2, Zenon
  <2>5. QED
    BY <2>4, Zenon
<1>9. ASSUME NEW k \in DOMAIN a, NEW l \in DOMAIN a, k < l PROVE key[a[k]] < key[a[l]]
  <2>1. a[k] \in V /\ a[l] \in V
    BY <1>4
  <2>2. ~ (key[a[l]] < key[a[k]])
    BY <1>1, <1>4, <1>7, <1>9, <2>1
  <2>3. k # l
    BY <1>7, <1>9
  <2>4. key[a[k]] # key[a[l]]
    <3>1. p[k] \in DOMAIN s /\ p[l] \in DOMAIN s /\ p[k] # p[l]
      BY <1>6, <1>7, <2>3
    <3>2. key[s[p[k]]] # key[s[p[l]]]
      BY <3>1
    <3>3. a[k] = s[p[k]] /\ a[l] = s[p[l]]
      BY <1>5, <1>7
    <3>4. QED
      BY <3>2, <3>3
  <2>5. key[a[k]] \in Nat /\ key[a[l]] \in Nat
    BY <1>2, <2>1
  <2>6. QED
    BY <2>2, <2>4, <2>5
<1>10. QED
  BY <1>4, <1>8, <1>9 DEF SortedBy, a, less

(* The positions in K, in order. *)
LEMMA IndexChosen ==
    ASSUME NEW n \in Nat, NEW K \in SUBSET (1 .. n)
    PROVE  LET c == Chosen([i \in 1 .. n |-> i], K)
           IN  /\ c \in Seq(1 .. n) /\ ToSet(c) = K
               /\ \A i, j \in DOMAIN c : i # j => c[i] # c[j]
<1> DEFINE s == [i \in 1 .. n |-> i]
           c == Chosen(s, K)
<1>1. s \in Seq(1 .. n) /\ DOMAIN s = 1 .. n /\ \A i \in 1 .. n : s[i] = i
  OBVIOUS
<1> HIDE DEF s
<1>2. IsInjective(s)
  BY <1>1 DEF IsInjective
<1>3. c \in Seq(1 .. n) /\ ToSet(c) = {s[k] : k \in K \cap DOMAIN s} /\ IsInjective(c)
  BY <1>1, <1>2, ChosenFacts
<1>4. {s[k] : k \in K \cap DOMAIN s} = K
  BY <1>1
<1> HIDE DEF c
<1>5. \A i, j \in DOMAIN c : i # j => c[i] # c[j]
  BY <1>3 DEF IsInjective
<1>6. QED
  BY <1>3, <1>4, <1>5 DEF c, s

(* The smaller numbers among those of s. *)
Smaller(s) == {p \in ToSet(s) \X ToSet(s) : p[1] < p[2]}

(* Smaller orders them. *)
LEMMA SmallerOrders ==
    ASSUME NEW s \in Seq(Int)
    PROVE  s \in Seq(ToSet(s)) /\ ToSet(s) \subseteq Int /\ Orders(Smaller(s), ToSet(s))
<1>1. s \in Seq(ToSet(s))
  BY DEF ToSet
<1>2. ToSet(s) \subseteq Int
  BY DEF ToSet
<1>3. ASSUME NEW a \in ToSet(s), NEW b \in ToSet(s) PROVE <<a, b>> \in Smaller(s) <=> a < b
  BY DEF Smaller
<1>4. QED
  BY <1>1, <1>2, <1>3 DEF Orders

(* Numbers in ascending order. *)
LEMMA AscendingFacts ==
    ASSUME NEW s \in Seq(Int)
    PROVE  /\ Ascending(s) \in Seq(Int) /\ Len(Ascending(s)) = Len(s)
           /\ \E p \in Bijection(DOMAIN s, DOMAIN s) : \A k \in DOMAIN s : Ascending(s)[k] = s[p[k]]
           /\ \A k, l \in DOMAIN s : k < l => Ascending(s)[k] <= Ascending(s)[l]
<1> DEFINE a == Arranged(s, Smaller(s))
<1>1. Ascending(s) = a
  BY DEF Ascending, Smaller
<1>2. /\ a \in Seq(ToSet(s)) /\ Len(a) = Len(s)
      /\ \E p \in Bijection(DOMAIN s, DOMAIN s) : \A k \in DOMAIN s : a[k] = s[p[k]]
      /\ \A k, l \in DOMAIN s : k < l => <<a[l], a[k]>> \notin Smaller(s)
  BY SmallerOrders, ArrangedFacts
<1> HIDE DEF a
<1>3. a \in Seq(Int)
  BY <1>2, SmallerOrders
<1>4. ASSUME NEW k \in DOMAIN s, NEW l \in DOMAIN s, k < l PROVE a[k] <= a[l]
  <2>1. a[k] \in ToSet(s) /\ a[l] \in ToSet(s) /\ a[k] \in Int /\ a[l] \in Int
    <3>1. k \in 1 .. Len(a) /\ l \in 1 .. Len(a)
      BY <1>2
    <3>2. QED
      BY <1>2, <1>3, <3>1
  <2>2. <<a[l], a[k]>> \notin Smaller(s)
    BY <1>2, <1>4
  <2>3. ~ (a[l] < a[k])
    BY <2>1, <2>2 DEF Smaller
  <2>4. QED
    BY <2>1, <2>3
<1>5. QED
  BY <1>1, <1>2, <1>3, <1>4

(* The positions of s with a number below v, and with one up to v. *)
Under(s, v) == {j \in DOMAIN s : s[j] < v}
UpToValue(s, v) == {j \in DOMAIN s : s[j] <= v}

(* The number at k has less than k numbers below it and k up to it. *)
LEMMA AscendingAt ==
    ASSUME NEW s \in Seq(Int), NEW k \in DOMAIN s
    PROVE  /\ Ascending(s)[k] \in Int
           /\ Cardinality(Under(s, Ascending(s)[k])) < k
           /\ k <= Cardinality(UpToValue(s, Ascending(s)[k]))
<1> DEFINE less == Smaller(s)
           a == Arranged(s, less)
<1>1. Ascending(s) = a
  BY DEF Ascending, Smaller
<1>2. PICK p \in Bijection(DOMAIN s, DOMAIN s) : \A l \in DOMAIN s :
          a[l] = s[p[l]] /\ Ranks(s, less)[p[l]] = l
  BY SmallerOrders, ArrangedFacts
<1> DEFINE i == p[k]
           v == s[i]
<1>3. i \in DOMAIN s /\ a[k] = v /\ Ranks(s, less)[i] = k
  BY <1>2 DEF Bijection, Injection
<1> HIDE DEF a, i
<1>4. /\ Cardinality(Below(s, less, i)) = k /\ v \in Int /\ k \in Nat
      /\ i \in Below(s, less, i)
  <2>1. Ranks(s, less)[i] = Cardinality(Below(s, less, i))
    BY <1>3 DEF Ranks, Below
  <2>2. i \in Below(s, less, i)
    BY <1>3, SmallerOrders, BelowFacts
  <2>3. QED
    BY <1>3, <2>1, <2>2
<1>5. Under(s, v) \subseteq Below(s, less, i) /\ Below(s, less, i) \subseteq UpToValue(s, v) /\ i \notin Under(s, v)
  <2>1. ASSUME NEW j \in DOMAIN s
        PROVE  /\ <<s[j], s[i]>> \in less <=> s[j] < v
               /\ <<s[i], s[j]>> \in less <=> v < s[j]
               /\ s[j] \in Int
    BY <1>3 DEF Smaller, ToSet
  <2> HIDE DEF less, v
  <2>2. QED
    BY <1>3, <1>4, <2>1 DEF Under, UpToValue, Below
<1>6. IsFiniteSet(DOMAIN s)
  <2>1. DOMAIN s = 1 .. Len(s) /\ Len(s) \in Nat
    OBVIOUS
  <2>2. QED
    BY <2>1, Numbers
<1>7. IsFiniteSet(UpToValue(s, v)) /\ IsFiniteSet(Below(s, less, i)) /\ IsFiniteSet(Under(s, v))
  BY <1>6, FS_Subset DEF UpToValue, Below, Under
<1>8. k <= Cardinality(UpToValue(s, v))
  BY <1>4, <1>5, <1>7, FS_Subset
<1>9. Cardinality(Under(s, v)) < k
  <2>1. /\ Cardinality(Under(s, v)) <= k
        /\ Cardinality(Under(s, v)) = k => Under(s, v) = Below(s, less, i)
    BY <1>4, <1>5, <1>7, FS_Subset
  <2>2. Cardinality(Under(s, v)) \in Nat
    BY <1>7, FS_CardinalityType
  <2> HIDE DEF less, v
  <2>3. QED
    BY <1>4, <1>5, <2>1, <2>2
<1>10. QED
  BY <1>1, <1>3, <1>4, <1>8, <1>9

(* Lists with the same numbers, each as often, sort to the same list. *)
LEMMA AscendingSame ==
    ASSUME NEW s \in Seq(Int), NEW t \in Seq(Int), NEW f \in Bijection(DOMAIN s, DOMAIN t),
           \A i \in DOMAIN s : s[i] = t[f[i]]
    PROVE  Ascending(s) = Ascending(t)
<1>1. /\ f \in [DOMAIN s -> DOMAIN t] /\ \A i, j \in DOMAIN s : f[i] = f[j] => i = j
      /\ \A k \in DOMAIN t : \E i \in DOMAIN s : f[i] = k
  BY DEF Bijection, Injection, Surjection, IsInjective
<1>2. /\ DOMAIN s = 1 .. Len(s) /\ Len(s) \in Nat /\ IsFiniteSet(DOMAIN s) /\ Cardinality(DOMAIN s) = Len(s)
      /\ DOMAIN t = 1 .. Len(t) /\ Len(t) \in Nat /\ IsFiniteSet(DOMAIN t) /\ Cardinality(DOMAIN t) = Len(t)
  BY Numbers
<1>3. Len(s) = Len(t)
  <2>1. ExistsBijection(DOMAIN s, DOMAIN t)
    BY DEF ExistsBijection
  <2>2. QED
    BY <1>2, <2>1, FS_Bijection
<1>4. ASSUME NEW A \in SUBSET DOMAIN s, NEW B \in SUBSET DOMAIN t, \A i \in DOMAIN s : i \in A <=> f[i] \in B
      PROVE  Cardinality(A) = Cardinality(B)
  <2> DEFINE g == [i \in A |-> f[i]]
  <2>1. g \in Bijection(A, B)
    <3>1. g \in [A -> B]
      BY <1>1, <1>4
    <3>2. \A i, j \in A : g[i] = g[j] => i = j
      BY <1>1
    <3>3. \A k \in B : \E i \in A : g[i] = k
      BY <1>1, <1>4
    <3> HIDE DEF g
    <3>4. QED
      BY <3>1, <3>2, <3>3 DEF Bijection, Injection, Surjection, IsInjective
  <2>2. IsFiniteSet(A) /\ ExistsBijection(A, B)
    BY <1>2, <2>1, FS_Subset DEF ExistsBijection
  <2>3. QED
    BY <2>2, FS_Bijection
<1>5. ASSUME NEW v \in Int
      PROVE  /\ Cardinality(Under(s, v)) = Cardinality(Under(t, v))
             /\ Cardinality(UpToValue(s, v)) = Cardinality(UpToValue(t, v))
  <2>1. /\ Under(s, v) \in SUBSET DOMAIN s /\ Under(t, v) \in SUBSET DOMAIN t
        /\ \A i \in DOMAIN s : i \in Under(s, v) <=> f[i] \in Under(t, v)
    BY <1>1 DEF Under
  <2>2. /\ UpToValue(s, v) \in SUBSET DOMAIN s /\ UpToValue(t, v) \in SUBSET DOMAIN t
        /\ \A i \in DOMAIN s : i \in UpToValue(s, v) <=> f[i] \in UpToValue(t, v)
    BY <1>1 DEF UpToValue
  <2>3. QED
    BY <1>4, <2>1, <2>2
<1>6. ASSUME NEW v \in Int, NEW w \in Int, v < w
      PROVE  Cardinality(UpToValue(t, v)) <= Cardinality(Under(t, w)) /\ Cardinality(Under(t, w)) \in Nat
             /\ Cardinality(UpToValue(t, v)) \in Nat
  <2>1. UpToValue(t, v) \subseteq Under(t, w) /\ Under(t, w) \subseteq DOMAIN t
    BY <1>6 DEF UpToValue, Under
  <2>2. IsFiniteSet(Under(t, w))
    BY <1>2, <2>1, FS_Subset
  <2>3. QED
    BY <2>1, <2>2, FS_Subset, FS_CardinalityType
<1>7. ASSUME NEW k \in DOMAIN s PROVE Ascending(s)[k] = Ascending(t)[k]
  <2> DEFINE v == Ascending(s)[k]
             w == Ascending(t)[k]
  <2>1. v \in Int /\ Cardinality(Under(s, v)) < k /\ k <= Cardinality(UpToValue(s, v))
    BY AscendingAt
  <2>2. k \in DOMAIN t
    BY <1>2, <1>3
  <2>3. w \in Int /\ Cardinality(Under(t, w)) < k /\ k <= Cardinality(UpToValue(t, w))
    BY <2>2, AscendingAt
  <2>4. Cardinality(Under(t, v)) < k /\ k <= Cardinality(UpToValue(t, v))
    BY <1>5, <2>1
  <2> HIDE DEF v, w
  <2>5. k \in Nat
    BY <1>2
  <2>6. ~ (v < w) /\ ~ (w < v)
    BY <1>6, <2>1, <2>3, <2>4, <2>5
  <2>7. v = w
    BY <2>1, <2>3, <2>6
  <2>8. QED
    BY <2>7 DEF v, w
<1>8. Ascending(s) = [k \in DOMAIN s |-> Ascending(s)[k]] /\ Ascending(t) = [k \in DOMAIN t |-> Ascending(t)[k]]
  BY DEF Ascending, Arranged
<1>9. DOMAIN s = DOMAIN t
  BY <1>2, <1>3
<1>10. [k \in DOMAIN s |-> Ascending(s)[k]] = [k \in DOMAIN t |-> Ascending(t)[k]]
  BY <1>7, <1>9
<1>11. QED
  BY <1>8, <1>10

(* The positions of a list read from the back. *)
LEMMA ReverseFacts ==
    ASSUME NEW M, NEW s \in Seq(M)
    PROVE  /\ Reverse(s) \in Seq(M) /\ Len(Reverse(s)) = Len(s)
           /\ \A i \in 1 .. Len(s) : Reverse(s)[i] = s[Len(s) - i + 1] /\ Len(s) - i + 1 \in 1 .. Len(s)
<1>1. Len(s) \in Nat /\ \A i \in 1 .. Len(s) : s[i] \in M
  OBVIOUS
<1>2. \A i \in 1 .. Len(s) : Reverse(s)[i] = s[Len(s) - i + 1] /\ Len(s) - i + 1 \in 1 .. Len(s)
  BY <1>1 DEF Reverse
<1>3. DOMAIN Reverse(s) = 1 .. Len(s) /\ Reverse(s) = [i \in 1 .. Len(s) |-> Reverse(s)[i]]
  BY DEF Reverse
<1>4. QED
  BY <1>1, <1>2, <1>3

(* Numbers sort to one list, read from either end. *)
LEMMA AscendingReverse ==
    ASSUME NEW s \in Seq(Int)
    PROVE  Ascending(Reverse(s)) = Ascending(s)
<1> DEFINE n == Len(s)
           r == Reverse(s)
           f == [i \in 1 .. n |-> n - i + 1]
<1>1. n \in Nat /\ DOMAIN s = 1 .. n
  OBVIOUS
<1>2. r \in Seq(Int) /\ DOMAIN r = 1 .. n /\ \A i \in 1 .. n : r[i] = s[f[i]] /\ f[i] \in 1 .. n
  <2>1. r \in Seq(Int) /\ Len(r) = n /\ \A i \in 1 .. n : r[i] = s[n - i + 1] /\ n - i + 1 \in 1 .. n
    BY ReverseFacts
  <2> HIDE DEF r
  <2>2. QED
    BY <1>1, <2>1
<1>3. f \in Bijection(1 .. n, 1 .. n)
  <2>1. f \in [1 .. n -> 1 .. n]
    BY <1>2
  <2>2. \A i, j \in 1 .. n : f[i] = f[j] => i = j
    BY <1>1
  <2>3. \A i \in 1 .. n : f[f[i]] = i /\ f[i] \in 1 .. n
    BY <1>1, <1>2
  <2> HIDE DEF f, n
  <2>4. QED
    BY <2>1, <2>2, <2>3 DEF Bijection, Injection, Surjection, IsInjective
<1> HIDE DEF f, r
<1>4. Ascending(r) = Ascending(s)
  <2> HIDE DEF n
  <2> QED BY <1>1, <1>2, <1>3, AscendingSame
<1>5. QED
  BY <1>4 DEF r

(***************************************************************************)
(* Sums.                                                                   *)
(***************************************************************************)

(* The element that a sum over T takes first. *)
Pick(T) == CHOOSE x \in T : TRUE

(* h sums g over the subsets of S, as MapThenSumSet does: one element      *)
(* after the other, in the order CHOOSE picks them.                        *)
IsSum(h, g, S) ==
    /\ h \in [SUBSET S -> Int]
    /\ \A T \in SUBSET S : h[T] = IF T = {} THEN 0 ELSE g[Pick(T)] + h[T \ {Pick(T)}]

(* Taking the picked element away makes a finite set smaller by one. *)
LEMMA PickFacts ==
    ASSUME NEW S, IsFiniteSet(S), NEW T \in SUBSET S, T # {}
    PROVE  /\ Pick(T) \in T /\ T \ {Pick(T)} \in SUBSET S
           /\ Cardinality(T) \in Nat \ {0}
           /\ Cardinality(T \ {Pick(T)}) = Cardinality(T) - 1
<1>1. Pick(T) \in T
  BY DEF Pick
<1>2. IsFiniteSet(T)
  BY FS_Subset
<1>3. Cardinality(T) \in Nat /\ Cardinality(T) # 0
  BY <1>2, FS_CardinalityType, FS_EmptySet
<1>4. QED
  BY <1>1, <1>2, <1>3, FS_RemoveElement

(* There is such a sum. *)
LEMMA SumExists ==
    ASSUME NEW D, NEW g \in [D -> Int], NEW S \in SUBSET D, IsFiniteSet(S)
    PROVE  \E h : IsSum(h, g, S)
<1> DEFINE c == Cardinality(S)
           Small(n) == {T \in SUBSET S : Cardinality(T) <= n}
           Grown(h, T) == IF T = {} THEN 0 ELSE g[Pick(T)] + h[T \ {Pick(T)}]
           Sums(h, n) == h \in [Small(n) -> Int] /\ \A T \in Small(n) : h[T] = Grown(h, T)
           N == {n \in 0 .. c : \E h : Sums(h, n)}
<1>1. c \in Nat
  BY FS_CardinalityType
<1>2. \A T \in SUBSET S : Cardinality(T) \in Nat /\ Cardinality(T) <= c
  BY FS_Subset, FS_CardinalityType
<1>3. 0 \in N
  <2> DEFINE h == [T \in Small(0) |-> 0]
  <2>1. \A T \in Small(0) : T = {}
    <3>1. \A T \in SUBSET S : T # {} => Cardinality(T) # 0 /\ Cardinality(T) \in Nat
      BY PickFacts
    <3>2. QED
      BY <3>1
  <2>2. Sums(h, 0)
    BY <2>1
  <2> HIDE DEF h, Sums
  <2>3. QED
    BY <1>1, <2>2
<1>4. ASSUME NEW n \in 0 .. c - 1, n \in N PROVE n + 1 \in N
  <2>1. PICK h : Sums(h, n)
    BY <1>4
  <2> DEFINE k == [T \in Small(n + 1) |-> IF T \in Small(n) THEN h[T] ELSE Grown(h, T)]
  <2>2. n \in Nat /\ n + 1 \in 0 .. c
    BY <1>1
  <2>3. ASSUME NEW T \in Small(n + 1), T # {}
        PROVE  /\ T \ {Pick(T)} \in Small(n) /\ T \ {Pick(T)} \in Small(n + 1)
               /\ g[Pick(T)] \in Int
    <3>1. /\ Pick(T) \in T /\ T \ {Pick(T)} \in SUBSET S /\ Cardinality(T) \in Nat
          /\ Cardinality(T \ {Pick(T)}) = Cardinality(T) - 1 /\ Cardinality(T) <= n + 1
      BY <2>3, PickFacts
    <3>2. QED
      BY <2>2, <3>1
  <2>4. ASSUME NEW T \in Small(n + 1) PROVE k[T] \in Int /\ k[T] = Grown(k, T)
    <3>1. CASE T = {}
      <4>1. T \in Small(n)
        BY <2>2, <3>1, FS_EmptySet
      <4>2. QED
        BY <2>1, <3>1, <4>1
    <3>2. CASE T # {}
      <4> DEFINE R == T \ {Pick(T)}
      <4>1. R \in Small(n) /\ R \in Small(n + 1) /\ g[Pick(T)] \in Int
        BY <2>3, <3>2
      <4> HIDE DEF R, Small
      <4>2. k[R] = h[R] /\ h[R] \in Int
        BY <2>1, <4>1
      <4>3. Grown(k, T) = g[Pick(T)] + k[R] /\ Grown(h, T) = g[Pick(T)] + h[R]
        BY <3>2 DEF R
      <4>4. k[T] = Grown(h, T)
        BY <2>1
      <4>5. QED
        BY <4>1, <4>2, <4>3, <4>4
    <3>3. QED
      BY <3>1, <3>2
  <2>5. Sums(k, n + 1)
    <3>1. k = [T \in Small(n + 1) |-> k[T]]
      OBVIOUS
    <3> HIDE DEF k, Grown, Small
    <3>2. QED
      BY <2>4, <3>1
  <2> HIDE DEF k, Sums
  <2>6. QED
    BY <2>2, <2>5
<1>5. c \in N
  <2> HIDE DEF N, c
  <2>1. \A n \in 0 .. c : n \in N
    BY <1>1, <1>3, <1>4, UpTo
  <2>2. QED
    BY <1>1, <2>1
<1>6. PICK h : Sums(h, c)
  BY <1>5
<1>7. Small(c) = SUBSET S
  BY <1>2
<1>8. IsSum(h, g, S)
  <2> HIDE DEF Small, c
  <2> QED BY <1>6, <1>7 DEF IsSum
<1>9. QED
  BY <1>8

(* What MapThenSumSet computes is such a sum. *)
LEMMA TotalIsSum ==
    ASSUME NEW D, NEW g \in [D -> Int], NEW S \in SUBSET D, IsFiniteSet(S)
    PROVE  \E h : IsSum(h, g, S) /\ Total(g, S) = h[S]
<1> DEFINE Is(h) == h = [T \in SUBSET S |-> IF T = {} THEN 0 ELSE g[Pick(T)] + h[T \ {Pick(T)}]]
           iter == CHOOSE h : Is(h)
<1>1. \E h : Is(h)
  <2>1. PICK h : IsSum(h, g, S)
    BY SumExists
  <2>2. h = [T \in SUBSET S |-> h[T]]
    BY <2>1 DEF IsSum
  <2>3. Is(h)
    BY <2>1, <2>2 DEF IsSum
  <2>4. QED
    BY <2>3
<1>2. Is(iter)
  <2> HIDE DEF Is
  <2> QED BY <1>1
<1>3. Total(g, S) = iter[S]
  BY DEF Total, MapThenSumSet, MapThenFoldSet, Pick
<1> HIDE DEF iter
<1>4. DOMAIN iter = SUBSET S
      /\ \A T \in SUBSET S : iter[T] = IF T = {} THEN 0 ELSE g[Pick(T)] + iter[T \ {Pick(T)}]
  BY <1>2
<1>5. iter \in [SUBSET S -> Int]
  <2> DEFINE c == Cardinality(S)
             N == {n \in 0 .. c : \A T \in SUBSET S : Cardinality(T) = n => iter[T] \in Int}
  <2>1. c \in Nat /\ \A T \in SUBSET S : Cardinality(T) \in 0 .. c
    BY FS_Subset, FS_CardinalityType
  <2>2. 0 \in N
    <3>1. ASSUME NEW T \in SUBSET S, Cardinality(T) = 0 PROVE iter[T] \in Int
      <4>1. T = {}
        BY <3>1, PickFacts
      <4>2. iter[{}] = 0
        BY <1>4
      <4>3. QED
        BY <4>1, <4>2
    <3>2. QED
      BY <2>1, <3>1
  <2>3. ASSUME NEW n \in 0 .. c - 1, n \in N PROVE n + 1 \in N
    <3>1. ASSUME NEW T \in SUBSET S, Cardinality(T) = n + 1 PROVE iter[T] \in Int
      <4>1. T # {}
        BY <2>1, <3>1, FS_EmptySet
      <4>2. /\ Pick(T) \in T /\ T \ {Pick(T)} \in SUBSET S
            /\ Cardinality(T \ {Pick(T)}) = n
        BY <2>1, <3>1, <4>1, PickFacts
      <4>3. g[Pick(T)] \in Int /\ iter[T \ {Pick(T)}] \in Int
        BY <2>3, <4>2
      <4>4. iter[T] = g[Pick(T)] + iter[T \ {Pick(T)}]
        BY <1>4, <4>1
      <4> DEFINE a == g[Pick(T)]
                 b == iter[T \ {Pick(T)}]
                 r == iter[T]
      <4>5. r = a + b /\ a \in Int /\ b \in Int
        BY <4>3, <4>4
      <4> HIDE DEF a, b, r
      <4>6. r \in Int
        BY <4>5
      <4>7. QED
        BY <4>6 DEF r
    <3>2. QED
      BY <2>1, <3>1
  <2>4. \A n \in 0 .. c : n \in N
    <3> HIDE DEF N, c
    <3> QED BY <2>1, <2>2, <2>3, UpTo
  <2>5. \A T \in SUBSET S : iter[T] \in Int
    BY <2>1, <2>4
  <2>6. iter = [T \in SUBSET S |-> iter[T]]
    <3> DEFINE b == [T \in SUBSET S |-> IF T = {} THEN 0 ELSE g[Pick(T)] + iter[T \ {Pick(T)}]]
    <3>1. iter = b /\ b = [T \in SUBSET S |-> b[T]]
      BY <1>2
    <3> HIDE DEF b
    <3>2. QED
      BY <3>1
  <2>7. QED
    BY <2>5, <2>6
<1>6. IsSum(iter, g, S)
  BY <1>4, <1>5 DEF IsSum
<1>7. QED
  BY <1>3, <1>6

(* Any element may be added last. *)
LEMMA SumRemove ==
    ASSUME NEW D, NEW g \in [D -> Int], NEW S \in SUBSET D, IsFiniteSet(S), NEW h, IsSum(h, g, S)
    PROVE  \A T \in SUBSET S : \A x \in T : h[T] = g[x] + h[T \ {x}]
<1> DEFINE c == Cardinality(S)
           N == {n \in 0 .. c : \A T \in SUBSET S : Cardinality(T) = n =>
                                   \A x \in T : h[T] = g[x] + h[T \ {x}]}
<1>1. c \in Nat /\ \A T \in SUBSET S : Cardinality(T) \in 0 .. c
  BY FS_Subset, FS_CardinalityType
<1>2. 0 \in N
  <2>1. \A T \in SUBSET S : Cardinality(T) = 0 => T = {}
    BY PickFacts
  <2>2. QED
    BY <1>1, <2>1
<1>3. ASSUME NEW n \in 0 .. c - 1, n \in N PROVE n + 1 \in N
  <2>1. ASSUME NEW T \in SUBSET S, Cardinality(T) = n + 1, NEW x \in T
        PROVE  h[T] = g[x] + h[T \ {x}]
    <3> DEFINE p == Pick(T)
    <3>1. /\ T # {} /\ p \in T /\ T \ {p} \in SUBSET S /\ Cardinality(T \ {p}) = n
          /\ h[T] = g[p] + h[T \ {p}]
      BY <1>1, <2>1, PickFacts DEF IsSum
    <3>2. CASE x = p
      BY <3>1, <3>2
    <3>3. CASE x # p
      <4> DEFINE R == (T \ {p}) \ {x}
      <4>1. R = (T \ {x}) \ {p} /\ x \in T \ {p} /\ p \in T \ {x}
        BY <3>1, <3>3
      <4>2. T \ {x} \in SUBSET S /\ Cardinality(T \ {x}) = n /\ R \in SUBSET S
        <5>1. IsFiniteSet(T)
          BY FS_Subset
        <5>2. Cardinality(T \ {x}) = Cardinality(T) - 1
          BY <5>1, FS_RemoveElement
        <5>3. QED
          BY <1>1, <2>1, <5>2
      <4>3. h[T \ {p}] = g[x] + h[R]
        BY <1>3, <3>1, <4>1
      <4>4. h[T \ {x}] = g[p] + h[R]
        BY <1>3, <4>1, <4>2
      <4>5. g[p] \in Int /\ g[x] \in Int /\ h[R] \in Int
        BY <3>1, <4>2 DEF IsSum
      <4> DEFINE a == g[p]
                 b == g[x]
                 r == h[R]
      <4>6. h[T] = a + (b + r) /\ h[T \ {x}] = a + r /\ a \in Int /\ b \in Int /\ r \in Int
        BY <3>1, <4>3, <4>4, <4>5
      <4> HIDE DEF a, b, r
      <4>7. h[T] = b + h[T \ {x}]
        BY <4>6
      <4>8. QED
        BY <4>7 DEF b
    <3>4. QED
      BY <3>2, <3>3
  <2>2. QED
    BY <1>1, <2>1
<1>4. \A n \in 0 .. c : n \in N
  <2> HIDE DEF N, c
  <2> QED BY <1>1, <1>2, <1>3, UpTo
<1>5. QED
  BY <1>1, <1>4

(* Two sums agree where both are defined. *)
LEMMA SumsAgree ==
    ASSUME NEW g, NEW S, IsFiniteSet(S), NEW R \in SUBSET S,
           NEW h, IsSum(h, g, S), NEW k, IsSum(k, g, R)
    PROVE  \A T \in SUBSET R : h[T] = k[T]
<1> DEFINE c == Cardinality(S)
           N == {n \in 0 .. c : \A T \in SUBSET R : Cardinality(T) = n => h[T] = k[T]}
<1>1. c \in Nat /\ \A T \in SUBSET R : T \in SUBSET S /\ Cardinality(T) \in 0 .. c
  BY FS_Subset, FS_CardinalityType
<1>2. 0 \in N
  <2>1. \A T \in SUBSET R : Cardinality(T) = 0 => T = {}
    BY PickFacts
  <2>2. h[{}] = k[{}]
    BY DEF IsSum
  <2>3. QED
    BY <1>1, <2>1, <2>2
<1>3. ASSUME NEW n \in 0 .. c - 1, n \in N PROVE n + 1 \in N
  <2>1. ASSUME NEW T \in SUBSET R, Cardinality(T) = n + 1 PROVE h[T] = k[T]
    <3>1. T # {}
      BY <1>1, <2>1, FS_EmptySet
    <3>2. Pick(T) \in T /\ Cardinality(T \ {Pick(T)}) = n
      BY <1>1, <2>1, <3>1, PickFacts
    <3>3. h[T \ {Pick(T)}] = k[T \ {Pick(T)}]
      BY <1>3, <3>2
    <3>4. QED
      BY <1>1, <3>1, <3>3 DEF IsSum
  <2>2. QED
    BY <1>1, <2>1
<1>4. \A n \in 0 .. c : n \in N
  <2> HIDE DEF N, c
  <2> QED BY <1>1, <1>2, <1>3, UpTo
<1>5. QED
  BY <1>1, <1>4

(* The sum over a set and one element more. *)
LEMMA TotalInts ==
    ASSUME NEW D, NEW g \in [D -> Int], NEW S \in SUBSET D, IsFiniteSet(S)
    PROVE  /\ Total(g, S) \in Int
           /\ Total(g, {}) = 0
           /\ \A x \in D \ S : Total(g, S \cup {x}) = Total(g, S) + g[x]
<1>1. PICK h : IsSum(h, g, S) /\ Total(g, S) = h[S]
  BY TotalIsSum
<1>2. Total(g, S) \in Int
  BY <1>1 DEF IsSum
<1>3. Total(g, {}) = 0
  <2>1. IsFiniteSet({})
    BY FS_EmptySet
  <2>2. PICK k : IsSum(k, g, {}) /\ Total(g, {}) = k[{}]
    BY <2>1, TotalIsSum
  <2>3. QED
    BY <2>2 DEF IsSum
<1>4. ASSUME NEW x \in D \ S PROVE Total(g, S \cup {x}) = Total(g, S) + g[x]
  <2> DEFINE P == S \cup {x}
  <2>1. IsFiniteSet(P) /\ P \in SUBSET D /\ P \ {x} = S /\ x \in P /\ S \in SUBSET P
    BY FS_AddElement
  <2> HIDE DEF P
  <2>2. PICK k : IsSum(k, g, P) /\ Total(g, P) = k[P]
    BY <2>1, TotalIsSum
  <2>3. k[P] = g[x] + k[S]
    BY <2>1, <2>2, SumRemove
  <2>4. k[S] = h[S]
    <3>1. IsFiniteSet(P) /\ S \in SUBSET P /\ IsSum(k, g, P) /\ IsSum(h, g, S)
      BY <1>1, <2>1, <2>2
    <3>2. \A T \in SUBSET S : k[T] = h[T]
      BY <3>1, SumsAgree
    <3>3. QED
      BY <3>2
  <2>5. g[x] \in Int /\ h[S] \in Int
    BY <1>1 DEF IsSum
  <2>6. QED
    BY <1>1, <2>2, <2>3, <2>4, <2>5 DEF P
<1>5. QED
  BY <1>2, <1>3, <1>4

(* Whatever holds of the empty set and stays true when one element of S    *)
(* joins holds of S; F is the set of the sets it holds of.                 *)
LEMMA GrowsTo ==
    ASSUME NEW S, IsFiniteSet(S), NEW F, {} \in F,
           \A T \in SUBSET S : T \in F => \A x \in S \ T : T \cup {x} \in F
    PROVE  S \in F
<1> DEFINE c == Cardinality(S)
           N == {n \in 0 .. c : \A T \in SUBSET S : Cardinality(T) = n => T \in F}
<1>1. c \in Nat
  BY FS_CardinalityType
<1>2. 0 \in N
  <2>1. \A T \in SUBSET S : Cardinality(T) = 0 => T = {}
    BY PickFacts
  <2>2. ASSUME NEW T \in SUBSET S, Cardinality(T) = 0 PROVE T \in F
    <3>1. T = {}
      BY <2>1, <2>2
    <3>2. QED
      BY <3>1
  <2>3. QED
    BY <1>1, <2>2
<1>3. ASSUME NEW n \in 0 .. c - 1, n \in N PROVE n + 1 \in N
  <2>1. ASSUME NEW T \in SUBSET S, Cardinality(T) = n + 1 PROVE T \in F
    <3>1. T # {}
      BY <1>1, <2>1, FS_EmptySet
    <3>2. Pick(T) \in T /\ Cardinality(T \ {Pick(T)}) = n
      BY <1>1, <2>1, <3>1, PickFacts
    <3>3. T \ {Pick(T)} \in F
      BY <1>3, <3>2
    <3>4. T = (T \ {Pick(T)}) \cup {Pick(T)} /\ Pick(T) \in S \ (T \ {Pick(T)})
      BY <3>2
    <3>5. QED
      BY <3>3, <3>4
  <2>2. QED
    BY <1>1, <2>1
<1>4. \A n \in 0 .. c : n \in N
  <2> HIDE DEF N, c
  <2> QED BY <1>1, <1>2, <1>3, UpTo
<1>5. QED
  BY <1>1, <1>4

(* The same for naturals. *)
LEMMA TotalFacts ==
    ASSUME NEW D, NEW g \in [D -> Nat], NEW S \in SUBSET D, IsFiniteSet(S)
    PROVE  /\ Total(g, S) \in Nat
           /\ Total(g, {}) = 0
           /\ \A x \in D \ S : Total(g, S \cup {x}) = Total(g, S) + g[x]
<1> DEFINE F == {T \in SUBSET S : Total(g, T) \in Nat}
<1>1. g \in [D -> Int]
  OBVIOUS
<1>2. {} \in F
  <2>1. Total(g, {}) = 0
    BY <1>1, TotalInts
  <2>2. QED
    BY <2>1
<1>3. ASSUME NEW T \in SUBSET S, T \in F, NEW x \in S \ T PROVE T \cup {x} \in F
  <2>1. IsFiniteSet(T) /\ T \in SUBSET D /\ x \in D \ T
    BY FS_Subset
  <2>2. Total(g, T \cup {x}) = Total(g, T) + g[x] /\ g[x] \in Nat
    BY <1>1, <2>1, TotalInts
  <2>3. QED
    BY <1>3, <2>2
<1>4. S \in F
  <2> HIDE DEF F
  <2> QED BY <1>2, <1>3, GrowsTo
<1>5. QED
  BY <1>1, <1>4, TotalInts

(* A sum does not depend on how the elements are named. *)
LEMMA TotalMoved ==
    ASSUME NEW S, IsFiniteSet(S), NEW T, NEW f \in Bijection(S, T),
           NEW g \in [S -> Int], NEW h \in [T -> Int], \A x \in S : g[x] = h[f[x]]
    PROVE  Total(g, S) = Total(h, T)
<1> DEFINE Image(A) == {f[x] : x \in A}
           F == {A \in SUBSET S : Total(g, A) = Total(h, Image(A))}
<1>1. /\ f \in [S -> T] /\ \A x, y \in S : f[x] = f[y] => x = y
      /\ \A t \in T : \E x \in S : f[x] = t
  BY DEF Bijection, Injection, Surjection, IsInjective
<1>2. IsFiniteSet(T)
  <2>1. ExistsBijection(S, T)
    BY DEF ExistsBijection
  <2>2. QED
    BY <2>1, FS_Bijection
<1>3. {} \in F
  <2>1. Image({}) = {} /\ IsFiniteSet({}) /\ {} \in SUBSET S /\ {} \in SUBSET T
    BY FS_EmptySet
  <2>2. Total(g, {}) = 0 /\ Total(h, {}) = 0
    BY <2>1, TotalInts
  <2>3. QED
    BY <2>1, <2>2
<1>4. ASSUME NEW A \in SUBSET S, A \in F, NEW x \in S \ A PROVE A \cup {x} \in F
  <2>1. /\ IsFiniteSet(A) /\ IsFiniteSet(Image(A)) /\ Image(A) \in SUBSET T
        /\ f[x] \in T \ Image(A) /\ Image(A \cup {x}) = Image(A) \cup {f[x]}
    <3>1. Image(A) \in SUBSET T /\ f[x] \in T \ Image(A)
      BY <1>1
    <3>2. Image(A \cup {x}) = Image(A) \cup {f[x]}
      OBVIOUS
    <3>3. QED
      BY <1>2, <3>1, <3>2, FS_Subset
  <2> HIDE DEF Image
  <2>2. Total(g, A \cup {x}) = Total(g, A) + g[x]
    BY <2>1, TotalInts
  <2>3. Total(h, Image(A) \cup {f[x]}) = Total(h, Image(A)) + h[f[x]]
    BY <2>1, TotalInts
  <2>4. Total(g, A) = Total(h, Image(A)) /\ g[x] = h[f[x]]
    BY <1>4
  <2>5. QED
    BY <2>1, <2>2, <2>3, <2>4
<1>5. S \in F
  <2> HIDE DEF F
  <2> QED BY <1>3, <1>4, GrowsTo
<1>6. Image(S) = T
  BY <1>1
<1>7. QED
  BY <1>5, <1>6

(* A sum of zeros. *)
LEMMA TotalZeros ==
    ASSUME NEW D, IsFiniteSet(D), NEW g \in [D -> Int], \A x \in D : g[x] = 0
    PROVE  Total(g, D) = 0
<1> DEFINE F == {T \in SUBSET D : Total(g, T) = 0}
<1>1. {} \in F
  <2>1. Total(g, {}) = 0
    BY TotalInts
  <2>2. QED
    BY <2>1
<1>2. ASSUME NEW T \in SUBSET D, T \in F, NEW x \in D \ T PROVE T \cup {x} \in F
  <2>1. IsFiniteSet(T)
    BY FS_Subset
  <2>2. Total(g, T \cup {x}) = Total(g, T) + g[x]
    BY <2>1, TotalInts
  <2>3. Total(g, T) = 0 /\ g[x] = 0
    BY <1>2
  <2>4. QED
    BY <2>2, <2>3
<1>3. D \in F
  <2> HIDE DEF F
  <2> QED BY <1>1, <1>2, GrowsTo
<1>4. QED
  BY <1>3

(* Functions that agree on a set have the same sum over it. *)
LEMMA TotalSame ==
    ASSUME NEW C, NEW f \in [C -> Nat], NEW D, NEW g \in [D -> Nat],
           NEW S \in SUBSET (C \cap D), IsFiniteSet(S), \A x \in S : f[x] = g[x]
    PROVE  Total(f, S) = Total(g, S)
<1> DEFINE F == {T \in SUBSET S : Total(f, T) = Total(g, T)}
<1>1. {} \in F
  BY TotalFacts
<1>2. ASSUME NEW T \in SUBSET S, T \in F, NEW x \in S \ T PROVE T \cup {x} \in F
  <2>1. IsFiniteSet(T) /\ T \in SUBSET C /\ T \in SUBSET D /\ x \in C \ T /\ x \in D \ T
    BY FS_Subset
  <2>2. Total(f, T \cup {x}) = Total(f, T) + f[x]
    BY <2>1, TotalFacts
  <2>3. Total(g, T \cup {x}) = Total(g, T) + g[x]
    BY <2>1, TotalFacts
  <2>4. QED
    BY <1>2, <2>2, <2>3
<1>3. S \in F
  <2> HIDE DEF F
  <2> QED BY <1>1, <1>2, GrowsTo
<1>4. QED
  BY <1>3

(* The sum over two sets without a common element. *)
LEMMA TotalUnion ==
    ASSUME NEW D, NEW g \in [D -> Nat], NEW A \in SUBSET D, IsFiniteSet(A),
           NEW B \in SUBSET D, IsFiniteSet(B), A \cap B = {}
    PROVE  Total(g, A \cup B) = Total(g, A) + Total(g, B)
<1> DEFINE F == {T \in SUBSET B : Total(g, A \cup T) = Total(g, A) + Total(g, T)}
<1>1. {} \in F
  <2>1. A \cup {} = A /\ Total(g, {}) = 0 /\ Total(g, A) \in Nat
    BY TotalFacts
  <2>2. QED
    BY <2>1
<1>2. ASSUME NEW T \in SUBSET B, T \in F, NEW x \in B \ T PROVE T \cup {x} \in F
  <2> DEFINE U == A \cup T
  <2>1. IsFiniteSet(T) /\ IsFiniteSet(U)
    BY FS_Subset, FS_Union
  <2>2. T \in SUBSET D /\ U \in SUBSET D /\ x \in D \ T /\ x \in D \ U
    OBVIOUS
  <2>3. A \cup (T \cup {x}) = U \cup {x} /\ g[x] \in Nat
    BY <2>2
  <2> HIDE DEF U
  <2>4. Total(g, T \cup {x}) = Total(g, T) + g[x] /\ Total(g, T) \in Nat
    BY <2>1, <2>2, TotalFacts
  <2>5. Total(g, U \cup {x}) = Total(g, U) + g[x]
    BY <2>1, <2>2, TotalFacts
  <2>6. Total(g, A) \in Nat
    BY TotalFacts
  <2>7. Total(g, U) = Total(g, A) + Total(g, T)
    BY <1>2 DEF U
  <2>8. Total(g, U \cup {x}) = Total(g, A) + Total(g, T \cup {x})
    BY <2>3, <2>4, <2>5, <2>6, <2>7
  <2>9. QED
    BY <2>3, <2>8
<1>3. B \in F
  <2> HIDE DEF F
  <2> QED BY <1>1, <1>2, GrowsTo
<1>4. QED
  BY <1>3

(* The sum over a part is not above the sum. *)
LEMMA TotalPart ==
    ASSUME NEW D, NEW g \in [D -> Nat], NEW S \in SUBSET D, IsFiniteSet(S), NEW T \in SUBSET S
    PROVE  Total(g, S) = Total(g, T) + Total(g, S \ T) /\ Total(g, T) <= Total(g, S)
<1>1. IsFiniteSet(T) /\ IsFiniteSet(S \ T)
  BY FS_Subset
<1>2. T \cup (S \ T) = S /\ T \cap (S \ T) = {} /\ T \in SUBSET D /\ S \ T \in SUBSET D
  OBVIOUS
<1>3. Total(g, S) = Total(g, T) + Total(g, S \ T)
  BY <1>1, <1>2, TotalUnion
<1>4. Total(g, T) \in Nat /\ Total(g, S \ T) \in Nat
  BY <1>1, <1>2, TotalFacts
<1>5. QED
  BY <1>3, <1>4

(* The sum when one element's value is raised. *)
LEMMA TotalRaised ==
    ASSUME NEW D, NEW g \in [D -> Nat], IsFiniteSet(D), NEW x \in D, NEW d \in Nat
    PROVE  Total([g EXCEPT ![x] = @ + d], D) = Total(g, D) + d
<1> DEFINE f == [g EXCEPT ![x] = @ + d]
           R == D \ {x}
<1>1. f \in [D -> Nat] /\ f[x] = g[x] + d /\ \A y \in R : f[y] = g[y]
  OBVIOUS
<1>2. IsFiniteSet(R) /\ R \in SUBSET D /\ R \in SUBSET (D \cap D) /\ x \in D \ R /\ R \cup {x} = D
  BY FS_Subset
<1> HIDE DEF f, R
<1>3. Total(f, R) = Total(g, R)
  BY <1>1, <1>2, TotalSame
<1>4. Total(f, R \cup {x}) = Total(f, R) + f[x]
  BY <1>1, <1>2, TotalFacts
<1>5. Total(g, R \cup {x}) = Total(g, R) + g[x] /\ Total(g, R) \in Nat
  BY <1>2, TotalFacts
<1>6. QED
  BY <1>1, <1>2, <1>3, <1>4, <1>5 DEF f
(***************************************************************************)
(* The split of a budget (Rewards).                                        *)
(***************************************************************************)

(* Products and quotients. *)
LEMMA Products ==
    ASSUME NEW a \in Int, NEW b \in Int, NEW c \in Int
    PROVE  (a + b) * c = a * c + b * c /\ (a - b) * c = a * c - b * c /\ a * c = c * a
  BY SMT

(* A common factor can be dropped. *)
LEMMA ProductsOrder ==
    ASSUME NEW a \in Int, NEW b \in Int, NEW c \in Nat \ {0}, a * c <= b * c
    PROVE  a <= b
<1> SUFFICES ASSUME a > b PROVE FALSE
  OBVIOUS
<1>1. a - b >= 1 /\ a - b \in Int
  OBVIOUS
<1>2. (a - b) * c >= c
  BY <1>1
<1>3. (a - b) * c = a * c - b * c /\ a * c \in Int /\ b * c \in Int
  BY Products
<1>4. QED
  BY <1>2, <1>3

(* A quotient is rounded down. *)
LEMMA Quotient ==
    ASSUME NEW a \in Nat, NEW b \in Nat \ {0}
    PROVE  /\ a \div b \in Nat /\ (a \div b) * b <= a /\ a <= (a \div b) * b + b
           /\ a = 0 => a \div b = 0
  BY SMT

(* The parts of b in proportion to w, rounded down. *)
IsPart(part, w, t, b, n) ==
    /\ n \in Nat /\ w \in [1 .. n -> Nat] /\ t \in Nat \ {0} /\ b \in Nat
    /\ part = [i \in 1 .. n |-> (w[i] * b) \div t]

(* A part is its proportion up to less than one. *)
LEMMA PartOne ==
    ASSUME NEW part, NEW w, NEW t, NEW b, NEW n, IsPart(part, w, t, b, n), NEW i \in 1 .. n
    PROVE  /\ part[i] \in Nat /\ w[i] \in Nat /\ w[i] * b \in Nat /\ part[i] * t \in Nat
           /\ part[i] * t <= w[i] * b /\ w[i] * b <= part[i] * t + t
           /\ w[i] = 0 => part[i] = 0
<1> DEFINE x == w[i]
           y == x * b
<1>1. x \in Nat /\ t \in Nat \ {0} /\ b \in Nat /\ part[i] = y \div t
  BY DEF IsPart
<1> HIDE DEF x
<1>2. y \in Nat /\ (x = 0 => y = 0)
  BY <1>1
<1> HIDE DEF y
<1> DEFINE q == y \div t
<1>3. q \in Nat /\ q * t <= y /\ y <= q * t + t /\ (y = 0 => q = 0)
  BY <1>1, <1>2, Quotient
<1>4. part[i] = q
  BY <1>1
<1> HIDE DEF q
<1>5. q * t \in Nat
  BY <1>1, <1>3
<1>6. QED
  BY <1>1, <1>2, <1>3, <1>4, <1>5 DEF x, y

(* What the parts of a set of claims sum up to: at most their proportion,  *)
(* and at most one token per claim less.                                   *)
LEMMA PartTotals ==
    ASSUME NEW part, NEW w, NEW t, NEW b, NEW n, IsPart(part, w, t, b, n), NEW S \in SUBSET (1 .. n)
    PROVE  /\ part \in [1 .. n -> Nat] /\ IsFiniteSet(S)
           /\ Total(part, S) * t <= Total(w, S) * b
           /\ Total(w, S) * b <= Total(part, S) * t + Cardinality(S) * t
<1> DEFINE D == 1 .. n
           F == {T \in SUBSET S : /\ Total(part, T) * t <= Total(w, T) * b
                                  /\ Total(w, T) * b <= Total(part, T) * t + Cardinality(T) * t}
<1>1. n \in Nat /\ t \in Nat \ {0} /\ b \in Nat /\ w \in [D -> Nat]
  BY DEF IsPart
<1>2. part \in [D -> Nat]
  <2>1. DOMAIN part = D /\ part = [i \in D |-> part[i]]
    BY DEF IsPart
  <2>2. \A i \in D : part[i] \in Nat
    BY PartOne
  <2>3. QED
    BY <2>1, <2>2
<1>3. IsFiniteSet(D) /\ IsFiniteSet(S)
  BY <1>1, Numbers, FS_Subset
<1> HIDE DEF D
<1>4. {} \in F
  <2>1. Total(part, {}) = 0 /\ Total(w, {}) = 0 /\ Cardinality({}) = 0
    BY <1>1, <1>2, FS_EmptySet, TotalFacts
  <2>2. 0 * t = 0 /\ 0 * b = 0
    BY <1>1
  <2>3. QED
    BY <2>1, <2>2
<1>5. ASSUME NEW T \in SUBSET S, T \in F, NEW x \in S \ T PROVE T \cup {x} \in F
  <2>1. IsFiniteSet(T) /\ T \in SUBSET D /\ x \in D \ T /\ x \in D
    BY <1>3, FS_Subset DEF D
  <2> DEFINE p == Total(part, T)
             v == Total(w, T)
             c == Cardinality(T)
             p1 == part[x]
             v1 == w[x]
  <2>2. Total(part, T \cup {x}) = p + p1 /\ p \in Nat
    <3>1. p \in Nat /\ \A y \in D \ T : Total(part, T \cup {y}) = p + part[y]
      <4>1. T \in SUBSET D /\ IsFiniteSet(T)
        BY <2>1
      <4>2. QED
        BY <1>2, <4>1, TotalFacts, Zenon
    <3>2. QED
      BY <2>1, <3>1
  <2>3. Total(w, T \cup {x}) = v + v1 /\ v \in Nat
    <3>1. v \in Nat /\ \A y \in D \ T : Total(w, T \cup {y}) = v + w[y]
      <4>1. w \in [D -> Nat] /\ T \in SUBSET D /\ IsFiniteSet(T)
        BY <1>1, <2>1
      <4>2. QED
        BY <4>1, TotalFacts, Zenon
    <3>2. QED
      BY <2>1, <3>1
  <2>4. Cardinality(T \cup {x}) = c + 1 /\ c \in Nat
    BY <2>1, FS_AddElement, FS_CardinalityType
  <2>5. p1 \in Nat /\ v1 \in Nat /\ p1 * t <= v1 * b /\ v1 * b <= p1 * t + t
    BY <2>1, PartOne DEF D
  <2>6. p * t <= v * b /\ v * b <= p * t + c * t
    BY <1>5
  <2> HIDE DEF p, v, c, p1, v1
  <2>7. /\ (p + p1) * t = p * t + p1 * t /\ (v + v1) * b = v * b + v1 * b
        /\ (c + 1) * t = c * t + t
    BY <1>1, <2>2, <2>3, <2>4, <2>5
  <2>8. p * t \in Nat /\ p1 * t \in Nat /\ v * b \in Nat /\ v1 * b \in Nat /\ c * t \in Nat
    BY <1>1, <2>2, <2>3, <2>4, <2>5
  <2>9. (p + p1) * t <= (v + v1) * b /\ (v + v1) * b <= (p + p1) * t + (c + 1) * t
    BY <1>1, <2>5, <2>6, <2>7, <2>8
  <2>10. QED
    BY <2>2, <2>3, <2>4, <2>9
<1>6. S \in F
  <2> HIDE DEF F
  <2> QED BY <1>3, <1>4, <1>5, GrowsTo
<1>7. QED
  BY <1>2, <1>3, <1>6 DEF D

(* A sum is positive only if some value is, and then there is a first. *)
LEMMA FirstFacts ==
    ASSUME NEW w \in Seq(Nat), TotalOf(w) > 0
    PROVE  FirstPositive(w) \in DOMAIN w /\ w[FirstPositive(w)] > 0
<1> DEFINE D == DOMAIN w
           Z == {i \in D : w[i] > 0}
<1>1. D = 1 .. Len(w) /\ Len(w) \in Nat /\ w \in [D -> Nat]
  OBVIOUS
<1>2. IsFiniteSet(D)
  BY <1>1, Numbers
<1>3. Z # {}
  <2> SUFFICES ASSUME Z = {} PROVE FALSE
    OBVIOUS
  <2>1. \A i \in D : w[i] = 0
    BY <1>1
  <2> HIDE DEF D
  <2> DEFINE F == {T \in SUBSET D : Total(w, T) = 0}
  <2>2. {} \in F
    BY <1>1, FS_EmptySet, TotalFacts
  <2>3. ASSUME NEW T \in SUBSET D, T \in F, NEW x \in D \ T PROVE T \cup {x} \in F
    <3>1. IsFiniteSet(T)
      BY <1>2, FS_Subset
    <3> w \in [D -> Nat]
      BY <1>1
    <3>2. \A y \in D \ T : Total(w, T \cup {y}) = Total(w, T) + w[y]
      BY <3>1, TotalFacts
    <3>3. Total(w, T \cup {x}) = Total(w, T) + w[x]
      BY <3>2
    <3>4. QED
      BY <2>1, <2>3, <3>3
  <2>4. D \in F
    <3> HIDE DEF F
    <3> QED BY <1>2, <2>2, <2>3, GrowsTo
  <2>5. QED
    BY <2>4 DEF TotalOf, D
<1>4. PICK i \in Z : \A j \in Z : i <= j
  <2>1. Z \in SUBSET Nat
    BY <1>1
  <2>2. QED
    BY <1>3, <2>1, LeastNat
<1>5. i \in D /\ w[i] > 0 /\ \A j \in 1 .. i - 1 : w[j] = 0
  <2>1. \A j \in 1 .. i - 1 : j \in D /\ w[j] \in Nat /\ ~ (i <= j)
    BY <1>1
  <2>2. \A j \in 1 .. i - 1 : j \notin Z
    BY <1>4, <2>1
  <2>3. QED
    BY <2>1, <2>2
<1>6. QED
  BY <1>5 DEF FirstPositive

(* allocate_budget pays the whole budget and not more, nothing to a claim  *)
(* without weight, and the others their proportion up to one token per     *)
(* claim.                                                                  *)
Fair(a, w, b) ==
    /\ a \in [DOMAIN w -> Nat] /\ TotalOf(a) = b
    /\ \A i \in DOMAIN w :
          /\ w[i] = 0 => a[i] = 0
          /\ w[i] > 0 => a[i] >= (w[i] * b) \div TotalOf(w)
          /\ a[i] * TotalOf(w) <= w[i] * b + Len(w) * TotalOf(w)

(* allocate_budget is fair, for any weights that are not all zero. *)
LEMMA AllocateFacts ==
    ASSUME NEW w \in Seq(Nat), TotalOf(w) > 0, NEW b \in Nat
    PROVE  Fair(allocate_budget(w, b), w, b)
<1> DEFINE n == Len(w)
           D == 1 .. n
           R == 1 .. n - 1
           t == Total(w, D)
           part == [i \in D |-> (w[i] * b) \div t]
           Q == Total(part, R)
           S == Total(part, D)
           given == [i \in D |-> IF w[i] = 0 THEN 0 ELSE IF i = n THEN b - Q ELSE part[i]]
           G == Total(given, D)
           f == FirstPositive(w)
           a == [given EXCEPT ![f] = @ + (b - G)]
<1>1. n \in Nat /\ DOMAIN w = D /\ w \in [D -> Nat] /\ TotalOf(w) = t
  BY DEF TotalOf
<1>2. IsFiniteSet(D) /\ Cardinality(D) = n
  BY <1>1, Numbers
<1>3. f \in D /\ w[f] > 0
  BY <1>1, FirstFacts
<1>4. Proportional(w, b) = given
  <2>1. Proportional(w, b) =
          [i \in D |-> IF w[i] = 0 THEN 0 ELSE IF i = n THEN b - Total(part, 1 .. i - 1) ELSE part[i]]
    BY <1>1 DEF Proportional
  <2>2. QED
    BY <2>1
<1>5. allocate_budget(w, b) = a
  <2>1. DOMAIN given = D
    OBVIOUS
  <2>2. TotalOf(given) = G
    BY <2>1 DEF TotalOf
  <2> HIDE DEF given, G
  <2>3. QED
    BY <1>4, <2>2 DEF allocate_budget
<1>6. n \in Nat \ {0} /\ R \subseteq D /\ n \in D \ R /\ R \cup {n} = D /\ R = 1 .. n - 1
  BY <1>1, <1>3
<1>7. t \in Nat \ {0}
  <2>1. t \in Nat
    BY <1>1, <1>2, TotalFacts
  <2>2. QED
    BY <1>1, <2>1
<1>8. IsPart(part, w, t, b, n)
  BY <1>1, <1>7 DEF IsPart
<1>9. \A i \in D : /\ part[i] \in Nat /\ w[i] \in Nat /\ w[i] * b \in Nat /\ part[i] * t \in Nat
                   /\ part[i] * t <= w[i] * b /\ part[i] = (w[i] * b) \div t
                   /\ w[i] = 0 => part[i] = 0
  <2>1. \A i \in D : part[i] = (w[i] * b) \div t
    OBVIOUS
  <2> HIDE DEF part, t
  <2>2. QED
    BY <1>8, <2>1, PartOne
<1> HIDE DEF part, t, n
<1>10. /\ part \in [D -> Nat] /\ S * t <= t * b /\ t * b <= S * t + n * t
  BY <1>2, <1>8, PartTotals DEF t
<1> DEFINE W0 == Total(w, R)
<1>11. IsFiniteSet(R) /\ Cardinality(R) = n - 1 /\ W0 * b <= Q * t + (n - 1) * t
  <2>1. R \in SUBSET (1 .. n)
    BY <1>6
  <2>2. n - 1 \in Nat
    BY <1>6
  <2>3. IsFiniteSet(R) /\ Cardinality(R) = n - 1
    BY <2>2, Numbers
  <2>4. W0 * b <= Q * t + Cardinality(R) * t
    BY <1>8, <2>1, PartTotals
  <2>5. QED
    BY <2>3, <2>4
<1>12. t = W0 + w[n] /\ W0 \in Nat
  <2> HIDE DEF R, D
  <2>1. R \in SUBSET D /\ n \in D \ R
    BY <1>6
  <2> w \in [D -> Nat]
    BY <1>1
  <2>2. W0 \in Nat /\ \A y \in D \ R : Total(w, R \cup {y}) = W0 + w[y]
    BY <1>11, <2>1, TotalFacts
  <2>3. QED
    BY <1>6, <2>1, <2>2 DEF t
<1>13. S = Q + part[n] /\ Q \in Nat
  <2> HIDE DEF R, D
  <2>1. R \in SUBSET D /\ n \in D \ R
    BY <1>6
  <2>2. Q \in Nat /\ \A y \in D \ R : Total(part, R \cup {y}) = Q + part[y]
    BY <1>10, <1>11, <2>1, TotalFacts
  <2>3. QED
    BY <1>6, <2>1, <2>2
<1> HIDE DEF S, Q, W0, R, D
<1>14. S \in Nat /\ S <= b /\ Q <= b
  <2>1. S \in Nat /\ Q <= S
    BY <1>6, <1>9, <1>13
  <2>2. S * t <= b * t
    BY <1>7, <1>10, Products
  <2>3. S <= b
    BY <1>7, <2>1, <2>2, ProductsOrder
  <2>4. QED
    BY <1>13, <2>1, <2>3
<1>15. given \in [D -> Nat]
  BY <1>9, <1>13, <1>14
<1>16. \A i \in D : given[i] = IF w[i] = 0 THEN 0 ELSE IF i = n THEN b - Q ELSE part[i]
  OBVIOUS
<1> HIDE DEF given
<1>17. G = Q + given[n]
  <2>1. \A i \in R : i \in D /\ i # n
    BY <1>6
  <2>2. \A i \in R : given[i] = part[i]
    BY <1>9, <1>16, <2>1
  <2>3. Total(given, R) = Q
    <3>1. R \in SUBSET (D \cap D) /\ IsFiniteSet(R) /\ part \in [D -> Nat]
      BY <1>6, <1>10, <1>11
    <3>2. Total(given, R) = Total(part, R)
      BY <1>15, <2>2, <3>1, TotalSame
    <3>3. QED
      BY <3>2 DEF Q
  <2>4. R \in SUBSET D /\ n \in D \ R
    BY <1>6
  <2>5. \A y \in D \ R : Total(given, R \cup {y}) = Total(given, R) + given[y]
    BY <1>11, <1>15, <2>4, TotalFacts
  <2>6. QED
    BY <1>6, <2>3, <2>4, <2>5
<1> HIDE DEF G
<1>18. /\ G \in Nat /\ G <= b
       /\ w[n] = 0 => G = Q /\ S = Q
       /\ w[n] > 0 => G = b
  <2>1. w[n] \in Nat /\ (w[n] = 0 => part[n] = 0) /\ given[n] = IF w[n] = 0 THEN 0 ELSE b - Q
    BY <1>6, <1>9, <1>16
  <2>2. QED
    BY <1>13, <1>14, <1>17, <2>1
<1>19. b - G \in Nat
  BY <1>18
<1>20. /\ a \in [D -> Nat] /\ a[f] = given[f] + (b - G)
       /\ \A i \in D : i # f => a[i] = given[i]
  BY <1>3, <1>15, <1>19
<1>21. Total(a, D) = b
  <2>1. Total(a, D) = Total(given, D) + (b - G)
    <3> DEFINE d == b - G
    <3> HIDE DEF d
    <3>1. d \in Nat
      BY <1>19 DEF d
    <3>2. Total([given EXCEPT ![f] = @ + d], D) = Total(given, D) + d
      BY <1>2, <1>3, <1>15, <3>1, TotalRaised
    <3>3. QED
      BY <3>2 DEF d
  <2>2. QED
    BY <1>18, <2>1 DEF G
<1> HIDE DEF a, f
<1>22. ASSUME NEW i \in D
       PROVE  /\ w[i] = 0 => a[i] = 0
              /\ w[i] > 0 => a[i] >= part[i]
              /\ a[i] * t <= w[i] * b + n * t
  <2> DEFINE x == w[i]
             y == a[i]
             p == part[i]
  <2>1. x \in Nat /\ y \in Nat /\ p \in Nat /\ p * t <= x * b /\ x * b \in Nat /\ p * t \in Nat
    BY <1>9, <1>20
  <2>2. n * t \in Nat /\ n * t >= 0
    BY <1>6, <1>7
  <2>3. y = given[i] \/ (y = given[i] + (b - G) /\ x > 0)
    BY <1>3, <1>20
  <2>4. CASE x = 0
    <3>1. y = 0
      BY <1>16, <2>3, <2>4
    <3>2. QED
      BY <1>7, <2>1, <2>2, <2>4, <3>1
  <2>5. CASE x > 0 /\ i = n
    <3>1. given[i] = b - Q /\ G = b /\ y = b - Q
      BY <1>13, <1>14, <1>16, <1>18, <2>3, <2>5
    <3>2. y >= p
      BY <1>13, <1>14, <2>1, <2>5, <3>1
    <3>3. W0 * b <= Q * t + (n - 1) * t /\ t = W0 + x
      BY <1>11, <1>12, <2>5
    <3> HIDE DEF x, y, p
    <3>4. t * b = W0 * b + x * b /\ (n - 1) * t = n * t - t
      <4>1. (W0 + x) * b = W0 * b + x * b
        BY <1>12, <2>1, Products
      <4>2. (n - 1) * t = n * t - 1 * t /\ 1 * t = t
        BY <1>6, <1>7, Products
      <4>3. QED
        BY <3>3, <4>1, <4>2
    <3>5. y * t = b * t - Q * t /\ b * t = t * b
      BY <1>7, <1>13, <3>1
    <3>6. W0 * b \in Int /\ Q * t \in Int /\ b * t \in Int /\ x * b \in Int /\ n * t \in Int
      <4>1. W0 \in Int /\ Q \in Int /\ b \in Int /\ x \in Int /\ n \in Int /\ t \in Int
        BY <1>6, <1>7, <1>12, <1>13, <2>1
      <4>2. QED
        BY <4>1
    <3>7. y * t <= x * b + n * t
      <4> DEFINE wb == W0 * b
                 qt == Q * t
                 bt == b * t
                 xb == x * b
                 nt == n * t
                 yt == y * t
                 mt == (n - 1) * t
      <4>1. /\ wb \in Int /\ qt \in Int /\ bt \in Int /\ xb \in Int /\ nt \in Int /\ t \in Nat
            /\ wb <= qt + mt /\ bt = wb + xb /\ mt = nt - t /\ yt = bt - qt
        BY <1>7, <3>3, <3>4, <3>5, <3>6
      <4> HIDE DEF wb, qt, bt, xb, nt, yt, mt
      <4>2. yt <= xb + nt
        BY <4>1
      <4>3. QED
        BY <4>2 DEF yt, xb, nt
    <3>8. QED
      BY <2>5, <3>2, <3>7 DEF x, y, p
  <2>6. CASE x > 0 /\ i # n
    <3>1. given[i] = p
      BY <1>16, <2>6
    <3>2. y >= p /\ y <= p + (b - G)
      BY <1>18, <1>19, <2>1, <2>3, <3>1
    <3>3. (b - G) * t <= n * t
      <4>1. CASE w[n] > 0
        <5>1. b - G = 0
          BY <1>18, <4>1
        <5>2. QED
          BY <1>7, <2>2, <5>1
      <4>2. CASE w[n] = 0
        <5>1. b - G = b - S
          BY <1>18, <4>2
        <5>2. (b - S) * t = b * t - S * t /\ b * t = t * b
          BY <1>7, <1>14
        <5>3. S * t \in Int /\ b * t \in Int
          BY <1>7, <1>14
        <5>4. QED
          BY <1>10, <2>2, <5>1, <5>2, <5>3
      <4>3. w[n] \in Nat
        BY <1>6, <1>9
      <4>4. QED
        BY <4>1, <4>2, <4>3
    <3> DEFINE g == b - G
    <3>4. g \in Nat /\ g * t <= n * t /\ y <= p + g
      BY <1>19, <3>2, <3>3
    <3> HIDE DEF x, y, p, g
    <3>5. y * t <= (p + g) * t
      BY <1>7, <2>1, <3>4
    <3>6. (p + g) * t = p * t + g * t /\ g * t \in Nat
      BY <1>7, <2>1, <3>4
    <3>7. y * t \in Int
      BY <1>7, <2>1
    <3>8. y * t <= x * b + n * t
      BY <2>1, <2>2, <3>4, <3>5, <3>6, <3>7
    <3>9. QED
      BY <2>6, <3>2, <3>8 DEF x, y, p
  <2>7. QED
    BY <2>1, <2>4, <2>5, <2>6
<1>23. DOMAIN a = D /\ TotalOf(a) = b
  BY <1>20, <1>21 DEF TotalOf
<1>24. Fair(a, w, b)
  BY <1>1, <1>9, <1>20, <1>22, <1>23 DEF Fair, n
<1>25. QED
  BY <1>5, <1>24
=============================================================================
