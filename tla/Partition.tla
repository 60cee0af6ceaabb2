----------------------------- MODULE Partition ------------------------------
(***************************************************************************)
(* src/src/partition.rs: the partition of an epoch's claims into clusters. *)
(* Pure operators.  A claim is its id and its links, pairs of particles;   *)
(* an adjacency maps a particle to its neighbours in the link graph.       *)
(***************************************************************************)
EXTENDS Lists

claim_particles(c) == UNION {{l[1], l[2]} : l \in c.links}

(* The particles within radius hops of seed; a frontier holds those that   *)
(* the last hop has added.                                                 *)
epsilon_support(seed, adj, radius) ==
    LET grow[r \in 0 .. radius] ==
            IF r = 0 THEN [support |-> seed, frontier |-> seed]
            ELSE LET g == grow[r - 1]
                     next == (UNION {adj[p] : p \in g.frontier \cap DOMAIN adj}) \ g.support
                 IN  [support |-> g.support \cup next, frontier |-> next]
    IN  grow[radius].support

(* The root of x in the forest parent; path compression moves no root.     *)
(* Parents are smaller than their children.                                *)
find(parent, x) ==
    LET up[y \in 1 .. x] == IF parent[y] = y THEN y ELSE up[parent[y]]
    IN  up[x]

(* Mutant of union: b itself is hung below a. *)
union_nodes(parent, a, b) == [parent EXCEPT ![b] = a]

(* The larger root is hung below the smaller. *)
union(parent, a, b) ==
    LET ra == find(parent, a)
        rb == find(parent, b)
    IN  IF ra < rb THEN [parent EXCEPT ![rb] = ra] ELSE [parent EXCEPT ![ra] = rb]

(* The inner loop for claim i: it is united with every later claim whose   *)
(* support its own meets.                                                  *)
Unite(parent, i, supports) ==
    LET row[j \in 0 .. Len(supports)] ==
            IF j = 0 THEN parent
            ELSE IF i < j /\ supports[i] \cap supports[j] # {} THEN union(row[j - 1], i, j)
            ELSE row[j - 1]
    IN  row[Len(supports)]

(* Both loops, from every claim being its own root. *)
Forest(supports) ==
    LET after[i \in 0 .. Len(supports)] ==
            IF i = 0 THEN [k \in DOMAIN supports |-> k] ELSE Unite(after[i - 1], i, supports)
    IN  after[Len(supports)]

(* The claims with a smaller id, and the groups with a smaller first id. *)
ById(claims) == {p \in (DOMAIN claims) \X (DOMAIN claims) : claims[p[1]].id < claims[p[2]].id}

ByFirst(claims, groups) ==
    {p \in ToSet(groups) \X ToSet(groups) : claims[p[1][1]].id < claims[p[2][1]].id}

(* The claims of every root, in order of the roots, each group sorted. *)
Groups(claims, parent) ==
    LET index == [i \in DOMAIN claims |-> i]
        roots == Chosen(index, {find(parent, i) : i \in DOMAIN claims})
    IN  [k \in DOMAIN roots |->
           Arranged(Chosen(index, {i \in DOMAIN claims : find(parent, i) = roots[k]}), ById(claims))]

(* The clusters as lists of indices of claims, each sorted by id, and the  *)
(* clusters sorted by their first id.                                      *)
partition_into_clusters(claims, adj, radius) ==
    LET supports == [i \in DOMAIN claims |->
                       epsilon_support(claim_particles(claims[i]), adj, radius)]
        groups == Groups(claims, Forest(supports))
    IN  Arranged(groups, ByFirst(claims, groups))

-----------------------------------------------------------------------------
(* Reference: the particles that a path of at most radius links leads to. *)
Within(seed, adj, radius) ==
    LET all == seed \cup DOMAIN adj \cup UNION {adj[p] : p \in DOMAIN adj}
    IN  {q \in all : \E d \in 0 .. radius : \E path \in [0 .. d -> all] :
            /\ path[0] \in seed /\ path[d] = q
            /\ \A i \in 1 .. d : path[i - 1] \in DOMAIN adj /\ path[i] \in adj[path[i - 1]]}

(* Reference: what a set of blocks has to be to be the connected           *)
(* components of the claims whose regions, near, overlap.                  *)
IsComponents(blocks, near) ==
    /\ UNION blocks = DOMAIN near /\ {} \notin blocks
    /\ \A a, b \in blocks : a # b => \A x \in a, y \in b : x # y /\ near[x] \cap near[y] = {}
    /\ \A b \in blocks : \A part \in (SUBSET b) \ {{}, b} :
          \E x \in part, y \in b \ part : near[x] \cap near[y] # {}

(* The clusters are exactly the connected components of claims with a      *)
(* particle within radius hops of both (partition_into_clusters,           *)
(* epsilon_support), and they are listed by id: the listing does not       *)
(* depend on the order the claims came in.                                 *)
ClustersAreComponents(claims, adj, radius) ==
    LET c == partition_into_clusters(claims, adj, radius)
        near == [i \in DOMAIN claims |-> Within(claim_particles(claims[i]), adj, radius)]
    IN  /\ IsComponents({ToSet(s) : s \in ToSet(c)}, near)
        /\ \A i, j \in DOMAIN c : i < j => claims[c[i][1]].id < claims[c[j][1]].id
        /\ \A i \in DOMAIN c : \A j, k \in DOMAIN c[i] :
              j < k => claims[c[i][j]].id < claims[c[i][k]].id
=============================================================================
