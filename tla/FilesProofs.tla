---------------------------- MODULE FilesProofs ----------------------------
(***************************************************************************)
(* The file system driver, for every size of the disk and of its tables    *)
(* and through any number of crashes: its types, what the three clusters   *)
(* of a formatted disk hold, that the table in memory is the one on the    *)
(* disk, and that a disk on which the format stopped half-way is never     *)
(* written to again.                                                       *)
(*                                                                         *)
(* First the search for free clusters and the walk along a chain; then     *)
(* what a sequence of cluster writes leaves on the disk, whole or cut off; *)
(* then the invariant of the driver, request by request, for every request *)
(* that the shell above it can make.                                       *)
(***************************************************************************)
EXTENDS Fat32, TLAPS, FiniteSetTheorems, SequenceTheorems, WellFoundedInduction

LEMMA ClusterBasics ==
  /\ CLUSTER_MAP_SIZE \in Nat /\ CLUSTER_MAP_SIZE > 2
  /\ {0, 1, 2} \subseteq Clusters /\ Clusters \subseteq Nat
  /\ \A c \in Clusters : c < CLUSTER_MAP_SIZE
  /\ IsFiniteSet(Clusters)
  /\ TOTAL_DIRECTORY_ENTRY \in Nat /\ TOTAL_DIRECTORY_ENTRY >= 2
  /\ {0, 1} \subseteq Indices /\ Indices \subseteq Nat /\ IsFiniteSet(Indices)
<1>1. /\ CLUSTER_MAP_SIZE \in Nat /\ CLUSTER_MAP_SIZE > 2
      /\ TOTAL_DIRECTORY_ENTRY \in Nat /\ TOTAL_DIRECTORY_ENTRY >= 2
  BY Fat32Assumption DEF ROOT_CLUSTER_NUMBER
<1>2. IsFiniteSet(0 .. CLUSTER_MAP_SIZE - 1) /\ IsFiniteSet(0 .. TOTAL_DIRECTORY_ENTRY - 1)
  <2>1. 0 \in Int /\ CLUSTER_MAP_SIZE - 1 \in Int /\ TOTAL_DIRECTORY_ENTRY - 1 \in Int
    BY <1>1
  <2>2. QED
    BY <2>1, FS_Interval
<1>3. QED
  BY <1>1, <1>2 DEF Clusters, Indices

-----------------------------------------------------------------------------
(* Least and greatest elements.                                            *)

LEMMA GreatestOf ==
  ASSUME NEW S, S \subseteq Int, IsFiniteSet(S), S # {}
  PROVE  \E m \in S : \A n \in S : n <= m
<1> DEFINE Over(m) == {n \in S : n > m}
           T == {Over(m) : m \in S}
<1>1. T \subseteq SUBSET S /\ T # {}
  OBVIOUS
<1>2. \E A \in T : \A B \in T : ~(<<B, A>> \in StrictSubsetOrdering(S))
  <2>1. IsWellFoundedOn(StrictSubsetOrdering(S), SUBSET S)
    BY FS_StrictSubsetOrderingWellFounded, FS_FiniteSubsetsOfFinite
  <2> HIDE DEF T
  <2>2. QED
    BY <1>1, <2>1, WFMin
<1>3. PICK m \in S : \A B \in T : ~(<<B, Over(m)>> \in StrictSubsetOrdering(S))
  BY <1>2
<1>4. ASSUME NEW n \in S, n > m
      PROVE  FALSE
  <2>1. n \in Over(m) /\ n \notin Over(n)
    BY <1>4
  <2>2. ASSUME NEW k \in Over(n)
        PROVE  k \in Over(m)
    BY <1>4, <2>2
  <2>3. Over(n) \in T /\ Over(n) \subseteq S /\ Over(m) \subseteq S
    OBVIOUS
  <2>4. <<Over(n), Over(m)>> \in StrictSubsetOrdering(S)
    <3> HIDE DEF Over
    <3> QED
      BY <2>1, <2>2, <2>3 DEF StrictSubsetOrdering
  <2>5. QED
    BY <1>3, <2>3, <2>4
<1>5. QED
  BY <1>4

LEMMA LeastOf ==
  ASSUME NEW S, S \subseteq Int, IsFiniteSet(S), S # {}
  PROVE  \E m \in S : \A n \in S : m <= n
<1> DEFINE Under(m) == {n \in S : n < m}
           T == {Under(m) : m \in S}
<1>1. T \subseteq SUBSET S /\ T # {}
  OBVIOUS
<1>2. \E A \in T : \A B \in T : ~(<<B, A>> \in StrictSubsetOrdering(S))
  <2>1. IsWellFoundedOn(StrictSubsetOrdering(S), SUBSET S)
    BY FS_StrictSubsetOrderingWellFounded, FS_FiniteSubsetsOfFinite
  <2> HIDE DEF T
  <2>2. QED
    BY <1>1, <2>1, WFMin
<1>3. PICK m \in S : \A B \in T : ~(<<B, Under(m)>> \in StrictSubsetOrdering(S))
  BY <1>2
<1>4. ASSUME NEW n \in S, n < m
      PROVE  FALSE
  <2>1. n \in Under(m) /\ n \notin Under(n)
    BY <1>4
  <2>2. ASSUME NEW k \in Under(n)
        PROVE  k \in Under(m)
    BY <1>4, <2>2
  <2>3. Under(n) \in T /\ Under(n) \subseteq S /\ Under(m) \subseteq S
    OBVIOUS
  <2>4. <<Under(n), Under(m)>> \in StrictSubsetOrdering(S)
    <3> HIDE DEF Under
    <3> QED
      BY <2>1, <2>2, <2>3 DEF StrictSubsetOrdering
  <2>5. QED
    BY <1>3, <2>3, <2>4
<1>5. QED
  BY <1>4

LEMMA FirstOf ==
  ASSUME NEW S, S \subseteq Int, IsFiniteSet(S), S # {}
  PROVE  First(S) \in S /\ \A n \in S : First(S) <= n
BY LeastOf DEF First

(* A condition that holds at 0 and from each number to the next holds up   *)
(* to a bound: else there would be a least number at which it fails.       *)
LEMMA UpTo ==
  ASSUME NEW n \in Nat, NEW S, 0 \in S, \A k \in 0 .. n - 1 : k \in S => k + 1 \in S
  PROVE  0 .. n \subseteq S
<1> DEFINE F == {k \in 0 .. n : k \notin S}
<1>1. F \subseteq Int /\ IsFiniteSet(F)
  <2>1. IsFiniteSet(0 .. n)
    BY FS_Interval
  <2>2. F \subseteq 0 .. n
    OBVIOUS
  <2>3. IsFiniteSet(F)
    BY <2>1, <2>2, FS_Subset
  <2>4. QED
    BY <2>3
<1>2. SUFFICES ASSUME F # {}
               PROVE  FALSE
  OBVIOUS
<1>3. PICK m \in F : \A k \in F : m <= k
  BY <1>1, <1>2, LeastOf
<1>4. m \in 0 .. n /\ m \notin S /\ m # 0
  BY <1>3
<1>5. m - 1 \in 0 .. n - 1 /\ m - 1 \notin F /\ (m - 1) + 1 = m
  BY <1>3, <1>4
<1>6. m - 1 \in S
  BY <1>5
<1>7. QED
  BY <1>4, <1>5, <1>6

-----------------------------------------------------------------------------
(* The free clusters that write takes.                                     *)

Below(S, c) == {d \in S : d < c}

LEMMA RankExists ==
  ASSUME NEW S, S \subseteq Int, IsFiniteSet(S), NEW i \in 1 .. Cardinality(S)
  PROVE  \E c \in S : Cardinality(Below(S, c)) = i - 1
<1> DEFINE R == {k \in Nat : k >= Cardinality(S) \/ \E c \in S : Cardinality(Below(S, c)) = k}
<1>1. Cardinality(S) \in Nat /\ S # {}
  BY FS_CardinalityType, FS_EmptySet
<1>2. ASSUME NEW T, T \subseteq S
      PROVE  IsFiniteSet(T) /\ T \subseteq Int
  BY <1>2, FS_Subset
<1>3. 0 \in R
  <2>1. PICK c \in S : \A n \in S : c <= n
    BY <1>1, LeastOf
  <2>2. Below(S, c) = {}
    <3>1. ASSUME NEW d \in S
          PROVE  ~(d < c)
      <4>1. c \in Int /\ d \in Int /\ c <= d
        BY <2>1
      <4>2. QED
        BY <4>1
    <3>2. QED
      BY <3>1 DEF Below
  <2>3. Cardinality(Below(S, c)) = 0
    BY <2>2, FS_EmptySet
  <2>4. QED
    BY <2>3
<1>4. ASSUME NEW k \in Nat, k \in R
      PROVE  k + 1 \in R
  <2>1. CASE k + 1 >= Cardinality(S)
    BY <2>1
  <2>2. CASE k + 1 < Cardinality(S)
    <3>1. PICK c \in S : Cardinality(Below(S, c)) = k
      BY <1>1, <1>4, <2>2
    <3> DEFINE U == Below(S, c) \cup {c}
               T == S \ U
    <3>2. IsFiniteSet(Below(S, c)) /\ c \notin Below(S, c)
      BY <1>2 DEF Below
    <3>3. Cardinality(U) = k + 1
      BY <3>1, <3>2, FS_AddElement
    <3>4. T # {}
      <4>1. U \subseteq S
        BY DEF Below
      <4>2. U # S
        BY <1>1, <2>2, <3>3
      <4>3. QED
        BY <4>1, <4>2
    <3>5. PICK e \in T : \A n \in T : e <= n
      <4>1. T \subseteq S
        OBVIOUS
      <4> HIDE DEF T
      <4>2. QED
        BY <1>2, <3>4, <4>1, LeastOf
    <3>6. e \in S /\ e > c
      BY DEF Below
    <3>7. ASSUME NEW d \in S
          PROVE  d < e <=> d \in U
      <4>1. d \in Int /\ e \in Int /\ c \in Int
        BY <3>6
      <4>2. CASE d \in U
        BY <3>6, <4>1, <4>2 DEF Below
      <4>3. CASE d \notin U
        BY <3>5, <4>1, <4>3
      <4>4. QED
        BY <4>2, <4>3
    <3>8. Below(S, e) = U
      <4>1. U \subseteq S
        BY DEF Below
      <4> HIDE DEF U
      <4>2. QED
        BY <3>7, <4>1 DEF Below
    <3>9. \E x \in S : Cardinality(Below(S, x)) = k + 1
      BY <3>3, <3>6, <3>8
    <3>10. QED
      BY <3>9
  <2>3. QED
    BY <1>1, <2>1, <2>2
<1> HIDE DEF R
<1>5. 0 .. i - 1 \subseteq R
  <2>1. i - 1 \in Nat
    BY <1>1
  <2>2. QED
    BY <1>3, <1>4, <2>1, UpTo
<1>6. i - 1 \in R
  BY <1>1, <1>5
<1>7. QED
  BY <1>1, <1>6 DEF R

LEMMA EmptyClustersAreFree ==
  ASSUME NEW r, ClustersNeeded(r) \in Nat, fat_table \in [Clusters -> Links],
         Cardinality(FreeClusters) >= ClustersNeeded(r)
  PROVE  /\ DOMAIN EmptyClusters(r) = 1 .. ClustersNeeded(r)
         /\ \A i \in 1 .. ClustersNeeded(r) : EmptyClusters(r)[i] \in FreeClusters
<1>1. FreeClusters \subseteq Int /\ IsFiniteSet(FreeClusters)
  <2>1. FreeClusters \subseteq Clusters
    BY DEF FreeClusters
  <2>2. FreeClusters \subseteq Int
    BY <2>1, ClusterBasics
  <2>3. IsFiniteSet(FreeClusters)
    BY <2>1, ClusterBasics, FS_Subset
  <2>4. QED
    BY <2>2, <2>3
<1>2. ASSUME NEW i \in 1 .. ClustersNeeded(r)
      PROVE  EmptyClusters(r)[i] \in FreeClusters
  <2>1. Cardinality(FreeClusters) \in Nat /\ i \in 1 .. Cardinality(FreeClusters)
    <3>1. Cardinality(FreeClusters) \in Nat
      BY <1>1, FS_CardinalityType
    <3>2. QED
      BY <3>1
  <2>2. \E c \in FreeClusters : Cardinality({d \in FreeClusters : d < c}) = i - 1
    BY <1>1, <2>1, RankExists DEF Below
  <2>3. QED
    BY <2>2 DEF EmptyClusters
<1>3. QED
  BY <1>2 DEF EmptyClusters

-----------------------------------------------------------------------------
(* The walk along a chain.                                                 *)

(* A function defined by recursion over a range of numbers exists.         *)
Recursion(f, N, V, x, F) ==
  /\ f \in [0 .. N -> V]
  /\ f[0] = x
  /\ \A n \in 1 .. N : f[n] = F[n][f[n - 1]]

LEMMA RecursionExists ==
  ASSUME NEW N \in Nat, NEW V, NEW x \in V, NEW F \in [Nat -> [V -> V]]
  PROVE  \E f : Recursion(f, N, V, x, F)
<1> DEFINE Is(f, k) == Recursion(f, k, V, x, F)
           S == {k \in Nat : \E f : Is(f, k)}
<1>1. 0 \in S
  <2>1. Is([n \in 0 .. 0 |-> x], 0)
    BY DEF Recursion
  <2>2. QED
    BY <2>1
<1>2. ASSUME NEW k \in Nat, k \in S
      PROVE  k + 1 \in S
  <2>1. PICK f : Is(f, k)
    BY <1>2
  <2> DEFINE g == [n \in 0 .. k + 1 |-> IF n <= k THEN f[n] ELSE F[k + 1][f[k]]]
  <2>2. F[k + 1] \in [V -> V] /\ f[k] \in V
    BY <2>1 DEF Recursion
  <2>3. g \in [0 .. k + 1 -> V] /\ g[0] = x
    BY <2>1, <2>2 DEF Recursion
  <2>4. ASSUME NEW n \in 1 .. k + 1
        PROVE  g[n] = F[n][g[n - 1]]
    <3>1. CASE n <= k
      BY <2>1, <3>1 DEF Recursion
    <3>2. CASE n = k + 1
      <4>1. g[n] = F[k + 1][f[k]] /\ g[k] = f[k] /\ n - 1 = k
        BY <3>2
      <4> HIDE DEF g
      <4>2. QED
        BY <3>2, <4>1
    <3>3. QED
      BY <3>1, <3>2
  <2> HIDE DEF g
  <2>5. Is(g, k + 1)
    BY <2>3, <2>4 DEF Recursion
  <2> HIDE DEF Is
  <2>6. QED
    BY <2>5
<1>3. PICK f : Is(f, N)
  <2> HIDE DEF Is
  <2>1. N \in 0 .. N
    OBVIOUS
  <2>2. \A k \in 0 .. N - 1 : k \in S => k + 1 \in S
    <3> HIDE DEF S
    <3> QED
      BY <1>2
  <2>3. 0 .. N \subseteq S
    <3> HIDE DEF S
    <3> QED
      BY <1>1, <2>2, UpTo
  <2>4. QED
    BY <2>1, <2>3
<1>4. QED
  BY <1>3

LEMMA WalkUnfolds ==
  ASSUME NEW map \in [Clusters -> Links], NEW cluster \in Links
  PROVE  LET at == Walk(map, cluster) IN
         /\ at \in [0 .. CLUSTER_MAP_SIZE -> Links]
         /\ at[0] = cluster
         /\ \A n \in 1 .. CLUSTER_MAP_SIZE :
              at[n] = IF at[n - 1] \in Clusters THEN map[at[n - 1]] ELSE at[n - 1]
<1> DEFINE N == CLUSTER_MAP_SIZE
           Step == [c \in Links |-> IF c \in Clusters THEN map[c] ELSE c]
           F == [n \in Nat |-> Step]
           IsWalk(at) == at = [n \in 0 .. N |->
                                 IF n = 0 THEN cluster
                                 ELSE LET c == at[n - 1]
                                      IN IF c \in Clusters THEN map[c] ELSE c]
<1>1. N \in Nat /\ F \in [Nat -> [Links -> Links]]
  BY ClusterBasics
<1>2. PICK f : Recursion(f, N, Links, cluster, F)
  <2> HIDE DEF F, N
  <2> QED
    BY <1>1, RecursionExists
<1>3. IsWalk(f)
  <2>1. ASSUME NEW n \in 1 .. N
        PROVE  f[n] = IF f[n - 1] \in Clusters THEN map[f[n - 1]] ELSE f[n - 1]
    <3>1. n \in Nat /\ n - 1 \in 0 .. N /\ f[n] = F[n][f[n - 1]]
      <4> HIDE DEF F
      <4> QED
        BY <1>1, <1>2 DEF Recursion
    <3>2. f[n - 1] \in Links
      BY <1>2, <3>1 DEF Recursion
    <3>3. F[n][f[n - 1]] = Step[f[n - 1]]
      BY <3>1
    <3>4. QED
      BY <3>1, <3>2, <3>3
  <2> HIDE DEF F, N
  <2>2. \A n \in 0 .. N : n # 0 => n \in 1 .. N
    BY <1>1
  <2>3. QED
    BY <1>2, <2>1, <2>2 DEF Recursion
<1>4. Walk(map, cluster) = CHOOSE at : IsWalk(at)
  BY DEF Walk
<1>5. IsWalk(Walk(map, cluster))
  <2> HIDE DEF IsWalk
  <2> QED
    BY <1>3, <1>4
<1> DEFINE w == Walk(map, cluster)
<1>6. w = [n \in 0 .. N |-> IF n = 0 THEN cluster
                            ELSE LET c == w[n - 1] IN IF c \in Clusters THEN map[c] ELSE c]
  BY <1>5
<1> HIDE DEF w
<1>7. w[0] = cluster /\ DOMAIN w = 0 .. N
  BY <1>1, <1>6
<1>8. \A n \in 1 .. N : w[n] = IF w[n - 1] \in Clusters THEN map[w[n - 1]] ELSE w[n - 1]
  BY <1>1, <1>6
<1>9. \A n \in 0 .. N : w[n] \in Links
  <2> DEFINE S == {n \in 0 .. N : w[n] \in Links}
  <2>1. 0 \in S
    BY <1>1, <1>7
  <2>2. \A n \in 0 .. N - 1 : n \in S => n + 1 \in S
    <3>1. ASSUME NEW n \in 0 .. N - 1, n \in S
          PROVE  n + 1 \in S
      <4>1. n + 1 \in 1 .. N /\ (n + 1) - 1 = n
        BY <1>1
      <4>2. w[n + 1] = IF w[n] \in Clusters THEN map[w[n]] ELSE w[n]
        BY <1>8, <4>1
      <4>3. QED
        BY <1>1, <3>1, <4>1, <4>2
    <3>2. QED
      BY <3>1
  <2>3. 0 .. N \subseteq S
    <3> HIDE DEF S, N
    <3> QED
      BY <1>1, <2>1, <2>2, UpTo
  <2>4. QED
    BY <2>3
<1>10. w \in [0 .. N -> Links]
  BY <1>6, <1>9
<1>11. QED
  BY <1>7, <1>8, <1>10 DEF w

(* A walk that has left the table goes nowhere else.                       *)
LEMMA WalkStaysOut ==
  ASSUME NEW map \in [Clusters -> Links], NEW cluster \in Links,
         NEW n \in 0 .. CLUSTER_MAP_SIZE, NEW m \in n .. CLUSTER_MAP_SIZE,
         Walk(map, cluster)[n] \notin Clusters
  PROVE  Walk(map, cluster)[m] = Walk(map, cluster)[n]
<1> DEFINE w == Walk(map, cluster)
           N == CLUSTER_MAP_SIZE
           S == {k \in 0 .. N - n : w[n + k] = w[n]}
<1>1. N \in Nat /\ n \in Nat /\ N - n \in Nat
  BY ClusterBasics
<1>2. \A k \in 1 .. N : w[k] = IF w[k - 1] \in Clusters THEN map[w[k - 1]] ELSE w[k - 1]
  BY WalkUnfolds
<1> HIDE DEF w, N
<1>3. 0 \in S
  BY <1>1
<1>4. ASSUME NEW k \in 0 .. (N - n) - 1, k \in S
      PROVE  k + 1 \in S
  <2>1. n + (k + 1) \in 1 .. N /\ (n + (k + 1)) - 1 = n + k /\ k + 1 \in 0 .. N - n
    BY <1>1
  <2>2. w[n + k] = w[n] /\ w[n] \notin Clusters
    BY <1>4 DEF w
  <2>3. w[n + (k + 1)] = w[n]
    BY <1>2, <2>1, <2>2
  <2>4. QED
    BY <2>1, <2>3
<1>5. 0 .. N - n \subseteq S
  <2> HIDE DEF S
  <2>1. N - n \in Nat /\ \A k \in 0 .. (N - n) - 1 : k \in S => k + 1 \in S
    BY <1>1, <1>4
  <2>2. QED
    BY <1>3, <2>1, UpTo
<1>6. m - n \in 0 .. N - n /\ n + (m - n) = m
  BY <1>1 DEF N
<1>7. w[m] = w[n]
  BY <1>5, <1>6
<1>8. QED
  BY <1>7 DEF w

(* A chain holds the clusters that the walk goes through, one by one.      *)
LEMMA ChainVisits ==
  ASSUME NEW map \in [Clusters -> Links], NEW cluster \in Clusters
  PROVE  \E k \in 1 .. CLUSTER_MAP_SIZE + 1 :
           /\ DOMAIN Chain(map, cluster) = 1 .. k
           /\ \A i \in 1 .. k : /\ i - 1 \in 0 .. CLUSTER_MAP_SIZE
                                /\ Chain(map, cluster)[i] = Walk(map, cluster)[i - 1]
                                /\ Chain(map, cluster)[i] \in Clusters
<1> DEFINE w == Walk(map, cluster)
           N == CLUSTER_MAP_SIZE
           S == {n \in DOMAIN w : w[n] \in Clusters}
           k == Cardinality(S)
<1>1. N \in Nat /\ cluster \in Links
  BY ClusterBasics DEF Clusters, Links
<1>2. DOMAIN w = 0 .. N /\ w[0] = cluster
  BY <1>1, WalkUnfolds
<1>3. Chain(map, cluster) = [i \in 1 .. k |-> w[i - 1]]
  BY DEF Chain
<1>4. ASSUME NEW n \in S, NEW m \in 0 .. n
      PROVE  m \in S
  <2>1. n \in 0 .. N /\ w[n] \in Clusters /\ m \in 0 .. N /\ n \in m .. N
    BY <1>1, <1>2
  <2>2. w[m] \notin Clusters => w[n] = w[m]
    BY <1>1, <2>1, WalkStaysOut
  <2>3. QED
    BY <1>2, <2>1, <2>2
<1> HIDE DEF w
<1>5. /\ IsFiniteSet(0 .. N) /\ Cardinality(0 .. N) = N + 1
      /\ \A n \in 0 .. N : IsFiniteSet(0 .. n - 1) /\ Cardinality(0 .. n - 1) = n
  <2>1. ASSUME NEW n \in Nat
        PROVE  IsFiniteSet(0 .. n - 1) /\ Cardinality(0 .. n - 1) = n
    <3>1. 0 \in Int /\ n - 1 \in Int
      OBVIOUS
    <3>2. IsFiniteSet(0 .. n - 1)
      BY <3>1, FS_Interval
    <3>3. Cardinality(0 .. n - 1) = IF 0 > n - 1 THEN 0 ELSE (n - 1) - 0 + 1
      BY <3>1, FS_Interval
    <3>4. QED
      BY <3>2, <3>3
  <2>2. N + 1 \in Nat /\ (N + 1) - 1 = N
    BY <1>1
  <2>3. QED
    BY <1>1, <2>1, <2>2
<1>6. S \subseteq 0 .. N /\ 0 \in S
  BY <1>1, <1>2
<1>7. IsFiniteSet(S) /\ k \in Nat /\ k <= N + 1 /\ k # 0
  <2> HIDE DEF S
  <2>1. IsFiniteSet(S) /\ k <= N + 1
    BY <1>5, <1>6, FS_Subset
  <2>2. k \in Nat
    BY <2>1, FS_CardinalityType
  <2>3. k # 0
    BY <1>6, <2>1, FS_EmptySet
  <2>4. QED
    BY <2>1, <2>2, <2>3
<1>8. ASSUME NEW i \in 1 .. k
      PROVE  i - 1 \in S
  <2>1. i - 1 \in 0 .. N
    BY <1>1, <1>7
  <2>2. CASE i - 1 \notin S
    <3>1. ASSUME NEW n \in S
          PROVE  n \in 0 .. (i - 1) - 1
      <4>1. n \in 0 .. N
        BY <1>6
      <4>2. ~(i - 1 <= n)
        BY <1>4, <2>1, <2>2, <4>1
      <4>3. QED
        BY <1>1, <2>1, <4>1, <4>2
    <3> HIDE DEF S
    <3>2. S \subseteq 0 .. (i - 1) - 1
      BY <3>1
    <3>3. IsFiniteSet(0 .. (i - 1) - 1) /\ Cardinality(0 .. (i - 1) - 1) = i - 1
      BY <1>5, <2>1
    <3>4. Cardinality(S) <= Cardinality(0 .. (i - 1) - 1)
      BY <3>2, <3>3, FS_Subset
    <3>5. QED
      BY <1>7, <3>3, <3>4
  <2>3. QED
    BY <2>2
<1>9. \A i \in 1 .. k : i - 1 \in 0 .. N /\ w[i - 1] \in Clusters
  BY <1>6, <1>8
<1> HIDE DEF S
<1>10. k \in 1 .. N + 1
  BY <1>1, <1>7
<1> HIDE DEF k
<1>11. QED
  BY <1>3, <1>9, <1>10 DEF w


-----------------------------------------------------------------------------
(* The invariant of the driver.                                            *)

(* Every request the shell can make; mv can name one "" and ls the root.   *)
FileNames == Names \cup {"", "root", ".."}
AnyRequest == [name : FileNames, padded : BOOLEAN, ext : Extensions,
               parent : Clusters, size : 0 .. MaxClusters, text : Texts]
Tables == [Indices -> DirectoryEntries]

(* The reserved clusters are never part of a chain: no link leads to 1 or  *)
(* 2, and one that leads to 0, a free cluster's entry, ends there.         *)
IsMap(map) ==
  /\ map \in [Clusters -> Links]
  /\ map[0] = CLUSTER_0_VALUE
  /\ map[1] = CLUSTER_1_VALUE
  /\ map[2] = FAT32_FAT_END_OF_FILE
  /\ \A c \in Clusters : c > 2 => map[c] \notin {1, 2}

(* A table that passes for a folder has both reserved entries, and no      *)
(* other entry leads to a reserved cluster.                                *)
IsTable(t) ==
  /\ t \in Tables
  /\ t[0].folder => t[0].used /\ t[1].used
  /\ \A i \in Indices : i > 1 /\ t[i].used => t[i].cluster > 2

IsRootTable(t) ==
  /\ IsTable(t)
  /\ t[0] = FolderEntry("root", ROOT_CLUSTER_NUMBER)
  /\ t[1] = FolderEntry("..", ROOT_CLUSTER_NUMBER)

(* What a cluster may hold, by its number.                                 *)
MayHold(c, b) ==
  \/ b = Zero
  \/ c = 0 /\ b = Signature
  \/ c = 1 /\ \E map : IsMap(map) /\ b = Fat(map)
  \/ c = 2 /\ \E t : IsRootTable(t) /\ b = Directory(t)
  \/ c > 2 /\ \E t : IsTable(t) /\ b = Directory(t)
  \/ c > 2 /\ \E text \in Texts, part \in 1 .. MaxClusters : b = Data(text, part)

(* Without a root nothing was ever written behind it.                      *)
DiskInv(d) ==
  /\ DOMAIN d = Clusters
  /\ \A c \in Clusters : MayHold(c, d[c])
  /\ d[2] = Zero => \A c \in Clusters : c > 2 => d[c] = Zero

MemoryInv(d, map, on) ==
  map = IF on = "on" THEN MapIn(d[1]) ELSE EmptyMap

DriverInv ==
  /\ DiskInv(disk)
  /\ MemoryInv(disk, fat_table, power)
  /\ power \in {"off", "on", "lost"}
  /\ crashes \in 0 .. CrashBound

(* A chain behind the root stays there, and if it ends properly it passes  *)
(* through no free cluster either: from 0 it would have left the table.    *)
LEMMA ChainAvoids ==
  ASSUME NEW map, IsMap(map), NEW cluster \in Clusters, cluster > 2
  PROVE  /\ \A c \in ClustersOf(map, cluster) : c \in Clusters /\ c \notin {1, 2}
         /\ EndsProperly(map, cluster) => 0 \notin ClustersOf(map, cluster)
<1> DEFINE w == Walk(map, cluster)
           N == CLUSTER_MAP_SIZE
           S == {n \in 0 .. N : w[n] \notin {1, 2}}
<1>1. N \in Nat /\ cluster \in Links /\ map \in [Clusters -> Links]
  BY ClusterBasics DEF Clusters, Links, IsMap
<1>2. /\ w[0] = cluster
      /\ \A n \in 1 .. N : w[n] = IF w[n - 1] \in Clusters THEN map[w[n - 1]] ELSE w[n - 1]
  <2> HIDE DEF N
  <2>1. map \in [Clusters -> Links] /\ cluster \in Links
    BY <1>1
  <2>2. QED
    BY <2>1, WalkUnfolds DEF N
<1>3. ASSUME NEW c \in Clusters, c \notin {1, 2}
      PROVE  map[c] \notin {1, 2}
  <2>1. c \in Nat /\ N > 2
    BY ClusterBasics
  <2>2. CASE c = 0
    BY <1>1, <2>1, <2>2 DEF IsMap, CLUSTER_0_VALUE
  <2>3. CASE c > 2
    BY <2>3 DEF IsMap
  <2>4. QED
    BY <1>3, <2>1, <2>2, <2>3
<1>4. PICK k \in 1 .. N + 1 :
        /\ DOMAIN Chain(map, cluster) = 1 .. k
        /\ \A i \in 1 .. k : /\ i - 1 \in 0 .. N
                             /\ Chain(map, cluster)[i] = w[i - 1]
                             /\ Chain(map, cluster)[i] \in Clusters
  BY <1>1, ChainVisits
<1>5. ASSUME EndsProperly(map, cluster), NEW n \in 0 .. N
      PROVE  w[n] # 0
  <2>1. w[N] = N
    BY <1>5 DEF EndsProperly, FAT32_FAT_END_OF_FILE
  <2>2. SUFFICES ASSUME w[n] = 0
                 PROVE  FALSE
    OBVIOUS
  <2>3. n # N /\ n + 1 \in 1 .. N /\ (n + 1) - 1 = n /\ N \in n + 1 .. N
    BY <1>1, <2>1, <2>2, ClusterBasics
  <2>4. w[n + 1] = map[0]
    <3>1. w[n + 1] = IF w[n] \in Clusters THEN map[w[n]] ELSE w[n]
      BY <1>2, <2>3
    <3>2. QED
      BY <2>2, <3>1, ClusterBasics
  <2>5. map[0] = N + 1 /\ N + 1 \notin Clusters
    BY ClusterBasics DEF IsMap, CLUSTER_0_VALUE, Clusters
  <2>6. w[N] = w[n + 1]
    <3>1. n + 1 \in 0 .. N
      BY <1>1, <2>3
    <3>2. QED
      BY <1>1, <2>3, <2>4, <2>5, <3>1, WalkStaysOut
  <2>7. QED
    BY <1>1, <2>1, <2>4, <2>5, <2>6
<1> HIDE DEF w
<1>6. 0 \in S
  BY <1>1, <1>2
<1>7. ASSUME NEW n \in 0 .. N - 1, n \in S
      PROVE  n + 1 \in S
  <2>1. n + 1 \in 1 .. N /\ (n + 1) - 1 = n
    BY <1>1
  <2>2. w[n + 1] = IF w[n] \in Clusters THEN map[w[n]] ELSE w[n]
    BY <1>2, <2>1
  <2>3. w[n + 1] \notin {1, 2}
    BY <1>3, <1>7, <2>2
  <2>4. QED
    BY <2>1, <2>3
<1>8. 0 .. N \subseteq S
  <2> HIDE DEF S
  <2> QED
    BY <1>1, <1>6, <1>7, UpTo
<1>9. QED
  BY <1>4, <1>5, <1>8, SMTT(30) DEF ClustersOf

-----------------------------------------------------------------------------
(* What cluster writes leave on the disk.                                  *)

LEMMA Kinds ==
  /\ Zero.kind = "zero" /\ Signature.kind = "boot"
  /\ \A map : Fat(map).kind = "fat" /\ Fat(map).map = map
  /\ \A t : Directory(t).kind = "directory" /\ Directory(t).table = t
  /\ \A text, part : /\ Data(text, part).kind = "data"
                     /\ Data(text, part).text = text
BY DEF Zero, Signature, Fat, Directory, Data

LEMMA Written ==
  ASSUME NEW n \in Nat, NEW writes, DOMAIN writes = 1 .. n, NEW d, NEW c \in Clusters
  PROVE  \/ /\ \A i \in 1 .. n : writes[i].cluster # c
            /\ write_clusters(writes, d)[c] = d[c]
         \/ \E i \in 1 .. n :
              /\ writes[i].cluster = c /\ write_clusters(writes, d)[c] = writes[i].block
              /\ \A j \in 1 .. n : writes[j].cluster = c => j <= i
<1> DEFINE at == {i \in DOMAIN writes : writes[i].cluster = c}
           last == CHOOSE i \in at : \A j \in at : j <= i
<1>1. write_clusters(writes, d)[c] = IF at = {} THEN d[c] ELSE writes[last].block
  BY DEF write_clusters
<1>2. CASE at = {}
  BY <1>1, <1>2
<1>3. CASE at # {}
  <2>1. at \subseteq 1 .. n /\ IsFiniteSet(1 .. n)
    BY FS_Interval
  <2>2. at \subseteq Int /\ IsFiniteSet(at)
    BY <2>1, FS_Subset
  <2>3. \E i \in at : \A j \in at : j <= i
    <3> HIDE DEF at
    <3> QED
      BY <1>3, <2>2, GreatestOf
  <2>4. last \in at /\ \A j \in at : j <= last
    <3> HIDE DEF at
    <3> QED
      BY <2>3
  <2> HIDE DEF last
  <2>5. QED
    BY <1>1, <1>3, <2>1, <2>4
<1>4. QED
  BY <1>2, <1>3

(* A write the driver may make to a disk: the reserved clusters are never  *)
(* zeroed, and what is behind the root is written only if there is one.    *)
Allowed(w, d) ==
  /\ w.cluster \in Clusters
  /\ MayHold(w.cluster, w.block)
  /\ w.cluster \in {1, 2} => w.block # Zero
  /\ w.cluster > 2 => d[2] # Zero

LEMMA WritesKeepTheDisk ==
  ASSUME NEW d, DiskInv(d), NEW n \in Nat, NEW writes, DOMAIN writes = 1 .. n,
         \A i \in 1 .. n : Allowed(writes[i], d)
  PROVE  /\ DiskInv(write_clusters(writes, d))
         /\ d[2] # Zero => write_clusters(writes, d)[2] # Zero
<1> DEFINE after == write_clusters(writes, d)
<1>1. ASSUME NEW c \in Clusters
      PROVE  \/ (\A i \in 1 .. n : writes[i].cluster # c) /\ after[c] = d[c]
             \/ \E i \in 1 .. n : writes[i].cluster = c /\ after[c] = writes[i].block
  BY Written
<1>2. DOMAIN after = Clusters
  BY DEF write_clusters
<1> HIDE DEF after
<1>3. \A c \in Clusters : MayHold(c, after[c])
  BY <1>1 DEF DiskInv, Allowed
<1>4. after[2] = Zero => d[2] = Zero
  BY <1>1, ClusterBasics DEF Allowed
<1>5. ASSUME after[2] = Zero, NEW c \in Clusters, c > 2
      PROVE  after[c] = Zero
  <2>1. \A i \in 1 .. n : writes[i].cluster # c
    BY <1>4, <1>5 DEF Allowed
  <2>2. after[c] = d[c]
    BY <1>1, <2>1
  <2>3. QED
    BY <1>4, <1>5, <2>2 DEF DiskInv
<1>6. QED
  BY <1>2, <1>3, <1>4, <1>5 DEF DiskInv, after

LEMMA UnusedTyped ==
  /\ MaxClusters \in Nat /\ MaxClusters >= 1 /\ "" \in Extensions
  /\ UnusedEntry \in DirectoryEntries /\ ~UnusedEntry.used /\ ~UnusedEntry.folder
<1>1. MaxClusters \in Nat /\ MaxClusters >= 1
  <2>1. MaxClusters \in Nat \ {0}
    BY Fat32Assumption, Zenon
  <2>2. QED
    BY <2>1
<1>2. "" \in Extensions
  BY Fat32Assumption, Zenon
<1>3. 0 \in 0 .. MaxClusters /\ 0 \in Clusters
  BY <1>1, ClusterBasics
<1>4. QED
  BY <1>1, <1>2, <1>3 DEF UnusedEntry, DirectoryEntries

(* The first sectors of a table or of a map hold what the driver relies on *)
(* in its reserved entries: a torn one is again one.                       *)
LEMMA TornIsWhole ==
  ASSUME NEW c \in Clusters, NEW old, MayHold(c, old), NEW new, MayHold(c, new),
         c \in {1, 2} => new # Zero, NEW b \in Torn(old, new)
  PROVE  MayHold(c, b) /\ b # Zero
<1> DEFINE Joined(cut) == [i \in Indices |-> IF i < cut THEN TableIn(new)[i] ELSE TableIn(old)[i]]
           Mixed(cut) == [k \in Clusters |-> IF k < cut THEN new.map[k] ELSE MapIn(old)[k]]
<1>1. CASE new.kind = "fat"
  <2>1. c = 1 /\ IsMap(new.map)
    BY <1>1, Kinds DEF MayHold
  <2>2. PICK cut \in 3 .. CLUSTER_MAP_SIZE - 1 : b = Fat(Mixed(cut))
    <3>1. new # Zero /\ new.kind # "directory"
      BY <1>1, Kinds
    <3>2. Torn(old, new) = {TornBefore(old, new, cut) : cut \in 3 .. CLUSTER_MAP_SIZE - 1}
      BY <1>1, <3>1 DEF Torn, ROOT_CLUSTER_NUMBER
    <3>3. QED
      BY <1>1, <3>2 DEF TornBefore
  <2>3. old = Zero \/ \E map : IsMap(map) /\ old = Fat(map)
    BY <2>1 DEF MayHold
  <2>4. /\ MapIn(old) \in [Clusters -> Links]
        /\ \A k \in Clusters : k > 2 => MapIn(old)[k] \notin {1, 2}
    <3>1. CASE old = Zero
      BY <3>1, Kinds, ClusterBasics DEF MapIn, EmptyMap, FAT32_FAT_EMPTY_ENTRY, Links
    <3>2. CASE \E map : IsMap(map) /\ old = Fat(map)
      BY <3>2, Kinds DEF MapIn, IsMap
    <3>3. QED
      BY <2>3, <3>1, <3>2
  <2>5. \A k \in Clusters : k < 3 => Mixed(cut)[k] = new.map[k]
    BY ClusterBasics
  <2>6. IsMap(Mixed(cut))
    <3>1. Mixed(cut) \in [Clusters -> Links]
      BY <2>1, <2>4 DEF IsMap
    <3>2. \A k \in Clusters : k > 2 => Mixed(cut)[k] \notin {1, 2}
      BY <2>1, <2>4 DEF IsMap
    <3> HIDE DEF Mixed
    <3>3. QED
      BY <2>1, <2>5, <3>1, <3>2, ClusterBasics DEF IsMap
  <2> HIDE DEF Mixed
  <2>7. QED
    BY <2>1, <2>2, <2>6, Kinds DEF MayHold
<1>2. CASE new.kind # "fat"
  <2>1. PICK cut \in 2 .. TOTAL_DIRECTORY_ENTRY - 1 : b = Directory(Joined(cut))
    BY <1>2 DEF Torn, TornBefore
  <2>2. new.kind = "directory" \/ (new = Zero /\ old.kind = "directory")
    BY <1>2 DEF Torn
  <2>3. /\ c >= 2
        /\ c = 2 => new.kind = "directory" /\ IsRootTable(new.table)
        /\ new.kind = "directory" => IsTable(new.table)
    BY <2>2, Kinds, ClusterBasics DEF MayHold, IsRootTable
  <2>4. \A x \in {old, new} :
          /\ TableIn(x) \in Tables
          /\ \A i \in Indices : i > 1 /\ TableIn(x)[i].used => TableIn(x)[i].cluster > 2
    <3>1. ASSUME NEW x \in {old, new}
          PROVE  x.kind = "directory" => IsTable(x.table)
      BY <2>3, Kinds, ClusterBasics DEF MayHold, IsRootTable
    <3>2. UnusedEntry \in DirectoryEntries /\ ~UnusedEntry.used
      BY UnusedTyped
    <3>3. QED
      BY <3>1, <3>2 DEF TableIn, IsTable, Tables
  <2>5. \A i \in {0, 1} : Joined(cut)[i] = TableIn(new)[i]
    BY ClusterBasics
  <2>6. IsTable(Joined(cut))
    <3>1. Joined(cut) \in Tables
      BY <2>4 DEF Tables
    <3>2. TableIn(new)[0].folder => TableIn(new)[0].used /\ TableIn(new)[1].used
      BY <2>3, ClusterBasics DEF TableIn, IsTable, UnusedEntry
    <3>3. \A i \in Indices : i > 1 /\ Joined(cut)[i].used => Joined(cut)[i].cluster > 2
      BY <2>4
    <3> HIDE DEF Joined
    <3>4. QED
      BY <2>5, <3>1, <3>2, <3>3 DEF IsTable
  <2>7. c = 2 => IsRootTable(Joined(cut))
    <3> HIDE DEF Joined
    <3> QED
      BY <2>3, <2>5, <2>6 DEF IsRootTable, TableIn
  <2> HIDE DEF Joined
  <2>8. QED
    BY <2>1, <2>3, <2>6, <2>7, Kinds, ClusterBasics DEF MayHold
<1>3. QED
  BY <1>1, <1>2

AllAllowed(steps, d) ==
  \E S : steps \in Seq(S) /\ \A w \in S : Allowed(w, d)

LEMMA StepsKeepTheDisk ==
  ASSUME NEW d, DiskInv(d), NEW steps, AllAllowed(steps, d)
  PROVE  /\ DiskInv(write_clusters(steps, d))
         /\ d[2] # Zero => write_clusters(steps, d)[2] # Zero
<1>1. PICK S : steps \in Seq(S) /\ \A w \in S : Allowed(w, d)
  BY DEF AllAllowed
<1>2. /\ Len(steps) \in Nat /\ DOMAIN steps = 1 .. Len(steps)
      /\ \A i \in 1 .. Len(steps) : steps[i] \in S
  BY <1>1, LenProperties, ElementOfSeq
<1>3. \A i \in 1 .. Len(steps) : Allowed(steps[i], d)
  BY <1>1, <1>2
<1>4. QED
  BY <1>2, <1>3, WritesKeepTheDisk

(* What the last writes to the allocation table leave in it.               *)
LEMMA MapAfterSteps ==
  ASSUME NEW steps, NEW S, steps \in Seq(S), NEW d, NEW map,
         \A w \in S : w.cluster = 1 => w.block = Fat(map),
         \E i \in 1 .. Len(steps) : steps[i].cluster = 1
  PROVE  MapIn(write_clusters(steps, d)[1]) = map
<1>1. /\ Len(steps) \in Nat /\ DOMAIN steps = 1 .. Len(steps)
      /\ \A i \in 1 .. Len(steps) : steps[i] \in S
  BY LenProperties, ElementOfSeq
<1>2. write_clusters(steps, d)[1] = Fat(map)
  <2>1. \/ \A i \in 1 .. Len(steps) : steps[i].cluster # 1
        \/ \E i \in 1 .. Len(steps) :
             steps[i].cluster = 1 /\ write_clusters(steps, d)[1] = steps[i].block
    <3>1. 1 \in Clusters
      BY ClusterBasics
    <3>2. QED
      BY <1>1, <3>1, Written
  <2>2. QED
    BY <1>1, <2>1
<1>3. QED
  BY <1>2, Kinds DEF MapIn

(* A stop among the writes leaves a disk as sound as it was.               *)
LEMMA StopKeepsTheDisk ==
  ASSUME DriverInv, NEW steps, AllAllowed(steps, disk), Crash(steps)
  PROVE  DriverInv'
<1>1. PICK S : steps \in Seq(S) /\ \A w \in S : Allowed(w, disk)
  BY DEF AllAllowed
<1>2. Len(steps) \in Nat /\ \A i \in 1 .. Len(steps) : steps[i] \in S
  BY <1>1, LenProperties, ElementOfSeq
<1>3. PICK k \in 0 .. Len(steps) - 1 :
        LET before == write_clusters(SubSeq(steps, 1, k), disk)
            next   == steps[k + 1]
        IN \/ disk' = before
           \/ \E b \in Torn(before[next.cluster], next.block) :
                disk' = [before EXCEPT ![next.cluster] = b]
  <2>1. ASSUME NEW k, NEW before, NEW next,
               disk' \in {[before EXCEPT ![next.cluster] = b] :
                            b \in Torn(before[next.cluster], next.block)}
                         \cup IF k = 0 THEN {} ELSE {before}
        PROVE  \/ disk' = before
               \/ \E b \in Torn(before[next.cluster], next.block) :
                    disk' = [before EXCEPT ![next.cluster] = b]
    BY <2>1
  <2>2. QED
    BY <2>1 DEF Crash
<1> DEFINE before == write_clusters(SubSeq(steps, 1, k), disk)
           next   == steps[k + 1]
<1>4. AllAllowed(SubSeq(steps, 1, k), disk)
  <2>1. \A i \in 1 .. k : steps[i] \in S
    BY <1>2
  <2>2. 1 \in Int /\ k \in Int
    BY <1>2
  <2>3. SubSeq(steps, 1, k) \in Seq(S)
    BY <2>1, <2>2, SubSeqProperties
  <2>4. QED
    BY <1>1, <2>3 DEF AllAllowed
<1>5. DiskInv(before) /\ (disk[2] # Zero => before[2] # Zero)
  BY <1>4, StepsKeepTheDisk DEF DriverInv
<1>6. Allowed(next, disk)
  <2>1. k + 1 \in 1 .. Len(steps)
    BY <1>2
  <2>2. QED
    BY <1>1, <1>2, <2>1
<1>7. disk' = before \/ \E b \in Torn(before[next.cluster], next.block) :
                          disk' = [before EXCEPT ![next.cluster] = b]
  BY <1>3
<1> HIDE DEF before, next
<1>8. ASSUME NEW b \in Torn(before[next.cluster], next.block)
      PROVE  DiskInv([before EXCEPT ![next.cluster] = b])
  <2>1. next.cluster \in Clusters /\ MayHold(next.cluster, before[next.cluster])
    BY <1>5, <1>6 DEF Allowed, DiskInv
  <2>2. MayHold(next.cluster, b) /\ b # Zero
    BY <1>6, <2>1, TornIsWhole DEF Allowed
  <2> DEFINE after == [before EXCEPT ![next.cluster] = b]
  <2>3. /\ DOMAIN after = Clusters /\ after[next.cluster] = b
        /\ \A c \in Clusters : c # next.cluster => after[c] = before[c]
    BY <1>5, <2>1 DEF DiskInv
  <2> HIDE DEF after
  <2>4. \A c \in Clusters : MayHold(c, after[c])
    BY <1>5, <2>2, <2>3 DEF DiskInv
  <2>5. ASSUME after[2] = Zero
        PROVE  before[2] = Zero /\ next.cluster <= 2 /\ next.cluster # 2
    <3>1. before[2] = Zero /\ next.cluster # 2
      BY <2>2, <2>3, <2>5, ClusterBasics
    <3>2. ~(next.cluster > 2) /\ next.cluster \in Nat
      BY <1>5, <1>6, <2>1, <3>1, ClusterBasics DEF Allowed
    <3>3. QED
      BY <3>1, <3>2
  <2>6. after[2] = Zero => \A c \in Clusters : c > 2 => after[c] = Zero
    BY <1>5, <2>1, <2>3, <2>5, ClusterBasics DEF DiskInv
  <2>7. QED
    BY <2>3, <2>4, <2>6 DEF DiskInv, after
<1>9. DiskInv(disk')
  BY <1>5, <1>7, <1>8
<1>10. MemoryInv(disk', fat_table', power') /\ power' \in {"off", "on", "lost"}
  BY DEF Crash, MemoryInv
<1>11. crashes' \in 0 .. CrashBound
  <2>1. CrashBound \in Nat
    BY Fat32Assumption, Zenon
  <2>2. QED
    BY <2>1 DEF Crash, DriverInv
<1>12. QED
  BY <1>9, <1>10, <1>11 DEF DriverInv

LEMMA LenIs ==
  ASSUME NEW n \in Nat, NEW s, DOMAIN s = 1 .. n
  PROVE  Len(s) = n
OBVIOUS

LEMMA FunctionTyped ==
  ASSUME NEW f, NEW A, NEW B, f = [x \in A |-> f[x]], \A x \in A : f[x] \in B
  PROVE  f \in [A -> B]
OBVIOUS

(* The writes of a request: some clusters, between or before two tables.   *)
LEMMA LastOfThree ==
  ASSUME NEW S, NEW a \in S, NEW z \in S, NEW s \in Seq(S)
  PROVE  /\ <<a>> \o s \o <<z>> \in Seq(S)
         /\ \E i \in 1 .. Len(<<a>> \o s \o <<z>>) : (<<a>> \o s \o <<z>>)[i] = z
<1> DEFINE b == <<a>> \o s
<1>1. <<a>> \in Seq(S) /\ <<z>> \in Seq(S) /\ Len(<<z>>) = 1 /\ <<z>>[1] = z
  OBVIOUS
<1>2. b \in Seq(S)
  BY <1>1, ConcatProperties
<1> HIDE DEF b
<1>3. /\ b \o <<z>> \in Seq(S)
      /\ Len(b \o <<z>>) = Len(b) + 1
      /\ \A i \in 1 .. Len(b) + 1 :
           (b \o <<z>>)[i] = IF i <= Len(b) THEN b[i] ELSE <<z>>[i - Len(b)]
  BY <1>1, <1>2, ConcatProperties
<1>4. Len(b) \in Nat
  BY <1>2, LenProperties
<1>5. Len(b) + 1 \in 1 .. Len(b \o <<z>>) /\ (Len(b) + 1) - Len(b) = 1
  BY <1>3, <1>4
<1>6. (b \o <<z>>)[Len(b) + 1] = z
  BY <1>1, <1>3, <1>4, <1>5
<1>7. QED
  BY <1>3, <1>5, <1>6 DEF b

-----------------------------------------------------------------------------
(* The requests.                                                           *)

LEMMA TypesOfDriver ==
  ASSUME DriverInv
  PROVE  /\ fat_table \in [Clusters -> Links]
         /\ \A c \in Clusters : Table(c) \in Tables
         /\ \A c \in Clusters : TableIn(disk[c]) \in Tables
<1>1. EmptyMap \in [Clusters -> Links]
  BY ClusterBasics DEF EmptyMap, FAT32_FAT_EMPTY_ENTRY, Links
<1>2. MayHold(1, disk[1])
  BY ClusterBasics DEF DriverInv, DiskInv
<1>3. MapIn(disk[1]) \in [Clusters -> Links]
  BY <1>1, <1>2, Kinds DEF MapIn, MayHold, IsMap
<1>4. ASSUME NEW c \in Clusters
      PROVE  TableIn(disk[c]) \in Tables
  <2>1. MayHold(c, disk[c])
    BY DEF DriverInv, DiskInv
  <2>2. disk[c].kind = "directory" => disk[c].table \in Tables
    BY <2>1, Kinds DEF MayHold, IsTable, IsRootTable
  <2>3. QED
    BY <2>2, UnusedTyped DEF TableIn, Tables
<1>5. QED
  BY <1>1, <1>3, <1>4 DEF DriverInv, MemoryInv, Table

(* A cluster that passes for a folder lies at or behind the root, with all *)
(* that the driver needs to work on it.                                    *)
LEMMA FoldersAreBehind ==
  ASSUME DriverInv, NEW c \in Clusters, IsFolderTable(c)
  PROVE  /\ c > 1 /\ power = "on" /\ disk[2] # Zero /\ IsMap(fat_table)
         /\ IsTable(Table(c)) /\ Table(c)[0].used /\ Table(c)[1].used
         /\ c = 2 => IsRootTable(Table(c))
<1>1. fat_table # EmptyMap
  BY ClusterBasics DEF IsFolderTable, FAT32_FAT_END_OF_FILE, EmptyMap, FAT32_FAT_EMPTY_ENTRY
<1>2. power = "on" /\ fat_table = MapIn(disk[1])
  BY <1>1 DEF DriverInv, MemoryInv
<1>3. MayHold(1, disk[1]) /\ MayHold(c, disk[c])
  BY ClusterBasics DEF DriverInv, DiskInv
<1>4. IsMap(fat_table)
  BY <1>1, <1>2, <1>3, Kinds DEF MapIn, MayHold
<1>5. disk[c].kind = "directory"
  BY UnusedTyped, ClusterBasics DEF IsFolderTable, TableIn
<1>6. disk[c] # Zero /\ Table(c) = disk[c].table
  BY <1>5, Kinds DEF Table, TableIn
<1>7. /\ c \in Nat /\ c > 1 /\ IsTable(Table(c))
      /\ c = 2 => IsRootTable(Table(c))
  BY <1>3, <1>5, <1>6, Kinds, ClusterBasics DEF MayHold, IsRootTable
<1>8. disk[2] # Zero
  BY <1>6, <1>7 DEF DriverInv, DiskInv
<1>9. Table(c)[0].folder
  BY DEF IsFolderTable, Table
<1>10. QED
  BY <1>2, <1>4, <1>7, <1>8, <1>9 DEF IsTable

LEMMA FreeIsBehind ==
  ASSUME DriverInv, IsMap(fat_table), NEW c \in FreeClusters
  PROVE  c \in Clusters /\ c > 2
<1>1. c \in Clusters /\ fat_table[c] = 0
  BY DEF FreeClusters, FAT32_FAT_EMPTY_ENTRY
<1>2. fat_table[0] # 0 /\ fat_table[1] # 0 /\ fat_table[2] # 0
  BY ClusterBasics DEF IsMap, CLUSTER_0_VALUE, CLUSTER_1_VALUE, FAT32_FAT_END_OF_FILE
<1>3. c \in Nat /\ c # 0 /\ c # 1 /\ c # 2
  BY <1>1, <1>2, ClusterBasics
<1>4. QED
  BY <1>1, <1>3

(* What write writes, for any request that it does not refuse.             *)
LEMMA WriteIsAllowed ==
  ASSUME DriverInv, NEW r \in AnyRequest, write_code(r) = 0
  PROVE  /\ AllAllowed(WriteSteps(r), disk)
         /\ IsMap(FatAfterWrite(r))
         /\ MapIn(write_clusters(WriteSteps(r), disk)[1]) = FatAfterWrite(r)
<1> DEFINE p == r.parent
           t == Table(p)
           new == EmptyClusters(r)
           n == ClustersNeeded(r)
           first == Write(p, Directory(TableAfterWrite(r)))
           block(i) == IF IsFolder(r)
                       THEN Directory(init_directory_table(r.name, r.parent))
                       ELSE Data(r.text, i)
           middle == [i \in DOMAIN new |-> Write(new[i], block(i))]
           last == Write(1, Fat(FatAfterWrite(r)))
           S == {first, last} \cup {Write(new[i], block(i)) : i \in 1 .. n}
<1>1. /\ r.name \in FileNames /\ r.ext \in Extensions /\ p \in Clusters
      /\ r.size \in 0 .. MaxClusters /\ r.text \in Texts
  BY DEF AnyRequest
<1>2. IsFolderTable(p) /\ FreeEntries(t) # {} /\ ~(Cardinality(FreeClusters) < n)
  BY DEF write_code
<1>3. /\ p > 1 /\ power = "on" /\ disk[2] # Zero /\ IsMap(fat_table)
      /\ IsTable(t) /\ t[0].used /\ t[1].used
      /\ p = 2 => IsRootTable(t)
  BY <1>1, <1>2, FoldersAreBehind
<1>4. n \in 1 .. MaxClusters /\ n \in Nat
  <2>1. MaxClusters \in Nat /\ MaxClusters >= 1
    BY UnusedTyped
  <2>2. r.size \in 0 .. MaxClusters
    BY <1>1
  <2>3. QED
    BY <2>1, <2>2 DEF ClustersNeeded
<1>5. DOMAIN new = 1 .. n /\ \A i \in 1 .. n : new[i] \in Clusters /\ new[i] > 2
  <2>1. fat_table \in [Clusters -> Links] /\ n \in Nat
    BY <1>4, TypesOfDriver
  <2>2. Cardinality(FreeClusters) >= n
    <3>1. FreeClusters \subseteq Clusters
      BY DEF FreeClusters
    <3>2. IsFiniteSet(FreeClusters)
      BY <3>1, ClusterBasics, FS_Subset
    <3>3. Cardinality(FreeClusters) \in Nat
      BY <3>2, FS_CardinalityType
    <3>4. QED
      BY <1>2, <2>1, <3>3
  <2>3. /\ DOMAIN new = 1 .. n
        /\ \A i \in 1 .. n : new[i] \in FreeClusters
    BY <2>1, <2>2, EmptyClustersAreFree
  <2>4. QED
    BY <1>3, <2>3, FreeIsBehind
<1>6. Allowed(first, disk)
  <2> DEFINE i == First(FreeEntries(t))
             e == EntryFor(r, t[i])
  <2>1. i \in FreeEntries(t)
    <3>1. FreeEntries(t) \subseteq Indices
      BY DEF FreeEntries
    <3>2. FreeEntries(t) \subseteq Int
      <4>1. Indices \subseteq Int
        BY ClusterBasics
      <4> HIDE DEF t
      <4>2. QED
        BY <3>1, <4>1
    <3>3. IsFiniteSet(FreeEntries(t))
      BY <3>1, ClusterBasics, FS_Subset
    <3>4. QED
      BY <1>2, <3>2, <3>3, FirstOf
  <2>2. i \in Indices /\ i # 0 /\ i # 1
    BY <1>3, <2>1 DEF FreeEntries
  <2>3. e \in DirectoryEntries /\ e.cluster > 2
    <3>1. t[i].ext \in Extensions
      BY <1>3, <2>2 DEF IsTable, Tables, DirectoryEntries
    <3>2. new[1] \in Clusters /\ new[1] > 2 /\ n \in 0 .. MaxClusters
      BY <1>4, <1>5
    <3>3. IsFolder(r) \in BOOLEAN
      BY DEF IsFolder
    <3> HIDE DEF new, n, i
    <3>4. QED
      BY <1>1, <3>1, <3>2, <3>3 DEF EntryFor, DirectoryEntries, FileNames, new, n
  <2> DEFINE after == TableAfterWrite(r)
  <2>4. after = [t EXCEPT ![i] = e]
    BY DEF TableAfterWrite
  <2> HIDE DEF i, e, t
  <2>5. after \in Tables /\ after[i] = e /\ \A j \in Indices : j # i => after[j] = t[j]
    BY <1>3, <2>2, <2>3, <2>4 DEF IsTable, Tables
  <2> HIDE DEF after
  <2>6. after[0] = t[0] /\ after[1] = t[1]
    BY <2>2, <2>5, ClusterBasics
  <2>7. IsTable(after) /\ (p = 2 => IsRootTable(after))
    BY <1>3, <2>3, <2>5, <2>6 DEF IsTable, IsRootTable
  <2>8. MayHold(p, Directory(after)) /\ Directory(after) # Zero
    <3>1. Directory(after) # Zero
      BY Kinds
    <3> HIDE DEF p
    <3>2. p = 2 \/ p > 2
      <4>1. p \in Nat
        BY <1>1, ClusterBasics
      <4>2. QED
        BY <1>3, <4>1
    <3>3. QED
      BY <2>7, <3>1, <3>2 DEF MayHold
  <2>9. QED
    BY <1>1, <1>3, <2>8 DEF Allowed, Write, after
<1>7. ASSUME NEW i \in 1 .. n
      PROVE  Allowed(Write(new[i], block(i)), disk)
  <2>1. MayHold(new[i], block(i))
    <3>1. CASE IsFolder(r)
      <4> DEFINE init == init_directory_table(r.name, r.parent)
      <4>1. /\ DOMAIN init = Indices
            /\ init[0] = FolderEntry(r.name, p) /\ init[1] = FolderEntry("..", p)
            /\ \A j \in Indices : j > 1 => init[j] = UnusedEntry
        BY ClusterBasics DEF init_directory_table
      <4>2. \A name \in FileNames :
              /\ FolderEntry(name, p) \in DirectoryEntries
              /\ FolderEntry(name, p).used
        BY <1>1, UnusedTyped DEF FolderEntry, UnusedEntry, DirectoryEntries, FileNames
      <4>3. r.name \in FileNames /\ ".." \in FileNames
        BY <1>1 DEF FileNames
      <4> HIDE DEF init
      <4>4. \A j \in Indices : init[j] \in DirectoryEntries
        <5>1. \A j \in Indices : j = 0 \/ j = 1 \/ j > 1
          BY ClusterBasics
        <5>2. QED
          BY <4>1, <4>2, <4>3, <5>1, UnusedTyped
      <4>5. init \in Tables
        <5>1. init = [j \in Indices |-> init[j]]
          BY DEF init, init_directory_table
        <5>2. QED
          BY <4>4, <5>1, FunctionTyped DEF Tables
      <4>6. IsTable(init)
        BY <4>1, <4>2, <4>3, <4>5, UnusedTyped DEF IsTable
      <4>7. QED
        BY <1>5, <3>1, <4>6 DEF MayHold, init
    <3>2. CASE ~IsFolder(r)
      <4>1. i \in 1 .. MaxClusters
        <5>1. MaxClusters \in Nat
          BY UnusedTyped
        <5> HIDE DEF n
        <5>2. QED
          BY <1>4, <5>1
      <4>2. QED
        BY <1>1, <1>5, <3>2, <4>1 DEF MayHold
    <3>3. QED
      BY <3>1, <3>2
  <2> HIDE DEF block, new
  <2>2. QED
    BY <1>3, <1>5, <2>1, ClusterBasics DEF Allowed, Write
<1>8. IsMap(FatAfterWrite(r))
  <2> DEFINE after == FatAfterWrite(r)
  <2>1. ASSUME NEW c \in Clusters
        PROVE  \/ after[c] = fat_table[c] /\ \A i \in 1 .. n : new[i] # c
               \/ c > 2 /\ after[c] \in Links /\ after[c] \notin {1, 2}
    <3>1. CASE \A i \in 1 .. n : new[i] # c
      BY <1>5, <3>1 DEF FatAfterWrite
    <3>2. CASE \E i \in 1 .. n : new[i] = c
      <4> DEFINE i == CHOOSE i \in 1 .. n : new[i] = c
      <4>1. i \in 1 .. n /\ new[i] = c
        BY <3>2
      <4>2. after[c] = IF i = Len(new) THEN FAT32_FAT_END_OF_FILE ELSE new[i + 1]
        BY <1>5, <3>2 DEF FatAfterWrite
      <4>3. Len(new) = n
        <5> HIDE DEF new, n
        <5> QED
          BY <1>4, <1>5, LenIs
      <4> HIDE DEF i
      <4>4. i # n => i + 1 \in 1 .. n
        BY <1>4, <4>1
      <4>5. c > 2 /\ (i # n => new[i + 1] \in Clusters /\ new[i + 1] > 2)
        BY <1>5, <4>1, <4>4
      <4>6. QED
        BY <4>2, <4>3, <4>5, ClusterBasics DEF Links, Clusters, FAT32_FAT_END_OF_FILE
    <3>3. QED
      BY <3>1, <3>2
  <2>2. DOMAIN after = Clusters
    BY DEF FatAfterWrite
  <2> HIDE DEF after
  <2>3. after \in [Clusters -> Links]
    <3>1. fat_table \in [Clusters -> Links]
      BY TypesOfDriver
    <3>2. \A c \in Clusters : after[c] \in Links
      BY <2>1, <3>1
    <3>3. after = [c \in Clusters |-> after[c]]
      BY DEF after, FatAfterWrite
    <3>4. QED
      BY <3>2, <3>3, FunctionTyped
  <2>4. after[0] = fat_table[0] /\ after[1] = fat_table[1] /\ after[2] = fat_table[2]
    BY <2>1, ClusterBasics
  <2>5. QED
    BY <1>3, <2>1, <2>3, <2>4 DEF IsMap, after
<1>9. WriteSteps(r) = <<first>> \o middle \o <<last>>
  BY DEF WriteSteps, FAT_CLUSTER_NUMBER
<1>10. middle \in Seq(S) /\ first \in S /\ last \in S
  <2>1. middle = [i \in 1 .. n |-> Write(new[i], block(i))]
    BY <1>5
  <2>2. n \in Nat
    BY <1>4
  <2>3. \A i \in 1 .. n : middle[i] \in S
    BY <2>1
  <2> HIDE DEF middle, S
  <2>4. middle \in Seq(S)
    BY <2>1, <2>2, <2>3, SeqDef
  <2>5. QED
    BY <2>4 DEF S
<1>11. Allowed(last, disk)
  <2>1. MayHold(1, Fat(FatAfterWrite(r))) /\ Fat(FatAfterWrite(r)) # Zero
    BY <1>8, Kinds DEF MayHold
  <2>2. QED
    BY <2>1, ClusterBasics DEF Allowed, Write
<1>12. \A w \in S : Allowed(w, disk)
  <2> HIDE DEF first, last, block, new
  <2> QED
    BY <1>6, <1>7, <1>11
<1>13. \A w \in S : w.cluster = 1 => w.block = Fat(FatAfterWrite(r))
  <2>1. first.cluster # 1 /\ last.block = Fat(FatAfterWrite(r)) /\ last.cluster = 1
    BY <1>3, <1>1, ClusterBasics DEF Write
  <2>2. \A i \in 1 .. n : Write(new[i], block(i)).cluster # 1
    BY <1>5, ClusterBasics DEF Write
  <2> HIDE DEF first, last, block, new
  <2>3. QED
    BY <2>1, <2>2
<1> HIDE DEF S, middle, first, last
<1>14. /\ WriteSteps(r) \in Seq(S)
       /\ \E i \in 1 .. Len(WriteSteps(r)) : WriteSteps(r)[i] = last
  BY <1>9, <1>10, LastOfThree
<1>15. last.cluster = 1
  BY DEF last, Write
<1>16. QED
  BY <1>8, <1>12, <1>13, <1>14, <1>15, MapAfterSteps DEF AllAllowed

LEMMA LastTwo ==
  ASSUME NEW S, NEW a \in S, NEW z \in S, NEW s \in Seq(S)
  PROVE  /\ s \o <<a, z>> \in Seq(S)
         /\ \E i \in 1 .. Len(s \o <<a, z>>) : (s \o <<a, z>>)[i] = a
<1>1. <<a, z>> \in Seq(S) /\ Len(<<a, z>>) = 2 /\ <<a, z>>[1] = a
  OBVIOUS
<1>2. /\ s \o <<a, z>> \in Seq(S)
      /\ Len(s \o <<a, z>>) = Len(s) + 2
      /\ \A i \in 1 .. Len(s) + 2 :
           (s \o <<a, z>>)[i] = IF i <= Len(s) THEN s[i] ELSE <<a, z>>[i - Len(s)]
  BY <1>1, ConcatProperties
<1>3. Len(s) \in Nat
  BY LenProperties
<1>4. Len(s) + 1 \in 1 .. Len(s \o <<a, z>>) /\ (Len(s) + 1) - Len(s) = 1
  BY <1>2, <1>3
<1>5. (s \o <<a, z>>)[Len(s) + 1] = a
  BY <1>1, <1>2, <1>3, <1>4
<1>6. QED
  BY <1>2, <1>4, <1>5

(* What delete zeroes, whether or not the chain ends, and what it writes   *)
(* then if it does.                                                        *)
LEMMA DeleteIsAllowed ==
  ASSUME DriverInv, NEW r, r.parent \in Clusters, delete_code(r) = 0
  PROVE  /\ disk[2] # Zero
         /\ AllAllowed(ZeroSteps(r), disk)
         /\ EndsProperly(fat_table, DeletedEntry(r).cluster) =>
              /\ AllAllowed(DeleteSteps(r), disk)
              /\ IsMap(FatAfterDelete(r))
              /\ MapIn(write_clusters(DeleteSteps(r), disk)[1]) = FatAfterDelete(r)
<1> DEFINE p == r.parent
           t == Table(p)
           i == First(Deletable(r))
           c0 == DeletedEntry(r).cluster
           freed == ClustersOf(fat_table, c0)
           chain == Chain(fat_table, c0)
           Z == {Write(c, Zero) : c \in freed}
<1>1. IsFolderTable(p) /\ Deletable(r) # {}
  BY DEF delete_code
<1>2. /\ p > 1 /\ power = "on" /\ disk[2] # Zero /\ IsMap(fat_table)
      /\ IsTable(t) /\ (p = 2 => IsRootTable(t))
  BY <1>1, FoldersAreBehind
<1>3. i \in Indices /\ i > 1 /\ t[i].used /\ c0 = t[i].cluster
  <2>1. Deletable(r) \subseteq Indices
    BY DEF Deletable
  <2>2. Deletable(r) \subseteq Int
    <3>1. Indices \subseteq Int
      BY ClusterBasics
    <3>2. QED
      BY <2>1, <3>1
  <2>3. IsFiniteSet(Deletable(r))
    BY <2>1, ClusterBasics, FS_Subset
  <2>4. i \in Deletable(r)
    BY <1>1, <2>2, <2>3, FirstOf
  <2>5. i \in Indices /\ i # 0 /\ i # 1 /\ t[i].used /\ i \in Nat
    BY <2>4, ClusterBasics DEF Deletable, Matches
  <2> HIDE DEF i
  <2>6. i > 1
    BY <2>5
  <2>7. QED
    BY <2>5, <2>6 DEF DeletedEntry, i
<1> HIDE DEF i, c0, t, p
<1>4. c0 \in Clusters /\ c0 > 2
  BY <1>2, <1>3 DEF IsTable, Tables, DirectoryEntries
<1>5. /\ \A c \in freed : c \in Clusters /\ c \notin {1, 2}
      /\ EndsProperly(fat_table, c0) => 0 \notin freed
  BY <1>2, <1>4, ChainAvoids
<1>6. \A w \in Z : Allowed(w, disk) /\ w.cluster # 1
  <2> HIDE DEF freed
  <2>1. ASSUME NEW c \in freed
        PROVE  Allowed(Write(c, Zero), disk) /\ Write(c, Zero).cluster # 1
    BY <1>2, <1>5 DEF Allowed, Write, MayHold
  <2>2. QED
    BY <2>1
<1>7. ZeroSteps(r) \in Seq(Z)
  <2>1. PICK k \in 1 .. CLUSTER_MAP_SIZE + 1 : DOMAIN chain = 1 .. k
    <3>1. fat_table \in [Clusters -> Links]
      BY TypesOfDriver
    <3>2. QED
      BY <1>4, <3>1, ChainVisits
  <2>2. k \in Nat
    BY ClusterBasics
  <2>3. ZeroSteps(r) = [n \in 1 .. k |-> Write(chain[n], Zero)]
    BY <2>1 DEF ZeroSteps, c0
  <2>4. \A n \in 1 .. k : Write(chain[n], Zero) \in Z
    BY <2>1 DEF ClustersOf
  <2> HIDE DEF Z, chain
  <2>5. QED
    BY <2>2, <2>3, <2>4, SeqDef
<1> HIDE DEF Z, freed
<1>8. AllAllowed(ZeroSteps(r), disk)
  BY <1>6, <1>7 DEF AllAllowed
<1>9. ASSUME EndsProperly(fat_table, c0)
      PROVE  /\ AllAllowed(DeleteSteps(r), disk)
             /\ IsMap(FatAfterDelete(r))
             /\ MapIn(write_clusters(DeleteSteps(r), disk)[1]) = FatAfterDelete(r)
  <2> DEFINE map == FatAfterDelete(r)
             after == TableAfterDelete(r)
             a == Write(1, Fat(map))
             z == Write(p, Directory(after))
             S == Z \cup {a, z}
  <2>1. IsMap(map)
    <3>1. /\ map = [c \in Clusters |-> map[c]]
          /\ \A c \in Clusters : map[c] = IF c \in freed THEN 0 ELSE fat_table[c]
      BY DEF FatAfterDelete, FAT32_FAT_EMPTY_ENTRY, freed, c0
    <3> HIDE DEF map
    <3>2. fat_table \in [Clusters -> Links] /\ 0 \in Links
      BY TypesOfDriver, ClusterBasics DEF Links
    <3>3. \A c \in Clusters : map[c] \in Links
      BY <3>1, <3>2
    <3>4. map \in [Clusters -> Links]
      BY <3>1, <3>3, FunctionTyped
    <3>5. map[0] = fat_table[0] /\ map[1] = fat_table[1] /\ map[2] = fat_table[2]
      BY <1>5, <1>9, <3>1, ClusterBasics
    <3>6. QED
      BY <1>2, <3>1, <3>4, <3>5 DEF IsMap
  <2>2. Allowed(a, disk) /\ a.cluster = 1 /\ a.block = Fat(map)
    <3>1. MayHold(1, Fat(map)) /\ Fat(map) # Zero
      BY <2>1, Kinds DEF MayHold
    <3>2. QED
      BY <3>1, ClusterBasics DEF Allowed, Write
  <2>3. IsTable(after) /\ (p = 2 => IsRootTable(after))
    <3>1. after = [t EXCEPT ![i] = UnusedEntry]
      BY DEF TableAfterDelete, Cleared, t, p, i
    <3> HIDE DEF after
    <3>2. /\ after \in Tables /\ after[i] = UnusedEntry
          /\ \A j \in Indices : j # i => after[j] = t[j]
      BY <1>2, <1>3, <3>1, UnusedTyped DEF IsTable, Tables
    <3>3. after[0] = t[0] /\ after[1] = t[1]
      BY <1>3, <3>2, ClusterBasics
    <3>4. QED
      BY <1>2, <3>2, <3>3, UnusedTyped DEF IsTable, IsRootTable
  <2>4. Allowed(z, disk) /\ z.cluster # 1
    <3>1. p \in Clusters /\ p \in Nat
      BY ClusterBasics DEF p
    <3>2. p = 2 \/ p > 2
      BY <1>2, <3>1
    <3>3. MayHold(p, Directory(after)) /\ Directory(after) # Zero
      BY <2>3, <3>2, Kinds DEF MayHold
    <3> HIDE DEF after
    <3>4. QED
      BY <1>2, <3>1, <3>3 DEF Allowed, Write
  <2>5. DeleteSteps(r) = ZeroSteps(r) \o <<a, z>>
    BY DEF DeleteSteps, FAT_CLUSTER_NUMBER, p
  <2> HIDE DEF a, z, map
  <2>6. ZeroSteps(r) \in Seq(S) /\ a \in S /\ z \in S
    <3>1. Z \subseteq S
      OBVIOUS
    <3> HIDE DEF S
    <3>2. ZeroSteps(r) \in Seq(S)
      BY <1>7, <3>1, SeqMonotonic
    <3>3. QED
      BY <3>2 DEF S
  <2>7. (\A w \in S : Allowed(w, disk)) /\ \A w \in S : w.cluster = 1 => w.block = Fat(map)
    BY <1>6, <2>2, <2>4
  <2> HIDE DEF S
  <2>8. /\ DeleteSteps(r) \in Seq(S)
        /\ \E k \in 1 .. Len(DeleteSteps(r)) : DeleteSteps(r)[k] = a
    BY <2>5, <2>6, LastTwo
  <2>9. MapIn(write_clusters(DeleteSteps(r), disk)[1]) = map
    BY <2>2, <2>7, <2>8, MapAfterSteps
  <2>10. QED
    BY <2>1, <2>7, <2>8, <2>9 DEF AllAllowed, map
<1>10. QED
  BY <1>2, <1>8, <1>9 DEF c0

LEMMA FormatIsAllowed ==
  ASSUME DriverInv
  PROVE  AllAllowed(FormatSteps, disk)
<1> DEFINE init == init_directory_table("root", ROOT_CLUSTER_NUMBER)
           a == Write(0, Signature)
           b == Write(1, Fat(FormattedMap))
           c == Write(2, Directory(init))
<1>1. FormatSteps = <<a, b, c>>
  BY DEF FormatSteps, BOOT_SECTOR, FAT_CLUSTER_NUMBER, ROOT_CLUSTER_NUMBER
<1>2. Allowed(a, disk)
  BY Kinds, ClusterBasics DEF Allowed, Write, MayHold
<1>3. Allowed(b, disk)
  <2> DEFINE map == FormattedMap
  <2>1. EmptyMap \in [Clusters -> Links] /\ \A k \in Clusters : EmptyMap[k] = 0
    BY ClusterBasics DEF EmptyMap, FAT32_FAT_EMPTY_ENTRY, Links
  <2>2. {CLUSTER_0_VALUE, CLUSTER_1_VALUE, FAT32_FAT_END_OF_FILE} \subseteq Links
    BY ClusterBasics DEF CLUSTER_0_VALUE, CLUSTER_1_VALUE, FAT32_FAT_END_OF_FILE, Links
  <2>3. /\ map \in [Clusters -> Links]
        /\ map[0] = CLUSTER_0_VALUE /\ map[1] = CLUSTER_1_VALUE
        /\ map[2] = FAT32_FAT_END_OF_FILE
        /\ \A k \in Clusters : k > 2 => map[k] = 0
    <3> DEFINE m1 == [EmptyMap EXCEPT ![0] = CLUSTER_0_VALUE]
               m2 == [m1 EXCEPT ![1] = CLUSTER_1_VALUE]
    <3>1. map = [m2 EXCEPT ![2] = FAT32_FAT_END_OF_FILE]
      BY DEF FormattedMap
    <3>2. /\ m1 \in [Clusters -> Links] /\ m1[0] = CLUSTER_0_VALUE
          /\ \A k \in Clusters : k # 0 => m1[k] = 0
      BY <2>1, <2>2, ClusterBasics
    <3> HIDE DEF m1
    <3>3. /\ m2 \in [Clusters -> Links]
          /\ m2[0] = CLUSTER_0_VALUE /\ m2[1] = CLUSTER_1_VALUE
          /\ \A k \in Clusters : k # 0 /\ k # 1 => m2[k] = 0
      BY <2>2, <3>2, ClusterBasics
    <3> HIDE DEF m2, map
    <3>4. QED
      BY <2>2, <3>1, <3>3, ClusterBasics
  <2> HIDE DEF map
  <2>4. IsMap(map)
    BY <2>3 DEF IsMap
  <2>5. MayHold(1, Fat(map)) /\ Fat(map) # Zero
    BY <2>4, Kinds DEF MayHold
  <2>6. QED
    BY <2>5, ClusterBasics DEF Allowed, Write, map
<1>4. Allowed(c, disk)
  <2>1. \A name \in FileNames : FolderEntry(name, 2) \in DirectoryEntries
                                /\ FolderEntry(name, 2).used
    BY ClusterBasics, UnusedTyped DEF FolderEntry, UnusedEntry, DirectoryEntries, FileNames
  <2>2. /\ init = [j \in Indices |-> init[j]]
        /\ init[0] = FolderEntry("root", 2) /\ init[1] = FolderEntry("..", 2)
        /\ \A j \in Indices : j > 1 => init[j] = UnusedEntry
    BY ClusterBasics DEF init_directory_table, ROOT_CLUSTER_NUMBER
  <2>3. \A j \in Indices : j = 0 \/ j = 1 \/ j > 1
    BY ClusterBasics
  <2>4. "root" \in FileNames /\ ".." \in FileNames
    BY DEF FileNames
  <2> HIDE DEF init
  <2>5. init \in Tables
    <3>1. \A j \in Indices : init[j] \in DirectoryEntries
      BY <2>1, <2>2, <2>3, <2>4, UnusedTyped
    <3>2. QED
      BY <2>2, <3>1, FunctionTyped DEF Tables
  <2>6. IsRootTable(init)
    BY <2>1, <2>2, <2>4, <2>5, UnusedTyped DEF IsTable, IsRootTable, ROOT_CLUSTER_NUMBER
  <2>7. MayHold(2, Directory(init)) /\ Directory(init) # Zero
    BY <2>6, Kinds DEF MayHold
  <2>8. QED
    BY <2>7, ClusterBasics DEF Allowed, Write
<1> HIDE DEF a, b, c
<1> DEFINE S == {a, b, c}
<1>5. <<a, b, c>> \in Seq(S)
  OBVIOUS
<1>6. \A w \in S : Allowed(w, disk)
  BY <1>2, <1>3, <1>4
<1> HIDE DEF S
<1>7. QED
  BY <1>1, <1>5, <1>6 DEF AllAllowed

-----------------------------------------------------------------------------
(* The steps of the driver.                                                *)

LEMMA DriverStarts ==
  ASSUME DriverInv, initialize_filesystem_fat32
  PROVE  DriverInv'
<1>1. DiskInv(write_clusters(FormatSteps, disk))
  BY FormatIsAllowed, StepsKeepTheDisk DEF DriverInv
<1>2. DiskInv(disk')
  BY <1>1 DEF initialize_filesystem_fat32, DriverInv
<1>3. MemoryInv(disk', fat_table', power')
  BY DEF initialize_filesystem_fat32, MemoryInv, FAT_CLUSTER_NUMBER
<1>4. QED
  BY <1>2, <1>3 DEF DriverInv, initialize_filesystem_fat32

LEMMA DriverWrites ==
  ASSUME DriverInv, NEW r \in AnyRequest, write(r)
  PROVE  DriverInv'
<1>1. /\ AllAllowed(WriteSteps(r), disk)
      /\ MapIn(write_clusters(WriteSteps(r), disk)[1]) = FatAfterWrite(r)
  BY WriteIsAllowed DEF write
<1>2. DiskInv(disk')
  BY <1>1, StepsKeepTheDisk DEF DriverInv, write
<1>3. MemoryInv(disk', fat_table', power')
  BY <1>1 DEF write, MemoryInv
<1>4. QED
  BY <1>2, <1>3 DEF DriverInv, write

LEMMA DriverDeletes ==
  ASSUME DriverInv, NEW r, r.parent \in Clusters, delete(r) \/ DeleteLost(r)
  PROVE  DriverInv'
<1>1. CASE delete(r)
  <2>1. /\ AllAllowed(DeleteSteps(r), disk)
        /\ MapIn(write_clusters(DeleteSteps(r), disk)[1]) = FatAfterDelete(r)
    BY <1>1, DeleteIsAllowed DEF delete
  <2>2. DiskInv(disk')
    BY <1>1, <2>1, StepsKeepTheDisk DEF DriverInv, delete
  <2>3. MemoryInv(disk', fat_table', power')
    BY <1>1, <2>1 DEF delete, MemoryInv
  <2>4. QED
    BY <1>1, <2>2, <2>3 DEF DriverInv, delete
<1>2. CASE DeleteLost(r)
  <2>1. AllAllowed(ZeroSteps(r), disk)
    BY <1>2, DeleteIsAllowed DEF DeleteLost
  <2>2. DiskInv(disk')
    BY <1>2, <2>1, StepsKeepTheDisk DEF DriverInv, DeleteLost
  <2>3. MemoryInv(disk', fat_table', power')
    BY <1>2 DEF DeleteLost, MemoryInv
  <2>4. QED
    BY <1>2, <2>2, <2>3 DEF DriverInv, DeleteLost
<1>3. QED
  BY <1>1, <1>2

LEMMA DriverStops ==
  ASSUME DriverInv,
         \/ PowerOff
         \/ CrashInFormat
         \/ \E r \in AnyRequest : CrashInWrite(r)
         \/ \E r : r.parent \in Clusters /\ CrashInDelete(r)
  PROVE  DriverInv'
<1>1. CASE PowerOff
  BY <1>1 DEF PowerOff, DriverInv, MemoryInv
<1>2. CASE CrashInFormat
  BY <1>2, FormatIsAllowed, StopKeepsTheDisk DEF CrashInFormat
<1>3. ASSUME NEW r \in AnyRequest, CrashInWrite(r)
      PROVE  DriverInv'
  BY <1>3, WriteIsAllowed, StopKeepsTheDisk DEF CrashInWrite
<1>4. ASSUME NEW r, r.parent \in Clusters, CrashInDelete(r)
      PROVE  DriverInv'
  BY <1>4, DeleteIsAllowed, StopKeepsTheDisk DEF CrashInDelete
<1>5. QED
  BY <1>1, <1>2, <1>3, <1>4

LEMMA DriverStays ==
  ASSUME DriverInv, UNCHANGED vars
  PROVE  DriverInv'
BY DEF vars, DriverInv

LEMMA RequestsAreAny ==
  /\ Requests \subseteq AnyRequest
  /\ \A r \in Targets : r.parent \in Clusters
BY Fat32Assumption DEF Requests, AnyRequest, Targets, FileNames

LEMMA DriverStep ==
  ASSUME DriverInv, [Next]_vars
  PROVE  DriverInv'
<1>1. CASE initialize_filesystem_fat32
  BY <1>1, DriverStarts
<1>2. CASE \E r \in Requests : write(r)
  BY <1>2, DriverWrites, RequestsAreAny
<1>3. CASE \E r \in Targets : delete(r) \/ DeleteLost(r)
  BY <1>3, DriverDeletes, RequestsAreAny
<1>4. CASE PowerOff \/ CrashInFormat
  BY <1>4, DriverStops
<1>5. CASE \E r \in Requests : CrashInWrite(r)
  BY <1>5, DriverStops, RequestsAreAny
<1>6. CASE \E r \in Targets : CrashInDelete(r)
  BY <1>6, DriverStops, RequestsAreAny
<1>7. CASE UNCHANGED vars
  BY <1>7, DriverStays
<1>8. QED
  BY <1>1, <1>2, <1>3, <1>4, <1>5, <1>6, <1>7 DEF Next

LEMMA DriverInit == Init => DriverInv
<1>1. SUFFICES ASSUME Init
               PROVE  DriverInv
  OBVIOUS
<1>2. DiskInv(disk)
  BY <1>1, ClusterBasics DEF Init, DiskInv, MayHold
<1>3. crashes \in 0 .. CrashBound
  <2>1. CrashBound \in Nat
    BY Fat32Assumption, Zenon
  <2>2. QED
    BY <1>1, <2>1 DEF Init
<1>4. QED
  BY <1>1, <1>2, <1>3 DEF Init, DriverInv, MemoryInv

LEMMA DriverTyped ==
  ASSUME DriverInv
  PROVE  TypeOK
<1>1. ASSUME NEW c \in Clusters
      PROVE  LET b == disk[c] IN
             CASE b.kind = "fat"       -> b.map \in [Clusters -> Links]
               [] b.kind = "directory" -> b.table \in [Indices -> DirectoryEntries]
               [] OTHER -> b \in {Zero, Signature} \cup
                            {Data(t, n) : t \in Texts, n \in 1 .. MaxClusters}
  <2>1. MayHold(c, disk[c])
    BY DEF DriverInv, DiskInv
  <2> DEFINE b == disk[c]
  <2>2. CASE b.kind = "fat"
    BY <2>1, <2>2, Kinds DEF MayHold, IsMap
  <2>3. CASE b.kind = "directory"
    BY <2>1, <2>3, Kinds DEF MayHold, IsTable, IsRootTable, Tables
  <2>4. CASE b.kind # "fat" /\ b.kind # "directory"
    BY <2>1, <2>4, Kinds DEF MayHold
  <2>5. QED
    BY <2>2, <2>3, <2>4
<1>2. QED
  BY <1>1, TypesOfDriver DEF TypeOK, DriverInv, DiskInv

(* fat32.c: however many requests are made and wherever the machine stops, *)
(* cluster 1 holds an allocation table whose reserved entries are those of *)
(* create_fat32, cluster 2 the root with both its reserved entries, and no *)
(* entry and no link of the disk leads to a reserved cluster, but for a    *)
(* link to a free cluster.  The theorem of which the others are a part.    *)
THEOREM DriverIsSound == Spec => []DriverInv
<1>1. Init => DriverInv
  BY DriverInit
<1>2. DriverInv /\ [Next]_vars => DriverInv'
  BY DriverStep
<1>3. QED
  BY <1>1, <1>2, PTL DEF Spec

(* Every cluster of the disk, whole or torn, holds what the driver can     *)
(* read as a table, a directory or text.                                   *)
THEOREM DriverTypes == Spec => []TypeOK
<1>1. DriverInv => TypeOK
  BY DriverTyped
<1>2. QED
  BY <1>1, DriverIsSound, PTL

(* write and delete change the cached allocation table before that on the  *)
(* disk, and the cache is read once, at the start: after every request the *)
(* two agree, whatever happened before the last start.                     *)
CacheIsWrittenThrough == power = "on" => fat_table = FatOnDisk

THEOREM CacheAgrees == Spec => []CacheIsWrittenThrough
<1>1. DriverInv => CacheIsWrittenThrough
  BY DEF DriverInv, MemoryInv, CacheIsWrittenThrough, FatOnDisk, FAT_CLUSTER_NUMBER
<1>2. QED
  BY <1>1, DriverIsSound, PTL

LEMMA NoRootNoFolder ==
  ASSUME DriverInv, Table(ROOT_CLUSTER_NUMBER)[0] = UnusedEntry,
         NEW c \in Clusters, IsFolderTable(c)
  PROVE  FALSE
<1>1. disk[2] # Zero
  BY FoldersAreBehind
<1>2. MayHold(2, disk[2])
  BY ClusterBasics DEF DriverInv, DiskInv
<1>3. PICK t : IsRootTable(t) /\ disk[2] = Directory(t)
  BY <1>1, <1>2 DEF MayHold
<1>4. Table(2) = t
  BY <1>3, Kinds DEF Table, TableIn
<1>5. FolderEntry("root", 2).used /\ ~UnusedEntry.used
  BY DEF FolderEntry, UnusedEntry
<1>6. QED
  BY <1>3, <1>4, <1>5 DEF IsRootTable, ROOT_CLUSTER_NUMBER

(* create_fat32 writes the signature first: a disk on which it stopped     *)
(* before the root is never written to again, for without a root no other  *)
(* cluster passes for a folder to name as a parent.                        *)
THEOREM HalfFormatted == Spec => HalfFormattedIsForGood
<1> DEFINE P == power = "on" /\ Table(ROOT_CLUSTER_NUMBER)[0] = UnusedEntry
<1>1. ASSUME DriverInv, [Next]_vars, P
      PROVE  disk' = disk
  <2>1. \A c \in Clusters : ~IsFolderTable(c)
    BY <1>1, NoRootNoFolder
  <2>2. \A r : r.parent \in Clusters => write_code(r) # 0 /\ delete_code(r) # 0
    BY <2>1 DEF write_code, delete_code
  <2>3. \A r \in Requests \cup Targets : r.parent \in Clusters
    BY RequestsAreAny DEF AnyRequest
  <2>4. \A r \in Requests : ~write(r) /\ ~CrashInWrite(r)
    BY <2>2, <2>3 DEF write, CrashInWrite
  <2>5. \A r \in Targets : ~delete(r) /\ ~DeleteLost(r) /\ ~CrashInDelete(r)
    BY <2>2, <2>3 DEF delete, DeleteLost, CrashInDelete
  <2>6. ~initialize_filesystem_fat32 /\ ~CrashInFormat
    BY <1>1 DEF initialize_filesystem_fat32, CrashInFormat
  <2>7. PowerOff \/ UNCHANGED vars
    BY <1>1, <2>4, <2>5, <2>6 DEF Next
  <2>8. QED
    BY <2>7 DEF PowerOff, vars
<1>2. DriverInv /\ [Next]_vars => [P => disk' = disk]_vars
  BY <1>1
<1>3. [][P => disk' = disk]_vars => HalfFormattedIsForGood
  BY DEF HalfFormattedIsForGood
<1>4. QED
  BY <1>2, <1>3, DriverIsSound, PTL DEF Spec

=============================================================================
