----------------------------- MODULE TreeProofs -----------------------------
(***************************************************************************)
(* The tree on the disk, for every size of the disk and of its tables: as  *)
(* long as the machine did not stop inside a request, the entries own      *)
(* their clusters, each of its own, and all folders hang on the root.      *)
(*                                                                         *)
(* First chains: which links a chain depends on, and the chain that write  *)
(* makes.  Then the invariant, on a disk as a value, and what one write    *)
(* and one delete do to it.  Then the folders that a walk from the root    *)
(* finds, and the properties.                                              *)
(***************************************************************************)
EXTENDS FilesProofs

-----------------------------------------------------------------------------
(* Chains.                                                                 *)

LEMMA RangeSize ==
  ASSUME NEW n \in Nat
  PROVE  IsFiniteSet(0 .. n) /\ Cardinality(0 .. n) = n + 1
<1>1. 0 \in Int /\ n \in Int
  OBVIOUS
<1>2. IsFiniteSet(0 .. n)
  BY <1>1, FS_Interval
<1>3. Cardinality(0 .. n) = IF 0 > n THEN 0 ELSE n - 0 + 1
  BY <1>1, FS_Interval
<1>4. QED
  BY <1>2, <1>3

(* A chain is the walk as far as it stays in the table.                    *)
LEMMA ChainIsWalk ==
  ASSUME NEW map \in [Clusters -> Links], NEW cluster \in Clusters
  PROVE  LET chain == Chain(map, cluster)
             w == Walk(map, cluster)
         IN /\ Len(chain) \in 1 .. CLUSTER_MAP_SIZE + 1
            /\ DOMAIN chain = 1 .. Len(chain)
            /\ \A i \in 1 .. Len(chain) :
                 /\ i - 1 \in 0 .. CLUSTER_MAP_SIZE
                 /\ chain[i] = w[i - 1]
                 /\ chain[i] \in Clusters
            /\ \A n \in 0 .. CLUSTER_MAP_SIZE :
                 w[n] \in Clusters => n + 1 \in 1 .. Len(chain)
<1> DEFINE chain == Chain(map, cluster)
           w == Walk(map, cluster)
           N == CLUSTER_MAP_SIZE
           S == {n \in DOMAIN w : w[n] \in Clusters}
<1>1. N \in Nat /\ cluster \in Links
  BY ClusterBasics DEF Clusters, Links
<1>2. PICK k \in 1 .. N + 1 :
        /\ DOMAIN chain = 1 .. k
        /\ \A i \in 1 .. k : /\ i - 1 \in 0 .. N
                             /\ chain[i] = w[i - 1]
                             /\ chain[i] \in Clusters
  BY ChainVisits
<1>3. DOMAIN w = 0 .. N
  BY <1>1, WalkUnfolds
<1>4. chain = [i \in 1 .. Cardinality(S) |-> w[i - 1]]
  BY DEF Chain
<1>5. \A n \in 0 .. N, m \in 0 .. N : m <= n /\ w[n] \in Clusters => w[m] \in Clusters
  <2>1. ASSUME NEW n \in 0 .. N, NEW m \in 0 .. N, m <= n, w[m] \notin Clusters
        PROVE  w[n] = w[m]
    <3>1. n \in m .. N
      BY <1>1, <2>1
    <3>2. QED
      BY <1>1, <2>1, <3>1, WalkStaysOut
  <2>2. QED
    BY <2>1
<1> HIDE DEF chain, w
<1>6. Len(chain) = k
  BY <1>1, <1>2, LenIs
<1>7. IsFiniteSet(S) /\ Cardinality(S) \in Nat
  <2>1. IsFiniteSet(0 .. N)
    BY <1>1, RangeSize
  <2>2. S \subseteq 0 .. N
    BY <1>3
  <2>3. IsFiniteSet(S)
    BY <2>1, <2>2, FS_Subset
  <2>4. QED
    BY <2>3, FS_CardinalityType
<1>8. Cardinality(S) = k
  <2> HIDE DEF S
  <2>1. DOMAIN chain = 1 .. Cardinality(S)
    BY <1>4
  <2>2. 1 .. k = 1 .. Cardinality(S)
    BY <1>2, <2>1
  <2>3. Cardinality(S) \in Nat /\ k \in Nat
    BY <1>1, <1>7
  <2>4. QED
    BY <2>2, <2>3
<1>9. ASSUME NEW n \in 0 .. N, w[n] \in Clusters
      PROVE  n + 1 \in 1 .. k
  <2>1. 0 .. n \subseteq S
    BY <1>1, <1>3, <1>5, <1>9
  <2> HIDE DEF S
  <2>2. Cardinality(0 .. n) = n + 1 /\ n \in Nat
    BY <1>1, RangeSize
  <2>3. Cardinality(0 .. n) <= Cardinality(S)
    BY <1>7, <2>1, FS_Subset
  <2>4. QED
    BY <1>1, <1>8, <2>2, <2>3
<1>10. QED
  BY <1>2, <1>6, <1>9 DEF chain, w

LEMMA OfChain ==
  ASSUME NEW map \in [Clusters -> Links], NEW cluster \in Clusters
  PROVE  /\ \A c \in ClustersOf(map, cluster) :
              /\ c \in Clusters
              /\ \E n \in 0 .. CLUSTER_MAP_SIZE : c = Walk(map, cluster)[n]
         /\ \A n \in 0 .. CLUSTER_MAP_SIZE :
              Walk(map, cluster)[n] \in Clusters
              => Walk(map, cluster)[n] \in ClustersOf(map, cluster)
         /\ cluster \in ClustersOf(map, cluster)
         /\ \A i \in 1 .. Len(Chain(map, cluster)) :
              Chain(map, cluster)[i] \in ClustersOf(map, cluster)
<1> DEFINE chain == Chain(map, cluster)
           w == Walk(map, cluster)
           N == CLUSTER_MAP_SIZE
<1>1. /\ DOMAIN chain = 1 .. Len(chain)
      /\ Len(chain) \in 1 .. N + 1
      /\ \A i \in 1 .. Len(chain) : i - 1 \in 0 .. N /\ chain[i] = w[i - 1] /\ chain[i] \in Clusters
      /\ \A n \in 0 .. N : w[n] \in Clusters => n + 1 \in 1 .. Len(chain)
  BY ChainIsWalk
<1>2. N \in Nat /\ cluster \in Links
  BY ClusterBasics DEF Clusters, Links
<1>3. w[0] = cluster
  BY <1>2, WalkUnfolds
<1>4. ClustersOf(map, cluster) = {chain[i] : i \in DOMAIN chain}
  BY DEF ClustersOf
<1> HIDE DEF chain, w
<1>5. ASSUME NEW n \in 0 .. N, w[n] \in Clusters
      PROVE  w[n] \in ClustersOf(map, cluster)
  <2>1. n + 1 \in DOMAIN chain /\ (n + 1) - 1 = n
    BY <1>1, <1>2, <1>5
  <2>2. chain[n + 1] = w[n]
    BY <1>1, <2>1
  <2>3. QED
    BY <1>4, <2>1, <2>2
<1>6. 0 \in 0 .. N
  BY <1>2
<1>7. QED
  BY <1>1, <1>3, <1>4, <1>5, <1>6 DEF chain, w

(* A chain depends on the links of its own clusters and on no other.       *)
LEMMA SameChain ==
  ASSUME NEW map \in [Clusters -> Links], NEW other \in [Clusters -> Links],
         NEW cluster \in Clusters,
         \A c \in ClustersOf(map, cluster) : other[c] = map[c]
  PROVE  /\ Walk(other, cluster) = Walk(map, cluster)
         /\ Chain(other, cluster) = Chain(map, cluster)
         /\ ClustersOf(other, cluster) = ClustersOf(map, cluster)
         /\ EndsProperly(other, cluster) <=> EndsProperly(map, cluster)
<1> DEFINE v == Walk(other, cluster)
           w == Walk(map, cluster)
           N == CLUSTER_MAP_SIZE
           S == {n \in 0 .. N : v[n] = w[n]}
<1>1. N \in Nat /\ cluster \in Links
  BY ClusterBasics DEF Clusters, Links
<1>2. /\ w \in [0 .. N -> Links] /\ w[0] = cluster
      /\ \A n \in 1 .. N : w[n] = IF w[n - 1] \in Clusters THEN map[w[n - 1]] ELSE w[n - 1]
  <2>1. map \in [Clusters -> Links] /\ cluster \in Links
    BY <1>1
  <2> HIDE DEF N
  <2>2. QED
    BY <2>1, WalkUnfolds DEF N
<1>3. /\ v \in [0 .. N -> Links] /\ v[0] = cluster
      /\ \A n \in 1 .. N : v[n] = IF v[n - 1] \in Clusters THEN other[v[n - 1]] ELSE v[n - 1]
  <2>1. other \in [Clusters -> Links] /\ cluster \in Links
    BY <1>1
  <2> HIDE DEF N
  <2>2. QED
    BY <2>1, WalkUnfolds DEF N
<1>4. \A n \in 0 .. N : w[n] \in Clusters => other[w[n]] = map[w[n]]
  BY OfChain
<1> HIDE DEF v, w
<1>5. 0 \in S
  BY <1>1, <1>2, <1>3
<1>6. ASSUME NEW n \in 0 .. N - 1, n \in S
      PROVE  n + 1 \in S
  <2>1. n + 1 \in 1 .. N /\ (n + 1) - 1 = n /\ n \in 0 .. N /\ n + 1 \in 0 .. N
    BY <1>1
  <2>2. v[n] = w[n]
    BY <1>6
  <2>3. v[n + 1] = w[n + 1]
    BY <1>2, <1>3, <1>4, <2>1, <2>2
  <2>4. QED
    BY <2>1, <2>3
<1>7. 0 .. N \subseteq S
  <2> HIDE DEF S
  <2> QED
    BY <1>1, <1>5, <1>6, UpTo
<1>8. v = w
  <2>1. \A n \in 0 .. N : v[n] = w[n]
    BY <1>7
  <2>2. v \in [0 .. N -> Links] /\ w \in [0 .. N -> Links]
    BY <1>2, <1>3
  <2>3. v = [n \in 0 .. N |-> v[n]] /\ w = [n \in 0 .. N |-> w[n]]
    BY <2>2
  <2> HIDE DEF S, N
  <2>4. [n \in 0 .. N |-> v[n]] = [n \in 0 .. N |-> w[n]]
    BY <2>1
  <2>5. QED
    BY <2>3, <2>4
<1>9. Walk(other, cluster) = Walk(map, cluster)
  BY <1>8 DEF v, w
<1>10. Chain(other, cluster) = Chain(map, cluster)
  BY <1>9 DEF Chain
<1>11. QED
  BY <1>9, <1>10 DEF ClustersOf, EndsProperly

(* The chain that write makes of k clusters.                               *)
LEMMA NewChain ==
  ASSUME NEW map \in [Clusters -> Links], NEW k \in 1 .. CLUSTER_MAP_SIZE,
         NEW new \in [1 .. k -> Clusters],
         \A i \in 1 .. k : map[new[i]] = IF i = k THEN FAT32_FAT_END_OF_FILE ELSE new[i + 1]
  PROVE  /\ EndsProperly(map, new[1])
         /\ Len(Chain(map, new[1])) = k
         /\ \A i \in 1 .. k : Chain(map, new[1])[i] = new[i]
         /\ \A c : c \in ClustersOf(map, new[1]) <=> \E i \in 1 .. k : c = new[i]
<1> DEFINE w == Walk(map, new[1])
           chain == Chain(map, new[1])
           N == CLUSTER_MAP_SIZE
           S == {n \in 0 .. N : w[n] = IF n < k THEN new[n + 1] ELSE N}
<1>1. N \in Nat /\ 1 \in 1 .. k /\ new[1] \in Clusters /\ new[1] \in Links
  <2>1. N \in Nat /\ k >= 1 /\ k \in Nat
    BY ClusterBasics
  <2>2. 1 \in 1 .. k
    BY <2>1
  <2>3. new[1] \in Clusters
    BY <2>2
  <2>4. \A c \in Clusters : c \in Links
    BY <2>1 DEF Clusters, Links
  <2>5. new[1] \in Links
    BY <2>3, <2>4
  <2> HIDE DEF w, chain, S
  <2>6. QED
    BY <2>1, <2>2, <2>3, <2>5
<1>2. /\ w[0] = new[1]
      /\ \A n \in 1 .. N : w[n] = IF w[n - 1] \in Clusters THEN map[w[n - 1]] ELSE w[n - 1]
  <2>1. map \in [Clusters -> Links] /\ new[1] \in Links
    BY <1>1
  <2> DEFINE c == new[1]
  <2>2. map \in [Clusters -> Links] /\ c \in Links
    BY <2>1
  <2> HIDE DEF c, N
  <2>3. /\ Walk(map, c)[0] = c
        /\ \A n \in 1 .. CLUSTER_MAP_SIZE :
             Walk(map, c)[n] = IF Walk(map, c)[n - 1] \in Clusters
                               THEN map[Walk(map, c)[n - 1]] ELSE Walk(map, c)[n - 1]
    BY <2>2, WalkUnfolds
  <2>4. QED
    BY <2>3 DEF N, c
<1>3. /\ DOMAIN chain = 1 .. Len(chain)
      /\ Len(chain) \in 1 .. N + 1
      /\ \A i \in 1 .. Len(chain) : i - 1 \in 0 .. N /\ chain[i] = w[i - 1] /\ chain[i] \in Clusters
      /\ \A n \in 0 .. N : w[n] \in Clusters => n + 1 \in 1 .. Len(chain)
  <2> DEFINE c == new[1]
  <2>1. c \in Clusters
    BY <1>1
  <2> HIDE DEF c, N
  <2>2. /\ DOMAIN Chain(map, c) = 1 .. Len(Chain(map, c))
        /\ Len(Chain(map, c)) \in 1 .. CLUSTER_MAP_SIZE + 1
        /\ \A i \in 1 .. Len(Chain(map, c)) :
             /\ i - 1 \in 0 .. CLUSTER_MAP_SIZE
             /\ Chain(map, c)[i] = Walk(map, c)[i - 1]
             /\ Chain(map, c)[i] \in Clusters
        /\ \A n \in 0 .. CLUSTER_MAP_SIZE :
             Walk(map, c)[n] \in Clusters => n + 1 \in 1 .. Len(Chain(map, c))
    BY <2>1, ChainIsWalk
  <2>3. QED
    BY <2>2 DEF N, c
<1>4. N \notin Clusters
  BY <1>1 DEF Clusters
<1> HIDE DEF w, chain
<1>5. 0 \in S
  BY <1>1, <1>2
<1>6. ASSUME NEW n \in 0 .. N - 1, n \in S
      PROVE  n + 1 \in S
  <2>1. n + 1 \in 1 .. N /\ (n + 1) - 1 = n /\ n + 1 \in 0 .. N
    BY <1>1
  <2>2. w[n + 1] = IF w[n] \in Clusters THEN map[w[n]] ELSE w[n]
    BY <1>2, <2>1
  <2>3. CASE n < k
    <3>1. n + 1 \in 1 .. k /\ w[n] = new[n + 1]
      BY <1>1, <1>6, <2>3
    <3>2. w[n + 1] = IF n + 1 = k THEN N ELSE new[(n + 1) + 1]
      BY <2>2, <3>1 DEF FAT32_FAT_END_OF_FILE
    <3>3. QED
      BY <2>1, <3>1, <3>2
  <2>4. CASE ~(n < k)
    <3>1. w[n] = N /\ ~(n + 1 < k)
      BY <1>1, <1>6, <2>4
    <3>2. QED
      BY <1>4, <2>1, <2>2, <3>1
  <2>5. QED
    BY <2>3, <2>4
<1>7. 0 .. N \subseteq S
  <2> HIDE DEF S
  <2> QED
    BY <1>1, <1>5, <1>6, UpTo
<1>8. \A n \in 0 .. N : w[n] = IF n < k THEN new[n + 1] ELSE N
  BY <1>7
<1>9. w[N] = N
  BY <1>1, <1>8
<1>10. Len(chain) = k
  <2>1. k <= Len(chain)
    <3>1. k - 1 \in 0 .. N /\ k - 1 < k /\ (k - 1) + 1 = k /\ k \in 1 .. k
      BY <1>1
    <3>2. w[k - 1] \in Clusters
      BY <1>8, <3>1
    <3>3. k \in 1 .. Len(chain)
      BY <1>3, <3>1, <3>2
    <3>4. QED
      BY <1>3, <3>3
  <2>2. CASE Len(chain) > k
    <3>1. k + 1 \in 1 .. Len(chain) /\ (k + 1) - 1 = k
      BY <1>3, <2>2
    <3>2. k \in 0 .. N /\ w[k] \in Clusters
      BY <1>3, <3>1
    <3>3. QED
      BY <1>4, <1>8, <3>2
  <2> HIDE DEF S
  <2>3. Len(chain) \in Nat /\ k \in Nat
    BY <1>1, <1>3
  <2>4. QED
    BY <2>1, <2>2, <2>3
<1>11. \A i \in 1 .. k : chain[i] = new[i]
  <2>1. ASSUME NEW i \in 1 .. k
        PROVE  chain[i] = new[i]
    <3>1. i - 1 \in 0 .. N /\ i - 1 < k /\ (i - 1) + 1 = i /\ chain[i] = w[i - 1]
      BY <1>3, <1>10
    <3>2. QED
      BY <1>8, <3>1
  <2>2. QED
    BY <2>1
<1>12. ClustersOf(map, new[1]) = {chain[i] : i \in 1 .. k}
  BY <1>3, <1>10 DEF ClustersOf, chain
<1>13. \A c : c \in ClustersOf(map, new[1]) <=> \E i \in 1 .. k : c = new[i]
  BY <1>11, <1>12
<1>14. QED
  BY <1>9, <1>10, <1>11, <1>13 DEF w, chain, EndsProperly, FAT32_FAT_END_OF_FILE

LEMMA OneCluster ==
  ASSUME NEW map \in [Clusters -> Links], NEW c \in Clusters,
         map[c] = FAT32_FAT_END_OF_FILE
  PROVE  /\ EndsProperly(map, c)
         /\ Len(Chain(map, c)) = 1 /\ Chain(map, c)[1] = c
         /\ ClustersOf(map, c) = {c}
<1>1. ASSUME NEW k \in 1 .. CLUSTER_MAP_SIZE, k = 1
      PROVE  /\ EndsProperly(map, c)
             /\ Len(Chain(map, c)) = 1 /\ Chain(map, c)[1] = c
             /\ ClustersOf(map, c) = {c}
  <2> DEFINE new == [i \in 1 .. k |-> c]
  <2>1. 1 .. k = {1}
    BY <1>1
  <2>7. new \in [1 .. k -> Clusters]
    OBVIOUS
  <2>3. new[1] = c
    BY <2>1
  <2> HIDE DEF new
  <2>2. \A i \in 1 .. k : map[new[i]] = IF i = k THEN FAT32_FAT_END_OF_FILE ELSE new[i + 1]
    <3>1. \A i \in 1 .. k : i = k /\ new[i] = c
      BY <1>1, <2>1, <2>3
    <3>2. QED
      BY <3>1
  <2>4. /\ EndsProperly(map, new[1])
        /\ Len(Chain(map, new[1])) = k
        /\ \A i \in 1 .. k : Chain(map, new[1])[i] = new[i]
        /\ \A x : x \in ClustersOf(map, new[1]) <=> \E i \in 1 .. k : x = new[i]
    BY <2>2, <2>7, NewChain
  <2>5. ClustersOf(map, c) = {c}
    BY <1>1, <2>1, <2>3, <2>4
  <2>6. QED
    BY <1>1, <2>1, <2>3, <2>4, <2>5
<1>2. 1 \in 1 .. CLUSTER_MAP_SIZE
  BY ClusterBasics
<1>3. QED
  BY <1>1, <1>2

-----------------------------------------------------------------------------
(* What the writes of a request leave where.                               *)

LEMMA ApartWrites ==
  ASSUME NEW n \in Nat, NEW steps, DOMAIN steps = 1 .. n, NEW d,
         \A i, j \in 1 .. n : steps[i].cluster = steps[j].cluster => i = j
  PROVE  /\ DOMAIN write_clusters(steps, d) = Clusters
         /\ \A i \in 1 .. n : steps[i].cluster \in Clusters =>
              write_clusters(steps, d)[steps[i].cluster] = steps[i].block
         /\ \A c \in Clusters : (\A i \in 1 .. n : steps[i].cluster # c) =>
              write_clusters(steps, d)[c] = d[c]
<1> DEFINE after == write_clusters(steps, d)
<1>1. \A c \in Clusters :
        \/ /\ \A i \in 1 .. n : steps[i].cluster # c
           /\ after[c] = d[c]
        \/ \E i \in 1 .. n : steps[i].cluster = c /\ after[c] = steps[i].block
  BY Written
<1>2. DOMAIN after = Clusters
  BY DEF write_clusters
<1> HIDE DEF after
<1>3. ASSUME NEW i \in 1 .. n, steps[i].cluster \in Clusters
      PROVE  after[steps[i].cluster] = steps[i].block
  <2>1. PICK j \in 1 .. n : /\ steps[j].cluster = steps[i].cluster
                            /\ after[steps[i].cluster] = steps[j].block
    BY <1>1, <1>3
  <2>2. j = i
    BY <2>1
  <2>3. QED
    BY <2>1, <2>2
<1>4. \A c \in Clusters : (\A i \in 1 .. n : steps[i].cluster # c) => after[c] = d[c]
  BY <1>1
<1>5. QED
  BY <1>2, <1>3, <1>4 DEF after

(* The clusters that write takes are as many different ones.               *)
LEMMA EmptyClustersApart ==
  ASSUME NEW r, ClustersNeeded(r) \in Nat, fat_table \in [Clusters -> Links],
         Cardinality(FreeClusters) >= ClustersNeeded(r),
         NEW i \in 1 .. ClustersNeeded(r), NEW j \in 1 .. ClustersNeeded(r),
         EmptyClusters(r)[i] = EmptyClusters(r)[j]
  PROVE  i = j
<1>1. FreeClusters \subseteq Int /\ IsFiniteSet(FreeClusters)
  <2>1. FreeClusters \subseteq Clusters
    BY DEF FreeClusters
  <2>2. FreeClusters \subseteq Int
    BY <2>1, ClusterBasics
  <2>3. IsFiniteSet(FreeClusters)
    BY <2>1, ClusterBasics, FS_Subset
  <2>4. QED
    BY <2>2, <2>3
<1>2. ASSUME NEW k \in 1 .. ClustersNeeded(r)
      PROVE  Cardinality(Below(FreeClusters, EmptyClusters(r)[k])) = k - 1
  <2>1. k \in 1 .. Cardinality(FreeClusters)
    <3>1. Cardinality(FreeClusters) \in Nat
      BY <1>1, FS_CardinalityType
    <3>2. QED
      BY <3>1
  <2>2. \E c \in FreeClusters : Cardinality({d \in FreeClusters : d < c}) = k - 1
    BY <1>1, <2>1, RankExists DEF Below
  <2>3. QED
    BY <2>2 DEF EmptyClusters, Below
<1>3. i - 1 = j - 1
  BY <1>2
<1>4. QED
  BY <1>3

BlockOf(r, i) ==
  IF IsFolder(r) THEN Directory(init_directory_table(r.name, r.parent)) ELSE Data(r.text, i)

(* What a write that is not refused works on.                              *)
LEMMA WriteFacts ==
  ASSUME DriverInv, NEW r \in AnyRequest, write_code(r) = 0
  PROVE  LET p   == r.parent
             new == EmptyClusters(r)
             n   == ClustersNeeded(r)
             i   == First(FreeEntries(Table(p)))
         IN /\ p \in Clusters /\ p > 1 /\ IsFolderTable(p) /\ disk[p].kind = "directory"
            /\ IsMap(fat_table) /\ fat_table = MapIn(disk[1]) /\ disk[2] # Zero
            /\ power = "on" /\ IsTable(Table(p))
            /\ i \in Indices /\ i > 1 /\ ~Table(p)[i].used
            /\ n \in 1 .. MaxClusters /\ n \in 1 .. CLUSTER_MAP_SIZE
            /\ DOMAIN new = 1 .. n /\ Len(new) = n
            /\ \A k \in 1 .. n : /\ new[k] \in Clusters /\ new[k] > 2
                                 /\ fat_table[new[k]] = 0 /\ new[k] # p
            /\ \A k, l \in 1 .. n : new[k] = new[l] => k = l
<1> DEFINE p   == r.parent
           t   == Table(p)
           new == EmptyClusters(r)
           n   == ClustersNeeded(r)
           i   == First(FreeEntries(t))
<1>1. p \in Clusters /\ r.size \in 0 .. MaxClusters
  BY DEF AnyRequest
<1>2. IsFolderTable(p) /\ FreeEntries(t) # {} /\ ~(Cardinality(FreeClusters) < n)
  BY DEF write_code
<1>3. /\ p > 1 /\ power = "on" /\ disk[2] # Zero /\ IsMap(fat_table)
      /\ IsTable(t) /\ t[0].used /\ t[1].used
  BY <1>1, <1>2, FoldersAreBehind
<1>4. fat_table = MapIn(disk[1]) /\ disk[p].kind = "directory"
  BY <1>2, <1>3, UnusedTyped, ClusterBasics DEF IsFolderTable, TableIn, DriverInv, MemoryInv
<1>5. i \in Indices /\ i > 1 /\ ~t[i].used
  <2>1. FreeEntries(t) \subseteq Indices
    BY DEF FreeEntries
  <2>2. FreeEntries(t) \subseteq Int
    <3>1. Indices \subseteq Int
      BY ClusterBasics
    <3>2. QED
      BY <2>1, <3>1
  <2>3. IsFiniteSet(FreeEntries(t))
    BY <2>1, ClusterBasics, FS_Subset
  <2>4. i \in FreeEntries(t)
    BY <1>2, <2>2, <2>3, FirstOf
  <2>5. i \in Indices /\ ~t[i].used /\ i \in Nat
    BY <2>4, ClusterBasics DEF FreeEntries
  <2> HIDE DEF i, t
  <2>6. i # 0 /\ i # 1
    BY <1>3, <2>5
  <2>7. i > 1
    BY <2>5, <2>6
  <2>8. QED
    BY <2>5, <2>7
<1>6. n \in 1 .. MaxClusters /\ n \in Nat
  <2>1. MaxClusters \in Nat /\ MaxClusters >= 1
    BY UnusedTyped
  <2>2. QED
    BY <1>1, <2>1 DEF ClustersNeeded
<1>7. FreeClusters \subseteq Clusters /\ IsFiniteSet(FreeClusters)
  <2>1. FreeClusters \subseteq Clusters
    BY DEF FreeClusters
  <2>2. QED
    BY <2>1, ClusterBasics, FS_Subset
<1>8. Cardinality(FreeClusters) \in Nat /\ Cardinality(FreeClusters) >= n
  <2>1. Cardinality(FreeClusters) \in Nat
    BY <1>7, FS_CardinalityType
  <2> HIDE DEF n
  <2>2. QED
    BY <1>2, <1>6, <2>1
<1>9. fat_table \in [Clusters -> Links]
  BY TypesOfDriver
<1>10. DOMAIN new = 1 .. n /\ \A k \in 1 .. n : new[k] \in FreeClusters
  BY <1>6, <1>8, <1>9, EmptyClustersAreFree
<1>11. \A k, l \in 1 .. n : new[k] = new[l] => k = l
  BY <1>6, <1>8, <1>9, EmptyClustersApart
<1>12. n <= CLUSTER_MAP_SIZE
  <2>1. CLUSTER_MAP_SIZE - 1 \in Nat /\ CLUSTER_MAP_SIZE \in Nat
    BY ClusterBasics
  <2>2. Cardinality(Clusters) = CLUSTER_MAP_SIZE /\ IsFiniteSet(Clusters)
    BY <2>1, RangeSize DEF Clusters
  <2>3. Cardinality(FreeClusters) <= CLUSTER_MAP_SIZE
    BY <1>7, <2>2, FS_Subset
  <2> HIDE DEF n
  <2>4. QED
    BY <1>6, <1>8, <2>1, <2>3
<1> HIDE DEF new, n, i, t
<1>13. Len(new) = n
  BY <1>6, <1>10, LenIs
<1>14. \A k \in 1 .. n : new[k] \in Clusters /\ new[k] > 2 /\ fat_table[new[k]] = 0
  BY <1>3, <1>10, FreeIsBehind DEF FreeClusters, FAT32_FAT_EMPTY_ENTRY
<1>15. fat_table[p] # 0
  BY <1>2, ClusterBasics DEF IsFolderTable, FAT32_FAT_END_OF_FILE
<1>16. n \in 1 .. CLUSTER_MAP_SIZE
  BY <1>6, <1>12, ClusterBasics
<1>17. QED
  BY <1>1, <1>2, <1>3, <1>4, <1>5, <1>6, <1>10, <1>11, <1>13, <1>14, <1>15, <1>16
     DEF new, n, i, t

LEMMA WriteStepsAre ==
  ASSUME DriverInv, NEW r \in AnyRequest, write_code(r) = 0
  PROVE  LET steps == WriteSteps(r)
             n     == ClustersNeeded(r)
         IN /\ DOMAIN steps = 1 .. n + 2 /\ Len(steps) = n + 2 /\ n \in Nat
            /\ steps[1] = Write(r.parent, Directory(TableAfterWrite(r)))
            /\ \A k \in 1 .. n : steps[k + 1] = Write(EmptyClusters(r)[k], BlockOf(r, k))
            /\ steps[n + 2] = Write(1, Fat(FatAfterWrite(r)))
<1> DEFINE n      == ClustersNeeded(r)
           new    == EmptyClusters(r)
           first  == Write(r.parent, Directory(TableAfterWrite(r)))
           middle == [k \in 1 .. n |-> Write(new[k], BlockOf(r, k))]
           last   == Write(1, Fat(FatAfterWrite(r)))
           steps  == WriteSteps(r)
<1>1. n \in Nat /\ DOMAIN new = 1 .. n
  <2>1. n \in 1 .. CLUSTER_MAP_SIZE /\ DOMAIN new = 1 .. n
    BY WriteFacts
  <2>2. QED
    BY <2>1, ClusterBasics
<1>2. steps = <<first>> \o middle \o <<last>>
  BY <1>1 DEF WriteSteps, FAT_CLUSTER_NUMBER, BlockOf
<1> HIDE DEF n, first, last, steps
<1>3. middle \in Seq({middle[k] : k \in 1 .. n}) /\ Len(middle) = n
  <2>1. DOMAIN middle = 1 .. n
    OBVIOUS
  <2>2. middle \in [1 .. n -> {middle[k] : k \in 1 .. n}]
    OBVIOUS
  <2> HIDE DEF middle
  <2>3. Len(middle) = n
    BY <1>1, <2>1, LenIs
  <2>4. QED
    BY <1>1, <2>2, <2>3, SeqDef
<1>4. \A k \in 1 .. n : middle[k] = Write(new[k], BlockOf(r, k))
  OBVIOUS
<1> HIDE DEF middle
<1> DEFINE S == {middle[k] : k \in 1 .. n} \cup {first, last}
           b == <<first>> \o middle
<1>5. middle \in Seq(S) /\ <<first>> \in Seq(S) /\ <<last>> \in Seq(S)
  <2>1. {middle[k] : k \in 1 .. n} \subseteq S /\ first \in S /\ last \in S
    OBVIOUS
  <2> HIDE DEF S
  <2>2. middle \in Seq(S)
    BY <1>3, <2>1, SeqMonotonic
  <2>3. QED
    BY <2>1, <2>2
<1>6. Len(<<first>>) = 1 /\ <<first>>[1] = first /\ Len(<<last>>) = 1 /\ <<last>>[1] = last
  OBVIOUS
<1> HIDE DEF S
<1>7. /\ b \in Seq(S) /\ Len(b) = n + 1
      /\ b[1] = first /\ \A k \in 1 .. n : b[k + 1] = middle[k]
  <2>1. /\ b \in Seq(S) /\ Len(b) = Len(<<first>>) + Len(middle)
        /\ \A k \in 1 .. Len(<<first>>) + Len(middle) :
             b[k] = IF k <= Len(<<first>>) THEN <<first>>[k] ELSE middle[k - Len(<<first>>)]
    BY <1>5, ConcatProperties
  <2> HIDE DEF b
  <2>2. Len(b) = n + 1
    BY <1>1, <1>3, <1>6, <2>1
  <2>3. b[1] = first
    <3>1. 1 \in 1 .. 1 + n
      BY <1>1
    <3>2. QED
      BY <1>3, <1>6, <2>1, <3>1
  <2>4. ASSUME NEW k \in 1 .. n
        PROVE  b[k + 1] = middle[k]
    <3>1. k + 1 \in 1 .. 1 + n /\ ~(k + 1 <= 1) /\ (k + 1) - 1 = k
      BY <1>1
    <3>2. QED
      BY <1>3, <1>6, <2>1, <3>1
  <2>5. QED
    BY <2>1, <2>2, <2>3, <2>4
<1>8. /\ steps \in Seq(S) /\ Len(steps) = n + 2
      /\ \A k \in 1 .. n + 1 : steps[k] = b[k]
      /\ steps[n + 2] = last
  <2>1. steps = b \o <<last>>
    BY <1>2
  <2> HIDE DEF b
  <2>2. /\ steps \in Seq(S) /\ Len(steps) = Len(b) + Len(<<last>>)
        /\ \A k \in 1 .. Len(b) + Len(<<last>>) :
             steps[k] = IF k <= Len(b) THEN b[k] ELSE <<last>>[k - Len(b)]
    BY <1>5, <1>7, <2>1, ConcatProperties
  <2>3. Len(steps) = n + 2
    BY <1>1, <1>6, <1>7, <2>2
  <2>4. ASSUME NEW k \in 1 .. n + 1
        PROVE  steps[k] = b[k]
    <3>1. k \in 1 .. (n + 1) + 1 /\ k <= n + 1
      BY <1>1
    <3>2. QED
      BY <1>6, <1>7, <2>2, <3>1
  <2>5. steps[n + 2] = last
    <3>1. n + 2 \in 1 .. (n + 1) + 1 /\ ~(n + 2 <= n + 1) /\ (n + 2) - (n + 1) = 1
      BY <1>1
    <3>2. QED
      BY <1>6, <1>7, <2>2, <3>1
  <2>6. QED
    BY <2>2, <2>3, <2>4, <2>5
<1> HIDE DEF b
<1>9. DOMAIN steps = 1 .. n + 2
  BY <1>8, LenProperties
<1>10. steps[1] = first
  <2>1. 1 \in 1 .. n + 1
    BY <1>1
  <2>2. QED
    BY <1>7, <1>8, <2>1
<1>11. ASSUME NEW k \in 1 .. n
       PROVE  steps[k + 1] = Write(new[k], BlockOf(r, k))
  <2>1. k + 1 \in 1 .. n + 1
    BY <1>1
  <2>2. QED
    BY <1>4, <1>7, <1>8, <2>1
<1>12. QED
  BY <1>1, <1>8, <1>9, <1>10, <1>11 DEF n, first, last, steps

LEMMA WriteFields == \A c, b : Write(c, b).cluster = c /\ Write(c, b).block = b
BY DEF Write

(* Each of the writes goes to a cluster of its own.                        *)
LEMMA WriteStepsApart ==
  ASSUME DriverInv, NEW r \in AnyRequest, write_code(r) = 0,
         NEW i \in 1 .. Len(WriteSteps(r)), NEW j \in 1 .. Len(WriteSteps(r)),
         WriteSteps(r)[i].cluster = WriteSteps(r)[j].cluster
  PROVE  i = j
<1> DEFINE n     == ClustersNeeded(r)
           new   == EmptyClusters(r)
           p     == r.parent
           steps == WriteSteps(r)
<1>1. /\ n \in Nat /\ Len(steps) = n + 2 /\ steps[1].cluster = p
      /\ \A k \in 1 .. n : steps[k + 1].cluster = new[k]
      /\ steps[n + 2].cluster = 1
  <2>1. /\ Len(steps) = n + 2 /\ n \in Nat
        /\ steps[1] = Write(p, Directory(TableAfterWrite(r)))
        /\ \A k \in 1 .. n : steps[k + 1] = Write(new[k], BlockOf(r, k))
        /\ steps[n + 2] = Write(1, Fat(FatAfterWrite(r)))
    BY WriteStepsAre
  <2> HIDE DEF n, new, p, steps
  <2>2. QED
    BY <2>1, WriteFields
<1>2. /\ p \in Clusters /\ p > 1
      /\ \A k \in 1 .. n : new[k] \in Clusters /\ new[k] > 2 /\ new[k] # p
      /\ \A k, l \in 1 .. n : new[k] = new[l] => k = l
  BY WriteFacts
<1> HIDE DEF n, new, p, steps
<1>3. ASSUME NEW k \in 1 .. n + 2
      PROVE  \/ k = 1 /\ steps[k].cluster = p
             \/ k - 1 \in 1 .. n /\ steps[k].cluster = new[k - 1]
             \/ k = n + 2 /\ steps[k].cluster = 1
  <2>1. k = 1 \/ k - 1 \in 1 .. n \/ k = n + 2
    BY <1>1
  <2>2. k - 1 \in 1 .. n => (k - 1) + 1 = k
    BY <1>1
  <2>3. k - 1 \in 1 .. n => steps[k].cluster = new[k - 1]
    <3>1. k - 1 \in 1 .. n => steps[(k - 1) + 1].cluster = new[k - 1]
      BY <1>1
    <3>2. QED
      BY <2>2, <3>1
  <2>4. QED
    BY <1>1, <2>1, <2>3
<1>4. i \in 1 .. n + 2 /\ j \in 1 .. n + 2 /\ steps[i].cluster = steps[j].cluster
  BY <1>1 DEF steps
<1>5. p # 1 /\ p \in Nat /\ \A k \in 1 .. n : new[k] # 1 /\ new[k] # p
  BY <1>2, ClusterBasics
<1>6. CASE i = 1 \/ j = 1
  BY <1>3, <1>4, <1>5, <1>6
<1>7. CASE i - 1 \in 1 .. n /\ j - 1 \in 1 .. n
  <2>1. steps[i].cluster = new[i - 1] /\ steps[j].cluster = new[j - 1]
    <3>1. i # 1 /\ j # 1 /\ i # n + 2 /\ j # n + 2
      BY <1>1, <1>4, <1>7
    <3>2. QED
      BY <1>3, <1>4, <3>1
  <2>2. i - 1 = j - 1
    BY <1>2, <1>4, <1>7, <2>1
  <2>3. QED
    BY <1>4, <2>2
<1>8. CASE i = n + 2 \/ j = n + 2
  <2>1. steps[n + 2].cluster = 1 /\ n + 2 \in 1 .. n + 2
    BY <1>1
  <2>2. \A k \in 1 .. n + 2 : steps[k].cluster = 1 => k = n + 2
    BY <1>3, <1>5
  <2>3. QED
    BY <1>4, <1>8, <2>1, <2>2
<1>9. QED
  BY <1>3, <1>4, <1>6, <1>7, <1>8

(* The disk after a write.                                                 *)
LEMMA WriteEffect ==
  ASSUME DriverInv, NEW r \in AnyRequest, write_code(r) = 0, NEW d,
         d = write_clusters(WriteSteps(r), disk)
  PROVE  /\ DOMAIN d = Clusters
         /\ d[r.parent] = Directory(TableAfterWrite(r))
         /\ \A k \in 1 .. ClustersNeeded(r) : d[EmptyClusters(r)[k]] = BlockOf(r, k)
         /\ d[1] = Fat(FatAfterWrite(r))
         /\ \A c \in Clusters :
              c # r.parent /\ c # 1 /\ (\A k \in 1 .. ClustersNeeded(r) : EmptyClusters(r)[k] # c)
              => d[c] = disk[c]
<1> DEFINE n     == ClustersNeeded(r)
           new   == EmptyClusters(r)
           steps == WriteSteps(r)
<1>1. /\ DOMAIN steps = 1 .. n + 2 /\ Len(steps) = n + 2 /\ n \in Nat
      /\ steps[1] = Write(r.parent, Directory(TableAfterWrite(r)))
      /\ \A k \in 1 .. n : steps[k + 1] = Write(new[k], BlockOf(r, k))
      /\ steps[n + 2] = Write(1, Fat(FatAfterWrite(r)))
  BY WriteStepsAre
<1>2. \A i, j \in 1 .. n + 2 : steps[i].cluster = steps[j].cluster => i = j
  BY <1>1, WriteStepsApart
<1>3. r.parent \in Clusters /\ \A k \in 1 .. n : new[k] \in Clusters
  BY WriteFacts
<1> HIDE DEF n, new, steps
<1>4. n + 2 \in Nat
  BY <1>1
<1>5. /\ DOMAIN d = Clusters
      /\ \A i \in 1 .. n + 2 : steps[i].cluster \in Clusters => d[steps[i].cluster] = steps[i].block
      /\ \A c \in Clusters : (\A i \in 1 .. n + 2 : steps[i].cluster # c) => d[c] = disk[c]
  <2> DEFINE m == n + 2
  <2>1. /\ d = write_clusters(steps, disk) /\ m \in Nat /\ DOMAIN steps = 1 .. m
        /\ \A i, j \in 1 .. m : steps[i].cluster = steps[j].cluster => i = j
    BY <1>1, <1>2, <1>4 DEF steps
  <2> HIDE DEF m
  <2>2. /\ DOMAIN d = Clusters
        /\ \A i \in 1 .. m : steps[i].cluster \in Clusters => d[steps[i].cluster] = steps[i].block
        /\ \A c \in Clusters : (\A i \in 1 .. m : steps[i].cluster # c) => d[c] = disk[c]
    BY <2>1, ApartWrites
  <2>3. QED
    BY <2>2 DEF m
<1>6. d[r.parent] = Directory(TableAfterWrite(r))
  <2>1. 1 \in 1 .. n + 2
    BY <1>1
  <2>2. QED
    BY <1>1, <1>3, <1>5, <2>1, WriteFields
<1>7. ASSUME NEW k \in 1 .. n
      PROVE  d[new[k]] = BlockOf(r, k)
  <2>1. k + 1 \in 1 .. n + 2
    BY <1>1
  <2>2. steps[k + 1].cluster = new[k] /\ steps[k + 1].block = BlockOf(r, k)
    BY <1>1, WriteFields
  <2>3. QED
    BY <1>3, <1>5, <2>1, <2>2
<1>8. d[1] = Fat(FatAfterWrite(r))
  <2>1. n + 2 \in 1 .. n + 2
    BY <1>1
  <2>2. QED
    BY <1>1, <1>5, <2>1, ClusterBasics, WriteFields
<1>9. ASSUME NEW c \in Clusters, c # r.parent, c # 1, \A k \in 1 .. n : new[k] # c
      PROVE  d[c] = disk[c]
  <2>1. ASSUME NEW i \in 1 .. n + 2
        PROVE  steps[i].cluster # c
    <3>1. CASE i = 1
      BY <1>1, <1>9, <3>1, WriteFields
    <3>2. CASE i = n + 2
      BY <1>1, <1>9, <3>2, WriteFields
    <3>3. CASE i # 1 /\ i # n + 2
      <4>1. i - 1 \in 1 .. n /\ (i - 1) + 1 = i
        BY <1>1, <3>3
      <4>2. steps[(i - 1) + 1].cluster = new[i - 1]
        BY <1>1, <4>1, WriteFields
      <4>3. QED
        BY <1>9, <4>1, <4>2
    <3>4. QED
      BY <3>1, <3>2, <3>3
  <2>2. QED
    BY <1>5, <2>1
<1>10. QED
  BY <1>5, <1>6, <1>7, <1>8, <1>9 DEF n, new

-----------------------------------------------------------------------------
(* The tree on a disk.                                                     *)

MapOf(d)   == MapIn(d[1])
Folders(d) == {c \in Clusters : d[c].kind = "directory"}
Listed(d)  == {p \in Folders(d) \X (Indices \ {0, 1}) : TableIn(d[p[1]])[p[2]].used}
At(d, p)    == TableIn(d[p[1]])[p[2]]
Owned(d, p) == ClustersOf(MapOf(d), At(d, p).cluster)

(* A set of folders that no entry leads out of.                            *)
Closed(d, S) ==
  \A p \in Listed(d) : p[1] \in S /\ At(d, p).folder => At(d, p).cluster \in S

(* A folder leads back to where it is listed; a file is one text.          *)
FolderIsWhole(d, p) ==
  /\ At(d, p).ext = ""
  /\ MapOf(d)[At(d, p).cluster] = FAT32_FAT_END_OF_FILE
  /\ At(d, p).cluster \in Folders(d)
  /\ TableIn(d[At(d, p).cluster])[0] = FolderEntry(At(d, p).name, p[1])
  /\ TableIn(d[At(d, p).cluster])[1] = FolderEntry("..", p[1])
FileIsWhole(d, p) ==
  LET chain == Chain(MapOf(d), At(d, p).cluster)
  IN \E text \in Texts : \A i \in 1 .. Len(chain) : d[chain[i]] = Data(text, i)
EntryIsWhole(d, p) ==
  /\ EndsProperly(MapOf(d), At(d, p).cluster)
  /\ Len(Chain(MapOf(d), At(d, p).cluster)) = At(d, p).size
  /\ IF At(d, p).folder THEN FolderIsWhole(d, p) ELSE FileIsWhole(d, p)

(* No cluster is owned twice, none in use is lost, no folder is left       *)
(* without an entry or without a way from the root, and an entry that is   *)
(* not used holds nothing.                                                 *)
OwnersApart(d) ==
  \A p, q \in Listed(d) : p # q => Owned(d, p) \cap Owned(d, q) = {}
NothingLost(d) ==
  \A c \in Clusters : c > 2 /\ MapOf(d)[c] # 0 => \E p \in Listed(d) : c \in Owned(d, p)
FoldersAreListed(d) ==
  \A c \in Folders(d) : c # 2 =>
    \E p \in Listed(d) : At(d, p).folder /\ At(d, p).cluster = c
FoldersAreReached(d) ==
  \A S \in SUBSET Clusters : 2 \in S /\ Closed(d, S) => Folders(d) \subseteq S
UnusedAreBlank(d) ==
  \A c \in Folders(d), i \in Indices :
    ~TableIn(d[c])[i].used => TableIn(d[c])[i] = UnusedEntry

TreeInv(d) ==
  /\ d[1] # Zero /\ d[2] # Zero
  /\ \A p \in Listed(d) : EntryIsWhole(d, p)
  /\ OwnersApart(d)
  /\ NothingLost(d)
  /\ FoldersAreListed(d)
  /\ FoldersAreReached(d)
  /\ UnusedAreBlank(d)

LEMMA TreeFacts ==
  ASSUME NEW d, DiskInv(d), TreeInv(d)
  PROVE  /\ IsMap(MapOf(d)) /\ MapOf(d) \in [Clusters -> Links]
         /\ 2 \in Folders(d) /\ IsRootTable(TableIn(d[2]))
         /\ \A c \in Folders(d) : /\ c \in Clusters /\ c \in Nat /\ c > 1
                                  /\ TableIn(d[c]) = d[c].table
                                  /\ IsTable(TableIn(d[c]))
<1>1. MayHold(1, d[1]) /\ MayHold(2, d[2]) /\ \A c \in Clusters : MayHold(c, d[c])
  BY ClusterBasics DEF DiskInv
<1>2. d[1] # Zero /\ d[2] # Zero
  BY DEF TreeInv
<1>3. IsMap(MapOf(d))
  BY <1>1, <1>2, Kinds, ClusterBasics DEF MayHold, MapOf, MapIn
<1>4. d[2].kind = "directory" /\ IsRootTable(TableIn(d[2]))
  BY <1>1, <1>2, Kinds, ClusterBasics DEF MayHold, TableIn
<1>5. ASSUME NEW c \in Folders(d)
      PROVE  /\ c \in Clusters /\ c \in Nat /\ c > 1
             /\ TableIn(d[c]) = d[c].table /\ IsTable(TableIn(d[c]))
  <2>1. c \in Clusters /\ c \in Nat /\ d[c].kind = "directory" /\ MayHold(c, d[c])
    BY <1>1, ClusterBasics DEF Folders
  <2>2. c > 1 /\ IsTable(d[c].table)
    BY <2>1, Kinds DEF MayHold, IsRootTable
  <2>3. QED
    BY <2>1, <2>2 DEF TableIn
<1>6. QED
  BY <1>3, <1>4, <1>5, ClusterBasics DEF IsMap, Folders

LEMMA OwnedFacts ==
  ASSUME NEW d, DiskInv(d), TreeInv(d), NEW p \in Listed(d)
  PROVE  /\ p[1] \in Folders(d) /\ p[2] \in Indices /\ p[2] > 1 /\ p = <<p[1], p[2]>>
         /\ At(d, p).used /\ At(d, p) \in DirectoryEntries
         /\ At(d, p).cluster \in Clusters /\ At(d, p).cluster > 2
         /\ At(d, p).cluster \in Owned(d, p)
         /\ \A c \in Owned(d, p) : c \in Clusters /\ c > 2 /\ MapOf(d)[c] # 0
         /\ At(d, p).folder => Owned(d, p) = {At(d, p).cluster}
<1> DEFINE map == MapOf(d)
           c0  == At(d, p).cluster
           w   == Walk(map, c0)
           N   == CLUSTER_MAP_SIZE
<1>1. /\ p[1] \in Folders(d) /\ p[2] \in Indices /\ p[2] \notin {0, 1} /\ p = <<p[1], p[2]>>
      /\ At(d, p).used
  BY DEF Listed, At
<1>2. p[2] > 1
  <2>1. p[2] \in Nat
    BY <1>1, ClusterBasics
  <2>2. QED
    BY <1>1, <2>1
<1>3. IsMap(map) /\ map \in [Clusters -> Links] /\ IsTable(TableIn(d[p[1]]))
  BY <1>1, TreeFacts
<1>4. At(d, p) \in DirectoryEntries /\ c0 \in Clusters /\ c0 > 2
  BY <1>1, <1>2, <1>3 DEF IsTable, Tables, At, DirectoryEntries
<1>5. EndsProperly(map, c0) /\ (At(d, p).folder => map[c0] = FAT32_FAT_END_OF_FILE)
  BY DEF TreeInv, EntryIsWhole, FolderIsWhole
<1> HIDE DEF map, c0
<1>6. c0 \in ClustersOf(map, c0)
  BY <1>3, <1>4, OfChain
<1>7. N \in Nat /\ c0 \in Links
  BY <1>4, ClusterBasics DEF Clusters, Links
<1>8. \A n \in 1 .. N : w[n] = IF w[n - 1] \in Clusters THEN map[w[n - 1]] ELSE w[n - 1]
  <2> HIDE DEF N
  <2>1. map \in [Clusters -> Links] /\ c0 \in Links
    BY <1>3, <1>7
  <2>2. QED
    BY <2>1, WalkUnfolds DEF N
<1>9. w[N] \notin Clusters
  BY <1>5, <1>7 DEF EndsProperly, FAT32_FAT_END_OF_FILE, Clusters
<1>10. 0 \notin ClustersOf(map, c0) /\ \A c \in ClustersOf(map, c0) : c \in Clusters /\ c \notin {1, 2}
  BY <1>3, <1>4, <1>5, ChainAvoids
<1> HIDE DEF w
<1>11. ASSUME NEW c \in ClustersOf(map, c0)
       PROVE  c \in Clusters /\ c > 2 /\ map[c] # 0
  <2>1. c \in Clusters /\ c \in Nat /\ c # 0 /\ c # 1 /\ c # 2
    BY <1>10, ClusterBasics
  <2>2. PICK n \in 0 .. N : c = w[n]
    BY <1>3, <1>4, OfChain DEF w
  <2>3. n # N
    BY <1>9, <2>1, <2>2
  <2>4. n + 1 \in 1 .. N /\ (n + 1) - 1 = n /\ n + 1 \in 0 .. N
    BY <1>7, <2>3
  <2>5. w[n + 1] = map[c]
    BY <1>8, <2>1, <2>2, <2>4
  <2>6. CASE map[c] = 0
    <3>1. w[n + 1] \in Clusters
      BY <2>5, <2>6, ClusterBasics
    <3>2. w[n + 1] \in ClustersOf(map, c0)
      BY <1>3, <1>4, <2>4, <3>1, OfChain DEF w
    <3>3. QED
      BY <1>10, <2>5, <2>6, <3>2
  <2>7. QED
    BY <2>1, <2>6
<1>12. map[c0] = FAT32_FAT_END_OF_FILE => ClustersOf(map, c0) = {c0}
  BY <1>3, <1>4, OneCluster
<1>13. QED
  BY <1>1, <1>2, <1>4, <1>5, <1>6, <1>11, <1>12 DEF map, c0, Owned

(* A folder belongs to the entry that names it.                            *)
LEMMA FolderOwner ==
  ASSUME NEW d, DiskInv(d), TreeInv(d), NEW p \in Listed(d), NEW c \in Folders(d),
         c \in Owned(d, p)
  PROVE  At(d, p).folder /\ At(d, p).cluster = c
<1>1. c # 2
  BY OwnedFacts
<1>2. PICK q \in Listed(d) : At(d, q).folder /\ At(d, q).cluster = c
  BY <1>1 DEF TreeInv, FoldersAreListed
<1>3. c \in Owned(d, q)
  BY <1>2, OwnedFacts
<1>4. q = p
  BY <1>3 DEF TreeInv, OwnersApart
<1>5. QED
  BY <1>2, <1>4

LEMMA FreeIsNoFolder ==
  ASSUME NEW d, DiskInv(d), TreeInv(d), NEW c \in Clusters, MapOf(d)[c] = 0
  PROVE  c \notin Folders(d) /\ \A p \in Listed(d) : c \notin Owned(d, p)
<1>1. \A p \in Listed(d) : c \notin Owned(d, p)
  BY OwnedFacts
<1>2. c # 2
  BY TreeFacts, ClusterBasics DEF IsMap, FAT32_FAT_END_OF_FILE
<1>3. QED
  BY <1>1, <1>2, OwnedFacts DEF TreeInv, FoldersAreListed

(* No folder lists itself: leaving it out of the folders would leave a set *)
(* that no entry leads out of.                                             *)
LEMMA NotInItself ==
  ASSUME NEW d, DiskInv(d), TreeInv(d), NEW p \in Listed(d)
  PROVE  p[1] \notin Owned(d, p)
<1>1. SUFFICES ASSUME p[1] \in Owned(d, p)
               PROVE  FALSE
  OBVIOUS
<1> DEFINE c == p[1]
           S == Clusters \ {c}
<1>2. c \in Folders(d) /\ c \in Clusters /\ c # 2
  BY <1>1, OwnedFacts
<1>3. Closed(d, S)
  <2>1. ASSUME NEW q \in Listed(d), q[1] \in S, At(d, q).folder
        PROVE  At(d, q).cluster \in S
    <3>1. At(d, q).cluster \in Clusters /\ At(d, q).cluster \in Owned(d, q)
      BY OwnedFacts
    <3>2. CASE At(d, q).cluster = c
      <4>1. q = p
        BY <1>1, <3>1, <3>2 DEF TreeInv, OwnersApart
      <4>2. QED
        BY <2>1, <4>1
    <3>3. QED
      BY <3>1, <3>2
  <2>2. QED
    BY <2>1 DEF Closed
<1>4. 2 \in S /\ S \in SUBSET Clusters
  BY <1>2, ClusterBasics
<1> HIDE DEF S
<1>5. Folders(d) \subseteq S
  BY <1>3, <1>4 DEF TreeInv, FoldersAreReached
<1>6. QED
  BY <1>2, <1>5 DEF S

-----------------------------------------------------------------------------
(* One entry more: entry i of folder p is made, with new for its chain.    *)

Grown(d, e, p, i, k, new) ==
  /\ p \in Folders(d) /\ i \in Indices /\ i > 1 /\ ~TableIn(d[p])[i].used
  /\ k \in 1 .. CLUSTER_MAP_SIZE /\ new \in [1 .. k -> Clusters]
  /\ \A j \in 1 .. k : new[j] > 2 /\ MapOf(d)[new[j]] = 0
  /\ \A j, l \in 1 .. k : new[j] = new[l] => j = l
  /\ e[p].kind = "directory"
  /\ \A j \in Indices : j # i => TableIn(e[p])[j] = TableIn(d[p])[j]
  /\ At(e, <<p, i>>).used /\ At(e, <<p, i>>).cluster = new[1] /\ At(e, <<p, i>>).size = k
  /\ e[1].kind = "fat"
  /\ \A j \in 1 .. k : MapOf(e)[new[j]] = IF j = k THEN FAT32_FAT_END_OF_FILE ELSE new[j + 1]
  /\ \A c \in Clusters : (\A j \in 1 .. k : new[j] # c) => MapOf(e)[c] = MapOf(d)[c]
  /\ \A c \in Clusters : c # p /\ c # 1 /\ (\A j \in 1 .. k : new[j] # c) => e[c] = d[c]
  /\ IF At(e, <<p, i>>).folder
     THEN /\ k = 1 /\ At(e, <<p, i>>).ext = ""
          /\ e[new[1]].kind = "directory"
          /\ TableIn(e[new[1]])[0] = FolderEntry(At(e, <<p, i>>).name, p)
          /\ TableIn(e[new[1]])[1] = FolderEntry("..", p)
          /\ \A j \in Indices : j > 1 => TableIn(e[new[1]])[j] = UnusedEntry
     ELSE \E text \in Texts : \A j \in 1 .. k : e[new[j]] = Data(text, j)

(* Both disks are ones the driver can be on, the old one with a tree.      *)
Grows(d, e, p, i, k, new) ==
  /\ DiskInv(d) /\ TreeInv(d) /\ DiskInv(e)
  /\ Grown(d, e, p, i, k, new)

NewOnes(k, new) == {c \in Clusters : \E j \in 1 .. k : new[j] = c}

NewOnesAreFree(d, e, p, k, new) ==
  /\ p \in Clusters /\ p > 1 /\ p \in Folders(e)
  /\ e[1] # Zero /\ IsMap(MapOf(e)) /\ MapOf(e) \in [Clusters -> Links]
  /\ MapOf(d) \in [Clusters -> Links]
  /\ k \in 1 .. CLUSTER_MAP_SIZE /\ 1 \in 1 .. k /\ new \in [1 .. k -> Clusters]
  /\ \A c \in NewOnes(k, new) :
       /\ c \in Clusters /\ c \in Nat /\ c > 2 /\ c # p /\ MapOf(d)[c] = 0
       /\ c \notin Folders(d) /\ \A q \in Listed(d) : c \notin Owned(d, q)
  /\ new[1] \in NewOnes(k, new)

LEMMA GrownBasics ==
  ASSUME NEW d, NEW e, NEW p, NEW i, NEW k, NEW new, Grows(d, e, p, i, k, new)
  PROVE  NewOnesAreFree(d, e, p, k, new)
<1>1. /\ p \in Folders(d) /\ e[p].kind = "directory" /\ e[1].kind = "fat"
      /\ k \in 1 .. CLUSTER_MAP_SIZE /\ new \in [1 .. k -> Clusters]
      /\ \A j \in 1 .. k : new[j] > 2 /\ MapOf(d)[new[j]] = 0
      /\ DiskInv(d) /\ TreeInv(d) /\ DiskInv(e)
  BY DEF Grows, Grown
<1>2. /\ p \in Clusters /\ p > 1 /\ MapOf(d) \in [Clusters -> Links]
      /\ p \in Folders(e)
  BY <1>1, TreeFacts DEF Folders
<1>3. MayHold(1, e[1])
  BY <1>1, ClusterBasics DEF DiskInv
<1>4. IsMap(MapOf(e)) /\ e[1] # Zero
  BY <1>1, <1>3, Kinds DEF MapOf, MapIn, MayHold
<1>5. MapOf(e) \in [Clusters -> Links]
  BY <1>4 DEF IsMap
<1>6. 1 \in 1 .. k
  BY <1>1, ClusterBasics
<1>7. ASSUME NEW c \in NewOnes(k, new)
      PROVE  /\ c \in Clusters /\ c \in Nat /\ c > 2 /\ c # p /\ MapOf(d)[c] = 0
             /\ c \notin Folders(d) /\ \A q \in Listed(d) : c \notin Owned(d, q)
  <2>1. c \in Clusters /\ c \in Nat /\ c > 2 /\ MapOf(d)[c] = 0
    BY <1>1, ClusterBasics DEF NewOnes
  <2>2. c \notin Folders(d) /\ \A q \in Listed(d) : c \notin Owned(d, q)
    BY <1>1, <2>1, FreeIsNoFolder
  <2>3. QED
    BY <1>1, <2>1, <2>2
<1>8. new[1] \in Clusters
  BY <1>1, <1>6
<1>9. QED
  BY <1>1, <1>2, <1>4, <1>5, <1>6, <1>7, <1>8 DEF NewOnes, NewOnesAreFree

FoldersGrow(d, e, p, i, new) ==
  /\ Folders(d) \subseteq Folders(e)
  /\ \A c \in Folders(e) : c \in Folders(d) \/ (At(e, <<p, i>>).folder /\ c = new[1])
  /\ At(e, <<p, i>>).folder => new[1] \in Folders(e)
  /\ \A c \in Folders(d), j \in Indices :
       (c # p \/ j # i) => TableIn(e[c])[j] = TableIn(d[c])[j]

LEMMA GrownFolders ==
  ASSUME NEW d, NEW e, NEW p, NEW i, NEW k, NEW new, Grows(d, e, p, i, k, new)
  PROVE  FoldersGrow(d, e, p, i, new)
<1>0. NewOnesAreFree(d, e, p, k, new)
  BY GrownBasics
<1>1. /\ e[p].kind = "directory" /\ e[1].kind = "fat"
      /\ \A j \in Indices : j # i => TableIn(e[p])[j] = TableIn(d[p])[j]
      /\ \A c \in Clusters : c # p /\ c # 1 /\ (\A j \in 1 .. k : new[j] # c) => e[c] = d[c]
      /\ DiskInv(d) /\ TreeInv(d)
  BY DEF Grows, Grown
<1>2. /\ \A c \in NewOnes(k, new) : c \notin Folders(d) /\ c \in Clusters
      /\ p \in Folders(e) /\ p \in Clusters /\ new[1] \in NewOnes(k, new)
  BY <1>0 DEF NewOnesAreFree
<1>3. ASSUME NEW c \in Folders(d), c # p
      PROVE  e[c] = d[c]
  <2>1. c \in Clusters /\ c # 1 /\ c \notin NewOnes(k, new)
    BY <1>1, <1>2, TreeFacts
  <2>2. QED
    BY <1>1, <1>3, <2>1 DEF NewOnes
<1>4. Folders(d) \subseteq Folders(e)
  BY <1>2, <1>3 DEF Folders
<1>5. ASSUME NEW c \in Folders(e), c \notin Folders(d)
      PROVE  At(e, <<p, i>>).folder /\ c = new[1]
  <2>1. c \in Clusters /\ e[c].kind = "directory" /\ d[c].kind # "directory"
    BY <1>5 DEF Folders
  <2>2. c # 1 /\ c # p
    BY <1>1, <1>5, <2>1 DEF Grows, Grown
  <2>3. PICK j \in 1 .. k : new[j] = c
    BY <1>1, <2>1, <2>2
  <2>4. CASE At(e, <<p, i>>).folder
    <3>1. k = 1
      BY <2>4 DEF Grows, Grown
    <3>2. j = 1
      BY <2>3, <3>1
    <3>3. QED
      BY <2>3, <2>4, <3>2
  <2>5. CASE ~At(e, <<p, i>>).folder
    <3>1. \E text \in Texts : \A l \in 1 .. k : e[new[l]] = Data(text, l)
      <4>1. Grown(d, e, p, i, k, new)
        BY DEF Grows
      <4>2. QED
        BY <2>5, <4>1 DEF Grown
    <3>2. PICK text : e[new[j]] = Data(text, j)
      BY <3>1
    <3>3. QED
      BY <2>1, <2>3, <3>2, Kinds
  <2>6. QED
    BY <2>4, <2>5
<1>6. At(e, <<p, i>>).folder => new[1] \in Folders(e)
  <2>1. At(e, <<p, i>>).folder => e[new[1]].kind = "directory"
    BY DEF Grows, Grown
  <2>2. QED
    BY <1>2, <2>1 DEF Folders
<1>7. QED
  BY <1>1, <1>3, <1>4, <1>5, <1>6 DEF FoldersGrow

ListGrows(d, e, p, i) ==
  /\ <<p, i>> \notin Listed(d)
  /\ Listed(e) = Listed(d) \cup {<<p, i>>}
  /\ \A q \in Listed(d) : At(e, q) = At(d, q)

LEMMA GrownListed ==
  ASSUME NEW d, NEW e, NEW p, NEW i, NEW k, NEW new, Grows(d, e, p, i, k, new)
  PROVE  ListGrows(d, e, p, i)
<1>0. FoldersGrow(d, e, p, i, new)
  BY GrownFolders
<1>1. /\ p \in Folders(d) /\ i \in Indices \ {0, 1} /\ ~TableIn(d[p])[i].used
      /\ At(e, <<p, i>>).used
      /\ At(e, <<p, i>>).folder =>
           \A j \in Indices : j > 1 => TableIn(e[new[1]])[j] = UnusedEntry
  <2>1. Grown(d, e, p, i, k, new)
    BY DEF Grows
  <2>2. p \in Folders(d) /\ i \in Indices /\ i > 1 /\ ~TableIn(d[p])[i].used
    BY <2>1 DEF Grown
  <2>3. i \notin {0, 1}
    BY <2>2
  <2>4. At(e, <<p, i>>).used
    BY <2>1 DEF Grown
  <2>5. ASSUME At(e, <<p, i>>).folder
        PROVE  \A j \in Indices : j > 1 => TableIn(e[new[1]])[j] = UnusedEntry
    BY <2>1, <2>5 DEF Grown
  <2>6. QED
    BY <2>2, <2>3, <2>4, <2>5
<1>2. /\ Folders(d) \subseteq Folders(e)
      /\ \A c \in Folders(e) : c \in Folders(d) \/ (At(e, <<p, i>>).folder /\ c = new[1])
      /\ \A c \in Folders(d), j \in Indices :
           (c # p \/ j # i) => TableIn(e[c])[j] = TableIn(d[c])[j]
  BY <1>0 DEF FoldersGrow
<1>3. <<p, i>> \notin Listed(d)
  BY <1>1 DEF Listed
<1>4. ASSUME NEW q \in Listed(d)
      PROVE  At(e, q) = At(d, q) /\ q \in Listed(e)
  <2>1. PICK c \in Folders(d), j \in Indices \ {0, 1} : q = <<c, j>> /\ TableIn(d[c])[j].used
    BY DEF Listed
  <2>2. c # p \/ j # i
    BY <1>3, <2>1
  <2>3. TableIn(e[c])[j] = TableIn(d[c])[j] /\ c \in Folders(e)
    BY <1>2, <2>2
  <2>4. QED
    BY <2>1, <2>3 DEF At, Listed
<1>5. <<p, i>> \in Listed(e)
  BY <1>1, <1>2 DEF Listed, At
<1>6. ASSUME NEW q \in Listed(e), q # <<p, i>>
      PROVE  q \in Listed(d)
  <2>1. PICK c \in Folders(e), j \in Indices \ {0, 1} : q = <<c, j>> /\ TableIn(e[c])[j].used
    BY DEF Listed
  <2>2. CASE c \in Folders(d)
    <3>1. c # p \/ j # i
      BY <1>6, <2>1
    <3>2. TableIn(d[c])[j].used
      BY <1>2, <2>1, <2>2, <3>1
    <3>3. QED
      BY <2>1, <2>2, <3>2 DEF Listed
  <2>3. CASE At(e, <<p, i>>).folder /\ c = new[1]
    <3>1. j > 1
      BY ClusterBasics
    <3>2. QED
      BY <1>1, <2>1, <2>3, <3>1, UnusedTyped
  <2>4. QED
    BY <1>2, <2>2, <2>3
<1>7. QED
  BY <1>3, <1>4, <1>5, <1>6 DEF ListGrows

(* The chains of the other entries are as they were.                       *)
ChainsGrow(d, e, p, i, k, new) ==
  /\ \A q \in Listed(d) :
       /\ Chain(MapOf(e), At(d, q).cluster) = Chain(MapOf(d), At(d, q).cluster)
       /\ Owned(e, q) = Owned(d, q)
       /\ EndsProperly(MapOf(e), At(d, q).cluster)
       /\ MapOf(e)[At(d, q).cluster] = MapOf(d)[At(d, q).cluster]
       /\ \A c \in Owned(d, q) : c \notin NewOnes(k, new)
  /\ Owned(e, <<p, i>>) = NewOnes(k, new)
  /\ EndsProperly(MapOf(e), new[1])
  /\ Len(Chain(MapOf(e), new[1])) = k
  /\ \A j \in 1 .. k : Chain(MapOf(e), new[1])[j] = new[j]

LEMMA GrownOwned ==
  ASSUME NEW d, NEW e, NEW p, NEW i, NEW k, NEW new, Grows(d, e, p, i, k, new)
  PROVE  ChainsGrow(d, e, p, i, k, new)
<1>0. NewOnesAreFree(d, e, p, k, new) /\ ListGrows(d, e, p, i)
  BY GrownBasics, GrownListed
<1>1. /\ \A j \in 1 .. k : MapOf(e)[new[j]] = IF j = k THEN FAT32_FAT_END_OF_FILE ELSE new[j + 1]
      /\ \A c \in Clusters : (\A j \in 1 .. k : new[j] # c) => MapOf(e)[c] = MapOf(d)[c]
      /\ DiskInv(d) /\ TreeInv(d) /\ At(e, <<p, i>>).cluster = new[1]
  BY DEF Grows, Grown
<1>2. /\ MapOf(e) \in [Clusters -> Links] /\ MapOf(d) \in [Clusters -> Links]
      /\ k \in 1 .. CLUSTER_MAP_SIZE /\ new \in [1 .. k -> Clusters]
      /\ \A c \in NewOnes(k, new) : \A q \in Listed(d) : c \notin Owned(d, q)
  BY <1>0 DEF NewOnesAreFree
<1>3. ASSUME NEW q \in Listed(d)
      PROVE  /\ Chain(MapOf(e), At(d, q).cluster) = Chain(MapOf(d), At(d, q).cluster)
             /\ Owned(e, q) = Owned(d, q)
             /\ EndsProperly(MapOf(e), At(d, q).cluster)
             /\ MapOf(e)[At(d, q).cluster] = MapOf(d)[At(d, q).cluster]
  <2> DEFINE c0 == At(d, q).cluster
  <2>1. /\ c0 \in Clusters /\ c0 \in Owned(d, q)
        /\ \A c \in Owned(d, q) : c \in Clusters
    BY <1>1, OwnedFacts
  <2>2. Owned(d, q) = ClustersOf(MapOf(d), c0) /\ EndsProperly(MapOf(d), c0)
    BY <1>1 DEF Owned, TreeInv, EntryIsWhole
  <2>3. Owned(e, q) = ClustersOf(MapOf(e), c0)
    <3>1. At(e, q) = At(d, q)
      BY <1>0 DEF ListGrows
    <3>2. QED
      BY <3>1 DEF Owned
  <2> HIDE DEF c0
  <2>4. \A c \in Owned(d, q) : MapOf(e)[c] = MapOf(d)[c]
    BY <1>1, <1>2, <2>1 DEF NewOnes
  <2> DEFINE m == MapOf(d)
             n == MapOf(e)
  <2>5. /\ m \in [Clusters -> Links] /\ n \in [Clusters -> Links]
        /\ \A c \in ClustersOf(m, c0) : n[c] = m[c]
    BY <1>2, <2>2, <2>4
  <2> HIDE DEF m, n
  <2>6. /\ Chain(n, c0) = Chain(m, c0)
        /\ ClustersOf(n, c0) = ClustersOf(m, c0)
        /\ EndsProperly(n, c0) <=> EndsProperly(m, c0)
    BY <2>1, <2>5, SameChain
  <2>7. QED
    BY <2>1, <2>2, <2>3, <2>4, <2>6 DEF m, n, c0
<1>4. /\ EndsProperly(MapOf(e), new[1])
      /\ Len(Chain(MapOf(e), new[1])) = k
      /\ \A j \in 1 .. k : Chain(MapOf(e), new[1])[j] = new[j]
      /\ \A c : c \in ClustersOf(MapOf(e), new[1]) <=> \E j \in 1 .. k : c = new[j]
  <2> DEFINE n == MapOf(e)
  <2>1. /\ n \in [Clusters -> Links]
        /\ \A j \in 1 .. k : n[new[j]] = IF j = k THEN FAT32_FAT_END_OF_FILE ELSE new[j + 1]
    BY <1>1, <1>2
  <2> HIDE DEF n
  <2>2. /\ EndsProperly(n, new[1])
        /\ Len(Chain(n, new[1])) = k
        /\ \A j \in 1 .. k : Chain(n, new[1])[j] = new[j]
        /\ \A c : c \in ClustersOf(n, new[1]) <=> \E j \in 1 .. k : c = new[j]
    BY <1>2, <2>1, NewChain
  <2>3. QED
    BY <2>2 DEF n
<1>5. Owned(e, <<p, i>>) = NewOnes(k, new)
  <2>1. Owned(e, <<p, i>>) = ClustersOf(MapOf(e), new[1])
    BY <1>1 DEF Owned
  <2>2. \A j \in 1 .. k : new[j] \in Clusters
    BY <1>2
  <2>3. QED
    BY <1>4, <2>1, <2>2 DEF NewOnes
<1>6. QED
  BY <1>2, <1>3, <1>4, <1>5 DEF ChainsGrow

(* The folders are reached through the entries they were reached through,  *)
(* and a new one through its own.                                          *)
LEMMA GrownReached ==
  ASSUME NEW d, NEW e, NEW p, NEW i, NEW k, NEW new, Grows(d, e, p, i, k, new),
         NEW S \in SUBSET Clusters, 2 \in S, Closed(e, S)
  PROVE  Folders(e) \subseteq S
<1>0. ListGrows(d, e, p, i) /\ FoldersGrow(d, e, p, i, new)
  BY GrownListed, GrownFolders
<1>1. /\ Listed(e) = Listed(d) \cup {<<p, i>>}
      /\ \A q \in Listed(d) : At(e, q) = At(d, q)
  BY <1>0 DEF ListGrows
<1>2. \A q \in Listed(e) : q[1] \in S /\ At(e, q).folder => At(e, q).cluster \in S
  BY DEF Closed
<1>3. Closed(d, S)
  <2>1. ASSUME NEW q \in Listed(d), q[1] \in S, At(d, q).folder
        PROVE  At(d, q).cluster \in S
    <3>1. q \in Listed(e) /\ At(e, q) = At(d, q)
      BY <1>1
    <3>2. QED
      BY <1>2, <2>1, <3>1
  <2>2. QED
    BY <2>1 DEF Closed
<1>4. Folders(d) \subseteq S
  BY <1>3 DEF Grows, TreeInv, FoldersAreReached
<1>5. p \in S /\ At(e, <<p, i>>).cluster = new[1]
  BY <1>4 DEF Grows, Grown
<1>6. At(e, <<p, i>>).folder => new[1] \in S
  <2>1. <<p, i>> \in Listed(e) /\ <<p, i>>[1] = p
    BY <1>1
  <2>2. QED
    BY <1>2, <1>5, <2>1
<1>7. QED
  BY <1>4, <1>6, <1>0 DEF FoldersGrow

LEMMA GrownEntries ==
  ASSUME NEW d, NEW e, NEW p, NEW i, NEW k, NEW new, Grows(d, e, p, i, k, new),
         NEW q \in Listed(e)
  PROVE  EntryIsWhole(e, q)
<1>0. FoldersGrow(d, e, p, i, new) /\ ListGrows(d, e, p, i) /\ ChainsGrow(d, e, p, i, k, new)
  BY GrownFolders, GrownListed, GrownOwned
<1>1. /\ DiskInv(d) /\ TreeInv(d) /\ e[1].kind = "fat" /\ DiskInv(e)
      /\ \A c \in Clusters : c # p /\ c # 1 /\ (\A j \in 1 .. k : new[j] # c) => e[c] = d[c]
  BY DEF Grows, Grown
<1>2. /\ Folders(d) \subseteq Folders(e)
      /\ \A c \in Folders(d), j \in Indices :
           (c # p \/ j # i) => TableIn(e[c])[j] = TableIn(d[c])[j]
  BY <1>0 DEF FoldersGrow
<1>3. /\ Listed(e) = Listed(d) \cup {<<p, i>>}
      /\ \A x \in Listed(d) : At(e, x) = At(d, x)
  BY <1>0 DEF ListGrows
<1>4. i # 0 /\ i # 1
  <2>1. Grown(d, e, p, i, k, new)
    BY DEF Grows
  <2>2. i > 1
    BY <2>1 DEF Grown
  <2>3. QED
    BY <2>2
<1>5. CASE q \in Listed(d)
  <2> DEFINE c0 == At(d, q).cluster
             chain == Chain(MapOf(d), c0)
  <2>1. /\ EntryIsWhole(d, q) /\ c0 \in Clusters /\ p[1] = p[1]
        /\ At(e, q) = At(d, q)
    BY <1>1, <1>3, <1>5, OwnedFacts DEF TreeInv
  <2>2. /\ Chain(MapOf(e), c0) = chain
        /\ EndsProperly(MapOf(e), c0)
        /\ MapOf(e)[c0] = MapOf(d)[c0]
    BY <1>5, <1>0 DEF ChainsGrow
  <2>3. Len(chain) = At(d, q).size
    BY <2>1 DEF EntryIsWhole
  <2>4. CASE At(d, q).folder
    <3>1. FolderIsWhole(d, q)
      BY <2>1, <2>4 DEF EntryIsWhole
    <3>2. /\ At(d, q).ext = "" /\ MapOf(d)[c0] = FAT32_FAT_END_OF_FILE
          /\ c0 \in Folders(d)
          /\ TableIn(d[c0])[0] = FolderEntry(At(d, q).name, q[1])
          /\ TableIn(d[c0])[1] = FolderEntry("..", q[1])
      BY <3>1 DEF FolderIsWhole
    <3>3. /\ TableIn(e[c0])[0] = TableIn(d[c0])[0]
          /\ TableIn(e[c0])[1] = TableIn(d[c0])[1]
      BY <1>2, <1>4, <3>2, ClusterBasics
    <3> HIDE DEF c0, chain
    <3>4. FolderIsWhole(e, q)
      BY <1>2, <2>1, <2>2, <3>2, <3>3 DEF FolderIsWhole, c0
    <3>5. QED
      BY <2>1, <2>2, <2>3, <2>4, <3>4 DEF EntryIsWhole, c0
  <2>5. CASE ~At(d, q).folder
    <3>1. FileIsWhole(d, q)
      BY <2>1, <2>5 DEF EntryIsWhole
    <3>2. PICK text \in Texts : \A j \in 1 .. Len(chain) : d[chain[j]] = Data(text, j)
      BY <3>1 DEF FileIsWhole
    <3>3. ASSUME NEW j \in 1 .. Len(chain)
          PROVE  e[chain[j]] = Data(text, j)
      <4> DEFINE c == chain[j]
      <4>1. c \in Owned(d, q)
        <5>1. MapOf(d) \in [Clusters -> Links]
          BY <1>1, TreeFacts
        <5> HIDE DEF c0
        <5>2. c \in ClustersOf(MapOf(d), c0)
          BY <2>1, <5>1, OfChain
        <5>3. QED
          BY <5>2 DEF Owned, c0
      <4>2. d[c] = Data(text, j)
        BY <3>2
      <4> HIDE DEF c
      <4>3. c \in Clusters /\ c > 2 /\ c \notin NewOnes(k, new)
        BY <1>1, <1>5, <4>1, OwnedFacts, <1>0 DEF ChainsGrow
      <4>4. c # p
        <5>1. p \in Folders(d)
          BY DEF Grows, Grown
        <5>2. d[p].kind = "directory"
          BY <5>1 DEF Folders
        <5>3. QED
          BY <4>2, <5>2, Kinds
      <4>5. c # 1
        BY <4>3
      <4>6. e[c] = d[c]
        BY <1>1, <4>3, <4>4, <4>5 DEF NewOnes
      <4>7. QED
        BY <4>2, <4>6 DEF c
    <3> HIDE DEF c0, chain
    <3>4. FileIsWhole(e, q)
      BY <2>1, <2>2, <3>3 DEF FileIsWhole, c0
    <3>5. QED
      BY <2>1, <2>2, <2>3, <2>5, <3>4 DEF EntryIsWhole, c0
  <2>6. QED
    BY <2>4, <2>5
<1>6. CASE q = <<p, i>>
  <2>1. /\ EndsProperly(MapOf(e), new[1])
        /\ Len(Chain(MapOf(e), new[1])) = k
        /\ \A j \in 1 .. k : Chain(MapOf(e), new[1])[j] = new[j]
    BY <1>0 DEF ChainsGrow
  <2>2. At(e, q).cluster = new[1] /\ At(e, q).size = k /\ q[1] = p
    BY <1>6 DEF Grows, Grown
  <2>3. CASE At(e, q).folder
    <3>1. Grown(d, e, p, i, k, new)
      BY DEF Grows
    <3>2. /\ k = 1 /\ At(e, q).ext = ""
          /\ TableIn(e[new[1]])[0] = FolderEntry(At(e, q).name, p)
          /\ TableIn(e[new[1]])[1] = FolderEntry("..", p)
      BY <1>6, <2>3, <3>1 DEF Grown
    <3>3. \A j \in 1 .. k : MapOf(e)[new[j]] = IF j = k THEN FAT32_FAT_END_OF_FILE ELSE new[j + 1]
      BY <3>1 DEF Grown
    <3>4. MapOf(e)[new[1]] = FAT32_FAT_END_OF_FILE
      <4>5. k = 1
        BY <3>2, Zenon
      <4>6. 1 \in 1 .. 1
        OBVIOUS
      <4>1. 1 \in 1 .. k /\ 1 = k
        BY <4>5, <4>6, Zenon
      <4> DEFINE m == MapOf(e)
      <4> HIDE DEF m
      <4>2. \A j \in 1 .. k : j = k => m[new[j]] = FAT32_FAT_END_OF_FILE
        BY <3>3 DEF m
      <4>3. m[new[1]] = FAT32_FAT_END_OF_FILE
        BY <4>1, <4>2, Zenon
      <4>4. QED
        BY <4>3 DEF m
    <3>5. new[1] \in Folders(e)
      BY <1>6, <2>3, <1>0 DEF FoldersGrow
    <3>6. FolderIsWhole(e, q)
      BY <2>2, <3>2, <3>4, <3>5 DEF FolderIsWhole
    <3>7. QED
      BY <2>1, <2>2, <2>3, <3>6 DEF EntryIsWhole
  <2>4. CASE ~At(e, q).folder
    <3>1. Grown(d, e, p, i, k, new)
      BY DEF Grows
    <3>2. \E text \in Texts : \A j \in 1 .. k : e[new[j]] = Data(text, j)
      BY <1>6, <2>4, <3>1 DEF Grown
    <3>3. FileIsWhole(e, q)
      BY <2>1, <2>2, <3>2 DEF FileIsWhole
    <3>4. QED
      BY <2>1, <2>2, <2>4, <3>3 DEF EntryIsWhole
  <2>5. QED
    BY <2>3, <2>4
<1>7. QED
  BY <1>3, <1>5, <1>6

(* One entry more keeps the tree.                                          *)
LEMMA GrownTree ==
  ASSUME NEW d, NEW e, NEW p, NEW i, NEW k, NEW new, Grows(d, e, p, i, k, new)
  PROVE  TreeInv(e)
<1>0. FoldersGrow(d, e, p, i, new) /\ ListGrows(d, e, p, i) /\ ChainsGrow(d, e, p, i, k, new) /\ NewOnesAreFree(d, e, p, k, new)
  BY GrownFolders, GrownListed, GrownOwned, GrownBasics
<1>1. /\ DiskInv(d) /\ TreeInv(d) /\ DiskInv(e)
      /\ \A c \in Clusters : c # p /\ c # 1 /\ (\A j \in 1 .. k : new[j] # c) => e[c] = d[c]
      /\ \A c \in Clusters : (\A j \in 1 .. k : new[j] # c) => MapOf(e)[c] = MapOf(d)[c]
      /\ At(e, <<p, i>>).cluster = new[1]
  BY DEF Grows, Grown
<1>2. /\ Folders(d) \subseteq Folders(e)
      /\ \A c \in Folders(e) : c \in Folders(d) \/ (At(e, <<p, i>>).folder /\ c = new[1])
      /\ \A c \in Folders(d), j \in Indices :
           (c # p \/ j # i) => TableIn(e[c])[j] = TableIn(d[c])[j]
  BY <1>0 DEF FoldersGrow
<1>3. /\ <<p, i>> \notin Listed(d)
      /\ Listed(e) = Listed(d) \cup {<<p, i>>}
      /\ \A q \in Listed(d) : At(e, q) = At(d, q)
  BY <1>0 DEF ListGrows
<1>4. /\ \A q \in Listed(d) : /\ Owned(e, q) = Owned(d, q)
                              /\ \A c \in Owned(d, q) : c \notin NewOnes(k, new)
      /\ Owned(e, <<p, i>>) = NewOnes(k, new)
  BY <1>0 DEF ChainsGrow
<1>5. e[1] # Zero /\ e[2] # Zero
  <2>1. e[1] # Zero /\ 2 \in Folders(e)
    BY <1>1, <1>2, TreeFacts, <1>0 DEF NewOnesAreFree
  <2>2. e[2].kind = "directory"
    BY <2>1 DEF Folders
  <2>3. QED
    BY <2>1, <2>2, Kinds
<1>6. OwnersApart(e)
  <2>1. ASSUME NEW x \in Listed(e), NEW y \in Listed(e), x # y
        PROVE  Owned(e, x) \cap Owned(e, y) = {}
    <3>1. CASE x \in Listed(d) /\ y \in Listed(d)
      BY <1>1, <1>4, <2>1, <3>1 DEF TreeInv, OwnersApart
    <3>2. CASE x = <<p, i>> /\ y \in Listed(d)
      BY <1>4, <3>2
    <3>3. CASE y = <<p, i>> /\ x \in Listed(d)
      BY <1>4, <3>3
    <3>4. QED
      BY <1>3, <2>1, <3>1, <3>2, <3>3
  <2>2. QED
    BY <2>1 DEF OwnersApart
<1>7. NothingLost(e)
  <2>1. ASSUME NEW c \in Clusters, c > 2, MapOf(e)[c] # 0
        PROVE  \E q \in Listed(e) : c \in Owned(e, q)
    <3>1. CASE c \in NewOnes(k, new)
      BY <1>3, <1>4, <3>1
    <3>2. CASE c \notin NewOnes(k, new)
      <4>1. MapOf(d)[c] # 0
        BY <1>1, <2>1, <3>2 DEF NewOnes
      <4>2. PICK q \in Listed(d) : c \in Owned(d, q)
        BY <1>1, <2>1, <4>1 DEF TreeInv, NothingLost
      <4>3. QED
        BY <1>3, <1>4, <4>2
    <3>3. QED
      BY <3>1, <3>2
  <2>2. QED
    BY <2>1 DEF NothingLost
<1>8. FoldersAreListed(e)
  <2>1. ASSUME NEW c \in Folders(e), c # 2
        PROVE  \E q \in Listed(e) : At(e, q).folder /\ At(e, q).cluster = c
    <3>1. CASE c \in Folders(d)
      <4>1. PICK q \in Listed(d) : At(d, q).folder /\ At(d, q).cluster = c
        BY <1>1, <2>1, <3>1 DEF TreeInv, FoldersAreListed
      <4>2. QED
        BY <1>3, <4>1
    <3>2. CASE At(e, <<p, i>>).folder /\ c = new[1]
      BY <1>1, <1>3, <3>2
    <3>3. QED
      BY <1>2, <3>1, <3>2
  <2>2. QED
    BY <2>1 DEF FoldersAreListed
<1>9. FoldersAreReached(e)
  BY GrownReached DEF FoldersAreReached
<1>10. UnusedAreBlank(e)
  <2>1. ASSUME NEW c \in Folders(e), NEW j \in Indices, ~TableIn(e[c])[j].used
        PROVE  TableIn(e[c])[j] = UnusedEntry
    <3>1. CASE c \in Folders(d)
      <4>1. CASE c = p /\ j = i
        <5>1. At(e, <<p, i>>).used
          BY DEF Grows, Grown
        <5>2. QED
          BY <2>1, <4>1, <5>1 DEF At
      <4>2. CASE c # p \/ j # i
        <5>1. TableIn(e[c])[j] = TableIn(d[c])[j]
          BY <1>2, <3>1, <4>2
        <5>2. QED
          BY <1>1, <2>1, <3>1, <5>1 DEF TreeInv, UnusedAreBlank
      <4>3. QED
        BY <4>1, <4>2
    <3>2. CASE At(e, <<p, i>>).folder /\ c = new[1]
      <4>1. Grown(d, e, p, i, k, new)
        BY DEF Grows
      <4>2. /\ TableIn(e[c])[0] = FolderEntry(At(e, <<p, i>>).name, p)
            /\ TableIn(e[c])[1] = FolderEntry("..", p)
            /\ \A l \in Indices : l > 1 => TableIn(e[c])[l] = UnusedEntry
        BY <3>2, <4>1 DEF Grown
      <4>3. \A name : FolderEntry(name, p).used
        BY DEF FolderEntry, UnusedEntry
      <4>4. j = 0 \/ j = 1 \/ j > 1
        BY ClusterBasics
      <4>5. QED
        BY <2>1, <4>2, <4>3, <4>4
    <3>3. QED
      BY <1>2, <3>1, <3>2
  <2>2. QED
    BY <2>1 DEF UnusedAreBlank
<1>11. \A q \in Listed(e) : EntryIsWhole(e, q)
  BY GrownEntries
<1>12. QED
  BY <1>5, <1>6, <1>7, <1>8, <1>9, <1>10, <1>11 DEF TreeInv

-----------------------------------------------------------------------------
(* What write does is such a step.                                         *)

LEMMA FatWithNew ==
  ASSUME DriverInv, NEW r \in AnyRequest, write_code(r) = 0
  PROVE  /\ EmptyClusters(r) \in [1 .. ClustersNeeded(r) -> Clusters]
         /\ \A k \in 1 .. ClustersNeeded(r) :
              FatAfterWrite(r)[EmptyClusters(r)[k]] =
                IF k = ClustersNeeded(r) THEN FAT32_FAT_END_OF_FILE
                                         ELSE EmptyClusters(r)[k + 1]
         /\ \A c \in Clusters : (\A k \in 1 .. ClustersNeeded(r) : EmptyClusters(r)[k] # c)
                                => FatAfterWrite(r)[c] = fat_table[c]
<1> DEFINE n   == ClustersNeeded(r)
           new == EmptyClusters(r)
           map == FatAfterWrite(r)
<1>1. /\ DOMAIN new = 1 .. n /\ Len(new) = n
      /\ \A k \in 1 .. n : new[k] \in Clusters
      /\ \A k, l \in 1 .. n : new[k] = new[l] => k = l
  BY WriteFacts
<1>4. new \in [1 .. n -> Clusters]
  <2> DEFINE Nth(k) == CHOOSE c \in FreeClusters : Cardinality({d \in FreeClusters : d < c}) = k - 1
  <2>1. new = [k \in 1 .. n |-> Nth(k)]
    BY DEF EmptyClusters
  <2> HIDE DEF Nth, new, n
  <2>2. \A k \in 1 .. n : Nth(k) \in Clusters
    BY <1>1, <2>1
  <2>3. QED
    BY <2>1, <2>2
<1>3. map = [c \in Clusters |->
               IF \E i \in DOMAIN new : new[i] = c
               THEN LET i == CHOOSE i \in DOMAIN new : new[i] = c
                    IN IF i = Len(new) THEN FAT32_FAT_END_OF_FILE ELSE new[i + 1]
               ELSE fat_table[c]]
  BY DEF FatAfterWrite
<1> HIDE DEF n, new, map
<1>5. ASSUME NEW k \in 1 .. n
      PROVE  map[new[k]] = IF k = n THEN FAT32_FAT_END_OF_FILE ELSE new[k + 1]
  <2> DEFINE i == CHOOSE i \in DOMAIN new : new[i] = new[k]
  <2>1. k \in DOMAIN new /\ new[k] \in Clusters
    BY <1>1
  <2>2. i \in DOMAIN new /\ new[i] = new[k]
    BY <2>1
  <2>3. i = k
    BY <1>1, <2>1, <2>2
  <2>4. map[new[k]] = IF i = Len(new) THEN FAT32_FAT_END_OF_FILE ELSE new[i + 1]
    BY <1>3, <2>1
  <2> HIDE DEF i
  <2>5. QED
    BY <1>1, <2>3, <2>4
<1>6. ASSUME NEW c \in Clusters, \A k \in 1 .. n : new[k] # c
      PROVE  map[c] = fat_table[c]
  BY <1>1, <1>3, <1>6
<1>7. QED
  BY <1>4, <1>5, <1>6 DEF n, new, map

LEMMA EntryFields ==
  \A r, old : LET a == EntryFor(r, old)
              IN /\ a.used /\ a.cluster = EmptyClusters(r)[1] /\ a.size = ClustersNeeded(r)
                 /\ a.name = r.name /\ (a.folder <=> IsFolder(r))
                 /\ a.ext = IF IsFolder(r) THEN old.ext ELSE r.ext
BY DEF EntryFor

LEMMA WriteGrows ==
  ASSUME DriverInv, TreeInv(disk), NEW r \in AnyRequest, write_code(r) = 0, NEW d,
         d = write_clusters(WriteSteps(r), disk)
  PROVE  Grows(disk, d, r.parent, First(FreeEntries(Table(r.parent))),
               ClustersNeeded(r), EmptyClusters(r))
<1> DEFINE p   == r.parent
           t   == Table(p)
           i   == First(FreeEntries(t))
           k   == ClustersNeeded(r)
           new == EmptyClusters(r)
           map == FatAfterWrite(r)
<1>1. /\ DiskInv(disk) /\ DiskInv(d)
  <2>1. AllAllowed(WriteSteps(r), disk)
    BY WriteIsAllowed
  <2>2. QED
    BY <2>1, StepsKeepTheDisk DEF DriverInv
<1>2. /\ p \in Clusters /\ p > 1 /\ disk[p].kind = "directory"
      /\ fat_table = MapIn(disk[1]) /\ IsTable(t)
      /\ i \in Indices /\ i > 1 /\ ~t[i].used
      /\ k \in 1 .. CLUSTER_MAP_SIZE
      /\ \A j \in 1 .. k : new[j] \in Clusters /\ new[j] > 2
                           /\ fat_table[new[j]] = 0 /\ new[j] # p
      /\ \A j, l \in 1 .. k : new[j] = new[l] => j = l
  BY WriteFacts
<1>3. /\ new \in [1 .. k -> Clusters]
      /\ \A j \in 1 .. k : map[new[j]] = IF j = k THEN FAT32_FAT_END_OF_FILE ELSE new[j + 1]
      /\ \A c \in Clusters : (\A j \in 1 .. k : new[j] # c) => map[c] = fat_table[c]
  BY FatWithNew
<1>4. /\ d[p] = Directory(TableAfterWrite(r))
      /\ \A j \in 1 .. k : d[new[j]] = BlockOf(r, j)
      /\ d[1] = Fat(map)
      /\ \A c \in Clusters : c # p /\ c # 1 /\ (\A j \in 1 .. k : new[j] # c) => d[c] = disk[c]
  BY WriteEffect
<1>5. t = TableIn(disk[p]) /\ p \in Folders(disk) /\ MapOf(disk) = fat_table
  BY <1>2 DEF Table, Folders, MapOf
<1>6. MapOf(d) = map /\ d[1].kind = "fat" /\ d[p].kind = "directory"
      /\ TableIn(d[p]) = TableAfterWrite(r)
  BY <1>4, Kinds DEF MapOf, MapIn, TableIn
<1>7. t[i].ext = ""
  <2>1. ~TableIn(disk[p])[i].used
    BY <1>2, <1>5
  <2>2. TableIn(disk[p])[i] = UnusedEntry
    BY <1>2, <1>5, <2>1 DEF TreeInv, UnusedAreBlank
  <2>3. t[i] = UnusedEntry
    BY <1>5, <2>2
  <2>4. UnusedEntry.ext = ""
    BY DEF UnusedEntry
  <2>5. QED
    BY <2>3, <2>4
<1>8. /\ TableAfterWrite(r)[i] = EntryFor(r, t[i])
      /\ \A j \in Indices : j # i => TableAfterWrite(r)[j] = t[j]
  <2>1. TableAfterWrite(r) = [t EXCEPT ![i] = EntryFor(r, t[i])]
    BY DEF TableAfterWrite
  <2>2. t \in [Indices -> DirectoryEntries]
    BY <1>2 DEF IsTable, Tables
  <2> HIDE DEF t, i
  <2>3. QED
    BY <1>2, <2>1, <2>2
<1>9. At(d, <<p, i>>) = EntryFor(r, t[i])
  BY <1>6, <1>8 DEF At
<1> DEFINE a == At(d, <<p, i>>)
<1>10. /\ a.used /\ a.cluster = new[1] /\ a.size = k /\ a.name = r.name
       /\ (a.folder <=> IsFolder(r)) /\ (IsFolder(r) => a.ext = "")
  <2> DEFINE old == t[i]
  <2>1. a = EntryFor(r, old) /\ old.ext = ""
    BY <1>7, <1>9
  <2> HIDE DEF a, old, k, new
  <2>2. QED
    BY <2>1, EntryFields DEF k, new
<1>14. /\ p \in Folders(disk) /\ i \in Indices /\ i > 1 /\ ~TableIn(disk[p])[i].used
       /\ d[p].kind = "directory" /\ d[1].kind = "fat"
       /\ \A j \in Indices : j # i => TableIn(d[p])[j] = TableIn(disk[p])[j]
  <2> HIDE DEF p, i, t
  <2>1. \A j \in Indices : j # i => TableIn(d[p])[j] = TableIn(disk[p])[j]
    BY <1>5, <1>6, <1>8
  <2>2. QED
    BY <1>2, <1>5, <1>6, <2>1
<1>15. /\ k \in 1 .. CLUSTER_MAP_SIZE /\ new \in [1 .. k -> Clusters]
       /\ \A j \in 1 .. k : new[j] > 2 /\ MapOf(disk)[new[j]] = 0
       /\ \A j, l \in 1 .. k : new[j] = new[l] => j = l
       /\ \A j \in 1 .. k : MapOf(d)[new[j]] = IF j = k THEN FAT32_FAT_END_OF_FILE ELSE new[j + 1]
       /\ \A c \in Clusters : (\A j \in 1 .. k : new[j] # c) => MapOf(d)[c] = MapOf(disk)[c]
  <2> HIDE DEF p, i, t, k, new, map
  <2>1. QED
    BY <1>2, <1>3, <1>5, <1>6
<1>16. \A c \in Clusters : c # p /\ c # 1 /\ (\A j \in 1 .. k : new[j] # c) => d[c] = disk[c]
  BY <1>4
<1>11. CASE IsFolder(r)
  <2>1. k = 1
    BY <1>11 DEF IsFolder, ClustersNeeded
  <2> DEFINE init == init_directory_table(r.name, p)
  <2>2. \A j \in 1 .. k : d[new[j]] = Directory(init)
    BY <1>4, <1>11 DEF BlockOf
  <2>3. /\ init[0] = FolderEntry(r.name, p) /\ init[1] = FolderEntry("..", p)
        /\ \A j \in Indices : j > 1 => init[j] = UnusedEntry
    BY ClusterBasics DEF init_directory_table
  <2> HIDE DEF init, k
  <2>4. d[new[1]] = Directory(init)
    BY <2>1, <2>2
  <2>5. d[new[1]].kind = "directory" /\ TableIn(d[new[1]]) = init
    BY <2>4, Kinds DEF TableIn
  <2> HIDE DEF a, new, p, i
  <2>6. IF a.folder
        THEN /\ k = 1 /\ a.ext = ""
             /\ d[new[1]].kind = "directory"
             /\ TableIn(d[new[1]])[0] = FolderEntry(a.name, p)
             /\ TableIn(d[new[1]])[1] = FolderEntry("..", p)
             /\ \A j \in Indices : j > 1 => TableIn(d[new[1]])[j] = UnusedEntry
        ELSE \E text \in Texts : \A j \in 1 .. k : d[new[j]] = Data(text, j)
    BY <1>10, <1>11, <2>1, <2>3, <2>5 DEF a
  <2> HIDE DEF t, map
  <2>7. Grown(disk, d, p, i, k, new)
    BY <1>10, <1>14, <1>15, <1>16, <2>6, Zenon DEF Grown, a
  <2>8. QED
    BY <1>1, <2>7 DEF Grows, p, i, k, new, t
<1>12. CASE ~IsFolder(r)
  <2>1. \A j \in 1 .. k : d[new[j]] = Data(r.text, j)
    BY <1>4, <1>12 DEF BlockOf
  <2>2. r.text \in Texts
    BY DEF AnyRequest
  <2> HIDE DEF a, new, p, i, k
  <2>3. IF a.folder
        THEN /\ k = 1 /\ a.ext = ""
             /\ d[new[1]].kind = "directory"
             /\ TableIn(d[new[1]])[0] = FolderEntry(a.name, p)
             /\ TableIn(d[new[1]])[1] = FolderEntry("..", p)
             /\ \A j \in Indices : j > 1 => TableIn(d[new[1]])[j] = UnusedEntry
        ELSE \E text \in Texts : \A j \in 1 .. k : d[new[j]] = Data(text, j)
    BY <1>10, <1>12, <2>1, <2>2 DEF a
  <2> HIDE DEF t, map
  <2>4. Grown(disk, d, p, i, k, new)
    BY <1>10, <1>14, <1>15, <1>16, <2>3, Zenon DEF Grown, a
  <2>5. QED
    BY <1>1, <2>4 DEF Grows, p, i, k, new, t
<1>13. QED
  BY <1>11, <1>12

LEMMA WriteKeepsTheTree ==
  ASSUME DriverInv, TreeInv(disk), NEW r \in AnyRequest, write_code(r) = 0
  PROVE  TreeInv(write_clusters(WriteSteps(r), disk))
BY WriteGrows, GrownTree

-----------------------------------------------------------------------------
(* One entry less: the one at q, with all of its chain.                    *)

Shrunk(d, e, q) ==
  /\ q \in Listed(d)
  /\ At(d, q).folder =>
       \A j \in Indices : j > 1 => ~TableIn(d[At(d, q).cluster])[j].used
  /\ e[q[1]].kind = "directory"
  /\ TableIn(e[q[1]])[q[2]] = UnusedEntry
  /\ \A j \in Indices : j # q[2] => TableIn(e[q[1]])[j] = TableIn(d[q[1]])[j]
  /\ \A c \in Clusters : MapOf(e)[c] = IF c \in Owned(d, q) THEN 0 ELSE MapOf(d)[c]
  /\ e[1].kind = "fat"
  /\ \A c \in Owned(d, q) : e[c] = Zero
  /\ \A c \in Clusters : c # 1 /\ c # q[1] /\ c \notin Owned(d, q) => e[c] = d[c]

Shrinks(d, e, q) ==
  /\ DiskInv(d) /\ TreeInv(d) /\ DiskInv(e)
  /\ Shrunk(d, e, q)

FoldersShrink(d, e, q) ==
  /\ \A c \in Folders(e) : c \in Folders(d) /\ c \notin Owned(d, q)
  /\ \A c \in Folders(d) : c \notin Owned(d, q) => c \in Folders(e)
  /\ \A c \in Folders(e), j \in Indices :
       (c # q[1] \/ j # q[2]) => TableIn(e[c])[j] = TableIn(d[c])[j]

LEMMA ShrunkFolders ==
  ASSUME NEW d, NEW e, NEW q, Shrinks(d, e, q)
  PROVE  FoldersShrink(d, e, q)
<1>1. /\ q \in Listed(d) /\ e[q[1]].kind = "directory" /\ e[1].kind = "fat"
      /\ \A j \in Indices : j # q[2] => TableIn(e[q[1]])[j] = TableIn(d[q[1]])[j]
      /\ \A c \in Owned(d, q) : e[c] = Zero
      /\ \A c \in Clusters : c # 1 /\ c # q[1] /\ c \notin Owned(d, q) => e[c] = d[c]
      /\ DiskInv(d) /\ TreeInv(d)
  BY DEF Shrinks, Shrunk
<1>2. q[1] \in Folders(d) /\ q[1] \notin Owned(d, q)
  BY <1>1, OwnedFacts, NotInItself
<1>3. ASSUME NEW c \in Folders(e)
      PROVE  c \in Folders(d) /\ c \notin Owned(d, q)
  <2>1. c \in Clusters /\ e[c].kind = "directory"
    BY DEF Folders
  <2>2. c \notin Owned(d, q) /\ c # 1
    BY <1>1, <2>1, Kinds
  <2>3. CASE c # q[1]
    <3>1. e[c] = d[c]
      BY <1>1, <2>1, <2>2, <2>3
    <3>2. QED
      BY <2>1, <2>2, <3>1 DEF Folders
  <2>4. QED
    BY <1>2, <2>2, <2>3
<1>4. ASSUME NEW c \in Folders(d), c \notin Owned(d, q)
      PROVE  c \in Folders(e)
  <2>1. c \in Clusters /\ c # 1 /\ d[c].kind = "directory"
    BY <1>1, TreeFacts DEF Folders
  <2>2. CASE c = q[1]
    BY <1>1, <2>1, <2>2 DEF Folders
  <2>3. CASE c # q[1]
    <3>1. e[c] = d[c]
      BY <1>1, <1>4, <2>1, <2>3
    <3>2. QED
      BY <2>1, <3>1 DEF Folders
  <2>4. QED
    BY <2>2, <2>3
<1>5. ASSUME NEW c \in Folders(e), NEW j \in Indices, c # q[1] \/ j # q[2]
      PROVE  TableIn(e[c])[j] = TableIn(d[c])[j]
  <2>1. CASE c = q[1]
    BY <1>1, <1>5, <2>1
  <2>2. CASE c # q[1]
    <3>1. c \in Clusters /\ c # 1 /\ c \notin Owned(d, q)
      BY <1>1, <1>3, TreeFacts
    <3>2. e[c] = d[c]
      BY <1>1, <2>2, <3>1
    <3>3. QED
      BY <3>2
  <2>3. QED
    BY <2>1, <2>2
<1>6. QED
  BY <1>3, <1>4, <1>5 DEF FoldersShrink

ListShrinks(d, e, q) ==
  /\ Listed(e) = Listed(d) \ {q}
  /\ \A x \in Listed(e) : At(e, x) = At(d, x) /\ x[1] \in Folders(e)

LEMMA ShrunkListed ==
  ASSUME NEW d, NEW e, NEW q, Shrinks(d, e, q)
  PROVE  ListShrinks(d, e, q)
<1>1. /\ q \in Listed(d)
      /\ At(d, q).folder =>
           \A j \in Indices : j > 1 => ~TableIn(d[At(d, q).cluster])[j].used
      /\ TableIn(e[q[1]])[q[2]] = UnusedEntry
      /\ DiskInv(d) /\ TreeInv(d)
  BY DEF Shrinks, Shrunk
<1>2. FoldersShrink(d, e, q)
  BY ShrunkFolders
<1>3. /\ \A c \in Folders(e) : c \in Folders(d) /\ c \notin Owned(d, q)
      /\ \A c \in Folders(d) : c \notin Owned(d, q) => c \in Folders(e)
      /\ \A c \in Folders(e), j \in Indices :
           (c # q[1] \/ j # q[2]) => TableIn(e[c])[j] = TableIn(d[c])[j]
  BY <1>2 DEF FoldersShrink
<1>4. q = <<q[1], q[2]>>
  BY <1>1, OwnedFacts
<1>5. ASSUME NEW x \in Listed(e)
      PROVE  x \in Listed(d) /\ x # q /\ At(e, x) = At(d, x) /\ x[1] \in Folders(e)
  <2>1. PICK c \in Folders(e), j \in Indices \ {0, 1} : x = <<c, j>> /\ TableIn(e[c])[j].used
    BY DEF Listed
  <2>2. c # q[1] \/ j # q[2]
    BY <1>1, <2>1, UnusedTyped
  <2>3. c \in Folders(d) /\ TableIn(e[c])[j] = TableIn(d[c])[j]
    BY <1>3, <2>2
  <2>4. x \in Listed(d) /\ At(e, x) = At(d, x) /\ x[1] = c /\ x[2] = j
    BY <2>1, <2>3 DEF Listed, At
  <2>5. QED
    BY <2>2, <2>4
<1>6. ASSUME NEW x \in Listed(d), x # q
      PROVE  x \in Listed(e)
  <2>1. PICK c \in Folders(d), j \in Indices \ {0, 1} : x = <<c, j>> /\ TableIn(d[c])[j].used
    BY DEF Listed
  <2>2. c \notin Owned(d, q)
    <3>1. SUFFICES ASSUME c \in Owned(d, q)
                   PROVE  FALSE
      OBVIOUS
    <3>2. At(d, q).folder /\ At(d, q).cluster = c
      BY <1>1, <3>1, FolderOwner
    <3>3. j > 1
      BY ClusterBasics
    <3>4. QED
      BY <1>1, <2>1, <3>2, <3>3
  <2>3. c \in Folders(e)
    BY <1>3, <2>2
  <2>4. c # q[1] \/ j # q[2]
    BY <1>4, <1>6, <2>1
  <2>5. TableIn(e[c])[j] = TableIn(d[c])[j]
    BY <1>3, <2>3, <2>4
  <2>6. QED
    BY <2>1, <2>3, <2>5 DEF Listed
<1>7. QED
  BY <1>5, <1>6 DEF ListShrinks

ChainsShrink(d, e, q) ==
  \A x \in Listed(e) :
    /\ Chain(MapOf(e), At(d, x).cluster) = Chain(MapOf(d), At(d, x).cluster)
    /\ Owned(e, x) = Owned(d, x)
    /\ EndsProperly(MapOf(e), At(d, x).cluster)
    /\ MapOf(e)[At(d, x).cluster] = MapOf(d)[At(d, x).cluster]
    /\ \A c \in Owned(d, x) : c \notin Owned(d, q)

LEMMA ShrunkOwned ==
  ASSUME NEW d, NEW e, NEW q, Shrinks(d, e, q)
  PROVE  ChainsShrink(d, e, q)
<1>1. /\ \A c \in Clusters : MapOf(e)[c] = IF c \in Owned(d, q) THEN 0 ELSE MapOf(d)[c]
      /\ DiskInv(d) /\ TreeInv(d) /\ DiskInv(e) /\ e[1].kind = "fat" /\ q \in Listed(d)
  BY DEF Shrinks, Shrunk
<1>2. ListShrinks(d, e, q)
  BY ShrunkListed
<1>3. MapOf(d) \in [Clusters -> Links] /\ MapOf(e) \in [Clusters -> Links]
  <2>1. MayHold(1, e[1])
    BY <1>1, ClusterBasics DEF DiskInv
  <2>2. IsMap(MapOf(e))
    BY <1>1, <2>1, Kinds DEF MapOf, MapIn, MayHold
  <2>3. QED
    BY <1>1, <2>2, TreeFacts DEF IsMap
<1>4. ASSUME NEW x \in Listed(e)
      PROVE  /\ Chain(MapOf(e), At(d, x).cluster) = Chain(MapOf(d), At(d, x).cluster)
             /\ Owned(e, x) = Owned(d, x)
             /\ EndsProperly(MapOf(e), At(d, x).cluster)
             /\ MapOf(e)[At(d, x).cluster] = MapOf(d)[At(d, x).cluster]
             /\ \A c \in Owned(d, x) : c \notin Owned(d, q)
  <2> DEFINE c0 == At(d, x).cluster
             m  == MapOf(d)
             n  == MapOf(e)
  <2>1. x \in Listed(d) /\ x # q /\ At(e, x) = At(d, x)
    BY <1>2 DEF ListShrinks
  <2>2. \A c \in Owned(d, x) : c \notin Owned(d, q)
    BY <1>1, <2>1 DEF TreeInv, OwnersApart
  <2>3. /\ c0 \in Clusters /\ c0 \in Owned(d, x)
        /\ \A c \in Owned(d, x) : c \in Clusters
    BY <1>1, <2>1, OwnedFacts
  <2>4. Owned(d, x) = ClustersOf(m, c0) /\ EndsProperly(m, c0)
    BY <1>1, <2>1 DEF Owned, TreeInv, EntryIsWhole
  <2>5. Owned(e, x) = ClustersOf(n, c0)
    BY <2>1 DEF Owned
  <2> HIDE DEF c0
  <2>6. \A c \in Owned(d, x) : n[c] = m[c]
    BY <1>1, <2>2, <2>3
  <2>7. /\ m \in [Clusters -> Links] /\ n \in [Clusters -> Links]
        /\ \A c \in ClustersOf(m, c0) : n[c] = m[c]
    BY <1>3, <2>4, <2>6
  <2> HIDE DEF m, n
  <2>8. /\ Chain(n, c0) = Chain(m, c0)
        /\ ClustersOf(n, c0) = ClustersOf(m, c0)
        /\ EndsProperly(n, c0) <=> EndsProperly(m, c0)
    BY <2>3, <2>7, SameChain
  <2>9. QED
    BY <2>2, <2>3, <2>4, <2>5, <2>6, <2>8 DEF m, n, c0
<1>5. QED
  BY <1>4, Zenon DEF ChainsShrink

LEMMA ShrunkReached ==
  ASSUME NEW d, NEW e, NEW q, Shrinks(d, e, q),
         NEW S \in SUBSET Clusters, 2 \in S, Closed(e, S)
  PROVE  Folders(e) \subseteq S
<1> DEFINE T == S \cup Owned(d, q)
<1>1. ListShrinks(d, e, q) /\ FoldersShrink(d, e, q)
  BY ShrunkListed, ShrunkFolders
<1>2. DiskInv(d) /\ TreeInv(d) /\ q \in Listed(d)
  BY DEF Shrinks, Shrunk
<1>3. \A x \in Listed(e) : x[1] \in S /\ At(e, x).folder => At(e, x).cluster \in S
  BY DEF Closed
<1>4. ASSUME NEW x \in Listed(d), x[1] \in T, At(d, x).folder
      PROVE  At(d, x).cluster \in T
  <2>1. CASE x = q
    BY <1>2, <2>1, OwnedFacts
  <2>2. CASE x # q
    <3>1. x \in Listed(e)
      BY <1>1, <2>2 DEF ListShrinks
    <3>2. At(e, x) = At(d, x) /\ x[1] \in Folders(e)
      BY <1>1, <3>1 DEF ListShrinks
    <3>3. x[1] \notin Owned(d, q)
      BY <1>1, <3>2 DEF FoldersShrink
    <3>4. QED
      BY <1>3, <1>4, <3>1, <3>2, <3>3
  <2>3. QED
    BY <2>1, <2>2
<1>5. T \in SUBSET Clusters /\ 2 \in T
  BY <1>2, OwnedFacts
<1> HIDE DEF T
<1>6. Closed(d, T)
  BY <1>4 DEF Closed
<1>7. Folders(d) \subseteq T
  BY <1>2, <1>5, <1>6 DEF TreeInv, FoldersAreReached
<1>8. QED
  BY <1>1, <1>7 DEF FoldersShrink, T

LEMMA ShrunkEntries ==
  ASSUME NEW d, NEW e, NEW q, Shrinks(d, e, q), NEW x \in Listed(e)
  PROVE  EntryIsWhole(e, x)
<1>1. ListShrinks(d, e, q) /\ FoldersShrink(d, e, q) /\ ChainsShrink(d, e, q)
  BY ShrunkListed, ShrunkFolders, ShrunkOwned
<1>2. /\ DiskInv(d) /\ TreeInv(d) /\ q \in Listed(d)
      /\ \A c \in Clusters : c # 1 /\ c # q[1] /\ c \notin Owned(d, q) => e[c] = d[c]
  BY DEF Shrinks, Shrunk
<1> DEFINE c0 == At(d, x).cluster
           chain == Chain(MapOf(d), c0)
<1>3. x \in Listed(d) /\ At(e, x) = At(d, x)
  BY <1>1 DEF ListShrinks
<1>4. EntryIsWhole(d, x) /\ c0 \in Clusters /\ c0 \in Owned(d, x)
  BY <1>2, <1>3, OwnedFacts DEF TreeInv
<1>5. /\ Chain(MapOf(e), c0) = chain
      /\ EndsProperly(MapOf(e), c0)
      /\ MapOf(e)[c0] = MapOf(d)[c0]
      /\ \A c \in Owned(d, x) : c \notin Owned(d, q)
  BY <1>1 DEF ChainsShrink
<1>6. Len(chain) = At(d, x).size
  BY <1>4 DEF EntryIsWhole
<1>7. CASE At(d, x).folder
  <2>1. FolderIsWhole(d, x)
    BY <1>4, <1>7 DEF EntryIsWhole
  <2>2. /\ At(d, x).ext = "" /\ MapOf(d)[c0] = FAT32_FAT_END_OF_FILE
        /\ c0 \in Folders(d)
        /\ TableIn(d[c0])[0] = FolderEntry(At(d, x).name, x[1])
        /\ TableIn(d[c0])[1] = FolderEntry("..", x[1])
    BY <2>1 DEF FolderIsWhole
  <2>3. c0 \in Folders(e)
    BY <1>1, <1>4, <1>5, <2>2 DEF FoldersShrink
  <2>4. 0 # q[2] /\ 1 # q[2] /\ 0 \in Indices /\ 1 \in Indices
    <3>1. q[2] > 1 /\ q[2] \in Indices
      BY <1>2, OwnedFacts
    <3>2. q[2] \in Nat
      BY <3>1, ClusterBasics
    <3>3. QED
      BY <3>1, <3>2, ClusterBasics
  <2>5. /\ TableIn(e[c0])[0] = TableIn(d[c0])[0]
        /\ TableIn(e[c0])[1] = TableIn(d[c0])[1]
    BY <1>1, <2>3, <2>4 DEF FoldersShrink
  <2> HIDE DEF c0, chain
  <2>6. FolderIsWhole(e, x)
    BY <1>3, <1>5, <2>2, <2>3, <2>5 DEF FolderIsWhole, c0
  <2>7. QED
    BY <1>3, <1>5, <1>6, <1>7, <2>6 DEF EntryIsWhole, c0
<1>8. CASE ~At(d, x).folder
  <2>1. FileIsWhole(d, x)
    BY <1>4, <1>8 DEF EntryIsWhole
  <2>2. PICK text \in Texts : \A j \in 1 .. Len(chain) : d[chain[j]] = Data(text, j)
    BY <2>1 DEF FileIsWhole
  <2>3. ASSUME NEW j \in 1 .. Len(chain)
        PROVE  e[chain[j]] = Data(text, j)
    <3> DEFINE c == chain[j]
    <3>1. c \in Owned(d, x)
      <4>1. MapOf(d) \in [Clusters -> Links]
        BY <1>2, TreeFacts
      <4> HIDE DEF c0
      <4>2. c \in ClustersOf(MapOf(d), c0)
        BY <1>4, <4>1, OfChain
      <4>3. QED
        BY <4>2 DEF Owned, c0
    <3>2. d[c] = Data(text, j)
      BY <2>2
    <3> HIDE DEF c
    <3>3. c \in Clusters /\ c > 2 /\ c \notin Owned(d, q)
      BY <1>2, <1>3, <1>5, <3>1, OwnedFacts
    <3>4. c # q[1]
      <4>1. q[1] \in Folders(d)
        BY <1>2, OwnedFacts
      <4>2. d[q[1]].kind = "directory"
        BY <4>1 DEF Folders
      <4>3. QED
        BY <3>2, <4>2, Kinds
    <3>5. c # 1
      BY <3>3
    <3>6. e[c] = d[c]
      BY <1>2, <3>3, <3>4, <3>5
    <3>7. QED
      BY <3>2, <3>6 DEF c
  <2> HIDE DEF c0, chain
  <2>4. FileIsWhole(e, x)
    BY <1>3, <1>5, <2>3 DEF FileIsWhole, c0
  <2>5. QED
    BY <1>3, <1>5, <1>6, <1>8, <2>4 DEF EntryIsWhole, c0
<1>9. QED
  BY <1>7, <1>8

(* One entry less keeps the tree.                                          *)
LEMMA ShrunkTree ==
  ASSUME NEW d, NEW e, NEW q, Shrinks(d, e, q)
  PROVE  TreeInv(e)
<1>1. ListShrinks(d, e, q) /\ FoldersShrink(d, e, q) /\ ChainsShrink(d, e, q)
  BY ShrunkListed, ShrunkFolders, ShrunkOwned
<1>2. /\ DiskInv(d) /\ TreeInv(d) /\ q \in Listed(d) /\ e[1].kind = "fat"
      /\ \A c \in Clusters : MapOf(e)[c] = IF c \in Owned(d, q) THEN 0 ELSE MapOf(d)[c]
      /\ TableIn(e[q[1]])[q[2]] = UnusedEntry
  BY DEF Shrinks, Shrunk
<1>3. /\ Listed(e) = Listed(d) \ {q}
      /\ \A x \in Listed(e) : At(e, x) = At(d, x)
  BY <1>1 DEF ListShrinks
<1>4. \A x \in Listed(e) : Owned(e, x) = Owned(d, x)
  BY <1>1 DEF ChainsShrink
<1>5. e[1] # Zero /\ e[2] # Zero
  <2>1. 2 \in Folders(d) /\ 2 \notin Owned(d, q)
    BY <1>2, TreeFacts, OwnedFacts
  <2>2. 2 \in Folders(e)
    BY <1>1, <2>1 DEF FoldersShrink
  <2>3. e[2].kind = "directory"
    BY <2>2 DEF Folders
  <2>4. QED
    BY <1>2, <2>3, Kinds
<1>6. OwnersApart(e)
  <2>1. ASSUME NEW x \in Listed(e), NEW y \in Listed(e), x # y
        PROVE  Owned(e, x) \cap Owned(e, y) = {}
    BY <1>2, <1>3, <1>4, <2>1 DEF TreeInv, OwnersApart
  <2>2. QED
    BY <2>1 DEF OwnersApart
<1>7. NothingLost(e)
  <2>1. ASSUME NEW c \in Clusters, c > 2, MapOf(e)[c] # 0
        PROVE  \E x \in Listed(e) : c \in Owned(e, x)
    <3>1. c \notin Owned(d, q) /\ MapOf(d)[c] # 0
      BY <1>2, <2>1
    <3>2. PICK x \in Listed(d) : c \in Owned(d, x)
      BY <1>2, <2>1, <3>1 DEF TreeInv, NothingLost
    <3>3. x \in Listed(e)
      BY <1>3, <3>1, <3>2
    <3>4. QED
      BY <1>4, <3>2, <3>3
  <2>2. QED
    BY <2>1 DEF NothingLost
<1>8. FoldersAreListed(e)
  <2>1. ASSUME NEW c \in Folders(e), c # 2
        PROVE  \E x \in Listed(e) : At(e, x).folder /\ At(e, x).cluster = c
    <3>1. c \in Folders(d) /\ c \notin Owned(d, q)
      BY <1>1 DEF FoldersShrink
    <3>2. PICK x \in Listed(d) : At(d, x).folder /\ At(d, x).cluster = c
      BY <1>2, <2>1, <3>1 DEF TreeInv, FoldersAreListed
    <3>3. c \in Owned(d, x)
      BY <1>2, <3>2, OwnedFacts
    <3>4. x \in Listed(e)
      BY <1>3, <3>1, <3>3
    <3>5. QED
      BY <1>3, <3>2, <3>4
  <2>2. QED
    BY <2>1 DEF FoldersAreListed
<1>9. FoldersAreReached(e)
  BY ShrunkReached DEF FoldersAreReached
<1>10. UnusedAreBlank(e)
  <2>1. ASSUME NEW c \in Folders(e), NEW j \in Indices, ~TableIn(e[c])[j].used
        PROVE  TableIn(e[c])[j] = UnusedEntry
    <3>1. CASE c = q[1] /\ j = q[2]
      BY <1>2, <3>1
    <3>2. CASE c # q[1] \/ j # q[2]
      <4>1. TableIn(e[c])[j] = TableIn(d[c])[j] /\ c \in Folders(d)
        BY <1>1, <3>2 DEF FoldersShrink
      <4>2. QED
        BY <1>2, <2>1, <4>1 DEF TreeInv, UnusedAreBlank
    <3>3. QED
      BY <3>1, <3>2
  <2>2. QED
    BY <2>1 DEF UnusedAreBlank
<1>11. \A x \in Listed(e) : EntryIsWhole(e, x)
  BY ShrunkEntries
<1>12. QED
  BY <1>5, <1>6, <1>7, <1>8, <1>9, <1>10, <1>11 DEF TreeInv

-----------------------------------------------------------------------------
(* What delete does is such a step.                                        *)

LEMMA TwoMore ==
  ASSUME NEW S, NEW a \in S, NEW z \in S, NEW s \in Seq(S), NEW b, b = s \o <<a, z>>
  PROVE  /\ Len(s) \in Nat /\ Len(b) = Len(s) + 2 /\ DOMAIN b = 1 .. Len(s) + 2
         /\ \A k \in 1 .. Len(s) : b[k] = s[k]
         /\ b[Len(s) + 1] = a /\ b[Len(s) + 2] = z
<1>1. <<a, z>> \in Seq(S) /\ Len(<<a, z>>) = 2 /\ <<a, z>>[1] = a /\ <<a, z>>[2] = z
  OBVIOUS
<1>2. /\ b \in Seq(S)
      /\ Len(b) = Len(s) + 2
      /\ \A i \in 1 .. Len(s) + 2 : b[i] = IF i <= Len(s) THEN s[i] ELSE <<a, z>>[i - Len(s)]
  BY <1>1, ConcatProperties
<1>3. Len(s) \in Nat
  BY LenProperties
<1>4. DOMAIN b = 1 .. Len(b)
  BY <1>2, LenProperties
<1>5. \A k \in 1 .. Len(s) : b[k] = s[k]
  BY <1>2, <1>3
<1>6. /\ Len(s) + 1 \in 1 .. Len(s) + 2 /\ (Len(s) + 1) - Len(s) = 1
      /\ Len(s) + 2 \in 1 .. Len(s) + 2 /\ (Len(s) + 2) - Len(s) = 2
      /\ ~(Len(s) + 1 <= Len(s)) /\ ~(Len(s) + 2 <= Len(s))
  BY <1>3
<1>7. b[Len(s) + 1] = a /\ b[Len(s) + 2] = z
  BY <1>1, <1>2, <1>6
<1>8. QED
  BY <1>2, <1>3, <1>4, <1>5, <1>7

(* What a delete that is not refused works on.                             *)
DeletedPlace(r) == <<r.parent, First(Deletable(r))>>

LEMMA DeleteFacts ==
  ASSUME DriverInv, TreeInv(disk), NEW r, r.parent \in Clusters, delete_code(r) = 0
  PROVE  /\ r.parent \in Folders(disk) /\ r.parent > 1 /\ IsTable(Table(r.parent))
         /\ First(Deletable(r)) \in Indices
         /\ fat_table = MapOf(disk) /\ power = "on"
         /\ DeletedPlace(r) \in Listed(disk)
         /\ At(disk, DeletedPlace(r)) = DeletedEntry(r)
         /\ Owned(disk, DeletedPlace(r)) = ClustersOf(fat_table, DeletedEntry(r).cluster)
         /\ EndsProperly(fat_table, DeletedEntry(r).cluster)
         /\ DeletedEntry(r).folder =>
              \A j \in Indices : j > 1 => ~TableIn(disk[DeletedEntry(r).cluster])[j].used
<1> DEFINE p == r.parent
           t == Table(p)
           i == First(Deletable(r))
           q == <<p, i>>
<1>1. IsFolderTable(p) /\ Deletable(r) # {}
  BY DEF delete_code
<1>2. p > 1 /\ power = "on" /\ IsTable(t) /\ DiskInv(disk)
  BY <1>1, FoldersAreBehind DEF DriverInv
<1>3. i \in Indices \ {0, 1} /\ t[i].used
  <2>1. Deletable(r) \subseteq Indices
    BY DEF Deletable
  <2>2. Deletable(r) \subseteq Int
    <3>1. Indices \subseteq Int
      BY ClusterBasics
    <3>2. QED
      BY <2>1, <3>1
  <2>3. IsFiniteSet(Deletable(r))
    BY <2>1, ClusterBasics, FS_Subset
  <2>4. i \in Deletable(r)
    BY <1>1, <2>2, <2>3, FirstOf
  <2>5. QED
    BY <2>4 DEF Deletable, Matches
<1>4. fat_table = MapOf(disk)
  BY <1>2 DEF DriverInv, MemoryInv, MapOf
<1>5. p \in Folders(disk) /\ t = TableIn(disk[p])
  <2>1. t = TableIn(disk[p]) /\ t[0].folder
    BY <1>1 DEF Table, IsFolderTable
  <2>2. disk[p].kind = "directory"
    BY <2>1, UnusedTyped, ClusterBasics DEF TableIn
  <2>3. QED
    BY <2>1, <2>2 DEF Folders
<1>6. DeletedEntry(r) = t[i]
  BY DEF DeletedEntry
<1> HIDE DEF i
<1>7. q \in Listed(disk) /\ At(disk, q) = DeletedEntry(r)
  BY <1>3, <1>5, <1>6 DEF Listed, At
<1>8. EntryIsWhole(disk, q)
  BY <1>7 DEF TreeInv
<1>9. EndsProperly(fat_table, DeletedEntry(r).cluster)
  BY <1>4, <1>7, <1>8 DEF EntryIsWhole
<1>10. Owned(disk, q) = ClustersOf(fat_table, DeletedEntry(r).cluster)
  BY <1>4, <1>7 DEF Owned
<1>11. ASSUME DeletedEntry(r).folder, NEW j \in Indices, j > 1
       PROVE  ~TableIn(disk[DeletedEntry(r).cluster])[j].used
  <2> DEFINE c == DeletedEntry(r).cluster
  <2>1. ~HasEntries(c, p)
    BY <1>1, <1>11 DEF delete_code, DeletedEntry
  <2>2. fat_table[c] = FAT32_FAT_END_OF_FILE
    BY <1>4, <1>7, <1>8, <1>11 DEF EntryIsWhole, FolderIsWhole
  <2>3. j \notin {0, 1}
    BY <1>11
  <2> HIDE DEF c
  <2>4. ~Table(c)[j].used
    BY <2>1, <2>2, <2>3 DEF HasEntries
  <2>5. QED
    BY <2>4 DEF Table, c
<1>12. QED
  BY <1>2, <1>3, <1>4, <1>5, <1>7, <1>9, <1>10, <1>11 DEF DeletedPlace, i

(* The writes of a delete: the chain, all alike, the table, the folder.     *)
LEMMA DeleteStepsAre ==
  ASSUME DriverInv, TreeInv(disk), NEW r, r.parent \in Clusters, delete_code(r) = 0
  PROVE  LET steps == DeleteSteps(r)
             chain == Chain(fat_table, DeletedEntry(r).cluster)
             freed == Owned(disk, DeletedPlace(r))
             L     == Len(chain)
         IN /\ L \in Nat /\ DOMAIN steps = 1 .. L + 2
            /\ freed = {chain[i] : i \in 1 .. L}
            /\ \A c \in freed : c \in Clusters /\ c > 2
            /\ r.parent \in Clusters /\ r.parent > 1 /\ r.parent \notin freed
            /\ \A k \in 1 .. L : steps[k].cluster = chain[k] /\ steps[k].block = Zero
            /\ steps[L + 1].cluster = 1 /\ steps[L + 1].block = Fat(FatAfterDelete(r))
            /\ steps[L + 2].cluster = r.parent
            /\ steps[L + 2].block = Directory(TableAfterDelete(r))
<1> DEFINE p == r.parent
           q == DeletedPlace(r)
           c0 == DeletedEntry(r).cluster
           chain == Chain(fat_table, c0)
           freed == ClustersOf(fat_table, c0)
           zeros == ZeroSteps(r)
           steps == DeleteSteps(r)
           a == Write(1, Fat(FatAfterDelete(r)))
           z == Write(p, Directory(TableAfterDelete(r)))
           L == Len(chain)
<1>1. /\ p \in Folders(disk) /\ q \in Listed(disk) /\ Owned(disk, q) = freed
      /\ At(disk, q).cluster = c0 /\ p = q[1] /\ p > 1
  BY DeleteFacts DEF DeletedPlace
<1>2. /\ \A c \in freed : c \in Clusters /\ c > 2
      /\ p \in Clusters /\ p \notin freed /\ c0 \in Clusters
  <2>1. DiskInv(disk)
    BY DEF DriverInv
  <2>2. QED
    BY <1>1, <2>1, OwnedFacts, NotInItself DEF Folders
<1>3. fat_table \in [Clusters -> Links]
  BY TypesOfDriver
<1>4. /\ L \in Nat /\ DOMAIN chain = 1 .. L
      /\ freed = {chain[i] : i \in 1 .. L}
  <2> HIDE DEF c0
  <2>1. L \in 1 .. CLUSTER_MAP_SIZE + 1 /\ DOMAIN chain = 1 .. L
    BY <1>2, <1>3, ChainIsWalk
  <2>2. freed = {chain[i] : i \in DOMAIN chain}
    BY DEF ClustersOf
  <2> HIDE DEF chain, freed
  <2>3. QED
    BY <2>1, <2>2, ClusterBasics
<1>5. zeros = [i \in 1 .. L |-> Write(chain[i], Zero)]
  BY <1>4 DEF ZeroSteps
<1>6. steps = zeros \o <<a, z>>
  BY DEF DeleteSteps, FAT_CLUSTER_NUMBER
<1> HIDE DEF p, q, c0, chain, freed, zeros, steps, a, z, L
<1> DEFINE S == {zeros[i] : i \in 1 .. L} \cup {a, z}
<1>7. zeros \in Seq(S) /\ Len(zeros) = L
  <2>1. DOMAIN zeros = 1 .. L
    BY <1>5
  <2>2. zeros = [i \in 1 .. L |-> zeros[i]]
    <3> DEFINE F(i) == Write(chain[i], Zero)
    <3>1. zeros = [i \in 1 .. L |-> F(i)]
      BY <1>5
    <3> HIDE DEF F
    <3>2. QED
      BY <3>1
  <2>3. \A i \in 1 .. L : zeros[i] \in S
    OBVIOUS
  <2> HIDE DEF S
  <2>4. zeros \in [1 .. L -> S]
    BY <2>2, <2>3, FunctionTyped
  <2>5. Len(zeros) = L
    BY <1>4, <2>1, LenIs
  <2>6. QED
    BY <1>4, <2>4, <2>5, SeqDef
<1>8. /\ DOMAIN steps = 1 .. L + 2
      /\ \A k \in 1 .. L : steps[k] = zeros[k]
      /\ steps[L + 1] = a /\ steps[L + 2] = z
  <2>1. a \in S /\ z \in S
    OBVIOUS
  <2> HIDE DEF S
  <2>2. QED
    BY <1>6, <1>7, <2>1, TwoMore
<1> HIDE DEF S
<1>9. /\ \A k \in 1 .. L : steps[k].cluster = chain[k] /\ steps[k].block = Zero
      /\ steps[L + 1].cluster = 1 /\ steps[L + 1].block = Fat(FatAfterDelete(r))
      /\ steps[L + 2].cluster = p /\ steps[L + 2].block = Directory(TableAfterDelete(r))
  <2>1. \A k \in 1 .. L : steps[k] = Write(chain[k], Zero)
    BY <1>5, <1>8
  <2>2. QED
    BY <1>8, <2>1, WriteFields DEF a, z
<1>10. QED
  BY <1>1, <1>2, <1>4, <1>8, <1>9 DEF p, q, c0, chain, freed, steps, L

(* The disk after a delete.                                                *)
LEMMA DeleteEffect ==
  ASSUME DriverInv, TreeInv(disk), NEW r, r.parent \in Clusters, delete_code(r) = 0,
         NEW d, d = write_clusters(DeleteSteps(r), disk)
  PROVE  /\ d[r.parent] = Directory(TableAfterDelete(r))
         /\ d[1] = Fat(FatAfterDelete(r))
         /\ \A c \in Owned(disk, DeletedPlace(r)) : d[c] = Zero
         /\ \A c \in Clusters :
              c # r.parent /\ c # 1 /\ c \notin Owned(disk, DeletedPlace(r)) => d[c] = disk[c]
<1> DEFINE p     == r.parent
           chain == Chain(fat_table, DeletedEntry(r).cluster)
           freed == Owned(disk, DeletedPlace(r))
           steps == DeleteSteps(r)
           L     == Len(chain)
<1>1. /\ L \in Nat /\ DOMAIN steps = 1 .. L + 2 /\ freed = {chain[i] : i \in 1 .. L}
      /\ \A c \in freed : c \in Clusters /\ c > 2
      /\ p \in Clusters /\ p > 1 /\ p \notin freed
      /\ \A k \in 1 .. L : steps[k].cluster = chain[k] /\ steps[k].block = Zero
      /\ steps[L + 1].cluster = 1 /\ steps[L + 1].block = Fat(FatAfterDelete(r))
      /\ steps[L + 2].cluster = p /\ steps[L + 2].block = Directory(TableAfterDelete(r))
  BY DeleteStepsAre
<1> HIDE DEF p, chain, freed, steps, L
<1> DEFINE n == L + 2
<1>2. n \in Nat /\ DOMAIN steps = 1 .. n /\ d = write_clusters(steps, disk)
  BY <1>1 DEF steps
<1>3. \A k \in 1 .. n : k \in 1 .. L \/ k = L + 1 \/ k = L + 2
  BY <1>1
<1>4. \A k \in 1 .. L : k \in 1 .. n
  BY <1>1
<1>5. L + 1 \in 1 .. n /\ L + 2 \in 1 .. n
  BY <1>1
<1> HIDE DEF n
<1>6. ASSUME NEW c \in Clusters
       PROVE  \/ (\A i \in 1 .. n : steps[i].cluster # c) /\ d[c] = disk[c]
              \/ \E i \in 1 .. n : steps[i].cluster = c /\ d[c] = steps[i].block
  BY <1>2, Written
<1>7. ASSUME NEW c \in freed
       PROVE  d[c] = Zero
  <2>1. c \in Clusters /\ c # 1 /\ c # p
    BY <1>1
  <2>2. PICK k \in 1 .. L : chain[k] = c
    BY <1>1
  <2>3. steps[k].cluster = c /\ k \in 1 .. n
    BY <1>1, <1>4, <2>2
  <2>4. PICK i \in 1 .. n : steps[i].cluster = c /\ d[c] = steps[i].block
    BY <1>6, <2>1, <2>3
  <2>5. i # L + 1 /\ i # L + 2
    BY <1>1, <2>1, <2>4
  <2>6. i \in 1 .. L
    BY <1>3, <2>5
  <2>7. QED
    BY <1>1, <2>4, <2>6
<1>8. d[1] = Fat(FatAfterDelete(r))
  <2>1. 1 \in Clusters /\ 1 # p /\ 1 \notin freed
    BY <1>1, ClusterBasics
  <2>2. PICK i \in 1 .. n : steps[i].cluster = 1 /\ d[1] = steps[i].block
    BY <1>1, <1>5, <1>6, <2>1
  <2>3. i \notin 1 .. L
    BY <1>1, <2>1, <2>2
  <2>4. i # L + 2
    BY <1>1, <2>1, <2>2
  <2>5. QED
    BY <1>1, <1>3, <2>2, <2>3, <2>4
<1>9. d[p] = Directory(TableAfterDelete(r))
  <2>1. 1 # p
    BY <1>1
  <2>2. PICK i \in 1 .. n : steps[i].cluster = p /\ d[p] = steps[i].block
    BY <1>1, <1>5, <1>6
  <2>3. i \notin 1 .. L
    BY <1>1, <2>2
  <2>4. i # L + 1
    BY <1>1, <2>1, <2>2
  <2>5. QED
    BY <1>1, <1>3, <2>2, <2>3, <2>4
<1>10. ASSUME NEW c \in Clusters, c # p, c # 1, c \notin freed
       PROVE  d[c] = disk[c]
  <2>1. ASSUME NEW i \in 1 .. n
        PROVE  steps[i].cluster # c
    <3>1. CASE i \in 1 .. L
      BY <1>1, <1>10, <3>1
    <3>2. QED
      BY <1>1, <1>3, <1>10, <3>1
  <2>2. QED
    BY <1>6, <2>1
<1>11. QED
  BY <1>1, <1>7, <1>8, <1>9, <1>10 DEF p, freed

LEMMA DeleteShrinks ==
  ASSUME DriverInv, TreeInv(disk), NEW r, r.parent \in Clusters, delete_code(r) = 0,
         NEW d, d = write_clusters(DeleteSteps(r), disk)
  PROVE  Shrinks(disk, d, DeletedPlace(r))
<1> DEFINE p == r.parent
           i == First(Deletable(r))
           q == DeletedPlace(r)
           t == Table(p)
<1>1. /\ p \in Folders(disk) /\ p > 1 /\ IsTable(t) /\ i \in Indices
      /\ fat_table = MapOf(disk) /\ q \in Listed(disk)
      /\ At(disk, q) = DeletedEntry(r)
      /\ Owned(disk, q) = ClustersOf(fat_table, DeletedEntry(r).cluster)
      /\ EndsProperly(fat_table, DeletedEntry(r).cluster)
      /\ DeletedEntry(r).folder =>
           \A j \in Indices : j > 1 => ~TableIn(disk[DeletedEntry(r).cluster])[j].used
  BY DeleteFacts
<1>2. DiskInv(disk) /\ DiskInv(d)
  <2>1. AllAllowed(DeleteSteps(r), disk)
    BY <1>1, DeleteIsAllowed
  <2>2. QED
    BY <2>1, StepsKeepTheDisk DEF DriverInv
<1>3. /\ d[p] = Directory(TableAfterDelete(r))
      /\ d[1] = Fat(FatAfterDelete(r))
      /\ \A c \in Owned(disk, q) : d[c] = Zero
      /\ \A c \in Clusters : c # p /\ c # 1 /\ c \notin Owned(disk, q) => d[c] = disk[c]
  BY DeleteEffect
<1>4. /\ d[p].kind = "directory" /\ TableIn(d[p]) = TableAfterDelete(r)
      /\ d[1].kind = "fat" /\ MapOf(d) = FatAfterDelete(r)
      /\ t = TableIn(disk[p])
  BY <1>3, Kinds DEF TableIn, MapOf, MapIn, Table
<1>5. /\ TableAfterDelete(r)[i] = UnusedEntry
      /\ \A j \in Indices : j # i => TableAfterDelete(r)[j] = t[j]
  <2>1. TableAfterDelete(r) = [t EXCEPT ![i] = UnusedEntry]
    BY DEF TableAfterDelete, Cleared
  <2>2. t \in [Indices -> DirectoryEntries]
    BY <1>1 DEF IsTable, Tables
  <2> HIDE DEF t, i
  <2>3. QED
    BY <1>1, <2>1, <2>2
<1>6. \A c \in Clusters : MapOf(d)[c] = IF c \in Owned(disk, q) THEN 0 ELSE MapOf(disk)[c]
  <2>1. FatAfterDelete(r) = [c \in Clusters |-> IF c \in Owned(disk, q) THEN 0 ELSE fat_table[c]]
    BY <1>1 DEF FatAfterDelete, FAT32_FAT_EMPTY_ENTRY
  <2> HIDE DEF q
  <2>2. QED
    BY <1>1, <1>4, <2>1
<1>7. q[1] = p /\ q[2] = i
  BY DEF DeletedPlace
<1> HIDE DEF p, i, q, t
<1>8. Shrunk(disk, d, q)
  BY <1>1, <1>3, <1>4, <1>5, <1>6, <1>7 DEF Shrunk
<1>9. QED
  BY <1>2, <1>8 DEF Shrinks, TreeInv, q

LEMMA DeleteKeepsTheTree ==
  ASSUME DriverInv, TreeInv(disk), NEW r, r.parent \in Clusters, delete_code(r) = 0
  PROVE  /\ TreeInv(write_clusters(DeleteSteps(r), disk))
         /\ EndsProperly(fat_table, DeletedEntry(r).cluster)
BY DeleteShrinks, ShrunkTree, DeleteFacts

-----------------------------------------------------------------------------
(* The tree stays whole until the machine stops inside a request.          *)

LEMMA FormattedFacts ==
  /\ FormattedMap \in [Clusters -> Links]
  /\ FormattedMap[0] = CLUSTER_0_VALUE /\ FormattedMap[1] = CLUSTER_1_VALUE
  /\ FormattedMap[2] = FAT32_FAT_END_OF_FILE
  /\ \A k \in Clusters : k > 2 => FormattedMap[k] = 0
<1> DEFINE m1 == [EmptyMap EXCEPT ![0] = CLUSTER_0_VALUE]
           m2 == [m1 EXCEPT ![1] = CLUSTER_1_VALUE]
<1>1. EmptyMap \in [Clusters -> Links] /\ \A k \in Clusters : EmptyMap[k] = 0
  BY ClusterBasics DEF EmptyMap, FAT32_FAT_EMPTY_ENTRY, Links
<1>2. {CLUSTER_0_VALUE, CLUSTER_1_VALUE, FAT32_FAT_END_OF_FILE} \subseteq Links
  BY ClusterBasics DEF CLUSTER_0_VALUE, CLUSTER_1_VALUE, FAT32_FAT_END_OF_FILE, Links
<1>3. FormattedMap = [m2 EXCEPT ![2] = FAT32_FAT_END_OF_FILE]
  BY DEF FormattedMap
<1>4. /\ m1 \in [Clusters -> Links] /\ m1[0] = CLUSTER_0_VALUE
      /\ \A k \in Clusters : k # 0 => m1[k] = 0
  BY <1>1, <1>2, ClusterBasics
<1> HIDE DEF m1
<1>5. /\ m2 \in [Clusters -> Links]
      /\ m2[0] = CLUSTER_0_VALUE /\ m2[1] = CLUSTER_1_VALUE
      /\ \A k \in Clusters : k # 0 /\ k # 1 => m2[k] = 0
  BY <1>2, <1>4, ClusterBasics
<1> HIDE DEF m2
<1>6. 0 \in Clusters /\ 1 \in Clusters /\ 2 \in Clusters /\ Clusters \subseteq Nat
  BY ClusterBasics
<1>7. FormattedMap \in [Clusters -> Links]
  BY <1>2, <1>3, <1>5
<1>8. \A k \in Clusters :
        FormattedMap[k] = IF k = 2 THEN FAT32_FAT_END_OF_FILE ELSE m2[k]
  BY <1>3, <1>5
<1>9. \A k \in Clusters : k > 2 => k # 0 /\ k # 1 /\ k # 2
  BY <1>6
<1>10. QED
  BY <1>5, <1>6, <1>7, <1>8, <1>9

LEMMA FormatEffect ==
  ASSUME NEW d, NEW e, e = write_clusters(FormatSteps, d)
  PROVE  /\ e[0] = Signature /\ e[1] = Fat(FormattedMap)
         /\ e[2] = Directory(init_directory_table("root", 2))
         /\ \A c \in Clusters : c > 2 => e[c] = d[c]
<1> DEFINE steps == FormatSteps
           n == 3
<1>1. /\ steps = <<Write(0, Signature), Write(1, Fat(FormattedMap)),
                   Write(2, Directory(init_directory_table("root", 2)))>>
  BY DEF FormatSteps, BOOT_SECTOR, FAT_CLUSTER_NUMBER, ROOT_CLUSTER_NUMBER
<1>2. /\ DOMAIN steps = 1 .. n
      /\ steps[1].cluster = 0 /\ steps[1].block = Signature
      /\ steps[2].cluster = 1 /\ steps[2].block = Fat(FormattedMap)
      /\ steps[3].cluster = 2
      /\ steps[3].block = Directory(init_directory_table("root", 2))
  BY <1>1, WriteFields
<1> HIDE DEF steps
<1>3. \A i \in 1 .. n : i = 1 \/ i = 2 \/ i = 3
  OBVIOUS
<1>4. 1 \in 1 .. n /\ 2 \in 1 .. n /\ 3 \in 1 .. n /\ n \in Nat
  OBVIOUS
<1> HIDE DEF n
<1>5. \A i, j \in 1 .. n : steps[i].cluster = steps[j].cluster => i = j
  BY <1>2, <1>3
<1>6. e = write_clusters(steps, d)
  BY DEF steps
<1>7. /\ \A i \in 1 .. n : steps[i].cluster \in Clusters => e[steps[i].cluster] = steps[i].block
      /\ \A c \in Clusters : (\A i \in 1 .. n : steps[i].cluster # c) => e[c] = d[c]
  BY <1>2, <1>4, <1>5, <1>6, ApartWrites
<1>8. e[0] = Signature
  BY <1>2, <1>4, <1>7, ClusterBasics
<1>9. e[1] = Fat(FormattedMap)
  BY <1>2, <1>4, <1>7, ClusterBasics
<1>10. e[2] = Directory(init_directory_table("root", 2))
  BY <1>2, <1>4, <1>7, ClusterBasics
<1>11. ASSUME NEW c \in Clusters, c > 2
       PROVE  e[c] = d[c]
  <2>1. c # 0 /\ c # 1 /\ c # 2
    BY <1>11
  <2>2. \A i \in 1 .. n : steps[i].cluster # c
    BY <1>2, <1>3, <2>1
  <2>3. QED
    BY <1>7, <2>2
<1>12. QED
  BY <1>8, <1>9, <1>10, <1>11

(* A new disk has the root alone, and nothing in it.                       *)
LEMMA FormatMakesATree ==
  ASSUME NEW d, \A c \in Clusters : d[c] = Zero, NEW e, e = write_clusters(FormatSteps, d)
  PROVE  TreeInv(e) /\ Listed(e) = {} /\ Folders(e) = {2}
<1> DEFINE init == init_directory_table("root", 2)
<1>1. /\ e[0] = Signature /\ e[1] = Fat(FormattedMap) /\ e[2] = Directory(init)
      /\ \A c \in Clusters : c > 2 => e[c] = Zero
  BY FormatEffect
<1>2. /\ init[0] = FolderEntry("root", 2) /\ init[1] = FolderEntry("..", 2)
      /\ \A j \in Indices : j > 1 => init[j] = UnusedEntry
  BY ClusterBasics DEF init_directory_table
<1> HIDE DEF init
<1>3. Folders(e) = {2}
  <2>1. \A c \in Clusters : c = 0 \/ c = 1 \/ c = 2 \/ c > 2
    BY ClusterBasics
  <2>2. 2 \in Clusters
    BY ClusterBasics
  <2>3. QED
    BY <1>1, <2>1, <2>2, Kinds DEF Folders
<1>4. TableIn(e[2]) = init /\ MapOf(e) = FormattedMap
  BY <1>1, Kinds DEF TableIn, MapOf, MapIn
<1>5. \A j \in Indices : j = 0 \/ j = 1 \/ j > 1
  BY ClusterBasics
<1>6. \A name, c : FolderEntry(name, c).used
  BY DEF FolderEntry, UnusedEntry
<1>7. Listed(e) = {}
  <2>1. ASSUME NEW p \in Listed(e)
        PROVE  FALSE
    <3>1. PICK c \in Folders(e), j \in Indices \ {0, 1} : TableIn(e[c])[j].used
      BY DEF Listed
    <3>2. j > 1 /\ c = 2
      BY <1>3, <1>5
    <3>3. QED
      BY <1>2, <1>4, <3>1, <3>2, UnusedTyped
  <2>2. QED
    BY <2>1
<1>8. e[1] # Zero /\ e[2] # Zero
  BY <1>1, Kinds
<1>9. NothingLost(e)
  BY <1>4, FormattedFacts DEF NothingLost
<1>10. FoldersAreListed(e) /\ FoldersAreReached(e)
  BY <1>3 DEF FoldersAreListed, FoldersAreReached
<1>11. UnusedAreBlank(e)
  BY <1>2, <1>3, <1>4, <1>5, <1>6 DEF UnusedAreBlank
<1>12. OwnersApart(e) /\ \A p \in Listed(e) : EntryIsWhole(e, p)
  BY <1>7 DEF OwnersApart
<1>13. QED
  BY <1>3, <1>7, <1>8, <1>9, <1>10, <1>11, <1>12 DEF TreeInv

(* Up to the first stop inside a request the disk is either as it came or  *)
(* holds a whole tree.                                                     *)
WholeInv ==
  crashes = 0 =>
    /\ power # "lost"
    /\ IF disk[0] = Signature THEN TreeInv(disk)
       ELSE power = "off" /\ \A c \in Clusters : disk[c] = Zero

LEMMA WholeStarts ==
  ASSUME DriverInv, WholeInv, initialize_filesystem_fat32
  PROVE  WholeInv'
<1>1. CASE disk[0] = Signature
  BY <1>1 DEF WholeInv, initialize_filesystem_fat32, is_empty_storage, BOOT_SECTOR
<1>2. CASE disk[0] # Signature
  <2>1. SUFFICES ASSUME crashes' = 0
                 PROVE  power' # "lost" /\ disk'[0] = Signature /\ TreeInv(disk')
    BY DEF WholeInv
  <2>2. \A c \in Clusters : disk[c] = Zero
    BY <1>2, <2>1 DEF WholeInv, initialize_filesystem_fat32
  <2>3. disk' = write_clusters(FormatSteps, disk)
    BY <1>2 DEF initialize_filesystem_fat32, is_empty_storage, BOOT_SECTOR
  <2>4. TreeInv(disk') /\ disk'[0] = Signature
    BY <2>2, <2>3, FormatMakesATree, FormatEffect
  <2>5. QED
    BY <2>4 DEF initialize_filesystem_fat32
<1>3. QED
  BY <1>1, <1>2

LEMMA WholeWrites ==
  ASSUME DriverInv, WholeInv, NEW r \in AnyRequest, write(r)
  PROVE  WholeInv'
<1>1. SUFFICES ASSUME crashes' = 0
               PROVE  power' # "lost" /\ disk'[0] = Signature /\ TreeInv(disk')
  BY DEF WholeInv
<1>2. /\ write_code(r) = 0 /\ disk' = write_clusters(WriteSteps(r), disk)
      /\ power = "on" /\ power' = "on" /\ crashes = 0
  BY <1>1 DEF write
<1>3. disk[0] = Signature /\ TreeInv(disk)
  BY <1>2 DEF WholeInv
<1>4. TreeInv(disk')
  BY <1>2, <1>3, WriteKeepsTheTree
<1>5. disk'[0] = disk[0]
  <2>1. /\ r.parent > 1 /\ \A k \in 1 .. ClustersNeeded(r) : EmptyClusters(r)[k] > 2
        /\ 0 \in Clusters
    BY <1>2, WriteFacts, ClusterBasics
  <2>2. 0 # r.parent /\ 0 # 1 /\ \A k \in 1 .. ClustersNeeded(r) : EmptyClusters(r)[k] # 0
    BY <2>1
  <2>3. QED
    BY <1>2, <2>1, <2>2, WriteEffect
<1>6. QED
  BY <1>2, <1>3, <1>4, <1>5

LEMMA WholeDeletes ==
  ASSUME DriverInv, WholeInv, NEW r, r.parent \in Clusters, delete(r) \/ DeleteLost(r)
  PROVE  WholeInv'
<1>1. SUFFICES ASSUME crashes' = 0
               PROVE  power' # "lost" /\ disk'[0] = Signature /\ TreeInv(disk')
  BY DEF WholeInv
<1>2. delete_code(r) = 0 /\ power = "on" /\ crashes = 0
  BY <1>1 DEF delete, DeleteLost
<1>3. disk[0] = Signature /\ TreeInv(disk)
  BY <1>2 DEF WholeInv
<1>4. EndsProperly(fat_table, DeletedEntry(r).cluster)
  BY <1>2, <1>3, DeleteKeepsTheTree
<1>5. disk' = write_clusters(DeleteSteps(r), disk) /\ power' = "on"
  BY <1>2, <1>4 DEF delete, DeleteLost
<1>6. TreeInv(disk')
  BY <1>2, <1>3, <1>5, DeleteKeepsTheTree
<1>7. disk'[0] = disk[0]
  <2>1. /\ r.parent > 1 /\ DeletedPlace(r) \in Listed(disk) /\ DiskInv(disk)
        /\ 0 \in Clusters
    BY <1>2, <1>3, DeleteFacts, ClusterBasics DEF DriverInv
  <2>2. 0 # r.parent /\ 0 # 1 /\ 0 \notin Owned(disk, DeletedPlace(r))
    BY <1>3, <2>1, OwnedFacts
  <2>3. QED
    BY <1>2, <1>3, <1>5, <2>1, <2>2, DeleteEffect
<1>8. QED
  BY <1>3, <1>5, <1>6, <1>7

LEMMA WholeStops ==
  ASSUME DriverInv, WholeInv,
         PowerOff \/ CrashInFormat \/ (\E r : CrashInWrite(r) \/ CrashInDelete(r))
  PROVE  WholeInv'
<1>1. CASE PowerOff
  BY <1>1 DEF PowerOff, WholeInv
<1>2. ASSUME NEW steps, Crash(steps)
      PROVE  WholeInv'
  <2>1. crashes' = crashes + 1 /\ crashes \in Nat
    BY <1>2 DEF Crash, DriverInv
  <2>2. crashes' # 0
    BY <2>1
  <2>3. QED
    BY <2>2 DEF WholeInv
<1>3. QED
  BY <1>1, <1>2 DEF CrashInFormat, CrashInWrite, CrashInDelete

LEMMA WholeStep ==
  ASSUME DriverInv, WholeInv, [Next]_vars
  PROVE  WholeInv'
<1>1. CASE initialize_filesystem_fat32
  BY <1>1, WholeStarts
<1>2. CASE \E r \in Requests : write(r)
  BY <1>2, WholeWrites, RequestsAreAny
<1>3. CASE \E r \in Targets : delete(r) \/ DeleteLost(r)
  BY <1>3, WholeDeletes, RequestsAreAny
<1>4. CASE \/ PowerOff \/ CrashInFormat
           \/ \E r \in Requests : CrashInWrite(r)
           \/ \E r \in Targets : CrashInDelete(r)
  BY <1>4, WholeStops
<1>5. CASE UNCHANGED vars
  BY <1>5 DEF vars, WholeInv
<1>6. QED
  BY <1>1, <1>2, <1>3, <1>4, <1>5 DEF Next

(* fat32.c: requests and restarts keep the tree on the disk whole: every   *)
(* chain ends and is as long as its entry says, no two entries share a     *)
(* cluster, none in use is lost, every folder is listed once and leads     *)
(* back to where it is listed, and all hang on the root; and delete never  *)
(* runs off the end of a chain.  Only a stop inside a request can break it.*)
THEOREM TreeStaysWhole == Spec => [](DriverInv /\ WholeInv)
<1>1. Init => DriverInv /\ WholeInv
  <2>1. ASSUME Init
        PROVE  WholeInv
    <3>1. \A c \in Clusters : disk[c] = Zero
      BY <2>1 DEF Init
    <3>2. disk[0] # Signature
      BY <3>1, Kinds, ClusterBasics
    <3>3. QED
      BY <2>1, <3>1, <3>2 DEF Init, WholeInv
  <2>2. QED
    BY <2>1, DriverInit
<1>2. DriverInv /\ WholeInv /\ [Next]_vars => (DriverInv /\ WholeInv)'
  BY DriverStep, WholeStep
<1>3. QED
  BY <1>1, <1>2, PTL DEF Spec

-----------------------------------------------------------------------------
(* The walk from the root, folder by folder, finds all folders.            *)

(* One more level of folders.                                              *)
Deeper(S) ==
  S \cup {e.cluster : e \in {x \in UNION {ListedIn(c) : c \in S} : x.folder}}

Levels(up, N) ==
  /\ up[0] = {2}
  /\ \A n \in 0 .. N : up[n] \in SUBSET Clusters
  /\ \A n \in 1 .. N : up[n] = Deeper(up[n - 1])

LEMMA DeeperIs ==
  ASSUME DriverInv, NEW S \in SUBSET Clusters
  PROVE  /\ Deeper(S) \in SUBSET Clusters
         /\ S \subseteq Deeper(S)
         /\ \A c \in Deeper(S) : c \in S \/ \E p \in Listed(disk) :
              p[1] \in S /\ At(disk, p).folder /\ At(disk, p).cluster = c
         /\ \A p \in Listed(disk) :
              p[1] \in S /\ At(disk, p).folder => At(disk, p).cluster \in Deeper(S)
<1>1. \A c \in Clusters : Table(c) \in Tables /\ Table(c) = TableIn(disk[c])
  BY TypesOfDriver DEF Table
<1>2. ASSUME NEW c \in S, NEW e \in ListedIn(c), e.folder
      PROVE  /\ e.cluster \in Clusters
             /\ \E p \in Listed(disk) : p[1] = c /\ At(disk, p) = e
  <2>1. PICK i \in Indices \ {0, 1} : e = Table(c)[i] /\ e.used
    BY DEF ListedIn
  <2>2. e = TableIn(disk[c])[i]
    BY <1>1, <2>1
  <2>3. disk[c].kind = "directory"
    BY <2>1, <2>2, UnusedTyped DEF TableIn
  <2>4. c \in Folders(disk)
    BY <2>3 DEF Folders
  <2>5. <<c, i>> \in Listed(disk) /\ At(disk, <<c, i>>) = e /\ <<c, i>>[1] = c
    BY <2>1, <2>2, <2>4 DEF Listed, At
  <2>6. e \in DirectoryEntries
    BY <1>1, <2>1 DEF Tables
  <2>7. QED
    BY <2>5, <2>6 DEF DirectoryEntries
<1>3. ASSUME NEW p \in Listed(disk), p[1] \in S, At(disk, p).folder
      PROVE  At(disk, p).cluster \in Deeper(S)
  <2>1. PICK c \in Folders(disk), i \in Indices \ {0, 1} : p = <<c, i>> /\ TableIn(disk[c])[i].used
    BY DEF Listed
  <2>2. c \in S /\ At(disk, p) = Table(c)[i]
    BY <1>1, <1>3, <2>1 DEF At
  <2>3. At(disk, p) \in ListedIn(c)
    BY <1>1, <2>1, <2>2 DEF ListedIn
  <2>4. QED
    BY <1>3, <2>2, <2>3 DEF Deeper
<1>4. ASSUME NEW c \in Deeper(S), c \notin S
      PROVE  /\ c \in Clusters
             /\ \E p \in Listed(disk) : p[1] \in S /\ At(disk, p).folder /\ At(disk, p).cluster = c
  <2>1. PICK b \in S : \E e \in ListedIn(b) : e.folder /\ c = e.cluster
    BY <1>4 DEF Deeper
  <2>2. PICK e \in ListedIn(b) : e.folder /\ c = e.cluster
    BY <2>1
  <2>3. QED
    BY <1>2, <2>2
<1>5. S \subseteq Deeper(S)
  BY DEF Deeper
<1>6. QED
  BY <1>3, <1>4, <1>5

(* The walk starts with the root, if that is a folder.                     *)
LEMMA FolderSteps ==
  ASSUME DriverInv, Formatted
  PROVE  \E up : /\ Table(2)[0].folder => up[0] = {2}
                 /\ \A n \in 0 .. CLUSTER_MAP_SIZE : up[n] \in SUBSET Clusters
                 /\ \A n \in 1 .. CLUSTER_MAP_SIZE : up[n] = Deeper(up[n - 1])
                 /\ FolderClusters = up[CLUSTER_MAP_SIZE]
<1> DEFINE N == CLUSTER_MAP_SIZE
           V == SUBSET Clusters
           F == [n \in Nat |-> [S \in V |-> Deeper(S)]]
           start == {c \in {ROOT_CLUSTER_NUMBER} : Table(c)[0].folder}
           Is(at) == at = [n \in 0 .. N |->
                             IF n = 0 THEN start ELSE Deeper(at[n - 1])]
<1>1. (Table(2)[0].folder => start = {2}) /\ start \in V /\ N \in Nat
  BY ClusterBasics DEF ROOT_CLUSTER_NUMBER
<1>2. F \in [Nat -> [V -> V]]
  <2>1. \A S \in V : Deeper(S) \in V
    BY DeeperIs
  <2>2. QED
    BY <2>1
<1> HIDE DEF start
<1>3. PICK f : Recursion(f, N, V, start, F)
  <2> HIDE DEF F, N, V
  <2>1. QED
    BY <1>1, <1>2, RecursionExists
<1>4. Is(f)
  <2>1. ASSUME NEW n \in 1 .. N
        PROVE  f[n] = Deeper(f[n - 1])
    <3>1. n \in Nat /\ n - 1 \in 0 .. N /\ f[n] = F[n][f[n - 1]]
      <4> HIDE DEF F
      <4> QED
        BY <1>1, <1>3 DEF Recursion
    <3>2. f[n - 1] \in V
      BY <1>3, <3>1 DEF Recursion
    <3>3. QED
      BY <3>1, <3>2
  <2>2. \A n \in 0 .. N : n # 0 => n \in 1 .. N
    BY <1>1
  <2> HIDE DEF F, N, V
  <2>3. f \in [0 .. N -> V] /\ f[0] = start
    BY <1>3 DEF Recursion
  <2> DEFINE Next1(n) == IF n = 0 THEN start ELSE Deeper(f[n - 1])
  <2>4. \A n \in 0 .. N : f[n] = Next1(n)
    BY <2>1, <2>2, <2>3
  <2> HIDE DEF Next1
  <2>5. f = [n \in 0 .. N |-> Next1(n)]
    BY <2>3, <2>4
  <2>6. QED
    BY <2>5 DEF Next1
<1>5. FolderClusters = (CHOOSE at : Is(at))[N]
  BY DEF FolderClusters, Deeper, start
<1> DEFINE w == CHOOSE at : Is(at)
<1>6. Is(w)
  <2> HIDE DEF Is
  <2> QED
    BY <1>4
<1>7. FolderClusters = w[N]
  BY <1>5
<1> HIDE DEF w
<1>8. w[0] = start /\ \A n \in 1 .. N : w[n] = Deeper(w[n - 1])
  <2> DEFINE Next1(n) == IF n = 0 THEN start ELSE Deeper(w[n - 1])
  <2>1. w = [n \in 0 .. N |-> Next1(n)]
    BY <1>6
  <2> HIDE DEF Is
  <2>2. \A n \in 0 .. N : w[n] = Next1(n)
    <3> HIDE DEF Next1
    <3> QED
      BY <2>1
  <2>3. QED
    BY <1>1, <2>2
<1>9. \A n \in 0 .. N : w[n] \in V
  <2> DEFINE G == {n \in 0 .. N : w[n] \in V}
  <2>1. 0 \in G
    BY <1>1, <1>8
  <2>2. ASSUME NEW n \in 0 .. N - 1, n \in G
        PROVE  n + 1 \in G
    <3>1. n + 1 \in 1 .. N /\ (n + 1) - 1 = n /\ w[n] \in V /\ n + 1 \in 0 .. N
      BY <1>1, <2>2
    <3>2. w[n + 1] = Deeper(w[n])
      BY <1>8, <3>1
    <3>3. Deeper(w[n]) \in V
      BY <3>1, DeeperIs
    <3>4. QED
      BY <3>1, <3>2, <3>3
  <2>3. 0 .. N \subseteq G
    <3> HIDE DEF G, N
    <3> QED
      BY <1>1, <2>1, <2>2, UpTo
  <2>4. QED
    BY <2>3
<1>10. Table(2)[0].folder => w[0] = {2}
  BY <1>1, <1>8
<1>11. QED
  BY <1>7, <1>8, <1>9, <1>10

LEMMA FolderLevels ==
  ASSUME DriverInv, Formatted, Table(2)[0].folder
  PROVE  \E up : Levels(up, CLUSTER_MAP_SIZE) /\ FolderClusters = up[CLUSTER_MAP_SIZE]
BY FolderSteps DEF Levels

(* There are more levels than clusters, so some level adds nothing, and    *)
(* from there on no entry leads out.                                       *)
LEMMA LastLevelIsClosed ==
  ASSUME DriverInv, NEW up, Levels(up, CLUSTER_MAP_SIZE)
  PROVE  /\ Closed(disk, up[CLUSTER_MAP_SIZE]) /\ 2 \in up[CLUSTER_MAP_SIZE]
         /\ up[CLUSTER_MAP_SIZE] \in SUBSET Clusters
<1> DEFINE N == CLUSTER_MAP_SIZE
           G == {n \in 0 .. N : /\ 2 \in up[n]
                                /\ Cardinality(up[n]) >= n + 1 \/ Deeper(up[n]) = up[n]}
<1>1. /\ N \in Nat /\ up[0] = {2}
      /\ \A n \in 0 .. N : up[n] \in SUBSET Clusters
      /\ \A n \in 1 .. N : up[n] = Deeper(up[n - 1])
  BY ClusterBasics DEF Levels
<1>2. \A S \in SUBSET Clusters : IsFiniteSet(S) /\ Cardinality(S) \in Nat
  <2>1. ASSUME NEW S \in SUBSET Clusters
        PROVE  IsFiniteSet(S) /\ Cardinality(S) \in Nat
    <3>1. IsFiniteSet(S)
      BY ClusterBasics, FS_Subset
    <3>2. QED
      BY <3>1, FS_CardinalityType
  <2>2. QED
    BY <2>1
<1>3. 0 \in G
  <2>1. Cardinality({2}) = 1
    BY FS_Singleton
  <2>2. QED
    BY <1>1, <2>1
<1>4. ASSUME NEW n \in 0 .. N - 1, n \in G
      PROVE  n + 1 \in G
  <2>1. n + 1 \in 1 .. N /\ (n + 1) - 1 = n /\ n + 1 \in 0 .. N /\ n \in 0 .. N /\ n \in Nat
    BY <1>1
  <2>2. up[n + 1] = Deeper(up[n]) /\ up[n] \in SUBSET Clusters /\ up[n + 1] \in SUBSET Clusters
    BY <1>1, <2>1
  <2>3. up[n] \subseteq up[n + 1]
    BY <2>2, DeeperIs
  <2>4. 2 \in up[n + 1]
    BY <1>4, <2>3
  <2>5. CASE Deeper(up[n]) = up[n]
    BY <2>1, <2>2, <2>4, <2>5
  <2>6. CASE Deeper(up[n]) # up[n]
    <3> DEFINE A == up[n]
               B == up[n + 1]
    <3>1. Cardinality(A) >= n + 1
      BY <1>4, <2>6
    <3>2. A \subseteq B /\ A # B /\ IsFiniteSet(B)
      BY <1>2, <2>2, <2>3, <2>6
    <3>3. Cardinality(A) \in Nat /\ Cardinality(B) \in Nat
      BY <1>2, <2>2
    <3> HIDE DEF A, B
    <3>4. Cardinality(A) < Cardinality(B)
      BY <3>2, <3>3, FS_Subset
    <3>5. Cardinality(B) >= (n + 1) + 1
      BY <2>1, <3>1, <3>3, <3>4
    <3>6. QED
      BY <2>1, <2>4, <3>5 DEF B
  <2>7. QED
    BY <2>5, <2>6
<1>5. N \in G
  <2>1. 0 .. N \subseteq G
    <3> HIDE DEF G, N
    <3> QED
      BY <1>1, <1>3, <1>4, UpTo
  <2>2. N \in 0 .. N
    BY <1>1
  <2> HIDE DEF G, N
  <2>3. QED
    BY <2>1, <2>2
<1>6. up[N] \in SUBSET Clusters /\ 2 \in up[N]
  BY <1>1, <1>5
<1>7. Deeper(up[N]) = up[N]
  <2>1. N - 1 \in Nat /\ Clusters = 0 .. N - 1
    BY ClusterBasics DEF Clusters
  <2>2. Cardinality(Clusters) = (N - 1) + 1
    BY <2>1, RangeSize
  <2>3. Cardinality(up[N]) <= Cardinality(Clusters)
    BY <1>6, ClusterBasics, FS_Subset
  <2>4. Cardinality(up[N]) \in Nat
    BY <1>2, <1>6
  <2>5. ~(Cardinality(up[N]) >= N + 1)
    BY <1>1, <2>2, <2>3, <2>4
  <2>6. QED
    BY <1>5, <2>5
<1> DEFINE S == up[N]
<1>8. S \in SUBSET Clusters /\ Deeper(S) = S
  BY <1>6, <1>7
<1> HIDE DEF S, G, N
<1>9. Closed(disk, S)
  BY <1>8, DeeperIs DEF Closed
<1>10. QED
  BY <1>6, <1>9 DEF S, N

(* No level leaves a set of folders that is closed.                        *)
LEMMA LevelsStayInside ==
  ASSUME DriverInv, NEW up, Levels(up, CLUSTER_MAP_SIZE),
         NEW S \in SUBSET Clusters, 2 \in S, Closed(disk, S)
  PROVE  up[CLUSTER_MAP_SIZE] \subseteq S
<1> DEFINE N == CLUSTER_MAP_SIZE
           G == {n \in 0 .. N : up[n] \subseteq S}
<1>1. /\ N \in Nat /\ up[0] = {2}
      /\ \A n \in 0 .. N : up[n] \in SUBSET Clusters
      /\ \A n \in 1 .. N : up[n] = Deeper(up[n - 1])
  BY ClusterBasics DEF Levels
<1>2. 0 \in G
  BY <1>1
<1>3. ASSUME NEW n \in 0 .. N - 1, n \in G
      PROVE  n + 1 \in G
  <2>1. n + 1 \in 1 .. N /\ (n + 1) - 1 = n /\ n + 1 \in 0 .. N /\ n \in 0 .. N
    BY <1>1
  <2>2. up[n + 1] = Deeper(up[n]) /\ up[n] \in SUBSET Clusters /\ up[n] \subseteq S
    BY <1>1, <1>3, <2>1
  <2>3. Deeper(up[n]) \subseteq S
    BY <2>2, DeeperIs DEF Closed
  <2>4. QED
    BY <2>1, <2>2, <2>3
<1>4. 0 .. N \subseteq G
  <2> HIDE DEF G, N
  <2> QED
    BY <1>1, <1>2, <1>3, UpTo
<1>5. N \in 0 .. N
  BY <1>1
<1>6. QED
  BY <1>4, <1>5

LEMMA FoldersAreFound ==
  ASSUME DriverInv, TreeInv(disk), Formatted
  PROVE  /\ FolderClusters = Folders(disk)
         /\ Places = Listed(disk)
         /\ \A p \in Listed(disk) : EntryAt(p) = At(disk, p)
<1>1. DiskInv(disk) /\ 2 \in Folders(disk) /\ Table(2)[0].folder
  <2>1. DiskInv(disk)
    BY DEF DriverInv
  <2>2. 2 \in Folders(disk) /\ IsRootTable(TableIn(disk[2]))
    BY <2>1, TreeFacts
  <2>3. QED
    BY <2>1, <2>2 DEF IsRootTable, Table, FolderEntry
<1>2. PICK up : Levels(up, CLUSTER_MAP_SIZE) /\ FolderClusters = up[CLUSTER_MAP_SIZE]
  BY <1>1, FolderLevels
<1>3. Folders(disk) \in SUBSET Clusters
  BY DEF Folders
<1>4. Closed(disk, Folders(disk))
  BY DEF Closed, TreeInv, EntryIsWhole, FolderIsWhole
<1>5. FolderClusters \subseteq Folders(disk)
  BY <1>1, <1>2, <1>3, <1>4, LevelsStayInside
<1>6. Folders(disk) \subseteq FolderClusters
  BY <1>2, LastLevelIsClosed DEF TreeInv, FoldersAreReached
<1>7. FolderClusters = Folders(disk)
  BY <1>5, <1>6
<1>8. Places = Listed(disk)
  BY <1>7 DEF Places, Listed, Table
<1>9. \A p \in Listed(disk) : EntryAt(p) = At(disk, p)
  BY DEF EntryAt, At, Table
<1>10. QED
  BY <1>7, <1>8, <1>9

-----------------------------------------------------------------------------
(* The properties.                                                         *)

LEMMA WholeWhenOn ==
  ASSUME DriverInv, WholeInv, power = "on", crashes = 0
  PROVE  /\ DiskInv(disk) /\ TreeInv(disk) /\ Formatted
         /\ fat_table = FatOnDisk /\ FatOnDisk = MapOf(disk)
BY DEF DriverInv, WholeInv, MemoryInv, Formatted, BOOT_SECTOR, FatOnDisk, FAT_CLUSTER_NUMBER, MapOf

LEMMA OneOwner ==
  ASSUME DriverInv, WholeInv
  PROVE  EveryClusterHasOneOwner
<1>1. SUFFICES ASSUME power = "on", crashes = 0
               PROVE  /\ fat_table = FatOnDisk
                      /\ \A c \in Clusters \ {0, 1, 2} :
                           Cardinality({p \in Places : c \in ClustersOf(fat_table, EntryAt(p).cluster)})
                             = IF fat_table[c] = 0 THEN 0 ELSE 1
                      /\ \A p \in Places :
                           /\ EndsProperly(fat_table, EntryAt(p).cluster)
                           /\ Len(Chain(fat_table, EntryAt(p).cluster)) = EntryAt(p).size
  BY DEF EveryClusterHasOneOwner, BOOT_SECTOR, FAT_CLUSTER_NUMBER, ROOT_CLUSTER_NUMBER,
         FAT32_FAT_EMPTY_ENTRY
<1>2. DiskInv(disk) /\ TreeInv(disk) /\ Formatted /\ fat_table = FatOnDisk /\ FatOnDisk = MapOf(disk)
  BY <1>1, WholeWhenOn
<1>3. Places = Listed(disk) /\ \A p \in Listed(disk) : EntryAt(p) = At(disk, p)
  BY <1>2, FoldersAreFound
<1>4. ASSUME NEW p \in Places
      PROVE  /\ EndsProperly(fat_table, EntryAt(p).cluster)
             /\ Len(Chain(fat_table, EntryAt(p).cluster)) = EntryAt(p).size
             /\ ClustersOf(fat_table, EntryAt(p).cluster) = Owned(disk, p)
  BY <1>2, <1>3 DEF TreeInv, EntryIsWhole, Owned
<1>5. ASSUME NEW c \in Clusters \ {0, 1, 2}
      PROVE  Cardinality({p \in Places : c \in ClustersOf(fat_table, EntryAt(p).cluster)})
               = IF fat_table[c] = 0 THEN 0 ELSE 1
  <2> DEFINE O == {p \in Places : c \in ClustersOf(fat_table, EntryAt(p).cluster)}
  <2>1. \A p : p \in O <=> p \in Listed(disk) /\ c \in Owned(disk, p)
    BY <1>3, <1>4
  <2>2. c > 2 /\ c \in Clusters
    BY ClusterBasics
  <2> HIDE DEF O
  <2>3. CASE fat_table[c] = 0
    <3>1. O = {}
      BY <1>2, <2>1, <2>2, <2>3, FreeIsNoFolder
    <3>2. QED
      BY <2>3, <3>1, FS_EmptySet DEF O
  <2>4. CASE fat_table[c] # 0
    <3>1. PICK p \in Listed(disk) : c \in Owned(disk, p)
      BY <1>2, <2>2, <2>4 DEF TreeInv, NothingLost
    <3>2. \A q \in O : q = p
      BY <1>2, <2>1, <3>1 DEF TreeInv, OwnersApart
    <3>3. O = {p}
      BY <2>1, <3>1, <3>2
    <3>4. Cardinality({p}) = 1
      BY FS_Singleton
    <3>5. QED
      BY <2>4, <3>3, <3>4 DEF O
  <2>5. QED
    BY <2>3, <2>4
<1>6. QED
  BY <1>2, <1>4, <1>5

(* fat32.c, write and delete: at rest every cluster in use belongs to one  *)
(* entry of the tree and no free one to any, every chain ends and has its  *)
(* entry's length, for every size of the disk, however many files and      *)
(* folders were made and deleted, until a stop inside a request.           *)
THEOREM OwnersAreKept == Spec => []EveryClusterHasOneOwner
<1>1. DriverInv /\ WholeInv => EveryClusterHasOneOwner
  BY OneOwner
<1>2. QED
  BY <1>1, TreeStaysWhole, PTL

LEMMA Rooted ==
  ASSUME DriverInv, WholeInv
  PROVE  TreeIsRooted
<1>1. SUFFICES ASSUME power = "on", crashes = 0
               PROVE  /\ IsFolderTable(2)
                      /\ \A c \in FolderClusters :
                           /\ Table(c)[1].name = ".."
                           /\ IF c = 2 THEN Table(c)[1].cluster = c
                              ELSE {p[1] : p \in {q \in Places : EntryAt(q).cluster = c}}
                                     = {Table(c)[1].cluster}
                      /\ \A p \in Places : EntryAt(p).folder => EntryAt(p).ext = ""
  BY DEF TreeIsRooted, ROOT_CLUSTER_NUMBER
<1>2. DiskInv(disk) /\ TreeInv(disk) /\ Formatted /\ fat_table = FatOnDisk /\ FatOnDisk = MapOf(disk)
  BY <1>1, WholeWhenOn
<1>3. /\ FolderClusters = Folders(disk) /\ Places = Listed(disk)
      /\ \A p \in Listed(disk) : EntryAt(p) = At(disk, p)
  BY <1>2, FoldersAreFound
<1>4. \A c \in Clusters : Table(c) = TableIn(disk[c])
  BY DEF Table
<1>5. IsMap(MapOf(disk)) /\ IsRootTable(TableIn(disk[2])) /\ 2 \in Clusters
  BY <1>2, TreeFacts, ClusterBasics
<1>6. \A name, c : LET e == FolderEntry(name, c)
                   IN e.folder /\ e.name = name /\ e.cluster = c
  BY DEF FolderEntry, UnusedEntry
<1>7. IsFolderTable(2)
  BY <1>2, <1>4, <1>5, <1>6 DEF IsFolderTable, IsMap, IsRootTable
<1>8. ASSUME NEW c \in Folders(disk)
      PROVE  /\ Table(c)[1].name = ".."
             /\ IF c = 2 THEN Table(c)[1].cluster = c
                ELSE {p[1] : p \in {q \in Places : EntryAt(q).cluster = c}}
                       = {Table(c)[1].cluster}
  <2>1. CASE c = 2
    BY <1>4, <1>5, <1>6, <2>1 DEF IsRootTable, ROOT_CLUSTER_NUMBER
  <2>2. CASE c # 2
    <3>1. PICK p \in Listed(disk) : At(disk, p).folder /\ At(disk, p).cluster = c
      BY <1>2, <2>2 DEF TreeInv, FoldersAreListed
    <3>2. TableIn(disk[c])[1] = FolderEntry("..", p[1])
      BY <1>2, <3>1 DEF TreeInv, EntryIsWhole, FolderIsWhole
    <3>3. c \in Clusters
      BY DEF Folders
    <3>4. Table(c)[1].name = ".." /\ Table(c)[1].cluster = p[1]
      BY <1>4, <1>6, <3>2, <3>3
    <3>5. ASSUME NEW q \in Listed(disk), At(disk, q).cluster = c
          PROVE  q = p
      <4>1. c \in Owned(disk, q) /\ c \in Owned(disk, p)
        BY <1>2, <3>1, <3>5, OwnedFacts
      <4>2. QED
        BY <1>2, <4>1 DEF TreeInv, OwnersApart
    <3>6. {q \in Places : EntryAt(q).cluster = c} = {p}
      BY <1>3, <3>1, <3>5
    <3>7. {x[1] : x \in {p}} = {p[1]}
      OBVIOUS
    <3>8. QED
      BY <2>2, <3>4, <3>6, <3>7
  <2>3. QED
    BY <2>1, <2>2
<1>9. ASSUME NEW p \in Listed(disk), At(disk, p).folder
      PROVE  At(disk, p).ext = ""
  BY <1>2, <1>9 DEF TreeInv, EntryIsWhole, FolderIsWhole
<1>10. QED
  BY <1>3, <1>7, <1>8, <1>9

(* fat32.c: following ".." from any folder that an entry leads to comes to *)
(* the one folder that lists it, and the path ends at the root; and no     *)
(* folder has an extension, whatever held its entry before it.             *)
THEOREM RootedTree == Spec => []TreeIsRooted
<1>1. DriverInv /\ WholeInv => TreeIsRooted
  BY Rooted
<1>2. QED
  BY <1>1, TreeStaysWhole, PTL
=============================================================================
