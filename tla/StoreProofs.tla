---------------------------- MODULE StoreProofs ----------------------------
(***************************************************************************)
(* What the tree on the disk means to those who use it: until the machine  *)
(* stops inside a request, fat32.c implements FileStore, and its readers   *)
(* return what was written; and what the first such stop does to it.       *)
(*                                                                         *)
(* First names: two entries of a folder never share one, which write sees  *)
(* to only if names are padded.  Then the entries as FileStore has them,   *)
(* and what one entry more or less on the disk is there.                   *)
(***************************************************************************)
EXTENDS TreeProofs

-----------------------------------------------------------------------------
(* Names.  When every request pads its name, write finds a name that is    *)
(* taken: no folder lists two entries under one name and extension.        *)

NoneTwice(d) ==
  \A p, q \in Listed(d) :
    /\ p[1] = q[1]
    /\ At(d, p).name = At(d, q).name /\ At(d, p).ext = At(d, q).ext
    => p = q
NamesAreOnce(d) ==
  /\ \A p \in Listed(d) : At(d, p).name \in Names
  /\ NoneTwice(d)
NamesInv == crashes = 0 => NamesAreOnce(disk)

AllNamesPadded == FALSE \notin Paddings

LEMMA NewEntry ==
  ASSUME DriverInv, TreeInv(disk), NEW r \in AnyRequest, write_code(r) = 0, NEW d,
         d = write_clusters(WriteSteps(r), disk)
  PROVE  LET i == First(FreeEntries(Table(r.parent)))
         IN At(d, <<r.parent, i>>).name = r.name /\ At(d, <<r.parent, i>>).ext = r.ext
<1> DEFINE p == r.parent
           t == Table(p)
           i == First(FreeEntries(t))
           a == At(d, <<p, i>>)
<1>1. d[p] = Directory(TableAfterWrite(r))
  BY WriteEffect
<1>2. IsTable(t) /\ i \in Indices
  BY WriteFacts
<1>3. TableAfterWrite(r) = [t EXCEPT ![i] = EntryFor(r, t[i])]
  BY DEF TableAfterWrite
<1>4. t \in [Indices -> DirectoryEntries]
  BY <1>2 DEF IsTable, Tables
<1>5. a = TableAfterWrite(r)[i]
  BY <1>1, Kinds DEF At, TableIn
<1> DEFINE old == t[i]
<1>6. a = EntryFor(r, old)
  <2> HIDE DEF t, i, a
  <2> QED
    BY <1>2, <1>3, <1>4, <1>5
<1>7. a.name = r.name /\ a.ext = IF IsFolder(r) THEN old.ext ELSE r.ext
  <2> HIDE DEF old, a
  <2> QED
    BY <1>6, EntryFields
<1>8. IsFolder(r) => a.ext = ""
  <2>1. a.folder <=> IsFolder(r)
    <3> HIDE DEF old, a
    <3> QED
      BY <1>6, EntryFields
  <2>2. Grows(disk, d, p, i, ClustersNeeded(r), EmptyClusters(r))
    BY WriteGrows
  <2>3. a.folder => a.ext = ""
    BY <2>2 DEF Grows, Grown
  <2>4. QED
    BY <2>1, <2>3
<1>9. QED
  BY <1>7, <1>8 DEF IsFolder

LEMMA WriteKeepsOnce ==
  ASSUME DriverInv, TreeInv(disk), NoneTwice(disk), NEW r \in AnyRequest,
         r.padded, write_code(r) = 0, NEW d,
         d = write_clusters(WriteSteps(r), disk)
  PROVE  NoneTwice(d)
<1> DEFINE p == r.parent
           i == First(FreeEntries(Table(p)))
           n == <<p, i>>
<1>1. Grows(disk, d, p, i, ClustersNeeded(r), EmptyClusters(r))
  BY WriteGrows
<1>2. ListGrows(disk, d, p, i)
  BY <1>1, GrownListed
<1>3. /\ n \notin Listed(disk)
      /\ Listed(d) = Listed(disk) \cup {n}
      /\ \A q \in Listed(disk) : At(d, q) = At(disk, q)
  BY <1>2 DEF ListGrows
<1>4. At(d, n).name = r.name /\ At(d, n).ext = r.ext
  BY NewEntry
<1>5. ~Taken(r)
  BY DEF write_code
<1>6. ASSUME NEW q \in Listed(disk), q[1] = p
      PROVE  ~(At(disk, q).name = r.name /\ At(disk, q).ext = r.ext)
  <2>1. q[2] \in Indices \ {0, 1} /\ At(disk, q).used /\ At(disk, q) = Table(p)[q[2]]
    BY <1>6 DEF Listed, At, Table
  <2>2. ~(SameBytes(At(disk, q), r) /\ (IsFolder(r) \/ At(disk, q).ext = r.ext))
    BY <1>5, <2>1 DEF Taken
  <2>3. QED
    BY <2>2 DEF SameBytes
<1>7. n[1] = p
  OBVIOUS
<1> HIDE DEF n, p, i
<1>8. ASSUME NEW x \in Listed(d), NEW y \in Listed(d), x[1] = y[1],
             At(d, x).name = At(d, y).name, At(d, x).ext = At(d, y).ext
      PROVE  x = y
  <2>1. CASE x \in Listed(disk) /\ y \in Listed(disk)
    BY <1>3, <1>8, <2>1 DEF NoneTwice
  <2>2. CASE x = n /\ y \in Listed(disk)
    BY <1>3, <1>4, <1>6, <1>7, <1>8, <2>2
  <2>3. CASE y = n /\ x \in Listed(disk)
    BY <1>3, <1>4, <1>6, <1>7, <1>8, <2>3
  <2>4. QED
    BY <1>3, <2>1, <2>2, <2>3
<1>9. QED
  BY <1>8 DEF NoneTwice

LEMMA WriteKeepsNames ==
  ASSUME DriverInv, TreeInv(disk), NamesAreOnce(disk), NEW r \in AnyRequest,
         r.name \in Names, r.padded, write_code(r) = 0, NEW d,
         d = write_clusters(WriteSteps(r), disk)
  PROVE  NamesAreOnce(d)
<1> DEFINE p == r.parent
           i == First(FreeEntries(Table(p)))
           n == <<p, i>>
<1>1. Grows(disk, d, p, i, ClustersNeeded(r), EmptyClusters(r))
  BY WriteGrows
<1>2. ListGrows(disk, d, p, i)
  BY <1>1, GrownListed
<1>3. At(d, n).name = r.name
  BY NewEntry
<1> HIDE DEF n, p, i
<1>4. \A q \in Listed(d) : At(d, q).name \in Names
  BY <1>2, <1>3 DEF ListGrows, NamesAreOnce, n
<1>5. NoneTwice(d)
  BY WriteKeepsOnce DEF NamesAreOnce
<1>6. QED
  BY <1>4, <1>5 DEF NamesAreOnce

LEMMA DeleteKeepsOnce ==
  ASSUME DriverInv, TreeInv(disk), NoneTwice(disk), NEW r, r.parent \in Clusters,
         delete_code(r) = 0, NEW d, d = write_clusters(DeleteSteps(r), disk)
  PROVE  NoneTwice(d)
<1> DEFINE q == DeletedPlace(r)
<1>1. Shrinks(disk, d, q)
  BY DeleteShrinks
<1> HIDE DEF q
<1>2. ListShrinks(disk, d, q)
  BY <1>1, ShrunkListed
<1>3. \A x \in Listed(d) : x \in Listed(disk) /\ At(d, x) = At(disk, x)
  BY <1>2 DEF ListShrinks
<1>4. QED
  BY <1>3 DEF NoneTwice

LEMMA DeleteKeepsNames ==
  ASSUME DriverInv, TreeInv(disk), NamesAreOnce(disk), NEW r, r.parent \in Clusters,
         delete_code(r) = 0, NEW d, d = write_clusters(DeleteSteps(r), disk)
  PROVE  NamesAreOnce(d)
<1> DEFINE q == DeletedPlace(r)
<1>1. Shrinks(disk, d, q)
  BY DeleteShrinks
<1> HIDE DEF q
<1>2. ListShrinks(disk, d, q)
  BY <1>1, ShrunkListed
<1>3. \A x \in Listed(d) : x \in Listed(disk) /\ At(d, x) = At(disk, x)
  BY <1>2 DEF ListShrinks
<1>4. NoneTwice(d)
  BY DeleteKeepsOnce DEF NamesAreOnce
<1>5. QED
  BY <1>3, <1>4 DEF NamesAreOnce

(* Nothing is listed on a blank disk.                                      *)
LEMMA BlankListsNothing ==
  ASSUME NEW d, \A c \in Clusters : d[c] = Zero
  PROVE  Listed(d) = {}
<1>1. Folders(d) = {}
  BY Kinds DEF Folders
<1>2. QED
  BY <1>1 DEF Listed

LEMMA NamesStep ==
  ASSUME AllNamesPadded, DriverInv, WholeInv, NamesInv, [Next]_vars
  PROVE  NamesInv'
<1>1. SUFFICES ASSUME crashes' = 0
               PROVE  NamesAreOnce(disk')
  BY DEF NamesInv
<1>2. crashes \in Nat
  <2>1. crashes \in 0 .. CrashBound
    BY DEF DriverInv
  <2>2. CrashBound \in Nat
    BY Fat32Assumption
  <2>3. QED
    BY <2>1, <2>2
<1>3. CASE initialize_filesystem_fat32
  <2>1. crashes = 0
    BY <1>1, <1>3 DEF initialize_filesystem_fat32
  <2>2. CASE disk[0] = Signature
    BY <1>3, <2>1, <2>2
       DEF initialize_filesystem_fat32, is_empty_storage, BOOT_SECTOR, NamesInv
  <2>3. CASE disk[0] # Signature
    <3>1. disk' = write_clusters(FormatSteps, disk)
      BY <1>3, <2>3 DEF initialize_filesystem_fat32, is_empty_storage, BOOT_SECTOR
    <3>2. \A c \in Clusters : disk[c] = Zero
      BY <2>1, <2>3 DEF WholeInv
    <3>3. Listed(disk') = {}
      BY <3>1, <3>2, FormatMakesATree
    <3>4. QED
      BY <3>3 DEF NamesAreOnce, NoneTwice
  <2>4. QED
    BY <2>2, <2>3
<1>4. ASSUME NEW r \in Requests, write(r)
      PROVE  NamesAreOnce(disk')
  <2>1. r \in AnyRequest /\ r.name \in Names /\ r.padded
    BY Fat32Assumption DEF Requests, AnyRequest, FileNames, AllNamesPadded
  <2>2. crashes = 0 /\ power = "on" /\ write_code(r) = 0
        /\ disk' = write_clusters(WriteSteps(r), disk)
    BY <1>1, <1>4 DEF write
  <2>3. TreeInv(disk) /\ NamesAreOnce(disk)
    BY <2>2, WholeWhenOn DEF NamesInv
  <2>4. QED
    BY <2>1, <2>2, <2>3, WriteKeepsNames
<1>5. ASSUME NEW r \in Targets, delete(r)
      PROVE  NamesAreOnce(disk')
  <2>1. r.parent \in Clusters
    BY DEF Targets
  <2>2. crashes = 0 /\ power = "on" /\ delete_code(r) = 0
        /\ disk' = write_clusters(DeleteSteps(r), disk)
    BY <1>1, <1>5 DEF delete
  <2>3. TreeInv(disk) /\ NamesAreOnce(disk)
    BY <2>2, WholeWhenOn DEF NamesInv
  <2>4. QED
    BY <2>1, <2>2, <2>3, DeleteKeepsNames
<1>6. ASSUME NEW r \in Targets, DeleteLost(r)
      PROVE  FALSE
  <2>1. r.parent \in Clusters
    BY DEF Targets
  <2>2. crashes = 0 /\ power = "on" /\ delete_code(r) = 0
        /\ ~EndsProperly(fat_table, DeletedEntry(r).cluster)
    BY <1>1, <1>6 DEF DeleteLost
  <2>3. TreeInv(disk)
    BY <2>2, WholeWhenOn
  <2>4. QED
    BY <2>1, <2>2, <2>3, DeleteFacts
<1>7. CASE PowerOff \/ UNCHANGED vars
  BY <1>1, <1>7 DEF PowerOff, vars, NamesInv
<1>8. CASE CrashInFormat \/ (\E r \in Requests : CrashInWrite(r))
           \/ (\E r \in Targets : CrashInDelete(r))
  BY <1>1, <1>2, <1>8 DEF CrashInFormat, CrashInWrite, CrashInDelete, Crash
<1>9. QED
  BY <1>3, <1>4, <1>5, <1>6, <1>7, <1>8 DEF Next

-----------------------------------------------------------------------------
(* The entries on a disk, as FileStore sees them.                          *)

ContentIn(d, p) ==
  IF At(d, p).folder THEN FolderContent
  ELSE [j \in DOMAIN Chain(MapOf(d), At(d, p).cluster) |->
          d[Chain(MapOf(d), At(d, p).cluster)[j]]]
StoredAt(d, p) ==
  [folder |-> p[1], name |-> At(d, p).name, ext |-> At(d, p).ext,
   handle |-> At(d, p).cluster, content |-> ContentIn(d, p)]
StoreIn(d) == {StoredAt(d, p) : p \in Listed(d)}

LEMMA StoredFields ==
  \A d, p : /\ StoredAt(d, p).folder = p[1]
            /\ StoredAt(d, p).name = At(d, p).name /\ StoredAt(d, p).ext = At(d, p).ext
            /\ StoredAt(d, p).handle = At(d, p).cluster
            /\ StoredAt(d, p).content = ContentIn(d, p)
BY DEF StoredAt

(* A file's content is the text it was written with.                       *)
LEMMA FileContent ==
  ASSUME NEW d, DiskInv(d), TreeInv(d), NEW p \in Listed(d), ~At(d, p).folder
  PROVE  /\ ContentIn(d, p) \in FileContents
         /\ ContentIn(d, p) # FolderContent
         /\ Len(ContentIn(d, p)) = At(d, p).size
<1> DEFINE map   == MapOf(d)
           c     == At(d, p).cluster
           chain == Chain(map, c)
           n     == At(d, p).size
<1>1. /\ map \in [Clusters -> Links] /\ c \in Clusters /\ At(d, p) \in DirectoryEntries
  BY TreeFacts, OwnedFacts
<1>2. EntryIsWhole(d, p)
  BY DEF TreeInv
<1>3. Len(chain) = n /\ FileIsWhole(d, p)
  BY <1>2 DEF EntryIsWhole
<1>4. PICK text \in Texts : \A j \in 1 .. Len(chain) : d[chain[j]] = Data(text, j)
  BY <1>3 DEF FileIsWhole
<1>5. Len(chain) \in 1 .. CLUSTER_MAP_SIZE + 1 /\ DOMAIN chain = 1 .. Len(chain)
  <2> HIDE DEF map, c
  <2> QED
    BY <1>1, ChainIsWalk
<1>6. n \in 0 .. MaxClusters
  BY <1>1 DEF DirectoryEntries
<1>7. MaxClusters \in Nat
  BY Fat32Assumption
<1>8. ContentIn(d, p) = [j \in DOMAIN chain |-> d[chain[j]]]
  BY DEF ContentIn
<1> HIDE DEF chain, n
<1>9. n \in 1 .. MaxClusters /\ DOMAIN chain = 1 .. n
  BY <1>3, <1>5, <1>6, <1>7, ClusterBasics
<1>10. ContentIn(d, p) = [j \in 1 .. n |-> Data(text, j)]
  BY <1>3, <1>4, <1>8, <1>9
<1>11. ContentIn(d, p) \in FileContents
  BY <1>9, <1>10 DEF FileContents
<1>12. ContentIn(d, p) # FolderContent
  <2>1. DOMAIN ContentIn(d, p) = 1 .. n /\ 1 \in 1 .. n
    BY <1>9, <1>10, <1>7
  <2>2. 1 \notin DOMAIN FolderContent
    BY DEF FolderContent
  <2>3. QED
    BY <2>1, <2>2
<1>13. Len(ContentIn(d, p)) = n
  BY <1>7, <1>9, <1>10
<1>14. QED
  BY <1>11, <1>12, <1>13 DEF n

LEMMA StoredIsEntry ==
  ASSUME NEW d, DiskInv(d), TreeInv(d), NamesAreOnce(d), NEW p \in Listed(d)
  PROVE  StoredAt(d, p) \in Files!Entries
<1>1. /\ p[1] \in Clusters /\ At(d, p) \in DirectoryEntries /\ At(d, p).cluster \in Clusters
  BY TreeFacts, OwnedFacts
<1>2. At(d, p).ext \in Extensions /\ At(d, p).name \in Names
  BY <1>1 DEF DirectoryEntries, NamesAreOnce
<1>3. ContentIn(d, p) \in FileContents \cup {FolderContent}
  <2>1. CASE At(d, p).folder
    BY <2>1 DEF ContentIn
  <2>2. CASE ~At(d, p).folder
    BY <2>2, FileContent
  <2>3. QED
    BY <2>1, <2>2
<1>4. QED
  BY <1>1, <1>2, <1>3 DEF Files!Entries, StoredAt

(* The folders of the store are those of the tree.                         *)
LEMMA FolderHasHandle ==
  ASSUME NEW d, DiskInv(d), TreeInv(d), NEW c \in Folders(d)
  PROVE  c = 2 \/ \E x \in StoreIn(d) : x.content = FolderContent /\ x.handle = c
<1>1. SUFFICES ASSUME c # 2
               PROVE  \E x \in StoreIn(d) : x.content = FolderContent /\ x.handle = c
  OBVIOUS
<1>2. PICK p \in Listed(d) : At(d, p).folder /\ At(d, p).cluster = c
  BY <1>1 DEF TreeInv, FoldersAreListed
<1>3. StoredAt(d, p) \in StoreIn(d)
  BY DEF StoreIn
<1>4. StoredAt(d, p).content = FolderContent /\ StoredAt(d, p).handle = c
  BY <1>2, StoredFields DEF ContentIn
<1>5. QED
  BY <1>3, <1>4

(* No two entries have one handle.                                         *)
LEMMA HandlesApart ==
  ASSUME NEW d, DiskInv(d), TreeInv(d), NEW p \in Listed(d), NEW q \in Listed(d),
         At(d, p).cluster = At(d, q).cluster
  PROVE  p = q
<1>1. At(d, p).cluster \in Owned(d, p) /\ At(d, q).cluster \in Owned(d, q)
  BY OwnedFacts
<1>2. QED
  BY <1>1 DEF TreeInv, OwnersApart

(* What one entry more does to the store.                                  *)
LEMMA GrownKeepsStored ==
  ASSUME NEW d, NEW e, NEW p, NEW i, NEW k, NEW new, Grows(d, e, p, i, k, new),
         NEW q \in Listed(d)
  PROVE  StoredAt(e, q) = StoredAt(d, q)
<1>1. /\ ListGrows(d, e, p, i) /\ ChainsGrow(d, e, p, i, k, new)
      /\ NewOnesAreFree(d, e, p, k, new)
  BY GrownListed, GrownOwned, GrownBasics
<1>2. At(e, q) = At(d, q)
  BY <1>1 DEF ListGrows
<1> DEFINE chain == Chain(MapOf(d), At(d, q).cluster)
<1>3. /\ Chain(MapOf(e), At(e, q).cluster) = chain
      /\ \A c \in Owned(d, q) : c \notin NewOnes(k, new)
  BY <1>1, <1>2 DEF ChainsGrow
<1>4. /\ DiskInv(d) /\ TreeInv(d) /\ p \in Folders(d)
      /\ \A c \in Clusters : c # p /\ c # 1 /\ (\A j \in 1 .. k : new[j] # c) => e[c] = d[c]
  BY DEF Grows, Grown
<1>5. ContentIn(e, q) = ContentIn(d, q)
  <2>1. CASE At(d, q).folder
    BY <1>2, <2>1 DEF ContentIn
  <2>2. CASE ~At(d, q).folder
    <3>1. \A c \in Owned(d, q) : c \in Clusters /\ c # 1 /\ c # p
      BY <1>4, <2>2, OwnedFacts, FolderOwner
    <3>2. \A c \in Owned(d, q) : e[c] = d[c]
      BY <1>3, <1>4, <3>1 DEF NewOnes
    <3>3. \A j \in DOMAIN chain : chain[j] \in Owned(d, q)
      BY DEF Owned, ClustersOf
    <3> HIDE DEF chain
    <3>4. [j \in DOMAIN chain |-> e[chain[j]]] = [j \in DOMAIN chain |-> d[chain[j]]]
      BY <3>2, <3>3
    <3>5. QED
      BY <1>2, <1>3, <2>2, <3>4 DEF ContentIn, chain
  <2>3. QED
    BY <2>1, <2>2
<1>6. QED
  BY <1>2, <1>5 DEF StoredAt

LEMMA GrownStore ==
  ASSUME NEW d, NEW e, NEW p, NEW i, NEW k, NEW new, Grows(d, e, p, i, k, new)
  PROVE  /\ StoreIn(e) = StoreIn(d) \cup {StoredAt(e, <<p, i>>)}
         /\ StoredAt(e, <<p, i>>) \notin StoreIn(d)
         /\ \A x \in StoreIn(d) : x.handle # StoredAt(e, <<p, i>>).handle
<1> DEFINE n == <<p, i>>
<1>1. /\ Listed(e) = Listed(d) \cup {n} /\ n \notin Listed(d)
      /\ \A q \in Listed(d) : At(e, q) = At(d, q)
  <2>1. ListGrows(d, e, p, i)
    BY GrownListed
  <2>2. QED
    BY <2>1 DEF ListGrows
<1>2. DiskInv(e) /\ TreeInv(e)
  BY GrownTree DEF Grows
<1> HIDE DEF n
<1>3. \A q \in Listed(d) : StoredAt(e, q) = StoredAt(d, q)
  BY GrownKeepsStored
<1>4. StoreIn(e) = StoreIn(d) \cup {StoredAt(e, n)}
  BY <1>1, <1>3 DEF StoreIn
<1>5. ASSUME NEW x \in StoreIn(d)
      PROVE  x.handle # StoredAt(e, n).handle
  <2>1. PICK q \in Listed(d) : x = StoredAt(d, q)
    BY DEF StoreIn
  <2>2. q \in Listed(e) /\ n \in Listed(e) /\ q # n
    BY <1>1
  <2>3. At(e, q).cluster # At(e, n).cluster
    BY <1>2, <2>2, HandlesApart
  <2>4. x.handle = At(e, q).cluster /\ StoredAt(e, n).handle = At(e, n).cluster
    BY <1>1, <2>1, StoredFields
  <2>5. QED
    BY <2>3, <2>4
<1>6. QED
  BY <1>4, <1>5 DEF n

(* A new entry is created as FileStore wants it.                           *)
LEMMA GrownCreates ==
  ASSUME NEW d, NEW e, NEW p, NEW i, NEW k, NEW new, Grows(d, e, p, i, k, new),
         NamesAreOnce(e)
  PROVE  LET x == StoredAt(e, <<p, i>>)
         IN /\ x \in Files!Entries
            /\ x.folder = 2 \/ \E y \in StoreIn(d) : y.content = FolderContent /\ y.handle = x.folder
            /\ x.handle # 2
            /\ \A y \in StoreIn(d) : /\ y.handle # x.handle
                                     /\ y.folder = x.folder => <<y.name, y.ext>> # <<x.name, x.ext>>
<1> DEFINE n == <<p, i>>
           x == StoredAt(e, n)
<1>1. /\ Listed(e) = Listed(d) \cup {n} /\ n \notin Listed(d)
      /\ \A q \in Listed(d) : At(e, q) = At(d, q)
  <2>1. ListGrows(d, e, p, i)
    BY GrownListed
  <2>2. QED
    BY <2>1 DEF ListGrows
<1>2. DiskInv(e) /\ TreeInv(e) /\ DiskInv(d) /\ TreeInv(d) /\ p \in Folders(d)
  <2>1. TreeInv(e)
    BY GrownTree
  <2>2. QED
    BY <2>1 DEF Grows, Grown
<1>3. n \in Listed(e) /\ n[1] = p
  BY <1>1
<1>4. \A y \in StoreIn(d) : y.handle # x.handle
  BY GrownStore
<1> HIDE DEF n
<1>5. x \in Files!Entries
  BY <1>2, <1>3, StoredIsEntry
<1>6. /\ x.folder = p /\ x.handle = At(e, n).cluster
      /\ x.name = At(e, n).name /\ x.ext = At(e, n).ext
  BY <1>3, StoredFields
<1>7. x.handle # 2
  <2>1. At(e, n).cluster \in Clusters /\ At(e, n).cluster > 2
    BY <1>2, <1>3, OwnedFacts
  <2>2. QED
    BY <1>6, <2>1
<1>8. p = 2 \/ \E y \in StoreIn(d) : y.content = FolderContent /\ y.handle = p
  BY <1>2, FolderHasHandle
<1> HIDE DEF x
<1>9. ASSUME NEW y \in StoreIn(d), y.folder = x.folder
      PROVE  <<y.name, y.ext>> # <<x.name, x.ext>>
  <2>1. PICK q \in Listed(d) : y = StoredAt(d, q)
    BY DEF StoreIn
  <2>2. y.folder = q[1] /\ y.name = At(e, q).name /\ y.ext = At(e, q).ext
    BY <1>1, <2>1, StoredFields
  <2>3. q \in Listed(e) /\ q # n /\ q[1] = n[1]
    BY <1>1, <1>3, <1>6, <1>9, <2>2
  <2>4. ~(At(e, q).name = At(e, n).name /\ At(e, q).ext = At(e, n).ext)
    BY <1>3, <2>3 DEF NamesAreOnce, NoneTwice
  <2>5. QED
    BY <1>6, <2>2, <2>4
<1>10. QED
  BY <1>4, <1>5, <1>6, <1>7, <1>8, <1>9 DEF x, n

(* What one entry less does to the store.                                  *)
LEMMA ShrunkKeepsStored ==
  ASSUME NEW d, NEW e, NEW q, Shrinks(d, e, q), NEW x \in Listed(e)
  PROVE  StoredAt(e, x) = StoredAt(d, x)
<1>1. ListShrinks(d, e, q) /\ ChainsShrink(d, e, q)
  BY ShrunkListed, ShrunkOwned
<1>2. x \in Listed(d) /\ At(e, x) = At(d, x)
  BY <1>1 DEF ListShrinks
<1> DEFINE chain == Chain(MapOf(d), At(d, x).cluster)
<1>3. /\ Chain(MapOf(e), At(e, x).cluster) = chain
      /\ \A c \in Owned(d, x) : c \notin Owned(d, q)
  BY <1>1, <1>2 DEF ChainsShrink
<1>4. /\ DiskInv(d) /\ TreeInv(d) /\ q \in Listed(d)
      /\ \A c \in Clusters : c # 1 /\ c # q[1] /\ c \notin Owned(d, q) => e[c] = d[c]
  BY DEF Shrinks, Shrunk
<1>5. ContentIn(e, x) = ContentIn(d, x)
  <2>1. CASE At(d, x).folder
    BY <1>2, <2>1 DEF ContentIn
  <2>2. CASE ~At(d, x).folder
    <3>1. q[1] \in Folders(d)
      BY <1>4, OwnedFacts
    <3>2. \A c \in Owned(d, x) : c \in Clusters /\ c # 1 /\ c # q[1]
      BY <1>2, <1>4, <2>2, <3>1, OwnedFacts, FolderOwner
    <3>3. \A c \in Owned(d, x) : e[c] = d[c]
      BY <1>3, <1>4, <3>2
    <3>4. \A j \in DOMAIN chain : chain[j] \in Owned(d, x)
      BY DEF Owned, ClustersOf
    <3> HIDE DEF chain
    <3>5. [j \in DOMAIN chain |-> e[chain[j]]] = [j \in DOMAIN chain |-> d[chain[j]]]
      BY <3>3, <3>4
    <3>6. QED
      BY <1>2, <1>3, <2>2, <3>5 DEF ContentIn, chain
  <2>3. QED
    BY <2>1, <2>2
<1>6. QED
  BY <1>2, <1>5 DEF StoredAt

LEMMA ShrunkStore ==
  ASSUME NEW d, NEW e, NEW q, Shrinks(d, e, q)
  PROVE  /\ StoredAt(d, q) \in StoreIn(d)
         /\ StoreIn(e) = StoreIn(d) \ {StoredAt(d, q)}
         /\ \A y \in StoreIn(d) : y.folder # StoredAt(d, q).handle
<1>1. /\ DiskInv(d) /\ TreeInv(d) /\ q \in Listed(d)
      /\ At(d, q).folder =>
           \A j \in Indices : j > 1 => ~TableIn(d[At(d, q).cluster])[j].used
  BY DEF Shrinks, Shrunk
<1>2. Listed(e) = Listed(d) \ {q}
  <2>1. ListShrinks(d, e, q)
    BY ShrunkListed
  <2>2. QED
    BY <2>1 DEF ListShrinks
<1>3. StoredAt(d, q) \in StoreIn(d)
  BY <1>1 DEF StoreIn
<1>4. \A x \in Listed(e) : StoredAt(e, x) = StoredAt(d, x)
  BY ShrunkKeepsStored
<1>5. ASSUME NEW x \in Listed(d), x # q
      PROVE  StoredAt(d, x) # StoredAt(d, q)
  <2>1. At(d, x).cluster # At(d, q).cluster
    BY <1>1, <1>5, HandlesApart
  <2>2. QED
    BY <2>1, StoredFields
<1>6. StoreIn(e) = StoreIn(d) \ {StoredAt(d, q)}
  BY <1>2, <1>4, <1>5 DEF StoreIn
<1>7. ASSUME NEW y \in StoreIn(d)
      PROVE  y.folder # StoredAt(d, q).handle
  <2>1. PICK x \in Listed(d) : y = StoredAt(d, x)
    BY DEF StoreIn
  <2>2. y.folder = x[1] /\ StoredAt(d, q).handle = At(d, q).cluster
    BY <2>1, StoredFields
  <2>3. /\ x[1] \in Folders(d) /\ x[2] \in Indices /\ x[2] > 1 /\ At(d, x).used
        /\ At(d, q).cluster \in Owned(d, q)
    BY <1>1, OwnedFacts
  <2>4. ASSUME x[1] = At(d, q).cluster
        PROVE  FALSE
    <3>1. At(d, q).folder
      BY <1>1, <2>3, <2>4, FolderOwner
    <3>2. ~TableIn(d[x[1]])[x[2]].used
      BY <1>1, <2>3, <2>4, <3>1
    <3>3. QED
      BY <2>3, <3>2 DEF At
  <2>5. QED
    BY <2>2, <2>4
<1>8. QED
  BY <1>3, <1>6, <1>7

-----------------------------------------------------------------------------
(* Refinement.                                                             *)

(* The store is what is listed on the disk.                                *)
StoreIsListed ==
  crashes = 0 => StoreOnDisk = IF disk[0] = Signature THEN StoreIn(disk) ELSE {}

LEMMA StoreFound ==
  ASSUME DriverInv, TreeInv(disk), Formatted
  PROVE  StoreOnDisk = StoreIn(disk)
<1>1. /\ Places = Listed(disk)
      /\ \A p \in Listed(disk) : EntryAt(p) = At(disk, p)
  BY FoldersAreFound
<1>2. FatOnDisk = MapOf(disk)
  BY DEF FatOnDisk, MapOf, FAT_CLUSTER_NUMBER
<1> DEFINE Shown(p) ==
             LET e == EntryAt(p)
             IN [folder |-> p[1], name |-> e.name, ext |-> e.ext, handle |-> e.cluster,
                 content |-> IF e.folder THEN FolderContent
                             ELSE Content(FatOnDisk, e.cluster)]
<1>3. ASSUME NEW p \in Listed(disk)
      PROVE  Shown(p) = StoredAt(disk, p)
  BY <1>1, <1>2 DEF StoredAt, ContentIn, Content
<1>4. StoreOnDisk = {Shown(p) : p \in Places}
  BY DEF StoreOnDisk
<1> HIDE DEF Shown
<1>5. QED
  BY <1>1, <1>3, <1>4 DEF StoreIn

LEMMA StoreAsListed ==
  ASSUME DriverInv, WholeInv
  PROVE  StoreIsListed
<1>1. SUFFICES ASSUME crashes = 0
               PROVE  StoreOnDisk = IF disk[0] = Signature THEN StoreIn(disk) ELSE {}
  BY DEF StoreIsListed
<1>2. CASE disk[0] = Signature
  BY <1>1, <1>2, StoreFound DEF WholeInv, Formatted, BOOT_SECTOR
<1>3. CASE disk[0] # Signature
  <2>1. FolderClusters = {}
    BY <1>3 DEF FolderClusters, Formatted, BOOT_SECTOR
  <2>2. Places = {}
    BY <2>1 DEF Places
  <2>3. StoreOnDisk = {}
    BY <2>2 DEF StoreOnDisk
  <2>4. QED
    BY <1>3, <2>3
<1>4. QED
  BY <1>2, <1>3

NoCrash == CrashBound = 0

LEMMA StoreStep ==
  ASSUME NoCrash, AllNamesPadded, DriverInv, WholeInv, NamesInv, StoreIsListed,
         DriverInv', WholeInv', NamesInv', StoreIsListed', [Next]_vars
  PROVE  [Files!Next]_StoreOnDisk
<1>1. crashes = 0 /\ crashes' = 0
  <2>1. crashes \in 0 .. 0 /\ crashes' \in 0 .. 0
    BY DEF DriverInv, NoCrash
  <2>2. QED
    BY <2>1
<1>2. /\ StoreOnDisk = IF disk[0] = Signature THEN StoreIn(disk) ELSE {}
      /\ StoreOnDisk' = IF disk'[0] = Signature THEN StoreIn(disk') ELSE {}
  BY <1>1 DEF StoreIsListed
<1>3. power = "on" => disk[0] = Signature /\ TreeInv(disk) /\ DiskInv(disk)
  BY <1>1 DEF WholeInv, DriverInv
<1>4. power' = "on" => disk'[0] = Signature
  BY <1>1 DEF WholeInv
<1>5. CASE initialize_filesystem_fat32
  <2>1. CASE disk[0] = Signature
    BY <1>2, <1>5, <2>1 DEF initialize_filesystem_fat32, is_empty_storage, BOOT_SECTOR
  <2>2. CASE disk[0] # Signature
    <3>1. disk' = write_clusters(FormatSteps, disk)
      BY <1>5, <2>2 DEF initialize_filesystem_fat32, is_empty_storage, BOOT_SECTOR
    <3>2. \A c \in Clusters : disk[c] = Zero
      BY <1>1, <2>2 DEF WholeInv
    <3>3. Listed(disk') = {}
      BY <3>1, <3>2, FormatMakesATree
    <3>4. StoreIn(disk') = {}
      BY <3>3 DEF StoreIn
    <3>5. QED
      BY <1>2, <2>2, <3>4
  <2>3. QED
    BY <2>1, <2>2
<1>6. ASSUME NEW r \in Requests, write(r)
      PROVE  Files!Next
  <2> DEFINE p   == r.parent
             i   == First(FreeEntries(Table(r.parent)))
             k   == ClustersNeeded(r)
             new == EmptyClusters(r)
             n   == <<p, i>>
             d   == disk
             e   == disk'
             x   == StoredAt(e, n)
  <2>1. r \in AnyRequest
    BY Fat32Assumption DEF Requests, AnyRequest, FileNames
  <2>2. power = "on" /\ power' = "on" /\ write_code(r) = 0
        /\ e = write_clusters(WriteSteps(r), d)
    BY <1>6 DEF write
  <2>3. Grows(d, e, p, i, k, new)
    BY <1>3, <2>1, <2>2, WriteGrows
  <2>4. NamesAreOnce(e)
    BY <1>1 DEF NamesInv
  <2>5. StoreOnDisk = StoreIn(d) /\ StoreOnDisk' = StoreIn(e)
    BY <1>2, <1>3, <1>4, <2>2
  <2> HIDE DEF p, i, k, new, d, e
  <2>6. StoreIn(e) = StoreIn(d) \cup {x} /\ x \notin StoreIn(d)
    BY <2>3, GrownStore
  <2>7. /\ x \in Files!Entries
        /\ x.folder = 2 \/ \E y \in StoreIn(d) : y.content = FolderContent /\ y.handle = x.folder
        /\ x.handle # 2
        /\ \A y \in StoreIn(d) : /\ y.handle # x.handle
                                 /\ y.folder = x.folder => <<y.name, y.ext>> # <<x.name, x.ext>>
    BY <2>3, <2>4, GrownCreates
  <2> HIDE DEF x, n
  <2>8. x.folder \in Files!FolderHandles
    BY <2>5, <2>7 DEF Files!FolderHandles, ROOT_CLUSTER_NUMBER
  <2>9. Files!Create(x)
    BY <2>5, <2>6, <2>7, <2>8 DEF Files!Create, ROOT_CLUSTER_NUMBER
  <2>10. x \in StoreOnDisk' \ StoreOnDisk
    BY <2>5, <2>6
  <2>11. QED
    BY <2>7, <2>9, <2>10 DEF Files!Next
<1>7. ASSUME NEW r \in Targets, delete(r)
      PROVE  Files!Next
  <2> DEFINE q == DeletedPlace(r)
             d == disk
             e == disk'
             x == StoredAt(d, q)
  <2>1. r.parent \in Clusters
    BY DEF Targets
  <2>2. power = "on" /\ power' = "on" /\ delete_code(r) = 0
        /\ e = write_clusters(DeleteSteps(r), d)
    BY <1>7 DEF delete
  <2>3. Shrinks(d, e, q)
    BY <1>3, <2>1, <2>2, DeleteShrinks
  <2>4. StoreOnDisk = StoreIn(d) /\ StoreOnDisk' = StoreIn(e)
    BY <1>2, <1>3, <1>4, <2>2
  <2> HIDE DEF q, d, e
  <2>5. /\ x \in StoreIn(d)
        /\ StoreIn(e) = StoreIn(d) \ {x}
        /\ \A y \in StoreIn(d) : y.folder # x.handle
    BY <2>3, ShrunkStore
  <2> HIDE DEF x
  <2>6. Files!Delete(x)
    BY <2>4, <2>5 DEF Files!Delete
  <2>7. QED
    BY <2>4, <2>5, <2>6 DEF Files!Next
<1>8. ASSUME NEW r \in Targets, DeleteLost(r)
      PROVE  FALSE
  <2>1. r.parent \in Clusters
    BY DEF Targets
  <2>2. power = "on" /\ delete_code(r) = 0 /\ ~EndsProperly(fat_table, DeletedEntry(r).cluster)
    BY <1>8 DEF DeleteLost
  <2>3. QED
    BY <1>3, <2>1, <2>2, DeleteFacts
<1>9. CASE PowerOff \/ UNCHANGED vars
  BY <1>2, <1>9 DEF PowerOff, vars
<1>10. CASE CrashInFormat \/ (\E r \in Requests : CrashInWrite(r))
            \/ (\E r \in Targets : CrashInDelete(r))
  BY <1>1, <1>10 DEF CrashInFormat, CrashInWrite, CrashInDelete, Crash
<1>11. QED
  BY <1>5, <1>6, <1>7, <1>8, <1>9, <1>10 DEF Next

LEMMA InitNames == Init => NamesInv
<1>1. ASSUME Init
      PROVE  NamesAreOnce(disk)
  <2>1. \A c \in Clusters : disk[c] = Zero
    BY <1>1 DEF Init
  <2>2. Listed(disk) = {}
    BY <2>1, BlankListsNothing
  <2>3. QED
    BY <2>2 DEF NamesAreOnce, NoneTwice
<1>2. QED
  BY <1>1 DEF NamesInv

LEMMA NamesAlways ==
  ASSUME AllNamesPadded
  PROVE  Spec => []NamesInv
<1>1. Init => NamesInv
  BY InitNames
<1>2. DriverInv /\ WholeInv /\ NamesInv /\ [Next]_vars => NamesInv'
  BY NamesStep
<1>3. QED
  BY <1>1, <1>2, TreeStaysWhole, PTL DEF Spec

(* fat32.c implements FileStore: on a disk of any size, with any tables,   *)
(* names and texts, every request and every restart changes the tree by    *)
(* one whole entry or by none, a new entry has a name that is not taken in *)
(* its folder, and no folder is deleted before what it lists, if the names *)
(* of requests are padded and the machine does not stop inside one.        *)
THEOREM DriverIsAStore ==
  ASSUME NoCrash, AllNamesPadded
  PROVE  Spec => StoreIsKept
<1>1. Init => Files!Init
  <2>1. ASSUME Init
        PROVE  StoreOnDisk = {}
    <3>1. disk[0] = Zero
      BY <2>1, ClusterBasics DEF Init
    <3>2. ~Formatted
      BY <3>1, Kinds DEF Formatted, BOOT_SECTOR
    <3>3. Places = {}
      BY <3>2 DEF Places, FolderClusters
    <3>4. QED
      BY <3>3 DEF StoreOnDisk
  <2>2. QED
    BY <2>1 DEF Files!Init
<1>2. DriverInv /\ WholeInv => StoreIsListed
  BY StoreAsListed
<1>3. /\ DriverInv /\ WholeInv /\ NamesInv /\ StoreIsListed
      /\ (DriverInv /\ WholeInv /\ NamesInv /\ StoreIsListed)'
      /\ [Next]_vars
      => [Files!Next]_StoreOnDisk
  BY StoreStep
<1>4. QED
  BY <1>1, <1>2, <1>3, NamesAlways, TreeStaysWhole, PTL DEF Spec, StoreIsKept, Files!Spec

-----------------------------------------------------------------------------
(* Reading.                                                                *)

LEMMA EntryOfFolder ==
  \A name, c : LET e == FolderEntry(name, c)
               IN e.folder /\ e.name = name /\ e.cluster = c
BY DEF FolderEntry, UnusedEntry

LEMMA FolderIsReadable ==
  ASSUME NEW d, DiskInv(d), TreeInv(d), NEW c \in Folders(d)
  PROVE  /\ MapOf(d)[c] = FAT32_FAT_END_OF_FILE
         /\ TableIn(d[c])[0].folder /\ TableIn(d[c])[1].name = ".."
<1>1. CASE c = 2
  BY <1>1, TreeFacts, EntryOfFolder DEF IsMap, IsRootTable
<1>2. CASE c # 2
  <2>1. PICK p \in Listed(d) : At(d, p).folder /\ At(d, p).cluster = c
    BY <1>2 DEF TreeInv, FoldersAreListed
  <2>2. FolderIsWhole(d, p)
    BY <2>1 DEF TreeInv, EntryIsWhole
  <2> DEFINE e == FolderEntry(At(d, p).name, p[1])
             f == FolderEntry("..", p[1])
  <2>3. /\ MapOf(d)[c] = FAT32_FAT_END_OF_FILE
        /\ TableIn(d[c])[0] = e /\ TableIn(d[c])[1] = f
    BY <2>1, <2>2 DEF FolderIsWhole
  <2>4. e.folder /\ f.name = ".."
    BY EntryOfFolder
  <2> HIDE DEF e, f
  <2>5. QED
    BY <2>3, <2>4
<1>3. QED
  BY <1>1, <1>2

LEMMA FirstOfOne == \A i \in Nat : First({i}) = i
BY DEF First

(* Only the entry itself answers to its name.                              *)
LEMMA OneAnswers ==
  ASSUME DriverInv, WholeInv, NamesInv, power = "on", crashes = 0, NEW p \in Listed(disk),
         ~Matches(Table(p[1])[0], RequestFor(StoredAt(disk, p)))
  PROVE  LET r == RequestFor(StoredAt(disk, p))
         IN /\ IsFolderTable(r.parent)
            /\ Readable(r) = {p[2]} /\ ReadableFolders(r) = {p[2]}
            /\ First({p[2]}) = p[2] /\ Table(r.parent)[p[2]] = At(disk, p)
            /\ fat_table = MapOf(disk)
<1> DEFINE r == RequestFor(StoredAt(disk, p))
<1>1. /\ DiskInv(disk) /\ TreeInv(disk) /\ fat_table = MapOf(disk) /\ NamesAreOnce(disk)
  BY WholeWhenOn DEF NamesInv
<1>2. /\ p[1] \in Folders(disk) /\ p[2] \in Indices /\ p[2] > 1 /\ p = <<p[1], p[2]>>
      /\ At(disk, p).used /\ At(disk, p).name \in Names
  BY <1>1, OwnedFacts DEF NamesAreOnce
<1>3. /\ r.parent = p[1] /\ r.padded
      /\ r.name = At(disk, p).name /\ r.ext = At(disk, p).ext
  BY DEF RequestFor, StoredAt
<1>4. /\ \A j : Table(p[1])[j] = TableIn(disk[p[1]])[j]
      /\ Table(p[1])[p[2]] = At(disk, p)
  BY DEF Table, At
<1>5. IsFolderTable(p[1]) /\ Table(p[1])[1].name = ".."
  BY <1>1, <1>2, FolderIsReadable DEF IsFolderTable, Table
<1>6. ".." \notin Names
  BY Fat32Assumption
<1> HIDE DEF r
<1>7. ASSUME NEW j \in Indices,
             Table(p[1])[j].used, Table(p[1])[j].name = r.name, Table(p[1])[j].ext = r.ext
      PROVE  j = p[2]
  <2>1. j # 0
    BY <1>3, <1>7 DEF Matches, SameBytes, r
  <2>2. j # 1
    BY <1>2, <1>3, <1>5, <1>6, <1>7
  <2> DEFINE q == <<p[1], j>>
  <2>3. q \in Listed(disk) /\ At(disk, q) = Table(p[1])[j]
    BY <1>2, <1>4, <1>7, <2>1, <2>2 DEF Listed, At
  <2>4. q[1] = p[1] /\ q[2] = j
    OBVIOUS
  <2> HIDE DEF q
  <2>5. q = p
    BY <1>1, <1>3, <1>7, <2>3, <2>4 DEF NamesAreOnce, NoneTwice
  <2>6. QED
    BY <2>4, <2>5
<1>8. Readable(r) = {p[2]}
  BY <1>2, <1>3, <1>4, <1>7 DEF Readable, SameText
<1>9. ReadableFolders(r) = {p[2]}
  BY <1>2, <1>3, <1>4, <1>7 DEF ReadableFolders, Matches, SameBytes
<1>10. First({p[2]}) = p[2]
  BY <1>2, FirstOfOne, ClusterBasics
<1>11. QED
  BY <1>1, <1>3, <1>4, <1>5, <1>8, <1>9, <1>10 DEF r

LEMMA StoredIsRead ==
  ASSUME DriverInv, WholeInv, NamesInv, crashes = 0
  PROVE  ReadGivesTheStoredData
<1>1. SUFFICES ASSUME power = "on", NEW e \in StoreOnDisk,
                      ~Matches(Table(RequestFor(e).parent)[0], RequestFor(e))
               PROVE  LET r == RequestFor(e)
                      IN IF e.content = FolderContent
                         THEN /\ read_directory_code(r) = 0
                              /\ \E b \in {read_directory_buffer(r)} :
                                   /\ b.kind = "directory"
                                   /\ b.table[0].name = e.name /\ b.table[1].cluster = e.folder
                         ELSE read_code(r) = 0 /\ read_buffer(r) = e.content
  BY DEF ReadGivesTheStoredData
<1>2. /\ DiskInv(disk) /\ TreeInv(disk) /\ Formatted
  BY <1>1, WholeWhenOn
<1>3. PICK p \in Listed(disk) : e = StoredAt(disk, p)
  BY <1>1, <1>2, StoreFound DEF StoreIn
<1> DEFINE r == RequestFor(e)
           a == At(disk, p)
<1>4. r.parent = p[1] /\ r.size = Len(e.content)
  BY <1>3, StoredFields DEF RequestFor
<1>5. /\ IsFolderTable(r.parent)
      /\ Readable(r) = {p[2]} /\ ReadableFolders(r) = {p[2]}
      /\ First({p[2]}) = p[2] /\ Table(r.parent)[p[2]] = a
      /\ fat_table = MapOf(disk)
  BY <1>1, <1>3, <1>4, OneAnswers
<1>6. /\ e.name = a.name /\ e.folder = p[1] /\ e.content = ContentIn(disk, p)
  BY <1>3, StoredFields
<1> HIDE DEF r
<1>7. CASE a.folder
  <2>1. e.content = FolderContent
    BY <1>6, <1>7 DEF ContentIn
  <2>2. FolderIsWhole(disk, p)
    BY <1>2, <1>7 DEF TreeInv, EntryIsWhole
  <2>3. /\ a.cluster \in Folders(disk)
        /\ TableIn(disk[a.cluster])[0] = FolderEntry(a.name, p[1])
        /\ TableIn(disk[a.cluster])[1] = FolderEntry("..", p[1])
    BY <2>2 DEF FolderIsWhole
  <2>4. disk[a.cluster].kind = "directory" /\ TableIn(disk[a.cluster]) = disk[a.cluster].table
    BY <1>2, <2>3, TreeFacts DEF Folders
  <2>5. read_directory_buffer(r) = disk[a.cluster]
    BY <1>5 DEF read_directory_buffer
  <2>6. read_directory_code(r) = 0
    BY <1>5, <1>7 DEF read_directory_code
  <2>7. /\ FolderEntry(a.name, p[1]).name = a.name
        /\ FolderEntry("..", p[1]).cluster = p[1]
    BY EntryOfFolder
  <2> HIDE DEF a
  <2>8. QED
    BY <1>6, <2>1, <2>3, <2>4, <2>5, <2>6, <2>7 DEF r
<1>8. CASE ~a.folder
  <2>1. e.content # FolderContent /\ Len(e.content) = a.size
    BY <1>2, <1>6, <1>8, FileContent
  <2>2. a.size \in Nat
    <3>1. a \in DirectoryEntries
      BY <1>2, OwnedFacts
    <3>2. MaxClusters \in Nat
      BY Fat32Assumption
    <3>3. a.size \in 0 .. MaxClusters
      BY <3>1 DEF DirectoryEntries
    <3>4. QED
      BY <3>2, <3>3
  <2>3. read_code(r) = 0
    BY <1>4, <1>5, <1>8, <2>1, <2>2 DEF read_code
  <2>4. read_buffer(r) = e.content
    <3>1. read_buffer(r) = Content(MapOf(disk), a.cluster)
      BY <1>5 DEF read_buffer
    <3>2. ContentIn(disk, p) = Content(MapOf(disk), a.cluster)
      BY <1>8 DEF ContentIn, Content
    <3>3. QED
      BY <1>6, <3>1, <3>2
  <2>5. QED
    BY <2>1, <2>3, <2>4 DEF r
<1>9. QED
  BY <1>7, <1>8

(* fat32.c, read and read_directory against write: until the machine stops *)
(* inside a request, a file is read back as it was written, through        *)
(* whatever was written and deleted around it and through restarts, and a  *)
(* folder leads back, unless the entry has the name of the folder it is    *)
(* in; for every disk, and all names padded.                               *)
THEOREM WrittenIsRead ==
  ASSUME AllNamesPadded
  PROVE  Spec => [](crashes = 0 => ReadGivesTheStoredData)
<1>1. DriverInv /\ WholeInv /\ NamesInv => (crashes = 0 => ReadGivesTheStoredData)
  BY StoredIsRead
<1>2. QED
  BY <1>1, NamesAlways, TreeStaysWhole, PTL

-----------------------------------------------------------------------------
(* The first stop inside a request.                                        *)

(* What a write leaves of a cluster when the machine may stop in it: each  *)
(* entry of a table or of a map is the old one or the new one.             *)
Partly(old, new, b) ==
  /\ \A i \in Indices : TableIn(b)[i] \in {TableIn(old)[i], TableIn(new)[i]}
  /\ new.kind = "fat" =>
       \A c \in Clusters : MapIn(b)[c] \in {MapIn(old)[c], MapIn(new)[c]}
  /\ new.kind = "directory" => b.kind = "directory" \/ b = old

LEMMA TornIsPartly ==
  ASSUME NEW old, NEW new, NEW b \in Torn(old, new)
  PROVE  Partly(old, new, b)
<1> DEFINE Joined(cut) == [i \in Indices |-> IF i < cut THEN TableIn(new)[i] ELSE TableIn(old)[i]]
           Mixed(cut) == [k \in Clusters |-> IF k < cut THEN new.map[k] ELSE MapIn(old)[k]]
<1>1. CASE new.kind = "fat"
  <2>1. PICK cut \in 3 .. CLUSTER_MAP_SIZE - 1 : b = Fat(Mixed(cut))
    <3>1. new # Zero /\ new.kind # "directory"
      BY <1>1, Kinds
    <3>2. Torn(old, new) = {TornBefore(old, new, cut) : cut \in 3 .. CLUSTER_MAP_SIZE - 1}
      BY <1>1, <3>1 DEF Torn, ROOT_CLUSTER_NUMBER
    <3>3. QED
      BY <1>1, <3>2 DEF TornBefore
  <2>2. b.kind = "fat" /\ b.map = Mixed(cut)
    BY <2>1, Kinds
  <2>3. \A c \in Clusters : MapIn(b)[c] \in {MapIn(old)[c], MapIn(new)[c]}
    BY <1>1, <2>2 DEF MapIn
  <2>4. \A i \in Indices : TableIn(b)[i] = TableIn(new)[i]
    BY <1>1, <2>2 DEF TableIn
  <2>5. QED
    BY <1>1, <2>3, <2>4 DEF Partly
<1>2. CASE new.kind # "fat"
  <2>1. PICK cut \in 2 .. TOTAL_DIRECTORY_ENTRY - 1 : b = Directory(Joined(cut))
    BY <1>2 DEF Torn, TornBefore
  <2>2. b.kind = "directory" /\ b.table = Joined(cut)
    BY <2>1, Kinds
  <2>3. \A i \in Indices : TableIn(b)[i] \in {TableIn(old)[i], TableIn(new)[i]}
    <3>1. TableIn(b) = Joined(cut)
      BY <2>2 DEF TableIn
    <3>2. QED
      BY <3>1
  <2>4. QED
    BY <1>2, <2>2, <2>3 DEF Partly
<1>3. QED
  BY <1>1, <1>2

LEMMA WhollyIsPartly ==
  ASSUME NEW old, NEW new
  PROVE  Partly(old, new, old) /\ Partly(old, new, new)
BY DEF Partly

(* Torn once more over itself: a cluster of a chain is only zeroed.        *)
LEMMA AgainIsPartly ==
  ASSUME NEW old, NEW new, NEW b, Partly(new, new, b)
  PROVE  Partly(old, new, b)
BY DEF Partly

(* Where a stop among writes leaves the disk, if no two of them write      *)
(* different things to one cluster.                                        *)
LEMMA StopIsPartly ==
  ASSUME NEW steps, AllAllowed(steps, disk), DOMAIN disk = Clusters, Crash(steps),
         NEW n \in Nat, DOMAIN steps = 1 .. n,
         \A i, j \in 1 .. n : steps[i].cluster = steps[j].cluster
                                => steps[i].block = steps[j].block
  PROVE  /\ \A i \in 1 .. n :
              Partly(disk[steps[i].cluster], steps[i].block, disk'[steps[i].cluster])
         /\ \A c \in Clusters : (\A i \in 1 .. n : steps[i].cluster # c) => disk'[c] = disk[c]
<1>1. PICK S : steps \in Seq(S) /\ \A w \in S : Allowed(w, disk)
  BY DEF AllAllowed
<1>2. Len(steps) = n /\ \A i \in 1 .. n : steps[i] \in S
  <2>1. Len(steps) = n
    BY LenIs
  <2>2. QED
    BY <1>1, <2>1, LenProperties, ElementOfSeq
<1>3. PICK k \in 0 .. Len(steps) - 1 :
        LET before == write_clusters(SubSeq(steps, 1, k), disk)
            next   == steps[k + 1]
        IN \/ disk' = before
           \/ \E b \in Torn(before[next.cluster], next.block) :
                disk' = [before EXCEPT ![next.cluster] = b]
  <2>1. ASSUME NEW k, NEW before, NEW next,
               disk' \in {[before EXCEPT ![next.cluster] = b] :
                            b \in Torn(before[next.cluster], next.block)}
                         \cup IF k = 0 THEN {} ELSE {before}
        PROVE  \/ disk' = before
               \/ \E b \in Torn(before[next.cluster], next.block) :
                    disk' = [before EXCEPT ![next.cluster] = b]
    BY <2>1
  <2>2. QED
    BY <2>1 DEF Crash
<1> DEFINE done   == SubSeq(steps, 1, k)
           before == write_clusters(done, disk)
           next   == steps[k + 1]
<1>4. k \in Nat /\ k + 1 \in 1 .. n /\ DOMAIN done = 1 .. k
      /\ \A i \in 1 .. k : i \in 1 .. n /\ done[i] = steps[i]
  <2>1. k \in Nat /\ k + 1 \in 1 .. n /\ k \in Int
    BY <1>2
  <2>2. \A i \in 1 .. k : i \in 1 .. n /\ steps[i] \in S
    BY <1>2, <2>1
  <2>3. done \in Seq(S) /\ Len(done) = k /\ \A i \in 1 .. k : done[i] = steps[i]
    BY <2>1, <2>2, SubSeqProperties
  <2>4. DOMAIN done = 1 .. k
    BY <2>3, LenProperties
  <2>5. QED
    BY <2>1, <2>2, <2>3, <2>4
<1>5. disk' = before \/ \E b \in Torn(before[next.cluster], next.block) :
                          disk' = [before EXCEPT ![next.cluster] = b]
  BY <1>3
<1>6. DOMAIN before = Clusters
  BY DEF write_clusters
<1>7. next.cluster \in Clusters /\ \A i \in 1 .. n : steps[i].cluster \in Clusters
  BY <1>1, <1>2, <1>4 DEF Allowed
<1> HIDE DEF done
<1>8. ASSUME NEW c \in Clusters
      PROVE  \/ (\A i \in 1 .. k : done[i].cluster # c) /\ before[c] = disk[c]
             \/ \E i \in 1 .. k : done[i].cluster = c /\ before[c] = done[i].block
  BY <1>4, Written
<1> HIDE DEF before, next
<1>9. ASSUME NEW c \in Clusters, \A i \in 1 .. n : steps[i].cluster # c
      PROVE  disk'[c] = disk[c]
  <2>1. before[c] = disk[c]
    BY <1>4, <1>8, <1>9
  <2>2. c # next.cluster
    BY <1>4, <1>9 DEF next
  <2>3. QED
    BY <1>5, <1>6, <2>1, <2>2
<1>10. ASSUME NEW i \in 1 .. n
       PROVE  Partly(disk[steps[i].cluster], steps[i].block, disk'[steps[i].cluster])
  <2> DEFINE c   == steps[i].cluster
             new == steps[i].block
             old == disk[c]
  <2>1. c \in Clusters
    BY <1>7
  <2>2. before[c] \in {old, new}
    <3>1. CASE before[c] = disk[c]
      BY <3>1
    <3>2. CASE \E j \in 1 .. k : done[j].cluster = c /\ before[c] = done[j].block
      <4>1. PICK j \in 1 .. k : done[j].cluster = c /\ before[c] = done[j].block
        BY <3>2
      <4>2. j \in 1 .. n /\ steps[j].cluster = steps[i].cluster /\ before[c] = steps[j].block
        BY <1>4, <4>1
      <4>3. steps[j].block = new
        BY <4>2
      <4>4. QED
        BY <4>2, <4>3
    <3>3. QED
      BY <1>8, <2>1, <3>1, <3>2
  <2>3. next.cluster = c => next.block = new
    BY <1>4 DEF next
  <2> HIDE DEF c, new, old
  <2>4. \/ disk'[c] = before[c]
        \/ disk'[c] \in Torn(before[c], new)
    <3>1. CASE disk' = before
      BY <3>1
    <3>2. ASSUME NEW b \in Torn(before[next.cluster], next.block),
                 disk' = [before EXCEPT ![next.cluster] = b]
          PROVE  disk'[c] = before[c] \/ disk'[c] \in Torn(before[c], new)
      BY <1>6, <2>1, <2>3, <3>2
    <3>3. QED
      BY <1>5, <3>1, <3>2
  <2>5. Partly(old, new, disk'[c])
    <3>1. CASE disk'[c] = before[c]
      BY <2>2, <3>1, WhollyIsPartly
    <3>2. CASE disk'[c] \in Torn(before[c], new)
      <4>1. Partly(before[c], new, disk'[c])
        BY <3>2, TornIsPartly
      <4>2. QED
        BY <2>2, <4>1, AgainIsPartly
    <3>3. QED
      BY <2>4, <3>1, <3>2
  <2>6. QED
    BY <2>5 DEF c, new, old
<1>11. QED
  BY <1>9, <1>10

(* Entry n of the tree d is being made, or taken away, with the clusters   *)
(* in S: what a stop can leave of that in e.                               *)
Scratched(d, e, n, S) ==
  /\ n = <<n[1], n[2]>> /\ n[1] \in Folders(d) /\ n[1] \notin S
  /\ \A c \in S : c \in Clusters /\ c > 2
  /\ \A p \in Listed(d) : p # n => Owned(d, p) \cap S = {}
  /\ \A p \in Listed(d) : p[1] \notin S
  /\ \A c \in Clusters : c # 1 /\ c # n[1] /\ c \notin S => e[c] = d[c]
  /\ \A c \in Clusters : c \notin S => MapOf(e)[c] = MapOf(d)[c]
  /\ e[n[1]].kind = "directory"
  /\ \A j \in Indices : j # n[2] => TableIn(e[n[1]])[j] = TableIn(d[n[1]])[j]
  /\ \A c \in S, j \in Indices \ {0, 1} : ~TableIn(e[c])[j].used
  /\ n \in Listed(d) /\ n \in Listed(e) => At(e, n) = At(d, n)
  /\ n \in Listed(d) /\ At(d, n).folder =>
       \A p \in Listed(d) : p[1] # At(d, n).cluster

Scratches(d, e, n, S) ==
  DiskInv(d) /\ TreeInv(d) /\ DiskInv(e) /\ Scratched(d, e, n, S)

(* All other entries stay where they are.                                  *)
LEMMA OthersStayListed ==
  ASSUME NEW d, NEW e, NEW n, NEW S, Scratches(d, e, n, S), NEW p, p # n
  PROVE  /\ p \in Listed(d) <=> p \in Listed(e)
         /\ p \in Listed(d) => At(e, p) = At(d, p)
<1>1. /\ n = <<n[1], n[2]>> /\ n[1] \in Folders(d) /\ n[1] \notin S 
      /\ n[1] \in Clusters /\ d[n[1]].kind = "directory"
      /\ \A q \in Listed(d) : q[1] \notin S
      /\ \A c \in Clusters : c # 1 /\ c # n[1] /\ c \notin S => e[c] = d[c]
      /\ e[n[1]].kind = "directory"
      /\ \A j \in Indices : j # n[2] => TableIn(e[n[1]])[j] = TableIn(d[n[1]])[j]
      /\ \A c \in S, j \in Indices \ {0, 1} : ~TableIn(e[c])[j].used
  BY DEF Scratches, Scratched, Folders
<1>2. d[1].kind # "directory" /\ e[1].kind # "directory"
  <2>1. MayHold(1, d[1]) /\ MayHold(1, e[1])
    BY ClusterBasics DEF Scratches, DiskInv
  <2>2. QED
    BY <2>1, Kinds, ClusterBasics DEF MayHold
<1>3. ASSUME p \in Listed(d)
      PROVE  p \in Listed(e) /\ At(e, p) = At(d, p)
  <2>1. /\ p[1] \in Clusters /\ d[p[1]].kind = "directory" /\ p[2] \in Indices \ {0, 1}
        /\ p = <<p[1], p[2]>> /\ TableIn(d[p[1]])[p[2]].used /\ p[1] \notin S
    BY <1>1, <1>3 DEF Listed, Folders
  <2>2. p[1] # 1
    BY <1>2, <2>1
  <2>3. e[p[1]].kind = "directory" /\ TableIn(e[p[1]])[p[2]] = TableIn(d[p[1]])[p[2]]
    <3>1. CASE p[1] = n[1]
      <4>1. p[2] # n[2]
        BY <1>1, <2>1, <3>1
      <4>2. QED
        BY <1>1, <2>1, <3>1, <4>1
    <3>2. CASE p[1] # n[1]
      BY <1>1, <2>1, <2>2, <3>2
    <3>3. QED
      BY <3>1, <3>2
  <2>4. QED
    BY <2>1, <2>3 DEF Listed, Folders, At
<1>4. ASSUME p \in Listed(e)
      PROVE  p \in Listed(d)
  <2>1. /\ p[1] \in Clusters /\ e[p[1]].kind = "directory" /\ p[2] \in Indices \ {0, 1}
        /\ p = <<p[1], p[2]>> /\ TableIn(e[p[1]])[p[2]].used
    BY <1>4 DEF Listed, Folders
  <2>2. p[1] # 1 /\ p[1] \notin S
    BY <1>1, <1>2, <2>1
  <2>3. d[p[1]].kind = "directory" /\ TableIn(e[p[1]])[p[2]] = TableIn(d[p[1]])[p[2]]
    <3>1. CASE p[1] = n[1]
      <4>1. p[2] # n[2]
        BY <1>1, <2>1, <3>1
      <4>2. QED
        BY <1>1, <2>1, <3>1, <4>1
    <3>2. CASE p[1] # n[1]
      BY <1>1, <2>1, <2>2, <3>2
    <3>3. QED
      BY <3>1, <3>2
  <2>4. QED
    BY <2>1, <2>3 DEF Listed, Folders
<1>5. QED
  BY <1>3, <1>4

LEMMA OthersStayStored ==
  ASSUME NEW d, NEW e, NEW n, NEW S, Scratches(d, e, n, S), NEW p \in Listed(d), p # n
  PROVE  StoredAt(e, p) = StoredAt(d, p)
<1>1. At(e, p) = At(d, p)
  BY OthersStayListed
<1> DEFINE c0    == At(d, p).cluster
           chain == Chain(MapOf(d), c0)
<1>2. /\ n[1] \in Folders(d)
      /\ \A c \in Owned(d, p) : c \notin S
      /\ \A c \in Clusters : c # 1 /\ c # n[1] /\ c \notin S => e[c] = d[c]
      /\ \A c \in Clusters : c \notin S => MapOf(e)[c] = MapOf(d)[c]
      /\ DiskInv(d) /\ TreeInv(d) /\ DiskInv(e)
  BY DEF Scratches, Scratched
<1>3. /\ c0 \in Clusters /\ Owned(d, p) = ClustersOf(MapOf(d), c0)
      /\ \A c \in Owned(d, p) : c \in Clusters /\ c > 2
      /\ MapOf(d) \in [Clusters -> Links]
  BY <1>2, OwnedFacts, TreeFacts DEF Owned
<1>4. MapOf(e) \in [Clusters -> Links]
  <2>1. MayHold(1, e[1])
    BY <1>2, ClusterBasics DEF DiskInv
  <2>2. CASE e[1].kind = "fat"
    BY <2>1, <2>2, Kinds, ClusterBasics DEF MayHold, IsMap, MapOf, MapIn
  <2>3. CASE e[1].kind # "fat"
    BY <2>3, ClusterBasics DEF MapOf, MapIn, EmptyMap, FAT32_FAT_EMPTY_ENTRY, Links
  <2>4. QED
    BY <2>2, <2>3
<1>5. Chain(MapOf(e), c0) = chain
  <2>1. \A c \in ClustersOf(MapOf(d), c0) : MapOf(e)[c] = MapOf(d)[c]
    BY <1>2, <1>3
  <2> DEFINE m == MapOf(d)
             o == MapOf(e)
  <2>2. m \in [Clusters -> Links] /\ o \in [Clusters -> Links] /\ c0 \in Clusters
        /\ \A c \in ClustersOf(m, c0) : o[c] = m[c]
    BY <1>3, <1>4, <2>1
  <2> HIDE DEF m, o, c0
  <2>3. Chain(o, c0) = Chain(m, c0)
    BY <2>2, SameChain
  <2>4. QED
    BY <2>3 DEF m, o
<1>6. ContentIn(e, p) = ContentIn(d, p)
  <2>1. CASE At(d, p).folder
    BY <1>1, <2>1 DEF ContentIn
  <2>2. CASE ~At(d, p).folder
    <3>1. \A c \in Owned(d, p) : c \in Clusters /\ c # 1 /\ c # n[1]
      BY <1>2, <1>3, <2>2, FolderOwner
    <3>2. \A c \in Owned(d, p) : e[c] = d[c]
      BY <1>2, <3>1
    <3>3. \A j \in DOMAIN chain : chain[j] \in Owned(d, p)
      BY <1>3 DEF ClustersOf
    <3> HIDE DEF chain
    <3>4. [j \in DOMAIN chain |-> e[chain[j]]] = [j \in DOMAIN chain |-> d[chain[j]]]
      BY <3>2, <3>3
    <3>5. ContentIn(d, p) = [j \in DOMAIN chain |-> d[chain[j]]]
      BY <2>2 DEF ContentIn, chain
    <3>6. ContentIn(e, p) = [j \in DOMAIN chain |-> e[chain[j]]]
      BY <1>1, <1>5, <2>2 DEF ContentIn, chain
    <3>7. QED
      BY <3>4, <3>5, <3>6
  <2>3. QED
    BY <2>1, <2>2
<1>7. QED
  BY <1>1, <1>6 DEF StoredAt

(* A store that was read by a walk over the folders F.                     *)
ReadThrough(d, F, store) ==
  /\ F \in SUBSET Clusters
  /\ d[0] = Signature /\ TableIn(d[2])[0].folder => 2 \in F /\ Closed(d, F)
  /\ \A x : x \in store <=> \E p \in Listed(d) : p[1] \in F /\ x = StoredAt(d, p)

(* What the walk no longer finds is n.                                     *)
LEMMA OthersAreFound ==
  ASSUME NEW d, NEW e, NEW n, NEW S, Scratches(d, e, n, S),
         NEW F \in SUBSET Clusters, 2 \in F, Closed(e, F), NEW store, ReadThrough(e, F, store),
         NEW x \in StoreIn(d), x \notin store
  PROVE  n \in Listed(d) /\ x = StoredAt(d, n)
<1> DEFINE G == F \cup {c \in Clusters : n \in Listed(d) /\ At(d, n).folder /\ c = At(d, n).cluster}
<1>1. DiskInv(d) /\ TreeInv(d)
  BY DEF Scratches
<1>2. n \in Listed(d) /\ At(d, n).folder => \A p \in Listed(d) : p[1] # At(d, n).cluster
  BY DEF Scratches, Scratched
<1>3. \A p \in Listed(d) : At(d, p).cluster \in Clusters /\ p[1] \in Folders(d)
  BY <1>1, OwnedFacts
<1>4. Closed(d, G)
  <2>1. ASSUME NEW p \in Listed(d), p[1] \in G, At(d, p).folder
        PROVE  At(d, p).cluster \in G
    <3>1. CASE p = n
      BY <1>3, <2>1, <3>1
    <3>2. CASE p # n
      <4>1. p[1] \in F
        BY <1>2, <2>1
      <4>2. p \in Listed(e) /\ At(e, p) = At(d, p)
        BY <3>2, OthersStayListed
      <4>3. At(e, p).cluster \in F
        BY <2>1, <4>1, <4>2 DEF Closed
      <4>4. QED
        BY <4>2, <4>3
    <3>3. QED
      BY <3>1, <3>2
  <2>2. QED
    BY <2>1 DEF Closed
<1>5. \A p \in Listed(d) : p[1] \in F
  <2>1. G \in SUBSET Clusters /\ 2 \in G
    OBVIOUS
  <2> HIDE DEF G
  <2>2. Folders(d) \subseteq G
    BY <1>1, <1>4, <2>1 DEF TreeInv, FoldersAreReached
  <2>3. \A p \in Listed(d) : p[1] \in G
    BY <1>3, <2>2
  <2>4. QED
    BY <1>2, <2>3 DEF G
<1> HIDE DEF G
<1>6. PICK p \in Listed(d) : x = StoredAt(d, p)
  BY DEF StoreIn
<1>7. p = n
  <2>1. SUFFICES ASSUME p # n
                 PROVE  x \in store
    OBVIOUS
  <2>2. p \in Listed(e) /\ StoredAt(e, p) = StoredAt(d, p)
    BY <2>1, OthersStayListed, OthersStayStored
  <2>3. QED
    BY <1>5, <1>6, <2>2 DEF ReadThrough
<1>8. QED
  BY <1>6, <1>7

LEMMA OneEntryHurt ==
  ASSUME NEW d, NEW e, NEW n, NEW S, Scratches(d, e, n, S),
         NEW F \in SUBSET Clusters, 2 \in F, Closed(e, F), NEW store, ReadThrough(e, F, store)
  PROVE  Cardinality(ChangedEntries(StoreIn(d), store)) <= 1
<1> DEFINE t(x) == <<x.folder, x.name, x.ext>>
           b == IF n \in Listed(d) THEN At(d, n) ELSE At(e, n)
           one == <<n[1], b.name, b.ext>>
           changed == ChangedEntries(StoreIn(d), store)
<1>1. n \in Listed(d) /\ n \in Listed(e) => At(e, n) = At(d, n)
  BY DEF Scratches, Scratched
<1>2. ASSUME NEW x \in StoreIn(d), x \notin store
      PROVE  t(x) = one
  <2>1. n \in Listed(d) /\ x = StoredAt(d, n)
    BY <1>2, OthersAreFound
  <2>2. QED
    BY <2>1, StoredFields
<1>3. ASSUME NEW x \in store, x \notin StoreIn(d)
      PROVE  t(x) = one
  <2>1. PICK p \in Listed(e) : x = StoredAt(e, p)
    BY <1>3 DEF ReadThrough
  <2>2. p = n
    <3>1. SUFFICES ASSUME p # n
                   PROVE  x \in StoreIn(d)
      BY <1>3
    <3>2. p \in Listed(d)
      BY <3>1, OthersStayListed
    <3>3. StoredAt(e, p) = StoredAt(d, p)
      BY <3>1, <3>2, OthersStayStored
    <3>4. QED
      BY <2>1, <3>2, <3>3 DEF StoreIn
  <2>3. At(e, n).name = b.name /\ At(e, n).ext = b.ext
    BY <1>1, <2>1, <2>2
  <2>4. QED
    BY <2>1, <2>2, <2>3, StoredFields
<1>4. changed \subseteq {one}
  <2>1. changed = {t(x) : x \in (StoreIn(d) \ store) \cup (store \ StoreIn(d))}
    BY DEF ChangedEntries
  <2> HIDE DEF changed, one, t
  <2>2. QED
    BY <1>2, <1>3, <2>1
<1> HIDE DEF changed, one
<1>5. Cardinality({one}) = 1 /\ IsFiniteSet({one})
  BY FS_Singleton
<1>6. Cardinality(changed) <= Cardinality({one}) /\ Cardinality(changed) \in Nat
  BY <1>4, <1>5, FS_Subset, FS_CardinalityType
<1>7. QED
  BY <1>5, <1>6 DEF changed

StoreIsRead == ReadThrough(disk, FolderClusters, StoreOnDisk)

LEMMA DiskIsRead ==
  ASSUME DriverInv
  PROVE  StoreIsRead
<1> DEFINE F == FolderClusters
<1>1. /\ F \in SUBSET Clusters
      /\ disk[0] = Signature /\ TableIn(disk[2])[0].folder => 2 \in F /\ Closed(disk, F)
  <2>1. CASE ~Formatted
    BY <2>1 DEF FolderClusters, Formatted, BOOT_SECTOR
  <2>2. CASE Formatted
    <3>1. F \in SUBSET Clusters
      <4>1. PICK up : /\ \A n \in 0 .. CLUSTER_MAP_SIZE : up[n] \in SUBSET Clusters
                      /\ F = up[CLUSTER_MAP_SIZE]
        BY <2>2, FolderSteps
      <4>2. CLUSTER_MAP_SIZE \in 0 .. CLUSTER_MAP_SIZE
        BY ClusterBasics
      <4>3. QED
        BY <4>1, <4>2
    <3>2. ASSUME Table(2)[0].folder
          PROVE  2 \in F /\ Closed(disk, F)
      <4>1. PICK up : Levels(up, CLUSTER_MAP_SIZE) /\ F = up[CLUSTER_MAP_SIZE]
        BY <2>2, <3>2, FolderLevels
      <4> HIDE DEF F
      <4>2. QED
        BY <4>1, LastLevelIsClosed
    <3>3. QED
      BY <3>1, <3>2 DEF Table
  <2>3. QED
    BY <2>1, <2>2
<1>2. FatOnDisk = MapOf(disk)
  BY DEF FatOnDisk, MapOf, FAT_CLUSTER_NUMBER
<1> DEFINE Shown(p) ==
             LET e == EntryAt(p)
             IN [folder |-> p[1], name |-> e.name, ext |-> e.ext, handle |-> e.cluster,
                 content |-> IF e.folder THEN FolderContent
                             ELSE Content(FatOnDisk, e.cluster)]
<1>3. ASSUME NEW p
      PROVE  Shown(p) = StoredAt(disk, p)
  <2>1. EntryAt(p) = At(disk, p)
    BY DEF EntryAt, At, Table
  <2>2. QED
    BY <1>2, <2>1 DEF StoredAt, ContentIn, Content
<1>4. StoreOnDisk = {Shown(p) : p \in Places}
  BY DEF StoreOnDisk
<1>5. \A p : p \in Places <=> p \in Listed(disk) /\ p[1] \in F
  <2>1. ASSUME NEW p \in Places
        PROVE  p \in Listed(disk) /\ p[1] \in F
    <3>1. PICK c \in F, i \in Indices \ {0, 1} : p = <<c, i>> /\ Table(c)[i].used
      BY DEF Places
    <3>2. c \in Clusters /\ TableIn(disk[c])[i].used
      BY <1>1, <3>1 DEF Table
    <3>3. disk[c].kind = "directory"
      BY <3>2, UnusedTyped DEF TableIn
    <3>4. QED
      BY <3>1, <3>2, <3>3 DEF Listed, Folders
  <2>2. ASSUME NEW p \in Listed(disk), p[1] \in F
        PROVE  p \in Places
    BY <2>2 DEF Places, Listed, Table
  <2>3. QED
    BY <2>1, <2>2
<1> HIDE DEF Shown, F
<1>6. \A x : x \in StoreOnDisk <=> \E p \in Listed(disk) : p[1] \in F /\ x = StoredAt(disk, p)
  BY <1>3, <1>4, <1>5
<1>7. QED
  BY <1>1, <1>6 DEF StoreIsRead, ReadThrough, F

(* A stop in write.                                                        *)
LEMMA StoppedWrite ==
  ASSUME DriverInv, TreeInv(disk), DriverInv', NEW r \in AnyRequest, write_code(r) = 0,
         Crash(WriteSteps(r))
  PROVE  Scratches(disk, disk', <<r.parent, First(FreeEntries(Table(r.parent)))>>,
                   NewOnes(ClustersNeeded(r), EmptyClusters(r)))
<1> DEFINE p   == r.parent
           i   == First(FreeEntries(Table(p)))
           t   == Table(p)
           k   == ClustersNeeded(r)
           new == EmptyClusters(r)
           n   == <<p, i>>
           S   == NewOnes(k, new)
           d   == disk
           e   == disk'
           steps == WriteSteps(r)
           map   == FatAfterWrite(r)
           table == TableAfterWrite(r)
<1>1. /\ p \in Clusters /\ p > 1 /\ d[p].kind = "directory"
      /\ fat_table = MapOf(d) /\ IsTable(t)
      /\ i \in Indices /\ ~t[i].used
      /\ \A j \in 1 .. k : new[j] \in Clusters /\ new[j] > 2 /\ fat_table[new[j]] = 0 /\ new[j] # p
  BY WriteFacts DEF MapOf
<1>2. DiskInv(d) /\ DiskInv(e) /\ DOMAIN d = Clusters
  BY DEF DriverInv, DiskInv
<1>3. /\ k \in Nat /\ DOMAIN steps = 1 .. k + 2 /\ Len(steps) = k + 2
      /\ steps[1].cluster = p /\ steps[1].block = Directory(table)
      /\ \A j \in 1 .. k : steps[j + 1].cluster = new[j] /\ steps[j + 1].block = BlockOf(r, j)
      /\ steps[k + 2].cluster = 1 /\ steps[k + 2].block = Fat(map)
  <2>1. /\ k \in Nat /\ DOMAIN steps = 1 .. k + 2 /\ Len(steps) = k + 2
        /\ steps[1] = Write(p, Directory(table))
        /\ \A j \in 1 .. k : steps[j + 1] = Write(new[j], BlockOf(r, j))
        /\ steps[k + 2] = Write(1, Fat(map))
    BY WriteStepsAre
  <2> HIDE DEF p, k, new, steps, map, table
  <2>2. QED
    BY <2>1, WriteFields
<1>4. AllAllowed(steps, d)
  BY WriteIsAllowed
<1>5. \A a, b \in 1 .. k + 2 : steps[a].cluster = steps[b].cluster => a = b
  BY <1>3, WriteStepsApart
<1>6. /\ \A c \in Clusters : (\A j \in 1 .. k : new[j] # c) => map[c] = fat_table[c]
  BY FatWithNew
<1>7. \A j \in Indices : j # i => table[j] = t[j]
  BY <1>1 DEF TableAfterWrite, IsTable, Tables
<1>8. Crash(steps)
  OBVIOUS
<1>9. t = TableIn(d[p])
  BY DEF Table
<1>10. \A j \in 1 .. k, m \in Indices \ {0, 1} : ~TableIn(BlockOf(r, j))[m].used
  <2>1. \A m \in Indices \ {0, 1} :
          init_directory_table(r.name, r.parent)[m] = UnusedEntry
    BY DEF init_directory_table
  <2>2. \A m \in Indices \ {0, 1} :
          ~TableIn(Directory(init_directory_table(r.name, r.parent)))[m].used
    <3> DEFINE x == init_directory_table(r.name, r.parent)
    <3>1. \A y : TableIn(Directory(y)) = y
      BY Kinds DEF TableIn
    <3>2. TableIn(Directory(x)) = x
      BY <3>1
    <3> HIDE DEF x
    <3>3. \A m \in Indices \ {0, 1} : ~x[m].used
      BY <2>1, UnusedTyped DEF x
    <3>4. QED
      BY <3>2, <3>3 DEF x
  <2>3. \A j, m : m \in Indices => ~TableIn(Data(r.text, j))[m].used
    BY UnusedTyped, Kinds DEF TableIn
  <2>4. QED
    BY <2>2, <2>3 DEF BlockOf
<1> HIDE DEF p, i, t, k, new, d, steps, map, table
<1>11. /\ \A a \in 1 .. k + 2 : Partly(d[steps[a].cluster], steps[a].block, e[steps[a].cluster])
       /\ \A c \in Clusters : (\A a \in 1 .. k + 2 : steps[a].cluster # c) => e[c] = d[c]
  <2> DEFINE N == k + 2
  <2>1. N \in Nat /\ DOMAIN steps = 1 .. N
    BY <1>3
  <2>2. AllAllowed(steps, disk) /\ DOMAIN disk = Clusters /\ Crash(steps)
    BY <1>2, <1>4, <1>8 DEF d
  <2>3. \A a, b \in 1 .. N : steps[a].cluster = steps[b].cluster
                              => steps[a].block = steps[b].block
    BY <1>5
  <2> HIDE DEF N
  <2>4. /\ \A a \in 1 .. N :
             Partly(disk[steps[a].cluster], steps[a].block, disk'[steps[a].cluster])
        /\ \A c \in Clusters : (\A a \in 1 .. N : steps[a].cluster # c) => disk'[c] = disk[c]
    BY <2>1, <2>2, <2>3, StopIsPartly
  <2>5. QED
    BY <2>4 DEF N, d
<1>12. 1 \in 1 .. k + 2 /\ k + 2 \in 1 .. k + 2 /\ \A j \in 1 .. k : j + 1 \in 1 .. k + 2
  BY <1>3
<1>13. Partly(d[p], Directory(table), e[p])
  BY <1>3, <1>11, <1>12
<1>14. Partly(d[1], Fat(map), e[1])
  BY <1>3, <1>11, <1>12
<1>15. \A j \in 1 .. k : Partly(d[new[j]], BlockOf(r, j), e[new[j]])
  BY <1>3, <1>11, <1>12
<1>16. S = {c \in Clusters : \E j \in 1 .. k : new[j] = c}
  BY DEF NewOnes
<1> HIDE DEF S, e
<1>17. /\ p \in Folders(d) /\ p \notin S
       /\ \A c \in S : c \in Clusters /\ c > 2 /\ MapOf(d)[c] = 0
  BY <1>1, <1>16 DEF Folders
<1>18. \A c \in S : c \notin Folders(d) /\ \A q \in Listed(d) : c \notin Owned(d, q)
  <2>1. TreeInv(d)
    BY DEF d
  <2>2. QED
    BY <1>2, <1>17, <2>1, FreeIsNoFolder
<1>19. ASSUME NEW c \in Clusters, c # 1, c # p, c \notin S
       PROVE  e[c] = d[c]
  <2>1. ASSUME NEW a \in 1 .. k + 2
        PROVE  steps[a].cluster # c
    <3>1. a = 1 \/ a = k + 2 \/ (a - 1 \in 1 .. k /\ (a - 1) + 1 = a)
      BY <1>3
    <3>2. CASE a - 1 \in 1 .. k /\ (a - 1) + 1 = a
      <4>1. steps[(a - 1) + 1].cluster = new[a - 1]
        BY <1>3, <3>2
      <4>2. QED
        BY <1>16, <1>19, <3>2, <4>1
    <3>3. QED
      BY <1>3, <1>19, <3>1, <3>2
  <2>2. QED
    BY <1>11, <1>19, <2>1
<1>20. ASSUME NEW c \in Clusters, c \notin S
       PROVE  MapOf(e)[c] = MapOf(d)[c]
  <2>1. map[c] = MapOf(d)[c]
    BY <1>1, <1>6, <1>16, <1>20
  <2>2. MapIn(e[1])[c] \in {MapIn(d[1])[c], MapIn(Fat(map))[c]}
    BY <1>14, Kinds DEF Partly
  <2>3. MapIn(Fat(map)) = map
    BY Kinds DEF MapIn
  <2>4. QED
    BY <2>1, <2>2, <2>3 DEF MapOf
<1>21. e[p].kind = "directory"
  BY <1>1, <1>13, Kinds DEF Partly
<1>22. ASSUME NEW j \in Indices, j # i
       PROVE  TableIn(e[p])[j] = TableIn(d[p])[j]
  <2>1. TableIn(Directory(table)) = table
    BY Kinds DEF TableIn
  <2>2. TableIn(e[p])[j] \in {TableIn(d[p])[j], TableIn(Directory(table))[j]}
    BY <1>13 DEF Partly
  <2>3. QED
    BY <1>7, <1>9, <1>22, <2>1, <2>2
<1>23. ASSUME NEW c \in S, NEW m \in Indices \ {0, 1}
       PROVE  ~TableIn(e[c])[m].used
  <2>1. PICK j \in 1 .. k : new[j] = c
    BY <1>16
  <2>2. TableIn(e[c])[m] \in {TableIn(d[c])[m], TableIn(BlockOf(r, j))[m]}
    BY <1>15, <2>1 DEF Partly
  <2>3. d[c].kind # "directory"
    BY <1>17, <1>18 DEF Folders
  <2>4. ~TableIn(d[c])[m].used
    BY <2>3, UnusedTyped DEF TableIn
  <2>5. QED
    BY <1>10, <2>2, <2>4
<1>24. n \notin Listed(d)
  BY <1>1, <1>9 DEF Listed
<1>25. n = <<n[1], n[2]>> /\ n[1] = p /\ n[2] = i
  OBVIOUS
<1>26. \A q \in Listed(d) : Owned(d, q) \cap S = {} /\ q[1] \notin S
  BY <1>18 DEF Listed
<1> HIDE DEF n
<1>27. Scratched(d, e, n, S)
  BY <1>17, <1>19, <1>20, <1>21, <1>22, <1>23, <1>24, <1>25, <1>26 DEF Scratched
<1>28. QED
  BY <1>2, <1>27 DEF Scratches, d, e, n, S, p, i, k, new, t

(* A stop in delete.                                                       *)
LEMMA StoppedDelete ==
  ASSUME DriverInv, TreeInv(disk), DriverInv', NEW r, r.parent \in Clusters,
         delete_code(r) = 0, Crash(DeleteSteps(r))
  PROVE  Scratches(disk, disk', DeletedPlace(r), Owned(disk, DeletedPlace(r)))
<1> DEFINE p     == r.parent
           i     == First(Deletable(r))
           t     == Table(p)
           n     == DeletedPlace(r)
           d     == disk
           e     == disk'
           S     == Owned(d, n)
           c0    == At(d, n).cluster
           steps == DeleteSteps(r)
           map   == FatAfterDelete(r)
           table == TableAfterDelete(r)
           chain == Chain(fat_table, DeletedEntry(r).cluster)
           L     == Len(chain)
<1>1. /\ p \in Folders(d) /\ p > 1 /\ IsTable(t) /\ i \in Indices
      /\ fat_table = MapOf(d) /\ n \in Listed(d)
      /\ At(d, n) = DeletedEntry(r) /\ S = ClustersOf(fat_table, DeletedEntry(r).cluster)
      /\ EndsProperly(fat_table, DeletedEntry(r).cluster)
      /\ At(d, n).folder => \A j \in Indices : j > 1 => ~TableIn(d[c0])[j].used
  BY DeleteFacts
<1>2. DiskInv(d) /\ DiskInv(e) /\ TreeInv(d) /\ DOMAIN d = Clusters
  BY DEF DriverInv, DiskInv
<1>3. /\ L \in Nat /\ DOMAIN steps = 1 .. L + 2 /\ S = {chain[j] : j \in 1 .. L}
      /\ \A c \in S : c \in Clusters /\ c > 2
      /\ p \in Clusters /\ p > 1 /\ p \notin S
      /\ \A j \in 1 .. L : steps[j].cluster = chain[j] /\ steps[j].block = Zero
      /\ steps[L + 1].cluster = 1 /\ steps[L + 1].block = Fat(map)
      /\ steps[L + 2].cluster = p /\ steps[L + 2].block = Directory(table)
  BY DeleteStepsAre
<1>4. AllAllowed(steps, disk) /\ DOMAIN disk = Clusters /\ Crash(steps)
  BY <1>1, <1>2, DeleteIsAllowed
<1>5. \A c \in Clusters : c \notin S => map[c] = fat_table[c]
  BY <1>1 DEF FatAfterDelete
<1>6. \A j \in Indices : j # i => table[j] = t[j]
  BY <1>1 DEF TableAfterDelete, IsTable, Tables
<1>7. t = TableIn(d[p]) /\ n = <<p, i>>
  BY DEF Table, DeletedPlace
<1>8. table[i] = UnusedEntry
  BY <1>1 DEF TableAfterDelete, IsTable, Tables, Cleared
<1> HIDE DEF p, i, t, n, d, S, c0, steps, map, table, chain, L
<1>9. /\ \A a \in 1 .. L + 2 :
           Partly(disk[steps[a].cluster], steps[a].block, disk'[steps[a].cluster])
      /\ \A c \in Clusters : (\A a \in 1 .. L + 2 : steps[a].cluster # c) => disk'[c] = disk[c]
  <2> DEFINE N == L + 2
  <2>1. N \in Nat /\ DOMAIN steps = 1 .. N
    BY <1>3
  <2>2. \A a \in 1 .. N : a \in 1 .. L \/ a = L + 1 \/ a = L + 2
    BY <1>3
  <2>3. 1 # p /\ \A j \in 1 .. L : steps[j].cluster # 1 /\ steps[j].cluster # p
    BY <1>3
  <2>4. \A a, b \in 1 .. N : steps[a].cluster = steps[b].cluster
                              => steps[a].block = steps[b].block
    BY <1>3, <2>2, <2>3
  <2> HIDE DEF N
  <2>5. /\ \A a \in 1 .. N :
             Partly(disk[steps[a].cluster], steps[a].block, disk'[steps[a].cluster])
        /\ \A c \in Clusters : (\A a \in 1 .. N : steps[a].cluster # c) => disk'[c] = disk[c]
    BY <1>4, <2>1, <2>4, StopIsPartly
  <2>6. QED
    BY <2>5 DEF N
<1>10. \A j \in 1 .. L : j \in 1 .. L + 2
  BY <1>3
<1>11. L + 1 \in 1 .. L + 2 /\ L + 2 \in 1 .. L + 2
  BY <1>3
<1>12. Partly(d[p], Directory(table), e[p])
  BY <1>3, <1>9, <1>11 DEF d
<1>13. Partly(d[1], Fat(map), e[1])
  BY <1>3, <1>9, <1>11 DEF d
<1>14. ASSUME NEW c \in S
       PROVE  Partly(d[c], Zero, e[c])
  <2>1. PICK j \in 1 .. L : chain[j] = c
    BY <1>3
  <2>2. steps[j].cluster = c /\ steps[j].block = Zero /\ j \in 1 .. L + 2
    BY <1>3, <1>10, <2>1
  <2>3. QED
    BY <1>9, <2>2 DEF d
<1>15. ASSUME NEW c \in Clusters, c # 1, c # p, c \notin S
       PROVE  e[c] = d[c]
  <2>1. ASSUME NEW a \in 1 .. L + 2
        PROVE  steps[a].cluster # c
    <3>1. a \in 1 .. L \/ a = L + 1 \/ a = L + 2
      BY <1>3
    <3>2. CASE a \in 1 .. L
      <4>1. steps[a].cluster \in S
        BY <1>3, <3>2
      <4>2. QED
        BY <1>15, <4>1
    <3>3. QED
      BY <1>3, <1>15, <3>1, <3>2
  <2>2. QED
    BY <1>9, <2>1 DEF d
<1> HIDE DEF e
<1>16. ASSUME NEW c \in Clusters, c \notin S
       PROVE  MapOf(e)[c] = MapOf(d)[c]
  <2>1. map[c] = MapOf(d)[c]
    BY <1>1, <1>5, <1>16
  <2>2. MapIn(e[1])[c] \in {MapIn(d[1])[c], MapIn(Fat(map))[c]}
    BY <1>13, Kinds DEF Partly
  <2>3. MapIn(Fat(map)) = map
    BY Kinds DEF MapIn
  <2>4. QED
    BY <2>1, <2>2, <2>3 DEF MapOf
<1>17. e[p].kind = "directory"
  BY <1>1, <1>12, Kinds DEF Partly, Folders
<1>18. TableIn(Directory(table)) = table
  BY Kinds DEF TableIn
<1>19. ASSUME NEW j \in Indices, j # i
       PROVE  TableIn(e[p])[j] = TableIn(d[p])[j]
  <2>1. TableIn(e[p])[j] \in {TableIn(d[p])[j], TableIn(Directory(table))[j]}
    BY <1>12 DEF Partly
  <2>2. QED
    BY <1>6, <1>7, <1>18, <1>19, <2>1
<1>20. ASSUME n \in Listed(e)
       PROVE  At(e, n) = At(d, n)
  <2>1. TableIn(e[p])[i].used
    BY <1>7, <1>20 DEF Listed
  <2>2. TableIn(e[p])[i] \in {TableIn(d[p])[i], TableIn(Directory(table))[i]}
    BY <1>1, <1>12 DEF Partly
  <2>3. TableIn(e[p])[i] = TableIn(d[p])[i]
    BY <1>8, <1>18, <2>1, <2>2, UnusedTyped
  <2>4. QED
    BY <1>7, <2>3 DEF At
<1>21. ASSUME At(d, n).folder, NEW q \in Listed(d)
       PROVE  q[1] # c0
  <2>1. q[2] \in Indices /\ q[2] > 1 /\ TableIn(d[q[1]])[q[2]].used
    BY <1>2, OwnedFacts DEF At
  <2>2. QED
    BY <1>1, <1>21, <2>1
<1>22. ASSUME NEW q \in Listed(d), q[1] \in S
       PROVE  FALSE
  <2>1. q[1] \in Folders(d)
    BY DEF Listed
  <2>2. At(d, n).folder /\ At(d, n).cluster = q[1]
    BY <1>1, <1>2, <1>22, <2>1, FolderOwner DEF S
  <2>3. QED
    BY <1>21, <2>2 DEF c0
<1>23. ASSUME NEW q \in Listed(d), q # n
       PROVE  Owned(d, q) \cap S = {}
  BY <1>1, <1>2, <1>23 DEF TreeInv, OwnersApart, S
<1>24. ASSUME NEW c \in S, NEW m \in Indices \ {0, 1}
       PROVE  ~TableIn(e[c])[m].used
  <2>1. TableIn(e[c])[m] \in {TableIn(d[c])[m], TableIn(Zero)[m]}
    BY <1>14 DEF Partly
  <2>2. TableIn(Zero)[m] = UnusedEntry
    BY Kinds DEF TableIn
  <2>3. ~TableIn(d[c])[m].used
    <3>1. SUFFICES ASSUME TableIn(d[c])[m].used
                   PROVE  FALSE
      OBVIOUS
    <3>2. d[c].kind = "directory"
      BY <3>1, UnusedTyped DEF TableIn
    <3>3. c \in Folders(d)
      BY <1>3, <3>2 DEF Folders
    <3>4. <<c, m>> \in Listed(d)
      BY <3>1, <3>3 DEF Listed
    <3>5. QED
      BY <1>22, <3>4
  <2>4. QED
    BY <2>1, <2>2, <2>3, UnusedTyped
<1>25. n = <<n[1], n[2]>> /\ n[1] = p /\ n[2] = i
  BY <1>7
<1>26. n[1] \in Folders(d) /\ n[1] \notin S
  BY <1>1, <1>3, <1>25
<1>27. At(d, n).folder => \A q \in Listed(d) : q[1] # At(d, n).cluster
  BY <1>21 DEF c0
<1>28. Scratched(d, e, n, S)
  BY <1>3, <1>15, <1>16, <1>17, <1>19, <1>20, <1>22, <1>23, <1>24, <1>25, <1>26, <1>27
     DEF Scratched
<1>29. QED
  BY <1>2, <1>28 DEF Scratches, d, e, n, S

LEMMA RootStays ==
  ASSUME NEW d, NEW e, NEW n, NEW S, Scratches(d, e, n, S), d[0] = Signature
  PROVE  e[0] = Signature /\ TableIn(e[2])[0].folder
<1>1. /\ n[1] \in Folders(d) /\ e[n[1]].kind = "directory"
      /\ \A c \in S : c \in Clusters /\ c > 2
      /\ \A c \in Clusters : c # 1 /\ c # n[1] /\ c \notin S => e[c] = d[c]
      /\ DiskInv(d) /\ TreeInv(d) /\ DiskInv(e)
  BY DEF Scratches, Scratched
<1>2. /\ n[1] > 1 /\ n[1] \in Nat /\ 0 \notin S /\ 2 \notin S
      /\ 0 \in Clusters /\ 2 \in Clusters /\ 2 \in Folders(d)
  BY <1>1, TreeFacts, ClusterBasics
<1>3. e[0] = Signature
  BY <1>1, <1>2
<1>4. e[2].kind = "directory"
  BY <1>1, <1>2 DEF Folders
<1>5. e[2] # Zero /\ MayHold(2, e[2])
  BY <1>1, <1>2, <1>4, Kinds DEF DiskInv
<1>6. IsRootTable(TableIn(e[2]))
  BY <1>4, <1>5, Kinds, ClusterBasics DEF MayHold, TableIn
<1>7. QED
  BY <1>3, <1>6 DEF IsRootTable, FolderEntry

(* A stop in the format: whatever is on the disk, no folder lists a thing. *)
LEMMA StoppedFormat ==
  ASSUME DriverInv, \A c \in Clusters : disk[c] = Zero, DriverInv', Crash(FormatSteps)
  PROVE  Listed(disk') = {}
<1> DEFINE steps == FormatSteps
           N     == 3
           root  == init_directory_table("root", 2)
<1>1. /\ steps = <<Write(0, Signature), Write(1, Fat(FormattedMap)),
                   Write(2, Directory(root))>>
  BY DEF FormatSteps, BOOT_SECTOR, FAT_CLUSTER_NUMBER, ROOT_CLUSTER_NUMBER
<1>2. /\ DOMAIN steps = 1 .. N
      /\ steps[1].cluster = 0 /\ steps[1].block = Signature
      /\ steps[2].cluster = 1 /\ steps[2].block = Fat(FormattedMap)
      /\ steps[3].cluster = 2 /\ steps[3].block = Directory(root)
  BY <1>1, WriteFields
<1>3. AllAllowed(steps, disk) /\ DOMAIN disk = Clusters /\ Crash(steps)
  BY FormatIsAllowed DEF DriverInv, DiskInv
<1> HIDE DEF steps
<1>4. N \in Nat /\ \A a \in 1 .. N : a = 1 \/ a = 2 \/ a = 3
  OBVIOUS
<1>5. 1 \in 1 .. N /\ 2 \in 1 .. N /\ 3 \in 1 .. N
  OBVIOUS
<1> HIDE DEF N
<1>6. \A a, b \in 1 .. N : steps[a].cluster = steps[b].cluster => steps[a].block = steps[b].block
  BY <1>2, <1>4
<1>7. /\ \A a \in 1 .. N :
           Partly(disk[steps[a].cluster], steps[a].block, disk'[steps[a].cluster])
      /\ \A c \in Clusters : (\A a \in 1 .. N : steps[a].cluster # c) => disk'[c] = disk[c]
  BY <1>2, <1>3, <1>4, <1>6, StopIsPartly
<1>8. \A m \in Indices : TableIn(Zero)[m] = UnusedEntry
  BY Kinds DEF TableIn
<1>9. ASSUME NEW a \in 1 .. N, NEW m \in Indices \ {0, 1}
      PROVE  ~TableIn(steps[a].block)[m].used
  <2>1. ~TableIn(Signature)[m].used /\ ~TableIn(Fat(FormattedMap))[m].used
    BY UnusedTyped, Kinds DEF TableIn
  <2>2. ~TableIn(Directory(root))[m].used
    <3>1. root[m] = UnusedEntry
      BY DEF init_directory_table
    <3>2. \A y : TableIn(Directory(y)) = y
      BY Kinds DEF TableIn
    <3>3. TableIn(Directory(root)) = root
      BY <3>2
    <3> HIDE DEF root
    <3>4. QED
      BY <3>1, <3>3, UnusedTyped
  <2>3. QED
    BY <1>2, <1>4, <2>1, <2>2
<1>10. ASSUME NEW c \in Clusters, NEW m \in Indices \ {0, 1}
       PROVE  ~TableIn(disk'[c])[m].used
  <2>1. CASE \E a \in 1 .. N : steps[a].cluster = c
    <3>1. PICK a \in 1 .. N : steps[a].cluster = c
      BY <2>1
    <3>2. Partly(Zero, steps[a].block, disk'[c])
      BY <1>7, <3>1
    <3>3. TableIn(disk'[c])[m] \in {TableIn(Zero)[m], TableIn(steps[a].block)[m]}
      BY <3>2 DEF Partly
    <3>4. QED
      BY <1>8, <1>9, <3>3, UnusedTyped
  <2>2. CASE \A a \in 1 .. N : steps[a].cluster # c
    BY <1>7, <1>8, <2>2, UnusedTyped
  <2>3. QED
    BY <2>1, <2>2
<1>11. QED
  BY <1>10 DEF Listed, Folders

LEMMA FirstStop ==
  ASSUME DriverInv, WholeInv, StoreIsListed, DriverInv', StoreIsRead', [Next]_vars,
         crashes = 0, crashes' # crashes
  PROVE  Cardinality(ChangedEntries(StoreOnDisk, StoreOnDisk')) <= 1
<1>1. StoreOnDisk = IF disk[0] = Signature THEN StoreIn(disk) ELSE {}
  BY DEF StoreIsListed
<1>2. ReadThrough(disk', FolderClusters', StoreOnDisk')
  BY DEF StoreIsRead
<1>3. power = "on" => disk[0] = Signature /\ TreeInv(disk)
  BY DEF WholeInv
<1>4. ASSUME NEW n, NEW S, Scratches(disk, disk', n, S), power = "on"
      PROVE  Cardinality(ChangedEntries(StoreOnDisk, StoreOnDisk')) <= 1
  <2> DEFINE F     == FolderClusters'
             store == StoreOnDisk'
             e     == disk'
  <2>1. StoreOnDisk = StoreIn(disk)
    BY <1>1, <1>3, <1>4
  <2>2. e[0] = Signature /\ TableIn(e[2])[0].folder
    BY <1>3, <1>4, RootStays
  <2>3. ReadThrough(e, F, store) /\ Scratches(disk, e, n, S)
    BY <1>2, <1>4
  <2> HIDE DEF F, store, e
  <2>4. F \in SUBSET Clusters /\ 2 \in F /\ Closed(e, F)
    BY <2>2, <2>3 DEF ReadThrough
  <2>5. Cardinality(ChangedEntries(StoreIn(disk), store)) <= 1
    BY <2>3, <2>4, OneEntryHurt
  <2>6. QED
    BY <2>1, <2>5 DEF store
<1>5. CASE CrashInFormat
  <2>1. \A c \in Clusters : disk[c] = Zero
    BY <1>5 DEF CrashInFormat, is_empty_storage, BOOT_SECTOR, WholeInv
  <2>2. Listed(disk') = {}
    BY <1>5, <2>1, StoppedFormat DEF CrashInFormat
  <2>3. StoreOnDisk' = {}
    BY <1>2, <2>2 DEF ReadThrough
  <2>4. StoreOnDisk = {}
    BY <1>1, <1>5 DEF CrashInFormat, is_empty_storage, BOOT_SECTOR
  <2>5. ChangedEntries(StoreOnDisk, StoreOnDisk') = {}
    BY <2>3, <2>4 DEF ChangedEntries
  <2>6. QED
    BY <2>5, FS_EmptySet
<1>6. ASSUME NEW r \in Requests, CrashInWrite(r)
      PROVE  Cardinality(ChangedEntries(StoreOnDisk, StoreOnDisk')) <= 1
  <2>1. r \in AnyRequest
    BY Fat32Assumption DEF Requests, AnyRequest, FileNames
  <2>2. power = "on" /\ write_code(r) = 0 /\ Crash(WriteSteps(r))
    BY <1>6 DEF CrashInWrite
  <2>3. Scratches(disk, disk', <<r.parent, First(FreeEntries(Table(r.parent)))>>,
                  NewOnes(ClustersNeeded(r), EmptyClusters(r)))
    BY <1>3, <2>1, <2>2, StoppedWrite
  <2>4. QED
    BY <1>4, <2>2, <2>3
<1>7. ASSUME NEW r \in Targets, CrashInDelete(r)
      PROVE  Cardinality(ChangedEntries(StoreOnDisk, StoreOnDisk')) <= 1
  <2>1. r.parent \in Clusters
    BY DEF Targets
  <2>2. power = "on" /\ delete_code(r) = 0 /\ Crash(DeleteSteps(r))
    BY <1>7 DEF CrashInDelete
  <2>3. Scratches(disk, disk', DeletedPlace(r), Owned(disk, DeletedPlace(r)))
    BY <1>3, <2>1, <2>2, StoppedDelete
  <2>4. QED
    BY <1>4, <2>2, <2>3
<1>8. ~(UNCHANGED vars) /\ ~initialize_filesystem_fat32 /\ ~PowerOff
      /\ (\A r : ~write(r) /\ ~delete(r) /\ ~DeleteLost(r))
  BY DEF vars, initialize_filesystem_fat32, PowerOff, write, delete, DeleteLost
<1>9. QED
  BY <1>5, <1>6, <1>7, <1>8 DEF Next

(* The machine stops inside a request once.                                *)
OneCrash == CrashBound <= 1

(* fat32.c, write and delete: the machine stops anywhere in one of them,   *)
(* between two clusters or inside one.  Whatever was written before, every *)
(* entry but the one that was being made or taken away is still found from *)
(* the root, in its place and with its content.                            *)
THEOREM FirstCrashIsLocal ==
  ASSUME OneCrash
  PROVE  Spec => CrashHurtsOneEntry
<1> DEFINE Local == crashes' # crashes =>
                      Cardinality(ChangedEntries(StoreOnDisk, StoreOnDisk')) <= 1
<1>1. DriverInv /\ WholeInv => StoreIsListed
  BY StoreAsListed
<1>2. DriverInv => StoreIsRead
  BY DiskIsRead
<1>3. ASSUME DriverInv, WholeInv, StoreIsListed, DriverInv', StoreIsRead', [Next]_vars
      PROVE  [Local]_vars
  <2>1. SUFFICES ASSUME crashes' # crashes
                 PROVE  Cardinality(ChangedEntries(StoreOnDisk, StoreOnDisk')) <= 1
    BY DEF Local
  <2>2. crashes < CrashBound
    <3>1. \/ CrashInFormat \/ (\E r \in Requests : CrashInWrite(r))
          \/ (\E r \in Targets : CrashInDelete(r))
      BY <1>3, <2>1 DEF Next, vars, initialize_filesystem_fat32, PowerOff, write, delete, DeleteLost
    <3>2. QED
      BY <3>1 DEF CrashInFormat, CrashInWrite, CrashInDelete, Crash
  <2>3. crashes = 0
    <3>1. CrashBound \in Nat
      BY Fat32Assumption, Zenon
    <3>2. crashes \in 0 .. CrashBound
      BY <1>3 DEF DriverInv
    <3>3. QED
      BY <2>2, <3>1, <3>2 DEF OneCrash
  <2>4. QED
    BY <1>3, <2>1, <2>3, FirstStop
<1>4. QED
  BY <1>1, <1>2, <1>3, TreeStaysWhole, PTL DEF Spec, CrashHurtsOneEntry
=============================================================================
