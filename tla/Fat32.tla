------------------------------- MODULE Fat32 -------------------------------
(***************************************************************************)
(* The file system driver of code/filesystem/fat32.c over the disk: the    *)
(* file allocation table, cached in memory and written through, directory  *)
(* tables of one cluster each, and the four requests write, delete, read   *)
(* and read_directory.  System calls run with interrupts off, so a request *)
(* is one step, unless the machine stops between two of its cluster        *)
(* writes or inside one: then the disk keeps what was written and memory   *)
(* is lost.                                                                *)
(*                                                                         *)
(* A file's size is counted in clusters.  dir_table_buf is loaded anew by  *)
(* each request before it is read, so it is a local value here.            *)
(***************************************************************************)
EXTENDS Integers, FiniteSets, Sequences

CONSTANTS
  CLUSTER_MAP_SIZE,       \* clusters of the disk
  TOTAL_DIRECTORY_ENTRY,  \* entries of a directory table
  Names, Extensions,      \* what a request can name
  Paddings,               \* whether its name is padded with zeros, see below
  Texts,                  \* what a file can contain
  MaxClusters,            \* bound: the longest file
  CrashBound              \* bound: how often the machine stops in a request

BOOT_SECTOR         == 0
FAT_CLUSTER_NUMBER  == 1
ROOT_CLUSTER_NUMBER == 2

ASSUME Fat32Assumption ==
  /\ CLUSTER_MAP_SIZE \in Nat /\ CLUSTER_MAP_SIZE > ROOT_CLUSTER_NUMBER
  /\ TOTAL_DIRECTORY_ENTRY \in Nat /\ TOTAL_DIRECTORY_ENTRY >= 2
  /\ "" \in Extensions /\ ".." \notin Names
  /\ Paddings \subseteq BOOLEAN
  /\ MaxClusters \in Nat \ {0} /\ CrashBound \in Nat

VARIABLES
  disk,       \* disk[c]: what cluster c of the disk holds
  fat_table,  \* fat32_driver_state.fat_table.cluster_map
  power,      \* the machine is off, on, or stuck in a system call
  crashes     \* how often it stopped inside a request

vars == <<disk, fat_table, power, crashes>>

Clusters == 0 .. CLUSTER_MAP_SIZE - 1
Indices  == 0 .. TOTAL_DIRECTORY_ENTRY - 1

(* Values of a cluster_map entry that are not the number of a next cluster. *)
FAT32_FAT_EMPTY_ENTRY == 0
FAT32_FAT_END_OF_FILE == CLUSTER_MAP_SIZE
CLUSTER_0_VALUE       == CLUSTER_MAP_SIZE + 1
CLUSTER_1_VALUE       == FAT32_FAT_END_OF_FILE
Links == 0 .. CLUSTER_MAP_SIZE + 1

---------------------------------------------------------------------------
(* What clusters hold                                                      *)

DirectoryEntries ==
  [used : BOOLEAN, name : Names \cup {"", "root", ".."}, ext : Extensions,
   folder : BOOLEAN, cluster : Clusters, size : 0 .. MaxClusters]
UnusedEntry == [used |-> FALSE, name |-> "", ext |-> "", folder |-> FALSE,
                cluster |-> 0, size |-> 0]
FolderEntry(name, cluster) ==
  [UnusedEntry EXCEPT !.used = TRUE, !.name = name, !.folder = TRUE,
                      !.cluster = cluster]

(* Both reserved entries hold the parent's cluster.                        *)
ParentOnlyInDots(name, parent_dir_cluster) ==
  [i \in Indices |-> CASE i = 0 -> FolderEntry(name, 0)
                       [] i = 1 -> FolderEntry("..", parent_dir_cluster)
                       [] OTHER -> UnusedEntry]
init_directory_table(name, parent_dir_cluster) ==
  [i \in Indices |-> CASE i = 0 -> FolderEntry(name, parent_dir_cluster)
                       [] i = 1 -> FolderEntry("..", parent_dir_cluster)
                       [] OTHER -> UnusedEntry]

Zero         == [kind |-> "zero"]
Signature    == [kind |-> "boot"]
Fat(map)     == [kind |-> "fat", map |-> map]
Directory(t) == [kind |-> "directory", table |-> t]
Data(text, part) == [kind |-> "data", text |-> text, part |-> part]

Blocks == {Zero, Signature}
     \cup {Data(text, part) : text \in Texts, part \in 1 .. MaxClusters}
     \cup [kind : {"fat"}, map : [Clusters -> Links]]
     \cup [kind : {"directory"}, table : [Indices -> DirectoryEntries]]

(* A cluster read as an allocation table, or as a directory table: zeros   *)
(* are empty entries, and so is text, which never holds UATTR_NOT_EMPTY.   *)
EmptyMap == [c \in Clusters |-> FAT32_FAT_EMPTY_ENTRY]
MapIn(block) == IF block.kind = "fat" THEN block.map ELSE EmptyMap
TableIn(block) == IF block.kind = "directory" THEN block.table
                                              ELSE [i \in Indices |-> UnusedEntry]

(* The disk after a sequence of write_clusters calls.                      *)
write_clusters(writes, d) ==
  [c \in Clusters |->
     LET at == {i \in DOMAIN writes : writes[i].cluster = c}
     IN IF at = {} THEN d[c]
        ELSE writes[CHOOSE i \in at : \A j \in at : j <= i].block]
Write(cluster, block) == [cluster |-> cluster, block |-> block]

(* The clusters visited from cluster on: at[n] after n links.  A link out  *)
(* of the table ends the walk; it is a proper end only at END_OF_FILE.     *)
Walk(map, cluster) ==
  LET at[n \in 0 .. CLUSTER_MAP_SIZE] ==
        IF n = 0 THEN cluster
        ELSE LET c == at[n-1] IN IF c \in Clusters THEN map[c] ELSE c
  IN at
EndsProperly(map, cluster) ==
  Walk(map, cluster)[CLUSTER_MAP_SIZE] = FAT32_FAT_END_OF_FILE
Chain(map, cluster) ==
  LET at == Walk(map, cluster)
  IN [i \in 1 .. Cardinality({n \in DOMAIN at : at[n] \in Clusters}) |-> at[i-1]]
ClustersOf(map, cluster) ==
  {Chain(map, cluster)[i] : i \in DOMAIN Chain(map, cluster)}

---------------------------------------------------------------------------
(* Requests and their return codes                                         *)

(* A parent is any cluster number: the shell keeps the one of its current  *)
(* directory while folders are deleted and their clusters reused.  rm, cp, *)
(* mv and write copy a name out of an uninitialised char name[8]: what     *)
(* follows its final zero may be anything, and such a request is not       *)
(* padded.                                                                 *)
Targets  == [name : Names, padded : Paddings, ext : Extensions, parent : Clusters]
Requests == [name : Names, padded : Paddings, ext : Extensions, parent : Clusters,
             size : 0 .. MaxClusters, text : Texts]

IsFolder(r) == r.size = 0 /\ r.ext = ""

(* get_dir_table_from_cluster: the cluster ends a chain, and its block has *)
(* the attribute of a folder in entry 0.                                   *)
IsEndOfChain(cluster) == fat_table[cluster] = FAT32_FAT_END_OF_FILE
IsFolderTable(cluster) ==
  /\ fat_table[cluster] = FAT32_FAT_END_OF_FILE
  /\ TableIn(disk[cluster])[0].folder
Table(cluster) == TableIn(disk[cluster])

(* memcmp over all eight bytes, where entries on disk are always padded;   *)
(* strcmp, which only read uses, stops at the zero.                        *)
SameBytes(e, r) == e.name = r.name /\ r.padded
SameText(e, r)  == e.name = r.name

(* write compares folders by name only; no search but that of the readers  *)
(* looks at the reserved entries 0 and 1.                                  *)
TakenFromThree(r) ==
  \E i \in Indices \ {0, 1, 2} : LET e == Table(r.parent)[i] IN
    e.used /\ SameBytes(e, r) /\ (IsFolder(r) \/ e.ext = r.ext)
Taken(r) ==
  \E i \in Indices \ {0, 1} : LET e == Table(r.parent)[i] IN
    e.used /\ SameBytes(e, r) /\ (IsFolder(r) \/ e.ext = r.ext)
FreeEntries(t) == {i \in Indices : ~t[i].used}
NotLastClusters == {c \in Clusters : fat_table[c] # FAT32_FAT_END_OF_FILE}
FreeClusters == {c \in Clusters : fat_table[c] = FAT32_FAT_EMPTY_ENTRY}
ClustersNeeded(r) == IF r.size = 0 THEN 1 ELSE r.size

write_code(r) ==
  IF ~IsFolderTable(r.parent) THEN 2
  ELSE IF Taken(r) THEN 1
  ELSE IF \/ FreeEntries(Table(r.parent)) = {}
          \/ Cardinality(FreeClusters) < ClustersNeeded(r)
       THEN -1
  ELSE 0

Matches(e, r) == e.used /\ SameBytes(e, r) /\ e.ext = r.ext
First(S) == CHOOSE i \in S : \A j \in S : i <= j

Deletable(r) == {i \in Indices \ {0, 1} : Matches(Table(r.parent)[i], r)}

(* A folder whose cluster is not the end of a chain is not loaded, and the *)
(* loop then inspects the parent's table, which lists that folder.         *)
HasEntriesFromThree(folder, parent) ==
  /\ fat_table[folder] = FAT32_FAT_END_OF_FILE
  /\ \E i \in Indices \ {0, 1, 2} : Table(folder)[i].used
HasEntries(folder, parent) ==
  LET t == IF fat_table[folder] = FAT32_FAT_END_OF_FILE
           THEN Table(folder) ELSE Table(parent)
  IN \E i \in Indices \ {0, 1} : t[i].used

delete_code(r) ==
  IF ~IsFolderTable(r.parent) THEN -1
  ELSE IF Deletable(r) = {} THEN 1
  ELSE LET e == Table(r.parent)[First(Deletable(r))]
       IN IF e.folder /\ HasEntries(e.cluster, r.parent) THEN 2 ELSE 0

(* The readers search from entry 0, the folder's own name.                 *)
Readable(r) ==
  {i \in Indices : LET e == Table(r.parent)[i] IN
                     e.used /\ SameText(e, r) /\ e.ext = r.ext}
ReadableFolders(r) == {i \in Indices : Matches(Table(r.parent)[i], r)}

read_code(r) ==
  IF ~IsFolderTable(r.parent) THEN -1
  ELSE IF Readable(r) = {} THEN 2
  ELSE LET e == Table(r.parent)[First(Readable(r))]
       IN IF e.folder THEN 1 ELSE IF r.size < e.size THEN -1 ELSE 0

(* What read leaves in the request's buffer.                               *)
Content(map, cluster) ==
  LET chain == Chain(map, cluster) IN [i \in DOMAIN chain |-> disk[chain[i]]]
read_buffer(r) ==
  Content(fat_table, Table(r.parent)[First(Readable(r))].cluster)

read_directory_code(r) ==
  IF ~IsFolderTable(r.parent) THEN -1
  ELSE IF ReadableFolders(r) = {} THEN 2
  ELSE IF Table(r.parent)[First(ReadableFolders(r))].folder THEN 0 ELSE 1
read_directory_buffer(r) ==
  disk[Table(r.parent)[First(ReadableFolders(r))].cluster]

---------------------------------------------------------------------------
(* The cluster writes of each request, in their order                      *)

(* The free clusters from the lowest on.                                   *)
EmptyClusters(r) ==
  [i \in 1 .. ClustersNeeded(r) |->
     CHOOSE c \in FreeClusters : Cardinality({d \in FreeClusters : d < c}) = i - 1]

(* A folder's entry leaves the ext field as it was.                        *)
EntryFor(r, old) ==
  [used |-> TRUE, name |-> r.name,
   ext |-> IF IsFolder(r) THEN old.ext ELSE r.ext,
   folder |-> IsFolder(r), cluster |-> EmptyClusters(r)[1],
   size |-> ClustersNeeded(r)]

TableAfterWrite(r) ==
  LET t == Table(r.parent)
      i == First(FreeEntries(t))
  IN [t EXCEPT ![i] = EntryFor(r, t[i])]

FatAfterWrite(r) ==
  LET new == EmptyClusters(r) IN
  [c \in Clusters |->
     IF \E i \in DOMAIN new : new[i] = c
     THEN LET i == CHOOSE i \in DOMAIN new : new[i] = c
          IN IF i = Len(new) THEN FAT32_FAT_END_OF_FILE ELSE new[i + 1]
     ELSE fat_table[c]]

WriteSteps(r) ==
  LET new == EmptyClusters(r) IN
  <<Write(r.parent, Directory(TableAfterWrite(r)))>>
  \o [i \in DOMAIN new |->
        Write(new[i], IF IsFolder(r)
                      THEN Directory(init_directory_table(r.name, r.parent))
                      ELSE Data(r.text, i))]
  \o <<Write(FAT_CLUSTER_NUMBER, Fat(FatAfterWrite(r)))>>

DeletedEntry(r) == Table(r.parent)[First(Deletable(r))]

(* name and ext are cleared; what else the entry holds is overwritten      *)
(* before it is read again.                                                *)
ClearedButExt(e) == [UnusedEntry EXCEPT !.ext = e.ext]
Cleared(e) == UnusedEntry

TableAfterDelete(r) ==
  [Table(r.parent) EXCEPT ![First(Deletable(r))] = Cleared(@)]

FatWithoutFirst(r) ==
  [fat_table EXCEPT ![DeletedEntry(r).cluster] = FAT32_FAT_EMPTY_ENTRY]
FatAfterDelete(r) ==
  [c \in Clusters |-> IF c \in ClustersOf(fat_table, DeletedEntry(r).cluster)
                      THEN FAT32_FAT_EMPTY_ENTRY ELSE fat_table[c]]

ZeroSteps(r) ==
  LET chain == Chain(fat_table, DeletedEntry(r).cluster)
  IN [i \in DOMAIN chain |-> Write(chain[i], Zero)]

DeleteSteps(r) ==
  ZeroSteps(r) \o <<Write(FAT_CLUSTER_NUMBER, Fat(FatAfterDelete(r))),
                    Write(r.parent, Directory(TableAfterDelete(r)))>>

(* create_fat32                                                            *)
FormattedMap == [EmptyMap EXCEPT ![0] = CLUSTER_0_VALUE, ![1] = CLUSTER_1_VALUE,
                                 ![2] = FAT32_FAT_END_OF_FILE]
FormatSteps ==
  <<Write(BOOT_SECTOR, Signature),
    Write(FAT_CLUSTER_NUMBER, Fat(FormattedMap)),
    Write(ROOT_CLUSTER_NUMBER,
          Directory(init_directory_table("root", ROOT_CLUSTER_NUMBER)))>>

---------------------------------------------------------------------------
(* The machine                                                             *)

(* An image of zeros, and the machine off.                                 *)
Init ==
  /\ disk = [c \in Clusters |-> Zero]
  /\ fat_table = EmptyMap
  /\ power = "off"
  /\ crashes = 0

is_empty_storage == disk[BOOT_SECTOR] # Signature

(* The cache is read from disk after the format.                           *)
initialize_filesystem_fat32 ==
  /\ power = "off"
  /\ disk' = IF is_empty_storage THEN write_clusters(FormatSteps, disk) ELSE disk
  /\ fat_table' = MapIn(disk'[FAT_CLUSTER_NUMBER])
  /\ power' = "on"
  /\ UNCHANGED crashes

write(r) ==
  /\ power = "on"
  /\ write_code(r) = 0
  /\ disk' = write_clusters(WriteSteps(r), disk)
  /\ fat_table' = FatAfterWrite(r)
  /\ UNCHANGED <<power, crashes>>

delete(r) ==
  /\ power = "on"
  /\ delete_code(r) = 0
  /\ EndsProperly(fat_table, DeletedEntry(r).cluster)
  /\ disk' = write_clusters(DeleteSteps(r), disk)
  /\ fat_table' = FatAfterDelete(r)
  /\ UNCHANGED <<power, crashes>>

(* A chain that leads to a free cluster goes on at cluster 0, whose entry  *)
(* CLUSTER_0_VALUE is used as an index far outside of the table: the loop  *)
(* has zeroed the boot sector and does not come back.                      *)
DeleteLost(r) ==
  /\ power = "on"
  /\ delete_code(r) = 0
  /\ ~EndsProperly(fat_table, DeletedEntry(r).cluster)
  /\ disk' = write_clusters(ZeroSteps(r), disk)
  /\ fat_table' = EmptyMap
  /\ power' = "lost"
  /\ UNCHANGED crashes

(* Switched off or reset; memory is lost.                                  *)
PowerOff ==
  /\ power # "off"
  /\ power' = "off"
  /\ fat_table' = EmptyMap
  /\ UNCHANGED <<disk, crashes>>

(* A cluster is written as four sectors, one after the other: what a stop  *)
(* among them leaves of a new block over an old one.  The signature is one *)
(* sector, the entries a table starts with are in the first, and no entry  *)
(* lies across two.  A torn text counts as the one or the other.           *)
TornBefore(old, new, cut) ==
  IF new.kind = "fat"
  THEN Fat([c \in Clusters |-> IF c < cut THEN new.map[c] ELSE MapIn(old)[c]])
  ELSE Directory([i \in Indices |-> IF i < cut THEN TableIn(new)[i] ELSE TableIn(old)[i]])
Torn(old, new) ==
  CASE new.kind = "fat" ->
         {TornBefore(old, new, cut) : cut \in ROOT_CLUSTER_NUMBER + 1 .. CLUSTER_MAP_SIZE - 1}
    [] new.kind = "directory" \/ (new = Zero /\ old.kind = "directory") ->
         {TornBefore(old, new, cut) : cut \in 2 .. TOTAL_DIRECTORY_ENTRY - 1}
    [] OTHER -> {}

(* The machine stops after some but not all of the writes, or of their     *)
(* sectors.                                                                *)
Crash(steps) ==
  /\ crashes < CrashBound
  /\ \E k \in 0 .. Len(steps) - 1 :
       LET before == write_clusters(SubSeq(steps, 1, k), disk)
           next   == steps[k + 1]
       IN disk' \in {[before EXCEPT ![next.cluster] = b] :
                       b \in Torn(before[next.cluster], next.block)}
                    \cup IF k = 0 THEN {} ELSE {before}
  /\ power' = "off"
  /\ fat_table' = EmptyMap
  /\ crashes' = crashes + 1

CrashInFormat == power = "off" /\ is_empty_storage /\ Crash(FormatSteps)
CrashInWrite(r) == power = "on" /\ write_code(r) = 0 /\ Crash(WriteSteps(r))
CrashInDelete(r) ==
  /\ power = "on"
  /\ delete_code(r) = 0
  /\ EndsProperly(fat_table, DeletedEntry(r).cluster)
  /\ Crash(DeleteSteps(r))

Next ==
  \/ initialize_filesystem_fat32
  \/ \E r \in Requests : write(r)
  \/ \E r \in Targets : delete(r)
  \/ \E r \in Targets : DeleteLost(r)
  \/ PowerOff
  \/ CrashInFormat
  \/ \E r \in Requests : CrashInWrite(r)
  \/ \E r \in Targets : CrashInDelete(r)

Spec == Init /\ [][Next]_vars

---------------------------------------------------------------------------
(* The tree on the disk                                                    *)

Formatted == disk[BOOT_SECTOR] = Signature
FatOnDisk == MapIn(disk[FAT_CLUSTER_NUMBER])

ListedIn(cluster) ==
  {e \in {Table(cluster)[i] : i \in Indices \ {0, 1}} : e.used}

FolderClusters ==
  LET upTo[depth \in 0 .. CLUSTER_MAP_SIZE] ==
        IF depth = 0 THEN {c \in {ROOT_CLUSTER_NUMBER} : Table(c)[0].folder}
        ELSE LET above == upTo[depth-1]
             IN above \cup {e.cluster : e \in {x \in UNION {ListedIn(c) : c \in above} :
                                               x.folder}}
  IN IF Formatted THEN upTo[CLUSTER_MAP_SIZE] ELSE {}

(* Every place of the tree that lists an entry.                            *)
Places ==
  {p \in FolderClusters \X (Indices \ {0, 1}) : Table(p[1])[p[2]].used}
EntryAt(p) == Table(p[1])[p[2]]

FolderContent == << >>     \* a file has at least one cluster
StoreOnDisk ==
  {LET e == EntryAt(p)
   IN [folder |-> p[1], name |-> e.name, ext |-> e.ext, handle |-> e.cluster,
       content |-> IF e.folder THEN FolderContent
                   ELSE Content(FatOnDisk, e.cluster)] : p \in Places}

FileContents ==
  {[part \in 1 .. n |-> Data(text, part)] : text \in Texts, n \in 1 .. MaxClusters}

Files == INSTANCE FileStore WITH
  Handles <- Clusters, Root <- ROOT_CLUSTER_NUMBER, Contents <- FileContents,
  Folder <- FolderContent, store <- StoreOnDisk

---------------------------------------------------------------------------
(* Properties                                                              *)

(* Types of the disk, the cached table and the machine.                    *)
TypeOK ==
  /\ \A c \in Clusters : LET b == disk[c] IN
       CASE b.kind = "fat"       -> b.map \in [Clusters -> Links]
         [] b.kind = "directory" -> b.table \in [Indices -> DirectoryEntries]
         [] OTHER -> b \in {Zero, Signature} \cup
                      {Data(t, n) : t \in Texts, n \in 1 .. MaxClusters}
  /\ DOMAIN disk = Clusters
  /\ fat_table \in [Clusters -> Links]
  /\ power \in {"off", "on", "lost"}
  /\ crashes \in 0 .. CrashBound

(* write takes clusters and delete gives them back one link at a time: at  *)
(* rest every cluster in use belongs to exactly one entry of the tree, no  *)
(* free cluster belongs to any, every chain has the entry's length, and    *)
(* the table on the disk says the same as the cached one, in which write   *)
(* and delete make their changes first.                                    *)
EveryClusterHasOneOwner ==
  power = "on" /\ crashes = 0 =>
    LET places == Places IN
    /\ fat_table = FatOnDisk
    /\ \A c \in Clusters \ {BOOT_SECTOR, FAT_CLUSTER_NUMBER, ROOT_CLUSTER_NUMBER} :
         Cardinality({p \in places : c \in ClustersOf(fat_table, EntryAt(p).cluster)})
           = IF fat_table[c] = FAT32_FAT_EMPTY_ENTRY THEN 0 ELSE 1
    /\ \A p \in places : LET e == EntryAt(p) IN
         /\ EndsProperly(fat_table, e.cluster)
         /\ Len(Chain(fat_table, e.cluster)) = e.size

(* Following ".." leads back to the folder that lists a folder, whatever   *)
(* was deleted and created in between, and the path ends at the root; and  *)
(* no folder took over the extension of a deleted file, with which no      *)
(* request for a folder would find it.                                     *)
TreeIsRooted ==
  power = "on" /\ crashes = 0 =>
    LET places == Places IN
    /\ IsFolderTable(ROOT_CLUSTER_NUMBER)
    /\ \A c \in FolderClusters :
         /\ Table(c)[1].name = ".."
         /\ IF c = ROOT_CLUSTER_NUMBER THEN Table(c)[1].cluster = c
            ELSE {p[1] : p \in {q \in places : EntryAt(q).cluster = c}}
                   = {Table(c)[1].cluster}
    /\ \A p \in places : EntryAt(p).folder => EntryAt(p).ext = ""

(* The readers search a table from entry 0 on, write and delete from entry *)
(* 2: unless the entry has the name of the folder it is in, read returns   *)
(* what the named file was written with, and read_directory a table that   *)
(* bears the folder's name and leads back.                                 *)
RequestFor(e) ==
  [name |-> e.name, padded |-> TRUE, ext |-> e.ext, parent |-> e.folder,
   size |-> Len(e.content)]
ReadGivesTheStoredData ==
  power = "on" =>
    \A e \in StoreOnDisk : LET r == RequestFor(e) IN
      ~Matches(Table(r.parent)[0], r) =>
        IF e.content = FolderContent
        THEN /\ read_directory_code(r) = 0
             /\ \E b \in {read_directory_buffer(r)} :
                  /\ b.kind = "directory"
                  /\ b.table[0].name = e.name /\ b.table[1].cluster = e.folder
        ELSE read_code(r) = 0 /\ read_buffer(r) = e.content

(* Restarts included, the tree only ever changes by one whole entry.       *)
StoreIsKept == Files!Spec

(* A stop in the middle of write or delete changes at most the entry that  *)
(* was being written or deleted: all others keep place and content.        *)
ChangedEntries(before, after) ==
  {<<e.folder, e.name, e.ext>> : e \in (before \ after) \cup (after \ before)}
CrashHurtsOneEntry ==
  [][crashes' # crashes =>
       Cardinality(ChangedEntries(StoreOnDisk, StoreOnDisk')) <= 1]_vars

(* create_fat32 writes the signature first: a disk on which it stopped     *)
(* half-way passes for formatted at every later start, and since there is  *)
(* no folder to name as a parent, no request ever writes to it again.      *)
HalfFormattedIsForGood ==
  [][power = "on" /\ Table(ROOT_CLUSTER_NUMBER)[0] = UnusedEntry
       => disk' = disk]_vars
=============================================================================
