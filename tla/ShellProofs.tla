---------------------------- MODULE ShellProofs ----------------------------
(***************************************************************************)
(* The shell over the driver, for every disk, every name and every path:   *)
(* what it asks for, and what becomes of the files meanwhile.              *)
(*                                                                         *)
(* First the types, with what a command can begin with (CommandBegins) and *)
(* that every step of the shell is one the driver is proved about          *)
(* (ShellMoves): the tree stays whole below it.  Then the calls a command  *)
(* has left (PendingInv), from which follows that rename takes one name.   *)
(* Then mv, whose copy is there before the original goes, and write, which *)
(* finds again the room it made.  Last the prompt: it climbs to the root   *)
(* from every folder, and what ls prints is up to date.                    *)
(***************************************************************************)
EXTENDS StoreProofs, ShellFiles

-----------------------------------------------------------------------------
(* Types.                                                                  *)

Calls == [op : {"WRITE", "DELETE", "READ_DIRECTORY", "CHANGE_DIR"},
          req : AnyRequest, after : SUBSET Codes]

ShellInv ==
  /\ DriverInv
  /\ mode \in {"off", "inserting", "busy", "ready", "astray", "stuck"}
  /\ cwd \in Clusters
  /\ curr_dir \in Tables
  /\ todo \in Seq(Calls)
  /\ Len(todo) <= Len(StartupFiles) + 3

Reached == Clusters \cup {Invalid}

LEMMA EntryIsTyped ==
  ASSUME DriverInv, NEW c \in Clusters, NEW S, S \subseteq Indices, S # {}
  PROVE  First(S) \in S /\ Table(c)[First(S)] \in DirectoryEntries
<1>1. S \subseteq Int
  <2>1. Indices \subseteq Int
    BY ClusterBasics
  <2>2. QED
    BY <2>1
<1>2. IsFiniteSet(S)
  BY ClusterBasics, FS_Subset
<1>3. First(S) \in S
  BY <1>1, <1>2, FirstOf
<1>4. QED
  BY <1>3, TypesOfDriver DEF Tables

LEMMA EnterFolderTyped ==
  ASSUME DriverInv, NEW c \in Clusters, NEW name
  PROVE  EnterFolder(c, name) \in Reached
<1> DEFINE found == EntriesNamed(Table(c), name)
<1>1. found \subseteq Indices
  BY DEF EntriesNamed
<1>2. found # {} => Table(c)[First(found)].cluster \in Clusters
  <2> HIDE DEF found
  <2> QED
    BY <1>1, EntryIsTyped DEF DirectoryEntries
<1>3. QED
  BY <1>2 DEF EnterFolder, Reached

LEMMA VisitedUnfolds ==
  ASSUME DriverInv, cwd \in Clusters, NEW path, Len(path) \in Nat
  PROVE  /\ Visited(path) \in [0 .. Len(path) -> Reached]
         /\ Visited(path)[0] = cwd
         /\ \A n \in 1 .. Len(path) :
              Visited(path)[n] = IF Visited(path)[n - 1] = Invalid THEN Invalid
                                 ELSE EnterFolder(Visited(path)[n - 1], path[n])
<1> DEFINE N == Len(path)
           F == [n \in Nat |-> [c \in Reached |->
                   IF c = Invalid THEN Invalid ELSE EnterFolder(c, path[n])]]
           Is(at) == at = [n \in 0 .. N |->
                             IF n = 0 THEN cwd
                             ELSE LET c == at[n - 1]
                                  IN IF c = Invalid THEN Invalid
                                     ELSE EnterFolder(c, path[n])]
<1>1. Invalid \in Reached /\ cwd \in Reached
  BY DEF Reached
<1>2. F \in [Nat -> [Reached -> Reached]]
  <2>1. ASSUME NEW n \in Nat, NEW c \in Reached
        PROVE  (IF c = Invalid THEN Invalid ELSE EnterFolder(c, path[n])) \in Reached
    BY <1>1, EnterFolderTyped DEF Reached
  <2>2. QED
    BY <2>1
<1>3. PICK f : Recursion(f, N, Reached, cwd, F)
  <2> HIDE DEF F, N
  <2>1. N \in Nat
    BY DEF N
  <2>2. QED
    BY <1>1, <1>2, <2>1, RecursionExists
<1>4. Is(f) /\ f \in [0 .. N -> Reached]
  <2>1. ASSUME NEW n \in 1 .. N
        PROVE  f[n] = IF f[n - 1] = Invalid THEN Invalid ELSE EnterFolder(f[n - 1], path[n])
    <3>1. n \in Nat /\ n - 1 \in 0 .. N /\ f[n] = F[n][f[n - 1]]
      <4> HIDE DEF F
      <4> QED
        BY <1>3 DEF Recursion
    <3>2. f[n - 1] \in Reached
      BY <1>3, <3>1 DEF Recursion
    <3>3. QED
      BY <3>1, <3>2
  <2>2. \A n \in 0 .. N : n # 0 => n \in 1 .. N
    OBVIOUS
  <2> HIDE DEF F, N
  <2>3. QED
    BY <1>3, <2>1, <2>2 DEF Recursion
<1>5. Visited(path) = CHOOSE at : Is(at)
  BY DEF Visited
<1>6. Is(Visited(path))
  <2> HIDE DEF Is
  <2> QED
    BY <1>4, <1>5
<1> DEFINE w == Visited(path)
<1>7. w = [n \in 0 .. N |-> IF n = 0 THEN cwd
                            ELSE LET c == w[n - 1]
                                 IN IF c = Invalid THEN Invalid ELSE EnterFolder(c, path[n])]
  BY <1>6
<1> HIDE DEF w
<1>8. /\ w[0] = cwd
      /\ \A n \in 1 .. N :
           w[n] = IF w[n - 1] = Invalid THEN Invalid ELSE EnterFolder(w[n - 1], path[n])
  BY <1>7
<1>9. \A n \in 0 .. N : w[n] \in Reached
  <2> DEFINE S == {n \in 0 .. N : w[n] \in Reached}
  <2>1. 0 \in S
    BY <1>1, <1>8
  <2>2. ASSUME NEW n \in 0 .. N - 1, n \in S
        PROVE  n + 1 \in S
    <3>1. n + 1 \in 1 .. N /\ (n + 1) - 1 = n /\ w[n] \in Reached
      BY <2>2
    <3>2. w[n + 1] = IF w[n] = Invalid THEN Invalid ELSE EnterFolder(w[n], path[n + 1])
      BY <1>8, <3>1
    <3>3. w[n + 1] \in Reached
      BY <1>1, <3>1, <3>2, EnterFolderTyped DEF Reached
    <3>4. QED
      BY <3>1, <3>3
  <2>3. 0 .. N \subseteq S
    <3> HIDE DEF S
    <3> QED
      BY <2>1, <2>2, UpTo
  <2>4. QED
    BY <2>3
<1>10. w \in [0 .. N -> Reached]
  BY <1>7, <1>9
<1>11. QED
  BY <1>8, <1>10 DEF w

LEMMA VisitedTyped ==
  ASSUME DriverInv, cwd \in Clusters, NEW path, Len(path) \in Nat
  PROVE  Visited(path) \in [0 .. Len(path) -> Reached]
BY VisitedUnfolds

LEMMA WalksTyped ==
  ASSUME DriverInv, cwd \in Clusters, curr_dir \in Tables,
         NEW path, Len(path) \in Nat, NEW padded, NEW w \in Walks(path, padded)
  PROVE  w.to \in Reached /\ w.loaded \in Tables
<1> DEFINE at == Visited(path)
           looked == {n \in 0 .. Len(path) - 1 : at[n] # Invalid}
           last == CHOOSE n \in looked : \A k \in looked : k <= n
<1>1. at \in [0 .. Len(path) -> Reached]
  BY VisitedTyped
<1>2. \/ w = [to |-> at[Len(path)],
             loaded |-> IF looked = {} THEN curr_dir ELSE Table(at[last])]
      \/ \E n \in looked : w = [to |-> Invalid, loaded |-> Table(at[n])]
  <2> HIDE DEF at, last
  <2> QED
    BY DEF Walks, at, last
<1> HIDE DEF at
<1>3. ASSUME NEW n \in looked
      PROVE  Table(at[n]) \in Tables
  <2>1. at[n] \in Clusters
    BY <1>1 DEF Reached
  <2>2. QED
    BY <2>1, TypesOfDriver
<1>4. looked # {} => last \in looked
  <2>1. IsFiniteSet(0 .. Len(path) - 1)
    <3>1. 0 \in Int /\ Len(path) - 1 \in Int
      OBVIOUS
    <3>2. QED
      BY <3>1, FS_Interval
  <2>2. looked \subseteq 0 .. Len(path) - 1 /\ looked \subseteq Int
    OBVIOUS
  <2>3. IsFiniteSet(looked)
    BY <2>1, <2>2, FS_Subset
  <2> HIDE DEF looked
  <2>4. QED
    BY <2>2, <2>3, GreatestOf
<1>5. at[Len(path)] \in Reached /\ Invalid \in Reached
  BY <1>1 DEF Reached
<1> HIDE DEF looked, last
<1>6. QED
  BY <1>2, <1>3, <1>4, <1>5

LEMMA LoadedTyped ==
  ASSUME DriverInv, curr_dir \in Tables, NEW r, r.parent \in Clusters
  PROVE  LoadedBy(r) \in Tables
<1>1. CASE read_directory_code(r) = 0
  <2>1. ReadableFolders(r) # {} /\ ReadableFolders(r) \subseteq Indices
    BY <1>1 DEF read_directory_code, ReadableFolders
  <2>2. Table(r.parent)[First(ReadableFolders(r))] \in DirectoryEntries
    BY <2>1, EntryIsTyped
  <2>3. TableIn(read_directory_buffer(r)) \in Tables
    BY <2>2, TypesOfDriver DEF read_directory_buffer, DirectoryEntries
  <2>4. QED
    BY <1>1, <2>3 DEF LoadedBy
<1>2. QED
  BY <1>1 DEF LoadedBy

LEMMA TextReadTyped ==
  ASSUME DriverInv, NEW r, r.parent \in Clusters
  PROVE  TextRead(r) \in Texts
<1> DEFINE c0 == Table(r.parent)[First(Readable(r))].cluster
           chain == Chain(fat_table, c0)
<1>1. Blank \in Texts
  BY ShellAssumption
<1>2. CASE read_code(r) = 0 /\ read_buffer(r)[1].kind = "data"
  <2>1. Readable(r) # {} /\ Readable(r) \subseteq Indices
    BY <1>2 DEF read_code, Readable
  <2>2. c0 \in Clusters
    BY <2>1, EntryIsTyped DEF DirectoryEntries
  <2>3. PICK k \in 1 .. CLUSTER_MAP_SIZE + 1 :
          DOMAIN chain = 1 .. k /\ \A i \in 1 .. k : chain[i] \in Clusters
    <3> HIDE DEF c0
    <3>1. fat_table \in [Clusters -> Links]
      BY TypesOfDriver
    <3>2. QED
      BY <2>2, <3>1, ChainVisits
  <2>4. 1 \in DOMAIN chain /\ chain[1] \in Clusters
    BY <2>3, ClusterBasics
  <2>5. read_buffer(r)[1] = disk[chain[1]]
    BY <2>4 DEF read_buffer, Content
  <2>6. MayHold(chain[1], disk[chain[1]])
    BY <2>4 DEF DriverInv, DiskInv
  <2> HIDE DEF chain
  <2>7. disk[chain[1]].text \in Texts
    BY <1>2, <2>5, <2>6, Kinds DEF MayHold
  <2>8. QED
    BY <1>2, <2>5, <2>7 DEF TextRead
<1>3. QED
  BY <1>1, <1>2 DEF TextRead

LEMMA RequestTyped ==
  ASSUME NEW name \in FileNames, NEW padded \in BOOLEAN, NEW ext \in Extensions,
         NEW parent \in Clusters, NEW size \in 0 .. MaxClusters, NEW text \in Texts
  PROVE  Request(name, padded, ext, parent, size, text) \in AnyRequest
BY DEF Request, AnyRequest

LEMMA CallTyped ==
  ASSUME NEW op \in {"WRITE", "DELETE", "READ_DIRECTORY", "CHANGE_DIR"},
         NEW r \in AnyRequest, NEW after \in SUBSET Codes
  PROVE  Call(op, r, after) \in Calls
BY DEF Call, Calls

LEMMA ShellBasics ==
  /\ Names \subseteq FileNames /\ {"", "root", ".."} \subseteq FileNames
  /\ Paddings \subseteq BOOLEAN /\ Blank \in Texts /\ "txt" \in Extensions
  /\ "" \in Extensions /\ 0 \in 0 .. MaxClusters /\ 1 \in 0 .. MaxClusters
  /\ ROOT_CLUSTER_NUMBER \in Clusters /\ EmptyTable \in Tables
  /\ StartupFiles \in Seq(Names \X Texts) /\ Len(StartupFiles) \in Nat
  /\ NoRequest \in AnyRequest /\ ChangeDir \in Calls /\ AnyCode = Codes
<1>1. /\ Blank \in Texts /\ "txt" \in Extensions
      /\ StartupFiles \in Seq(Names \X Texts)
  BY ShellAssumption
<1>2. Len(StartupFiles) \in Nat
  BY <1>1, LenProperties
<1>3. Paddings \subseteq BOOLEAN
  BY Fat32Assumption, Zenon
<1>4. MaxClusters \in Nat /\ MaxClusters >= 1 /\ "" \in Extensions
  BY UnusedTyped
<1>5. 0 \in 0 .. MaxClusters /\ 1 \in 0 .. MaxClusters
  <2>1. MaxClusters \in Nat /\ MaxClusters >= 1
    BY <1>4
  <2>2. QED
    BY <2>1
<1>6. Names \subseteq FileNames /\ {"", "root", ".."} \subseteq FileNames
  BY DEF FileNames
<1>7. ROOT_CLUSTER_NUMBER \in Clusters /\ 0 \in Clusters
  BY ClusterBasics DEF ROOT_CLUSTER_NUMBER
<1>8. EmptyTable \in Tables
  BY UnusedTyped DEF EmptyTable, Tables
<1>9. NoRequest \in AnyRequest
  BY <1>1, <1>4, <1>5, <1>6, <1>7, RequestTyped DEF NoRequest
<1>10. ChangeDir \in Calls /\ AnyCode = Codes
  BY <1>9, CallTyped DEF ChangeDir, AnyCode
<1>11. QED
  BY <1>1, <1>2, <1>3, <1>4, <1>5, <1>6, <1>7, <1>8, <1>9, <1>10

LEMMA StartupTyped ==
  StartupCalls \in Seq(Calls) /\ Len(StartupCalls) = Len(StartupFiles) + 1
<1> DEFINE call(i) == Call("WRITE", Request(StartupFiles[i][1], TRUE, "txt",
                                            ROOT_CLUSTER_NUMBER, 1, StartupFiles[i][2]),
                           Codes)
           last == Call("READ_DIRECTORY",
                        Request("root", TRUE, "", ROOT_CLUSTER_NUMBER, 0, Blank), Codes)
           files == [i \in DOMAIN StartupFiles |-> call(i)]
           n == Len(StartupFiles)
<1>1. n \in Nat /\ DOMAIN StartupFiles = 1 .. n
  BY ShellBasics, LenProperties
<1>2. ASSUME NEW i \in 1 .. n
      PROVE  call(i) \in Calls
  <2>1. StartupFiles[i] \in Names \X Texts
    BY ShellBasics, ElementOfSeq
  <2>2. StartupFiles[i][1] \in FileNames /\ StartupFiles[i][2] \in Texts
    BY <2>1, ShellBasics
  <2>3. QED
    BY <2>2, ShellBasics, RequestTyped, CallTyped
<1>3. last \in Calls
  <2>1. Request("root", TRUE, "", ROOT_CLUSTER_NUMBER, 0, Blank) \in AnyRequest
    BY ShellBasics, RequestTyped
  <2>2. QED
    BY <2>1, CallTyped
<1>4. files \in Seq(Calls) /\ Len(files) = n
  <2>1. files \in [1 .. n -> Calls]
    BY <1>1, <1>2
  <2> HIDE DEF files
  <2>2. files \in Seq(Calls)
    BY <1>1, <2>1, SeqDef
  <2>3. Len(files) = n
    BY <1>1, <2>1, LenIs
  <2>4. QED
    BY <2>2, <2>3
<1>5. <<last>> \in Seq(Calls) /\ Len(<<last>>) = 1
  <2> HIDE DEF last
  <2> QED
    BY <1>3
<1>6. StartupCalls = files \o <<last>>
  BY DEF StartupCalls
<1> HIDE DEF files, last
<1>7. QED
  BY <1>4, <1>5, <1>6, ConcatProperties

Program(calls) == calls \in Seq(Calls) /\ Len(calls) <= 3

LEMMA FewCalls ==
  /\ Program(<< >>)
  /\ \A a \in Calls : Program(<<a>>)
  /\ \A a, b \in Calls : Program(<<a, b>>)
  /\ \A a, b, c \in Calls : /\ Program(<<a, b>> \o <<c>>) /\ Program(<<a>> \o <<c>>)
                            /\ Program(<< >> \o <<c>>) /\ Program(<<a, b>> \o << >>)
<1>1. << >> \in Seq(Calls) /\ Len(<< >>) = 0
  OBVIOUS
<1>2. ASSUME NEW a \in Calls, NEW b \in Calls
      PROVE  /\ <<a>> \in Seq(Calls) /\ Len(<<a>>) = 1
             /\ <<a, b>> \in Seq(Calls) /\ Len(<<a, b>>) = 2
  OBVIOUS
<1>3. ASSUME NEW a \in Calls, NEW b \in Calls, NEW c \in Calls
      PROVE  /\ <<a, b>> \o <<c>> \in Seq(Calls) /\ Len(<<a, b>> \o <<c>>) = 3
             /\ <<a>> \o <<c>> \in Seq(Calls) /\ Len(<<a>> \o <<c>>) = 2
             /\ << >> \o <<c>> \in Seq(Calls) /\ Len(<< >> \o <<c>>) = 1
             /\ <<a, b>> \o << >> \in Seq(Calls) /\ Len(<<a, b>> \o << >>) = 2
  BY <1>1, <1>2, ConcatProperties
<1>4. Program(<< >>)
  BY <1>1 DEF Program
<1>5. ASSUME NEW a \in Calls, NEW b \in Calls
      PROVE  Program(<<a>>) /\ Program(<<a, b>>)
  BY <1>2 DEF Program
<1>6. ASSUME NEW a \in Calls, NEW b \in Calls, NEW c \in Calls
      PROVE  /\ Program(<<a, b>> \o <<c>>) /\ Program(<<a>> \o <<c>>)
             /\ Program(<< >> \o <<c>>) /\ Program(<<a, b>> \o << >>)
  BY <1>3 DEF Program
<1>7. QED
  BY <1>4, <1>5, <1>6

(* A command begins: it has resolved its paths and reads nothing more.     *)
LEMMA BeginTyped ==
  ASSUME ShellInv, NEW command, NEW calls, Program(calls),
         NEW table \in Tables, Begin(command, calls, table)
  PROVE  ShellInv'
<1>1. DriverInv'
  BY DriverStays DEF ShellInv, Begin
<1>2. Len(calls) <= Len(StartupFiles) + 3
  <2>1. Len(calls) \in Nat /\ Len(StartupFiles) \in Nat /\ Len(calls) <= 3
    BY ShellBasics, LenProperties DEF Program
  <2>2. QED
    BY <2>1
<1>3. QED
  BY <1>1, <1>2 DEF ShellInv, Begin, Program

LEMMA ResolvedTyped ==
  ASSUME ShellInv, NEW path, Len(path) \in Nat, NEW padded, NEW w \in Walks(path, padded)
  PROVE  /\ w.to \in Reached /\ w.loaded \in Tables
         /\ w.to # Invalid => w.to \in Clusters /\ Table(w.to) \in Tables
         /\ Table(cwd) \in Tables /\ curr_dir \in Tables /\ cwd \in Clusters
BY WalksTyped, TypesOfDriver DEF ShellInv, Reached

LEMMA FinishTyped ==
  ASSUME ShellInv, NEW table \in Tables, Finish(table)
  PROVE  ShellInv'
BY FewCalls, BeginTyped DEF Finish

LEMMA ChangesFolder ==
  ASSUME ShellInv, NEW path, Len(path) \in Nat, NEW padded, cd(path, padded)
  PROVE  ShellInv'
<1>1. PICK w \in Walks(path, padded) :
        /\ mode' = "busy"
        /\ cwd' = FolderReached(w)
        /\ curr_dir' = IF w.to = Invalid THEN w.loaded ELSE Table(w.to)
        /\ UNCHANGED <<vars, cmd, todo>>
  BY DEF cd
<1>2. DriverInv'
  BY <1>1, DriverStays DEF ShellInv
<1>3. cwd' \in Clusters /\ curr_dir' \in Tables
  BY <1>1, ResolvedTyped DEF FolderReached
<1>4. QED
  BY <1>1, <1>2, <1>3 DEF ShellInv

LEMMA PathsTyped ==
  ASSUME NEW n, NEW path \in Paths(n)
  PROVE  /\ path \in Seq(Components) /\ Len(path) \in Nat
         /\ path # << >> => path[1] \in Components
<1>1. PICK k \in 0 .. n : path \in [1 .. k -> Components]
  BY DEF Paths
<1>2. k \in Nat
  BY <1>1
<1>3. path \in Seq(Components)
  BY <1>1, <1>2, SeqDef
<1>4. Len(path) \in Nat /\ path \in [1 .. Len(path) -> Components]
  BY <1>3, LenProperties
<1>5. path # << >> => Len(path) # 0
  BY <1>3, EmptySeq
<1>6. path # << >> => 1 \in 1 .. Len(path)
  BY <1>4, <1>5
<1>7. QED
  BY <1>3, <1>4, <1>6

-----------------------------------------------------------------------------
(* What a command starts with.                                             *)

(* A table that the resolution of paths can leave in curr_dir.             *)
Shows(table) ==
  \/ table \in {curr_dir, Table(cwd)}
  \/ \E path, padded : Len(path) \in Nat /\ \E w \in Walks(path, padded) : table = w.loaded

FolderEntered ==
  \E path, padded : Len(path) \in Nat /\ cd(path, padded)
NothingDone ==
  \E table : Shows(table) /\ Finish(table)
EntryMade ==
  \E command \in {"mkdir", "txt"}, r \in AnyRequest :
    /\ r.parent = cwd /\ r.padded \in Paddings
    /\ Begin(Command(command, NoRequest, r), <<Call("WRITE", r, Codes)>>, curr_dir)
FileReplaced ==
  \E r \in AnyRequest :
    /\ r.parent = cwd /\ r.padded \in Paddings /\ r.size = 1
    /\ Begin(Command("write", NoRequest, r), WritefCalls(r), curr_dir)
EntryRemoved ==
  \E r \in AnyRequest :
    /\ r.padded \in Paddings
    /\ Begin(Command("rm", r, NoRequest), <<Call("DELETE", r, Codes)>>, Table(cwd))
Transfer(command, src, dst, go) ==
  IF go THEN IF command = "cp" THEN CopyCalls(src, dst) ELSE MoveCalls(src, dst)
        ELSE << >>
EntryTransferred ==
  \E command \in {"cp", "mv"}, src \in AnyRequest, parent \in Clusters, go \in BOOLEAN :
   \E table :
    LET dst == [src EXCEPT !.parent = parent, !.text = TextRead(src)] IN
    /\ src.name \in Names /\ src.padded \in Paddings
    /\ src.size = IF src.ext = "" THEN 0 ELSE 1
    /\ go => ReadSource(src)
    /\ Shows(table) /\ dst \in AnyRequest
    /\ Begin(Command(command, src, dst), Transfer(command, src, dst, go) \o <<ChangeDir>>, table)
EntryRenamed ==
  \E src \in AnyRequest, dst \in AnyRequest, clean \in BOOLEAN :
    /\ src.padded \in Paddings /\ src.size = 0 /\ dst.padded /\ dst.size = 0
    /\ Begin(Command("rename", src, dst),
             IF dst.ext # "" THEN RenameFileCalls(src, dst)
                             ELSE RenameFolderCalls(src, dst, clean),
             Table(cwd))

LEMMA TransferBegins ==
  ASSUME ShellInv, NEW command \in {"cp", "mv"}, NEW path, Len(path) \in Nat, NEW walked,
         NEW name \in Names, NEW padded \in Paddings, NEW ext \in Extensions,
         NEW dest, Len(dest) \in Nat, NEW destExt, NEW clean \in BOOLEAN,
         CopyOrMove(command, path, walked, name, padded, ext, dest, destExt, clean)
  PROVE  NothingDone \/ EntryTransferred
<1>1. PICK from \in Walks(path, walked) :
        IF from.to = Invalid THEN Finish(from.loaded)
        ELSE \E to \in Walks(dest, walked) :
          IF to.to = Invalid \/ destExt # "" THEN Finish(to.loaded)
          ELSE LET src == Request(name, padded, ext, from.to,
                                  IF ext = "" THEN 0 ELSE 1, Blank)
                   dst == [src EXCEPT !.parent = to.to, !.text = TextRead(src)]
               IN Begin(Command(command, src, dst),
                        (IF ReadSource(src) /\ clean
                         THEN IF command = "cp" THEN CopyCalls(src, dst)
                                                ELSE MoveCalls(src, dst)
                         ELSE << >>) \o <<ChangeDir>>,
                        to.loaded)
  BY DEF CopyOrMove
<1>2. from.to # Invalid => from.to \in Clusters
  BY ResolvedTyped
<1>3. CASE from.to = Invalid
  BY <1>1, <1>3 DEF NothingDone, Shows
<1>4. CASE from.to # Invalid
  <2> DEFINE size == IF ext = "" THEN 0 ELSE 1
             src == Request(name, padded, ext, from.to, size, Blank)
             dst(c) == [src EXCEPT !.parent = c, !.text = TextRead(src)]
             go == ReadSource(src) /\ clean
  <2>1. PICK to \in Walks(dest, walked) :
          IF to.to = Invalid \/ destExt # "" THEN Finish(to.loaded)
          ELSE Begin(Command(command, src, dst(to.to)),
                     Transfer(command, src, dst(to.to), go) \o <<ChangeDir>>, to.loaded)
    BY <1>1, <1>4 DEF Transfer
  <2>2. to.to # Invalid => to.to \in Clusters
    BY ResolvedTyped
  <2>3. CASE to.to = Invalid \/ destExt # ""
    BY <2>1, <2>3 DEF NothingDone, Shows
  <2>4. CASE ~(to.to = Invalid \/ destExt # "")
    <3>1. size \in 0 .. MaxClusters
      BY ShellBasics
    <3> HIDE DEF size
    <3>2. src \in AnyRequest
      BY <1>2, <1>4, <3>1, ShellBasics, RequestTyped
    <3>3. src.name = name /\ src.padded = padded /\ src.ext = ext /\ src.size = size
      BY DEF Request
    <3>4. go \in BOOLEAN /\ (go => ReadSource(src))
      BY DEF ReadSource
    <3> HIDE DEF src, go
    <3>5. dst(to.to) \in AnyRequest
      <4>1. TextRead(src) \in Texts
        BY <3>2, TextReadTyped DEF ShellInv, AnyRequest
      <4>2. QED
        BY <2>2, <2>4, <3>2, <4>1 DEF AnyRequest
    <3>6. Shows(to.loaded)
      BY DEF Shows
    <3>7. Begin(Command(command, src, dst(to.to)),
                Transfer(command, src, dst(to.to), go) \o <<ChangeDir>>, to.loaded)
      BY <2>1, <2>4
    <3>8. src.size = IF src.ext = "" THEN 0 ELSE 1
      BY <3>3 DEF size
    <3>9. to.to \in Clusters
      BY <2>2, <2>4
    <3>10. QED
      BY <3>2, <3>3, <3>4, <3>5, <3>6, <3>7, <3>8, <3>9 DEF EntryTransferred
  <2>5. QED
    BY <2>3, <2>4
<1>5. QED
  BY <1>3, <1>4

LEMMA RenameBegins ==
  ASSUME ShellInv, NEW path, Len(path) \in Nat, NEW walked, NEW name \in Names,
         NEW padded \in Paddings, NEW ext \in Extensions, NEW newName \in FileNames,
         NEW newExt \in Extensions, NEW clean \in BOOLEAN,
         rename(path, walked, name, padded, ext, newName, newExt, clean)
  PROVE  NothingDone \/ EntryRenamed
<1>1. PICK from \in Walks(path, walked) :
        IF from.to = Invalid THEN Finish(from.loaded)
        ELSE LET src == Request(name, padded, ext, from.to, 0, Blank)
                 dst == Request(newName, TRUE, newExt, from.to, 0, Blank)
             IN Begin(Command("rename", src, dst),
                      IF newExt # "" THEN RenameFileCalls(src, dst)
                                     ELSE RenameFolderCalls(src, dst, clean),
                      Table(cwd))
  BY DEF rename
<1>2. from.to # Invalid => from.to \in Clusters
  BY ResolvedTyped
<1>3. CASE from.to = Invalid
  BY <1>1, <1>3 DEF NothingDone, Shows
<1>4. CASE from.to # Invalid
  <2> DEFINE src == Request(name, padded, ext, from.to, 0, Blank)
             dst == Request(newName, TRUE, newExt, from.to, 0, Blank)
  <2>1. src \in AnyRequest /\ dst \in AnyRequest
    BY <1>2, <1>4, ShellBasics, RequestTyped
  <2>2. src.padded = padded /\ src.size = 0 /\ dst.padded /\ dst.size = 0 /\ dst.ext = newExt
    BY DEF Request
  <2>3. Begin(Command("rename", src, dst),
              IF newExt # "" THEN RenameFileCalls(src, dst)
                             ELSE RenameFolderCalls(src, dst, clean),
              Table(cwd))
    BY <1>1, <1>4
  <2> HIDE DEF src, dst
  <2>4. QED
    BY <2>1, <2>2, <2>3 DEF EntryRenamed
<1>5. QED
  BY <1>3, <1>4

CommandBegins ==
  \/ FolderEntered \/ NothingDone \/ EntryMade \/ FileReplaced
  \/ EntryRemoved \/ EntryTransferred \/ EntryRenamed

LEMMA MakingBegins ==
  ASSUME ShellInv, NEW name \in Names, NEW padded \in Paddings, NEW ext \in Extensions,
         NEW text \in Texts,
         mkdir(name, padded) \/ txt(name, padded) \/ writef(name, padded, ext, text)
  PROVE  EntryMade \/ FileReplaced
<1>1. cwd \in Clusters /\ name \in FileNames /\ padded \in BOOLEAN
  BY ShellBasics DEF ShellInv
<1>2. CASE mkdir(name, padded)
  <2> DEFINE r == Request(name, padded, "", cwd, 0, Blank)
  <2>1. r \in AnyRequest
    BY <1>1, ShellBasics, RequestTyped
  <2>2. r.parent = cwd /\ r.padded = padded
    BY DEF Request
  <2>3. Begin(Command("mkdir", NoRequest, r), <<Call("WRITE", r, Codes)>>, curr_dir)
    BY <1>2 DEF mkdir, AnyCode
  <2> HIDE DEF r
  <2>4. QED
    BY <2>1, <2>2, <2>3 DEF EntryMade
<1>3. CASE txt(name, padded)
  <2>1. PICK content \in Texts :
          LET r == Request(name, padded, "txt", cwd, 1, content)
          IN Begin(Command("txt", NoRequest, r), <<Call("WRITE", r, AnyCode)>>, curr_dir)
    BY <1>3 DEF txt
  <2> DEFINE r == Request(name, padded, "txt", cwd, 1, content)
  <2>2. r \in AnyRequest
    BY <1>1, ShellBasics, RequestTyped
  <2>3. Begin(Command("txt", NoRequest, r), <<Call("WRITE", r, Codes)>>, curr_dir)
    BY <2>1 DEF AnyCode
  <2>4. r.parent = cwd /\ r.padded = padded
    BY DEF Request
  <2> HIDE DEF r
  <2>5. QED
    BY <2>2, <2>3, <2>4 DEF EntryMade
<1>4. CASE writef(name, padded, ext, text)
  <2> DEFINE r == Request(name, padded, ext, cwd, 1, text)
  <2>1. r \in AnyRequest
    BY <1>1, ShellBasics, RequestTyped
  <2>2. Begin(Command("write", NoRequest, r), WritefCalls(r), curr_dir)
    BY <1>4 DEF writef
  <2>3. r.parent = cwd /\ r.padded = padded /\ r.size = 1
    BY DEF Request
  <2> HIDE DEF r
  <2>4. QED
    BY <2>1, <2>2, <2>3 DEF FileReplaced
<1>5. QED
  BY <1>2, <1>3, <1>4

LEMMA LookingBegins ==
  ASSUME ShellInv, NEW path, Len(path) \in Nat, NEW walked, NEW name \in Names,
         NEW padded \in Paddings, NEW ext \in Extensions,
         remove(path, walked, name, padded, ext) \/ cat(path, walked) \/ find
  PROVE  NothingDone \/ EntryRemoved
<1>1. CASE remove(path, walked, name, padded, ext)
  <2>1. PICK w \in Walks(path, walked) :
          IF w.to = Invalid THEN Finish(w.loaded)
          ELSE LET r == Request(name, padded, ext, w.to, 0, Blank)
               IN Begin(Command("rm", r, NoRequest), <<Call("DELETE", r, AnyCode)>>,
                        Table(cwd))
    BY <1>1 DEF remove
  <2>2. w.to # Invalid => w.to \in Clusters
    BY ResolvedTyped
  <2>3. CASE w.to = Invalid
    BY <2>1, <2>3 DEF NothingDone, Shows
  <2>4. CASE w.to # Invalid
    <3> DEFINE r == Request(name, padded, ext, w.to, 0, Blank)
    <3>1. r \in AnyRequest
      BY <2>2, <2>4, ShellBasics, RequestTyped
    <3>2. r.padded = padded
      BY DEF Request
    <3>3. Begin(Command("rm", r, NoRequest), <<Call("DELETE", r, Codes)>>, Table(cwd))
      BY <2>1, <2>4 DEF AnyCode
    <3> HIDE DEF r
    <3>4. QED
      BY <3>1, <3>2, <3>3 DEF EntryRemoved
  <2>5. QED
    BY <2>3, <2>4
<1>2. CASE cat(path, walked)
  BY <1>2 DEF cat, NothingDone, Shows
<1>3. CASE find
  BY <1>3 DEF find, NothingDone, Shows
<1>4. QED
  BY <1>1, <1>2, <1>3

LEMMA CommandsBegin ==
  ASSUME ShellInv, RunCommand
  PROVE  CommandBegins
<1>1. PICK path \in Paths(PathBound), walked \in Paddings, padded \in Paddings,
           name \in Names, ext \in Extensions :
       \/ cd(Append(path, name), walked)
       \/ path # << >> /\ cd(path, walked)
       \/ mkdir(name, padded)
       \/ txt(name, padded)
       \/ \E text \in Texts \ {Blank} : writef(name, padded, ext, text)
       \/ remove(path, walked, name, padded, ext)
       \/ cat(path, walked)
       \/ find
       \/ \E dest \in NonEmpty(Paths(PathBound + 1)), clean \in BOOLEAN :
            \/ CopyOrMove("cp", path, walked, name, padded, ext, dest, "", clean)
            \/ \E destExt \in Extensions :
                 /\ dest[Len(dest)] = ".." => destExt = ""
                 /\ mv(path, walked, name, padded, ext, dest, destExt, clean)
  BY DEF RunCommand
<1>2. Len(path) \in Nat /\ path \in Seq(Components)
  BY PathsTyped
<1>3. Len(Append(path, name)) \in Nat
  <2>1. name \in Components
    BY DEF Components
  <2>2. Append(path, name) \in Seq(Components)
    BY <1>2, <2>1
  <2>3. QED
    BY <2>2, LenProperties
<1>4. CASE cd(Append(path, name), walked) \/ cd(path, walked)
  BY <1>2, <1>3, <1>4 DEF FolderEntered, CommandBegins
<1>5. CASE mkdir(name, padded) \/ txt(name, padded)
  BY <1>5, ShellBasics, MakingBegins DEF CommandBegins
<1>6. CASE \E text \in Texts \ {Blank} : writef(name, padded, ext, text)
  BY <1>6, MakingBegins DEF CommandBegins
<1>7. CASE remove(path, walked, name, padded, ext) \/ cat(path, walked) \/ find
  BY <1>2, <1>7, LookingBegins DEF CommandBegins
<1>8. ASSUME NEW dest \in NonEmpty(Paths(PathBound + 1)), NEW clean \in BOOLEAN,
             CopyOrMove("cp", path, walked, name, padded, ext, dest, "", clean)
      PROVE  CommandBegins
  <2>1. Len(dest) \in Nat
    BY PathsTyped DEF NonEmpty
  <2>2. QED
    BY <1>2, <1>8, <2>1, TransferBegins DEF CommandBegins
<1>9. ASSUME NEW dest \in NonEmpty(Paths(PathBound + 1)), NEW clean \in BOOLEAN,
             NEW destExt \in Extensions,
             mv(path, walked, name, padded, ext, dest, destExt, clean)
      PROVE  CommandBegins
  <2>1. Len(dest) \in Nat /\ dest[1] \in Components
    BY PathsTyped DEF NonEmpty
  <2>2. \/ rename(path, walked, name, padded, ext, NameBeforeDot(dest[1]), destExt, clean)
        \/ CopyOrMove("mv", path, walked, name, padded, ext, dest, destExt, clean)
    BY <1>9 DEF mv
  <2>3. NameBeforeDot(dest[1]) \in FileNames
    BY <2>1 DEF NameBeforeDot, Components, FileNames
  <2>4. QED
    BY <1>2, <2>1, <2>2, <2>3, TransferBegins, RenameBegins DEF CommandBegins
<1>10. QED
  BY <1>1, <1>4, <1>5, <1>6, <1>7, <1>8, <1>9

LEMMA ShownTyped ==
  ASSUME ShellInv, NEW table, Shows(table)
  PROVE  table \in Tables
<1>1. Table(cwd) \in Tables /\ curr_dir \in Tables
  BY TypesOfDriver DEF ShellInv
<1>2. \A path, padded : Len(path) \in Nat => \A w \in Walks(path, padded) : w.loaded \in Tables
  BY ResolvedTyped
<1>3. QED
  BY <1>1, <1>2 DEF Shows

(* Whatever the command, its calls are ones the driver is made for.        *)
LEMMA Commands ==
  ASSUME ShellInv, RunCommand
  PROVE  ShellInv'
<1>1. CASE FolderEntered
  BY <1>1, ChangesFolder DEF FolderEntered
<1>2. CASE NothingDone
  BY <1>2, ShownTyped, FinishTyped DEF NothingDone
<1>3. Table(cwd) \in Tables /\ curr_dir \in Tables
  BY TypesOfDriver DEF ShellInv
<1>4. /\ Codes \in SUBSET Codes /\ {0} \in SUBSET Codes /\ {1} \in SUBSET Codes
      /\ AnyCode = Codes /\ ChangeDir \in Calls
  BY ShellBasics DEF Codes, AnyCode
<1>5. ASSUME NEW r \in AnyRequest, NEW after \in SUBSET Codes
      PROVE  Call("WRITE", r, after) \in Calls /\ Call("DELETE", r, after) \in Calls
  BY CallTyped
<1>6. CASE EntryMade
  <2>1. PICK command \in {"mkdir", "txt"}, r \in AnyRequest :
          Begin(Command(command, NoRequest, r), <<Call("WRITE", r, Codes)>>, curr_dir)
    BY <1>6 DEF EntryMade
  <2> DEFINE a == Call("WRITE", r, Codes)
  <2>2. a \in Calls
    BY <1>4, <1>5
  <2>3. Begin(Command(command, NoRequest, r), <<a>>, curr_dir)
    BY <2>1
  <2> HIDE DEF a
  <2>4. QED
    BY <1>3, <2>2, <2>3, FewCalls, BeginTyped
<1>7. CASE FileReplaced
  <2>1. PICK r \in AnyRequest :
          Begin(Command("write", NoRequest, r), WritefCalls(r), curr_dir)
    BY <1>7 DEF FileReplaced
  <2> DEFINE a == Call("DELETE", r, Codes)
             b == Call("WRITE", r, Codes)
  <2>2. a \in Calls /\ b \in Calls
    BY <1>4, <1>5
  <2>3. WritefCalls(r) = <<a, b>>
    BY <1>4 DEF WritefCalls
  <2> HIDE DEF a, b
  <2>4. QED
    BY <1>3, <2>1, <2>2, <2>3, FewCalls, BeginTyped
<1>8. CASE EntryRemoved
  <2>1. PICK r \in AnyRequest :
          Begin(Command("rm", r, NoRequest), <<Call("DELETE", r, Codes)>>, Table(cwd))
    BY <1>8 DEF EntryRemoved
  <2> DEFINE a == Call("DELETE", r, Codes)
  <2>2. a \in Calls
    BY <1>4, <1>5
  <2>3. Begin(Command("rm", r, NoRequest), <<a>>, Table(cwd))
    BY <2>1
  <2> HIDE DEF a
  <2>4. QED
    BY <1>3, <2>2, <2>3, FewCalls, BeginTyped
<1>9. CASE EntryTransferred
  <2> DEFINE copy(src, c) == [src EXCEPT !.parent = c, !.text = TextRead(src)]
  <2>0. PICK command \in {"cp", "mv"}, src \in AnyRequest, parent \in Clusters,
             go \in BOOLEAN :
            \E table :
            /\ Shows(table) /\ copy(src, parent) \in AnyRequest
            /\ Begin(Command(command, src, copy(src, parent)),
                     Transfer(command, src, copy(src, parent), go) \o <<ChangeDir>>, table)
    BY <1>9 DEF EntryTransferred
  <2>1. PICK table :
          /\ Shows(table) /\ copy(src, parent) \in AnyRequest
          /\ Begin(Command(command, src, copy(src, parent)),
                   Transfer(command, src, copy(src, parent), go) \o <<ChangeDir>>, table)
    BY <2>0
  <2> DEFINE dst == copy(src, parent)
             a == Call("WRITE", dst, Codes)
             b == Call("DELETE", src, {0})
             calls == Transfer(command, src, dst, go)
  <2>2. a \in Calls /\ b \in Calls
    BY <1>4, <1>5, <2>1
  <2>3. CopyCalls(src, dst) = <<a>> /\ MoveCalls(src, dst) = <<a, b>>
    BY <1>4 DEF CopyCalls, MoveCalls
  <2>4. Begin(Command(command, src, dst), calls \o <<ChangeDir>>, table)
    BY <2>1
  <2> HIDE DEF a, b, dst
  <2>5. calls \in {<<a>>, <<a, b>>, << >>}
    BY <2>3 DEF Transfer
  <2> HIDE DEF calls
  <2>6. Program(calls \o <<ChangeDir>>)
    BY <1>4, <2>2, <2>5, FewCalls
  <2>7. table \in Tables
    BY <2>1, ShownTyped
  <2>8. QED
    BY <2>4, <2>6, <2>7, BeginTyped
<1>10. CASE EntryRenamed
  <2>1. PICK src \in AnyRequest, dst \in AnyRequest, clean \in BOOLEAN :
          Begin(Command("rename", src, dst),
                IF dst.ext # "" THEN RenameFileCalls(src, dst)
                                ELSE RenameFolderCalls(src, dst, clean),
                Table(cwd))
    BY <1>10 DEF EntryRenamed
  <2> DEFINE full == [dst EXCEPT !.size = 1, !.text = TextRead([src EXCEPT !.size = 1])]
             plain == [src EXCEPT !.ext = ""]
             calls == IF dst.ext # "" THEN RenameFileCalls(src, dst)
                                      ELSE RenameFolderCalls(src, dst, clean)
  <2>2. full \in AnyRequest
    <3>1. [src EXCEPT !.size = 1].parent \in Clusters
      BY DEF AnyRequest
    <3>2. TextRead([src EXCEPT !.size = 1]) \in Texts
      BY <3>1, TextReadTyped DEF ShellInv
    <3>3. 1 \in 0 .. MaxClusters
      BY ShellBasics
    <3>4. QED
      BY <3>2, <3>3 DEF AnyRequest
  <2>3. plain \in AnyRequest
    BY ShellBasics DEF AnyRequest
  <2> DEFINE c1 == Call("WRITE", full, Codes)
             c2 == Call("DELETE", src, Codes)
             c3 == Call("DELETE", plain, Codes)
             c4 == Call("WRITE", dst, Codes)
             c5 == Call("WRITE", plain, {1})
  <2>4. RenameFileCalls(src, dst) = <<c1, c2>>
    BY <1>4 DEF RenameFileCalls
  <2>5. RenameFolderCalls(src, dst, clean) = <<c3, c4>> \o IF clean THEN <<c5>> ELSE << >>
    BY <1>4 DEF RenameFolderCalls
  <2> HIDE DEF full, plain
  <2>6. c1 \in Calls /\ c2 \in Calls /\ c3 \in Calls /\ c4 \in Calls /\ c5 \in Calls
    BY <1>4, <1>5, <2>2, <2>3
  <2> HIDE DEF c1, c2, c3, c4, c5
  <2>7. calls \in {<<c1, c2>>, <<c3, c4>> \o <<c5>>, <<c3, c4>> \o << >>}
    BY <2>4, <2>5
  <2>8. Begin(Command("rename", src, dst), calls, Table(cwd))
    BY <2>1
  <2> HIDE DEF calls
  <2>9. Program(calls)
    BY <2>6, <2>7, FewCalls
  <2>10. QED
    BY <1>3, <2>8, <2>9, BeginTyped
<1>11. QED
  BY <1>1, <1>2, <1>6, <1>7, <1>8, <1>9, <1>10, CommandsBegin DEF CommandBegins

-----------------------------------------------------------------------------
(* The steps.                                                              *)

LEMMA HeadOfTodo ==
  ASSUME ShellInv, todo # << >>
  PROVE  /\ Head(todo) \in Calls /\ Head(todo).req \in AnyRequest
         /\ Head(todo).req.parent \in Clusters
<1>1. todo \in Seq(Calls)
  BY DEF ShellInv
<1>2. Head(todo) \in Calls
  BY <1>1, HeadTailProperties
<1>3. Head(todo).req \in AnyRequest
  BY <1>2 DEF Calls
<1>4. QED
  BY <1>2, <1>3 DEF AnyRequest

LEMMA ReturnsTyped ==
  ASSUME ShellInv, todo # << >>, NEW code, Returns(code)
  PROVE  /\ mode' = mode /\ cwd' = cwd
         /\ todo' \in Seq(Calls) /\ Len(todo') <= Len(StartupFiles) + 3
<1>1. /\ todo \in Seq(Calls) /\ Len(todo) \in Nat
      /\ Tail(todo) \in Seq(Calls) /\ Len(Tail(todo)) = Len(todo) - 1
  BY HeadTailProperties, LenProperties DEF ShellInv
<1>2. ASSUME Len(todo) > 1
      PROVE  /\ Tail(Tail(todo)) \in Seq(Calls)
             /\ Len(Tail(Tail(todo))) = Len(todo) - 2
  <2>1. Tail(todo) # << >>
    <3>1. Len(<< >>) = 0 /\ Len(Tail(todo)) # 0
      BY <1>1, <1>2
    <3>2. QED
      BY <3>1
  <2>2. /\ Tail(Tail(todo)) \in Seq(Calls)
        /\ Len(Tail(Tail(todo))) = Len(Tail(todo)) - 1
    BY <1>1, <2>1, HeadTailProperties
  <2>3. QED
    BY <1>1, <2>2
<1>3. Len(StartupFiles) \in Nat
  BY ShellBasics
<1>4. /\ todo' = Tail(todo) \/ (Len(todo) > 1 /\ todo' = Tail(Tail(todo)))
      /\ mode' = mode /\ cwd' = cwd
  BY DEF Returns
<1>5. todo' \in Seq(Calls) /\ Len(todo') <= Len(todo)
  <2>1. CASE todo' = Tail(todo)
    BY <1>1, <2>1
  <2>2. CASE Len(todo) > 1 /\ todo' = Tail(Tail(todo))
    BY <1>1, <1>2, <2>2
  <2>3. QED
    BY <1>4, <2>1, <2>2
<1>6. Len(todo') \in Nat
  BY <1>5, LenProperties
<1>7. QED
  BY <1>1, <1>3, <1>4, <1>5, <1>6 DEF ShellInv

LEMMA CallsStep ==
  ASSUME ShellInv,
         \/ CallWrite \/ CallDelete \/ CallDeleteLost
         \/ CallReadDirectory \/ CallChangeDir
  PROVE  ShellInv'
<1> DEFINE r == Head(todo).req
<1>1. todo # << >>
  BY DEF CallWrite, CallDelete, CallDeleteLost, CallReadDirectory, CallChangeDir
<1>2. r \in AnyRequest /\ r.parent \in Clusters
  BY <1>1, HeadOfTodo
<1>3. CASE CallWrite
  <2>1. write(r) \/ UNCHANGED vars
    BY <1>3 DEF CallWrite
  <2>2. DriverInv'
    BY <1>2, <2>1, DriverWrites, DriverStays DEF ShellInv
  <2>3. Returns(write_code(r)) /\ curr_dir' = curr_dir
    BY <1>3 DEF CallWrite
  <2>4. QED
    BY <1>1, <2>2, <2>3, ReturnsTyped DEF ShellInv
<1>4. CASE CallDelete
  <2>1. delete(r) \/ UNCHANGED vars
    BY <1>4 DEF CallDelete
  <2>2. DriverInv'
    BY <1>2, <2>1, DriverDeletes, DriverStays DEF ShellInv
  <2>3. Returns(delete_code(r)) /\ curr_dir' = curr_dir
    BY <1>4 DEF CallDelete
  <2>4. QED
    BY <1>1, <2>2, <2>3, ReturnsTyped DEF ShellInv
<1>5. CASE CallDeleteLost
  <2>1. DeleteLost(r) /\ mode' = "stuck" /\ UNCHANGED <<cwd, curr_dir, todo>>
    BY <1>5 DEF CallDeleteLost
  <2>2. DriverInv'
    BY <1>2, <2>1, DriverDeletes DEF ShellInv
  <2>3. QED
    BY <2>1, <2>2 DEF ShellInv
<1>6. CASE CallReadDirectory
  <2>1. curr_dir' = LoadedBy(r) /\ Returns(read_directory_code(r)) /\ UNCHANGED vars
    BY <1>6 DEF CallReadDirectory
  <2>2. DriverInv' /\ curr_dir' \in Tables
    BY <1>2, <2>1, DriverStays, LoadedTyped DEF ShellInv
  <2>3. QED
    BY <1>1, <2>1, <2>2, ReturnsTyped DEF ShellInv
<1>7. CASE CallChangeDir
  <2>1. curr_dir' = Table(cwd) /\ Returns(0) /\ UNCHANGED vars
    BY <1>7 DEF CallChangeDir
  <2>2. DriverInv' /\ curr_dir' \in Tables
    BY <2>1, DriverStays, TypesOfDriver DEF ShellInv
  <2>3. QED
    BY <1>1, <2>1, <2>2, ReturnsTyped DEF ShellInv
<1>8. QED
  BY <1>3, <1>4, <1>5, <1>6, <1>7

LEMMA PromptTyped ==
  ASSUME ShellInv, Prompt
  PROVE  ShellInv'
<1>1. /\ mode' \in {"ready", "astray"} /\ curr_dir' = ShownAtPrompt
      /\ UNCHANGED vars /\ cwd' = cwd /\ todo' = todo
  BY DEF Prompt
<1>2. ShownAtPrompt \in Tables
  <2> DEFINE r == Request(curr_dir[0].name, TRUE, "", cwd, 0, Blank)
  <2>1. r.parent \in Clusters
    BY DEF Request, ShellInv
  <2>2. LoadedBy(r) \in Tables /\ Table(cwd) \in Tables
    BY <2>1, LoadedTyped, TypesOfDriver DEF ShellInv
  <2>3. QED
    BY <2>2 DEF ShownAtPrompt, Refreshed
<1>3. DriverInv'
  BY <1>1, DriverStays DEF ShellInv
<1>4. QED
  BY <1>1, <1>2, <1>3 DEF ShellInv

LEMMA PowerTyped ==
  ASSUME ShellInv, Start \/ StartInserter \/ SwitchOff \/ StopInFormat \/ StopInCall
  PROVE  ShellInv'
<1>1. /\ << >> \in Seq(Calls) /\ Len(<< >>) <= Len(StartupFiles) + 3
      /\ Len(StartupCalls) <= Len(StartupFiles) + 3
  <2>1. << >> \in Seq(Calls) /\ Len(<< >>) = 0
    OBVIOUS
  <2>2. Len(StartupFiles) \in Nat /\ Len(StartupCalls) = Len(StartupFiles) + 1
    BY ShellBasics, StartupTyped
  <2>3. QED
    BY <2>1, <2>2
<1>2. CASE Start
  <2>1. DriverInv' /\ mode' = "busy" /\ todo' = StartupCalls /\ UNCHANGED <<cwd, curr_dir>>
    BY <1>2, DriverStarts DEF Start, ShellInv
  <2>2. QED
    BY <1>1, <2>1, StartupTyped DEF ShellInv
<1>3. CASE StartInserter
  <2>1. DriverInv' /\ mode' = "inserting" /\ UNCHANGED <<cwd, curr_dir, todo>>
    BY <1>3, DriverStarts DEF StartInserter, ShellInv
  <2>2. QED
    BY <2>1 DEF ShellInv
<1>4. ASSUME DriverInv', ShellOff
      PROVE  ShellInv'
  BY <1>1, <1>4, ShellBasics DEF ShellOff, ShellInv
<1>5. CASE SwitchOff
  BY <1>4, <1>5, DriverStops DEF SwitchOff, ShellInv
<1>6. CASE StopInFormat
  BY <1>4, <1>6, DriverStops DEF StopInFormat, ShellInv
<1>7. CASE StopInCall
  <2>1. todo # << >> /\ ShellOff
        /\ (CrashInWrite(Head(todo).req) \/ CrashInDelete(Head(todo).req))
    BY <1>7 DEF StopInCall
  <2>2. Head(todo).req \in AnyRequest /\ Head(todo).req.parent \in Clusters
    BY <2>1, HeadOfTodo
  <2>3. DriverInv'
    BY <2>1, <2>2, DriverStops DEF ShellInv
  <2>4. QED
    BY <1>4, <2>1, <2>3
<1>8. QED
  BY <1>2, <1>3, <1>5, <1>6, <1>7

(* What the inserter asks for.                                             *)
LEMMA Inserts ==
  ASSUME Insert
  PROVE  \E r \in AnyRequest : write(r) /\ r.padded
<1>1. PICK name \in Names, parent \in InsertParents, size \in 0 .. MaxClusters,
           text \in Texts \ {Blank} :
        write(Request(name, TRUE, "", parent, size, text))
  BY DEF Insert
<1> DEFINE r == Request(name, TRUE, "", parent, size, text)
<1>2. parent \in Clusters
  BY ShellAssumption
<1>3. r \in AnyRequest
  BY <1>2, ShellBasics, RequestTyped
<1>4. r.padded
  BY DEF Request
<1> HIDE DEF r
<1>5. write(r)
  BY <1>1 DEF r
<1>6. QED
  BY <1>3, <1>4, <1>5

LEMMA InsertTyped ==
  ASSUME ShellInv, Insert
  PROVE  ShellInv'
<1>3. DriverInv'
  BY Inserts, DriverWrites DEF ShellInv
<1>4. UNCHANGED <<mode, cwd, curr_dir, todo>>
  BY DEF Insert
<1>5. QED
  BY <1>3, <1>4 DEF ShellInv

LEMMA ShellStep ==
  ASSUME ShellInv, [ShellNext]_allVars
  PROVE  ShellInv'
<1>1. CASE Start \/ StartInserter \/ SwitchOff \/ StopInFormat \/ StopInCall
  BY <1>1, PowerTyped
<1>2. CASE Insert
  BY <1>2, InsertTyped
<1>3. CASE \/ CallWrite \/ CallDelete \/ CallDeleteLost
           \/ CallReadDirectory \/ CallChangeDir
  BY <1>3, CallsStep
<1>4. CASE Prompt
  BY <1>4, PromptTyped
<1>5. CASE RunCommand
  BY <1>5, Commands
<1>6. CASE UNCHANGED allVars
  BY <1>6, DriverStays DEF allVars, shellVars, ShellInv
<1>7. QED
  BY <1>1, <1>2, <1>3, <1>4, <1>5, <1>6 DEF ShellNext

LEMMA ShellStarts == ShellInit => ShellInv
<1>1. << >> \in Seq(Calls) /\ Len(<< >>) <= Len(StartupFiles) + 3
  <2>1. << >> \in Seq(Calls) /\ Len(<< >>) = 0
    OBVIOUS
  <2>2. Len(StartupFiles) \in Nat
    BY ShellBasics
  <2>3. QED
    BY <2>1, <2>2
<1>2. QED
  BY <1>1, DriverInit, ShellBasics DEF ShellInit, ShellInv

(* usermode/: whatever is typed, wherever the machine stops, every request *)
(* the shell makes is one the driver is made for, its copy of a folder is  *)
(* one the driver could have written, it never enters a cluster that is    *)
(* not on the disk, and the disk is as sound as under the driver alone.    *)
THEOREM ShellTypes == ShellSpec => []ShellTypeOK
<1>1. ShellInit => ShellInv
  BY ShellStarts
<1>2. ShellInv /\ [ShellNext]_allVars => ShellInv'
  BY ShellStep
<1>3. ShellInv => ShellTypeOK
  <2>1. SUFFICES ASSUME ShellInv
                 PROVE  ShellTypeOK
    OBVIOUS
  <2>2. TypeOK
    BY <2>1, DriverTyped DEF ShellInv
  <2>3. \A i \in DOMAIN todo : todo[i] \in Calls
    BY <2>1, LenProperties, ElementOfSeq DEF ShellInv
  <2>4. QED
    BY <2>1, <2>2, <2>3 DEF ShellInv, ShellTypeOK, Tables, Calls
<1>4. QED
  BY <1>1, <1>2, <1>3, PTL DEF ShellSpec

-----------------------------------------------------------------------------
(* The tree below the shell.                                               *)

DriverMoves ==
  \/ UNCHANGED vars \/ initialize_filesystem_fat32 \/ PowerOff \/ CrashInFormat
  \/ \E r \in AnyRequest : \/ write(r) \/ delete(r) \/ DeleteLost(r)
                           \/ CrashInWrite(r) \/ CrashInDelete(r)

LEMMA BeginningReads ==
  ASSUME ShellInv, RunCommand
  PROVE  UNCHANGED vars
<1>1. CommandBegins
  BY CommandsBegin
<1>2. QED
  BY <1>1, Zenon DEF CommandBegins, FolderEntered, NothingDone, EntryMade, FileReplaced,
     EntryRemoved, EntryTransferred, EntryRenamed, cd, Begin, Finish

LEMMA ShellMoves ==
  ASSUME ShellInv, [ShellNext]_allVars
  PROVE  DriverMoves
<1> DEFINE r == Head(todo).req
<1>1. todo # << >> => r \in AnyRequest
  BY HeadOfTodo
<1>2. CASE Start \/ StartInserter \/ SwitchOff \/ StopInFormat
  BY <1>2 DEF Start, StartInserter, SwitchOff, StopInFormat, DriverMoves
<1>3. CASE StopInCall
  <2>1. todo # << >> /\ (CrashInWrite(r) \/ CrashInDelete(r))
    BY <1>3 DEF StopInCall
  <2> HIDE DEF r
  <2>2. QED
    BY <1>1, <2>1 DEF DriverMoves
<1>4. CASE Insert
  BY <1>4, Inserts DEF DriverMoves
<1>5. CASE CallWrite
  <2>1. todo # << >> /\ (write(r) \/ UNCHANGED vars)
    BY <1>5 DEF CallWrite
  <2> HIDE DEF r
  <2>2. QED
    BY <1>1, <2>1 DEF DriverMoves
<1>6. CASE CallDelete \/ CallDeleteLost
  <2>1. todo # << >> /\ (delete(r) \/ DeleteLost(r) \/ UNCHANGED vars)
    BY <1>6 DEF CallDelete, CallDeleteLost
  <2> HIDE DEF r
  <2>2. QED
    BY <1>1, <2>1 DEF DriverMoves
<1>7. CASE CallReadDirectory \/ CallChangeDir \/ Prompt
  BY <1>7 DEF CallReadDirectory, CallChangeDir, Prompt, DriverMoves
<1>8. CASE RunCommand
  BY <1>8, BeginningReads DEF DriverMoves
<1>9. CASE UNCHANGED allVars
  BY <1>9 DEF allVars, DriverMoves
<1>10. QED
  BY <1>2, <1>3, <1>4, <1>5, <1>6, <1>7, <1>8, <1>9 DEF ShellNext

LEMMA WholeUnderShell ==
  ASSUME ShellInv, WholeInv, [ShellNext]_allVars
  PROVE  WholeInv'
<1>1. DriverMoves /\ DriverInv
  BY ShellMoves DEF ShellInv
<1>2. CASE UNCHANGED vars
  BY <1>2 DEF vars, WholeInv
<1>3. CASE initialize_filesystem_fat32
  BY <1>1, <1>3, WholeStarts
<1>4. CASE \E r \in AnyRequest : write(r)
  BY <1>1, <1>4, WholeWrites
<1>5. CASE \E r \in AnyRequest : delete(r) \/ DeleteLost(r)
  <2>1. \A r \in AnyRequest : r.parent \in Clusters
    BY DEF AnyRequest
  <2>2. QED
    BY <1>1, <1>5, <2>1, WholeDeletes
<1>6. CASE PowerOff \/ CrashInFormat \/ \E r \in AnyRequest : CrashInWrite(r) \/ CrashInDelete(r)
  BY <1>1, <1>6, WholeStops
<1>7. QED
  BY <1>1, <1>2, <1>3, <1>4, <1>5, <1>6 DEF DriverMoves

LEMMA InitWhole == ShellInit => WholeInv
<1>1. ASSUME ShellInit
      PROVE  WholeInv
  <2>1. Init /\ DriverInv
    BY <1>1, DriverInit DEF ShellInit
  <2>2. disk[0] = Zero /\ \A c \in Clusters : disk[c] = Zero
    BY <2>1, ClusterBasics DEF Init
  <2>3. disk[0] # Signature
    BY <2>2, Kinds
  <2>4. QED
    BY <2>1, <2>2, <2>3 DEF Init, WholeInv
<1>2. QED
  BY <1>1

LEMMA ShellIsTyped == ShellSpec => []ShellInv
<1>1. ShellInit => ShellInv
  BY ShellStarts
<1>2. ShellInv /\ [ShellNext]_allVars => ShellInv'
  BY ShellStep
<1>3. QED
  BY <1>1, <1>2, PTL DEF ShellSpec

LEMMA ShellKeepsTheTree == ShellSpec => []WholeInv
<1>1. ShellInit => WholeInv
  BY InitWhole
<1>2. ShellInv /\ WholeInv /\ [ShellNext]_allVars => WholeInv'
  BY WholeUnderShell
<1>3. QED
  BY <1>1, <1>2, ShellIsTyped, PTL DEF ShellSpec

(* usermode/ over fat32.c: no command typed in the shell, and no file put  *)
(* on the disk from the host, makes two entries share a cluster, loses one *)
(* or leaves a folder that no path leads to: also not a name of eight      *)
(* bytes that was copied without its zeros, nor the empty name that mv     *)
(* makes of "..".                                                          *)
THEOREM ShellKeepsOwners == ShellSpec => [](EveryClusterHasOneOwner /\ TreeIsRooted)
<1>1. ShellInv /\ WholeInv => EveryClusterHasOneOwner /\ TreeIsRooted
  BY OneOwner, Rooted DEF ShellInv
<1>2. QED
  BY <1>1, ShellIsTyped, ShellKeepsTheTree, PTL

-----------------------------------------------------------------------------
(* What is left of a command.                                              *)

LEMMA OneCall ==
  ASSUME NEW a
  PROVE  /\ Len(<<a>>) = 1 /\ Tail(<<a>>) = << >> /\ Head(<<a>>) = a /\ <<a>> # << >>
         /\ << >> \o <<a>> = <<a>>
         /\ \A i \in DOMAIN <<a>> : <<a>>[i] = a
OBVIOUS

LEMMA TwoCalls ==
  ASSUME NEW a, NEW b
  PROVE  /\ Len(<<a, b>>) = 2 /\ Tail(<<a, b>>) = <<b>> /\ Head(<<a, b>>) = a
         /\ <<a, b>> # << >> /\ <<a, b>>[2] = b
         /\ <<a>> \o <<b>> = <<a, b>> /\ <<a, b>> \o << >> = <<a, b>>
         /\ \A i \in DOMAIN <<a, b>> : <<a, b>>[i] \in {a, b}
<1>1. /\ Len(<<a, b>>) = 2 /\ Tail(<<a, b>>) = <<b>> /\ Head(<<a, b>>) = a
      /\ <<a, b>> # << >> /\ <<a, b>>[2] = b
      /\ <<a, b>> \o << >> = <<a, b>>
  OBVIOUS
<1>2. <<a>> \o <<b>> = <<a, b>>
  <2> DEFINE S == {a, b}
             s == <<a>> \o <<b>>
  <2>1. <<a>> \in Seq(S) /\ <<b>> \in Seq(S) /\ <<a, b>> \in Seq(S)
    OBVIOUS
  <2>2. s \in Seq(S) /\ Len(s) = 2 /\ s[1] = a /\ s[2] = b
    BY <2>1, ConcatProperties
  <2> HIDE DEF S, s
  <2>3. \A i \in 1 .. 2 : s[i] = <<a, b>>[i]
    BY <2>2
  <2>4. s = <<a, b>>
    BY <2>1, <2>2, <2>3, SeqEqual
  <2>5. QED
    BY <2>4 DEF s
<1>3. \A i \in DOMAIN <<a, b>> : <<a, b>>[i] \in {a, b}
  OBVIOUS
<1>4. QED
  BY <1>1, <1>2, <1>3

LEMMA ThreeCalls ==
  ASSUME NEW a, NEW b, NEW c
  PROVE  /\ Len(<<a, b, c>>) = 3 /\ Tail(<<a, b, c>>) = <<b, c>> /\ Head(<<a, b, c>>) = a
         /\ <<a, b, c>> # << >> /\ <<a, b, c>>[2] = b
         /\ \A i \in DOMAIN <<a, b, c>> : <<a, b, c>>[i] \in {a, b, c}
<1>1. /\ Len(<<a, b, c>>) = 3 /\ Tail(<<a, b, c>>) = <<b, c>> /\ Head(<<a, b, c>>) = a
      /\ <<a, b, c>> # << >> /\ <<a, b, c>>[2] = b
  OBVIOUS
<1>2. \A i \in DOMAIN <<a, b, c>> : <<a, b, c>>[i] \in {a, b, c}
  OBVIOUS
<1>3. QED
  BY <1>1, <1>2

LEMMA Joined ==
  ASSUME NEW a, NEW b, NEW c
  PROVE  /\ << >> \o <<c>> = <<c>> /\ <<a>> \o <<c>> = <<a, c>>
         /\ <<a, b>> \o <<c>> = <<a, b, c>> /\ <<a, b>> \o << >> = <<a, b>>
<1>1. << >> \o <<c>> = <<c>> /\ <<a, b>> \o << >> = <<a, b>>
  OBVIOUS
<1>2. <<a>> \o <<c>> = <<a, c>>
  BY TwoCalls
<1>3. <<a, b>> \o <<c>> = <<a, b, c>>
  <2> DEFINE S == {a, b, c}
             s == <<a, b>> \o <<c>>
  <2>1. <<a, b>> \in Seq(S) /\ <<c>> \in Seq(S) /\ <<a, b, c>> \in Seq(S)
    OBVIOUS
  <2>2. s \in Seq(S) /\ Len(s) = 3 /\ s[1] = a /\ s[2] = b /\ s[3] = c
    BY <2>1, ConcatProperties
  <2> HIDE DEF S, s
  <2>3. \A i \in 1 .. 3 : s[i] = <<a, b, c>>[i]
    BY <2>2
  <2>4. s = <<a, b, c>>
    BY <2>1, <2>2, <2>3, SeqEqual
  <2>5. QED
    BY <2>4 DEF s
<1>4. QED
  BY <1>1, <1>2, <1>3

RootRequest == Request("root", TRUE, "", ROOT_CLUSTER_NUMBER, 0, Blank)

Sound(call) ==
  /\ AllNamesPadded /\ call.op \in {"WRITE", "DELETE"} => call.req.padded
  /\ call.op = "READ_DIRECTORY" => call.req = RootRequest
AllSound(calls) == \A i \in DOMAIN calls : Sound(calls[i])

(* What rename deletes is what it was asked to rename, with or without its *)
(* extension.                                                              *)
Takes(r, from) ==
  r.parent = from.parent /\ r.name = from.name /\ (r.ext = from.ext \/ r.ext = "")
OnlyTakes(calls, from) ==
  /\ from \in AnyRequest
  /\ \A i \in DOMAIN calls : calls[i].op = "DELETE" => Takes(calls[i].req, from)

WriteLeft ==
  /\ cmd.to \in AnyRequest /\ cmd.to.size = 1
  /\ todo \in {WritefCalls(cmd.to), <<Call("WRITE", cmd.to, Codes)>>, << >>}

SameBut(from, to) ==
  /\ from \in AnyRequest /\ from.name \in Names
  /\ from.size = IF from.ext = "" THEN 0 ELSE 1
  /\ to \in AnyRequest
  /\ to.name = from.name /\ to.padded = from.padded /\ to.ext = from.ext /\ to.size = from.size
CopyFirst(from, to) == <<Call("WRITE", to, Codes), Call("DELETE", from, {0}), ChangeDir>>
DeleteNext(from)    == <<Call("DELETE", from, {0}), ChangeDir>>
MoveLeft ==
  /\ SameBut(cmd.from, cmd.to)
  /\ todo \in {CopyFirst(cmd.from, cmd.to), DeleteNext(cmd.from), <<ChangeDir>>, << >>}

PendingInv ==
  /\ mode \in {"off", "inserting", "ready"} => todo = << >> /\ cmd.name \in {"none", "insert"}
  /\ AllSound(todo)
  /\ cmd.name = "rename" => OnlyTakes(todo, cmd.from)
  /\ cmd.name = "write" => WriteLeft
  /\ cmd.name = "mv" => MoveLeft

LEMMA CallFields ==
  ASSUME NEW op, NEW r, NEW after
  PROVE  Call(op, r, after).op = op /\ Call(op, r, after).req = r
         /\ Call(op, r, after).after = after
BY DEF Call

LEMMA CommandFields ==
  ASSUME NEW name, NEW from, NEW to
  PROVE  /\ Command(name, from, to).name = name
         /\ Command(name, from, to).from = from /\ Command(name, from, to).to = to
BY DEF Command

(* A call returns: what is left was there before.                          *)
LEMMA ReturnsLess ==
  ASSUME ShellInv, todo # << >>, NEW code, Returns(code)
  PROVE  \A j \in DOMAIN todo' : \E i \in DOMAIN todo : todo'[j] = todo[i]
<1>1. todo \in Seq(Calls) /\ Len(todo) \in Nat /\ DOMAIN todo = 1 .. Len(todo)
  BY LenProperties DEF ShellInv
<1>2. /\ Tail(todo) \in Seq(Calls) /\ Len(Tail(todo)) = Len(todo) - 1
      /\ \A i \in 1 .. Len(Tail(todo)) : Tail(todo)[i] = todo[i + 1]
  BY <1>1, HeadTailProperties
<1>3. \A j \in DOMAIN Tail(todo) : \E i \in DOMAIN todo : Tail(todo)[j] = todo[i]
  <2>1. DOMAIN Tail(todo) = 1 .. Len(Tail(todo))
    BY <1>2, LenProperties
  <2>2. \A j \in DOMAIN Tail(todo) : j + 1 \in DOMAIN todo
    BY <1>1, <1>2, <2>1
  <2>3. QED
    BY <1>2, <2>1, <2>2
<1>4. CASE Len(todo) > 1 /\ todo' = Tail(Tail(todo))
  <2> DEFINE t == Tail(todo)
  <2>1. t \in Seq(Calls) /\ Len(t) \in Nat /\ DOMAIN t = 1 .. Len(t) /\ t # << >>
    <3>1. Len(<< >>) = 0 /\ Len(t) # 0
      BY <1>1, <1>2, <1>4
    <3>2. t \in Seq(Calls) /\ Len(t) \in Nat /\ DOMAIN t = 1 .. Len(t)
      BY <1>2, LenProperties
    <3>3. QED
      BY <3>1, <3>2
  <2> HIDE DEF t
  <2>2. /\ Tail(t) \in Seq(Calls) /\ Len(Tail(t)) = Len(t) - 1
        /\ \A i \in 1 .. Len(Tail(t)) : Tail(t)[i] = t[i + 1]
    BY <2>1, HeadTailProperties
  <2>3. DOMAIN Tail(t) = 1 .. Len(Tail(t))
    BY <2>2, LenProperties
  <2>4. \A j \in DOMAIN Tail(t) : j + 1 \in DOMAIN t
    BY <2>1, <2>2, <2>3
  <2>5. \A j \in DOMAIN Tail(t) : \E i \in DOMAIN t : Tail(t)[j] = t[i]
    BY <2>2, <2>3, <2>4
  <2>6. \A i \in DOMAIN t : \E k \in DOMAIN todo : t[i] = todo[k]
    BY <1>3 DEF t
  <2>7. todo' = Tail(t)
    BY <1>4 DEF t
  <2>8. QED
    BY <2>5, <2>6, <2>7
<1>5. todo' = Tail(todo) \/ (Len(todo) > 1 /\ todo' = Tail(Tail(todo)))
  BY DEF Returns
<1>6. QED
  BY <1>3, <1>4, <1>5

LEMMA WriteReturns ==
  ASSUME WriteLeft, todo # << >>, NEW code, Returns(code), cmd' = cmd
  PROVE  WriteLeft'
<1> DEFINE a == Call("DELETE", cmd.to, Codes)
           b == Call("WRITE", cmd.to, Codes)
<1>1. WritefCalls(cmd.to) = <<a, b>>
  BY DEF WritefCalls, AnyCode
<1>2. todo = <<a, b>> \/ todo = <<b>>
  BY <1>1 DEF WriteLeft
<1>3. todo' = Tail(todo) \/ (Len(todo) > 1 /\ todo' = Tail(Tail(todo)))
  BY DEF Returns
<1>4. todo' \in {<<b>>, << >>}
  <2> HIDE DEF a, b
  <2>1. /\ Len(<<b>>) = 1 /\ Tail(<<b>>) = << >>
        /\ Len(<<a, b>>) = 2 /\ Tail(<<a, b>>) = <<b>>
    BY OneCall, TwoCalls, ThreeCalls
  <2>2. CASE todo = <<a, b>>
    <3>1. Tail(todo) = <<b>> /\ Tail(Tail(todo)) = << >>
      BY <2>1, <2>2
    <3>2. QED
      BY <1>3, <3>1
  <2>3. CASE todo = <<b>>
    <3>1. Tail(todo) = << >> /\ ~(Len(todo) > 1)
      BY <2>1, <2>3
    <3>2. QED
      BY <1>3, <3>1
  <2>4. QED
    BY <1>2, <2>2, <2>3
<1>5. QED
  BY <1>4 DEF WriteLeft

LEMMA MoveReturns ==
  ASSUME MoveLeft, todo # << >>, NEW code, Returns(code), cmd' = cmd
  PROVE  MoveLeft'
<1> DEFINE a == Call("WRITE", cmd.to, Codes)
           b == Call("DELETE", cmd.from, {0})
           c == ChangeDir
<1>1. todo = <<a, b, c>> \/ todo = <<b, c>> \/ todo = <<c>>
  BY DEF MoveLeft, CopyFirst, DeleteNext
<1>2. todo' = Tail(todo) \/ (Len(todo) > 1 /\ todo' = Tail(Tail(todo)))
  BY DEF Returns
<1>3. todo' \in {<<b, c>>, <<c>>, << >>}
  <2> HIDE DEF a, b, c
  <2>1. /\ Len(<<c>>) = 1 /\ Tail(<<c>>) = << >>
        /\ Len(<<b, c>>) = 2 /\ Tail(<<b, c>>) = <<c>>
        /\ Len(<<a, b, c>>) = 3 /\ Tail(<<a, b, c>>) = <<b, c>>
    BY OneCall, TwoCalls, ThreeCalls
  <2>2. CASE todo = <<a, b, c>>
    <3>1. Tail(todo) = <<b, c>> /\ Tail(Tail(todo)) = <<c>>
      BY <2>1, <2>2
    <3>2. QED
      BY <1>2, <3>1
  <2>3. CASE todo = <<b, c>>
    <3>1. Tail(todo) = <<c>> /\ Tail(Tail(todo)) = << >>
      BY <2>1, <2>3
    <3>2. QED
      BY <1>2, <3>1
  <2>4. CASE todo = <<c>>
    <3>1. Tail(todo) = << >> /\ ~(Len(todo) > 1)
      BY <2>1, <2>4
    <3>2. QED
      BY <1>2, <3>1
  <2>5. QED
    BY <1>1, <2>2, <2>3, <2>4
<1>4. SameBut(cmd'.from, cmd'.to)
  BY DEF MoveLeft
<1>5. QED
  BY <1>3, <1>4 DEF MoveLeft, DeleteNext

LEMMA ReturnsPending ==
  ASSUME ShellInv, PendingInv, mode = "busy", todo # << >>, NEW code, Returns(code)
  PROVE  PendingInv'
<1>1. mode' = mode /\ cmd' = cmd
  BY DEF Returns
<1>2. \A j \in DOMAIN todo' : \E i \in DOMAIN todo : todo'[j] = todo[i]
  BY ReturnsLess
<1>3. AllSound(todo')
  BY <1>2 DEF PendingInv, AllSound
<1>4. cmd'.name = "rename" => OnlyTakes(todo', cmd'.from)
  BY <1>1, <1>2 DEF PendingInv, OnlyTakes
<1>5. cmd'.name = "write" => WriteLeft'
  BY <1>1, WriteReturns DEF PendingInv
<1>6. cmd'.name = "mv" => MoveLeft'
  BY <1>1, MoveReturns DEF PendingInv
<1>7. QED
  BY <1>1, <1>3, <1>4, <1>5, <1>6 DEF PendingInv

-----------------------------------------------------------------------------
(* A command begins with calls that PendingInv allows.                     *)

LEMMA CallsAreSound ==
  ASSUME NEW r, NEW after, AllNamesPadded => r.padded
  PROVE  /\ Sound(Call("WRITE", r, after))
         /\ Sound(Call("DELETE", r, after))
         /\ Sound(Call("CHANGE_DIR", r, after))
BY DEF Sound, Call

LEMMA SoundTuples ==
  ASSUME NEW a, NEW b, NEW c
  PROVE  /\ AllSound(<< >>)
         /\ Sound(a) => AllSound(<<a>>)
         /\ Sound(a) /\ Sound(b) => AllSound(<<a, b>>)
         /\ Sound(a) /\ Sound(b) /\ Sound(c) => AllSound(<<a, b, c>>)
<1>1. AllSound(<< >>)
  BY DEF AllSound
<1>2. Sound(a) => AllSound(<<a>>)
  BY OneCall, Zenon DEF AllSound
<1>3. ASSUME Sound(a), Sound(b)
      PROVE  AllSound(<<a, b>>)
  <2> DEFINE s == <<a, b>>
  <2>1. \A i \in DOMAIN s : s[i] = a \/ s[i] = b
    BY TwoCalls
  <2> HIDE DEF s
  <2>2. AllSound(s)
    BY <1>3, <2>1, Zenon DEF AllSound
  <2>3. QED
    BY <2>2 DEF s
<1>4. ASSUME Sound(a), Sound(b), Sound(c)
      PROVE  AllSound(<<a, b, c>>)
  <2> DEFINE s == <<a, b, c>>
  <2>1. \A i \in DOMAIN s : s[i] = a \/ s[i] = b \/ s[i] = c
    BY ThreeCalls
  <2> HIDE DEF s
  <2>2. AllSound(s)
    BY <1>4, <2>1, Zenon DEF AllSound
  <2>3. QED
    BY <2>2 DEF s
<1>5. QED
  BY <1>1, <1>2, <1>3, <1>4

LEMMA BeginsPending ==
  ASSUME NEW command, NEW calls, NEW table, Begin(command, calls, table), AllSound(calls),
         command.name = "rename" => OnlyTakes(calls, command.from),
         command.name \notin {"write", "mv"}
  PROVE  PendingInv'
<1>1. mode' = "busy" /\ cmd' = command /\ todo' = calls
  BY DEF Begin
<1>2. QED
  BY <1>1 DEF PendingInv

LEMMA PaddedIfAllAre ==
  ASSUME NEW r, r.padded \in Paddings
  PROVE  AllNamesPadded => r.padded
BY Fat32Assumption, Zenon DEF AllNamesPadded

LEMMA MakesPending ==
  ASSUME ShellInv, NothingDone \/ EntryMade \/ FileReplaced \/ EntryRemoved
  PROVE  PendingInv'
<1>1. CASE NothingDone
  <2>1. PICK table : Begin(NoCommand, << >>, table)
    BY <1>1 DEF NothingDone, Finish
  <2>2. NoCommand.name = "none"
    BY CommandFields DEF NoCommand
  <2>3. AllSound(<< >>)
    BY SoundTuples
  <2>4. QED
    BY <2>1, <2>2, <2>3, BeginsPending
<1>2. CASE EntryMade
  <2>1. PICK command \in {"mkdir", "txt"}, r \in AnyRequest :
          /\ r.padded \in Paddings
          /\ Begin(Command(command, NoRequest, r), <<Call("WRITE", r, Codes)>>, curr_dir)
    BY <1>2 DEF EntryMade
  <2>2. AllSound(<<Call("WRITE", r, Codes)>>)
    BY <2>1, PaddedIfAllAre, CallsAreSound, SoundTuples
  <2>3. Command(command, NoRequest, r).name = command
    BY CommandFields
  <2>4. QED
    BY <2>1, <2>2, <2>3, BeginsPending
<1>3. CASE FileReplaced
  <2>1. PICK r \in AnyRequest :
          /\ r.padded \in Paddings /\ r.size = 1
          /\ Begin(Command("write", NoRequest, r), WritefCalls(r), curr_dir)
    BY <1>3 DEF FileReplaced
  <2> DEFINE a == Call("DELETE", r, AnyCode)
             b == Call("WRITE", r, AnyCode)
  <2>2. Sound(a) /\ Sound(b)
    BY <2>1, PaddedIfAllAre, CallsAreSound
  <2>3. WritefCalls(r) = <<a, b>>
    BY DEF WritefCalls
  <2>4. AllSound(WritefCalls(r))
    <3> HIDE DEF a, b
    <3> QED
      BY <2>2, <2>3, SoundTuples
  <2>5. /\ Command("write", NoRequest, r).name = "write"
        /\ Command("write", NoRequest, r).to = r
    BY CommandFields
  <2>6. mode' = "busy" /\ cmd'.name = "write" /\ cmd'.to = r /\ todo' = WritefCalls(r)
    BY <2>1, <2>5 DEF Begin
  <2>7. WriteLeft'
    BY <2>1, <2>6 DEF WriteLeft
  <2>8. QED
    BY <2>4, <2>6, <2>7 DEF PendingInv
<1>4. CASE EntryRemoved
  <2>1. PICK r \in AnyRequest :
          /\ r.padded \in Paddings
          /\ Begin(Command("rm", r, NoRequest), <<Call("DELETE", r, Codes)>>, Table(cwd))
    BY <1>4 DEF EntryRemoved
  <2>2. AllSound(<<Call("DELETE", r, Codes)>>)
    BY <2>1, PaddedIfAllAre, CallsAreSound, SoundTuples
  <2>3. Command("rm", r, NoRequest).name = "rm"
    BY CommandFields
  <2>4. QED
    BY <2>1, <2>2, <2>3, BeginsPending
<1>5. QED
  BY <1>1, <1>2, <1>3, <1>4

LEMMA TransferPending ==
  ASSUME ShellInv, EntryTransferred
  PROVE  PendingInv'
<1> DEFINE copy(src, c) == [src EXCEPT !.parent = c, !.text = TextRead(src)]
<1>0. PICK command \in {"cp", "mv"}, src \in AnyRequest, parent \in Clusters,
           go \in BOOLEAN :
          \E table :
          /\ src.name \in Names /\ src.padded \in Paddings
          /\ src.size = IF src.ext = "" THEN 0 ELSE 1
          /\ copy(src, parent) \in AnyRequest
          /\ Begin(Command(command, src, copy(src, parent)),
                   Transfer(command, src, copy(src, parent), go) \o <<ChangeDir>>, table)
  BY DEF EntryTransferred
<1>1. PICK table :
        /\ src.name \in Names /\ src.padded \in Paddings
        /\ src.size = IF src.ext = "" THEN 0 ELSE 1
        /\ copy(src, parent) \in AnyRequest
        /\ Begin(Command(command, src, copy(src, parent)),
                 Transfer(command, src, copy(src, parent), go) \o <<ChangeDir>>, table)
  BY <1>0
<1> DEFINE dst == copy(src, parent)
           a == Call("WRITE", dst, Codes)
           b == Call("DELETE", src, {0})
           c == ChangeDir
           calls == Transfer(command, src, dst, go)
<1>2. /\ dst.name = src.name /\ dst.padded = src.padded /\ dst.ext = src.ext
      /\ dst.size = src.size
  BY <1>1 DEF AnyRequest
<1>3. SameBut(src, dst) /\ dst \in AnyRequest
  BY <1>1, <1>2 DEF SameBut
<1>4. Begin(Command(command, src, dst), calls \o <<c>>, table)
  BY <1>1
<1> HIDE DEF dst
<1>5. CopyCalls(src, dst) = <<a>> /\ MoveCalls(src, dst) = <<a, b>>
  BY DEF CopyCalls, MoveCalls, AnyCode
<1>6. Sound(a) /\ Sound(b) /\ Sound(c)
  <2>1. (AllNamesPadded => src.padded) /\ (AllNamesPadded => dst.padded)
    BY <1>1, <1>2, PaddedIfAllAre
  <2>2. NoRequest.padded
    BY DEF NoRequest, Request
  <2>3. QED
    BY <2>1, <2>2, CallsAreSound DEF ChangeDir
<1>7. /\ calls = << >> \/ calls = <<a>> \/ calls = <<a, b>>
      /\ calls = <<a>> => command = "cp" 
      /\ command = "mv" => calls = << >> \/ calls = <<a, b>>
  <2> HIDE DEF a, b
  <2>1. <<a>> # << >> /\ <<a, b>> # << >>
    BY OneCall, TwoCalls, ThreeCalls
  <2>2. <<a>> # <<a, b>>
    <3>1. Len(<<a>>) = 1 /\ Len(<<a, b>>) = 2
      BY OneCall, TwoCalls, ThreeCalls
    <3>2. QED
      BY <3>1
  <2>3. QED
    BY <1>1, <1>5, <2>1, <2>2 DEF Transfer
<1>8. calls \o <<c>> \in {<<c>>, <<a, c>>, <<a, b, c>>}
  <2> HIDE DEF a, b, c, calls
  <2>1. /\ << >> \o <<c>> = <<c>> /\ <<a>> \o <<c>> = <<a, c>>
        /\ <<a, b>> \o <<c>> = <<a, b, c>> /\ <<a, b>> \o << >> = <<a, b>>
    BY Joined
  <2>2. QED
    BY <1>7, <2>1
<1>9. AllSound(calls \o <<c>>)
  <2> HIDE DEF a, b, c, calls
  <2>1. AllSound(<<c>>) /\ AllSound(<<a, c>>) /\ AllSound(<<a, b, c>>)
    BY <1>6, SoundTuples
  <2>2. QED
    BY <1>8, <2>1
<1>10. CASE command = "cp"
  <2>1. Command(command, src, dst).name = "cp"
    BY <1>10, CommandFields
  <2> HIDE DEF calls, c
  <2>2. QED
    BY <1>4, <1>9, <2>1, BeginsPending
<1>11. CASE command = "mv"
  <2>1. /\ Command(command, src, dst).name = "mv"
        /\ Command(command, src, dst).from = src /\ Command(command, src, dst).to = dst
    BY <1>11, CommandFields
  <2>2. mode' = "busy" /\ cmd'.name = "mv" /\ cmd'.from = src /\ cmd'.to = dst
        /\ todo' = calls \o <<c>>
    BY <1>4, <2>1 DEF Begin
  <2>3. calls \o <<c>> \in {<<c>>, <<a, b, c>>}
    <3> HIDE DEF a, b, c, calls
    <3>1. /\ << >> \o <<c>> = <<c>> /\ <<a>> \o <<c>> = <<a, c>>
          /\ <<a, b>> \o <<c>> = <<a, b, c>> /\ <<a, b>> \o << >> = <<a, b>>
      BY Joined
    <3>2. QED
      BY <1>7, <1>11, <3>1
  <2>4. <<a, b, c>> = CopyFirst(src, dst) /\ <<c>> = <<ChangeDir>>
    BY DEF CopyFirst
  <2>5. MoveLeft'
    <3> HIDE DEF a, b, c, calls
    <3> QED
      BY <1>3, <2>2, <2>3, <2>4 DEF MoveLeft
  <2>6. QED
    BY <1>9, <2>2, <2>5 DEF PendingInv
<1>12. QED
  BY <1>10, <1>11

LEMMA RenamePending ==
  ASSUME ShellInv, EntryRenamed
  PROVE  PendingInv'
<1>1. PICK src \in AnyRequest, dst \in AnyRequest, clean \in BOOLEAN :
        /\ src.padded \in Paddings /\ src.size = 0 /\ dst.padded /\ dst.size = 0
        /\ Begin(Command("rename", src, dst),
                 IF dst.ext # "" THEN RenameFileCalls(src, dst)
                                 ELSE RenameFolderCalls(src, dst, clean),
                 Table(cwd))
  BY DEF EntryRenamed
<1> DEFINE full == [dst EXCEPT !.size = 1, !.text = TextRead([src EXCEPT !.size = 1])]
           plain == [src EXCEPT !.ext = ""]
           calls == IF dst.ext # "" THEN RenameFileCalls(src, dst)
                                    ELSE RenameFolderCalls(src, dst, clean)
           c1 == Call("WRITE", full, Codes)
           c2 == Call("DELETE", src, Codes)
           c3 == Call("DELETE", plain, Codes)
           c4 == Call("WRITE", dst, Codes)
           c5 == Call("WRITE", plain, {1})
<1>2. /\ full.ext = dst.ext /\ full.size = 1 /\ full.padded = dst.padded
      /\ plain.ext = "" /\ plain.size = 0 /\ plain.padded = src.padded
      /\ plain.parent = src.parent /\ plain.name = src.name
  BY <1>1 DEF AnyRequest
<1>3. RenameFileCalls(src, dst) = <<c1, c2>>
  BY DEF RenameFileCalls, AnyCode
<1>4. RenameFolderCalls(src, dst, clean) = <<c3, c4>> \o IF clean THEN <<c5>> ELSE << >>
  BY DEF RenameFolderCalls, AnyCode
<1>5. calls \in {<<c1, c2>>, <<c3, c4, c5>>, <<c3, c4>>}
  <2> HIDE DEF c1, c2, c3, c4, c5
  <2>1. <<c3, c4>> \o <<c5>> = <<c3, c4, c5>> /\ <<c3, c4>> \o << >> = <<c3, c4>>
    BY Joined
  <2>2. CASE dst.ext # ""
    BY <1>3, <2>2
  <2>3. CASE dst.ext = ""
    BY <1>4, <2>1, <2>3
  <2>4. QED
    BY <2>2, <2>3
<1>6. Sound(c1) /\ Sound(c2) /\ Sound(c3) /\ Sound(c4) /\ Sound(c5)
  <2>1. /\ AllNamesPadded => src.padded
        /\ AllNamesPadded => plain.padded
        /\ AllNamesPadded => full.padded
        /\ AllNamesPadded => dst.padded
    BY <1>1, <1>2, PaddedIfAllAre
  <2> HIDE DEF full, plain
  <2>2. QED
    BY <1>1, <1>2, <2>1, CallsAreSound
<1>7. AllSound(calls)
  <2> HIDE DEF c1, c2, c3, c4, c5, calls
  <2>1. AllSound(<<c1, c2>>) /\ AllSound(<<c3, c4>>) /\ AllSound(<<c3, c4, c5>>)
    BY <1>6, SoundTuples
  <2>2. QED
    BY <1>5, <2>1
<1>8. OnlyTakes(calls, src)
  <2> HIDE DEF full, plain
  <2>1. /\ c1.op = "WRITE" /\ c4.op = "WRITE" /\ c5.op = "WRITE"
        /\ c2.req = src /\ c3.req = plain
    BY DEF Call
  <2>2. Takes(src, src) /\ Takes(plain, src)
    BY <1>2 DEF Takes
  <2> HIDE DEF c1, c2, c3, c4, c5, calls
  <2>3. \A i \in DOMAIN calls : calls[i] \in {c1, c2, c3, c4, c5}
    <3>1. /\ \A i \in DOMAIN <<c1, c2>> : <<c1, c2>>[i] \in {c1, c2}
          /\ \A i \in DOMAIN <<c3, c4>> : <<c3, c4>>[i] \in {c3, c4}
          /\ \A i \in DOMAIN <<c3, c4, c5>> : <<c3, c4, c5>>[i] \in {c3, c4, c5}
      BY TwoCalls, ThreeCalls
    <3>2. /\ \A i \in DOMAIN <<c1, c2>> : <<c1, c2>>[i] \in {c1, c2, c3, c4, c5}
          /\ \A i \in DOMAIN <<c3, c4>> : <<c3, c4>>[i] \in {c1, c2, c3, c4, c5}
          /\ \A i \in DOMAIN <<c3, c4, c5>> : <<c3, c4, c5>>[i] \in {c1, c2, c3, c4, c5}
      BY <3>1
    <3>3. QED
      BY <1>5, <3>2
  <2>4. QED
    BY <2>1, <2>2, <2>3 DEF OnlyTakes
<1>9. Command("rename", src, dst).name = "rename" /\ Command("rename", src, dst).from = src
  BY CommandFields
<1>10. Begin(Command("rename", src, dst), calls, Table(cwd))
  BY <1>1
<1> HIDE DEF calls
<1>11. QED
  BY <1>7, <1>8, <1>9, <1>10, BeginsPending

LEMMA StartupIsSound == AllSound(StartupCalls)
<1> DEFINE call(i) == Call("WRITE", Request(StartupFiles[i][1], TRUE, "txt",
                                            ROOT_CLUSTER_NUMBER, 1, StartupFiles[i][2]),
                           Codes)
           last == Call("READ_DIRECTORY", RootRequest, Codes)
           files == [i \in DOMAIN StartupFiles |-> call(i)]
           n == Len(StartupFiles)
<1>1. n \in Nat /\ DOMAIN StartupFiles = 1 .. n
  BY ShellBasics, LenProperties
<1>2. \A i \in 1 .. n : Sound(call(i))
  BY DEF Sound, Call, Request
<1>3. Sound(last)
  BY DEF Sound, Call
<1>4. StartupCalls = files \o <<last>> /\ \A i \in 1 .. n : files[i] = call(i)
  BY <1>1 DEF StartupCalls, RootRequest
<1>5. files \in Seq({files[i] : i \in 1 .. n}) /\ Len(files) = n
  <2>1. files \in [1 .. n -> {files[i] : i \in 1 .. n}]
    BY <1>1
  <2> HIDE DEF files
  <2>2. files \in Seq({files[i] : i \in 1 .. n})
    BY <1>1, <2>1, SeqDef
  <2>3. Len(files) = n
    BY <1>1, <2>1, LenIs
  <2>4. QED
    BY <2>2, <2>3
<1> DEFINE S == {files[i] : i \in 1 .. n} \cup {last}
<1>6. files \in Seq(S) /\ <<last>> \in Seq(S) /\ Len(<<last>>) = 1 /\ <<last>>[1] = last
  <2>1. files \in [1 .. n -> S]
    BY <1>1
  <2>2. last \in S
    OBVIOUS
  <2> HIDE DEF files, S, last
  <2>3. files \in Seq(S)
    BY <1>1, <2>1, SeqDef
  <2>4. QED
    BY <2>2, <2>3
<1> HIDE DEF files, last, S
<1>7. /\ Len(StartupCalls) = n + 1
      /\ \A i \in 1 .. n + 1 : StartupCalls[i] = IF i <= n THEN files[i] ELSE <<last>>[i - n]
  BY <1>1, <1>4, <1>5, <1>6, ConcatProperties
<1>8. DOMAIN StartupCalls = 1 .. n + 1
  BY <1>7, StartupTyped, LenProperties
<1>9. \A i \in DOMAIN StartupCalls : i \in 1 .. n \/ i = n + 1
  BY <1>1, <1>8
<1>10. \A i \in 1 .. n : StartupCalls[i] = call(i)
  <2> HIDE DEF call
  <2>1. \A i \in 1 .. n : i \in 1 .. n + 1 /\ i <= n
    BY <1>1
  <2>2. QED
    BY <1>4, <1>7, <2>1
<1>11. StartupCalls[n + 1] = last
  BY <1>1, <1>6, <1>7
<1>12. ASSUME NEW i \in DOMAIN StartupCalls
       PROVE  Sound(StartupCalls[i])
  <2>1. CASE i \in 1 .. n
    <3>1. Sound(call(i)) /\ StartupCalls[i] = call(i)
      BY <1>2, <1>10, <2>1
    <3> HIDE DEF call
    <3>2. QED
      BY <3>1, Zenon
  <2>2. CASE i = n + 1
    BY <1>3, <1>11, <2>2, Zenon
  <2>3. QED
    BY <1>9, <2>1, <2>2
<1>13. QED
  BY <1>12, Zenon DEF AllSound

LEMMA PendingInit == ShellInit => PendingInv
<1>1. ASSUME ShellInit
      PROVE  PendingInv
  <2>1. mode = "off" /\ todo = << >> /\ cmd.name = "none"
    BY <1>1 DEF ShellInit, NoCommand, Command
  <2>2. AllSound(todo)
    BY <2>1, SoundTuples
  <2>3. QED
    BY <2>1, <2>2 DEF PendingInv
<1>2. QED
  BY <1>1

LEMMA PendingStep ==
  ASSUME ShellInv, PendingInv, [ShellNext]_allVars
  PROVE  PendingInv'
<1>1. AllSound(<< >>) /\ NoCommand.name = "none"
  <2>1. NoCommand.name = "none"
    BY DEF NoCommand, Command
  <2>2. QED
    BY <2>1, SoundTuples
<1>2. CASE Start
  <2>1. mode = "off" /\ mode' = "busy" /\ todo' = StartupCalls /\ cmd' = cmd
    BY <1>2 DEF Start
  <2>2. cmd.name \in {"none", "insert"}
    BY <2>1 DEF PendingInv
  <2>3. AllSound(todo')
    BY <2>1, StartupIsSound
  <2>4. mode' = "busy" /\ cmd'.name \in {"none", "insert"}
    BY <2>1, <2>2
  <2>5. QED
    BY <2>3, <2>4 DEF PendingInv
<1>3. CASE StartInserter
  BY <1>3 DEF StartInserter, PendingInv
<1>4. CASE Insert
  <2>1. mode' = "inserting" /\ todo' = << >>
    BY <1>4 DEF Insert, PendingInv
  <2>2. cmd'.name = "insert"
    <3>1. \E r : cmd' = Command("insert", NoRequest, r)
      BY <1>4, Zenon DEF Insert
    <3>2. QED
      BY <3>1 DEF Command
  <2>3. AllSound(todo')
    BY <1>1, <2>1
  <2>4. QED
    BY <2>1, <2>2, <2>3 DEF PendingInv
<1>5. CASE ShellOff
  <2>1. mode' = "off" /\ todo' = << >> /\ cmd'.name = "none"
    BY <1>1, <1>5 DEF ShellOff
  <2>2. AllSound(todo')
    BY <1>1, <2>1
  <2>3. QED
    BY <2>1, <2>2 DEF PendingInv
<1>6. CASE CallWrite
  BY <1>6, ReturnsPending DEF CallWrite
<1>7. CASE CallDelete
  BY <1>7, ReturnsPending DEF CallDelete
<1>8. CASE CallReadDirectory \/ CallChangeDir
  BY <1>8, ReturnsPending DEF CallReadDirectory, CallChangeDir
<1>9. CASE CallDeleteLost
  <2>1. mode' = "stuck" /\ cmd' = cmd /\ todo' = todo
    BY <1>9 DEF CallDeleteLost
  <2>2. QED
    BY <2>1 DEF PendingInv, WriteLeft, MoveLeft
<1>10. CASE Prompt
  <2>1. mode' \in {"ready", "astray"} /\ todo' = << >> /\ cmd'.name = "none"
    BY <1>1, <1>10 DEF Prompt
  <2>2. AllSound(todo')
    BY <1>1, <2>1
  <2>3. QED
    BY <2>1, <2>2 DEF PendingInv
<1>11. CASE RunCommand
  <2>1. CASE FolderEntered
    <3>1. mode = "ready" /\ mode' = "busy" /\ cmd' = cmd /\ todo' = todo
      BY <1>11, <2>1 DEF RunCommand, FolderEntered, cd
    <3>2. cmd'.name \in {"none", "insert"} /\ todo' = << >>
      BY <3>1 DEF PendingInv
    <3>3. AllSound(todo')
      BY <1>1, <3>2
    <3>4. QED
      BY <3>1, <3>2, <3>3 DEF PendingInv
  <2>2. QED
    BY <1>11, <2>1, CommandsBegin, MakesPending, TransferPending, RenamePending
       DEF CommandBegins
<1>12. CASE UNCHANGED allVars
  BY <1>12 DEF allVars, shellVars, PendingInv, WriteLeft, MoveLeft
<1>13. QED
  BY <1>2, <1>3, <1>4, <1>5, <1>6, <1>7, <1>8, <1>9, <1>10, <1>11, <1>12
     DEF ShellNext, SwitchOff, StopInFormat, StopInCall

LEMMA ShellIsPending == ShellSpec => []PendingInv
<1>1. ShellInit => PendingInv
  BY PendingInit
<1>2. ShellInv /\ PendingInv /\ [ShellNext]_allVars => PendingInv'
  BY PendingStep
<1>3. QED
  BY <1>1, <1>2, ShellIsTyped, PTL DEF ShellSpec

-----------------------------------------------------------------------------
(* What a step takes from the store.                                       *)

LEMMA SameStore ==
  ASSUME StoreIsListed, StoreIsListed', crashes = 0, crashes' = 0, disk' = disk
  PROVE  StoreOnDisk' = StoreOnDisk
<1>1. StoreIn(disk') = StoreIn(disk)
  BY DEF StoreIn
<1>2. QED
  BY <1>1 DEF StoreIsListed

LEMMA DeletedMatches ==
  ASSUME DriverInv, NEW r, r.parent \in Clusters, delete_code(r) = 0
  PROVE  First(Deletable(r)) \in Deletable(r) /\ Matches(DeletedEntry(r), r)
<1>1. Deletable(r) # {} /\ Deletable(r) \subseteq Indices
  BY DEF delete_code, Deletable
<1>2. First(Deletable(r)) \in Deletable(r)
  BY <1>1, EntryIsTyped
<1>3. QED
  BY <1>2 DEF Deletable, DeletedEntry

Goes(r, x) ==
  /\ power = "on" /\ delete_code(r) = 0
  /\ x = StoredAt(disk, DeletedPlace(r))

LEMMA WriteTakesNothing ==
  ASSUME DriverInv, WholeInv, StoreIsListed, StoreIsListed', WholeInv', crashes = 0,
         NEW r \in AnyRequest, write(r), NEW x \in StoreOnDisk
  PROVE  x \in StoreOnDisk'
<1>1. /\ power = "on" /\ power' = "on" /\ write_code(r) = 0 /\ crashes' = 0
      /\ disk' = write_clusters(WriteSteps(r), disk)
  BY DEF write
<1>2. disk[0] = Signature /\ TreeInv(disk) /\ disk'[0] = Signature
  BY <1>1 DEF WholeInv
<1>3. StoreOnDisk = StoreIn(disk) /\ StoreOnDisk' = StoreIn(disk')
  BY <1>1, <1>2 DEF StoreIsListed
<1> DEFINE p == r.parent
           i == First(FreeEntries(Table(p)))
           k == ClustersNeeded(r)
           new == EmptyClusters(r)
           e == disk'
<1>4. Grows(disk, e, p, i, k, new)
  BY <1>1, <1>2, WriteGrows
<1> HIDE DEF p, i, k, new, e
<1>5. StoreIn(e) = StoreIn(disk) \cup {StoredAt(e, <<p, i>>)}
  BY <1>4, GrownStore
<1>6. QED
  BY <1>3, <1>5 DEF e

LEMMA DeleteTakesOne ==
  ASSUME DriverInv, WholeInv, StoreIsListed, StoreIsListed', WholeInv', crashes = 0,
         NEW r, r.parent \in Clusters, delete(r), NEW x \in StoreOnDisk, x \notin StoreOnDisk'
  PROVE  Goes(r, x)
<1>1. /\ power = "on" /\ power' = "on" /\ delete_code(r) = 0 /\ crashes' = 0
      /\ disk' = write_clusters(DeleteSteps(r), disk)
  BY DEF delete
<1>2. disk[0] = Signature /\ TreeInv(disk) /\ disk'[0] = Signature
  BY <1>1 DEF WholeInv
<1>3. StoreOnDisk = StoreIn(disk) /\ StoreOnDisk' = StoreIn(disk')
  BY <1>1, <1>2 DEF StoreIsListed
<1> DEFINE e == disk'
           q == DeletedPlace(r)
<1>4. Shrinks(disk, e, q)
  BY <1>1, <1>2, DeleteShrinks
<1> HIDE DEF e, q
<1>5. StoreIn(e) = StoreIn(disk) \ {StoredAt(disk, q)}
  BY <1>4, ShrunkStore
<1>6. x = StoredAt(disk, q)
  BY <1>3, <1>5 DEF e
<1>7. QED
  BY <1>1, <1>6 DEF Goes, q

LEMMA StopTakesOne ==
  ASSUME DriverInv, WholeInv, StoreIsListed, StoreIsRead', crashes = 0, power = "on",
         NEW n, NEW S, Scratches(disk, disk', n, S),
         NEW x \in StoreOnDisk, x \notin StoreOnDisk'
  PROVE  n \in Listed(disk) /\ x = StoredAt(disk, n)
<1> DEFINE F     == FolderClusters'
           store == StoreOnDisk'
           e     == disk'
<1>1. disk[0] = Signature /\ StoreOnDisk = StoreIn(disk)
  BY DEF WholeInv, StoreIsListed
<1>2. e[0] = Signature /\ TableIn(e[2])[0].folder
  BY <1>1, RootStays
<1>3. ReadThrough(e, F, store) /\ Scratches(disk, e, n, S)
  BY DEF StoreIsRead
<1>4. x \in StoreIn(disk) /\ x \notin store
  BY <1>1
<1> HIDE DEF F, store, e
<1>5. F \in SUBSET Clusters /\ 2 \in F /\ Closed(e, F)
  BY <1>2, <1>3 DEF ReadThrough
<1>6. QED
  BY <1>3, <1>4, <1>5, OthersAreFound

LEMMA WhatGoes ==
  ASSUME ShellInv, WholeInv, StoreIsListed, DriverInv', WholeInv', StoreIsListed', StoreIsRead',
         crashes = 0, [ShellNext]_allVars, NEW x \in StoreOnDisk, x \notin StoreOnDisk'
  PROVE  /\ mode = "busy" /\ todo # << >> /\ Head(todo).op = "DELETE"
         /\ Goes(Head(todo).req, x)
<1> DEFINE r == Head(todo).req
<1>1. DriverInv /\ disk[0] = Signature
  BY DEF ShellInv, StoreIsListed
<1>2. disk' = disk /\ crashes' = crashes => FALSE
  BY SameStore
<1>3. todo # << >> => r \in AnyRequest /\ r.parent \in Clusters
  BY HeadOfTodo
<1>4. CASE Start \/ StartInserter
  BY <1>1, <1>2, <1>4
     DEF Start, StartInserter, initialize_filesystem_fat32, is_empty_storage, BOOT_SECTOR
<1>5. CASE Insert
  BY <1>1, <1>5, Inserts, WriteTakesNothing
<1>6. CASE SwitchOff
  BY <1>2, <1>6 DEF SwitchOff, PowerOff
<1>7. CASE StopInFormat
  BY <1>1, <1>7 DEF StopInFormat, CrashInFormat, is_empty_storage, BOOT_SECTOR
<1>8. CASE StopInCall
  <2>1. /\ mode = "busy" /\ todo # << >>
        /\ \/ Head(todo).op = "WRITE"  /\ CrashInWrite(r)
           \/ Head(todo).op = "DELETE" /\ CrashInDelete(r)
    BY <1>8 DEF StopInCall
  <2>2. r \in AnyRequest /\ r.parent \in Clusters
    BY <1>3, <2>1
  <2> HIDE DEF r
  <2>3. power = "on" /\ TreeInv(disk)
    <3>1. power = "on"
      BY <2>1 DEF CrashInWrite, CrashInDelete
    <3>2. QED
      BY <1>1, <3>1 DEF WholeInv
  <2>4. CASE CrashInWrite(r)
    <3> DEFINE i == First(FreeEntries(Table(r.parent)))
               n == <<r.parent, i>>
               S == NewOnes(ClustersNeeded(r), EmptyClusters(r))
    <3>1. write_code(r) = 0 /\ Crash(WriteSteps(r))
      BY <2>4 DEF CrashInWrite
    <3>2. Scratches(disk, disk', n, S)
      BY <1>1, <2>2, <2>3, <3>1, StoppedWrite
    <3>3. ~Table(r.parent)[i].used
      BY <1>1, <2>2, <3>1, WriteFacts
    <3> HIDE DEF i, S
    <3>4. n \notin Listed(disk)
      BY <3>3 DEF Listed, Table
    <3> HIDE DEF n
    <3>5. QED
      BY <1>1, <2>3, <3>2, <3>4, StopTakesOne
  <2>5. CASE Head(todo).op = "DELETE" /\ CrashInDelete(r)
    <3> DEFINE n == DeletedPlace(r)
               S == Owned(disk, n)
    <3>1. delete_code(r) = 0 /\ Crash(DeleteSteps(r))
      BY <2>5 DEF CrashInDelete
    <3>2. Scratches(disk, disk', n, S)
      BY <1>1, <2>2, <2>3, <3>1, StoppedDelete
    <3> HIDE DEF n, S
    <3>3. x = StoredAt(disk, n)
      BY <1>1, <2>3, <3>2, StopTakesOne
    <3>4. QED
      BY <2>1, <2>3, <2>5, <3>1, <3>3 DEF Goes, n, r
  <2>6. QED
    BY <2>1, <2>4, <2>5
<1>9. CASE CallWrite
  <2>1. todo # << >> /\ (write(r) \/ UNCHANGED vars)
    BY <1>9 DEF CallWrite
  <2> HIDE DEF r
  <2>2. QED
    BY <1>1, <1>2, <1>3, <2>1, WriteTakesNothing DEF vars
<1>10. CASE CallDelete
  <2>1. /\ mode = "busy" /\ todo # << >> /\ Head(todo).op = "DELETE"
        /\ delete(r) \/ UNCHANGED vars
    BY <1>10 DEF CallDelete
  <2>2. r.parent \in Clusters
    BY <1>3, <2>1
  <2> HIDE DEF r
  <2>3. delete(r) => Goes(r, x)
    BY <1>1, <2>2, DeleteTakesOne
  <2>4. QED
    BY <1>2, <2>1, <2>3 DEF vars, r
<1>11. CASE CallDeleteLost
  <2>1. todo # << >> /\ DeleteLost(r)
    BY <1>11 DEF CallDeleteLost
  <2>2. r.parent \in Clusters
    BY <1>3, <2>1
  <2> HIDE DEF r
  <2>3. TreeInv(disk) /\ delete_code(r) = 0 /\ ~EndsProperly(fat_table, DeletedEntry(r).cluster)
    BY <1>1, <2>1 DEF DeleteLost, WholeInv
  <2>4. QED
    BY <1>1, <2>2, <2>3, DeleteFacts
<1>12. CASE CallReadDirectory \/ CallChangeDir \/ Prompt
  BY <1>2, <1>12 DEF CallReadDirectory, CallChangeDir, Prompt, vars
<1>13. CASE RunCommand
  <2>1. UNCHANGED vars
    BY <1>13, BeginningReads
  <2>2. QED
    BY <1>2, <2>1 DEF vars
<1>14. CASE UNCHANGED allVars
  BY <1>2, <1>14 DEF allVars, vars
<1>15. QED
  BY <1>4, <1>5, <1>6, <1>7, <1>8, <1>9, <1>10, <1>11, <1>12, <1>13, <1>14 DEF ShellNext

LEMMA RenameLoses ==
  ASSUME ShellInv, PendingInv, cmd.name = "rename", todo # << >>, Head(todo).op = "DELETE",
         NEW x, Goes(Head(todo).req, x), TreeInv(disk)
  PROVE  IsEntryOf(x, cmd.from) \/ IsEntryOf(x, [cmd.from EXCEPT !.ext = ""])
<1> DEFINE r == Head(todo).req
           n == DeletedPlace(r)
<1>1. Takes(r, cmd.from)
  <2>1. OnlyTakes(todo, cmd.from) /\ todo \in Seq(Calls)
    BY DEF PendingInv, ShellInv
  <2>2. 1 \in DOMAIN todo /\ Head(todo) = todo[1]
    <3>1. Len(todo) # 0
      BY <2>1, EmptySeq
    <3>2. Len(todo) \in Nat /\ DOMAIN todo = 1 .. Len(todo)
      BY <2>1, LenProperties
    <3>3. QED
      BY <2>1, <3>1, <3>2
  <2>3. QED
    BY <2>1, <2>2 DEF OnlyTakes
<1>2. r.parent \in Clusters
  BY HeadOfTodo
<1> HIDE DEF r
<1>3. delete_code(r) = 0 /\ x = StoredAt(disk, n)
  BY DEF Goes, r
<1>4. DeletedEntry(r).name = r.name /\ DeletedEntry(r).ext = r.ext
  BY <1>2, <1>3, DeletedMatches DEF ShellInv, Matches, SameBytes
<1>5. At(disk, n) = DeletedEntry(r) /\ n[1] = r.parent
  BY <1>2, <1>3, DeleteFacts DEF ShellInv, DeletedPlace
<1>6. x.folder = r.parent /\ x.name = r.name /\ x.ext = r.ext
  BY <1>3, <1>4, <1>5, StoredFields
<1>7. CASE r.ext = cmd.from.ext
  BY <1>1, <1>6, <1>7 DEF Takes, IsEntryOf
<1>8. CASE r.ext = ""
  <2>1. cmd.from \in AnyRequest
    BY DEF PendingInv, OnlyTakes
  <2> DEFINE plain == [cmd.from EXCEPT !.ext = ""]
  <2>2. plain.parent = cmd.from.parent /\ plain.name = cmd.from.name /\ plain.ext = ""
    BY <2>1 DEF AnyRequest
  <2> HIDE DEF plain
  <2>3. IsEntryOf(x, plain)
    BY <1>1, <1>6, <1>8, <2>2 DEF Takes, IsEntryOf
  <2>4. QED
    BY <2>3 DEF plain
<1>9. QED
  BY <1>1, <1>7, <1>8 DEF Takes

RenameStep ==
  cmd.name = "rename" /\ crashes = 0 /\ disk' # disk =>
    \A e \in StoreOnDisk \ StoreOnDisk' :
      \/ IsEntryOf(e, cmd.from)
      \/ IsEntryOf(e, [cmd.from EXCEPT !.ext = ""])

(* usermode/mv.c, rename: it writes the new name of a file before it       *)
(* deletes the old one, deletes a folder before it makes the new one, and  *)
(* looks at no return code.  Whatever it is asked to rename, and wherever  *)
(* the machine stops in it, nothing but that name disappears from the      *)
(* tree: no entry below it, none beside it.                                *)
THEOREM RenameTakesOneName == ShellSpec => RenameLosesOneName
<1>1. ShellInv /\ WholeInv => StoreIsListed
  BY StoreAsListed DEF ShellInv
<1>2. ShellInv => StoreIsRead
  BY DiskIsRead DEF ShellInv
<1>3. ASSUME ShellInv, PendingInv, WholeInv, StoreIsListed, ShellInv', WholeInv',
             StoreIsListed', StoreIsRead', [ShellNext]_allVars
      PROVE  [RenameStep]_allVars
  <2>1. SUFFICES ASSUME cmd.name = "rename", crashes = 0, NEW e \in StoreOnDisk \ StoreOnDisk'
                 PROVE  IsEntryOf(e, cmd.from) \/ IsEntryOf(e, [cmd.from EXCEPT !.ext = ""])
    BY DEF RenameStep
  <2>2. DriverInv'
    BY <1>3 DEF ShellInv
  <2>3. todo # << >> /\ Head(todo).op = "DELETE" /\ Goes(Head(todo).req, e)
    BY <1>3, <2>1, <2>2, WhatGoes
  <2>4. TreeInv(disk)
    BY <1>3, <2>1, <2>3 DEF Goes, WholeInv
  <2>5. QED
    BY <1>3, <2>1, <2>3, <2>4, RenameLoses
<1>4. QED
  BY <1>1, <1>2, <1>3, ShellIsTyped, ShellKeepsTheTree, ShellIsPending, PTL
     DEF RenameLosesOneName, RenameStep, ShellSpec

-----------------------------------------------------------------------------
(* What a step does to the disk.                                           *)

(* The shell's own request, or the inserter's.                             *)
Asked(r) ==
  \/ mode = "busy" /\ todo # << >> /\ Head(todo).op = "WRITE" /\ r = Head(todo).req
  \/ mode = "inserting" /\ r.padded

DiskMoves ==
  \/ disk' = disk
  \/ Listed(disk') = {}
  \/ \E r \in AnyRequest : /\ Asked(r) /\ write_code(r) = 0 /\ TreeInv(disk)
                           /\ disk' = write_clusters(WriteSteps(r), disk)
  \/ \E r \in AnyRequest : /\ delete_code(r) = 0 /\ TreeInv(disk)
                           /\ disk' = write_clusters(DeleteSteps(r), disk)

LEMMA NoCrashYet ==
  ASSUME DriverInv, NEW steps, Crash(steps)
  PROVE  crashes' # 0
<1>1. crashes \in Nat
  <2>1. crashes \in 0 .. CrashBound
    BY DEF DriverInv
  <2>2. CrashBound \in Nat
    BY Fat32Assumption
  <2>3. QED
    BY <2>1, <2>2
<1>2. QED
  BY <1>1 DEF Crash

LEMMA DiskStep ==
  ASSUME ShellInv, WholeInv, crashes' = 0, [ShellNext]_allVars
  PROVE  DiskMoves
<1> DEFINE r == Head(todo).req
<1>1. DriverInv
  BY DEF ShellInv
<1>2. \A steps : ~Crash(steps)
  BY <1>1, NoCrashYet
<1>3. todo # << >> => r \in AnyRequest /\ r.parent \in Clusters
  BY HeadOfTodo
<1>4. CASE Start \/ StartInserter
  <2>1. initialize_filesystem_fat32 /\ crashes = 0
    BY <1>4 DEF Start, StartInserter, initialize_filesystem_fat32
  <2>2. CASE disk[0] = Signature
    BY <2>1, <2>2 DEF initialize_filesystem_fat32, is_empty_storage, BOOT_SECTOR, DiskMoves
  <2>3. CASE disk[0] # Signature
    <3>1. disk' = write_clusters(FormatSteps, disk)
      BY <2>1, <2>3 DEF initialize_filesystem_fat32, is_empty_storage, BOOT_SECTOR
    <3>2. \A c \in Clusters : disk[c] = Zero
      BY <2>1, <2>3 DEF WholeInv
    <3>3. Listed(disk') = {}
      BY <3>1, <3>2, FormatMakesATree
    <3>4. QED
      BY <3>3 DEF DiskMoves
  <2>4. QED
    BY <2>2, <2>3
<1>5. ASSUME NEW x \in AnyRequest, write(x), Asked(x)
      PROVE  DiskMoves
  <2>1. /\ power = "on" /\ write_code(x) = 0 /\ crashes = 0
        /\ disk' = write_clusters(WriteSteps(x), disk)
    BY <1>5 DEF write
  <2>2. TreeInv(disk)
    BY <1>1, <2>1, WholeWhenOn
  <2>3. QED
    BY <1>5, <2>1, <2>2 DEF DiskMoves
<1>6. CASE Insert
  <2>1. mode = "inserting"
    BY <1>6 DEF Insert
  <2>2. QED
    BY <1>5, <1>6, <2>1, Inserts DEF Asked
<1>7. CASE SwitchOff
  BY <1>7 DEF SwitchOff, PowerOff, DiskMoves
<1>8. CASE StopInFormat \/ StopInCall
  BY <1>2, <1>8 DEF StopInFormat, CrashInFormat, StopInCall, CrashInWrite, CrashInDelete
<1>9. CASE CallWrite
  <2>1. mode = "busy" /\ todo # << >> /\ Head(todo).op = "WRITE" /\ (write(r) \/ UNCHANGED vars)
    BY <1>9 DEF CallWrite
  <2>2. Asked(r)
    BY <2>1 DEF Asked
  <2> HIDE DEF r
  <2>3. CASE write(r)
    BY <1>3, <1>5, <2>1, <2>2, <2>3
  <2>4. QED
    BY <2>1, <2>3 DEF vars, DiskMoves
<1>10. CASE CallDelete
  <2>1. todo # << >> /\ (delete(r) \/ UNCHANGED vars)
    BY <1>10 DEF CallDelete
  <2> HIDE DEF r
  <2>2. CASE delete(r)
    <3>1. /\ power = "on" /\ delete_code(r) = 0 /\ crashes = 0
          /\ disk' = write_clusters(DeleteSteps(r), disk)
      BY <2>2 DEF delete
    <3>2. TreeInv(disk)
      BY <1>1, <3>1, WholeWhenOn
    <3>3. QED
      BY <1>3, <2>1, <3>1, <3>2 DEF DiskMoves
  <2>3. QED
    BY <2>1, <2>2 DEF vars, DiskMoves
<1>11. CASE CallDeleteLost
  <2>1. todo # << >> /\ DeleteLost(r)
    BY <1>11 DEF CallDeleteLost
  <2>2. r.parent \in Clusters
    BY <1>3, <2>1
  <2> HIDE DEF r
  <2>3. crashes = 0 /\ power = "on"
    BY <2>1 DEF DeleteLost
  <2>4. TreeInv(disk) /\ delete_code(r) = 0 /\ ~EndsProperly(fat_table, DeletedEntry(r).cluster)
    BY <1>1, <2>1, <2>3, WholeWhenOn DEF DeleteLost
  <2>5. QED
    BY <1>1, <2>2, <2>4, DeleteFacts
<1>12. CASE CallReadDirectory \/ CallChangeDir \/ Prompt \/ UNCHANGED allVars
  BY <1>12 DEF CallReadDirectory, CallChangeDir, Prompt, vars, allVars, DiskMoves
<1>13. CASE RunCommand
  BY <1>13, BeginningReads DEF vars, DiskMoves
<1>14. QED
  BY <1>4, <1>6, <1>7, <1>8, <1>9, <1>10, <1>11, <1>12, <1>13 DEF ShellNext

(* The first call is as sound as all of them.                              *)
LEMMA HeadIsSound ==
  ASSUME ShellInv, PendingInv, todo # << >>
  PROVE  Sound(Head(todo))
<1>1. todo \in Seq(Calls)
  BY DEF ShellInv
<1>2. Len(todo) # 0
  BY <1>1, EmptySeq
<1>3. Len(todo) \in Nat /\ DOMAIN todo = 1 .. Len(todo)
  BY <1>1, LenProperties
<1>4. 1 \in DOMAIN todo /\ Head(todo) = todo[1]
  BY <1>1, <1>2, <1>3
<1>5. QED
  BY <1>4 DEF PendingInv, AllSound

(* The entry that write makes is a folder if nothing was to be written and *)
(* it has no extension.                                                    *)
LEMMA NewFolder ==
  ASSUME DriverInv, TreeInv(disk), NEW r \in AnyRequest, write_code(r) = 0, NEW d,
         d = write_clusters(WriteSteps(r), disk)
  PROVE  At(d, <<r.parent, First(FreeEntries(Table(r.parent)))>>).folder <=> IsFolder(r)
<1> DEFINE p == r.parent
           t == Table(p)
           i == First(FreeEntries(t))
           a == At(d, <<p, i>>)
<1>1. d[p] = Directory(TableAfterWrite(r))
  BY WriteEffect
<1>2. IsTable(t) /\ i \in Indices
  BY WriteFacts
<1>3. TableAfterWrite(r) = [t EXCEPT ![i] = EntryFor(r, t[i])]
  BY DEF TableAfterWrite
<1>4. t \in [Indices -> DirectoryEntries]
  BY <1>2 DEF IsTable, Tables
<1>5. a = TableAfterWrite(r)[i]
  BY <1>1, Kinds DEF At, TableIn
<1> DEFINE old == t[i]
<1>6. a = EntryFor(r, old)
  <2> HIDE DEF t, i, a
  <2> QED
    BY <1>2, <1>3, <1>4, <1>5
<1>7. QED
  <2> HIDE DEF old, a
  <2> QED
    BY <1>6, EntryFields DEF a

-----------------------------------------------------------------------------
(* What mv moves.                                                          *)

(* The place at which delete would find r.                                 *)
DeletableIn(d, r) ==
  {i \in Indices \ {0, 1} : Matches(TableIn(d[r.parent])[i], r)}
Doomed(d, r, p) ==
  /\ DeletableIn(d, r) # {}
  /\ p = <<r.parent, First(DeletableIn(d, r))>>

(* Without an extension, a file may have its folder's entry 0 before it.   *)
Shadowed(d, p) ==
  At(d, p).ext = "" /\ At(d, p).name = TableIn(d[p[1]])[0].name

(* Before the copy: what will be deleted was read, or has that before it.  *)
SourceRead(d, from, to) ==
  /\ from.parent \in Folders(d)
  /\ from.ext # "" /\ from.padded => DeletableIn(d, from) # {}
  /\ \A p : Doomed(d, from, p) =>
       \/ At(d, p).folder
       \/ from.ext # "" /\ ContentIn(d, p) = <<Data(to.text, 1)>>
       \/ Shadowed(d, p)
(* After it: what will be deleted, if a file, is in the other folder too.  *)
CopyAt(d, p, to, q) ==
  /\ q \in Listed(d) /\ q # p
  /\ q[1] = to.parent /\ At(d, q).name = to.name /\ At(d, q).ext = to.ext
  /\ ContentIn(d, q) = ContentIn(d, p)
CopyMade(d, from, to) ==
  \A p : Doomed(d, from, p) /\ ~At(d, p).folder =>
    Shadowed(d, p) \/ \E q : CopyAt(d, p, to, q)
MoveInv ==
  crashes = 0 /\ cmd.name = "mv" =>
    /\ todo = CopyFirst(cmd.from, cmd.to) => SourceRead(disk, cmd.from, cmd.to)
    /\ todo = DeleteNext(cmd.from) => CopyMade(disk, cmd.from, cmd.to)

LEMMA DoomedFacts ==
  ASSUME NEW d, DiskInv(d), TreeInv(d), NEW r, r.parent \in Folders(d), NEW p, Doomed(d, r, p)
  PROVE  /\ p \in Listed(d) /\ Matches(At(d, p), r) /\ p[1] = r.parent
         /\ p[2] \in DeletableIn(d, r) /\ p = <<r.parent, p[2]>>
<1> DEFINE S == DeletableIn(d, r)
<1>1. S # {} /\ p = <<r.parent, First(S)>>
  BY DEF Doomed
<1>2. S \subseteq Indices /\ S \subseteq Int /\ IsFiniteSet(S)
  <2>1. S \subseteq Indices
    BY DEF DeletableIn
  <2>2. Indices \subseteq Int /\ IsFiniteSet(Indices)
    BY ClusterBasics
  <2> HIDE DEF S
  <2>3. IsFiniteSet(S)
    BY <2>1, <2>2, FS_Subset
  <2>4. QED
    BY <2>1, <2>2, <2>3
<1>3. First(S) \in S
  <2> HIDE DEF S
  <2> QED
    BY <1>1, <1>2, FirstOf
<1>4. /\ First(S) \in Indices \ {0, 1}
      /\ Matches(TableIn(d[r.parent])[First(S)], r)
  BY <1>3 DEF DeletableIn
<1> DEFINE i == First(S)
<1>5. p = <<r.parent, i>> /\ p[1] = r.parent /\ p[2] = i
  BY <1>1
<1> HIDE DEF i, S
<1>6. At(d, p) = TableIn(d[r.parent])[i]
  BY <1>5 DEF At
<1>7. Matches(At(d, p), r)
  BY <1>4, <1>6 DEF i
<1>8. p \in Listed(d)
  <2>1. i \in Indices \ {0, 1} /\ TableIn(d[r.parent])[i].used
    BY <1>4 DEF i, Matches
  <2>2. QED
    BY <1>5, <2>1 DEF Listed
<1>9. QED
  BY <1>3, <1>5, <1>7, <1>8 DEF i, S

(* The copy is the text that was read.                                     *)
LEMMA NewText ==
  ASSUME DriverInv, TreeInv(disk), NEW r \in AnyRequest, write_code(r) = 0, NEW d,
         d = write_clusters(WriteSteps(r), disk), r.size = 1
  PROVE  LET i == First(FreeEntries(Table(r.parent)))
         IN ContentIn(d, <<r.parent, i>>) =
              IF IsFolder(r) THEN FolderContent ELSE <<Data(r.text, 1)>>
<1> DEFINE p == r.parent
           i == First(FreeEntries(Table(p)))
           n == <<p, i>>
           new == EmptyClusters(r)
           c == new[1]
<1>1. ClustersNeeded(r) = 1
  BY DEF ClustersNeeded
<1>2. At(d, n).folder <=> IsFolder(r)
  BY NewFolder
<1>3. ~IsFolder(r)
  BY DEF IsFolder
<1>4. Grows(disk, d, p, i, 1, new)
  BY <1>1, WriteGrows
<1>5. d[c] = Data(r.text, 1)
  <2>1. d[new[1]] = BlockOf(r, 1)
    BY <1>1, WriteEffect
  <2>2. QED
    BY <1>3, <2>1 DEF BlockOf
<1>6. At(d, n).cluster = c
  BY <1>4 DEF Grows, Grown
<1> HIDE DEF p, i, new
<1>7. Len(Chain(MapOf(d), c)) = 1 /\ Chain(MapOf(d), c)[1] = c
  <2>1. ChainsGrow(disk, d, p, i, 1, new)
    BY <1>4, GrownOwned
  <2>2. QED
    BY <2>1 DEF ChainsGrow
<1>8. MapOf(d) \in [Clusters -> Links] /\ c \in Clusters
  <2>1. NewOnesAreFree(disk, d, p, 1, new)
    BY <1>4, GrownBasics
  <2>2. QED
    BY <2>1 DEF NewOnesAreFree
<1> DEFINE map == MapOf(d)
<1> HIDE DEF map, c
<1>9. DOMAIN Chain(map, c) = 1 .. Len(Chain(map, c))
  BY <1>8, ChainIsWalk DEF map
<1> DEFINE chain == Chain(map, c)
<1>10. Len(chain) = 1 /\ chain[1] = c /\ DOMAIN chain = 1 .. Len(chain)
  BY <1>7, <1>9 DEF map
<1>11. ContentIn(d, n) = [j \in DOMAIN chain |-> d[chain[j]]]
  <2>1. ~At(d, n).folder
    BY <1>2, <1>3
  <2>2. QED
    BY <1>6, <2>1 DEF ContentIn, map
<1> HIDE DEF chain, n
<1>12. ContentIn(d, n) = [j \in 1 .. 1 |-> Data(r.text, 1)]
  BY <1>5, <1>10, <1>11
<1>13. [j \in 1 .. 1 |-> Data(r.text, 1)] = <<Data(r.text, 1)>>
  OBVIOUS
<1>14. QED
  BY <1>3, <1>12, <1>13 DEF n, i, p

(* The copy.  Into the folder the file is in it is refused, and one entry  *)
(* of another does not hide another's.                                     *)
LEMMA CopyIsMade ==
  ASSUME DriverInv, TreeInv(disk), NEW from, NEW to \in AnyRequest, SameBut(from, to),
         SourceRead(disk, from, to), write_code(to) = 0,
         NEW d, d = write_clusters(WriteSteps(to), disk)
  PROVE  CopyMade(d, from, to)
<1> DEFINE p == to.parent
           i == First(FreeEntries(Table(p)))
           n == <<p, i>>
           k == ClustersNeeded(to)
           new == EmptyClusters(to)
<1>1. Grows(disk, d, p, i, k, new)
  BY WriteGrows
<1>2. /\ At(d, n).name = to.name /\ At(d, n).ext = to.ext
      /\ At(d, n).folder <=> IsFolder(to)
  BY NewEntry, NewFolder
<1>3. ~Taken(to)
  BY DEF write_code
<1>4. /\ from.name = to.name /\ from.padded = to.padded /\ from.ext = to.ext
      /\ to.ext = "" => to.size = 0
      /\ to.ext # "" => to.size = 1
  BY DEF SameBut
<1>5. to.ext # "" => ContentIn(d, n) = <<Data(to.text, 1)>> /\ ~IsFolder(to)
  BY <1>4, NewText DEF IsFolder
<1>6. IsFolder(to) <=> to.ext = ""
  BY <1>4 DEF IsFolder
<1>7. n = <<p, i>> /\ n[1] = p /\ n[2] = i
  OBVIOUS
<1>8. \A j : TableIn(disk[p])[j] = Table(p)[j]
  BY DEF Table
<1> HIDE DEF n, p, i, k, new
<1>9. /\ FoldersGrow(disk, d, p, i, new) /\ ListGrows(disk, d, p, i) /\ DiskInv(disk)
      /\ DiskInv(d) /\ TreeInv(d)
  <2>1. TreeInv(d)
    BY <1>1, GrownTree
  <2>2. QED
    BY <1>1, <2>1, GrownFolders, GrownListed DEF Grows
<1>10. from.parent \in Folders(disk) /\ from.parent \in Folders(d)
  BY <1>9 DEF SourceRead, FoldersGrow
<1>11. n \in Listed(d) /\ n \notin Listed(disk)
  BY <1>7, <1>9 DEF ListGrows
<1>12. ASSUME NEW j \in Indices \ {0, 1}, from.parent = p, Matches(TableIn(disk[p])[j], from)
       PROVE  FALSE
  <2>1. Matches(Table(p)[j], from)
    BY <1>8, <1>12
  <2>2. /\ Table(p)[j].used /\ SameBytes(Table(p)[j], to)
        /\ Table(p)[j].ext = to.ext
    BY <1>4, <2>1 DEF Matches, SameBytes
  <2>3. QED
    BY <1>3, <1>12, <2>2 DEF Taken, p
<1>13. SUFFICES ASSUME NEW x, Doomed(d, from, x), ~At(d, x).folder, ~Shadowed(d, x)
                PROVE  CopyAt(d, x, to, n)
  BY DEF CopyMade
<1>14. /\ x \in Listed(d) /\ Matches(At(d, x), from) /\ x[1] = from.parent
       /\ x[2] \in DeletableIn(d, from) /\ x = <<from.parent, x[2]>>
  BY <1>9, <1>10, <1>13, DoomedFacts
<1>15. CASE from.parent = p
  <2>1. CASE x = n
    <3>1. to.ext # ""
      BY <1>2, <1>6, <1>13, <2>1
    <3>2. from.padded
      BY <1>14 DEF Matches, SameBytes
    <3>3. DeletableIn(disk, from) # {}
      BY <1>4, <3>1, <3>2 DEF SourceRead
    <3>4. PICK j \in Indices \ {0, 1} : Matches(TableIn(disk[from.parent])[j], from)
      BY <3>3 DEF DeletableIn
    <3>5. QED
      BY <1>12, <1>15, <3>4
  <2>2. CASE x # n
    <3>1. x \in Listed(disk) /\ At(d, x) = At(disk, x)
      BY <1>7, <1>9, <1>14, <2>2 DEF ListGrows
    <3>2. x[2] \in Indices \ {0, 1} /\ Matches(TableIn(disk[p])[x[2]], from)
      BY <1>14, <1>15, <3>1 DEF Listed, At
    <3>3. QED
      BY <1>12, <1>15, <3>2
  <2>3. QED
    BY <2>1, <2>2
<1>16. CASE from.parent # p
  <2>1. \A j \in Indices : TableIn(d[from.parent])[j] = TableIn(disk[from.parent])[j]
    BY <1>9, <1>10, <1>16 DEF FoldersGrow
  <2>2. DeletableIn(d, from) = DeletableIn(disk, from)
    BY <2>1 DEF DeletableIn
  <2>3. Doomed(disk, from, x)
    BY <1>13, <2>2 DEF Doomed
  <2>4. x # n
    BY <1>7, <1>14, <1>16
  <2>5. x \in Listed(disk) /\ At(d, x) = At(disk, x)
    BY <1>7, <1>9, <1>14, <2>4 DEF ListGrows
  <2>6. from.ext # "" /\ ContentIn(disk, x) = <<Data(to.text, 1)>>
    <3>1. TableIn(d[x[1]])[0] = TableIn(disk[x[1]])[0]
      BY <1>14, <2>1, ClusterBasics
    <3>2. ~Shadowed(disk, x)
      BY <1>13, <2>5, <3>1 DEF Shadowed
    <3>3. QED
      BY <1>13, <2>3, <2>5, <3>2 DEF SourceRead
  <2>7. ContentIn(d, x) = ContentIn(disk, x)
    <3>1. StoredAt(d, x) = StoredAt(disk, x)
      BY <1>1, <2>5, GrownKeepsStored
    <3>2. QED
      BY <3>1, StoredFields
  <2>8. ContentIn(d, n) = ContentIn(d, x)
    BY <1>4, <1>5, <2>6, <2>7
  <2>9. QED
    BY <1>2, <1>7, <1>11, <2>4, <2>8 DEF CopyAt, p
<1>17. QED
  BY <1>15, <1>16

LEMMA ReadCode ==
  ASSUME NEW r, read_code(r) = 0
  PROVE  /\ IsFolderTable(r.parent) /\ Readable(r) # {}
         /\ ~Table(r.parent)[First(Readable(r))].folder
         /\ ~(r.size < Table(r.parent)[First(Readable(r))].size)
<1> DEFINE e == Table(r.parent)[First(Readable(r))]
           a == IF e.folder THEN 1 ELSE IF r.size < e.size THEN -1 ELSE 0
<1>1. read_code(r) = IF ~IsFolderTable(r.parent) THEN -1 ELSE IF Readable(r) = {} THEN 2 ELSE a
  BY DEF read_code
<1>2. IsFolderTable(r.parent) /\ Readable(r) # {} /\ a = 0
  <2> HIDE DEF a
  <2> QED
    BY <1>1
<1>3. ~e.folder
  <2> HIDE DEF e
  <2> QED
    BY <1>2
<1>4. ~(r.size < e.size)
  <2> HIDE DEF e
  <2> QED
    BY <1>2, <1>3
<1>5. QED
  BY <1>2, <1>3, <1>4

LEMMA ReadDirectoryCode ==
  ASSUME NEW r, read_directory_code(r) = 0
  PROVE  /\ IsFolderTable(r.parent) /\ ReadableFolders(r) # {}
         /\ Table(r.parent)[First(ReadableFolders(r))].folder
<1> DEFINE e == Table(r.parent)[First(ReadableFolders(r))]
<1>1. read_directory_code(r) = IF ~IsFolderTable(r.parent) THEN -1
        ELSE IF ReadableFolders(r) = {} THEN 2 ELSE IF e.folder THEN 0 ELSE 1
  BY DEF read_directory_code
<1> HIDE DEF e
<1>2. IsFolderTable(r.parent) /\ ReadableFolders(r) # {} /\ e.folder
  BY <1>1
<1>3. QED
  BY <1>2 DEF e

LEMMA EntryOfAFolder ==
  ASSUME NEW e, NEW name, NEW c, e = FolderEntry(name, c)
  PROVE  e.folder /\ e.name = name /\ e.ext = ""
<1>1. /\ FolderEntry(name, c).folder /\ FolderEntry(name, c).name = name
      /\ FolderEntry(name, c).ext = ""
  BY DEF FolderEntry, UnusedEntry
<1>2. QED
  BY <1>1

(* The two entries a folder starts with.                                   *)
LEMMA ReservedEntries ==
  ASSUME NEW d, DiskInv(d), TreeInv(d), NEW c \in Folders(d), NEW i \in {0, 1}
  PROVE  /\ TableIn(d[c])[i].ext = ""
         /\ i = 1 => TableIn(d[c])[i].name = ".."
<1> DEFINE t == TableIn(d[c])
<1>1. PICK name, x : t[0] = FolderEntry(name, x) /\ t[1] = FolderEntry("..", x)
  <2>1. CASE c = 2
    <3>1. IsRootTable(t)
      BY <2>1, TreeFacts
    <3>2. QED
      BY <3>1 DEF IsRootTable
  <2>2. CASE c # 2
    <3>1. PICK p \in Listed(d) : At(d, p).folder /\ At(d, p).cluster = c
      BY <2>2 DEF TreeInv, FoldersAreListed
    <3>2. FolderIsWhole(d, p)
      BY <3>1 DEF TreeInv, EntryIsWhole
    <3>3. QED
      BY <3>1, <3>2 DEF FolderIsWhole
  <2>3. QED
    BY <2>1, <2>2
<1> HIDE DEF t
<1>2. t[0].ext = "" /\ t[1].ext = "" /\ t[1].name = ".."
  BY <1>1, EntryOfAFolder
<1>3. QED
  BY <1>2 DEF t

(* A file that mv can read is one cluster of text.                         *)
LEMMA ShortFile ==
  ASSUME NEW d, DiskInv(d), TreeInv(d), NEW p \in Listed(d), ~At(d, p).folder,
         ~(1 < At(d, p).size)
  PROVE  \E text \in Texts : ContentIn(d, p) = <<Data(text, 1)>>
<1>1. PICK text \in Texts, n \in 1 .. MaxClusters :
        ContentIn(d, p) = [part \in 1 .. n |-> Data(text, part)]
  <2>1. ContentIn(d, p) \in FileContents
    BY FileContent
  <2>2. QED
    BY <2>1 DEF FileContents
<1>2. MaxClusters \in Nat
  BY Fat32Assumption
<1>3. Len([part \in 1 .. n |-> Data(text, part)]) = n
  BY <1>2, LenIs
<1>4. n = At(d, p).size
  BY <1>1, <1>3, FileContent
<1>5. n = 1
  BY <1>2, <1>4
<1> DEFINE b == Data(text, 1)
<1>6. [part \in 1 .. 1 |-> Data(text, part)] = [part \in 1 .. 1 |-> b]
  OBVIOUS
<1> HIDE DEF b
<1>7. [part \in 1 .. 1 |-> b] = <<b>>
  OBVIOUS
<1>8. QED
  BY <1>1, <1>5, <1>6, <1>7 DEF b

(* What mv reads is what it will delete.                                   *)
LEMMA FileIsRead ==
  ASSUME DriverInv, WholeInv, crashes = 0, power = "on", NEW r \in AnyRequest,
         r.parent \in Folders(disk), r.ext # "", r.size = 1, read_code(r) = 0
  PROVE  /\ r.padded => DeletableIn(disk, r) # {}
         /\ \A p : Doomed(disk, r, p) => ContentIn(disk, p) = <<Data(TextRead(r), 1)>>
<1>1. DiskInv(disk) /\ TreeInv(disk) /\ fat_table = MapOf(disk)
  BY WholeWhenOn
<1>2. \A j : Table(r.parent)[j] = TableIn(disk[r.parent])[j]
  BY DEF Table
<1>3. ASSUME NEW j \in {0, 1}
      PROVE  Table(r.parent)[j].ext = ""
  BY <1>1, ReservedEntries DEF Table
<1>4. Readable(r) # {}
  BY ReadCode
<1>5. r.padded => DeletableIn(disk, r) = Readable(r)
  BY <1>2, <1>3 DEF DeletableIn, Readable, Matches, SameBytes, SameText
<1>6. SUFFICES ASSUME NEW p, Doomed(disk, r, p)
               PROVE  ContentIn(disk, p) = <<Data(TextRead(r), 1)>>
  BY <1>4, <1>5
<1>7. /\ p \in Listed(disk) /\ Matches(At(disk, p), r) /\ p[1] = r.parent
      /\ p = <<r.parent, p[2]>>
  BY <1>1, <1>6, DoomedFacts
<1>8. r.padded
  BY <1>7 DEF Matches, SameBytes
<1> DEFINE e == Table(r.parent)[First(Readable(r))]
<1>9. At(disk, p) = e
  <2>1. p = <<r.parent, First(Readable(r))>>
    BY <1>5, <1>6, <1>8 DEF Doomed
  <2>2. QED
    BY <1>2, <2>1 DEF At
<1>10. ~e.folder /\ ~(r.size < e.size)
  BY ReadCode
<1>11. read_buffer(r) = Content(fat_table, e.cluster)
  BY DEF read_buffer
<1>12. ContentIn(disk, p) = read_buffer(r)
  <2> HIDE DEF e
  <2>1. ContentIn(disk, p) = Content(MapOf(disk), e.cluster)
    BY <1>9, <1>10 DEF ContentIn, Content
  <2>2. QED
    BY <1>1, <1>11, <2>1
<1>13. PICK text \in Texts : ContentIn(disk, p) = <<Data(text, 1)>>
  <2> HIDE DEF e
  <2>1. ~(1 < At(disk, p).size) /\ ~At(disk, p).folder
    BY <1>9, <1>10
  <2>2. QED
    BY <1>1, <1>7, <2>1, ShortFile
<1> DEFINE b == Data(text, 1)
<1>14. read_buffer(r)[1] = b
  <2> HIDE DEF b
  <2>1. <<b>>[1] = b
    OBVIOUS
  <2>2. QED
    BY <1>12, <1>13, <2>1 DEF b
<1>15. b.kind = "data" /\ b.text = text
  BY DEF Data
<1>16. TextRead(r) = text
  <2> HIDE DEF b
  <2> QED
    BY <1>14, <1>15 DEF TextRead
<1>17. QED
  BY <1>13, <1>16

(* Of a name without extension it reads the first entry, which is the one  *)
(* that it will delete unless the folder itself is called so.              *)
LEMMA FolderIsRead ==
  ASSUME DriverInv, WholeInv, crashes = 0, power = "on",
         NEW r \in AnyRequest, r.name \in Names,
         r.parent \in Folders(disk), r.ext = "", read_directory_code(r) = 0,
         NEW p, Doomed(disk, r, p)
  PROVE  At(disk, p).folder \/ Shadowed(disk, p)
<1>1. DiskInv(disk) /\ TreeInv(disk)
  BY WholeWhenOn
<1>2. \A j : Table(r.parent)[j] = TableIn(disk[r.parent])[j]
  BY DEF Table
<1>3. p \in Listed(disk) /\ Matches(At(disk, p), r) /\ p[1] = r.parent
  BY <1>1, DoomedFacts
<1>4. At(disk, p).name = r.name /\ At(disk, p).ext = ""
  BY <1>3 DEF Matches, SameBytes
<1>5. CASE Table(r.parent)[0].name = r.name
  BY <1>2, <1>3, <1>4, <1>5 DEF Shadowed
<1>6. CASE Table(r.parent)[0].name # r.name
  <2>1. Table(r.parent)[1].name # r.name
    <3>1. Table(r.parent)[1].name = ".."
      BY <1>1, ReservedEntries DEF Table
    <3>2. QED
      BY <3>1, Fat32Assumption
  <2>2. DeletableIn(disk, r) = ReadableFolders(r)
    BY <1>2, <1>6, <2>1 DEF DeletableIn, ReadableFolders, Matches, SameBytes
  <2>3. Table(r.parent)[First(ReadableFolders(r))].folder
    BY ReadDirectoryCode
  <2>4. p = <<r.parent, First(ReadableFolders(r))>>
    BY <2>2 DEF Doomed
  <2>5. QED
    BY <1>2, <2>3, <2>4 DEF At
<1>7. QED
  BY <1>5, <1>6

LEMMA MoveReads ==
  ASSUME DriverInv, WholeInv, crashes = 0,
         NEW r \in AnyRequest, r.name \in Names,
         r.size = IF r.ext = "" THEN 0 ELSE 1, ReadSource(r), NEW to, to.text = TextRead(r)
  PROVE  SourceRead(disk, r, to)
<1>1. r.parent \in Clusters
  BY DEF AnyRequest
<1>2. IsFolderTable(r.parent)
  BY ReadCode, ReadDirectoryCode DEF ReadSource
<1>3. power = "on"
  BY <1>1, <1>2, FoldersAreBehind
<1>4. r.parent \in Folders(disk)
  <2>1. TableIn(disk[r.parent])[0].folder
    BY <1>2 DEF IsFolderTable
  <2>2. ~UnusedEntry.folder /\ 0 \in Indices
    BY UnusedTyped, ClusterBasics
  <2>3. QED
    BY <1>1, <2>1, <2>2 DEF TableIn, Folders
<1>5. CASE r.ext # ""
  <2>1. read_code(r) = 0 /\ r.size = 1
    BY <1>5 DEF ReadSource, IsFile
  <2>2. /\ r.padded => DeletableIn(disk, r) # {}
        /\ \A p : Doomed(disk, r, p) => ContentIn(disk, p) = <<Data(TextRead(r), 1)>>
    BY <1>3, <1>4, <1>5, <2>1, FileIsRead
  <2>3. QED
    BY <1>4, <1>5, <2>2 DEF SourceRead
<1>6. CASE r.ext = ""
  <2>1. read_directory_code(r) = 0
    BY <1>6 DEF ReadSource, IsFile
  <2>2. \A p : Doomed(disk, r, p) => At(disk, p).folder \/ Shadowed(disk, p)
    BY <1>3, <1>4, <1>6, <2>1, FolderIsRead
  <2>3. QED
    BY <1>4, <1>6, <2>2 DEF SourceRead
<1>7. QED
  BY <1>5, <1>6

LEMMA TransferReads ==
  ASSUME ShellInv, WholeInv, EntryTransferred
  PROVE  MoveInv'
<1> DEFINE copy(src, c) == [src EXCEPT !.parent = c, !.text = TextRead(src)]
<1>0. PICK command \in {"cp", "mv"}, src \in AnyRequest, parent \in Clusters,
           go \in BOOLEAN :
          \E table :
          /\ src.name \in Names
          /\ src.size = IF src.ext = "" THEN 0 ELSE 1
          /\ go => ReadSource(src)
          /\ Begin(Command(command, src, copy(src, parent)),
                   Transfer(command, src, copy(src, parent), go) \o <<ChangeDir>>, table)
  BY DEF EntryTransferred
<1>1. PICK table :
        /\ src.name \in Names
        /\ src.size = IF src.ext = "" THEN 0 ELSE 1
        /\ go => ReadSource(src)
        /\ Begin(Command(command, src, copy(src, parent)),
                 Transfer(command, src, copy(src, parent), go) \o <<ChangeDir>>, table)
  BY <1>0
<1> DEFINE dst == copy(src, parent)
           calls == Transfer(command, src, dst, go)
<1>2. dst.text = TextRead(src)
  BY DEF AnyRequest
<1>3. Begin(Command(command, src, dst), calls \o <<ChangeDir>>, table)
  BY <1>1
<1> HIDE DEF dst
<1>4. SUFFICES ASSUME crashes' = 0, command = "mv"
               PROVE  /\ todo' = CopyFirst(src, dst) => SourceRead(disk', src, dst)
                      /\ todo' = DeleteNext(src) => CopyMade(disk', src, dst)
  <2>1. cmd' = Command(command, src, dst)
    BY <1>3 DEF Begin
  <2>2. cmd'.name = command /\ cmd'.from = src /\ cmd'.to = dst
    BY <2>1, CommandFields
  <2>3. QED
    BY <2>2 DEF MoveInv
<1>5. disk' = disk /\ crashes = 0 /\ todo' = calls \o <<ChangeDir>>
  BY <1>3, <1>4 DEF Begin, vars
<1> DEFINE a == Call("WRITE", dst, Codes)
           b == Call("DELETE", src, {0})
           c == ChangeDir
<1>6. calls = IF go THEN <<a, b>> ELSE << >>
  BY <1>4 DEF Transfer, MoveCalls, AnyCode
<1>7. CopyFirst(src, dst) = <<a, b, c>> /\ DeleteNext(src) = <<b, c>>
  BY DEF CopyFirst, DeleteNext
<1>8. todo' = IF go THEN <<a, b, c>> ELSE <<c>>
  <2> HIDE DEF a, b, c, calls
  <2>1. /\ << >> \o <<c>> = <<c>> /\ <<a>> \o <<c>> = <<a, c>>
        /\ <<a, b>> \o <<c>> = <<a, b, c>> /\ <<a, b>> \o << >> = <<a, b>>
    BY Joined
  <2>2. QED
    BY <1>5, <1>6, <2>1 DEF c
<1>9. <<c>> # <<a, b, c>> /\ <<a, b, c>> # <<b, c>> /\ <<c>> # <<b, c>>
  <2> HIDE DEF a, b, c
  <2>1. Len(<<c>>) = 1 /\ Len(<<b, c>>) = 2 /\ Len(<<a, b, c>>) = 3
    BY OneCall, TwoCalls, ThreeCalls
  <2>2. QED
    BY <2>1
<1> HIDE DEF a, b, c
<1>10. todo' # DeleteNext(src) /\ (todo' = CopyFirst(src, dst) => go)
  BY <1>7, <1>8, <1>9
<1>11. go => SourceRead(disk, src, dst)
  BY <1>1, <1>2, <1>5, MoveReads DEF ShellInv
<1>12. QED
  BY <1>5, <1>10, <1>11

LEMMA WriteCopies ==
  ASSUME ShellInv, WholeInv, PendingInv, MoveInv, CallWrite, cmd' = cmd
  PROVE  MoveInv'
<1> DEFINE from == cmd.from
           to   == cmd.to
           a == Call("WRITE", to, Codes)
           b == Call("DELETE", from, {0})
           c == ChangeDir
<1>1. SUFFICES ASSUME crashes' = 0, cmd.name = "mv"
               PROVE  /\ todo' = CopyFirst(from, to) => SourceRead(disk', from, to)
                      /\ todo' = DeleteNext(from) => CopyMade(disk', from, to)
  BY DEF MoveInv
<1>2. MoveLeft
  BY <1>1 DEF PendingInv
<1>3. CopyFirst(from, to) = <<a, b, c>> /\ DeleteNext(from) = <<b, c>>
  BY DEF CopyFirst, DeleteNext
<1>4. todo \in {<<a, b, c>>, <<b, c>>, <<c>>} /\ Head(todo).op = "WRITE"
  BY <1>2, <1>3 DEF MoveLeft, CallWrite
<1>5. a.op = "WRITE" /\ a.req = to /\ b.op = "DELETE" /\ b.after = {0} /\ c.op = "CHANGE_DIR"
  BY CallFields DEF ChangeDir
<1>6. Returns(write_code(Head(todo).req)) /\ SameBut(from, to)
      /\ (IF write_code(Head(todo).req) = 0 THEN write(Head(todo).req) ELSE UNCHANGED vars)
  BY <1>2 DEF CallWrite, MoveLeft
<1> HIDE DEF a, b, c, from, to
<1>7. /\ Head(<<a, b, c>>) = a /\ Head(<<b, c>>) = b /\ Head(<<c>>) = c
      /\ Tail(<<a, b, c>>) = <<b, c>> /\ Tail(<<b, c>>) = <<c>> 
      /\ Len(<<a, b, c>>) = 3 /\ <<a, b, c>>[2] = b /\ Len(<<b, c>>) = 2 /\ Len(<<c>>) = 1
  BY OneCall, TwoCalls, ThreeCalls
<1>8. todo = <<a, b, c>> /\ Head(todo) = a
  BY <1>4, <1>5, <1>7
<1>9. Returns(write_code(to)) /\ (IF write_code(to) = 0 THEN write(to) ELSE UNCHANGED vars)
  BY <1>5, <1>6, <1>8
<1>10. todo' = IF write_code(to) # 0 THEN <<c>> ELSE <<b, c>>
  <2>1. Len(todo) > 1 /\ todo[2] = b /\ Tail(todo) = <<b, c>> /\ Tail(Tail(todo)) = <<c>>
    BY <1>7, <1>8
  <2>2. QED
    BY <1>5, <1>9, <2>1 DEF Returns
<1>11. todo' # <<a, b, c>> /\ (todo' = <<b, c>> => write_code(to) = 0)
  <2>1. <<c>> # <<a, b, c>> /\ <<b, c>> # <<a, b, c>> /\ <<c>> # <<b, c>>
    BY <1>7
  <2>2. QED
    BY <1>10, <2>1
<1>12. CASE write_code(to) = 0
  <2>1. /\ power = "on" /\ crashes = 0 /\ disk' = write_clusters(WriteSteps(to), disk)
    BY <1>1, <1>9, <1>12 DEF write
  <2>2. DriverInv /\ TreeInv(disk) /\ to \in AnyRequest
    BY <1>6, <2>1, WholeWhenOn DEF ShellInv, SameBut
  <2>3. SourceRead(disk, from, to)
    BY <1>1, <1>3, <1>8, <2>1 DEF MoveInv, from, to
  <2>4. CopyMade(disk', from, to)
    BY <1>6, <1>12, <2>1, <2>2, <2>3, CopyIsMade
  <2>5. QED
    BY <1>3, <1>11, <2>4
<1>13. QED
  BY <1>3, <1>11, <1>12

LEMMA ShortReturns ==
  ASSUME MoveLeft, todo # << >>, Head(todo).op # "WRITE", NEW code, Returns(code), cmd' = cmd
  PROVE  todo' # CopyFirst(cmd.from, cmd.to) /\ todo' # DeleteNext(cmd.from)
<1> DEFINE a == Call("WRITE", cmd.to, Codes)
           b == Call("DELETE", cmd.from, {0})
           c == ChangeDir
<1>1. todo = <<a, b, c>> \/ todo = <<b, c>> \/ todo = <<c>>
  BY DEF MoveLeft, CopyFirst, DeleteNext
<1>2. todo' = Tail(todo) \/ (Len(todo) > 1 /\ todo' = Tail(Tail(todo)))
  BY DEF Returns
<1>3. CopyFirst(cmd.from, cmd.to) = <<a, b, c>> /\ DeleteNext(cmd.from) = <<b, c>>
  BY DEF CopyFirst, DeleteNext
<1>4. a.op = "WRITE"
  BY CallFields
<1> HIDE DEF a, b, c
<1>5. /\ Len(<<c>>) = 1 /\ Tail(<<c>>) = << >> /\ Head(<<a, b, c>>) = a
      /\ Len(<<b, c>>) = 2 /\ Tail(<<b, c>>) = <<c>> /\ Len(<<a, b, c>>) = 3
      /\ Len(<< >>) = 0
  BY OneCall, TwoCalls, ThreeCalls
<1>6. todo' = <<c>> \/ todo' = << >>
  <2>1. CASE todo = <<b, c>>
    <3>1. Tail(todo) = <<c>> /\ Tail(Tail(todo)) = << >>
      BY <1>5, <2>1
    <3>2. QED
      BY <1>2, <3>1
  <2>2. CASE todo = <<c>>
    <3>1. Tail(todo) = << >> /\ ~(Len(todo) > 1)
      BY <1>5, <2>2
    <3>2. QED
      BY <1>2, <3>1
  <2>3. QED
    BY <1>1, <1>4, <1>5, <2>1, <2>2
<1>7. /\ <<c>> # <<a, b, c>> /\ <<c>> # <<b, c>>
      /\ << >> # <<a, b, c>> /\ << >> # <<b, c>>
  BY <1>5
<1>8. QED
  BY <1>3, <1>6, <1>7

LEMMA MoveStep ==
  ASSUME ShellInv, WholeInv, PendingInv, MoveInv, [ShellNext]_allVars
  PROVE  MoveInv'
<1>1. CASE cmd'.name # "mv"
  BY <1>1 DEF MoveInv
<1>2. CASE Start \/ StartInserter \/ Insert
  <2>1. mode \in {"off", "inserting"} /\ (cmd' = cmd \/ cmd'.name = "insert")
    <3>1. \/ mode = "off" /\ cmd' = cmd
          \/ mode = "inserting" /\ \E r : cmd' = Command("insert", NoRequest, r)
      BY <1>2 DEF Start, StartInserter, Insert
    <3>2. \A r : Command("insert", NoRequest, r).name = "insert"
      BY CommandFields
    <3>3. QED
      BY <3>1, <3>2
  <2>2. QED
    BY <1>1, <2>1 DEF PendingInv
<1>3. NoCommand.name # "mv"
  BY CommandFields DEF NoCommand
<1>4. CASE SwitchOff \/ StopInFormat \/ StopInCall \/ Prompt
  BY <1>1, <1>3, <1>4 DEF SwitchOff, StopInFormat, StopInCall, ShellOff, Prompt
<1>5. CASE CallWrite
  BY <1>5, WriteCopies DEF CallWrite, Returns
<1>6. CASE CallDelete \/ CallReadDirectory \/ CallChangeDir
  <2>1. PICK code : Returns(code)
    BY <1>6 DEF CallDelete, CallReadDirectory, CallChangeDir
  <2>2. cmd' = cmd /\ todo # << >> /\ Head(todo).op # "WRITE"
    BY <1>6, <2>1 DEF CallDelete, CallReadDirectory, CallChangeDir, Returns
  <2>3. cmd.name = "mv" => MoveLeft
    BY DEF PendingInv
  <2>4. QED
    BY <2>1, <2>2, <2>3, ShortReturns DEF MoveInv
<1>7. CASE CallDeleteLost
  <2>1. todo # << >> /\ DeleteLost(Head(todo).req)
    BY <1>7 DEF CallDeleteLost
  <2>2. power' = "lost"
    BY <2>1 DEF DeleteLost
  <2>3. WholeInv'
    BY WholeUnderShell
  <2>4. crashes' # 0
    BY <2>2, <2>3 DEF WholeInv
  <2>5. QED
    BY <2>4 DEF MoveInv
<1>8. CASE RunCommand
  <2>1. CommandBegins
    BY <1>8, CommandsBegin
  <2>2. CASE FolderEntered
    <3>1. cmd' = cmd /\ mode = "ready"
      BY <1>8, <2>2 DEF FolderEntered, cd, RunCommand
    <3>2. QED
      BY <1>1, <3>1 DEF PendingInv
  <2>3. CASE NothingDone \/ EntryMade \/ FileReplaced \/ EntryRemoved \/ EntryRenamed
    <3>1. \/ cmd' = NoCommand
          \/ \E name \in {"mkdir", "txt", "write", "rm", "rename"} : \E from, to :
               cmd' = Command(name, from, to)
      <4>1. CASE NothingDone
        BY <4>1 DEF NothingDone, Finish, Begin
      <4>2. CASE EntryMade
        BY <4>2 DEF EntryMade, Begin
      <4>3. CASE FileReplaced
        BY <4>3 DEF FileReplaced, Begin
      <4>4. CASE EntryRemoved
        BY <4>4 DEF EntryRemoved, Begin
      <4>5. CASE EntryRenamed
        BY <4>5 DEF EntryRenamed, Begin
      <4>6. QED
        BY <2>3, <4>1, <4>2, <4>3, <4>4, <4>5
    <3>2. \A name, from, to : Command(name, from, to).name = name
      BY CommandFields
    <3>3. cmd'.name # "mv"
      BY <1>3, <3>1, <3>2
    <3>4. QED
      BY <1>1, <3>3
  <2>4. CASE EntryTransferred
    BY <2>4, TransferReads
  <2>5. QED
    BY <2>1, <2>2, <2>3, <2>4 DEF CommandBegins
<1>9. CASE UNCHANGED allVars
  BY <1>9 DEF allVars, vars, shellVars, MoveInv
<1>10. QED
  BY <1>2, <1>4, <1>5, <1>6, <1>7, <1>8, <1>9 DEF ShellNext

MoveMakes ==
  cmd.name = "mv" /\ crashes = 0 /\ disk' # disk =>
    \A e \in StoreOnDisk \ StoreOnDisk' :
      IsEntryOf(e, cmd.from) /\ e.content \in FileContents
      => IsIn(StoreOnDisk', e, cmd.to) \/ NamedLikeItsFolder(e)

(* What goes is what delete was asked for, and its copy stays.             *)
LEMMA CopyStays ==
  ASSUME ShellInv, WholeInv, StoreIsListed, DriverInv', WholeInv', StoreIsListed', StoreIsRead',
         PendingInv, MoveInv, crashes = 0, cmd.name = "mv", [ShellNext]_allVars,
         NEW x \in StoreOnDisk, x \notin StoreOnDisk', x.content \in FileContents
  PROVE  IsIn(StoreOnDisk', x, cmd.to) \/ NamedLikeItsFolder(x)
<1> DEFINE from == cmd.from
           to   == cmd.to
           p    == DeletedPlace(from)
<1>1. todo # << >> /\ Head(todo).op = "DELETE" /\ Goes(Head(todo).req, x)
  BY WhatGoes
<1>2. todo = DeleteNext(from) /\ Head(todo).req = from
  <2> DEFINE a == Call("WRITE", to, Codes)
             b == Call("DELETE", from, {0})
             c == ChangeDir
  <2>1. CopyFirst(from, to) = <<a, b, c>> /\ DeleteNext(from) = <<b, c>>
    BY DEF CopyFirst, DeleteNext
  <2>2. todo \in {<<a, b, c>>, <<b, c>>, <<c>>}
    BY <1>1, <2>1 DEF PendingInv, MoveLeft
  <2>3. a.op = "WRITE" /\ b.req = from /\ c.op = "CHANGE_DIR"
    BY CallFields DEF ChangeDir
  <2> HIDE DEF a, b, c, from, to
  <2>4. Head(<<a, b, c>>) = a /\ Head(<<b, c>>) = b /\ Head(<<c>>) = c
    BY OneCall, TwoCalls, ThreeCalls
  <2>5. todo = <<b, c>>
    BY <1>1, <2>2, <2>3, <2>4
  <2>6. QED
    BY <2>1, <2>3, <2>4, <2>5
<1>3. /\ power = "on" /\ delete_code(from) = 0 /\ x = StoredAt(disk, p)
  BY <1>1, <1>2 DEF Goes
<1>4. /\ DriverInv /\ DiskInv(disk) /\ TreeInv(disk) /\ disk[0] = Signature
  BY <1>3, WholeWhenOn DEF ShellInv, Formatted, BOOT_SECTOR
<1>5. from.parent \in Clusters
  BY <1>1, <1>2, HeadOfTodo
<1>6. CopyMade(disk, from, to)
  BY <1>2 DEF MoveInv
<1> HIDE DEF from, to
<1>7. p \in Listed(disk)
  BY <1>3, <1>4, <1>5, DeleteFacts
<1>8. Doomed(disk, from, p)
  <2>1. Deletable(from) = DeletableIn(disk, from)
    BY DEF Deletable, DeletableIn, Table
  <2>2. Deletable(from) # {}
    BY <1>3 DEF delete_code
  <2>3. QED
    BY <2>1, <2>2 DEF Doomed, DeletedPlace
<1> HIDE DEF p
<1>9. x.content = ContentIn(disk, p)
  BY <1>3, StoredFields
<1>10. ~At(disk, p).folder
  <2>1. FolderContent \notin FileContents
    <3>1. SUFFICES ASSUME NEW text \in Texts, NEW n \in 1 .. MaxClusters,
                          << >> = [part \in 1 .. n |-> Data(text, part)]
                   PROVE  FALSE
      BY DEF FileContents, FolderContent
    <3>2. n \in Nat /\ n >= 1
      <4>1. MaxClusters \in Nat
        BY Fat32Assumption
      <4>2. QED
        BY <4>1
    <3>3. DOMAIN << >> = 1 .. n
      BY <3>1
    <3>4. 1 \in DOMAIN << >>
      BY <3>2, <3>3
    <3>5. QED
      BY <3>4
  <2>2. QED
    BY <1>9, <2>1 DEF ContentIn
<1>11. CASE Shadowed(disk, p)
  <2>1. x.folder = p[1] /\ x.name = At(disk, p).name /\ x.ext = At(disk, p).ext
    BY <1>3, StoredFields
  <2>2. QED
    BY <1>11, <2>1 DEF Shadowed, NamedLikeItsFolder, Table
<1>12. SUFFICES ASSUME ~Shadowed(disk, p)
                PROVE  IsIn(StoreOnDisk', x, to)
  BY <1>11 DEF to
<1>13. PICK q : CopyAt(disk, p, to, q)
  BY <1>6, <1>8, <1>10, <1>12 DEF CopyMade
<1> DEFINE y == StoredAt(disk, q)
<1>14. /\ y.folder = to.parent /\ y.name = to.name /\ y.ext = to.ext
       /\ y.content = x.content /\ y.handle = At(disk, q).cluster
       /\ x.handle = At(disk, p).cluster
  BY <1>3, <1>9, <1>13, StoredFields DEF CopyAt
<1>15. y \in StoreOnDisk
  BY <1>4, <1>13 DEF StoreIsListed, StoreIn, CopyAt
<1> HIDE DEF y
<1>16. y # x
  BY <1>4, <1>7, <1>13, <1>14, HandlesApart DEF CopyAt
<1>17. y \in StoreOnDisk'
  <2>1. SUFFICES ASSUME y \notin StoreOnDisk'
                 PROVE  FALSE
    OBVIOUS
  <2>2. Goes(Head(todo).req, y)
    BY <1>15, <2>1, WhatGoes
  <2>3. QED
    BY <1>1, <1>16, <2>2 DEF Goes
<1>18. IsEntryOf(y, to)
  BY <1>14 DEF IsEntryOf
<1>19. QED
  BY <1>14, <1>17, <1>18 DEF IsIn

(* usermode/mv.c, move: it writes the copy before it deletes, and deletes  *)
(* only after a write that succeeded; the file it deletes is the one it    *)
(* read, and not the copy itself.  Whenever the file it moves disappears,  *)
(* also by a stop inside delete, it is whole in the target folder, unless  *)
(* it has no extension and is called like the folder it is in: then move   *)
(* finds that folder's own entry in its place, makes an empty folder, and  *)
(* delete takes the file.                                                  *)
THEOREM MoveIsSafe == ShellSpec => MoveKeepsTheFile
<1>1. ShellInv /\ WholeInv => StoreIsListed
  BY StoreAsListed DEF ShellInv
<1>2. ShellInv => StoreIsRead /\ DriverInv
  BY DiskIsRead DEF ShellInv
<1>3. ShellInit => MoveInv
  <2>1. NoCommand.name # "mv"
    BY CommandFields DEF NoCommand
  <2>2. QED
    BY <2>1 DEF MoveInv, ShellInit
<1>4. ASSUME ShellInv, WholeInv, PendingInv, MoveInv, [ShellNext]_allVars
      PROVE  MoveInv'
  BY <1>4, MoveStep
<1>5. ASSUME ShellInv, PendingInv, WholeInv, StoreIsListed, MoveInv, DriverInv', WholeInv',
             StoreIsListed', StoreIsRead', [ShellNext]_allVars
      PROVE  [MoveMakes]_allVars
  <2>1. SUFFICES ASSUME cmd.name = "mv", crashes = 0, NEW e \in StoreOnDisk \ StoreOnDisk',
                        e.content \in FileContents
                 PROVE  IsIn(StoreOnDisk', e, cmd.to) \/ NamedLikeItsFolder(e)
    BY DEF MoveMakes
  <2>2. QED
    BY <1>5, <2>1, CopyStays
<1>6. QED
  BY <1>1, <1>2, <1>3, <1>4, <1>5, ShellIsTyped, ShellKeepsTheTree, ShellIsPending,
     PTL DEF MoveKeepsTheFile, MoveMakes, ShellSpec

-----------------------------------------------------------------------------
(* write deletes a file and finds room to write it again.                  *)

OnceInv == crashes = 0 => NoneTwice(disk)

LEMMA OnceStep ==
  ASSUME AllNamesPadded, ShellInv, WholeInv, PendingInv, OnceInv, [ShellNext]_allVars
  PROVE  OnceInv'
<1>1. SUFFICES ASSUME crashes' = 0
               PROVE  NoneTwice(disk')
  BY DEF OnceInv
<1>2. DriverInv
  BY DEF ShellInv
<1>3. crashes = 0
  <2>1. DriverMoves
    BY ShellMoves
  <2>2. crashes' = crashes \/ \E steps : Crash(steps)
    BY <2>1 DEF DriverMoves, initialize_filesystem_fat32, PowerOff, CrashInFormat, write,
                delete, DeleteLost, CrashInWrite, CrashInDelete, vars
  <2>3. QED
    BY <1>1, <1>2, <2>2, NoCrashYet
<1>4. NoneTwice(disk)
  BY <1>3 DEF OnceInv
<1>5. DiskMoves
  BY <1>1, DiskStep
<1>6. ASSUME NEW r \in AnyRequest, Asked(r), write_code(r) = 0, TreeInv(disk),
             disk' = write_clusters(WriteSteps(r), disk)
      PROVE  NoneTwice(disk')
  <2>1. CASE mode = "busy" /\ todo # << >> /\ Head(todo).op = "WRITE" /\ r = Head(todo).req
    <3>1. r.padded
      BY <2>1, HeadIsSound DEF Sound
    <3>2. QED
      BY <1>2, <1>4, <1>6, <3>1, WriteKeepsOnce
  <2>2. CASE r.padded
    BY <1>2, <1>4, <1>6, <2>2, WriteKeepsOnce
  <2>3. QED
    BY <1>6, <2>1, <2>2 DEF Asked
<1>7. ASSUME NEW r \in AnyRequest, delete_code(r) = 0, TreeInv(disk),
             disk' = write_clusters(DeleteSteps(r), disk)
      PROVE  NoneTwice(disk')
  <2>1. r.parent \in Clusters
    BY DEF AnyRequest
  <2>2. QED
    BY <1>2, <1>4, <1>7, <2>1, DeleteKeepsOnce
<1>8. CASE disk' = disk \/ Listed(disk') = {}
  BY <1>4, <1>8 DEF NoneTwice
<1>9. QED
  BY <1>5, <1>6, <1>7, <1>8 DEF DiskMoves

(* What write needs for a file of one cluster: an entry, a cluster and the *)
(* name.                                                                   *)
SpaceOn(d, map, r) ==
  /\ map[r.parent] = FAT32_FAT_END_OF_FILE /\ TableIn(d[r.parent])[0].folder
  /\ \E i \in Indices : ~TableIn(d[r.parent])[i].used
  /\ map \in [Clusters -> Links] /\ \E c \in Clusters : map[c] = FAT32_FAT_EMPTY_ENTRY
NameOn(d, r) ==
  \E i \in Indices \ {0, 1} :
    /\ TableIn(d[r.parent])[i].used
    /\ TableIn(d[r.parent])[i].name = r.name /\ TableIn(d[r.parent])[i].ext = r.ext
RoomOn(d, map, r) == SpaceOn(d, map, r) /\ ~NameOn(d, r)
Room     == cmd.to.size = 1 /\ RoomOn(disk, fat_table, cmd.to)
RoomCode == write_code(cmd.to) = 0
Unstopped == crashes = 0

LEMMA SpaceIsEnough ==
  ASSUME NEW r, r.size = 1, SpaceOn(disk, fat_table, r)
  PROVE  /\ write_code(r) = IF Taken(r) THEN 1 ELSE 0
         /\ Taken(r) => NameOn(disk, r)
<1>1. IsFolderTable(r.parent)
  BY DEF SpaceOn, IsFolderTable
<1>2. Taken(r) => NameOn(disk, r)
  BY DEF NameOn, Taken, Table, IsFolder, SameBytes
<1>3. FreeEntries(Table(r.parent)) # {}
  BY DEF SpaceOn, FreeEntries, Table
<1>4. FreeClusters # {} /\ IsFiniteSet(FreeClusters)
  <2>1. FreeClusters \subseteq Clusters
    BY DEF FreeClusters
  <2>2. IsFiniteSet(FreeClusters)
    BY <2>1, ClusterBasics, FS_Subset
  <2>3. QED
    BY <2>2 DEF SpaceOn, FreeClusters
<1>5. ~(Cardinality(FreeClusters) < ClustersNeeded(r))
  <2>1. Cardinality(FreeClusters) \in Nat /\ Cardinality(FreeClusters) # 0
    BY <1>4, FS_CardinalityType, FS_EmptySet
  <2>2. ClustersNeeded(r) = 1
    BY DEF ClustersNeeded
  <2>3. QED
    BY <2>1, <2>2
<1>6. QED
  BY <1>1, <1>2, <1>3, <1>5 DEF write_code

LEMMA RoomIsEnough == Room => RoomCode
<1>1. SUFFICES ASSUME Room
               PROVE  RoomCode
  OBVIOUS
<1> DEFINE r == cmd.to
<1>2. r.size = 1 /\ SpaceOn(disk, fat_table, r) /\ ~NameOn(disk, r)
  BY <1>1 DEF Room, RoomOn
<1> HIDE DEF r
<1>3. write_code(r) = 0
  BY <1>2, SpaceIsEnough
<1>4. QED
  BY <1>3 DEF RoomCode, r

LEMMA DeleteMakesSpace ==
  ASSUME DriverInv, TreeInv(disk), NEW r \in AnyRequest, delete_code(r) = 0,
         NEW d, d = write_clusters(DeleteSteps(r), disk), DiskInv(d)
  PROVE  SpaceOn(d, MapOf(d), r) /\ r.parent \in Folders(d) /\ TreeInv(d)
<1> DEFINE p == r.parent
           q == DeletedPlace(r)
<1>1. DiskInv(disk) /\ p \in Clusters
  BY DEF AnyRequest, DriverInv
<1>2. Shrinks(disk, d, q)
  BY <1>1, DeleteShrinks
<1>3. TreeInv(d)
  BY <1>1, DeleteKeepsTheTree
<1>4. p \in Folders(disk) /\ q \in Listed(disk) /\ q[1] = p
  BY <1>1, DeleteFacts DEF DeletedPlace
<1> HIDE DEF q
<1>5. p \in Folders(d)
  <2>1. p \notin Owned(disk, q)
    BY <1>1, <1>4, NotInItself
  <2>2. FoldersShrink(disk, d, q)
    BY <1>2, ShrunkFolders
  <2>3. QED
    BY <1>4, <2>1, <2>2 DEF FoldersShrink
<1>6. MapOf(d)[p] = FAT32_FAT_END_OF_FILE /\ TableIn(d[p])[0].folder
  BY <1>3, <1>5, FolderIsReadable
<1>7. q[2] \in Indices /\ ~TableIn(d[p])[q[2]].used
  <2>1. TableIn(d[p])[q[2]] = UnusedEntry
    BY <1>2, <1>4 DEF Shrinks, Shrunk
  <2>2. QED
    BY <1>1, <1>4, <2>1, OwnedFacts, UnusedTyped
<1>8. \E c \in Clusters : MapOf(d)[c] = FAT32_FAT_EMPTY_ENTRY
  <2> DEFINE c == At(disk, q).cluster
  <2>1. c \in Owned(disk, q) /\ c \in Clusters
    BY <1>1, <1>4, OwnedFacts
  <2>2. MapOf(d)[c] = 0
    BY <1>2, <2>1 DEF Shrinks, Shrunk
  <2>3. QED
    BY <2>1, <2>2 DEF FAT32_FAT_EMPTY_ENTRY
<1>9. MapOf(d) \in [Clusters -> Links]
  BY <1>3, TreeFacts
<1>10. QED
  BY <1>3, <1>5, <1>6, <1>7, <1>8, <1>9 DEF SpaceOn

LEMMA DeleteMakesRoom ==
  ASSUME DriverInv, WholeInv, crashes = 0, NoneTwice(disk), power = "on",
         NEW r \in AnyRequest, delete_code(r) = 0,
         NEW d, d = write_clusters(DeleteSteps(r), disk), DiskInv(d)
  PROVE  RoomOn(d, MapOf(d), r)
<1> DEFINE p == r.parent
           q == DeletedPlace(r)
<1>1. DiskInv(disk) /\ TreeInv(disk) /\ p \in Clusters
  BY WholeWhenOn DEF AnyRequest
<1>2. SpaceOn(d, MapOf(d), r) /\ p \in Folders(d)
  BY <1>1, DeleteMakesSpace
<1>3. Shrinks(disk, d, q)
  BY <1>1, DeleteShrinks
<1>4. q \in Listed(disk) /\ At(disk, q) = DeletedEntry(r) /\ q[1] = p
  BY <1>1, DeleteFacts DEF DeletedPlace
<1>5. At(disk, q).name = r.name /\ At(disk, q).ext = r.ext
  BY <1>1, <1>4, DeletedMatches DEF Matches, SameBytes
<1> HIDE DEF q
<1>6. ASSUME NEW i \in Indices \ {0, 1}, TableIn(d[p])[i].used,
             TableIn(d[p])[i].name = r.name, TableIn(d[p])[i].ext = r.ext
      PROVE  FALSE
  <2> DEFINE x == <<p, i>>
  <2>1. x \in Listed(d) /\ At(d, x) = TableIn(d[p])[i] /\ x[1] = p
    BY <1>2, <1>6 DEF Listed, At
  <2> HIDE DEF x
  <2>2. ListShrinks(disk, d, q)
    BY <1>3, ShrunkListed
  <2>3. x \in Listed(disk) /\ x # q /\ At(disk, x) = At(d, x)
    BY <2>1, <2>2 DEF ListShrinks
  <2>4. QED
    BY <1>4, <1>5, <1>6, <2>1, <2>3 DEF NoneTwice
<1>7. QED
  BY <1>2, <1>6 DEF RoomOn, NameOn

RoomStep ==
  /\ cmd.name = "write" /\ todo # << >> /\ Head(todo).op = "DELETE"
  /\ disk' # disk /\ mode' = "busy" /\ crashes' = 0
  => Room'
RoomAgain ==
  /\ cmd.name = "write" /\ todo # << >> /\ Head(todo).op = "DELETE"
  /\ disk' # disk /\ mode' = "busy"
  => write_code(cmd.to)' = 0

LEMMA WriteDeletes ==
  ASSUME WriteLeft, todo # << >>, Head(todo).op = "DELETE"
  PROVE  /\ Head(todo).req = cmd.to
         /\ \A code \in Codes : Returns(code) => todo' = <<Call("WRITE", cmd.to, Codes)>>
<1> DEFINE a == Call("DELETE", cmd.to, Codes)
           b == Call("WRITE", cmd.to, Codes)
<1>1. WritefCalls(cmd.to) = <<a, b>>
  BY DEF WritefCalls, AnyCode
<1>2. a.req = cmd.to /\ b.op = "WRITE" /\ b.after = Codes
  BY CallFields
<1> HIDE DEF a
<1>3. todo = <<a, b>> \/ todo = <<b>>
  BY <1>1 DEF WriteLeft
<1> HIDE DEF b
<1>4. /\ Head(<<a, b>>) = a /\ Head(<<b>>) = b /\ Tail(<<a, b>>) = <<b>>
      /\ <<a, b>>[2] = b
  BY OneCall, TwoCalls
<1>5. todo = <<a, b>>
  BY <1>2, <1>3, <1>4
<1>6. \A code \in Codes : Returns(code) => todo' = <<b>>
  BY <1>2, <1>4, <1>5 DEF Returns
<1>7. QED
  BY <1>2, <1>4, <1>5, <1>6 DEF b

LEMMA RoomIsMade ==
  ASSUME ShellInv, DriverInv', WholeInv, PendingInv, OnceInv, [ShellNext]_allVars
  PROVE  RoomStep
<1>1. SUFFICES ASSUME cmd.name = "write", todo # << >>, Head(todo).op = "DELETE",
                      disk' # disk, mode' = "busy", crashes' = 0
               PROVE  Room'
  BY DEF RoomStep
<1>2. DriverInv /\ DriverInv'
  BY DEF ShellInv
<1>3. mode \notin {"off", "inserting", "ready"}
  BY <1>1 DEF PendingInv
<1>4. WriteLeft /\ cmd.to \in AnyRequest /\ cmd.to.size = 1
  BY <1>1 DEF PendingInv, WriteLeft
<1>5. Head(todo).req = cmd.to
  BY <1>1, <1>4, WriteDeletes
<1>6. CallDelete
  <2>1. CASE CallDeleteLost
    BY <1>1, <2>1 DEF CallDeleteLost
  <2>2. CASE Start \/ StartInserter \/ Insert \/ RunCommand \/ StopInFormat
    BY <1>3, <2>2 DEF Start, StartInserter, Insert, RunCommand, StopInFormat
  <2>3. CASE SwitchOff \/ StopInCall
    BY <1>1, <2>3 DEF SwitchOff, StopInCall, ShellOff
  <2>4. CASE CallWrite \/ CallReadDirectory \/ CallChangeDir \/ Prompt
    BY <1>1, <2>4 DEF CallWrite, CallReadDirectory, CallChangeDir, Prompt
  <2>5. CASE UNCHANGED allVars
    BY <1>1, <2>5 DEF allVars, vars
  <2>6. QED
    BY <2>1, <2>2, <2>3, <2>4, <2>5 DEF ShellNext
<1>7. cmd' = cmd /\ (delete(cmd.to) \/ UNCHANGED vars)
  BY <1>5, <1>6 DEF CallDelete, Returns
<1>8. /\ power = "on" /\ power' = "on" /\ delete_code(cmd.to) = 0 /\ crashes = 0
      /\ disk' = write_clusters(DeleteSteps(cmd.to), disk)
  BY <1>1, <1>7 DEF delete, vars
<1>9. PICK r \in AnyRequest : r = cmd.to
  BY <1>4
<1>10. DiskInv(disk') /\ fat_table' = MapOf(disk') /\ NoneTwice(disk)
  BY <1>2, <1>8 DEF DriverInv, MemoryInv, MapOf, OnceInv
<1>11. RoomOn(disk', MapOf(disk'), r)
  BY <1>2, <1>8, <1>9, <1>10, DeleteMakesRoom
<1>12. QED
  BY <1>4, <1>7, <1>9, <1>10, <1>11 DEF Room

(* usermode/write.c, writef: it deletes the file before it writes it anew, *)
(* and looks at no return code.  A write that follows a delete that was    *)
(* made is never refused: the name is free, the table has an entry for it  *)
(* and the disk a cluster, whatever else was done before; for every disk,  *)
(* all names padded, until a stop inside a request.                        *)
THEOREM WriteHasRoom ==
  ASSUME NoCrash, AllNamesPadded
  PROVE  ShellSpec => WriteFindsRoomAgain
<1>1. ShellInv => DriverInv /\ Unstopped
  BY DEF ShellInv, DriverInv, NoCrash, Unstopped
<1>2. ShellInit => OnceInv
  <2>1. ASSUME ShellInit
        PROVE  NoneTwice(disk)
    <3>1. \A c \in Clusters : disk[c] = Zero
      BY <2>1 DEF ShellInit, Init
    <3>2. Listed(disk) = {}
      BY <3>1, BlankListsNothing
    <3>3. QED
      BY <3>2 DEF NoneTwice
  <2>2. QED
    BY <2>1 DEF OnceInv
<1>3. ASSUME ShellInv, WholeInv, PendingInv, OnceInv, [ShellNext]_allVars
      PROVE  OnceInv'
  BY <1>3, OnceStep
<1>4. ASSUME ShellInv, DriverInv', WholeInv, PendingInv, OnceInv, [ShellNext]_allVars
      PROVE  [RoomStep]_allVars
  BY <1>4, RoomIsMade
<1>5. RoomStep /\ Unstopped' /\ (Room' => RoomCode') => RoomAgain
  BY DEF RoomStep, RoomCode, RoomAgain, Unstopped
<1>6. QED
  BY <1>1, <1>2, <1>3, <1>4, <1>5, RoomIsEnough, ShellIsTyped, ShellKeepsTheTree,
     ShellIsPending, PTL DEF WriteFindsRoomAgain, RoomAgain, ShellSpec

-----------------------------------------------------------------------------
(* The prompt climbs to the root.                                          *)

ClimbFrom(c, w) ==
  /\ w \in [0 .. CLUSTER_MAP_SIZE -> Clusters] /\ w[0] = c
  /\ \A n \in 1 .. CLUSTER_MAP_SIZE :
       w[n] = IF w[n - 1] = 2 THEN 2 ELSE Table(w[n - 1])[0].cluster

LEMMA ClimbUnfolds ==
  ASSUME DriverInv, NEW c \in Clusters
  PROVE  \E w : ClimbFrom(c, w) /\ (Climbs(c) <=> w[CLUSTER_MAP_SIZE] = 2)
<1> DEFINE N == CLUSTER_MAP_SIZE
           Up == [x \in Clusters |-> IF x = 2 THEN x ELSE Table(x)[0].cluster]
           F == [n \in Nat |-> Up]
           Is(at) == at = [n \in 0 .. N |->
                             IF n = 0 THEN c
                             ELSE LET x == at[n - 1]
                                  IN IF x = 2 THEN x ELSE Table(x)[0].cluster]
<1>1. N \in Nat /\ 2 \in Clusters
  BY ClusterBasics
<1>2. \A x \in Clusters : Table(x)[0].cluster \in Clusters
  <2>1. ASSUME NEW x \in Clusters
        PROVE  Table(x)[0] \in DirectoryEntries
    <3>1. Table(x) \in Tables /\ 0 \in Indices
      BY TypesOfDriver, ClusterBasics
    <3>2. QED
      BY <3>1 DEF Tables
  <2>2. QED
    BY <2>1 DEF DirectoryEntries
<1>3. F \in [Nat -> [Clusters -> Clusters]]
  BY <1>1, <1>2
<1>4. PICK f : Recursion(f, N, Clusters, c, F)
  <2> HIDE DEF F, N
  <2> QED
    BY <1>1, <1>3, RecursionExists
<1>5. \A n \in 1 .. N : f[n] = IF f[n - 1] = 2 THEN 2 ELSE Table(f[n - 1])[0].cluster
  <2>1. ASSUME NEW n \in 1 .. N
        PROVE  f[n] = IF f[n - 1] = 2 THEN 2 ELSE Table(f[n - 1])[0].cluster
    <3>1. n \in Nat /\ n - 1 \in 0 .. N /\ f[n] = F[n][f[n - 1]]
      <4> HIDE DEF F
      <4> QED
        BY <1>1, <1>4 DEF Recursion
    <3>2. f[n - 1] \in Clusters
      BY <1>4, <3>1 DEF Recursion
    <3>3. F[n][f[n - 1]] = Up[f[n - 1]]
      BY <3>1
    <3>4. QED
      BY <3>1, <3>2, <3>3
  <2>2. QED
    BY <2>1
<1>6. Is(f)
  <2> HIDE DEF F, N
  <2>1. \A n \in 0 .. N : n # 0 => n \in 1 .. N
    BY <1>1
  <2>2. f \in [0 .. N -> Clusters] /\ f[0] = c
    BY <1>4 DEF Recursion
  <2>3. QED
    BY <1>5, <2>1, <2>2
<1> DEFINE w == CHOOSE at : Is(at)
<1>7. Is(w)
  <2> HIDE DEF Is
  <2> QED
    BY <1>6
<1>8. Climbs(c) <=> w[N] = 2
  BY DEF Climbs, ROOT_CLUSTER_NUMBER
<1> HIDE DEF w
<1>9. w[0] = c /\ DOMAIN w = 0 .. N
  BY <1>1, <1>7
<1>10. \A n \in 1 .. N : w[n] = IF w[n - 1] = 2 THEN 2 ELSE Table(w[n - 1])[0].cluster
  BY <1>1, <1>7
<1>11. \A n \in 0 .. N : w[n] \in Clusters
  <2> DEFINE S == {n \in 0 .. N : w[n] \in Clusters}
  <2>1. 0 \in S
    BY <1>1, <1>9
  <2>2. ASSUME NEW n \in 0 .. N - 1, n \in S
        PROVE  n + 1 \in S
    <3>1. n + 1 \in 1 .. N /\ (n + 1) - 1 = n /\ w[n] \in Clusters
      BY <1>1, <2>2
    <3>2. w[n + 1] = IF w[n] = 2 THEN 2 ELSE Table(w[n])[0].cluster
      BY <1>10, <3>1
    <3>3. QED
      BY <1>1, <1>2, <3>1, <3>2
  <2>3. 0 .. N \subseteq S
    <3> HIDE DEF S, N
    <3> QED
      BY <1>1, <2>1, <2>2, UpTo
  <2>4. QED
    BY <2>3
<1>12. w \in [0 .. N -> Clusters]
  BY <1>7, <1>11
<1>13. ClimbFrom(c, w)
  BY <1>9, <1>10, <1>12 DEF ClimbFrom
<1>14. QED
  BY <1>8, <1>13

(* From the parent the climb is one step shorter.                          *)
LEMMA ClimbsOn ==
  ASSUME NEW x, NEW y, NEW v, NEW w, ClimbFrom(x, w), ClimbFrom(y, v),
         x # 2, Table(x)[0].cluster = y, NEW n \in 0 .. CLUSTER_MAP_SIZE - 1
  PROVE  w[n + 1] = v[n]
<1> DEFINE N == CLUSTER_MAP_SIZE
           S == {m \in 0 .. N - 1 : w[m + 1] = v[m]}
<1>1. N \in Nat /\ N - 1 \in Nat
  BY ClusterBasics
<1>2. 0 \in S
  <2>1. 1 \in 1 .. N /\ 1 - 1 = 0
    BY <1>1
  <2>2. w[1] = IF w[0] = 2 THEN 2 ELSE Table(w[0])[0].cluster
    BY <2>1 DEF ClimbFrom
  <2>3. w[0] = x /\ v[0] = y
    BY DEF ClimbFrom
  <2>4. QED
    BY <1>1, <2>2, <2>3
<1>3. ASSUME NEW m \in 0 .. (N - 1) - 1, m \in S
      PROVE  m + 1 \in S
  <2>1. m + 1 \in 1 .. N /\ m + 2 \in 1 .. N /\ (m + 1) - 1 = m /\ (m + 2) - 1 = m + 1
        /\ m + 1 \in 0 .. N - 1 /\ (m + 1) + 1 = m + 2
    BY <1>1
  <2>2. w[m + 1] = v[m]
    BY <1>3
  <2>3. v[m + 1] = IF v[m] = 2 THEN 2 ELSE Table(v[m])[0].cluster
    BY <2>1 DEF ClimbFrom
  <2>4. w[m + 2] = IF w[m + 1] = 2 THEN 2 ELSE Table(w[m + 1])[0].cluster
    BY <2>1 DEF ClimbFrom
  <2>5. QED
    BY <2>1, <2>2, <2>3, <2>4
<1>4. 0 .. N - 1 \subseteq S
  <2> HIDE DEF S, N
  <2> QED
    BY <1>1, <1>2, <1>3, UpTo
<1>5. QED
  BY <1>4

LEMMA FoldersClimb ==
  ASSUME DriverInv, TreeInv(disk), Formatted, NEW c \in Folders(disk)
  PROVE  Climbs(c)
<1> DEFINE N == CLUSTER_MAP_SIZE
<1>1. DiskInv(disk) /\ N \in Nat
  BY ClusterBasics DEF DriverInv
<1>2. Table(2)[0].folder
  BY <1>1, TreeFacts, FolderIsReadable DEF Table
<1>3. PICK up : Levels(up, N) /\ FolderClusters = up[N]
  BY <1>2, FolderLevels
<1>4. FolderClusters = Folders(disk)
  BY FoldersAreFound
<1> DEFINE S == {n \in 0 .. N : \A x \in up[n] : \A w : ClimbFrom(x, w) => w[n] = 2}
<1>5. 0 \in S
  BY <1>1, <1>3 DEF Levels, ClimbFrom
<1>6. ASSUME NEW n \in 0 .. N - 1, n \in S
      PROVE  n + 1 \in S
  <2>1. n + 1 \in 1 .. N /\ (n + 1) - 1 = n /\ n \in 0 .. N /\ n + 1 \in 0 .. N
    BY <1>1
  <2>2. up[n + 1] = Deeper(up[n]) /\ up[n] \in SUBSET Clusters
    BY <1>3, <2>1 DEF Levels
  <2>3. SUFFICES ASSUME NEW x \in up[n + 1], NEW w, ClimbFrom(x, w)
                 PROVE  w[n + 1] = 2
    BY <2>1
  <2>4. CASE x \in up[n]
    <3>1. w[n] = 2
      BY <1>6, <2>3, <2>4
    <3>2. w[n + 1] = IF w[n] = 2 THEN 2 ELSE Table(w[n])[0].cluster
      BY <2>1, <2>3 DEF ClimbFrom
    <3>3. QED
      BY <3>1, <3>2
  <2>5. CASE x \notin up[n]
    <3>1. PICK p \in Listed(disk) :
            p[1] \in up[n] /\ At(disk, p).folder /\ At(disk, p).cluster = x
      BY <2>2, <2>5, DeeperIs
    <3>2. x > 2 /\ x \in Clusters /\ p[1] \in Clusters
      BY <1>1, <2>2, <3>1, OwnedFacts
    <3>3. TableIn(disk[x])[0] = FolderEntry(At(disk, p).name, p[1])
      BY <3>1 DEF TreeInv, EntryIsWhole, FolderIsWhole
    <3>4. Table(x)[0].cluster = p[1]
      BY <3>3, EntryOfFolder DEF Table
    <3>5. PICK v : ClimbFrom(p[1], v)
      BY <3>2, ClimbUnfolds
    <3>6. v[n] = 2
      BY <1>6, <3>1, <3>5
    <3>7. x # 2
      BY <3>2
    <3>8. w[n + 1] = v[n]
      BY <2>3, <3>4, <3>5, <3>7, ClimbsOn
    <3>9. QED
      BY <3>6, <3>8
  <2>6. QED
    BY <2>4, <2>5
<1>7. 0 .. N \subseteq S
  <2> HIDE DEF S, N
  <2> QED
    BY <1>1, <1>5, <1>6, UpTo
<1>8. N \in S /\ c \in up[N] /\ c \in Clusters
  BY <1>1, <1>3, <1>4, <1>7 DEF Folders
<1>9. PICK w : ClimbFrom(c, w) /\ (Climbs(c) <=> w[N] = 2)
  BY <1>8, ClimbUnfolds
<1>10. QED
  BY <1>8, <1>9

(* From what is no folder it comes to block 0, and stays there.            *)
LEMMA OnlyFoldersClimb ==
  ASSUME DriverInv, TreeInv(disk), Formatted, NEW c \in Clusters, c \notin Folders(disk)
  PROVE  ~Climbs(c)
<1> DEFINE N == CLUSTER_MAP_SIZE
<1>1. PICK w : ClimbFrom(c, w) /\ (Climbs(c) <=> w[N] = 2)
  BY ClimbUnfolds
<1>2. N \in Nat /\ 0 \in Clusters /\ 0 \in Indices
  BY ClusterBasics
<1>3. 2 \in Folders(disk)
  BY TreeFacts DEF DriverInv
<1>4. 0 \notin Folders(disk)
  BY Kinds DEF Formatted, BOOT_SECTOR, Folders
<1>5. ASSUME NEW x \in Clusters, x \notin Folders(disk)
      PROVE  Table(x)[0].cluster = 0 /\ x # 2
  <2>1. disk[x].kind # "directory"
    BY <1>5 DEF Folders
  <2>2. Table(x)[0] = UnusedEntry
    BY <1>2, <2>1 DEF Table, TableIn
  <2>3. Table(x)[0].cluster = 0
    <3>1. UnusedEntry.cluster = 0
      BY DEF UnusedEntry
    <3>2. QED
      BY <2>2, <3>1
  <2>4. x # 2
    BY <1>3, <1>5
  <2>5. QED
    BY <2>3, <2>4
<1> DEFINE S == {n \in 0 .. N : w[n] \in Clusters /\ w[n] \notin Folders(disk)}
<1>6. 0 \in S
  BY <1>1, <1>2 DEF ClimbFrom
<1>7. ASSUME NEW n \in 0 .. N - 1, n \in S
      PROVE  n + 1 \in S
  <2>1. n + 1 \in 1 .. N /\ (n + 1) - 1 = n /\ n + 1 \in 0 .. N
    BY <1>2
  <2>2. w[n] \in Clusters /\ w[n] \notin Folders(disk)
    BY <1>7
  <2>3. w[n + 1] = IF w[n] = 2 THEN 2 ELSE Table(w[n])[0].cluster
    BY <1>1, <2>1 DEF ClimbFrom
  <2>4. w[n + 1] = 0
    BY <1>5, <2>2, <2>3
  <2>5. QED
    BY <1>2, <1>4, <2>1, <2>4
<1>8. 0 .. N \subseteq S
  <2> HIDE DEF S, N
  <2> QED
    BY <1>2, <1>6, <1>7, UpTo
<1>9. N \in S
  BY <1>2, <1>8
<1>10. QED
  BY <1>1, <1>3, <1>9

LEMMA AstrayStep ==
  ASSUME ShellInv, WholeInv, AstrayOnlyWithoutFolder, [ShellNext]_allVars
  PROVE  AstrayOnlyWithoutFolder'
<1>1. SUFFICES ASSUME crashes' = 0, mode' = "astray"
               PROVE  ~Table(cwd)[0].folder'
  BY DEF AstrayOnlyWithoutFolder
<1>2. CASE UNCHANGED allVars
  BY <1>1, <1>2 DEF AstrayOnlyWithoutFolder, allVars, vars, shellVars, Table
<1>3. CASE Prompt
  <2>1. ~Climbs(cwd) /\ crashes = 0 /\ disk' = disk /\ cwd' = cwd
    BY <1>1, <1>3 DEF Prompt, vars
  <2>2. ~Table(cwd)[0].folder
    <3>1. SUFFICES ASSUME Table(cwd)[0].folder
                   PROVE  FALSE
      OBVIOUS
    <3>2. cwd \in Clusters /\ DriverInv /\ 0 \in Indices
      BY ClusterBasics DEF ShellInv
    <3>3. disk[cwd].kind = "directory"
      BY <3>1, <3>2 DEF Table, TableIn, UnusedEntry
    <3>4. TreeInv(disk) /\ Formatted
      BY <2>1, <3>2, <3>3, Kinds DEF WholeInv, Formatted, BOOT_SECTOR
    <3>5. QED
      BY <2>1, <3>2, <3>3, <3>4, FoldersClimb DEF Folders
  <2>3. QED
    BY <2>1, <2>2 DEF Table
<1>4. CASE ~UNCHANGED allVars /\ ~Prompt
  <2>1. CASE Start \/ StartInserter \/ SwitchOff \/ StopInFormat \/ StopInCall
    BY <1>1, <2>1 DEF Start, StartInserter, SwitchOff, StopInFormat, StopInCall, ShellOff
  <2>2. CASE Insert
    BY <1>1, <2>2 DEF Insert
  <2>3. CASE CallWrite \/ CallDelete \/ CallDeleteLost \/ CallReadDirectory \/ CallChangeDir
    BY <1>1, <2>3
       DEF CallWrite, CallDelete, CallDeleteLost, CallReadDirectory, CallChangeDir, Returns
  <2>4. CASE RunCommand
    <3>1. mode' = "busy"
      BY <2>4, CommandsBegin
         DEF CommandBegins, FolderEntered, NothingDone, EntryMade, FileReplaced, EntryRemoved,
             EntryTransferred, EntryRenamed, cd, Begin, Finish
    <3>2. QED
      BY <1>1, <3>1
  <2>5. QED
    BY <1>4, <2>1, <2>2, <2>3, <2>4 DEF ShellNext
<1>5. QED
  BY <1>2, <1>3, <1>4

(* usermode/util.c, print_curr_dir: until a stop inside a request it loses *)
(* its way up to the root only when the folder the shell stands in was     *)
(* deleted, whatever was moved or renamed above it, and however deep it is *)
(* on a disk of any size.                                                  *)
THEOREM PromptFindsTheRoot == ShellSpec => []AstrayOnlyWithoutFolder
<1>1. ShellInit => AstrayOnlyWithoutFolder
  BY DEF ShellInit, AstrayOnlyWithoutFolder
<1>2. AstrayOnlyWithoutFolder /\ ShellInv /\ WholeInv /\ [ShellNext]_allVars
      => AstrayOnlyWithoutFolder'
  BY AstrayStep
<1>3. QED
  BY <1>1, <1>2, ShellIsTyped, ShellKeepsTheTree, PTL DEF ShellSpec

-----------------------------------------------------------------------------
(* What the shell shows.                                                   *)

LEMMA EntersAFolder ==
  ASSUME DriverInv, TreeInv(disk), NEW c \in Folders(disk), NEW name,
         EnterFolder(c, name) # Invalid
  PROVE  EnterFolder(c, name) \in Folders(disk)
<1> DEFINE found == EntriesNamed(Table(c), name)
           i == First(found)
           t == Table(c)
<1>1. DiskInv(disk) /\ c \in Clusters
  BY DEF DriverInv, Folders
<1>2. found \subseteq Indices \ {0} /\ found \subseteq Indices
  BY DEF EntriesNamed
<1>3. found # {} /\ t[i].folder /\ EnterFolder(c, name) = t[i].cluster
  BY DEF EnterFolder
<1>4. i \in found
  <2> HIDE DEF found, t
  <2> QED
    BY <1>1, <1>2, <1>3, EntryIsTyped
<1>5. i \in Indices /\ i # 0 /\ t[i].used
  BY <1>2, <1>4 DEF EntriesNamed
<1>6. CASE i = 1 /\ c = 2
  <2>1. t[1] = FolderEntry("..", 2) /\ 2 \in Folders(disk)
    BY <1>1, <1>6, TreeFacts DEF IsRootTable, Table, ROOT_CLUSTER_NUMBER
  <2>2. t[1].cluster = 2
    BY <2>1, EntryOfFolder
  <2>3. QED
    BY <1>3, <1>6, <2>1, <2>2
<1>7. CASE i = 1 /\ c # 2
  <2>1. PICK p \in Listed(disk) : At(disk, p).folder /\ At(disk, p).cluster = c
    BY <1>7 DEF TreeInv, FoldersAreListed
  <2>2. TableIn(disk[c])[1] = FolderEntry("..", p[1])
    BY <2>1 DEF TreeInv, EntryIsWhole, FolderIsWhole
  <2>3. t[1].cluster = p[1]
    BY <2>2, EntryOfFolder DEF Table
  <2>4. p[1] \in Folders(disk)
    BY <1>1, <2>1, OwnedFacts
  <2>5. QED
    BY <1>3, <1>7, <2>3, <2>4
<1>8. CASE i # 1
  <2> DEFINE p == <<c, i>>
  <2>1. p \in Listed(disk) /\ At(disk, p) = t[i]
    BY <1>5, <1>8 DEF Listed, At, Table
  <2>2. FolderIsWhole(disk, p)
    BY <1>3, <2>1 DEF TreeInv, EntryIsWhole
  <2>3. QED
    BY <1>3, <2>1, <2>2 DEF FolderIsWhole
<1>9. QED
  BY <1>6, <1>7, <1>8

(* From a folder, a path leads to folders.                                 *)
LEMMA VisitsFolders ==
  ASSUME DriverInv, TreeInv(disk), cwd \in Folders(disk), NEW path, Len(path) \in Nat,
         NEW n \in 0 .. Len(path), Visited(path)[n] # Invalid
  PROVE  Visited(path)[n] \in Folders(disk)
<1> DEFINE N == Len(path)
           w == Visited(path)
           S == {m \in 0 .. N : w[m] = Invalid \/ w[m] \in Folders(disk)}
<1>1. cwd \in Clusters
  BY DEF Folders
<1>2. /\ w[0] = cwd
      /\ \A m \in 1 .. N :
           w[m] = IF w[m - 1] = Invalid THEN Invalid ELSE EnterFolder(w[m - 1], path[m])
  BY <1>1, VisitedUnfolds
<1> HIDE DEF w
<1>3. 0 \in S
  BY <1>2
<1>4. ASSUME NEW m \in 0 .. N - 1, m \in S
      PROVE  m + 1 \in S
  <2>1. m + 1 \in 1 .. N /\ (m + 1) - 1 = m /\ m + 1 \in 0 .. N
    OBVIOUS
  <2>2. w[m + 1] = IF w[m] = Invalid THEN Invalid ELSE EnterFolder(w[m], path[m + 1])
    BY <1>2, <2>1
  <2>3. w[m] = Invalid \/ w[m] \in Folders(disk)
    BY <1>4
  <2>4. w[m + 1] = Invalid \/ w[m + 1] \in Folders(disk)
    BY <2>2, <2>3, EntersAFolder
  <2>5. QED
    BY <2>1, <2>4
<1>5. 0 .. N \subseteq S
  <2> HIDE DEF S
  <2> QED
    BY <1>3, <1>4, UpTo
<1>6. n \in S
  BY <1>5
<1>7. QED
  BY <1>6 DEF w

FolderTable(t) == \E c \in Folders(disk) : t = Table(c)

LEMMA WalksShowFolders ==
  ASSUME DriverInv, TreeInv(disk), cwd \in Folders(disk),
         NEW path, Len(path) \in Nat, NEW padded, NEW v \in Walks(path, padded)
  PROVE  /\ v.to # Invalid => v.to \in Folders(disk)
         /\ FolderTable(v.loaded) \/ v.loaded = curr_dir
<1> DEFINE at == Visited(path)
           looked == {n \in 0 .. Len(path) - 1 : at[n] # Invalid}
           last == CHOOSE n \in looked : \A k \in looked : k <= n
<1>1. \A n \in 0 .. Len(path) : at[n] # Invalid => at[n] \in Folders(disk)
  BY VisitsFolders
<1>2. \/ v = [to |-> at[Len(path)],
              loaded |-> IF looked = {} THEN curr_dir ELSE Table(at[last])]
      \/ \E n \in looked : v = [to |-> Invalid, loaded |-> Table(at[n])]
  <2> HIDE DEF at, last
  <2> QED
    BY DEF Walks, at, last
<1> HIDE DEF at
<1>3. \A n \in looked : FolderTable(Table(at[n]))
  <2>1. ASSUME NEW n \in looked
        PROVE  at[n] \in Folders(disk)
    <3>1. n \in 0 .. Len(path) /\ at[n] # Invalid
      OBVIOUS
    <3>2. QED
      BY <1>1, <3>1
  <2>2. QED
    BY <2>1 DEF FolderTable
<1>4. looked # {} => last \in looked
  <2>1. IsFiniteSet(0 .. Len(path) - 1)
    <3>1. 0 \in Int /\ Len(path) - 1 \in Int
      OBVIOUS
    <3>2. QED
      BY <3>1, FS_Interval
  <2>2. looked \subseteq 0 .. Len(path) - 1 /\ looked \subseteq Int
    OBVIOUS
  <2>3. IsFiniteSet(looked)
    BY <2>1, <2>2, FS_Subset
  <2> HIDE DEF looked
  <2>4. QED
    BY <2>2, <2>3, GreatestOf
<1>5. Len(path) \in 0 .. Len(path)
  OBVIOUS
<1> HIDE DEF looked, last
<1>6. QED
  BY <1>1, <1>2, <1>3, <1>4, <1>5

LEMMA ShowsFolders ==
  ASSUME DriverInv, TreeInv(disk), cwd \in Folders(disk), NEW table, Shows(table)
  PROVE  FolderTable(table) \/ table = curr_dir
<1>1. CASE table \in {curr_dir, Table(cwd)}
  BY <1>1 DEF FolderTable
<1>2. CASE table \notin {curr_dir, Table(cwd)}
  <2>1. PICK path, padded : Len(path) \in Nat /\ \E v \in Walks(path, padded) : table = v.loaded
    BY <1>2 DEF Shows
  <2>2. PICK v \in Walks(path, padded) : table = v.loaded
    BY <2>1
  <2>3. QED
    BY <2>1, <2>2, WalksShowFolders
<1>3. QED
  BY <1>1, <1>2

(* In the root the prompt asks for a name of the root's own table.         *)
LEMMA LoadsAFolder ==
  ASSUME DriverInv, TreeInv(disk), NEW r, r.parent = 2, read_directory_code(r) = 0
  PROVE  FolderTable(LoadedBy(r))
<1> DEFINE i == First(ReadableFolders(r))
           t == Table(2)
<1>1. DiskInv(disk) /\ 2 \in Clusters /\ 2 \in Folders(disk)
  BY TreeFacts, ClusterBasics DEF DriverInv
<1>2. ReadableFolders(r) # {} /\ ReadableFolders(r) \subseteq Indices
  BY DEF read_directory_code, ReadableFolders
<1>3. i \in ReadableFolders(r)
  BY <1>1, <1>2, EntryIsTyped
<1>4. i \in Indices /\ t[i].used /\ t[i].folder
  BY <1>2, <1>3 DEF read_directory_code, ReadableFolders, Matches
<1>5. t[i].cluster \in Folders(disk)
  <2>1. CASE i \in {0, 1}
    <3>1. t[0] = FolderEntry("root", 2) /\ t[1] = FolderEntry("..", 2)
      BY <1>1, TreeFacts DEF IsRootTable, Table, ROOT_CLUSTER_NUMBER
    <3>2. t[i].cluster = 2
      BY <2>1, <3>1, EntryOfFolder
    <3>3. QED
      BY <1>1, <3>2
  <2>2. CASE i \notin {0, 1}
    <3> DEFINE p == <<2, i>>
    <3>1. p \in Listed(disk) /\ At(disk, p) = t[i]
      BY <1>1, <1>4, <2>2 DEF Listed, At, Table
    <3>2. FolderIsWhole(disk, p)
      BY <1>4, <3>1 DEF TreeInv, EntryIsWhole
    <3>3. QED
      BY <3>1, <3>2 DEF FolderIsWhole
  <2>3. QED
    BY <2>1, <2>2
<1>6. LoadedBy(r) = Table(t[i].cluster)
  BY DEF LoadedBy, read_directory_buffer, Table
<1>7. QED
  BY <1>5, <1>6 DEF FolderTable

(* An entry of the root by its name; a table that lists nothing, whose     *)
(* folder is gone from the root, and a file in its place.                  *)
InRoot(name) ==
  \E p \in Listed(disk) : p[1] = 2 /\ At(disk, p).name = name /\ At(disk, p).ext = ""
FileInRoot(name) ==
  \E p \in Listed(disk) :
    p[1] = 2 /\ At(disk, p).name = name /\ At(disk, p).ext = "" /\ ~At(disk, p).folder
ListsNothing(t) == \A i \in Indices \ {0, 1} : ~t[i].used
Replaced(t) == ListsNothing(t) /\ FileInRoot(t[0].name)

(* Only a file keeps the prompt from loading a folder of a name that is    *)
(* there.                                                                  *)
LEMMA FileIsInTheWay ==
  ASSUME DriverInv, TreeInv(disk), fat_table = MapOf(disk),
         NEW r, r.parent = 2, r.padded, r.ext = "", InRoot(r.name),
         read_directory_code(r) # 0
  PROVE  FileInRoot(r.name)
<1> DEFINE S == ReadableFolders(r)
           i == First(S)
           t == Table(2)
           x == <<2, i>>
<1>1. DiskInv(disk) /\ 2 \in Clusters /\ 2 \in Folders(disk)
  BY TreeFacts, ClusterBasics DEF DriverInv
<1>2. S # {} /\ S \subseteq Indices
  <2>1. PICK p \in Listed(disk) :
          p[1] = 2 /\ At(disk, p).name = r.name /\ At(disk, p).ext = ""
    BY DEF InRoot
  <2>2. p[2] \in Indices /\ At(disk, p).used /\ At(disk, p) = t[p[2]]
    BY <1>1, <2>1, OwnedFacts DEF At, Table
  <2>3. p[2] \in S
    BY <2>1, <2>2 DEF ReadableFolders, Matches, SameBytes
  <2>4. QED
    BY <2>3 DEF ReadableFolders
<1>3. i \in S
  <2> HIDE DEF S
  <2> QED
    BY <1>1, <1>2, EntryIsTyped
<1>4. i \in Indices /\ t[i].used /\ t[i].name = r.name /\ t[i].ext = ""
  BY <1>3 DEF ReadableFolders, Matches, SameBytes
<1>5. ~t[i].folder
  <2>1. IsFolderTable(2)
    BY <1>1, FolderIsReadable DEF IsFolderTable
  <2>2. QED
    BY <1>2, <2>1 DEF read_directory_code
<1>6. i \notin {0, 1}
  <2>1. t[0] = FolderEntry("root", 2) /\ t[1] = FolderEntry("..", 2)
    BY <1>1, TreeFacts DEF IsRootTable, Table, ROOT_CLUSTER_NUMBER
  <2> HIDE DEF t
  <2>2. t[0].folder /\ t[1].folder
    BY <2>1, EntryOfAFolder
  <2>3. QED
    BY <1>5, <2>2
<1>7. x \in Listed(disk) /\ At(disk, x) = t[i] /\ x[1] = 2
  BY <1>1, <1>4, <1>6 DEF Listed, At, Table
<1> HIDE DEF x
<1>8. QED
  BY <1>4, <1>5, <1>7 DEF FileInRoot

LEMMA LeastNumbers ==
  /\ Nat \subseteq Int
  /\ \A m \in Nat : m <= 0 => m = 0
  /\ \A m \in Nat : m > 1 => m = 2 \/ m > 2
OBVIOUS

(* It finds the root by its own name.                                      *)
LEMMA RootIsLoaded ==
  ASSUME DriverInv, WholeInv, crashes = 0, power = "on",
         NEW r, r.parent = 2, r.name = "root", r.ext = "", r.padded
  PROVE  LoadedBy(r) = Table(2)
<1> DEFINE t == Table(2)
           f == FolderEntry("root", 2)
<1>1. DiskInv(disk) /\ TreeInv(disk) /\ fat_table = MapOf(disk)
  BY WholeWhenOn
<1>2. 2 \in Folders(disk) /\ 2 \in Clusters /\ 0 \in Indices
  BY <1>1, TreeFacts, ClusterBasics
<1>3. f.name = "root" /\ f.cluster = 2 /\ f.folder /\ f.used /\ f.ext = ""
  BY DEF FolderEntry, UnusedEntry
<1>4. IsRootTable(t)
  BY <1>1, TreeFacts DEF Table
<1> HIDE DEF t
<1>5. t[0] = f
  BY <1>4 DEF IsRootTable, ROOT_CLUSTER_NUMBER
<1> HIDE DEF f
<1>6. 0 \in ReadableFolders(r)
  <2>1. Matches(t[0], r)
    BY <1>3, <1>5 DEF Matches, SameBytes
  <2>2. QED
    BY <1>2, <2>1 DEF ReadableFolders, t
<1>7. First(ReadableFolders(r)) = 0
  <2> DEFINE S == ReadableFolders(r)
  <2>1. S \subseteq Indices
    BY DEF ReadableFolders
  <2>2. S \subseteq Nat /\ S \subseteq Int /\ IsFiniteSet(S)
    <3>1. Indices \subseteq Nat /\ IsFiniteSet(Indices)
      BY ClusterBasics
    <3>2. IsFiniteSet(S)
      BY <2>1, <3>1, FS_Subset
    <3> HIDE DEF S
    <3>3. S \subseteq Nat
      BY <2>1, <3>1
    <3>4. QED
      BY <3>2, <3>3, LeastNumbers
  <2> HIDE DEF S
  <2>3. S # {}
    BY <1>6 DEF S
  <2>4. First(S) \in S /\ First(S) <= 0
    BY <1>6, <2>2, <2>3, FirstOf DEF S
  <2>5. First(S) = 0
    BY <2>2, <2>4, LeastNumbers
  <2>6. QED
    BY <2>5 DEF S
<1>8. IsFolderTable(2)
  BY <1>1, <1>2, FolderIsReadable DEF IsFolderTable
<1>9. read_directory_code(r) = 0
  BY <1>3, <1>5, <1>6, <1>7, <1>8 DEF read_directory_code, t
<1>10. read_directory_buffer(r) = disk[2]
  BY <1>3, <1>5, <1>7 DEF read_directory_buffer, t
<1>11. QED
  BY <1>9, <1>10 DEF LoadedBy, Table, t

(* What may be on its way to the screen: the last call loads the table, or *)
(* the root's table was loaded, or what is left puts at most a file in the *)
(* place of the folder.                                                    *)
LoadsLast ==
  /\ todo # << >>
  /\ todo[Len(todo)].op \in {"READ_DIRECTORY", "CHANGE_DIR"}
  /\ todo[Len(todo)].after = Codes
RootLoaded == curr_dir[0] = FolderEntry("root", 2)
FileCall(call) ==
  /\ call.op \in {"WRITE", "DELETE"} /\ call.req.parent = 2
  /\ call.op = "DELETE" => cmd.name = "write"
FileCallsLeft == \A j \in DOMAIN todo : FileCall(todo[j])
(* write has deleted what bore that name, and will make it again.          *)
Remade(name) ==
  /\ todo = <<Call("WRITE", cmd.to, Codes)>>
  /\ cmd.to \in AnyRequest /\ cmd.to.parent = 2 /\ cmd.to.size = 1
  /\ cmd.to.name = name /\ cmd.to.ext = ""
  /\ SpaceOn(disk, MapOf(disk), cmd.to)
Lasting ==
  \/ FolderTable(curr_dir)
  \/ /\ ListsNothing(curr_dir)
     /\ InRoot(curr_dir[0].name) \/ Remade(curr_dir[0].name)
ListingInv ==
  crashes = 0 =>
    /\ mode \in {"busy", "ready"} => power = "on"
    /\ mode = "ready" => /\ cwd \in Folders(disk)
                         /\ FolderTable(curr_dir) \/ Replaced(curr_dir)
                         /\ cwd # 2 => curr_dir = Table(cwd)
    /\ mode = "busy" /\ cwd = 2 => LoadsLast \/ RootLoaded \/ (Lasting /\ FileCallsLeft)

LEMMA LoadsStay ==
  ASSUME ShellInv, LoadsLast, Head(todo).op \in {"WRITE", "DELETE"},
         NEW code \in Codes, Returns(code)
  PROVE  LoadsLast'
<1>1. todo \in Seq(Calls) /\ todo # << >>
  BY DEF ShellInv, LoadsLast
<1> DEFINE n == Len(todo)
<1>2. n \in Nat /\ n >= 1 /\ Head(todo) = todo[1]
  BY <1>1
<1>3. n > 1
  BY <1>2 DEF LoadsLast
<1>4. CASE todo' = Tail(todo)
  <2>1. Len(Tail(todo)) = n - 1 /\ Tail(todo)[n - 1] = todo[n]
    BY <1>1, <1>2, <1>3
  <2>2. QED
    BY <1>2, <1>3, <1>4, <2>1 DEF LoadsLast
<1>5. CASE n > 2 /\ todo' = Tail(Tail(todo))
  <2> DEFINE s == Tail(todo)
             u == Tail(s)
  <2>1. s \in Seq(Calls) /\ Len(s) = n - 1 /\ s[n - 1] = todo[n]
    BY <1>1, <1>2, <1>3
  <2>2. todo' = u
    BY <1>5
  <2> HIDE DEF s
  <2>3. n - 1 \in Nat /\ n - 1 >= 2
    BY <1>2, <1>5
  <2>4. u \in Seq(Calls) /\ Len(u) = n - 2 /\ u[n - 2] = s[n - 1]
    <3>1. s # << >>
      BY <2>1, <2>3
    <3>2. Len(s) \in Nat /\ Len(s) >= 2
      BY <2>1, <2>3
    <3>3. u \in Seq(Calls) /\ Len(u) = Len(s) - 1 /\ u[Len(s) - 1] = s[Len(s)]
      BY <2>1, <3>1, <3>2
    <3> HIDE DEF u
    <3>4. (n - 1) - 1 = n - 2
      BY <1>2
    <3>5. QED
      BY <2>1, <3>3, <3>4
  <2> HIDE DEF u
  <2>5. u # << >> /\ n - 2 \in Nat
    BY <2>3, <2>4
  <2>6. u[Len(u)] = todo[n]
    BY <2>1, <2>4
  <2>7. QED
    BY <2>2, <2>5, <2>6 DEF LoadsLast
<1>6. n = 2 => todo' = Tail(todo)
  BY DEF Returns, LoadsLast
<1>7. todo' = Tail(todo) \/ todo' = Tail(Tail(todo))
  BY DEF Returns
<1>8. n = 2 \/ n > 2
  <2> HIDE DEF n
  <2> QED
    BY <1>2, <1>3, LeastNumbers
<1>9. QED
  BY <1>4, <1>5, <1>6, <1>7, <1>8

LEMMA FileCallsStay ==
  ASSUME ShellInv, FileCallsLeft, todo # << >>, NEW code, Returns(code)
  PROVE  FileCallsLeft'
<1>1. cmd' = cmd
  BY DEF Returns
<1>2. QED
  BY <1>1, ReturnsLess DEF FileCallsLeft, FileCall

LEMMA CodesReturned ==
  \A r : write_code(r) \in Codes /\ delete_code(r) \in Codes
         /\ read_directory_code(r) \in Codes
BY DEF write_code, delete_code, read_directory_code, Codes

LEMMA TablesOfDisks ==
  ASSUME NEW d, DiskInv(d), NEW c \in Clusters
  PROVE  TableIn(d[c]) \in Tables
<1>1. MayHold(c, d[c])
  BY DEF DiskInv
<1>2. d[c].kind = "directory" => d[c].table \in Tables
  BY <1>1, Kinds DEF MayHold, IsTable, IsRootTable
<1>3. QED
  BY <1>2, UnusedTyped DEF TableIn, Tables

LEMMA SameTables ==
  ASSUME NEW t \in Tables, NEW u \in Tables, \A j \in Indices : t[j] = u[j]
  PROVE  t = u
BY DEF Tables

(* An entry made or removed in the root is in the root's own table.        *)
LEMMA WriteKeepsTables ==
  ASSUME DriverInv, DriverInv', TreeInv(disk), NEW r \in AnyRequest, write_code(r) = 0,
         disk' = write_clusters(WriteSteps(r), disk),
         NEW c \in Folders(disk), c # r.parent
  PROVE  c \in Folders(disk') /\ Table(c)' = Table(c)
<1> DEFINE e == write_clusters(WriteSteps(r), disk)
           i == First(FreeEntries(Table(r.parent)))
<1>1. FoldersGrow(disk, e, r.parent, i, EmptyClusters(r))
  BY WriteGrows, GrownFolders
<1> HIDE DEF e, i
<1>2. c \in Folders(e) /\ \A j \in Indices : TableIn(e[c])[j] = TableIn(disk[c])[j]
  BY <1>1 DEF FoldersGrow
<1>3. disk' = e
  BY DEF e
<1>4. TableIn(disk[c]) \in Tables /\ TableIn(disk'[c]) \in Tables
  <2>1. c \in Clusters /\ DiskInv(disk) /\ DiskInv(disk')
    BY DEF Folders, DriverInv
  <2>2. QED
    BY <2>1, TablesOfDisks
<1>5. TableIn(disk'[c]) = TableIn(disk[c])
  BY <1>2, <1>3, <1>4, SameTables
<1>6. QED
  BY <1>2, <1>3, <1>5 DEF Table

LEMMA DeleteKeepsTables ==
  ASSUME DriverInv, DriverInv', TreeInv(disk), NEW r \in AnyRequest,
         delete_code(r) = 0, disk' = write_clusters(DeleteSteps(r), disk),
         NEW c \in Folders(disk), c # r.parent, c \notin Owned(disk, DeletedPlace(r))
  PROVE  c \in Folders(disk') /\ Table(c)' = Table(c)
<1> DEFINE e == write_clusters(DeleteSteps(r), disk)
           q == DeletedPlace(r)
<1>1. DiskInv(disk) /\ r.parent \in Clusters
  BY DEF DriverInv, AnyRequest
<1>2. FoldersShrink(disk, e, q)
  BY <1>1, DeleteShrinks, ShrunkFolders
<1>3. q[1] = r.parent
  BY DEF DeletedPlace
<1> HIDE DEF e, q
<1>4. c \in Folders(e) /\ \A j \in Indices : TableIn(e[c])[j] = TableIn(disk[c])[j]
  BY <1>2, <1>3 DEF FoldersShrink, q
<1>5. disk' = e
  BY DEF e
<1>6. TableIn(disk[c]) \in Tables /\ TableIn(disk'[c]) \in Tables
  <2>1. c \in Clusters /\ DiskInv(disk) /\ DiskInv(disk')
    BY DEF Folders, DriverInv
  <2>2. QED
    BY <2>1, TablesOfDisks
<1>7. TableIn(disk'[c]) = TableIn(disk[c])
  BY <1>4, <1>5, <1>6, SameTables
<1>8. QED
  BY <1>4, <1>5, <1>7 DEF Table

(* The folder that delete takes lists nothing, and says in its own table   *)
(* under what name the parent had it.                                      *)
LEMMA DeletedFolder ==
  ASSUME DriverInv, TreeInv(disk), NEW r \in AnyRequest, delete_code(r) = 0,
         NEW c \in Folders(disk), c \in Owned(disk, DeletedPlace(r))
  PROVE  ListsNothing(Table(c)) /\ Table(c)[0].name = r.name /\ r.ext = ""
<1> DEFINE q == DeletedPlace(r)
           t == TableIn(disk[c])
<1>1. DiskInv(disk) /\ r.parent \in Clusters
  BY DEF DriverInv, AnyRequest
<1>2. q \in Listed(disk) /\ At(disk, q) = DeletedEntry(r)
  BY <1>1, DeleteFacts
<1>3. At(disk, q).name = r.name /\ At(disk, q).ext = r.ext
  BY <1>1, <1>2, DeletedMatches DEF Matches, SameBytes
<1>4. At(disk, q).folder /\ At(disk, q).cluster = c
  BY <1>1, <1>2, FolderOwner
<1>5. \A j \in Indices : j > 1 => ~t[j].used
  BY <1>1, <1>2, <1>4, DeleteFacts
<1> HIDE DEF q
<1>6. At(disk, q).ext = "" /\ t[0] = FolderEntry(At(disk, q).name, q[1])
  BY <1>2, <1>4 DEF TreeInv, EntryIsWhole, FolderIsWhole
<1>7. t[0].name = At(disk, q).name
  <2> HIDE DEF t
  <2> QED
    BY <1>6, EntryOfAFolder
<1>8. \A j \in Indices \ {0, 1} : j > 1
  BY ClusterBasics DEF Indices
<1>9. QED
  BY <1>3, <1>5, <1>6, <1>7, <1>8 DEF ListsNothing, Table

LEMMA RootTableShows ==
  ASSUME DriverInv, TreeInv(disk), curr_dir = Table(2)
  PROVE  RootLoaded
<1>1. IsRootTable(Table(2))
  BY TreeFacts DEF DriverInv, Table
<1>2. QED
  BY <1>1 DEF IsRootTable, RootLoaded, ROOT_CLUSTER_NUMBER

(* A call of the driver for a file in the root.                            *)
LEMMA FileWritten ==
  ASSUME ShellInv, DriverInv', WholeInv, crashes = 0, power = "on",
         todo # << >>, FileCallsLeft, Lasting, ~RootLoaded, CallWrite
  PROVE  Lasting'
<1> DEFINE r == Head(todo).req
           n == curr_dir[0].name
<1>1. DriverInv /\ TreeInv(disk) /\ fat_table = MapOf(disk) /\ 2 \in Folders(disk)
  BY WholeWhenOn, TreeFacts DEF ShellInv, DriverInv
<1>2. r \in AnyRequest /\ curr_dir' = curr_dir
  BY HeadOfTodo DEF CallWrite
<1>3. r.parent = 2
  <2>1. Head(todo) = todo[1] /\ 1 \in DOMAIN todo
    BY DEF ShellInv
  <2>2. QED
    BY <2>1 DEF FileCallsLeft, FileCall
<1>4. Remade(n) => r = cmd.to
  <2> DEFINE b == Call("WRITE", cmd.to, Codes)
  <2>1. b.req = cmd.to
    BY CallFields
  <2> HIDE DEF b
  <2>2. Head(<<b>>) = b
    BY OneCall
  <2>3. QED
    BY <2>1, <2>2 DEF Remade, b
<1>5. IF write_code(r) = 0 THEN write(r) ELSE UNCHANGED vars
  BY DEF CallWrite
<1> HIDE DEF r, n
<1>6. CASE write_code(r) = 0
  <2>1. disk' = write_clusters(WriteSteps(r), disk)
    BY <1>5, <1>6 DEF write
  <2> DEFINE i == First(FreeEntries(Table(r.parent)))
             x == <<r.parent, i>>
  <2>2. ListGrows(disk, disk', r.parent, i)
    BY <1>1, <1>2, <1>6, <2>1, WriteGrows, GrownListed
  <2>3. At(disk', x).name = r.name /\ At(disk', x).ext = r.ext
    BY <1>1, <1>2, <1>6, <2>1, NewEntry
  <2>4. x[1] = 2
    BY <1>3
  <2> HIDE DEF i
  <2>5. /\ Listed(disk') = Listed(disk) \cup {x}
        /\ \A q \in Listed(disk) : At(disk', q) = At(disk, q)
    BY <2>2 DEF ListGrows
  <2> HIDE DEF x
  <2>6. CASE FolderTable(curr_dir)
    <3>1. PICK c \in Folders(disk) : curr_dir = Table(c)
      BY <2>6 DEF FolderTable
    <3>2. c # 2
      BY <1>1, <3>1, RootTableShows
    <3>3. c \in Folders(disk') /\ Table(c)' = Table(c)
      BY <1>1, <1>2, <1>3, <1>6, <2>1, <3>2, WriteKeepsTables
    <3>4. QED
      BY <1>2, <3>1, <3>3 DEF Lasting, FolderTable
  <2>7. CASE ListsNothing(curr_dir) /\ (InRoot(n) \/ Remade(n))
    <3>1. \E q \in Listed(disk') : q[1] = 2 /\ At(disk', q).name = n /\ At(disk', q).ext = ""
      <4>1. CASE InRoot(n)
        BY <2>5, <4>1 DEF InRoot
      <4>2. CASE Remade(n)
        BY <1>4, <2>3, <2>4, <2>5, <4>2 DEF Remade
      <4>3. QED
        BY <2>7, <4>1, <4>2
    <3>2. QED
      BY <1>2, <2>7, <3>1 DEF Lasting, ListsNothing, InRoot, n
  <2>8. QED
    BY <2>6, <2>7 DEF Lasting, n
<1>7. CASE write_code(r) # 0
  <2>1. disk' = disk
    BY <1>5, <1>7 DEF vars
  <2>2. CASE FolderTable(curr_dir)
    BY <1>2, <2>1, <2>2 DEF Lasting, FolderTable, Table
  <2>3. CASE ListsNothing(curr_dir) /\ (InRoot(n) \/ Remade(n))
    <3>1. InRoot(n)
      <4>1. SUFFICES ASSUME Remade(n)
                     PROVE  InRoot(n)
        BY <2>3
      <4>2. r.name = n /\ r.ext = "" /\ NameOn(disk, r)
        BY <1>1, <1>4, <1>7, <4>1, SpaceIsEnough DEF Remade
      <4>3. PICK i \in Indices \ {0, 1} :
              /\ TableIn(disk[2])[i].used
              /\ TableIn(disk[2])[i].name = n /\ TableIn(disk[2])[i].ext = ""
        BY <1>3, <4>2 DEF NameOn
      <4> DEFINE x == <<2, i>>
      <4>4. x \in Listed(disk) /\ x[1] = 2 /\ At(disk, x) = TableIn(disk[2])[i]
        BY <1>1, <4>3 DEF Listed, At
      <4> HIDE DEF x
      <4>5. QED
        BY <4>3, <4>4 DEF InRoot
    <3>2. QED
      BY <1>2, <2>1, <2>3, <3>1 DEF Lasting, ListsNothing, InRoot, n
  <2>4. QED
    BY <2>2, <2>3 DEF Lasting, n
<1>8. QED
  BY <1>6, <1>7

(* Of the root's entries only write deletes one, to make it again.         *)
LEMMA FileDeleted ==
  ASSUME ShellInv, DriverInv', WholeInv, PendingInv, crashes = 0, power = "on",
         todo # << >>, FileCallsLeft, Lasting, ~RootLoaded, CallDelete
  PROVE  Lasting'
<1> DEFINE r == Head(todo).req
           n == curr_dir[0].name
           q == DeletedPlace(r)
<1>1. DriverInv /\ DiskInv(disk) /\ TreeInv(disk)
  BY WholeWhenOn DEF ShellInv
<1>2. r \in AnyRequest /\ curr_dir' = curr_dir /\ cmd' = cmd
  BY HeadOfTodo DEF CallDelete, Returns
<1>3. r.parent = 2 /\ cmd.name = "write"
  <2>1. Head(todo) = todo[1] /\ 1 \in DOMAIN todo
    BY DEF ShellInv
  <2>2. QED
    BY <2>1 DEF FileCallsLeft, FileCall, CallDelete
<1>4. WriteLeft /\ Head(todo).op = "DELETE"
  BY <1>3 DEF PendingInv, CallDelete
<1>5. r = cmd.to /\ r.size = 1 /\ todo' = <<Call("WRITE", cmd.to, Codes)>>
  <2>1. \A code \in Codes : Returns(code) => todo' = <<Call("WRITE", cmd.to, Codes)>>
    BY <1>4, WriteDeletes
  <2>2. r = cmd.to
    BY <1>4, WriteDeletes
  <2>3. Returns(delete_code(r)) /\ delete_code(r) \in Codes
    BY CodesReturned DEF CallDelete
  <2>4. QED
    BY <1>4, <2>1, <2>2, <2>3 DEF WriteLeft
<1>6. ~Remade(n)
  <2> DEFINE b == Call("WRITE", cmd.to, Codes)
  <2>1. b.op = "WRITE"
    BY CallFields
  <2> HIDE DEF b
  <2>2. Head(<<b>>) = b
    BY OneCall
  <2>3. QED
    BY <1>4, <2>1, <2>2 DEF Remade, b
<1>7. IF delete_code(r) = 0 THEN delete(r) ELSE UNCHANGED vars
  BY DEF CallDelete
<1>8. FolderTable(curr_dir) \/ (ListsNothing(curr_dir) /\ InRoot(n))
  BY <1>6 DEF Lasting
<1> HIDE DEF r, n
<1>9. CASE delete_code(r) # 0
  <2>1. disk' = disk
    BY <1>7, <1>9 DEF vars
  <2>2. CASE FolderTable(curr_dir)
    BY <1>2, <2>1, <2>2 DEF Lasting, FolderTable, Table
  <2>3. CASE ListsNothing(curr_dir) /\ InRoot(n)
    BY <1>2, <2>1, <2>3 DEF Lasting, ListsNothing, InRoot, n
  <2>4. QED
    BY <1>8, <2>2, <2>3
<1>10. CASE delete_code(r) = 0
  <2>1. disk' = write_clusters(DeleteSteps(r), disk)
    BY <1>7, <1>10 DEF delete
  <2>2. DiskInv(disk')
    BY DEF DriverInv
  <2>3. SpaceOn(disk', MapOf(disk'), r)
    BY <1>1, <1>2, <1>10, <2>1, <2>2, DeleteMakesSpace
  <2>4. ASSUME ListsNothing(curr_dir), n = r.name, r.ext = ""
        PROVE  Lasting'
    <3>1. Remade(n)'
      <4>1. cmd.to \in AnyRequest /\ SpaceOn(disk', MapOf(disk'), cmd.to)
        BY <1>2, <1>5, <2>3
      <4>2. SpaceOn(disk, MapOf(disk), cmd.to)'
        BY <1>2, <4>1 DEF SpaceOn, MapOf
      <4>3. QED
        BY <1>2, <1>3, <1>5, <2>4, <4>1, <4>2 DEF Remade, n
    <3>2. QED
      BY <1>2, <2>4, <3>1 DEF Lasting, ListsNothing, n
  <2>5. CASE FolderTable(curr_dir)
    <3>1. PICK c \in Folders(disk) : curr_dir = Table(c)
      BY <2>5 DEF FolderTable
    <3>2. c # 2
      BY <1>1, <3>1, RootTableShows
    <3>3. CASE c \in Owned(disk, q)
      <4>1. ListsNothing(curr_dir) /\ n = r.name /\ r.ext = ""
        BY <1>1, <1>2, <1>10, <3>1, <3>3, DeletedFolder DEF n
      <4>2. QED
        BY <2>4, <4>1
    <3>4. CASE c \notin Owned(disk, q)
      <4>1. c \in Folders(disk') /\ Table(c)' = Table(c)
        BY <1>1, <1>2, <1>3, <1>10, <2>1, <3>2, <3>4, DeleteKeepsTables
      <4>2. QED
        BY <1>2, <3>1, <4>1 DEF Lasting, FolderTable
    <3>5. QED
      BY <3>3, <3>4
  <2>6. CASE ListsNothing(curr_dir) /\ InRoot(n)
    <3>1. PICK p \in Listed(disk) : p[1] = 2 /\ At(disk, p).name = n /\ At(disk, p).ext = ""
      BY <2>6 DEF InRoot
    <3>2. /\ Shrinks(disk, disk', q)
          /\ At(disk, q).name = r.name /\ At(disk, q).ext = r.ext
      <4>1. r.parent \in Clusters
        BY <1>2 DEF AnyRequest
      <4>2. At(disk, q) = DeletedEntry(r)
        BY <1>1, <1>10, <4>1, DeleteFacts
      <4>3. QED
        BY <1>1, <1>10, <2>1, <4>1, <4>2, DeleteShrinks, DeletedMatches DEF Matches, SameBytes
    <3> HIDE DEF q
    <3>3. CASE p = q
      BY <2>4, <2>6, <3>1, <3>2, <3>3
    <3>4. CASE p # q
      <4>1. ListShrinks(disk, disk', q)
        BY <3>2, ShrunkListed
      <4>2. p \in Listed(disk') /\ At(disk', p) = At(disk, p)
        BY <3>4, <4>1 DEF ListShrinks
      <4>3. QED
        BY <1>2, <2>6, <3>1, <4>2 DEF Lasting, ListsNothing, InRoot, n
    <3>5. QED
      BY <3>3, <3>4
  <2>7. QED
    BY <1>8, <2>5, <2>6
<1>11. QED
  BY <1>9, <1>10

LEMMA StartupLoadsLast ==
  ASSUME todo' = StartupCalls
  PROVE  LoadsLast'
<1> DEFINE last == Call("READ_DIRECTORY", RootRequest, Codes)
           s == StartupCalls
<1>1. Len(s) = Len(StartupFiles) + 1 /\ Len(StartupFiles) \in Nat /\ s \in Seq(Calls)
  BY StartupTyped, ShellBasics
<1>2. s[Len(s)] = last
  <2> DEFINE a == [i \in DOMAIN StartupFiles |->
                     Call("WRITE", Request(StartupFiles[i][1], TRUE, "txt", ROOT_CLUSTER_NUMBER,
                                           1, StartupFiles[i][2]), Codes)]
  <2>1. s = a \o <<last>>
    BY DEF StartupCalls, RootRequest
  <2>2. DOMAIN a = 1 .. Len(StartupFiles)
    <3>1. DOMAIN StartupFiles = 1 .. Len(StartupFiles)
      <4> DEFINE S == Names \X Texts
      <4>1. StartupFiles \in Seq(S)
        BY ShellBasics
      <4> HIDE DEF S
      <4>2. QED
        BY <4>1
    <3>2. DOMAIN a = DOMAIN StartupFiles
      OBVIOUS
    <3> HIDE DEF a
    <3>3. QED
      BY <3>1, <3>2
  <2> HIDE DEF a, last, s
  <2>3. Len(a) = Len(StartupFiles)
    BY <1>1, <2>2, LenIs
  <2>4. s[Len(a) + 1] = last
    BY <1>1, <2>1, <2>3
  <2>5. QED
    BY <1>1, <2>3, <2>4
<1>3. last.op = "READ_DIRECTORY" /\ last.after = Codes
  BY CallFields
<1> HIDE DEF last, s
<1>4. s # << >>
  BY <1>1
<1>5. todo' = s
  BY DEF s
<1>6. QED
  BY <1>2, <1>3, <1>4, <1>5 DEF LoadsLast

LEMMA TransferLoadsLast ==
  ASSUME NEW command, NEW src, NEW dst, NEW go,
         todo' = Transfer(command, src, dst, go) \o <<ChangeDir>>
  PROVE  LoadsLast'
<1> DEFINE a == Call("WRITE", dst, Codes)
           b == Call("DELETE", src, {0})
           c == ChangeDir
<1>1. todo' \in {<<c>>, <<a, c>>, <<a, b, c>>}
  <2>1. Transfer(command, src, dst, go) \in {<< >>, <<a>>, <<a, b>>}
    BY DEF Transfer, CopyCalls, MoveCalls, AnyCode
  <2> HIDE DEF a, b, c
  <2>2. /\ << >> \o <<c>> = <<c>> /\ <<a>> \o <<c>> = <<a, c>>
        /\ <<a, b>> \o <<c>> = <<a, b, c>> /\ <<a, b>> \o << >> = <<a, b>>
    BY Joined
  <2>3. todo' = Transfer(command, src, dst, go) \o <<c>>
    BY DEF c
  <2>4. QED
    BY <2>1, <2>2, <2>3
<1>2. c.op = "CHANGE_DIR" /\ c.after = Codes
  BY CallFields DEF ChangeDir, AnyCode
<1> HIDE DEF a, b, c
<1>3. /\ Len(<<c>>) = 1 /\ <<c>>[1] = c /\ <<c>> # << >>
      /\ Len(<<a, c>>) = 2 /\ <<a, c>>[2] = c /\ <<a, c>> # << >>
      /\ Len(<<a, b, c>>) = 3 /\ <<a, b, c>>[3] = c /\ <<a, b, c>> # << >>
  OBVIOUS
<1>4. todo'[Len(todo')] = c /\ todo' # << >>
  BY <1>1, <1>3
<1>5. QED
  BY <1>2, <1>4 DEF LoadsLast

(* A command begins.                                                       *)
LEMMA BeginShows ==
  ASSUME ShellInv, WholeInv, PendingInv, ListingInv, mode = "ready", crashes = 0, RunCommand
  PROVE  ListingInv'
<1>1. /\ power = "on" /\ cwd \in Folders(disk)
      /\ FolderTable(curr_dir) \/ Replaced(curr_dir)
      /\ DriverInv /\ TreeInv(disk)
  BY WholeWhenOn DEF ListingInv, ShellInv
<1>2. UNCHANGED vars
  BY BeginningReads
<1>3. ASSUME NEW t, FolderTable(t) \/ t = curr_dir, curr_dir' = t
      PROVE  Lasting'
  <2>1. CASE FolderTable(t)
    BY <1>2, <1>3, <2>1 DEF Lasting, FolderTable, vars, Table
  <2>2. CASE Replaced(t)
    <3>1. ListsNothing(t) /\ InRoot(t[0].name)
      BY <2>2 DEF Replaced, FileInRoot, InRoot
    <3>2. InRoot(t[0].name)'
      BY <1>2, <1>3, <3>1 DEF InRoot, vars
    <3>3. QED
      BY <1>3, <3>1, <3>2 DEF Lasting, ListsNothing
  <2>3. QED
    BY <1>1, <1>3, <2>1, <2>2
<1>4. Table(2)' = Table(2) /\ (curr_dir' = Table(2) => RootLoaded')
  <2>1. Table(2)' = Table(2)
    BY <1>2 DEF vars, Table
  <2>2. IsRootTable(Table(2))
    BY <1>1, TreeFacts DEF DriverInv, Table
  <2>3. QED
    BY <2>1, <2>2 DEF IsRootTable, RootLoaded, ROOT_CLUSTER_NUMBER
<1>5. SUFFICES /\ mode' = "busy"
               /\ cwd' = 2 => LoadsLast' \/ RootLoaded' \/ (Lasting' /\ FileCallsLeft')
  BY <1>1, <1>2 DEF ListingInv, vars
<1>6. todo' = << >> => FileCallsLeft'
  BY DEF FileCallsLeft
<1>7. CASE FolderEntered
  <2>1. PICK path, padded : Len(path) \in Nat /\ cd(path, padded)
    BY <1>7 DEF FolderEntered
  <2>2. PICK v \in Walks(path, padded) :
          /\ mode' = "busy" /\ cwd' = FolderReached(v) /\ todo' = todo
          /\ curr_dir' = IF v.to = Invalid THEN v.loaded ELSE Table(v.to)
    BY <2>1 DEF cd
  <2>3. /\ v.to # Invalid => v.to \in Folders(disk)
        /\ FolderTable(v.loaded) \/ v.loaded = curr_dir
    BY <1>1, <2>1, <2>2, WalksShowFolders
  <2>4. Lasting'
    <3>1. PICK t : (FolderTable(t) \/ t = curr_dir) /\ curr_dir' = t
      BY <2>2, <2>3 DEF FolderTable
    <3>2. QED
      BY <1>3, <3>1
  <2>5. todo = << >>
    BY DEF PendingInv
  <2>6. QED
    BY <1>6, <2>2, <2>4, <2>5
<1>8. CASE NothingDone
  <2>1. PICK t : Shows(t) /\ Finish(t)
    BY <1>8 DEF NothingDone
  <2>2. FolderTable(t) \/ t = curr_dir
    BY <1>1, <2>1, ShowsFolders
  <2>3. QED
    BY <1>3, <1>6, <2>1, <2>2 DEF Finish, Begin
<1>9. CASE EntryMade
  <2>1. PICK command \in {"mkdir", "txt"}, r \in AnyRequest :
          /\ r.parent = cwd
          /\ Begin(Command(command, NoRequest, r), <<Call("WRITE", r, Codes)>>, curr_dir)
    BY <1>9 DEF EntryMade
  <2> DEFINE a == Call("WRITE", r, Codes)
  <2>2. mode' = "busy" /\ cwd' = cwd /\ curr_dir' = curr_dir /\ todo' = <<a>>
    BY <2>1 DEF Begin
  <2>3. a.op = "WRITE" /\ a.req = r
    BY CallFields
  <2> HIDE DEF a
  <2>4. cwd = 2 => FileCallsLeft'
    BY <2>1, <2>2, <2>3, OneCall DEF FileCallsLeft, FileCall
  <2>5. QED
    BY <1>1, <1>3, <2>2, <2>4
<1>10. CASE FileReplaced
  <2>1. PICK r \in AnyRequest :
          /\ r.parent = cwd
          /\ Begin(Command("write", NoRequest, r), WritefCalls(r), curr_dir)
    BY <1>10 DEF FileReplaced
  <2> DEFINE a == Call("DELETE", r, Codes)
             b == Call("WRITE", r, Codes)
  <2>2. /\ mode' = "busy" /\ cwd' = cwd /\ curr_dir' = curr_dir /\ todo' = <<a, b>>
        /\ cmd'.name = "write"
    BY <2>1, CommandFields DEF Begin, WritefCalls, AnyCode
  <2>3. a.op = "DELETE" /\ a.req = r /\ b.op = "WRITE" /\ b.req = r
    BY CallFields
  <2> HIDE DEF a, b
  <2>4. cwd = 2 => FileCallsLeft'
    <3>1. cwd = 2 => FileCall(a)' /\ FileCall(b)'
      BY <2>1, <2>2, <2>3 DEF FileCall
    <3>2. \A j \in DOMAIN <<a, b>> : <<a, b>>[j] \in {a, b}
      BY TwoCalls
    <3>3. QED
      BY <2>2, <3>1, <3>2 DEF FileCallsLeft
  <2>5. QED
    BY <1>1, <1>3, <2>2, <2>4
<1>11. CASE EntryRemoved \/ EntryRenamed
  <2>1. mode' = "busy" /\ cwd' = cwd /\ curr_dir' = Table(cwd)
    BY <1>11 DEF EntryRemoved, EntryRenamed, Begin
  <2>2. QED
    BY <1>4, <2>1
<1>12. CASE EntryTransferred
  <2>1. PICK command, src, dst, go, table :
          Begin(Command(command, src, dst), Transfer(command, src, dst, go) \o <<ChangeDir>>, table)
    BY <1>12 DEF EntryTransferred
  <2>2. mode' = "busy" /\ LoadsLast'
    BY <2>1, TransferLoadsLast DEF Begin
  <2>3. QED
    BY <2>2
<1>13. CommandBegins
  BY CommandsBegin
<1>14. QED
  BY <1>7, <1>8, <1>9, <1>10, <1>11, <1>12, <1>13 DEF CommandBegins

(* A system call returns.                                                  *)
LEMMA CallShows ==
  ASSUME ShellInv, DriverInv', WholeInv, WholeInv', PendingInv, ListingInv, crashes = 0,
         crashes' = 0, mode = "busy",
         CallWrite \/ CallDelete \/ CallReadDirectory \/ CallChangeDir
  PROVE  ListingInv'
<1>1. power = "on" /\ DriverInv /\ TreeInv(disk) /\ todo # << >>
  BY WholeWhenOn DEF ListingInv, ShellInv, CallWrite, CallDelete, CallReadDirectory, CallChangeDir
<1>2. mode' = "busy" /\ cwd' = cwd /\ power' = "on"
  <2>1. mode' = "busy" /\ cwd' = cwd
    BY DEF CallWrite, CallDelete, CallReadDirectory, CallChangeDir, Returns
  <2>2. power' = power
    BY DEF CallWrite, CallDelete, CallReadDirectory, CallChangeDir, write, delete, vars
  <2>3. QED
    BY <1>1, <2>1, <2>2
<1>3. SUFFICES ASSUME cwd = 2
               PROVE  LoadsLast' \/ RootLoaded' \/ (Lasting' /\ FileCallsLeft')
  BY <1>2 DEF ListingInv
<1>4. CASE CallReadDirectory \/ CallChangeDir
  <2>1. curr_dir' = Table(2)
    <3>1. CASE CallChangeDir
      BY <1>3, <3>1 DEF CallChangeDir
    <3>2. CASE CallReadDirectory
      <4> DEFINE r == RootRequest
      <4>1. Head(todo).req = r
        BY <1>1, <3>2, HeadIsSound DEF CallReadDirectory, Sound
      <4>2. r.parent = 2 /\ r.name = "root" /\ r.ext = "" /\ r.padded
        BY DEF RootRequest, Request, ROOT_CLUSTER_NUMBER
      <4> HIDE DEF r
      <4>3. LoadedBy(r) = Table(2)
        BY <1>1, <4>2, RootIsLoaded
      <4>4. QED
        BY <3>2, <4>1, <4>3 DEF CallReadDirectory
    <3>3. QED
      BY <1>4, <3>1, <3>2
  <2>2. IsRootTable(Table(2))
    BY <1>1, TreeFacts DEF DriverInv, Table
  <2>3. QED
    BY <2>1, <2>2 DEF IsRootTable, RootLoaded, ROOT_CLUSTER_NUMBER
<1>5. CASE CallWrite \/ CallDelete
  <2>1. PICK code \in Codes : Returns(code)
    BY <1>5, CodesReturned DEF CallWrite, CallDelete
  <2>2. curr_dir' = curr_dir /\ Head(todo).op \in {"WRITE", "DELETE"}
    BY <1>5 DEF CallWrite, CallDelete
  <2>3. CASE LoadsLast
    BY <2>1, <2>2, <2>3, LoadsStay
  <2>4. CASE RootLoaded
    BY <2>2, <2>4 DEF RootLoaded
  <2>5. CASE ~RootLoaded /\ Lasting /\ FileCallsLeft
    <3>1. Lasting'
      BY <1>1, <1>5, <2>5, FileWritten, FileDeleted
    <3>2. FileCallsLeft'
      BY <1>1, <2>1, <2>5, FileCallsStay
    <3>3. QED
      BY <3>1, <3>2
  <2>6. QED
    BY <1>3, <2>3, <2>4, <2>5 DEF ListingInv
<1>6. QED
  BY <1>4, <1>5

(* The prompt loads the table of the folder it stands in; in the root that *)
(* of the folder it last failed in.                                        *)
LEMMA PromptShows ==
  ASSUME ShellInv, WholeInv, ListingInv, crashes = 0, Prompt
  PROVE  ListingInv'
<1>1. /\ mode = "busy" /\ todo = << >> /\ UNCHANGED vars /\ cwd' = cwd
      /\ curr_dir' = ShownAtPrompt /\ mode' = IF Climbs(cwd) THEN "ready" ELSE "astray"
  BY DEF Prompt
<1>2. /\ power = "on" /\ DriverInv /\ TreeInv(disk) /\ Formatted /\ cwd \in Clusters
      /\ fat_table = MapOf(disk)
  BY <1>1, WholeWhenOn DEF ListingInv, ShellInv
<1>3. SUFFICES ASSUME Climbs(cwd)
               PROVE  /\ cwd \in Folders(disk)
                      /\ FolderTable(curr_dir') \/ Replaced(curr_dir')
                      /\ cwd # 2 => curr_dir' = Table(cwd)
  <2>1. disk' = disk /\ power' = power /\ cwd' = cwd
    BY <1>1 DEF vars
  <2>2. mode' = "ready" => Climbs(cwd)
    BY <1>1
  <2>3. mode' # "busy"
    BY <1>1
  <2>4. /\ FolderTable(curr_dir') => FolderTable(curr_dir)'
        /\ Replaced(curr_dir') => Replaced(curr_dir)'
    BY <2>1 DEF FolderTable, Table, Replaced, ListsNothing, FileInRoot
  <2>5. Table(cwd)' = Table(cwd)
    BY <2>1 DEF Table
  <2>6. QED
    BY <1>2, <1>3, <2>1, <2>2, <2>3, <2>4, <2>5 DEF ListingInv
<1>4. cwd \in Folders(disk)
  BY <1>2, <1>3, OnlyFoldersClimb
<1>5. CASE cwd # 2
  <2>1. curr_dir' = Table(cwd)
    BY <1>1, <1>5 DEF ShownAtPrompt, ROOT_CLUSTER_NUMBER
  <2>2. QED
    BY <1>4, <2>1 DEF FolderTable
<1>6. CASE cwd = 2
  <2> DEFINE r == Request(curr_dir[0].name, TRUE, "", cwd, 0, Blank)
  <2>1. curr_dir' = LoadedBy(r)
    BY <1>1, <1>6 DEF ShownAtPrompt, Refreshed, ROOT_CLUSTER_NUMBER
  <2>2. r.parent = 2 /\ r.name = curr_dir[0].name /\ r.ext = "" /\ r.padded
    BY <1>6 DEF Request
  <2> HIDE DEF r
  <2>3. CASE RootLoaded
    <3>1. r.name = "root"
      <4> DEFINE f == FolderEntry("root", 2)
      <4>1. f.name = "root"
        BY EntryOfFolder
      <4>2. curr_dir[0] = f
        BY <2>3 DEF RootLoaded
      <4> HIDE DEF f
      <4>3. QED
        BY <2>2, <4>1, <4>2
    <3>2. LoadedBy(r) = Table(2)
      BY <1>2, <2>2, <3>1, RootIsLoaded
    <3>3. QED
      BY <1>4, <1>6, <2>1, <3>2 DEF FolderTable
  <2>4. CASE read_directory_code(r) = 0
    BY <1>2, <1>4, <1>6, <2>1, <2>2, <2>4, LoadsAFolder
  <2>5. CASE read_directory_code(r) # 0 /\ FolderTable(curr_dir)
    BY <1>4, <1>6, <2>1, <2>5 DEF LoadedBy
  <2>6. CASE /\ read_directory_code(r) # 0
             /\ ListsNothing(curr_dir) /\ InRoot(curr_dir[0].name)
    <3>1. FileInRoot(r.name)
      BY <1>2, <2>2, <2>6, FileIsInTheWay
    <3>2. QED
      BY <1>4, <1>6, <2>1, <2>2, <2>6, <3>1 DEF LoadedBy, Replaced
  <2>7. ~Remade(curr_dir[0].name)
    BY <1>1, OneCall DEF Remade
  <2>8. RootLoaded \/ Lasting
    BY <1>1, <1>6 DEF ListingInv, LoadsLast
  <2>9. QED
    BY <1>6, <2>3, <2>4, <2>5, <2>6, <2>7, <2>8 DEF Lasting
<1>7. QED
  BY <1>5, <1>6

LEMMA ListingStep ==
  ASSUME ShellInv, WholeInv, PendingInv, ListingInv, DriverInv', WholeInv',
         [ShellNext]_allVars
  PROVE  ListingInv'
<1>1. SUFFICES ASSUME crashes' = 0
               PROVE  ListingInv'
  BY DEF ListingInv
<1>2. crashes = 0
  <2>1. DriverMoves
    BY ShellMoves
  <2>2. \A steps : ~Crash(steps)
    BY <1>1, NoCrashYet DEF ShellInv
  <2>3. QED
    BY <1>1, <2>1, <2>2
       DEF DriverMoves, initialize_filesystem_fat32, PowerOff, CrashInFormat, CrashInWrite,
           CrashInDelete, write, delete, DeleteLost, vars
<1>3. CASE UNCHANGED allVars
  BY <1>3 DEF allVars, shellVars, vars, ListingInv, FolderTable, Table, LoadsLast, RootLoaded,
              FileCallsLeft, FileCall, Lasting, ListsNothing, InRoot, Remade, SpaceOn,
              Replaced, FileInRoot
<1>4. CASE Start
  <2>1. mode' = "busy" /\ todo' = StartupCalls /\ power' = "on"
    BY <1>4 DEF Start, initialize_filesystem_fat32
  <2>2. QED
    BY <2>1, StartupLoadsLast DEF ListingInv
<1>5. CASE StartInserter \/ SwitchOff \/ StopInFormat \/ StopInCall \/ Insert \/ CallDeleteLost
  <2>1. mode' \notin {"busy", "ready"}
    BY <1>5 DEF StartInserter, SwitchOff, StopInFormat, StopInCall, Insert, CallDeleteLost, ShellOff
  <2>2. QED
    BY <2>1 DEF ListingInv
<1>6. CASE CallWrite \/ CallDelete \/ CallReadDirectory \/ CallChangeDir
  <2>1. mode = "busy"
    BY <1>6 DEF CallWrite, CallDelete, CallReadDirectory, CallChangeDir
  <2>2. QED
    BY <1>1, <1>2, <1>6, <2>1, CallShows
<1>7. CASE Prompt
  BY <1>2, <1>7, PromptShows
<1>8. CASE RunCommand
  <2>1. mode = "ready"
    BY <1>8 DEF RunCommand
  <2>2. QED
    BY <1>2, <1>8, <2>1, BeginShows
<1>9. QED
  BY <1>3, <1>4, <1>5, <1>6, <1>7, <1>8 DEF ShellNext

(* usermode/util.c, refresh_dir: until a stop inside a request, what ls    *)
(* prints is the table of a folder as it is on disk at that moment, and    *)
(* outside the root that of the folder the shell stands in; on a disk of   *)
(* any size, whatever was created, moved or deleted since the table was    *)
(* loaded.  Only in the root it may print one that is no more, which lists *)
(* nothing, after write has put a file in the place of its folder.         *)
THEOREM ListingIsUpToDate == ShellSpec => [](crashes = 0 => ListingIsOfSomeFolder)
<1>1. ShellInit => ListingInv
  BY DEF ShellInit, ListingInv
<1>2. ASSUME ShellInv, WholeInv, ListingInv
      PROVE  crashes = 0 => ListingIsOfSomeFolder
  <2>1. SUFFICES ASSUME crashes = 0, mode = "ready"
                 PROVE  /\ \/ \E c \in FolderClusters : curr_dir = Table(c)
                           \/ ReplacedByAFile(curr_dir)
                        /\ cwd # 2 => curr_dir = Table(cwd)
    BY DEF ListingIsOfSomeFolder, ROOT_CLUSTER_NUMBER
  <2>2. /\ power = "on"
        /\ FolderTable(curr_dir) \/ Replaced(curr_dir)
        /\ cwd # 2 => curr_dir = Table(cwd)
    BY <1>2, <2>1 DEF ListingInv
  <2>3. FolderClusters = Folders(disk) /\ DiskInv(disk) /\ TreeInv(disk)
    BY <1>2, <2>1, <2>2, WholeWhenOn, FoldersAreFound DEF ShellInv
  <2>4. ASSUME Replaced(curr_dir)
        PROVE  ReplacedByAFile(curr_dir)
    <3>1. PICK p \in Listed(disk) :
            /\ p[1] = 2 /\ At(disk, p).name = curr_dir[0].name /\ At(disk, p).ext = ""
            /\ ~At(disk, p).folder
      BY <2>4 DEF Replaced, FileInRoot
    <3> DEFINE i == p[2]
    <3>2. i \in Indices \ {0, 1} /\ At(disk, p).used /\ At(disk, p) = Table(2)[i]
      <4>1. i \in Indices \ {0, 1}
        BY <3>1 DEF Listed
      <4>2. QED
        BY <2>3, <3>1, <4>1, OwnedFacts DEF At, Table
    <3> HIDE DEF i
    <3>3. QED
      BY <2>4, <3>1, <3>2 DEF Replaced, ListsNothing, ReplacedByAFile, ROOT_CLUSTER_NUMBER
  <2>5. QED
    BY <2>2, <2>3, <2>4 DEF FolderTable
<1>3. ShellInv => DriverInv
  BY DEF ShellInv
<1>4. ASSUME ShellInv, WholeInv, PendingInv, ListingInv, ShellInv', WholeInv', DriverInv',
             [ShellNext]_allVars
      PROVE  ListingInv'
  BY <1>4, ListingStep
<1>5. QED
  BY <1>1, <1>2, <1>3, <1>4, ShellIsTyped, ShellKeepsTheTree, ShellIsPending, PTL DEF ShellSpec
=============================================================================
