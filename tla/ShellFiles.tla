---------------------------- MODULE ShellFiles -----------------------------
(***************************************************************************)
(* The shell of usermode/ as a client of the file system: its current      *)
(* folder, the copy of a directory table that ls prints, and the commands  *)
(* that change the tree.  A command resolves its paths, reads what it      *)
(* copies, and then makes its system calls one by one; the machine may be  *)
(* switched off between two of them, or stop inside one.  When it starts   *)
(* again so does the shell.                                                *)
(*                                                                         *)
(* Reading is one step with the start of the command: only the shell       *)
(* writes to the disk.                                                     *)
(***************************************************************************)
EXTENDS Fat32

CONSTANTS
  StartupFiles,   \* what main writes before the first prompt: <<name, text>>
  PathBound,      \* bound: folders in front of the name in a path
  InsertParents   \* bound: the clusters the inserter is told to write into

(* What a buffer holds into which no text was read.                        *)
Blank == "blank"

ASSUME ShellAssumption ==
  /\ PathBound \in Nat /\ InsertParents \subseteq Clusters
  /\ Blank \in Texts /\ "txt" \in Extensions
  /\ StartupFiles \in Seq(Names \X Texts)

VARIABLES
  mode,       \* off, inserting, busy, ready, astray or stuck
  cwd,        \* state.current_directory
  curr_dir,   \* state.curr_dir.table
  cmd,        \* the command being executed
  todo        \* the system calls it still has to make

shellVars == <<mode, cwd, curr_dir, cmd, todo>>
allVars   == <<vars, shellVars>>

EmptyTable == [i \in Indices |-> UnusedEntry]

(* A system call; "after" holds the return codes of the call before it     *)
(* with which it is made at all.                                           *)
Codes == {-1, 0, 1, 2}
Call(op, r, after) == [op |-> op, req |-> r, after |-> after]

Request(name, padded, ext, parent, size, text) ==
  [name |-> name, padded |-> padded, ext |-> ext, parent |-> parent,
   size |-> size, text |-> text]
NoRequest == Request("", TRUE, "", 0, 0, Blank)

Command(name, from, to) == [name |-> name, from |-> from, to |-> to]
NoCommand == Command("none", NoRequest, NoRequest)

---------------------------------------------------------------------------
(* Paths                                                                   *)

Components == Names \cup {".."}
Paths(n) == UNION {[1 .. k -> Components] : k \in 0 .. n}
Invalid == -1

(* findEntryName: from entry 1 on, by name alone; what comes first must be *)
(* a folder.                                                               *)
EntriesNamed(t, name) == {i \in Indices \ {0} : t[i].used /\ t[i].name = name}
AnyEntry(cluster, name) ==
  LET found == EntriesNamed(Table(cluster), name)
  IN IF found # {} THEN Table(cluster)[First(found)].cluster ELSE Invalid
EnterFolder(cluster, name) ==
  LET found == EntriesNamed(Table(cluster), name)
  IN IF found # {} /\ Table(cluster)[First(found)].folder
     THEN Table(cluster)[First(found)].cluster ELSE Invalid

(* The folder after each component of a path.                              *)
Visited(path) ==
  LET at[n \in 0 .. Len(path)] ==
        IF n = 0 THEN cwd
        ELSE LET c == at[n-1] IN IF c = Invalid THEN Invalid ELSE EnterFolder(c, path[n])
  IN at

(* Where a path leads, and what it leaves in curr_dir.  The components are *)
(* compared over eight bytes of an uninitialised array: if what follows    *)
(* their final zero is not zero, any of them may be missed.                *)
Walks(path, padded) ==
  LET at     == Visited(path)
      looked == {n \in 0 .. Len(path) - 1 : at[n] # Invalid}
      last   == CHOOSE n \in looked : \A k \in looked : k <= n
  IN {[to |-> at[Len(path)],
       loaded |-> IF looked = {} THEN curr_dir ELSE Table(at[last])]}
     \cup IF padded THEN {}
          ELSE {[to |-> Invalid, loaded |-> Table(at[n])] : n \in looked}

---------------------------------------------------------------------------
(* The machine below the shell                                             *)

ShellInit ==
  /\ Init
  /\ mode = "off" /\ cwd = ROOT_CLUSTER_NUMBER /\ curr_dir = EmptyTable
  /\ cmd = NoCommand /\ todo = << >>

ShellOff ==
  /\ mode' = "off" /\ cwd' = ROOT_CLUSTER_NUMBER /\ curr_dir' = EmptyTable
  /\ cmd' = NoCommand /\ todo' = << >>

(* main: its two files, whatever becomes of them, and init.                *)
StartupCalls ==
  [i \in DOMAIN StartupFiles |->
     Call("WRITE", Request(StartupFiles[i][1], TRUE, "txt", ROOT_CLUSTER_NUMBER,
                           1, StartupFiles[i][2]), Codes)]
  \o <<Call("READ_DIRECTORY",
            Request("root", TRUE, "", ROOT_CLUSTER_NUMBER, 0, Blank), Codes)>>

Start ==
  /\ mode = "off"
  /\ initialize_filesystem_fat32
  /\ mode' = "busy"
  /\ todo' = StartupCalls
  /\ UNCHANGED <<cwd, curr_dir, cmd>>

(* On the host, helper/external-inserter.c puts a file without extension   *)
(* into the cluster it is told to; a file it cannot open becomes a folder. *)
StartInserter ==
  /\ mode = "off"
  /\ initialize_filesystem_fat32
  /\ mode' = "inserting"
  /\ UNCHANGED <<cwd, curr_dir, cmd, todo>>
Insert ==
  /\ mode = "inserting" /\ cmd = NoCommand
  /\ \E name \in Names, parent \in InsertParents, size \in 0 .. MaxClusters,
        text \in Texts \ {Blank} :
       LET r == Request(name, TRUE, "", parent, size, text) IN
       /\ write(r)
       /\ cmd' = Command("insert", NoRequest, r)
  /\ UNCHANGED <<mode, cwd, curr_dir, todo>>

SwitchOff == PowerOff /\ ShellOff

StopInFormat == mode = "off" /\ CrashInFormat /\ ShellOff
StopInCall ==
  /\ mode = "busy" /\ todo # << >>
  /\ \/ Head(todo).op = "WRITE"  /\ CrashInWrite(Head(todo).req)
     \/ Head(todo).op = "DELETE" /\ CrashInDelete(Head(todo).req)
  /\ ShellOff

---------------------------------------------------------------------------
(* System calls                                                            *)

(* The next call is left out if the return code is not one it waits for.   *)
Returns(code) ==
  /\ todo' = IF Len(todo) > 1 /\ code \notin todo[2].after
             THEN Tail(Tail(todo)) ELSE Tail(todo)
  /\ UNCHANGED <<mode, cwd, cmd>>

CallWrite ==
  /\ mode = "busy" /\ todo # << >> /\ Head(todo).op = "WRITE"
  /\ LET r == Head(todo).req IN
       /\ IF write_code(r) = 0 THEN write(r) ELSE UNCHANGED vars
       /\ Returns(write_code(r))
  /\ UNCHANGED curr_dir

CallDelete ==
  /\ mode = "busy" /\ todo # << >> /\ Head(todo).op = "DELETE"
  /\ LET r == Head(todo).req IN
       /\ IF delete_code(r) = 0 THEN delete(r) ELSE UNCHANGED vars
       /\ Returns(delete_code(r))
  /\ UNCHANGED curr_dir

CallDeleteLost ==
  /\ mode = "busy" /\ todo # << >> /\ Head(todo).op = "DELETE"
  /\ DeleteLost(Head(todo).req)
  /\ mode' = "stuck"
  /\ UNCHANGED <<cwd, curr_dir, cmd, todo>>

(* init and refresh_dir load a table with READ_DIRECTORY; the commands     *)
(* with CHANGE_DIR, by cluster number.                                     *)
LoadedBy(r) ==
  IF read_directory_code(r) = 0 THEN TableIn(read_directory_buffer(r))
  ELSE curr_dir
CallReadDirectory ==
  /\ mode = "busy" /\ todo # << >> /\ Head(todo).op = "READ_DIRECTORY"
  /\ curr_dir' = LoadedBy(Head(todo).req)
  /\ Returns(read_directory_code(Head(todo).req))
  /\ UNCHANGED vars
CallChangeDir ==
  /\ mode = "busy" /\ todo # << >> /\ Head(todo).op = "CHANGE_DIR"
  /\ curr_dir' = Table(cwd)
  /\ Returns(0)
  /\ UNCHANGED vars

---------------------------------------------------------------------------
(* The prompt                                                              *)

(* refresh_dir asks for the name in entry 0 of curr_dir, in the current    *)
(* folder.                                                                 *)
Refreshed ==
  LoadedBy(Request(curr_dir[0].name, TRUE, "", cwd, 0, Blank))

(* print_curr_dir climbs by entry 0 to the root; without a folder to start *)
(* from it reads whatever entry 0 holds and does not come back.            *)
Climbs(cluster) ==
  LET at[n \in 0 .. CLUSTER_MAP_SIZE] ==
        IF n = 0 THEN cluster
        ELSE LET c == at[n-1]
             IN IF c = ROOT_CLUSTER_NUMBER THEN c ELSE Table(c)[0].cluster
  IN at[CLUSTER_MAP_SIZE] = ROOT_CLUSTER_NUMBER

(* The refreshed table is that of the parent, since entry 0 of a folder    *)
(* holds the parent's cluster: only because the prompt loads the current   *)
(* folder once more does ls print it.                                      *)
RefreshedOnly == Refreshed
ShownAtPrompt == IF cwd = ROOT_CLUSTER_NUMBER THEN Refreshed ELSE Table(cwd)

Prompt ==
  /\ mode = "busy" /\ todo = << >>
  /\ mode' = IF Climbs(cwd) THEN "ready" ELSE "astray"
  /\ curr_dir' = ShownAtPrompt
  /\ cmd' = NoCommand
  /\ UNCHANGED <<vars, cwd, todo>>

---------------------------------------------------------------------------
(* Commands                                                                *)

Begin(command, calls, table) ==
  /\ mode' = "busy" /\ cmd' = command /\ todo' = calls /\ curr_dir' = table
  /\ UNCHANGED <<vars, cwd>>
Finish(table) == Begin(NoCommand, << >>, table)

AnyCode == Codes
ChangeDir == Call("CHANGE_DIR", NoRequest, AnyCode)

FolderReachedUnchecked(w) == w.to
FolderReached(w) == IF w.to = Invalid THEN cwd ELSE w.to
cd(path, padded) ==
  \E w \in Walks(path, padded) :
    /\ mode' = "busy"
    /\ cwd' = FolderReached(w)
    /\ curr_dir' = IF w.to = Invalid THEN w.loaded ELSE Table(w.to)
    /\ UNCHANGED <<vars, cmd, todo>>

(* A name taken from an edited line is not padded either: get_prompt       *)
(* leaves what was erased behind the line's final zero.                    *)
mkdir(name, padded) ==
  LET r == Request(name, padded, "", cwd, 0, Blank)
  IN Begin(Command("mkdir", NoRequest, r), <<Call("WRITE", r, AnyCode)>>, curr_dir)

(* The buffer of txt is never filled.                                      *)
txt(name, padded) ==
  \E text \in Texts :
    LET r == Request(name, padded, "txt", cwd, 1, text)
    IN Begin(Command("txt", NoRequest, r), <<Call("WRITE", r, AnyCode)>>, curr_dir)

(* writef deletes what it is about to replace.  A name without a dot makes *)
(* a file without extension, since there is something to write.            *)
WritefCallsWithoutExt(r) ==
  <<Call("DELETE", [r EXCEPT !.ext = ""], AnyCode), Call("WRITE", r, AnyCode)>>
WritefCalls(r) == <<Call("DELETE", r, AnyCode), Call("WRITE", r, AnyCode)>>
writef(name, padded, ext, text) ==
  LET r == Request(name, padded, ext, cwd, 1, text)
  IN Begin(Command("write", NoRequest, r), WritefCalls(r), curr_dir)

remove(path, walked, name, padded, ext) ==
  \E w \in Walks(path, walked) :
    IF w.to = Invalid THEN Finish(w.loaded)
    ELSE LET r == Request(name, padded, ext, w.to, 0, Blank)
         IN Begin(Command("rm", r, NoRequest), <<Call("DELETE", r, AnyCode)>>,
                  Table(cwd))

(* cat and play show a file; find visits every folder and comes back.      *)
cat(path, walked) ==
  \E w \in Walks(path, walked) :
    Finish(IF w.to = Invalid THEN w.loaded ELSE Table(cwd))
find == Finish(Table(cwd))

(* What the buffer of one cluster holds after READ.                        *)
TextRead(r) ==
  IF read_code(r) = 0 /\ read_buffer(r)[1].kind = "data"
  THEN read_buffer(r)[1].text ELSE Blank

IsFile(r) == r.ext # ""
ReadSource(r) ==
  IF IsFile(r) THEN read_code(r) = 0 ELSE read_directory_code(r) = 0

(* cp, and move of mv: the source is the last name of a path, the target a *)
(* path to a folder.  A return code is written into one byte of an         *)
(* uninitialised int: unless that was clean, success is not recognised.    *)
CopyCalls(src, dst)  == <<Call("WRITE", dst, AnyCode)>>
MoveCallsUnchecked(src, dst) ==
  <<Call("WRITE", dst, AnyCode), Call("DELETE", src, AnyCode)>>
MoveCalls(src, dst)  == <<Call("WRITE", dst, AnyCode), Call("DELETE", src, {0})>>

CopyOrMove(command, path, walked, name, padded, ext, dest, destExt, clean) ==
  \E from \in Walks(path, walked) :
    IF from.to = Invalid THEN Finish(from.loaded)
    ELSE \E to \in Walks(dest, walked) :
      IF to.to = Invalid \/ destExt # "" THEN Finish(to.loaded)
      ELSE LET src == Request(name, padded, ext, from.to,
                              IF ext = "" THEN 0 ELSE 1, Blank)
               dst == [src EXCEPT !.parent = to.to, !.text = TextRead(src)]
           IN Begin(Command(command, src, dst),
                    (IF ReadSource(src) /\ clean
                     THEN IF command = "cp" THEN CopyCalls(src, dst)
                                            ELSE MoveCalls(src, dst)
                     ELSE << >>) \o <<ChangeDir>>,
                    to.loaded)

(* rename of mv looks at no return code before the last call.              *)
RenameFileCalls(src, dst) ==
  <<Call("WRITE", [dst EXCEPT !.size = 1, !.text = TextRead([src EXCEPT !.size = 1])],
         AnyCode),
    Call("DELETE", src, AnyCode)>>
RenameFolderCalls(src, dst, clean) ==
  LET plain == [src EXCEPT !.ext = ""] IN
  <<Call("DELETE", plain, AnyCode), Call("WRITE", dst, AnyCode)>>
  \o IF clean THEN <<Call("WRITE", plain, {1})>> ELSE << >>

rename(path, walked, name, padded, ext, newName, newExt, clean) ==
  \E from \in Walks(path, walked) :
    IF from.to = Invalid THEN Finish(from.loaded)
    ELSE LET src == Request(name, padded, ext, from.to, 0, Blank)
             dst == Request(newName, TRUE, newExt, from.to, 0, Blank)
         IN Begin(Command("rename", src, dst),
                  IF newExt # "" THEN RenameFileCalls(src, dst)
                                 ELSE RenameFolderCalls(src, dst, clean),
                  Table(cwd))

(* mv decides by the extensions and the length of the target; "renaming"   *)
(* is uninitialised when one of the two names has an extension and the     *)
(* other has not.  What follows the last dot of ".." is not even written,  *)
(* and the name before its first dot is empty.                             *)
Renaming(ext, dest, destExt) ==
  IF Len(dest) # 1 THEN {FALSE}
  ELSE IF dest[1] # ".." /\ ((ext # "") <=> (destExt # "")) THEN {TRUE}
  ELSE BOOLEAN
NameBeforeDot(component) == IF component = ".." THEN "" ELSE component

mv(path, walked, name, padded, ext, dest, destExt, clean) ==
  \E renaming \in Renaming(ext, dest, destExt) :
    IF renaming
    THEN rename(path, walked, name, padded, ext, NameBeforeDot(dest[1]), destExt, clean)
    ELSE CopyOrMove("mv", path, walked, name, padded, ext, dest, destExt, clean)

NonEmpty(paths) == {p \in paths : p # << >>}

RunCommand ==
  /\ mode = "ready"
  /\ \E path \in Paths(PathBound), walked, padded \in Paddings,
        name \in Names, ext \in Extensions :
       \/ cd(Append(path, name), walked)
       \/ path # << >> /\ cd(path, walked)
       \/ mkdir(name, padded)
       \/ txt(name, padded)
       \/ \E text \in Texts \ {Blank} : writef(name, padded, ext, text)
       \/ remove(path, walked, name, padded, ext)
       \/ cat(path, walked)
       \/ find
       \/ \E dest \in NonEmpty(Paths(PathBound + 1)), clean \in BOOLEAN :
            \/ CopyOrMove("cp", path, walked, name, padded, ext, dest, "", clean)
            \/ \E destExt \in Extensions :
                 /\ dest[Len(dest)] = ".." => destExt = ""
                 /\ mv(path, walked, name, padded, ext, dest, destExt, clean)

ShellNext ==
  \/ Start
  \/ StartInserter
  \/ Insert
  \/ SwitchOff
  \/ StopInFormat
  \/ StopInCall
  \/ CallWrite
  \/ CallDelete
  \/ CallDeleteLost
  \/ CallReadDirectory
  \/ CallChangeDir
  \/ Prompt
  \/ RunCommand

ShellSpec == ShellInit /\ [][ShellNext]_allVars

---------------------------------------------------------------------------
(* Properties                                                              *)

(* Types of the shell's variables.                                         *)
ShellTypeOK ==
  /\ TypeOK
  /\ mode \in {"off", "inserting", "busy", "ready", "astray", "stuck"}
  /\ cwd \in Clusters
  /\ curr_dir \in [Indices -> DirectoryEntries]
  /\ Len(todo) <= Len(StartupFiles) + 3
  /\ \A i \in DOMAIN todo :
       todo[i].op \in {"WRITE", "DELETE", "READ_DIRECTORY", "CHANGE_DIR"}

IsEntryOf(e, r) == e.folder = r.parent /\ e.name = r.name /\ e.ext = r.ext
IsIn(store, e, r) == \E x \in store : IsEntryOf(x, r) /\ x.content = e.content

(* mv.h:4, "if arg is a valid directory, move file to that directory":     *)
(* move writes before it deletes, and deletes only what was written.       *)
(* Whenever the file it moves disappears, be it because the machine stops  *)
(* inside the delete, the whole file is in the target folder.  (After an   *)
(* earlier stop the entry may lead to a cluster that write takes for free.) *)
(* One file is lost: that which bears the name of its folder and has no    *)
(* extension.  Entry 0 of the folder is found in its place, and a folder   *)
(* made of it; delete, which begins at entry 2, takes the file.            *)
NamedLikeItsFolder(e) == e.ext = "" /\ e.name = Table(e.folder)[0].name
MoveKeepsTheFile ==
  [][cmd.name = "mv" /\ crashes = 0 /\ disk' # disk =>
       \A e \in StoreOnDisk \ StoreOnDisk' :
         IsEntryOf(e, cmd.from) /\ e.content \in FileContents
         => IsIn(StoreOnDisk', e, cmd.to) \/ NamedLikeItsFolder(e)]_allVars

(* rename deletes a folder before it has created the new one, a file after *)
(* that, and looks at no return code: it relies on delete refusing a       *)
(* folder with entries.  Whatever it is asked to rename, nothing           *)
(* disappears but that name, with or without its extension; what lies      *)
(* below it stays.                                                         *)
RenameLosesOneName ==
  [][cmd.name = "rename" /\ crashes = 0 /\ disk' # disk =>
       \A e \in StoreOnDisk \ StoreOnDisk' :
         \/ IsEntryOf(e, cmd.from)
         \/ IsEntryOf(e, [cmd.from EXCEPT !.ext = ""])]_allVars

(* write deletes a file before it writes it anew: once the delete was made *)
(* the write cannot be refused, for a full table, a full disk, or a name   *)
(* that is taken.                                                          *)
WriteFindsRoomAgain ==
  [][/\ cmd.name = "write" /\ todo # << >> /\ Head(todo).op = "DELETE"
     /\ disk' # disk /\ mode' = "busy"
     => write_code(cmd.to)' = 0]_allVars

(* The prompt climbs to the root from any folder, whatever was moved,      *)
(* renamed or deleted above it: the shell goes astray only when the very   *)
(* folder it stands in is gone.                                            *)
AstrayOnlyWithoutFolder == mode = "astray" /\ crashes = 0 => ~Table(cwd)[0].folder

(* ls prints the table of the current folder as it is on disk.  In the     *)
(* root, which the prompt does not reload, it may print another folder's,  *)
(* that in which the last command failed to find a name.  That one may be  *)
(* out of date only if it lists nothing: write has put a file in the place *)
(* of the folder, or a stop had left the folder without a table.           *)
ReplacedByAFile(t) ==
  /\ \A i \in Indices \ {0, 1} : ~t[i].used
  /\ t[0].used => \E i \in Indices \ {0, 1} :
       LET e == Table(ROOT_CLUSTER_NUMBER)[i]
       IN e.used /\ e.name = t[0].name /\ e.ext = "" /\ ~e.folder
ListingIsOfSomeFolder ==
  mode = "ready" /\ Table(ROOT_CLUSTER_NUMBER)[0].folder =>
    IF cwd # ROOT_CLUSTER_NUMBER THEN curr_dir = Table(cwd)
    ELSE \/ \E c \in FolderClusters : curr_dir = Table(c)
         \/ ReplacedByAFile(curr_dir)
=============================================================================
