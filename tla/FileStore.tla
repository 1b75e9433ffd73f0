----------------------------- MODULE FileStore -----------------------------
(***************************************************************************)
(* What the file system promises, without clusters, allocation tables or   *)
(* free lists: a tree of named entries below a root folder.  An entry is a *)
(* folder or a file with its content; it is created whole, under a name    *)
(* not taken in its folder; it never changes; and only an entry in which   *)
(* nothing is listed can be deleted.  Switching the machine off and on     *)
(* keeps every entry.  Fat32 refines this specification (Fat32!Files).     *)
(***************************************************************************)
CONSTANTS Handles,   \* what identifies an entry while it exists
          Root,      \* the handle of the root folder
          Names, Extensions,
          Contents,  \* what a file can hold
          Folder     \* the content of a folder, no file's content

VARIABLE store       \* the entries

Entries == [folder : Handles, name : Names, ext : Extensions,
            handle : Handles, content : Contents \cup {Folder}]

FolderHandles == {Root} \cup {e.handle : e \in {x \in store : x.content = Folder}}

Init == store = {}

Create(e) ==
  /\ e.folder \in FolderHandles
  /\ e.handle # Root
  /\ \A x \in store :
       /\ x.handle # e.handle
       /\ x.folder = e.folder => <<x.name, x.ext>> # <<e.name, e.ext>>
  /\ store' = store \cup {e}

Delete(e) ==
  /\ e \in store
  /\ \A x \in store : x.folder # e.handle
  /\ store' = store \ {e}

(* The entry created is the one that is new.                               *)
Next ==
  \/ \E e \in store' \ store : e \in Entries /\ Create(e)
  \/ \E e \in store : Delete(e)

Spec == Init /\ [][Next]_store
=============================================================================
