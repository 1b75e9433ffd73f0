-------------------------------- MODULE Find --------------------------------
(***************************************************************************)
(* usermode/find.c: the search of the whole tree for a name, breadth       *)
(* first, with a ring of CAPACITY clusters that is tested for being full   *)
(* between two folders and not between two entries of one.  Nobody else    *)
(* writes to the disk meanwhile, so the search is a function of it.        *)
(***************************************************************************)
EXTENDS Fat32

CONSTANT CAPACITY   \* clusters the ring has room for

ASSUME FindAssumption == CAPACITY \in Nat \ {0}

IDX_UNDEF == -1

CreateQueue == [buffer |-> [i \in 0 .. CAPACITY - 1 |-> 0],
                idxHead |-> IDX_UNDEF, idxTail |-> IDX_UNDEF]

isEmpty(q) == q.idxHead = IDX_UNDEF /\ q.idxTail = IDX_UNDEF
isFull(q)  == q.idxTail = IF q.idxHead = 0 THEN CAPACITY - 1 ELSE q.idxHead - 1

enqueue(q, val) ==
  LET tail == IF isEmpty(q) THEN 0 ELSE (q.idxTail + 1) % CAPACITY
  IN [buffer  |-> [q.buffer EXCEPT ![tail] = val],
      idxHead |-> IF isEmpty(q) THEN 0 ELSE q.idxHead,
      idxTail |-> tail]
dequeue(q) ==
  IF q.idxHead = q.idxTail
  THEN [q EXCEPT !.idxHead = IDX_UNDEF, !.idxTail = IDX_UNDEF]
  ELSE [q EXCEPT !.idxHead = (@ + 1) % CAPACITY]

(* The search so far: its ring, the places printed, and whether a cluster  *)
(* was put into a ring that had no room, which the code does not notice.   *)
Searching(queue, printed, overrun) ==
  [queue |-> queue, printed |-> printed, overrun |-> overrun]

(* An entry without an extension is printed whatever extension was asked.  *)
IsPrinted(e, r) == SameBytes(e, r) /\ (e.ext = "" \/ e.ext = r.ext)

(* An entry of the folder at cluster.                                      *)
LookAt(s, cluster, i, r) ==
  LET e == Table(cluster)[i]
      q == IF e.used /\ e.folder THEN enqueue(s.queue, e.cluster) ELSE s.queue
  IN Searching(q,
       IF e.used /\ IsPrinted(e, r) THEN Append(s.printed, <<cluster, i>>)
                                    ELSE s.printed,
       s.overrun \/ (e.used /\ e.folder /\ isFull(s.queue)))

FirstEntryWithDots == 1
FirstEntry == 2

(* The ring is dequeued before the folder's entries are looked at.         *)
process_find(s, r) ==
  LET cluster == s.queue.buffer[s.queue.idxHead]
      upTo[i \in FirstEntry - 1 .. TOTAL_DIRECTORY_ENTRY - 1] ==
        IF i < FirstEntry THEN [s EXCEPT !.queue = dequeue(@)]
        ELSE LET before == upTo[i - 1] IN LookAt(before, cluster, i, r)
  IN upTo[TOTAL_DIRECTORY_ENTRY - 1]

(* The search after at most as many folders as there are clusters.         *)
find(r) ==
  LET at[n \in 0 .. CLUSTER_MAP_SIZE] ==
        IF n = 0
        THEN Searching(enqueue(CreateQueue, ROOT_CLUSTER_NUMBER), << >>, FALSE)
        ELSE LET s == at[n-1]
             IN IF isEmpty(s.queue) \/ isFull(s.queue) THEN s ELSE process_find(s, r)
  IN at[CLUSTER_MAP_SIZE]

---------------------------------------------------------------------------

(* find.c promises every file and folder of the name in the whole system,  *)
(* and a message if it stops early because the ring is full.  It keeps     *)
(* that, and prints no place twice, as long as no single folder has more   *)
(* subfolders than the ring has room left; its ".." is never followed.     *)
FindShowsEveryMatch ==
  power = "on" /\ crashes = 0 =>
    LET places == Places IN
    \A name \in Names, ext \in Extensions :
      LET r == [name |-> name, padded |-> TRUE, ext |-> ext]
          s == find(r)
          printed == {s.printed[i] : i \in DOMAIN s.printed}
          matching == {p \in places : IsPrinted(EntryAt(p), r)}
      IN /\ Len(s.printed) = Cardinality(printed)
         /\ printed \subseteq matching
         /\ \/ s.overrun
            \/ isFull(s.queue)      \* "find selesai karena depth terlalu dalam"
            \/ isEmpty(s.queue) /\ printed = matching
=============================================================================
