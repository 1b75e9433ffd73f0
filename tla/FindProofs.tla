----------------------------- MODULE FindProofs -----------------------------
(***************************************************************************)
(* find prints every file and folder of a name, each once, for every size  *)
(* of the disk, of its tables and of the ring, and for every tree that     *)
(* requests to the driver can leave.                                       *)
(*                                                                         *)
(* First the ring, for every order of enqueue and dequeue, the one that    *)
(* finds no room included; then the search as a recursion, folder by       *)
(* folder and entry by entry; then what is true of it on a whole tree: it  *)
(* goes over no folder twice, and when nothing waits any more, over all.   *)
(***************************************************************************)
EXTENDS TreeProofs, Find

-----------------------------------------------------------------------------
(* The ring.                                                               *)

Spots == 0 .. CAPACITY - 1
Rings == {q \in [buffer : [Spots -> Clusters], idxHead : Spots \cup {IDX_UNDEF},
                 idxTail : Spots \cup {IDX_UNDEF}] :
            q.idxHead = IDX_UNDEF <=> q.idxTail = IDX_UNDEF}

(* The places of the ring that are in use, and what waits there.           *)
Filled(q) ==
  {i \in Spots : IF q.idxHead <= q.idxTail THEN q.idxHead <= i /\ i <= q.idxTail
                 ELSE q.idxHead <= i \/ i <= q.idxTail}
Waiting(q) == {q.buffer[i] : i \in Filled(q)}
EachOnce(q) == \A i, j \in Filled(q) : q.buffer[i] = q.buffer[j] => i = j

LEMMA NextSpot ==
  ASSUME NEW i \in Spots
  PROVE  (i + 1) % CAPACITY = IF i = CAPACITY - 1 THEN 0 ELSE i + 1
<1>1. CAPACITY \in Nat /\ CAPACITY > 0
  BY FindAssumption
<1>2. i \in Nat /\ i < CAPACITY
  BY <1>1 DEF Spots
<1>3. QED
  BY <1>1, <1>2

LEMMA RingFields ==
  ASSUME NEW q \in Rings
  PROVE  /\ q.buffer \in [Spots -> Clusters]
         /\ q.idxHead \in Spots \/ q.idxHead = -1
         /\ q.idxTail \in Spots \/ q.idxTail = -1
         /\ q.idxHead = -1 <=> q.idxTail = -1
         /\ isEmpty(q) <=> q.idxHead = -1
         /\ Spots \subseteq Nat /\ CAPACITY \in Nat /\ CAPACITY > 0
         /\ 0 \in Spots
BY FindAssumption DEF Rings, IDX_UNDEF, isEmpty, Spots

(* Where enqueue puts a value: behind the others, or, when there is no     *)
(* room, in the place of the first, as if it were alone.                   *)
LEMMA EnqueueFields ==
  ASSUME NEW q \in Rings, NEW val \in Clusters
  PROVE  LET e == enqueue(q, val)
             t == e.idxTail
             h == e.idxHead
         IN /\ e \in Rings /\ t \in Spots /\ h \in Spots
            /\ e.buffer[t] = val
            /\ \A i \in Spots : i # t => e.buffer[i] = q.buffer[i]
            /\ h = IF isEmpty(q) THEN 0 ELSE q.idxHead
            /\ t = IF isEmpty(q) THEN 0
                   ELSE IF q.idxTail = CAPACITY - 1 THEN 0 ELSE q.idxTail + 1
<1> DEFINE e == enqueue(q, val)
           n == IF isEmpty(q) THEN 0 ELSE (q.idxTail + 1) % CAPACITY
           h == IF isEmpty(q) THEN 0 ELSE q.idxHead
<1>1. n = IF isEmpty(q) THEN 0 ELSE IF q.idxTail = CAPACITY - 1 THEN 0 ELSE q.idxTail + 1
  BY RingFields, NextSpot
<1>2. n \in Spots /\ h \in Spots /\ n # -1 /\ h # -1
  BY <1>1, RingFields DEF Spots
<1>3. e = [buffer |-> [q.buffer EXCEPT ![n] = val], idxHead |-> h, idxTail |-> n]
  BY DEF enqueue
<1> HIDE DEF n, h, e
<1>4. /\ q.buffer \in [Spots -> Clusters]
      /\ [q.buffer EXCEPT ![n] = val] \in [Spots -> Clusters]
      /\ [q.buffer EXCEPT ![n] = val][n] = val
      /\ \A i \in Spots : i # n => [q.buffer EXCEPT ![n] = val][i] = q.buffer[i]
  BY <1>2, RingFields
<1>5. e.buffer = [q.buffer EXCEPT ![n] = val] /\ e.idxHead = h /\ e.idxTail = n
  BY <1>3
<1>6. e \in Rings
  BY <1>2, <1>3, <1>4, <1>5 DEF Rings, IDX_UNDEF
<1>7. QED
  BY <1>1, <1>2, <1>4, <1>5, <1>6 DEF e, h

LEMMA FilledIs ==
  ASSUME NEW q, NEW i
  PROVE  i \in Filled(q) <=>
           i \in Spots /\ IF q.idxHead <= q.idxTail THEN q.idxHead <= i /\ i <= q.idxTail
                          ELSE q.idxHead <= i \/ i <= q.idxTail
BY DEF Filled

(* With room, one place more is in use; without, that place alone.         *)
LEMMA EnqueueFills ==
  ASSUME NEW q \in Rings, NEW val \in Clusters, NEW i \in Spots
  PROVE  LET e == enqueue(q, val)
         IN /\ isFull(q)  => (i \in Filled(e) <=> i = e.idxTail)
            /\ ~isFull(q) => (i \in Filled(e) <=> i \in Filled(q) \/ i = e.idxTail)
            /\ ~isFull(q) => e.idxTail \notin Filled(q)
<1> DEFINE e == enqueue(q, val)
           t == e.idxTail
           h == e.idxHead
           a == q.idxHead
           b == q.idxTail
<1>1. /\ t \in Spots /\ h \in Spots
      /\ h = IF isEmpty(q) THEN 0 ELSE a
      /\ t = IF isEmpty(q) THEN 0 ELSE IF b = CAPACITY - 1 THEN 0 ELSE b + 1
  BY EnqueueFields
<1>2. /\ a \in Spots \/ a = -1
      /\ b \in Spots \/ b = -1
      /\ a = -1 <=> b = -1
      /\ isEmpty(q) <=> a = -1
      /\ CAPACITY \in Nat /\ CAPACITY > 0
  BY RingFields
<1>3. isFull(q) <=> b = IF a = 0 THEN CAPACITY - 1 ELSE a - 1
  BY DEF isFull
<1>4. /\ i \in Filled(e) <=> IF h <= t THEN h <= i /\ i <= t ELSE h <= i \/ i <= t
      /\ i \in Filled(q) <=> IF a <= b THEN a <= i /\ i <= b ELSE a <= i \/ i <= b
      /\ t \in Filled(q) <=> IF a <= b THEN a <= t /\ t <= b ELSE a <= t \/ t <= b
  BY <1>1, FilledIs
<1> HIDE DEF e, t, h, a, b
<1>5. /\ isFull(q)  => (i \in Filled(e) <=> i = t)
      /\ ~isFull(q) => (i \in Filled(e) <=> i \in Filled(q) \/ i = t)
      /\ ~isFull(q) => t \notin Filled(q)
  BY <1>1, <1>2, <1>3, <1>4 DEF Spots
<1>6. QED
  BY <1>5 DEF e, t

LEMMA Enqueued ==
  ASSUME NEW q \in Rings, EachOnce(q), NEW val \in Clusters, val \notin Waiting(q)
  PROVE  LET e == enqueue(q, val)
         IN /\ e \in Rings /\ EachOnce(e)
            /\ Waiting(e) = IF isFull(q) THEN {val} ELSE Waiting(q) \cup {val}
<1> DEFINE e == enqueue(q, val)
           t == e.idxTail
<1>1. /\ e \in Rings /\ t \in Spots /\ e.buffer[t] = val
      /\ \A i \in Spots : i # t => e.buffer[i] = q.buffer[i]
  BY EnqueueFields
<1>2. /\ isFull(q)  => \A i \in Spots : i \in Filled(e) <=> i = t
      /\ ~isFull(q) => \A i \in Spots : i \in Filled(e) <=> i \in Filled(q) \/ i = t
      /\ ~isFull(q) => t \notin Filled(q)
  BY <1>1, EnqueueFills
<1>3. Filled(e) \subseteq Spots /\ Filled(q) \subseteq Spots
  BY DEF Filled
<1> HIDE DEF e, t
<1>4. CASE isFull(q)
  <2>1. Filled(e) = {t}
    BY <1>1, <1>2, <1>3, <1>4
  <2>2. Waiting(e) = {val} /\ EachOnce(e)
    BY <1>1, <2>1 DEF Waiting, EachOnce
  <2>3. QED
    BY <1>1, <1>4, <2>2 DEF e
<1>5. CASE ~isFull(q)
  <2>1. Filled(e) = Filled(q) \cup {t}
    BY <1>1, <1>2, <1>3, <1>5
  <2>2. \A i \in Filled(q) : e.buffer[i] = q.buffer[i]
    BY <1>1, <1>2, <1>3, <1>5
  <2>3. Waiting(e) = Waiting(q) \cup {val}
    BY <1>1, <2>1, <2>2 DEF Waiting
  <2>4. EachOnce(e)
    <3>1. \A i \in Filled(q) : e.buffer[i] # val
      BY <2>2 DEF Waiting
    <3>2. QED
      BY <1>1, <2>1, <2>2, <3>1 DEF EachOnce
  <2>5. QED
    BY <1>1, <1>5, <2>3, <2>4 DEF e
<1>6. QED
  BY <1>4, <1>5

LEMMA DequeueFields ==
  ASSUME NEW q \in Rings, ~isEmpty(q)
  PROVE  LET e == dequeue(q)
             h == q.idxHead
         IN /\ e \in Rings /\ e.buffer = q.buffer
            /\ h \in Spots /\ h \in Filled(q)
            /\ \A i \in Spots : i \in Filled(e) <=> i \in Filled(q) /\ i # h
<1> DEFINE e == dequeue(q)
           h == q.idxHead
           t == q.idxTail
           n == (h + 1) % CAPACITY
<1>1. /\ h \in Spots /\ t \in Spots /\ q.buffer \in [Spots -> Clusters]
      /\ CAPACITY \in Nat /\ CAPACITY > 0 /\ Spots \subseteq Nat
  BY RingFields
<1>2. n = IF h = CAPACITY - 1 THEN 0 ELSE h + 1
  BY <1>1, NextSpot
<1>3. n \in Spots /\ -1 \notin Spots
  BY <1>1, <1>2 DEF Spots
<1>4. q = [buffer |-> q.buffer, idxHead |-> h, idxTail |-> t]
  BY DEF Rings
<1>5. h \in Filled(q)
  <2>1. h \in Filled(q) <=>
          h \in Spots /\ IF h <= t THEN h <= h /\ h <= t ELSE h <= h \/ h <= t
    BY FilledIs
  <2> HIDE DEF h, t
  <2>2. h \in Nat /\ t \in Nat
    BY <1>1
  <2>3. QED
    BY <1>1, <2>1, <2>2
<1>6. CASE h = t
  <2>1. e = [buffer |-> q.buffer, idxHead |-> -1, idxTail |-> -1]
    BY <1>4, <1>6 DEF dequeue, IDX_UNDEF
  <2> HIDE DEF e
  <2>2. e \in Rings /\ e.buffer = q.buffer /\ e.idxHead = -1 /\ e.idxTail = -1
    BY <1>1, <2>1 DEF Rings, IDX_UNDEF
  <2>3. ASSUME NEW i \in Spots
        PROVE  i \in Filled(e) <=> i \in Filled(q) /\ i # h
    <3>1. i \in Filled(e) <=> (-1 <= i /\ i <= -1)
      BY <2>2, FilledIs
    <3>2. i \in Filled(q) <=> IF h <= t THEN h <= i /\ i <= t ELSE h <= i \/ i <= t
      BY FilledIs
    <3>3. i \in Nat /\ h \in Nat
      BY <1>1
    <3> HIDE DEF h, t
    <3>4. QED
      BY <1>6, <3>1, <3>2, <3>3
  <2>4. QED
    BY <1>1, <1>5, <2>2, <2>3 DEF e
<1>7. CASE h # t
  <2>1. e = [buffer |-> q.buffer, idxHead |-> n, idxTail |-> t]
    BY <1>4, <1>7 DEF dequeue
  <2> HIDE DEF e, n
  <2>2. e \in Rings /\ e.buffer = q.buffer /\ e.idxHead = n /\ e.idxTail = t
    BY <1>1, <1>3, <2>1 DEF Rings, IDX_UNDEF
  <2>3. ASSUME NEW i \in Spots
        PROVE  i \in Filled(e) <=> i \in Filled(q) /\ i # h
    <3>1. i \in Filled(e) <=> IF n <= t THEN n <= i /\ i <= t ELSE n <= i \/ i <= t
      BY <2>2, FilledIs
    <3>2. i \in Filled(q) <=> IF h <= t THEN h <= i /\ i <= t ELSE h <= i \/ i <= t
      BY FilledIs
    <3> HIDE DEF h, t
    <3>3. QED
      BY <1>1, <1>2, <1>7, <3>1, <3>2 DEF Spots
  <2>4. QED
    BY <1>1, <1>5, <2>2, <2>3 DEF e
<1>8. QED
  BY <1>6, <1>7

LEMMA Dequeued ==
  ASSUME NEW q \in Rings, EachOnce(q), ~isEmpty(q)
  PROVE  LET e == dequeue(q)
             c == q.buffer[q.idxHead]
         IN /\ e \in Rings /\ EachOnce(e) /\ c \in Clusters
            /\ c \in Waiting(q) /\ Waiting(e) = Waiting(q) \ {c}
<1> DEFINE e == dequeue(q)
           h == q.idxHead
           c == q.buffer[h]
<1>1. /\ e \in Rings /\ e.buffer = q.buffer /\ h \in Spots /\ h \in Filled(q)
      /\ \A i \in Spots : i \in Filled(e) <=> i \in Filled(q) /\ i # h
  BY DequeueFields
<1>2. Filled(e) \subseteq Spots /\ Filled(q) \subseteq Spots
  BY DEF Filled
<1>3. c \in Clusters
  BY <1>1, RingFields
<1> HIDE DEF e, h
<1>4. Filled(e) = Filled(q) \ {h}
  BY <1>1, <1>2
<1>5. EachOnce(e)
  BY <1>1, <1>4 DEF EachOnce
<1>6. Waiting(e) = Waiting(q) \ {c} /\ c \in Waiting(q)
  BY <1>1, <1>4 DEF Waiting, EachOnce
<1>7. QED
  BY <1>1, <1>3, <1>5, <1>6 DEF e, h

LEMMA NothingWaits ==
  ASSUME NEW q \in Rings, isEmpty(q)
  PROVE  Waiting(q) = {}
<1>1. q.idxHead = -1 /\ q.idxTail = -1
  BY RingFields
<1>2. \A i \in Spots : i \in Nat
  BY RingFields
<1>3. ASSUME NEW i \in Filled(q)
      PROVE  FALSE
  <2>1. i \in Spots /\ -1 <= i /\ i <= -1
    BY <1>1, <1>3, FilledIs
  <2>2. i \in Nat
    BY <1>2, <2>1
  <2>3. QED
    BY <2>1, <2>2
<1>4. QED
  BY <1>3 DEF Waiting
-----------------------------------------------------------------------------
(* The search as a recursion.                                              *)

Searches == [queue : Rings, printed : Seq(Clusters \X Indices), overrun : BOOLEAN]

LEMMA LookTyped ==
  ASSUME DriverInv, NEW s \in Searches, NEW c \in Clusters, NEW i \in Indices, NEW r
  PROVE  LookAt(s, c, i, r) \in Searches
<1> DEFINE e == Table(c)[i]
           q == IF e.used /\ e.folder THEN enqueue(s.queue, e.cluster) ELSE s.queue
           p == IF e.used /\ IsPrinted(e, r) THEN Append(s.printed, <<c, i>>) ELSE s.printed
           o == s.overrun \/ (e.used /\ e.folder /\ isFull(s.queue))
<1>1. s.queue \in Rings /\ s.printed \in Seq(Clusters \X Indices) /\ s.overrun \in BOOLEAN
  BY DEF Searches
<1>2. e.cluster \in Clusters
  <2>1. Table(c) \in Tables
    BY TypesOfDriver
  <2>2. QED
    BY <2>1 DEF Tables, DirectoryEntries
<1>3. q \in Rings
  <2> HIDE DEF e
  <2> QED
    BY <1>1, <1>2, EnqueueFields
<1>4. p \in Seq(Clusters \X Indices)
  <2> DEFINE S == Clusters \X Indices
             x == <<c, i>>
  <2>1. x \in S /\ s.printed \in Seq(S)
    BY <1>1
  <2> HIDE DEF S, x
  <2>2. Append(s.printed, x) \in Seq(S)
    BY <2>1
  <2>3. QED
    BY <2>1, <2>2 DEF S, x
<1>5. o \in BOOLEAN
  BY <1>1 DEF isFull
<1>6. LookAt(s, c, i, r) = [queue |-> q, printed |-> p, overrun |-> o]
  BY DEF LookAt, Searching
<1> HIDE DEF q, p, o
<1>7. QED
  BY <1>3, <1>4, <1>5, <1>6 DEF Searches

(* What process_find has done before it looks at entry i + 1.              *)
Looking(up, s, c, r) ==
  /\ up \in [0 .. TOTAL_DIRECTORY_ENTRY - 2 -> Searches]
  /\ up[0] = [s EXCEPT !.queue = dequeue(@)]
  /\ \A n \in 1 .. TOTAL_DIRECTORY_ENTRY - 2 : up[n] = LookAt(up[n - 1], c, n + 1, r)

LEMMA ProcessUnfolds ==
  ASSUME DriverInv, NEW s \in Searches, ~isEmpty(s.queue), NEW r
  PROVE  LET c == s.queue.buffer[s.queue.idxHead]
         IN /\ c \in Clusters
            /\ \E up : /\ Looking(up, s, c, r)
                       /\ process_find(s, r) = up[TOTAL_DIRECTORY_ENTRY - 2]
<1> DEFINE c == s.queue.buffer[s.queue.idxHead]
           T == TOTAL_DIRECTORY_ENTRY
           N == T - 2
           first == [s EXCEPT !.queue = dequeue(@)]
           F == [n \in Nat |-> [x \in Searches |->
                   IF n + 1 \in Indices THEN LookAt(x, c, n + 1, r) ELSE x]]
           Is(f) == f = [i \in 1 .. T - 1 |->
                           IF i < 2 THEN first
                           ELSE LET before == f[i - 1] IN LookAt(before, c, i, r)]
<1>1. T \in Nat /\ T >= 2 /\ N \in Nat /\ Indices = 0 .. T - 1
  BY ClusterBasics DEF Indices
<1>2. s.queue \in Rings
  BY DEF Searches
<1>3. dequeue(s.queue) \in Rings /\ c \in Clusters
  BY <1>2, DequeueFields, RingFields
<1>4. first \in Searches
  BY <1>3 DEF Searches
<1> HIDE DEF c, first
<1>5. F \in [Nat -> [Searches -> Searches]]
  <2>1. ASSUME NEW n \in Nat, NEW x \in Searches
        PROVE  (IF n + 1 \in Indices THEN LookAt(x, c, n + 1, r) ELSE x) \in Searches
    BY <1>3, LookTyped
  <2>2. QED
    BY <2>1
<1>6. PICK g : Recursion(g, N, Searches, first, F)
  <2> HIDE DEF F, N
  <2> QED
    BY <1>1, <1>4, <1>5, RecursionExists
<1>7. /\ g \in [0 .. N -> Searches] /\ g[0] = first
      /\ \A n \in 1 .. N : g[n] = LookAt(g[n - 1], c, n + 1, r)
  <2>1. ASSUME NEW n \in 1 .. N
        PROVE  g[n] = LookAt(g[n - 1], c, n + 1, r)
    <3>1. n \in Nat /\ n - 1 \in 0 .. N /\ n + 1 \in Indices /\ g[n] = F[n][g[n - 1]]
      <4>1. g[n] = F[n][g[n - 1]]
        <5> HIDE DEF F
        <5> QED
          BY <1>6 DEF Recursion
      <4>2. QED
        BY <1>1, <4>1
    <3>2. g[n - 1] \in Searches
      BY <1>6, <3>1 DEF Recursion
    <3>3. QED
      BY <3>1, <3>2
  <2> HIDE DEF F, N
  <2>2. QED
    BY <1>6, <2>1 DEF Recursion
<1> HIDE DEF F
<1> DEFINE f == [i \in 1 .. T - 1 |-> g[i - 1]]
<1>8. Is(f)
  <2>1. ASSUME NEW i \in 1 .. T - 1
        PROVE  f[i] = IF i < 2 THEN first ELSE LookAt(f[i - 1], c, i, r)
    <3>1. CASE i < 2
      <4>1. i = 1 /\ i - 1 = 0
        BY <1>1, <3>1
      <4>2. QED
        BY <1>7, <3>1, <4>1
    <3>2. CASE ~(i < 2)
      <4>1. i - 1 \in 1 .. N /\ i - 1 \in 1 .. T - 1 /\ (i - 1) + 1 = i
        BY <1>1, <3>2
      <4>2. g[i - 1] = LookAt(g[(i - 1) - 1], c, i, r)
        BY <1>7, <4>1
      <4>3. f[i] = g[i - 1] /\ f[i - 1] = g[(i - 1) - 1]
        BY <4>1
      <4> HIDE DEF f
      <4>4. QED
        BY <3>2, <4>2, <4>3
    <3>3. QED
      BY <3>1, <3>2
  <2>2. QED
    BY <2>1
<1>9. process_find(s, r) = (CHOOSE x : Is(x))[T - 1]
  BY DEF process_find, FirstEntry, c, first
<1> DEFINE w == CHOOSE x : Is(x)
<1>10. Is(w)
  <2> HIDE DEF Is
  <2> QED
    BY <1>8
<1>11. /\ process_find(s, r) = w[T - 1]
       /\ w = [i \in 1 .. T - 1 |-> IF i < 2 THEN first
                                    ELSE LET before == w[i - 1] IN LookAt(before, c, i, r)]
  BY <1>9, <1>10
<1> HIDE DEF w, f
<1>12. \A i \in 1 .. T - 1 : w[i] = IF i < 2 THEN first ELSE LookAt(w[i - 1], c, i, r)
  BY <1>11
<1>13. \A n \in 0 .. N : w[n + 1] = g[n]
  <2> DEFINE S == {n \in 0 .. N : w[n + 1] = g[n]}
  <2>1. 0 \in S
    BY <1>1, <1>7, <1>12
  <2>2. ASSUME NEW n \in 0 .. N - 1, n \in S
        PROVE  n + 1 \in S
    <3>1. /\ n + 1 \in 1 .. N /\ (n + 1) - 1 = n /\ n + 1 \in 0 .. N
          /\ (n + 1) + 1 \in 1 .. T - 1 /\ ~((n + 1) + 1 < 2) /\ ((n + 1) + 1) - 1 = n + 1
      BY <1>1
    <3>2. w[(n + 1) + 1] = LookAt(w[n + 1], c, (n + 1) + 1, r)
      BY <1>12, <3>1
    <3>3. g[n + 1] = LookAt(g[n], c, (n + 1) + 1, r)
      BY <1>7, <3>1
    <3>4. w[n + 1] = g[n]
      BY <2>2
    <3>5. QED
      BY <3>1, <3>2, <3>3, <3>4
  <2>3. 0 .. N \subseteq S
    <3> HIDE DEF S, N
    <3> QED
      BY <1>1, <2>1, <2>2, UpTo
  <2>4. QED
    BY <2>3
<1>14. process_find(s, r) = g[N]
  <2>1. N \in 0 .. N /\ N + 1 = T - 1
    BY <1>1
  <2>2. QED
    BY <1>11, <1>13, <2>1
<1>15. Looking(g, s, c, r)
  BY <1>7 DEF Looking, first
<1>16. QED
  BY <1>3, <1>14, <1>15 DEF c

LEMMA ProcessTyped ==
  ASSUME DriverInv, NEW s \in Searches, ~isEmpty(s.queue), NEW r
  PROVE  process_find(s, r) \in Searches
<1> DEFINE c == s.queue.buffer[s.queue.idxHead]
           N == TOTAL_DIRECTORY_ENTRY - 2
<1>1. PICK up : Looking(up, s, c, r) /\ process_find(s, r) = up[N]
  BY ProcessUnfolds
<1>2. N \in 0 .. N
  BY ClusterBasics
<1>3. QED
  BY <1>1, <1>2 DEF Looking

Stopped(s) == isEmpty(s.queue) \/ isFull(s.queue)

(* What find has come to after n folders.                                  *)
Finding(at, r) ==
  /\ at \in [0 .. CLUSTER_MAP_SIZE -> Searches]
  /\ at[0] = Searching(enqueue(CreateQueue, 2), << >>, FALSE)
  /\ \A n \in 1 .. CLUSTER_MAP_SIZE :
       at[n] = IF Stopped(at[n - 1]) THEN at[n - 1] ELSE process_find(at[n - 1], r)

LEMMA EmptyRing ==
  /\ CreateQueue \in Rings /\ isEmpty(CreateQueue) /\ EachOnce(CreateQueue)
  /\ Waiting(CreateQueue) = {} /\ ~isFull(CreateQueue)
<1> DEFINE b == [i \in 0 .. CAPACITY - 1 |-> 0]
           q == CreateQueue
<1>1. b \in [Spots -> Clusters]
  BY ClusterBasics DEF Spots
<1>2. q = [buffer |-> b, idxHead |-> -1, idxTail |-> -1]
  BY DEF CreateQueue, IDX_UNDEF
<1> HIDE DEF b, q
<1>3. q.buffer = b /\ q.idxHead = -1 /\ q.idxTail = -1
  BY <1>2
<1>4. q \in Rings /\ isEmpty(q)
  BY <1>1, <1>2, <1>3 DEF Rings, IDX_UNDEF, isEmpty
<1>5. Waiting(q) = {}
  BY <1>4, NothingWaits
<1>6. EachOnce(q)
  BY <1>5 DEF Waiting, EachOnce
<1>7. ~isFull(q)
  BY <1>3 DEF isFull
<1>8. QED
  BY <1>4, <1>5, <1>6, <1>7 DEF q

LEMMA FindUnfolds ==
  ASSUME DriverInv, NEW r
  PROVE  \E at : Finding(at, r) /\ find(r) = at[CLUSTER_MAP_SIZE]
<1> DEFINE N == CLUSTER_MAP_SIZE
           first == Searching(enqueue(CreateQueue, 2), << >>, FALSE)
           After(x) == IF Stopped(x) THEN x ELSE process_find(x, r)
           F == [n \in Nat |-> [x \in Searches |-> After(x)]]
           Is(f) == f = [n \in 0 .. N |->
                           IF n = 0 THEN Searching(enqueue(CreateQueue, 2), << >>, FALSE)
                           ELSE LET s == f[n - 1]
                                IN IF isEmpty(s.queue) \/ isFull(s.queue) THEN s
                                   ELSE process_find(s, r)]
<1>1. N \in Nat /\ 2 \in Clusters
  BY ClusterBasics
<1>2. first \in Searches
  <2>1. enqueue(CreateQueue, 2) \in Rings
    BY <1>1, EmptyRing, EnqueueFields
  <2>2. << >> \in Seq(Clusters \X Indices)
    OBVIOUS
  <2>3. QED
    BY <2>1, <2>2 DEF Searching, Searches
<1> HIDE DEF first
<1>3. \A x \in Searches : After(x) \in Searches
  BY ProcessTyped DEF Stopped
<1>4. F \in [Nat -> [Searches -> Searches]]
  <2> HIDE DEF After
  <2> QED
    BY <1>3
<1>5. PICK g : Recursion(g, N, Searches, first, F)
  <2> HIDE DEF F, N
  <2> QED
    BY <1>1, <1>2, <1>4, RecursionExists
<1>6. /\ g \in [0 .. N -> Searches] /\ g[0] = first
      /\ \A n \in 1 .. N : g[n] = After(g[n - 1])
  <2>1. ASSUME NEW n \in 1 .. N
        PROVE  g[n] = After(g[n - 1])
    <3>1. n \in Nat /\ n - 1 \in 0 .. N /\ g[n] = F[n][g[n - 1]]
      <4> HIDE DEF F
      <4> QED
        BY <1>1, <1>5 DEF Recursion
    <3>2. g[n - 1] \in Searches
      BY <1>5, <3>1 DEF Recursion
    <3> HIDE DEF After
    <3>3. QED
      BY <3>1, <3>2
  <2> HIDE DEF F, N, After
  <2>2. QED
    BY <1>5, <2>1 DEF Recursion
<1> HIDE DEF F
<1>7. \E x : Is(x)
  <2> DEFINE h == [n \in 0 .. N |-> g[n]]
  <2>1. ASSUME NEW n \in 0 .. N
        PROVE  h[n] = IF n = 0 THEN first ELSE After(h[n - 1])
    <3>1. CASE n = 0
      BY <1>6, <3>1
    <3>2. CASE n # 0
      <4>1. n \in 1 .. N /\ n - 1 \in 0 .. N
        BY <1>1, <3>2
      <4>2. h[n] = g[n] /\ h[n - 1] = g[n - 1] /\ g[n] = After(g[n - 1])
        BY <1>6, <4>1
      <4> HIDE DEF h, After
      <4>3. QED
        BY <3>2, <4>2
    <3>3. QED
      BY <3>1, <3>2
  <2>2. h = [n \in 0 .. N |-> IF n = 0 THEN first ELSE After(h[n - 1])]
    <3> HIDE DEF After
    <3> QED
      BY <2>1
  <2>3. Is(h)
    <3> HIDE DEF h
    <3> QED
      BY <2>2 DEF first, Stopped
  <2> HIDE DEF Is
  <2>4. QED
    BY <2>3
<1> DEFINE w == CHOOSE x : Is(x)
<1>8. find(r) = w[N]
  BY DEF find, ROOT_CLUSTER_NUMBER
<1>9. Is(w)
  <2> HIDE DEF Is
  <2> QED
    BY <1>7
<1> HIDE DEF w
<1>10. \A n \in 0 .. N : w[n] = IF n = 0 THEN first ELSE After(w[n - 1])
  BY <1>9 DEF first, Stopped
<1>11. \A n \in 0 .. N : w[n] = g[n]
  <2> DEFINE S == {n \in 0 .. N : w[n] = g[n]}
  <2> HIDE DEF After
  <2>1. 0 \in S
    BY <1>1, <1>6, <1>10
  <2>2. ASSUME NEW n \in 0 .. N - 1, n \in S
        PROVE  n + 1 \in S
    <3>1. n + 1 \in 1 .. N /\ (n + 1) - 1 = n /\ n + 1 \in 0 .. N /\ n + 1 # 0
      BY <1>1
    <3>2. w[n + 1] = After(w[n]) /\ g[n + 1] = After(g[n])
      BY <1>6, <1>10, <3>1
    <3>3. w[n] = g[n]
      BY <2>2
    <3>4. QED
      BY <3>1, <3>2, <3>3
  <2>3. 0 .. N \subseteq S
    <3> HIDE DEF S, N
    <3> QED
      BY <1>1, <2>1, <2>2, UpTo
  <2>4. QED
    BY <2>3
<1>12. find(r) = g[N]
  BY <1>1, <1>8, <1>11
<1>13. Finding(g, r)
  BY <1>6 DEF Finding, first
<1>14. QED
  BY <1>12, <1>13
-----------------------------------------------------------------------------
(* The search as a walk through the tree.                                  *)

(* The clusters of the root and of the folders among the places L.         *)
Known(L) == {2} \cup {At(disk, p).cluster : p \in {x \in L : At(disk, x).folder}}

ToPrint(L, r) == {p \in L : IsPrinted(At(disk, p), r)}
PrintedAre(printed, S) ==
  /\ \A i, j \in DOMAIN printed : printed[i] = printed[j] => i = j
  /\ {printed[i] : i \in DOMAIN printed} = S

(* The places L have been looked at, D are the folders taken off the ring: *)
(* what waits there is known and was never taken off, it is all that is    *)
(* left of what is known unless the ring ran over, and each place of the   *)
(* name was printed once.                                                  *)
SearchInv(s, D, L, r) ==
  /\ s \in Searches
  /\ L \subseteq Listed(disk) /\ D \subseteq Known(L)
  /\ EachOnce(s.queue)
  /\ Waiting(s.queue) \subseteq Known(L) \ D
  /\ ~s.overrun => Known(L) = D \cup Waiting(s.queue)
  /\ PrintedAre(s.printed, ToPrint(L, r))

LEMMA OneMorePrinted ==
  ASSUME NEW P, NEW printed \in Seq(P), NEW p \in P, NEW S, PrintedAre(printed, S), p \notin S
  PROVE  PrintedAre(Append(printed, p), S \cup {p})
<1> DEFINE a == Append(printed, p)
           n == Len(printed)
<1>1. n \in Nat /\ DOMAIN printed = 1 .. n /\ DOMAIN a = 1 .. n + 1
  OBVIOUS
<1>2. a[n + 1] = p /\ \A i \in 1 .. n : a[i] = printed[i]
  OBVIOUS
<1> HIDE DEF a, n
<1>3. \A i \in 1 .. n + 1 : i \in 1 .. n \/ i = n + 1
  BY <1>1
<1>4. \A i \in 1 .. n : i \in 1 .. n + 1
  BY <1>1
<1>5. n + 1 \in 1 .. n + 1
  BY <1>1
<1>6. \A i \in 1 .. n : a[i] \in S
  BY <1>1, <1>2 DEF PrintedAre
<1>7. ASSUME NEW i \in 1 .. n + 1, NEW j \in 1 .. n + 1, a[i] = a[j]
      PROVE  i = j
  <2>1. CASE i \in 1 .. n /\ j \in 1 .. n
    BY <1>1, <1>2, <1>7, <2>1 DEF PrintedAre
  <2>2. CASE i = n + 1 \/ j = n + 1
    BY <1>2, <1>3, <1>6, <1>7, <2>2
  <2>3. QED
    BY <1>3, <2>1, <2>2
<1>8. {a[i] : i \in 1 .. n + 1} = {printed[i] : i \in 1 .. n} \cup {p}
  BY <1>2, <1>3, <1>4, <1>5
<1>9. QED
  BY <1>1, <1>7, <1>8 DEF PrintedAre, a

(* A folder that has not been looked at is not known yet: only one entry   *)
(* leads to it.                                                            *)
LEMMA NotKnownYet ==
  ASSUME DriverInv, TreeInv(disk), NEW L \in SUBSET Listed(disk),
         NEW p \in Listed(disk), p \notin L, At(disk, p).folder
  PROVE  At(disk, p).cluster \notin Known(L)
<1>1. DiskInv(disk)
  BY DEF DriverInv
<1>2. At(disk, p).cluster > 2 /\ At(disk, p).cluster \in Owned(disk, p)
  BY <1>1, OwnedFacts
<1>3. ASSUME NEW q \in L, At(disk, q).cluster = At(disk, p).cluster
      PROVE  FALSE
  <2>1. q \in Listed(disk) /\ q # p
    OBVIOUS
  <2>2. At(disk, q).cluster \in Owned(disk, q)
    BY <1>1, <2>1, OwnedFacts
  <2>3. QED
    BY <1>2, <1>3, <2>1, <2>2 DEF TreeInv, OwnersApart
<1>4. At(disk, p).cluster # 2
  BY <1>2
<1>5. QED
  BY <1>3, <1>4 DEF Known

LEMMA KnownGrows ==
  ASSUME NEW L, NEW p
  PROVE  Known(L \cup {p}) = IF At(disk, p).folder THEN Known(L) \cup {At(disk, p).cluster}
                             ELSE Known(L)
BY DEF Known

(* One entry more.                                                         *)
Seen(L, c, i) == IF Table(c)[i].used THEN L \cup {<<c, i>>} ELSE L

LEMMA LooksOn ==
  ASSUME DriverInv, TreeInv(disk), NEW c \in Folders(disk), NEW i \in Indices, i > 1,
         NEW s, NEW D, NEW L, NEW r, SearchInv(s, D, L, r), <<c, i>> \notin L
  PROVE  SearchInv(LookAt(s, c, i, r), D, Seen(L, c, i), r)
<1> DEFINE e == Table(c)[i]
           p == <<c, i>>
           t == LookAt(s, c, i, r)
           q == s.queue
<1>1. DiskInv(disk)
  BY DEF DriverInv
<1>2. s \in Searches /\ q \in Rings /\ s.printed \in Seq(Clusters \X Indices)
      /\ s.overrun \in BOOLEAN /\ c \in Clusters
  BY DEF SearchInv, Searches, Folders
<1>3. t \in Searches
  BY <1>2, LookTyped
<1>4. /\ t.queue = IF e.used /\ e.folder THEN enqueue(q, e.cluster) ELSE q
      /\ t.printed = IF e.used /\ IsPrinted(e, r) THEN Append(s.printed, p) ELSE s.printed
      /\ t.overrun <=> s.overrun \/ (e.used /\ e.folder /\ isFull(q))
  BY DEF LookAt, Searching
<1>5. CASE ~e.used
  <2>1. t.queue = q /\ t.printed = s.printed /\ (t.overrun <=> s.overrun)
    BY <1>4, <1>5
  <2>2. Seen(L, c, i) = L
    BY <1>5 DEF Seen
  <2> HIDE DEF t
  <2>3. SearchInv(t, D, L, r)
    BY <1>3, <2>1 DEF SearchInv
  <2>4. QED
    BY <2>2, <2>3 DEF t
<1>6. CASE e.used
  <2> DEFINE M == L \cup {p}
  <2>1. Seen(L, c, i) = M
    BY <1>6 DEF Seen
  <2>2. p \in Listed(disk) /\ At(disk, p) = e
    BY <1>6, ClusterBasics DEF Listed, At, Table
  <2>3. L \in SUBSET Listed(disk) /\ p \notin L
    BY DEF SearchInv
  <2>4. M \subseteq Listed(disk)
    BY <2>2, <2>3
  <2> HIDE DEF t, e, p, q
  <2>5. PrintedAre(t.printed, ToPrint(M, r))
    <3>1. CASE IsPrinted(e, r)
      <4>1. t.printed = Append(s.printed, p)
        BY <1>4, <1>6, <3>1
      <4>2. p \in Clusters \X Indices
        BY <1>2 DEF p
      <4>3. ToPrint(M, r) = ToPrint(L, r) \cup {p} /\ p \notin ToPrint(L, r)
        BY <2>2, <2>3, <3>1 DEF ToPrint
      <4>4. PrintedAre(s.printed, ToPrint(L, r))
        BY DEF SearchInv
      <4>5. PrintedAre(Append(s.printed, p), ToPrint(L, r) \cup {p})
        BY <1>2, <4>2, <4>3, <4>4, OneMorePrinted
      <4>6. QED
        BY <4>1, <4>3, <4>5
    <3>2. CASE ~IsPrinted(e, r)
      <4>1. t.printed = s.printed
        BY <1>4, <3>2
      <4>2. ToPrint(M, r) = ToPrint(L, r)
        BY <2>2, <3>2 DEF ToPrint
      <4>3. QED
        BY <4>1, <4>2 DEF SearchInv
    <3>3. QED
      BY <3>1, <3>2
  <2>6. Known(M) = IF e.folder THEN Known(L) \cup {e.cluster} ELSE Known(L)
    BY <2>2, KnownGrows
  <2>7. CASE ~e.folder
    <3>1. t.queue = q /\ (t.overrun <=> s.overrun) /\ Known(M) = Known(L)
      BY <1>4, <2>6, <2>7
    <3> HIDE DEF M
    <3>2. SearchInv(t, D, M, r)
      BY <1>3, <2>4, <2>5, <3>1 DEF SearchInv, q
    <3>3. QED
      BY <2>1, <3>2 DEF t
  <2>8. CASE e.folder
    <3>1. t.queue = enqueue(q, e.cluster) /\ (t.overrun <=> s.overrun \/ isFull(q))
      BY <1>4, <1>6, <2>8
    <3>2. Known(M) = Known(L) \cup {e.cluster}
      BY <2>6, <2>8
    <3>3. e.cluster \in Clusters
      BY <1>1, <2>2, OwnedFacts
    <3>4. e.cluster \notin Known(L)
      BY <2>2, <2>3, <2>8, NotKnownYet
    <3>5. EachOnce(q) /\ Waiting(q) \subseteq Known(L) \ D /\ D \subseteq Known(L)
          /\ (~s.overrun => Known(L) = D \cup Waiting(q))
      BY DEF SearchInv, q
    <3>6. e.cluster \notin Waiting(q) /\ e.cluster \notin D
      BY <3>4, <3>5
    <3>7. /\ EachOnce(t.queue)
          /\ Waiting(t.queue) = IF isFull(q) THEN {e.cluster} ELSE Waiting(q) \cup {e.cluster}
      BY <1>2, <3>1, <3>3, <3>5, <3>6, Enqueued
    <3> HIDE DEF M
    <3>8. D \subseteq Known(M) /\ Waiting(t.queue) \subseteq Known(M) \ D
      BY <3>2, <3>5, <3>6, <3>7
    <3>9. ~t.overrun => Known(M) = D \cup Waiting(t.queue)
      BY <3>1, <3>2, <3>5, <3>7
    <3>10. SearchInv(t, D, M, r)
      BY <1>3, <2>4, <2>5, <3>7, <3>8, <3>9 DEF SearchInv
    <3>11. QED
      BY <2>1, <3>10 DEF t
  <2>9. QED
    BY <2>7, <2>8
<1>7. QED
  BY <1>5, <1>6
-----------------------------------------------------------------------------
(* One folder, and then the whole search.                                  *)

(* The places of the folders D, and those of folder c up to entry i.       *)
PlacesOf(D) == {p \in Listed(disk) : p[1] \in D}
PlacesUpTo(D, c, i) == {p \in Listed(disk) : p[1] \in D \/ (p[1] = c /\ p[2] <= i)}

(* What is true between two folders.                                       *)
Between(s, D, r) == D \subseteq Folders(disk) /\ SearchInv(s, D, PlacesOf(D), r)

LEMMA KnownFolders ==
  ASSUME DriverInv, TreeInv(disk), NEW L \in SUBSET Listed(disk)
  PROVE  Known(L) \subseteq Folders(disk)
<1>1. 2 \in Folders(disk)
  BY TreeFacts DEF DriverInv
<1>2. \A p \in Listed(disk) : At(disk, p).folder => At(disk, p).cluster \in Folders(disk)
  BY DEF TreeInv, EntryIsWhole, FolderIsWhole
<1>3. QED
  BY <1>1, <1>2 DEF Known

LEMMA NextPlaces ==
  ASSUME DriverInv, TreeInv(disk), NEW D, NEW c \in Folders(disk), c \notin D,
         NEW i \in Indices, i > 1
  PROVE  /\ <<c, i>> \notin PlacesUpTo(D, c, i - 1)
         /\ Seen(PlacesUpTo(D, c, i - 1), c, i) = PlacesUpTo(D, c, i)
<1>1. i \in Nat /\ ~(i <= i - 1)
  BY ClusterBasics
<1>2. <<c, i>> \notin PlacesUpTo(D, c, i - 1)
  BY <1>1 DEF PlacesUpTo
<1>3. <<c, i>> \in Listed(disk) <=> Table(c)[i].used
  BY ClusterBasics DEF Listed, Table
<1>4. ASSUME NEW p \in Listed(disk)
      PROVE  p[2] \in Nat /\ p = <<p[1], p[2]>>
  <2>1. p[2] \in Indices /\ p = <<p[1], p[2]>>
    BY OwnedFacts DEF DriverInv
  <2>2. p[2] \in Nat
    BY <2>1, ClusterBasics
  <2>3. QED
    BY <2>1, <2>2
<1>5. \A n \in Nat : n <= i <=> n <= i - 1 \/ n = i
  BY <1>1
<1>6. ASSUME NEW p
      PROVE  p \in Seen(PlacesUpTo(D, c, i - 1), c, i) <=> p \in PlacesUpTo(D, c, i)
  <2>1. CASE p = <<c, i>>
    <3>1. p \in PlacesUpTo(D, c, i) <=> p \in Listed(disk)
      BY <1>1, <2>1 DEF PlacesUpTo
    <3>2. p \in Seen(PlacesUpTo(D, c, i - 1), c, i) <=> Table(c)[i].used
      BY <1>2, <2>1 DEF Seen
    <3>3. QED
      BY <1>3, <2>1, <3>1, <3>2
  <2>2. CASE p # <<c, i>>
    <3>1. p \in Seen(PlacesUpTo(D, c, i - 1), c, i) <=> p \in PlacesUpTo(D, c, i - 1)
      BY <2>2 DEF Seen
    <3>2. p \in PlacesUpTo(D, c, i - 1) <=> p \in PlacesUpTo(D, c, i)
      BY <1>4, <1>5, <2>2 DEF PlacesUpTo
    <3>3. QED
      BY <3>1, <3>2
  <2>3. QED
    BY <2>1, <2>2
<1>7. QED
  BY <1>2, <1>6

(* The folder is taken off the ring.                                       *)
LEMMA FolderBegins ==
  ASSUME DriverInv, TreeInv(disk), NEW s, NEW D, NEW r, Between(s, D, r),
         ~isEmpty(s.queue), NEW c, c = s.queue.buffer[s.queue.idxHead],
         NEW t, t = [s EXCEPT !.queue = dequeue(@)]
  PROVE  /\ c \in Folders(disk) /\ c \notin D
         /\ SearchInv(t, D \cup {c}, PlacesUpTo(D, c, 1), r)
<1> DEFINE q == s.queue
           L == PlacesOf(D)
<1>1. SearchInv(s, D, L, r)
  BY DEF Between
<1>2. s \in Searches /\ q \in Rings /\ EachOnce(q)
  BY <1>1 DEF SearchInv, Searches
<1>3. /\ dequeue(q) \in Rings /\ EachOnce(dequeue(q)) /\ c \in Clusters
      /\ c \in Waiting(q) /\ Waiting(dequeue(q)) = Waiting(q) \ {c}
  BY <1>2, Dequeued
<1>4. t.queue = dequeue(q) /\ t.printed = s.printed /\ t.overrun = s.overrun
      /\ t \in Searches
  BY <1>2, <1>3 DEF Searches
<1>5. L \in SUBSET Listed(disk)
  BY DEF PlacesOf
<1>6. c \in Known(L) /\ c \notin D
  BY <1>1, <1>3 DEF SearchInv
<1>7. c \in Folders(disk)
  BY <1>5, <1>6, KnownFolders
<1>8. PlacesUpTo(D, c, 1) = L
  <2>1. \A p \in Listed(disk) : ~(p[2] <= 1)
    BY ClusterBasics DEF Listed
  <2>2. QED
    BY <2>1 DEF PlacesUpTo, PlacesOf
<1> HIDE DEF q, L
<1>9. SearchInv(t, D \cup {c}, L, r)
  <2>1. D \cup {c} \subseteq Known(L)
    BY <1>1, <1>6 DEF SearchInv
  <2>2. Waiting(t.queue) \subseteq Known(L) \ (D \cup {c})
    BY <1>1, <1>3, <1>4 DEF SearchInv, q
  <2>3. ~t.overrun => Known(L) = (D \cup {c}) \cup Waiting(t.queue)
    BY <1>1, <1>3, <1>4 DEF SearchInv, q
  <2>4. L \subseteq Listed(disk) /\ PrintedAre(s.printed, ToPrint(L, r))
    BY <1>1 DEF SearchInv
  <2>5. QED
    BY <1>3, <1>4, <2>1, <2>2, <2>3, <2>4 DEF SearchInv
<1>10. QED
  BY <1>6, <1>7, <1>8, <1>9

(* And its entries are looked at.                                          *)
LEMMA FolderEnds ==
  ASSUME DriverInv, TreeInv(disk), NEW s, NEW D, NEW r, Between(s, D, r),
         ~isEmpty(s.queue)
  PROVE  \E c \in Folders(disk) \ D : Between(process_find(s, r), D \cup {c}, r)
<1> DEFINE c == s.queue.buffer[s.queue.idxHead]
           N == TOTAL_DIRECTORY_ENTRY - 2
           E == D \cup {c}
<1>1. s \in Searches
  BY DEF Between, SearchInv
<1>2. PICK up : Looking(up, s, c, r) /\ process_find(s, r) = up[N]
  BY <1>1, ProcessUnfolds
<1>3. up[0] = [s EXCEPT !.queue = dequeue(@)]
  BY <1>2 DEF Looking
<1>4. /\ c \in Folders(disk) /\ c \notin D
      /\ SearchInv(up[0], E, PlacesUpTo(D, c, 1), r)
  <2> HIDE DEF c
  <2>1. c = s.queue.buffer[s.queue.idxHead]
    BY DEF c
  <2>2. QED
    BY <1>3, <2>1, FolderBegins
<1> HIDE DEF c
<1> DEFINE S == {n \in 0 .. N : SearchInv(up[n], E, PlacesUpTo(D, c, n + 1), r)}
<1>5. N \in Nat /\ \A n \in 0 .. N - 1 : n + 2 \in Indices /\ n + 2 > 1
  BY ClusterBasics DEF Indices
<1>6. 0 \in S
  BY <1>4, <1>5
<1>7. ASSUME NEW n \in 0 .. N - 1, n \in S
      PROVE  n + 1 \in S
  <2> DEFINE i == n + 2
  <2>1. n + 1 \in 1 .. N /\ n + 1 \in 0 .. N /\ (n + 1) - 1 = n /\ (n + 1) + 1 = i
        /\ i - 1 = n + 1 /\ i \in Indices /\ i > 1
    BY <1>5
  <2>2. up[n + 1] = LookAt(up[n], c, i, r)
    BY <1>2, <2>1 DEF Looking
  <2> HIDE DEF i, N, E
  <2>3. SearchInv(up[n], E, PlacesUpTo(D, c, i - 1), r)
    BY <1>7, <2>1
  <2>4. /\ <<c, i>> \notin PlacesUpTo(D, c, i - 1)
        /\ Seen(PlacesUpTo(D, c, i - 1), c, i) = PlacesUpTo(D, c, i)
    BY <1>4, <2>1, NextPlaces
  <2>5. SearchInv(LookAt(up[n], c, i, r), E, Seen(PlacesUpTo(D, c, i - 1), c, i), r)
    BY <1>4, <2>1, <2>3, <2>4, LooksOn
  <2>6. QED
    BY <2>1, <2>2, <2>4, <2>5
<1>8. N \in S
  <2>1. 0 .. N \subseteq S
    <3> HIDE DEF S, N
    <3> QED
      BY <1>5, <1>6, <1>7, UpTo
  <2>2. N \in 0 .. N
    BY <1>5
  <2> HIDE DEF S, N
  <2>3. QED
    BY <2>1, <2>2
<1>9. PlacesUpTo(D, c, N + 1) = PlacesOf(E)
  <2>1. \A p \in Listed(disk) : p[2] <= N + 1
    BY ClusterBasics DEF Listed, Indices
  <2> HIDE DEF N
  <2>2. QED
    BY <2>1 DEF PlacesUpTo, PlacesOf
<1>10. Between(up[N], E, r)
  <2>1. E \subseteq Folders(disk)
    BY <1>4 DEF Between
  <2> HIDE DEF E
  <2>2. SearchInv(up[N], E, PlacesOf(E), r)
    BY <1>8, <1>9
  <2>3. QED
    BY <2>1, <2>2 DEF Between
<1>11. QED
  BY <1>2, <1>4, <1>10

LEMMA FindBegins ==
  ASSUME DriverInv, TreeInv(disk), NEW r, NEW s,
         s = Searching(enqueue(CreateQueue, 2), << >>, FALSE)
  PROVE  Between(s, {}, r) /\ Cardinality({}) = 0
<1>1. 2 \in Clusters
  BY ClusterBasics
<1> DEFINE e == enqueue(CreateQueue, 2)
<1>2. e \in Rings /\ EachOnce(e) /\ Waiting(e) = {2}
  BY <1>1, EmptyRing, Enqueued
<1> HIDE DEF e
<1>3. s.queue = e /\ s.printed = << >> /\ s.overrun = FALSE
  BY DEF Searching, e
<1>4. s \in Searches
  <2>1. << >> \in Seq(Clusters \X Indices)
    OBVIOUS
  <2>2. \A q \in Rings, p \in Seq(Clusters \X Indices), o \in BOOLEAN :
          Searching(q, p, o) \in Searches
    BY DEF Searching, Searches
  <2>3. s = Searching(e, << >>, FALSE)
    BY DEF e
  <2>4. QED
    BY <1>2, <2>1, <2>2, <2>3
<1>5. PlacesOf({}) = {} /\ Known({}) = {2} /\ ToPrint({}, r) = {}
  BY DEF PlacesOf, Known, ToPrint
<1>6. PrintedAre(s.printed, ToPrint({}, r))
  <2>1. PrintedAre(<< >>, {})
    BY DEF PrintedAre
  <2>2. QED
    BY <1>3, <1>5, <2>1
<1>7. SearchInv(s, {}, {}, r)
  BY <1>2, <1>3, <1>4, <1>5, <1>6 DEF SearchInv
<1>8. QED
  BY <1>5, <1>7, FS_EmptySet DEF Between

(* There are more rounds than folders, so the last one finds the search    *)
(* stopped.                                                                *)
LEMMA FindEnds ==
  ASSUME DriverInv, TreeInv(disk), NEW r
  PROVE  \E D : Between(find(r), D, r) /\ Stopped(find(r))
<1> DEFINE N == CLUSTER_MAP_SIZE
           Fine(s, n) == \E D : Between(s, D, r) /\ (Stopped(s) \/ Cardinality(D) = n)
<1>1. N \in Nat /\ N > 2
  BY ClusterBasics
<1>2. PICK at : Finding(at, r) /\ find(r) = at[N]
  BY FindUnfolds
<1> DEFINE S == {n \in 0 .. N : Fine(at[n], n)}
<1>3. ASSUME NEW D, D \subseteq Folders(disk)
      PROVE  IsFiniteSet(D) /\ Cardinality(D) \in Nat /\ Cardinality(D) < N
  <2>1. D \in SUBSET (2 .. N - 1)
    <3>1. \A c \in Folders(disk) : c \in Nat /\ c > 1 /\ c \in Clusters
      BY TreeFacts DEF DriverInv
    <3>2. QED
      BY <1>1, <1>3, <3>1 DEF Clusters
  <2>2. IsFiniteSet(2 .. N - 1) /\ Cardinality(2 .. N - 1) = N - 2
    <3>1. 2 \in Int /\ N - 1 \in Int /\ ~(2 > N - 1) /\ (N - 1) - 2 + 1 = N - 2
      BY <1>1
    <3> HIDE DEF N
    <3>2. QED
      BY <3>1, FS_Interval
  <2> HIDE DEF N
  <2>3. IsFiniteSet(D) /\ Cardinality(D) <= N - 2
    BY <2>1, <2>2, FS_Subset
  <2>4. Cardinality(D) \in Nat
    BY <2>3, FS_CardinalityType
  <2>5. QED
    BY <1>1, <2>3, <2>4
<1>4. 0 \in S
  <2>1. Fine(at[0], 0)
    <3>1. at[0] = Searching(enqueue(CreateQueue, 2), << >>, FALSE)
      BY <1>2 DEF Finding
    <3>2. Between(at[0], {}, r) /\ Cardinality({}) = 0
      BY <3>1, FindBegins
    <3>3. QED
      BY <3>2
  <2> HIDE DEF Fine
  <2>2. QED
    BY <1>1, <2>1
<1>5. ASSUME NEW n \in 0 .. N - 1, n \in S
      PROVE  n + 1 \in S
  <2>1. n + 1 \in 1 .. N /\ n + 1 \in 0 .. N /\ (n + 1) - 1 = n
    BY <1>1
  <2>2. at[n + 1] = IF Stopped(at[n]) THEN at[n] ELSE process_find(at[n], r)
    BY <1>2, <2>1 DEF Finding
  <2>3. PICK D : Between(at[n], D, r) /\ (Stopped(at[n]) \/ Cardinality(D) = n)
    BY <1>5
  <2>4. Fine(at[n + 1], n + 1)
    <3>1. CASE Stopped(at[n])
      BY <2>2, <2>3, <3>1
    <3>2. CASE ~Stopped(at[n])
      <4>1. ~isEmpty(at[n].queue) /\ at[n + 1] = process_find(at[n], r)
        BY <2>2, <3>2 DEF Stopped
      <4>2. PICK c \in Folders(disk) \ D : Between(at[n + 1], D \cup {c}, r)
        BY <2>3, <4>1, FolderEnds
      <4>3. IsFiniteSet(D)
        BY <1>3, <2>3 DEF Between
      <4>4. Cardinality(D \cup {c}) = n + 1
        BY <2>3, <3>2, <4>2, <4>3, FS_AddElement
      <4>5. QED
        BY <4>2, <4>4
    <3>3. QED
      BY <3>1, <3>2
  <2> HIDE DEF Fine
  <2>5. QED
    BY <2>1, <2>4
<1>6. N \in S
  <2>1. 0 .. N \subseteq S
    <3> HIDE DEF S, N
    <3> QED
      BY <1>1, <1>4, <1>5, UpTo
  <2>2. N \in 0 .. N
    BY <1>1
  <2> HIDE DEF S, N
  <2>3. QED
    BY <2>1, <2>2
<1>7. PICK D : Between(at[N], D, r) /\ (Stopped(at[N]) \/ Cardinality(D) = N)
  BY <1>6
<1>8. D \subseteq Folders(disk)
  BY <1>7 DEF Between
<1>9. Cardinality(D) # N
  <2>1. Cardinality(D) \in Nat /\ Cardinality(D) < N
    BY <1>3, <1>8
  <2> HIDE DEF N
  <2>2. QED
    BY <1>1, <2>1
<1>10. QED
  BY <1>2, <1>7, <1>9

(* When nothing waits and the ring never ran over, every folder was        *)
(* looked at, for what is known is closed.                                 *)
LEMMA AllSearched ==
  ASSUME DriverInv, TreeInv(disk), NEW s, NEW D, NEW r, Between(s, D, r),
         isEmpty(s.queue), ~s.overrun
  PROVE  PlacesOf(D) = Listed(disk)
<1>1. s.queue \in Rings
  BY DEF Between, SearchInv, Searches
<1>2. Known(PlacesOf(D)) = D
  BY <1>1, NothingWaits DEF Between, SearchInv
<1>3. 2 \in D /\ Closed(disk, D)
  BY <1>2 DEF Known, Closed, PlacesOf
<1>4. D \in SUBSET Clusters
  BY DEF Between, Folders
<1>5. Folders(disk) \subseteq D
  BY <1>3, <1>4 DEF TreeInv, FoldersAreReached
<1>6. \A p \in Listed(disk) : p[1] \in Folders(disk)
  BY DEF Listed
<1>7. QED
  BY <1>5, <1>6 DEF PlacesOf

LEMMA PrintedOnce ==
  ASSUME NEW P, NEW printed \in Seq(P), NEW S, PrintedAre(printed, S)
  PROVE  Cardinality({printed[i] : i \in DOMAIN printed}) = Len(printed)
<1> DEFINE n == Len(printed)
           T == {printed[i] : i \in DOMAIN printed}
           f == [i \in 1 .. n |-> printed[i]]
<1>1. n \in Nat /\ DOMAIN printed = 1 .. n
  OBVIOUS
<1> HIDE DEF n
<1>2. IsFiniteSet(1 .. n) /\ Cardinality(1 .. n) = n
  <2>1. 1 \in Int /\ n \in Int /\ (IF 1 > n THEN 0 ELSE n - 1 + 1) = n
    BY <1>1
  <2>2. QED
    BY <2>1, FS_Interval
<1>3. f \in Injection(1 .. n, T)
  BY <1>1 DEF Injection, IsInjective, PrintedAre
<1>4. f \in Surjection(1 .. n, T)
  BY <1>1 DEF Surjection
<1> HIDE DEF f, T
<1>5. Cardinality(T) = n
  BY <1>2, <1>3, <1>4, FS_Surjection
<1>6. QED
  BY <1>5 DEF n, T

LEMMA FindShows ==
  ASSUME DriverInv, WholeInv
  PROVE  FindShowsEveryMatch
<1> SUFFICES ASSUME power = "on", crashes = 0, NEW name \in Names, NEW ext \in Extensions
             PROVE  LET r == [name |-> name, padded |-> TRUE, ext |-> ext]
                        s == find(r)
                        printed == {s.printed[i] : i \in DOMAIN s.printed}
                        matching == {p \in Places : IsPrinted(EntryAt(p), r)}
                    IN /\ Len(s.printed) = Cardinality(printed)
                       /\ printed \subseteq matching
                       /\ \/ s.overrun
                          \/ isFull(s.queue)
                          \/ isEmpty(s.queue) /\ printed = matching
  BY DEF FindShowsEveryMatch
<1> DEFINE r == [name |-> name, padded |-> TRUE, ext |-> ext]
           s == find(r)
           printed == {s.printed[i] : i \in DOMAIN s.printed}
           matching == {p \in Places : IsPrinted(EntryAt(p), r)}
<1> HIDE DEF r
<1>1. TreeInv(disk) /\ Formatted
  BY WholeWhenOn
<1>2. PICK D : Between(s, D, r) /\ Stopped(s)
  BY <1>1, FindEnds
<1> HIDE DEF s
<1>3. s \in Searches /\ PrintedAre(s.printed, ToPrint(PlacesOf(D), r))
  BY <1>2 DEF Between, SearchInv
<1>4. matching = ToPrint(Listed(disk), r)
  BY <1>1, FoldersAreFound DEF ToPrint
<1>5. printed = ToPrint(PlacesOf(D), r)
  BY <1>3 DEF PrintedAre
<1>6. PlacesOf(D) \subseteq Listed(disk)
  BY DEF PlacesOf
<1>7. printed \subseteq matching
  BY <1>4, <1>5, <1>6 DEF ToPrint
<1>8. Len(s.printed) = Cardinality(printed)
  BY <1>3, PrintedOnce DEF Searches
<1>9. isEmpty(s.queue) /\ ~s.overrun => printed = matching
  BY <1>1, <1>2, <1>4, <1>5, AllSearched
<1>10. QED
  <2> HIDE DEF printed, matching
  <2>1. \/ s.overrun
        \/ isFull(s.queue)
        \/ isEmpty(s.queue) /\ printed = matching
    BY <1>2, <1>9 DEF Stopped
  <2>2. QED
    BY <1>7, <1>8, <2>1 DEF printed, matching, s, r

(* find.c: the search prints each file and folder of the name once and     *)
(* nothing else, and all of them in the whole tree if it comes to its end  *)
(* without filling the ring, for every tree that requests can make, every  *)
(* size of the ring and every name: it goes over every folder once.        *)
THEOREM FindIsComplete == Spec => []FindShowsEveryMatch
<1>1. Spec => [](DriverInv /\ WholeInv)
  BY TreeStaysWhole
<1>2. DriverInv /\ WholeInv => FindShowsEveryMatch
  BY FindShows
<1>3. QED
  BY <1>1, <1>2, PTL
=============================================================================
