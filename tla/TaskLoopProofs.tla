---------------------------- MODULE TaskLoopProofs ----------------------------
(***************************************************************************)
(* The tasks of a client's loop, for any number of tasks, of functions and *)
(* of slots in the queue: the right task is woken up, and each ends once.  *)
(*                                                                         *)
(* Ids are handed out in increasing order and never again, so a cookie     *)
(* that is left over leads nowhere.  The list only ever shrinks but for    *)
(* the task that enters it, so what it says of tasks is kept by every      *)
(* removal, the one too many of dicey_task_list_prune included.            *)
(***************************************************************************)
EXTENDS TaskLoop, SequenceTheorems, TLAPS

TaskEntry == [id : Nat, task : Tasks]

\* A list whose ids were handed out before n.
ListOK(L, n) ==
    /\ L \in Seq(TaskEntry)
    /\ \A i \in DOMAIN L : L[i].id < n
    /\ \A i, j \in DOMAIN L : L[i].id = L[j].id => i = j
    /\ \A i, j \in DOMAIN L : L[i].task = L[j].task => i = j

\* A cookie leads to the task that it is for, or to none.
Cookie(c, L, n) == c \in TaskEntry /\ c.id < n /\ \A x \in ToSet(L) : x.id = c.id => x = c

-----------------------------------------------------------------------------
LEMMA RemoveAtIs ==
    ASSUME NEW S, NEW L \in Seq(S), NEW i \in 1 .. Len(L)
    PROVE  /\ RemoveAt(L, i) \in Seq(S)
           /\ Len(RemoveAt(L, i)) = Len(L) - 1
           /\ \A k \in 1 .. Len(L) - 1 : RemoveAt(L, i)[k] = IF k < i THEN L[k] ELSE L[k + 1]
  <1>. DEFINE A == SubSeq(L, 1, i - 1)
              B == SubSeq(L, i + 1, Len(L))
  <1>1. /\ A \in Seq(S) /\ Len(A) = i - 1
        /\ \A k \in 1 .. i - 1 : A[k] = L[k]
    OBVIOUS
  <1>2. /\ B \in Seq(S) /\ Len(B) = Len(L) - i
        /\ \A k \in 1 .. Len(L) - i : B[k] = L[i + k]
    OBVIOUS
  <1>. HIDE DEF A, B
  <1>3. /\ A \o B \in Seq(S)
        /\ Len(A \o B) = Len(L) - 1
        /\ \A k \in 1 .. Len(L) - 1 : (A \o B)[k] = IF k <= Len(A) THEN A[k] ELSE B[k - Len(A)]
    <2>1. Len(A) + Len(B) = Len(L) - 1
      BY <1>1, <1>2
    <2>2. A \in Seq(S) /\ B \in Seq(S)
      BY Zenon, <1>1, <1>2
    <2>3. /\ A \o B \in Seq(S)
          /\ Len(A \o B) = Len(A) + Len(B)
          /\ \A k \in 1 .. Len(A) + Len(B) : (A \o B)[k] = IF k <= Len(A) THEN A[k] ELSE B[k - Len(A)]
      BY <2>2, ConcatProperties, Zenon
    <2>. QED  BY <2>1, <2>3, Zenon
  <1>4. ASSUME NEW k \in 1 .. Len(L) - 1
        PROVE  (A \o B)[k] = IF k < i THEN L[k] ELSE L[k + 1]
    <2>1. CASE k < i
      BY <1>1, <1>3, <2>1
    <2>2. CASE ~(k < i)
      <3>1. k - Len(A) \in 1 .. Len(L) - i /\ i + (k - Len(A)) = k + 1
        BY <1>1, <2>2
      <3>. QED  BY <1>1, <1>2, <1>3, <2>2, <3>1
    <2>. QED  BY Zenon, <2>1, <2>2
  <1>. QED  BY Zenon, <1>3, <1>4 DEF RemoveAt, A, B

\* An entry that is taken out is gone, and the others stay in their order.
LEMMA EraseAtKeeps ==
    ASSUME NEW n \in Nat, NEW L, ListOK(L, n), NEW i \in Nat \ {0}
    PROVE  /\ ListOK(erase_at(L, i), n)
           /\ ToSet(erase_at(L, i)) \subseteq ToSet(L)
           /\ i \in DOMAIN L => L[i] \notin ToSet(erase_at(L, i))
  <1>0. L \in Seq(TaskEntry) /\ DOMAIN L = 1 .. Len(L)
    BY DEF ListOK
  <1>1. CASE i > Len(L)
    BY <1>0, <1>1 DEF erase_at
  <1>2. CASE ~(i > Len(L))
    <2>. DEFINE M == erase_at(L, i)
                at(k) == IF k < i THEN k ELSE k + 1
    <2>0. i \in 1 .. Len(L) /\ Len(L) \in Nat
      BY <1>0, <1>2
    <2>1. /\ M \in Seq(TaskEntry) /\ DOMAIN M = 1 .. Len(L) - 1
          /\ \A k \in DOMAIN M : M[k] = L[at(k)]
      BY <1>0, <1>2, <2>0, RemoveAtIs DEF erase_at
    <2>2. /\ \A k \in DOMAIN M : at(k) \in DOMAIN L /\ at(k) /= i
          /\ \A j, k \in DOMAIN M : at(j) = at(k) => j = k
      BY <1>0, <2>0, <2>1
    <2>. HIDE DEF M, at
    <2>3. ListOK(M, n)
      BY <2>1, <2>2 DEF ListOK
    <2>4. ToSet(M) \subseteq ToSet(L)
      BY Zenon, <2>1, <2>2 DEF ToSet
    <2>5. L[i] \notin ToSet(M)
      <3>1. ASSUME NEW k \in DOMAIN M, M[k] = L[i]
            PROVE  FALSE
        BY Zenon, <1>0, <2>0, <2>1, <2>2, <3>1 DEF ListOK
      <3>. QED  BY Zenon, <3>1 DEF ToSet
    <2>. QED  BY Zenon, <2>3, <2>4, <2>5 DEF M
  <1>. QED  BY Zenon, <1>1, <1>2

LEMMA EraseKeeps ==
    ASSUME NEW n \in Nat, NEW L, ListOK(L, n), NEW id
    PROVE  /\ ListOK(erase(L, id), n)
           /\ ToSet(erase(L, id)) \subseteq ToSet(L)
           /\ \A x \in ToSet(erase(L, id)) : x.id /= id
  <1>0. L \in Seq(TaskEntry) /\ DOMAIN L = 1 .. Len(L) /\ Len(L) \in Nat
    BY DEF ListOK
  <1>1. CASE find_index(L, id) = {}
    BY Zenon, <1>0, <1>1 DEF erase, find_index, ToSet
  <1>2. ASSUME NEW i \in find_index(L, id)
        PROVE  find_index(L, id) = {i}
    BY Zenon, <1>0, <1>2 DEF find_index, ListOK
  <1>3. CASE find_index(L, id) /= {}
    <2>1. PICK i \in 1 .. Len(L) : find_index(L, id) = {i} /\ L[i].id = id
      BY Zenon, <1>2, <1>3 DEF find_index
    <2>2. Min({i}) = i
      BY DEF Min
    <2>3. erase(L, id) = erase_at(L, i)
      BY Zenon, <1>3, <2>1, <2>2 DEF erase
    <2>4. \A x \in ToSet(L) : x.id = id => x = L[i]
      BY Zenon, <1>0, <2>1 DEF ToSet, ListOK
    <2>. QED  BY <1>0, <2>1, <2>3, <2>4, EraseAtKeeps
  <1>. QED  BY Zenon, <1>1, <1>3

LEMMA AppendKeeps ==
    ASSUME NEW n \in Nat, NEW L, ListOK(L, n),
           NEW t \in Tasks, \A x \in ToSet(L) : x.task /= t
    PROVE  LET e == [id |-> n, task |-> t]
           IN  /\ ListOK(Append(L, e), n + 1)
               /\ ToSet(Append(L, e)) = ToSet(L) \cup {e}
  <1>. DEFINE e == [id |-> n, task |-> t]
              M == Append(L, e)
  <1>0. L \in Seq(TaskEntry) /\ DOMAIN L = 1 .. Len(L) /\ Len(L) \in Nat
    BY DEF ListOK
  <1>1. e \in TaskEntry /\ e.id = n /\ e.task = t
    BY Zenon DEF TaskEntry
  <1>. HIDE DEF e
  <1>2. /\ M \in Seq(TaskEntry) /\ DOMAIN M = 1 .. Len(L) + 1
        /\ \A i \in DOMAIN L : M[i] = L[i]
        /\ M[Len(L) + 1] = e
    BY <1>0, <1>1
  <1>3. \A i \in DOMAIN M : i \in DOMAIN L \/ i = Len(L) + 1
    BY <1>0, <1>2
  <1>. HIDE DEF M
  <1>4. \A i \in DOMAIN L : i \in DOMAIN M /\ L[i].id < n /\ L[i].id \in Nat /\ L[i].task /= t
    <2>1. \A i \in DOMAIN L : L[i] \in TaskEntry /\ L[i] \in ToSet(L) /\ i \in DOMAIN M
      BY <1>0, <1>2 DEF ToSet
    <2>. QED  BY Zenon, <2>1 DEF ListOK, TaskEntry
  <1>5. ListOK(M, n + 1)
    BY <1>0, <1>1, <1>2, <1>3, <1>4 DEF ListOK
  <1>6. ToSet(M) = ToSet(L) \cup {e}
    BY <1>0, <1>2, <1>3 DEF ToSet
  <1>. QED  BY Zenon, <1>5, <1>6 DEF M, e

-----------------------------------------------------------------------------
\* What a task is worth at a time: it was not ended yet.
Pending(L, E) == \A x \in ToSet(L) : E[x.task] = 0

Counts(E) == E \in [Tasks -> {0, 1}]

\* step_task leaves the task in the list, with a cookie for it, or takes it out.
LEMMA StepTask ==
    ASSUME NEW n \in Nat, NEW L, ListOK(L, n), NEW e \in ToSet(L), NEW F, NEW W,
           \A c \in F \cup W \cup waiting : Cookie(c, L, n),
           Counts(ends), Pending(L, ends),
           step_task(e, L, F, W)
    PROVE  /\ ListOK(list', n)
           /\ ToSet(list') \subseteq ToSet(L)
           /\ \A c \in ops' \cup waiting' : Cookie(c, list', n)
           /\ Counts(ends') /\ Pending(list', ends')
           /\ \A t \in Tasks : t /= e.task => ends'[t] = ends[t]
  <1>0. e \in TaskEntry /\ e.id < n /\ Cookie(e, L, n) /\ e.task \in Tasks
    <2>1. PICK i \in DOMAIN L : e = L[i]
      BY Zenon DEF ToSet
    <2>2. e \in TaskEntry /\ e.id < n
      BY <2>1 DEF ListOK
    <2>3. \A x \in ToSet(L) : x.id = e.id => x = e
      BY Zenon, <2>1 DEF ToSet, ListOK
    <2>. QED  BY Zenon, <2>2, <2>3 DEF Cookie, TaskEntry
  <1>1. ASSUME list' = L, ops' \cup waiting' \subseteq F \cup W \cup {e}, UNCHANGED ends
        PROVE  /\ ListOK(list', n)
               /\ ToSet(list') \subseteq ToSet(L)
               /\ \A c \in ops' \cup waiting' : Cookie(c, list', n)
               /\ Counts(ends') /\ Pending(list', ends')
               /\ \A t \in Tasks : t /= e.task => ends'[t] = ends[t]
    BY Zenon, <1>0, <1>1
  <1>2. CASE complete_task(e, L) /\ ops' = F
    <2>1. list' = erase(L, e.id) /\ waiting' = waiting \ {e}
      BY Zenon, <1>2 DEF complete_task
    <2>2. ListOK(list', n) /\ ToSet(list') \subseteq ToSet(L) /\ \A x \in ToSet(list') : x.id /= e.id
      BY Zenon, <2>1, EraseKeeps
    <2>3. \A c \in ops' \cup waiting' : Cookie(c, list', n)
      BY Zenon, <1>2, <2>1, <2>2 DEF Cookie
    <2>4. ends' = [ends EXCEPT ![e.task] = 1]
      <3>1. ends[e.task] + 1 = 1
        BY DEF Pending
      <3>. QED  BY <1>2, <3>1, Zenon DEF complete_task
    <2>5. Counts(ends') /\ \A t \in Tasks : t /= e.task => ends'[t] = ends[t]
      BY Zenon, <1>0, <2>4 DEF Counts
    <2>6. \A x \in ToSet(L) : x.task \in Tasks /\ (x.task = e.task => x = e)
      <3>1. PICK i \in DOMAIN L : e = L[i]
        BY Zenon DEF ToSet
      <3>2. ASSUME NEW x \in ToSet(L)
            PROVE  x.task \in Tasks /\ (x.task = e.task => x = e)
        <4>1. PICK j \in DOMAIN L : x = L[j]
          BY Zenon DEF ToSet
        <4>2. x \in TaskEntry
          BY <4>1 DEF ListOK
        <4>. QED  BY Zenon, <3>1, <4>1, <4>2 DEF ListOK, TaskEntry
      <3>. QED  BY Zenon, <3>2
    <2>7. Pending(list', ends')
      BY Zenon, <2>2, <2>5, <2>6 DEF Pending
    <2>. QED  BY Zenon, <2>2, <2>3, <2>5, <2>7
  <1>3. CASE list' = erase(L, e.id) /\ ops' = F /\ waiting' = W /\ UNCHANGED ends
    <2>1. ListOK(list', n) /\ ToSet(list') \subseteq ToSet(L)
      BY Zenon, <1>3, EraseKeeps
    <2>2. \A c \in ops' \cup waiting' : Cookie(c, list', n)
      BY Zenon, <1>3, <2>1 DEF Cookie
    <2>. QED  BY Zenon, <1>3, <2>1, <2>2 DEF Pending
  <1>. QED  BY Zenon, <1>1, <1>2, <1>3 DEF step_task

-----------------------------------------------------------------------------
\* The inductive invariant.
Distinct(Q) == \A i, j \in DOMAIN Q : Q[i] = Q[j] => i = j

Apart(Q, L) == \A t \in ToSet(Q) : \A x \in ToSet(L) : x.task /= t

TInv ==
    /\ next_id \in Nat
    /\ ListOK(list, next_id)
    /\ \A c \in ops \cup waiting : Cookie(c, list, next_id)
    /\ Counts(ends) /\ Pending(list, ends)
    /\ queue \in Seq(Tasks) /\ Distinct(queue) /\ Apart(queue, list)
    /\ \A t \in ToSet(queue) : ends[t] = 0
    /\ \A t \in Tasks \ submitted :
        ends[t] = 0 /\ t \notin ToSet(queue) /\ \A x \in ToSet(list) : x.task /= t

LEMMA EmptySequence == \A S : <<>> \in Seq(S) /\ DOMAIN <<>> = {}
  OBVIOUS

LEMMA InitTInv == Init => TInv
  <1>1. Init => /\ next_id = 0 /\ list = <<>> /\ ops = {} /\ waiting = {} /\ queue = <<>>
                /\ ends = [t \in Tasks |-> 0]
    BY Zenon DEF Init
  <1>. QED  BY <1>1, EmptySequence DEF TInv, ListOK, Counts, Pending, Distinct, Apart, ToSet

\* A step that leaves the queue and submits nothing.
LEMMA ListShrinks ==
    ASSUME TInv, UNCHANGED <<next_id, queue, submitted>>,
           ListOK(list', next_id),
           ToSet(list') \subseteq ToSet(list),
           \A c \in ops' \cup waiting' : Cookie(c, list', next_id),
           Counts(ends'), Pending(list', ends'),
           \A t \in Tasks : ends'[t] /= ends[t] => \E x \in ToSet(list) : x.task = t
    PROVE  TInv'
  <1>1. queue \in Seq(Tasks) /\ \A t \in ToSet(queue) : t \in Tasks
    BY DEF TInv, ToSet
  <1>2. \A t \in ToSet(queue) : ends'[t] = 0
    BY Zenon, <1>1 DEF TInv, Apart
  <1>3. Apart(queue, list')
    BY Zenon DEF TInv, Apart
  <1>4. \A t \in Tasks \ submitted :
            ends'[t] = 0 /\ t \notin ToSet(queue) /\ \A x \in ToSet(list') : x.task /= t
    BY Zenon DEF TInv
  <1>. QED  BY Zenon, <1>2, <1>3, <1>4 DEF TInv

\* dicey_task_loop_advance.
LEMMA AdvanceKeeps ==
    ASSUME TInv, NEW id, NEW F \in SUBSET ops, NEW W \in SUBSET waiting, advance(id, F, W),
           UNCHANGED <<next_id, queue, submitted>>
    PROVE  TInv'
  <1>0. /\ next_id \in Nat /\ ListOK(list, next_id)
        /\ \A c \in F \cup W \cup waiting : Cookie(c, list, next_id)
        /\ \A c \in ops \cup waiting : Cookie(c, list, next_id)
        /\ Counts(ends) /\ Pending(list, ends)
    BY Zenon DEF TInv
  <1>1. CASE find(id) = {}
    <2>1. ops' = F /\ waiting' = W /\ UNCHANGED <<list, ends>>
      BY Zenon, <1>1 DEF advance
    <2>. QED  BY Zenon, <1>0, <2>1, ListShrinks
  <1>2. ASSUME NEW e \in find(id), step_task(e, list, F, W)
        PROVE  TInv'
    <2>1. e \in ToSet(list)
      BY Zenon DEF find
    <2>2. /\ ListOK(list', next_id)
          /\ ToSet(list') \subseteq ToSet(list)
          /\ \A c \in ops' \cup waiting' : Cookie(c, list', next_id)
          /\ Counts(ends') /\ Pending(list', ends')
          /\ \A t \in Tasks : t /= e.task => ends'[t] = ends[t]
      BY Zenon, <1>0, <1>2, <2>1, StepTask
    <2>. QED  BY Zenon, <2>1, <2>2, ListShrinks
  <1>. QED  BY Zenon, <1>1, <1>2 DEF advance

\* The head of the queue enters the list.
LEMMA ProcessKeeps ==
    ASSUME TInv, process_task
    PROVE  TInv'
  <1>. DEFINE t == Head(queue)
              e == [id |-> next_id, task |-> t]
              L == Append(list, e)
  <1>0. /\ next_id \in Nat /\ ListOK(list, next_id) /\ queue \in Seq(Tasks)
        /\ \A c \in ops \cup waiting : Cookie(c, list, next_id)
        /\ Counts(ends) /\ Pending(list, ends)
    BY Zenon DEF TInv
  <1>1. /\ queue /= <<>> /\ queue' = Tail(queue) /\ next_id' = next_id + 1
        /\ step_task(e, L, ops, waiting) /\ UNCHANGED submitted
    BY Zenon DEF process_task, new_id
  <1>2. /\ t \in Tasks /\ t \in ToSet(queue)
        /\ queue' \in Seq(Tasks) /\ Distinct(queue')
        /\ \A u \in ToSet(queue') : u \in ToSet(queue) /\ u /= t
    <2>1. /\ t = queue[1] /\ 1 \in DOMAIN queue
          /\ queue' \in Seq(Tasks)
          /\ \A i \in DOMAIN queue' : i + 1 \in DOMAIN queue /\ i + 1 /= 1 /\ queue'[i] = queue[i + 1]
          /\ \A i, j \in DOMAIN queue' : i + 1 = j + 1 => i = j
      BY <1>0, <1>1
    <2>2. Distinct(queue)
      BY Zenon DEF TInv
    <2>3. t \in Tasks /\ t \in ToSet(queue)
      BY <1>0, <2>1 DEF ToSet
    <2>4. Distinct(queue')
      BY <2>1, <2>2 DEF Distinct
    <2>5. \A u \in ToSet(queue') : u \in ToSet(queue) /\ u /= t
      BY <2>1, <2>2 DEF Distinct, ToSet
    <2>. QED  BY Zenon, <2>1, <2>3, <2>4, <2>5
  <1>3. /\ ends[t] = 0 /\ \A x \in ToSet(list) : x.task /= t
        /\ t \in submitted
    BY Zenon, <1>2 DEF TInv, Apart
  <1>. HIDE DEF t
  <1>4. /\ ListOK(L, next_id + 1) /\ ToSet(L) = ToSet(list) \cup {e} /\ next_id + 1 \in Nat
        /\ e.task = t /\ e.id = next_id
    BY <1>0, <1>2, <1>3, AppendKeeps
  <1>. HIDE DEF e, L
  <1>5. \A c \in ops \cup waiting \cup waiting : Cookie(c, L, next_id + 1)
    BY <1>0, <1>4 DEF Cookie, TaskEntry
  <1>6. Pending(L, ends)
    BY Zenon, <1>0, <1>3, <1>4 DEF Pending
  <1>7. /\ ListOK(list', next_id + 1)
        /\ ToSet(list') \subseteq ToSet(L)
        /\ \A c \in ops' \cup waiting' : Cookie(c, list', next_id + 1)
        /\ Counts(ends') /\ Pending(list', ends')
        /\ \A u \in Tasks : u /= t => ends'[u] = ends[u]
    BY <1>0, <1>1, <1>4, <1>5, <1>6, StepTask
  <1>8. \A u \in ToSet(queue) : u \in Tasks
    BY <1>0 DEF ToSet
  <1>9. \A u \in ToSet(queue') : ends'[u] = 0
    BY Zenon, <1>2, <1>7, <1>8 DEF TInv
  <1>10. Apart(queue', list')
    BY Zenon, <1>2, <1>4, <1>7 DEF TInv, Apart
  <1>11. \A u \in Tasks \ submitted :
            ends'[u] = 0 /\ u \notin ToSet(queue') /\ \A x \in ToSet(list') : x.task /= u
    BY Zenon, <1>2, <1>3, <1>4, <1>7 DEF TInv
  <1>. QED  BY Zenon, <1>1, <1>2, <1>4, <1>7, <1>9, <1>10, <1>11 DEF TInv

\* A timeout, with the second removal that follows it.
LEMMA TimeoutKeeps ==
    ASSUME TInv, NEW i \in 1 .. Len(list), check_timeout(i)
    PROVE  TInv'
  <1>. DEFINE e == list[i]
              M == erase(list, e.id)
  <1>0. /\ next_id \in Nat /\ ListOK(list, next_id)
        /\ \A c \in ops \cup waiting : Cookie(c, list, next_id)
        /\ Counts(ends) /\ Pending(list, ends)
    BY Zenon DEF TInv
  <1>1. /\ list' = erase_at(M, i) /\ waiting' = waiting \ {e} /\ ops' = ops
        /\ ends' = [ends EXCEPT ![e.task] = ends[e.task] + 1]
        /\ UNCHANGED <<next_id, queue, submitted>>
    BY Zenon DEF check_timeout, loopVars
  <1>2. i \in Nat \ {0} /\ i \in DOMAIN list /\ e \in TaskEntry /\ e \in ToSet(list)
    BY <1>0 DEF ListOK, ToSet
  <1>3. ListOK(M, next_id) /\ ToSet(M) \subseteq ToSet(list) /\ \A x \in ToSet(M) : x.id /= e.id
    BY Zenon, <1>0, EraseKeeps
  <1>. HIDE DEF M
  <1>4. ListOK(list', next_id) /\ ToSet(list') \subseteq ToSet(M)
    BY Zenon, <1>0, <1>1, <1>2, <1>3, EraseAtKeeps
  <1>5. \A c \in ops' \cup waiting' : Cookie(c, list', next_id)
    BY Zenon, <1>0, <1>1, <1>3, <1>4 DEF Cookie
  <1>6. ends[e.task] = 0 /\ e.task \in Tasks
    BY Zenon, <1>0, <1>2 DEF Pending, TaskEntry
  <1>7. Counts(ends') /\ \A t \in Tasks : t /= e.task => ends'[t] = ends[t]
    BY <1>0, <1>1, <1>6 DEF Counts
  <1>8. \A x \in ToSet(list') : x.task \in Tasks /\ x.task /= e.task /\ x \in ToSet(list)
    <2>1. ASSUME NEW x \in ToSet(list')
          PROVE  x.task \in Tasks /\ x.task /= e.task /\ x \in ToSet(list)
      <3>1. x \in ToSet(list) /\ x.id /= e.id
        BY Zenon, <1>3, <1>4
      <3>2. PICK j \in DOMAIN list : x = list[j]
        BY Zenon, <3>1 DEF ToSet
      <3>3. x \in TaskEntry
        BY <1>0, <3>2 DEF ListOK
      <3>. QED  BY Zenon, <1>0, <1>2, <3>1, <3>2, <3>3 DEF ListOK, TaskEntry
    <2>. QED  BY Zenon, <2>1
  <1>9. Pending(list', ends')
    BY Zenon, <1>0, <1>7, <1>8 DEF Pending
  <1>. QED  BY Zenon, <1>1, <1>2, <1>3, <1>4, <1>5, <1>7, <1>9, ListShrinks

\* A task that is submitted for the first time.
LEMMA SubmitKeeps ==
    ASSUME TInv, NEW t \in Tasks, submit(t)
    PROVE  TInv'
  <1>1. /\ t \notin submitted /\ submitted' = submitted \cup {t} /\ queue' = Append(queue, t)
        /\ UNCHANGED <<list, next_id, ops, waiting, ends>>
    BY Zenon DEF submit, taskVars
  <1>2. /\ queue \in Seq(Tasks) /\ Distinct(queue) /\ t \notin ToSet(queue)
        /\ ends[t] = 0 /\ \A x \in ToSet(list) : x.task /= t
    BY Zenon, <1>1 DEF TInv
  <1>3. /\ queue' \in Seq(Tasks) /\ DOMAIN queue' = 1 .. Len(queue) + 1
        /\ \A i \in DOMAIN queue : queue'[i] = queue[i]
        /\ queue'[Len(queue) + 1] = t
        /\ \A i \in DOMAIN queue' : i \in DOMAIN queue \/ i = Len(queue) + 1
    BY <1>1, <1>2
  <1>4. ToSet(queue') \subseteq ToSet(queue) \cup {t}
    BY Zenon, <1>3 DEF ToSet
  <1>5. Distinct(queue')
    <2>1. \A i \in DOMAIN queue : queue[i] /= t
      BY Zenon, <1>2 DEF ToSet
    <2>. QED  BY Zenon, <1>2, <1>3, <2>1 DEF Distinct
  <1>6. /\ Apart(queue', list)
        /\ \A u \in ToSet(queue') : ends[u] = 0
        /\ \A u \in Tasks \ submitted' :
            ends[u] = 0 /\ u \notin ToSet(queue') /\ \A x \in ToSet(list) : x.task /= u
    BY Zenon, <1>1, <1>2, <1>4 DEF TInv, Apart
  <1>. QED  BY Zenon, <1>1, <1>3, <1>5, <1>6 DEF TInv

\* cancel_all_pending ends what is left.
LEMMA EndKeeps ==
    ASSUME TInv, loop_thread_ends
    PROVE  TInv'
  <1>1. CASE UNCHANGED <<queue, list, ends, waiting>>
    <2>1. UNCHANGED <<next_id, ops, submitted>>
      BY Zenon DEF loop_thread_ends
    <2>. QED  BY Zenon, <1>1, <2>1 DEF TInv
  <1>2. CASE /\ queue' = <<>> /\ list' = <<>> /\ waiting' = {} /\ ops = {}
             /\ ends' = [t \in Tasks |-> IF t \in Cancelled THEN ends[t] + 1 ELSE ends[t]]
    <2>1. UNCHANGED <<next_id, ops, submitted>>
      BY Zenon DEF loop_thread_ends
    <2>2. \A t \in Cancelled : t \in Tasks => ends[t] = 0 /\ t \in submitted
      BY Zenon DEF Cancelled, TInv, Pending
    <2>3. Counts(ends') /\ \A t \in Tasks \ submitted : ends'[t] = 0
      BY <1>2, <2>2 DEF TInv, Counts
    <2>4. ToSet(queue') = {} /\ ToSet(list') = {} /\ DOMAIN queue' = {} /\ DOMAIN list' = {}
          /\ queue' \in Seq(Tasks) /\ list' \in Seq(TaskEntry)
      BY Zenon, <1>2, EmptySequence DEF ToSet
    <2>5. ListOK(list', next_id) /\ Pending(list', ends') /\ Distinct(queue') /\ Apart(queue', list')
      BY Zenon, <2>4 DEF ListOK, Pending, Distinct, Apart
    <2>. QED  BY Zenon, <1>2, <2>1, <2>3, <2>4, <2>5 DEF TInv
  <1>. QED  BY Zenon, <1>1, <1>2 DEF loop_thread_ends

LEMMA NextKeeps == TInv /\ [Next]_vars => TInv'
  <1>. SUFFICES ASSUME TInv, [Next]_vars
                PROVE  TInv'
    BY Zenon
  <1>1. ASSUME UNCHANGED <<list, next_id, ops, waiting, ends, queue, submitted>>
        PROVE  TInv'
    BY Zenon, <1>1 DEF TInv
  <1>2. CASE \/ start \/ notify_running \/ delete \/ process_queue \/ process_task_no_memory
             \/ process_queue_end \/ halt_loop \/ on_close_handle \/ UNCHANGED vars
    BY Zenon, <1>1, <1>2 DEF start, notify_running, delete, process_queue, process_task_no_memory,
                      process_queue_end, halt_loop, on_close_handle, vars, loopVars, taskVars
  <1>3. ASSUME NEW c \in ops, unlock_task(c)
        PROVE  TInv'
    BY Zenon, <1>3, AdvanceKeeps DEF unlock_task, loopVars
  <1>4. ASSUME NEW c \in waiting, got_packet(c)
        PROVE  TInv'
    BY Zenon, <1>4, AdvanceKeeps DEF got_packet, loopVars
  <1>. QED  BY Zenon, <1>2, <1>3, <1>4, SubmitKeeps, ProcessKeeps, TimeoutKeeps, EndKeeps DEF Next

LEMMA LoopInvariant == Spec => []TInv
  BY InitTInv, NextKeeps, PTL DEF Spec

\* The callback of an operation and the answer to a request, however late, find
\* the task that they are for or none.
THEOREM LoopCookiesMatch == Spec => []CookiesMatch
  <1>1. TInv => CookiesMatch
    BY Zenon DEF TInv, CookiesMatch, Cookie, find
  <1>. QED  BY <1>1, LoopInvariant, PTL

\* complete_task calls at_end and frees the task once: neither the queue nor the
\* list leads to a task that has ended, whatever times out or is cancelled.
THEOREM LoopEndsOnce == Spec => []EndsOnce
  <1>1. ASSUME TInv
        PROVE  EndsOnce
    <2>1. \A t \in Tasks : ends[t] <= 1
      BY <1>1 DEF TInv, Counts
    <2>2. \A i, j \in DOMAIN queue : queue[i] = queue[j] => i = j
      BY Zenon, <1>1 DEF TInv, Distinct
    <2>3. \A i, j \in DOMAIN list : list[i].task = list[j].task => i = j
      BY Zenon, <1>1 DEF TInv, ListOK
    <2>. QED  BY Zenon, <1>1, <2>1, <2>2, <2>3 DEF TInv, Pending, Apart, EndsOnce
  <1>. QED  BY <1>1, LoopInvariant, PTL
==============================================================================
