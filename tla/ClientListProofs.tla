-------------------------- MODULE ClientListProofs --------------------------
(***************************************************************************)
(* Proofs about Client, the first part: the inductive invariant, and what  *)
(* the queue, the list of pending tasks, the operations in flight, the     *)
(* packets sent and the waiting list keep of it as a call moves on.        *)
(***************************************************************************)
EXTENDS Client, FiniteSetTheorems, TLAPS

\* The stages a call is in before the loop has looked at it, and after.
Early == {"idle", "refused", "joining", "called", "queued"}
Past == {"connecting", "waiting", "bye", "closing", "ended"}

\* The packets a client sends, those it is sent, the entries of the waiting list
\* and the operations in flight.
Kinds == {"HELLO", "MESSAGE", "BYE"}
Replies == {"none", "error", "unit", "true", "false", "path", "value"}
SentPacket == [kind : Kinds, seq : Nat, call : Calls]
Received == [kind : {"HELLO", "RESPONSE", "SIGNAL", "bad", "junk", "stuck", "BYE"}, seq : Nat, about : Calls \cup {Nobody},
             reply : Replies]
Waiter == [seq : Nat, call : Calls]
Op == [op : {"connect", "bye", "close"}, call : Calls]

\* How far a call is whose operation is in flight.
Stage(op) == CASE op = "connect" -> "connecting" [] op = "bye" -> "bye" [] op = "close" -> "closing"

\* The calls of the queue Q are queued once.
QueueOK(Q, P) ==
    /\ Q \in Seq(Calls)
    /\ \A i \in 1 .. Len(Q) : P[Q[i]] = "queued"
    /\ \A i, j \in 1 .. Len(Q) : Q[i] = Q[j] => i = j

\* The calls of the list L are in it once, and have left the queue.
ListOK(L, P) ==
    /\ L \in Seq(Calls)
    /\ \A i \in 1 .. Len(L) : P[L[i]] \in Past
    /\ \A i, j \in 1 .. Len(L) : L[i] = L[j] => i = j

\* An operation in flight is what its call is at, if the list still has it.
OpsOK(O, L, P) ==
    /\ O \subseteq Op
    /\ \A o \in O : /\ o.op = "connect" => o.call \in Connects
                    /\ P[o.call] \in Past
                    /\ \A i \in 1 .. Len(L) : L[i] = o.call => P[o.call] = Stage(o.op)

\* The packets sent are numbered one after the other, the HELLO of a connect
\* first, and no call has sent two.
SentOK(S, n, P) ==
    /\ S \in Seq(SentPacket)
    /\ n = 2 * Len(S)
    /\ \A i \in 1 .. Len(S) : /\ S[i].seq = 2 * (i - 1)
                              /\ S[i].kind = "HELLO" <=> i = 1
                              /\ S[i].kind = "HELLO" => S[i].call \in Connects
                              /\ S[i].kind = "MESSAGE" => S[i].call \in Requests
                              /\ P[S[i].call] \in Past
    /\ \A i, j \in 1 .. Len(S) : S[i].call = S[j].call => i = j

\* The calls of the waiting list W are waiting, once, for the number they sent.
WaitOK(W, S, P) ==
    /\ W \in Seq(Waiter)
    /\ \A i \in 1 .. Len(W) : /\ P[W[i].call] = "waiting"
                              /\ \E j \in 1 .. Len(S) : S[j].seq = W[i].seq /\ S[j].call = W[i].call
    /\ \A i, j \in 1 .. Len(W) : W[i].call = W[j].call => i = j

\* A call of the list that waits is in the waiting list.
HeardOK(L, W, P) ==
    \A k \in 1 .. Len(L) : P[L[k]] = "waiting" => \E i \in 1 .. Len(W) : W[i].call = L[k]

\* A client that has not begun has sent nothing, and one that reads has.
StateOK(s, p, S) ==
    /\ s \in -9 .. 6
    /\ s \in {UNINIT, INIT} => S = <<>>
    /\ s \in {CONNECT_START, RUNNING} => S /= <<>>
    /\ p = "reading" => S /= <<>>

\* What the server has to answer was sent.
AskedOK(A, S) == A \subseteq SentPacket /\ \A m \in A : \E j \in 1 .. Len(S) : S[j] = m

\* What it answers is about the call that has sent the number of the answer.
AnswerOf(p, m) ==
    /\ p.seq = m.seq /\ p.about = m.call
    /\ p.kind = "HELLO" => m.kind = "HELLO"
    /\ p.kind = "RESPONSE" => /\ m.kind = "MESSAGE"
                              /\ p.reply \in Answers(Sent(api[m.call].function)) \cup {"error"}
HeardFrom(T, S) ==
    /\ T \in Seq(Received)
    /\ \A k \in 1 .. Len(T) : T[k].kind \in {"HELLO", "RESPONSE"} =>
          \E j \in 1 .. Len(S) : AnswerOf(T[k], S[j])

\* What a request returns is an answer to it, and fits.
Fits(c, r) ==
    LET reads == api[c].function \in {"is_path_alias", "subscribe_to", "unsubscribe_from"}
                 \/ (api[c].function = "set" /\ api[c].blocking)
    IN  /\ r.about \in {Nobody, c}
        /\ r.about = c =>
              /\ reads /\ r.status = "OK" => r.reply /= "error"
              /\ r.reply /= "error" => r.status = "OK" \/ (r.status = "EPATH_NOT_ALIAS" /\ r.reply = "false")
              /\ r.value \in {"path", "true"} => r.reply = r.value

\* A request is made through a function of the API.
ApiInv == api \in [Requests -> [function : Functions, blocking : BOOLEAN]]

\* The calls, from the queue to the list of pending tasks and the waiting list.
CallInv ==
    /\ progress \in [Calls -> Early \cup Past]
    /\ QueueOK(queue, progress)
    /\ ListOK(list, progress)
    /\ OpsOK(ops, list, progress)
    /\ SentOK(sent, next_seq, progress)
    /\ WaitOK(waiting, sent, progress)
    /\ HeardOK(list, waiting, progress)

\* What is on its way between the client and the server.
TalkInv ==
    /\ ApiInv
    /\ signals \in Nat
    /\ AskedOK(asked, sent)
    /\ HeardFrom(toClient, sent)

\* What the callbacks were given.
ResultInv == result = [c \in Calls |-> result[c]] /\ \A c \in Requests : Fits(c, result[c])

\* The inductive invariant.
ClientInv == CallInv /\ StateOK(state, pipe, sent) /\ TalkInv /\ ResultInv

-----------------------------------------------------------------------------
\* What Append does to the length and to each place.
LEMMA AppendIs ==
    ASSUME NEW S, NEW s \in Seq(S), NEW e \in S
    PROVE  /\ Append(s, e) \in Seq(S) /\ Len(Append(s, e)) = Len(s) + 1 /\ Len(s) \in Nat
           /\ \A i \in 1 .. Len(s) : Append(s, e)[i] = s[i]
           /\ Append(s, e)[Len(s) + 1] = e
           /\ \A i \in 1 .. Len(s) + 1 : Append(s, e)[i] = IF i = Len(s) + 1 THEN e ELSE s[i]
  OBVIOUS

\* What Head and Tail are of a sequence that is not empty.
LEMMA TailIs ==
    ASSUME NEW S, NEW s \in Seq(S), s /= <<>>
    PROVE  /\ Tail(s) \in Seq(S) /\ Len(Tail(s)) = Len(s) - 1 /\ Len(s) \in Nat \ {0}
           /\ Head(s) = s[1] /\ s[1] \in S
           /\ \A i \in 1 .. Len(s) - 1 : Tail(s)[i] = s[i + 1]
  OBVIOUS

\* What two sequences make together.
LEMMA ConcatIs ==
    ASSUME NEW S, NEW A \in Seq(S), NEW B \in Seq(S)
    PROVE  /\ A \o B \in Seq(S)
           /\ Len(A \o B) = Len(A) + Len(B)
           /\ \A k \in 1 .. Len(A) + Len(B) : (A \o B)[k] = IF k <= Len(A) THEN A[k] ELSE B[k - Len(A)]
  <1>1. A \o B \in Seq(S)
    OBVIOUS
  <1>2. Len(A \o B) = Len(A) + Len(B)
    OBVIOUS
  <1>3. \A k \in 1 .. Len(A) + Len(B) : (A \o B)[k] = IF k <= Len(A) THEN A[k] ELSE B[k - Len(A)]
    OBVIOUS
  <1>. QED  BY Zenon, <1>1, <1>2, <1>3

\* What RemoveAt leaves at each place.
LEMMA RemoveAtIs ==
    ASSUME NEW S, NEW L \in Seq(S), NEW i \in 1 .. Len(L)
    PROVE  /\ RemoveAt(L, i) \in Seq(S)
           /\ Len(RemoveAt(L, i)) = Len(L) - 1
           /\ \A k \in 1 .. Len(L) - 1 : RemoveAt(L, i)[k] = IF k < i THEN L[k] ELSE L[k + 1]
  <1>. DEFINE A == SubSeq(L, 1, i - 1)
              B == SubSeq(L, i + 1, Len(L))
  <1>1. /\ A \in Seq(S) /\ Len(A) = i - 1
        /\ \A k \in 1 .. i - 1 : A[k] = L[k]
    OBVIOUS
  <1>2. /\ B \in Seq(S) /\ Len(B) = Len(L) - i
        /\ \A k \in 1 .. Len(L) - i : B[k] = L[i + k]
    OBVIOUS
  <1>. HIDE DEF A, B
  <1>3. /\ A \o B \in Seq(S)
        /\ Len(A \o B) = Len(A) + Len(B)
        /\ \A k \in 1 .. Len(A) + Len(B) : (A \o B)[k] = IF k <= Len(A) THEN A[k] ELSE B[k - Len(A)]
    BY Zenon, <1>1, <1>2, ConcatIs
  <1>4. ASSUME NEW k \in 1 .. Len(L) - 1
        PROVE  (A \o B)[k] = IF k < i THEN L[k] ELSE L[k + 1]
    <2>0. k \in 1 .. Len(A) + Len(B)
      BY <1>1, <1>2
    <2>1. CASE k < i
      BY <1>1, <1>3, <2>0, <2>1
    <2>2. CASE ~(k < i)
      <3>1. k - Len(A) \in 1 .. Len(L) - i /\ i + (k - Len(A)) = k + 1 /\ ~(k <= Len(A))
        BY <1>1, <2>2
      <3>. QED  BY Zenon, <1>2, <1>3, <2>0, <2>2, <3>1
    <2>. QED  BY Zenon, <2>1, <2>2
  <1>5. Len(A \o B) = Len(L) - 1
    BY <1>1, <1>2, <1>3
  <1>. QED  BY Zenon, <1>3, <1>4, <1>5 DEF RemoveAt, A, B

\* M is what is left of L without its places F, in the order they had.
Selects(M, L, F) ==
    /\ \A k \in 1 .. Len(M) : \E j \in 1 .. Len(L) \ F : M[k] = L[j]
    /\ \A j \in 1 .. Len(L) \ F : \E k \in 1 .. Len(M) : M[k] = L[j]
    /\ \A j, k \in 1 .. Len(M) : \E a, b \in 1 .. Len(L) : M[j] = L[a] /\ M[k] = L[b] /\ (a = b => j = k)

\* RemoveAt keeps everything but one place.
LEMMA RemoveAtKeeps ==
    ASSUME NEW S, NEW L \in Seq(S), NEW i \in 1 .. Len(L)
    PROVE  RemoveAt(L, i) \in Seq(S) /\ Selects(RemoveAt(L, i), L, {i})
  <1>. DEFINE M == RemoveAt(L, i)
  <1>0. Len(L) \in Nat
    OBVIOUS
  <1>1. /\ Len(M) = Len(L) - 1 /\ M \in Seq(S)
        /\ \A k \in 1 .. Len(L) - 1 : M[k] = IF k < i THEN L[k] ELSE L[k + 1]
    BY Zenon, RemoveAtIs
  <1>. HIDE DEF M
  <1>2. \A k \in 1 .. Len(M) : \E j \in 1 .. Len(L) \ {i} : M[k] = L[j]
    <2>1. SUFFICES ASSUME NEW k \in 1 .. Len(M) PROVE \E j \in 1 .. Len(L) \ {i} : M[k] = L[j]
      BY Zenon
    <2>2. CASE k < i
      <3>1. k \in 1 .. Len(L) \ {i} /\ M[k] = L[k]
        BY <1>0, <1>1, <2>2
      <3>. QED  BY Zenon, <3>1
    <2>3. CASE ~(k < i)
      <3>1. k + 1 \in 1 .. Len(L) \ {i} /\ M[k] = L[k + 1]
        BY <1>0, <1>1, <2>3
      <3>. QED  BY Zenon, <3>1
    <2>. QED  BY Zenon, <2>2, <2>3
  <1>3. \A j \in 1 .. Len(L) \ {i} : \E k \in 1 .. Len(M) : M[k] = L[j]
    <2>1. SUFFICES ASSUME NEW j \in 1 .. Len(L) \ {i} PROVE \E k \in 1 .. Len(M) : M[k] = L[j]
      BY Zenon
    <2>2. CASE j < i
      <3>1. j \in 1 .. Len(M) /\ M[j] = L[j]
        BY <1>0, <1>1, <2>2
      <3>. QED  BY Zenon, <3>1
    <2>3. CASE ~(j < i)
      <3>1. j - 1 \in 1 .. Len(M) /\ ~(j - 1 < i) /\ (j - 1) + 1 = j
        BY <1>0, <1>1, <2>3
      <3>2. M[j - 1] = L[j]
        BY Zenon, <1>0, <1>1, <3>1
      <3>. QED  BY Zenon, <3>1, <3>2
    <2>. QED  BY Zenon, <2>2, <2>3
  <1>4. \A j, k \in 1 .. Len(M) : \E a, b \in 1 .. Len(L) : M[j] = L[a] /\ M[k] = L[b] /\ (a = b => j = k)
    <2>1. SUFFICES ASSUME NEW j \in 1 .. Len(M), NEW k \in 1 .. Len(M)
                   PROVE  \E a, b \in 1 .. Len(L) : M[j] = L[a] /\ M[k] = L[b] /\ (a = b => j = k)
      BY Zenon
    <2>. DEFINE a == IF j < i THEN j ELSE j + 1
                b == IF k < i THEN k ELSE k + 1
    <2>2. a \in 1 .. Len(L) /\ b \in 1 .. Len(L) /\ (a = b => j = k)
      BY <1>0, <1>1
    <2>3. M[j] = L[a] /\ M[k] = L[b]
      BY Zenon, <1>0, <1>1
    <2>. HIDE DEF a, b
    <2>. QED  BY Zenon, <2>2, <2>3
  <1>. QED  BY Zenon, <1>1, <1>2, <1>3, <1>4 DEF M, Selects

\* Both lists lose the only entry of a call, if they have one.
LEMMA RemoveFirstIs ==
    ASSUME NEW S, NEW L \in Seq(S), NEW F \in SUBSET (1 .. Len(L)), \A i, j \in F : i = j
    PROVE  RemoveFirstOf(L, F) \in Seq(S) /\ Selects(RemoveFirstOf(L, F), L, F)
  <1>1. CASE F = {}
    <2>1. RemoveFirstOf(L, F) = L /\ 1 .. Len(L) \ F = 1 .. Len(L)
      BY Zenon, <1>1 DEF RemoveFirstOf
    <2>. QED  BY Zenon, <2>1 DEF Selects
  <1>2. CASE F /= {}
    <2>1. PICK i \in F : F = {i}
      BY Zenon, <1>2
    <2>2. Min(F) = i
      BY <2>1 DEF Min
    <2>3. RemoveFirstOf(L, F) = RemoveAt(L, i) /\ i \in 1 .. Len(L)
      BY Zenon, <1>2, <2>1, <2>2 DEF RemoveFirstOf
    <2>. QED  BY Zenon, <2>1, <2>3, RemoveAtKeeps
  <1>. QED  BY Zenon, <1>1, <1>2

\* A sequence M that holds no more than L does, each thing once.
Thins(M, L) ==
    /\ M \in Seq(Calls)
    /\ \A k \in 1 .. Len(M) : \E j \in 1 .. Len(L) : M[k] = L[j]
    /\ \A j, k \in 1 .. Len(M) : M[j] = M[k] => j = k

\* Places of a list without repetitions are one.
LEMMA SelectsThins ==
    ASSUME NEW L \in Seq(Calls), \A i, j \in 1 .. Len(L) : L[i] = L[j] => i = j,
           NEW M \in Seq(Calls), NEW F, Selects(M, L, F)
    PROVE  Thins(M, L)
  <1>1. ASSUME NEW j \in 1 .. Len(M), NEW k \in 1 .. Len(M), M[j] = M[k]
        PROVE  j = k
    <2>1. PICK a, b \in 1 .. Len(L) : M[j] = L[a] /\ M[k] = L[b] /\ (a = b => j = k)
      BY Zenon DEF Selects
    <2>. QED  BY Zenon, <1>1, <2>1
  <1>. QED  BY Zenon, <1>1 DEF Selects, Thins

\* dicey_task_list_erase: what is left is in the list once, and the call is not.
LEMMA WithoutThins ==
    ASSUME NEW L \in Seq(Calls), \A i, j \in 1 .. Len(L) : L[i] = L[j] => i = j, NEW c
    PROVE  /\ Thins(Without(L, c), L)
           /\ \A k \in 1 .. Len(Without(L, c)) : Without(L, c)[k] /= c
  <1>. DEFINE F == {i \in 1 .. Len(L) : L[i] = c}
              M == Without(L, c)
  <1>1. F \in SUBSET (1 .. Len(L)) /\ (\A i, j \in F : i = j) /\ M = RemoveFirstOf(L, F)
    BY Zenon DEF Without
  <1>2. \A j \in 1 .. Len(L) \ F : L[j] /= c
    BY Zenon
  <1>. HIDE DEF F, M
  <1>3. M \in Seq(Calls) /\ Selects(M, L, F)
    BY Zenon, <1>1, RemoveFirstIs
  <1>4. \A k \in 1 .. Len(M) : M[k] /= c
    BY <1>2, <1>3 DEF Selects
  <1>5. Thins(M, L)
    BY Zenon, <1>3, SelectsThins
  <1>. QED  BY Zenon, <1>4, <1>5 DEF M

\* The entry that check_timeout erases on its way leaves such a list.
LEMMA RemoveAtThins ==
    ASSUME NEW L \in Seq(Calls), \A i, j \in 1 .. Len(L) : L[i] = L[j] => i = j, NEW i \in 1 .. Len(L)
    PROVE  Thins(RemoveAt(L, i), L)
  <1>1. RemoveAt(L, i) \in Seq(Calls) /\ Selects(RemoveAt(L, i), L, {i})
    BY Zenon, RemoveAtKeeps
  <1>. QED  BY Zenon, <1>1, SelectsThins

\* A waiting list with one entry for a call, and one, V, that is W without the
\* entry of call c.
Once(W) == W \in Seq(Waiter) /\ \A i, j \in 1 .. Len(W) : W[i].call = W[j].call => i = j
Unlisted(V, W, c) ==
    /\ Once(V)
    /\ \A k \in 1 .. Len(V) : V[k].call /= c /\ \E j \in 1 .. Len(W) : V[k] = W[j]
    /\ \A j \in 1 .. Len(W) : W[j].call /= c => \E k \in 1 .. Len(V) : V[k] = W[j]

\* A waiting list without the places of a call is one without that call.
LEMMA SelectsUnlists ==
    ASSUME NEW W, Once(W), NEW V \in Seq(Waiter), NEW F, Selects(V, W, F), NEW c,
           \A j \in 1 .. Len(W) : j \in F <=> W[j].call = c
    PROVE  Unlisted(V, W, c)
  <1>1. ASSUME NEW j \in 1 .. Len(V), NEW k \in 1 .. Len(V), V[j].call = V[k].call
        PROVE  j = k
    <2>1. PICK a, b \in 1 .. Len(W) : V[j] = W[a] /\ V[k] = W[b] /\ (a = b => j = k)
      BY Zenon DEF Selects
    <2>2. W[a].call = W[b].call
      BY Zenon, <1>1, <2>1
    <2>. QED  BY Zenon, <2>1, <2>2 DEF Once
  <1>2. ASSUME NEW k \in 1 .. Len(V)
        PROVE  V[k].call /= c /\ \E j \in 1 .. Len(W) : V[k] = W[j]
    <2>1. PICK j \in 1 .. Len(W) \ F : V[k] = W[j]
      BY Zenon DEF Selects
    <2>. QED  BY Zenon, <2>1
  <1>3. ASSUME NEW j \in 1 .. Len(W), W[j].call /= c
        PROVE  \E k \in 1 .. Len(V) : V[k] = W[j]
    BY Zenon, <1>3 DEF Selects
  <1>. QED  BY Zenon, <1>1, <1>2, <1>3 DEF Unlisted, Once

\* dicey_waiting_list_remove_task takes the call out and nothing else.
LEMMA RemoveTaskUnlists ==
    ASSUME NEW W, Once(W), NEW c
    PROVE  Unlisted(dicey_waiting_list_remove_task(W, c), W, c)
  <1>. DEFINE F == {i \in 1 .. Len(W) : W[i].call = c}
              V == dicey_waiting_list_remove_task(W, c)
  <1>1. F \in SUBSET (1 .. Len(W)) /\ (\A i, j \in F : i = j) /\ V = RemoveFirstOf(W, F) /\ W \in Seq(Waiter)
    BY Zenon DEF dicey_waiting_list_remove_task, Once
  <1>2. \A j \in 1 .. Len(W) : j \in F <=> W[j].call = c
    BY Zenon
  <1>. HIDE DEF F, V
  <1>3. V \in Seq(Waiter) /\ Selects(V, W, F)
    BY Zenon, <1>1, RemoveFirstIs
  <1>. QED  BY Zenon, <1>2, <1>3, SelectsUnlists DEF V

\* dicey_waiting_list_remove_seq takes out the call at that place.
LEMMA RemoveSeqUnlists ==
    ASSUME NEW W, Once(W), NEW i \in 1 .. Len(W)
    PROVE  Unlisted(RemoveAt(W, i), W, W[i].call)
  <1>1. RemoveAt(W, i) \in Seq(Waiter) /\ Selects(RemoveAt(W, i), W, {i})
    BY Zenon, RemoveAtKeeps DEF Once
  <1>2. \A j \in 1 .. Len(W) : j \in {i} <=> W[j].call = W[i].call
    BY Zenon DEF Once
  <1>. QED  BY Zenon, <1>1, <1>2, SelectsUnlists

\* A call taken out twice is taken out.
LEMMA UnlistedTwice ==
    ASSUME NEW W, NEW V, NEW U, NEW c, Unlisted(V, W, c), Unlisted(U, V, c)
    PROVE  Unlisted(U, W, c)
  <1>1. ASSUME NEW k \in 1 .. Len(U)
        PROVE  U[k].call /= c /\ \E j \in 1 .. Len(W) : U[k] = W[j]
    <2>1. PICK i \in 1 .. Len(V) : U[k] = V[i]
      BY Zenon DEF Unlisted
    <2>2. PICK j \in 1 .. Len(W) : V[i] = W[j]
      BY Zenon DEF Unlisted
    <2>3. U[k].call /= c /\ U[k] = W[j]
      BY Zenon, <2>1, <2>2 DEF Unlisted
    <2>. QED  BY Zenon, <2>3
  <1>2. ASSUME NEW j \in 1 .. Len(W), W[j].call /= c
        PROVE  \E k \in 1 .. Len(U) : U[k] = W[j]
    <2>1. PICK i \in 1 .. Len(V) : V[i] = W[j]
      BY Zenon, <1>2 DEF Unlisted
    <2>2. V[i].call /= c
      BY Zenon, <1>2, <2>1
    <2>3. PICK k \in 1 .. Len(U) : U[k] = V[i]
      BY Zenon, <2>2 DEF Unlisted
    <2>. QED  BY Zenon, <2>1, <2>3
  <1>. QED  BY Zenon, <1>1, <1>2 DEF Unlisted

-----------------------------------------------------------------------------
\* How far a call may be.
Stages == Early \cup Past

\* A call in no queue moves on.
LEMMA QueueSame ==
    ASSUME NEW P \in [Calls -> Stages], NEW Q, QueueOK(Q, P), NEW c \in Calls, P[c] /= "queued", NEW v
    PROVE  QueueOK(Q, [P EXCEPT ![c] = v])
  <1>1. \A i \in 1 .. Len(Q) : Q[i] \in Calls /\ Q[i] /= c
    BY DEF QueueOK
  <1>. QED  BY Zenon, <1>1 DEF QueueOK

\* The first call of the queue leaves it.
LEMMA QueueTail ==
    ASSUME NEW P \in [Calls -> Stages], NEW Q, QueueOK(Q, P), Q /= <<>>, NEW v
    PROVE  /\ QueueOK(Tail(Q), [P EXCEPT ![Head(Q)] = v])
           /\ Head(Q) \in Calls /\ P[Head(Q)] = "queued"
  <1>1. /\ Tail(Q) \in Seq(Calls) /\ Len(Tail(Q)) = Len(Q) - 1 /\ Len(Q) \in Nat \ {0}
        /\ Head(Q) = Q[1] /\ Q[1] \in Calls
        /\ \A i \in 1 .. Len(Q) - 1 : Tail(Q)[i] = Q[i + 1]
    BY Zenon, TailIs DEF QueueOK
  <1>2. \A i \in 1 .. Len(Tail(Q)) : i + 1 \in 1 .. Len(Q) /\ Tail(Q)[i] = Q[i + 1] /\ i + 1 /= 1
    BY <1>1
  <1>3. \A i \in 1 .. Len(Tail(Q)) : /\ Tail(Q)[i] \in Calls /\ Tail(Q)[i] /= Head(Q)
                                    /\ P[Tail(Q)[i]] = "queued"
    BY <1>1, <1>2 DEF QueueOK
  <1>4. \A i, j \in 1 .. Len(Tail(Q)) : Tail(Q)[i] = Tail(Q)[j] => i = j
    <2>1. SUFFICES ASSUME NEW i \in 1 .. Len(Tail(Q)), NEW j \in 1 .. Len(Tail(Q)), Tail(Q)[i] = Tail(Q)[j]
                   PROVE  i = j
      BY Zenon
    <2>2. i + 1 = j + 1
      BY <1>2, <2>1 DEF QueueOK
    <2>. QED  BY <2>2
  <1>5. P[Head(Q)] = "queued"
    BY <1>1 DEF QueueOK
  <1>. QED  BY Zenon, <1>1, <1>3, <1>4, <1>5 DEF QueueOK

\* A call enters the queue.
LEMMA QueueMore ==
    ASSUME NEW P \in [Calls -> Stages], NEW Q, QueueOK(Q, P), NEW c \in Calls, P[c] /= "queued"
    PROVE  QueueOK(Append(Q, c), [P EXCEPT ![c] = "queued"])
  <1>. DEFINE A == Append(Q, c)
              R == [P EXCEPT ![c] = "queued"]
  <1>1. /\ A \in Seq(Calls) /\ Len(A) = Len(Q) + 1 /\ Len(Q) \in Nat
        /\ \A i \in 1 .. Len(Q) + 1 : A[i] = IF i = Len(Q) + 1 THEN c ELSE Q[i]
    BY AppendIs DEF QueueOK
  <1>2. \A i \in 1 .. Len(Q) : Q[i] \in Calls /\ Q[i] /= c /\ R[Q[i]] = "queued"
    BY DEF QueueOK
  <1>3. R[c] = "queued"
    BY Zenon
  <1>. HIDE DEF A, R
  <1>4. \A i \in 1 .. Len(A) : R[A[i]] = "queued"
    BY <1>1, <1>2, <1>3
  <1>5. \A i, j \in 1 .. Len(A) : A[i] = A[j] => i = j
    BY <1>1, <1>2 DEF QueueOK
  <1>. QED  BY Zenon, <1>1, <1>4, <1>5 DEF QueueOK, A, R

\* The list loses calls, and one of those that are past the queue moves on.
LEMMA ListSame ==
    ASSUME NEW P \in [Calls -> Stages], NEW L, ListOK(L, P), NEW M, Thins(M, L), NEW c \in Calls,
           NEW v, v \in Past \/ P[c] \notin Past
    PROVE  ListOK(M, [P EXCEPT ![c] = v])
  <1>1. ASSUME NEW k \in 1 .. Len(M)
        PROVE  [P EXCEPT ![c] = v][M[k]] \in Past
    <2>1. PICK j \in 1 .. Len(L) : M[k] = L[j]
      BY Zenon DEF Thins
    <2>2. L[j] \in Calls /\ P[L[j]] \in Past
      BY DEF ListOK
    <2>. QED  BY Zenon, <2>1, <2>2
  <1>. QED  BY Zenon, <1>1 DEF ListOK, Thins

\* A list is no more than itself.
LEMMA SelfThins ==
    ASSUME NEW P, NEW L, ListOK(L, P)
    PROVE  Thins(L, L)
  BY Zenon DEF ListOK, Thins

\* A call enters the list.
LEMMA ListMore ==
    ASSUME NEW P \in [Calls -> Stages], NEW L, ListOK(L, P), NEW c \in Calls, P[c] \notin Past, NEW v \in Past
    PROVE  ListOK(Append(L, c), [P EXCEPT ![c] = v])
  <1>. DEFINE A == Append(L, c)
              R == [P EXCEPT ![c] = v]
  <1>1. /\ A \in Seq(Calls) /\ Len(A) = Len(L) + 1 /\ Len(L) \in Nat
        /\ \A i \in 1 .. Len(L) + 1 : A[i] = IF i = Len(L) + 1 THEN c ELSE L[i]
    BY AppendIs DEF ListOK
  <1>2. \A i \in 1 .. Len(L) : L[i] \in Calls /\ L[i] /= c /\ R[L[i]] \in Past
    BY DEF ListOK
  <1>3. R[c] \in Past
    BY Zenon
  <1>. HIDE DEF A, R
  <1>4. \A i \in 1 .. Len(A) : R[A[i]] \in Past
    BY <1>1, <1>2, <1>3
  <1>5. \A i, j \in 1 .. Len(A) : A[i] = A[j] => i = j
    BY <1>1, <1>2 DEF ListOK
  <1>. QED  BY Zenon, <1>1, <1>4, <1>5 DEF ListOK, A, R

\* What leaves the list again, if it has just entered it, leaves it as it was.
LEMMA WithoutLast ==
    ASSUME NEW P, NEW L, ListOK(L, P), NEW c \in Calls, P[c] \notin Past
    PROVE  /\ Thins(Without(Append(L, c), c), L)
           /\ \A k \in 1 .. Len(Without(Append(L, c), c)) : Without(Append(L, c), c)[k] /= c
  <1>. DEFINE A == Append(L, c)
              M == Without(A, c)
  <1>1. /\ A \in Seq(Calls) /\ Len(A) = Len(L) + 1 /\ Len(L) \in Nat
        /\ \A i \in 1 .. Len(L) + 1 : A[i] = IF i = Len(L) + 1 THEN c ELSE L[i]
    BY AppendIs DEF ListOK
  <1>2. \A i \in 1 .. Len(L) : L[i] /= c
    BY Zenon DEF ListOK
  <1>. HIDE DEF A
  <1>3. \A i, j \in 1 .. Len(A) : A[i] = A[j] => i = j
    BY <1>1, <1>2 DEF ListOK
  <1>4. Thins(M, A) /\ \A k \in 1 .. Len(M) : M[k] /= c
    BY Zenon, <1>1, <1>3, WithoutThins
  <1>. HIDE DEF M
  <1>5. ASSUME NEW k \in 1 .. Len(M)
        PROVE  \E j \in 1 .. Len(L) : M[k] = L[j]
    <2>1. PICK j \in 1 .. Len(A) : M[k] = A[j]
      BY Zenon, <1>4 DEF Thins
    <2>. QED  BY <1>1, <1>4, <2>1
  <1>6. Thins(M, L)
    BY Zenon, <1>4, <1>5 DEF Thins
  <1>. QED  BY Zenon, <1>4, <1>6 DEF M, A

\* What was sent stays what it is as a call moves on.
LEMMA SentSame ==
    ASSUME NEW P \in [Calls -> Stages], NEW S, NEW n, SentOK(S, n, P), NEW c \in Calls,
           NEW v, v \in Past \/ P[c] \notin Past
    PROVE  SentOK(S, n, [P EXCEPT ![c] = v])
  <1>1. \A i \in 1 .. Len(S) : S[i].call \in Calls /\ [P EXCEPT ![c] = v][S[i].call] \in Past
    <2>1. SUFFICES ASSUME NEW i \in 1 .. Len(S)
                   PROVE  S[i].call \in Calls /\ [P EXCEPT ![c] = v][S[i].call] \in Past
      BY Zenon
    <2>2. S[i] \in SentPacket /\ P[S[i].call] \in Past
      BY DEF SentOK
    <2>3. S[i].call \in Calls
      BY Zenon, <2>2 DEF SentPacket
    <2>. QED  BY Zenon, <2>2, <2>3
  <1>. QED  BY Zenon, <1>1 DEF SentOK

\* What an entry of the waiting list is.
LEMMA WaitHas ==
    ASSUME NEW W, NEW i \in 1 .. Len(W), NEW P, NEW S, WaitOK(W, S, P)
    PROVE  /\ W[i] \in Waiter /\ P[W[i].call] = "waiting"
           /\ \E j \in 1 .. Len(S) : S[j].seq = W[i].seq /\ S[j].call = W[i].call
  <1>1. W \in Seq(Waiter)
    BY Zenon DEF WaitOK
  <1>2. W[i] \in Waiter
    BY <1>1
  <1>. QED  BY Zenon, <1>2 DEF WaitOK

\* So does the waiting list as a call moves on that does not wait.
LEMMA WaitSame ==
    ASSUME NEW P \in [Calls -> Stages], NEW W, NEW S, WaitOK(W, S, P), NEW c \in Calls, P[c] /= "waiting", NEW v
    PROVE  WaitOK(W, S, [P EXCEPT ![c] = v])
  <1>1. \A i \in 1 .. Len(W) : W[i].call \in Calls /\ [P EXCEPT ![c] = v][W[i].call] = "waiting"
    <2>1. SUFFICES ASSUME NEW i \in 1 .. Len(W)
                   PROVE  W[i].call \in Calls /\ [P EXCEPT ![c] = v][W[i].call] = "waiting"
      BY Zenon
    <2>2. W[i] \in Waiter /\ P[W[i].call] = "waiting"
      BY Zenon, WaitHas
    <2>3. W[i].call \in Calls
      BY Zenon, <2>2 DEF Waiter
    <2>. QED  BY Zenon, <2>2, <2>3
  <1>. QED  BY Zenon, <1>1 DEF WaitOK

\* A call of the waiting list ends.
LEMMA WaitLess ==
    ASSUME NEW P \in [Calls -> Stages], NEW W, NEW S, WaitOK(W, S, P), NEW c \in Calls, NEW v,
           NEW V, Unlisted(V, W, c)
    PROVE  WaitOK(V, S, [P EXCEPT ![c] = v])
  <1>1. ASSUME NEW k \in 1 .. Len(V)
        PROVE  /\ [P EXCEPT ![c] = v][V[k].call] = "waiting"
               /\ \E j \in 1 .. Len(S) : S[j].seq = V[k].seq /\ S[j].call = V[k].call
    <2>1. PICK i \in 1 .. Len(W) : V[k] = W[i]
      BY Zenon DEF Unlisted
    <2>2. /\ W[i] \in Waiter /\ P[W[i].call] = "waiting"
          /\ \E j \in 1 .. Len(S) : S[j].seq = W[i].seq /\ S[j].call = W[i].call
      BY WaitHas
    <2>4. W[i].call \in Calls
      BY Zenon, <2>2 DEF Waiter
    <2>3. V[k].call /= c
      BY Zenon DEF Unlisted
    <2>. QED  BY Zenon, <2>1, <2>2, <2>3, <2>4
  <1>. QED  BY Zenon, <1>1 DEF WaitOK, Unlisted, Once

-----------------------------------------------------------------------------
\* The list M has no calls but those of L and, it may be, c.
Grows(M, L, c) == \A k \in 1 .. Len(M) : M[k] = c \/ \E j \in 1 .. Len(L) : M[k] = L[j]

\* The operations N are some of O and those that call c is at, in stage v.
OpsMove(N, O, M, c, v) ==
    /\ N \subseteq Op
    /\ \A o \in N : \/ o \in O /\ (o.call = c => \A k \in 1 .. Len(M) : M[k] /= c)
                    \/ /\ o.call = c /\ v = Stage(o.op) /\ v \in Past
                       /\ o.op = "connect" => c \in Connects

\* An operation is started or done for call c, which moves on.
LEMMA OpsKeep ==
    ASSUME NEW P \in [Calls -> Stages], NEW O, NEW L, OpsOK(O, L, P), NEW c \in Calls,
           NEW v, v \in Past \/ P[c] \notin Past,
           NEW M, Grows(M, L, c), NEW N, OpsMove(N, O, M, c, v)
    PROVE  OpsOK(N, M, [P EXCEPT ![c] = v])
  <1>1. SUFFICES ASSUME NEW o \in N
                 PROVE  /\ o.op = "connect" => o.call \in Connects
                        /\ [P EXCEPT ![c] = v][o.call] \in Past
                        /\ \A k \in 1 .. Len(M) : M[k] = o.call => [P EXCEPT ![c] = v][o.call] = Stage(o.op)
    BY Zenon DEF OpsOK, OpsMove
  <1>2. o.call \in Calls
    BY Zenon DEF Op, OpsMove
  <1>3. CASE o.call = c /\ v = Stage(o.op) /\ v \in Past /\ (o.op = "connect" => c \in Connects)
    BY Zenon, <1>2, <1>3
  <1>4. CASE o \in O /\ (o.call = c => \A k \in 1 .. Len(M) : M[k] /= c)
    <2>1. /\ o.op = "connect" => o.call \in Connects
          /\ P[o.call] \in Past
          /\ \A i \in 1 .. Len(L) : L[i] = o.call => P[o.call] = Stage(o.op)
      BY Zenon, <1>4 DEF OpsOK
    <2>2. CASE o.call = c
      <3>1. v \in Past
        BY Zenon, <2>1, <2>2
      <3>. QED  BY Zenon, <1>2, <1>4, <2>1, <2>2, <3>1
    <2>3. CASE o.call /= c
      <3>1. [P EXCEPT ![c] = v][o.call] = P[o.call]
        BY Zenon, <1>2, <2>3
      <3>2. ASSUME NEW k \in 1 .. Len(M), M[k] = o.call
            PROVE  P[o.call] = Stage(o.op)
        BY Zenon, <2>1, <2>3, <3>2 DEF Grows
      <3>. QED  BY Zenon, <2>1, <3>1, <3>2
    <2>. QED  BY Zenon, <2>2, <2>3
  <1>. QED  BY Zenon, <1>3, <1>4 DEF OpsMove

\* The list and the waiting list lose call c.
LEMMA HeardLess ==
    ASSUME NEW P \in [Calls -> Stages], NEW L \in Seq(Calls), NEW W, HeardOK(L, W, P), NEW c \in Calls, NEW v,
           NEW M, Thins(M, L), \A k \in 1 .. Len(M) : M[k] /= c, NEW V, Unlisted(V, W, c)
    PROVE  HeardOK(M, V, [P EXCEPT ![c] = v])
  <1>1. SUFFICES ASSUME NEW k \in 1 .. Len(M), [P EXCEPT ![c] = v][M[k]] = "waiting"
                 PROVE  \E i \in 1 .. Len(V) : V[i].call = M[k]
    BY Zenon DEF HeardOK
  <1>2. PICK j \in 1 .. Len(L) : M[k] = L[j]
    BY Zenon DEF Thins
  <1>3. L[j] \in Calls /\ L[j] /= c
    BY <1>2
  <1>4. P[L[j]] = "waiting"
    BY Zenon, <1>1, <1>2, <1>3
  <1>5. PICK i \in 1 .. Len(W) : W[i].call = L[j]
    BY Zenon, <1>4 DEF HeardOK
  <1>6. W[i].call /= c
    BY Zenon, <1>3, <1>5
  <1>7. PICK x \in 1 .. Len(V) : V[x] = W[i]
    BY Zenon, <1>6 DEF Unlisted
  <1>8. V[x].call = M[k]
    BY Zenon, <1>2, <1>5, <1>7
  <1>. QED  BY Zenon, <1>8

\* The waiting list V has all the entries of W.
Holds(V, W) == \A j \in 1 .. Len(W) : \E k \in 1 .. Len(V) : V[k] = W[j]

\* A call of the list moves on, and waits only if it is in the waiting list.
LEMMA HeardMore ==
    ASSUME NEW P \in [Calls -> Stages], NEW L \in Seq(Calls), NEW W, HeardOK(L, W, P), NEW c \in Calls, NEW v,
           NEW M \in Seq(Calls), Grows(M, L, c), NEW V, Holds(V, W),
           v = "waiting" => \E k \in 1 .. Len(V) : V[k].call = c
    PROVE  HeardOK(M, V, [P EXCEPT ![c] = v])
  <1>1. SUFFICES ASSUME NEW k \in 1 .. Len(M), [P EXCEPT ![c] = v][M[k]] = "waiting"
                 PROVE  \E i \in 1 .. Len(V) : V[i].call = M[k]
    BY Zenon DEF HeardOK
  <1>2. CASE M[k] = c
    <2>1. v = "waiting"
      BY Zenon, <1>1, <1>2
    <2>. QED  BY Zenon, <1>2, <2>1
  <1>3. CASE M[k] /= c
    <2>1. PICK j \in 1 .. Len(L) : M[k] = L[j]
      BY Zenon, <1>3 DEF Grows
    <2>2. L[j] \in Calls
      OBVIOUS
    <2>3. P[L[j]] = "waiting"
      BY Zenon, <1>1, <1>3, <2>1, <2>2
    <2>4. PICK i \in 1 .. Len(W) : W[i].call = L[j]
      BY Zenon, <2>3 DEF HeardOK
    <2>5. PICK x \in 1 .. Len(V) : V[x] = W[i]
      BY Zenon DEF Holds
    <2>6. V[x].call = M[k]
      BY Zenon, <2>1, <2>4, <2>5
    <2>. QED  BY Zenon, <2>6
  <1>. QED  BY Zenon, <1>2, <1>3

\* A call may send a packet: the HELLO of a connect is first, and no call sends
\* two packets on a connection.
MaySend(kind, S, P, c) ==
    /\ P[c] \notin Past \/ S = <<>>
    /\ kind = "HELLO" <=> S = <<>>
    /\ kind = "HELLO" => c \in Connects
    /\ kind = "MESSAGE" => c \in Requests

\* One more packet is sent, by a call that has sent none.
LEMMA SentMore ==
    ASSUME NEW P \in [Calls -> Stages], NEW S, NEW n, SentOK(S, n, P), NEW c \in Calls,
           NEW kind \in Kinds, NEW v \in Past, MaySend(kind, S, P, c)
    PROVE  /\ SentOK(Append(S, [kind |-> kind, seq |-> n, call |-> c]), n + 2, [P EXCEPT ![c] = v])
           /\ n \in Nat /\ [kind |-> kind, seq |-> n, call |-> c] \in SentPacket
  <1>. DEFINE m == [kind |-> kind, seq |-> n, call |-> c]
              A == Append(S, m)
              R == [P EXCEPT ![c] = v]
  <1>s. /\ P[c] \notin Past \/ S = <<>>
        /\ kind = "HELLO" <=> S = <<>>
        /\ kind = "HELLO" => c \in Connects
        /\ kind = "MESSAGE" => c \in Requests
    BY Zenon DEF MaySend
  <1>0. S \in Seq(SentPacket) /\ Len(S) \in Nat /\ n = 2 * Len(S) /\ n \in Nat
    BY DEF SentOK
  <1>1. m \in SentPacket /\ m.kind = kind /\ m.seq = n /\ m.call = c
    BY Zenon, <1>0 DEF SentPacket
  <1>. HIDE DEF m
  <1>2. /\ A \in Seq(SentPacket) /\ Len(A) = Len(S) + 1
        /\ \A i \in 1 .. Len(S) + 1 : A[i] = IF i = Len(S) + 1 THEN m ELSE S[i]
    BY <1>0, <1>1, AppendIs
  <1>3. \A i \in 1 .. Len(S) : /\ S[i].seq = 2 * (i - 1)
                               /\ S[i].kind = "HELLO" <=> i = 1
                               /\ S[i].kind = "HELLO" => S[i].call \in Connects
                               /\ S[i].kind = "MESSAGE" => S[i].call \in Requests
                               /\ P[S[i].call] \in Past
                               /\ S[i] \in SentPacket
    BY DEF SentOK
  <1>4. \A i \in 1 .. Len(S) : S[i].call \in Calls
    BY Zenon, <1>3 DEF SentPacket
  <1>5. \A i \in 1 .. Len(S) : S[i].call /= c
    <2>1. CASE P[c] \notin Past
      BY Zenon, <1>3, <2>1
    <2>2. CASE S = <<>>
      BY <2>2
    <2>. QED  BY Zenon, <1>s, <2>1, <2>2
  <1>6. R[c] \in Past /\ \A i \in 1 .. Len(S) : R[S[i].call] \in Past
    BY Zenon, <1>3, <1>4
  <1>7. kind = "HELLO" <=> Len(S) + 1 = 1
    BY <1>0, <1>s
  <1>. HIDE DEF A, R
  <1>8. ASSUME NEW i \in 1 .. Len(A)
        PROVE  /\ A[i].seq = 2 * (i - 1)
               /\ A[i].kind = "HELLO" <=> i = 1
               /\ A[i].kind = "HELLO" => A[i].call \in Connects
               /\ A[i].kind = "MESSAGE" => A[i].call \in Requests
               /\ R[A[i].call] \in Past
    <2>1. CASE i = Len(S) + 1
      <3>1. A[i] = m /\ 2 * (i - 1) = n
        BY <1>0, <1>2, <2>1
      <3>. QED  BY Zenon, <1>1, <1>6, <1>7, <1>s, <2>1, <3>1
    <2>2. CASE i /= Len(S) + 1
      <3>1. i \in 1 .. Len(S) /\ A[i] = S[i]
        BY <1>0, <1>2, <2>2
      <3>. QED  BY Zenon, <1>3, <1>6, <3>1
    <2>. QED  BY Zenon, <2>1, <2>2
  <1>9. ASSUME NEW i \in 1 .. Len(A), NEW j \in 1 .. Len(A), A[i].call = A[j].call
        PROVE  i = j
    <2>1. CASE i = Len(S) + 1 /\ j = Len(S) + 1
      BY Zenon, <2>1
    <2>2. CASE i /= Len(S) + 1 /\ j /= Len(S) + 1
      <3>1. /\ i \in 1 .. Len(S) /\ A[i] = S[i]
            /\ j \in 1 .. Len(S) /\ A[j] = S[j]
        BY <1>0, <1>2, <2>2
      <3>. QED  BY Zenon, <1>9, <3>1 DEF SentOK
    <2>3. CASE i = Len(S) + 1 /\ j /= Len(S) + 1
      BY <1>0, <1>1, <1>2, <1>5, <1>9, <2>3
    <2>4. CASE i /= Len(S) + 1 /\ j = Len(S) + 1
      BY <1>0, <1>1, <1>2, <1>5, <1>9, <2>4
    <2>. QED  BY Zenon, <2>1, <2>2, <2>3, <2>4
  <1>10. n + 2 = 2 * Len(A)
    BY <1>0, <1>2
  <1>11. SentOK(A, n + 2, R)
    BY Zenon, <1>2, <1>8, <1>9, <1>10 DEF SentOK
  <1>. QED  BY Zenon, <1>0, <1>1, <1>11 DEF A, R, m

-----------------------------------------------------------------------------
\* The numbers do not run out: there are fewer calls than numbers.
FewCalls == IsFiniteSet(Calls) /\ 2 * Cardinality(Calls) < SEQ_LIMIT

\* A number below the limit is not a multiple of it.
LEMMA RemainderIs ==
    ASSUME NEW x \in Nat, NEW y \in Nat, 0 < x, x < y
    PROVE  x % y /= 0
  OBVIOUS

\* No more packets are sent on a connection than there are calls.
LEMMA SentFits ==
    ASSUME FewCalls, NEW P, NEW S, NEW n, SentOK(S, n, P)
    PROVE  n < SEQ_LIMIT
  <1>. DEFINE f == [i \in 1 .. Len(S) |-> S[i].call]
  <1>0. S \in Seq(SentPacket) /\ Len(S) \in Nat /\ n = 2 * Len(S)
    BY DEF SentOK
  <1>1. \A i \in 1 .. Len(S) : S[i].call \in Calls
    <2>1. \A i \in 1 .. Len(S) : S[i] \in SentPacket
      BY <1>0
    <2>. QED  BY Zenon, <2>1 DEF SentPacket
  <1>2. f \in Injection(1 .. Len(S), Calls)
    BY Zenon, <1>1 DEF Injection, IsInjective, SentOK
  <1>3. Cardinality(1 .. Len(S)) <= Cardinality(Calls)
    BY Zenon, <1>2, FS_Injection DEF FewCalls
  <1>4. Cardinality(1 .. Len(S)) = Len(S)
    <2>1. 1 \in Int /\ Len(S) \in Int
      BY <1>0
    <2>2. Cardinality(1 .. Len(S)) = IF 1 > Len(S) THEN 0 ELSE Len(S) - 1 + 1
      BY Zenon, <2>1, FS_Interval
    <2>. QED  BY <1>0, <2>2
  <1>5. Cardinality(Calls) \in Nat
    BY Zenon, FS_CardinalityType DEF FewCalls
  <1>6. Len(S) <= Cardinality(Calls) /\ 2 * Cardinality(Calls) < SEQ_LIMIT /\ SEQ_LIMIT \in Nat
    BY Zenon, <1>3, <1>4, ClientAssumption DEF FewCalls
  <1>. QED  BY <1>0, <1>5, <1>6

\* A packet is sent that no call waits for.
LEMMA WaitSent ==
    ASSUME NEW W, NEW S \in Seq(SentPacket), NEW P, WaitOK(W, S, P), NEW m \in SentPacket
    PROVE  WaitOK(W, Append(S, m), P)
  <1>. DEFINE A == Append(S, m)
  <1>1. Len(A) = Len(S) + 1 /\ Len(S) \in Nat /\ \A i \in 1 .. Len(S) : A[i] = S[i]
    BY AppendIs
  <1>. HIDE DEF A
  <1>2. ASSUME NEW i \in 1 .. Len(W)
        PROVE  \E j \in 1 .. Len(A) : A[j].seq = W[i].seq /\ A[j].call = W[i].call
    <2>1. PICK j \in 1 .. Len(S) : S[j].seq = W[i].seq /\ S[j].call = W[i].call
      BY Zenon DEF WaitOK
    <2>2. j \in 1 .. Len(A) /\ A[j] = S[j]
      BY <1>1
    <2>. QED  BY Zenon, <2>1, <2>2
  <1>. QED  BY Zenon, <1>2 DEF WaitOK, A

\* A call sends a packet and waits for the answer.
LEMMA WaitMore ==
    ASSUME NEW P \in [Calls -> Stages], NEW W, NEW S \in Seq(SentPacket), WaitOK(W, S, P), NEW c \in Calls,
           P[c] /= "waiting", NEW n \in Nat, NEW kind \in Kinds
    PROVE  WaitOK(Append(W, [seq |-> n, call |-> c]), Append(S, [kind |-> kind, seq |-> n, call |-> c]),
                  [P EXCEPT ![c] = "waiting"])
  <1>. DEFINE m == [kind |-> kind, seq |-> n, call |-> c]
              w == [seq |-> n, call |-> c]
              T == Append(S, m)
              V == Append(W, w)
              R == [P EXCEPT ![c] = "waiting"]
  <1>1. m \in SentPacket /\ w \in Waiter /\ m.seq = n /\ m.call = c /\ w.seq = n /\ w.call = c
    BY Zenon DEF SentPacket, Waiter
  <1>2. R[c] = "waiting"
    BY Zenon
  <1>3. WaitOK(W, S, R)
    BY Zenon, WaitSame
  <1>4. \A i \in 1 .. Len(W) : W[i].call /= c
    BY Zenon DEF WaitOK
  <1>. HIDE DEF m, w, R
  <1>5. WaitOK(W, T, R)
    BY Zenon, <1>1, <1>3, WaitSent
  <1>6. Len(T) = Len(S) + 1 /\ Len(S) \in Nat /\ T[Len(S) + 1] = m
    BY <1>1, AppendIs
  <1>7. /\ V \in Seq(Waiter) /\ Len(V) = Len(W) + 1 /\ Len(W) \in Nat
        /\ \A i \in 1 .. Len(W) + 1 : V[i] = IF i = Len(W) + 1 THEN w ELSE W[i]
    BY <1>1, AppendIs DEF WaitOK
  <1>. HIDE DEF T, V
  <1>8. ASSUME NEW i \in 1 .. Len(V)
        PROVE  R[V[i].call] = "waiting" /\ \E j \in 1 .. Len(T) : T[j].seq = V[i].seq /\ T[j].call = V[i].call
    <2>1. CASE i = Len(W) + 1
      <3>1. V[i] = w /\ Len(S) + 1 \in 1 .. Len(T)
        BY <1>6, <1>7, <2>1
      <3>2. T[Len(S) + 1].seq = V[i].seq /\ T[Len(S) + 1].call = V[i].call /\ R[V[i].call] = "waiting"
        BY Zenon, <1>1, <1>2, <1>6, <3>1
      <3>. QED  BY Zenon, <3>1, <3>2
    <2>2. CASE i /= Len(W) + 1
      <3>1. i \in 1 .. Len(W) /\ V[i] = W[i]
        BY <1>7, <2>2
      <3>2. /\ R[W[i].call] = "waiting"
            /\ \E j \in 1 .. Len(T) : T[j].seq = W[i].seq /\ T[j].call = W[i].call
        BY <1>5, <3>1, WaitHas
      <3>. QED  BY Zenon, <3>1, <3>2
    <2>. QED  BY Zenon, <2>1, <2>2
  <1>9. ASSUME NEW i \in 1 .. Len(V), NEW j \in 1 .. Len(V), V[i].call = V[j].call
        PROVE  i = j
    <2>1. CASE i = Len(W) + 1 /\ j = Len(W) + 1
      BY Zenon, <2>1
    <2>2. CASE i /= Len(W) + 1 /\ j /= Len(W) + 1
      <3>1. i \in 1 .. Len(W) /\ j \in 1 .. Len(W) /\ V[i] = W[i] /\ V[j] = W[j]
        BY <1>7, <2>2
      <3>2. W[i].call = W[j].call
        BY Zenon, <1>9, <3>1
      <3>. QED  BY Zenon, <3>1, <3>2 DEF WaitOK
    <2>3. CASE i = Len(W) + 1 /\ j /= Len(W) + 1
      BY <1>1, <1>4, <1>7, <1>9, <2>3
    <2>4. CASE i /= Len(W) + 1 /\ j = Len(W) + 1
      BY <1>1, <1>4, <1>7, <1>9, <2>4
    <2>. QED  BY Zenon, <2>1, <2>2, <2>3, <2>4
  <1>. QED  BY Zenon, <1>7, <1>8, <1>9 DEF WaitOK, V, T, R, m, w

-----------------------------------------------------------------------------
\* A call that is made, and one that enters the queue.
LEMMA CallsKeep ==
    ASSUME CallInv, NEW c \in Calls, NEW v \in Early, progress[c] \in Early \ {"queued"},
           progress' = [progress EXCEPT ![c] = v],
           queue' = IF v = "queued" THEN Append(queue, c) ELSE queue,
           list' = list, ops' = ops, sent' = sent, next_seq' = next_seq, waiting' = waiting
    PROVE  CallInv'
  <1>0. progress \in [Calls -> Stages] /\ progress[c] \notin Past /\ progress[c] /= "waiting" /\ progress[c] /= "queued"
    BY Zenon DEF CallInv, Stages, Early, Past
  <1>1. progress' \in [Calls -> Stages]
    BY Zenon, <1>0 DEF Stages
  <1>2. QueueOK(queue', progress')
    BY Zenon, <1>0, QueueSame, QueueMore DEF CallInv
  <1>3. ListOK(list', progress')
    BY Zenon, <1>0, SelfThins, ListSame DEF CallInv
  <1>4. OpsOK(ops', list', progress')
    <2>1. ops \subseteq Op /\ \A o \in ops : o.call /= c
      BY Zenon, <1>0 DEF CallInv, OpsOK
    <2>2. Grows(list, list, c) /\ OpsMove(ops, ops, list, c, v)
      BY Zenon, <2>1 DEF Grows, OpsMove
    <2>3. OpsOK(ops, list, progress)
      BY Zenon DEF CallInv
    <2>4. OpsOK(ops, list, [progress EXCEPT ![c] = v])
      BY Zenon, <1>0, <2>2, <2>3, OpsKeep
    <2>. QED  BY Zenon, <2>4
  <1>5. SentOK(sent', next_seq', progress')
    BY Zenon, <1>0, SentSame DEF CallInv
  <1>6. WaitOK(waiting', sent', progress')
    BY Zenon, <1>0, WaitSame DEF CallInv
  <1>7. HeardOK(list', waiting', progress')
    <2>1. list \in Seq(Calls) /\ HeardOK(list, waiting, progress) /\ v /= "waiting"
      BY Zenon DEF CallInv, ListOK, Early
    <2>2. HeardOK(list, waiting, [progress EXCEPT ![c] = v])
      <3>1. Grows(list, list, c) /\ Holds(waiting, waiting)
        BY Zenon DEF Grows, Holds
      <3>. QED  BY Zenon, <1>0, <2>1, <3>1, HeardMore
    <2>. QED  BY Zenon, <2>2
  <1>. QED  BY Zenon, <1>1, <1>2, <1>3, <1>4, <1>5, <1>6, <1>7 DEF CallInv, Stages

\* A call leaves the queue, or was past it.
Taken(c) ==
    \/ queue /= <<>> /\ c = Head(queue) /\ queue' = Tail(queue)
    \/ progress[c] \in Past /\ queue' = queue

\* What is left of the queue is queued.
LEMMA TakenKeeps ==
    ASSUME CallInv, NEW c \in Calls, Taken(c), NEW v
    PROVE  /\ QueueOK(queue', [progress EXCEPT ![c] = v])
           /\ queue' /= queue => progress[c] = "queued"
           /\ progress[c] = "queued" \/ progress[c] \in Past
  <1>0. progress \in [Calls -> Stages] /\ QueueOK(queue, progress)
    BY Zenon DEF CallInv, Stages
  <1>1. CASE queue /= <<>> /\ c = Head(queue) /\ queue' = Tail(queue)
    BY Zenon, <1>0, <1>1, QueueTail
  <1>2. CASE progress[c] \in Past /\ queue' = queue
    <2>1. progress[c] /= "queued"
      BY Zenon, <1>2 DEF Past
    <2>. QED  BY Zenon, <1>0, <1>2, <2>1, QueueSame
  <1>. QED  BY Zenon, <1>1, <1>2 DEF Taken

\* A call ends: no list has it any more.
LEMMA EndsKeep ==
    ASSUME CallInv, NEW c \in Calls, Taken(c), progress' = [progress EXCEPT ![c] = "ended"],
           Thins(list', list), \A k \in 1 .. Len(list') : list'[k] /= c,
           Unlisted(waiting', waiting, c), ops' \in SUBSET ops, sent' = sent, next_seq' = next_seq
    PROVE  CallInv'
  <1>0. progress \in [Calls -> Stages] /\ "ended" \in Past /\ Past \subseteq Stages
    BY Zenon DEF CallInv, Stages, Past
  <1>1. progress' \in [Calls -> Stages]
    BY Zenon, <1>0
  <1>2. QueueOK(queue', progress')
    BY Zenon, TakenKeeps
  <1>3. ListOK(list', progress')
    BY Zenon, <1>0, ListSame DEF CallInv
  <1>4. OpsOK(ops', list', progress')
    <2>1. OpsOK(ops, list, progress) /\ ops' \in SUBSET Op
      BY Zenon DEF CallInv, OpsOK
    <2>2. Grows(list', list, c) /\ OpsMove(ops', ops, list', c, "ended")
      BY Zenon, <2>1 DEF Thins, Grows, OpsMove
    <2>3. OpsOK(ops', list', [progress EXCEPT ![c] = "ended"])
      BY Zenon, <1>0, <2>1, <2>2, OpsKeep
    <2>. QED  BY Zenon, <2>3
  <1>5. SentOK(sent', next_seq', progress')
    BY Zenon, <1>0, SentSame DEF CallInv
  <1>6. WaitOK(waiting', sent', progress')
    BY Zenon, <1>0, WaitLess DEF CallInv
  <1>7. HeardOK(list', waiting', progress')
    <2>1. list \in Seq(Calls) /\ HeardOK(list, waiting, progress)
      BY Zenon DEF CallInv, ListOK
    <2>2. HeardOK(list', waiting', [progress EXCEPT ![c] = "ended"])
      BY Zenon, <1>0, <2>1, HeardLess
    <2>. QED  BY Zenon, <2>2
  <1>. QED  BY Zenon, <1>1, <1>2, <1>3, <1>4, <1>5, <1>6, <1>7 DEF CallInv, Stages

-----------------------------------------------------------------------------
\* A call of the list has one operation in flight at most.
LEMMA OneOp ==
    ASSUME CallInv, NEW o \in ops, o.call \in Range(list)
    PROVE  /\ \A q \in ops \ {o} : q.call /= o.call
           /\ o.call \in Calls /\ progress[o.call] = Stage(o.op) /\ progress[o.call] \in Past
           /\ o.op \in {"connect", "bye", "close"} /\ (o.op = "connect" => o.call \in Connects)
           /\ progress[o.call] \notin {"waiting", "queued"}
  <1>1. PICK k \in 1 .. Len(list) : list[k] = o.call
    <2>1. \E k \in DOMAIN list : list[k] = o.call
      BY Zenon DEF Range
    <2>2. DOMAIN list = 1 .. Len(list)
      BY DEF CallInv, ListOK
    <2>. QED  BY Zenon, <2>1, <2>2
  <1>2. \A q \in ops : q \in Op /\ (q.call = o.call => progress[o.call] = Stage(q.op))
    BY Zenon, <1>1 DEF CallInv, OpsOK
  <1>3. \A q \in ops : q.op \in {"connect", "bye", "close"} /\ q.call \in Calls /\ q = [op |-> q.op, call |-> q.call]
    BY <1>2 DEF Op
  <1>4. \A a, b \in {"connect", "bye", "close"} : Stage(a) = Stage(b) => a = b
    BY Zenon DEF Stage
  <1>5. ASSUME NEW q \in ops \ {o} PROVE q.call /= o.call
    BY Zenon, <1>2, <1>3, <1>4
  <1>6. Stage(o.op) \in {"connecting", "bye", "closing"}
    BY Zenon, <1>3 DEF Stage
  <1>7. o.op = "connect" => o.call \in Connects
    BY Zenon DEF CallInv, OpsOK
  <1>. QED  BY Zenon, <1>2, <1>3, <1>5, <1>6, <1>7 DEF Past

\* The call at the head of the queue has no operation in flight.
LEMMA NoOp ==
    ASSUME CallInv, NEW c, progress[c] \notin Past
    PROVE  \A q \in ops : q.call /= c
  BY Zenon DEF CallInv, OpsOK

\* A call moves on: it enters the list, or is in it, and starts something.
LEMMA MovesKeep ==
    ASSUME CallInv, NEW c \in Calls, Taken(c), NEW v \in Past, progress' = [progress EXCEPT ![c] = v],
           list' = IF progress[c] = "queued" THEN Append(list, c) ELSE list,
           OpsMove(ops', ops, list', c, v),
           SentOK(sent', next_seq', progress'), WaitOK(waiting', sent', progress'),
           Holds(waiting', waiting),
           v = "waiting" => \E k \in 1 .. Len(waiting') : waiting'[k].call = c
    PROVE  CallInv'
  <1>0. progress \in [Calls -> Stages] /\ Past \subseteq Stages /\ "queued" \notin Past
    BY Zenon DEF CallInv, Stages, Past
  <1>1. progress' \in [Calls -> Stages]
    BY Zenon, <1>0
  <1>2. QueueOK(queue', progress')
    BY Zenon, TakenKeeps
  <1>3. ListOK(list', progress')
    BY Zenon, <1>0, ListMore, ListSame, SelfThins DEF CallInv
  <1>4. list \in Seq(Calls) /\ list' \in Seq(Calls)
    BY Zenon, <1>3 DEF CallInv, ListOK
  <1>5. Grows(list', list, c)
    <2>1. CASE list' = list
      BY Zenon, <2>1 DEF Grows
    <2>2. CASE list' = Append(list, c)
      <3>1. /\ Len(list') = Len(list) + 1 /\ Len(list) \in Nat
            /\ \A i \in 1 .. Len(list) + 1 : list'[i] = IF i = Len(list) + 1 THEN c ELSE list[i]
        BY <1>4, <2>2, AppendIs
      <3>. QED  BY <3>1 DEF Grows
    <2>. QED  BY Zenon, <2>1, <2>2
  <1>6. OpsOK(ops', list', progress')
    <2>1. OpsOK(ops, list, progress)
      BY Zenon DEF CallInv
    <2>2. OpsOK(ops', list', [progress EXCEPT ![c] = v])
      BY Zenon, <1>0, <1>5, <2>1, OpsKeep
    <2>. QED  BY Zenon, <2>2
  <1>7. HeardOK(list', waiting', progress')
    <2>1. HeardOK(list, waiting, progress)
      BY Zenon DEF CallInv
    <2>2. HeardOK(list', waiting', [progress EXCEPT ![c] = v])
      BY Zenon, <1>0, <1>4, <1>5, <2>1, HeardMore
    <2>. QED  BY Zenon, <2>2
  <1>. QED  BY Zenon, <1>1, <1>2, <1>3, <1>6, <1>7 DEF CallInv, Stages

\* It starts an operation, and sends nothing.
LEMMA StartsKeep ==
    ASSUME CallInv, NEW c \in Calls, Taken(c), NEW op \in {"connect", "close"},
           progress' = [progress EXCEPT ![c] = Stage(op)], op = "connect" => c \in Connects,
           list' = IF progress[c] = "queued" THEN Append(list, c) ELSE list, progress[c] /= "waiting",
           NEW O \in SUBSET ops, ops' = O \cup {[op |-> op, call |-> c]}, \A o \in O : o.call /= c,
           sent' = sent, next_seq' = next_seq, waiting' = waiting
    PROVE  CallInv'
  <1>0. progress \in [Calls -> Stages] /\ Stage(op) \in Past /\ Stage(op) /= "waiting"
    BY Zenon DEF CallInv, Stages, Past, Stage
  <1>1. [op |-> op, call |-> c] \in Op /\ ops \subseteq Op
    BY Zenon DEF Op, CallInv, OpsOK
  <1>2. OpsMove(ops', ops, list', c, Stage(op)) /\ Holds(waiting', waiting)
    BY <1>0, <1>1 DEF OpsMove, Holds
  <1>3. SentOK(sent', next_seq', progress')
    BY Zenon, <1>0, SentSame DEF CallInv
  <1>4. WaitOK(waiting', sent', progress')
    BY Zenon, <1>0, WaitSame DEF CallInv
  <1>. QED  BY Zenon, <1>0, <1>2, <1>3, <1>4, MovesKeep

-----------------------------------------------------------------------------
\* client_next_seq does not wrap around while a call is left to send.
LEMMA NextSeqIs ==
    ASSUME FewCalls, NEW S, NEW P, SentOK(S, next_seq + 2, P), next_seq \in Nat
    PROVE  client_next_seq = next_seq + 2
  <1>1. next_seq + 2 < SEQ_LIMIT /\ SEQ_LIMIT \in Nat
    BY Zenon, SentFits, ClientAssumption
  <1>2. (next_seq + 2) % SEQ_LIMIT /= 0
    BY <1>1, RemainderIs
  <1>. QED  BY Zenon, <1>2 DEF client_next_seq

\* client_task_send_and_queue: a call sends a packet and waits.
LEMMA SendsKeep ==
    ASSUME CallInv, FewCalls, NEW c \in Calls, Taken(c), NEW kind \in {"HELLO", "MESSAGE"},
           MaySend(kind, sent, progress, c), progress[c] /= "waiting",
           client_task_send_and_queue(kind, next_seq, c), next_seq' \in {client_next_seq, next_seq + 2},
           list' = IF progress[c] = "queued" THEN Append(list, c) ELSE list,
           ops' \in SUBSET ops, \A o \in ops' : o.call /= c
    PROVE  CallInv'
  <1>. DEFINE m == [kind |-> kind, seq |-> next_seq, call |-> c]
              R == [progress EXCEPT ![c] = "waiting"]
  <1>0. /\ progress \in [Calls -> Stages] /\ "waiting" \in Past /\ "queued" \notin Past /\ kind \in Kinds
        /\ SentOK(sent, next_seq, progress) /\ WaitOK(waiting, sent, progress)
    BY Zenon DEF CallInv, Stages, Past, Kinds
  <1>1. /\ sent' = Append(sent, m) /\ progress' = R
        /\ waiting' = Append(waiting, [seq |-> next_seq, call |-> c])
    BY Zenon DEF client_task_send_and_queue, Write
  <1>2. SentOK(Append(sent, m), next_seq + 2, R) /\ next_seq \in Nat /\ m \in SentPacket
    BY Zenon, <1>0, SentMore
  <1>3. next_seq' = next_seq + 2
    BY Zenon, <1>2, NextSeqIs
  <1>4. sent \in Seq(SentPacket)
    BY Zenon, <1>0 DEF SentOK
  <1>5. WaitOK(waiting', sent', progress')
    BY Zenon, <1>0, <1>1, <1>2, <1>4, WaitMore
  <1>6. OpsMove(ops', ops, list', c, "waiting")
    BY Zenon DEF OpsMove, CallInv, OpsOK
  <1>7. Holds(waiting', waiting) /\ \E k \in 1 .. Len(waiting') : waiting'[k].call = c
    <2>. DEFINE w == [seq |-> next_seq, call |-> c]
    <2>1. waiting \in Seq(Waiter) /\ w \in Waiter /\ w.call = c
      BY Zenon, <1>0, <1>2 DEF WaitOK, Waiter
    <2>. HIDE DEF w
    <2>2. /\ Len(waiting') = Len(waiting) + 1 /\ Len(waiting) \in Nat
          /\ \A i \in 1 .. Len(waiting) : waiting'[i] = waiting[i]
          /\ waiting'[Len(waiting) + 1] = w
      BY <1>1, <2>1, AppendIs DEF w
    <2>3. Len(waiting) + 1 \in 1 .. Len(waiting') /\ \A i \in 1 .. Len(waiting) : i \in 1 .. Len(waiting')
      BY <2>2
    <2>4. waiting'[Len(waiting) + 1].call = c
      BY Zenon, <2>1, <2>2
    <2>. QED  BY Zenon, <2>2, <2>3, <2>4 DEF Holds
  <1>8. SentOK(sent', next_seq', progress')
    BY Zenon, <1>1, <1>2, <1>3
  <1>. HIDE DEF m, R
  <1>. QED  BY Zenon, <1>0, <1>1, <1>5, <1>6, <1>7, <1>8, MovesKeep DEF R

\* send_bye, which waits for no answer.
LEMMA ByeKeeps ==
    ASSUME CallInv, FewCalls, NEW c \in Calls, Taken(c), progress[c] = "queued", sent /= <<>>,
           Write("BYE", next_seq, c), next_seq' = client_next_seq, progress' = [progress EXCEPT ![c] = "bye"],
           list' = Append(list, c), ops' = ops \cup {[op |-> "bye", call |-> c]}, waiting' = waiting
    PROVE  CallInv'
  <1>. DEFINE m == [kind |-> "BYE", seq |-> next_seq, call |-> c]
              R == [progress EXCEPT ![c] = "bye"]
  <1>0. /\ progress \in [Calls -> Stages] /\ "bye" \in Past /\ "queued" \notin Past /\ "BYE" \in Kinds
        /\ SentOK(sent, next_seq, progress) /\ WaitOK(waiting, sent, progress) /\ ops \subseteq Op
    BY Zenon DEF CallInv, Stages, Past, Kinds, OpsOK
  <1>1. sent' = Append(sent, m)
    BY Zenon DEF Write
  <1>2. SentOK(Append(sent, m), next_seq + 2, R) /\ next_seq \in Nat /\ m \in SentPacket
    <2>1. MaySend("BYE", sent, progress, c)
      BY Zenon, <1>0 DEF MaySend
    <2>. QED  BY Zenon, <1>0, <2>1, SentMore
  <1>3. next_seq' = next_seq + 2
    BY Zenon, <1>2, NextSeqIs
  <1>4. sent \in Seq(SentPacket)
    BY Zenon, <1>0 DEF SentOK
  <1>5. WaitOK(waiting', sent', progress')
    <2>1. WaitOK(waiting, sent, R)
      BY Zenon, <1>0, WaitSame
    <2>. HIDE DEF R, m
    <2>. QED  BY Zenon, <1>1, <1>2, <1>4, <2>1, WaitSent DEF R
  <1>6. OpsMove(ops', ops, list', c, "bye")
    <2>1. [op |-> "bye", call |-> c] \in Op /\ Stage("bye") = "bye" /\ \A o \in ops : o.call /= c
      BY Zenon, <1>0, NoOp DEF Op, Stage
    <2>. QED  BY <1>0, <2>1 DEF OpsMove
  <1>7. Holds(waiting', waiting)
    BY Zenon DEF Holds
  <1>8. SentOK(sent', next_seq', progress')
    BY Zenon, <1>1, <1>2, <1>3
  <1>. HIDE DEF m, R
  <1>. QED  BY Zenon, <1>0, <1>5, <1>6, <1>7, <1>8, MovesKeep

-----------------------------------------------------------------------------
\* What is sent is what the server has to answer, and its answers stay right.
LEMMA TalkSent ==
    ASSUME TalkInv, sent \in Seq(SentPacket), NEW m \in SentPacket, sent' = Append(sent, m),
           asked' \in {asked, asked \cup {m}}, toClient' = toClient, signals' = signals, api' = api
    PROVE  TalkInv'
  <1>1. /\ Len(sent') = Len(sent) + 1 /\ Len(sent) \in Nat
        /\ \A i \in 1 .. Len(sent) : sent'[i] = sent[i]
        /\ sent'[Len(sent) + 1] = m
    BY AppendIs
  <1>2. \A i \in 1 .. Len(sent) : i \in 1 .. Len(sent')
    BY <1>1
  <1>3. AskedOK(asked', sent')
    <2>1. Len(sent) + 1 \in 1 .. Len(sent')
      BY <1>1
    <2>2. AskedOK(asked, sent)
      BY Zenon DEF TalkInv
    <2>3. ASSUME NEW x \in asked PROVE \E j \in 1 .. Len(sent') : sent'[j] = x
      BY Zenon, <1>1, <1>2, <2>2, <2>3 DEF AskedOK
    <2>4. \E j \in 1 .. Len(sent') : sent'[j] = m
      BY Zenon, <1>1, <2>1
    <2>5. asked' \subseteq SentPacket
      BY Zenon, <2>2 DEF AskedOK
    <2>. QED  BY Zenon, <2>3, <2>4, <2>5 DEF AskedOK
  <1>4. HeardFrom(toClient, sent)
    BY Zenon DEF TalkInv
  <1>5. ASSUME NEW k \in 1 .. Len(toClient), toClient[k].kind \in {"HELLO", "RESPONSE"}
        PROVE  \E j \in 1 .. Len(sent') : AnswerOf(toClient[k], sent'[j])
    <2>1. PICK j \in 1 .. Len(sent) : AnswerOf(toClient[k], sent[j])
      BY Zenon, <1>4, <1>5 DEF HeardFrom
    <2>2. AnswerOf(toClient[k], sent'[j])
      BY Zenon, <1>1, <2>1
    <2>. QED  BY Zenon, <1>2, <2>2
  <1>6. HeardFrom(toClient, sent)'
    <2>1. ASSUME NEW k \in 1 .. Len(toClient'), toClient'[k].kind \in {"HELLO", "RESPONSE"}
          PROVE  \E j \in 1 .. Len(sent') : AnswerOf(toClient[k], sent[j])'
      <3>1. PICK j \in 1 .. Len(sent') : AnswerOf(toClient[k], sent'[j])
        BY Zenon, <1>5, <2>1
      <3>2. AnswerOf(toClient[k], sent[j])'
        BY Zenon, <3>1 DEF AnswerOf
      <3>. QED  BY Zenon, <3>2
    <2>. QED  BY Zenon, <1>4, <2>1 DEF HeardFrom
  <1>. QED  BY Zenon, <1>3, <1>6 DEF TalkInv, ApiInv

\* Packets that are read, or that answer what was sent, keep it.
LEMMA TalkHeard ==
    ASSUME TalkInv, sent' = sent, asked' \in SUBSET asked, api' = api, signals' \in Nat,
           toClient' \in Seq(Received),
           \A k \in 1 .. Len(toClient') : toClient'[k].kind \in {"HELLO", "RESPONSE"} =>
               \/ \E i \in 1 .. Len(toClient) : toClient'[k] = toClient[i]
               \/ \E j \in 1 .. Len(sent) : AnswerOf(toClient'[k], sent[j])
    PROVE  TalkInv'
  <1>1. AskedOK(asked', sent')
    BY Zenon DEF TalkInv, AskedOK
  <1>2. HeardFrom(toClient, sent)
    BY Zenon DEF TalkInv
  <1>3. ASSUME NEW k \in 1 .. Len(toClient'), toClient'[k].kind \in {"HELLO", "RESPONSE"}
        PROVE  \E j \in 1 .. Len(sent) : AnswerOf(toClient'[k], sent[j])
    <2>1. CASE \E i \in 1 .. Len(toClient) : toClient'[k] = toClient[i]
      <3>1. PICK i \in 1 .. Len(toClient) : toClient'[k] = toClient[i]
        BY Zenon, <2>1
      <3>2. toClient[i].kind \in {"HELLO", "RESPONSE"}
        BY Zenon, <1>3, <3>1
      <3>3. PICK j \in 1 .. Len(sent) : AnswerOf(toClient[i], sent[j])
        BY Zenon, <1>2, <3>2 DEF HeardFrom
      <3>4. AnswerOf(toClient'[k], sent[j])
        BY Zenon, <3>1, <3>3
      <3>. QED  BY Zenon, <3>4
    <2>. QED  BY Zenon, <1>3, <2>1
  <1>4. HeardFrom(toClient, sent)'
    BY Zenon, <1>3 DEF HeardFrom, AnswerOf
  <1>. QED  BY Zenon, <1>1, <1>4 DEF TalkInv, ApiInv
==============================================================================
