--------------------------- MODULE ServerSentProofs ---------------------------
(***************************************************************************)
(* What a server sends, for any number of clients, threads, requests and   *)
(* events: a response reaches the client that asked, unless it has left,   *)
(* and the packet that a signal shares among the clients is counted once   *)
(* for each of its writes.                                                 *)
(***************************************************************************)
EXTENDS ServerProofs

\* The clients that have left, for handles H.
Left(H) == {q \in Peers : H[q] \in {"closing", "gone"}}

\* The responses in the writes W of client p answer requests up to L, each number
\* once, and none that is in O, the ones still to be answered.  They were asked
\* for by p or by a client of G, those that have left.
AnswersOf(p, W, L, O, G) ==
    \A j \in 1 .. Len(W) : W[j].kind = "RESPONSE" =>
        /\ W[j].arg[1] \in G \cup {p} /\ W[j].arg[2] \in (1 .. L) \ O
        /\ \A k \in 1 .. Len(W) : W[k].kind = "RESPONSE" /\ W[k].arg[2] = W[j].arg[2] => k = j

\* The responses of a queue are addressed to the slot of the client that asked,
\* unless it has left.
NamedBy(Q, C, G) ==
    \A k \in 1 .. Len(Q) : Q[k].op = "respond" =>
        Q[k].arg \in Peers \X (1 .. MaxSeq) /\ (C[Q[k].target] = Q[k].arg[1] \/ Q[k].arg[1] \in G)

\* The requests a client waits for are requests it made.
OpenInv == open \in [Peers -> SUBSET (1 .. MaxSeq)] /\ \A p \in Peers : open[p] \subseteq 1 .. last[p]

\* The responses that are written answer the client they are written to, and
\* the ones that are queued are addressed to the client that asked.
AnswerInv ==
    /\ OpenInv
    /\ NamedBy(queue, clients, Left(handle))
    /\ \A p \in Peers : AnswersOf(p, writes[p], last[p], open[p], Left(handle))

\* A write that is no response changes nothing of the answers of a client.
LEMMA OtherWriteKeeps ==
    ASSUME NEW p, NEW W \in Seq(Write), NEW L \in Nat, NEW O, NEW G, AnswersOf(p, W, L, O, G),
           NEW w \in Write, w.kind /= "RESPONSE"
    PROVE  AnswersOf(p, Append(W, w), L, O, G)
  <1>. DEFINE A == Append(W, w)
  <1>1. /\ Len(W) \in Nat /\ Len(A) = Len(W) + 1
        /\ \A k \in 1 .. Len(W) : A[k] = W[k]
        /\ A[Len(W) + 1] = w
    BY AppendIs
  <1>. HIDE DEF A
  <1>2. \A k \in 1 .. Len(A) : k \in 1 .. Len(W) \/ k = Len(W) + 1
    BY <1>1
  <1>3. AnswersOf(p, A, L, O, G)
    BY Zenon, <1>1, <1>2 DEF AnswersOf
  <1>. QED  BY Zenon, <1>3 DEF A

\* The response to a request still to be answered keeps the answers single.
LEMMA AnswerAdded ==
    ASSUME NEW p, NEW W \in Seq(Write), NEW L \in Nat, NEW O, NEW G, AnswersOf(p, W, L, O, G),
           NEW M \in Nat, L <= M, NEW P \in SUBSET O, NEW w \in Write, NEW s \in 1 .. M,
           w.kind = "RESPONSE", w.arg[1] \in G \cup {p}, w.arg[2] = s, s \notin P, s \in O \/ s > L
    PROVE  AnswersOf(p, Append(W, w), M, P, G)
  <1>. DEFINE A == Append(W, w)
  <1>1. /\ Len(W) \in Nat /\ Len(A) = Len(W) + 1
        /\ \A k \in 1 .. Len(W) : A[k] = W[k]
        /\ A[Len(W) + 1] = w
    BY AppendIs
  <1>. HIDE DEF A
  <1>2. \A k \in 1 .. Len(A) : k \in 1 .. Len(W) \/ k = Len(W) + 1
    BY <1>1
  <1>3. (1 .. L) \ O \subseteq (1 .. M) \ P /\ s \notin (1 .. L) \ O
    OBVIOUS
  <1>4. \A k \in 1 .. Len(W) : W[k].kind = "RESPONSE" => W[k].arg[2] /= s
    BY Zenon, <1>3 DEF AnswersOf
  <1>5. SUFFICES ASSUME NEW j \in 1 .. Len(A), A[j].kind = "RESPONSE"
                 PROVE  /\ A[j].arg[1] \in G \cup {p} /\ A[j].arg[2] \in (1 .. M) \ P
                        /\ \A k \in 1 .. Len(A) : A[k].kind = "RESPONSE" /\ A[k].arg[2] = A[j].arg[2] => k = j
    BY Zenon DEF AnswersOf, A
  <1>6. CASE j \in 1 .. Len(W)
    <2>1. /\ W[j].arg[1] \in G \cup {p} /\ W[j].arg[2] \in (1 .. L) \ O
          /\ \A k \in 1 .. Len(W) : W[k].kind = "RESPONSE" /\ W[k].arg[2] = W[j].arg[2] => k = j
      BY Zenon, <1>1, <1>5, <1>6 DEF AnswersOf
    <2>2. A[j] = W[j] /\ W[j].arg[2] /= s
      BY Zenon, <1>1, <1>4, <1>5, <1>6
    <2>. QED  BY Zenon, <1>1, <1>2, <1>3, <2>1, <2>2
  <1>7. CASE j = Len(W) + 1
    <2>1. A[j].arg[2] = s /\ A[j].arg[1] \in G \cup {p} /\ s \in (1 .. M) \ P
      BY Zenon, <1>1, <1>7
    <2>2. \A k \in 1 .. Len(A) : A[k].kind = "RESPONSE" /\ A[k].arg[2] = A[j].arg[2] => k = j
      BY Zenon, <1>1, <1>2, <1>4, <1>7, <2>1
    <2>. QED  BY Zenon, <2>1, <2>2
  <1>. QED  BY Zenon, <1>2, <1>6, <1>7

\* A write that ends leaves the answers that follow it.
LEMMA TailAnswers ==
    ASSUME NEW p, NEW W \in Seq(Write), NEW L, NEW O, NEW G, AnswersOf(p, W, L, O, G), W /= <<>>
    PROVE  AnswersOf(p, Tail(W), L, O, G)
  <1>1. /\ Len(W) \in Nat \ {0} /\ Len(Tail(W)) = Len(W) - 1
        /\ \A k \in 1 .. Len(W) - 1 : Tail(W)[k] = W[k + 1]
    BY Zenon, TailIs
  <1>. DEFINE T == Tail(W)
  <1>6. Len(T) = Len(W) - 1 /\ \A k \in 1 .. Len(T) : T[k] = W[k + 1]
    BY Zenon, <1>1
  <1>. HIDE DEF T
  <1>2. SUFFICES ASSUME NEW j \in 1 .. Len(T), T[j].kind = "RESPONSE"
                 PROVE  /\ T[j].arg[1] \in G \cup {p} /\ T[j].arg[2] \in (1 .. L) \ O
                        /\ \A k \in 1 .. Len(T) : T[k].kind = "RESPONSE" /\ T[k].arg[2] = T[j].arg[2] => k = j
    BY Zenon DEF AnswersOf, T
  <1>3. j + 1 \in 1 .. Len(W) /\ \A k \in 1 .. Len(T) : k + 1 \in 1 .. Len(W)
    BY <1>1, <1>6
  <1>4. \A k \in 1 .. Len(T) : W[k + 1].kind = "RESPONSE" /\ W[k + 1].arg[2] = W[j + 1].arg[2] => k + 1 = j + 1
    BY Zenon, <1>2, <1>3, <1>6 DEF AnswersOf
  <1>5. \A k \in 1 .. Len(T) : k + 1 = j + 1 => k = j
    BY <1>1, <1>6
  <1>. QED  BY Zenon, <1>2, <1>3, <1>4, <1>5, <1>6 DEF AnswersOf

\* Clients that leave change nothing of the answers of the others.
LEMMA MoreLeave ==
    ASSUME NEW p, NEW W, NEW L, NEW O, NEW G, NEW H, AnswersOf(p, W, L, O, G), G \subseteq H
    PROVE  AnswersOf(p, W, L, O, H)
  BY Zenon DEF AnswersOf

\* More requests may come, and more clients leave: what was answered stays so.
LEMMA RequestAdded ==
    ASSUME NEW p, NEW W \in Seq(Write), NEW L \in Nat, NEW O, NEW G, AnswersOf(p, W, L, O, G),
           NEW M \in Nat, L <= M, NEW P, P \cap (1 .. L) \subseteq O, NEW H, G \subseteq H
    PROVE  AnswersOf(p, W, M, P, H)
  <1>1. (1 .. L) \ O \subseteq (1 .. M) \ P
    OBVIOUS
  <1>. QED  BY Zenon, <1>1 DEF AnswersOf

\* An answer that is not waited for any more leaves the answers as they are.
LEMMA RequestTaken ==
    ASSUME NEW p, NEW W \in Seq(Write), NEW L \in Nat, NEW O, NEW G, AnswersOf(p, W, L, O, G), NEW s
    PROVE  AnswersOf(p, W, L, O \ {s}, G)
  BY RequestAdded

\* The answer that was waited for is added to what was written.
LEMMA RequestAnswered ==
    ASSUME NEW p, NEW W \in Seq(Write), NEW L \in Nat, NEW O, NEW G, AnswersOf(p, W, L, O, G),
           NEW w \in Write, NEW s \in 1 .. L, s \in O, w.kind = "RESPONSE",
           w.arg[1] \in G \cup {p}, w.arg[2] = s
    PROVE  AnswersOf(p, Append(W, w), L, O \ {s}, G)
  <1>1. L <= L /\ O \ {s} \in SUBSET O /\ s \notin O \ {s}
    OBVIOUS
  <1>. QED  BY Zenon, <1>1, AnswerAdded

\* What is left of a queue names what the queue did.
LEMMA NamedAfter ==
    ASSUME NEW Q \in Seq(LoopRequest), NEW C, NEW G, NamedBy(Q, C, G), Q /= <<>>
    PROVE  NamedBy(Tail(Q), C, G)
  <1>1. /\ Len(Q) \in Nat \ {0} /\ Len(Tail(Q)) = Len(Q) - 1
        /\ \A k \in 1 .. Len(Q) - 1 : Tail(Q)[k] = Q[k + 1] /\ k + 1 \in 1 .. Len(Q)
    BY TailIs
  <1>. DEFINE T == Tail(Q)
  <1>2. \A k \in 1 .. Len(T) : T[k] = Q[k + 1] /\ k + 1 \in 1 .. Len(Q)
    BY Zenon, <1>1
  <1>. HIDE DEF T
  <1>3. NamedBy(T, C, G)
    BY Zenon, <1>2 DEF NamedBy
  <1>. QED  BY Zenon, <1>3 DEF T

\* A response addressed to the client that asked may be queued.
LEMMA NamedAdded ==
    ASSUME NEW Q \in Seq(LoopRequest), NEW C, NEW G, NamedBy(Q, C, G), NEW r \in LoopRequest,
           r.op = "respond" => r.arg \in Peers \X (1 .. MaxSeq) /\ (C[r.target] = r.arg[1] \/ r.arg[1] \in G)
    PROVE  NamedBy(Append(Q, r), C, G)
  <1>. DEFINE A == Append(Q, r)
  <1>1. /\ Len(Q) \in Nat /\ Len(A) = Len(Q) + 1
        /\ \A k \in 1 .. Len(Q) : A[k] = Q[k]
        /\ A[Len(Q) + 1] = r
    BY AppendIs
  <1>. HIDE DEF A
  <1>2. \A k \in 1 .. Len(A) : k \in 1 .. Len(Q) \/ k = Len(Q) + 1
    BY <1>1
  <1>3. NamedBy(A, C, G)
    BY Zenon, <1>1, <1>2 DEF NamedBy
  <1>. QED  BY Zenon, <1>3 DEF A

\* Clients leave the list only when they leave, and nobody takes their slot before.
LEMMA NamedLess ==
    ASSUME NEW Q, NEW C, NEW D, NEW G, NEW H, NamedBy(Q, C, G), G \subseteq H, Q \in Seq(Addressed),
           \A j \in Ids : C[j] \in Peers => D[j] = C[j] \/ C[j] \in H
    PROVE  NamedBy(Q, D, H)
  <1>1. \A k \in 1 .. Len(Q) : Q[k].op = "respond" => Q[k].target \in Ids
    BY DEF Addressed
  <1>2. SUFFICES ASSUME NEW k \in 1 .. Len(Q), Q[k].op = "respond"
                 PROVE  Q[k].arg \in Peers \X (1 .. MaxSeq) /\ (D[Q[k].target] = Q[k].arg[1] \/ Q[k].arg[1] \in H)
    BY Zenon DEF NamedBy
  <1>3. Q[k].arg \in Peers \X (1 .. MaxSeq) /\ (C[Q[k].target] = Q[k].arg[1] \/ Q[k].arg[1] \in G)
    BY Zenon, <1>2 DEF NamedBy
  <1>4. Q[k].arg[1] \in Peers
    BY Zenon, <1>3
  <1>. QED  BY Zenon, <1>1, <1>2, <1>3, <1>4

-----------------------------------------------------------------------------
\* More clients have left: the answers of the others stay.
LEMMA LeavingKeeps ==
    ASSUME IInv, AnswerInv, Left(handle) \subseteq Left(handle'),
           \A j \in Ids : clients[j] \in Peers => clients'[j] = clients[j] \/ clients[j] \in Left(handle'),
           queue' = queue, writes' = writes, last' = last, open' = open
    PROVE  AnswerInv'
  <1>. DEFINE G == Left(handle)  H == Left(handle')
  <1>. HIDE DEF G, H
  <1>1. NamedBy(queue', clients', H)
    BY Zenon, NamedLess DEF AnswerInv, IInv, SentInv, G, H
  <1>2. ASSUME NEW p \in Peers
        PROVE  AnswersOf(p, writes[p], last[p], open[p], H)
    <2>1. AnswersOf(p, writes[p], last[p], open[p], G) /\ G \subseteq H
      BY Zenon DEF AnswerInv, G, H
    <2>. QED  BY Zenon, <2>1 DEF AnswersOf
  <1>. QED  BY Zenon, <1>1, <1>2 DEF AnswerInv, OpenInv, H

\* dicey_server_remove_client.
LEMMA RemoveLeaves ==
    ASSUME IInv, NEW i \in Ids, clients[i] /= NULL, remove_client(i)
    PROVE  /\ Left(handle) \subseteq Left(handle')
           /\ \A j \in Ids : clients[j] \in Peers => clients'[j] = clients[j] \/ clients[j] \in Left(handle')
  <1>1. clients[i] \in Peers
    BY Zenon, SlotIsOpen DEF IInv
  <1>2. /\ \A p \in Peers : handle'[p] = IF p = clients[i] THEN "closing" ELSE handle[p]
        /\ \A j \in Ids : clients'[j] = IF j = i THEN NULL ELSE clients[j]
    BY Zenon, <1>1 DEF IInv, ListInv, remove_client
  <1>. QED  BY Zenon, <1>1, <1>2 DEF Left

\* on_connect: the slot was free, so that it is no other client's.
LEMMA ConnectAnswers ==
    ASSUME IInv, AnswerInv, NEW p \in Peers, on_connect(p)
    PROVE  AnswerInv'
  <1>1. PICK i \in Ids :
            /\ clients[i] = NULL
            /\ clients' = [clients EXCEPT ![i] = p] \/ clients' = clients
    BY Zenon DEF on_connect
  <1>2. /\ handle' = [handle EXCEPT ![p] = "open"] \/ handle' = [handle EXCEPT ![p] = "closing"]
        /\ handle[p] = "none" /\ queue' = queue /\ open' = open /\ last' = last /\ writes' = writes
    BY Zenon DEF on_connect, callVars, sentVars
  <1>3. Left(handle) \subseteq Left(handle')
    <2>1. \A q \in Peers : q /= p => handle'[q] = handle[q]
      BY Zenon, <1>2 DEF IInv, ListInv
    <2>. QED  BY Zenon, <1>2, <2>1 DEF Left
  <1>4. \A j \in Ids : clients[j] \in Peers => clients'[j] = clients[j]
    BY Zenon, <1>1, ServerAssumption DEF IInv, ListInv
  <1>. QED  BY Zenon, <1>2, <1>3, <1>4, LeavingKeeps

\* A packet other than a response is written to some clients.
LEMMA OtherAnswers ==
    ASSUME IInv, AnswerInv,
           \A p \in Peers : writes'[p] = writes[p]
                            \/ \E w \in Write : w.kind /= "RESPONSE" /\ writes'[p] = Append(writes[p], w),
           open' = open, last' = last, handle' = handle
    PROVE  \A p \in Peers : AnswersOf(p, writes'[p], last'[p], open'[p], Left(handle'))
  <1>1. SUFFICES ASSUME NEW p \in Peers
                 PROVE  AnswersOf(p, writes'[p], last[p], open[p], Left(handle))
    BY Zenon
  <1>2. AnswersOf(p, writes[p], last[p], open[p], Left(handle)) /\ writes[p] \in Seq(Write) /\ last[p] \in Nat
    BY ServerAssumption DEF AnswerInv, IInv, SentInv, HeldInv
  <1>. QED  BY Zenon, <1>2, OtherWriteKeeps

\* server_sendpkt, for a packet that is no response, or that is not sent.
LEMMA SendAnswers ==
    ASSUME IInv, AnswerInv, NEW p \in Peers, handle[p] = "open", NEW kind \in Kinds \ {"RESPONSE"},
           NEW arg \in Args, sendpkt(p, kind, arg) \/ UNCHANGED writes, open' = open, last' = last,
           queue' = queue, clients' = clients, handle' = handle
    PROVE  AnswerInv'
  <1>1. Packet(kind, p, arg) \in Write /\ Packet(kind, p, arg).kind /= "RESPONSE"
    <2>1. Packet(kind, p, arg) \in Write
      BY Zenon, OpenHasId, PacketIsWrite DEF IInv
    <2>. QED  BY Zenon, <2>1 DEF Packet
  <1>2. \A q \in Peers : \/ writes'[q] = writes[q]
                         \/ \E w \in Write : w.kind /= "RESPONSE" /\ writes'[q] = Append(writes[q], w)
    BY Zenon, <1>1 DEF sendpkt, IInv, SentInv
  <1>3. \A q \in Peers : AnswersOf(q, writes'[q], last'[q], open'[q], Left(handle'))
    BY Zenon, <1>2, OtherAnswers
  <1>. QED  BY Zenon, <1>3 DEF AnswerInv, OpenInv

\* A request of a client is numbered: its last number is one more.
LEMMA NextNumber ==
    ASSUME IInv, AnswerInv, NEW p \in Peers, last[p] < MaxSeq
    PROVE  /\ last[p] \in Nat /\ last[p] + 1 \in Nat /\ last[p] <= last[p] + 1
           /\ last[p] + 1 \in 1 .. MaxSeq /\ last[p] + 1 \in 1 .. last[p] + 1 /\ last[p] + 1 > last[p]
           /\ writes[p] \in Seq(Write) /\ last[p] + 1 \notin open[p]
           /\ AnswersOf(p, writes[p], last[p], open[p], Left(handle))
           /\ AnswersOf(p, writes[p], last[p] + 1, open[p], Left(handle))
  <1>1. last[p] \in 0 .. MaxSeq /\ open[p] \subseteq 1 .. last[p]
    BY Zenon DEF IInv, HeldInv, AnswerInv, OpenInv
  <1>2. /\ last[p] \in Nat /\ last[p] + 1 \in Nat /\ last[p] <= last[p] + 1
        /\ last[p] + 1 \in 1 .. MaxSeq /\ last[p] + 1 \in 1 .. last[p] + 1 /\ last[p] + 1 > last[p]
        /\ last[p] + 1 \notin open[p]
    BY <1>1, ServerAssumption
  <1>3. writes[p] \in Seq(Write) /\ AnswersOf(p, writes[p], last[p], open[p], Left(handle))
    BY Zenon DEF IInv, SentInv, AnswerInv
  <1>4. open[p] \cap (1 .. last[p]) \subseteq open[p]
    BY Zenon
  <1>5. AnswersOf(p, writes[p], last[p] + 1, open[p], Left(handle))
    BY Zenon, <1>2, <1>3, <1>4, RequestAdded
  <1>. QED  BY Zenon, <1>2, <1>3, <1>5

\* client_got_message.
LEMMA MessageAnswers ==
    ASSUME IInv, AnswerInv, NEW p \in Peers, handle[p] = "open", last[p] < MaxSeq,
           answered_at_once(p) \/ user_failed(p) \/ given_to_user(p)
    PROVE  AnswerInv'
  <1>1. /\ last' = [last EXCEPT ![p] = @ + 1]
        /\ queue' = queue /\ clients' = clients /\ handle' = handle
    BY Zenon DEF answered_at_once, user_failed, given_to_user, callVars
  <1>2. \A q \in Peers : last'[q] = IF q = p THEN last[p] + 1 ELSE last[q]
    BY Zenon, <1>1 DEF IInv, HeldInv
  <1>3. NamedBy(queue', clients', Left(handle'))
    BY Zenon, <1>1 DEF AnswerInv
  <1>4. SUFFICES ASSUME NEW W, \A q \in Peers : writes'[q] = IF q = p THEN W ELSE writes[q],
                        AnswersOf(p, W, last[p] + 1, open[p], Left(handle)), open' = open
                 PROVE  AnswerInv'
    <2>1. CASE answered_at_once(p) \/ user_failed(p)
      <3>1. open' = open
        BY Zenon, <2>1 DEF answered_at_once, user_failed
      <3>2. CASE sendpkt(p, "RESPONSE", <<p, last[p] + 1>>)
        <4>. DEFINE w == Packet("RESPONSE", p, <<p, last[p] + 1>>)
        <4>1. w \in Write
          BY Zenon, NextNumber, OpenHasId, PacketIsWrite DEF IInv, Kinds, Args
        <4>2. w.kind = "RESPONSE" /\ w.arg = <<p, last[p] + 1>>
          BY Zenon DEF Packet
        <4>3. \A q \in Peers : writes'[q] = IF q = p THEN Append(writes[p], w) ELSE writes[q]
          BY Zenon, <3>2 DEF sendpkt, IInv, SentInv
        <4>. HIDE DEF w
        <4>4. w.arg[1] \in Left(handle) \cup {p} /\ w.arg[2] = last[p] + 1
          BY <4>2
        <4>5. AnswersOf(p, Append(writes[p], w), last[p] + 1, open[p], Left(handle))
          BY Zenon, <4>1, <4>2, <4>4, NextNumber, AnswerAdded
        <4>. QED  BY Zenon, <1>4, <3>1, <4>3, <4>5
      <3>3. CASE sendpkt(p, "BYE", NULL)
        <4>. DEFINE w == Packet("BYE", p, NULL)
        <4>1. w \in Write
          BY Zenon, OpenHasId, PacketIsWrite DEF IInv, Kinds, Args
        <4>2. w.kind /= "RESPONSE"
          BY Zenon DEF Packet
        <4>3. \A q \in Peers : writes'[q] = IF q = p THEN Append(writes[p], w) ELSE writes[q]
          BY Zenon, <3>3 DEF sendpkt, IInv, SentInv
        <4>. HIDE DEF w
        <4>4. AnswersOf(p, Append(writes[p], w), last[p] + 1, open[p], Left(handle))
          BY Zenon, <4>1, <4>2, NextNumber, OtherWriteKeeps
        <4>. QED  BY Zenon, <1>4, <3>1, <4>3, <4>4
      <3>4. CASE writes' = writes
        <4>1. \A q \in Peers : writes'[q] = IF q = p THEN writes[p] ELSE writes[q]
          BY Zenon, <3>4
        <4>. QED  BY Zenon, <1>4, <3>1, <4>1, NextNumber
      <3>. QED  BY Zenon, <2>1, <3>2, <3>3, <3>4 DEF answered_at_once, user_failed, sendpkt_fails
    <2>2. CASE given_to_user(p)
      <3>1. open' = [open EXCEPT ![p] = @ \cup {last[p] + 1}] /\ writes' = writes
        BY Zenon, <2>2 DEF given_to_user, sentVars
      <3>2. \A q \in Peers : open'[q] = IF q = p THEN open[p] \cup {last[p] + 1} ELSE open[q]
        BY Zenon, <3>1 DEF AnswerInv, OpenInv
      <3>3. AnswersOf(p, writes[p], last[p] + 1, open[p] \cup {last[p] + 1}, Left(handle))
        <4>1. (open[p] \cup {last[p] + 1}) \cap (1 .. last[p]) \subseteq open[p]
          BY NextNumber
        <4>. QED  BY Zenon, <4>1, NextNumber, RequestAdded
      <3>4. OpenInv'
        <4>1. open' \in [Peers -> SUBSET (1 .. MaxSeq)]
          BY Zenon, <3>1, NextNumber DEF AnswerInv, OpenInv
        <4>2. open[p] \subseteq 1 .. last[p]
          BY Zenon DEF AnswerInv, OpenInv
        <4>3. open[p] \cup {last[p] + 1} \subseteq 1 .. last[p] + 1
          BY <4>2, NextNumber
        <4>. QED  BY Zenon, <1>2, <3>2, <4>1, <4>3 DEF AnswerInv, OpenInv
      <3>5. \A q \in Peers : AnswersOf(q, writes'[q], last'[q], open'[q], Left(handle'))
        BY Zenon, <1>1, <1>2, <3>1, <3>2, <3>3 DEF AnswerInv
      <3>. QED  BY Zenon, <1>3, <3>4, <3>5 DEF AnswerInv
    <2>. QED  BY Zenon, <2>1, <2>2
  <1>5. OpenInv'
    <2>1. open[p] \subseteq 1 .. last[p]
      BY Zenon DEF AnswerInv, OpenInv
    <2>2. open[p] \subseteq 1 .. last[p] + 1
      BY <2>1, NextNumber
    <2>. QED  BY Zenon, <1>2, <1>4, <2>2 DEF AnswerInv, OpenInv
  <1>6. \A q \in Peers : AnswersOf(q, writes'[q], last'[q], open'[q], Left(handle'))
    BY Zenon, <1>1, <1>2, <1>4 DEF AnswerInv
  <1>. QED  BY Zenon, <1>3, <1>5, <1>6 DEF AnswerInv

-----------------------------------------------------------------------------
\* on_write.
LEMMA WriteAnswers ==
    ASSUME IInv, AnswerInv, NEW p \in Peers, on_write(p), ~Abort
    PROVE  AnswerInv'
  <1>. DEFINE w == Head(writes[p])
  <1>1. /\ clients[w.id] /= NULL
        /\ remove_client(w.id) \/ (clients' = clients /\ handle' = handle)
        /\ writes' = [writes EXCEPT ![p] = Tail(@)]
        /\ queue' = <<>> \/ queue' = queue
        /\ last' = last /\ open' = open /\ writes[p] /= <<>>
    BY Zenon DEF on_write, finalize_shutdown
  <1>2. w.id \in Ids /\ writes[p] \in Seq(Write)
    <2>1. w \in Write /\ writes[p] \in Seq(Write)
      BY <1>1 DEF IInv, SentInv
    <2>. QED  BY Zenon, <2>1 DEF Write
  <1>3. /\ Left(handle) \subseteq Left(handle')
        /\ \A j \in Ids : clients[j] \in Peers => clients'[j] = clients[j] \/ clients[j] \in Left(handle')
    BY Zenon, <1>1, <1>2, RemoveLeaves
  <1>4. NamedBy(queue', clients', Left(handle'))
    <2>1. NamedBy(queue, clients', Left(handle'))
      BY Zenon, <1>3, NamedLess DEF AnswerInv, IInv, SentInv
    <2>2. NamedBy(<<>>, clients', Left(handle'))
      BY DEF NamedBy
    <2>. QED  BY Zenon, <1>1, <2>1, <2>2
  <1>5. AnswersOf(p, Tail(writes[p]), last[p], open[p], Left(handle))
    BY Zenon, <1>1, <1>2, TailAnswers DEF AnswerInv
  <1>6. \A q \in Peers : AnswersOf(q, writes'[q], last'[q], open'[q], Left(handle'))
    <2>1. \A q \in Peers : writes'[q] = IF q = p THEN Tail(writes[p]) ELSE writes[q]
      BY Zenon, <1>1 DEF IInv, SentInv
    <2>2. \A q \in Peers : AnswersOf(q, writes'[q], last[q], open[q], Left(handle))
      BY Zenon, <1>5, <2>1 DEF AnswerInv
    <2>. QED  BY Zenon, <1>1, <1>3, <2>2, MoreLeave
  <1>. QED  BY Zenon, <1>1, <1>4, <1>6 DEF AnswerInv, OpenInv

\* on_client_end, for a client to which nothing is being written.
LEMMA EndAnswers ==
    ASSUME IInv, AnswerInv, NEW p \in Peers, on_client_end(p)
    PROVE  AnswerInv'
  <1>1. /\ handle[p] = "closing" /\ writes[p] = <<>>
        /\ handle' = [handle EXCEPT ![p] = "gone"]
        /\ last' = [last EXCEPT ![p] = 0]
        /\ open' = [open EXCEPT ![p] = {}]
        /\ clients' = clients /\ writes' = writes /\ queue' = queue
    BY Zenon DEF on_client_end, sentVars
  <1>2. \A q \in Peers : q /= p => handle'[q] = handle[q] /\ last'[q] = last[q] /\ open'[q] = open[q]
    BY Zenon, <1>1 DEF IInv, ListInv, HeldInv, AnswerInv, OpenInv
  <1>3. handle'[p] = "gone" /\ open'[p] = {}
    BY Zenon, <1>1 DEF IInv, ListInv, AnswerInv, OpenInv
  <1>4. Left(handle') = Left(handle)
    BY Zenon, <1>1, <1>2, <1>3 DEF Left
  <1>5. OpenInv'
    BY Zenon, <1>1, <1>2, <1>3 DEF AnswerInv, OpenInv
  <1>6. \A q \in Peers : AnswersOf(q, writes'[q], last'[q], open'[q], Left(handle'))
    <2>1. AnswersOf(p, <<>>, last'[p], open'[p], Left(handle))
      BY DEF AnswersOf
    <2>. QED  BY Zenon, <1>1, <1>2, <1>4, <2>1 DEF AnswerInv
  <1>. QED  BY Zenon, <1>1, <1>4, <1>5, <1>6 DEF AnswerInv

\* A request a client waits for is one it has made.
LEMMA OpenIsGiven ==
    ASSUME IInv, AnswerInv, NEW p \in Peers, NEW s \in open[p]
    PROVE  last[p] \in Nat /\ s \in 1 .. last[p]
  <1>1. last[p] \in 0 .. MaxSeq /\ open[p] \subseteq 1 .. last[p]
    BY Zenon DEF IInv, HeldInv, AnswerInv, OpenInv
  <1>. QED  BY <1>1

\* client_send_response: the request that is answered is one of the client that
\* the slot leads to now, which is the one that asked unless that one has left.
LEMMA ResponseAnswers ==
    ASSUME IInv, AnswerInv, queue /= <<>>, Head(queue).op = "respond",
           loop_request_send_response(Head(queue))
    PROVE  AnswerInv'
  <1>. DEFINE r == Head(queue)  p == clients[r.target]  G == Left(handle)
  <1>. HIDE DEF G
  <1>1. queue' = Tail(queue) /\ clients' = clients /\ handle' = handle /\ last' = last
    BY Zenon DEF loop_request_send_response, Handled
  <1>2. r \in Addressed /\ queue \in Seq(LoopRequest) /\ 1 \in 1 .. Len(queue) /\ r = queue[1]
    BY TailIs, AddressedAreRequests DEF IInv, SentInv
  <1>3. /\ r.target \in Ids
        /\ r.arg \in Peers \X (1 .. MaxSeq) /\ (p = r.arg[1] \/ r.arg[1] \in G)
    BY Zenon, <1>2 DEF Addressed, AnswerInv, NamedBy, G
  <1>4. NamedBy(queue', clients', Left(handle'))
    BY Zenon, <1>1, <1>2, NamedAfter DEF AnswerInv
  <1>5. CASE open' = open /\ writes' = writes
    BY Zenon, <1>1, <1>4, <1>5 DEF AnswerInv, OpenInv
  <1>6. CASE /\ p /= NULL /\ r.arg[2] \in open[p]
             /\ pending_requests_complete(p, r.arg[2])
             /\ sendpkt(p, "RESPONSE", r.arg) \/ UNCHANGED writes
    <2>1. p \in Peers /\ id[p] \in Ids
      BY Zenon, <1>3, <1>6, SlotIsOpen DEF IInv
    <2>2. \A q \in Peers : open'[q] = IF q = p THEN open[p] \ {r.arg[2]} ELSE open[q]
      BY Zenon, <1>6, <2>1 DEF pending_requests_complete, AnswerInv, OpenInv
    <2>3. OpenInv'
      <3>1. open' \in [Peers -> SUBSET (1 .. MaxSeq)]
        BY Zenon, <1>6, <2>1 DEF pending_requests_complete, AnswerInv, OpenInv
      <3>. QED  BY Zenon, <1>1, <2>2, <3>1 DEF AnswerInv, OpenInv
    <2>4. /\ AnswersOf(p, writes[p], last[p], open[p], G) /\ writes[p] \in Seq(Write) /\ last[p] \in Nat
          /\ r.arg[2] \in 1 .. last[p]
      <3>1. AnswersOf(p, writes[p], last[p], open[p], G) /\ writes[p] \in Seq(Write)
        BY Zenon, <2>1 DEF AnswerInv, IInv, SentInv, G
      <3>. QED  BY Zenon, <1>6, <2>1, <3>1, OpenIsGiven
    <2>5. CASE UNCHANGED writes
      <3>1. AnswersOf(p, writes[p], last[p], open[p] \ {r.arg[2]}, G)
        BY Zenon, <2>4, RequestTaken
      <3>2. \A q \in Peers : AnswersOf(q, writes'[q], last'[q], open'[q], Left(handle'))
        BY Zenon, <1>1, <2>2, <2>5, <3>1 DEF AnswerInv, G
      <3>. QED  BY Zenon, <1>4, <2>3, <3>2 DEF AnswerInv
    <2>6. CASE sendpkt(p, "RESPONSE", r.arg)
      <3>. DEFINE w == Packet("RESPONSE", p, r.arg)
      <3>1. w \in Write
        BY Zenon, <1>3, <2>1, PacketIsWrite DEF Kinds, Args
      <3>2. w.kind = "RESPONSE" /\ w.arg = r.arg
        BY Zenon DEF Packet
      <3>3. \A q \in Peers : writes'[q] = IF q = p THEN Append(writes[p], w) ELSE writes[q]
        BY Zenon, <2>1, <2>6 DEF sendpkt, IInv, SentInv
      <3>. HIDE DEF w
      <3>4. w.arg[1] \in G \cup {p} /\ w.arg[2] = r.arg[2]
        BY Zenon, <1>3, <3>2
      <3>5. AnswersOf(p, Append(writes[p], w), last[p], open[p] \ {r.arg[2]}, G)
        BY Zenon, <1>6, <2>4, <3>1, <3>2, <3>4, RequestAnswered
      <3>6. \A q \in Peers : AnswersOf(q, writes'[q], last'[q], open'[q], Left(handle'))
        BY Zenon, <1>1, <2>2, <3>3, <3>5 DEF AnswerInv, G
      <3>. QED  BY Zenon, <1>4, <2>3, <3>6 DEF AnswerInv
    <2>. QED  BY Zenon, <1>6, <2>5, <2>6
  <1>. QED  BY Zenon, <1>5, <1>6 DEF loop_request_send_response

\* server_shutdown says goodbye to the clients of some set.
LEMMA ShutdownAnswers ==
    ASSUME IInv, AnswerInv, queue /= <<>>, loop_request_shutdown(Head(queue)), ~Abort
    PROVE  AnswerInv'
  <1>1. PICK R \in SUBSET Listed :
            writes' = [p \in Peers |-> IF p \in R THEN Append(writes[p], Packet("BYE", p, NULL)) ELSE writes[p]]
    BY Zenon DEF loop_request_shutdown
  <1>2. /\ clients' = clients /\ handle' = handle /\ last' = last /\ open' = open
        /\ queue' \in {<<>>, Tail(queue)}
    BY Zenon DEF loop_request_shutdown, finalize_shutdown, Handled
  <1>3. \A q \in Peers : \/ writes'[q] = writes[q]
                         \/ \E w \in Write : w.kind /= "RESPONSE" /\ writes'[q] = Append(writes[q], w)
    <2>1. ASSUME NEW q \in Peers, q \in R
          PROVE  Packet("BYE", q, NULL) \in Write /\ Packet("BYE", q, NULL).kind /= "RESPONSE"
      <3>0. PICK i \in Ids : clients[i] = q /\ q /= NULL
        BY Zenon, <2>1 DEF Listed
      <3>1. id[q] \in Ids
        BY Zenon, <3>0, SlotIsOpen DEF IInv
      <3>2. Packet("BYE", q, NULL) \in Write
        BY Zenon, <3>1, PacketIsWrite DEF Kinds, Args
      <3>. QED  BY Zenon, <3>2 DEF Packet
    <2>. QED  BY Zenon, <1>1, <2>1
  <1>4. \A q \in Peers : AnswersOf(q, writes'[q], last'[q], open'[q], Left(handle'))
    BY Zenon, <1>2, <1>3, OtherAnswers
  <1>5. NamedBy(queue', clients', Left(handle'))
    <2>1. NamedBy(<<>>, clients', Left(handle'))
      BY DEF NamedBy
    <2>2. NamedBy(Tail(queue), clients, Left(handle))
      BY Zenon, AddressedAreRequests, NamedAfter DEF IInv, SentInv, AnswerInv
    <2>. QED  BY Zenon, <1>2, <2>1, <2>2
  <1>. QED  BY Zenon, <1>2, <1>4, <1>5 DEF AnswerInv, OpenInv

-----------------------------------------------------------------------------
\* A response is submitted for the id of the client that asked, which is still
\* its own, or was when it left.
LEMMA SubmitAnswers ==
    ASSUME IInv, AnswerInv, NEW op \in {"kick", "respond", "raise", "stop"}, NEW target \in Ids \cup {NULL},
           NEW sem \in Callers \cup {NULL}, NEW arg \in Args, submit(op, target, sem, arg),
           op = "respond" => arg \in held /\ target = id[arg[1]]
    PROVE  AnswerInv'
  <1>. DEFINE r == [op |-> op, target |-> target, sem |-> sem, arg |-> arg]
  <1>1. r \in LoopRequest /\ queue \in Seq(LoopRequest)
    BY Zenon, AddressedAreRequests DEF LoopRequest, Args, IInv, SentInv
  <1>2. /\ queue' = Append(queue, r) /\ clients' = clients /\ handle' = handle
        /\ last' = last /\ open' = open /\ writes' = writes
    BY Zenon DEF submit, loopVars, sentVars
  <1>3. ASSUME op = "respond"
        PROVE  arg \in Peers \X (1 .. MaxSeq) /\ (clients[target] = arg[1] \/ arg[1] \in Left(handle))
    <2>1. arg \in Peers \X (1 .. MaxSeq) /\ arg[1] \in Peers /\ handle[arg[1]] \in {"open", "closing"}
      BY Zenon, <1>3 DEF IInv, HeldInv
    <2>. QED  BY Zenon, <1>3, <2>1, OpenHasId DEF IInv, Left
  <1>4. NamedBy(queue', clients', Left(handle'))
    BY Zenon, <1>1, <1>2, <1>3, NamedAdded DEF AnswerInv
  <1>. QED  BY Zenon, <1>2, <1>4 DEF AnswerInv, OpenInv

\* The calls of the threads of the user keep the answers.
LEMMA CallAnswers ==
    ASSUME IInv, FreshInv, AnswerInv, NEW c \in Callers,
           \/ \E p \in Peers : kick(c, p)
           \/ \E h \in held : send_response(c, h)
           \/ \E e \in fresh : raise(c, e)
           \/ stop(c)
    PROVE  AnswerInv'
  <1>1. PICK op \in {"kick", "respond", "raise", "stop"}, target \in Ids \cup {NULL},
             sem \in Callers \cup {NULL}, arg \in Args :
                /\ submit(op, target, sem, arg)
                /\ op = "respond" => arg \in held /\ target = id[arg[1]]
    <2>1. ASSUME NEW p \in Peers, kick(c, p)
          PROVE  submit("kick", id[p], c, NULL) /\ id[p] \in Ids \cup {NULL} /\ NULL \in Args
      BY Zenon, <2>1 DEF kick, IInv, ListInv, Args
    <2>2. ASSUME NEW h \in held, send_response(c, h)
          PROVE  /\ \E sem \in {c, NULL} : submit("respond", id[h[1]], sem, h)
                 /\ id[h[1]] \in Ids \cup {NULL} /\ h \in Args
      BY Zenon, <2>2 DEF send_response, IInv, ListInv, HeldInv, Args
    <2>3. ASSUME NEW e \in fresh, raise(c, e)
          PROVE  (\E sem \in {c, NULL} : submit("raise", NULL, sem, e)) /\ e \in Args
      BY Zenon, <2>3 DEF raise, FreshInv, Args
    <2>4. ASSUME stop(c)
          PROVE  (\E sem \in {c, NULL} : submit("stop", NULL, sem, NULL)) /\ NULL \in Args
      BY Zenon, <2>4 DEF stop, Args
    <2>. QED  BY <2>1, <2>2, <2>3, <2>4
  <1>. QED  BY Zenon, <1>1, SubmitAnswers

\* One request of the queue.
LEMMA DrainAnswers ==
    ASSUME IInv, AnswerInv, drain_step, ~Abort
    PROVE  AnswerInv'
  <1>. DEFINE r == Head(queue)
  <1>1. queue /= <<>>
    BY Zenon DEF drain_step
  <1>2. CASE r.op = "respond" /\ loop_request_send_response(r)
    BY Zenon, <1>1, <1>2, ResponseAnswers
  <1>3. CASE loop_request_raise_signal(r)
    <2>1. /\ writes' = writes /\ clients' = clients /\ handle' = handle /\ last' = last /\ open' = open
          /\ queue' = Tail(queue)
      BY Zenon, <1>3 DEF loop_request_raise_signal, loopVars
    <2>2. NamedBy(Tail(queue), clients, Left(handle))
      BY Zenon, <1>1, AddressedAreRequests, NamedAfter DEF IInv, SentInv, AnswerInv
    <2>. QED  BY Zenon, <2>1, <2>2 DEF AnswerInv, OpenInv
  <1>4. CASE loop_request_shutdown(r)
    BY Zenon, <1>1, <1>4, ShutdownAnswers
  <1>. QED  BY Zenon, <1>2, <1>3, <1>4 DEF drain_step, loop_request_kick_client

\* A step that leaves the list, the writes and the queue alone keeps them.
LEMMA AnswersStay ==
    ASSUME AnswerInv, clients' = clients, handle' = handle, last' = last, open' = open,
           writes' = writes, queue' = queue
    PROVE  AnswerInv'
  BY Zenon DEF AnswerInv, OpenInv

\* Every step of the server keeps the answers.
LEMMA StepAnswers ==
    ASSUME IInv, RaiseInv, FreshInv, AnswerInv, [Next]_vars
    PROVE  AnswerInv'
  <1>1. CASE Abort \/ start \/ close_handles \/ drain_begin \/ drain_end \/ raise_end \/ UNCHANGED vars
    <2>1. /\ clients' = clients /\ handle' = handle /\ last' = last /\ open' = open
          /\ writes' = writes /\ queue' = queue
      BY Zenon, <1>1 DEF Abort, start, close_handles, drain_begin, drain_end, raise_end, vars, loopVars,
                  callVars, sentVars
    <2>. QED  BY Zenon, <2>1, AnswersStay
  <1>2. SUFFICES ASSUME ~Abort, Next
                 PROVE  AnswerInv'
    BY Zenon, <1>1
  <1>3. CASE drain_step
    BY Zenon, <1>2, <1>3, DrainAnswers
  <1>4. ASSUME NEW p \in Peers, on_connect(p)
        PROVE  AnswerInv'
    BY Zenon, <1>4, ConnectAnswers
  <1>5. ASSUME NEW p \in Peers, bad_packet(p) \/ client_got_hello(p) \/ client_got_message(p)
        PROVE  AnswerInv'
    <2>1. handle[p] = "open" /\ NULL \in Args /\ {"HELLO", "BYE"} \subseteq Kinds \ {"RESPONSE"}
      BY Zenon, <1>5 DEF bad_packet, client_got_hello, client_got_message, Reads, Args, Kinds
    <2>2. CASE client_raised_error(p)
      <3>1. /\ sendpkt(p, "BYE", NULL) \/ UNCHANGED writes
            /\ open' = open /\ last' = last /\ queue' = queue /\ clients' = clients /\ handle' = handle
        BY Zenon, <1>2, <2>2 DEF client_raised_error, sendpkt_fails, callVars
      <3>. QED  BY Zenon, <2>1, <3>1, SendAnswers
    <2>3. CASE client_got_hello(p) /\ ~client_raised_error(p)
      <3>1. /\ sendpkt(p, "HELLO", NULL)
            /\ open' = open /\ last' = last /\ queue' = queue /\ clients' = clients /\ handle' = handle
        BY Zenon, <2>3 DEF client_got_hello, callVars
      <3>. QED  BY Zenon, <2>1, <3>1, SendAnswers
    <2>4. CASE client_got_message(p) /\ ~client_raised_error(p)
      <3>1. last[p] < MaxSeq /\ (answered_at_once(p) \/ user_failed(p) \/ given_to_user(p))
        BY Zenon, <2>4 DEF client_got_message
      <3>. QED  BY Zenon, <2>1, <3>1, MessageAnswers
    <2>. QED  BY Zenon, <1>5, <2>2, <2>3, <2>4 DEF bad_packet
  <1>6. ASSUME NEW p \in Peers, client_got_bye(p) \/ on_read_end(p) \/ plugin_exit(p)
        PROVE  AnswerInv'
    <2>1. /\ handle[p] = "open" /\ remove_client(id[p])
          /\ last' = last /\ open' = open /\ writes' = writes /\ queue' = queue
      BY Zenon, <1>2, <1>6 DEF client_got_bye, on_read_end, plugin_exit, Reads, callVars, sentVars
    <2>2. id[p] \in Ids /\ clients[id[p]] /= NULL
      BY Zenon, <2>1, OpenHasId, ServerAssumption DEF IInv
    <2>. QED  BY Zenon, <2>1, <2>2, RemoveLeaves, LeavingKeeps
  <1>7. ASSUME NEW p \in Peers, on_write(p)
        PROVE  AnswerInv'
    BY Zenon, <1>2, <1>7, WriteAnswers
  <1>8. ASSUME NEW p \in Peers, on_client_end(p)
        PROVE  AnswerInv'
    BY Zenon, <1>8, EndAnswers
  <1>9. ASSUME NEW c \in Callers,
               \/ \E p \in Peers : kick(c, p)
               \/ \E h \in held : send_response(c, h)
               \/ \E e \in fresh : raise(c, e)
               \/ stop(c)
        PROVE  AnswerInv'
    BY Zenon, <1>9, CallAnswers
  <1>10. CASE raise_next
    <2>1. PICK i \in raising.rest : raise_to(clients[i], raising.event)
      BY Zenon, <1>10 DEF raise_next
    <2>2. i \in Ids /\ clients[i] /= NULL /\ raising.event \in Args
      BY Zenon, <1>10, <2>1 DEF raise_next, RaiseInv, Raising, Args
    <2>3. clients[i] \in Peers /\ handle[clients[i]] = "open" /\ "SIGNAL" \in Kinds \ {"RESPONSE"}
      BY Zenon, <2>2, SlotIsOpen DEF IInv, Kinds
    <2>4. /\ sendpkt(clients[i], "SIGNAL", raising.event) \/ UNCHANGED writes
          /\ open' = open /\ last' = last /\ queue' = queue /\ clients' = clients /\ handle' = handle
      BY Zenon, <1>10, <2>1 DEF raise_next, raise_to, sendpkt_fails, loopVars, callVars
    <2>. QED  BY Zenon, <2>2, <2>3, <2>4, SendAnswers
  <1>. QED  BY Zenon, <1>1, <1>2, <1>3, <1>4, <1>5, <1>6, <1>7, <1>8, <1>9, <1>10 DEF Next

\* A response reaches the client that asked, or one that was given the id of a
\* client that has left (loop_request_send_response of server.c, which looks the
\* client up by its id); every number is answered once and is no longer open,
\* however soon ids are used again and whichever sends fail.
THEOREM ServerAnswersReachAsker == Spec => []AnswersReachAsker
  <1>1. Init => AnswerInv
    <2>1. SUFFICES ASSUME Init PROVE AnswerInv
      BY Zenon
    <2>2. OpenInv
      BY Zenon, <2>1, ServerAssumption DEF Init, OpenInv
    <2>3. NamedBy(queue, clients, Left(handle))
      BY <2>1 DEF Init, NamedBy
    <2>4. \A p \in Peers : AnswersOf(p, writes[p], last[p], open[p], Left(handle))
      BY <2>1 DEF Init, AnswersOf
    <2>. QED  BY Zenon, <2>2, <2>3, <2>4 DEF AnswerInv
  <1>2. IInv /\ RaiseInv /\ FreshInv /\ AnswerInv /\ [Next]_vars => AnswerInv'
    BY Zenon, StepAnswers
  <1>3. AnswerInv => AnswersReachAsker
    <2>1. SUFFICES ASSUME AnswerInv, NEW p \in Peers, NEW j \in 1 .. Len(writes[p]), NEW k \in 1 .. Len(writes[p]),
                          writes[p][j].kind = "RESPONSE"
                   PROVE  /\ writes[p][j].arg[1] /= p => handle[writes[p][j].arg[1]] \in {"closing", "gone"}
                          /\ writes[p][j].arg[2] \notin open[p]
                          /\ writes[p][k].kind = "RESPONSE" /\ writes[p][k].arg[2] = writes[p][j].arg[2] => j = k
      BY Zenon DEF AnswersReachAsker
    <2>. QED  BY Zenon, <2>1 DEF AnswerInv, AnswersOf, Left
  <1>. QED  BY <1>1, <1>2, <1>3, ServerInvariant, PTL DEF Spec

-----------------------------------------------------------------------------
\* One of the writes W carries event e.
Carries(W, e) == \E k \in 1 .. Len(W) : W[k].arg = e

\* The writes of a client that carry an event are signals, one for each event.
SignalsOf(W) ==
    \A j \in 1 .. Len(W) :
        /\ W[j].arg \in Events <=> W[j].kind = "SIGNAL"
        /\ W[j].arg \in Events => \A k \in 1 .. Len(W) : W[k].arg = W[j].arg => k = j

\* The responses of queue Q answer requests and its signals are events raised
\* once, no longer among the ones F still to be raised.
RequestsFit(Q, F) ==
    \A j \in 1 .. Len(Q) :
        /\ Q[j].op = "respond" => Q[j].arg \in Peers \X (1 .. MaxSeq)
        /\ Q[j].op = "raise" =>
              /\ Q[j].arg \in Events \ F
              /\ \A k \in 1 .. Len(Q) : Q[k].op = "raise" /\ Q[k].arg = Q[j].arg => k = j

\* Event e was not broadcast yet: it is still to be raised, or it is queued.
Unsent(e, F, Q) == e \in F \/ \E k \in 1 .. Len(Q) : Q[k].op = "raise" /\ Q[k].arg = e

\* The clients to which event e is being written.
Carriers(e) == {p \in Peers : Carries(writes[p], e)}

\* Event e is the one that dicey_server_raise_internal holds.
Raised(e) == raising /= NULL /\ raising.event = e
Hold(e) == IF Raised(e) THEN 1 ELSE 0

\* It is not being written to the clients it is still to be sent to.
RestInv == raising /= NULL => \A i \in raising.rest : ~Carries(writes[clients[i]], raising.event)

\* The shared packet of an event is counted once for each client it is being
\* written to, and once while it is being raised; an event not broadcast yet is
\* written to nobody.
SignalInv ==
    /\ FreshInv
    /\ refcount \in [Events -> Nat]
    /\ RequestsFit(queue, fresh)
    /\ \A p \in Peers : SignalsOf(writes[p])
    /\ \A e \in Events : /\ IsFiniteSet(Carriers(e)) /\ refcount[e] = Cardinality(Carriers(e)) + Hold(e)
                         /\ Unsent(e, fresh, queue) => Carriers(e) = {} /\ ~Raised(e)
    /\ RestInv

\* What one more write makes a client carry.
LEMMA CarriesMore ==
    ASSUME NEW W \in Seq(Write), NEW w \in Write, NEW e
    PROVE  Carries(Append(W, w), e) <=> Carries(W, e) \/ w.arg = e
  <1>. DEFINE A == Append(W, w)
  <1>1. /\ Len(W) \in Nat /\ Len(A) = Len(W) + 1
        /\ \A k \in 1 .. Len(W) : A[k] = W[k]
        /\ A[Len(W) + 1] = w
    BY AppendIs
  <1>. HIDE DEF A
  <1>2. \A k : k \in 1 .. Len(A) <=> k \in 1 .. Len(W) \/ k = Len(W) + 1
    BY <1>1
  <1>3. Carries(A, e) <=> Carries(W, e) \/ w.arg = e
    BY Zenon, <1>1, <1>2 DEF Carries
  <1>. QED  BY Zenon, <1>3 DEF A

\* The signal of an event that a client does not carry keeps them single.
LEMMA SignalsMore ==
    ASSUME NEW W \in Seq(Write), NEW w \in Write, SignalsOf(W), w.arg \in Events <=> w.kind = "SIGNAL",
           w.arg \in Events => ~Carries(W, w.arg)
    PROVE  SignalsOf(Append(W, w))
  <1>. DEFINE A == Append(W, w)
  <1>1. /\ Len(W) \in Nat /\ Len(A) = Len(W) + 1
        /\ \A k \in 1 .. Len(W) : A[k] = W[k]
        /\ A[Len(W) + 1] = w
    BY AppendIs
  <1>. HIDE DEF A
  <1>2. \A k \in 1 .. Len(A) : k \in 1 .. Len(W) \/ k = Len(W) + 1
    BY <1>1
  <1>3. \A k \in 1 .. Len(W) : W[k].arg \in Events => W[k].arg /= w.arg
    BY Zenon DEF Carries
  <1>4. SUFFICES ASSUME NEW j \in 1 .. Len(A)
                 PROVE  /\ A[j].arg \in Events <=> A[j].kind = "SIGNAL"
                        /\ A[j].arg \in Events => \A k \in 1 .. Len(A) : A[k].arg = A[j].arg => k = j
    BY Zenon DEF SignalsOf, A
  <1>5. CASE j \in 1 .. Len(W)
    BY Zenon, <1>1, <1>2, <1>3, <1>5 DEF SignalsOf
  <1>6. CASE j = Len(W) + 1
    BY Zenon, <1>1, <1>2, <1>3, <1>6
  <1>. QED  BY Zenon, <1>2, <1>5, <1>6

\* A write that ends leaves the signals that follow it.
LEMMA SignalsLess ==
    ASSUME NEW W \in Seq(Write), SignalsOf(W), W /= <<>>
    PROVE  /\ SignalsOf(Tail(W))
           /\ \A e \in Events : Carries(Tail(W), e) <=> Carries(W, e) /\ Head(W).arg /= e
           /\ Carries(W, Head(W).arg)
  <1>1. /\ Len(W) \in Nat \ {0} /\ Len(Tail(W)) = Len(W) - 1
        /\ \A k \in 1 .. Len(W) - 1 : Tail(W)[k] = W[k + 1]
        /\ Head(W) = W[1]
    BY Zenon, TailIs
  <1>2. SignalsOf(Tail(W))
    <2>1. SUFFICES ASSUME NEW j \in 1 .. Len(W) - 1
                   PROVE  /\ W[j + 1].arg \in Events <=> W[j + 1].kind = "SIGNAL"
                          /\ W[j + 1].arg \in Events =>
                                \A k \in 1 .. Len(W) - 1 : W[k + 1].arg = W[j + 1].arg => k = j
      BY <1>1 DEF SignalsOf
    <2>2. j + 1 \in 1 .. Len(W) /\ \A k \in 1 .. Len(W) - 1 : k + 1 \in 1 .. Len(W) /\ (k + 1 = j + 1 => k = j)
      BY <1>1
    <2>. QED  BY Zenon, <2>2 DEF SignalsOf
  <1>3. ASSUME NEW e \in Events
        PROVE  Carries(Tail(W), e) <=> Carries(W, e) /\ Head(W).arg /= e
    <2>1. ASSUME Carries(Tail(W), e) PROVE Carries(W, e) /\ Head(W).arg /= e
      <3>1. PICK k \in 1 .. Len(W) - 1 : W[k + 1].arg = e
        BY Zenon, <1>1, <2>1 DEF Carries
      <3>2. k + 1 \in 1 .. Len(W) /\ k + 1 /= 1 /\ 1 \in 1 .. Len(W)
        BY <1>1
      <3>. QED  BY Zenon, <1>1, <3>1, <3>2 DEF Carries, SignalsOf
    <2>2. ASSUME Carries(W, e), Head(W).arg /= e PROVE Carries(Tail(W), e)
      <3>1. PICK k \in 1 .. Len(W) : W[k].arg = e
        BY Zenon, <2>2 DEF Carries
      <3>2. k /= 1
        BY Zenon, <1>1, <2>2, <3>1
      <3>3. k - 1 \in 1 .. Len(Tail(W)) /\ Tail(W)[k - 1] = W[k]
        BY <1>1, <3>2
      <3>. QED  BY Zenon, <3>1, <3>3 DEF Carries
    <2>. QED  BY Zenon, <2>1, <2>2
  <1>4. 1 \in 1 .. Len(W)
    BY <1>1
  <1>. QED  BY Zenon, <1>1, <1>2, <1>3, <1>4 DEF Carries

\* What is left of a queue fits as the queue did.
LEMMA FitAfter ==
    ASSUME NEW Q \in Seq(LoopRequest), NEW F, RequestsFit(Q, F), Q /= <<>>
    PROVE  /\ RequestsFit(Tail(Q), F)
           /\ \A e : Unsent(e, F, Tail(Q)) => Unsent(e, F, Q) /\ (Head(Q).op = "raise" => e /= Head(Q).arg)
           /\ RequestsFit(<<>>, F) /\ \A e : Unsent(e, F, <<>>) => Unsent(e, F, Q)
  <1>1. /\ Len(Q) \in Nat \ {0} /\ Len(Tail(Q)) = Len(Q) - 1 /\ Head(Q) = Q[1] /\ 1 \in 1 .. Len(Q)
        /\ \A k \in 1 .. Len(Q) - 1 : Tail(Q)[k] = Q[k + 1] /\ k + 1 \in 1 .. Len(Q) /\ k + 1 /= 1
    BY TailIs
  <1>2. RequestsFit(Tail(Q), F)
    <2>1. SUFFICES ASSUME NEW j \in 1 .. Len(Q) - 1
                   PROVE  /\ Q[j + 1].op = "respond" => Q[j + 1].arg \in Peers \X (1 .. MaxSeq)
                          /\ Q[j + 1].op = "raise" =>
                              /\ Q[j + 1].arg \in Events \ F
                              /\ \A k \in 1 .. Len(Q) - 1 :
                                    Q[k + 1].op = "raise" /\ Q[k + 1].arg = Q[j + 1].arg => k = j
      BY <1>1 DEF RequestsFit
    <2>2. \A k \in 1 .. Len(Q) - 1 : k + 1 = j + 1 => k = j
      BY <1>1
    <2>. QED  BY Zenon, <1>1, <2>2 DEF RequestsFit
  <1>3. ASSUME NEW e, NEW k \in 1 .. Len(Tail(Q)), Tail(Q)[k].op = "raise", Tail(Q)[k].arg = e
        PROVE  /\ \E i \in 1 .. Len(Q) : Q[i].op = "raise" /\ Q[i].arg = e
               /\ Head(Q).op = "raise" => e /= Head(Q).arg
    <2>1. k + 1 \in 1 .. Len(Q) /\ k + 1 /= 1 /\ Q[k + 1].op = "raise" /\ Q[k + 1].arg = e
      BY Zenon, <1>1, <1>3
    <2>. QED  BY Zenon, <1>1, <2>1 DEF RequestsFit
  <1>4. Head(Q).op = "raise" => Head(Q).arg \notin F
    BY Zenon, <1>1 DEF RequestsFit
  <1>5. \A e : Unsent(e, F, Tail(Q)) => Unsent(e, F, Q) /\ (Head(Q).op = "raise" => e /= Head(Q).arg)
    BY Zenon, <1>3, <1>4 DEF Unsent
  <1>6. RequestsFit(<<>>, F) /\ \A e : Unsent(e, F, <<>>) => Unsent(e, F, Q)
    BY DEF RequestsFit, Unsent
  <1>. QED  BY Zenon, <1>2, <1>5, <1>6

\* A request made for an event that was still to be raised fits in the queue.
LEMMA FitMore ==
    ASSUME NEW Q \in Seq(LoopRequest), NEW F, NEW G \in SUBSET F, RequestsFit(Q, F), NEW r \in LoopRequest,
           r.op = "respond" => r.arg \in Peers \X (1 .. MaxSeq),
           r.op = "raise" => r.arg \in F \ G /\ r.arg \in Events
    PROVE  /\ RequestsFit(Append(Q, r), G)
           /\ \A e : Unsent(e, G, Append(Q, r)) => Unsent(e, F, Q)
  <1>. DEFINE A == Append(Q, r)
  <1>1. /\ Len(Q) \in Nat /\ Len(A) = Len(Q) + 1
        /\ \A k \in 1 .. Len(Q) : A[k] = Q[k]
        /\ A[Len(Q) + 1] = r
    BY AppendIs
  <1>. HIDE DEF A
  <1>2. \A k \in 1 .. Len(A) : k \in 1 .. Len(Q) \/ k = Len(Q) + 1
    BY <1>1
  <1>3. r.op = "raise" => \A k \in 1 .. Len(Q) : Q[k].op = "raise" => Q[k].arg /= r.arg
    BY Zenon DEF RequestsFit
  <1>4. RequestsFit(A, G)
    <2>1. SUFFICES ASSUME NEW j \in 1 .. Len(A)
                   PROVE  /\ A[j].op = "respond" => A[j].arg \in Peers \X (1 .. MaxSeq)
                          /\ A[j].op = "raise" =>
                              /\ A[j].arg \in Events \ G
                              /\ \A k \in 1 .. Len(A) : A[k].op = "raise" /\ A[k].arg = A[j].arg => k = j
      BY Zenon DEF RequestsFit
    <2>2. CASE j \in 1 .. Len(Q)
      BY <1>1, <1>2, <1>3, <2>2 DEF RequestsFit
    <2>3. CASE j = Len(Q) + 1
      BY Zenon, <1>1, <1>2, <1>3, <2>3
    <2>. QED  BY Zenon, <1>2, <2>2, <2>3
  <1>5. \A e : Unsent(e, G, A) => Unsent(e, F, Q)
    BY Zenon, <1>1, <1>2 DEF Unsent
  <1>. QED  BY Zenon, <1>4, <1>5 DEF A

-----------------------------------------------------------------------------
\* A step that leaves every event with the writes that carry it.
LEMMA SignalsStay ==
    ASSUME SignalInv, refcount' = refcount, fresh' \subseteq fresh, RequestsFit(queue', fresh'),
           raising' = raising, raising = NULL \/ (writes' = writes /\ clients' = clients),
           \A e \in Events : Unsent(e, fresh', queue') => Unsent(e, fresh, queue),
           \A p \in Peers : SignalsOf(writes'[p]) /\ \A e \in Events : Carries(writes'[p], e) <=> Carries(writes[p], e)
    PROVE  SignalInv'
  <1>1. \A e \in Events : Carriers(e)' = Carriers(e)
    BY Zenon DEF Carriers
  <1>2. \A e \in Events : Raised(e)' = Raised(e) /\ Hold(e)' = Hold(e)
    BY Zenon DEF Raised, Hold
  <1>3. RestInv'
    BY Zenon DEF SignalInv, RestInv
  <1>. QED  BY Zenon, <1>1, <1>2, <1>3 DEF SignalInv, FreshInv

\* Writes that stay as they are carry what they carried.
LEMMA WritesStay ==
    ASSUME SignalInv, writes' = writes
    PROVE  \A p \in Peers : SignalsOf(writes'[p]) /\ \A e \in Events : Carries(writes'[p], e) <=> Carries(writes[p], e)
  BY Zenon DEF SignalInv

\* Packets other than signals carry no event.
LEMMA OthersCarryNone ==
    ASSUME NEW w \in Write, w.kind /= "SIGNAL", w.kind = "RESPONSE" => w.arg \in Peers \X (1 .. MaxSeq),
           w.kind /= "RESPONSE" => w.arg = NULL
    PROVE  w.arg \notin Events
  BY Zenon, ServerAssumption

\* Writes that are no signals change nothing of what a client carries.
LEMMA OtherSignals ==
    ASSUME IInv, SignalInv,
           \A p \in Peers : writes'[p] = writes[p]
                            \/ \E w \in Write : /\ w.kind /= "SIGNAL" /\ w.arg \notin Events
                                                /\ writes'[p] = Append(writes[p], w)
    PROVE  \A p \in Peers : SignalsOf(writes'[p]) /\ \A e \in Events : Carries(writes'[p], e) <=> Carries(writes[p], e)
  <1>1. SUFFICES ASSUME NEW p \in Peers
                 PROVE  SignalsOf(writes'[p]) /\ \A e \in Events : Carries(writes'[p], e) <=> Carries(writes[p], e)
    BY Zenon
  <1>2. SignalsOf(writes[p]) /\ writes[p] \in Seq(Write)
    BY Zenon DEF SignalInv, IInv, SentInv
  <1>3. CASE writes'[p] = writes[p]
    BY Zenon, <1>2, <1>3
  <1>4. ASSUME NEW w \in Write, w.kind /= "SIGNAL", w.arg \notin Events, writes'[p] = Append(writes[p], w)
        PROVE  SignalsOf(writes'[p]) /\ \A e \in Events : Carries(writes'[p], e) <=> Carries(writes[p], e)
    <2>1. SignalsOf(Append(writes[p], w))
      BY Zenon, <1>2, <1>4, SignalsMore
    <2>2. \A e \in Events : Carries(Append(writes[p], w), e) <=> Carries(writes[p], e)
      BY Zenon, <1>2, <1>4, CarriesMore
    <2>. QED  BY Zenon, <1>4, <2>1, <2>2
  <1>. QED  BY Zenon, <1>3, <1>4

\* server_sendpkt, for a packet that is no signal.
LEMMA SendSignals ==
    ASSUME IInv, SignalInv, NEW p \in Peers, id[p] \in Ids, NEW kind \in Kinds \ {"SIGNAL"},
           NEW arg \in Args \ Events, sendpkt(p, kind, arg)
    PROVE  \A q \in Peers : SignalsOf(writes'[q]) /\ \A e \in Events : Carries(writes'[q], e) <=> Carries(writes[q], e)
  <1>1. Packet(kind, p, arg) \in Write
    BY Zenon, PacketIsWrite
  <1>2. Packet(kind, p, arg).kind /= "SIGNAL" /\ Packet(kind, p, arg).arg \notin Events
    BY Zenon DEF Packet
  <1>3. \A q \in Peers : writes'[q] = IF q = p THEN Append(writes[p], Packet(kind, p, arg)) ELSE writes[q]
    BY Zenon DEF sendpkt, IInv, SentInv
  <1>. QED  BY Zenon, <1>1, <1>2, <1>3, OtherSignals

\* dicey_server_raise_internal takes up an event: the packet is its own.
LEMMA RaiseSignals ==
    ASSUME IInv, SignalInv, raising = NULL, queue /= <<>>, Head(queue).op = "raise",
           loop_request_raise_signal(Head(queue))
    PROVE  SignalInv'
  <1>. DEFINE r == Head(queue)
  <1>1. /\ writes' = writes /\ refcount' = [refcount EXCEPT ![r.arg] = 1]
        /\ queue' = Tail(queue) /\ fresh' = fresh /\ clients' = clients
        /\ raising' = [event |-> r.arg, sem |-> r.sem,
                       rest |-> {i \in Ids : clients[i] /= NULL /\ subscribed[clients[i]]}]
    BY Zenon DEF loop_request_raise_signal, shared_packet_from, loopVars
  <1>2. r \in Addressed /\ queue \in Seq(LoopRequest) /\ 1 \in 1 .. Len(queue) /\ r = queue[1]
    BY TailIs, AddressedAreRequests DEF IInv, SentInv
  <1>3. r.arg \in Events /\ Carriers(r.arg) = {}
    BY Zenon, <1>2 DEF SignalInv, RequestsFit, Unsent
  <1>4. RequestsFit(queue', fresh') /\ \A e : Unsent(e, fresh', queue') => Unsent(e, fresh, queue) /\ e /= r.arg
    BY Zenon, <1>1, <1>2, FitAfter DEF SignalInv
  <1>5. \A e \in Events : Carriers(e)' = Carriers(e)
    BY Zenon, <1>1 DEF Carriers
  <1>6. raising' /= NULL /\ raising'.event = r.arg /\ \A i \in raising'.rest : i \in Ids /\ clients[i] /= NULL
    <2>1. raising' \in Raising
      BY Zenon, <1>1, <1>2, <1>3 DEF Raising, Addressed, LoopRequest
    <2>. QED  BY Zenon, <1>1, <2>1, ServerAssumption
  <1>7. RestInv'
    <2>1. \A i \in raising'.rest : clients[i] \in Peers
      BY Zenon, <1>6, SlotIsOpen DEF IInv
    <2>2. \A p \in Peers : ~Carries(writes[p], r.arg)
      BY Zenon, <1>3 DEF Carriers
    <2>. QED  BY Zenon, <1>1, <1>6, <2>1, <2>2 DEF RestInv
  <1>8. ASSUME NEW e \in Events
        PROVE  /\ IsFiniteSet(Carriers(e)') /\ refcount'[e] = Cardinality(Carriers(e)') + Hold(e)'
               /\ Unsent(e, fresh', queue') => Carriers(e)' = {} /\ ~Raised(e)'
    <2>1. /\ IsFiniteSet(Carriers(e)) /\ refcount[e] = Cardinality(Carriers(e)) + Hold(e)
          /\ Unsent(e, fresh, queue) => Carriers(e) = {}
      BY Zenon DEF SignalInv
    <2>2. Raised(e)' <=> e = r.arg
      BY Zenon, <1>6 DEF Raised
    <2>3. Hold(e) = 0
      BY Zenon DEF Hold, Raised
    <2>4. Unsent(e, fresh', queue') => Carriers(e)' = {} /\ ~Raised(e)'
      BY Zenon, <1>4, <1>5, <2>1, <2>2
    <2>5. CASE e = r.arg
      <3>1. refcount'[e] = 1 /\ Hold(e)' = 1 /\ Cardinality(Carriers(e)') = 0
        BY Zenon, <1>1, <1>3, <1>5, <2>2, <2>5, FS_EmptySet DEF Hold, SignalInv
      <3>. QED  BY <1>5, <2>1, <2>4, <3>1
    <2>6. CASE e /= r.arg
      <3>1. refcount'[e] = refcount[e] /\ Hold(e)' = 0
        BY Zenon, <1>1, <2>2, <2>6 DEF Hold, SignalInv
      <3>. QED  BY Zenon, <1>5, <2>1, <2>3, <2>4, <3>1
    <2>. QED  BY Zenon, <2>5, <2>6
  <1>9. refcount' \in [Events -> Nat]
    BY <1>1 DEF SignalInv
  <1>10. \A p \in Peers : SignalsOf(writes'[p])
    BY Zenon, <1>1 DEF SignalInv
  <1>. QED  BY Zenon, <1>1, <1>4, <1>7, <1>8, <1>9, <1>10 DEF SignalInv, FreshInv

\* The event is sent to one more client, or the send fails.
LEMMA NextSignals ==
    ASSUME IInv, RaiseInv, SignalInv, raise_next
    PROVE  SignalInv'
  <1>1. PICK i \in raising.rest : raise_to(clients[i], raising.event) /\ raising' = [raising EXCEPT !.rest = @ \ {i}]
    BY Zenon DEF raise_next
  <1>. DEFINE p == clients[i]  x == raising.event
  <1>2. raising \in Raising /\ raising /= NULL /\ queue' = queue /\ fresh' = fresh /\ clients' = clients
    BY Zenon DEF raise_next, RaiseInv, loopVars, callVars
  <1>3. i \in Ids /\ p /= NULL /\ x \in Events /\ x \in Args
    BY Zenon, <1>1, <1>2 DEF RaiseInv, Raising, Args
  <1>4. p \in Peers /\ id[p] = i /\ handle[p] = "open"
    BY Zenon, <1>3, SlotIsOpen DEF IInv
  <1>5. raising'.event = x /\ raising'.rest = raising.rest \ {i} /\ raising' /= NULL
    <2>1. raising' \in Raising /\ raising'.event = x /\ raising'.rest = raising.rest \ {i}
      BY <1>1, <1>2 DEF Raising
    <2>. QED  BY Zenon, <2>1, ServerAssumption
  <1>6. \A e : Raised(e)' = Raised(e) /\ Hold(e)' = Hold(e)
    BY Zenon, <1>2, <1>5 DEF Raised, Hold
  <1>7. ~Carries(writes[p], x) /\ \A j \in raising.rest : ~Carries(writes[clients[j]], x)
    BY Zenon, <1>1, <1>2 DEF SignalInv, RestInv
  <1>8. \A j \in raising.rest : j /= i => clients[j] /= p /\ clients[j] \in Peers
    <2>1. \A j \in raising.rest : j \in Ids /\ clients[j] /= NULL
      BY Zenon, <1>2 DEF RaiseInv, Raising
    <2>. QED  BY Zenon, <1>4, <2>1, SlotIsOpen DEF IInv
  <1>9. CASE UNCHANGED <<refcount, writes>>
    <2>1. RestInv'
      BY Zenon, <1>2, <1>5, <1>7, <1>9 DEF RestInv
    <2>2. \A e \in Events : Carriers(e)' = Carriers(e)
      BY Zenon, <1>9 DEF Carriers
    <2>. QED  BY Zenon, <1>2, <1>6, <1>9, <2>1, <2>2 DEF SignalInv, FreshInv
  <1>10. CASE shared_packet_ref(x) /\ sendpkt(p, "SIGNAL", x)
    <2>. DEFINE w == Packet("SIGNAL", p, x)
    <2>1. w \in Write
      BY Zenon, <1>3, <1>4, PacketIsWrite DEF Kinds
    <2>2. w.kind = "SIGNAL" /\ w.arg = x
      BY Zenon DEF Packet
    <2>3. \A q \in Peers : writes'[q] = IF q = p THEN Append(writes[p], w) ELSE writes[q]
      BY Zenon, <1>4, <1>10 DEF sendpkt, IInv, SentInv
    <2>. HIDE DEF w, x
    <2>4. writes[p] \in Seq(Write) /\ SignalsOf(writes[p])
      BY Zenon, <1>4 DEF IInv, SentInv, SignalInv
    <2>5. SignalsOf(Append(writes[p], w))
      BY Zenon, <1>3, <1>7, <2>1, <2>2, <2>4, SignalsMore
    <2>6. \A e \in Events : Carries(Append(writes[p], w), e) <=> Carries(writes[p], e) \/ x = e
      BY Zenon, <2>1, <2>2, <2>4, CarriesMore
    <2>. HIDE DEF p
    <2>7. \A e \in Events : Carriers(e)' = IF e = x THEN Carriers(e) \cup {p} ELSE Carriers(e)
      BY Zenon, <1>4, <2>3, <2>6 DEF Carriers
    <2>8. p \notin Carriers(x)
      BY Zenon, <1>7 DEF Carriers
    <2>9. \A e \in Events : refcount'[e] = IF e = x THEN refcount[e] + 1 ELSE refcount[e]
      BY Zenon, <1>3, <1>10 DEF shared_packet_ref, SignalInv
    <2>10. ASSUME NEW e \in Events
           PROVE  IsFiniteSet(Carriers(e)') /\ refcount'[e] = Cardinality(Carriers(e)') + Hold(e)' /\ refcount'[e] \in Nat
      <3>1. /\ IsFiniteSet(Carriers(e)) /\ refcount[e] = Cardinality(Carriers(e)) + Hold(e)
            /\ Cardinality(Carriers(e)) \in Nat /\ Hold(e) \in Nat /\ Hold(e)' = Hold(e)
        <4>1. IsFiniteSet(Carriers(e)) /\ refcount[e] = Cardinality(Carriers(e)) + Hold(e)
          BY Zenon DEF SignalInv
        <4>2. Hold(e) \in Nat
          BY DEF Hold
        <4>. QED  BY Zenon, <1>6, <4>1, <4>2, FS_CardinalityType
      <3>2. CASE e = x
        <4>1. IsFiniteSet(Carriers(e) \cup {p}) /\ Cardinality(Carriers(e) \cup {p}) = Cardinality(Carriers(e)) + 1
          BY Zenon, <2>8, <3>1, <3>2, FS_AddElement
        <4>2. Carriers(e)' = Carriers(e) \cup {p} /\ refcount'[e] = refcount[e] + 1
          BY Zenon, <2>7, <2>9, <3>2
        <4>. QED  BY <3>1, <4>1, <4>2
      <3>3. CASE e /= x
        <4>1. Carriers(e)' = Carriers(e) /\ refcount'[e] = refcount[e]
          BY Zenon, <2>7, <2>9, <3>3
        <4>. QED  BY <3>1, <4>1
      <3>. QED  BY Zenon, <3>2, <3>3
    <2>11. refcount' \in [Events -> Nat]
      <3>1. refcount' = [refcount EXCEPT ![x] = @ + 1]
        BY Zenon, <1>10 DEF shared_packet_ref
      <3>2. refcount' = [e \in Events |-> refcount'[e]]
        BY Zenon, <3>1 DEF SignalInv
      <3>. QED  BY Zenon, <2>10, <3>2
    <2>12. \A e \in Events : Unsent(e, fresh', queue') => Carriers(e)' = {} /\ ~Raised(e)'
      <3>1. Raised(x)
        BY Zenon, <1>2 DEF Raised, x
      <3>. QED  BY Zenon, <1>2, <1>6, <2>7, <3>1 DEF SignalInv
    <2>13. RestInv'
      BY Zenon, <1>2, <1>5, <1>7, <1>8, <2>3 DEF RestInv
    <2>14. \A q \in Peers : SignalsOf(writes'[q])
      BY Zenon, <2>3, <2>5 DEF SignalInv
    <2>15. \A e \in Events : IsFiniteSet(Carriers(e)') /\ refcount'[e] = Cardinality(Carriers(e)') + Hold(e)'
      BY Zenon, <2>10
    <2>. QED  BY Zenon, <1>2, <2>11, <2>12, <2>13, <2>14, <2>15 DEF SignalInv, FreshInv
  <1>. QED  BY Zenon, <1>1, <1>9, <1>10 DEF raise_to, sendpkt_fails

\* dicey_server_raise_internal lets go of the packet.
LEMMA EndSignals ==
    ASSUME RaiseInv, SignalInv, raise_end
    PROVE  SignalInv'
  <1>. DEFINE x == raising.event
  <1>1. /\ raising /= NULL /\ raising' = NULL /\ queue' = queue /\ fresh' = fresh /\ writes' = writes
        /\ refcount' = [refcount EXCEPT ![x] = @ - 1]
    BY Zenon DEF raise_end, shared_packet_unref
  <1>2. x \in Events /\ Raised(x)
    BY Zenon, <1>1 DEF RaiseInv, Raising, Raised
  <1>3. \A e : ~Raised(e)' /\ Hold(e)' = 0
    BY Zenon, <1>1 DEF Raised, Hold
  <1>4. \A e : Carriers(e)' = Carriers(e)
    BY Zenon, <1>1 DEF Carriers
  <1>5. RestInv'
    BY Zenon, <1>1 DEF RestInv
  <1>6. ASSUME NEW e \in Events
        PROVE  refcount'[e] = Cardinality(Carriers(e)) /\ refcount'[e] \in Nat
    <2>1. /\ refcount[e] = Cardinality(Carriers(e)) + Hold(e) /\ Cardinality(Carriers(e)) \in Nat
      BY Zenon, FS_CardinalityType DEF SignalInv
    <2>2. refcount'[e] = IF e = x THEN refcount[e] - 1 ELSE refcount[e]
      BY Zenon, <1>1 DEF SignalInv
    <2>3. Hold(e) = IF e = x THEN 1 ELSE 0
      BY Zenon, <1>1 DEF Hold, Raised
    <2>. QED  BY <2>1, <2>2, <2>3
  <1>7. refcount' \in [Events -> Nat]
    <2>1. refcount' = [e \in Events |-> refcount'[e]]
      BY Zenon, <1>1 DEF SignalInv
    <2>. QED  BY Zenon, <1>6, <2>1
  <1>8. \A e \in Events : refcount'[e] = Cardinality(Carriers(e)') + Hold(e)'
    <2>1. SUFFICES ASSUME NEW e \in Events
                   PROVE  refcount'[e] = Cardinality(Carriers(e)') + Hold(e)'
      BY Zenon
    <2>2. refcount'[e] = Cardinality(Carriers(e)') /\ refcount'[e] \in Nat /\ Hold(e)' = 0
      BY Zenon, <1>3, <1>4, <1>6
    <2>. QED  BY <2>2
  <1>. QED  BY Zenon, <1>1, <1>3, <1>4, <1>5, <1>7, <1>8 DEF SignalInv, FreshInv

\* on_write gives the reference of its packet back.
LEMMA WriteSignals ==
    ASSUME IInv, RaiseInv, SignalInv, NEW p \in Peers, on_write(p), ~Abort
    PROVE  SignalInv'
  <1>. DEFINE w == Head(writes[p])
  <1>1. /\ writes[p] /= <<>> /\ writes' = [writes EXCEPT ![p] = Tail(@)]
        /\ refcount' = [e \in Events |-> IF w.kind = "SIGNAL" /\ w.arg = e
                                        THEN refcount[e] - 1 ELSE refcount[e]]
        /\ queue' = <<>> \/ queue' = queue
        /\ fresh' = fresh /\ raising' = raising
    BY Zenon DEF on_write, finalize_shutdown
  <1>12. raising = NULL
    BY Zenon DEF on_write, Turn, RaiseInv
  <1>13. (\A e : ~Raised(e) /\ ~Raised(e)' /\ Hold(e) = 0 /\ Hold(e)' = 0) /\ RestInv'
    BY Zenon, <1>1, <1>12 DEF Raised, Hold, RestInv
  <1>2. writes[p] \in Seq(Write) /\ SignalsOf(writes[p])
    BY Zenon DEF IInv, SentInv, SignalInv
  <1>3. /\ SignalsOf(Tail(writes[p])) /\ Carries(writes[p], w.arg)
        /\ \A e \in Events : Carries(Tail(writes[p]), e) <=> Carries(writes[p], e) /\ w.arg /= e
    BY Zenon, <1>1, <1>2, SignalsLess
  <1>4. w.arg \in Events <=> w.kind = "SIGNAL"
    <2>1. Len(writes[p]) \in Nat \ {0} /\ w = writes[p][1]
      BY Zenon, <1>1, <1>2, TailIs
    <2>2. 1 \in 1 .. Len(writes[p])
      BY <2>1
    <2>. QED  BY Zenon, <1>2, <2>1, <2>2 DEF SignalsOf
  <1>5. \A q \in Peers : writes'[q] = IF q = p THEN Tail(writes[p]) ELSE writes[q]
    BY Zenon, <1>1 DEF IInv, SentInv
  <1>6. \A e \in Events : Carriers(e)' = IF e = w.arg THEN Carriers(e) \ {p} ELSE Carriers(e)
    BY Zenon, <1>3, <1>5 DEF Carriers
  <1>7. p \in Carriers(w.arg)
    BY Zenon, <1>3 DEF Carriers
  <1>8. RequestsFit(queue', fresh') /\ \A e : Unsent(e, fresh', queue') => Unsent(e, fresh, queue)
    BY <1>1 DEF SignalInv, RequestsFit, Unsent
  <1>9. ASSUME NEW e \in Events
        PROVE  /\ IsFiniteSet(Carriers(e)') /\ refcount'[e] = Cardinality(Carriers(e)') /\ refcount'[e] \in Nat
               /\ Unsent(e, fresh', queue') => Carriers(e)' = {}
    <2>1. IsFiniteSet(Carriers(e)) /\ refcount[e] = Cardinality(Carriers(e)) /\ Cardinality(Carriers(e)) \in Nat
      <3>1. /\ IsFiniteSet(Carriers(e)) /\ refcount[e] = Cardinality(Carriers(e)) + Hold(e)
            /\ Cardinality(Carriers(e)) \in Nat /\ Hold(e) = 0
        BY Zenon, <1>13, FS_CardinalityType DEF SignalInv
      <3>. QED  BY <3>1
    <2>2. CASE e = w.arg
      <3>1. /\ IsFiniteSet(Carriers(e) \ {p}) /\ Cardinality(Carriers(e) \ {p}) = Cardinality(Carriers(e)) - 1
            /\ Cardinality(Carriers(e) \ {p}) \in Nat
        BY Zenon, <1>7, <2>1, <2>2, FS_RemoveElement, FS_CardinalityType
      <3>2. refcount'[e] = refcount[e] - 1 /\ Carriers(e)' = Carriers(e) \ {p}
        BY Zenon, <1>1, <1>4, <1>6, <2>2
      <3>. QED  BY Zenon, <1>8, <2>1, <3>1, <3>2 DEF SignalInv
    <2>3. CASE e /= w.arg
      <3>1. refcount'[e] = refcount[e] /\ Carriers(e)' = Carriers(e)
        BY Zenon, <1>1, <1>6, <2>3
      <3>. QED  BY Zenon, <1>8, <2>1, <3>1 DEF SignalInv
    <2>. QED  BY Zenon, <2>2, <2>3
  <1>10. refcount' \in [Events -> Nat]
    BY Zenon, <1>1, <1>9
  <1>11. \A q \in Peers : SignalsOf(writes'[q])
    BY Zenon, <1>3, <1>5 DEF SignalInv
  <1>14. \A e \in Events : refcount'[e] = Cardinality(Carriers(e)') + Hold(e)'
    <2>1. SUFFICES ASSUME NEW e \in Events
                   PROVE  refcount'[e] = Cardinality(Carriers(e)') + Hold(e)'
      BY Zenon
    <2>2. refcount'[e] = Cardinality(Carriers(e)') /\ refcount'[e] \in Nat /\ Hold(e)' = 0
      BY Zenon, <1>9, <1>13
    <2>. QED  BY <2>2
  <1>. QED  BY Zenon, <1>1, <1>8, <1>9, <1>10, <1>11, <1>13, <1>14 DEF SignalInv, FreshInv

-----------------------------------------------------------------------------
\* server_submit_request queues a request that fits.
LEMMA SubmitSignals ==
    ASSUME IInv, SignalInv, NEW op \in {"kick", "respond", "raise", "stop"}, NEW target \in Ids \cup {NULL},
           NEW sem \in Callers \cup {NULL}, NEW arg \in Args, submit(op, target, sem, arg),
           op = "respond" => arg \in held,
           fresh' = IF op = "raise" THEN fresh \ {arg} ELSE fresh, op = "raise" => arg \in fresh
    PROVE  SignalInv'
  <1>. DEFINE r == [op |-> op, target |-> target, sem |-> sem, arg |-> arg]
  <1>1. r \in LoopRequest /\ queue \in Seq(LoopRequest)
    BY Zenon, AddressedAreRequests DEF LoopRequest, Args, IInv, SentInv
  <1>2. /\ queue' = Append(queue, r) /\ writes' = writes /\ refcount' = refcount
        /\ raising' = raising /\ clients' = clients
    BY Zenon DEF submit, sentVars, loopVars
  <1>3. /\ r.op = "respond" => r.arg \in Peers \X (1 .. MaxSeq)
        /\ r.op = "raise" => r.arg \in fresh \ fresh' /\ r.arg \in Events
        /\ fresh' \in SUBSET fresh
    BY Zenon DEF IInv, HeldInv, SignalInv, FreshInv
  <1>4. RequestsFit(queue', fresh') /\ \A e : Unsent(e, fresh', queue') => Unsent(e, fresh, queue)
    <2>1. RequestsFit(queue, fresh)
      BY Zenon DEF SignalInv
    <2>. HIDE DEF r
    <2>. QED  BY Zenon, <1>1, <1>2, <1>3, <2>1, FitMore
  <1>. QED  BY Zenon, <1>2, <1>3, <1>4, SignalsStay, WritesStay

\* The calls of the threads of the user keep the counts.
LEMMA CallSignals ==
    ASSUME IInv, SignalInv, NEW c \in Callers,
           \/ \E p \in Peers : kick(c, p)
           \/ \E h \in held : send_response(c, h)
           \/ \E e \in fresh : raise(c, e)
           \/ stop(c)
    PROVE  SignalInv'
  <1>1. ASSUME NEW p \in Peers, kick(c, p)
        PROVE  SignalInv'
    <2>1. /\ submit("kick", id[p], c, NULL) /\ id[p] \in Ids \cup {NULL} /\ NULL \in Args
          /\ fresh' = fresh
      BY Zenon, <1>1 DEF kick, IInv, ListInv, Args
    <2>. QED  BY Zenon, <2>1, SubmitSignals
  <1>2. ASSUME NEW h \in held, send_response(c, h)
        PROVE  SignalInv'
    <2>1. PICK sem \in Callers \cup {NULL} : submit("respond", id[h[1]], sem, h)
      BY Zenon, <1>2 DEF send_response
    <2>2. id[h[1]] \in Ids \cup {NULL} /\ h \in Args /\ fresh' = fresh
      BY Zenon, <1>2 DEF send_response, IInv, ListInv, HeldInv, Args
    <2>. QED  BY Zenon, <2>1, <2>2, SubmitSignals
  <1>3. ASSUME NEW e \in fresh, raise(c, e)
        PROVE  SignalInv'
    <2>1. PICK sem \in Callers \cup {NULL} : submit("raise", NULL, sem, e)
      BY Zenon, <1>3 DEF raise
    <2>2. e \in Args /\ fresh' = fresh \ {e}
      BY Zenon, <1>3 DEF raise, SignalInv, FreshInv, Args
    <2>. QED  BY Zenon, <2>1, <2>2, SubmitSignals
  <1>4. ASSUME stop(c)
        PROVE  SignalInv'
    <2>1. PICK sem \in Callers \cup {NULL} : submit("stop", NULL, sem, NULL)
      BY Zenon, <1>4 DEF stop
    <2>2. NULL \in Args /\ fresh' = fresh
      BY Zenon, <1>4 DEF stop, Args
    <2>. QED  BY Zenon, <2>1, <2>2, SubmitSignals
  <1>. QED  BY Zenon, <1>1, <1>2, <1>3, <1>4

\* The requests the loop takes from the queue keep the counts.
LEMMA DrainSignals ==
    ASSUME IInv, SignalInv, drain_step, ~Abort
    PROVE  SignalInv'
  <1>. DEFINE r == Head(queue)
  <1>1. /\ queue /= <<>> /\ r \in Addressed /\ queue \in Seq(LoopRequest) /\ raising = NULL
        /\ 1 \in 1 .. Len(queue) /\ r = queue[1]
    BY TailIs, AddressedAreRequests DEF drain_step, IInv, SentInv
  <1>2. /\ RequestsFit(Tail(queue), fresh) /\ \A e : Unsent(e, fresh, Tail(queue)) => Unsent(e, fresh, queue)
        /\ RequestsFit(<<>>, fresh) /\ \A e : Unsent(e, fresh, <<>>) => Unsent(e, fresh, queue)
    BY Zenon, <1>1, FitAfter DEF SignalInv
  <1>3. ASSUME queue' \in {<<>>, Tail(queue)}, fresh' = fresh, refcount' = refcount, raising' = raising,
               \A p \in Peers : /\ SignalsOf(writes'[p])
                                /\ \A e \in Events : Carries(writes'[p], e) <=> Carries(writes[p], e)
        PROVE  SignalInv'
    BY Zenon, <1>1, <1>2, <1>3, SignalsStay
  <1>4. CASE r.op = "respond" /\ loop_request_send_response(r)
    <2>1. queue' = Tail(queue) /\ fresh' = fresh /\ refcount' = refcount /\ raising' = raising
      BY Zenon, <1>4 DEF loop_request_send_response, Handled
    <2>2. CASE UNCHANGED writes
      BY Zenon, <1>3, <2>1, <2>2, WritesStay
    <2>3. CASE clients[r.target] /= NULL /\ sendpkt(clients[r.target], "RESPONSE", r.arg)
      <3>1. clients[r.target] \in Peers /\ id[clients[r.target]] \in Ids
        BY Zenon, <1>1, <1>4, <2>3, SlotIsOpen DEF IInv, Addressed
      <3>2. r.arg \in Args \ Events /\ "RESPONSE" \in Kinds \ {"SIGNAL"}
        BY Zenon, <1>1, <1>4, ServerAssumption DEF SignalInv, RequestsFit, Args, Kinds
      <3>. QED  BY Zenon, <1>3, <2>1, <2>3, <3>1, <3>2, SendSignals
    <2>. QED  BY Zenon, <1>4, <2>2, <2>3 DEF loop_request_send_response
  <1>5. CASE r.op = "raise" /\ loop_request_raise_signal(r)
    BY Zenon, <1>1, <1>5, RaiseSignals
  <1>6. CASE loop_request_shutdown(r)
    <2>1. queue' \in {<<>>, Tail(queue)} /\ fresh' = fresh /\ refcount' = refcount /\ raising' = raising
      BY Zenon, <1>6 DEF loop_request_shutdown, finalize_shutdown, Handled
    <2>4. PICK R \in SUBSET Listed :
            writes' = [p \in Peers |-> IF p \in R THEN Append(writes[p], Packet("BYE", p, NULL))
                                        ELSE writes[p]]
      BY Zenon, <1>6 DEF loop_request_shutdown
    <2>2. ASSUME NEW p \in Peers, p \in Listed
          PROVE  /\ Packet("BYE", p, NULL) \in Write
                 /\ Packet("BYE", p, NULL).kind /= "SIGNAL" /\ Packet("BYE", p, NULL).arg \notin Events
      <3>1. id[p] \in Ids
        BY Zenon, <2>2, SlotIsOpen DEF IInv, Listed
      <3>2. Packet("BYE", p, NULL) \in Write
        BY Zenon, <3>1, PacketIsWrite DEF Kinds, Args
      <3>. QED  BY Zenon, <3>2, ServerAssumption DEF Packet
    <2>3. \A p \in Peers : writes'[p] = writes[p]
                            \/ \E w \in Write : /\ w.kind /= "SIGNAL" /\ w.arg \notin Events
                                                /\ writes'[p] = Append(writes[p], w)
      BY Zenon, <2>2, <2>4
    <2>. QED  BY Zenon, <1>3, <2>1, <2>3, OtherSignals
  <1>. QED  BY Zenon, <1>4, <1>5, <1>6 DEF drain_step, loop_request_kick_client

\* Every step of the server keeps the counts.
LEMMA StepSignals ==
    ASSUME IInv, RaiseInv, SignalInv, [Next]_vars
    PROVE  SignalInv'
  <1>1. ASSUME writes' = writes, refcount' = refcount, queue' = queue, fresh' = fresh, raising' = raising,
               raising = NULL \/ clients' = clients
        PROVE  SignalInv'
    BY Zenon, <1>1, WritesStay, SignalsStay DEF SignalInv
  <1>2. ASSUME NEW p \in Peers, id[p] \in Ids, NEW kind \in Kinds \ {"SIGNAL"}, NEW arg \in Args \ Events,
               sendpkt(p, kind, arg), refcount' = refcount, queue' = queue, fresh' = fresh,
               raising' = raising, raising = NULL
        PROVE  SignalInv'
    BY Zenon, <1>2, SendSignals, SignalsStay DEF SignalInv
  <1>3. CASE Abort \/ start \/ close_handles \/ drain_begin \/ drain_end \/ UNCHANGED vars
    <2>1. /\ writes' = writes /\ refcount' = refcount /\ queue' = queue /\ fresh' = fresh
          /\ raising' = raising /\ clients' = clients
      BY Zenon, <1>3 DEF Abort, start, close_handles, drain_begin, drain_end, vars, callVars, sentVars, loopVars
    <2>. QED  BY Zenon, <1>1, <2>1
  <1>4. SUFFICES ASSUME ~Abort, Next
                 PROVE  SignalInv'
    BY Zenon, <1>3
  <1>5. CASE drain_step
    BY Zenon, <1>4, <1>5, DrainSignals
  <1>6. ASSUME NEW p \in Peers,
               on_connect(p) \/ client_got_bye(p) \/ on_read_end(p) \/ plugin_exit(p) \/ on_client_end(p)
        PROVE  SignalInv'
    <2>1. writes' = writes /\ refcount' = refcount /\ queue' = queue /\ fresh' = fresh /\ raising' = raising
      BY Zenon, <1>4, <1>6 DEF on_connect, client_got_bye, on_read_end, plugin_exit, on_client_end, callVars,
                  sentVars
    <2>2. raising = NULL
      BY Zenon, <1>6 DEF on_connect, client_got_bye, on_read_end, plugin_exit, on_client_end, Reads, Turn,
                  RaiseInv
    <2>. QED  BY Zenon, <1>1, <2>1, <2>2
  <1>7. ASSUME NEW p \in Peers, bad_packet(p) \/ client_got_hello(p) \/ client_got_message(p)
        PROVE  SignalInv'
    <2>1. id[p] \in Ids
      BY Zenon, <1>7, OpenHasId DEF bad_packet, client_got_hello, client_got_message, Reads, IInv
    <2>2. NULL \in Args \ Events /\ {"HELLO", "BYE", "RESPONSE"} \subseteq Kinds \ {"SIGNAL"}
      BY Zenon, ServerAssumption DEF Args, Kinds
    <2>3. /\ raising = NULL
          /\ refcount' = refcount /\ queue' = queue /\ fresh' = fresh /\ raising' = raising
      <3>1. raising = NULL
        BY Zenon, <1>7 DEF bad_packet, client_got_hello, client_got_message, Reads, Turn, RaiseInv
      <3>. QED  BY Zenon, <1>4, <1>7, <3>1 DEF bad_packet, client_got_hello, client_got_message,
                  client_raised_error, answered_at_once, user_failed, given_to_user, callVars, sentVars
    <2>4. CASE client_got_message(p) /\ sendpkt(p, "RESPONSE", <<p, last[p] + 1>>)
      <3>1. <<p, last[p] + 1>> \in Peers \X (1 .. MaxSeq)
        BY <2>4, ServerAssumption DEF client_got_message, IInv, HeldInv
      <3>2. <<p, last[p] + 1>> \in Args \ Events
        BY Zenon, <3>1, ServerAssumption DEF Args
      <3>. QED  BY Zenon, <1>2, <2>1, <2>2, <2>3, <2>4, <3>2
    <2>5. CASE sendpkt(p, "BYE", NULL) \/ sendpkt(p, "HELLO", NULL)
      BY Zenon, <1>2, <2>1, <2>2, <2>3, <2>5
    <2>6. CASE writes' = writes
      BY Zenon, <1>1, <2>3, <2>6
    <2>. QED  BY Zenon, <1>4, <1>7, <2>4, <2>5, <2>6 DEF bad_packet, client_got_hello, client_got_message,
                client_raised_error, answered_at_once, user_failed, given_to_user, sendpkt_fails, sentVars
  <1>8. ASSUME NEW p \in Peers, on_write(p)
        PROVE  SignalInv'
    BY Zenon, <1>4, <1>8, WriteSignals
  <1>9. ASSUME NEW c \in Callers,
               \/ \E p \in Peers : kick(c, p)
               \/ \E h \in held : send_response(c, h)
               \/ \E e \in fresh : raise(c, e)
               \/ stop(c)
        PROVE  SignalInv'
    BY Zenon, <1>9, CallSignals
  <1>10. CASE raise_next \/ raise_end
    BY Zenon, <1>10, NextSignals, EndSignals
  <1>. QED  BY Zenon, <1>3, <1>4, <1>5, <1>6, <1>7, <1>8, <1>9, <1>10 DEF Next

\* The writes that carry an event are as many as the clients it is written to.
LEMMA OneFlightEach ==
    ASSUME SignalInv, NEW e \in Events
    PROVE  Cardinality({f \in InFlight : writes[f[1]][f[2]].arg = e}) = Cardinality(Carriers(e))
  <1>. DEFINE F == {f \in InFlight : writes[f[1]][f[2]].arg = e}
              g == [f \in F |-> f[1]]
  <1>1. \A f \in F : /\ f[1] \in Peers /\ f[2] \in 1 .. Len(writes[f[1]]) /\ f = <<f[1], f[2]>>
                     /\ writes[f[1]][f[2]].arg = e
    BY DEF InFlight
  <1>2. \A p \in Peers : \A k \in 1 .. Len(writes[p]) : writes[p][k].arg = e => <<p, k>> \in F
    BY DEF InFlight
  <1>. HIDE DEF F
  <1>3. g \in [F -> Carriers(e)]
    BY Zenon, <1>1 DEF Carriers, Carries
  <1>4. \A f, h \in F : g[f] = g[h] => f = h
    <2>1. SUFFICES ASSUME NEW f \in F, NEW h \in F, f[1] = h[1]
                   PROVE  f[2] = h[2]
      BY Zenon, <1>1
    <2>. QED  BY <1>1, <2>1 DEF SignalInv, SignalsOf
  <1>5. \A p \in Carriers(e) : \E f \in F : g[f] = p
    <2>1. SUFFICES ASSUME NEW p \in Carriers(e)
                   PROVE  \E f \in F : f[1] = p
      BY Zenon
    <2>2. PICK k \in 1 .. Len(writes[p]) : writes[p][k].arg = e
      BY Zenon DEF Carriers, Carries
    <2>3. p \in Peers
      BY Zenon DEF Carriers
    <2>. QED  BY Zenon, <1>2, <2>2, <2>3
  <1>6. g \in Injection(F, Carriers(e)) /\ g \in Surjection(F, Carriers(e))
    BY Zenon, <1>3, <1>4, <1>5 DEF Injection, IsInjective, Surjection
  <1>7. IsFiniteSet(Carriers(e))
    BY Zenon DEF SignalInv
  <1>. QED  BY Zenon, <1>6, <1>7, FS_Injection DEF F

\* The count of a shared packet (shared-packet.c, used by server.c to raise a
\* signal) is the number of writes that hold it, and one for the function that
\* is sending it, whichever sends fail and whichever clients leave meanwhile: the
\* packet is freed when the last of its writes ends, and not before.
THEOREM ServerSignalsCounted == Spec => []SignalsCounted
  <1>1. Init => SignalInv
    <2>1. SUFFICES ASSUME Init PROVE SignalInv
      BY Zenon
    <2>2. \A e \in Events : Carriers(e) = {}
      BY <2>1 DEF Init, Carriers, Carries
    <2>3. FreshInv /\ refcount = [e \in Events |-> 0] /\ RequestsFit(queue, fresh)
      BY <2>1 DEF Init, FreshInv, RequestsFit
    <2>4. \A p \in Peers : SignalsOf(writes[p])
      BY <2>1 DEF Init, SignalsOf
    <2>5. raising = NULL
      BY Zenon, <2>1 DEF Init
    <2>6. \A e \in Events : ~Raised(e) /\ Hold(e) = 0
      BY Zenon, <2>5 DEF Raised, Hold
    <2>7. RestInv
      BY Zenon, <2>5 DEF RestInv
    <2>8. ASSUME NEW e \in Events
          PROVE  IsFiniteSet(Carriers(e)) /\ refcount[e] = Cardinality(Carriers(e)) + Hold(e)
      <3>1. IsFiniteSet({}) /\ Cardinality({}) = 0
        BY Zenon, FS_EmptySet
      <3>2. Carriers(e) = {} /\ refcount[e] = 0 /\ Hold(e) = 0
        BY Zenon, <2>2, <2>3, <2>6
      <3>. QED  BY <3>1, <3>2
    <2>9. refcount \in [Events -> Nat]
      BY <2>3
    <2>. QED  BY Zenon, <2>2, <2>3, <2>4, <2>6, <2>7, <2>8, <2>9 DEF SignalInv
  <1>2. IInv /\ RaiseInv /\ SignalInv /\ [Next]_vars => SignalInv'
    BY Zenon, StepSignals
  <1>3. SignalInv => SignalsCounted
    BY Zenon, OneFlightEach DEF SignalsCounted, SignalInv, Hold, Raised
  <1>. QED  BY <1>1, <1>2, <1>3, ServerInvariant, PTL DEF Spec

=============================================================================
