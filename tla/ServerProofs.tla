----------------------------- MODULE ServerProofs -----------------------------
(***************************************************************************)
(* The client list of a server, for any number of clients, threads and     *)
(* requests: an id leads to one open client or to none.  A thread that     *)
(* waits is the semaphore of one request, of the event that is being       *)
(* raised, or of the shutdown.                                             *)
(***************************************************************************)
EXTENDS Server, FiniteSetTheorems, TLAPS

\* The list, the handles and the ids.  A client that was removed keeps its id
\* until its memory is freed.
ListInv ==
    /\ clients \in [Ids -> Peers \cup {NULL}]
    /\ handle \in [Peers -> {"none", "open", "closing", "gone"}]
    /\ id \in [Peers -> Ids \cup {NULL}]
    /\ ListedAreOpen
    /\ \A p \in Peers : handle[p] = "closing" => id[p] \in Ids

\* User code holds requests of clients that are still in memory.
HeldInv ==
    /\ last \in [Peers -> 0 .. MaxSeq]
    /\ held \subseteq Peers \X (1 .. MaxSeq)
    /\ \A h \in held : handle[h[1]] \in {"open", "closing"}

\* A write names a slot of the list, and so does a request for one client.
Addressed == {r \in LoopRequest : /\ r.op \in {"kick", "respond"} => r.target \in Ids
                                  /\ r.op = "raise" => r.arg \in Events}
SentInv ==
    /\ writes \in [Peers -> Seq(Write)]
    /\ queue \in Seq(Addressed)

IInv == ListInv /\ HeldInv /\ SentInv

\* An event is raised inside a drain, in which no callback runs: the clients it
\* is still to be written to stay in the list.
RaiseInv ==
    /\ raising \in Raising \cup {NULL}
    /\ raising /= NULL => draining /\ \A i \in raising.rest : clients[i] /= NULL

Args == (Peers \X (1 .. MaxSeq)) \cup Events \cup {NULL}
Kinds == {"HELLO", "BYE", "RESPONSE", "SIGNAL"}

-----------------------------------------------------------------------------
\* An open client has an id, which leads back to it.
LEMMA OpenHasId ==
    ASSUME ListInv, NEW p \in Peers, handle[p] = "open"
    PROVE  id[p] \in Ids /\ clients[id[p]] = p
  BY Zenon DEF ListInv, ListedAreOpen

\* What a slot leads to is an open client with the slot as its id.
LEMMA SlotIsOpen ==
    ASSUME ListInv, NEW i \in Ids, clients[i] /= NULL
    PROVE  clients[i] \in Peers /\ handle[clients[i]] = "open" /\ id[clients[i]] = i
  BY DEF ListInv, ListedAreOpen

\* A packet for a client that has an id is a write.
LEMMA PacketIsWrite ==
    ASSUME NEW p \in Peers, id[p] \in Ids, NEW kind \in Kinds, NEW arg \in Args
    PROVE  Packet(kind, p, arg) \in Write
  BY Zenon DEF Packet, Write, Kinds, Args

\* server_sendpkt adds a write to those of its client.
LEMMA SendKeepsWrites ==
    ASSUME SentInv, NEW p \in Peers, id[p] \in Ids, NEW kind \in Kinds, NEW arg \in Args,
           sendpkt(p, kind, arg)
    PROVE  writes' \in [Peers -> Seq(Write)]
  <1>1. Packet(kind, p, arg) \in Write
    BY Zenon, PacketIsWrite
  <1>. QED  BY <1>1 DEF SentInv, sendpkt

\* dicey_server_remove_client keeps list, handles and ids in step.
LEMMA RemoveKeepsList ==
    ASSUME ListInv, NEW i \in Ids, clients[i] /= NULL, remove_client(i), UNCHANGED id
    PROVE  ListInv' /\ \A p \in Peers : handle[p] = "closing" => handle'[p] = "closing"
  <1>1. clients[i] \in Peers /\ handle[clients[i]] = "open" /\ id[clients[i]] = i
    BY Zenon, SlotIsOpen
  <1>2. clients' \in [Ids -> Peers \cup {NULL}] /\ handle' \in [Peers -> {"none", "open", "closing", "gone"}]
    BY Zenon, <1>1 DEF ListInv, remove_client
  <1>3. \A p \in Peers : handle'[p] = IF p = clients[i] THEN "closing" ELSE handle[p]
    BY Zenon, <1>1 DEF ListInv, remove_client
  <1>4. \A j \in Ids : clients'[j] = IF j = i THEN NULL ELSE clients[j]
    BY Zenon DEF ListInv, remove_client
  <1>5. ASSUME NEW p \in Peers, handle'[p] = "open"
        PROVE  id'[p] \in Ids /\ clients'[id'[p]] = p
    <2>1. p /= clients[i] /\ handle[p] = "open"
      BY Zenon, <1>3, <1>5
    <2>2. id[p] \in Ids /\ clients[id[p]] = p
      BY Zenon, <2>1, OpenHasId
    <2>. QED  BY Zenon, <1>4, <2>1, <2>2
  <1>6. ASSUME NEW j \in Ids, clients'[j] /= NULL
        PROVE  handle'[clients'[j]] = "open" /\ id'[clients'[j]] = j
    <2>1. j /= i /\ clients'[j] = clients[j]
      BY Zenon, <1>4, <1>6
    <2>2. clients[j] \in Peers /\ handle[clients[j]] = "open" /\ id[clients[j]] = j
      BY Zenon, <1>6, <2>1, SlotIsOpen
    <2>. QED  BY Zenon, <1>1, <1>3, <2>1, <2>2
  <1>7. \A p \in Peers : handle'[p] = "closing" => id'[p] \in Ids
    BY Zenon, <1>1, <1>3 DEF ListInv
  <1>8. ListedAreOpen'
    BY Zenon, <1>5, <1>6 DEF ListedAreOpen
  <1>9. id' \in [Peers -> Ids \cup {NULL}]
    BY Zenon DEF ListInv
  <1>. QED  BY Zenon, <1>2, <1>3, <1>7, <1>8, <1>9 DEF ListInv

\* The queue after its requests were cancelled.
LEMMA NothingQueued == <<>> \in Seq(Addressed)
  OBVIOUS

\* What nobody touches stays as it is.
LEMMA ListStays ==
    ASSUME ListInv, UNCHANGED <<clients, handle, id>>
    PROVE  ListInv'
  BY Zenon DEF ListInv, ListedAreOpen

\* The requests that user code holds survive the removal of a client.
LEMMA HeldStays ==
    ASSUME ListInv, HeldInv, NEW i \in Ids, clients[i] /= NULL, remove_client(i),
           UNCHANGED <<last, held>>
    PROVE  HeldInv'
  <1>1. clients[i] \in Peers
    BY Zenon, SlotIsOpen
  <1>2. \A p \in Peers : handle'[p] = IF p = clients[i] THEN "closing" ELSE handle[p]
    BY Zenon, <1>1 DEF ListInv, remove_client
  <1>3. \A h \in held : h[1] \in Peers
    BY Zenon DEF HeldInv
  <1>. QED  BY Zenon, <1>2, <1>3 DEF HeldInv

\* A step that leaves alone what the invariant is about.
Idles == UNCHANGED <<clients, handle, id, last, held, writes, queue>>
LEMMA IdlesKeeps ==
    ASSUME IInv, Idles
    PROVE  IInv'
  <1>1. ListInv'
    BY Zenon, ListStays DEF IInv, Idles
  <1>2. HeldInv' /\ SentInv'
    BY Zenon DEF IInv, Idles, HeldInv, SentInv
  <1>. QED  BY Zenon, <1>1, <1>2 DEF IInv

-----------------------------------------------------------------------------
\* on_connect takes a slot that is free.
LEMMA ConnectKeeps ==
    ASSUME IInv, NEW p \in Peers, on_connect(p)
    PROVE  IInv'
  <1>. USE DEF IInv
  <1>1. PICK i \in Ids :
            /\ clients[i] = NULL
            /\ id' = [id EXCEPT ![p] = i]
            /\ \/ /\ clients' = [clients EXCEPT ![i] = p]
                  /\ handle' = [handle EXCEPT ![p] = "open"]
               \/ /\ handle' = [handle EXCEPT ![p] = "closing"]
                  /\ UNCHANGED clients
    BY Zenon DEF on_connect
  <1>2. handle[p] = "none" /\ UNCHANGED <<last, held, writes, queue>>
    BY Zenon DEF on_connect, callVars, sentVars
  <1>3. \A q \in Peers : id'[q] = IF q = p THEN i ELSE id[q]
    BY Zenon, <1>1 DEF ListInv
  <1>4. \A q \in Peers : q /= p => handle'[q] = handle[q]
    BY Zenon, <1>1 DEF ListInv
  <1>5. \A j \in Ids : clients[j] /= p
    BY Zenon, <1>2, SlotIsOpen, ServerAssumption
  <1>6. ListedAreOpen'
    <2>1. ASSUME NEW q \in Peers, handle'[q] = "open"
          PROVE  id'[q] \in Ids /\ clients'[id'[q]] = q
      <3>1. CASE q = p
        BY Zenon, <1>1, <1>3, <2>1, <3>1 DEF ListInv
      <3>2. CASE q /= p
        <4>1. handle[q] = "open" /\ id'[q] = id[q]
          BY Zenon, <1>3, <1>4, <2>1, <3>2
        <4>2. id[q] \in Ids /\ clients[id[q]] = q /\ id[q] /= i
          BY Zenon, <1>1, <4>1, OpenHasId, ServerAssumption
        <4>. QED  BY Zenon, <1>1, <4>1, <4>2 DEF ListInv
      <3>. QED  BY Zenon, <3>1, <3>2
    <2>2. ASSUME NEW j \in Ids, clients'[j] /= NULL
          PROVE  handle'[clients'[j]] = "open" /\ id'[clients'[j]] = j
      <3>1. CASE clients'[j] = clients[j]
        <4>1. clients[j] \in Peers /\ handle[clients[j]] = "open" /\ id[clients[j]] = j
          BY Zenon, <2>2, <3>1, SlotIsOpen
        <4>. QED  BY Zenon, <1>3, <1>4, <1>5, <3>1, <4>1
      <3>2. CASE clients'[j] /= clients[j]
        <4>1. j = i /\ clients'[j] = p /\ handle'[p] = "open"
          BY Zenon, <1>1, <3>2 DEF ListInv
        <4>. QED  BY Zenon, <1>3, <4>1
      <3>. QED  BY Zenon, <3>1, <3>2
    <2>. QED  BY Zenon, <2>1, <2>2 DEF ListedAreOpen
  <1>7. /\ clients' \in [Ids -> Peers \cup {NULL}]
        /\ handle' \in [Peers -> {"none", "open", "closing", "gone"}]
        /\ id' \in [Peers -> Ids \cup {NULL}]
    BY Zenon, <1>1 DEF ListInv
  <1>8. \A q \in Peers : handle'[q] = "closing" => id'[q] \in Ids
    BY Zenon, <1>3, <1>4 DEF ListInv
  <1>9. HeldInv'
    <2>1. \A h \in held : h[1] \in Peers /\ h[1] /= p
      BY Zenon, <1>2 DEF HeldInv
    <2>. QED  BY Zenon, <1>2, <1>4, <2>1 DEF HeldInv
  <1>10. SentInv'
    BY Zenon, <1>2 DEF SentInv
  <1>. QED  BY Zenon, <1>6, <1>7, <1>8, <1>9, <1>10 DEF ListInv

\* A packet for an open client is sent, or not.
LEMMA SendKeeps ==
    ASSUME IInv, NEW p \in Peers, handle[p] = "open", NEW kind \in Kinds, NEW arg \in Args,
           sendpkt(p, kind, arg) \/ UNCHANGED writes,
           last' \in [Peers -> 0 .. MaxSeq], UNCHANGED <<clients, handle, id, held, queue>>
    PROVE  IInv'
  <1>1. writes' \in [Peers -> Seq(Write)]
    BY Zenon, OpenHasId, SendKeepsWrites DEF IInv, SentInv
  <1>2. ListInv'
    BY Zenon, ListStays DEF IInv
  <1>. QED  BY Zenon, <1>1, <1>2 DEF IInv, HeldInv, SentInv

\* dicey_server_client_raised_error writes a BYE.
LEMMA RaisedErrorKeeps ==
    ASSUME IInv, NEW p \in Peers, handle[p] = "open", client_raised_error(p)
    PROVE  IInv'
  <1>1. CASE Abort
    BY Zenon, <1>1, IdlesKeeps DEF Abort, Idles, loopVars, callVars, sentVars
  <1>2. CASE ~Abort
    <2>1. /\ sendpkt(p, "BYE", NULL) \/ UNCHANGED writes
          /\ UNCHANGED <<clients, handle, id, last, held, queue>>
      BY Zenon, <1>2 DEF client_raised_error, sendpkt_fails, callVars
    <2>2. last' \in [Peers -> 0 .. MaxSeq] /\ "BYE" \in Kinds /\ NULL \in Args
      BY Zenon, <2>1 DEF IInv, HeldInv, Kinds, Args
    <2>. QED  BY Zenon, <2>1, <2>2, SendKeeps
  <1>. QED  BY Zenon, <1>1, <1>2

\* A packet is read.
LEMMA HelloKeeps ==
    ASSUME IInv, NEW p \in Peers, client_got_hello(p)
    PROVE  IInv'
  <1>1. handle[p] = "open"
    BY Zenon DEF client_got_hello, Reads
  <1>2. CASE client_raised_error(p)
    BY Zenon, <1>1, <1>2, RaisedErrorKeeps
  <1>3. CASE ~client_raised_error(p)
    <2>1. sendpkt(p, "HELLO", NULL) /\ UNCHANGED <<clients, handle, id, last, held, queue>>
      BY Zenon, <1>3 DEF client_got_hello, callVars
    <2>2. last' \in [Peers -> 0 .. MaxSeq] /\ "HELLO" \in Kinds /\ NULL \in Args
      BY Zenon, <2>1 DEF IInv, HeldInv, Kinds, Args
    <2>. QED  BY Zenon, <1>1, <2>1, <2>2, SendKeeps
  <1>. QED  BY Zenon, <1>2, <1>3

LEMMA MessageKeeps ==
    ASSUME IInv, NEW p \in Peers, client_got_message(p)
    PROVE  IInv'
  <1>1. handle[p] = "open" /\ last[p] < MaxSeq
    BY Zenon DEF client_got_message, Reads
  <1>2. last[p] \in 0 .. MaxSeq /\ last[p] + 1 \in 1 .. MaxSeq
    BY <1>1, ServerAssumption DEF IInv, HeldInv
  <1>3. CASE client_raised_error(p)
    BY Zenon, <1>1, <1>3, RaisedErrorKeeps
  <1>4. CASE answered_at_once(p) \/ user_failed(p)
    <2>1. PICK kind \in {"RESPONSE", "BYE"}, arg \in {<<p, last[p] + 1>>, NULL} :
             sendpkt(p, kind, arg) \/ UNCHANGED writes
      BY Zenon, <1>4 DEF answered_at_once, user_failed, sendpkt_fails
    <2>2. last' = [last EXCEPT ![p] = @ + 1] /\ UNCHANGED <<clients, handle, id, held, queue>>
      BY Zenon, <1>4 DEF answered_at_once, user_failed, callVars
    <2>3. kind \in Kinds /\ arg \in Args
      <3>1. <<p, last[p] + 1>> \in Args /\ NULL \in Args
        BY Zenon, <1>2 DEF Args
      <3>. QED  BY Zenon, <3>1 DEF Kinds
    <2>4. last' \in [Peers -> 0 .. MaxSeq]
      BY <1>2, <2>2, ServerAssumption DEF IInv, HeldInv
    <2>. QED  BY Zenon, <1>1, <2>1, <2>2, <2>3, <2>4, SendKeeps
  <1>5. CASE given_to_user(p)
    <2>1. /\ last' = [last EXCEPT ![p] = @ + 1]
          /\ held' = held \cup {<<p, last[p] + 1>>}
          /\ UNCHANGED <<clients, handle, id, writes, queue>>
      BY Zenon, <1>5 DEF given_to_user, sentVars
    <2>2. last' \in [Peers -> 0 .. MaxSeq]
      BY <1>2, <2>1, ServerAssumption DEF IInv, HeldInv
    <2>3. held' \subseteq Peers \X (1 .. MaxSeq)
      BY <1>2, <2>1 DEF IInv, HeldInv
    <2>4. \A h \in held' : handle'[h[1]] \in {"open", "closing"}
      BY <1>1, <2>1 DEF IInv, HeldInv
    <2>5. ListInv'
      BY Zenon, <2>1, ListStays DEF IInv
    <2>. QED  BY Zenon, <2>1, <2>2, <2>3, <2>4, <2>5 DEF IInv, HeldInv, SentInv
  <1>. QED  BY Zenon, <1>3, <1>4, <1>5 DEF client_got_message

\* The client is removed: it said BYE, hung up, or was a plugin that has ended.
LEMMA LeaveKeeps ==
    ASSUME IInv, NEW p \in Peers, handle[p] = "open", remove_client(id[p]),
           UNCHANGED <<id, last, held, writes, queue>>
    PROVE  IInv'
  <1>1. id[p] \in Ids /\ clients[id[p]] /= NULL
    BY Zenon, OpenHasId, ServerAssumption DEF IInv
  <1>2. ListInv' /\ HeldInv'
    BY Zenon, <1>1, RemoveKeepsList, HeldStays DEF IInv
  <1>. QED  BY Zenon, <1>2 DEF IInv, SentInv

\* on_write: the slot that the write names is in the list.
LEMMA WriteKeeps ==
    ASSUME IInv, NEW p \in Peers, on_write(p)
    PROVE  IInv'
  <1>. DEFINE w == Head(writes[p])
  <1>1. w \in Write /\ Tail(writes[p]) \in Seq(Write)
    BY DEF IInv, SentInv, on_write
  <1>2. w.id \in Ids
    BY Zenon, <1>1 DEF Write
  <1>3. CASE Abort
    BY Zenon, <1>3, IdlesKeeps DEF Abort, Idles, loopVars, callVars, sentVars
  <1>4. CASE ~Abort
    <2>1. /\ clients[w.id] /= NULL
          /\ remove_client(w.id) \/ UNCHANGED <<clients, handle>>
          /\ writes' = [writes EXCEPT ![p] = Tail(@)]
          /\ queue' = <<>> \/ UNCHANGED queue
          /\ UNCHANGED <<id, last, held>>
      BY Zenon, <1>4 DEF on_write, finalize_shutdown
    <2>a. queue' \in Seq(Addressed)
      BY Zenon, <2>1, NothingQueued DEF IInv, SentInv
    <2>b. writes' \in [Peers -> Seq(Write)]
      BY Zenon, <1>1, <2>1 DEF IInv, SentInv
    <2>2. writes' \in [Peers -> Seq(Write)] /\ queue' \in Seq(Addressed)
      BY Zenon, <2>a, <2>b
    <2>3. CASE remove_client(w.id)
      <3>1. ListInv'
        BY Zenon, <1>2, <2>1, <2>3, RemoveKeepsList DEF IInv
      <3>2. HeldInv'
        BY Zenon, <1>2, <2>1, <2>3, HeldStays DEF IInv
      <3>. QED  BY Zenon, <2>2, <3>1, <3>2 DEF IInv, SentInv
    <2>4. CASE UNCHANGED <<clients, handle>>
      <3>1. ListInv'
        BY Zenon, <2>1, <2>4, ListStays DEF IInv
      <3>. QED  BY Zenon, <2>1, <2>2, <2>4, <3>1 DEF IInv, HeldInv, SentInv
    <2>. QED  BY Zenon, <2>1, <2>3, <2>4
  <1>. QED  BY Zenon, <1>3, <1>4

\* on_client_end frees a client that the list has forgotten.
LEMMA EndKeeps ==
    ASSUME IInv, NEW p \in Peers, on_client_end(p)
    PROVE  IInv'
  <1>1. /\ handle[p] = "closing"
        /\ handle' = [handle EXCEPT ![p] = "gone"]
        /\ id' = [id EXCEPT ![p] = NULL]
        /\ last' = [last EXCEPT ![p] = 0]
        /\ held' = {h \in held : h[1] /= p}
        /\ UNCHANGED <<clients, writes, queue>>
    BY Zenon DEF on_client_end, sentVars
  <1>2. \A q \in Peers : q /= p => handle'[q] = handle[q] /\ id'[q] = id[q]
    BY Zenon, <1>1 DEF IInv, ListInv
  <1>3. handle'[p] = "gone"
    BY Zenon, <1>1 DEF IInv, ListInv
  <1>4. ListedAreOpen'
    <2>1. ASSUME NEW q \in Peers, handle'[q] = "open"
          PROVE  id'[q] \in Ids /\ clients'[id'[q]] = q
      BY Zenon, <1>1, <1>2, <1>3, <2>1, OpenHasId DEF IInv
    <2>2. ASSUME NEW j \in Ids, clients'[j] /= NULL
          PROVE  handle'[clients'[j]] = "open" /\ id'[clients'[j]] = j
      <3>1. clients[j] \in Peers /\ handle[clients[j]] = "open" /\ id[clients[j]] = j
        BY Zenon, <1>1, <2>2, SlotIsOpen DEF IInv
      <3>. QED  BY Zenon, <1>1, <1>2, <3>1
    <2>. QED  BY Zenon, <2>1, <2>2 DEF ListedAreOpen
  <1>5. /\ handle' \in [Peers -> {"none", "open", "closing", "gone"}]
        /\ id' \in [Peers -> Ids \cup {NULL}]
        /\ last' \in [Peers -> 0 .. MaxSeq]
    BY <1>1, ServerAssumption DEF IInv, ListInv, HeldInv
  <1>6. \A q \in Peers : handle'[q] = "closing" => id'[q] \in Ids
    BY Zenon, <1>2, <1>3 DEF IInv, ListInv
  <1>7. ListInv'
    BY Zenon, <1>1, <1>4, <1>5, <1>6 DEF IInv, ListInv
  <1>8. HeldInv'
    <2>1. \A h \in held' : h \in held /\ h[1] \in Peers /\ h[1] /= p
      BY Zenon, <1>1 DEF IInv, HeldInv
    <2>. QED  BY Zenon, <1>2, <1>5, <2>1 DEF IInv, HeldInv
  <1>. QED  BY Zenon, <1>1, <1>7, <1>8 DEF IInv, SentInv

-----------------------------------------------------------------------------
\* One request of the queue.
LEMMA DrainKeeps ==
    ASSUME IInv, drain_step
    PROVE  IInv'
  <1>. DEFINE r == Head(queue)
  <1>1. r \in Addressed /\ Tail(queue) \in Seq(Addressed)
    BY DEF IInv, SentInv, drain_step
  <1>2. r.arg \in Args /\ (r.op \in {"kick", "respond"} => r.target \in Ids)
    BY Zenon, <1>1 DEF Addressed, LoopRequest, Args
  <1>3. SUFFICES ASSUME ~Abort
                 PROVE  IInv'
    BY Zenon, IdlesKeeps DEF Abort, Idles, loopVars, callVars, sentVars
  <1>4. ASSUME UNCHANGED <<clients, handle, id, last, held>>,
               writes' \in [Peers -> Seq(Write)], queue' \in Seq(Addressed)
        PROVE  IInv'
    <2>1. ListInv'
      BY Zenon, <1>4, ListStays DEF IInv
    <2>. QED  BY Zenon, <1>4, <2>1 DEF IInv, HeldInv, SentInv
  <1>5. ASSUME r.op = "kick", loop_request_kick_client
        PROVE  IInv'
    BY Zenon, <1>3, <1>5 DEF loop_request_kick_client
  <1>6. ASSUME r.op = "respond", loop_request_send_response(r)
        PROVE  IInv'
    <2>1. /\ queue' = Tail(queue)
          /\ UNCHANGED <<clients, handle, id, last, held>>
      BY Zenon, <1>6 DEF loop_request_send_response, Handled
    <2>2. CASE UNCHANGED writes
      BY Zenon, <1>1, <1>4, <2>1, <2>2 DEF IInv, SentInv
    <2>3. CASE clients[r.target] /= NULL /\ sendpkt(clients[r.target], "RESPONSE", r.arg)
      <3>1. clients[r.target] \in Peers /\ id[clients[r.target]] \in Ids
        BY Zenon, <1>2, <1>6, <2>3, SlotIsOpen DEF IInv
      <3>2. writes' \in [Peers -> Seq(Write)]
        BY Zenon, <1>2, <2>3, <3>1, SendKeepsWrites DEF IInv, Kinds
      <3>. QED  BY Zenon, <1>1, <1>4, <2>1, <3>2
    <2>. QED  BY Zenon, <1>6, <2>2, <2>3 DEF loop_request_send_response
  <1>7. ASSUME loop_request_raise_signal(r)
        PROVE  IInv'
    <2>1. queue' = Tail(queue) /\ UNCHANGED <<clients, handle, id, last, held, writes>>
      BY Zenon, <1>7 DEF loop_request_raise_signal, loopVars
    <2>2. writes' \in [Peers -> Seq(Write)]
      BY Zenon, <2>1 DEF IInv, SentInv
    <2>. QED  BY Zenon, <1>1, <1>4, <2>1, <2>2
  <1>8. ASSUME loop_request_shutdown(r)
        PROVE  IInv'
    <2>1. /\ queue' = <<>> \/ queue' = Tail(queue)
          /\ UNCHANGED <<clients, handle, id, last, held>>
      BY Zenon, <1>3, <1>8 DEF loop_request_shutdown, finalize_shutdown, Handled
    <2>5. PICK R \in SUBSET Listed :
            writes' = [p \in Peers |-> IF p \in R THEN Append(writes[p], Packet("BYE", p, NULL))
                                        ELSE writes[p]]
      BY Zenon, <1>3, <1>8 DEF loop_request_shutdown
    <2>2. ASSUME NEW p \in Peers, p \in Listed
          PROVE  Packet("BYE", p, NULL) \in Write
      <3>1. id[p] \in Ids
        BY Zenon, <2>2, SlotIsOpen DEF IInv, Listed
      <3>. QED  BY Zenon, <3>1, PacketIsWrite DEF Kinds, Args
    <2>3. writes' \in [Peers -> Seq(Write)]
      BY <2>2, <2>5 DEF IInv, SentInv
    <2>4. queue' \in Seq(Addressed)
      BY Zenon, <1>1, <2>1, NothingQueued
    <2>. QED  BY Zenon, <1>4, <2>1, <2>3, <2>4
  <1>. QED  BY Zenon, <1>5, <1>6, <1>7, <1>8 DEF drain_step

\* The event that is being raised is written to one client, or let go of.
LEMMA RaisesKeep ==
    ASSUME IInv, RaiseInv, raise_next \/ raise_end
    PROVE  IInv'
  <1>1. CASE raise_end
    BY Zenon, <1>1, IdlesKeeps DEF raise_end, Idles, loopVars
  <1>2. CASE raise_next
    <2>1. PICK i \in raising.rest : raise_to(clients[i], raising.event)
      BY Zenon, <1>2 DEF raise_next
    <2>2. raising \in Raising /\ i \in Ids /\ clients[i] /= NULL /\ raising.event \in Args
      BY Zenon, <1>2, <2>1 DEF raise_next, RaiseInv, Raising, Args
    <2>3. clients[i] \in Peers /\ handle[clients[i]] = "open"
      BY Zenon, <2>2, SlotIsOpen DEF IInv
    <2>4. sendpkt(clients[i], "SIGNAL", raising.event) \/ UNCHANGED writes
      BY Zenon, <2>1 DEF raise_to, sendpkt_fails
    <2>5. UNCHANGED <<clients, handle, id, last, held, queue>>
      BY Zenon, <1>2 DEF raise_next, loopVars, callVars
    <2>6. last' \in [Peers -> 0 .. MaxSeq] /\ "SIGNAL" \in Kinds
      BY Zenon, <2>5 DEF IInv, HeldInv, Kinds
    <2>. QED  BY Zenon, <2>2, <2>3, <2>4, <2>5, <2>6, SendKeeps
  <1>. QED  BY Zenon, <1>1, <1>2

\* dicey_server_submit_request.
LEMMA SubmitKeeps ==
    ASSUME IInv, NEW op \in {"kick", "respond", "raise", "stop"}, NEW target \in Ids \cup {NULL},
           NEW sem \in Callers \cup {NULL}, NEW arg \in Args,
           op \in {"kick", "respond"} => target \in Ids, op = "raise" => arg \in Events,
           submit(op, target, sem, arg), held' \subseteq held
    PROVE  IInv'
  <1>. DEFINE r == [op |-> op, target |-> target, sem |-> sem, arg |-> arg]
  <1>1. r \in LoopRequest
    BY Zenon DEF LoopRequest, Args
  <1>2. r \in Addressed
    BY Zenon, <1>1 DEF Addressed
  <1>3. queue' = Append(queue, r) /\ UNCHANGED <<clients, handle, id, last, writes>>
    BY Zenon DEF submit, loopVars, sentVars
  <1>4. queue' \in Seq(Addressed)
    BY <1>2, <1>3 DEF IInv, SentInv
  <1>5. ListInv'
    BY Zenon, <1>3, ListStays DEF IInv
  <1>6. HeldInv'
    BY Zenon, <1>3 DEF IInv, HeldInv
  <1>. QED  BY Zenon, <1>3, <1>4, <1>5, <1>6 DEF IInv, SentInv

\* The calls of other threads.
LEMMA CallKeeps ==
    ASSUME IInv, NEW c \in Callers,
           \/ \E p \in Peers : kick(c, p)
           \/ \E h \in held : send_response(c, h)
           \/ \E e \in fresh : raise(c, e)
           \/ stop(c),
           fresh \subseteq Events
    PROVE  IInv'
  <1>1. ASSUME NEW p \in Peers, kick(c, p)
        PROVE  IInv'
    <2>1. id[p] \in Ids /\ NULL \in Args
      BY Zenon, <1>1 DEF kick, IInv, ListInv, Args
    <2>2. submit("kick", id[p], c, NULL) /\ held' = held
      BY Zenon, <1>1 DEF kick
    <2>. QED  BY Zenon, <2>1, <2>2, SubmitKeeps
  <1>2. ASSUME NEW h \in held, send_response(c, h)
        PROVE  IInv'
    <2>1. h[1] \in Peers /\ h \in Args /\ handle[h[1]] \in {"open", "closing"}
      BY Zenon DEF IInv, HeldInv, Args
    <2>2. id[h[1]] \in Ids
      BY Zenon, <2>1, OpenHasId DEF IInv, ListInv
    <2>3. PICK sem \in {c, NULL} : submit("respond", id[h[1]], sem, h)
      BY Zenon, <1>2 DEF send_response
    <2>4. held' \subseteq held /\ sem \in Callers \cup {NULL}
      BY Zenon, <1>2 DEF send_response
    <2>. QED  BY Zenon, <2>1, <2>2, <2>3, <2>4, SubmitKeeps
  <1>3. ASSUME NEW e \in fresh, raise(c, e)
        PROVE  IInv'
    <2>1. e \in Args /\ e \in Events
      BY Zenon DEF Args
    <2>2. PICK sem \in {c, NULL} : submit("raise", NULL, sem, e)
      BY Zenon, <1>3 DEF raise
    <2>3. held' \subseteq held /\ sem \in Callers \cup {NULL}
      BY Zenon, <1>3 DEF raise
    <2>. QED  BY Zenon, <2>1, <2>2, <2>3, SubmitKeeps
  <1>4. ASSUME stop(c)
        PROVE  IInv'
    <2>1. PICK sem \in {c, NULL} : submit("stop", NULL, sem, NULL)
      BY Zenon, <1>4 DEF stop
    <2>2. held' \subseteq held /\ sem \in Callers \cup {NULL} /\ NULL \in Args
      BY Zenon, <1>4 DEF stop, Args
    <2>. QED  BY Zenon, <2>1, <2>2, SubmitKeeps
  <1>. QED  BY Zenon, <1>1, <1>2, <1>3, <1>4

-----------------------------------------------------------------------------
\* The events that user code has not raised.
FreshInv == fresh \subseteq Events

LEMMA FreshStays ==
    ASSUME FreshInv, [Next]_vars
    PROVE  FreshInv'
  <1>1. fresh' \subseteq fresh
    BY ZenonT(40) DEF Next, vars, callVars, loopVars, start, close_handles, drain_begin, drain_step, drain_end,
           on_connect, bad_packet, client_got_hello, client_got_bye, client_got_message,
           on_read_end, plugin_exit, on_write, on_client_end, kick, send_response, raise, stop,
           client_raised_error, Abort, answered_at_once, given_to_user, loop_request_kick_client,
           loop_request_send_response, loop_request_raise_signal, loop_request_shutdown, Handled,
           raise_next, raise_end, user_failed
  <1>. QED  BY Zenon, <1>1 DEF FreshInv

\* A step that neither takes up an event nor lets go of it.
LEMMA RaiseStays ==
    ASSUME RaiseInv, raising' = raising, raising /= NULL => draining' = draining /\ clients' = clients
    PROVE  RaiseInv'
  BY Zenon DEF RaiseInv

LEMMA StepRaises ==
    ASSUME IInv, RaiseInv, [Next]_vars
    PROVE  RaiseInv'
  <1>1. CASE raise_next
    <2>1. PICK i \in raising.rest : raising' = [raising EXCEPT !.rest = @ \ {i}]
      BY Zenon, <1>1 DEF raise_next
    <2>2. raising \in Raising /\ UNCHANGED <<clients, draining>> /\ raising /= NULL
      BY Zenon, <1>1 DEF raise_next, RaiseInv, loopVars, callVars
    <2>3. raising' \in Raising /\ raising'.rest \subseteq raising.rest
      BY <2>1, <2>2 DEF Raising
    <2>. QED  BY Zenon, <2>2, <2>3 DEF RaiseInv
  <1>2. CASE raise_end
    BY Zenon, <1>2 DEF raise_end, RaiseInv
  <1>3. CASE drain_step /\ loop_request_raise_signal(Head(queue)) /\ Head(queue).op = "raise"
    <2>. DEFINE r == Head(queue)
    <2>1. r \in Addressed
      BY <1>3 DEF drain_step, IInv, SentInv
    <2>2. r.arg \in Events /\ r.sem \in Callers \cup {NULL}
      BY Zenon, <1>3, <2>1 DEF Addressed, LoopRequest
    <2>3. /\ raising' = [event |-> r.arg, sem |-> r.sem,
                         rest |-> {i \in Ids : clients[i] /= NULL /\ subscribed[clients[i]]}]
          /\ UNCHANGED <<clients, draining>> /\ draining
      BY Zenon, <1>3 DEF drain_step, loop_request_raise_signal, loopVars
    <2>4. raising' \in Raising /\ \A i \in raising'.rest : clients[i] /= NULL
      BY Zenon, <2>2, <2>3 DEF Raising
    <2>. QED  BY Zenon, <2>3, <2>4 DEF RaiseInv
  <1>4. CASE drain_step /\ ~(Head(queue).op = "raise" /\ loop_request_raise_signal(Head(queue)))
    <2>1. raising = NULL /\ raising' = raising
      BY Zenon, <1>4 DEF drain_step, loop_request_kick_client, loop_request_send_response,
                  loop_request_shutdown, Abort, sentVars
    <2>. QED  BY Zenon, <2>1, RaiseStays
  <1>5. CASE start \/ drain_end \/ UNCHANGED vars
    <2>1. raising' = raising /\ clients' = clients /\ (draining' = draining \/ raising = NULL)
      BY Zenon, <1>5 DEF start, drain_end, vars, loopVars, callVars, sentVars
    <2>. QED  BY Zenon, <2>1, RaiseStays
  <1>6. CASE close_handles \/ drain_begin
    <2>1. ~draining /\ raising' = raising
      BY Zenon, <1>6 DEF close_handles, drain_begin, Turn, sentVars
    <2>. QED  BY Zenon, <2>1, RaiseStays DEF RaiseInv
  <1>7. ASSUME NEW p \in Peers,
               \/ on_connect(p) \/ bad_packet(p) \/ client_got_hello(p) \/ client_got_bye(p)
               \/ client_got_message(p) \/ on_read_end(p) \/ plugin_exit(p)
               \/ on_write(p) \/ on_client_end(p)
        PROVE  RaiseInv'
    <2>1. ~draining
      BY Zenon, <1>7 DEF on_connect, bad_packet, client_got_hello, client_got_bye, client_got_message,
                  on_read_end, plugin_exit, on_write, on_client_end, Reads, Turn
    <2>2. raising' = raising
      BY Zenon, <1>7 DEF on_connect, bad_packet, client_got_hello, client_got_bye, client_got_message,
                  on_read_end, plugin_exit, on_write, on_client_end, client_raised_error,
                  answered_at_once, user_failed, given_to_user, Abort, sentVars
    <2>. QED  BY Zenon, <2>1, <2>2, RaiseStays DEF RaiseInv
  <1>8. ASSUME NEW c \in Callers,
               \/ \E p \in Peers : kick(c, p)
               \/ \E h \in held : send_response(c, h)
               \/ \E e \in fresh : raise(c, e)
               \/ stop(c)
        PROVE  RaiseInv'
    <2>1. UNCHANGED <<raising, clients, draining>>
      BY Zenon, <1>8 DEF kick, send_response, raise, stop, submit, loopVars, sentVars
    <2>. QED  BY Zenon, <2>1, RaiseStays
  <1>. QED  BY Zenon, <1>1, <1>2, <1>3, <1>4, <1>5, <1>6, <1>7, <1>8 DEF Next

LEMMA StepKeeps ==
    ASSUME IInv, RaiseInv, FreshInv, [Next]_vars
    PROVE  IInv'
  <1>1. CASE start \/ close_handles \/ drain_begin \/ drain_end \/ UNCHANGED vars
    <2>1. Idles
      BY Zenon, <1>1 DEF Idles, start, close_handles, drain_begin, drain_end, vars, loopVars, callVars, sentVars
    <2>. QED  BY Zenon, <2>1, IdlesKeeps
  <1>2. CASE drain_step \/ raise_next \/ raise_end
    BY Zenon, <1>2, DrainKeeps, RaisesKeep
  <1>3. ASSUME NEW p \in Peers, on_connect(p)
        PROVE  IInv'
    BY Zenon, <1>3, ConnectKeeps
  <1>4. ASSUME NEW p \in Peers, bad_packet(p)
        PROVE  IInv'
    BY Zenon, <1>4, RaisedErrorKeeps DEF bad_packet, Reads
  <1>5. ASSUME NEW p \in Peers, client_got_hello(p) \/ client_got_message(p)
        PROVE  IInv'
    BY Zenon, <1>5, HelloKeeps, MessageKeeps
  <1>6. ASSUME NEW p \in Peers, client_got_bye(p) \/ on_read_end(p) \/ plugin_exit(p)
        PROVE  IInv'
    <2>1. CASE Abort
      BY Zenon, <2>1, IdlesKeeps DEF Abort, Idles, loopVars, callVars, sentVars
    <2>2. CASE ~Abort
      <3>1. handle[p] = "open" /\ remove_client(id[p]) /\ UNCHANGED <<id, last, held, writes, queue>>
        BY Zenon, <1>6, <2>2 DEF client_got_bye, on_read_end, plugin_exit, Reads, callVars, sentVars
      <3>. QED  BY Zenon, <3>1, LeaveKeeps
    <2>. QED  BY Zenon, <2>1, <2>2
  <1>7. ASSUME NEW p \in Peers, on_write(p) \/ on_client_end(p)
        PROVE  IInv'
    BY Zenon, <1>7, WriteKeeps, EndKeeps
  <1>8. ASSUME NEW c \in Callers,
               \/ \E p \in Peers : kick(c, p)
               \/ \E h \in held : send_response(c, h)
               \/ \E e \in fresh : raise(c, e)
               \/ stop(c)
        PROVE  IInv'
    BY Zenon, <1>8, CallKeeps DEF FreshInv
  <1>. QED  BY Zenon, <1>1, <1>2, <1>3, <1>4, <1>5, <1>6, <1>7, <1>8 DEF Next

LEMMA InitHolds == Init => IInv /\ RaiseInv /\ FreshInv
  <1>1. Init => ListInv
    BY ServerAssumption DEF Init, ListInv, ListedAreOpen
  <1>2. Init => HeldInv /\ FreshInv
    BY ServerAssumption DEF Init, HeldInv, FreshInv
  <1>3. Init => SentInv
    BY NothingQueued DEF Init, SentInv
  <1>4. Init => RaiseInv
    BY Zenon DEF Init, RaiseInv
  <1>. QED  BY Zenon, <1>1, <1>2, <1>3, <1>4 DEF IInv

LEMMA ServerInvariant == Spec => [](IInv /\ RaiseInv /\ FreshInv)
  <1>1. IInv /\ RaiseInv /\ FreshInv /\ [Next]_vars => (IInv /\ RaiseInv /\ FreshInv)'
    BY Zenon, StepKeeps, StepRaises, FreshStays
  <1>. QED  BY <1>1, InitHolds, PTL DEF Spec

\* The client list and the handles agree, whatever the habits of the peers: an
\* id leads to the one open client that bears it, and nothing that was closed
\* can be found, even where an id is used again at once.
THEOREM ServerListedAreOpen == Spec => []ListedAreOpen
  <1>1. IInv => ListedAreOpen
    BY Zenon DEF IInv, ListInv
  <1>. QED  BY <1>1, ServerInvariant, PTL

-----------------------------------------------------------------------------
\* What Append does to the length and to each position.
LEMMA AppendIs ==
    ASSUME NEW S, NEW q \in Seq(S), NEW x \in S
    PROVE  /\ Append(q, x) \in Seq(S) /\ Len(Append(q, x)) = Len(q) + 1
           /\ \A k \in 1 .. Len(q) : Append(q, x)[k] = q[k]
           /\ Append(q, x)[Len(q) + 1] = x
  OBVIOUS

\* What Head and Tail are of a sequence that is not empty.
LEMMA TailIs ==
    ASSUME NEW S, NEW q \in Seq(S), q /= <<>>
    PROVE  /\ Tail(q) \in Seq(S) /\ Len(q) \in Nat \ {0} /\ Len(Tail(q)) = Len(q) - 1
           /\ \A k \in 1 .. Len(q) - 1 : Tail(q)[k] = q[k + 1]
           /\ Head(q) = q[1] /\ q[1] \in S
  OBVIOUS

\* No two requests of a queue wake up the same thread.
SemsOnce(Q) == \A j, k \in 1 .. Len(Q) : Q[j].sem = Q[k].sem /\ Q[j].sem /= NULL => j = k

\* Taking the first request leaves the semaphores of the others single.
LEMMA TailWaits ==
    ASSUME NEW Q \in Seq(LoopRequest), Q /= <<>>, SemsOnce(Q)
    PROVE  /\ SemsOnce(Tail(Q)) /\ Waiting(Tail(Q)) = Waiting(Q) \ {Head(Q).sem}
           /\ Head(Q).sem \in Waiting(Q) \cup {NULL}
  <1>1. /\ Tail(Q) \in Seq(LoopRequest) /\ Len(Q) \in Nat \ {0} /\ Len(Tail(Q)) = Len(Q) - 1
        /\ \A k \in 1 .. Len(Q) - 1 : Tail(Q)[k] = Q[k + 1]
        /\ Head(Q) = Q[1]
    BY Zenon, TailIs
  <1>2. SemsOnce(Tail(Q))
    <2>1. SUFFICES ASSUME NEW j \in 1 .. Len(Tail(Q)), NEW k \in 1 .. Len(Tail(Q)),
                          Tail(Q)[j].sem = Tail(Q)[k].sem, Tail(Q)[j].sem /= NULL
                   PROVE  j = k
      BY Zenon DEF SemsOnce
    <2>2. j + 1 \in 1 .. Len(Q) /\ k + 1 \in 1 .. Len(Q) /\ Tail(Q)[j] = Q[j + 1] /\ Tail(Q)[k] = Q[k + 1]
      BY <1>1
    <2>3. j + 1 = k + 1
      BY Zenon, <2>1, <2>2 DEF SemsOnce
    <2>. QED  BY <2>3
  <1>3. ASSUME NEW s
        PROVE  s \in Waiting(Tail(Q)) <=> s \in Waiting(Q) \ {Head(Q).sem}
    <2>1. ASSUME s \in Waiting(Tail(Q)) PROVE s \in Waiting(Q) \ {Head(Q).sem}
      <3>1. PICK k \in 1 .. Len(Q) - 1 : s = Q[k + 1].sem /\ s /= NULL
        BY <1>1, <2>1 DEF Waiting
      <3>2. k + 1 \in 1 .. Len(Q) /\ 1 \in 1 .. Len(Q) /\ k + 1 /= 1
        BY <1>1
      <3>3. Q[1].sem /= s
        BY Zenon, <3>1, <3>2 DEF SemsOnce
      <3>. QED  BY Zenon, <1>1, <3>1, <3>2, <3>3 DEF Waiting
    <2>2. ASSUME s \in Waiting(Q), s /= Head(Q).sem PROVE s \in Waiting(Tail(Q))
      <3>1. PICK k \in 1 .. Len(Q) : s = Q[k].sem /\ s /= NULL
        BY Zenon, <2>2 DEF Waiting
      <3>2. k /= 1
        BY Zenon, <1>1, <2>2, <3>1
      <3>3. k - 1 \in 1 .. Len(Tail(Q)) /\ Tail(Q)[k - 1] = Q[k]
        BY <1>1, <3>2
      <3>. QED  BY Zenon, <3>1, <3>3 DEF Waiting
    <2>. QED  BY Zenon, <2>1, <2>2
  <1>4. 1 \in 1 .. Len(Q)
    BY <1>1
  <1>5. Head(Q).sem \in Waiting(Q) \cup {NULL}
    BY Zenon, <1>1, <1>4 DEF Waiting
  <1>. QED  BY Zenon, <1>2, <1>3, <1>5

\* A request whose semaphore is in no other keeps the semaphores single.
LEMMA AppendWaits ==
    ASSUME NEW Q \in Seq(LoopRequest), NEW r \in LoopRequest, SemsOnce(Q), r.sem \notin Waiting(Q)
    PROVE  SemsOnce(Append(Q, r)) /\ Waiting(Append(Q, r)) = Waiting(Q) \cup ({r.sem} \ {NULL})
  <1>. DEFINE R == Append(Q, r)
  <1>1. /\ Len(Q) \in Nat /\ Len(R) = Len(Q) + 1
        /\ \A k \in 1 .. Len(Q) : R[k] = Q[k]
        /\ R[Len(Q) + 1] = r
    BY AppendIs
  <1>. HIDE DEF R
  <1>2. \A k \in 1 .. Len(Q) : Q[k].sem /= NULL => Q[k].sem /= r.sem
    BY Zenon DEF Waiting
  <1>3. SemsOnce(R)
    <2>1. SUFFICES ASSUME NEW j \in 1 .. Len(R), NEW k \in 1 .. Len(R), R[j].sem = R[k].sem, R[j].sem /= NULL
                   PROVE  j = k
      BY Zenon DEF SemsOnce
    <2>2. CASE j \in 1 .. Len(Q) /\ k \in 1 .. Len(Q)
      BY Zenon, <1>1, <2>1, <2>2 DEF SemsOnce
    <2>3. CASE j = Len(Q) + 1 \/ k = Len(Q) + 1
      BY <1>1, <1>2, <2>1, <2>3
    <2>. QED  BY <1>1, <2>2, <2>3
  <1>4. ASSUME NEW s
        PROVE  s \in Waiting(R) <=> s \in Waiting(Q) \cup ({r.sem} \ {NULL})
    <2>1. \A k : k \in 1 .. Len(R) <=> k \in 1 .. Len(Q) \/ k = Len(Q) + 1
      BY <1>1
    <2>. QED  BY Zenon, <1>1, <2>1 DEF Waiting
  <1>5. Waiting(R) = Waiting(Q) \cup ({r.sem} \ {NULL})
    BY Zenon, <1>4
  <1>. QED  BY Zenon, <1>3, <1>5 DEF R

\* Who waits for the event that is being raised.
RaiseSem == IF raising = NULL THEN NULL ELSE raising.sem

\* A thread waits exactly while its semaphore is in one request of the queue, in
\* the event being raised, or is the shutdown hook.  The hook is set only once
\* the server is quitting.
WaiterInv ==
    /\ caller \in [Callers -> {"idle", "waiting"}]
    /\ hook \in Callers \cup {NULL}
    /\ state \in {"INIT", "RUNNING"} => hook = NULL
    /\ SemsOnce(queue)
    /\ hook \notin Waiting(queue) /\ RaiseSem \notin Waiting(queue)
    /\ RaiseSem = hook => hook = NULL
    /\ \A c \in Callers : caller[c] = "waiting" <=> c \in Waiting(queue) \cup {hook, RaiseSem}

\* A queue of addressed requests is a queue of requests.
LEMMA AddressedAreRequests == ASSUME NEW Q \in Seq(Addressed) PROVE Q \in Seq(LoopRequest)
  BY DEF Addressed

\* A step that leaves the queue and the threads alone keeps the invariant.
LEMMA WaitersStay ==
    ASSUME WaiterInv, queue' = queue, caller' = caller, hook' = hook, RaiseSem' = RaiseSem,
           state' \in {"INIT", "RUNNING"} => state \in {"INIT", "RUNNING"}
    PROVE  WaiterInv'
  BY Zenon DEF WaiterInv

\* finalize_shutdown, with or without the request that asked for it.
LEMMA FinalizeWakes ==
    ASSUME WaiterInv, finalize_shutdown(queue), hook' = hook, state' = state, RaiseSem' = RaiseSem
    PROVE  WaiterInv'
  <1>1. queue' = <<>> /\ \A c \in Callers : caller'[c] = IF c \in Waiting(queue) THEN "idle" ELSE caller[c]
    BY Zenon DEF finalize_shutdown
  <1>2. SemsOnce(queue') /\ Waiting(queue') = {}
    BY <1>1 DEF SemsOnce, Waiting
  <1>3. caller' \in [Callers -> {"idle", "waiting"}]
    BY Zenon DEF finalize_shutdown, WaiterInv
  <1>. QED  BY Zenon, <1>1, <1>2, <1>3 DEF WaiterInv

\* A request that is handled wakes up the thread that made it, and no other.
LEMMA HandledWakes ==
    ASSUME IInv, WaiterInv, queue /= <<>>, Handled(Head(queue)), RaiseSem' = RaiseSem,
           state' \in {"INIT", "RUNNING"} => state \in {"INIT", "RUNNING"}
    PROVE  WaiterInv'
  <1>. DEFINE r == Head(queue)
  <1>1. /\ queue' = Tail(queue) /\ hook' = hook
        /\ \A c \in Callers : caller'[c] = IF c = r.sem THEN "idle" ELSE caller[c]
        /\ caller' \in [Callers -> {"idle", "waiting"}]
    BY Zenon DEF Handled, WaiterInv
  <1>2. /\ SemsOnce(Tail(queue)) /\ Waiting(Tail(queue)) = Waiting(queue) \ {r.sem}
        /\ r.sem \in Waiting(queue) \cup {NULL}
    BY Zenon, TailWaits, AddressedAreRequests DEF IInv, SentInv, WaiterInv
  <1>3. \A c \in Callers : c = r.sem => c /= hook /\ c /= RaiseSem
    BY Zenon, <1>2, ServerAssumption DEF WaiterInv
  <1>. QED  BY Zenon, <1>1, <1>2, <1>3 DEF WaiterInv

\* The threads that are woken up by the requests of the queue.
LEMMA WaitingAreCallers ==
    ASSUME IInv
    PROVE  Waiting(queue) \subseteq Callers /\ NULL \notin Callers /\ NULL \notin Waiting(queue)
  <1>1. \A k \in 1 .. Len(queue) : queue[k].sem \in Callers \cup {NULL}
    BY DEF IInv, SentInv, Addressed, LoopRequest
  <1>. QED  BY Zenon, <1>1, ServerAssumption DEF Waiting

\* dicey_server_raise_internal takes the request over, and its semaphore with it.
LEMMA RaiseTakesOver ==
    ASSUME IInv, WaiterInv, raising = NULL, queue /= <<>>, loop_request_raise_signal(Head(queue)),
           raising' \in Raising
    PROVE  WaiterInv'
  <1>. DEFINE r == Head(queue)
  <1>1. queue' = Tail(queue) /\ UNCHANGED <<hook, caller, state>> /\ raising'.sem = r.sem
    BY Zenon DEF loop_request_raise_signal, loopVars
  <1>2. RaiseSem = NULL /\ RaiseSem' = r.sem
    BY Zenon, <1>1, ServerAssumption DEF RaiseSem
  <1>3. /\ SemsOnce(Tail(queue)) /\ Waiting(Tail(queue)) = Waiting(queue) \ {r.sem}
        /\ r.sem \in Waiting(queue) \cup {NULL}
    BY Zenon, TailWaits, AddressedAreRequests DEF IInv, SentInv, WaiterInv
  <1>. HIDE DEF r
  <1>. QED  BY Zenon, <1>1, <1>2, <1>3, WaitingAreCallers DEF WaiterInv

\* The event has been raised: who waited for it is woken up.
LEMMA RaiseWakes ==
    ASSUME IInv, WaiterInv, raise_end
    PROVE  WaiterInv'
  <1>1. /\ queue' = queue /\ hook' = hook /\ state' = state
        /\ caller' = [c \in Callers |-> IF c = RaiseSem THEN "idle" ELSE caller[c]]
    BY Zenon DEF raise_end, RaiseSem, loopVars
  <1>2. RaiseSem' = NULL
    BY Zenon DEF raise_end, RaiseSem
  <1>. QED  BY Zenon, <1>1, <1>2, WaitingAreCallers DEF WaiterInv

\* loop_request_shutdown handles its own request, or cancels the whole queue,
\* waking up every thread in it.
LEMMA ShutdownWaits ==
    ASSUME IInv, WaiterInv, raising = NULL, queue /= <<>>, loop_request_shutdown(Head(queue))
    PROVE  WaiterInv'
  <1>. DEFINE r == Head(queue)
  <1>1. CASE Abort
    <2>1. queue' = queue /\ caller' = caller /\ hook' = hook /\ state' = state /\ RaiseSem' = RaiseSem
      BY Zenon, <1>1 DEF Abort, loopVars, callVars, sentVars, RaiseSem
    <2>. QED  BY Zenon, <2>1, WaitersStay
  <1>3. CASE ~Abort /\ Handled(r)
    <2>1. state' = "QUITTING" /\ RaiseSem' = RaiseSem
      BY Zenon, <1>3 DEF loop_request_shutdown, RaiseSem
    <2>. QED  BY Zenon, <1>3, <2>1, HandledWakes
  <1>2. CASE ~Abort /\ ~Handled(r)
    <2>1. /\ state = "RUNNING" /\ state' = "QUITTING" /\ hook' = r.sem /\ hook = NULL
          /\ \/ queue' = Tail(queue) /\ caller' = caller
             \/ finalize_shutdown(Tail(queue))
          /\ RaiseSem = NULL /\ RaiseSem' = NULL
      BY Zenon, <1>2 DEF loop_request_shutdown, WaiterInv, RaiseSem
    <2>2. /\ SemsOnce(Tail(queue)) /\ Waiting(Tail(queue)) = Waiting(queue) \ {r.sem}
          /\ r.sem \in Waiting(queue) \cup {NULL}
      BY Zenon, TailWaits, AddressedAreRequests DEF IInv, SentInv, WaiterInv
    <2>3. Waiting(queue) \subseteq Callers /\ NULL \notin Callers /\ NULL \notin Waiting(queue)
      BY Zenon, WaitingAreCallers
    <2>4. CASE queue' = Tail(queue) /\ caller' = caller
      BY Zenon, <2>1, <2>2, <2>3, <2>4 DEF WaiterInv
    <2>5. CASE finalize_shutdown(Tail(queue))
      <3>1. /\ queue' = <<>> /\ caller' \in [Callers -> {"idle", "waiting"}]
            /\ \A c \in Callers : caller'[c] = IF c \in Waiting(Tail(queue)) THEN "idle" ELSE caller[c]
        BY Zenon, <2>5 DEF finalize_shutdown, WaiterInv
      <3>2. SemsOnce(queue') /\ Waiting(queue') = {}
        BY <3>1 DEF SemsOnce, Waiting
      <3>. QED  BY Zenon, <2>1, <2>2, <2>3, <3>1, <3>2 DEF WaiterInv
    <2>. QED  BY Zenon, <2>1, <2>4, <2>5
  <1>. QED  BY Zenon, <1>1, <1>2, <1>3

\* A thread that submits did not wait before, so that its semaphore is new to
\* the queue.
LEMMA SubmitWaits ==
    ASSUME IInv, WaiterInv, NEW op \in {"kick", "respond", "raise", "stop"}, NEW target \in Ids \cup {NULL},
           NEW c \in Callers, NEW sem \in {c, NULL}, NEW arg \in Args, caller[c] = "idle",
           submit(op, target, sem, arg)
    PROVE  WaiterInv'
  <1>. DEFINE r == [op |-> op, target |-> target, sem |-> sem, arg |-> arg]
  <1>1. r \in LoopRequest /\ r.sem = sem
    BY Zenon DEF LoopRequest, Args
  <1>2. /\ queue' = Append(queue, r) /\ UNCHANGED <<hook, state>> /\ RaiseSem' = RaiseSem
        /\ caller' = [x \in Callers |-> IF x = sem THEN "waiting" ELSE caller[x]]
    BY Zenon DEF submit, loopVars, sentVars, RaiseSem
  <1>3. c \notin Waiting(queue) /\ c /= hook /\ c /= RaiseSem /\ NULL \notin Waiting(queue) /\ NULL \notin Callers
    BY Zenon, ServerAssumption DEF WaiterInv, Waiting
  <1>4. SemsOnce(queue') /\ Waiting(queue') = Waiting(queue) \cup ({sem} \ {NULL})
    BY <1>1, <1>2, <1>3, AppendWaits, AddressedAreRequests DEF IInv, SentInv, WaiterInv
  <1>5. caller' \in [Callers -> {"idle", "waiting"}]
    BY Zenon, <1>2 DEF WaiterInv
  <1>. QED  BY Zenon, <1>2, <1>3, <1>4, <1>5 DEF WaiterInv

\* Every step of the server keeps the semaphores and the waiting threads equal.
LEMMA StepWaits ==
    ASSUME IInv, RaiseInv, FreshInv, WaiterInv, [Next]_vars
    PROVE  WaiterInv'
  <1>1. ASSUME queue' = queue, caller' = caller, hook' = hook, RaiseSem' = RaiseSem,
               state' \in {"INIT", "RUNNING"} => state \in {"INIT", "RUNNING"}
        PROVE  WaiterInv'
    BY Zenon, <1>1, WaitersStay
  <1>2. CASE close_handles
    <2>1. CASE UNCHANGED <<state, hook, caller>>
      <3>1. queue' = queue /\ RaiseSem' = RaiseSem
        BY Zenon, <1>2 DEF close_handles, sentVars, RaiseSem
      <3>. QED  BY Zenon, <1>1, <2>1, <3>1
    <2>2. CASE ~UNCHANGED <<state, hook, caller>>
      <3>1. /\ state' = "STOPPED" /\ hook' = NULL /\ queue' = queue /\ RaiseSem' = RaiseSem
            /\ caller' = [c \in Callers |-> IF c = hook THEN "idle" ELSE caller[c]]
        BY Zenon, <1>2, <2>2 DEF close_handles, sentVars, RaiseSem
      <3>2. NULL \notin Waiting(queue) /\ NULL \notin Callers
        BY Zenon, ServerAssumption DEF Waiting
      <3>. QED  BY Zenon, <3>1, <3>2 DEF WaiterInv
    <2>. QED  BY Zenon, <2>1, <2>2
  <1>3. CASE drain_step
    <2>. DEFINE r == Head(queue)
    <2>1. queue /= <<>> /\ raising = NULL
      BY Zenon, <1>3 DEF drain_step
    <2>2. CASE loop_request_kick_client
      <3>1. queue' = queue /\ caller' = caller /\ hook' = hook /\ state' = state /\ RaiseSem' = RaiseSem
        BY Zenon, <2>2 DEF loop_request_kick_client, Abort, loopVars, callVars, sentVars, RaiseSem
      <3>. QED  BY Zenon, <1>1, <3>1
    <2>3. CASE loop_request_send_response(r)
      <3>1. Handled(r) /\ UNCHANGED state /\ RaiseSem' = RaiseSem
        BY Zenon, <2>3 DEF loop_request_send_response, RaiseSem
      <3>. QED  BY Zenon, <2>1, <3>1, HandledWakes
    <2>5. CASE loop_request_raise_signal(r) /\ r.op = "raise"
      <3>1. r \in Addressed
        BY <2>1 DEF IInv, SentInv
      <3>2. raising' \in Raising
        BY Zenon, <2>5, <3>1 DEF loop_request_raise_signal, Raising, Addressed, LoopRequest
      <3>. QED  BY Zenon, <2>1, <2>5, <3>2, RaiseTakesOver
    <2>4. CASE loop_request_shutdown(r)
      BY Zenon, <2>1, <2>4, ShutdownWaits
    <2>. QED  BY Zenon, <1>3, <2>2, <2>3, <2>4, <2>5 DEF drain_step
  <1>8. CASE raise_end
    BY Zenon, <1>8, RaiseWakes
  <1>9. CASE raise_next
    <2>1. raising /= NULL /\ raising'.sem = raising.sem
      <3>1. raising /= NULL /\ \E i : raising' = [raising EXCEPT !.rest = @ \ {i}]
        BY Zenon, <1>9 DEF raise_next
      <3>2. raising \in Raising
        BY Zenon, <3>1 DEF RaiseInv
      <3>. QED  BY <3>1, <3>2 DEF Raising
    <2>2. UNCHANGED <<queue, caller, hook, state>>
      BY Zenon, <1>9 DEF raise_next, loopVars, callVars
    <2>3. raising' /= NULL
      <3>1. raising \in Raising /\ \E i : raising' = [raising EXCEPT !.rest = @ \ {i}]
        BY Zenon, <1>9 DEF raise_next, RaiseInv
      <3>2. raising' \in Raising
        BY <3>1 DEF Raising
      <3>. QED  BY Zenon, <3>2, ServerAssumption
    <2>4. RaiseSem' = RaiseSem
      BY Zenon, <2>1, <2>3 DEF RaiseSem
    <2>. QED  BY Zenon, <1>1, <2>2, <2>4
  <1>4. ASSUME NEW p \in Peers, on_write(p)
        PROVE  WaiterInv'
    <2>1. /\ state' = state /\ hook' = hook /\ RaiseSem' = RaiseSem
          /\ (queue' = queue /\ caller' = caller) \/ finalize_shutdown(queue)
      BY Zenon, <1>4 DEF on_write, Abort, loopVars, callVars, sentVars, RaiseSem
    <2>. QED  BY Zenon, <1>1, <2>1, FinalizeWakes
  <1>5. ASSUME NEW c \in Callers,
               \/ \E p \in Peers : kick(c, p)
               \/ \E h \in held : send_response(c, h)
               \/ \E e \in fresh : raise(c, e)
               \/ stop(c)
        PROVE  WaiterInv'
    <2>1. caller[c] = "idle"
      BY Zenon, <1>5 DEF kick, send_response, raise, stop
    <2>2. PICK op \in {"kick", "respond", "raise", "stop"}, target \in Ids \cup {NULL},
               sem \in {c, NULL}, arg \in Args : submit(op, target, sem, arg)
      <3>1. ASSUME NEW p \in Peers, kick(c, p)
            PROVE  submit("kick", id[p], c, NULL) /\ id[p] \in Ids \cup {NULL} /\ NULL \in Args
        BY Zenon, <3>1 DEF kick, IInv, ListInv, Args
      <3>2. ASSUME NEW h \in held, send_response(c, h)
            PROVE  /\ \E sem \in {c, NULL} : submit("respond", id[h[1]], sem, h)
                   /\ id[h[1]] \in Ids \cup {NULL} /\ h \in Args
        BY Zenon, <3>2 DEF send_response, IInv, ListInv, HeldInv, Args
      <3>3. ASSUME NEW e \in fresh, raise(c, e)
            PROVE  (\E sem \in {c, NULL} : submit("raise", NULL, sem, e)) /\ e \in Args
        BY Zenon, <3>3 DEF raise, FreshInv, Args
      <3>4. ASSUME stop(c)
            PROVE  (\E sem \in {c, NULL} : submit("stop", NULL, sem, NULL)) /\ NULL \in Args
        BY Zenon, <3>4 DEF stop, Args
      <3>. QED  BY Zenon, <1>5, <3>1, <3>2, <3>3, <3>4
    <2>. QED  BY Zenon, <2>1, <2>2, SubmitWaits
  <1>6. CASE start \/ drain_begin \/ drain_end \/ UNCHANGED vars
    <2>1. /\ queue' = queue /\ caller' = caller /\ hook' = hook /\ RaiseSem' = RaiseSem
          /\ state' = state \/ (state = "INIT" /\ state' = "RUNNING")
      BY Zenon, <1>6 DEF start, drain_begin, drain_end, vars, loopVars, callVars, sentVars, RaiseSem
    <2>. QED  BY Zenon, <1>1, <2>1
  <1>7. ASSUME NEW p \in Peers,
               \/ on_connect(p) \/ bad_packet(p) \/ client_got_hello(p) \/ client_got_bye(p)
               \/ client_got_message(p) \/ on_read_end(p) \/ plugin_exit(p) \/ on_client_end(p)
        PROVE  WaiterInv'
    <2>1. queue' = queue /\ caller' = caller /\ hook' = hook /\ state' = state
      BY Zenon, <1>7 DEF on_connect, bad_packet, client_got_hello, client_got_bye, client_got_message,
                  on_read_end, plugin_exit, on_client_end, client_raised_error, answered_at_once,
                  user_failed, given_to_user, Abort, loopVars, callVars
    <2>2. raising' = raising
      BY Zenon, <1>7 DEF on_connect, bad_packet, client_got_hello, client_got_bye, client_got_message,
                  on_read_end, plugin_exit, on_client_end, client_raised_error, answered_at_once,
                  user_failed, given_to_user, Abort, sentVars
    <2>3. RaiseSem' = RaiseSem
      BY Zenon, <2>2 DEF RaiseSem
    <2>. QED  BY Zenon, <1>1, <2>1, <2>3
  <1>. QED  BY Zenon, <1>2, <1>3, <1>4, <1>5, <1>6, <1>7, <1>8, <1>9 DEF Next

\* A thread waits exactly while its semaphore is in one request of the queue, in
\* the event being raised, or is the shutdown hook (dicey_server_stop_and_wait
\* and the other calls of server.c that wait), whatever happens around the
\* server and whichever sends fail: none is forgotten and none is posted twice.
THEOREM ServerWaitersAccounted == Spec => []WaitersAccounted
  <1>1. Init => WaiterInv
    <2>1. SUFFICES ASSUME Init PROVE WaiterInv
      BY Zenon
    <2>2. queue = <<>> /\ hook = NULL /\ caller = [c \in Callers |-> "idle"] /\ RaiseSem = NULL
      BY Zenon, <2>1 DEF Init, RaiseSem
    <2>3. SemsOnce(queue) /\ Waiting(queue) = {}
      BY <2>2 DEF SemsOnce, Waiting
    <2>. QED  BY Zenon, <2>2, <2>3, ServerAssumption DEF WaiterInv
  <1>2. IInv /\ RaiseInv /\ FreshInv /\ WaiterInv /\ [Next]_vars => WaiterInv'
    BY Zenon, StepWaits
  <1>3. WaiterInv => WaitersAccounted
    <2>1. SUFFICES ASSUME WaiterInv, NEW c \in Callers
                   PROVE  Cardinality({k \in 1 .. Len(queue) : queue[k].sem = c})
                            + (IF raising /= NULL /\ raising.sem = c THEN 1 ELSE 0)
                            + (IF hook = c THEN 1 ELSE 0) = (IF caller[c] = "waiting" THEN 1 ELSE 0)
      BY Zenon DEF WaitersAccounted
    <2>. DEFINE S == {k \in 1 .. Len(queue) : queue[k].sem = c}
    <2>2. c /= NULL
      BY Zenon, ServerAssumption
    <2>5. raising /= NULL /\ raising.sem = c <=> RaiseSem = c
      BY Zenon, <2>2 DEF RaiseSem
    <2>3. CASE c \in Waiting(queue)
      <3>1. PICK k \in 1 .. Len(queue) : queue[k].sem = c
        BY Zenon, <2>3 DEF Waiting
      <3>2. S = {k}
        BY Zenon, <2>1, <2>2, <3>1 DEF WaiterInv, SemsOnce
      <3>3. Cardinality(S) = 1
        BY Zenon, <3>2, FS_Singleton
      <3>4. hook /= c /\ RaiseSem /= c /\ caller[c] = "waiting"
        BY Zenon, <2>1, <2>3 DEF WaiterInv
      <3>. QED  BY <2>5, <3>3, <3>4
    <2>4. CASE c \notin Waiting(queue)
      <3>1. S = {}
        BY Zenon, <2>2, <2>4 DEF Waiting
      <3>2. Cardinality(S) = 0
        BY Zenon, <3>1, FS_EmptySet
      <3>3. caller[c] = "waiting" <=> hook = c \/ RaiseSem = c
        BY Zenon, <2>1, <2>4 DEF WaiterInv
      <3>4. ~(hook = c /\ RaiseSem = c)
        BY Zenon, <2>1, <2>2 DEF WaiterInv
      <3>. QED  BY <2>5, <3>2, <3>3, <3>4
    <2>. QED  BY Zenon, <2>3, <2>4
  <1>. QED  BY <1>1, <1>2, <1>3, ServerInvariant, PTL DEF Spec

=============================================================================
