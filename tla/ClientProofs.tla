---------------------------- MODULE ClientProofs ----------------------------
(***************************************************************************)
(* Proofs about Client, the second part: every step of the application, of *)
(* the loop and of the server keeps the invariant of ClientListProofs, which*)
(* implies the properties of the answers, of the numbers and of the results.*)
(***************************************************************************)
EXTENDS ClientListProofs

\* The state t follows s without a handshake.
Later(s, t) == t \in -9 .. 6 /\ (t = s \/ t \notin 0 .. 3)

\* What the events of a client that has begun do to its state.
LEMMA EventLater ==
    ASSUME NEW s \in -9 .. 6
    PROVE  /\ Later(s, client_process_event(s, "ERROR"))
           /\ Later(s, client_process_event(s, "MESSAGE_RECEIVING"))
           /\ Later(s, client_process_event(s, "SERVER_BYE"))
           /\ Later(s, client_process_event(s, "QUITTING"))
           /\ Later(s, client_process_event(s, "QUIT"))
  BY DEF Later, client_process_event, client_set_state, INIT, CONNECT_START, RUNNING, DEAD, CLOSING,
         CLOSED, NOT_FORWARD, BAD_BYE, BAD_QUITTING, BAD_QUIT

\* So do an assertion that fails and a step that leaves the state alone.
LEMMA BadLater ==
    ASSUME NEW s \in -9 .. 6
    PROVE  Later(s, s) /\ Later(s, BAD_CLOSE) /\ Later(s, BAD_QUITTING)
  BY DEF Later, BAD_CLOSE, BAD_QUITTING

\* Two steps without a handshake.
LEMMA LaterTwice ==
    ASSUME NEW s, NEW t, NEW u, Later(s, t), Later(t, u)
    PROVE  Later(s, u)
  BY Zenon DEF Later

\* What the end of a task does to the state and to the pipe.
LEMMA EndLater ==
    ASSUME NEW c \in Calls, NEW ok \in BOOLEAN, NEW s \in -9 .. 6, NEW p
    PROVE  Later(s, at_end(c, ok, s, p).state) /\ at_end(c, ok, s, p).pipe \in {p, "closing"}
  <1>1. /\ Later(s, client_process_event(s, "ERROR")) /\ Later(s, s) /\ Later(s, BAD_CLOSE)
        /\ client_process_event(s, "ERROR") \in -9 .. 6
    BY Zenon, EventLater, BadLater DEF Later
  <1>2. /\ Later(s, client_process_event(s, "QUIT"))
        /\ Later(s, client_process_event(client_process_event(s, "ERROR"), "QUIT"))
    BY Zenon, <1>1, EventLater, LaterTwice
  <1>3. connect_end(ok, s, p) \in {Leaves(s, p), Leaves(BAD_CLOSE, p), Leaves(client_process_event(s, "ERROR"), "closing")}
    BY Zenon DEF connect_end
  <1>4. request_end(ok, s, p) \in {Leaves(s, p), Leaves(client_process_event(s, "ERROR"), p)}
    BY Zenon DEF request_end
  <1>5. disconnect_end(ok, s, p) \in
            {Leaves(client_process_event(s, "QUIT"), p),
             Leaves(client_process_event(client_process_event(s, "ERROR"), "QUIT"), p)}
    BY Zenon DEF disconnect_end
  <1>6. at_end(c, ok, s, p) \in {connect_end(ok, s, p), request_end(ok, s, p), disconnect_end(ok, s, p)}
    BY Zenon DEF at_end, Calls
  <1>7. \A t, q : Leaves(t, q).state = t /\ Leaves(t, q).pipe = q
    BY Zenon DEF Leaves
  <1>8. \E t, q : at_end(c, ok, s, p) = Leaves(t, q) /\ Later(s, t) /\ q \in {p, "closing"}
    BY Zenon, <1>1, <1>2, <1>3, <1>4, <1>5, <1>6
  <1>9. PICK t, q : at_end(c, ok, s, p) = Leaves(t, q) /\ Later(s, t) /\ q \in {p, "closing"}
    BY Zenon, <1>8
  <1>. QED  BY <1>7, <1>9

\* They keep what the state says about the packets that were sent.
LEMMA StateLater ==
    ASSUME NEW s, NEW p, NEW S, StateOK(s, p, S), NEW t, Later(s, t), NEW q, q = p \/ q /= "reading"
    PROVE  StateOK(t, q, S)
  BY DEF StateOK, Later, UNINIT, INIT, CONNECT_START, RUNNING

-----------------------------------------------------------------------------
\* The results of a call that ends without an answer fit.
LEMMA PlainFits ==
    ASSUME NEW c \in Calls
    PROVE  Fits(c, Failed) /\ Fits(c, Done(c)) /\ Fits(c, NoResult)
  <1>1. Nobody /= c
    BY Zenon, ClientAssumption
  <1>. QED  BY Zenon, <1>1 DEF Fits, Failed, Done, Returned, NoResult

\* No callback is called.
LEMMA ResultSame ==
    ASSUME ResultInv, api' = api, result' = result
    PROVE  ResultInv'
  <1>1. \A c \in Requests : Fits(c, result[c])'
    BY Zenon DEF ResultInv, Fits
  <1>. QED  BY Zenon, <1>1 DEF ResultInv

\* One callback is called, with a result that fits.
LEMMA ResultKeeps ==
    ASSUME ResultInv, api' = api, NEW d \in Calls, NEW r, Fits(d, r), result' = [result EXCEPT ![d] = r]
    PROVE  ResultInv'
  <1>1. result' = [c \in Calls |-> IF c = d THEN r ELSE result[c]]
    BY Zenon DEF ResultInv
  <1>2. \A c \in Requests : c \in Calls
    BY Zenon DEF Calls
  <1>3. \A c \in Requests : Fits(c, result'[c])
    BY Zenon, <1>1, <1>2 DEF ResultInv
  <1>4. \A c \in Requests : Fits(c, result[c])'
    BY Zenon, <1>3 DEF Fits
  <1>. QED  BY Zenon, <1>1, <1>4 DEF ResultInv

-----------------------------------------------------------------------------
\* What a function of a task does to the conversation: nothing, or one packet.
Talks ==
    \/ sent' = sent /\ asked' = asked
    \/ \E m \in SentPacket : sent' = Append(sent, m) /\ asked' \in {asked, asked \cup {m}}

\* What it keeps of the invariant.
Keeps == CallInv' /\ StateOK(state, pipe, sent)' /\ ResultInv' /\ Talks

\* The invariant, but for the server.
Base == CallInv /\ StateOK(state, pipe, sent) /\ ResultInv

\* The list M is L without the call c, and maybe without others.
Drops(M, L, c) == Thins(M, L) /\ \A k \in 1 .. Len(M) : M[k] /= c

\* dicey_task_list_erase of a call of the list.
LEMMA WithoutDrops ==
    ASSUME CallInv, NEW c
    PROVE  Drops(Without(list, c), list, c)
  <1>1. list \in Seq(Calls) /\ \A i, j \in 1 .. Len(list) : list[i] = list[j] => i = j
    BY Zenon DEF CallInv, ListOK
  <1>. QED  BY Zenon, <1>1, WithoutThins DEF Drops

\* dicey_task_list_erase of a call that has just entered it.
LEMMA LastDrops ==
    ASSUME CallInv, NEW c \in Calls, progress[c] \notin Past
    PROVE  Drops(Without(Append(list, c), c), list, c)
  <1>1. ListOK(list, progress)
    BY Zenon DEF CallInv
  <1>. QED  BY Zenon, <1>1, WithoutLast DEF Drops

\* A call ends, whatever its result.
LEMMA CompleteKeeps ==
    ASSUME Base, NEW c \in Calls, Taken(c), NEW r, NEW s, NEW p, NEW L, NEW W,
           complete_task(c, r, s, p, L, W), Drops(L, list, c), W = waiting \/ Unlisted(W, waiting, c),
           ops' \in SUBSET ops, sent' = sent, next_seq' = next_seq, api' = api, asked' = asked,
           StateOK(s, p, sent), Fits(c, r)
    PROVE  Keeps
  <1>1. Once(waiting)
    BY Zenon DEF Base, CallInv, WaitOK, Once
  <1>2. Once(W)
    BY Zenon, <1>1 DEF Unlisted
  <1>3. waiting' = dicey_waiting_list_remove_task(W, c)
    BY Zenon DEF complete_task
  <1>4. Unlisted(waiting', W, c)
    BY Zenon, <1>2, <1>3, RemoveTaskUnlists
  <1>5. Unlisted(waiting', waiting, c)
    BY Zenon, <1>4, UnlistedTwice
  <1>6. progress' = [progress EXCEPT ![c] = "ended"] /\ list' = L /\ result' = [result EXCEPT ![c] = r]
    BY Zenon DEF complete_task
  <1>7. CallInv'
    BY Zenon, <1>5, <1>6, EndsKeep DEF Base, Drops
  <1>8. ResultInv'
    BY Zenon, <1>6, ResultKeeps DEF Base
  <1>9. StateOK(state, pipe, sent)'
    <2>. DEFINE ok == r.status /= "error"
    <2>1. state' = at_end(c, ok, s, p).state /\ pipe' = at_end(c, ok, s, p).pipe
      BY Zenon DEF complete_task
    <2>2. ok \in BOOLEAN /\ s \in -9 .. 6
      BY Zenon DEF StateOK
    <2>. HIDE DEF ok
    <2>3. Later(s, state') /\ pipe' \in {p, "closing"}
      BY Zenon, <2>1, <2>2, EndLater
    <2>4. pipe' = p \/ pipe' /= "reading"
      BY Zenon, <2>3
    <2>5. StateOK(state', pipe', sent)
      BY Zenon, <2>3, <2>4, StateLater
    <2>. QED  BY Zenon, <2>5
  <1>. QED  BY Zenon, <1>7, <1>8, <1>9 DEF Keeps, Talks

\* The process ends: nothing else changes, but for the head of the queue.
LEMMA AbortKeeps ==
    ASSUME Base, NEW code \in -9 .. -1, Aborts(code), api' = api,
           queue' = queue \/ (queue /= <<>> /\ queue' = Tail(queue))
    PROVE  Keeps
  <1>0. /\ state' = code /\ pipe' = pipe /\ next_seq' = next_seq /\ waiting' = waiting /\ list' = list
        /\ ops' = ops /\ progress' = progress /\ result' = result /\ sent' = sent /\ asked' = asked
    BY Zenon DEF Aborts
  <1>1. QueueOK(queue', progress)
    <2>1. CASE queue' = queue
      BY Zenon, <2>1 DEF Base, CallInv
    <2>2. CASE queue /= <<>> /\ queue' = Tail(queue)
      <3>1. progress \in [Calls -> Stages] /\ QueueOK(queue, progress)
        BY Zenon DEF Base, CallInv, Stages
      <3>2. QueueOK(Tail(queue), [progress EXCEPT ![Head(queue)] = "queued"]) /\ progress[Head(queue)] = "queued"
        BY Zenon, <2>2, <3>1, QueueTail
      <3>3. [progress EXCEPT ![Head(queue)] = "queued"] = progress
        BY Zenon, <3>1, <3>2
      <3>. QED  BY Zenon, <2>2, <3>2, <3>3
    <2>. QED  BY Zenon, <2>1, <2>2
  <1>2. CallInv'
    BY Zenon, <1>0, <1>1 DEF Base, CallInv
  <1>3. StateOK(state, pipe, sent)'
    BY <1>0 DEF Base, StateOK, UNINIT, INIT, CONNECT_START, RUNNING
  <1>4. ResultInv'
    BY Zenon, <1>0, ResultSame DEF Base
  <1>. QED  BY Zenon, <1>0, <1>2, <1>3, <1>4 DEF Keeps, Talks

-----------------------------------------------------------------------------
\* The list as a function of a task sees it: with its call in it.
Entered(c) == IF progress[c] = "queued" THEN Append(list, c) ELSE list

\* The queue loses its head at most.
LEMMA TakenQueue ==
    ASSUME NEW c, Taken(c)
    PROVE  queue' = queue \/ (queue /= <<>> /\ queue' = Tail(queue))
  BY Zenon DEF Taken

\* dicey_task_list_erase by the function of a task.
LEMMA EnteredDrops ==
    ASSUME CallInv, NEW c \in Calls
    PROVE  Drops(Without(Entered(c), c), list, c)
  <1>1. CASE progress[c] = "queued"
    BY Zenon, <1>1, LastDrops DEF Entered, Past
  <1>2. CASE progress[c] /= "queued"
    BY Zenon, <1>2, WithoutDrops DEF Entered
  <1>. QED  BY Zenon, <1>1, <1>2

\* A sequence that something was appended to is not empty.
LEMMA AppendNotEmpty ==
    ASSUME NEW S, NEW s \in Seq(S), NEW e \in S
    PROVE  Append(s, e) /= <<>>
  <1>1. Len(Append(s, e)) = Len(s) + 1 /\ Len(s) \in Nat
    BY Zenon, AppendIs
  <1>. QED  BY <1>1

\* send_first_hello.
LEMMA HelloKeeps ==
    ASSUME Base, FewCalls, NEW c \in Connects, Taken(c), progress[c] /= "waiting",
           NEW o \in SUBSET ops, \A q \in o : q.call /= c, send_first_hello(c, Entered(c), o), api' = api
    PROVE  Keeps
  <1>c. c \in Calls
    BY Zenon DEF Calls
  <1>1. CASE state /= INIT
    <2>1. Aborts(BAD_HANDSHAKE) /\ BAD_HANDSHAKE \in -9 .. -1
      BY <1>1 DEF send_first_hello, BAD_HANDSHAKE
    <2>. QED  BY Zenon, <2>1, TakenQueue, AbortKeeps
  <1>2. CASE state = INIT
    <2>1. /\ pipe' = "reading" /\ next_seq' = 2 /\ client_task_send_and_queue("HELLO", 0, c)
          /\ state' = client_process_event(state, "HANDSHAKE_START")
          /\ list' = Entered(c) /\ ops' = o /\ result' = result
      BY <1>2, Zenon DEF send_first_hello
    <2>2. sent = <<>> /\ next_seq = 0
      <3>1. sent = <<>>
        BY Zenon, <1>2 DEF Base, StateOK
      <3>. QED  BY <3>1 DEF Base, CallInv, SentOK
    <2>3. MaySend("HELLO", sent, progress, c)
      BY Zenon, <2>2 DEF MaySend
    <2>4. next_seq' = next_seq + 2 /\ client_task_send_and_queue("HELLO", next_seq, c)
      BY <2>1, <2>2
    <2>5. CallInv'
      BY Zenon, <1>c, <2>1, <2>3, <2>4, SendsKeep DEF Entered, Base
    <2>. DEFINE m == [kind |-> "HELLO", seq |-> 0, call |-> c]
    <2>6. m \in SentPacket /\ sent' = Append(sent, m) /\ asked' \in {asked, asked \cup {m}} /\ sent \in Seq(SentPacket)
      BY Zenon, <1>c, <2>1 DEF SentPacket, Kinds, client_task_send_and_queue, Write, Base, CallInv, SentOK
    <2>. HIDE DEF m
    <2>7. sent' /= <<>>
      BY Zenon, <2>6, AppendNotEmpty
    <2>8. state' = CONNECT_START
      BY <1>2, <2>1 DEF client_process_event, INIT, CONNECT_START
    <2>9. StateOK(state, pipe, sent)'
      BY <2>7, <2>8 DEF StateOK, UNINIT, INIT, CONNECT_START
    <2>10. ResultInv'
      BY Zenon, <2>1, ResultSame DEF Base
    <2>. QED  BY Zenon, <2>5, <2>6, <2>9, <2>10 DEF Keeps, Talks
  <1>. QED  BY Zenon, <1>1, <1>2

\* issue_connect.
LEMMA ConnectKeeps ==
    ASSUME Base, FewCalls, NEW c \in Connects, Taken(c), progress[c] = "queued",
           issue_connect(c, Append(list, c)), api' = api
    PROVE  Keeps
  <1>c. c \in Calls /\ Entered(c) = Append(list, c) /\ \A q \in ops : q.call /= c
    BY Zenon, NoOp DEF Calls, Entered, Base, Past
  <1>1. CASE state /= INIT \/ pipe /= "none"
    <2>1. Aborts(BAD_HANDSHAKE) /\ BAD_HANDSHAKE \in -9 .. -1
      BY <1>1 DEF issue_connect, BAD_HANDSHAKE
    <2>. QED  BY Zenon, <2>1, TakenQueue, AbortKeeps
  <1>2. CASE c \in Opens /\ send_first_hello(c, Append(list, c), ops)
    BY Zenon, <1>2, <1>c, HelloKeeps
  <1>3. CASE /\ state = INIT /\ pipe = "none"
             /\ complete_task(c, Failed, state, "connecting", Without(Append(list, c), c), waiting)
             /\ UNCHANGED <<next_seq, ops, sent, asked>>
    <2>1. Drops(Without(Append(list, c), c), list, c)
      BY Zenon, <1>c, EnteredDrops DEF Base
    <2>2. StateOK(state, "connecting", sent)
      BY Zenon DEF Base, StateOK
    <2>3. next_seq' = next_seq /\ ops' = ops /\ sent' = sent /\ asked' = asked
      BY Zenon, <1>3
    <2>. QED  BY Zenon, <1>c, <1>3, <2>1, <2>2, <2>3, PlainFits, CompleteKeeps
  <1>4. CASE /\ state = INIT /\ pipe = "none"
             /\ c \notin Opens
             /\ pipe' = "connecting"
             /\ ops' = ops \cup {[op |-> "connect", call |-> c]}
             /\ progress' = [progress EXCEPT ![c] = "connecting"]
             /\ list' = Append(list, c)
             /\ UNCHANGED <<state, next_seq, waiting, result, sent, asked>>
    <2>1. Stage("connect") = "connecting"
      BY Zenon DEF Stage
    <2>2. CallInv'
      BY Zenon, <1>c, <1>4, <2>1, StartsKeep DEF Base
    <2>3. StateOK(state, pipe, sent)' /\ ResultInv'
      BY Zenon, <1>4, ResultSame DEF Base, StateOK
    <2>. QED  BY Zenon, <1>4, <2>2, <2>3 DEF Keeps, Talks
  <1>. QED  BY Zenon, <1>1, <1>2, <1>3, <1>4 DEF issue_connect

\* issue_request.
LEMMA RequestKeeps ==
    ASSUME Base, FewCalls, NEW c \in Requests, Taken(c), progress[c] = "queued",
           issue_request(c, Append(list, c)), api' = api
    PROVE  Keeps
  <1>c. c \in Calls /\ \A q \in ops : q.call /= c
    BY Zenon, NoOp DEF Calls, Base, Past
  <1>1. CASE state /= RUNNING
    <2>1. Aborts(NOT_RUNNING) /\ NOT_RUNNING \in -9 .. -1
      BY <1>1 DEF issue_request, NOT_RUNNING
    <2>. QED  BY Zenon, <2>1, TakenQueue, AbortKeeps
  <1>2. CASE state = RUNNING
    <2>1. /\ next_seq' = client_next_seq /\ client_task_send_and_queue("MESSAGE", next_seq, c)
          /\ list' = Append(list, c)
          /\ state' = state /\ pipe' = pipe /\ ops' = ops /\ result' = result
      BY Zenon, <1>2 DEF issue_request
    <2>2. sent /= <<>>
      BY Zenon, <1>2 DEF Base, StateOK
    <2>3. MaySend("MESSAGE", sent, progress, c)
      BY Zenon, <2>2 DEF MaySend, Past
    <2>5. CallInv'
      BY Zenon, <1>c, <2>1, <2>3, SendsKeep DEF Base
    <2>. DEFINE m == [kind |-> "MESSAGE", seq |-> next_seq, call |-> c]
    <2>6. m \in SentPacket /\ sent' = Append(sent, m) /\ asked' \in {asked, asked \cup {m}} /\ sent \in Seq(SentPacket)
      BY <1>c, <2>1 DEF SentPacket, Kinds, client_task_send_and_queue, Write, Base, CallInv, SentOK
    <2>. HIDE DEF m
    <2>7. sent' /= <<>>
      BY Zenon, <2>6, AppendNotEmpty
    <2>8. StateOK(state, pipe, sent)'
      BY Zenon, <1>2, <2>1, <2>7 DEF Base, StateOK, UNINIT, INIT, RUNNING
    <2>9. ResultInv'
      BY Zenon, <2>1, ResultSame DEF Base
    <2>. QED  BY Zenon, <2>5, <2>6, <2>8, <2>9 DEF Keeps, Talks
  <1>. QED  BY Zenon, <1>1, <1>2

\* issue_close.
LEMMA CloseKeeps ==
    ASSUME Base, NEW c \in Calls, Taken(c), progress[c] /= "waiting",
           NEW o \in SUBSET ops, \A q \in o : q.call /= c, issue_close(c, Entered(c), o), api' = api
    PROVE  Keeps
  <1>. DEFINE s == IF state < CONNECT_START THEN BAD_QUITTING ELSE client_process_event(state, "QUITTING")
  <1>1. Later(state, s)
    <2>1. state \in -9 .. 6
      BY Zenon DEF Base, StateOK
    <2>. QED  BY Zenon, <2>1, EventLater, BadLater
  <1>2. next_seq' = next_seq /\ sent' = sent /\ asked' = asked
    BY Zenon DEF issue_close
  <1>3. CASE pipe = "closing"
    <2>1. ops' = o /\ complete_task(c, Done(c), s, pipe, Without(Entered(c), c), waiting)
      BY Zenon, <1>3 DEF issue_close
    <2>. HIDE DEF s
    <2>2. StateOK(s, pipe, sent)
      BY Zenon, <1>1, StateLater DEF Base
    <2>3. Drops(Without(Entered(c), c), list, c)
      BY Zenon, EnteredDrops DEF Base
    <2>. QED  BY Zenon, <1>2, <2>1, <2>2, <2>3, PlainFits, CompleteKeeps
  <1>4. CASE pipe /= "closing"
    <2>1. /\ ops' = o \cup {[op |-> "close", call |-> c]} /\ state' = s /\ pipe' = "closing"
          /\ progress' = [progress EXCEPT ![c] = "closing"] /\ list' = Entered(c)
          /\ waiting' = waiting /\ result' = result
      BY Zenon, <1>4 DEF issue_close
    <2>. HIDE DEF s
    <2>2. StateOK(s, "closing", sent)
      <3>1. "closing" = pipe \/ "closing" /= "reading"
        BY Zenon
      <3>. QED  BY Zenon, <1>1, <3>1, StateLater DEF Base
    <2>3. Stage("close") = "closing"
      BY Zenon DEF Stage
    <2>4. CallInv'
      BY Zenon, <1>2, <2>1, <2>3, StartsKeep DEF Base, Entered
    <2>5. StateOK(state, pipe, sent)' /\ ResultInv'
      BY Zenon, <1>2, <2>1, <2>2, ResultSame DEF Base
    <2>. QED  BY Zenon, <1>2, <2>4, <2>5 DEF Keeps, Talks
  <1>. QED  BY Zenon, <1>3, <1>4

\* send_bye.
LEMMA SendByeKeeps ==
    ASSUME Base, FewCalls, NEW c \in Calls, Taken(c), progress[c] = "queued",
           send_bye(c, Append(list, c)), api' = api
    PROVE  Keeps
  <1>c. Entered(c) = Append(list, c) /\ \A q \in ops : q.call /= c
    BY Zenon, NoOp DEF Entered, Base, Past
  <1>1. CASE state < CONNECT_START
    <2>1. Aborts(BAD_QUITTING) /\ BAD_QUITTING \in -9 .. -1
      BY <1>1 DEF send_bye, BAD_QUITTING
    <2>. QED  BY Zenon, <2>1, TakenQueue, AbortKeeps
  <1>2. CASE ~(state < CONNECT_START) /\ pipe /= "reading"
    <2>1. issue_close(c, Entered(c), ops)
      BY Zenon, <1>2, <1>c DEF send_bye
    <2>. QED  BY Zenon, <1>c, <2>1, CloseKeeps
  <1>3. CASE ~(state < CONNECT_START) /\ pipe = "reading"
    <2>1. /\ next_seq' = client_next_seq /\ Write("BYE", next_seq, c)
          /\ ops' = ops \cup {[op |-> "bye", call |-> c]}
          /\ progress' = [progress EXCEPT ![c] = "bye"]
          /\ list' = Append(list, c)
          /\ state' = state /\ pipe' = pipe /\ waiting' = waiting /\ result' = result
      BY Zenon, <1>3 DEF send_bye
    <2>2. sent /= <<>>
      BY Zenon, <1>3 DEF Base, StateOK
    <2>5. CallInv'
      BY Zenon, <2>1, <2>2, ByeKeeps DEF Base
    <2>. DEFINE m == [kind |-> "BYE", seq |-> next_seq, call |-> c]
    <2>6. m \in SentPacket /\ sent' = Append(sent, m) /\ asked' \in {asked, asked \cup {m}} /\ sent \in Seq(SentPacket)
      BY <2>1 DEF SentPacket, Kinds, Write, Base, CallInv, SentOK
    <2>. HIDE DEF m
    <2>7. sent' /= <<>>
      BY Zenon, <2>6, AppendNotEmpty
    <2>8. StateOK(state, pipe, sent)'
      <3>1. state \notin {UNINIT, INIT}
        BY Zenon, <2>2 DEF Base, StateOK
      <3>. QED  BY Zenon, <2>1, <2>7, <3>1 DEF Base, StateOK
    <2>9. ResultInv'
      BY Zenon, <2>1, ResultSame DEF Base
    <2>. QED  BY Zenon, <2>5, <2>6, <2>8, <2>9 DEF Keeps, Talks
  <1>. QED  BY Zenon, <1>1, <1>2, <1>3

-----------------------------------------------------------------------------
\* What a function of the API makes of an answer to its message fits.
ToldWell(f, blocking, reply) ==
    LET t == Told(f, blocking, reply)
        reads == f \in {"is_path_alias", "subscribe_to", "unsubscribe_from"} \/ (f = "set" /\ blocking)
    IN  /\ reads /\ t.status = "OK" => reply /= "error"
        /\ reply /= "error" => t.status = "OK" \/ (t.status = "EPATH_NOT_ALIAS" /\ reply = "false")
        /\ t.value \in {"path", "true"} => reply = t.value

\* The fields of an outcome.
LEMMA OutcomeIs ==
    ASSUME NEW s, NEW v
    PROVE  Outcome(s, v).status = s /\ Outcome(s, v).value = v
  BY Zenon DEF Outcome

\* dicey_client_is_path_alias.
LEMMA AliasTold ==
    ASSUME NEW blocking \in BOOLEAN, NEW reply \in {"true", "false", "error"}
    PROVE  ToldWell("is_path_alias", blocking, reply)
  <1>1. Told("is_path_alias", blocking, reply) = is_alias_on_reply(reply, blocking)
    BY Zenon DEF Told
  <1>2. \A a, v : Outcome(a, v).status = a /\ Outcome(a, v).value = v
    BY Zenon, OutcomeIs
  <1>3. CASE reply = "error"
    <2>1. parse_bool_reply(reply) = Outcome("reply_error", "none")
      BY Zenon, <1>3 DEF parse_bool_reply
    <2>2. is_alias_on_reply(reply, blocking) \in {Outcome("reply_error", "false"), Outcome("reply_error", "none")}
      BY <1>2, <2>1 DEF is_alias_on_reply
    <2>. QED  BY <1>1, <1>2, <1>3, <2>2 DEF ToldWell
  <1>4. CASE reply = "true"
    <2>1. parse_bool_reply(reply) = Outcome("OK", "true")
      BY Zenon, <1>4 DEF parse_bool_reply
    <2>2. is_alias_on_reply(reply, blocking) \in {Outcome("OK", "true"), Outcome("OK", "none")}
      BY <1>2, <2>1 DEF is_alias_on_reply
    <2>. QED  BY <1>1, <1>2, <1>4, <2>2 DEF ToldWell
  <1>5. CASE reply = "false"
    <2>1. parse_bool_reply(reply) = Outcome("OK", "false")
      BY Zenon, <1>5 DEF parse_bool_reply
    <2>2. is_alias_on_reply(reply, blocking) \in {Outcome("OK", "false"), Outcome("EPATH_NOT_ALIAS", "none")}
      BY <1>2, <2>1 DEF is_alias_on_reply
    <2>. QED  BY <1>1, <1>2, <1>5, <2>2 DEF ToldWell
  <1>. QED  BY Zenon, <1>3, <1>4, <1>5

\* dicey_client_subscribe_to and dicey_client_unsubscribe_from.
LEMMA SubTold ==
    ASSUME NEW f \in {"subscribe_to", "unsubscribe_from"}, NEW blocking \in BOOLEAN,
           NEW reply \in {"unit", "path", "error"}
    PROVE  ToldWell(f, blocking, reply)
  <1>1. Told(f, blocking, reply) = subunsub_on_reply(f, reply, blocking)
    BY Zenon DEF Told
  <1>2. /\ reply = "unit" => parse_subunsub_reply(reply) = Outcome("OK", "none")
        /\ reply = "path" => parse_subunsub_reply(reply) = Outcome("OK", "path")
        /\ reply = "error" => parse_subunsub_reply(reply) = Outcome("EVALUE_TYPE_MISMATCH", "none")
    BY Zenon DEF parse_subunsub_reply
  <1>. QED  BY <1>1, <1>2 DEF ToldWell, subunsub_on_reply, Outcome

\* dicey_client_set.
LEMMA SetTold ==
    ASSUME NEW blocking \in BOOLEAN, NEW reply \in {"unit", "error"}
    PROVE  ToldWell("set", blocking, reply)
  <1>1. Told("set", blocking, reply) = IF blocking THEN parse_unit_reply(reply) ELSE Outcome("OK", reply)
    BY Zenon DEF Told
  <1>. QED  BY <1>1 DEF ToldWell, parse_unit_reply, Outcome

\* The functions that hand the reply over.
LEMMA PlainTold ==
    ASSUME NEW f \in Functions \ {"is_path_alias", "subscribe_to", "unsubscribe_from", "set"},
           NEW blocking \in BOOLEAN, NEW reply
    PROVE  ToldWell(f, blocking, reply)
  <1>1. Told(f, blocking, reply) = Outcome("OK", reply)
    BY Zenon DEF Told
  <1>. QED  BY <1>1 DEF ToldWell, Outcome

\* The answers of a server to the message behind a function.
LEMMA AnswersAre ==
    /\ Answers(Sent("is_path_alias")) = {"true", "false"}
    /\ Answers(Sent("subscribe_to")) = {"unit", "path"}
    /\ Answers(Sent("unsubscribe_from")) = {"unit"}
    /\ Answers(Sent("set")) = {"unit"}
  <1>1. Sent("is_path_alias") = Message("EXEC", "/dicey/registry", "PathIsAlias")
    BY Zenon DEF Sent, dicey_client_is_path_alias, dicey_client_exec
  <1>2. Sent("subscribe_to") = Message("EXEC", "/dicey/server", "Subscribe")
    BY Zenon DEF Sent, client_subunsub, dicey_client_exec
  <1>3. Sent("unsubscribe_from") = Message("EXEC", "/dicey/server", "Unsubscribe")
    BY Zenon DEF Sent, client_subunsub, dicey_client_exec
  <1>4. Sent("set") = Message("SET", "given", "given")
    BY Zenon DEF Sent, dicey_client_set
  <1>5. \A a, b, d : Message(a, b, d).op = a /\ Message(a, b, d).elem = d
    BY Zenon DEF Message
  <1>6. \A m : m.op = "EXEC" /\ m.elem = "PathIsAlias" => Answers(m) = {"true", "false"}
    BY Zenon DEF Answers
  <1>7. \A m : m.op = "EXEC" /\ m.elem = "Subscribe" => Answers(m) = {"unit", "path"}
    BY Zenon DEF Answers
  <1>8. \A m : m.op = "EXEC" /\ m.elem = "Unsubscribe" => Answers(m) = {"unit"}
    BY Zenon DEF Answers
  <1>9. \A m : m.op = "SET" /\ m.elem = "given" => Answers(m) = {"unit"}
    BY Zenon DEF Answers
  <1>. QED  BY <1>1, <1>2, <1>3, <1>4, <1>5, <1>6, <1>7, <1>8, <1>9

\* Every function of the API.
LEMMA ToldFits ==
    ASSUME NEW f \in Functions, NEW blocking \in BOOLEAN, NEW reply \in Answers(Sent(f)) \cup {"error"}
    PROVE  ToldWell(f, blocking, reply)
  <1>1. CASE f = "is_path_alias"
    BY Zenon, <1>1, AnswersAre, AliasTold
  <1>2. CASE f \in {"subscribe_to", "unsubscribe_from"}
    BY Zenon, <1>2, AnswersAre, SubTold
  <1>3. CASE f = "set"
    BY Zenon, <1>3, AnswersAre, SetTold
  <1>4. CASE f \notin {"is_path_alias", "subscribe_to", "unsubscribe_from", "set"}
    BY Zenon, <1>4, PlainTold
  <1>. QED  BY Zenon, <1>1, <1>2, <1>3, <1>4

-----------------------------------------------------------------------------
\* An answer is for the call that waits for its number.
LEMMA AnswerIsFor ==
    ASSUME Base, TalkInv, toClient /= <<>>, NEW p, p = Head(toClient), p.kind \in {"HELLO", "RESPONSE"},
           NEW i \in 1 .. Len(waiting), waiting[i].seq = p.seq, waiting[i].call \notin Connects
    PROVE  /\ waiting[i].call \in Requests /\ p.about = waiting[i].call
           /\ p.reply \in Answers(Sent(api[waiting[i].call].function)) \cup {"error"}
  <1>1. toClient \in Seq(Received) /\ HeardFrom(toClient, sent)
    BY Zenon DEF TalkInv, HeardFrom
  <1>2. 1 \in 1 .. Len(toClient) /\ p = toClient[1]
    BY <1>1
  <1>3. PICK j \in 1 .. Len(sent) : AnswerOf(p, sent[j])
    BY Zenon, <1>1, <1>2 DEF HeardFrom
  <1>4. WaitOK(waiting, sent, progress) /\ SentOK(sent, next_seq, progress)
    BY Zenon DEF Base, CallInv
  <1>5. PICK k \in 1 .. Len(sent) : sent[k].seq = waiting[i].seq /\ sent[k].call = waiting[i].call
    BY Zenon, <1>4 DEF WaitOK
  <1>6. /\ sent[j].seq = 2 * (j - 1) /\ sent[k].seq = 2 * (k - 1)
        /\ sent[j].kind = "HELLO" => sent[j].call \in Connects
        /\ sent[j].kind = "MESSAGE" => sent[j].call \in Requests
    BY Zenon, <1>4 DEF SentOK
  <1>7. sent[j].seq = p.seq /\ p.about = sent[j].call
    BY Zenon, <1>3 DEF AnswerOf
  <1>8. sent[j].seq = sent[k].seq
    BY Zenon, <1>5, <1>7
  <1>9. j = k
    BY <1>6, <1>8
  <1>10. sent[j].call = waiting[i].call
    BY Zenon, <1>5, <1>9
  <1>11. p.kind = "RESPONSE"
    BY Zenon, <1>3, <1>6, <1>10 DEF AnswerOf
  <1>. QED  BY Zenon, <1>3, <1>6, <1>7, <1>10, <1>11 DEF AnswerOf

\* check_response gives a request the answer to it.
LEMMA ResponseFits ==
    ASSUME ApiInv, NEW c \in Requests, NEW p, p.about = c,
           p.reply \in Answers(Sent(api[c].function)) \cup {"error"}
    PROVE  LET t == Told(api[c].function, api[c].blocking, p.reply)
           IN  Fits(c, Returned(t.status, p.about, t.value, p.reply))
  <1>. DEFINE t == Told(api[c].function, api[c].blocking, p.reply)
              r == Returned(t.status, p.about, t.value, p.reply)
  <1>1. api[c] \in [function : Functions, blocking : BOOLEAN]
    BY Zenon DEF ApiInv
  <1>2. api[c].function \in Functions /\ api[c].blocking \in BOOLEAN
    BY Zenon, <1>1
  <1>3. ToldWell(api[c].function, api[c].blocking, p.reply)
    BY Zenon, <1>2, ToldFits
  <1>4. r.status = t.status /\ r.about = p.about /\ r.value = t.value /\ r.reply = p.reply
    BY Zenon DEF Returned
  <1>5. LET reads == api[c].function \in {"is_path_alias", "subscribe_to", "unsubscribe_from"}
                     \/ (api[c].function = "set" /\ api[c].blocking)
        IN  /\ reads /\ t.status = "OK" => p.reply /= "error"
            /\ p.reply /= "error" => t.status = "OK" \/ (t.status = "EPATH_NOT_ALIAS" /\ p.reply = "false")
            /\ t.value \in {"path", "true"} => p.reply = t.value
    BY Zenon, <1>3 DEF ToldWell
  <1>. HIDE DEF t, r
  <1>6. Fits(c, r)
    BY Zenon, <1>4, <1>5 DEF Fits
  <1>. QED  BY Zenon, <1>6 DEF r, t

\* The entry of a call that the list does not have is taken out.
LEMMA UnlistKeeps ==
    ASSUME CallInv, NEW c \in Calls, Unlisted(waiting', waiting, c), c \notin Range(list),
           progress' = progress, list' = list, queue' = queue, ops' = ops, sent' = sent, next_seq' = next_seq
    PROVE  CallInv'
  <1>0. progress \in [Calls -> Stages] /\ [progress EXCEPT ![c] = progress[c]] = progress
    BY Zenon DEF CallInv, Stages
  <1>1. WaitOK(waiting', sent, [progress EXCEPT ![c] = progress[c]])
    BY Zenon, <1>0, WaitLess DEF CallInv
  <1>2. \A k \in 1 .. Len(list) : list[k] /= c
    BY DEF Range, CallInv, ListOK
  <1>3. Thins(list, list) /\ list \in Seq(Calls) /\ HeardOK(list, waiting, progress)
    BY Zenon, SelfThins DEF CallInv, ListOK
  <1>4. HeardOK(list, waiting', [progress EXCEPT ![c] = progress[c]])
    BY Zenon, <1>0, <1>2, <1>3, HeardLess
  <1>. QED  BY Zenon, <1>0, <1>1, <1>4 DEF CallInv

\* dicey_task_loop_advance.
LEMMA AdvanceKeeps ==
    ASSUME Base, TalkInv, toClient /= <<>>, NEW p, p = Head(toClient), p.kind \in {"HELLO", "RESPONSE"},
           NEW s, Later(state, s), advance(p, s), queue' = queue, ops' = ops, sent' = sent,
           asked' = asked, next_seq' = next_seq, api' = api
    PROVE  Keeps
  <1>0. StateOK(s, pipe, sent)
    BY Zenon, StateLater DEF Base
  <1>1. CASE Match(p.seq) = {}
    <2>1. /\ state' = s /\ pipe' = pipe /\ waiting' = waiting /\ list' = list /\ progress' = progress
          /\ result' = result
      BY Zenon, <1>1 DEF advance
    <2>2. CallInv'
      BY Zenon, <2>1 DEF Base, CallInv
    <2>. QED  BY Zenon, <1>0, <2>1, <2>2, ResultSame DEF Base, Keeps, Talks
  <1>2. CASE Match(p.seq) /= {}
    <2>. DEFINE i == CHOOSE i \in Match(p.seq) : TRUE
                c == waiting[i].call
                W == RemoveAt(waiting, i)
    <2>1. i \in 1 .. Len(waiting) /\ waiting[i].seq = p.seq
      BY Zenon, <1>2 DEF Match
    <2>2. IF c \notin Range(list)
          THEN state' = s /\ waiting' = W /\ UNCHANGED <<pipe, list, progress, result>>
          ELSE IF c \in Connects THEN verify_and_finish_connect(c, p, s, W)
          ELSE check_response(c, p, s, W)
      BY Zenon, <1>2 DEF advance
    <2>. HIDE DEF i
    <2>3. Once(waiting) /\ WaitOK(waiting, sent, progress)
      BY Zenon DEF Base, CallInv, WaitOK, Once
    <2>4. Unlisted(W, waiting, c)
      BY Zenon, <2>1, <2>3, RemoveSeqUnlists
    <2>5. c \in Calls /\ progress[c] = "waiting"
      <3>1. waiting[i] \in Waiter
        BY <2>1, <2>3 DEF Once
      <3>2. c \in Calls
        BY Zenon, <3>1 DEF Waiter
      <3>. QED  BY Zenon, <2>1, <2>3, <3>2 DEF WaitOK
    <2>6. (c \notin Connects) => /\ c \in Requests /\ p.about = c
                                 /\ p.reply \in Answers(Sent(api[c].function)) \cup {"error"}
      BY Zenon, <2>1, AnswerIsFor
    <2>. HIDE DEF c, W
    <2>7. CASE c \notin Range(list)
      <3>1. /\ state' = s /\ pipe' = pipe /\ waiting' = W /\ list' = list /\ progress' = progress
            /\ result' = result
        BY Zenon, <2>2, <2>7
      <3>2. CallInv'
        BY Zenon, <2>4, <2>5, <2>7, <3>1, UnlistKeeps DEF Base
      <3>. QED  BY Zenon, <1>0, <3>1, <3>2, ResultSame DEF Base, Keeps, Talks
    <2>8. Taken(c) /\ Drops(Without(list, c), list, c)
      BY Zenon, <2>5, WithoutDrops DEF Taken, Past, Base
    <2>9. CASE c \in Range(list) /\ c \in Connects
      <3>. DEFINE r == IF p.seq = 0 /\ p.kind = "HELLO" /\ s = CONNECT_START THEN Done(c) ELSE Failed
                  u == IF r = Done(c) THEN client_process_event(s, "CONNECT") ELSE s
      <3>1. complete_task(c, r, u, pipe, Without(list, c), W)
        BY Zenon, <2>2, <2>9 DEF verify_and_finish_connect
      <3>2. Fits(c, r)
        BY Zenon, <2>5, PlainFits
      <3>3. Failed /= Done(c)
        BY Zenon DEF Failed, Done, Returned
      <3>4. s = CONNECT_START => client_process_event(s, "CONNECT") = RUNNING
        BY DEF client_process_event, CONNECT_START, RUNNING
      <3>5. u = s \/ (s = CONNECT_START /\ u = RUNNING)
        BY Zenon, <3>3, <3>4
      <3>6. StateOK(u, pipe, sent)
        BY <1>0, <3>5 DEF StateOK, CONNECT_START, RUNNING, UNINIT, INIT
      <3>. HIDE DEF r, u
      <3>. QED  BY Zenon, <2>4, <2>5, <2>8, <3>1, <3>2, <3>6, CompleteKeeps
    <2>10. CASE c \in Range(list) /\ c \notin Connects
      <3>. DEFINE t == Told(api[c].function, api[c].blocking, p.reply)
                  r == Returned(t.status, p.about, t.value, p.reply)
      <3>1. complete_task(c, r, s, pipe, Without(list, c), W)
        BY Zenon, <2>2, <2>10 DEF check_response
      <3>2. Fits(c, r)
        BY Zenon, <2>6, <2>10, ResponseFits DEF TalkInv
      <3>. HIDE DEF r
      <3>. QED  BY Zenon, <1>0, <2>4, <2>5, <2>8, <3>1, <3>2, CompleteKeeps
    <2>. QED  BY Zenon, <2>7, <2>9, <2>10
  <1>. QED  BY Zenon, <1>1, <1>2

-----------------------------------------------------------------------------
\* A callback of the loop does nothing to what the server has sent.
Stays == toClient' = toClient /\ signals' = signals /\ api' = api

\* It keeps the conversation.
LEMMA TalkKeeps ==
    ASSUME CallInv, TalkInv, Talks, Stays
    PROVE  TalkInv'
  <1>1. CASE sent' = sent /\ asked' = asked
    BY <1>1 DEF TalkInv, AskedOK, HeardFrom, AnswerOf, ApiInv, Stays
  <1>2. CASE \E m \in SentPacket : sent' = Append(sent, m) /\ asked' \in {asked, asked \cup {m}}
    <2>1. PICK m \in SentPacket : sent' = Append(sent, m) /\ asked' \in {asked, asked \cup {m}}
      BY Zenon, <1>2
    <2>2. sent \in Seq(SentPacket)
      BY Zenon DEF CallInv, SentOK
    <2>. QED  BY Zenon, <2>1, <2>2, TalkSent DEF Stays
  <1>. QED  BY Zenon, <1>1, <1>2 DEF Talks

\* The parts of the invariant.
LEMMA InvBase ==
    ASSUME ClientInv
    PROVE  Base /\ CallInv /\ TalkInv
  BY Zenon DEF ClientInv, Base

\* A callback of the loop keeps the invariant if it keeps its parts.
LEMMA KeepsInv ==
    ASSUME ClientInv, Keeps, Stays
    PROVE  ClientInv'
  <1>1. TalkInv'
    BY Zenon, InvBase, TalkKeeps DEF Keeps
  <1>. QED  BY Zenon, <1>1 DEF ClientInv, Keeps

-----------------------------------------------------------------------------
\* The steps of the application.

\* A call is made, joins the thread of an earlier loop, or is submitted.
LEMMA CallStep ==
    ASSUME ClientInv, NEW c \in Calls, progress[c] \in Early \ {"queued"}, NEW v \in Early,
           progress' = [progress EXCEPT ![c] = v], queue' = IF v = "queued" THEN Append(queue, c) ELSE queue,
           state' = state, pipe' = pipe, next_seq' = next_seq, waiting' = waiting, list' = list, ops' = ops,
           api' = api, result' = result, sent' = sent, asked' = asked, toClient' = toClient, signals' = signals
    PROVE  ClientInv'
  <1>1. CallInv'
    BY Zenon, InvBase, CallsKeep
  <1>2. StateOK(state, pipe, sent)' /\ ResultInv'
    BY Zenon, ResultSame DEF ClientInv
  <1>. QED  BY Zenon, <1>1, <1>2, KeepsInv DEF Keeps, Talks, Stays

\* dicey_client_connect_async and client_open_async.
LEMMA SetupStep ==
    ASSUME ClientInv, NEW c \in Connects, client_setup_async(c)
    PROVE  ClientInv'
  <1>1. /\ progress[c] = "idle" /\ c \in Calls /\ "idle" \in Early \ {"queued"}
        /\ {"refused", "called", "joining"} \subseteq Early \ {"queued"}
    BY Zenon DEF client_setup_async, Calling, Calls, Early
  <1>2. PICK v \in {"refused", "called", "joining"} : progress' = [progress EXCEPT ![c] = v]
    BY Zenon DEF client_setup_async, Refuse
  <1>3. /\ queue' = queue /\ state' = state /\ pipe' = pipe /\ next_seq' = next_seq /\ waiting' = waiting
        /\ list' = list /\ ops' = ops /\ api' = api /\ result' = result /\ sent' = sent /\ asked' = asked
        /\ toClient' = toClient /\ signals' = signals
    BY Zenon DEF client_setup_async, Refuse, clientVars, loopVars, serverVars
  <1>4. v \in Early /\ v /= "queued"
    BY Zenon, <1>1, <1>2
  <1>. QED  BY Zenon, <1>1, <1>2, <1>3, <1>4, CallStep

\* client_setup_async, once the thread of the earlier loop has ended.
LEMMA JoinedStep ==
    ASSUME ClientInv, NEW c \in Connects, client_setup_joined(c)
    PROVE  ClientInv'
  <1>1. progress[c] \in Early \ {"queued"} /\ c \in Calls /\ "called" \in Early /\ "called" /= "queued"
    BY Zenon DEF client_setup_joined, Calls, Early
  <1>2. /\ queue' = queue /\ state' = state /\ pipe' = pipe /\ next_seq' = next_seq /\ waiting' = waiting
        /\ list' = list /\ ops' = ops /\ api' = api /\ result' = result /\ sent' = sent /\ asked' = asked
        /\ toClient' = toClient /\ signals' = signals /\ progress' = [progress EXCEPT ![c] = "called"]
    BY Zenon DEF client_setup_joined, clientVars, serverVars
  <1>. QED  BY Zenon, <1>1, <1>2, CallStep

\* dicey_client_request_async and dicey_client_disconnect_async.
LEMMA AskStep ==
    ASSUME ClientInv, NEW c \in Calls, dicey_client_request_async(c) \/ dicey_client_disconnect_async(c)
    PROVE  ClientInv'
  <1>1. Calling(c) /\ (Accept(c) \/ Refuse(c))
    BY Zenon DEF dicey_client_request_async, dicey_client_disconnect_async
  <1>2. progress[c] \in Early \ {"queued"} /\ {"called", "refused"} \subseteq Early \ {"queued"}
    BY Zenon, <1>1 DEF Calling, Early
  <1>3. PICK v \in {"called", "refused"} : progress' = [progress EXCEPT ![c] = v]
    BY Zenon, <1>1 DEF Accept, Refuse
  <1>4. /\ queue' = queue /\ state' = state /\ pipe' = pipe /\ next_seq' = next_seq /\ waiting' = waiting
        /\ list' = list /\ ops' = ops /\ api' = api /\ result' = result /\ sent' = sent /\ asked' = asked
        /\ toClient' = toClient /\ signals' = signals
    BY Zenon, <1>1 DEF Accept, Refuse, loopVars, serverVars
  <1>5. v \in Early /\ v /= "queued"
    BY Zenon, <1>2, <1>3
  <1>. QED  BY Zenon, <1>2, <1>3, <1>4, <1>5, CallStep

\* dicey_task_loop_submit.
LEMMA SubmitStep ==
    ASSUME ClientInv, NEW c \in Calls, submit(c)
    PROVE  ClientInv'
  <1>1. progress[c] \in Early \ {"queued"} /\ "queued" \in Early
    BY Zenon DEF submit, Early
  <1>2. /\ queue' = Append(queue, c) /\ state' = state /\ pipe' = pipe /\ next_seq' = next_seq /\ waiting' = waiting
        /\ list' = list /\ ops' = ops /\ api' = api /\ result' = result /\ sent' = sent /\ asked' = asked
        /\ toClient' = toClient /\ signals' = signals /\ progress' = [progress EXCEPT ![c] = "queued"]
    BY Zenon DEF submit, clientVars, serverVars
  <1>. QED  BY Zenon, <1>1, <1>2, CallStep

\* Nothing that the invariant is about changes, or only the state and the pipe.
LEMMA QuietStep ==
    ASSUME ClientInv, progress' = progress, queue' = queue, next_seq' = next_seq, waiting' = waiting,
           list' = list, ops' = ops, api' = api, result' = result, sent' = sent, asked' = asked,
           toClient' = toClient, signals' = signals, Later(state, state'), pipe' = pipe \/ pipe' /= "reading"
    PROVE  ClientInv'
  <1>1. CallInv'
    BY Zenon DEF ClientInv, CallInv
  <1>2. StateOK(state', pipe', sent)
    BY Zenon, StateLater DEF ClientInv
  <1>3. StateOK(state, pipe, sent)' /\ ResultInv'
    BY Zenon, <1>2, ResultSame DEF ClientInv
  <1>. QED  BY Zenon, <1>1, <1>3, KeepsInv DEF Keeps, Talks, Stays

-----------------------------------------------------------------------------
\* The callbacks of the loop.

\* process_queue: the first function of a task.
LEMMA TaskStep ==
    ASSUME ClientInv, FewCalls, process_task
    PROVE  ClientInv'
  <1>. DEFINE c == Head(queue)
  <1>1. queue /= <<>> /\ queue' = Tail(queue) /\ Stays /\ api' = api
    BY Zenon DEF process_task, Stays
  <1>2. Taken(c) /\ c \in Calls /\ progress[c] = "queued" /\ Base
    <2>1. queue \in Seq(Calls) /\ QueueOK(queue, progress) /\ progress \in [Calls -> Stages]
      BY Zenon DEF ClientInv, CallInv, QueueOK, Stages
    <2>2. c \in Calls /\ progress[c] = "queued"
      BY <1>1, <2>1 DEF QueueOK
    <2>. QED  BY Zenon, <1>1, <2>2, InvBase DEF Taken
  <1>3. Entered(c) = Append(list, c) /\ (\A q \in ops : q.call /= c) /\ progress[c] /= "waiting"
    BY Zenon, <1>2, NoOp DEF Entered, Base, Past
  <1>4. \/ c \in Connects /\ issue_connect(c, Append(list, c))
        \/ c \in Requests /\ issue_request(c, Append(list, c))
        \/ send_bye(c, Append(list, c))
        \/ issue_close(c, Append(list, c), ops)
    BY Zenon, <1>2 DEF process_task, Calls
  <1>. HIDE DEF c
  <1>5. CASE c \in Connects /\ issue_connect(c, Append(list, c))
    BY Zenon, <1>1, <1>2, <1>5, ConnectKeeps, KeepsInv
  <1>6. CASE c \in Requests /\ issue_request(c, Append(list, c))
    BY Zenon, <1>1, <1>2, <1>6, RequestKeeps, KeepsInv
  <1>7. CASE send_bye(c, Append(list, c))
    BY Zenon, <1>1, <1>2, <1>7, SendByeKeeps, KeepsInv
  <1>8. CASE issue_close(c, Append(list, c), ops)
    BY Zenon, <1>1, <1>2, <1>3, <1>8, CloseKeeps, KeepsInv
  <1>. QED  BY Zenon, <1>4, <1>5, <1>6, <1>7, <1>8

\* The task of an operation is gone.
LEMMA ForgottenStep ==
    ASSUME ClientInv, NEW o, Forgotten(o), queue' = queue, Stays
    PROVE  ClientInv'
  <1>1. /\ ops' \subseteq ops /\ state' = state /\ pipe' = pipe /\ next_seq' = next_seq /\ waiting' = waiting
        /\ list' = list /\ progress' = progress /\ result' = result /\ sent' = sent /\ asked' = asked
    BY Zenon DEF Forgotten, clientVars
  <1>2. OpsOK(ops', list, progress)
    BY Zenon, <1>1 DEF ClientInv, CallInv, OpsOK
  <1>3. CallInv'
    BY Zenon, <1>1, <1>2 DEF ClientInv, CallInv
  <1>4. StateOK(state, pipe, sent)' /\ ResultInv'
    BY Zenon, <1>1, ResultSame DEF ClientInv, Stays
  <1>. QED  BY Zenon, <1>1, <1>3, <1>4, KeepsInv DEF Keeps, Talks

\* The task of an operation ends with it.
LEMMA OpEndStep ==
    ASSUME ClientInv, NEW o \in ops, o.call \in Range(list), NEW r \in {Failed, Done(o.call)},
           complete_task(o.call, r, state, pipe, Without(list, o.call), waiting), ops' = ops \ {o},
           next_seq' = next_seq, sent' = sent, asked' = asked, queue' = queue, Stays
    PROVE  ClientInv'
  <1>1. o.call \in Calls /\ progress[o.call] \in Past
    BY Zenon, InvBase, OneOp
  <1>2. Base /\ StateOK(state, pipe, sent) /\ Taken(o.call) /\ Drops(Without(list, o.call), list, o.call)
    BY Zenon, <1>1, InvBase, WithoutDrops DEF Base, Taken
  <1>3. Fits(o.call, r)
    BY Zenon, <1>1, PlainFits
  <1>4. ops' \in SUBSET ops /\ api' = api
    BY Zenon DEF Stays
  <1>5. Keeps
    BY Zenon, <1>1, <1>2, <1>3, <1>4, CompleteKeeps
  <1>. QED  BY Zenon, <1>5, KeepsInv

-----------------------------------------------------------------------------
\* What on_connect, on_write and on_close leave alone.
LEMMA OpStays ==
    ASSUME NEW o \in ops, on_connect(o) \/ on_write(o) \/ on_close(o)
    PROVE  queue' = queue /\ Stays /\ api' = api
  BY Zenon DEF on_connect, on_write, on_close, Stays

\* on_connect.
LEMMA ConnectStep ==
    ASSUME ClientInv, FewCalls, NEW o \in ops, on_connect(o)
    PROVE  ClientInv'
  <1>0. queue' = queue /\ Stays /\ api' = api
    BY Zenon, OpStays
  <1>1. CASE Forgotten(o)
    BY Zenon, <1>0, <1>1, ForgottenStep
  <1>2. CASE Fails(o)
    BY Zenon, <1>0, <1>2, OpEndStep DEF Fails
  <1>3. CASE o.call \in Range(list) /\ send_first_hello(o.call, list, ops \ {o})
    <2>1. /\ \A q \in ops \ {o} : q.call /= o.call
          /\ o.call \in Connects /\ progress[o.call] \in Past /\ progress[o.call] \notin {"waiting", "queued"}
      BY Zenon, <1>3, InvBase, OneOp DEF on_connect
    <2>2. Taken(o.call) /\ Entered(o.call) = list /\ ops \ {o} \in SUBSET ops
      BY Zenon, <1>0, <2>1 DEF Taken, Entered
    <2>3. Keeps
      BY Zenon, <1>0, <1>3, <2>1, <2>2, InvBase, HelloKeeps
    <2>. QED  BY Zenon, <1>0, <2>3, KeepsInv
  <1>. QED  BY Zenon, <1>1, <1>2, <1>3 DEF on_connect

\* on_write, of a BYE.
LEMMA WriteStep ==
    ASSUME ClientInv, NEW o \in ops, on_write(o)
    PROVE  ClientInv'
  <1>0. queue' = queue /\ Stays /\ api' = api
    BY Zenon, OpStays
  <1>1. CASE Forgotten(o)
    BY Zenon, <1>0, <1>1, ForgottenStep
  <1>2. CASE Fails(o)
    BY Zenon, <1>0, <1>2, OpEndStep DEF Fails
  <1>3. CASE o.call \in Range(list) /\ issue_close(o.call, list, ops \ {o})
    <2>1. /\ \A q \in ops \ {o} : q.call /= o.call
          /\ o.call \in Calls /\ progress[o.call] \in Past /\ progress[o.call] \notin {"waiting", "queued"}
      BY Zenon, <1>3, InvBase, OneOp
    <2>2. Taken(o.call) /\ Entered(o.call) = list /\ ops \ {o} \in SUBSET ops
      BY Zenon, <1>0, <2>1 DEF Taken, Entered
    <2>3. Keeps
      BY Zenon, <1>0, <1>3, <2>1, <2>2, InvBase, CloseKeeps
    <2>. QED  BY Zenon, <1>0, <2>3, KeepsInv
  <1>. QED  BY Zenon, <1>1, <1>2, <1>3 DEF on_write

\* on_close.
LEMMA ClosedStep ==
    ASSUME ClientInv, NEW o \in ops, on_close(o)
    PROVE  ClientInv'
  <1>0. queue' = queue /\ Stays /\ api' = api
    BY Zenon, OpStays
  <1>1. CASE Forgotten(o)
    BY Zenon, <1>0, <1>1, ForgottenStep
  <1>2. CASE /\ o.call \in Range(list)
             /\ complete_task(o.call, Done(o.call), state, pipe, Without(list, o.call), waiting)
             /\ ops' = ops \ {o}
             /\ UNCHANGED <<next_seq, sent, asked>>
    BY Zenon, <1>0, <1>2, OpEndStep
  <1>. QED  BY Zenon, <1>1, <1>2 DEF on_close

\* A packet is read.
LEMMA PacketStep ==
    ASSUME ClientInv, client_got_packet
    PROVE  ClientInv'
  <1>. DEFINE p == Head(toClient)
  <1>0. /\ toClient /= <<>> /\ toClient' = Tail(toClient) /\ next_seq' = next_seq /\ queue' = queue /\ ops' = ops
        /\ api' = api /\ sent' = sent /\ asked' = asked /\ signals' = signals
    BY Zenon DEF client_got_packet
  <1>1. state \in -9 .. 6 /\ Base /\ TalkInv
    BY Zenon, InvBase DEF ClientInv, StateOK
  <1>2. /\ Later(state, state) /\ Later(state, client_process_event(state, "ERROR"))
        /\ Later(state, client_process_event(state, "MESSAGE_RECEIVING"))
        /\ Later(state, client_process_event(state, "SERVER_BYE"))
    BY Zenon, <1>1, EventLater DEF Later
  <1>3. toClient \in Seq(Received) /\ p \in Received
    BY <1>0, <1>1 DEF TalkInv, HeardFrom
  <1>4. p.kind \in {"HELLO", "RESPONSE", "SIGNAL", "bad", "BYE"}
    BY Zenon, <1>3 DEF Received, client_got_packet
  <1>5. \/ /\ state' \in {client_process_event(state, "SERVER_BYE"), client_process_event(state, "ERROR"),
                          client_process_event(state, "MESSAGE_RECEIVING")}
           /\ UNCHANGED <<pipe, waiting, list, progress, result>>
        \/ /\ p.kind \in {"HELLO", "RESPONSE"}
           /\ \/ advance(p, client_process_event(state, "MESSAGE_RECEIVING"))
              \/ advance(p, state)
    BY Zenon, <1>4 DEF client_got_packet
  <1>6. Keeps
    <2>1. CASE /\ state' \in {client_process_event(state, "SERVER_BYE"), client_process_event(state, "ERROR"),
                              client_process_event(state, "MESSAGE_RECEIVING")}
               /\ UNCHANGED <<pipe, waiting, list, progress, result>>
      <3>1. CallInv'
        BY Zenon, <1>0, <2>1 DEF ClientInv, CallInv
      <3>2. Later(state, state')
        BY Zenon, <1>2, <2>1
      <3>3. StateOK(state', pipe, sent)
        BY Zenon, <3>2, StateLater DEF ClientInv
      <3>4. StateOK(state, pipe, sent)' /\ ResultInv'
        BY Zenon, <1>0, <2>1, <3>3, ResultSame DEF ClientInv
      <3>. QED  BY Zenon, <1>0, <3>1, <3>4 DEF Keeps, Talks
    <2>2. CASE p.kind \in {"HELLO", "RESPONSE"} /\ advance(p, client_process_event(state, "MESSAGE_RECEIVING"))
      BY Zenon, <1>0, <1>1, <1>2, <2>2, AdvanceKeeps
    <2>3. CASE p.kind \in {"HELLO", "RESPONSE"} /\ advance(p, state)
      BY Zenon, <1>0, <1>1, <1>2, <2>3, AdvanceKeeps
    <2>. QED  BY Zenon, <1>5, <2>1, <2>2, <2>3
  <1>7. TalkInv'
    <2>1. /\ Tail(toClient) \in Seq(Received) /\ Len(Tail(toClient)) = Len(toClient) - 1
          /\ \A k \in 1 .. Len(Tail(toClient)) : Tail(toClient)[k] = toClient[k + 1]
      BY Zenon, <1>0, <1>3, TailIs
    <2>2. \A k \in 1 .. Len(toClient') : \E i \in 1 .. Len(toClient) : toClient'[k] = toClient[i]
      <3>1. \A k \in 1 .. Len(toClient') : k + 1 \in 1 .. Len(toClient) /\ toClient'[k] = toClient[k + 1]
        BY <1>0, <1>3, <2>1
      <3>. QED  BY Zenon, <3>1
    <2>3. signals' \in Nat /\ asked' \in SUBSET asked /\ toClient' \in Seq(Received)
      BY Zenon, <1>0, <1>1, <2>1 DEF TalkInv
    <2>. QED  BY Zenon, <1>0, <1>1, <2>2, <2>3, TalkHeard
  <1>. QED  BY Zenon, <1>6, <1>7 DEF ClientInv, Keeps

\* What cannot be loaded stays in front of what comes later.
LEMMA StuckStep ==
    ASSUME ClientInv, client_on_read_stuck
    PROVE  ClientInv'
  <1>1. /\ state \in -9 .. 6 /\ TalkInv /\ toClient \in Seq(Received) /\ toClient /= <<>>
        /\ Len(toClient) \in Nat
    <2>1. state \in -9 .. 6 /\ TalkInv /\ toClient \in Seq(Received) /\ toClient /= <<>>
      BY Zenon DEF ClientInv, StateOK, TalkInv, HeardFrom, client_on_read_stuck
    <2>. QED  BY <2>1
  <1>2. /\ progress' = progress /\ queue' = queue /\ next_seq' = next_seq /\ waiting' = waiting
        /\ list' = list /\ ops' = ops /\ api' = api /\ result' = result /\ sent' = sent /\ asked' = asked
        /\ signals' = signals /\ pipe' = pipe /\ state' = client_process_event(state, "ERROR")
    BY Zenon DEF client_on_read_stuck, loopVars, callVars
  <1>3. CallInv'
    BY Zenon, <1>2 DEF ClientInv, CallInv
  <1>4. Later(state, state')
    BY Zenon, <1>1, <1>2, EventLater
  <1>5. StateOK(state', pipe, sent)
    BY Zenon, <1>4, StateLater DEF ClientInv
  <1>6. StateOK(state, pipe, sent)' /\ ResultInv'
    BY Zenon, <1>2, <1>5, ResultSame DEF ClientInv
  <1>7. /\ toClient' \in Seq(Received)
        /\ \A k \in 1 .. Len(toClient') : toClient'[k].kind \in {"HELLO", "RESPONSE"} =>
              \E i \in 1 .. Len(toClient) : toClient'[k] = toClient[i]
    <2>1. CASE toClient' = [toClient EXCEPT ![1].kind = "stuck"]
      <3>. DEFINE p == [toClient[1] EXCEPT !.kind = "stuck"]
      <3>1. toClient[1] \in Received /\ 1 \in 1 .. Len(toClient)
        BY <1>1
      <3>2. p \in Received /\ p.kind = "stuck"
        BY <3>1 DEF Received
      <3>. HIDE DEF p
      <3>3. toClient' = [toClient EXCEPT ![1] = p]
        BY Zenon, <2>1 DEF p
      <3>4. /\ toClient' \in Seq(Received) /\ Len(toClient') = Len(toClient) /\ toClient'[1] = p
            /\ \A k \in 1 .. Len(toClient) : k /= 1 => toClient'[k] = toClient[k]
        BY <1>1, <3>1, <3>2, <3>3
      <3>. QED  BY Zenon, <3>2, <3>4
    <2>2. CASE Len(toClient) > 1 /\ toClient' = RemoveAt(toClient, 2)
      <3>1. 2 \in 1 .. Len(toClient)
        BY <1>1, <2>2
      <3>2. /\ toClient' \in Seq(Received)
            /\ \A k \in 1 .. Len(toClient') : \E i \in 1 .. Len(toClient) : toClient'[k] = toClient[i]
        <4>1. toClient' \in Seq(Received) /\ Selects(toClient', toClient, {2})
          BY Zenon, <1>1, <2>2, <3>1, RemoveAtKeeps
        <4>2. \A j \in 1 .. Len(toClient) \ {2} : j \in 1 .. Len(toClient)
          OBVIOUS
        <4>. QED  BY Zenon, <4>1, <4>2 DEF Selects
      <3>. QED  BY Zenon, <3>2
    <2>. QED  BY Zenon, <2>1, <2>2 DEF client_on_read_stuck
  <1>8. signals' \in Nat /\ asked' \in SUBSET asked
    BY Zenon, <1>1, <1>2 DEF TalkInv
  <1>9. TalkInv'
    BY Zenon, <1>1, <1>2, <1>7, <1>8, TalkHeard
  <1>. QED  BY Zenon, <1>3, <1>6, <1>9 DEF ClientInv

\* The end of the stream, or an error.
LEMMA ReadFailsStep ==
    ASSUME ClientInv, client_on_read_fails
    PROVE  ClientInv'
  <1>1. state \in -9 .. 6
    BY Zenon DEF ClientInv, StateOK
  <1>2. Later(state, state) /\ Later(state, client_process_event(state, "ERROR"))
    BY Zenon, <1>1, EventLater DEF Later
  <1>3. /\ progress' = progress /\ queue' = queue /\ next_seq' = next_seq /\ waiting' = waiting
        /\ list' = list /\ ops' = ops /\ api' = api /\ result' = result /\ sent' = sent /\ asked' = asked
        /\ toClient' = toClient /\ signals' = signals /\ pipe' = "ended"
        /\ state' \in {state, client_process_event(state, "ERROR")}
    BY Zenon DEF client_on_read_fails, loopVars, serverVars
  <1>4. Later(state, state') /\ pipe' /= "reading"
    BY Zenon, <1>2, <1>3
  <1>. QED  BY Zenon, <1>3, <1>4, QuietStep

\* A timeout: the task ends, and the list loses the one behind it.
LEMMA TimeoutStep ==
    ASSUME ClientInv, NEW i \in 1 .. Len(list), check_timeout(i)
    PROVE  ClientInv'
  <1>. DEFINE c == list[i]
              L == Without(list, c)
              M == IF i > Len(L) THEN L ELSE RemoveAt(L, i)
  <1>0. /\ complete_task(c, Failed, state, pipe, M, waiting) /\ next_seq' = next_seq /\ queue' = queue
        /\ ops' = ops /\ api' = api /\ sent' = sent /\ asked' = asked /\ Stays
    BY Zenon DEF check_timeout, serverVars, Stays
  <1>1. c \in Calls /\ progress[c] \in Past
    BY DEF ClientInv, CallInv, ListOK
  <1>2. Taken(c) /\ Base /\ StateOK(state, pipe, sent)
    BY Zenon, <1>0, <1>1, InvBase DEF Taken, Base
  <1>. HIDE DEF c
  <1>3. Drops(L, list, c)
    BY Zenon, InvBase, WithoutDrops
  <1>. HIDE DEF L
  <1>4. Drops(M, list, c)
    <2>1. CASE i > Len(L)
      BY Zenon, <1>3, <2>1
    <2>2. CASE ~(i > Len(L))
      <3>1. L \in Seq(Calls) /\ \A j, k \in 1 .. Len(L) : L[j] = L[k] => j = k
        BY Zenon, <1>3 DEF Drops, Thins
      <3>2. i \in 1 .. Len(L)
        BY <2>2, <3>1
      <3>3. Thins(RemoveAt(L, i), L) /\ M = RemoveAt(L, i)
        BY Zenon, <2>2, <3>1, <3>2, RemoveAtThins
      <3>. HIDE DEF M
      <3>4. ASSUME NEW k \in 1 .. Len(M) PROVE M[k] /= c /\ \E j \in 1 .. Len(list) : M[k] = list[j]
        <4>1. PICK j \in 1 .. Len(L) : M[k] = L[j]
          BY Zenon, <3>3 DEF Thins
        <4>. QED  BY Zenon, <1>3, <4>1 DEF Drops, Thins
      <3>. QED  BY Zenon, <3>3, <3>4 DEF Drops, Thins
    <2>. QED  BY Zenon, <2>1, <2>2
  <1>. HIDE DEF M
  <1>5. Fits(c, Failed) /\ ops' \in SUBSET ops
    BY Zenon, <1>0, <1>1, PlainFits
  <1>6. Keeps
    BY Zenon, <1>0, <1>1, <1>2, <1>4, <1>5, CompleteKeeps
  <1>. QED  BY Zenon, <1>0, <1>6, KeepsInv

-----------------------------------------------------------------------------
\* The loop ends, and a later connection starts afresh.
LEMMA ResetStep ==
    ASSUME ClientInv, NEW D,
           state' = INIT, pipe' = "none", next_seq' = 0, waiting' = <<>>, queue' = <<>>, list' = <<>>,
           progress' = [c \in Calls |-> IF c \in D THEN "ended" ELSE progress[c]],
           result' = [c \in Calls |-> IF c \in D THEN Failed ELSE result[c]],
           sent' = <<>>, asked' = {}, toClient' = <<>>, ops' = ops, api' = api, signals' = signals
    PROVE  ClientInv'
  <1>1. progress' \in [Calls -> Early \cup Past]
    BY Zenon DEF ClientInv, CallInv, Past
  <1>2. QueueOK(queue', progress') /\ ListOK(list', progress') /\ HeardOK(list', waiting', progress')
    BY DEF QueueOK, ListOK, HeardOK
  <1>3. OpsOK(ops', list', progress')
    <2>1. OpsOK(ops, list, progress)
      BY Zenon DEF ClientInv, CallInv
    <2>2. \A o \in ops : o \in Op /\ (o.op = "connect" => o.call \in Connects) /\ progress[o.call] \in Past
      BY Zenon, <2>1 DEF OpsOK
    <2>3. \A o \in ops : o.call \in Calls
      BY Zenon, <2>2 DEF Op
    <2>4. \A o \in ops : progress'[o.call] \in Past
      BY Zenon, <2>2, <2>3 DEF Past
    <2>. QED  BY <2>2, <2>4 DEF OpsOK
  <1>4. SentOK(sent', next_seq', progress') /\ WaitOK(waiting', sent', progress')
    BY DEF SentOK, WaitOK
  <1>5. CallInv'
    BY Zenon, <1>1, <1>2, <1>3, <1>4 DEF CallInv
  <1>6. StateOK(state, pipe, sent)'
    BY DEF StateOK, INIT, CONNECT_START, RUNNING, UNINIT
  <1>7. TalkInv'
    <2>1. ApiInv /\ signals \in Nat
      BY Zenon DEF ClientInv, TalkInv
    <2>. QED  BY <2>1 DEF TalkInv, AskedOK, HeardFrom, ApiInv
  <1>8. ResultInv'
    <2>1. \A c \in Requests : c \in Calls /\ Fits(c, result[c]) /\ Fits(c, Failed)
      BY Zenon, PlainFits DEF ClientInv, ResultInv, Calls
    <2>2. \A c \in Requests : result'[c] \in {Failed, result[c]}
      BY Zenon, <2>1
    <2>3. \A c \in Requests : Fits(c, result'[c])
      BY Zenon, <2>1, <2>2
    <2>4. \A c \in Requests : Fits(c, result[c])'
      BY Zenon, <2>3 DEF Fits
    <2>. QED  BY Zenon, <2>4 DEF ResultInv
  <1>. QED  BY Zenon, <1>5, <1>6, <1>7, <1>8 DEF ClientInv

\* The end of loop_thread: an assertion fails, or everything is reset.
LEMMA ThreadEndsStep ==
    ASSUME ClientInv, loop_thread_ends
    PROVE  ClientInv'
  <1>. DEFINE D == Range([i \in 1 .. Len(list) |-> list[Len(list) + 1 - i]] \o queue)
  <1>0. api' = api /\ signals' = signals
    BY Zenon DEF loop_thread_ends
  <1>1. \/ /\ \E code \in Assertions : Aborts(code)
           /\ UNCHANGED <<tloop, queue, toClient>>
        \/ /\ state' = INIT /\ pipe' = "none" /\ next_seq' = 0 /\ waiting' = <<>>
           /\ tloop' = "none" /\ queue' = <<>> /\ list' = <<>>
           /\ progress' = [c \in Calls |-> IF c \in D THEN "ended" ELSE progress[c]]
           /\ result' = [c \in Calls |-> IF c \in D THEN Failed ELSE result[c]]
           /\ sent' = <<>> /\ asked' = {} /\ toClient' = <<>>
           /\ UNCHANGED ops
    <2>1. BUSY \in Assertions
      BY DEF BUSY, Assertions, NOT_FORWARD
    <2>. QED  BY Zenon, <2>1 DEF loop_thread_ends
  <1>. HIDE DEF D
  <1>2. CASE (\E code \in Assertions : Aborts(code)) /\ UNCHANGED <<tloop, queue, toClient>>
    <2>1. PICK code \in -9 .. -1 : Aborts(code)
      BY Zenon, <1>2 DEF Assertions, BUSY, NOT_FORWARD
    <2>2. queue' = queue /\ Stays
      BY Zenon, <1>0, <1>2 DEF Stays
    <2>. QED  BY Zenon, <1>0, <2>1, <2>2, InvBase, AbortKeeps, KeepsInv
  <1>. QED  BY Zenon, <1>0, <1>1, <1>2, ResetStep

-----------------------------------------------------------------------------
\* The steps of the server.

\* One more packet is on its way to the client.
LEMMA ServerStep ==
    ASSUME ClientInv, NEW p \in Received, toClient' \in {toClient, Append(toClient, p)},
           p.kind \in {"HELLO", "RESPONSE"} => \E j \in 1 .. Len(sent) : AnswerOf(p, sent[j]),
           asked' \in SUBSET asked, signals' \in Nat,
           progress' = progress, queue' = queue, next_seq' = next_seq, waiting' = waiting,
           list' = list, ops' = ops, api' = api, result' = result, sent' = sent, state' = state, pipe' = pipe
    PROVE  ClientInv'
  <1>1. CallInv' /\ StateOK(state, pipe, sent)' /\ ResultInv'
    BY Zenon, ResultSame DEF ClientInv, CallInv
  <1>2. toClient \in Seq(Received) /\ TalkInv
    BY Zenon DEF ClientInv, TalkInv, HeardFrom
  <1>3. ASSUME NEW k \in 1 .. Len(toClient'), toClient'[k].kind \in {"HELLO", "RESPONSE"}
        PROVE  \/ \E i \in 1 .. Len(toClient) : toClient'[k] = toClient[i]
               \/ \E j \in 1 .. Len(sent) : AnswerOf(toClient'[k], sent[j])
    <2>1. CASE toClient' = toClient
      BY Zenon, <2>1
    <2>2. CASE toClient' = Append(toClient, p)
      <3>1. /\ Len(toClient') = Len(toClient) + 1 /\ Len(toClient) \in Nat
            /\ \A i \in 1 .. Len(toClient) + 1 : toClient'[i] = IF i = Len(toClient) + 1 THEN p ELSE toClient[i]
        BY <1>2, <2>2, AppendIs
      <3>2. CASE k = Len(toClient) + 1
        <4>1. toClient'[k] = p
          BY Zenon, <3>1, <3>2
        <4>. QED  BY Zenon, <1>3, <4>1
      <3>3. CASE k /= Len(toClient) + 1
        BY <3>1, <3>3
      <3>. QED  BY Zenon, <3>2, <3>3
    <2>. QED  BY Zenon, <2>1, <2>2
  <1>4. toClient' \in Seq(Received)
    BY <1>2, AppendIs
  <1>5. TalkInv'
    BY Zenon, <1>2, <1>3, <1>4, TalkHeard
  <1>. QED  BY Zenon, <1>1, <1>5 DEF ClientInv

\* The types of value that a server answers with.
LEMMA AnswersAreReplies ==
    ASSUME NEW m
    PROVE  Answers(m) \subseteq Replies
  <1>1. Answers(m) \in {{"unit"}, {"true", "false"}, {"unit", "path"}, {"path"}, {"value"}}
    BY Zenon DEF Answers
  <1>. QED  BY Zenon, <1>1 DEF Replies

\* The server answers a packet of the client.
LEMMA AnswerStep ==
    ASSUME ClientInv, NEW m \in asked, server_answers(m)
    PROVE  ClientInv'
  <1>0. /\ progress' = progress /\ queue' = queue /\ next_seq' = next_seq /\ waiting' = waiting
        /\ list' = list /\ ops' = ops /\ api' = api /\ result' = result /\ sent' = sent /\ state' = state
        /\ pipe' = pipe /\ signals' = signals
    BY Zenon DEF server_answers, clientVars, loopVars, callVars
  <1>1. AskedOK(asked, sent) /\ signals' \in Nat /\ asked' \in SUBSET asked
    BY Zenon, <1>0 DEF ClientInv, TalkInv, server_answers
  <1>2. PICK j \in 1 .. Len(sent) : sent[j] = m
    BY Zenon, <1>1 DEF AskedOK
  <1>3. m \in SentPacket
    BY Zenon, <1>1 DEF AskedOK
  <1>4. m.seq \in Nat /\ m.call \in Calls
    BY Zenon, <1>3 DEF SentPacket
  <1>5. \A k, n, a, r : /\ Packet(k, n, a, r).kind = k /\ Packet(k, n, a, r).seq = n
                        /\ Packet(k, n, a, r).about = a /\ Packet(k, n, a, r).reply = r
    BY Zenon DEF Packet
  <1>6. CASE m.kind = "HELLO" /\ toClient' = Append(toClient, Packet("HELLO", m.seq, m.call, "none"))
    <2>. DEFINE p == Packet("HELLO", m.seq, m.call, "none")
    <2>1. p \in Received
      BY Zenon, <1>4 DEF Packet, Received, Replies
    <2>2. AnswerOf(p, sent[j])
      BY <1>2, <1>5, <1>6 DEF AnswerOf
    <2>3. toClient' = Append(toClient, p)
      BY Zenon, <1>6
    <2>. HIDE DEF p
    <2>. QED  BY Zenon, <1>0, <1>1, <2>1, <2>2, <2>3, ServerStep
  <1>7. CASE /\ m.kind = "MESSAGE"
             /\ \E reply \in Answers(Sent(api[m.call].function)) \cup {"error"} :
                   toClient' = Append(toClient, Packet("RESPONSE", m.seq, m.call, reply))
    <2>1. PICK reply \in Answers(Sent(api[m.call].function)) \cup {"error"} :
                   toClient' = Append(toClient, Packet("RESPONSE", m.seq, m.call, reply))
      BY Zenon, <1>7
    <2>. DEFINE p == Packet("RESPONSE", m.seq, m.call, reply)
    <2>2. reply \in Replies
      BY Zenon, AnswersAreReplies DEF Replies
    <2>3. p \in Received
      BY Zenon, <1>4, <2>2 DEF Packet, Received
    <2>4. AnswerOf(p, sent[j])
      BY <1>2, <1>5, <1>7 DEF AnswerOf
    <2>5. toClient' = Append(toClient, p)
      BY Zenon, <2>1
    <2>. HIDE DEF p
    <2>. QED  BY Zenon, <1>0, <1>1, <2>3, <2>4, <2>5, ServerStep
  <1>8. CASE toClient' = toClient
    <2>. DEFINE p == Packet("SIGNAL", 0, Nobody, "none")
    <2>1. p \in Received /\ p.kind \notin {"HELLO", "RESPONSE"}
      BY Zenon DEF Packet, Received, Replies
    <2>. HIDE DEF p
    <2>. QED  BY Zenon, <1>0, <1>1, <1>8, <2>1, ServerStep
  <1>. QED  BY Zenon, <1>6, <1>7, <1>8 DEF server_answers

\* The server raises a signal, or goes.
LEMMA RaiseStep ==
    ASSUME ClientInv, server_raises \/ server_goes
    PROVE  ClientInv'
  <1>0. /\ progress' = progress /\ queue' = queue /\ next_seq' = next_seq /\ waiting' = waiting
        /\ list' = list /\ ops' = ops /\ api' = api /\ result' = result /\ sent' = sent /\ state' = state
        /\ pipe' = pipe /\ asked' \in SUBSET asked /\ signals' \in {signals, signals + 1}
    BY Zenon DEF server_raises, server_goes, clientVars, loopVars
  <1>1. signals \in Nat /\ signals' \in Nat
    BY <1>0 DEF ClientInv, TalkInv
  <1>2. \E k \in {"SIGNAL", "bad", "junk", "BYE"}, n \in {1, 2 * signals + 1} :
            toClient' \in {toClient, Append(toClient, Packet(k, n, Nobody, "none"))}
    BY Zenon DEF server_raises, server_goes
  <1>3. PICK k \in {"SIGNAL", "bad", "junk", "BYE"}, n \in {1, 2 * signals + 1} :
            toClient' \in {toClient, Append(toClient, Packet(k, n, Nobody, "none"))}
    BY Zenon, <1>2
  <1>. DEFINE p == Packet(k, n, Nobody, "none")
  <1>4. p \in Received /\ p.kind \notin {"HELLO", "RESPONSE"}
    BY <1>1 DEF Packet, Received, Replies
  <1>5. toClient' \in {toClient, Append(toClient, p)}
    BY Zenon, <1>3
  <1>. HIDE DEF p
  <1>. QED  BY Zenon, <1>0, <1>1, <1>4, <1>5, ServerStep

-----------------------------------------------------------------------------
\* A client that dicey_client_new has made satisfies the invariant.
LEMMA InitInv ==
    ASSUME Init
    PROVE  ClientInv
  <1>0. state = INIT
    BY DEF Init, client_process_event, UNINIT, INIT
  <1>1. CallInv
    BY DEF Init, CallInv, QueueOK, ListOK, OpsOK, SentOK, WaitOK, HeardOK, Early
  <1>2. StateOK(state, pipe, sent)
    BY <1>0 DEF Init, StateOK, INIT, UNINIT, CONNECT_START, RUNNING
  <1>3. TalkInv
    <2>1. ApiInv
      <3>1. \A r \in Requests : Apis[r] \subseteq [function : Functions, blocking : BOOLEAN]
        BY Zenon, ClientAssumption
      <3>. QED  BY Zenon, <3>1 DEF Init, ApiInv
    <2>. QED  BY <2>1 DEF Init, TalkInv, AskedOK, HeardFrom
  <1>4. ResultInv
    <2>1. \A c \in Requests : c \in Calls /\ Fits(c, NoResult)
      BY Zenon, PlainFits DEF Calls
    <2>2. \A c \in Requests : result[c] = NoResult
      BY Zenon, <2>1 DEF Init
    <2>. QED  BY Zenon, <2>1, <2>2 DEF Init, ResultInv
  <1>. QED  BY Zenon, <1>1, <1>2, <1>3, <1>4 DEF ClientInv

\* Every step of the application, the loop and the server keeps it.
LEMMA NextInv ==
    ASSUME ClientInv, FewCalls, [Next]_vars
    PROVE  ClientInv'
  <1>1. CASE UNCHANGED vars
    <2>1. /\ progress' = progress /\ queue' = queue /\ next_seq' = next_seq /\ waiting' = waiting
          /\ list' = list /\ ops' = ops /\ api' = api /\ result' = result /\ sent' = sent /\ asked' = asked
          /\ toClient' = toClient /\ signals' = signals /\ state' = state /\ pipe' = pipe
      BY Zenon, <1>1 DEF vars, clientVars, loopVars, callVars, serverVars
    <2>2. Later(state, state')
      BY Zenon, <2>1 DEF ClientInv, StateOK, Later
    <2>. QED  BY Zenon, <2>1, <2>2, QuietStep
  <1>2. CASE \E c \in Connects : dicey_client_connect_async(c) \/ client_open_async(c) \/ client_setup_joined(c)
    BY Zenon, <1>2, SetupStep, JoinedStep DEF dicey_client_connect_async, client_open_async
  <1>3. CASE \E c \in Requests : dicey_client_request_async(c)
    BY Zenon, <1>3, AskStep DEF Calls
  <1>4. CASE \E c \in Disconnects : dicey_client_disconnect_async(c)
    BY Zenon, <1>4, AskStep DEF Calls
  <1>5. CASE \E c \in Calls : client_issue_setup(c) \/ client_issue_request(c) \/ client_issue_disconnect(c)
    BY Zenon, <1>5, SubmitStep DEF client_issue_setup, client_issue_request, client_issue_disconnect
  <1>6. CASE dicey_client_delete
    <2>1. /\ progress' = progress /\ queue' = queue /\ next_seq' = next_seq /\ waiting' = waiting
          /\ list' = list /\ ops' = ops /\ api' = api /\ result' = result /\ sent' = sent /\ asked' = asked
          /\ toClient' = toClient /\ signals' = signals /\ state' = state /\ pipe' = pipe
      BY Zenon, <1>6 DEF dicey_client_delete, clientVars, serverVars
    <2>2. Later(state, state')
      BY Zenon, <2>1 DEF ClientInv, StateOK, Later
    <2>. QED  BY Zenon, <2>1, <2>2, QuietStep
  <1>7. CASE process_task
    BY Zenon, <1>7, TaskStep
  <1>8. CASE \E o \in ops : on_connect(o) \/ on_write(o) \/ on_close(o)
    BY Zenon, <1>8, ConnectStep, WriteStep, ClosedStep
  <1>9. CASE client_got_packet
    BY Zenon, <1>9, PacketStep
  <1>10. CASE client_on_read_fails
    BY Zenon, <1>10, ReadFailsStep
  <1>11. CASE \E i \in 1 .. Len(list) : check_timeout(i)
    BY Zenon, <1>11, TimeoutStep
  <1>12. CASE loop_thread_ends
    BY Zenon, <1>12, ThreadEndsStep
  <1>13. CASE \E m \in asked : server_answers(m)
    BY Zenon, <1>13, AnswerStep
  <1>14. CASE server_raises \/ server_goes
    BY Zenon, <1>14, RaiseStep
  <1>15. CASE client_on_read_stuck
    BY Zenon, <1>15, StuckStep
  <1>. QED  BY Zenon, <1>1, <1>2, <1>3, <1>4, <1>5, <1>6, <1>7, <1>8, <1>9, <1>10, <1>11, <1>12, <1>13, <1>14,
                     <1>15 DEF Next

\* It holds of every behaviour with fewer calls than sequence numbers.
LEMMA InvAlways ==
    ASSUME FewCalls
    PROVE  Spec => []ClientInv
  BY InitInv, NextInv, PTL DEF Spec

\* It implies the properties of the client.
LEMMA InvGives ==
    ASSUME ClientInv
    PROVE  AnswersMatch /\ ResultsFit /\ SentInOrder /\ WaitersAreListed
  <1>1. AnswersMatch /\ ResultsFit
    <2>1. \A c \in Requests : Fits(c, result[c])
      BY Zenon DEF ClientInv, ResultInv
    <2>. QED  BY Zenon, <2>1 DEF Fits, AnswersMatch, ResultsFit
  <1>2. SentInOrder
    <2>1. \A i \in 1 .. Len(sent) : sent[i].seq = 2 * (i - 1) /\ (sent[i].kind = "HELLO" <=> i = 1)
      BY Zenon DEF ClientInv, CallInv, SentOK
    <2>2. Len(sent) \in Nat
      BY DEF ClientInv, CallInv, SentOK
    <2>3. ASSUME NEW i \in 1 .. Len(sent) PROVE sent[i].kind = "HELLO" <=> sent[i].seq = 0
      BY <2>1, <2>2
    <2>4. ASSUME NEW i \in 1 .. Len(sent), NEW j \in 1 .. i - 1 PROVE sent[j].seq < sent[i].seq
      <3>1. j \in 1 .. Len(sent) /\ j < i
        BY <2>2
      <3>. QED  BY <2>1, <3>1
    <2>. QED  BY Zenon, <2>3, <2>4 DEF SentInOrder
  <1>3. WaitersAreListed
    <2>1. WaitOK(waiting, sent, progress) /\ HeardOK(list, waiting, progress) /\ list \in Seq(Calls)
      BY Zenon DEF ClientInv, CallInv, ListOK
    <2>2. ASSUME NEW c \in Range(list), progress[c] = "waiting"
          PROVE  \E i \in 1 .. Len(waiting), j \in 1 .. Len(sent) :
                     waiting[i] = [seq |-> sent[j].seq, call |-> c] /\ sent[j].call = c
      <3>1. PICK k \in 1 .. Len(list) : list[k] = c
        BY <2>1 DEF Range
      <3>2. PICK i \in 1 .. Len(waiting) : waiting[i].call = c
        BY Zenon, <2>1, <2>2, <3>1 DEF HeardOK
      <3>3. PICK j \in 1 .. Len(sent) : sent[j].seq = waiting[i].seq /\ sent[j].call = waiting[i].call
        BY Zenon, <2>1 DEF WaitOK
      <3>4. waiting[i] \in Waiter
        BY <2>1 DEF WaitOK
      <3>5. waiting[i] = [seq |-> sent[j].seq, call |-> c] /\ sent[j].call = c
        BY Zenon, <3>2, <3>3, <3>4 DEF Waiter
      <3>. QED  BY Zenon, <3>5
    <2>3. \A i \in 1 .. Len(waiting) : progress[waiting[i].call] = "waiting"
      BY Zenon, <2>1 DEF WaitOK
    <2>. QED  BY Zenon, <2>2, <2>3 DEF WaitersAreListed
  <1>. QED  BY Zenon, <1>1, <1>2, <1>3

\* The callback of a request is given the answer to that request, in whatever
\* order and however late answers come, whichever calls time out, as long as the
\* numbers of a connection have not wrapped around (client_got_packet).
THEOREM ClientAnswersMatch == ASSUME FewCalls PROVE Spec => []AnswersMatch
  BY InvAlways, InvGives, PTL

\* A client sends a HELLO numbered 0 and then numbers that only grow, as long as
\* they have not wrapped around (client_next_seq).
THEOREM ClientSentInOrder == ASSUME FewCalls PROVE Spec => []SentInOrder
  BY InvAlways, InvGives, PTL

\* A call of the list that waits for an answer is in the waiting list under the
\* number it was sent with, and nobody else is, whatever timeouts have erased
\* (client_task_send_and_queue, clean_up_task).
THEOREM ClientWaitersAreListed == ASSUME FewCalls PROVE Spec => []WaitersAreListed
  BY InvAlways, InvGives, PTL

\* A function of the API that reads the reply for its caller takes no error for a
\* success and no success for an error (parse_bool_reply, parse_unit_reply,
\* parse_subunsub_reply).
THEOREM ClientResultsFit == ASSUME FewCalls PROVE Spec => []ResultsFit
  BY InvAlways, InvGives, PTL
==============================================================================
