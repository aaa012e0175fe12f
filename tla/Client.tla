-------------------------------- MODULE Client --------------------------------
(***************************************************************************)
(* ipc/client/client.c and waiting-list.c: the client, as the threads of an*)
(* application, the thread of its task loop and a server see it.           *)
(*                                                                         *)
(* A call reads the state of the client on the thread of its caller and is *)
(* then submitted to the loop, which runs its functions one after the      *)
(* other: connect is issue_connect, send_first_hello, and                  *)
(* verify_and_finish_connect; a request is issue_request and               *)
(* check_response; disconnect is send_bye, issue_close and a function that *)
(* does nothing.  What happens in between may change the state.  A blocking*)
(* call is an asynchronous one whose callback posts a semaphore.           *)
(*                                                                         *)
(* The loop itself is the one of TaskLoop, of which this module keeps the  *)
(* queue, the list of pending tasks with what its timeouts do to it, and   *)
(* the operations in flight; a task's id is the call it runs.  Every read  *)
(* gives one packet (Wire has the chunks).  Allocations succeed.           *)
(*                                                                         *)
(* Assertions are enabled.  The state of a client whose process ended in   *)
(* one is the (negative) name of that assertion.                           *)
(***************************************************************************)
EXTENDS Integers, Sequences, FiniteSetsExt, Functions, ClientApi

CONSTANTS
    Connects, Requests, Disconnects,    \* the calls the application makes
    Timed,          \* the requests whose timeout is not DICEY_CLIENT_WAIT_FOREVER
    Apis,           \* the functions of the API a request may be made through
    Opens,          \* the connects that are given a file descriptor
    Habits,         \* what the server, the network and the application may do
    MaxSignals,     \* bound: signals of the server
    SEQ_LIMIT       \* 2^32: where next_seq wraps

Calls == Connects \cup Requests \cup Disconnects

\* The call that what the server sends by itself is about.
Nobody == "nobody"

ASSUME ClientAssumption ==
    /\ Nobody \notin Calls
    /\ Timed \subseteq Requests
    /\ Opens \subseteq Connects
    /\ Habits \subseteq {"bye", "gone", "reset", "bad packet", "delete"}
    /\ MaxSignals \in Nat
    /\ Apis \in [Requests -> SUBSET [function : Functions, blocking : BOOLEAN]]
    /\ SEQ_LIMIT \in Nat /\ SEQ_LIMIT % 2 = 0 /\ SEQ_LIMIT > 2

VARIABLES
    state,      \* client->state
    pipe,       \* client->pipe
    next_seq,   \* client->next_seq
    waiting,    \* client->waiting_tasks
    tloop, queue, list, ops,    \* the task loop, its queue and its pending tasks
    progress,   \* how far a call is
    full,       \* the disconnects that say BYE
    api,        \* the function a request is made through
    result,     \* what the callback of a call was given
    deleted,    \* dicey_client_delete was called
    orderly,    \* history: one call at a time, and nothing has gone wrong
    sent,       \* history: the packets the client has sent on this connection
    server, asked, toClient, signals    \* the other side, and what is on its way

clientVars == <<state, pipe, next_seq, waiting>>
loopVars == <<tloop, queue, list, ops>>
callVars == <<progress, full, api, result, deleted, orderly>>
serverVars == <<server, asked, toClient, signals>>
vars == <<clientVars, loopVars, callVars, sent, serverVars>>

-----------------------------------------------------------------------------
\* enum dicey_client_state, in its order.
UNINIT == 0
INIT == 1
CONNECT_START == 2
RUNNING == 3
DEAD == 4
CLOSING == 5
CLOSED == 6

\* The assertions that end the process.
NOT_FORWARD == -1       \* client_set_state
BAD_CONNECT == -2       \* CONNECT, out of place
BAD_HANDSHAKE == -3     \* HANDSHAKE_START, or the start of a connect
BAD_BYE == -4           \* SERVER_BYE
BAD_QUITTING == -5      \* QUITTING, or the start of a disconnect
BAD_QUIT == -6          \* QUIT
NOT_RUNNING == -7       \* issue_request
BAD_CLOSE == -8         \* uv_close, or reset_state, of a pipe that is not open
BUSY == -9              \* uv_loop_close

Assertions == BUSY .. NOT_FORWARD

client_set_state(s, t) == IF s <= t THEN t ELSE NOT_FORWARD

\* client_process_event_va: the state after an event.
client_process_event(s, e) ==
    IF s < 0 THEN s
    ELSE CASE e = "INIT" -> INIT
           [] e = "CONNECT" -> IF s = CONNECT_START THEN RUNNING ELSE BAD_CONNECT
           [] e = "ERROR" -> client_set_state(s, DEAD)
           [] e = "HANDSHAKE_START" -> IF s = INIT THEN CONNECT_START ELSE BAD_HANDSHAKE
           [] e = "MESSAGE_RECEIVING" -> IF s = RUNNING THEN s ELSE client_set_state(s, DEAD)
           [] e = "SERVER_BYE" -> IF s >= CONNECT_START THEN client_set_state(s, DEAD) ELSE BAD_BYE
           [] e = "QUITTING" -> IF s <= CLOSING THEN CLOSING ELSE BAD_QUITTING
           [] e = "QUIT" -> IF s = CLOSING THEN CLOSED ELSE BAD_QUIT

-----------------------------------------------------------------------------
NoResult == [status |-> "none", about |-> Nobody, value |-> "none", reply |-> "none"]

\* dicey_client_new and dicey_client_init: the event INIT.
Init ==
    /\ state = client_process_event(UNINIT, "INIT")
    /\ pipe = "none"
    /\ next_seq = 0
    /\ waiting = <<>>
    /\ tloop = "none" /\ queue = <<>> /\ list = <<>> /\ ops = {}
    /\ progress = [c \in Calls |-> "idle"]
    /\ full = {}
    /\ api \in [Requests -> UNION {Apis[r] : r \in Requests}] /\ \A r \in Requests : api[r] \in Apis[r]
    /\ result = [c \in Calls |-> NoResult]
    /\ deleted = FALSE
    /\ orderly = TRUE
    /\ sent = <<>>
    /\ server = "up" /\ asked = {} /\ toClient = <<>> /\ signals = 0

\* The loop is about to run a callback.
Turn == state >= 0 /\ tloop /= "none"

\* The calls that have not called back: those a blocking function waits for.
Busy == {c \in Calls : progress[c] \notin {"idle", "ended", "refused"}}

-----------------------------------------------------------------------------
\* The threads of the application.

\* TRACE(DICEY_EINVAL), on the thread of the caller.
Refuse(c) ==
    /\ progress' = [progress EXCEPT ![c] = "refused"]
    /\ UNCHANGED <<state, pipe, next_seq, waiting, loopVars, full, api, result, deleted, sent,
                   serverVars>>

Accept(c) ==
    /\ progress' = [progress EXCEPT ![c] = "called"]
    /\ UNCHANGED <<state, pipe, next_seq, waiting, loopVars, full, api, result, deleted, sent,
                   serverVars>>

Calling(c) ==
    /\ state >= 0 /\ ~deleted
    /\ progress[c] = "idle"
    /\ orderly' = (orderly /\ Busy = {})

\* client_setup_async up to the loop it needs: the one of an earlier attempt is
\* deleted first, which means waiting for its thread.
client_setup_async(c) ==
    /\ Calling(c)
    /\ IF state /= INIT THEN Refuse(c)
       ELSE /\ IF tloop = "none"
               THEN /\ progress' = [progress EXCEPT ![c] = "called"]
                    /\ tloop' = "up"
               ELSE /\ progress' = [progress EXCEPT ![c] = "joining"]
                    /\ tloop' = "halting"
            /\ UNCHANGED <<clientVars, queue, list, ops, full, api, result, deleted, sent, serverVars>>

dicey_client_connect_async(c) == c \notin Opens /\ client_setup_async(c)

client_open_async(c) == c \in Opens /\ client_setup_async(c)

\* The thread has ended: dicey_task_loop_new and dicey_task_loop_start.
client_setup_joined(c) ==
    /\ state >= 0
    /\ progress[c] = "joining" /\ tloop = "none"
    /\ tloop' = "up"
    /\ progress' = [progress EXCEPT ![c] = "called"]
    /\ UNCHANGED <<clientVars, queue, list, ops, full, api, result, deleted, orderly, sent, serverVars>>

dicey_client_request_async(c) ==
    /\ Calling(c)
    /\ IF state = RUNNING THEN Accept(c) ELSE Refuse(c)

dicey_client_disconnect_async(c) ==
    /\ Calling(c)
    /\ IF state \in {RUNNING, DEAD} THEN Accept(c) ELSE Refuse(c)

\* dicey_task_loop_submit.
submit(c) ==
    /\ state >= 0 /\ tloop /= "none"
    /\ progress[c] = "called"
    /\ progress' = [progress EXCEPT ![c] = "queued"]
    /\ queue' = Append(queue, c)
    /\ UNCHANGED <<clientVars, tloop, list, ops, api, result, deleted, orderly, sent, serverVars>>

client_issue_setup(c) == c \in Connects /\ submit(c) /\ UNCHANGED full

client_issue_request(c) == c \in Requests /\ submit(c) /\ UNCHANGED full

\* client_issue_disconnect, which reads the state once more.
client_issue_disconnect(c) ==
    /\ c \in Disconnects
    /\ submit(c)
    /\ full' = IF state = RUNNING THEN full \cup {c} ELSE full

\* dicey_client_delete, which nobody calls while another function is running.
dicey_client_delete ==
    /\ "delete" \in Habits
    /\ state >= 0 /\ ~deleted /\ tloop = "up"
    /\ \A c \in Calls : progress[c] \notin {"called", "joining"}
    /\ deleted' = TRUE
    /\ tloop' = "halting"
    /\ orderly' = (orderly /\ Busy = {} /\ pipe = "closing")
    /\ UNCHANGED <<clientVars, queue, list, ops, progress, full, api, result, sent, serverVars>>

-----------------------------------------------------------------------------
\* The end of a task.

\* What a callback is given and, for the properties, the reply behind it.
Returned(status, about, value, reply) ==
    [status |-> status, about |-> about, value |-> value, reply |-> reply]
Failed == Returned("error", Nobody, "none", "none")
Done(c) == Returned("OK", c, "none", "none")

\* The state and the pipe that the end of a task leaves to its callback.
Leaves(s, p) == [state |-> s, pipe |-> p]

\* connect_end: the pipe is closed if the connect has failed.
connect_end(ok, s, p) ==
    CASE ok -> Leaves(s, p)
      [] ~ok /\ s >= 0 /\ p \in {"none", "closing"} -> Leaves(BAD_CLOSE, p)
      [] OTHER -> Leaves(client_process_event(s, "ERROR"), "closing")

request_end(ok, s, p) == Leaves(IF ok THEN s ELSE client_process_event(s, "ERROR"), p)

disconnect_end(ok, s, p) ==
    Leaves(client_process_event(IF ok THEN s ELSE client_process_event(s, "ERROR"), "QUIT"), p)

at_end(c, ok, s, p) ==
    CASE c \in Connects -> connect_end(ok, s, p)
      [] c \in Requests -> request_end(ok, s, p)
      [] c \in Disconnects -> disconnect_end(ok, s, p)

\* The sequence s without its place i.
RemoveAt(s, i) == SubSeq(s, 1, i - 1) \o SubSeq(s, i + 1, Len(s))

\* The sequence s without the first of its places F, if there is one.
RemoveFirstOf(s, F) == IF F = {} THEN s ELSE RemoveAt(s, Min(F))

\* Mutant: the waiting list keeps a task that has ended.
dicey_waiting_list_remove_task_None(W, c) == W

\* clean_up_task: a task that ends is not waited for.
dicey_waiting_list_remove_task(W, c) == RemoveFirstOf(W, {i \in 1 .. Len(W) : W[i].call = c})

\* complete_task, in state s and with pipe p, which leaves the list L.
complete_task(c, r, s, p, L, W) ==
    LET e == at_end(c, r.status /= "error", s, p)
    IN  /\ state' = e.state /\ pipe' = e.pipe
        /\ list' = L
        /\ waiting' = dicey_waiting_list_remove_task(W, c)
        /\ progress' = [progress EXCEPT ![c] = "ended"]
        /\ result' = [result EXCEPT ![c] = r]

\* dicey_task_list_erase.
Without(L, c) == RemoveFirstOf(L, {i \in 1 .. Len(L) : L[i] = c})

Aborts(code) ==
    /\ state' = code
    /\ UNCHANGED <<pipe, next_seq, waiting, list, ops, progress, result, sent, asked>>

-----------------------------------------------------------------------------
\* The functions of the tasks.  L is the list of pending tasks, with the call in
\* it, and o the operations that are in flight as the function is called.

\* Mutant: the number is not counted up.
client_next_seq_Same == next_seq

\* client_next_seq: what next_seq becomes, which is never 0.
client_next_seq == IF (next_seq + 2) % SEQ_LIMIT = 0 THEN 2 ELSE next_seq + 2

\* The packet is written: the server has it, unless it is gone.
Write(kind, seq, c) ==
    LET m == [kind |-> kind, seq |-> seq, call |-> c]
    IN  /\ sent' = Append(sent, m)
        /\ asked' = IF server = "gone" THEN asked ELSE asked \cup {m}

\* client_task_send_and_queue.
client_task_send_and_queue(kind, seq, c) ==
    /\ Write(kind, seq, c)
    /\ waiting' = Append(waiting, [seq |-> seq, call |-> c])
    /\ progress' = [progress EXCEPT ![c] = "waiting"]

send_first_hello(c, L, o) ==
    IF state /= INIT THEN Aborts(BAD_HANDSHAKE)
    ELSE /\ pipe' = "reading"
         /\ next_seq' = 2
         /\ client_task_send_and_queue("HELLO", 0, c)
         /\ state' = client_process_event(state, "HANDSHAKE_START")
         /\ list' = L /\ ops' = o
         /\ UNCHANGED result

\* issue_connect: the pipe is connected, or opened and written to at once.
issue_connect(c, L) ==
    IF state /= INIT \/ pipe /= "none" THEN Aborts(BAD_HANDSHAKE)
    ELSE \/ /\ c \notin Opens
            /\ pipe' = "connecting"
            /\ ops' = ops \cup {[op |-> "connect", call |-> c]}
            /\ progress' = [progress EXCEPT ![c] = "connecting"]
            /\ list' = L
            /\ UNCHANGED <<state, next_seq, waiting, result, sent, asked>>
         \/ c \in Opens /\ send_first_hello(c, L, ops)
         \/ /\ complete_task(c, Failed, state, "connecting", Without(L, c), waiting)
            /\ UNCHANGED <<next_seq, ops, sent, asked>>

\* Mutant: the state of the client is not looked at.
verify_and_finish_connect_AnyState(c, p, s, W) ==
    LET r == IF p.seq = 0 /\ p.kind = "HELLO" THEN Done(c) ELSE Failed
    IN  complete_task(c, r, IF r = Done(c) THEN client_process_event(s, "CONNECT") ELSE s, pipe,
                      Without(list, c), W)

verify_and_finish_connect(c, p, s, W) ==
    LET r == IF p.seq = 0 /\ p.kind = "HELLO" /\ s = CONNECT_START THEN Done(c) ELSE Failed
    IN  complete_task(c, r, IF r = Done(c) THEN client_process_event(s, "CONNECT") ELSE s, pipe,
                      Without(list, c), W)

issue_request(c, L) ==
    IF state /= RUNNING THEN Aborts(NOT_RUNNING)
    ELSE /\ next_seq' = client_next_seq
         /\ client_task_send_and_queue("MESSAGE", next_seq, c)
         /\ list' = L
         /\ UNCHANGED <<state, pipe, ops, result>>

\* check_response, with what the function of the API then tells the caller.
check_response(c, p, s, W) ==
    LET t == Told(api[c].function, api[c].blocking, p.reply)
    IN  complete_task(c, Returned(t.status, p.about, t.value, p.reply), s, pipe, Without(list, c), W)

\* Mutant: the pipe is closed whatever has become of it.
issue_close_Again(c, L, o) ==
    LET s == IF state < CONNECT_START THEN BAD_QUITTING ELSE client_process_event(state, "QUITTING")
    IN  /\ state' = IF pipe = "closing" THEN BAD_CLOSE ELSE s
        /\ pipe' = "closing"
        /\ ops' = o \cup {[op |-> "close", call |-> c]}
        /\ progress' = [progress EXCEPT ![c] = "closing"]
        /\ list' = L
        /\ UNCHANGED <<next_seq, waiting, result, sent, asked>>

\* issue_close.  dicey_task_noop follows at once if the pipe is closed already,
\* and when it has been closed if not.
issue_close(c, L, o) ==
    LET s == IF state < CONNECT_START THEN BAD_QUITTING ELSE client_process_event(state, "QUITTING")
    IN  /\ ops' = IF pipe = "closing" THEN o ELSE o \cup {[op |-> "close", call |-> c]}
        /\ IF pipe = "closing" THEN complete_task(c, Done(c), s, pipe, Without(L, c), waiting)
           ELSE /\ state' = s
                /\ pipe' = "closing"
                /\ progress' = [progress EXCEPT ![c] = "closing"]
                /\ list' = L
                /\ UNCHANGED <<waiting, result>>
        /\ UNCHANGED <<next_seq, sent, asked>>

\* send_bye, which goes on to issue_close if nothing can be read from the pipe.
send_bye(c, L) ==
    IF state < CONNECT_START THEN Aborts(BAD_QUITTING)
    ELSE IF pipe /= "reading" THEN issue_close(c, L, ops)
    ELSE /\ next_seq' = client_next_seq
         /\ Write("BYE", next_seq, c)
         /\ ops' = ops \cup {[op |-> "bye", call |-> c]}
         /\ progress' = [progress EXCEPT ![c] = "bye"]
         /\ list' = L
         /\ UNCHANGED <<state, pipe, waiting, result>>

-----------------------------------------------------------------------------
\* The callbacks of the loop.

\* process_queue: the first function of the task at the head of the queue.
process_task ==
    /\ Turn
    /\ queue /= <<>>
    /\ LET c == Head(queue)
       IN  CASE c \in Connects -> issue_connect(c, Append(list, c))
             [] c \in Requests -> issue_request(c, Append(list, c))
             [] c \in Disconnects /\ c \in full -> send_bye(c, Append(list, c))
             [] c \in Disconnects /\ c \notin full -> issue_close(c, Append(list, c), ops)
    /\ queue' = Tail(queue)
    /\ UNCHANGED <<tloop, full, api, deleted, orderly, server, toClient, signals>>

\* The task of an operation that is done is gone: it ended or was dropped.
Forgotten(o) ==
    /\ o.call \notin Range(list)
    /\ ops' = ops \ {o}
    /\ UNCHANGED <<clientVars, list, progress, result, sent, asked>>

Fails(o) ==
    /\ o.call \in Range(list)
    /\ complete_task(o.call, Failed, state, pipe, Without(list, o.call), waiting)
    /\ ops' = ops \ {o}
    /\ UNCHANGED <<next_seq, sent, asked>>

\* on_connect, through unlock_task.
on_connect(o) ==
    /\ Turn /\ o \in ops /\ o.op = "connect"
    /\ \/ Forgotten(o)
       \/ Fails(o)
       \/ /\ o.call \in Range(list) /\ pipe = "connecting" /\ server = "up"
          /\ send_first_hello(o.call, list, ops \ {o})
    /\ UNCHANGED <<tloop, queue, full, api, deleted, orderly, server, toClient, signals>>

\* on_write of a BYE, through unlock_task: it may fail when the server is gone
\* or the pipe has been closed.
on_write(o) ==
    /\ Turn /\ o \in ops /\ o.op = "bye"
    /\ \/ Forgotten(o) /\ UNCHANGED orderly
       \/ (server = "gone" \/ pipe = "closing") /\ Fails(o) /\ orderly' = FALSE
       \/ /\ o.call \in Range(list)
          /\ issue_close(o.call, list, ops \ {o})
          /\ UNCHANGED orderly
    /\ UNCHANGED <<tloop, queue, full, api, deleted, server, toClient, signals>>

\* on_close, after the callbacks of what the pipe was used for.
on_close(o) ==
    /\ Turn /\ o \in ops /\ o.op = "close"
    /\ \A q \in ops : q.op = "close"
    /\ \/ Forgotten(o)
       \/ /\ o.call \in Range(list)
          /\ complete_task(o.call, Done(o.call), state, pipe, Without(list, o.call), waiting)
          /\ ops' = ops \ {o}
          /\ UNCHANGED <<next_seq, sent, asked>>
    /\ UNCHANGED <<tloop, queue, full, api, deleted, orderly, server, toClient, signals>>

\* Mutant: the first task of the list is taken to be the one.
Match_First(seq) == IF waiting = <<>> THEN {} ELSE {1}

\* dicey_waiting_list_remove_seq: the place of the task that waits for seq.
Match(seq) == {i \in 1 .. Len(waiting) : waiting[i].seq = seq /\ \A j \in 1 .. i - 1 : waiting[j].seq /= seq}

\* dicey_task_loop_advance of the task that waits for a packet, if there is one.
advance(p, s) ==
    IF Match(p.seq) = {} THEN state' = s /\ UNCHANGED <<pipe, waiting, list, progress, result>>
    ELSE LET i == CHOOSE i \in Match(p.seq) : TRUE
             c == waiting[i].call
             W == RemoveAt(waiting, i)
         IN  IF c \notin Range(list)
             THEN state' = s /\ waiting' = W /\ UNCHANGED <<pipe, list, progress, result>>
             ELSE IF c \in Connects THEN verify_and_finish_connect(c, p, s, W)
             ELSE check_response(c, p, s, W)

\* client_on_read and client_got_packet.  A message that is none of a server's is
\* an error, and signals are handed over.
client_got_packet ==
    /\ Turn
    /\ pipe = "reading" /\ toClient /= <<>>
    /\ Head(toClient).kind \notin {"junk", "stuck"}
    /\ LET p == Head(toClient)
       IN  CASE p.kind = "BYE" ->
                    /\ state' = client_process_event(state, "SERVER_BYE")
                    /\ UNCHANGED <<pipe, waiting, list, progress, result>>
             [] p.kind = "bad" ->
                    /\ state' = client_process_event(state, "ERROR")
                    /\ UNCHANGED <<pipe, waiting, list, progress, result>>
             [] p.kind = "SIGNAL" ->
                    /\ state' = client_process_event(state, "MESSAGE_RECEIVING")
                    /\ UNCHANGED <<pipe, waiting, list, progress, result>>
             [] p.kind = "RESPONSE" -> advance(p, client_process_event(state, "MESSAGE_RECEIVING"))
             [] p.kind = "HELLO" -> advance(p, state)
    /\ toClient' = Tail(toClient)
    /\ UNCHANGED <<next_seq, tloop, queue, ops, full, api, deleted, orderly, sent, server, asked, signals>>

\* client_on_read of what cannot be loaded: the chunk keeps it, so that every
\* packet that comes later is read behind it, and is the same error once more.
client_on_read_stuck ==
    /\ Turn
    /\ pipe = "reading" /\ toClient /= <<>>
    /\ \/ /\ Head(toClient).kind = "junk"
          /\ toClient' = [toClient EXCEPT ![1].kind = "stuck"]
       \/ /\ Head(toClient).kind = "stuck" /\ Len(toClient) > 1
          /\ toClient' = RemoveAt(toClient, 2)
    /\ state' = client_process_event(state, "ERROR")
    /\ UNCHANGED <<pipe, next_seq, waiting, loopVars, callVars, sent, server, asked, signals>>

\* client_on_read at the end of the stream, which it ignores, or of an error.
client_on_read_fails ==
    /\ Turn
    /\ pipe = "reading" /\ server = "gone"
    /\ \A k \in 1 .. Len(toClient) : k = 1 /\ toClient[k].kind = "stuck"
    /\ pipe' = "ended"
    /\ \/ UNCHANGED <<state, orderly>>
       \/ /\ "reset" \in Habits
          /\ state' = IF state = DEAD THEN state ELSE client_process_event(state, "ERROR")
          /\ orderly' = FALSE
    /\ UNCHANGED <<next_seq, waiting, loopVars, progress, full, api, result, deleted, sent, serverVars>>

\* Mutant: a request only has a timeout.
Expires_RequestsOnly(c) == c \in Timed

\* CLIENT_DEFAULT_TIMEOUT, or the timeout of the request.
Expires(c) == c \in Connects \cup Disconnects \cup Timed

\* check_timeout, as in TaskLoop: whatever follows the task in the list is erased
\* with it.  A pipe that is being closed is closed before the timer is looked at.
check_timeout(i) ==
    /\ Turn
    /\ i \in 1 .. Len(list)
    /\ Expires(list[i])
    /\ \A o \in ops : o.op /= "close"
    /\ LET L == Without(list, list[i])
       IN  complete_task(list[i], Failed, state, pipe, IF i > Len(L) THEN L ELSE RemoveAt(L, i), waiting)
    /\ orderly' = (orderly /\ progress[list[i]] /= "bye")
    /\ UNCHANGED <<next_seq, tloop, queue, ops, full, api, deleted, sent, serverVars>>

\* Cancelling a task, in the order of cancel_all_pending.
Cancel(e, c) == at_end(c, FALSE, e.state, e.pipe)

\* The end of loop_thread, and reset_state: a later connection starts afresh.
loop_thread_ends ==
    /\ Turn /\ tloop = "halting"
    /\ pipe = "closing" => ops = {}
    /\ LET cancelled == [i \in 1 .. Len(list) |-> list[Len(list) + 1 - i]] \o queue
           ending[n \in 0 .. Len(cancelled)] ==
               IF n = 0 THEN Leaves(state, pipe) ELSE Cancel(ending[n - 1], cancelled[n])
           e == ending[Len(cancelled)]
       IN  IF pipe \notin {"none", "closing"} THEN Aborts(BUSY) /\ UNCHANGED <<tloop, queue, toClient>>
           ELSE IF e.state < 0 \/ e.pipe = "none"
           THEN /\ \E code \in Assertions :
                      code = (IF e.state < 0 THEN e.state ELSE BAD_CLOSE) /\ Aborts(code)
                /\ UNCHANGED <<tloop, queue, toClient>>
           ELSE /\ state' = INIT /\ pipe' = "none" /\ next_seq' = 0 /\ waiting' = <<>>
                /\ tloop' = "none" /\ queue' = <<>> /\ list' = <<>>
                /\ progress' = [c \in Calls |-> IF c \in Range(cancelled) THEN "ended" ELSE progress[c]]
                /\ result' = [c \in Calls |-> IF c \in Range(cancelled) THEN Failed ELSE result[c]]
                /\ sent' = <<>> /\ asked' = {} /\ toClient' = <<>>
                /\ UNCHANGED ops
    /\ UNCHANGED <<full, api, deleted, orderly, server, signals>>

-----------------------------------------------------------------------------
\* The server, as far as a client can tell.

Packet(kind, seq, about, reply) == [kind |-> kind, seq |-> seq, about |-> about, reply |-> reply]

\* It answers what it was sent, in any order, and closes after a BYE.
server_answers(m) ==
    /\ state >= 0 /\ server = "up"
    /\ m \in asked
    /\ asked' = asked \ {m}
    /\ \/ /\ m.kind = "HELLO"
          /\ toClient' = Append(toClient, Packet("HELLO", m.seq, m.call, "none"))
          /\ UNCHANGED server
       \/ /\ m.kind = "MESSAGE"
          /\ \E reply \in Answers(Sent(api[m.call].function)) \cup {"error"} :
                toClient' = Append(toClient, Packet("RESPONSE", m.seq, m.call, reply))
          /\ UNCHANGED server
       \/ m.kind = "BYE" /\ server' = "gone" /\ UNCHANGED toClient
    /\ UNCHANGED <<clientVars, loopVars, callVars, sent, signals>>

\* It raises a signal, once the client is known to it, or sends a message that is
\* none of a server's.
server_raises ==
    /\ state >= 0 /\ server = "up"
    /\ signals < MaxSignals /\ sent /= <<>>
    /\ signals' = signals + 1
    /\ \/ /\ \A m \in asked : m.kind /= "HELLO"
          /\ toClient' = Append(toClient, Packet("SIGNAL", 2 * signals + 1, Nobody, "none"))
          /\ UNCHANGED orderly
       \/ /\ "bad packet" \in Habits
          /\ \E kind \in {"bad", "junk"} :
                toClient' = Append(toClient, Packet(kind, 2 * signals + 1, Nobody, "none"))
          /\ orderly' = FALSE
    /\ UNCHANGED <<clientVars, loopVars, progress, full, api, result, deleted, sent, server, asked>>

\* It ends, or closes the connection, with a last packet or with none.
server_goes ==
    /\ state >= 0 /\ server = "up" /\ sent /= <<>>
    /\ server' = "gone"
    /\ asked' = {}
    /\ \/ "gone" \in Habits /\ UNCHANGED <<toClient, orderly>>
       \/ /\ "bye" \in Habits
          /\ toClient' = Append(toClient, Packet("BYE", 1, Nobody, "none"))
          /\ orderly' = FALSE
    /\ UNCHANGED <<clientVars, loopVars, progress, full, api, result, deleted, sent, signals>>

-----------------------------------------------------------------------------
Next ==
    \/ \E c \in Connects : dicey_client_connect_async(c) \/ client_open_async(c) \/ client_setup_joined(c)
    \/ \E c \in Requests : dicey_client_request_async(c)
    \/ \E c \in Disconnects : dicey_client_disconnect_async(c)
    \/ \E c \in Calls : client_issue_setup(c) \/ client_issue_request(c) \/ client_issue_disconnect(c)
    \/ dicey_client_delete
    \/ process_task
    \/ \E o \in ops : on_connect(o) \/ on_write(o) \/ on_close(o)
    \/ client_got_packet \/ client_on_read_stuck \/ client_on_read_fails
    \/ \E i \in 1 .. Len(list) : check_timeout(i)
    \/ loop_thread_ends
    \/ \E m \in asked : server_answers(m)
    \/ server_raises \/ server_goes

Spec == Init /\ [][Next]_vars

times_out(c) == \E i \in 1 .. Len(list) : list[i] = c /\ check_timeout(i)

\* A thread that has begun a call goes on, and so does the loop, whose timer and
\* whose close callbacks come again and again.  The server may never answer, and
\* what is written may never be read.
Fairness ==
    /\ \A c \in Calls :
          /\ WF_vars(client_issue_setup(c) \/ client_issue_request(c) \/ client_issue_disconnect(c))
          /\ WF_vars(times_out(c))
    /\ WF_vars(process_task) /\ WF_vars(loop_thread_ends)
    /\ WF_vars(pipe = "closing" /\ \E o \in ops : on_connect(o) \/ on_write(o) \/ on_close(o))
    /\ \A c \in Connects : WF_vars(client_setup_joined(c))

FairSpec == Spec /\ Fairness

-----------------------------------------------------------------------------
Dropped(c) == Expires(c) /\ progress[c] \in {"connecting", "waiting", "bye", "closing"} /\ c \notin Range(list)

\* The callback of a request is given the answer to that request, however late
\* and in whatever order answers come (client_got_packet).
AnswersMatch == \A c \in Requests : result[c].about \in {Nobody, c}

\* What a client sends starts with a HELLO numbered 0, and its numbers only grow:
\* a server kicks a client whose numbers do not (client_next_seq).
SentInOrder ==
    \A i \in 1 .. Len(sent) : (sent[i].kind = "HELLO" <=> sent[i].seq = 0)
                              /\ \A j \in 1 .. i - 1 : sent[j].seq < sent[i].seq

\* A call that waits for an answer is in the waiting list, with the number it
\* was sent with, and the list has no other entries but those of calls that a
\* timeout has dropped: no answer is lost and none is kept for a call that has
\* ended (client_task_send_and_queue, clean_up_task).
WaitersAreListed ==
    state >= 0 =>
        /\ \A c \in Range(list) : progress[c] = "waiting" =>
              \E i \in 1 .. Len(waiting), j \in 1 .. Len(sent) :
                  waiting[i] = [seq |-> sent[j].seq, call |-> c] /\ sent[j].call = c
        /\ \A i \in 1 .. Len(waiting) : progress[waiting[i].call] = "waiting"

\* The assertions about the handshake hold whatever a server sends and whenever a
\* timeout comes: a HELLO that is late finds the client DEAD and fails, and no BYE
\* comes before the HELLO was sent (verify_and_finish_connect, SERVER_BYE).
HandshakeHolds == state \notin {BAD_CONNECT, BAD_HANDSHAKE, BAD_BYE}

\* No assertion fails for an application that makes one call at a time and
\* deletes its client when it is disconnected, and a server that sends no BYE
\* and nothing else than answers and signals, reads the client's BYE, and may
\* be late, silent or gone.
OrderlyNeverAborts == orderly => state >= 0

\* "state transitions must be forward" (client_set_state): no error is reported to
\* a client that is being closed or is closed.
StateMovesForward == state /= NOT_FORWARD

\* The callback of a disconnect is given "an error describing why the
\* disconnection failed" (dicey_client_on_disconnect_fn), so one that fails ends
\* like any other (disconnect_end).
FailedDisconnectsReturn == state /= BAD_QUIT

\* The functions that read the reply for their caller do not take an error for a
\* success nor a success for an error; only dicey_client_is_path_alias says no
\* with an error.
ResultsFit ==
    \A c \in Requests :
        LET r == result[c]
            reads == api[c].function \in {"is_path_alias", "subscribe_to", "unsubscribe_from"}
                     \/ (api[c].function = "set" /\ api[c].blocking)
        IN  r.about = c =>
                /\ reads /\ r.status = "OK" => r.reply /= "error"
                /\ r.reply /= "error" => r.status = "OK" \/ (r.status = "EPATH_NOT_ALIAS" /\ r.reply = "false")
                /\ r.value \in {"path", "true"} => r.reply = r.value

\* A connect, a disconnect and a request with a timeout call back, whatever the
\* server does, unless the timeout of another call has dropped them.
TimedCallsReturn ==
    \A c \in Connects \cup Disconnects \cup Timed :
        progress[c] \in {"called", "queued"} ~> (progress[c] = "ended" \/ Dropped(c) \/ state < 0)
==============================================================================
