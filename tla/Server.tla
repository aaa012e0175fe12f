-------------------------------- MODULE Server --------------------------------
(***************************************************************************)
(* ipc/server/server.c with client-data.c, server-clients.c,               *)
(* server-loopreq.c and shared-packet.c: the loop of a server.             *)
(*                                                                         *)
(* One thread, the loop, runs callbacks one at a time: connections, packets*)
(* read, writes completed, handles closed, and the drain of the request    *)
(* queue.  Other threads, the callers, push requests on the queue and may  *)
(* do so while the loop is in the middle of a drain.  A peer is a client's *)
(* connection, from uv_accept until its memory is freed.                   *)
(*                                                                         *)
(* Assertions are enabled: one that fails ends the process ("aborted").    *)
(* The queue is the bounded FIFO that RequestQueue implements, and the     *)
(* pending requests of a client are the set that PendingRequests keeps.    *)
(***************************************************************************)
EXTENDS Integers, Sequences, FiniteSets

CONSTANTS
    Peers, Callers, NULL,
    Ids,            \* slots of the client list
    Events,         \* packets given to dicey_server_raise
    Habits,         \* what happens around the server, see below
    QueueCap,       \* bound: requests that fit in the queue
    MaxSeq,         \* bound: requests that a client sends
    MaxFlight       \* bound: writes in flight to a client that sends a packet

\* "late connection": a peer connects while the server is quitting;
\* "failed write":    server_sendpkt may fail, for want of memory or in uv_write;
\* "late call":       a thread uses the server after its queue is destroyed.
ASSUME HabitsAssumption == Habits \subseteq {"late connection", "failed write", "late call"}

\* An event being raised, who waits for it, and the slots not looked at so far.
Raising == [event : Events, sem : Callers \cup {NULL}, rest : SUBSET Ids]

ASSUME ServerAssumption ==
    /\ Ids \subseteq Nat /\ IsFiniteSet(Ids) /\ MaxSeq \in Nat
    /\ NULL \notin Peers \cup Ids \cup Callers \cup Events \cup Raising
    /\ Events \cap (Peers \X (1 .. MaxSeq)) = {}

VARIABLES
    state,      \* server->state; "STOPPED" once uv_run has returned
    closing,    \* which handle of the server is being closed, "no", or "done"
    clients,    \* server->clients: slot -> peer
    handle,     \* the uv_pipe_t of each peer
    id,         \* client->info.id
    cstate,     \* client->state
    last, open, \* client->pending: the last number accepted, those not answered
    subscribed, \* client->subscriptions, for the one signal there is
    writes,     \* the uv_write_t of each peer that are in flight, in order
    refcount,   \* of the shared packet of each event
    raising,    \* the loop is inside dicey_server_raise_internal: for what, or NULL
    queue, wake,\* server->queue, and whether uv_async_send is yet to be seen
    draining,   \* the loop is inside loop_request_inbound
    hook,       \* server->shutdown_hook: who waits for the server to stop
    caller,     \* what each thread is doing
    held,       \* requests that user code was given and has not answered
    fresh,      \* events not raised so far
    aborted

loopVars == <<state, closing, clients, handle, id, cstate, last, open, subscribed>>
callVars == <<queue, wake, draining, hook, caller, held, fresh>>
sentVars == <<writes, refcount, raising>>
vars == <<loopVars, callVars, sentVars, aborted>>

Write == [kind : {"HELLO", "BYE", "RESPONSE", "SIGNAL"}, id : Ids,
          arg : (Peers \X (1 .. MaxSeq)) \cup Events \cup {NULL}]
LoopRequest == [op : {"kick", "respond", "raise", "stop"}, target : Ids \cup {NULL},
                sem : Callers \cup {NULL},
                arg : (Peers \X (1 .. MaxSeq)) \cup Events \cup {NULL}]

TypeOK ==
    /\ state \in {"INIT", "RUNNING", "QUITTING", "STOPPED"}
    /\ closing \in {"no", "async", "pipe", "prepare", "done"}
    /\ clients \in [Ids -> Peers \cup {NULL}]
    /\ handle \in [Peers -> {"none", "open", "closing", "gone"}]
    /\ id \in [Peers -> Ids \cup {NULL}]
    /\ cstate \in [Peers -> {"CONNECTED", "RUNNING", "QUITTING", "DEAD"}]
    /\ last \in [Peers -> 0 .. MaxSeq]
    /\ open \in [Peers -> SUBSET (1 .. MaxSeq)]
    /\ subscribed \in [Peers -> BOOLEAN]
    /\ writes \in [Peers -> Seq(Write)]
    /\ refcount \in [Events -> Nat]
    /\ raising \in Raising \cup {NULL}
    /\ queue \in Seq(LoopRequest)
    /\ wake \in BOOLEAN /\ draining \in BOOLEAN /\ aborted \in BOOLEAN
    /\ hook \in Callers \cup {NULL}
    /\ caller \in [Callers -> {"idle", "waiting"}]
    /\ held \subseteq Peers \X (1 .. MaxSeq)
    /\ fresh \subseteq Events

Init ==
    /\ state = "INIT"
    /\ closing = "no"
    /\ clients = [i \in Ids |-> NULL]
    /\ handle = [p \in Peers |-> "none"]
    /\ id = [p \in Peers |-> NULL]
    /\ cstate = [p \in Peers |-> "CONNECTED"]
    /\ last = [p \in Peers |-> 0]
    /\ open = [p \in Peers |-> {}]
    /\ subscribed = [p \in Peers |-> FALSE]
    /\ writes = [p \in Peers |-> <<>>]
    /\ refcount = [e \in Events |-> 0]
    /\ raising = NULL
    /\ queue = <<>>
    /\ wake = FALSE /\ draining = FALSE /\ aborted = FALSE
    /\ hook = NULL
    /\ caller = [c \in Callers |-> "idle"]
    /\ held = {}
    /\ fresh = Events

-----------------------------------------------------------------------------
\* The loop is about to run a callback.
Turn == ~aborted /\ ~draining /\ state \in {"RUNNING", "QUITTING"}

\* An assertion fails.
Abort == aborted' = TRUE /\ UNCHANGED <<loopVars, callVars, sentVars>>

Packet(kind, p, arg) == [kind |-> kind, id |-> id[p], arg |-> arg]

\* server_sendpkt, when the write starts and when it does not.
sendpkt(p, kind, arg) == writes' = [writes EXCEPT ![p] = Append(@, Packet(kind, p, arg))]
sendpkt_fails == "failed write" \in Habits /\ UNCHANGED writes

\* The peers that some slot leads to.
Listed == {clients[i] : i \in Ids} \ {NULL}

\* Mutant: the slot is not given back.
remove_client_KeepsSlot(i) ==
    handle' = [handle EXCEPT ![clients[i]] = "closing"] /\ UNCHANGED clients

\* dicey_server_remove_client, for the peer in slot i.
remove_client(i) ==
    /\ clients' = [clients EXCEPT ![i] = NULL]
    /\ handle' = [handle EXCEPT ![clients[i]] = "closing"]

\* dicey_server_start.
start ==
    /\ state = "INIT" /\ ~aborted
    /\ state' = "RUNNING"
    /\ UNCHANGED <<closing, clients, handle, id, cstate, last, open, subscribed, callVars,
                   sentVars, aborted>>

\* on_connect: server_new_peer takes the first free slot.  User code may refuse
\* the connection, or uv_accept or uv_read_start fail: the slot is free again.
on_connect(p) ==
    /\ Turn
    /\ closing \in {"no", "async"}
    /\ state = "RUNNING" \/ "late connection" \in Habits
    /\ handle[p] = "none"
    /\ \E i \in Ids :
        /\ clients[i] = NULL /\ \A j \in Ids : j < i => clients[j] /= NULL
        /\ id' = [id EXCEPT ![p] = i]
        /\ \/ /\ clients' = [clients EXCEPT ![i] = p]
              /\ handle' = [handle EXCEPT ![p] = "open"]
           \/ /\ handle' = [handle EXCEPT ![p] = "closing"]
              /\ UNCHANGED clients
    /\ UNCHANGED <<state, closing, cstate, last, open, subscribed, callVars, sentVars, aborted>>

-----------------------------------------------------------------------------
\* on_read: a packet is looked at while the server is running, and ignored when
\* it is quitting.
Reads(p) == Turn /\ state = "RUNNING" /\ handle[p] = "open" /\ Len(writes[p]) < MaxFlight

\* dicey_server_client_raised_error; dicey_client_data_set_state asserts that
\* the client is not dead yet.
client_raised_error(p) ==
    IF cstate[p] = "DEAD" THEN Abort
    ELSE /\ cstate' = [cstate EXCEPT ![p] = "DEAD"]
         /\ sendpkt(p, "BYE", NULL) \/ sendpkt_fails
         /\ UNCHANGED <<state, closing, clients, handle, id, last, open, subscribed, callVars,
                        refcount, raising, aborted>>

\* Something that is no packet, a number out of sequence, an old version, or
\* what a client may not send.
bad_packet(p) == Reads(p) /\ client_raised_error(p)

client_got_hello(p) ==
    /\ Reads(p)
    /\ \/ /\ cstate[p] /= "CONNECTED" \/ "failed write" \in Habits
          /\ client_raised_error(p)
       \/ /\ cstate[p] = "CONNECTED"
          /\ cstate' = [cstate EXCEPT ![p] = "RUNNING"]
          /\ sendpkt(p, "HELLO", NULL)
          /\ UNCHANGED <<state, closing, clients, handle, id, last, open, subscribed, callVars,
                         refcount, raising, aborted>>

client_got_bye(p) ==
    /\ Reads(p)
    /\ cstate[p] /= "QUITTING"
    /\ IF cstate[p] = "DEAD" THEN Abort
       ELSE /\ remove_client(id[p])
            /\ cstate' = [cstate EXCEPT ![p] = "DEAD"]
            /\ UNCHANGED <<state, closing, id, last, open, subscribed, callVars, sentVars, aborted>>

\* client_got_message, for an element that is not there or does not fit, and
\* for the builtins, which are answered at once: the number is skipped.
\* Subscribing changes the subscriptions, and a plugin may say that it quits.
\* An answer that cannot be sent is the client's error.
answered_at_once(p) ==
    /\ last' = [last EXCEPT ![p] = @ + 1]
    /\ \/ UNCHANGED subscribed
       \/ \E on \in BOOLEAN : subscribed' = [subscribed EXCEPT ![p] = on]
    /\ \/ /\ sendpkt(p, "RESPONSE", <<p, last[p] + 1>>)
          /\ \/ UNCHANGED cstate
             \/ cstate' = [cstate EXCEPT ![p] = "QUITTING"] /\ UNCHANGED subscribed
       \/ /\ "failed write" \in Habits
          /\ sendpkt(p, "BYE", NULL) \/ UNCHANGED writes
          /\ cstate' = [cstate EXCEPT ![p] = "DEAD"]
    /\ UNCHANGED <<state, closing, clients, handle, id, open, callVars, refcount, raising, aborted>>

\* client_got_message, for a request that user code could not answer: it is
\* closed, and the error is sent if that can be done.
user_failed(p) ==
    /\ last' = [last EXCEPT ![p] = @ + 1]
    /\ sendpkt(p, "RESPONSE", <<p, last[p] + 1>>) \/ sendpkt_fails
    /\ UNCHANGED <<state, closing, clients, handle, id, cstate, open, subscribed, callVars, refcount,
                   raising, aborted>>

\* client_got_message, for an element that user code implements.
given_to_user(p) ==
    /\ last' = [last EXCEPT ![p] = @ + 1]
    /\ open' = [open EXCEPT ![p] = @ \cup {last[p] + 1}]
    /\ held' = held \cup {<<p, last[p] + 1>>}
    /\ UNCHANGED <<state, closing, clients, handle, id, cstate, subscribed, queue, wake, draining,
                   hook, caller, fresh, sentVars, aborted>>

client_got_message(p) ==
    /\ Reads(p)
    /\ last[p] < MaxSeq
    /\ IF cstate[p] /= "RUNNING" THEN client_raised_error(p)
       ELSE answered_at_once(p) \/ user_failed(p) \/ given_to_user(p)

\* on_read with an error or the end of the stream.
on_read_end(p) ==
    /\ Turn
    /\ handle[p] = "open"
    /\ cstate[p] /= "QUITTING"
    /\ remove_client(id[p])
    /\ UNCHANGED <<state, closing, id, cstate, last, open, subscribed, callVars, sentVars, aborted>>

\* plugin_exit_cb, for a plugin that had said it was quitting.
plugin_exit(p) ==
    /\ Turn
    /\ handle[p] = "open"
    /\ cstate[p] = "QUITTING"
    /\ remove_client(id[p])
    /\ UNCHANGED <<state, closing, id, cstate, last, open, subscribed, callVars, sentVars, aborted>>

-----------------------------------------------------------------------------
\* Mutant: the list counts as empty when it was never allocated only.
client_list_is_empty_Never(list) == FALSE

client_list_is_empty(list) == \A i \in Ids : list[i] = NULL

Waiting(q) == {q[k].sem : k \in 1 .. Len(q)} \ {NULL}

\* Mutant: the threads whose requests are cancelled are not woken up.
finalize_shutdown_NoPost(left) ==
    queue' = <<>> /\ closing' = "async" /\ UNCHANGED caller

\* server_finalize_shutdown: what is left in the queue is cancelled, and the
\* handles of the server are closed one after the other.
finalize_shutdown(left) ==
    /\ queue' = <<>>
    /\ caller' = [c \in Callers |-> IF c \in Waiting(left) THEN "idle" ELSE caller[c]]
    /\ closing' = "async"

\* on_write, for a write that went through or was cancelled as its handle was
\* closed.  The client is looked up by the id in the write request.
on_write(p) ==
    /\ Turn
    /\ writes[p] /= <<>>
    /\ LET w == Head(writes[p])
       IN  IF clients[w.id] = NULL THEN Abort
           ELSE /\ IF w.kind = "BYE" THEN remove_client(w.id) ELSE UNCHANGED <<clients, handle>>
                /\ writes' = [writes EXCEPT ![p] = Tail(@)]
                /\ refcount' = [e \in Events |-> IF w.kind = "SIGNAL" /\ w.arg = e
                                                THEN refcount[e] - 1 ELSE refcount[e]]
                /\ IF state = "QUITTING" /\ client_list_is_empty(clients') THEN finalize_shutdown(queue)
                   ELSE UNCHANGED <<queue, caller, closing>>
                /\ UNCHANGED <<state, id, cstate, last, open, subscribed, wake, draining, hook, held,
                               fresh, raising, aborted>>

\* on_client_end, once the writes of the handle are done with: the client is
\* freed, and user code forgets its requests.
on_client_end(p) ==
    /\ Turn
    /\ handle[p] = "closing"
    /\ writes[p] = <<>>
    /\ handle' = [handle EXCEPT ![p] = "gone"]
    /\ id' = [id EXCEPT ![p] = NULL]
    /\ cstate' = [cstate EXCEPT ![p] = "DEAD"]
    /\ last' = [last EXCEPT ![p] = 0]
    /\ open' = [open EXCEPT ![p] = {}]
    /\ subscribed' = [subscribed EXCEPT ![p] = FALSE]
    /\ held' = {h \in held : h[1] /= p}
    /\ UNCHANGED <<state, closing, clients, queue, wake, draining, hook, caller, fresh, sentVars,
                   aborted>>

\* server_close_pipe, server_close_prepare and server_shutdown_at_end, which
\* stops the loop and wakes up who asked for it.  libuv ends the handles closed
\* in one iteration before those closed in the next.
close_handles ==
    /\ Turn
    /\ closing /= "async" => \A p \in Peers : handle[p] /= "closing"
    /\ \/ closing = "async" /\ closing' = "pipe" /\ UNCHANGED <<state, hook, caller>>
       \/ closing = "pipe" /\ closing' = "prepare" /\ UNCHANGED <<state, hook, caller>>
       \/ /\ closing = "prepare"
          /\ closing' = "done"
          /\ state' = "STOPPED"
          /\ hook' = NULL
          /\ caller' = [c \in Callers |-> IF c = hook THEN "idle" ELSE caller[c]]
    /\ UNCHANGED <<clients, handle, id, cstate, last, open, subscribed, queue, wake, draining, held,
                   fresh, sentVars, aborted>>

-----------------------------------------------------------------------------
\* loop_request_inbound starts: the async handle has been woken up.
drain_begin ==
    /\ Turn
    /\ wake
    /\ closing = "no"
    /\ wake' = FALSE
    /\ draining' = TRUE
    /\ UNCHANGED <<loopVars, queue, hook, caller, held, fresh, sentVars, aborted>>

drain_end ==
    /\ draining /\ ~aborted /\ raising = NULL
    /\ queue = <<>>
    /\ draining' = FALSE
    /\ UNCHANGED <<loopVars, queue, wake, hook, caller, held, fresh, sentVars, aborted>>

\* Mutant: the semaphore is not posted.
Handled_NoPost(r) ==
    queue' = Tail(queue) /\ UNCHANGED <<caller, wake, draining, hook, held, fresh, aborted>>

\* The request taken from the queue has been handled: its semaphore is posted.
Handled(r) ==
    /\ queue' = Tail(queue)
    /\ caller' = [c \in Callers |-> IF c = r.sem THEN "idle" ELSE caller[c]]
    /\ UNCHANGED <<wake, draining, hook, held, fresh, aborted>>

\* server_kick_client: dicey_packet_bye asserts that the reason is a valid one,
\* and DICEY_BYE_REASON_KICKED is none to dicey_bye_reason_is_valid.
loop_request_kick_client == Abort

\* Mutant: the request is looked up and stays.
pending_requests_complete_Keeps(p, seq) == UNCHANGED open

pending_requests_complete(p, seq) == open' = [open EXCEPT ![p] = @ \ {seq}]

\* client_send_response: the client is the one that has the id now, and its
\* request of that number is closed first.  A value that does not fit the
\* signature, or cannot be sent, is then dropped.
loop_request_send_response(r) ==
    LET p == clients[r.target] IN
    /\ IF p = NULL THEN UNCHANGED <<open, writes>>
       ELSE IF r.arg[2] \notin open[p] THEN UNCHANGED <<open, writes>>
       ELSE /\ pending_requests_complete(p, r.arg[2])
            /\ sendpkt(p, "RESPONSE", r.arg) \/ UNCHANGED writes
    /\ Handled(r)
    /\ UNCHANGED <<state, closing, clients, handle, id, cstate, last, subscribed, refcount, raising>>

\* dicey_shared_packet_from, _ref and _unref.
shared_packet_from(e) == refcount' = [refcount EXCEPT ![e] = 1]
shared_packet_ref(e) == refcount' = [refcount EXCEPT ![e] = @ + 1]
shared_packet_unref(e) == refcount' = [refcount EXCEPT ![e] = @ - 1]

\* dicey_server_raise_internal holds the packet while it looks at the clients.
loop_request_raise_signal(r) ==
    /\ queue' = Tail(queue)
    /\ shared_packet_from(r.arg)
    /\ raising' = [event |-> r.arg, sem |-> r.sem,
                   rest |-> {i \in Ids : clients[i] /= NULL /\ subscribed[clients[i]]}]
    /\ UNCHANGED <<loopVars, wake, draining, hook, caller, held, fresh, writes, aborted>>

\* Mutant: the reference of a send that failed is kept.
raise_to_KeepsRef(p, e) ==
    /\ shared_packet_ref(e)
    /\ sendpkt(p, "SIGNAL", e) \/ sendpkt_fails

\* The packet is referenced for a client, and again not if the send fails.
raise_to(p, e) ==
    \/ shared_packet_ref(e) /\ sendpkt(p, "SIGNAL", e)
    \/ UNCHANGED refcount /\ sendpkt_fails

raise_next ==
    /\ raising /= NULL /\ ~aborted
    /\ \E i \in raising.rest :
        /\ \A j \in raising.rest : i <= j
        /\ raise_to(clients[i], raising.event)
        /\ raising' = [raising EXCEPT !.rest = @ \ {i}]
    /\ UNCHANGED <<loopVars, callVars, aborted>>

\* The function lets go of the packet, and the request has been handled.
raise_end ==
    /\ raising /= NULL /\ ~aborted
    /\ raising.rest = {}
    /\ shared_packet_unref(raising.event)
    /\ caller' = [c \in Callers |-> IF c = raising.sem THEN "idle" ELSE caller[c]]
    /\ raising' = NULL
    /\ UNCHANGED <<loopVars, queue, wake, draining, hook, held, fresh, writes, aborted>>

\* server_shutdown says goodbye to all.  When that went well the drain is left
\* at once, and otherwise the request ends with an error.
loop_request_shutdown(r) ==
    IF state /= "RUNNING" THEN Abort
    ELSE \E failed \in SUBSET Listed :
         /\ failed /= {} => "failed write" \in Habits
         /\ state' = "QUITTING"
         /\ writes' = [p \in Peers |-> IF p \in Listed \ failed
                                       THEN Append(writes[p], Packet("BYE", p, NULL)) ELSE writes[p]]
         /\ \/ /\ failed /= {}
               /\ Handled(r)
               /\ UNCHANGED closing
            \/ /\ failed = {}
               /\ hook' = r.sem
               /\ draining' = FALSE
               /\ IF client_list_is_empty(clients) THEN finalize_shutdown(Tail(queue))
                  ELSE queue' = Tail(queue) /\ UNCHANGED <<caller, closing>>
               /\ UNCHANGED <<wake, held, fresh, aborted>>
         /\ UNCHANGED <<clients, handle, id, cstate, last, open, subscribed, refcount, raising>>

drain_step ==
    /\ draining /\ ~aborted /\ raising = NULL
    /\ queue /= <<>>
    /\ LET r == Head(queue)
       IN  \/ r.op = "kick" /\ loop_request_kick_client
           \/ r.op = "respond" /\ loop_request_send_response(r)
           \/ r.op = "raise" /\ loop_request_raise_signal(r)
           \/ r.op = "stop" /\ loop_request_shutdown(r)

-----------------------------------------------------------------------------
\* dicey_server_submit_request and dicey_server_blocking_request: the thread
\* waits for its semaphore, or for nothing when sem is NULL.
submit(op, target, sem, arg) ==
    /\ ~aborted
    /\ closing = "no" \/ "late call" \in Habits
    /\ Len(queue) < QueueCap
    /\ queue' = Append(queue, [op |-> op, target |-> target, sem |-> sem, arg |-> arg])
    /\ wake' = TRUE
    /\ caller' = [c \in Callers |-> IF c = sem THEN "waiting" ELSE caller[c]]
    /\ UNCHANGED <<loopVars, draining, hook, sentVars, aborted>>

\* All the writes in flight.
InFlight == UNION {{<<p, k>> : k \in 1 .. Len(writes[p])} : p \in Peers}

\* dicey_server_kick, for a client that on_connect has told the user about.
kick(c, p) ==
    /\ caller[c] = "idle"
    /\ id[p] /= NULL
    /\ submit("kick", id[p], c, NULL)
    /\ UNCHANGED <<held, fresh>>

\* dicey_server_send_response(_and_wait), through dicey_request_reply.
send_response(c, h) ==
    /\ caller[c] = "idle"
    /\ h \in held
    /\ held' = held \ {h}
    /\ \E sem \in {c, NULL} : submit("respond", id[h[1]], sem, h)
    /\ UNCHANGED fresh

\* dicey_server_raise(_and_wait).
raise(c, e) ==
    /\ caller[c] = "idle"
    /\ e \in fresh
    /\ fresh' = fresh \ {e}
    /\ \E sem \in {c, NULL} : submit("raise", NULL, sem, e)
    /\ UNCHANGED held

\* dicey_server_stop, and dicey_server_stop_and_wait, which looks at the state.
stop(c) ==
    /\ caller[c] = "idle"
    /\ \/ submit("stop", NULL, NULL, NULL)
       \/ state = "RUNNING" /\ submit("stop", NULL, c, NULL)
    /\ UNCHANGED <<held, fresh>>

Next ==
    \/ start \/ close_handles \/ drain_begin \/ drain_step \/ raise_next \/ raise_end \/ drain_end
    \/ \E p \in Peers :
        \/ on_connect(p) \/ bad_packet(p) \/ client_got_hello(p) \/ client_got_bye(p)
        \/ client_got_message(p) \/ on_read_end(p) \/ plugin_exit(p)
        \/ on_write(p) \/ on_client_end(p)
    \/ \E c \in Callers :
        \/ \E p \in Peers : kick(c, p)
        \/ \E h \in held : send_response(c, h)
        \/ \E e \in fresh : raise(c, e)
        \/ stop(c)

Spec == Init /\ [][Next]_vars

\* The program starts its server, libuv goes on running callbacks, and peers
\* take what is written to them or go away.
Fairness ==
    /\ WF_vars(start) /\ WF_vars(close_handles)
    /\ WF_vars(drain_begin) /\ WF_vars(drain_step) /\ WF_vars(drain_end)
    /\ WF_vars(raise_next) /\ WF_vars(raise_end)
    /\ \A p \in Peers : WF_vars(on_write(p)) /\ WF_vars(on_client_end(p))

FairSpec == Spec /\ Fairness

-----------------------------------------------------------------------------
\* A peer is in the client list as long as its handle is open, in the slot that
\* its id names: an id leads to one client, and nothing closed can be found.
ListedAreOpen ==
    /\ \A p \in Peers : handle[p] = "open" => id[p] \in Ids /\ clients[id[p]] = p
    /\ \A i \in Ids : clients[i] /= NULL => handle[clients[i]] = "open" /\ id[clients[i]] = i

\* The semaphore of a waiting thread is where exactly one post will come from:
\* one request of the queue, the event being raised, or the shutdown hook.
WaitersAccounted ==
    \A c \in Callers :
        Cardinality({k \in 1 .. Len(queue) : queue[k].sem = c})
            + (IF raising /= NULL /\ raising.sem = c THEN 1 ELSE 0)
            + (IF hook = c THEN 1 ELSE 0) = (IF caller[c] = "waiting" THEN 1 ELSE 0)

\* Although ids are used again at once, the response of client_send_response goes
\* to another peer than the one that asked only when that one has left.  No two
\* responses in flight to a peer have the same number, and the request is closed.
AnswersReachAsker ==
    \A p \in Peers : \A j, k \in 1 .. Len(writes[p]) :
        writes[p][j].kind = "RESPONSE" =>
            /\ writes[p][j].arg[1] /= p => handle[writes[p][j].arg[1]] \in {"closing", "gone"}
            /\ writes[p][j].arg[2] \notin open[p]
            /\ writes[p][k].kind = "RESPONSE" /\ writes[p][k].arg[2] = writes[p][j].arg[2] => j = k

\* A shared packet has a reference for each write that carries it, and one for
\* dicey_server_raise_internal while it runs: it is freed once, and not before
\* the last write is done, whichever sends fail and whichever clients leave.
SignalsCounted ==
    \A e \in Events :
        refcount[e] = Cardinality({f \in InFlight : writes[f[1]][f[2]].arg = e})
                        + (IF raising /= NULL /\ raising.event = e THEN 1 ELSE 0)

\* assert(client) of on_write: the client is still there when a write ends.
OnWriteFindsClient ==
    \A p \in Peers : writes[p] /= <<>> /\ Turn => clients[Head(writes[p]).id] /= NULL

\* A thread that waits is woken up: its request is handled or cancelled.
CallersReturn == \A c \in Callers : caller[c] = "waiting" ~> (caller[c] = "idle" \/ aborted)

\* A server told to stop does so.
ShutdownEnds == state = "QUITTING" ~> (state = "STOPPED" \/ aborted)
==============================================================================
