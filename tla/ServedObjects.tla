---------------------------- MODULE ServedObjects ----------------------------
(***************************************************************************)
(* The objects of a running server: the part of ipc/server/server.c that   *)
(* changes the registry while clients use it, and ipc/server/request.c,    *)
(* the requests that user code answers when it pleases.                    *)
(*                                                                         *)
(* Before the server runs, the program changes the registry itself.  Then  *)
(* the loop thread owns it: any other thread queues a request to the loop  *)
(* (RequestQueue), and so does whoever answers a client.  A client waits   *)
(* for at most one answer here; PendingRequests has the list it is in.     *)
(* Clients stay connected; Server has those that leave.                    *)
(***************************************************************************)
EXTENDS Registry, Sequences

CONSTANTS
    Clients,
    MaxQueue        \* bound: requests to the loop that wait for it

VARIABLES
    server,     \* server->state
    queue,      \* the requests to the loop, a sequence
    req,        \* the dicey_request that user code holds for each client
    ring,       \* the list client->pending: "new" when it starts at slot 0,
                \* "moved" when it does not, "broken" when its length is wrong
    dead        \* the assertion that failed, or "no"

servedVars == <<server, queue, req, ring, dead>>
allVars == <<vars, servedVars>>

NoRequest == [real_path |-> NULL, path |-> NULL, state |-> "NONE"]

\* The traits that a new server has, and memory for their metaobjects.
Builtins == {TRAIT_TRAIT, INTROSPECTION}
ASSUME MemoryAssumption == \E f \in [Builtins -> Objects] : f[TRAIT_TRAIT] /= f[INTROSPECTION]
BuiltinAt == CHOOSE f \in [Builtins -> Objects] : f[TRAIT_TRAIT] /= f[INTROSPECTION]

\* A server as dicey_server_new leaves it.
ServedInit ==
    /\ traits = Builtins
    /\ paths = [p \in Paths |->
                IF \E t \in Builtins : MetaPath[t] = p
                THEN BuiltinAt[CHOOSE t \in Builtins : MetaPath[t] = p] ELSE NULL]
    /\ objs = [o \in Objects |->
                IF \E t \in Builtins : BuiltinAt[t] = o
                THEN object_new_with(MetaPath[CHOOSE t \in Builtins : BuiltinAt[t] = o], {TRAIT_TRAIT})
                ELSE NULL]
    /\ batch = NULL /\ result = "OK"
    /\ server = "INIT"
    /\ queue = <<>>
    /\ req = [c \in Clients |-> NoRequest]
    /\ ring = [c \in Clients |-> "new"]
    /\ dead = "no"

-----------------------------------------------------------------------------
\* The loop thread runs a callback when it is not in the middle of another.
LoopIsFree == server = "RUNNING" /\ Idle /\ dead = "no"

\* An assertion fails, or the loop thread never returns.
Die(why) == dead' = why /\ UNCHANGED <<vars, server, queue, req, ring>>

State(c, s) == req' = [req EXCEPT ![c].state = s]

\* is_hole: a request leaves the list as its message is zeroed.
Open(c) == req[c].path /= NULL

\* dicey_pending_requests_complete, for the only request of the list: the list
\* starts one slot later, which is slot 0 again when it has gone around.
complete(c, state) ==
    /\ req' = [req EXCEPT ![c] = [real_path |-> @.real_path, path |-> NULL, state |-> state]]
    /\ \/ ring' = [ring EXCEPT ![c] = "moved"]
       \/ ring[c] = "moved" /\ ring' = [ring EXCEPT ![c] = "new"]

\* dicey_server_submit_request; the queue is RequestQueue.
submit_request(r) == Len(queue) < MaxQueue /\ queue' = Append(queue, r)

\* A call of the API changes the registry at once, or asks the loop to.
Either(now, later) ==
    \/ server = "INIT" /\ Idle /\ now /\ UNCHANGED servedVars
    \/ /\ server = "RUNNING" /\ dead = "no"
       /\ submit_request(later)
       /\ UNCHANGED <<vars, server, req, ring, dead>>

dicey_server_add_object(p, ts) ==
    Either(add_object_with_trait_set(p, ts), [op |-> "add object", path |-> p, arg |-> ts])

\* dicey_server_add_object_with makes a set of the traits it is given.
dicey_server_add_object_with(p) == \E ts \in Listed : dicey_server_add_object(p, ts)

dicey_server_add_object_aliases(p, S) ==
    Either(registry_add_aliases(p, S), [op |-> "add aliases", path |-> p, arg |-> S])

dicey_server_add_object_alias(p, a) == dicey_server_add_object_aliases(p, {a})

dicey_server_add_trait(t) == Either(add_trait(t), [op |-> "add trait", arg |-> t])

dicey_server_delete_object(p) == Either(delete_object(p), [op |-> "del object", path |-> p])

dicey_server_delete_object_alias(a) == Either(unalias_object(a), [op |-> "del alias", path |-> a])

dicey_server_drop_all_aliases_of_object(p) ==
    Either(remove_all_object_aliases(p), [op |-> "drop aliases", path |-> p])

\* dicey_server_get_registry: all of the registry is the program's own until
\* the server runs.
dicey_server_get_registry == server = "INIT" /\ Idle /\ Call /\ UNCHANGED servedVars

-----------------------------------------------------------------------------
loop_request_add_object(r) ==
    r.op = "add object" /\ add_object_with_trait_set(r.path, r.arg)
        /\ UNCHANGED <<server, req, ring, dead>>

loop_request_add_aliases(r) ==
    r.op = "add aliases" /\ registry_add_aliases(r.path, r.arg)
        /\ UNCHANGED <<server, req, ring, dead>>

loop_request_add_trait(r) ==
    r.op = "add trait" /\ add_trait(r.arg)
        /\ UNCHANGED <<server, req, ring, dead>>

loop_request_del_alias(r) ==
    r.op = "del alias" /\ unalias_object(r.path)
        /\ UNCHANGED <<server, req, ring, dead>>

loop_request_drop_aliases(r) ==
    r.op = "drop aliases" /\ remove_all_object_aliases(r.path)
        /\ UNCHANGED <<server, req, ring, dead>>

\* request_should_prune_if_matching: the path that the client used is compared
\* with the main path of the object that is deleted.
request_should_prune_if_matching(c, p) == Open(c) /\ req[c].real_path = MainPath[p]

Matching(p) == {c \in Clients : request_should_prune_if_matching(c, p)}

\* dicey_pending_requests_prune for every client: each request that matches is
\* answered, if that can be done, and leaves the list.  The length is counted
\* down twice, so that it wraps around when the only request goes.
prune(p) ==
    /\ req' = [c \in Clients |-> IF c \in Matching(p) THEN [req[c] EXCEPT !.path = NULL] ELSE req[c]]
    /\ ring' = [c \in Clients |-> IF c \in Matching(p) THEN "broken" ELSE ring[c]]

\* The assertions that fail on the way: the object is looked up for every
\* request, and the slot to prune is counted from the start of the list as if
\* the list started at slot 0.
prune_dies(p) ==
    \/ paths[p] = NULL /\ (\E c \in Clients : Open(c)) /\ Die("no main path")
    \/ /\ paths[p] /= NULL
       /\ \E c \in Matching(p) : ring[c] = "moved"
       /\ Die("not a hole")

\* Mutant: the requests to the object are left alone.
remove_served_object_NoPrune(p) == delete_object(p) /\ UNCHANGED <<req, ring>>

\* remove_object of server.c.
remove_served_object(p) == prune(p) /\ delete_object(p)

loop_request_del_object(r) ==
    /\ r.op = "del object"
    /\ paths[r.path] = NULL => \A c \in Clients : ~Open(c)
    /\ \A c \in Matching(r.path) : ring[c] /= "moved"
    /\ remove_served_object(r.path)
    /\ UNCHANGED <<server, dead>>

\* The state of a request as its response is handled.  Only a caller that waits
\* for the outcome learns of it, in finalize_request.
Outcome(r, state) == IF r.waits THEN state ELSE req[r.client].state

\* client_send_response: the request is looked up by its number and is taken
\* out.  A response of another type than the element has is dropped, and one
\* that cannot be sent is lost.
client_send_response(r) ==
    /\ r.op = "respond"
    /\ ring[r.client] /= "broken"
    /\ \/ /\ ~Open(r.client)
          /\ State(r.client, Outcome(r, "ABORTED"))
          /\ UNCHANGED ring
       \/ /\ Open(r.client)
          /\ \E state \in {"COMPLETED", "ABORTED"} : complete(r.client, Outcome(r, state))
    /\ UNCHANGED <<vars, server, dead>>

\* The loop takes a request.
loop_request_inbound ==
    /\ LoopIsFree
    /\ queue /= <<>>
    /\ LET r == Head(queue) IN
       \/ /\ \/ loop_request_add_object(r) \/ loop_request_add_aliases(r)
             \/ loop_request_add_trait(r) \/ loop_request_del_alias(r)
             \/ loop_request_drop_aliases(r) \/ loop_request_del_object(r)
             \/ client_send_response(r)
          /\ queue' = Tail(queue)
       \/ r.op = "del object" /\ prune_dies(r.path)
       \/ r.op = "respond" /\ ring[r.client] = "broken" /\ Die("endless search")

-----------------------------------------------------------------------------
\* dicey_server_request_for: message.path is the string that the registry has
\* for the main path, while real_path is in the packet.
dicey_server_request_for(p) == [real_path |-> p, path |-> MainPath[p], state |-> "PENDING"]

\* client_got_message, for an element that user code implements and a client
\* that is not waiting.  The list asserts that its length is not beyond its
\* capacity.
client_got_message(c, p) ==
    /\ LoopIsFree
    /\ ~Open(c)
    /\ paths[p] /= NULL
    /\ \/ /\ ring[c] /= "broken"
          /\ req' = [req EXCEPT ![c] = dicey_server_request_for(p)]
          /\ UNCHANGED <<vars, server, queue, ring, dead>>
       \/ ring[c] = "broken" /\ Die("length")

\* The same, as user code tries to answer from on_request and fails.
client_got_message_aborted(c, p) ==
    /\ LoopIsFree
    /\ ~Open(c) /\ ring[c] /= "broken"
    /\ paths[p] /= NULL
    /\ complete(c, "ABORTED")
    /\ UNCHANGED <<vars, server, queue, dead>>

-----------------------------------------------------------------------------
\* The user answers from any thread, with the request that on_request got.
Holds(c) == server = "RUNNING" /\ dead = "no" /\ \A i \in DOMAIN queue :
                queue[i].op = "respond" => queue[i].client /= c

dicey_request_response_start(c) ==
    /\ Holds(c) /\ req[c].state = "PENDING"
    /\ State(c, "CONSTRUCTING")
    /\ UNCHANGED <<vars, server, queue, ring, dead>>

dicey_request_response_reset(c) ==
    /\ Holds(c) /\ req[c].state = "CONSTRUCTING"
    /\ State(c, "PENDING")
    /\ UNCHANGED <<vars, server, queue, ring, dead>>

\* The response cannot be built, or is submitted to the loop.  A caller that
\* waits finishes in client_send_response.
finalize_request(c) ==
    /\ Holds(c) /\ req[c].state = "CONSTRUCTING"
    /\ \/ State(c, "ABORTED") /\ UNCHANGED queue
       \/ \E waits \in BOOLEAN :
            /\ submit_request([op |-> "respond", client |-> c, waits |-> waits])
            /\ IF waits THEN UNCHANGED req ELSE State(c, "COMPLETED")
    /\ UNCHANGED <<vars, server, ring, dead>>

-----------------------------------------------------------------------------
dicey_server_start ==
    /\ server = "INIT" /\ Idle
    /\ server' = "RUNNING"
    /\ UNCHANGED <<vars, queue, req, ring, dead>>

\* The server quits: loop_request_delete ends what is in the queue.  A thread
\* that waits is told ECANCELLED; the callback of the others only frees.
loop_request_delete ==
    /\ LoopIsFree
    /\ server' = "QUITTING"
    /\ queue' = <<>>
    /\ req' = [c \in Clients |->
                IF \E i \in DOMAIN queue : queue[i].op = "respond" /\ queue[i].client = c /\ queue[i].waits
                THEN [req[c] EXCEPT !.state = "ABORTED"] ELSE req[c]]
    /\ UNCHANGED <<vars, ring, dead>>

Ask ==
    \/ \E p \in UserPaths :
        \/ dicey_server_add_object_with(p)
        \/ dicey_server_delete_object(p)
        \/ dicey_server_delete_object_alias(p)
        \/ dicey_server_drop_all_aliases_of_object(p)
    \/ \E p, a \in UserPaths : Fresh(p, {a}) /\ dicey_server_add_object_alias(p, a)
    \/ \E t \in Traits : dicey_server_add_trait(t)

ServedNext ==
    \/ dicey_server_get_registry \/ dicey_server_start \/ Ask
    \/ loop_request_inbound \/ loop_request_delete
    \/ BatchTurn /\ UNCHANGED servedVars
    \/ \E c \in Clients :
        \/ \E p \in UserPaths : client_got_message(c, p) \/ client_got_message_aborted(c, p)
        \/ dicey_request_response_start(c)
        \/ dicey_request_response_reset(c)
        \/ finalize_request(c)

ServedSpec == ServedInit /\ [][ServedNext]_allVars

-----------------------------------------------------------------------------
\* message.path of a dicey_request is a string that the registry owns, and user
\* code reads it until the request is answered (server-api.h: "valid until the
\* request is replied to or cancelled").  remove_object closes the requests that
\* came under the main path of what it deletes, in whichever order the deletion,
\* the answer, changes of the aliases and further requests are handled: such a
\* request names an object that is there as long as it is open.
NamesObject(c) == paths[req[c].path] /= NULL /\ objs[paths[req[c].path]].main_path = req[c].path
RequestsNameObjects ==
    \A c \in Clients : Open(c) /\ req[c].real_path = req[c].path => NamesObject(c)

\* The same of every request.  It fails for those that came under an alias.
AllRequestsNameObjects == \A c \in Clients : Open(c) => NamesObject(c)

==============================================================================
