----------------------------- MODULE ServedProofs -----------------------------
(***************************************************************************)
(* The requests that user code answers, for any clients, paths, objects    *)
(* and any length of the queue.                                            *)
(*                                                                         *)
(* RequestsNameObjects is proved on top of the invariant of the registry:  *)
(* no step but a deletion takes a main path away, and a deletion closes    *)
(* the requests that came under it.                                        *)
(***************************************************************************)
EXTENDS ServedObjects, RegistryProofs

-----------------------------------------------------------------------------
\* A request has three fields.
Record(r) == [real_path |-> r.real_path, path |-> r.path, state |-> r.state]

Recorded ==
    /\ req = [c \in Clients |-> req[c]]
    /\ \A c \in Clients : req[c] = Record(req[c])

\* What the helpers leave in the request of a client.
LEMMA StateKeeps ==
    ASSUME Recorded, NEW c \in Clients, NEW s, State(c, s)
    PROVE  /\ req' = [d \in Clients |-> req'[d]]
           /\ \A d \in Clients : req'[d] = Record(req'[d])
           /\ \A d \in Clients : req'[d].path = req[d].path /\ req'[d].real_path = req[d].real_path
  <1>1. req' = [d \in Clients |-> IF d = c THEN [req[c] EXCEPT !.state = s] ELSE req[d]]
    BY Zenon DEF State, Recorded
  <1>2. [req[c] EXCEPT !.state = s] = [real_path |-> req[c].real_path, path |-> req[c].path, state |-> s]
    BY DEF Recorded, Record
  <1>. QED  BY Zenon, <1>1, <1>2 DEF Recorded, Record

LEMMA CompleteCloses ==
    ASSUME Recorded, NEW c \in Clients, NEW s, complete(c, s)
    PROVE  /\ req' = [d \in Clients |-> req'[d]]
           /\ \A d \in Clients : req'[d] = Record(req'[d])
           /\ req'[c].path = NULL
           /\ \A d \in Clients : d /= c => req'[d] = req[d]
  <1>1. req' = [d \in Clients |->
                IF d = c THEN [real_path |-> req[c].real_path, path |-> NULL, state |-> s] ELSE req[d]]
    BY Zenon DEF complete, Recorded
  <1>. QED  BY Zenon, <1>1 DEF Recorded, Record

\* remove_object of the server closes what matches, and leaves the rest.
LEMMA PruneCloses ==
    ASSUME Recorded, NEW p, prune(p)
    PROVE  /\ req' = [d \in Clients |-> req'[d]]
           /\ \A d \in Clients : req'[d] = Record(req'[d])
           /\ \A d \in Matching(p) : req'[d].path = NULL
           /\ \A d \in Clients : d \notin Matching(p) => req'[d] = req[d]
  <1>1. req' = [d \in Clients |-> IF d \in Matching(p) THEN [req[d] EXCEPT !.path = NULL]
                                  ELSE req[d]]
    BY Zenon DEF prune
  <1>2. ASSUME NEW d \in Clients
        PROVE  [req[d] EXCEPT !.path = NULL]
                  = [real_path |-> req[d].real_path, path |-> NULL, state |-> req[d].state]
    BY DEF Recorded, Record
  <1>. QED  BY Zenon, <1>1, <1>2 DEF Recorded, Record, Matching

\* The server quits.
LEMMA DeleteKeeps ==
    ASSUME Recorded, loop_request_delete
    PROVE  /\ req' = [d \in Clients |-> req'[d]]
           /\ \A d \in Clients : req'[d] = Record(req'[d])
           /\ \A d \in Clients : req'[d].path = req[d].path /\ req'[d].real_path = req[d].real_path
  <1>. DEFINE W(d) == \E i \in DOMAIN queue :
                        queue[i].op = "respond" /\ queue[i].client = d /\ queue[i].waits
  <1>1. req' = [d \in Clients |-> IF W(d) THEN [req[d] EXCEPT !.state = "ABORTED"] ELSE req[d]]
    BY Zenon DEF loop_request_delete
  <1>2. ASSUME NEW d \in Clients
        PROVE  [req[d] EXCEPT !.state = "ABORTED"]
                  = [real_path |-> req[d].real_path, path |-> req[d].path, state |-> "ABORTED"]
    BY DEF Recorded, Record
  <1>. HIDE DEF W
  <1>. QED  BY Zenon, <1>1, <1>2 DEF Recorded, Record

-----------------------------------------------------------------------------
\* What is in the queue.
LoopRequest ==
    [op : {"add object"}, path : Paths, arg : SUBSET Traits]
        \cup [op : {"add aliases"}, path : Paths, arg : SUBSET Paths]
        \cup [op : {"add trait"}, arg : Traits]
        \cup [op : {"del object", "del alias", "drop aliases"}, path : Paths]
        \cup [op : {"respond"}, client : Clients, waits : BOOLEAN]

Queued == queue \in Seq(LoopRequest)

LEMMA LoopRequestFields ==
    ASSUME NEW r \in LoopRequest
    PROVE  /\ r.op = "add object" => r.path \in Paths /\ r.arg \in SUBSET Traits
           /\ r.op = "add aliases" => r.path \in Paths /\ r.arg \in SUBSET Paths
           /\ r.op = "add trait" => r.arg \in Traits
           /\ r.op \in {"del object", "del alias", "drop aliases"} => r.path \in Paths
           /\ r.op = "respond" => r.client \in Clients
  BY Zenon DEF LoopRequest

LEMMA SubmitQueues ==
    ASSUME Queued, NEW r \in LoopRequest, submit_request(r)
    PROVE  Queued'
  BY DEF Queued, submit_request

LEMMA EmptyQueue == <<>> \in Seq(LoopRequest)
  OBVIOUS

\* Every call of the API queues a request that the loop knows.
LEMMA AskQueues ==
    ASSUME Queued, Ask
    PROVE  Queued'
  <1>1. ASSUME NEW p \in Paths, NEW ts \in SUBSET Traits, dicey_server_add_object(p, ts)
        PROVE  Queued'
    <2>1. [op |-> "add object", path |-> p, arg |-> ts] \in LoopRequest
      BY Zenon DEF LoopRequest
    <2>. QED  BY Zenon, <1>1, <2>1, SubmitQueues DEF dicey_server_add_object, Either, servedVars, Queued
  <1>2. ASSUME NEW p \in Paths, NEW a \in Paths, dicey_server_add_object_alias(p, a)
        PROVE  Queued'
    <2>1. [op |-> "add aliases", path |-> p, arg |-> {a}] \in LoopRequest
      BY Zenon DEF LoopRequest
    <2>. QED  BY Zenon, <1>2, <2>1, SubmitQueues
              DEF dicey_server_add_object_alias, dicey_server_add_object_aliases, Either,
                  servedVars, Queued
  <1>3. ASSUME NEW t \in Traits, dicey_server_add_trait(t)
        PROVE  Queued'
    <2>1. [op |-> "add trait", arg |-> t] \in LoopRequest
      BY Zenon DEF LoopRequest
    <2>. QED  BY Zenon, <1>3, <2>1, SubmitQueues DEF dicey_server_add_trait, Either, servedVars, Queued
  <1>4. ASSUME NEW p \in Paths,
               \/ dicey_server_delete_object(p)
               \/ dicey_server_delete_object_alias(p)
               \/ dicey_server_drop_all_aliases_of_object(p)
        PROVE  Queued'
    <2>1. \A o \in {"del object", "del alias", "drop aliases"} :
            [op |-> o, path |-> p] \in LoopRequest
      BY Zenon DEF LoopRequest
    <2>. QED  BY Zenon, <1>4, <2>1, SubmitQueues
              DEF dicey_server_delete_object, dicey_server_delete_object_alias,
                  dicey_server_drop_all_aliases_of_object, Either, servedVars, Queued
  <1>. QED  BY Zenon, <1>1, <1>2, <1>3, <1>4
            DEF Ask, dicey_server_add_object_with, UserPaths, Listed

\* The loop takes requests from the front, the user's answers go to the back.
LEMMA StepQueues ==
    ASSUME Queued, [ServedNext]_allVars
    PROVE  Queued'
  <1>1. CASE Ask
    BY Zenon, <1>1, AskQueues
  <1>2. CASE loop_request_inbound
    <2>1. queue /= <<>> /\ (queue' = Tail(queue) \/ queue' = queue)
      BY <1>2, Zenon DEF loop_request_inbound, prune_dies, Die
    <2>. QED  BY <2>1 DEF Queued
  <1>3. CASE loop_request_delete
    BY Zenon, <1>3, EmptyQueue DEF loop_request_delete, Queued
  <1>4. ASSUME NEW c \in Clients, finalize_request(c)
        PROVE  Queued'
    <2>1. \A w \in BOOLEAN : [op |-> "respond", client |-> c, waits |-> w] \in LoopRequest
      BY Zenon DEF LoopRequest
    <2>. QED  BY Zenon, <1>4, <2>1, SubmitQueues DEF finalize_request, Queued
  <1>5. ASSUME UNCHANGED queue
        PROVE  Queued'
    BY Zenon, <1>5 DEF Queued
  <1>6. CASE dicey_server_get_registry \/ dicey_server_start \/ (BatchTurn /\ UNCHANGED servedVars)
             \/ UNCHANGED allVars
    BY Zenon, <1>5, <1>6 DEF dicey_server_get_registry, dicey_server_start, servedVars, allVars
  <1>7. ASSUME NEW c \in Clients,
               \/ \E p \in UserPaths : client_got_message(c, p) \/ client_got_message_aborted(c, p)
               \/ dicey_request_response_start(c)
               \/ dicey_request_response_reset(c)
        PROVE  Queued'
    BY Zenon, <1>5, <1>7 DEF client_got_message, client_got_message_aborted, Die,
                      dicey_request_response_start, dicey_request_response_reset
  <1>. QED  BY Zenon, <1>1, <1>2, <1>3, <1>4, <1>6, <1>7 DEF ServedNext

-----------------------------------------------------------------------------
\* A step of the loop.
LEMMA InboundRecords ==
    ASSUME Recorded, Queued, loop_request_inbound
    PROVE  Recorded'
  <1>. DEFINE r == Head(queue)
  <1>0. r \in LoopRequest
    <2>1. queue /= <<>>
      BY Zenon DEF loop_request_inbound
    <2>. QED  BY <2>1 DEF Queued
  <1>. HIDE DEF r
  <1>1. CASE UNCHANGED req
    BY Zenon, <1>1 DEF Recorded
  <1>2. CASE client_send_response(r)
    <2>1. r.client \in Clients /\ \E s : State(r.client, s) \/ complete(r.client, s)
      BY Zenon, <1>0, <1>2, LoopRequestFields DEF client_send_response
    <2>. QED  BY Zenon, <2>1, StateKeeps, CompleteCloses DEF Recorded
  <1>3. CASE loop_request_del_object(r)
    BY Zenon, <1>3, PruneCloses DEF loop_request_del_object, remove_served_object, Recorded
  <1>4. UNCHANGED req \/ client_send_response(r) \/ loop_request_del_object(r)
    BY Zenon DEF loop_request_inbound, loop_request_add_object, loop_request_add_aliases,
           loop_request_add_trait, loop_request_del_alias, loop_request_drop_aliases, prune_dies,
           Die, r
  <1>. QED  BY Zenon, <1>1, <1>2, <1>3, <1>4

LEMMA StepRecords ==
    ASSUME Recorded, Queued, [ServedNext]_allVars
    PROVE  Recorded'
  <1>1. ASSUME UNCHANGED req
        PROVE  Recorded'
    BY Zenon, <1>1 DEF Recorded
  <1>2. CASE \/ dicey_server_get_registry \/ dicey_server_start
             \/ (BatchTurn /\ UNCHANGED servedVars) \/ UNCHANGED allVars
    BY Zenon, <1>1, <1>2 DEF dicey_server_get_registry, dicey_server_start, servedVars, allVars
  <1>3. CASE Ask
    <2>1. UNCHANGED req
      BY <1>3, Zenon DEF Ask, dicey_server_add_object_with, dicey_server_add_object,
             dicey_server_delete_object, dicey_server_delete_object_alias,
             dicey_server_drop_all_aliases_of_object, dicey_server_add_object_alias,
             dicey_server_add_object_aliases, dicey_server_add_trait, Either, servedVars
    <2>. QED  BY Zenon, <1>1, <2>1
  <1>4. CASE loop_request_inbound
    BY Zenon, <1>4, InboundRecords
  <1>5. CASE loop_request_delete
    BY Zenon, <1>5, DeleteKeeps DEF Recorded
  <1>6. ASSUME NEW c \in Clients, NEW p \in UserPaths, client_got_message(c, p)
        PROVE  Recorded'
    <2>1. CASE UNCHANGED req
      BY Zenon, <1>1, <2>1
    <2>2. CASE req' = [req EXCEPT ![c] = dicey_server_request_for(p)]
      BY Zenon, <2>2 DEF Recorded, Record, dicey_server_request_for
    <2>. QED  BY Zenon, <1>6, <2>1, <2>2 DEF client_got_message, Die
  <1>7. ASSUME NEW c \in Clients, NEW p \in UserPaths, client_got_message_aborted(c, p)
        PROVE  Recorded'
    BY Zenon, <1>7, CompleteCloses DEF client_got_message_aborted, Recorded
  <1>8. ASSUME NEW c \in Clients,
               \/ dicey_request_response_start(c)
               \/ dicey_request_response_reset(c)
               \/ finalize_request(c)
        PROVE  Recorded'
    <2>1. UNCHANGED req \/ \E s : State(c, s)
      BY <1>8, Zenon DEF dicey_request_response_start, dicey_request_response_reset, finalize_request
    <2>. QED  BY Zenon, <1>1, <2>1, StateKeeps DEF Recorded
  <1>. QED  BY Zenon, <1>2, <1>3, <1>4, <1>5, <1>6, <1>7, <1>8 DEF ServedNext

LEMMA InitRecords == ServedInit => Recorded /\ Queued
  BY EmptyQueue DEF ServedInit, Recorded, Queued, NoRequest, Record

-----------------------------------------------------------------------------
\* The path leads to the object that has it for its main path.
Named(q) == paths[q] /= NULL /\ objs[paths[q]].main_path = q

StaysNamed(q) == paths'[q] /= NULL /\ objs'[paths'[q]].main_path = q

Asked ==
    /\ server = "INIT" => \A c \in Clients : ~Open(c)
    /\ \A c \in Clients :
        Open(c) /\ req[c].real_path = req[c].path => req[c].path \in Paths /\ Named(req[c].path)

SInv == IInv /\ Queued /\ Recorded /\ Asked

LEMMA MildKeepsNames ==
    ASSUME IInv, Mild, NEW q \in Paths, Named(q)
    PROVE  StaysNamed(q)
  <1>0. /\ paths \in [Paths -> Objects \cup {NULL}]
        /\ objs \in [Objects -> Object \cup {NULL}]
        /\ paths[q] \in Objects /\ objs[paths[q]] /= NULL /\ objs[paths[q]].main_path = q
    BY Zenon, EntryLeads DEF IInv, TypeOK, Named
  <1>1. CASE UNCHANGED <<paths, objs>>
    BY Zenon, <1>1 DEF Named, StaysNamed
  <1>2. ASSUME NEW p \in Paths, NEW o \in Objects, NEW ts \in SUBSET Traits, Adds(p, o, ts)
        PROVE  StaysNamed(q)
    <2>1. paths'[q] = paths[q] /\ objs'[paths[q]] = objs[paths[q]]
      BY Zenon, <1>0, <1>2, NamesAssumption DEF Adds
    <2>. QED  BY Zenon, <1>0, <2>1, NamesAssumption DEF StaysNamed
  <1>3. ASSUME NEW o \in Objects, NEW a \in Paths, Links(o, a)
        PROVE  StaysNamed(q)
    <2>1. paths'[q] = paths[q] /\ objs'[paths[q]].main_path = objs[paths[q]].main_path
      BY Zenon, <1>0, <1>3, NamesAssumption DEF Links, Counted
    <2>. QED  BY Zenon, <1>0, <2>1, NamesAssumption DEF StaysNamed
  <1>4. ASSUME NEW o \in Objects, NEW S \in SUBSET Paths, Forgets(o, S)
        PROVE  StaysNamed(q)
    <2>1. q \notin S
      <3>1. ASSUME q \in S
            PROVE  FALSE
        <4>1. objs[o] /= NULL /\ q \in objs[o].aliases
          BY Zenon, <1>4, <3>1 DEF Forgets
        <4>2. paths[q] = o /\ objs[o].main_path \notin objs[o].aliases
          BY Zenon, <4>1, OneObject DEF PathsOf
        <4>. QED  BY Zenon, <1>0, <4>1, <4>2
      <3>. QED  BY Zenon, <3>1
    <2>2. paths'[q] = paths[q] /\ objs'[paths[q]].main_path = objs[paths[q]].main_path
      BY Zenon, <1>0, <1>4, <2>1 DEF Forgets, Counted, Without
    <2>. QED  BY Zenon, <1>0, <2>2, NamesAssumption DEF StaysNamed
  <1>. QED  BY Zenon, <1>1, <1>2, <1>3, <1>4 DEF Mild

\* Deleting an object leaves the names of the others.
LEMMA DropKeepsNames ==
    ASSUME IInv, NEW o \in Objects, Drops(o), NEW q \in Paths, Named(q), paths[q] /= o
    PROVE  StaysNamed(q)
  <1>0. /\ paths \in [Paths -> Objects \cup {NULL}]
        /\ objs \in [Objects -> Object \cup {NULL}]
        /\ paths[q] \in Objects /\ objs[paths[q]].main_path = q
    BY Zenon, EntryLeads DEF IInv, TypeOK, Named
  <1>1. paths'[q] = paths[q] /\ objs'[paths[q]] = objs[paths[q]]
    BY Zenon, <1>0 DEF Drops, Without, PathsOf
  <1>. QED  BY Zenon, <1>0, <1>1, NamesAssumption DEF StaysNamed

-----------------------------------------------------------------------------
LEMMA RegistryKeeps ==
    ASSUME IInv, Change, Others'
    PROVE  IInv'
  BY Zenon, ChangeKeeps, InvariantPartsNext

LEMMA RegistryStill == (IInv /\ UNCHANGED vars) => IInv'
  BY DEF vars, IInv, TypeOK, NamesAgree, RefcountsAgree, Live, PathsOf

\* Before the server runs, a call makes one of the changes of the registry.
LEMMA AskChanges ==
    ASSUME Ordinary, IInv, Ask
    PROVE  /\ UNCHANGED <<server, req>>
           /\ (server = "INIT" /\ Change /\ Others') \/ UNCHANGED vars
  <1>1. UNCHANGED <<server, req>>
    BY Zenon DEF Ask, dicey_server_add_object_with, dicey_server_add_object,
           dicey_server_delete_object, dicey_server_delete_object_alias,
           dicey_server_drop_all_aliases_of_object, dicey_server_add_object_alias,
           dicey_server_add_object_aliases, dicey_server_add_trait, Either, servedVars
  <1>2. \/ UNCHANGED vars
        \/ server = "INIT" /\ batch = NULL /\ (MildCall \/ \E p \in Paths : delete_object(p))
    <2>1. UserPaths \subseteq Paths /\ Listed \subseteq SUBSET Traits
      BY Zenon DEF UserPaths, Listed
    <2>2. \A a \in UserPaths : {a} \in SUBSET Paths
      BY Zenon, <2>1
    <2>. QED  BY <2>1, <2>2, Zenon DEF Ask, dicey_server_add_object_with, dicey_server_add_object,
           dicey_server_delete_object, dicey_server_delete_object_alias,
           dicey_server_drop_all_aliases_of_object, dicey_server_add_object_alias,
           dicey_server_add_object_aliases, dicey_server_add_trait, Either, MildCall, Idle
  <1>3. ASSUME NEW p \in Paths, delete_object(p)
        PROVE  Change /\ Others'
    BY Zenon, <1>3, DeleteDrops DEF Change, Mild
  <1>. QED  BY Zenon, <1>1, <1>2, <1>3, MildCallChanges DEF Change

\* What a request of the loop does to the registry and to the requests.
LEMMA InboundChanges ==
    ASSUME Ordinary, IInv, Queued, loop_request_inbound
    PROVE  \/ Mild /\ Others' /\ UNCHANGED <<server, req>>
           \/ \E r \in LoopRequest : r.client \in Clients /\ client_send_response(r)
           \/ \E p \in Paths : prune(p) /\ delete_object(p) /\ UNCHANGED server
  <1>. DEFINE r == Head(queue)
  <1>0. r \in LoopRequest /\ batch = NULL
    <2>1. queue /= <<>> /\ batch = NULL
      BY Zenon DEF loop_request_inbound, LoopIsFree, Idle
    <2>. QED  BY <2>1 DEF Queued
  <1>1. \/ UNCHANGED <<vars, server, req>>
        \/ client_send_response(r) \/ loop_request_del_object(r)
        \/ loop_request_add_object(r) \/ loop_request_add_aliases(r) \/ loop_request_add_trait(r)
        \/ loop_request_del_alias(r) \/ loop_request_drop_aliases(r)
    BY Zenon DEF loop_request_inbound, prune_dies, Die
  <1>. HIDE DEF r
  <1>2. CASE UNCHANGED <<vars, server, req>>
    BY Zenon, <1>2 DEF vars, Mild, Others, IInv, TypeOK
  <1>3. CASE client_send_response(r)
    BY Zenon, <1>0, <1>3, LoopRequestFields DEF client_send_response
  <1>4. CASE loop_request_del_object(r)
    BY Zenon, <1>0, <1>4, LoopRequestFields DEF loop_request_del_object, remove_served_object
  <1>5. ASSUME MildCall, UNCHANGED <<server, req>>
        PROVE  Mild /\ Others' /\ UNCHANGED <<server, req>>
    BY Zenon, <1>0, <1>5, MildCallChanges
  <1>6. CASE loop_request_add_object(r)
    <2>1. r.path \in Paths /\ r.arg \in SUBSET Traits
      BY Zenon, <1>0, <1>6, LoopRequestFields DEF loop_request_add_object
    <2>. QED  BY Zenon, <1>5, <1>6, <2>1 DEF loop_request_add_object, MildCall
  <1>7. CASE loop_request_add_aliases(r)
    <2>1. r.path \in Paths /\ r.arg \in SUBSET Paths
      BY Zenon, <1>0, <1>7, LoopRequestFields DEF loop_request_add_aliases
    <2>. QED  BY Zenon, <1>5, <1>7, <2>1 DEF loop_request_add_aliases, MildCall
  <1>8. CASE loop_request_add_trait(r)
    <2>1. r.arg \in Traits
      BY Zenon, <1>0, <1>8, LoopRequestFields DEF loop_request_add_trait
    <2>. QED  BY Zenon, <1>5, <1>8, <2>1 DEF loop_request_add_trait, MildCall
  <1>9. CASE loop_request_del_alias(r) \/ loop_request_drop_aliases(r)
    <2>1. r.path \in Paths
      BY Zenon, <1>0, <1>9, LoopRequestFields DEF loop_request_del_alias, loop_request_drop_aliases
    <2>. QED  BY Zenon, <1>5, <1>9, <2>1 DEF loop_request_del_alias, loop_request_drop_aliases, MildCall
  <1>. QED  BY Zenon, <1>1, <1>2, <1>3, <1>4, <1>6, <1>7, <1>8, <1>9

-----------------------------------------------------------------------------
\* Requests that stay as they are, or close, still name their objects when the
\* registry keeps those names.
LEMMA AskedKeeps ==
    ASSUME Asked,
           server' = "INIT" => server = "INIT",
           \A c \in Clients :
                Open(c)' => /\ Open(c)
                            /\ req'[c].path = req[c].path /\ req'[c].real_path = req[c].real_path
                            /\ req[c].real_path = req[c].path => StaysNamed(req[c].path)
    PROVE  Asked'
  BY Zenon DEF Asked, Named, StaysNamed

LEMMA NamedStill ==
    ASSUME UNCHANGED vars, NEW q, Named(q)
    PROVE  StaysNamed(q)
  BY Zenon DEF vars, Named, StaysNamed

\* remove_object closes every request that names the object it deletes.
LEMMA DeletionKeeps ==
    ASSUME SInv, NEW p \in Paths, prune(p), delete_object(p), UNCHANGED server
    PROVE  IInv' /\ Asked'
  <1>0. IInv /\ Recorded /\ Asked
    BY Zenon DEF SInv
  <1>1. /\ Others'
        /\ UNCHANGED <<paths, objs>> \/ (paths[p] \in Objects /\ Drops(paths[p]))
    BY Zenon, <1>0, DeleteDrops
  <1>2. IInv'
    BY Zenon, <1>0, <1>1, RegistryKeeps DEF Change, Mild
  <1>3. ASSUME NEW c \in Clients, Open(c)'
        PROVE  /\ Open(c)
               /\ req'[c].path = req[c].path /\ req'[c].real_path = req[c].real_path
               /\ req[c].real_path = req[c].path => StaysNamed(req[c].path)
    <2>1. c \notin Matching(p) /\ req'[c] = req[c]
      BY Zenon, <1>0, <1>3, PruneCloses DEF Open
    <2>2. Open(c)
      BY Zenon, <1>3, <2>1 DEF Open
    <2>. DEFINE q == req[c].path
    <2>. SUFFICES ASSUME req[c].real_path = q
                  PROVE  StaysNamed(q)
      BY Zenon, <2>1, <2>2
    <2>3. q \in Paths /\ req[c].real_path = q /\ Named(q)
      BY Zenon, <1>0, <2>2 DEF Asked
    <2>4. MainPath[p] /= q
      BY Zenon, <2>1, <2>2, <2>3 DEF Matching, request_should_prune_if_matching
    <2>. HIDE DEF q
    <2>5. CASE UNCHANGED <<paths, objs>>
      BY Zenon, <2>3, <2>5 DEF Named, StaysNamed
    <2>6. CASE paths[p] \in Objects /\ Drops(paths[p])
      <3>1. paths[q] /= paths[p]
        BY Zenon, <2>3, <2>4, <2>6, NamesAssumption DEF MainPath, Named
      <3>. QED  BY Zenon, <1>0, <2>3, <2>6, <3>1, DropKeepsNames
    <2>. QED  BY Zenon, <1>1, <2>5, <2>6
  <1>4. Asked'
    BY Zenon, <1>0, <1>3, AskedKeeps
  <1>. QED  BY Zenon, <1>2, <1>4

\* A new request names the object that the path leads to.
LEMMA MessageAsks ==
    ASSUME SInv,
           NEW c \in Clients, NEW p \in Paths, client_got_message(c, p)
    PROVE  Asked'
  <1>0. Recorded /\ Asked
    BY Zenon DEF SInv
  <1>1. UNCHANGED <<vars, server>> /\ server = "RUNNING" /\ (MainPath[p] = p => Named(p))
    BY Zenon DEF client_got_message, Die, LoopIsFree, Named, MainPath
  <1>2. CASE UNCHANGED req
    BY Zenon, <1>0, <1>1, <1>2, AskedKeeps, NamedStill DEF Asked, Open
  <1>3. CASE req' = [req EXCEPT ![c] = dicey_server_request_for(p)]
    <2>1. req'[c].path = MainPath[p] /\ req'[c].real_path = p
      BY Zenon, <1>0, <1>3 DEF Recorded, dicey_server_request_for
    <2>2. \A d \in Clients : d /= c => req'[d] = req[d]
      BY Zenon, <1>0, <1>3 DEF Recorded
    <2>3. \A d \in Clients : Open(d)' /\ req'[d].real_path = req'[d].path =>
            req'[d].path \in Paths /\ Named(req'[d].path)
      BY Zenon, <1>0, <1>1, <2>1, <2>2 DEF Asked, Open
    <2>4. \A d \in Clients : Open(d)' /\ req'[d].real_path = req'[d].path => StaysNamed(req'[d].path)
      BY Zenon, <1>1, <2>3 DEF Named, StaysNamed, vars
    <2>. QED  BY Zenon, <1>1, <2>3, <2>4 DEF Asked, Named, StaysNamed
  <1>. QED  BY Zenon, <1>2, <1>3 DEF client_got_message, Die

LEMMA StepKeeps ==
    ASSUME Ordinary, SInv, [ServedNext]_allVars
    PROVE  IInv' /\ Asked'
  <1>0. IInv /\ Queued /\ Recorded /\ Asked
    BY Zenon DEF SInv
  <1>1. ASSUME UNCHANGED vars, server' = "INIT" => server = "INIT",
               \A c \in Clients :
                    Open(c)' => /\ Open(c)
                                /\ req'[c].path = req[c].path /\ req'[c].real_path = req[c].real_path
        PROVE  IInv' /\ Asked'
    <2>1. IInv'
      BY Zenon, <1>0, <1>1, RegistryStill
    <2>2. \A c \in Clients : Open(c)' /\ req[c].real_path = req[c].path => StaysNamed(req[c].path)
      BY Zenon, <1>0, <1>1, NamedStill DEF Asked
    <2>. QED  BY Zenon, <1>0, <1>1, <2>1, <2>2, AskedKeeps
  <1>2. ASSUME Mild, Others', UNCHANGED <<server, req>>
        PROVE  IInv' /\ Asked'
    <2>1. IInv'
      BY Zenon, <1>0, <1>2, RegistryKeeps DEF Change
    <2>2. \A c \in Clients :
            Open(c)' => Open(c) /\ (req[c].real_path = req[c].path => StaysNamed(req[c].path))
      BY Zenon, <1>0, <1>2, MildKeepsNames DEF Asked, Open
    <2>. QED  BY Zenon, <1>0, <1>2, <2>1, <2>2, AskedKeeps
  <1>3. ASSUME server = "INIT", Change, Others', UNCHANGED <<server, req>>
        PROVE  IInv' /\ Asked'
    <2>1. IInv'
      BY Zenon, <1>0, <1>3, RegistryKeeps
    <2>2. \A c \in Clients : ~Open(c)'
      BY Zenon, <1>0, <1>3 DEF Asked, Open
    <2>. QED  BY Zenon, <2>1, <2>2 DEF Asked
  <1>4. CASE dicey_server_get_registry
    BY Zenon, <1>0, <1>3, <1>4, CallChanges DEF dicey_server_get_registry, Idle, servedVars
  <1>5. CASE dicey_server_start \/ UNCHANGED allVars
    BY Zenon, <1>1, <1>5 DEF dicey_server_start, allVars, servedVars, Open
  <1>6. CASE Ask
    <2>1. CASE UNCHANGED vars
      BY Zenon, <1>0, <1>1, <1>6, <2>1, AskChanges DEF Open
    <2>. QED  BY Zenon, <1>0, <1>3, <1>6, <2>1, AskChanges
  <1>7. CASE BatchTurn /\ UNCHANGED servedVars
    BY Zenon, <1>0, <1>2, <1>7, TurnChanges DEF servedVars
  <1>8. CASE loop_request_inbound
    <2>1. ASSUME NEW r \in LoopRequest, r.client \in Clients, client_send_response(r)
          PROVE  IInv' /\ Asked'
      <3>1. UNCHANGED <<vars, server>>
        BY Zenon, <2>1 DEF client_send_response
      <3>2. \E s : State(r.client, s) \/ complete(r.client, s)
        BY <2>1, Zenon DEF client_send_response
      <3>3. \A c \in Clients :
                Open(c)' => /\ Open(c)
                            /\ req'[c].path = req[c].path /\ req'[c].real_path = req[c].real_path
        BY Zenon, <1>0, <2>1, <3>2, StateKeeps, CompleteCloses DEF Open
      <3>. QED  BY Zenon, <1>1, <3>1, <3>3
    <2>2. ASSUME NEW p \in Paths, prune(p), delete_object(p), UNCHANGED server
          PROVE  IInv' /\ Asked'
      BY Zenon, <2>2, DeletionKeeps
    <2>. QED  BY Zenon, <1>0, <1>2, <1>8, <2>1, <2>2, InboundChanges
  <1>9. CASE loop_request_delete
    <2>1. UNCHANGED vars /\ server' /= "INIT"
      BY Zenon, <1>9 DEF loop_request_delete
    <2>. QED  BY Zenon, <1>0, <1>1, <1>9, <2>1, DeleteKeeps DEF Open
  <1>10. ASSUME NEW c \in Clients, NEW p \in UserPaths, client_got_message(c, p)
         PROVE  IInv' /\ Asked'
    <2>1. p \in Paths /\ UNCHANGED vars
      BY Zenon, <1>10 DEF UserPaths, client_got_message, Die
    <2>. QED  BY Zenon, <1>0, <1>10, <2>1, MessageAsks, RegistryStill
  <1>11. ASSUME NEW c \in Clients, NEW p \in UserPaths, client_got_message_aborted(c, p)
         PROVE  IInv' /\ Asked'
    <2>1. UNCHANGED <<vars, server>> /\ complete(c, "ABORTED")
      BY Zenon, <1>11 DEF client_got_message_aborted
    <2>. QED  BY Zenon, <1>0, <1>1, <2>1, CompleteCloses DEF Open
  <1>12. ASSUME NEW c \in Clients,
                \/ dicey_request_response_start(c)
                \/ dicey_request_response_reset(c)
                \/ finalize_request(c)
         PROVE  IInv' /\ Asked'
    <2>1. UNCHANGED <<vars, server>> /\ (UNCHANGED req \/ \E s : State(c, s))
      BY <1>12, Zenon DEF dicey_request_response_start, dicey_request_response_reset, finalize_request
    <2>. QED  BY Zenon, <1>0, <1>1, <2>1, StateKeeps DEF Open
  <1>. QED  BY Zenon, <1>4, <1>5, <1>6, <1>7, <1>8, <1>9, <1>10, <1>11, <1>12 DEF ServedNext

-----------------------------------------------------------------------------
\* A new server has two objects, the metaobjects of its two traits.
LEMMA InitAgrees == ServedInit => IInv
  <1>. DEFINE T == TRAIT_TRAIT
              I == INTROSPECTION
              f == BuiltinAt
  <1>1. f \in [Builtins -> Objects] /\ f[T] /= f[I]
    BY Zenon, MemoryAssumption DEF BuiltinAt
  <1>2. /\ T \in Traits /\ I \in Traits /\ T /= I
        /\ MetaPath[T] \in Paths /\ MetaPath[I] \in Paths /\ MetaPath[T] /= MetaPath[I]
        /\ f[T] \in Objects /\ f[I] \in Objects
    BY Zenon, <1>1, NamesAssumption DEF Builtins
  <1>. HIDE DEF f
  <1>. SUFFICES ASSUME ServedInit
                PROVE  IInv
    BY Zenon
  <1>3. paths = [p \in Paths |-> IF p = MetaPath[T] THEN f[T]
                                 ELSE IF p = MetaPath[I] THEN f[I] ELSE NULL]
    BY Zenon, <1>2 DEF ServedInit, Builtins, f
  <1>4. objs = [o \in Objects |->
                    IF o = f[T] THEN object_new_with(MetaPath[T], {T})
                    ELSE IF o = f[I] THEN object_new_with(MetaPath[I], {T}) ELSE NULL]
    BY Zenon, <1>1, <1>2 DEF ServedInit, Builtins, f
  <1>5. \A t \in {T, I} : object_new_with(MetaPath[t], {T}) \in Object
    BY Zenon, <1>2 DEF object_new_with, Object
  <1>6. TypeOK
    <2>1. paths \in [Paths -> Objects \cup {NULL}]
      BY Zenon, <1>2, <1>3
    <2>2. objs \in [Objects -> Object \cup {NULL}]
      BY Zenon, <1>2, <1>4, <1>5
    <2>3. traits \subseteq Traits /\ batch = NULL /\ result = "OK"
      BY Zenon, <1>2 DEF ServedInit, Builtins
    <2>. QED  BY Zenon, <2>1, <2>2, <2>3 DEF TypeOK
  <1>7. \A t \in {T, I} :
            /\ objs[f[t]] = object_new_with(MetaPath[t], {T})
            /\ PathsOf(f[t]) = {MetaPath[t]}
    BY Zenon, <1>1, <1>2, <1>3, <1>4, NamesAssumption DEF PathsOf
  <1>8. Live = {f[T], f[I]}
    BY Zenon, <1>2, <1>4, <1>5, NullAssumption DEF Live
  <1>9. NamesAgree
    BY <1>2, <1>3, <1>7, <1>8 DEF NamesAgree, object_new_with
  <1>10. RefcountsAgree
    <2>1. \A t \in {T, I} : Cardinality(PathsOf(f[t])) = 1
      BY Zenon, <1>7, FS_Singleton
    <2>. QED  BY <1>7, <1>8, <2>1 DEF RefcountsAgree, object_new_with
  <1>. QED  BY Zenon, <1>6, <1>9, <1>10 DEF IInv

\* When memory does not run out, a request that a client made under the main path
\* of an object and waits for names an object of the registry, however additions,
\* aliases, deletions and answers are interleaved: remove_object of server.c
\* leaves no such request behind.
THEOREM ServedRequestsNameObjects ==
    ASSUME Ordinary
    PROVE  ServedSpec => []RequestsNameObjects
  <1>1. ServedInit => SInv
    <2>1. ServedInit => Asked
      <3>1. ServedInit => \A c \in Clients : ~Open(c)
        <4>1. ServedInit => req = [c \in Clients |-> NoRequest]
          BY Zenon DEF ServedInit
        <4>2. NoRequest.path = NULL
          BY Zenon DEF NoRequest
        <4>. QED  BY Zenon, <4>1, <4>2 DEF Open
      <3>. QED  BY Zenon, <3>1 DEF Asked
    <2>. QED  BY Zenon, <2>1, InitAgrees, InitRecords DEF SInv
  <1>2. SInv /\ [ServedNext]_allVars => SInv'
    BY Zenon, StepKeeps, StepRecords, StepQueues DEF SInv
  <1>3. SInv => RequestsNameObjects
    BY Zenon DEF SInv, Asked, RequestsNameObjects, NamesObject, Named
  <1>. QED  BY <1>1, <1>2, <1>3, PTL DEF ServedSpec
==============================================================================
