-------------------------------- MODULE Plugins --------------------------------
(***************************************************************************)
(* ipc/server/plugins.c, plugins-work.c and builtins/plugins/plugins.c: the*)
(* plugins of a server, with their child processes (PluginClient).         *)
(*                                                                         *)
(* A plugin is a client of the server whose process the server spawned.    *)
(* The loop runs one callback at a time: a request of another thread, a    *)
(* packet read, a BYE written, a pipe closed, a timer, the exit of a child.*)
(* Its memory goes away when the process, the timer and the pipe are all   *)
(* closed.  Calls of other threads are named after what they are about:    *)
(* the plugin to spawn, the job to do, the quit request.                   *)
(*                                                                         *)
(* Assertions are enabled, and DICEY_UNREACHABLE is one: where one fails   *)
(* "aborted" says which.  A write is received at once, but for BYE, whose  *)
(* completion removes the client (Server has the other writes).            *)
(***************************************************************************)
EXTENDS PluginClient

CONSTANTS
    Quits,          \* calls of dicey_server_plugin_quit(_and_wait)
    Ids,            \* slots of the client list, one for every client there may be
    MaxQueue,       \* bound: requests that wait for the loop
    NULL,
    Habits          \* what else happens around the server, see below

\* "bad path":    uv_spawn fails, as for a file that is not there;
\* "kill", "list", "get": dicey_server_plugin_kill and dicey_server_list_plugins
\*                are called, a client reads the properties of a plugin;
\* "missing":     work is sent, or a quit asked for, under any name at any time;
\* "shutdown":    the server is stopped;
\* "no memory":   a command for a plugin cannot be made or raised.
ASSUME PluginHabitsAssumption ==
    Habits \subseteq {"bad path", "kill", "list", "get", "missing", "shutdown", "no memory"}

ASSUME PluginsAssumption ==
    /\ Ids \subseteq Nat
    /\ MaxQueue \in Nat \ {0}
    /\ NULL \notin Plugins \cup Names \cup Jobs \cup Quits
    /\ INVALID \notin Plugins \cup Quits \cup Names \cup {NULL}
    /\ Plugins \cap Jobs = {} /\ Plugins \cap Quits = {} /\ Jobs \cap Quits = {}

Calls == Plugins \cup Jobs \cup Quits

VARIABLES
    loop,       \* "RUNNING", "QUITTING", "STOPPED"
    clients,    \* server->clients: slot -> plugin; of other clients see Server
    id,         \* client->info.id
    cstate,     \* client->state
    pipe, bye,  \* the pipe of each client, and the BYEs being written to it
    pstate,     \* plugin->state
    name,       \* plugin->info.name
    timer,      \* plugin->process_timer: "off" or the callback it is started with
    handles,    \* the process and the timer of each plugin, then its memory
    spawn_md,   \* plugin->spawn_md.wait_sem: the call it belongs to, INVALID if that has returned
    next_jid, work_list,
    objects,    \* the objects of plugins in the registry, by plugin name
    queue,      \* server->queue
    call,       \* what became of each call
    result,     \* what the call returned, or its callback was given
    posts,      \* times that a semaphore was posted, or a callback called
    ran,        \* plugins that have been ready
    killed,     \* plugins that were sent SIGKILL
    aborted

loopVars == <<loop, clients, id, cstate, pipe, bye, objects>>
plugVars == <<pstate, name, timer, handles, spawn_md, next_jid, work_list, ran, killed>>
callVars == <<queue, call, result, posts>>
vars == <<childVars, loopVars, plugVars, callVars, aborted>>

PluginState == {"INVALID", "SPAWNED", "NAME_ASSIGNED", "RUNNING", "TERMINATED", "QUITTING",
                "FAILED", "COMPLETE"}
Dead == {"FAILED", "COMPLETE"}

TypeOK ==
    /\ loop \in {"RUNNING", "QUITTING", "STOPPED"}
    /\ clients \in [Ids -> Plugins \cup {NULL}]
    /\ id \in [Plugins -> Ids \cup {NULL}]
    /\ cstate \in [Plugins -> {"CONNECTED", "RUNNING", "QUITTING", "DEAD"}]
    /\ pipe \in [Plugins -> {"none", "open", "closing", "closed"}]
    /\ bye \in [Plugins -> Nat]
    /\ pstate \in [Plugins -> PluginState]
    /\ name \in [Plugins -> Names \cup {NULL}]
    /\ timer \in [Plugins -> {"off", "handshake", "terminate"}]
    /\ handles \in [Plugins -> {"none", "open", "process closing", "timer closing", "freed"}]
    /\ spawn_md \in [Plugins -> Plugins \cup Quits \cup {NULL, INVALID}]
    /\ next_jid \in [Plugins -> Nat]
    /\ objects \subseteq Names /\ ran \subseteq Plugins /\ killed \subseteq Plugins
    /\ call \in [Calls -> {"new", "sent", "waiting", "returned"}]
    /\ posts \in [Calls -> Nat]

Init ==
    /\ ChildInit
    /\ loop = "RUNNING"
    /\ clients = [i \in Ids |-> NULL]
    /\ id = [p \in Plugins |-> NULL]
    /\ cstate = [p \in Plugins |-> "CONNECTED"]
    /\ pipe = [p \in Plugins |-> "none"]
    /\ bye = [p \in Plugins |-> 0]
    /\ pstate = [p \in Plugins |-> "INVALID"]
    /\ name = [p \in Plugins |-> NULL]
    /\ timer = [p \in Plugins |-> "off"]
    /\ handles = [p \in Plugins |-> "none"]
    /\ spawn_md = [p \in Plugins |-> NULL]
    /\ next_jid = [p \in Plugins |-> 0]
    /\ work_list = [p \in Plugins |-> <<>>]
    /\ objects = {} /\ ran = {} /\ killed = {}
    /\ queue = <<>>
    /\ call = [x \in Calls |-> "new"]
    /\ result = [x \in Calls |-> "none"]
    /\ posts = [x \in Calls |-> 0]
    /\ aborted = "no"

-----------------------------------------------------------------------------
\* The loop is about to run a callback.
Turn == loop /= "STOPPED" /\ aborted = "no"

Abort(what) == aborted' = what /\ UNCHANGED <<childVars, loopVars, plugVars, callVars>>

\* The packet reaches the child, unless the child is dead.
send(p, m) ==
    toChild' = [toChild EXCEPT ![p] = IF child[p] = "alive" THEN Append(@, m) ELSE @]

\* As send, when what is sent answers the packet that was read last.
answer(p, m) == send(p, m) /\ toServer' = [toServer EXCEPT ![p] = Tail(@)]

\* The calls in the domain of "how" end: their semaphore is posted, or their
\* callback called.
end_calls(how) ==
    /\ posts' = [x \in Calls |-> posts[x] + IF x \in DOMAIN how THEN 1 ELSE 0]
    /\ result' = [x \in Calls |-> IF x \in DOMAIN how THEN how[x] ELSE result[x]]
    /\ call' = [x \in Calls |-> IF x \in DOMAIN how THEN "returned" ELSE call[x]]

\* Who waits on the semaphore, if there is one.
Waiter(sem, what) == [x \in {sem} \ {NULL} |-> what]

\* The calls of both end.
Together(f, g) == [x \in DOMAIN f \cup DOMAIN g |-> IF x \in DOMAIN f THEN f[x] ELSE g[x]]

\* dicey_server_remove_client, for whoever is in the slot.
remove_client(i) ==
    /\ clients' = [clients EXCEPT ![i] = NULL]
    /\ pipe' = [m \in Plugins |-> IF clients[i] = m THEN "closing" ELSE pipe[m]]

\* dicey_server_client_raised_error; dicey_client_data_set_state asserts that
\* the client is not dead yet.
client_raised_error(p) ==
    IF cstate[p] = "DEAD" THEN Abort("client is dead")
    ELSE /\ cstate' = [cstate EXCEPT ![p] = "DEAD"]
         /\ bye' = [bye EXCEPT ![p] = @ + 1]
         /\ answer(p, Plain("BYE"))
         /\ UNCHANGED <<pc, plugin, todo, child, status, loop, clients, id, pipe, objects,
                        plugVars, callVars, aborted>>

\* dicey_server_plugin_find_by_name: the slots are looked at in order.  A plugin
\* that has no name yet is compared too, with a null pointer: INVALID.
plugin_find_by_name(n) ==
    LET slots == {i \in Ids : clients[i] \in Plugins /\ name[clients[i]] \in {n, NULL}}
        found == clients[CHOOSE i \in slots : \A j \in slots : i <= j]
    IN  IF slots = {} THEN NULL ELSE IF name[found] = NULL THEN INVALID ELSE found

-----------------------------------------------------------------------------
\* Requests of other threads, run on the loop one after the other.

\* dicey_client_list_new_bucket: the first slot that is free.
new_bucket(i) == clients[i] = NULL /\ \A j \in Ids : j < i => clients[j] /= NULL

\* client_data_new_plugin.
client_data_new_plugin(p) ==
    \E i \in Ids :
        /\ new_bucket(i)
        /\ clients' = [clients EXCEPT ![i] = p]
        /\ id' = [id EXCEPT ![p] = i]
        /\ pipe' = [pipe EXCEPT ![p] = "open"]

plugin_change_state(p, state) == pstate' = [pstate EXCEPT ![p] = state]

\* spawn_child, when all goes well.
spawn_child(p) ==
    /\ timer' = [timer EXCEPT ![p] = "handshake"]
    /\ handles' = [handles EXCEPT ![p] = "open"]
    /\ child' = [child EXCEPT ![p] = "alive"]
    /\ goto(p, "start")
    /\ plugin_change_state(p, "SPAWNED")

\* plugin_spawn.  When uv_spawn fails, the cleanup of the client finds a plugin
\* that is in no state yet.
plugin_spawn(p, sem) ==
    \/ "bad path" \in Habits /\ Abort("cleanup unreachable")
    \/ /\ client_data_new_plugin(p)
       /\ spawn_md' = [spawn_md EXCEPT ![p] = sem]
       /\ spawn_child(p)
       /\ queue' = Tail(queue)
       /\ UNCHANGED <<plugin, todo, toServer, toChild, status, loop, cstate, bye, objects, name,
                      next_jid, work_list, ran, killed, call, result, posts, aborted>>

\* plugin->state == PLUGIN_STATE_RUNNING, as dicey_server_plugin_quitting asks.
can_quit(p) == pstate[p] = "RUNNING"

\* Mutant: the time that a plugin takes to quit is not limited.
plugin_quitting_NoTimer(p) ==
    /\ plugin_change_state(p, "QUITTING")
    /\ cstate' = [cstate EXCEPT ![p] = "QUITTING"]
    /\ UNCHANGED timer

\* dicey_server_plugin_quitting, past its check.
plugin_quitting(p) ==
    /\ plugin_change_state(p, "QUITTING")
    /\ cstate' = [cstate EXCEPT ![p] = "QUITTING"]
    /\ timer' = [timer EXCEPT ![p] = "terminate"]

\* The command that asks a plugin to quit.
craft_quit_packet == Plain("HALT")

\* plugin_issue_quit.  When it fails the semaphore is posted, and the result is
\* what the caller has initialised it with; when the command is what fails, the
\* plugin has the semaphore by then, and keeps it.
plugin_issue_quit(x, n, sem) ==
    LET p == plugin_find_by_name(n) IN
    IF p = INVALID THEN Abort("comparison with NULL")
    ELSE /\ queue' = Tail(queue)
         /\ \/ /\ p \in Plugins /\ can_quit(p)
               /\ spawn_md' = [spawn_md EXCEPT ![p] = sem]
               /\ send(p, craft_quit_packet)
               /\ plugin_quitting(p)
               /\ UNCHANGED <<posts, result, call>>
            \/ /\ p \in Plugins /\ can_quit(p) /\ "no memory" \in Habits
               /\ spawn_md' = [spawn_md EXCEPT ![p] = IF sem = NULL THEN NULL ELSE INVALID]
               /\ end_calls(Waiter(sem, "OK"))
               /\ UNCHANGED <<toChild, pstate, cstate, timer>>
            \/ /\ p \in Plugins => ~can_quit(p)
               /\ end_calls(Waiter(sem, "OK"))
               /\ UNCHANGED <<spawn_md, toChild, pstate, cstate, timer>>
         /\ UNCHANGED <<pc, plugin, todo, toServer, child, status, loop, clients, id, pipe, bye,
                        objects, name, handles, next_jid, work_list, ran, killed, aborted>>

\* Mutant: two jobs get the same number.
next_of_jid_Same(jid) == jid

next_of_jid(jid) == jid + 1

\* plugin_work_request_complete: the command, which the child reads with the job
\* it is about.
plugin_work_request_complete(jid, j) == Message("WORK", jid, j)

\* plugin_issue_work.  When there is no such plugin, or the command cannot be
\* raised and the job is taken off the list again, the callback is called, and
\* what is freed then is no pointer that malloc returned.
plugin_issue_work(j, n) ==
    LET p == plugin_find_by_name(n) IN
    IF p = INVALID THEN Abort("comparison with NULL")
    ELSE \/ /\ p = NULL \/ "no memory" \in Habits
            /\ Abort("invalid free")
         \/ /\ p \in Plugins
            /\ queue' = Tail(queue)
            /\ work_list' = [work_list EXCEPT ![p] = Append(@, <<next_jid[p], j>>)]
            /\ send(p, plugin_work_request_complete(next_jid[p], j))
            /\ next_jid' = [next_jid EXCEPT ![p] = next_of_jid(@)]
            /\ UNCHANGED <<pc, plugin, todo, toServer, child, status, loopVars, pstate, name, timer,
                           handles, spawn_md, ran, killed, call, result, posts, aborted>>

\* loop_request_inbound, for the next request.
loop_request_inbound ==
    /\ Turn
    /\ queue /= <<>>
    /\ loop = "RUNNING" \/ \E i \in Ids : clients[i] /= NULL
    /\ LET r == Head(queue) IN
       \/ r.op = "spawn" /\ plugin_spawn(r.of, r.sem)
       \/ r.op = "quit" /\ plugin_issue_quit(r.of, r.name, r.sem)
       \/ r.op = "work" /\ plugin_issue_work(r.of, r.name)
-----------------------------------------------------------------------------
\* Packets of a plugin, read by the loop.

dicey_string_is_valid_plugin_name(n) == n /= INVALID

\* What dicey_server_plugin_handshake_start refuses.  The object of the plugin is
\* added to the registry, which refuses one that is there.
start_refused(p, n) ==
    ~dicey_string_is_valid_plugin_name(n) \/ pstate[p] /= "SPAWNED" \/ n \in objects

\* dicey_server_plugin_handshake_start, when it succeeds.
plugin_handshake_start(p, n) ==
    /\ objects' = objects \cup {n}
    /\ name' = [name EXCEPT ![p] = n]
    /\ plugin_change_state(p, "NAME_ASSIGNED")

\* handle_start_handshake.  When it fails the client is marked dead, and then, as
\* handle_plugin_operation returns DICEY_OK, running: dicey_client_data_set_state
\* asserts otherwise.
handle_start_handshake(p, n) ==
    IF start_refused(p, n) THEN Abort("client is dead")
    ELSE /\ plugin_handshake_start(p, n)
         /\ answer(p, Message("PATH", n, INVALID))
         /\ UNCHANGED <<cstate, timer, spawn_md, work_list, ran, call, result, posts, aborted>>

\* Mutant: the semaphore of the spawn is kept for later.
spawn_md_after_handshake_Kept(p) == UNCHANGED spawn_md

\* The end of dicey_server_plugin_handshake_end.
spawn_md_after_handshake(p) == spawn_md' = [spawn_md EXCEPT ![p] = NULL]

\* dicey_server_plugin_handshake_end, when it succeeds.
plugin_handshake_end(p) ==
    /\ timer' = [timer EXCEPT ![p] = "off"]
    /\ plugin_change_state(p, "RUNNING")
    /\ ran' = ran \cup {p}
    /\ end_calls(Waiter(spawn_md[p], "OK"))
    /\ spawn_md_after_handshake(p)

\* handle_end_handshake, which fails like handle_start_handshake.
handle_end_handshake(p) ==
    IF pstate[p] /= "NAME_ASSIGNED" THEN Abort("client is dead")
    ELSE /\ plugin_handshake_end(p)
         /\ answer(p, Plain("READY"))
         /\ UNCHANGED <<objects, name, cstate, work_list, aborted>>

\* handle_quitting: the answer, an error when the path is not that of the plugin
\* or the plugin is not running, and then dicey_server_plugin_quitting.
handle_quitting(p, n) ==
    /\ answer(p, Plain("QUITTING"))
    /\ IF n = name[p] /\ can_quit(p) THEN plugin_quitting(p) ELSE UNCHANGED <<pstate, cstate, timer>>
    /\ UNCHANGED <<objects, name, spawn_md, work_list, ran, call, result, posts, aborted>>

\* plugin_work_request_finish: the callback, which is plugin_work_request_sync_cb
\* when a thread waits.  That one takes the lack of a value for a timeout.
plugin_work_request_finish(j, what) ==
    IF call[j] = "waiting" /\ what = "ECANCELLED" THEN "ETIMEDOUT" ELSE what

\* plugin_work_list_pop_job, once the job is found: what is left of the list.
plugin_work_list_pop_job(list, k) == SubSeq(list, 1, k - 1) \o SubSeq(list, k + 1, Len(list))

\* dicey_server_plugin_report_work_done, for a job that the plugin was given.
plugin_report_work_done(p, k, value) ==
    LET j == work_list[p][k][2] IN
    /\ work_list' = [work_list EXCEPT ![p] = plugin_work_list_pop_job(@, k)]
    /\ end_calls([x \in {j} |-> plugin_work_request_finish(j, value)])

\* handle_work_response.  It is asserted that the plugin is running.  An unknown
\* job would be reported with a packet that is gone by then.
handle_work_response(p, m) ==
    LET found == {k \in 1 .. Len(work_list[p]) : work_list[p][k][1] = m.arg}
        first == CHOOSE k \in found : \A i \in found : k <= i
    IN  IF pstate[p] /= "RUNNING" THEN Abort("plugin is not running")
        ELSE IF found = {} THEN Abort("no packet")
        ELSE /\ plugin_report_work_done(p, first, m.job)
             /\ answer(p, Plain("REPLY"))
             /\ UNCHANGED <<objects, name, cstate, pstate, timer, spawn_md, ran, aborted>>

\* handle_plugin_operation, for what only plugins may do.
handle_plugin_operation(p, m) ==
    \/ m.kind = "START" /\ handle_start_handshake(p, m.arg)
    \/ m.kind = "READY" /\ handle_end_handshake(p)
    \/ m.kind = "QUITTING" /\ handle_quitting(p, m.arg)
    \/ m.kind = "REPLY" /\ handle_work_response(p, m)

\* client_got_packet, for a plugin.
client_got_packet(p) ==
    /\ Turn /\ loop = "RUNNING"
    /\ pipe[p] = "open" /\ toServer[p] /= <<>>
    /\ LET m == Head(toServer[p]) IN
       \/ /\ m.kind = "HELLO"
          /\ cstate' = [cstate EXCEPT ![p] = "RUNNING"]
          /\ answer(p, Plain("HELLO"))
          /\ UNCHANGED <<pc, plugin, todo, child, status, loop, clients, id, pipe, bye, objects,
                         plugVars, callVars, aborted>>
       \/ /\ m.kind = "BYE"
          /\ IF cstate[p] = "DEAD" THEN Abort("client is dead")
             ELSE /\ toServer' = [toServer EXCEPT ![p] = Tail(@)]
                  /\ IF cstate[p] = "QUITTING" THEN UNCHANGED <<clients, pipe, cstate>>
                     ELSE remove_client(id[p]) /\ cstate' = [cstate EXCEPT ![p] = "DEAD"]
                  /\ UNCHANGED <<pc, plugin, todo, toChild, child, status, loop, id, bye, objects,
                                 plugVars, callVars, aborted>>
       \/ /\ m.kind \notin {"HELLO", "BYE"} /\ cstate[p] /= "RUNNING"
          /\ client_raised_error(p)
       \/ /\ m.kind \notin {"HELLO", "BYE"} /\ cstate[p] = "RUNNING"
          /\ handle_plugin_operation(p, m)
          /\ UNCHANGED <<pc, plugin, todo, child, status, loop, clients, id, pipe, bye, handles,
                         next_jid, killed, queue>>
-----------------------------------------------------------------------------
\* Ends: of a pipe, of a child, of a time limit.

\* on_read, at the end of the stream: the child is gone or has disconnected.
\* A client that is known to be quitting is kept.
on_read_end(p) ==
    /\ Turn
    /\ pipe[p] = "open" /\ cstate[p] /= "QUITTING"
    /\ child[p] /= "alive" \/ pc[p] \in {"ended", "lost"}
    /\ toServer[p] = <<>> \/ loop = "QUITTING"
    /\ remove_client(id[p])
    /\ UNCHANGED <<childVars, loop, id, cstate, bye, objects, plugVars, callVars, aborted>>

\* server_finalize_shutdown, when the list has become empty: the requests that
\* are left are called without a server, which every one of them asserts.
stopping(list) == loop = "QUITTING" /\ \A i \in Ids : list[i] = NULL

\* on_write, for a BYE.  The client is looked up by its id.
on_write_bye(p) ==
    /\ Turn
    /\ bye[p] > 0
    /\ IF clients[id[p]] = NULL THEN Abort("no client")
       ELSE IF stopping([clients EXCEPT ![id[p]] = NULL]) /\ queue /= <<>> THEN Abort("no server")
       ELSE /\ bye' = [bye EXCEPT ![p] = @ - 1]
            /\ remove_client(id[p])
            /\ UNCHANGED <<childVars, loop, id, cstate, objects, plugVars, callVars, aborted>>

\* Mutant: the object of the plugin stays in the registry.
plugin_object_delete_Never(p) == UNCHANGED objects

plugin_object_delete(p) == objects' = objects \ {name[p]}

\* Mutant: the jobs are forgotten.
plugin_work_list_delete_Silent(p) == <<>>

\* plugin_work_list_delete: each job is cancelled.
plugin_work_list_delete(p) ==
    [j \in {work_list[p][k][2] : k \in 1 .. Len(work_list[p])} |->
        plugin_work_request_finish(j, "ECANCELLED")]

\* plugin_deinit, for a plugin that was spawned; "others" are calls that end
\* in the same callback.
plugin_deinit(p, others) ==
    /\ end_calls(Together(others, plugin_work_list_delete(p)))
    /\ work_list' = [work_list EXCEPT ![p] = <<>>]
    /\ plugin_object_delete(p)
    /\ handles' = [handles EXCEPT ![p] = "process closing"]

\* plugin_kill_disconnected: SIGTERM, and some time to obey it.
plugin_kill_disconnected(p) ==
    /\ plugin_change_state(p, "TERMINATED")
    /\ timer' = [timer EXCEPT ![p] = "terminate"]

\* Mutant: a plugin whose pipe is closed is taken for dead.
cleanup_of_Dead(state) == "deinit"

\* What plugin_data_cleanup does in a state of the plugin.
cleanup_of(state) ==
    CASE state \in {"SPAWNED", "RUNNING"} -> "kill"
      [] state \in Dead -> "deinit"
      [] OTHER -> "unreachable"

\* on_client_end, once the write of BYE is done with, and plugin_data_cleanup.
on_client_end(p) ==
    /\ Turn
    /\ pipe[p] = "closing" /\ bye[p] = 0
    /\ IF cleanup_of(pstate[p]) = "unreachable" THEN Abort("cleanup unreachable")
       ELSE /\ pipe' = [pipe EXCEPT ![p] = "closed"]
            /\ \/ /\ cleanup_of(pstate[p]) = "kill"
                  /\ plugin_kill_disconnected(p)
                  /\ UNCHANGED <<objects, handles, work_list, call, result, posts>>
               \/ /\ cleanup_of(pstate[p]) = "deinit"
                  /\ plugin_deinit(p, Waiter(NULL, "OK"))
                  /\ UNCHANGED <<pstate, timer>>
            /\ UNCHANGED <<childVars, loop, clients, id, cstate, bye, name, spawn_md, next_jid, ran,
                           killed, queue, aborted>>

\* Mutant: the timer goes on after the child is dead.
stop_timer_Never(p) == UNCHANGED timer

stop_timer(p) == timer' = [timer EXCEPT ![p] = "off"]

\* plugin_exit_cb.  A plugin that was terminated has its pipe closed, and its
\* cleanup goes on.  Of another the pipe is closed now: the slot that its id
\* names is emptied, and there is an error if nobody is in it.  A semaphore that
\* is posted was on the stack of the thread that waits.
reaps(p) ==
    /\ child' = [child EXCEPT ![p] = "reaped"]
    /\ stop_timer(p)
    /\ plugin_change_state(p, IF status[p] = 0 THEN "COMPLETE" ELSE "FAILED")
    /\ \/ /\ pstate[p] = "TERMINATED"
          /\ plugin_deinit(p, Waiter(spawn_md[p], "OK"))
          /\ UNCHANGED <<clients, pipe>>
       \/ /\ pstate[p] /= "TERMINATED"
          /\ IF clients[id[p]] = NULL THEN UNCHANGED <<clients, pipe>> ELSE remove_client(id[p])
          /\ end_calls(Waiter(spawn_md[p], IF clients[id[p]] = NULL THEN "EINVAL" ELSE "OK"))
          /\ UNCHANGED <<objects, handles, work_list>>
    /\ UNCHANGED <<pc, plugin, todo, toServer, toChild, status, loop, id, cstate, bye, name,
                   spawn_md, next_jid, ran, killed, queue, aborted>>

plugin_exit_cb(p) ==
    /\ Turn
    /\ child[p] = "dead"
    /\ IF spawn_md[p] = INVALID THEN Abort("semaphore is gone") ELSE reaps(p)

kill_child(p) == killed' = killed \cup {p}

\* plugin_no_handshake_timeout: SIGKILL, for a plugin that has not even given
\* its name.
plugin_no_handshake_timeout(p) ==
    /\ Turn
    /\ timer[p] = "handshake"
    /\ IF pstate[p] = "SPAWNED"
       THEN /\ timer' = [timer EXCEPT ![p] = "off"]
            /\ kill_child(p)
            /\ UNCHANGED <<childVars, loopVars, callVars, pstate, name, handles, spawn_md, next_jid,
                           work_list, ran, aborted>>
       ELSE Abort("timeout unreachable")

\* plugin_terminate_timedout: SIGKILL.
plugin_terminate_timedout(p) ==
    /\ Turn
    /\ timer[p] = "terminate"
    /\ IF pstate[p] \in {"TERMINATED", "QUITTING"} /\ child[p] \in {"alive", "dead"}
       THEN /\ timer' = [timer EXCEPT ![p] = "off"]
            /\ kill_child(p)
            /\ UNCHANGED <<childVars, loopVars, callVars, pstate, name, handles, spawn_md, next_jid,
                           work_list, ran, aborted>>
       ELSE Abort("nothing to kill")

close_step(p, from, to) ==
    /\ Turn
    /\ handles[p] = from /\ handles' = [handles EXCEPT ![p] = to]
    /\ UNCHANGED <<childVars, loopVars, callVars, pstate, name, timer, spawn_md, next_jid,
                   work_list, ran, killed, aborted>>

plugin_close_process(p) == close_step(p, "process closing", "timer closing")

\* plugin_close_timer, and then finish_client_data_cleanup.
plugin_close_timer(p) == close_step(p, "timer closing", "freed")
-----------------------------------------------------------------------------
\* What clients and other threads ask for, and the end.

\* handle_get_plugin_property, for a client that finds the object of a plugin:
\* it asserts that the plugin is in the list.  What is answered is not modelled.
handle_get_plugin_property(n) ==
    /\ Turn /\ loop = "RUNNING" /\ "get" \in Habits
    /\ n \in objects
    /\ \/ plugin_find_by_name(n) = NULL /\ Abort("no plugin")
       \/ plugin_find_by_name(n) = INVALID /\ Abort("comparison with NULL")

\* A request is submitted.  The server is not used once it was told to stop.
submit(request) ==
    /\ Turn /\ loop = "RUNNING" /\ Len(queue) < MaxQueue
    /\ queue' = Append(queue, request)
    /\ UNCHANGED <<childVars, loopVars, plugVars, result, posts, aborted>>

\* The names that are called for.
Known(n) == "missing" \in Habits \/ \E p \in ran : name[p] = n

craft_plugin_spawn_request_in(p, sem) == [op |-> "spawn", of |-> p, name |-> NULL, sem |-> sem]
plugin_submit_spawn(p, sem) == submit(craft_plugin_spawn_request_in(p, sem))

dicey_server_spawn_plugin(p) ==
    /\ call[p] = "new"
    /\ plugin_submit_spawn(p, NULL) /\ call' = [call EXCEPT ![p] = "sent"]

dicey_server_spawn_plugin_and_wait(p) ==
    /\ call[p] = "new"
    /\ plugin_submit_spawn(p, p) /\ call' = [call EXCEPT ![p] = "waiting"]

craft_quit_request_in(x, n, sem) == [op |-> "quit", of |-> x, name |-> n, sem |-> sem]
plugin_request_quit(x, n, sem) == submit(craft_quit_request_in(x, n, sem))

dicey_server_plugin_quit(x, n) ==
    /\ call[x] = "new" /\ Known(n)
    /\ plugin_request_quit(x, n, NULL) /\ call' = [call EXCEPT ![x] = "sent"]

dicey_server_plugin_quit_and_wait(x, n) ==
    /\ call[x] = "new" /\ Known(n)
    /\ plugin_request_quit(x, n, x) /\ call' = [call EXCEPT ![x] = "waiting"]

\* dicey_server_plugin_work_request_start: the payload is put in front of the id
\* and the command, which the loop adds.
work_request_start(j, n) == [op |-> "work", of |-> j, name |-> n, sem |-> NULL]

plugin_submit_work(j, n) == submit(work_request_start(j, n))

\* dicey_server_plugin_send_work, or the same in two steps with
\* dicey_server_plugin_work_request_submit.
dicey_server_plugin_send_work(j, n) ==
    /\ call[j] = "new" /\ Known(n)
    /\ plugin_submit_work(j, n) /\ call' = [call EXCEPT ![j] = "sent"]

dicey_server_plugin_send_work_and_wait(j, n) ==
    /\ call[j] = "new" /\ Known(n)
    /\ plugin_submit_work(j, n) /\ call' = [call EXCEPT ![j] = "waiting"]

\* plugin_kill_request: dicey_server_kick waits for the loop, on the loop.
plugin_kill_request(n) ==
    \/ plugin_find_by_name(n) = INVALID /\ Abort("comparison with NULL")
    \/ plugin_find_by_name(n) \in Plugins /\ Abort("loop waits for itself")

\* dicey_server_plugin_kill.  As the request changes nothing unless it is the
\* last thing the loop does, it is run as soon as it is submitted; so is the next.
dicey_server_plugin_kill(n) ==
    /\ Turn /\ loop = "RUNNING"
    /\ "kill" \in Habits /\ Known(n)
    /\ plugin_kill_request(n)

\* plugins_list: the buffers are those of a function that may have returned, and
\* has when it is the handler of a packet.
plugins_list == Abort("write to a dead frame")

dicey_server_list_plugins ==
    /\ Turn /\ loop = "RUNNING"
    /\ "list" \in Habits
    /\ plugins_list

\* handle_list_plugins, for a client: the same call, on the loop, and an answer
\* made of what has not been filled in yet.
handle_list_plugins == dicey_server_list_plugins

\* server_shutdown, with server_finalize_shutdown when nobody is connected.
server_shutdown ==
    /\ Turn /\ "shutdown" \in Habits
    /\ loop = "RUNNING"
    /\ IF (\A i \in Ids : clients[i] = NULL) /\ queue /= <<>> THEN Abort("no server")
       ELSE /\ loop' = "QUITTING"
            /\ bye' = [m \in Plugins |-> bye[m] + IF \E i \in Ids : clients[i] = m THEN 1 ELSE 0]
            /\ toChild' = [p \in Plugins |-> IF child[p] = "alive" /\ \E i \in Ids : clients[i] = p
                                             THEN Append(toChild[p], Plain("BYE")) ELSE toChild[p]]
            /\ UNCHANGED <<pc, plugin, todo, toServer, child, status, clients, id, cstate, pipe,
                           objects, plugVars, callVars, aborted>>

\* server_shutdown_at_end: the pipes of clients are closed by then, whatever
\* their processes and timers do.
server_shutdown_at_end ==
    /\ Turn
    /\ stopping(clients) /\ \A m \in Plugins : pipe[m] /= "closing" /\ bye[m] = 0
    /\ loop' = "STOPPED"
    /\ UNCHANGED <<childVars, clients, id, cstate, pipe, bye, objects, plugVars, callVars, aborted>>

\* The child dies of a signal: SIGTERM when it heeds it, SIGKILL always.
child_heeds(p) ==
    /\ Turn /\ child[p] = "alive"
    /\ p \in killed \/ pstate[p] = "TERMINATED"
    /\ die(p, 1)
    /\ UNCHANGED <<loopVars, plugVars, callVars, aborted>>

\* What the child does by itself, as long as the server is there.
child_step(p) == Turn /\ ChildNext(p) /\ UNCHANGED <<loopVars, plugVars, callVars, aborted>>
callback(p) ==
    \/ client_got_packet(p) \/ on_read_end(p) \/ on_write_bye(p) \/ on_client_end(p)
    \/ plugin_exit_cb(p) \/ plugin_no_handshake_timeout(p) \/ plugin_terminate_timedout(p)
    \/ plugin_close_process(p) \/ plugin_close_timer(p)

Next ==
    \/ loop_request_inbound
    \/ \E p \in Plugins :
        callback(p) \/ child_heeds(p) \/ child_step(p)
        \/ dicey_server_spawn_plugin(p) \/ dicey_server_spawn_plugin_and_wait(p)
    \/ \E n \in Names :
        \/ handle_get_plugin_property(n)
        \/ \E x \in Quits :
            dicey_server_plugin_quit(x, n) \/ dicey_server_plugin_quit_and_wait(x, n)
        \/ \E j \in Jobs :
            dicey_server_plugin_send_work(j, n) \/ dicey_server_plugin_send_work_and_wait(j, n)
        \/ dicey_server_plugin_kill(n)
    \/ dicey_server_list_plugins \/ handle_list_plugins
    \/ server_shutdown \/ server_shutdown_at_end

Spec == Init /\ [][Next]_vars

\* libuv runs every callback that is due, timers among them, and SIGKILL kills.
\* Nothing is assumed of what a child does while it is alive.
Fairness ==
    /\ WF_vars(loop_request_inbound)
    /\ \A p \in Plugins :
        /\ WF_vars(client_got_packet(p)) /\ WF_vars(on_read_end(p)) /\ WF_vars(on_write_bye(p))
        /\ WF_vars(on_client_end(p)) /\ WF_vars(plugin_exit_cb(p))
        /\ WF_vars(plugin_no_handshake_timeout(p)) /\ WF_vars(plugin_terminate_timedout(p))
        /\ WF_vars(p \in killed /\ child_heeds(p))

FairSpec == Spec /\ Fairness

-----------------------------------------------------------------------------
\* A job that was submitted is in one place only, the queue or the list of one
\* plugin, until its callback is called, and that is called once: with a reply,
\* or with ECANCELLED when the plugin is cleaned up.
JobsAccounted ==
    \A j \in Jobs :
        LET queued == {k \in 1 .. Len(queue) : queue[k].op = "work" /\ queue[k].of = j}
            given(p) == {k \in 1 .. Len(work_list[p]) : work_list[p][k][2] = j}
            places == ({NULL} \X queued) \cup UNION {{p} \X given(p) : p \in Plugins}
        IN  /\ Cardinality(places) = IF call[j] \in {"sent", "waiting"} THEN 1 ELSE 0
            /\ posts[j] = IF call[j] = "returned" THEN 1 ELSE 0

\* The value that a job ends with is the one that was computed for it, whatever
\* the plugins that come and go are called and in whatever order they reply.
RepliesMatch == \A j \in Jobs : result[j] \in {j, "none", "ECANCELLED", "ETIMEDOUT"}

\* An object in the registry belongs to one plugin that is not cleaned up, and
\* every such plugin that has a name has its object: names are unique among
\* them, and can be used again afterwards.
ObjectsAreHeld ==
    /\ \A n \in objects : Cardinality({p \in Plugins : handles[p] = "open" /\ name[p] = n}) = 1
    /\ \A p \in Plugins : handles[p] = "open" /\ name[p] /= NULL => name[p] \in objects

\* The handle of a process is closed, and its memory given back, only after the
\* child was reaped: no child goes on unseen, whichever of its pipe and its
\* process ends first.
ChildrenReaped ==
    \A p \in Plugins :
        handles[p] \notin {"none", "open"} => child[p] = "reaped" /\ pipe[p] = "closed"

\* A timer that runs is about a child that was not reaped, and the one that kills
\* a child that does not end runs only while it should end: no timeout fires into
\* a closed plugin, or kills a plugin that runs.  The timer of the handshake runs
\* only before its end; once the plugin has its name, its callback does not know
\* the state any more (HandshakeTimerFits).
TimersFit ==
    \A p \in Plugins : timer[p] /= "off" =>
        /\ handles[p] = "open" /\ child[p] \in {"alive", "dead"}
        /\ pstate[p] \in IF timer[p] = "handshake" THEN {"SPAWNED", "NAME_ASSIGNED"}
                                                   ELSE {"TERMINATED", "QUITTING"}

\* A thread that waits for a plugin to start or to end is known to the queue or
\* to one plugin whose exit will be seen, and is woken up once.
WaitersAccounted ==
    \A x \in Plugins \cup Quits :
        LET places == ({NULL} \X {k \in 1 .. Len(queue) : queue[k].sem = x})
                      \cup ({p \in Plugins : spawn_md[p] = x /\ child[p] /= "reaped"} \X {0})
        IN  /\ Cardinality(places) = IF call[x] = "waiting" THEN 1 ELSE 0
            /\ posts[x] = IF call[x] = "returned" THEN 1 ELSE 0

\* A thread that waits for a plugin to start or to end does not wait for ever,
\* even if the child hangs (unless an assertion fails).
CallsReturn ==
    \A x \in Plugins \cup Quits : call[x] = "waiting" ~> call[x] = "returned" \/ aborted /= "no"

\* plugins.c:385: "we should never reach this state. We should halt only from
\* spawned, failed, complete or running".  plugin_data_cleanup does.
HaltsFromKnownStates == aborted /= "cleanup unreachable"

\* plugins.h: dicey_server_spawn_plugin_and_wait returns "OK" when "the plugin
\* was successfully spawned" and has done its handshake.
SpawnedMeansReady == \A p \in Plugins : result[p] = "OK" => p \in ran

\* plugins.c:652: "this should not have happened, because the timer should have
\* been stopped when the plugin quit or the handshake was completed".
HandshakeTimerFits == aborted /= "timeout unreachable"
==============================================================================
