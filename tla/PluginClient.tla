----------------------------- MODULE PluginClient -----------------------------
(***************************************************************************)
(* ipc/client/plugins.c: the library in the child process of a plugin.     *)
(*                                                                         *)
(* A child has two threads of interest.  The main thread calls             *)
(* dicey_plugin_init, which greets the server, tells it a name, learns the *)
(* path of its own object and says it is ready, and dicey_plugin_finish.   *)
(* The loop thread of its client takes what the server sends: answers,     *)
(* which wake the main thread up, and commands.  Any thread may answer the *)
(* work that the child was given.  A child may also die on its own.        *)
(*                                                                         *)
(* The pipe is a pair of FIFO channels.  The client below it is Client.    *)
(***************************************************************************)
EXTENDS Integers, Sequences, FiniteSets

CONSTANTS
    Plugins, Names, Jobs,
    INVALID,        \* a name that dicey_string_is_valid_plugin_name refuses
    Mishaps         \* what goes wrong around the children, see below

\* "crash":    a child dies where it did not mean to;
\* "timeout":  a blocking call of a child gives up before it is answered;
\* "bad name": a child gives the name INVALID.
ASSUME MishapsAssumption == Mishaps \subseteq {"crash", "timeout", "bad name"}

VARIABLES
    pc,         \* where the main thread of each child is
    plugin,     \* struct dicey_plugin: whether it is quitting, and the name in its path
    todo,       \* plugin->todo_list: job ids with the job they stand for
    toServer, toChild,
    child,      \* the process: "none", "alive", "dead" until the server knows, "reaped"
    status      \* what the process returns

childVars == <<pc, plugin, todo, toServer, toChild, child, status>>

\* plugin->dicey_path is set by the main thread, after the answer to Ready.
HasPath(p) == pc[p] \in {"running", "finishing", "ended"}

Message(kind, arg, job) == [kind |-> kind, arg |-> arg, job |-> job]
Plain(kind) == Message(kind, INVALID, INVALID)

ChildInit ==
    /\ pc = [p \in Plugins |-> "none"]
    /\ plugin = [p \in Plugins |-> [quitting |-> FALSE, path |-> INVALID]]
    /\ todo = [p \in Plugins |-> {}]
    /\ toServer = [p \in Plugins |-> <<>>]
    /\ toChild = [p \in Plugins |-> <<>>]
    /\ child = [p \in Plugins |-> "none"]
    /\ status = [p \in Plugins |-> 0]

-----------------------------------------------------------------------------
tell(p, m) == toServer' = [toServer EXCEPT ![p] = Append(@, m)]
goto(p, where) == pc' = [pc EXCEPT ![p] = where]

\* The process ends.  What it wrote can still be read.
die(p, code) ==
    /\ child' = [child EXCEPT ![p] = "dead"]
    /\ status' = [status EXCEPT ![p] = code]
    /\ goto(p, "gone")
    /\ toChild' = [toChild EXCEPT ![p] = <<>>]
    /\ todo' = [todo EXCEPT ![p] = {}]
    /\ UNCHANGED <<plugin, toServer>>

\* dicey_plugin_init, up to the answer to HELLO.
dicey_plugin_init(p) ==
    /\ pc[p] = "start"
    /\ tell(p, Plain("HELLO"))
    /\ goto(p, "greeting")
    /\ UNCHANGED <<plugin, todo, toChild, child, status>>

\* plugin_client_handshake: the calls are made one after the other, each when
\* the one before is answered.
plugin_client_handshake(p, m) ==
    /\ \/ /\ m.kind = "HELLO" /\ pc[p] = "greeting"
          /\ \E n \in Names \cup (IF "bad name" \in Mishaps THEN {INVALID} ELSE {}) :
                tell(p, Message("START", n, INVALID))
          /\ goto(p, "naming")
          /\ UNCHANGED plugin
       \/ /\ m.kind = "PATH" /\ pc[p] = "naming"
          /\ tell(p, Plain("READY"))
          /\ goto(p, "readying")
          /\ plugin' = [plugin EXCEPT ![p].path = m.arg]
       \/ m.kind = "READY" /\ pc[p] = "readying" /\ goto(p, "woken") /\ UNCHANGED <<plugin, toServer>>
    /\ UNCHANGED <<todo, child, status>>

\* The main thread returns from the last call and sets plugin->dicey_path.
handshake_done(p) ==
    /\ pc[p] = "woken"
    /\ goto(p, "running")
    /\ UNCHANGED <<plugin, todo, toServer, toChild, child, status>>

\* start_work: a plugin that is ending takes no work.
start_work(p, m) ==
    todo' = [todo EXCEPT ![p] = IF plugin[p].quitting THEN @ ELSE @ \cup {<<m.arg, m.job>>}]

\* quit_immediately, which is on_quit when the user gives none.
quit_immediately(p) == die(p, 1)

\* handle_command.  The user's on_quit returns.
handle_command(p, m, rest) ==
    \/ /\ m.kind = "WORK" /\ start_work(p, m)
       /\ toChild' = rest
       /\ UNCHANGED <<pc, plugin, toServer, child, status>>
    \/ /\ m.kind = "HALT" /\ plugin' = [plugin EXCEPT ![p].quitting = TRUE]
       /\ toChild' = rest
       /\ UNCHANGED <<pc, todo, toServer, child, status>>
    \/ m.kind = "HALT" /\ quit_immediately(p)

\* What try_get_command takes for a command.  It asserts that there is a path.
try_get_command(m) == m.kind \in {"WORK", "HALT"}

plugin_on_signal(p, m, rest) == IF HasPath(p) THEN handle_command(p, m, rest) ELSE die(p, 2)

\* work_response_cb, for the answer to a reply: at most an error to report.
work_response_cb(p) == UNCHANGED <<pc, plugin, todo, toServer, child, status>>

\* dicey_client_disconnect, the last thing dicey_plugin_finish does that the
\* server notices.
disconnect(p) == tell(p, Plain("BYE")) /\ goto(p, "ended")

\* The loop thread of the client takes a packet.
child_reads(p) ==
    /\ toChild[p] /= <<>> /\ child[p] = "alive" /\ pc[p] \notin {"ended", "lost"}
    /\ LET m == Head(toChild[p])
           rest == [toChild EXCEPT ![p] = Tail(@)]
       IN  \/ plugin_client_handshake(p, m) /\ toChild' = rest
           \/ try_get_command(m) /\ plugin_on_signal(p, m, rest)
           \/ /\ m.kind = "QUITTING" /\ pc[p] = "finishing"
              /\ disconnect(p) /\ toChild' = rest
              /\ UNCHANGED <<plugin, todo, child, status>>
           \/ m.kind = "REPLY" /\ work_response_cb(p) /\ toChild' = rest
           \/ /\ m.kind = "BYE"
              /\ goto(p, "lost")
              /\ toChild' = rest
              /\ UNCHANGED <<plugin, todo, toServer, child, status>>

\* dicey_plugin_work_response_start: the reply names the job that it is for.
dicey_plugin_work_response_start(w) == Message("REPLY", w[1], w[2])

\* dicey_plugin_work_response_done, on any thread, for any work there is.
dicey_plugin_work_response_done(p) ==
    /\ pc[p] \in {"running", "finishing"}
    /\ \E w \in todo[p] :
        /\ tell(p, dicey_plugin_work_response_start(w))
        /\ todo' = [todo EXCEPT ![p] = @ \ {w}]
    /\ UNCHANGED <<pc, plugin, toChild, child, status>>

\* dicey_plugin_finish: the server is told, unless it was the one that asked.
dicey_plugin_finish(p) ==
    /\ pc[p] = "running"
    /\ plugin' = [plugin EXCEPT ![p].quitting = TRUE]
    /\ IF plugin[p].quitting THEN disconnect(p)
       ELSE tell(p, Message("QUITTING", plugin[p].path, INVALID)) /\ goto(p, "finishing")
    /\ UNCHANGED <<todo, toChild, child, status>>

\* The call that tells the server fails: the plugin disconnects all the same.
finish_unanswered(p) ==
    /\ "timeout" \in Mishaps
    /\ pc[p] = "finishing"
    /\ disconnect(p)
    /\ UNCHANGED <<plugin, todo, toChild, child, status>>

\* main returns, well or not.  A handshake that fails ends in an assertion, as
\* dicey_plugin_finish is called without a path.
child_returns(p) ==
    /\ child[p] = "alive"
    /\ \/ pc[p] \in {"ended", "lost"} /\ \E code \in {0, 1} : die(p, code)
       \/ pc[p] \in {"greeting", "naming", "readying"} /\ "timeout" \in Mishaps /\ die(p, 2)

\* A signal, a fault, or a call of exit.
child_dies(p) ==
    /\ child[p] = "alive"
    /\ "crash" \in Mishaps
    /\ die(p, 1)

ChildNext(p) ==
    \/ dicey_plugin_init(p) \/ handshake_done(p) \/ child_reads(p)
    \/ dicey_plugin_work_response_done(p) \/ dicey_plugin_finish(p) \/ finish_unanswered(p)
    \/ child_returns(p) \/ child_dies(p)
==============================================================================
