------------------------------- MODULE TaskLoop -------------------------------
(***************************************************************************)
(* ipc/tasks/loop.c, list.c and io.c: the loop on which a client runs its  *)
(* tasks, in a thread of its own.                                          *)
(*                                                                         *)
(* A task is a list of functions.  Each function starts something, and the *)
(* next one runs when that is done: an operation of libuv, whose callback  *)
(* finds the task by its id, or a packet, for which the client keeps a list*)
(* of who waits for what.  A task ends when its last function returns, when*)
(* one fails, when its time is over or when the loop is deleted; at_end is *)
(* then called, which wakes up the thread that submitted it, and the task  *)
(* is freed.                                                               *)
(*                                                                         *)
(* What the functions do is left open: the model lets each start any of the*)
(* things above, or fail.  Assertions are enabled: one that fails ends the *)
(* process ("aborted").  The queue is the bounded FIFO of RequestQueue.    *)
(***************************************************************************)
EXTENDS Integers, FiniteSets, SequencesExt

CONSTANTS
    Tasks,
    Timed,          \* the tasks whose timeout_ms is not WAIT_FOREVER
    Retrying,       \* the tasks with a function that may return RETRY; the
                    \* library has none
    Steps,          \* how many functions a task has
    QueueCap        \* bound: tasks that fit in the queue

ASSUME TaskAssumption == {Timed, Retrying} \subseteq SUBSET Tasks /\ Steps \in Nat \ {0} /\ QueueCap \in Nat \ {0}

VARIABLES
    phase,      \* of the loop: "up" while no handle is being closed
    jobs, halt, \* jobs_async and halt_async were sent to and have not run
    draining,   \* the loop is inside process_queue
    submitted,  \* the tasks for which submit returned OK
    queue,      \* tloop->queue
    allocated,  \* tloop->pending_tasks is not NULL
    list,       \* tloop->pending_tasks: entries in the order they came
    next_id,
    work,       \* which function of a task is to run next
    ops,        \* the operations of libuv that are in flight, by their cookie
    waiting,    \* client->waiting_tasks: the tasks that wait for a packet
    ends,       \* how many times at_end was called for a task
    aborted

loopVars == <<phase, jobs, halt, draining, submitted, queue>>
taskVars == <<allocated, list, next_id, work, ops, waiting, ends>>
vars == <<loopVars, taskVars, aborted>>

Init ==
    /\ phase = "new"
    /\ jobs = FALSE /\ halt = FALSE /\ draining = FALSE
    /\ submitted = {}
    /\ queue = <<>>
    /\ allocated = FALSE
    /\ list = <<>>
    /\ next_id = 0
    /\ work = [t \in Tasks |-> 0]
    /\ ops = {} /\ waiting = {}
    /\ ends = [t \in Tasks |-> 0]
    /\ aborted = FALSE

\* The loop is about to run a callback.
Turn == ~aborted /\ ~draining /\ phase \in {"up", "jobs", "halt", "timer"}

-----------------------------------------------------------------------------
\* dicey_task_loop_start, which creates the thread and waits for its semaphore.
start ==
    /\ phase = "new"
    /\ phase' = "starting"
    /\ UNCHANGED <<jobs, halt, draining, submitted, queue, taskVars, aborted>>

\* The first turn of the loop: tloop->running is set and start returns.
notify_running ==
    /\ phase = "starting"
    /\ phase' = "up"
    /\ UNCHANGED <<jobs, halt, draining, submitted, queue, taskVars, aborted>>

\* dicey_task_loop_submit.  Nobody calls it once the queue is destroyed.
submit(t) ==
    /\ ~aborted
    /\ phase \notin {"new", "starting", "exited"}
    /\ t \notin submitted
    /\ Len(queue) < QueueCap
    /\ submitted' = submitted \cup {t}
    /\ queue' = Append(queue, t)
    /\ jobs' = TRUE
    /\ UNCHANGED <<phase, halt, draining, taskVars, aborted>>

\* dicey_task_loop_delete: the owner asks the loop to stop and joins its thread.
delete ==
    /\ ~aborted
    /\ phase = "up" /\ ~halt
    /\ halt' = TRUE
    /\ UNCHANGED <<phase, jobs, draining, submitted, queue, taskVars, aborted>>

-----------------------------------------------------------------------------
\* task_list_erase_at, by position.
erase_at(L, i) == IF i > Len(L) THEN L ELSE RemoveAt(L, i)

\* task_list_find_index: where the task is, if it is there.
find_index(L, id) == {i \in 1 .. Len(L) : L[i].id = id}

\* Mutant: the entry stays in the list.
erase_Keeps(L, id) == L

\* dicey_task_list_erase, by id: the first entry that has it.
erase(L, id) ==
    IF find_index(L, id) = {} THEN L ELSE erase_at(L, Min(find_index(L, id)))

\* complete_task, with clean_up_task of the client as global_at_end.
complete_task(e, L) ==
    /\ list' = erase(L, e.id)
    /\ ends' = [ends EXCEPT ![e.task] = @ + 1]
    /\ waiting' = waiting \ {e}

\* step_task, with the operations and the waiting tasks that are left as it is
\* called.  Functions that return NEXT are followed by the next one at once: the
\* last of them to run is number j.  It starts an operation, or waits for a
\* packet; or the task ends, as its last function is done or one has failed.
\* One that returns RETRY leaves the list, and nobody is told.
step_task(e, L, inFlight, waits) ==
    \/ \E j \in work[e.task] .. Steps - 2 :
        /\ work' = [work EXCEPT ![e.task] = j + 1]
        /\ \/ ops' = inFlight \cup {e} /\ waiting' = waits
           \/ ops' = inFlight /\ waiting' = waits \cup {e}
        /\ list' = L
        /\ UNCHANGED ends
    \/ complete_task(e, L) /\ ops' = inFlight /\ UNCHANGED work
    \/ /\ e.task \in Retrying
       /\ list' = erase(L, e.id)
       /\ ops' = inFlight /\ waiting' = waits
       /\ UNCHANGED <<work, ends>>

process_queue ==
    /\ Turn
    /\ jobs /\ phase = "up"
    /\ jobs' = FALSE
    /\ draining' = TRUE
    /\ UNCHANGED <<phase, halt, submitted, queue, taskVars, aborted>>

\* Mutant: an id is the place in the list.
new_id_Reused == Len(list)

new_id == next_id

\* One turn of process_queue: the task enters the list and its work starts.
process_task ==
    /\ draining /\ ~aborted
    /\ queue /= <<>>
    /\ LET e == [id |-> new_id, task |-> Head(queue)]
       IN  step_task(e, Append(list, e), ops, waiting)
    /\ queue' = Tail(queue)
    /\ allocated' = TRUE
    /\ next_id' = next_id + 1
    /\ UNCHANGED <<phase, jobs, halt, draining, submitted, aborted>>

\* There is no memory for the list: the task fails, and complete_task asserts
\* that there is a list to erase it from.
process_task_no_memory ==
    /\ draining /\ ~aborted
    /\ queue /= <<>> /\ ~allocated
    /\ aborted' = TRUE
    /\ UNCHANGED <<loopVars, taskVars>>

process_queue_end ==
    /\ draining /\ ~aborted
    /\ queue = <<>>
    /\ draining' = FALSE
    /\ UNCHANGED <<phase, jobs, halt, submitted, queue, taskVars, aborted>>

-----------------------------------------------------------------------------
\* dicey_task_list_find.
find(id) == {e \in ToSet(list) : e.id = id}

\* dicey_task_loop_advance, and dicey_task_loop_fail: nothing happens when the
\* task is gone.
advance(id, inFlight, waits) ==
    IF find(id) = {} THEN ops' = inFlight /\ waiting' = waits /\ UNCHANGED <<list, work, ends>>
    ELSE \E e \in find(id) : step_task(e, list, inFlight, waits)

\* on_connect, on_write and on_close of io.c, through unlock_task.
unlock_task(c) ==
    /\ Turn
    /\ c \in ops
    /\ advance(c.id, ops \ {c}, waiting)
    /\ UNCHANGED <<loopVars, allocated, next_id, aborted>>

\* client_got_packet, for a packet that somebody waits for: it leaves the list
\* of those who wait, and its task is advanced.
got_packet(c) ==
    /\ Turn
    /\ c \in waiting
    /\ advance(c.id, ops, waiting \ {c})
    /\ UNCHANGED <<loopVars, allocated, next_id, aborted>>

\* Mutant: only the entry at the head of the list is looked at.
Expired_HeadOnly == {i \in 1 .. Len(list) : i = 1 /\ list[i].task \in Timed}

\* The entries that may be the first of the list whose time is over.
Expired == {i \in 1 .. Len(list) : list[i].task \in Timed}

\* check_timeout and dicey_task_list_prune: the task fails, which erases it, and
\* then whatever is at its place in the list is erased.
check_timeout(i) ==
    /\ Turn /\ phase /= "timer"
    /\ i \in Expired
    /\ LET e == list[i]
       IN  /\ list' = erase_at(erase(list, e.id), i)
           /\ ends' = [ends EXCEPT ![e.task] = @ + 1]
           /\ waiting' = waiting \ {e}
    /\ UNCHANGED <<loopVars, allocated, next_id, work, ops, aborted>>

-----------------------------------------------------------------------------
\* halt_loop: the first of the handles is closed.
halt_loop ==
    /\ Turn
    /\ halt /\ phase = "up"
    /\ phase' = "jobs"
    /\ UNCHANGED <<jobs, halt, draining, submitted, queue, taskVars, aborted>>

\* Mutant: the chain ends before the timer.
Following_Stops(p) == CASE p = "jobs" -> "halt" [] p = "halt" -> "halt" [] OTHER -> "stopped"

\* The handle that is closed after this one; the loop is stopped after the last.
Following(p) == CASE p = "jobs" -> "halt" [] p = "halt" -> "timer" [] OTHER -> "stopped"

on_close_handle ==
    /\ Turn
    /\ phase \in {"jobs", "halt", "timer"}
    /\ phase' = Following(phase)
    /\ UNCHANGED <<jobs, halt, draining, submitted, queue, taskVars, aborted>>

Cancelled == {e.task : e \in ToSet(list)} \cup ToSet(queue)

\* The end of loop_thread.  uv_loop_close finds a handle that is still open when
\* an operation is in flight, and maybe when none is; cancel_all_pending frees
\* the list before it completes the tasks of the queue, each of which looks for
\* itself in that list: an assertion fails when there was none, and the outcome
\* is open when there was one.
loop_thread_ends ==
    /\ phase = "stopped" /\ ~aborted
    /\ \/ /\ aborted' = TRUE
          /\ UNCHANGED <<phase, queue, list, ends, waiting>>
       \/ /\ ops = {}
          /\ queue = <<>> \/ allocated
          /\ phase' = "exited"
          /\ queue' = <<>>
          /\ list' = <<>>
          /\ ends' = [t \in Tasks |-> IF t \in Cancelled THEN ends[t] + 1 ELSE ends[t]]
          /\ waiting' = {}
          /\ UNCHANGED aborted
    /\ UNCHANGED <<jobs, halt, draining, submitted, allocated, next_id, work, ops>>

Next ==
    \/ start \/ notify_running \/ delete
    \/ \E t \in Tasks : submit(t)
    \/ process_queue \/ process_task \/ process_task_no_memory \/ process_queue_end
    \/ \E c \in ops : unlock_task(c)
    \/ \E c \in waiting : got_packet(c)
    \/ \E i \in 1 .. Len(list) : check_timeout(i)
    \/ halt_loop \/ on_close_handle \/ loop_thread_ends

Spec == Init /\ [][Next]_vars

\* Time passes: a timeout that is due is seen by a later check.
times_out(t) == \E i \in 1 .. Len(list) : list[i].task = t /\ check_timeout(i)

\* The loop goes on running callbacks, and the timer comes again and again; an
\* operation of libuv and the answer of a server may take for ever.
Fairness ==
    /\ WF_vars(notify_running)
    /\ WF_vars(process_queue) /\ WF_vars(process_task) /\ WF_vars(process_queue_end)
    /\ WF_vars(halt_loop) /\ WF_vars(on_close_handle) /\ WF_vars(loop_thread_ends)
    /\ \A t \in Timed : WF_vars(times_out(t))

FairSpec == Spec /\ Fairness

-----------------------------------------------------------------------------
\* The task was submitted, at_end was not called and never will be.
Dropped(t) ==
    t \in submitted /\ ends[t] = 0 /\ t \notin ToSet(queue) /\ \A e \in ToSet(list) : e.task /= t

\* at_end is called once for a task, which complete_task then frees: no queue and
\* no list leads to a task that has ended, and none leads to a task twice,
\* whatever becomes of late operations, late packets and timeouts.
EndsOnce ==
    /\ \A t \in Tasks : ends[t] <= 1
    /\ \A t \in ToSet(queue) : ends[t] = 0 /\ \A e \in ToSet(list) : e.task /= t
    /\ \A e \in ToSet(list) : ends[e.task] = 0
    /\ \A i, j \in DOMAIN queue : queue[i] = queue[j] => i = j
    /\ \A i, j \in DOMAIN list : list[i].task = list[j].task => i = j

\* The callback of an operation and the answer to a request find the task that
\* started it, or none when it has ended: never another one.
CookiesMatch == \A c \in ops \cup waiting : find(c.id) \subseteq {c}

\* "Len has been decreased by one" (dicey_task_list_prune): a task that was
\* submitted is in the queue or in the list until its at_end is called, which is
\* what wakes up the thread that waits for it.
NoneDropped == \A t \in Tasks : ~Dropped(t)

\* A task with a timeout does not stay in the queue or in the list for ever,
\* however long libuv and the server take: check_timeout ends it.  It may be
\* dropped without a word, but only where another task with a timeout has ended,
\* whose place in the list it had taken (NoneDropped).
TimedTasksEnd ==
    \A t \in Timed \ Retrying :
        t \in submitted ~> \/ ends[t] = 1 \/ aborted
                           \/ Dropped(t) /\ \E u \in Timed \ {t} : ends[u] = 1

\* dicey_task_loop_delete returns: the thread it joins ends.
DeleteReturns == halt ~> (phase = "exited" \/ aborted)
==============================================================================
