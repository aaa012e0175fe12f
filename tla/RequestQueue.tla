---------------------------- MODULE RequestQueue ----------------------------
(***************************************************************************)
(* The ring buffer of ipc/queue.c through which every thread hands work to *)
(* the server's event loop (server-loopreq.c) and to the client's task     *)
(* loop (tasks/loop.c).                                                    *)
(*                                                                         *)
(* A call holds the mutex from start to return except while it sleeps on   *)
(* the queue's only condition variable, so each stretch between two        *)
(* acquisitions of the mutex is one step.  Producers and consumers share   *)
(* that condition variable: a signal wakes any one sleeper.  A blocked     *)
(* push keeps the new_tail it computed when it was called.                 *)
(***************************************************************************)
EXTENDS Integers, Sequences

CONSTANTS
    Producers, Consumers,   \* threads that call dicey_queue_push / _pop
    Values,                 \* the non-NULL pointers that are queued
    NULL,
    REQUEST_QUEUE_CAP,
    PushPolicies, PopPolicies   \* the locking policies the callers use

ASSUME CapAssumption == REQUEST_QUEUE_CAP \in Nat /\ REQUEST_QUEUE_CAP >= 2
ASSUME ValuesAssumption == NULL \notin Values
Threads == Producers \cup Consumers
Slot == 0 .. REQUEST_QUEUE_CAP - 1

VARIABLES
    data,    \* the slots; a slot that holds nothing is NULL
    head,    \* where the next pop reads
    tail,    \* where the next push writes
    call,    \* per thread: Idle, or the blocked call it is in
    asleep,  \* the threads inside uv_cond_wait that nobody has woken
    overtaken   \* history: a push went by a new_tail that another had made stale

vars == <<data, head, tail, call, asleep, overtaken>>

After(i) == (i + 1) % REQUEST_QUEUE_CAP

Idle == [op |-> "idle"]
PushCall(v, nt) == [op |-> "push", val |-> v, new_tail |-> nt]
PopCall == [op |-> "pop"]
Calls == {PushCall(v, nt) : v \in Values, nt \in Slot} \cup {PopCall}

TypeOK ==
    /\ data \in [Slot -> Values \cup {NULL}]
    /\ head \in Slot
    /\ tail \in Slot
    /\ call \in [Threads -> Calls \cup {Idle}]
    /\ asleep \in SUBSET {t \in Threads : call[t] /= Idle}
    /\ overtaken \in BOOLEAN

Init ==
    /\ data = [i \in Slot |-> NULL]
    /\ head = 0
    /\ tail = 0
    /\ call = [t \in Threads |-> Idle]
    /\ asleep = {}
    /\ overtaken = FALSE

\* uv_cond_signal wakes one of the sleepers, if there is any.
Signal ==
    \/ asleep = {} /\ UNCHANGED asleep
    \/ \E t \in asleep : asleep' = asleep \ {t}

\* The new_tail that a push goes by is not the slot after the tail any more.
goes_by(nt) == overtaken' = (overtaken \/ nt /= After(tail))

\* The part of dicey_queue_push past the wait loop, with the new_tail the
\* call computed on entry.
Store(t, v, nt) ==
    /\ nt /= head
    /\ data' = [data EXCEPT ![tail] = v]
    /\ tail' = nt
    /\ call' = [call EXCEPT ![t] = Idle]
    /\ goes_by(nt)
    /\ Signal
    /\ UNCHANGED head

Push(t, v) ==
    /\ call[t] = Idle
    /\ Store(t, v, After(tail))

\* The queue is full: a NONBLOCKING push returns false and changes nothing,
\* a BLOCKING one goes to sleep and keeps its new_tail.
PushBlocks(t, v) ==
    /\ "BLOCKING" \in PushPolicies
    /\ call[t] = Idle
    /\ After(tail) = head
    /\ call' = [call EXCEPT ![t] = PushCall(v, After(tail))]
    /\ asleep' = asleep \cup {t}
    /\ UNCHANGED <<data, head, tail, overtaken>>

\* Mutant: "if" instead of "while" around uv_cond_wait.
PushResumes_NoRecheck(t) ==
    /\ call[t].op = "push"
    /\ t \notin asleep
    /\ data' = [data EXCEPT ![tail] = call[t].val]
    /\ tail' = call[t].new_tail
    /\ call' = [call EXCEPT ![t] = Idle]
    /\ Signal
    /\ UNCHANGED <<head, overtaken>>

\* A woken push has the mutex again and tests the loop condition once more.
PushResumes(t) ==
    /\ call[t].op = "push"
    /\ t \notin asleep
    /\ \/ Store(t, call[t].val, call[t].new_tail)
       \/ /\ call[t].new_tail = head
          /\ goes_by(call[t].new_tail)
          /\ asleep' = asleep \cup {t}
          /\ UNCHANGED <<data, head, tail, call>>

\* Mutant: the slot is not cleared.
Remove_KeepsSlot(t) ==
    /\ head /= tail
    /\ head' = After(head)
    /\ call' = [call EXCEPT ![t] = Idle]
    /\ Signal
    /\ UNCHANGED <<data, tail, overtaken>>

\* Mutant: nobody is told that there is room now.
Remove_NoSignal(t) ==
    /\ head /= tail
    /\ data' = [data EXCEPT ![head] = NULL]
    /\ head' = After(head)
    /\ call' = [call EXCEPT ![t] = Idle]
    /\ UNCHANGED <<tail, asleep, overtaken>>

\* The part of dicey_queue_pop past the wait loop.
Remove(t) ==
    /\ head /= tail
    /\ data' = [data EXCEPT ![head] = NULL]
    /\ head' = After(head)
    /\ call' = [call EXCEPT ![t] = Idle]
    /\ Signal
    /\ UNCHANGED <<tail, overtaken>>

Pop(t) ==
    /\ call[t] = Idle
    /\ Remove(t)

PopBlocks(t) ==
    /\ "BLOCKING" \in PopPolicies
    /\ call[t] = Idle
    /\ head = tail
    /\ call' = [call EXCEPT ![t] = PopCall]
    /\ asleep' = asleep \cup {t}
    /\ UNCHANGED <<data, head, tail, overtaken>>

PopResumes(t) ==
    /\ call[t] = PopCall
    /\ t \notin asleep
    /\ \/ Remove(t)
       \/ /\ head = tail
          /\ asleep' = asleep \cup {t}
          /\ UNCHANGED <<data, head, tail, call, overtaken>>

\* uv_cond_wait may return although nobody signalled.
SpuriousWakeup(t) ==
    /\ t \in asleep
    /\ asleep' = asleep \ {t}
    /\ UNCHANGED <<data, head, tail, call, overtaken>>

Next ==
    \/ \E t \in Producers :
        \/ \E v \in Values : Push(t, v) \/ PushBlocks(t, v)
        \/ PushResumes(t)
    \/ \E t \in Consumers : Pop(t) \/ PopBlocks(t) \/ PopResumes(t)
    \/ \E t \in Threads : SpuriousWakeup(t)

Spec == Init /\ [][Next]_vars

\* The event loop goes on popping and a woken thread gets the mutex; nothing
\* obliges a thread to start a call.
FairSpec ==
    /\ Spec
    /\ \A t \in Consumers : WF_vars(Pop(t)) /\ WF_vars(PopResumes(t))
    /\ \A t \in Producers : WF_vars(PushResumes(t))

-----------------------------------------------------------------------------
\* dicey_queue_size, and what lies between head and tail, oldest first (the
\* values dicey_queue_deinit hands to free_data).
Size == (tail - head + REQUEST_QUEUE_CAP) % REQUEST_QUEUE_CAP
Contents == [i \in 1 .. Size |-> data[(head + i - 1) % REQUEST_QUEUE_CAP]]

\* The assertion of dicey_queue_push: the slot the next push writes is free.
TailSlotIsFree == data[tail] = NULL

\* A slot holds a value exactly when it lies between head and tail, for any
\* number of threads in dicey_queue_push and dicey_queue_pop: no push overwrites
\* a queued value, no pop returns NULL, and deinit frees all that is queued.
\* The one way out is a push whose new_tail went stale while it slept.
InWindow(i) == IF head <= tail THEN head <= i /\ i < tail ELSE head <= i \/ i < tail
SlotsMatchWindow == overtaken \/ \A i \in Slot : data[i] /= NULL <=> InWindow(i)

\* What a blocked call asks for, without the new_tail it carries along.
Request(c) == IF c.op = "push" THEN [op |-> "push", val |-> c.val] ELSE c

Fifo == INSTANCE BoundedFifo WITH
    Slots <- REQUEST_QUEUE_CAP - 1,
    queue <- Contents,
    pending <- [t \in Threads |-> Request(call[t])]

\* Every value handed over is delivered once and in order, and a blocked call
\* that returns has really stored or taken its value: up to the first push that
\* uses a stale new_tail, each step of the ring is one of the FIFO, or none.
RefinesFifo == Fifo!Init /\ [][Fifo!Next \/ overtaken']_(Fifo!fifoVars)

\* dicey_queue_push with the blocking policy returns as long as the event loop
\* keeps draining the queue, although producers and consumers sleep on the same
\* condition variable and one of them is woken up at a time: only other threads
\* that go on pushing can keep it from the room that is made.
PushReturns ==
    \A t \in Producers :
        \/ call[t].op = "push" ~> call[t].op /= "push" \/ overtaken
        \/ []<><<\E u \in Producers \ {t}, v \in Values : Push(u, v) \/ PushResumes(u)>>_tail
=============================================================================
