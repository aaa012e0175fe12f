---------------------------- MODULE BoundedFifo ----------------------------
(***************************************************************************)
(* What ipc/queue.c promises its callers: a first-in first-out queue that  *)
(* holds at most Slots values.  A blocking caller that finds no room (or   *)
(* nothing to take) is suspended, and when its call at last returns, the   *)
(* value has been stored (taken).                                          *)
(***************************************************************************)
EXTENDS Naturals, Sequences

CONSTANTS Threads, Values, Slots

VARIABLES
    queue,    \* the values stored and not yet taken, oldest first
    pending   \* per thread: Idle, or the call it is suspended in

fifoVars == <<queue, pending>>

Idle == [op |-> "idle"]
PushOf(v) == [op |-> "push", val |-> v]
PopCall == [op |-> "pop"]

Init ==
    /\ queue = << >>
    /\ pending = [t \in Threads |-> Idle]

\* A value enters at the back and the call that stored it is over.
Put(t, v) ==
    /\ pending[t] \in {Idle, PushOf(v)}
    /\ Len(queue) < Slots
    /\ queue' = Append(queue, v)
    /\ pending' = [pending EXCEPT ![t] = Idle]

\* The value at the front leaves and the call that took it is over.
Take(t) ==
    /\ pending[t] \in {Idle, PopCall}
    /\ queue /= << >>
    /\ queue' = Tail(queue)
    /\ pending' = [pending EXCEPT ![t] = Idle]

SuspendPut(t, v) ==
    /\ pending[t] = Idle
    /\ Len(queue) = Slots
    /\ pending' = [pending EXCEPT ![t] = PushOf(v)]
    /\ UNCHANGED queue

SuspendTake(t) ==
    /\ pending[t] = Idle
    /\ queue = << >>
    /\ pending' = [pending EXCEPT ![t] = PopCall]
    /\ UNCHANGED queue

Next ==
    \E t \in Threads :
        \/ \E v \in Values : Put(t, v) \/ SuspendPut(t, v)
        \/ Take(t)
        \/ SuspendTake(t)

Spec == Init /\ [][Next]_fifoVars
============================================================================
