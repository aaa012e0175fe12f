------------------------ MODULE RequestQueueProofs ------------------------
(***************************************************************************)
(* Proofs about the request queue, for every capacity, every set of values *)
(* and any number of producers and consumers, blocking or not.             *)
(***************************************************************************)
EXTENDS RequestQueue, TLAPS

\* The slots between head and tail, and no others, are in use.
Aligned == \A i \in Slot : data[i] /= NULL <=> InWindow(i)

IndInv == TypeOK /\ SlotsMatchWindow

\* The wrap-around of head and tail, without the modulus.
LEMMA AfterWraps ==
    ASSUME NEW i \in Slot
    PROVE  /\ After(i) = IF i = REQUEST_QUEUE_CAP - 1 THEN 0 ELSE i + 1
           /\ After(i) \in Slot
  BY CapAssumption, SMT DEF After, Slot

\* The calls that a thread can be blocked in, told apart by their op.
LEMMA CallShapes ==
    /\ Idle.op = "idle"
    /\ PopCall.op = "pop"
    /\ \A v \in Values, nt \in Slot :
         /\ PushCall(v, nt).op = "push"
         /\ PushCall(v, nt).val = v
         /\ PushCall(v, nt).new_tail = nt
         /\ PushCall(v, nt) \in Calls
    /\ \A c \in Calls \cup {Idle} :
         /\ c.op = "push" => c.val \in Values /\ c.new_tail \in Slot
         /\ c.op = "push" => c /= Idle
    /\ PopCall \in Calls /\ PopCall /= Idle
  BY DEF Idle, PopCall, PushCall, Calls

\* What a call of thread t and the sleepers are after a step that ends the call
\* of t, or puts t to sleep in the call c.
LEMMA CallsKeep ==
    ASSUME IndInv, NEW t \in Threads, NEW c \in Calls \cup {Idle},
           call' = [call EXCEPT ![t] = c],
           asleep' \in SUBSET (IF c = Idle THEN asleep \ {t} ELSE asleep \cup {t})
    PROVE  /\ call' \in [Threads -> Calls \cup {Idle}]
           /\ asleep' \in SUBSET {u \in Threads : call'[u] /= Idle}
  <1>1. call \in [Threads -> Calls \cup {Idle}] /\ asleep \in SUBSET {u \in Threads : call[u] /= Idle}
    BY Zenon DEF IndInv, TypeOK
  <1>2. call' \in [Threads -> Calls \cup {Idle}] /\ \A u \in Threads : call'[u] = IF u = t THEN c ELSE call[u]
    BY Zenon, <1>1
  <1>3. asleep' \in SUBSET {u \in Threads : call'[u] /= Idle}
    BY Zenon, <1>1, <1>2
  <1> QED BY Zenon, <1>2, <1>3

\* The step past the wait loop of dicey_queue_push fills the slot at tail and
\* moves tail over it, whatever thread runs it, unless its new_tail is stale.
LEMMA StorePreserves ==
    ASSUME IndInv, NEW t \in Threads, NEW v \in Values, NEW nt \in Slot,
           t \notin asleep, Store(t, v, nt)
    PROVE  IndInv'
  <1>1. head \in Slot /\ tail \in Slot /\ data \in [Slot -> Values \cup {NULL}]
    BY Zenon DEF IndInv, TypeOK
  <1>2. /\ data' = [data EXCEPT ![tail] = v] /\ tail' = nt /\ head' = head /\ nt /= head
        /\ overtaken' = (overtaken \/ nt /= After(tail))
    BY Zenon DEF Store, goes_by
  <1>3. call' = [call EXCEPT ![t] = Idle] /\ asleep' \in SUBSET (asleep \ {t})
    BY Zenon DEF Store, Signal
  <1>4. /\ call' \in [Threads -> Calls \cup {Idle}]
        /\ asleep' \in SUBSET {u \in Threads : call'[u] /= Idle}
    BY Zenon, <1>3, CallsKeep, CallShapes
  <1>5. TypeOK'
    <2>1. data' \in [Slot -> Values \cup {NULL}]
      BY Zenon, <1>1, <1>2
    <2>2. overtaken' \in BOOLEAN
      BY Zenon, <1>2
    <2> QED BY Zenon, <1>1, <1>2, <1>4, <2>1, <2>2 DEF TypeOK
  <1>6. SlotsMatchWindow'
    <2>1. CASE overtaken'
      BY Zenon, <2>1 DEF SlotsMatchWindow
    <2>2. CASE ~overtaken'
      <3>1. ~overtaken /\ nt = After(tail) /\ Aligned
        BY Zenon, <1>2, <2>2 DEF IndInv, SlotsMatchWindow, Aligned
      <3>2. \A i \in Slot : data'[i] /= NULL <=> data[i] /= NULL \/ i = tail
        BY Zenon, <1>1, <1>2, ValuesAssumption
      <3>3. /\ tail' = (IF tail = REQUEST_QUEUE_CAP - 1 THEN 0 ELSE tail + 1)
            /\ tail' /= head /\ head' = head
        BY Zenon, <1>1, <1>2, <3>1, AfterWraps
      <3>4. \A i \in Slot : InWindow(i)' <=> InWindow(i) \/ i = tail
        BY <1>1, <3>3, CapAssumption, SMT DEF InWindow, Slot
      <3> QED BY Zenon, <3>1, <3>2, <3>4 DEF SlotsMatchWindow, Aligned
    <2> QED BY Zenon, <2>1, <2>2
  <1> QED BY Zenon, <1>5, <1>6 DEF IndInv

\* The step past the wait loop of dicey_queue_pop empties the slot at head and
\* moves head over it.
LEMMA RemovePreserves ==
    ASSUME IndInv, NEW t \in Threads, t \notin asleep, Remove(t)
    PROVE  IndInv'
  <1>1. head \in Slot /\ tail \in Slot /\ data \in [Slot -> Values \cup {NULL}]
    BY Zenon DEF IndInv, TypeOK
  <1>2. /\ data' = [data EXCEPT ![head] = NULL] /\ tail' = tail /\ head /= tail
        /\ head' = After(head) /\ After(head) \in Slot /\ overtaken' = overtaken
    BY Zenon, <1>1, AfterWraps DEF Remove
  <1>3. call' = [call EXCEPT ![t] = Idle] /\ asleep' \in SUBSET (asleep \ {t})
    BY Zenon DEF Remove, Signal
  <1>4. /\ call' \in [Threads -> Calls \cup {Idle}]
        /\ asleep' \in SUBSET {u \in Threads : call'[u] /= Idle}
    BY Zenon, <1>3, CallsKeep, CallShapes
  <1>5. TypeOK'
    <2>1. data' \in [Slot -> Values \cup {NULL}]
      BY Zenon, <1>1, <1>2
    <2>2. overtaken' \in BOOLEAN
      BY Zenon, <1>2 DEF IndInv, TypeOK
    <2> QED BY Zenon, <1>1, <1>2, <1>4, <2>1, <2>2 DEF TypeOK
  <1>6. SlotsMatchWindow'
    <2>1. CASE overtaken
      BY Zenon, <1>2, <2>1 DEF SlotsMatchWindow
    <2>2. CASE Aligned
      <3>1. \A i \in Slot : data'[i] /= NULL <=> data[i] /= NULL /\ i /= head
        BY Zenon, <1>1, <1>2
      <3>2. head' = (IF head = REQUEST_QUEUE_CAP - 1 THEN 0 ELSE head + 1)
        BY Zenon, <1>1, <1>2, AfterWraps
      <3>3. \A i \in Slot : InWindow(i)' <=> InWindow(i) /\ i /= head
        BY <1>1, <1>2, <3>2, CapAssumption, SMT DEF InWindow, Slot
      <3> QED BY Zenon, <2>2, <3>1, <3>3 DEF SlotsMatchWindow, Aligned
    <2> QED BY Zenon, <2>1, <2>2 DEF IndInv, SlotsMatchWindow, Aligned
  <1> QED BY Zenon, <1>5, <1>6 DEF IndInv

\* Going to sleep, inside a call that is already blocked or that blocks now,
\* leaves the ring as it is.
LEMMA SleepPreserves ==
    ASSUME IndInv, NEW t \in Threads, NEW c \in Calls,
           call' = [call EXCEPT ![t] = c],
           asleep' = asleep \cup {t},
           UNCHANGED <<data, head, tail>>,
           overtaken' \in BOOLEAN, overtaken => overtaken'
    PROVE  IndInv'
  <1>1. c /= Idle
    BY DEF Calls, PushCall, PopCall, Idle
  <1>2. /\ call' \in [Threads -> Calls \cup {Idle}]
        /\ asleep' \in SUBSET {u \in Threads : call'[u] /= Idle}
    BY Zenon, <1>1, CallsKeep
  <1>3. TypeOK'
    BY Zenon, <1>2 DEF IndInv, TypeOK
  <1>4. SlotsMatchWindow'
    BY Zenon DEF IndInv, SlotsMatchWindow, InWindow
  <1> QED BY Zenon, <1>3, <1>4 DEF IndInv

\* The inductive invariant is kept by every step.
LEMMA NextPreserves ==
    ASSUME IndInv, [Next]_vars
    PROVE  IndInv'
  <1> USE DEF Threads
  <1>1. \A t \in Threads : call[t] \in Calls \cup {Idle}
    BY Zenon DEF IndInv, TypeOK
  <1>2. ASSUME NEW t \in Producers, NEW v \in Values, Push(t, v)
        PROVE  IndInv'
    <2>1. t \notin asleep /\ After(tail) \in Slot
      BY Zenon, <1>2, AfterWraps DEF Push, IndInv, TypeOK
    <2> QED BY Zenon, <1>2, <2>1, StorePreserves DEF Push
  <1>3. ASSUME NEW t \in Producers, NEW v \in Values, PushBlocks(t, v)
        PROVE  IndInv'
    <2> DEFINE c == PushCall(v, After(tail))
    <2>1. c \in Calls
      BY CallShapes, AfterWraps DEF IndInv, TypeOK
    <2> HIDE DEF c
    <2>2. /\ call' = [call EXCEPT ![t] = c]
          /\ asleep' = asleep \cup {t}
          /\ UNCHANGED <<data, head, tail>>
          /\ overtaken' = overtaken /\ overtaken \in BOOLEAN
      BY Zenon, <1>3 DEF PushBlocks, c, IndInv, TypeOK
    <2> QED BY Zenon, <2>1, <2>2, SleepPreserves
  <1>4. ASSUME NEW t \in Producers, PushResumes(t)
        PROVE  IndInv'
    <2>1. /\ call[t].op = "push" /\ t \notin asleep /\ call[t] \in Calls
          /\ call[t].val \in Values /\ call[t].new_tail \in Slot
      BY Zenon, <1>1, <1>4, CallShapes DEF PushResumes
    <2>2. CASE Store(t, call[t].val, call[t].new_tail)
      BY Zenon, <2>1, <2>2, StorePreserves
    <2>3. CASE /\ asleep' = asleep \cup {t} /\ UNCHANGED <<data, head, tail, call>>
               /\ goes_by(call[t].new_tail)
      <3>1. /\ call' = [call EXCEPT ![t] = call[t]]
            /\ overtaken' \in BOOLEAN /\ (overtaken => overtaken')
        BY Zenon, <2>3 DEF IndInv, TypeOK, goes_by
      <3> QED BY Zenon, <2>1, <2>3, <3>1, SleepPreserves
    <2> QED BY Zenon, <1>4, <2>2, <2>3 DEF PushResumes
  <1>5. ASSUME NEW t \in Consumers, Pop(t)
        PROVE  IndInv'
    <2>1. t \notin asleep
      BY Zenon, <1>5 DEF Pop, IndInv, TypeOK
    <2> QED BY Zenon, <1>5, <2>1, RemovePreserves DEF Pop
  <1>6. ASSUME NEW t \in Consumers, PopBlocks(t)
        PROVE  IndInv'
    <2>1. PopCall \in Calls
      BY Zenon, CallShapes
    <2>2. /\ call' = [call EXCEPT ![t] = PopCall]
          /\ asleep' = asleep \cup {t}
          /\ UNCHANGED <<data, head, tail>>
          /\ overtaken' = overtaken /\ overtaken \in BOOLEAN
      BY Zenon, <1>6 DEF PopBlocks, IndInv, TypeOK
    <2> QED BY Zenon, <2>1, <2>2, SleepPreserves
  <1>7. ASSUME NEW t \in Consumers, PopResumes(t)
        PROVE  IndInv'
    <2>1. t \notin asleep /\ call[t] = PopCall /\ PopCall \in Calls
      BY Zenon, <1>7, CallShapes DEF PopResumes
    <2>2. CASE Remove(t)
      BY Zenon, <2>1, <2>2, RemovePreserves
    <2>3. CASE asleep' = asleep \cup {t} /\ UNCHANGED <<data, head, tail, call, overtaken>>
      <3>1. call' = [call EXCEPT ![t] = PopCall] /\ overtaken \in BOOLEAN
        BY Zenon, <2>1, <2>3 DEF IndInv, TypeOK
      <3> QED BY Zenon, <2>1, <2>3, <3>1, SleepPreserves
    <2> QED BY Zenon, <1>7, <2>2, <2>3 DEF PopResumes
  <1>8. ASSUME NEW t \in Threads, SpuriousWakeup(t)
        PROVE  IndInv'
    <2>1. TypeOK'
      BY Zenon, <1>8 DEF SpuriousWakeup, IndInv, TypeOK
    <2> QED BY Zenon, <1>8, <2>1 DEF SpuriousWakeup, IndInv, SlotsMatchWindow, InWindow
  <1>9. CASE UNCHANGED vars
    BY Zenon, <1>9 DEF vars, IndInv, TypeOK, SlotsMatchWindow, InWindow
  <1> QED BY Zenon, <1>2, <1>3, <1>4, <1>5, <1>6, <1>7, <1>8, <1>9 DEF Next

LEMMA InitHolds == Init => IndInv
  <1> SUFFICES ASSUME Init PROVE IndInv
    BY Zenon
  <1>1. TypeOK
    <2>1. head \in Slot /\ tail \in Slot
      BY CapAssumption, SMT DEF Init, Slot
    <2> QED BY Zenon, <2>1 DEF Init, TypeOK
  <1>2. SlotsMatchWindow
    BY DEF Init, SlotsMatchWindow, InWindow, Slot
  <1> QED BY Zenon, <1>1, <1>2 DEF IndInv

-----------------------------------------------------------------------------
\* Type correctness of the ring and of the blocked calls: head and tail stay
\* inside the ring whatever the threads do.
THEOREM QueueTypeCorrect == Spec => []TypeOK
  <1>1. Init => IndInv
    BY Zenon, InitHolds
  <1>2. IndInv /\ [Next]_vars => IndInv'
    BY Zenon, NextPreserves
  <1>3. IndInv => TypeOK
    BY Zenon DEF IndInv
  <1> QED BY <1>1, <1>2, <1>3, PTL DEF Spec

\* The ring never overwrites a queued value and never hands out NULL, for any
\* capacity and any threads, before a push goes by a stale new_tail.
THEOREM QueueSlotsMatchWindow == Spec => []SlotsMatchWindow
  <1>1. Init => IndInv
    BY Zenon, InitHolds
  <1>2. IndInv /\ [Next]_vars => IndInv'
    BY Zenon, NextPreserves
  <1>3. IndInv => SlotsMatchWindow
    BY Zenon DEF IndInv
  <1> QED BY <1>1, <1>2, <1>3, PTL DEF Spec

-----------------------------------------------------------------------------
\* dicey_queue_size and the slot of the i-th queued value, without the modulus.
LEMMA SizeWraps ==
    ASSUME head \in Slot, tail \in Slot
    PROVE  /\ Size = IF head <= tail THEN tail - head
                                     ELSE tail - head + REQUEST_QUEUE_CAP
           /\ Size \in 0 .. REQUEST_QUEUE_CAP - 1
  BY CapAssumption, SMT DEF Size, Slot

Position(i) ==
    IF head + i - 1 < REQUEST_QUEUE_CAP THEN head + i - 1
                                        ELSE head + i - 1 - REQUEST_QUEUE_CAP

LEMMA PositionWraps ==
    ASSUME head \in Slot, NEW i \in 1 .. REQUEST_QUEUE_CAP
    PROVE  /\ (head + i - 1) % REQUEST_QUEUE_CAP = Position(i)
           /\ Position(i) \in Slot
  BY CapAssumption, SMT DEF Position, Slot

\* What is queued is a sequence of values, one for each slot of the window.
LEMMA ContentsIsSeq ==
    ASSUME TypeOK, Aligned
    PROVE  /\ Contents \in Seq(Values)
           /\ Len(Contents) = Size
           /\ Size \in 0 .. REQUEST_QUEUE_CAP - 1
           /\ \A i \in 1 .. Size : Contents[i] = data[Position(i)]
  <1>1. head \in Slot /\ tail \in Slot /\ data \in [Slot -> Values \cup {NULL}]
    BY Zenon DEF TypeOK
  <1>2. Size \in 0 .. REQUEST_QUEUE_CAP - 1
    BY Zenon, <1>1, SizeWraps
  <1>3. \A i \in 1 .. Size : i \in 1 .. REQUEST_QUEUE_CAP
    BY <1>2, CapAssumption
  <1>4. ASSUME NEW i \in 1 .. Size
        PROVE  Contents[i] = data[Position(i)] /\ data[Position(i)] \in Values
    <2>1. Contents[i] = data[(head + i - 1) % REQUEST_QUEUE_CAP]
      BY Zenon DEF Contents
    <2>2. Position(i) \in Slot /\ Contents[i] = data[Position(i)]
      BY Zenon, <1>1, <1>3, <2>1, PositionWraps
    <2>3. InWindow(Position(i))
      BY <1>1, SizeWraps, CapAssumption, SMT DEF InWindow, Position, Slot
    <2> QED BY Zenon, <1>1, <2>2, <2>3 DEF Aligned
  <1>5. DOMAIN Contents = 1 .. Size
    BY Zenon DEF Contents
  <1>6. Contents \in [1 .. Size -> Values]
    BY Zenon, <1>4, <1>5 DEF Contents
  <1> QED BY <1>2, <1>4, <1>6

\* The same facts about the state after a step.
RingShape ==
    /\ Contents \in Seq(Values)
    /\ Len(Contents) = Size
    /\ Size \in 0 .. REQUEST_QUEUE_CAP - 1
    /\ Size = IF head <= tail THEN tail - head ELSE tail - head + REQUEST_QUEUE_CAP
    /\ \A i \in 1 .. Size : Contents[i] = data[Position(i)]

LEMMA RingShapeHolds == TypeOK /\ Aligned => RingShape
  BY Zenon, ContentsIsSeq, SizeWraps DEF RingShape, TypeOK

LEMMA RingShapeNext == (TypeOK /\ Aligned)' => RingShape'
  BY RingShapeHolds, PTL

\* Storing appends to what is queued.
LEMMA StoreAppends ==
    ASSUME TypeOK, Aligned, TypeOK', Aligned', NEW t, NEW v \in Values, Store(t, v, After(tail))
    PROVE  /\ Contents' = Append(Contents, v)
           /\ Len(Contents) < REQUEST_QUEUE_CAP - 1
  <1>1. /\ head \in Slot /\ tail \in Slot /\ data \in [Slot -> Values \cup {NULL}]
        /\ head' = head /\ tail' = After(tail) /\ After(tail) /= head
        /\ data' = [data EXCEPT ![tail] = v]
    BY Zenon DEF TypeOK, Store
  <1>2. /\ Contents \in Seq(Values) /\ Len(Contents) = Size
        /\ \A i \in 1 .. Size : Contents[i] = data[Position(i)]
    BY Zenon, ContentsIsSeq
  <1>3. /\ Contents' \in Seq(Values) /\ Len(Contents') = Size'
        /\ \A i \in 1 .. Size' : Contents'[i] = data'[Position(i)']
    BY Zenon, RingShapeNext DEF RingShape
  <1>4. /\ Size = IF head <= tail THEN tail - head ELSE tail - head + REQUEST_QUEUE_CAP
        /\ Size \in Nat
    BY <1>1, SizeWraps
  <1>5. /\ Size' = IF head' <= tail' THEN tail' - head' ELSE tail' - head' + REQUEST_QUEUE_CAP
        /\ After(tail) = IF tail = REQUEST_QUEUE_CAP - 1 THEN 0 ELSE tail + 1
    BY Zenon, <1>1, AfterWraps, RingShapeNext DEF RingShape
  <1>6. Size' = Size + 1 /\ Size < REQUEST_QUEUE_CAP - 1
    BY <1>1, <1>4, <1>5, CapAssumption, SMT DEF Slot
  <1>7. ASSUME NEW i \in 1 .. Size + 1
        PROVE  Contents'[i] = Append(Contents, v)[i]
    <2>1. Position(i)' = Position(i)
      BY Zenon, <1>1 DEF Position
    <2>2. CASE i = Size + 1
      <3>1. Position(i) = tail
        BY <1>1, <1>4, <1>6, <2>2, CapAssumption, SMT DEF Position, Slot
      <3> QED BY <1>1, <1>2, <1>3, <1>6, <2>1, <2>2, <3>1
    <2>3. CASE i \in 1 .. Size
      <3>1. Position(i) /= tail /\ Position(i) \in Slot
        BY <1>1, <1>4, <1>6, <2>3, CapAssumption, SMT DEF Position, Slot
      <3> QED BY <1>1, <1>2, <1>3, <1>6, <2>1, <2>3, <3>1
    <2>4. i = Size + 1 \/ i \in 1 .. Size
      BY <1>4
    <2> QED BY Zenon, <2>2, <2>3, <2>4
  <1> QED BY <1>2, <1>3, <1>6, <1>7

\* Removing takes away the oldest value.
LEMMA RemoveTakesFirst ==
    ASSUME TypeOK, Aligned, TypeOK', Aligned', NEW t, Remove(t)
    PROVE  Contents /= << >> /\ Contents' = Tail(Contents)
  <1>1. /\ head \in Slot /\ tail \in Slot /\ data \in [Slot -> Values \cup {NULL}]
        /\ tail' = tail /\ head' = After(head) /\ head /= tail
        /\ data' = [data EXCEPT ![head] = NULL]
    BY Zenon DEF TypeOK, Remove
  <1>2. /\ Contents \in Seq(Values) /\ Len(Contents) = Size
        /\ \A i \in 1 .. Size : Contents[i] = data[Position(i)]
    BY Zenon, ContentsIsSeq
  <1>3. /\ Contents' \in Seq(Values) /\ Len(Contents') = Size'
        /\ \A i \in 1 .. Size' : Contents'[i] = data'[Position(i)']
    BY Zenon, RingShapeNext DEF RingShape
  <1>4. /\ Size = IF head <= tail THEN tail - head ELSE tail - head + REQUEST_QUEUE_CAP
        /\ Size \in 0 .. REQUEST_QUEUE_CAP - 1
    BY Zenon, <1>1, SizeWraps
  <1>5. /\ Size' = IF head' <= tail' THEN tail' - head' ELSE tail' - head' + REQUEST_QUEUE_CAP
        /\ After(head) = IF head = REQUEST_QUEUE_CAP - 1 THEN 0 ELSE head + 1
    BY Zenon, <1>1, AfterWraps, RingShapeNext DEF RingShape
  <1>6. Size > 0 /\ Size' = Size - 1
    BY <1>1, <1>4, <1>5, CapAssumption, SMT DEF Slot
  <1>7. ASSUME NEW i \in 1 .. Size - 1
        PROVE  Contents'[i] = Tail(Contents)[i]
    <2>1. Position(i)' = Position(i + 1) /\ Position(i + 1) /= head /\ Position(i + 1) \in Slot
      BY <1>1, <1>4, <1>5, CapAssumption, SMT DEF Position, Slot
    <2>2. i \in 1 .. Size' /\ i + 1 \in 1 .. Size
      BY <1>4, <1>6
    <2>3. Contents'[i] = data[Position(i + 1)]
      BY Zenon, <1>1, <1>3, <2>1, <2>2
    <2>4. Tail(Contents)[i] = Contents[i + 1]
      BY <1>2, <1>4, <1>6
    <2> QED BY Zenon, <1>2, <2>2, <2>3, <2>4
  <1>8. Len(Tail(Contents)) = Size - 1 /\ Tail(Contents) \in Seq(Values) /\ Contents /= << >>
    BY <1>2, <1>4, <1>6
  <1> QED BY <1>3, <1>6, <1>7, <1>8

\* A step that leaves the ring alone leaves what is queued alone.
LEMMA RingUnchanged ==
    ASSUME UNCHANGED <<data, head, tail>>
    PROVE  Contents' = Contents
  BY Zenon DEF Contents, Size

Pending == [t \in Threads |-> Request(call[t])]

\* A change of one thread's call changes that thread's request and no other.
LEMMA PendingChanges ==
    ASSUME call \in [Threads -> Calls \cup {Idle}], NEW t \in Threads, NEW c,
           call' = [call EXCEPT ![t] = c]
    PROVE  Pending' = [Pending EXCEPT ![t] = Request(c)] /\ Pending[t] = Request(call[t])
  <1>1. \A u \in Threads : call'[u] = IF u = t THEN c ELSE call[u]
    BY Zenon
  <1>2. Pending' = [u \in Threads |-> Request(call'[u])]
    BY Zenon DEF Pending, Request
  <1> HIDE DEF Request
  <1> QED BY Zenon, <1>1, <1>2 DEF Pending

LEMMA Requests ==
    /\ Request(Idle) = [op |-> "idle"]
    /\ Request(PopCall) = [op |-> "pop"]
    /\ \A v, nt : Request(PushCall(v, nt)) = [op |-> "push", val |-> v]
    /\ \A c : c.op = "push" => Request(c) = [op |-> "push", val |-> c.val]
  BY Zenon DEF Request, Idle, PopCall, PushCall

\* The request queue implements the bounded first-in first-out queue of
\* BoundedFifo, step by step until a push goes by a stale new_tail: no accepted
\* value is lost, duplicated or reordered, and a blocked dicey_queue_push returns
\* only once its value is queued.
THEOREM QueueRefinesFifo == Spec => RefinesFifo
  <1> USE DEF Fifo!Idle, Fifo!PopCall, Fifo!PushOf
  <1>1. Init => Fifo!Init
    <2> SUFFICES ASSUME Init PROVE Contents = << >> /\ Pending = [t \in Threads |-> Fifo!Idle]
      BY Zenon DEF Fifo!Init, Pending
    <2>1. Size = 0
      BY CapAssumption, SMT DEF Init, Size
    <2>2. Contents = << >>
      BY <2>1 DEF Contents
    <2> QED BY Zenon, <2>2, Requests DEF Init, Pending
  <1>2. ASSUME TypeOK, Aligned, TypeOK', Aligned', ~overtaken', [Next]_vars
        PROVE  [Fifo!Next]_(Fifo!fifoVars)
    <2> Producers \subseteq Threads /\ Consumers \subseteq Threads
      BY Zenon DEF Threads
    <2>1. call \in [Threads -> Calls \cup {Idle}] /\ call' \in [Threads -> Calls \cup {Idle}]
      BY Zenon, <1>2 DEF TypeOK
    <2>2. ASSUME NEW t \in Producers, NEW v \in Values, Push(t, v)
          PROVE  Fifo!Put(t, v)
      <3>1. Contents' = Append(Contents, v) /\ Len(Contents) < REQUEST_QUEUE_CAP - 1
        BY Zenon, <1>2, <2>2, StoreAppends DEF Push
      <3>2. Pending' = [Pending EXCEPT ![t] = Fifo!Idle] /\ Pending[t] = Fifo!Idle
        <4>1. t \in Threads /\ call' = [call EXCEPT ![t] = Idle] /\ call[t] = Idle
          BY Zenon, <2>2 DEF Push, Store
        <4>2. Pending' = [Pending EXCEPT ![t] = Request(Idle)] /\ Pending[t] = Request(call[t])
          BY <2>1, <4>1, PendingChanges, Zenon
        <4> QED BY Zenon, <4>1, <4>2, Requests
      <3> QED BY Zenon, <3>1, <3>2 DEF Fifo!Put, Pending
    <2>3. ASSUME NEW t \in Producers, NEW v \in Values, PushBlocks(t, v)
          PROVE  Fifo!SuspendPut(t, v)
      <3>1. Contents' = Contents
        BY Zenon, <2>3, RingUnchanged DEF PushBlocks
      <3>2. Len(Contents) = REQUEST_QUEUE_CAP - 1
        <4>1. Len(Contents) = Size /\ head \in Slot /\ tail \in Slot
          BY Zenon, <1>2, ContentsIsSeq DEF TypeOK
        <4>2. Size = IF head <= tail THEN tail - head ELSE tail - head + REQUEST_QUEUE_CAP
          BY Zenon, <4>1, SizeWraps
        <4>3. head = IF tail = REQUEST_QUEUE_CAP - 1 THEN 0 ELSE tail + 1
          BY Zenon, <2>3, <4>1, AfterWraps DEF PushBlocks
        <4> QED BY <4>1, <4>2, <4>3, CapAssumption, SMT DEF Slot
      <3>3. Pending' = [Pending EXCEPT ![t] = [op |-> "push", val |-> v]] /\ Pending[t] = Fifo!Idle
        <4>1. /\ t \in Threads /\ call[t] = Idle
              /\ call' = [call EXCEPT ![t] = PushCall(v, After(tail))]
          BY Zenon, <2>3 DEF PushBlocks
        <4>2. Pending' = [Pending EXCEPT ![t] = Request(PushCall(v, After(tail)))] /\ Pending[t] = Request(call[t])
          BY <2>1, <4>1, PendingChanges, Zenon
        <4> QED BY Zenon, <4>1, <4>2, Requests
      <3> QED BY Zenon, <3>1, <3>2, <3>3 DEF Fifo!SuspendPut, Pending
    <2>4. ASSUME NEW t \in Producers, PushResumes(t)
          PROVE  (Fifo!Put(t, call[t].val) /\ call[t].val \in Values) \/ UNCHANGED Fifo!fifoVars
      <3>1. /\ call[t].op = "push" /\ call[t].val \in Values
            /\ call[t].new_tail = After(tail)
        BY Zenon, <1>2, <2>1, <2>4, CallShapes DEF PushResumes, Store, goes_by
      <3>2. CASE Store(t, call[t].val, call[t].new_tail)
        <4>1. Contents' = Append(Contents, call[t].val) /\ Len(Contents) < REQUEST_QUEUE_CAP - 1
          BY Zenon, <1>2, <3>1, <3>2, StoreAppends
        <4>2. Pending' = [Pending EXCEPT ![t] = Fifo!Idle]
          <5>1. t \in Threads /\ call' = [call EXCEPT ![t] = Idle]
            BY Zenon, <3>2 DEF Store
          <5>2. Pending' = [Pending EXCEPT ![t] = Request(Idle)] /\ Pending[t] = Request(call[t])
            BY <2>1, <5>1, PendingChanges, Zenon
          <5> QED BY Zenon, <5>1, <5>2, Requests
        <4>3. Pending[t] = [op |-> "push", val |-> call[t].val]
          BY Zenon, <3>1, Requests DEF Pending
        <4> QED BY Zenon, <3>1, <4>1, <4>2, <4>3 DEF Fifo!Put, Pending
      <3>3. CASE UNCHANGED <<data, head, tail, call>>
        BY Zenon, <3>3, RingUnchanged DEF Fifo!fifoVars
      <3> QED BY Zenon, <2>4, <3>2, <3>3 DEF PushResumes
    <2>5. ASSUME NEW t \in Consumers, Pop(t)
          PROVE  Fifo!Take(t)
      <3>1. Contents /= << >> /\ Contents' = Tail(Contents)
        BY Zenon, <1>2, <2>5, RemoveTakesFirst DEF Pop
      <3>2. Pending' = [Pending EXCEPT ![t] = Fifo!Idle] /\ Pending[t] = Fifo!Idle
        <4>1. t \in Threads /\ call' = [call EXCEPT ![t] = Idle] /\ call[t] = Idle
          BY Zenon, <2>5 DEF Pop, Remove
        <4>2. Pending' = [Pending EXCEPT ![t] = Request(Idle)] /\ Pending[t] = Request(call[t])
          BY <2>1, <4>1, PendingChanges, Zenon
        <4> QED BY Zenon, <4>1, <4>2, Requests
      <3> QED BY Zenon, <3>1, <3>2 DEF Fifo!Take, Pending
    <2>6. ASSUME NEW t \in Consumers, PopBlocks(t)
          PROVE  Fifo!SuspendTake(t)
      <3>1. Contents' = Contents
        BY Zenon, <2>6, RingUnchanged DEF PopBlocks
      <3>2. Contents = << >>
        <4>1. Size = 0
          BY <1>2, <2>6, SizeWraps, SMT DEF TypeOK, PopBlocks, Slot
        <4> QED BY <1>2, <4>1, ContentsIsSeq
      <3>3. Pending' = [Pending EXCEPT ![t] = Fifo!PopCall] /\ Pending[t] = Fifo!Idle
        <4>1. t \in Threads /\ call' = [call EXCEPT ![t] = PopCall] /\ call[t] = Idle
          BY Zenon, <2>6 DEF PopBlocks
        <4>2. Pending' = [Pending EXCEPT ![t] = Request(PopCall)] /\ Pending[t] = Request(call[t])
          BY <2>1, <4>1, PendingChanges, Zenon
        <4> QED BY Zenon, <4>1, <4>2, Requests
      <3> QED BY Zenon, <3>1, <3>2, <3>3 DEF Fifo!SuspendTake, Pending
    <2>7. ASSUME NEW t \in Consumers, PopResumes(t)
          PROVE  Fifo!Take(t) \/ UNCHANGED Fifo!fifoVars
      <3>1. CASE Remove(t)
        <4>1. Contents /= << >> /\ Contents' = Tail(Contents)
          BY Zenon, <1>2, <3>1, RemoveTakesFirst
        <4>2. Pending' = [Pending EXCEPT ![t] = Fifo!Idle] /\ Pending[t] = Fifo!PopCall
          <5>1. t \in Threads /\ call' = [call EXCEPT ![t] = Idle] /\ call[t] = PopCall
            BY Zenon, <2>7, <3>1 DEF PopResumes, Remove
          <5>2. Pending' = [Pending EXCEPT ![t] = Request(Idle)] /\ Pending[t] = Request(call[t])
            BY <2>1, <5>1, PendingChanges, Zenon
          <5> QED BY Zenon, <5>1, <5>2, Requests
        <4> QED BY Zenon, <4>1, <4>2 DEF Fifo!Take, Pending
      <3>2. CASE UNCHANGED <<data, head, tail, call>>
        BY Zenon, <3>2, RingUnchanged DEF Fifo!fifoVars
      <3> QED BY Zenon, <2>7, <3>1, <3>2 DEF PopResumes
    <2>8. CASE \E t \in Threads : SpuriousWakeup(t)
      BY Zenon, <2>8, RingUnchanged DEF SpuriousWakeup, Fifo!fifoVars
    <2>9. CASE UNCHANGED vars
      BY Zenon, <2>9, RingUnchanged DEF vars, Fifo!fifoVars
    <2> QED BY Zenon, <1>2, <2>2, <2>3, <2>4, <2>5, <2>6, <2>7, <2>8, <2>9 DEF Next, Fifo!Next
  <1>3. Init => IndInv
    BY Zenon, InitHolds
  <1>4. IndInv /\ [Next]_vars => IndInv'
    BY Zenon, NextPreserves
  <1>5. IndInv /\ IndInv' /\ [Next]_vars => [Fifo!Next \/ overtaken']_(Fifo!fifoVars)
    <2> SUFFICES ASSUME IndInv, IndInv', [Next]_vars, ~overtaken'
                 PROVE  [Fifo!Next]_(Fifo!fifoVars)
      BY Zenon
    <2>1. ~overtaken
      BY Zenon DEF Next, Push, PushBlocks, PushResumes, Store, goes_by, Pop, PopBlocks,
                   PopResumes, Remove, SpuriousWakeup, vars
    <2>2. TypeOK /\ Aligned /\ TypeOK' /\ Aligned'
      BY Zenon, <2>1 DEF IndInv, SlotsMatchWindow, Aligned
    <2> QED BY Zenon, <1>2, <2>2
  <1> QED BY <1>1, <1>3, <1>4, <1>5, PTL DEF Spec, RefinesFifo
=============================================================================
