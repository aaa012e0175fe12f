--------------------------- MODULE PendingRequests ---------------------------
(***************************************************************************)
(* ipc/server/pending-reqs.c: the requests of one client that the server   *)
(* has accepted and not yet answered.  They live in a circular buffer      *)
(* ordered by sequence number; an answered request leaves a hole that      *)
(* keeps its sequence number, and a request is looked up by binary search. *)
(*                                                                         *)
(* Indices are size_t: they wrap at SIZE_MAX, and so does the arithmetic   *)
(* of the search.  A search that repeats itself never ends; SearchFuel is  *)
(* how many probes the model waits before it calls a search endless.       *)
(***************************************************************************)
EXTENDS Integers, FiniteSets, Functions

CONSTANTS
    Paths, NULL,
    STARTING_CAP,
    UINT32_MAX, SIZE_MAX,
    Habits,         \* what the code around the list may do, see below
    MaxSeq,         \* bound: the last sequence number a client sends
    MaxOutstanding, \* bound: how many requests a client leaves open
    SearchFuel

ASSUME HabitsAssumption ==
    Habits \subseteq {"any order", "gaps", "when full", "compaction", "prune"}

VARIABLE reqs   \* the dicey_pending_requests of a client, or NULL

FIRST_SEQ == 2
Seqs == 0 .. MaxSeq
Zero == [packet_seq |-> 0, path |-> NULL]   \* a slot as calloc leaves it

next_seq(cur) == IF cur < UINT32_MAX - 2 THEN cur + 2 ELSE FIRST_SEQ

index_of(rq, i) == ((rq.start + i) % (SIZE_MAX + 1)) % rq.cap

next_index(rq, i) == (i + 1) % rq.cap
is_hole(req) == req.path = NULL
total_len(rq) ==
    IF rq.end >= rq.start THEN rq.end - rq.start ELSE rq.cap - (rq.start - rq.end)
request_at(rq, i) == rq.reqs[index_of(rq, i)]
room_available(rq) == rq.start /= rq.end
Minus1(n) == (n + SIZE_MAX) % (SIZE_MAX + 1)

pending_requests_new(last) ==
    [last_seq |-> last, start |-> 0, end |-> 0, len |-> 0, cap |-> STARTING_CAP,
     reqs |-> [i \in 0 .. STARTING_CAP - 1 |-> Zero]]

-----------------------------------------------------------------------------
\* search_seq, one probe at a time.  "at" is the probed index, "wild" records
\* that some probe left the part of the buffer between start and end.
Probe(rq, seq, s) ==
    LET m == ((s.l + s.r) % (SIZE_MAX + 1)) \div 2
        req == request_at(rq, m)
        seen == [s EXCEPT !.at = m, !.wild = @ \/ m >= total_len(rq)]
    IN  IF s.st /= "go" THEN s
        ELSE IF s.l > s.r THEN [s EXCEPT !.st = "none"]
        ELSE IF req.packet_seq < seq THEN [seen EXCEPT !.l = (m + 1) % (SIZE_MAX + 1)]
        ELSE IF req.packet_seq > seq THEN [seen EXCEPT !.r = Minus1(m)]
        ELSE IF ~is_hole(req) THEN [seen EXCEPT !.st = "found"]
        ELSE seen

search_seq(rq, seq) ==
    LET first == [l |-> 0, r |-> Minus1(total_len(rq)), at |-> 0, wild |-> FALSE, st |-> "go"]
        after[k \in 0 .. SearchFuel] == IF k = 0 THEN first ELSE Probe(rq, seq, after[k - 1])
    IN  IF rq.len = 0 THEN [first EXCEPT !.st = "none"] ELSE after[SearchFuel]

\* Mutant: the whole slot is cleared, its sequence number included.
Invalidate_ClearsSeq(rq, m) ==
    LET i == index_of(rq, m)
    IN  [rq EXCEPT !.reqs[i] = Zero,
            !.start = IF i = rq.start THEN next_index(rq, i) ELSE @,
            !.len = Minus1(@)]

\* pending_request_invalidate takes an index counted from start.
Invalidate(rq, m) ==
    LET i == index_of(rq, m)
    IN  [rq EXCEPT
            !.reqs[i].path = NULL,
            !.start = IF i = rq.start THEN next_index(rq, i) ELSE @,
            !.end = IF i /= rq.start /\ next_index(rq, i) = rq.end
                    THEN next_index(rq, rq.end) ELSE @,
            !.len = Minus1(@)]

-----------------------------------------------------------------------------
\* The indices that the compaction visits: from start up to end, once round
\* the buffer when the two are equal.
Visited(rq) == 0 .. (IF rq.start = rq.end THEN rq.cap ELSE total_len(rq)) - 1

\* The n-th request kept by the compaction is the n-th one that is no hole.
Kept(rq) == {k \in Visited(rq) : ~is_hole(request_at(rq, k))}
Rank(rq, k) == Cardinality({j \in Kept(rq) : j < k})
NthKept(rq, n) == request_at(rq, CHOOSE k \in Kept(rq) : Rank(rq, k) = n)

\* Mutant: start is left where it was in the old buffer.
Grown_KeepsStart(rq) ==
    LET cap == (rq.cap * 3) \div 2
    IN  [rq EXCEPT !.cap = cap, !.end = rq.len,
            !.reqs = [i \in 0 .. cap - 1 |->
                         IF i < Cardinality(Kept(rq)) THEN NthKept(rq, i) ELSE Zero]]

\* A new and larger buffer, filled from the start.
Grown(rq) ==
    LET cap == (rq.cap * 3) \div 2
    IN  [rq EXCEPT !.cap = cap, !.start = 0, !.end = rq.len,
            !.reqs = [i \in 0 .. cap - 1 |->
                         IF i < Cardinality(Kept(rq)) THEN NthKept(rq, i) ELSE Zero]]

\* The requests move together in place; start and end stay where they are.
Compacted(rq) ==
    LET offset(i) == (i - rq.start + rq.cap) % rq.cap
    IN  [rq EXCEPT !.reqs = [i \in DOMAIN rq.reqs |->
            IF offset(i) < Cardinality(Kept(rq)) THEN NthKept(rq, offset(i)) ELSE rq.reqs[i]]]

AlmostFull(rq) == (rq.len * 100) \div rq.cap > 80

make_room(rq) ==
    IF AlmostFull(rq) THEN Grown(rq)
    ELSE IF rq.len = 0 THEN rq
    ELSE Compacted(rq)

validate_seqnum(rq, seq) ==
    IF rq = NULL THEN seq = FIRST_SEQ ELSE seq = next_seq(rq.last_seq)

\* The slot at end takes the request.
Place(rq, req) ==
    [rq EXCEPT !.reqs[rq.end] = req, !.end = next_index(rq, rq.end), !.len = @ + 1]

Accepted(rq, seq) ==
    IF rq = NULL THEN pending_requests_new(seq)
    ELSE LET marked == [rq EXCEPT !.last_seq = seq]
         IN  IF room_available(marked) THEN marked ELSE make_room(marked)

-----------------------------------------------------------------------------
\* One turn of the loop of dicey_pending_requests_prune.  i is an index into
\* the buffer, but pending_request_invalidate counts its argument from start;
\* "hole" records that the slot it then hits was a hole already.
PruneStep(p, s) ==
    LET req == s.rq.reqs[s.i]
        hit == ~is_hole(req) /\ req.path = p
        inv == Invalidate(s.rq, s.i)
        rq == IF hit THEN [inv EXCEPT !.len = Minus1(@)] ELSE s.rq
    IN  IF s.i = s.rq.end THEN s
        ELSE [rq |-> rq, i |-> next_index(rq, s.i),
              hole |-> s.hole \/ (hit /\ is_hole(request_at(s.rq, s.i)))]

pending_requests_prune(rq, p) ==
    LET after[k \in 0 .. 2 * rq.cap] ==
            IF k = 0 THEN [rq |-> rq, i |-> rq.start, hole |-> FALSE]
                     ELSE PruneStep(p, after[k - 1])
    IN  IF rq.len = 0 THEN [rq |-> rq, i |-> rq.end, hole |-> FALSE] ELSE after[2 * rq.cap]

-----------------------------------------------------------------------------
\* The requests between start and end that are no holes, with their indices
\* counted from start.
Live(rq) == {k \in Visited(rq) : rq.len /= 0 /\ ~is_hole(request_at(rq, k))}
OpenSet == IF reqs = NULL THEN {} ELSE {request_at(reqs, k) : k \in Live(reqs)}
Oldest(seq) == \E k \in Live(reqs) :
    request_at(reqs, k).packet_seq = seq /\ \A j \in Live(reqs) : k <= j
Newest(seq) == \E k \in Live(reqs) :
    request_at(reqs, k).packet_seq = seq /\ \A j \in Live(reqs) : k >= j

\* Which answers reach the list.  Answers come from user code on any thread,
\* so they come in any order, and while the buffer is full.  A run names the
\* ones it allows; "gaps" lets an answer overtake others as long as a newer
\* request stays open.
Answerable(seq) ==
    /\ \E r \in OpenSet : r.packet_seq = seq
    /\ \/ "any order" \in Habits
       \/ "gaps" \in Habits /\ ~Newest(seq)
       \/ Oldest(seq)
    /\ "when full" \in Habits \/ reqs.len = 0 \/ room_available(reqs)

\* Whether a request may come now: "compaction" lets it find the slots used up
\* while holes are among them.
Acceptable ==
    reqs /= NULL /\ "compaction" \notin Habits =>
        room_available(reqs) \/ AlmostFull(reqs) \/ reqs.len = 0

Init == reqs = NULL

\* dicey_pending_requests_add.
Add(seq, path) ==
    /\ validate_seqnum(reqs, seq)
    /\ Acceptable
    /\ Cardinality(OpenSet) < MaxOutstanding
    /\ reqs' = Place(Accepted(reqs, seq), [packet_seq |-> seq, path |-> path])

\* dicey_pending_request_skip.
Skip(seq) ==
    /\ validate_seqnum(reqs, seq)
    /\ reqs' = IF reqs = NULL THEN pending_requests_new(seq)
                              ELSE [reqs EXCEPT !.last_seq = seq]

\* dicey_pending_requests_complete, when the search finds the request.
Complete(seq) ==
    /\ reqs /= NULL
    /\ Answerable(seq)
    /\ LET found == search_seq(reqs, seq)
       IN  /\ found.st = "found"
           /\ reqs' = Invalidate(reqs, found.at)

\* dicey_pending_requests_prune with the filter of server.c: the requests to
\* an object that is going away.
Prune(path) ==
    /\ reqs /= NULL
    /\ "prune" \in Habits \/ \A r \in OpenSet : r.path /= path
    /\ reqs' = pending_requests_prune(reqs, path).rq

Next ==
    \/ \E seq \in Seqs :
        \/ \E path \in Paths : Add(seq, path)
        \/ Skip(seq)
        \/ Complete(seq)
    \/ \E path \in Paths : Prune(path)

Spec == Init /\ [][Next]_reqs

-----------------------------------------------------------------------------
\* An answer finds the request that it belongs to: search_seq ends, returns that
\* very request, and looks only at slots between start and end ("the value
\* _must_ be valid, it comes from the list and we know m is in range").
FindsPending ==
    \A r \in OpenSet : Answerable(r.packet_seq) =>
        LET found == search_seq(reqs, r.packet_seq)
        IN  found.st = "found" /\ ~found.wild /\ request_at(reqs, found.at) = r

\* "leave the seq be, it's useful for binary search": the slots between start
\* and end are in the order of their sequence numbers.
WindowSorted ==
    reqs /= NULL =>
        \A j, k \in 0 .. total_len(reqs) - 1 :
            j < k => request_at(reqs, j).packet_seq < request_at(reqs, k).packet_seq

\* assert(!is_hole(req)) of pending_request_invalidate, for the requests a
\* prune drops when an object is deleted.
PruneHitsNoHole ==
    reqs /= NULL => \A p \in Paths : ~pending_requests_prune(reqs, p).hole

\* assert(reqs->len <= reqs->cap) of pending_requests_make_room, which the next
\* dicey_pending_requests_add reaches.
LenFitsCap == reqs /= NULL => reqs.len <= reqs.cap

\* The list behaves as the set of open requests: nothing is lost when it is
\* compacted or moved, and an answer closes one request only.
Set == INSTANCE PendingSet WITH
    FirstSeq <- FIRST_SEQ,
    LastSeq <- UINT32_MAX - 1,
    open <- {[seq |-> r.packet_seq, path |-> r.path] : r \in OpenSet},
    last <- IF reqs = NULL THEN 0 ELSE reqs.last_seq
RefinesSet == Set!Spec
==============================================================================
