----------------------------- MODULE PendingSet -----------------------------
(***************************************************************************)
(* What the server needs of a client's pending requests: the set of the    *)
(* requests that were accepted and not answered yet.  Sequence numbers are *)
(* accepted one after the other, a request leaves the set only when it is  *)
(* answered or pruned, and nothing else moves.                             *)
(***************************************************************************)
EXTENDS Naturals

CONSTANTS Paths, FirstSeq, LastSeq

VARIABLES
    open,   \* the pending requests, as [seq, path] records
    last    \* the last sequence number accepted, 0 at first

pendingVars == <<open, last>>

\* Clients number their requests 2, 4, ... up to the last even number.
SeqAfter(n) == IF n = LastSeq THEN FirstSeq ELSE n + 2
Expected == IF last = 0 THEN FirstSeq ELSE SeqAfter(last)

Init == open = {} /\ last = 0

Add(p) ==
    /\ last' = Expected
    /\ open' = open \cup {[seq |-> Expected, path |-> p]}

Skip ==
    /\ last' = Expected
    /\ UNCHANGED open

Complete(r) ==
    /\ open' = open \ {r}
    /\ UNCHANGED last

Prune(p) ==
    /\ open' = {r \in open : r.path /= p}
    /\ UNCHANGED last

Next ==
    \/ \E p \in Paths : Add(p) \/ Prune(p)
    \/ Skip
    \/ \E r \in open : Complete(r)

Spec == Init /\ [][Next]_pendingVars
=============================================================================
