------------------------------- MODULE MCServer -------------------------------
(* Server, with peers that nothing tells apart.                              *)
EXTENDS Server, TLC

MCSymmetry == Permutations(Peers)

\* A process that is gone has no state, and of a client that was removed only
\* its handle, its writes and its requests are looked at again.
Kept(f) == [p \in Peers |-> IF handle[p] = "closing" THEN NULL ELSE f[p]]
MCView ==
    IF aborted THEN <<>>
    ELSE <<state, closing, clients, handle, id, Kept(cstate), Kept(last), Kept(subscribed),
           open, sentVars, callVars>>
==============================================================================
