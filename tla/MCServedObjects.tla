---------------------------- MODULE MCServedObjects ----------------------------
(* ServedObjects, with the two traits of every server.                            *)
EXTENDS ServedObjects, TLC

CONSTANTS m1, m2

MCTraits == {TRAIT_TRAIT, INTROSPECTION}
MCMetaPath == (TRAIT_TRAIT :> m1) @@ (INTROSPECTION :> m2)

\* Nothing tells the paths of the users apart, nor the clients.
MCSymmetry == Permutations(UserPaths) \cup Permutations(Clients)

\* Whether a thread waits for the outcome of its response, and the state of the
\* request until then, make no difference to what comes after.
Responding(c) == \E i \in DOMAIN queue : queue[i].op = "respond" /\ queue[i].client = c
MCRequest(c) ==
    IF ~Open(c) THEN IF Responding(c) THEN {} ELSE {req[c].state} \cap {"PENDING", "CONSTRUCTING"}
    ELSE IF Responding(c) THEN [req[c] EXCEPT !.state = "NONE"] ELSE req[c]
MCQueued(r) ==
    IF r.op = "add object" THEN [r EXCEPT !.arg = {}]
    ELSE IF r.op = "respond" THEN r.client ELSE r

\* Nothing reads what a call returned, what the paths were before a batch, the
\* traits of an object, or what a closed request was about and how it ended.
\* Nothing happens once the loop is dead or the server quits, and neither of the
\* two steps changes what the invariants are about.
MCView ==
    IF dead /= "no" \/ server = "QUITTING" THEN <<dead, server>> ELSE
    <<paths, traits, server, ring,
      [c \in Clients |-> MCRequest(c)],
      [o \in Objects |-> IF objs[o] = NULL THEN NULL ELSE [objs[o] EXCEPT !.traits = {}]],
      IF Idle THEN NULL ELSE [batch EXCEPT !.before = paths],
      [i \in DOMAIN queue |-> MCQueued(queue[i])]>>
================================================================================
