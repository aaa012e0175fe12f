------------------------------ MODULE NameSpace ------------------------------
(***************************************************************************)
(* What the registry promises about names, with no tables and no counts:   *)
(* every name in use stands for a main name, which stands for itself.      *)
(***************************************************************************)
CONSTANTS Paths, NULL

VARIABLE main   \* main[p]: the main path of the object known as p, or NULL

NamesOf(m) == {p \in Paths : main[p] = m}

Init == main = [p \in Paths |-> NULL]

\* A new object takes a free name, which is its main name.
Register(p) ==
    /\ main[p] = NULL
    /\ main' = [main EXCEPT ![p] = p]

\* A free name becomes one more name of an object.
Alias(p, a) ==
    /\ main[p] /= NULL
    /\ main[a] = NULL
    /\ main' = [main EXCEPT ![a] = main[p]]

\* Names other than the main one are dropped, one or several at once.
Forget(S) ==
    /\ \A a \in S : main[a] \notin {NULL, a}
    /\ main' = [p \in Paths |-> IF p \in S THEN NULL ELSE main[p]]

\* An object goes, and all of its names with it.
Unregister(m) ==
    /\ main[m] = m
    /\ main' = [p \in Paths |-> IF p \in NamesOf(m) THEN NULL ELSE main[p]]

Next ==
    \/ \E p \in Paths : Register(p) \/ Unregister(p)
    \/ \E p, a \in Paths : Alias(p, a)
    \/ \E S \in SUBSET Paths : Forget(S)

Spec == Init /\ [][Next]_main
==============================================================================
