------------------------------- MODULE MCClient -------------------------------
(***************************************************************************)
(* An instance of Client: two functions of the API that read the reply     *)
(* themselves, one that blocks and one that does not.                      *)
(***************************************************************************)
EXTENDS Client

MCApis ==
    [r \in Requests |->
        IF r \in Timed THEN {[function |-> "is_path_alias", blocking |-> TRUE]}
        ELSE {[function |-> "subscribe_to", blocking |-> FALSE]}]

\* Nothing follows an assertion that has failed: of that state, what the
\* invariants look at is told apart.
MCView == IF state >= 0 THEN vars ELSE <<state, orderly, result, sent, api>>
==============================================================================
