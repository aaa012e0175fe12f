------------------------------ MODULE MCPlugins -------------------------------
(***************************************************************************)
(* Instances of Plugins.                                                   *)
(***************************************************************************)
EXTENDS Plugins, TLC

\* Plugins that are spawned in the other order are not told apart.
MCSymmetry == Permutations(Plugins)

\* For a run whose invariants are about plugins and not about their callers: who
\* waits for a plugin, and what they are told, decides nothing that happens to
\* the plugin, as long as there is memory.  An assertion that fails changes nothing
\* else, so that whatever an invariant could say then was said of the state before.
MCView ==
    IF aborted /= "no" THEN <<aborted>>
    ELSE <<childVars, loopVars, pstate, name, timer, handles, next_jid, work_list, ran, killed,
           [k \in 1 .. Len(queue) |-> <<queue[k].op, queue[k].of, queue[k].name>>],
           [x \in Calls |-> call[x] = "new"]>>
==============================================================================
