------------------------------- MODULE Registry -------------------------------
(***************************************************************************)
(* ipc/server/registry.c, and registry_add_aliases of ipc/server/server.c: *)
(* the objects a server exposes, the paths that lead to them and the       *)
(* traits they implement.  An object is reference counted: its main path   *)
(* and each of its aliases is an entry of the same hash table.             *)
(*                                                                         *)
(* Every operation runs to its end on one thread.  Adding a set of aliases *)
(* is the only one modelled in steps, one per alias, because it can fail   *)
(* halfway and may not end; "batch" is its local state.                    *)
(***************************************************************************)
EXTENDS Integers, FiniteSets

CONSTANTS
    Paths,          \* well-formed paths: path_is_valid rejects the others at once
    Objects,        \* memory for objects; its size bounds how many are alive
    Traits, NULL,
    TRAIT_TRAIT,    \* DICEY_TRAIT_TRAIT_NAME, implemented by every metaobject
    INTROSPECTION,  \* DICEY_INTROSPECTION_TRAIT_NAME, implemented by every object
    MetaPath,       \* MetaPath[t]: the path of the metaobject of trait t
    Habits,         \* what callers and the machine may do, see below
    MaxRefs         \* bound: references an object has, those leaked included

\* "unknown trait": callers list traits that are not registered;
\* "same alias":    callers add an alias that the object already has;
\* "bare remove":   callers use dicey_registry_remove_object on any path, while
\*                  the library itself keeps it for objects with no alias;
\* "no memory":     any allocation may fail.
ASSUME HabitsAssumption ==
    Habits \subseteq {"unknown trait", "same alias", "bare remove", "no memory"}

ASSUME NamesAssumption ==
    /\ NULL \notin Paths /\ NULL \notin Objects
    /\ {TRAIT_TRAIT, INTROSPECTION} \subseteq Traits
    /\ MetaPath \in [Traits -> Paths]
    /\ \A t, u \in Traits : MetaPath[t] = MetaPath[u] => t = u
    /\ IsFiniteSet(Paths)

VARIABLES
    paths,      \* registry->paths: path -> object, NULL where there is no entry
    objs,       \* the objects in memory, NULL where there is none
    traits,     \* registry->traits: the names registered
    batch,      \* the locals of registry_add_aliases, or NULL
    result      \* what the last call returned

vars == <<paths, objs, traits, batch, result>>

MetaPaths == {MetaPath[t] : t \in Traits}
UserPaths == Paths \ MetaPaths   \* /dicey/registry/traits is left to the registry
Errors == {"EEXIST", "EINVAL", "ENOMEM", "EPATH_NOT_FOUND", "EPATH_NOT_ALIAS",
           "ETRAIT_NOT_FOUND"}

Object == [main_path : Paths, aliases : SUBSET Paths, refcount : Nat, traits : SUBSET Traits]
Batch == [path : Paths, left : SUBSET Paths, inserted : SUBSET Paths,
          retry : Paths \cup {NULL}, before : [Paths -> Objects \cup {NULL}]]

ASSUME NullAssumption == NULL \notin Object

TypeOK ==
    /\ paths \in [Paths -> Objects \cup {NULL}]
    /\ objs \in [Objects -> Object \cup {NULL}]
    /\ traits \subseteq Traits
    /\ batch \in Batch \cup {NULL}
    /\ result \in Errors \cup {"OK"}

Init ==
    /\ paths = [p \in Paths |-> NULL]
    /\ objs = [o \in Objects |-> NULL]
    /\ traits = {}
    /\ batch = NULL
    /\ result = "OK"

-----------------------------------------------------------------------------
Idle == batch = NULL

\* A call that returns err and has no effect.
Return(err) == result' = err /\ UNCHANGED <<paths, objs, traits, batch>>

\* An allocation of the call fails, and all it had made so far is freed.
OutOfMemory == "no memory" \in Habits /\ Return("ENOMEM")

object_new_with(p, ts) ==
    [main_path |-> p, aliases |-> {}, refcount |-> 1, traits |-> ts \cup {INTROSPECTION}]

\* registry_add_object, for an object made by object_new.  Which free memory
\* malloc returns makes no difference, so the model makes the choice.
registry_add_object(p, ts) ==
    LET o == CHOOSE o \in Objects : objs[o] = NULL IN
    /\ \E free \in Objects : objs[free] = NULL
    /\ objs' = [objs EXCEPT ![o] = object_new_with(p, ts)]
    /\ paths' = [paths EXCEPT ![p] = o]

\* Object r with another reference count and other aliases.
Counted(r, n, S) ==
    [main_path |-> r.main_path, aliases |-> S, refcount |-> n, traits |-> r.traits]

Without(S) == [p \in Paths |-> IF p \in S THEN NULL ELSE paths[p]]

\* What is left of object o when the entries S of the hash table, all of them
\* its own, are removed and dereferenced, and "kept" are its aliases after it.
Deref(o, S, kept) ==
    IF objs[o].refcount - Cardinality(S) <= 0 THEN NULL
    ELSE Counted(objs[o], objs[o].refcount - Cardinality(S), kept)

-----------------------------------------------------------------------------
\* dicey_registry_add_object_with and dicey_registry_add_object_with_trait_list.
\* object_new has already put the introspection trait in the set, so listing
\* it is a duplicate, as is any trait listed twice.
add_object_with_trait_list(p, ts) ==
    \/ paths[p] /= NULL /\ Return("EEXIST")
    \/ paths[p] = NULL /\ ~(ts \subseteq traits) /\ Return("ETRAIT_NOT_FOUND")
    \/ paths[p] = NULL /\ INTROSPECTION \in ts /\ Return("EINVAL")
    \/ paths[p] = NULL /\ OutOfMemory
    \/ /\ paths[p] = NULL
       /\ ts \subseteq traits
       /\ INTROSPECTION \notin ts
       /\ registry_add_object(p, ts)
       /\ result' = "OK"
       /\ UNCHANGED <<traits, batch>>

\* dicey_registry_add_object_with_trait_set: the iterator over the set is
\* never started, so no trait of the set is looked up.
add_object_with_trait_set(p, ts) ==
    \/ paths[p] /= NULL /\ Return("EEXIST")
    \/ paths[p] = NULL /\ OutOfMemory
    \/ /\ paths[p] = NULL
       /\ registry_add_object(p, ts)
       /\ result' = "OK"
       /\ UNCHANGED <<traits, batch>>

\* dicey_registry_add_trait: the trait goes in first, then its metaobject.  A
\* metaobject that cannot be added leaves the trait where it is.
add_trait(t) ==
    \/ t \in traits /\ Return("EEXIST")
    \/ t \notin traits /\ OutOfMemory
    \/ /\ t \notin traits
       /\ traits' = traits \cup {t}
       /\ \/ /\ paths[MetaPath[t]] = NULL
             /\ TRAIT_TRAIT \in traits'
             /\ registry_add_object(MetaPath[t], {TRAIT_TRAIT})
             /\ result' = "OK"
          \/ /\ paths[MetaPath[t]] /= NULL
             /\ result' = "EEXIST"
             /\ UNCHANGED <<paths, objs>>
          \/ /\ paths[MetaPath[t]] = NULL
             /\ TRAIT_TRAIT \notin traits'
             /\ result' = "ETRAIT_NOT_FOUND"
             /\ UNCHANGED <<paths, objs>>
          \/ /\ paths[MetaPath[t]] = NULL
             /\ "no memory" \in Habits
             /\ result' = "ENOMEM"
             /\ UNCHANGED <<paths, objs>>
       /\ UNCHANGED batch

-----------------------------------------------------------------------------
\* Mutant: an alias may be a name that is taken.
alias_error_NoCheck(p, a) ==
    IF p = a THEN "EINVAL" ELSE IF paths[p] = NULL THEN "EPATH_NOT_FOUND" ELSE "OK"

\* The checks of dicey_registry_alias_object, in their order.
alias_error(p, a) ==
    IF p = a THEN "EINVAL"
    ELSE IF paths[p] = NULL THEN "EPATH_NOT_FOUND"
    ELSE IF paths[a] = NULL THEN "OK"
    ELSE IF objs[paths[a]].main_path /= a /\ objs[paths[a]].main_path = objs[paths[p]].main_path
    THEN "EEXIST" ELSE "EINVAL"

\* Mutant: the reference of the alias is not counted.
Link_NoRef(p, a) ==
    /\ objs' = [objs EXCEPT ![paths[p]].aliases = @ \cup {a}]
    /\ paths' = [paths EXCEPT ![a] = paths[p]]

\* object_ref, the entry of the alias and the alias set of the object.
Link(p, a) ==
    /\ objs' = [objs EXCEPT ![paths[p]] = Counted(@, @.refcount + 1, @.aliases \cup {a})]
    /\ paths' = [paths EXCEPT ![a] = paths[p]]

\* Two allocations may fail after the checks.  The first leaves the reference
\* taken.  The second takes the alias back with dicey_registry_remove_object,
\* and returns what that returns.
alias_object(p, a) ==
    \/ alias_error(p, a) /= "OK" /\ Return(alias_error(p, a))
    \/ /\ alias_error(p, a) = "OK"
       /\ Link(p, a)
       /\ result' = "OK"
       /\ UNCHANGED <<traits, batch>>
    \/ /\ alias_error(p, a) = "OK"
       /\ "no memory" \in Habits
       /\ \/ /\ objs[paths[p]].refcount < MaxRefs
             /\ objs' = [objs EXCEPT ![paths[p]].refcount = @ + 1]
             /\ result' = "ENOMEM"
          \/ /\ UNCHANGED objs
             /\ result' = "OK"
       /\ UNCHANGED <<paths, traits, batch>>

\* Mutant: the entry goes, the alias set of the object keeps the alias.
unalias_object_KeepsAlias(a) ==
    \/ paths[a] = NULL /\ Return("EPATH_NOT_FOUND")
    \/ paths[a] /= NULL /\ a \notin objs[paths[a]].aliases /\ Return("EPATH_NOT_ALIAS")
    \/ LET o == paths[a] IN
       /\ o /= NULL
       /\ a \in objs[o].aliases
       /\ objs' = [objs EXCEPT ![o] = Deref(o, {a}, @.aliases)]
       /\ paths' = Without({a})
       /\ result' = "OK"
       /\ UNCHANGED <<traits, batch>>

unalias_object(a) ==
    \/ paths[a] = NULL /\ Return("EPATH_NOT_FOUND")
    \/ paths[a] /= NULL /\ a \notin objs[paths[a]].aliases /\ Return("EPATH_NOT_ALIAS")
    \/ LET o == paths[a] IN
       /\ o /= NULL
       /\ a \in objs[o].aliases
       /\ objs' = [objs EXCEPT ![o] = Deref(o, {a}, @.aliases \ {a})]
       /\ paths' = Without({a})
       /\ result' = "OK"
       /\ UNCHANGED <<traits, batch>>

remove_all_object_aliases(p) ==
    \/ paths[p] = NULL /\ Return("EPATH_NOT_FOUND")
    \/ paths[p] /= NULL /\ objs[paths[p]].main_path /= p /\ Return("EINVAL")
    \/ LET o == paths[p] IN
       /\ o /= NULL
       /\ objs[o].main_path = p
       /\ objs' = [objs EXCEPT ![o] = Deref(o, @.aliases, {})]
       /\ paths' = Without(objs[o].aliases)
       /\ result' = "OK"
       /\ UNCHANGED <<traits, batch>>

\* dicey_registry_delete_object: the entries of the aliases, then the main path.
delete_object(p) ==
    \/ paths[p] = NULL /\ Return("EPATH_NOT_FOUND")
    \/ LET o == paths[p]
           gone == objs[o].aliases \cup {objs[o].main_path}
       IN /\ o /= NULL
          /\ objs' = [objs EXCEPT ![o] = Deref(o, gone, @.aliases)]
          /\ paths' = Without(gone)
          /\ result' = "OK"
          /\ UNCHANGED <<traits, batch>>

\* dicey_registry_remove_object: one entry and its reference.
remove_object(p) ==
    \/ paths[p] = NULL /\ Return("EPATH_NOT_FOUND")
    \/ LET o == paths[p] IN
       /\ o /= NULL
       /\ "bare remove" \in Habits \/ objs[o].aliases = {}
       /\ objs' = [objs EXCEPT ![o] = Deref(o, {p}, @.aliases)]
       /\ paths' = Without({p})
       /\ result' = "OK"
       /\ UNCHANGED <<traits, batch>>

-----------------------------------------------------------------------------
\* registry_add_aliases is called with a path and a set of aliases.
registry_add_aliases(p, S) ==
    \/ S = {} /\ Return("OK")
    \/ /\ S /= {}
       /\ batch' = [path |-> p, left |-> S, inserted |-> {}, retry |-> NULL, before |-> paths]
       /\ UNCHANGED <<paths, objs, traits, result>>

\* The batch ends, or goes on with what is left.
BatchGoesOn(left, inserted) ==
    /\ batch' = IF left = {} THEN NULL
                ELSE [batch EXCEPT !.left = left, !.inserted = inserted]
    /\ result' = "OK"

\* Mutant: a failed batch leaves what it had inserted.
RollBack_Nothing(refs, new) == UNCHANGED <<paths, objs>>

\* Each alias inserted so far is unaliased.  The failed turn of the loop may
\* have taken refs references and registered the aliases "new".
RollBack(refs, new) ==
    LET o == paths[batch.path]
        undone == batch.inserted \cap objs[o].aliases
    IN  IF o = NULL THEN UNCHANGED <<paths, objs>>
        ELSE /\ objs' = [objs EXCEPT ![o] = Counted(@, @.refcount - Cardinality(undone) + refs,
                                                       (@.aliases \ undone) \cup new)]
             /\ paths' = [p \in Paths |-> IF p \in new THEN o ELSE Without(undone)[p]]

\* One turn of the loop, for some alias that the iteration comes to.  An alias
\* that the object already has is tried again, for ever.
alias_next(a) ==
    /\ batch.retry \in {NULL, a}
    /\ \/ /\ alias_error(batch.path, a) = "OK"
          /\ Link(batch.path, a)
          /\ BatchGoesOn(batch.left \ {a}, batch.inserted \cup {a})
       \/ /\ alias_error(batch.path, a) = "EEXIST"
          /\ batch' = [batch EXCEPT !.retry = a]
          /\ UNCHANGED <<paths, objs, result>>
       \/ /\ alias_error(batch.path, a) \notin {"OK", "EEXIST"}
          /\ RollBack(0, {})
          /\ batch' = NULL
          /\ result' = alias_error(batch.path, a)
    /\ UNCHANGED traits

\* A turn that runs out of memory: in one of the two allocations of
\* dicey_registry_alias_object, or as the alias is noted for the roll back.
alias_next_no_memory(a) ==
    /\ "no memory" \in Habits
    /\ batch.retry \in {NULL, a}
    /\ alias_error(batch.path, a) = "OK"
    /\ \/ /\ objs[paths[batch.path]].refcount < MaxRefs
          /\ RollBack(1, {}) \/ RollBack(1, {a})
          /\ batch' = NULL
          /\ result' = "ENOMEM"
       \/ /\ BatchGoesOn(batch.left \ {a}, batch.inserted \cup {a})
          /\ UNCHANGED <<paths, objs>>
    /\ UNCHANGED traits

-----------------------------------------------------------------------------
Listed == {ts \in SUBSET Traits : "unknown trait" \in Habits \/ ts \subseteq traits}

\* A caller that keeps to known names never adds an alias twice.
Fresh(p, S) ==
    "same alias" \in Habits \/ \A a \in S : alias_error(p, a) /= "EEXIST"

\* The calls of the builtins and of the users of a server.  The builtins
\* register TRAIT_TRAIT before any other trait.
Call ==
    \/ \E p \in UserPaths, ts \in Listed :
        add_object_with_trait_list(p, ts) \/ add_object_with_trait_set(p, ts)
    \/ \E t \in Traits : TRAIT_TRAIT \in traits \cup {t} /\ add_trait(t)
    \/ \E p, a \in UserPaths : alias_object(p, a)
    \/ \E p \in UserPaths :
        \/ unalias_object(p)
        \/ remove_all_object_aliases(p)
        \/ delete_object(p)
        \/ remove_object(p)
    \/ \E p \in UserPaths, S \in SUBSET UserPaths : Fresh(p, S) /\ registry_add_aliases(p, S)

BatchTurn == ~Idle /\ \E a \in batch.left : alias_next(a) \/ alias_next_no_memory(a)

Next == (Idle /\ Call) \/ BatchTurn

Spec == Init /\ [][Next]_vars

\* The loop of registry_add_aliases does not wait for anything.
FairSpec == Spec /\ WF_vars(BatchTurn)

-----------------------------------------------------------------------------
Live == {o \in Objects : objs[o] /= NULL}
PathsOf(o) == {p \in Paths : paths[p] = o}

\* Every object in memory is reached from its main path and from its aliases,
\* which are other paths, and from nowhere else: what the asserts of
\* registry_del_object, unalias_object and remove_all_object_aliases rely on.
NamesAgree ==
    /\ \A o \in Live :
        /\ PathsOf(o) = objs[o].aliases \cup {objs[o].main_path}
        /\ objs[o].main_path \notin objs[o].aliases
    /\ \A p \in Paths : paths[p] /= NULL => paths[p] \in Live

\* The references of an object are the entries that lead to it: it is freed
\* with its last entry, not before and not later.
RefcountsAgree == \A o \in Live : objs[o].refcount = Cardinality(PathsOf(o))

\* Whatever allocation fails, an entry leads to an object in memory that knows
\* the path as its own and counts the entry: nothing that can be looked up
\* was freed.
EntriesAreSafe ==
    \A p \in Paths : paths[p] /= NULL =>
        /\ paths[p] \in Live
        /\ p \in objs[paths[p]].aliases \cup {objs[paths[p]].main_path}
        /\ objs[paths[p]].refcount >= Cardinality(PathsOf(paths[p]))

\* An object with no entry left has been freed, as the comment at the end of
\* registry_del_object has it.
FreedWhenUnreachable == \A o \in Live : PathsOf(o) /= {}

\* An object implements traits that exist, as the documentation of the three
\* ways to add an object promises with ETRAIT_NOT_FOUND.
TraitsExist == \A o \in Live : objs[o].traits \subseteq traits \cup {INTROSPECTION}

\* registry_add_aliases is all or nothing: when it fails, the paths are what
\* they were as it was called.
BatchIsAtomic ==
    [][batch /= NULL /\ batch' = NULL /\ result' /= "OK" => paths' = batch.before]_vars

\* registry_add_aliases returns.
BatchEnds == ~Idle ~> Idle

\* The registry is a name space in which an alias stands for a main path.
MainPath == [p \in Paths |-> IF paths[p] = NULL THEN NULL ELSE objs[paths[p]].main_path]
Names == INSTANCE NameSpace WITH main <- MainPath
RefinesNameSpace == Names!Spec

\* An object removed is out of reach: no path leads to an object whose main
\* path is gone.
RemovedIsGone == \A p \in Paths : paths[p] /= NULL => paths[objs[paths[p]].main_path] = paths[p]
==============================================================================
