---------------------------- MODULE RegistryProofs ----------------------------
(***************************************************************************)
(* The names and the reference counts of the registry, for any paths,      *)
(* objects and traits, when memory does not run out and when only objects  *)
(* without aliases are removed by dicey_registry_remove_object.            *)
(*                                                                         *)
(* Whatever is called, a step changes the names in one of four ways; the   *)
(* invariant and the refinement are proved of the four.                    *)
(***************************************************************************)
EXTENDS Registry, FiniteSetTheorems, TLAPS

Ordinary == "no memory" \notin Habits /\ "bare remove" \notin Habits

IInv == TypeOK /\ NamesAgree /\ RefcountsAgree

Adds(p, o, ts) ==
    /\ paths[p] = NULL
    /\ objs[o] = NULL
    /\ objs' = [objs EXCEPT ![o] = object_new_with(p, ts)]
    /\ paths' = [paths EXCEPT ![p] = o]

Links(o, a) ==
    /\ objs[o] /= NULL
    /\ paths[a] = NULL
    /\ objs' = [objs EXCEPT ![o] = Counted(objs[o], objs[o].refcount + 1,
                                           objs[o].aliases \cup {a})]
    /\ paths' = [paths EXCEPT ![a] = o]

Forgets(o, S) ==
    /\ objs[o] /= NULL
    /\ S \subseteq objs[o].aliases
    /\ objs' = [objs EXCEPT ![o] = Counted(objs[o], objs[o].refcount - Cardinality(S),
                                           objs[o].aliases \ S)]
    /\ paths' = Without(S)

Drops(o) ==
    /\ objs[o] /= NULL
    /\ objs' = [objs EXCEPT ![o] = NULL]
    /\ paths' = Without(PathsOf(o))

\* A change that leaves every object in memory.
Mild ==
    \/ UNCHANGED <<paths, objs>>
    \/ \E p \in Paths, o \in Objects, ts \in SUBSET Traits : Adds(p, o, ts)
    \/ \E o \in Objects, a \in Paths : Links(o, a)
    \/ \E o \in Objects, S \in SUBSET Paths : Forgets(o, S)

Change == Mild \/ \E o \in Objects : Drops(o)

-----------------------------------------------------------------------------
\* Sets of paths are finite and have a size.
LEMMA PathsFinite ==
    \A S \in SUBSET Paths : IsFiniteSet(S) /\ Cardinality(S) \in Nat
  BY Zenon, NamesAssumption, FS_Subset, FS_CardinalityType

\* The size of what is left when some paths of a set go.
LEMMA LeftOver ==
    ASSUME NEW S \in SUBSET Paths, NEW T \in SUBSET S
    PROVE  Cardinality(S \ T) = Cardinality(S) - Cardinality(T)
  <1>1. S \cap T = T
    BY Zenon
  <1>2. IsFiniteSet(S)
    BY Zenon, PathsFinite
  <1>. QED  BY <1>1, <1>2, FS_Difference, ZenonT(40)

\* An object is reached from its aliases and from its main path, and its
\* references are counted: what the invariant says of one object.
LEMMA OneObject ==
    ASSUME IInv, NEW o \in Objects, objs[o] /= NULL
    PROVE  /\ objs[o] \in Object
           /\ PathsOf(o) = objs[o].aliases \cup {objs[o].main_path}
           /\ objs[o].main_path \notin objs[o].aliases
           /\ objs[o].refcount = Cardinality(objs[o].aliases) + 1
           /\ objs[o].refcount = Cardinality(PathsOf(o))
           /\ PathsOf(o) \in SUBSET Paths
  <1>1. /\ objs[o] \in Object
        /\ PathsOf(o) = objs[o].aliases \cup {objs[o].main_path}
        /\ objs[o].main_path \notin objs[o].aliases
        /\ objs[o].refcount = Cardinality(PathsOf(o))
    BY Zenon DEF IInv, TypeOK, NamesAgree, RefcountsAgree, Live
  <1>2. objs[o].aliases \in SUBSET Paths
    BY Zenon, <1>1 DEF Object
  <1>3. Cardinality(objs[o].aliases \cup {objs[o].main_path}) = Cardinality(objs[o].aliases) + 1
    BY Zenon, <1>1, <1>2, PathsFinite, FS_AddElement
  <1>. QED  BY Zenon, <1>1, <1>3 DEF PathsOf

-----------------------------------------------------------------------------
Tables ==
    /\ paths \in [Paths -> Objects \cup {NULL}]
    /\ objs \in [Objects -> Object \cup {NULL}]

Agree == Tables /\ NamesAgree /\ RefcountsAgree

\* Agree, read object by object: the form in which the changes keep it.
Agrees(o) ==
    objs[o] /= NULL =>
        /\ PathsOf(o) = objs[o].aliases \cup {objs[o].main_path}
        /\ objs[o].main_path \notin objs[o].aliases
        /\ objs[o].refcount = Cardinality(PathsOf(o))

ByObject ==
    /\ Tables
    /\ \A o \in Objects : Agrees(o)
    /\ \A p \in Paths : paths[p] /= NULL => objs[paths[p]] /= NULL

LEMMA AgreeByObject == ByObject => Agree
  BY Zenon DEF ByObject, Agree, Tables, Agrees, NamesAgree, RefcountsAgree, Live

LEMMA AgreeByObjectNext == ByObject' => Agree'
  BY AgreeByObject, PTL

\* A change that leaves alone the entry in memory of an object and its paths
\* leaves what is said of it.
LEMMA Untouched ==
    ASSUME IInv, NEW o \in Objects,
           objs'[o] = objs[o],
           \A p \in Paths : paths'[p] = o <=> paths[p] = o
    PROVE  Agrees(o)'
  <1>1. PathsOf(o)' = PathsOf(o)
    BY Zenon DEF PathsOf
  <1>2. Agrees(o)
    BY Zenon DEF IInv, Agrees, NamesAgree, RefcountsAgree, Live
  <1>. QED  BY Zenon, <1>1, <1>2 DEF Agrees

\* A new object.
LEMMA AddsKeeps ==
    ASSUME IInv, NEW p \in Paths, NEW o \in Objects, NEW ts \in SUBSET Traits, Adds(p, o, ts)
    PROVE  Agree'
  <1>. DEFINE new == object_new_with(p, ts)
  <1>1. new \in Object /\ new /= NULL
    BY NamesAssumption, NullAssumption DEF object_new_with, Object
  <1>2. Tables'
    BY Zenon, <1>1 DEF Adds, IInv, TypeOK, Tables
  <1>3. objs'[o] = new /\ paths'[p] = o /\ \A q \in Paths \ {p} : paths'[q] = paths[q]
    BY Zenon DEF Adds, IInv, TypeOK
  <1>4. \A q \in Paths : paths[q] /= o
    BY Zenon, NamesAssumption DEF Adds, IInv, NamesAgree, Live
  <1>5. PathsOf(o)' = {p}
    BY Zenon, <1>3, <1>4 DEF PathsOf
  <1>6. Cardinality({p}) = 1
    BY Zenon, FS_Singleton
  <1>7. Agrees(o)'
    BY <1>3, <1>5, <1>6 DEF Agrees, object_new_with
  <1>8. \A u \in Objects \ {o} : Agrees(u)'
    <2>. SUFFICES ASSUME NEW u \in Objects \ {o} PROVE Agrees(u)'
      BY Zenon
    <2>1. objs'[u] = objs[u]
      BY Zenon DEF Adds, IInv, TypeOK
    <2>2. \A q \in Paths : paths'[q] = u <=> paths[q] = u
      BY Zenon, <1>3, NamesAssumption DEF Adds
    <2>. QED  BY Zenon, <2>1, <2>2, Untouched
  <1>9. \A q \in Paths : paths'[q] /= NULL => objs'[paths'[q]] /= NULL
    BY Zenon, <1>1, <1>3 DEF Adds, IInv, TypeOK, NamesAgree, Live
  <1>. QED  BY Zenon, <1>2, <1>7, <1>8, <1>9, AgreeByObjectNext DEF ByObject

\* One more alias.
LEMMA LinksKeeps ==
    ASSUME IInv, NEW o \in Objects, NEW a \in Paths, Links(o, a)
    PROVE  Agree'
  <1>. DEFINE new == Counted(objs[o], objs[o].refcount + 1, objs[o].aliases \cup {a})
  <1>0. objs[o] /= NULL /\ paths[a] = NULL
    BY Zenon DEF Links
  <1>1. new \in Object /\ new /= NULL
    BY <1>0, OneObject, NullAssumption DEF Object, Counted
  <1>2. Tables'
    BY Zenon, <1>1 DEF Links, IInv, TypeOK, Tables
  <1>3. objs'[o] = new /\ paths'[a] = o /\ \A q \in Paths \ {a} : paths'[q] = paths[q]
    BY Zenon DEF Links, IInv, TypeOK
  <1>4. PathsOf(o)' = PathsOf(o) \cup {a}
    BY Zenon, <1>3 DEF PathsOf
  <1>5. a \notin PathsOf(o)
    BY Zenon, <1>0, NamesAssumption DEF PathsOf
  <1>6. Cardinality(PathsOf(o) \cup {a}) = Cardinality(PathsOf(o)) + 1
    BY Zenon, <1>0, <1>5, OneObject, PathsFinite, FS_AddElement
  <1>7. Agrees(o)'
    <2>1. objs[o].main_path /= a
      BY Zenon, <1>0, <1>5, OneObject
    <2>. QED  BY <1>0, <1>3, <1>4, <1>6, <2>1, OneObject DEF Agrees, Counted
  <1>8. \A u \in Objects \ {o} : Agrees(u)'
    <2>. SUFFICES ASSUME NEW u \in Objects \ {o} PROVE Agrees(u)'
      BY Zenon
    <2>1. objs'[u] = objs[u]
      BY Zenon DEF Links, IInv, TypeOK
    <2>2. \A q \in Paths : paths'[q] = u <=> paths[q] = u
      BY Zenon, <1>0, <1>3, NamesAssumption
    <2>. QED  BY Zenon, <2>1, <2>2, Untouched
  <1>9. \A q \in Paths : paths'[q] /= NULL => objs'[paths'[q]] /= NULL
    BY Zenon, <1>1, <1>3 DEF Links, IInv, TypeOK, NamesAgree, Live
  <1>. QED  BY Zenon, <1>2, <1>7, <1>8, <1>9, AgreeByObjectNext DEF ByObject

\* Some aliases go.
LEMMA ForgetsKeeps ==
    ASSUME IInv, NEW o \in Objects, NEW S \in SUBSET Paths, Forgets(o, S)
    PROVE  Agree'
  <1>. DEFINE new == Counted(objs[o], objs[o].refcount - Cardinality(S), objs[o].aliases \ S)
  <1>0. objs[o] /= NULL /\ S \subseteq objs[o].aliases
    BY Zenon DEF Forgets
  <1>1. /\ objs[o] \in Object
        /\ PathsOf(o) = objs[o].aliases \cup {objs[o].main_path}
        /\ objs[o].main_path \notin objs[o].aliases
        /\ objs[o].refcount = Cardinality(objs[o].aliases) + 1
        /\ objs[o].refcount = Cardinality(PathsOf(o))
        /\ PathsOf(o) \in SUBSET Paths
    BY Zenon, <1>0, OneObject
  <1>2. /\ Cardinality(PathsOf(o) \ S) = Cardinality(PathsOf(o)) - Cardinality(S)
        /\ Cardinality(PathsOf(o) \ S) \in Nat
    BY Zenon, <1>0, <1>1, LeftOver, PathsFinite
  <1>3. new \in Object /\ new /= NULL
    BY <1>1, <1>2, NullAssumption DEF Object, Counted
  <1>4. objs'[o] = new /\ \A q \in Paths : paths'[q] = IF q \in S THEN NULL ELSE paths[q]
    BY Zenon DEF Forgets, Without, IInv, TypeOK
  <1>5. Tables'
    BY Zenon, <1>3 DEF Forgets, Without, IInv, TypeOK, Tables
  <1>6. PathsOf(o)' = PathsOf(o) \ S
    BY Zenon, <1>4, NamesAssumption DEF PathsOf
  <1>7. Agrees(o)'
    BY <1>0, <1>1, <1>2, <1>4, <1>6 DEF Agrees, Counted
  <1>8. \A u \in Objects \ {o} : Agrees(u)'
    <2>. SUFFICES ASSUME NEW u \in Objects \ {o} PROVE Agrees(u)'
      BY Zenon
    <2>1. objs'[u] = objs[u]
      BY Zenon DEF Forgets, IInv, TypeOK
    <2>2. \A q \in S : paths[q] = o
      BY Zenon, <1>0, <1>1 DEF PathsOf
    <2>3. \A q \in Paths : paths'[q] = u <=> paths[q] = u
      BY <1>4, <2>2, NamesAssumption
    <2>. QED  BY Zenon, <2>1, <2>3, Untouched
  <1>9. \A q \in Paths : paths'[q] /= NULL => objs'[paths'[q]] /= NULL
    BY Zenon, <1>3, <1>4 DEF Forgets, IInv, TypeOK, NamesAgree, Live
  <1>. QED  BY Zenon, <1>5, <1>7, <1>8, <1>9, AgreeByObjectNext DEF ByObject

\* An object and all of its paths go.
LEMMA DropsKeeps ==
    ASSUME IInv, NEW o \in Objects, Drops(o)
    PROVE  Agree'
  <1>1. Tables'
    BY Zenon DEF Drops, Without, IInv, TypeOK, Tables
  <1>2. objs'[o] = NULL /\ \A q \in Paths : paths'[q] = IF paths[q] = o THEN NULL ELSE paths[q]
    BY Zenon DEF Drops, Without, PathsOf, IInv, TypeOK
  <1>3. \A u \in Objects : Agrees(u)'
    <2>. SUFFICES ASSUME NEW u \in Objects PROVE Agrees(u)'
      BY Zenon
    <2>1. CASE u = o
      BY Zenon, <1>2, <2>1 DEF Agrees
    <2>2. CASE u /= o
      <3>1. objs'[u] = objs[u]
        BY Zenon, <2>2 DEF Drops, IInv, TypeOK
      <3>2. \A q \in Paths : paths'[q] = u <=> paths[q] = u
        BY Zenon, <1>2, <2>2, NamesAssumption
      <3>. QED  BY Zenon, <3>1, <3>2, Untouched
    <2>. QED  BY Zenon, <2>1, <2>2
  <1>4. \A q \in Paths : paths'[q] /= NULL => objs'[paths'[q]] /= NULL
    BY Zenon, <1>2 DEF Drops, IInv, TypeOK, NamesAgree, Live
  <1>. QED  BY Zenon, <1>1, <1>3, <1>4, AgreeByObjectNext DEF ByObject

-----------------------------------------------------------------------------
\* The rest of the type invariant.
Others ==
    /\ traits \subseteq Traits
    /\ batch \in Batch \cup {NULL}
    /\ result \in Errors \cup {"OK"}

\* A call that has no effect on the names.
LEMMA NoEffect ==
    ASSUME IInv, NEW err \in Errors \cup {"OK"}, Return(err)
    PROVE  Mild /\ Others'
  BY Zenon DEF Return, Mild, Others, IInv, TypeOK

\* registry_add_object adds an object.
LEMMA AddObject ==
    ASSUME IInv, NEW p \in Paths, NEW ts \in SUBSET Traits, paths[p] = NULL,
           registry_add_object(p, ts)
    PROVE  Mild
  <1>. DEFINE o == CHOOSE u \in Objects : objs[u] = NULL
  <1>1. o \in Objects /\ objs[o] = NULL
    BY Zenon DEF registry_add_object
  <1>2. Adds(p, o, ts)
    BY Zenon, <1>1 DEF registry_add_object, Adds
  <1>. HIDE DEF o
  <1>. QED  BY Zenon, <1>1, <1>2 DEF Mild

\* Link adds an alias, when the checks of alias_object let it.
LEMMA LinkAlias ==
    ASSUME IInv, NEW p \in Paths, NEW a \in Paths, alias_error(p, a) = "OK", Link(p, a)
    PROVE  Mild
  <1>. DEFINE o == paths[p]
  <1>1. o \in Objects /\ objs[o] /= NULL /\ paths[a] = NULL
    BY Zenon DEF alias_error, IInv, TypeOK, NamesAgree, Live
  <1>2. Links(o, a)
    BY Zenon, <1>1 DEF Links, Link
  <1>. QED  BY Zenon, <1>1, <1>2 DEF Mild

\* Removing the entries of some aliases leaves the object with the others.
LEMMA DerefAliases ==
    ASSUME IInv, NEW o \in Objects, objs[o] /= NULL,
           NEW S \in SUBSET objs[o].aliases
    PROVE  /\ S \in SUBSET Paths
           /\ Deref(o, S, objs[o].aliases \ S) =
                Counted(objs[o], objs[o].refcount - Cardinality(S), objs[o].aliases \ S)
  <1>1. objs[o] \in Object /\ objs[o].refcount = Cardinality(objs[o].aliases) + 1
    BY Zenon, OneObject
  <1>2. objs[o].aliases \in SUBSET Paths /\ S \in SUBSET Paths
    BY Zenon, <1>1 DEF Object
  <1>3. /\ Cardinality(objs[o].aliases \ S) = Cardinality(objs[o].aliases) - Cardinality(S)
        /\ Cardinality(objs[o].aliases \ S) \in Nat
        /\ Cardinality(S) \in Nat
        /\ Cardinality(objs[o].aliases) \in Nat
    BY Zenon, <1>2, LeftOver, PathsFinite
  <1>4. objs[o].refcount - Cardinality(S) > 0
    BY <1>1, <1>3
  <1>5. objs[o].refcount - Cardinality(S) \in Int
    BY <1>1, <1>3
  <1>. QED  BY <1>2, <1>4, <1>5 DEF Deref

\* Removing all of its entries frees the object.
LEMMA DerefAll ==
    ASSUME IInv, NEW o \in Objects, objs[o] /= NULL, NEW kept
    PROVE  Deref(o, PathsOf(o), kept) = NULL
  <1>1. objs[o].refcount = Cardinality(PathsOf(o)) /\ PathsOf(o) \in SUBSET Paths
    BY Zenon, OneObject
  <1>2. objs[o].refcount - Cardinality(PathsOf(o)) = 0
    BY <1>1, PathsFinite
  <1>. QED  BY <1>2 DEF Deref

\* An entry leads to an object.
LEMMA EntryLeads ==
    ASSUME IInv, NEW p \in Paths, paths[p] /= NULL
    PROVE  /\ paths[p] \in Objects
           /\ objs[paths[p]] /= NULL
           /\ p \in PathsOf(paths[p])
  BY Zenon DEF IInv, TypeOK, NamesAgree, Live, PathsOf

\* The calls that add names, or take aliases away.
MildCall ==
    \/ \E p \in Paths, ts \in SUBSET Traits :
        add_object_with_trait_list(p, ts) \/ add_object_with_trait_set(p, ts)
    \/ \E t \in Traits : add_trait(t)
    \/ \E p, a \in Paths : alias_object(p, a)
    \/ \E p \in Paths : unalias_object(p) \/ remove_all_object_aliases(p)
    \/ \E p \in Paths, S \in SUBSET Paths : registry_add_aliases(p, S)

\* They make one of the mild changes, or none.
LEMMA MildCallChanges ==
    ASSUME Ordinary, IInv, MildCall, batch = NULL
    PROVE  Mild /\ Others'
  <1>0. TypeOK
    BY Zenon DEF IInv
  <1>1. ASSUME NEW p \in Paths, NEW ts \in SUBSET Traits, add_object_with_trait_list(p, ts)
        PROVE  Mild /\ Others'
    <2>1. p \in Paths /\ ts \in SUBSET Traits
      BY Zenon, <1>1 DEF UserPaths
    <2>2. CASE \E err \in Errors : Return(err)
      BY Zenon, <2>2, NoEffect
    <2>3. CASE /\ paths[p] = NULL
               /\ registry_add_object(p, ts)
               /\ result' = "OK"
               /\ UNCHANGED <<traits, batch>>
      <3>1. Mild
        BY Zenon, <2>1, <2>3, AddObject
      <3>. QED  BY Zenon, <1>0, <2>3, <3>1 DEF Others, TypeOK
    <2>. QED  BY Zenon, <1>1, <2>2, <2>3 DEF add_object_with_trait_list, Ordinary, OutOfMemory, Errors
  <1>2. ASSUME NEW p \in Paths, NEW ts \in SUBSET Traits, add_object_with_trait_set(p, ts)
        PROVE  Mild /\ Others'
    <2>1. p \in Paths /\ ts \in SUBSET Traits
      BY Zenon, <1>2 DEF UserPaths
    <2>2. CASE \E err \in Errors : Return(err)
      BY Zenon, <2>2, NoEffect
    <2>3. CASE /\ paths[p] = NULL
               /\ registry_add_object(p, ts)
               /\ result' = "OK"
               /\ UNCHANGED <<traits, batch>>
      <3>1. Mild
        BY Zenon, <2>1, <2>3, AddObject
      <3>. QED  BY Zenon, <1>0, <2>3, <3>1 DEF Others, TypeOK
    <2>. QED  BY Zenon, <1>2, <2>2, <2>3 DEF add_object_with_trait_set, Ordinary, OutOfMemory, Errors
  <1>3. ASSUME NEW t \in Traits, add_trait(t)
        PROVE  Mild /\ Others'
    <2>1. MetaPath[t] \in Paths /\ {TRAIT_TRAIT} \in SUBSET Traits
      BY Zenon, NamesAssumption
    <2>2. CASE \E err \in Errors : Return(err)
      BY Zenon, <2>2, NoEffect
    <2>3. CASE /\ t \notin traits
               /\ traits' = traits \cup {t}
               /\ paths[MetaPath[t]] = NULL
               /\ registry_add_object(MetaPath[t], {TRAIT_TRAIT})
               /\ result' = "OK"
               /\ UNCHANGED batch
      <3>1. Mild
        BY Zenon, <2>1, <2>3, AddObject
      <3>. QED  BY Zenon, <1>0, <2>3, <3>1 DEF Others, TypeOK
    <2>4. CASE /\ traits' = traits \cup {t}
               /\ result' \in Errors
               /\ UNCHANGED <<paths, objs, batch>>
      BY Zenon, <1>0, <2>4 DEF Others, TypeOK, Mild
    <2>. QED  BY Zenon, <1>3, <2>2, <2>3, <2>4 DEF add_trait, Ordinary, OutOfMemory, Errors
  <1>4. ASSUME NEW p \in Paths, NEW a \in Paths, alias_object(p, a)
        PROVE  Mild /\ Others'
    <2>1. p \in Paths /\ a \in Paths
      BY Zenon DEF UserPaths
    <2>2. alias_error(p, a) \in Errors \cup {"OK"}
      BY Zenon DEF alias_error, Errors
    <2>3. CASE Return(alias_error(p, a))
      BY Zenon, <2>2, <2>3, NoEffect
    <2>4. CASE /\ alias_error(p, a) = "OK"
               /\ Link(p, a)
               /\ result' = "OK"
               /\ UNCHANGED <<traits, batch>>
      <3>1. Mild
        BY Zenon, <2>1, <2>4, LinkAlias
      <3>. QED  BY Zenon, <1>0, <2>4, <3>1 DEF Others, TypeOK
    <2>. QED  BY Zenon, <1>4, <2>3, <2>4 DEF alias_object, Ordinary
  <1>5. ASSUME NEW p \in Paths, unalias_object(p)
        PROVE  Mild /\ Others'
    <2>0. p \in Paths
      BY Zenon DEF UserPaths
    <2>1. CASE \E err \in Errors : Return(err)
      BY Zenon, <2>1, NoEffect
    <2>2. CASE /\ paths[p] /= NULL
               /\ p \in objs[paths[p]].aliases
               /\ objs' = [objs EXCEPT ![paths[p]] = Deref(paths[p], {p}, @.aliases \ {p})]
               /\ paths' = Without({p})
               /\ result' = "OK"
               /\ UNCHANGED <<traits, batch>>
      <3>. DEFINE o == paths[p]
      <3>1. o \in Objects /\ objs[o] /= NULL
        BY Zenon, <2>0, <2>2, EntryLeads
      <3>2. Cardinality({p}) = 1
        BY Zenon, FS_Singleton
      <3>3. Forgets(o, {p})
        BY Zenon, <2>2, <3>1, <3>2, DerefAliases DEF Forgets
      <3>4. Mild
        BY Zenon, <2>0, <3>1, <3>3 DEF Mild
      <3>. QED  BY Zenon, <1>0, <2>2, <3>4 DEF Others, TypeOK
    <2>. QED  BY Zenon, <1>5, <2>1, <2>2 DEF unalias_object, Errors
  <1>6. ASSUME NEW p \in Paths, remove_all_object_aliases(p)
        PROVE  Mild /\ Others'
    <2>0. p \in Paths
      BY Zenon DEF UserPaths
    <2>1. CASE \E err \in Errors : Return(err)
      BY Zenon, <2>1, NoEffect
    <2>2. CASE /\ paths[p] /= NULL
               /\ objs' = [objs EXCEPT ![paths[p]] = Deref(paths[p], @.aliases, {})]
               /\ paths' = Without(objs[paths[p]].aliases)
               /\ result' = "OK"
               /\ UNCHANGED <<traits, batch>>
      <3>. DEFINE o == paths[p]
                  S == objs[o].aliases
      <3>1. o \in Objects /\ objs[o] /= NULL
        BY Zenon, <2>0, <2>2, EntryLeads
      <3>2. S \ S = {}
        BY Zenon
      <3>a. /\ S \in SUBSET Paths
            /\ Deref(o, S, S \ S) = Counted(objs[o], objs[o].refcount - Cardinality(S), S \ S)
        BY Zenon, <3>1, DerefAliases
      <3>b. objs' = [objs EXCEPT ![o] = Deref(o, S, {})]
        BY Zenon, <2>2
      <3>c. objs' = [objs EXCEPT ![o] = Counted(objs[o], objs[o].refcount - Cardinality(S), S \ S)]
        BY Zenon, <3>2, <3>a, <3>b
      <3>3. S \in SUBSET Paths /\ Forgets(o, S)
        BY Zenon, <2>2, <3>1, <3>a, <3>c DEF Forgets
      <3>4. Mild
        BY Zenon, <3>1, <3>3 DEF Mild
      <3>. QED  BY Zenon, <1>0, <2>2, <3>4 DEF Others, TypeOK
    <2>. QED  BY Zenon, <1>6, <2>1, <2>2 DEF remove_all_object_aliases, Errors
  <1>7. ASSUME NEW p \in Paths, NEW S \in SUBSET Paths, registry_add_aliases(p, S)
        PROVE  Mild /\ Others'
    <2>1. CASE Return("OK")
      BY Zenon, <2>1, NoEffect
    <2>2. CASE /\ batch' = [path |-> p, left |-> S, inserted |-> {}, retry |-> NULL,
                            before |-> paths]
               /\ UNCHANGED <<paths, objs, traits, result>>
      BY Zenon, <1>0, <2>2 DEF Mild, Others, TypeOK, Batch, UserPaths
    <2>. QED  BY Zenon, <1>7, <2>1, <2>2 DEF registry_add_aliases
  <1>. QED  BY Zenon, <1>1, <1>2, <1>3, <1>4, <1>5, <1>6, <1>7 DEF MildCall

\* dicey_registry_delete_object drops the object that the path leads to.
LEMMA DeleteDrops ==
    ASSUME IInv, NEW p \in Paths, delete_object(p)
    PROVE  /\ Others'
           /\ UNCHANGED <<paths, objs>> \/ (paths[p] \in Objects /\ Drops(paths[p]))
  <1>0. TypeOK
    BY Zenon DEF IInv
  <1>1. CASE \E err \in Errors : Return(err)
    BY Zenon, <1>0, <1>1 DEF Return, Others, TypeOK
  <1>2. CASE paths[p] /= NULL /\ ~ \E err \in Errors : Return(err)
    <2>. DEFINE o == paths[p]
    <2>1. o \in Objects /\ objs[o] /= NULL
      BY Zenon, <1>2, EntryLeads
    <2>2. PathsOf(o) = objs[o].aliases \cup {objs[o].main_path}
      BY Zenon, <2>1, OneObject
    <2>3. /\ objs' = [objs EXCEPT ![o] = Deref(o, PathsOf(o), objs[o].aliases)]
          /\ paths' = Without(PathsOf(o))
          /\ result' = "OK"
          /\ UNCHANGED <<traits, batch>>
      BY Zenon, <1>2, <2>2 DEF delete_object, Errors
    <2>4. Drops(o)
      BY Zenon, <2>1, <2>3, DerefAll DEF Drops
    <2>. QED  BY Zenon, <1>0, <2>1, <2>3, <2>4 DEF Others, TypeOK
  <1>. QED  BY Zenon, <1>1, <1>2 DEF delete_object, Errors

\* Each call of Registry makes one of the four changes, or none.
LEMMA CallChanges ==
    ASSUME Ordinary, IInv, Call, batch = NULL
    PROVE  Change /\ Others'
  <1>0. TypeOK
    BY Zenon DEF IInv
  <1>1. CASE MildCall
    BY Zenon, <1>1, MildCallChanges DEF Change
  <1>2. ASSUME NEW p \in Paths, delete_object(p)
        PROVE  Change /\ Others'
    BY Zenon, <1>2, DeleteDrops DEF Change, Mild
  <1>3. ASSUME NEW p \in Paths, remove_object(p)
        PROVE  Change /\ Others'
    <2>1. CASE \E err \in Errors : Return(err)
      BY Zenon, <2>1, NoEffect DEF Change
    <2>2. CASE /\ paths[p] /= NULL
               /\ objs[paths[p]].aliases = {}
               /\ objs' = [objs EXCEPT ![paths[p]] = Deref(paths[p], {p}, @.aliases)]
               /\ paths' = Without({p})
               /\ result' = "OK"
               /\ UNCHANGED <<traits, batch>>
      <3>. DEFINE o == paths[p]
      <3>1. o \in Objects /\ objs[o] /= NULL /\ p \in PathsOf(o)
        BY Zenon, <2>2, EntryLeads
      <3>2. PathsOf(o) = {p}
        BY ZenonT(40), <2>2, <3>1, OneObject
      <3>3. Drops(o)
        BY Zenon, <2>2, <3>1, <3>2, DerefAll DEF Drops
      <3>4. Change
        BY Zenon, <3>1, <3>3 DEF Change
      <3>. QED  BY Zenon, <1>0, <2>2, <3>4 DEF Others, TypeOK
    <2>. QED  BY Zenon, <1>3, <2>1, <2>2 DEF remove_object, Errors, Ordinary
  <1>. QED  BY Zenon, <1>1, <1>2, <1>3 DEF Call, MildCall, UserPaths, Listed

\* A turn of registry_add_aliases adds an alias, takes some back, or neither.
LEMMA TurnChanges ==
    ASSUME Ordinary, IInv, BatchTurn
    PROVE  Mild /\ Others'
  <1>0. TypeOK /\ batch \in Batch
    BY Zenon DEF IInv, TypeOK, BatchTurn, Idle
  <1>1. PICK a \in batch.left : alias_next(a)
    BY Zenon DEF BatchTurn, Ordinary, alias_next_no_memory
  <1>2. /\ a \in Paths /\ batch.path \in Paths /\ UNCHANGED traits
        /\ batch.left \in SUBSET Paths /\ batch.inserted \in SUBSET Paths
    BY Zenon, <1>0, <1>1 DEF Batch, alias_next
  <1>3. CASE /\ alias_error(batch.path, a) = "OK"
             /\ Link(batch.path, a)
             /\ BatchGoesOn(batch.left \ {a}, batch.inserted \cup {a})
    <2>1. Mild
      BY Zenon, <1>2, <1>3, LinkAlias
    <2>2. [batch EXCEPT !.left = batch.left \ {a}, !.inserted = batch.inserted \cup {a}] \in Batch
      BY Zenon, <1>0, <1>2 DEF Batch
    <2>3. batch' \in Batch \cup {NULL} /\ result' = "OK"
      BY Zenon, <1>3, <2>2 DEF BatchGoesOn
    <2>. QED  BY Zenon, <1>0, <1>2, <2>1, <2>3 DEF Others, TypeOK
  <1>4. CASE /\ alias_error(batch.path, a) = "EEXIST"
             /\ batch' = [batch EXCEPT !.retry = a]
             /\ UNCHANGED <<paths, objs, result>>
    <2>1. batch' \in Batch
      BY Zenon, <1>0, <1>2, <1>4 DEF Batch
    <2>. QED  BY Zenon, <1>0, <1>2, <1>4, <2>1 DEF Others, TypeOK, Mild
  <1>5. CASE /\ alias_error(batch.path, a) \notin {"OK", "EEXIST"}
             /\ RollBack(0, {})
             /\ batch' = NULL
             /\ result' = alias_error(batch.path, a)
    <2>. DEFINE o == paths[batch.path]
                S == batch.inserted \cap objs[o].aliases
    <2>1. result' \in Errors
      BY Zenon, <1>5 DEF alias_error, Errors
    <2>2. CASE o = NULL
      BY Zenon, <1>0, <1>2, <1>5, <2>1, <2>2 DEF RollBack, Mild, Others, TypeOK
    <2>3. CASE o /= NULL
      <3>1. o \in Objects /\ objs[o] /= NULL
        BY Zenon, <1>2, <2>3, EntryLeads
      <3>2. objs[o] \in Object /\ S \in SUBSET Paths /\ Cardinality(S) \in Nat
        BY Zenon, <1>2, <3>1, OneObject, PathsFinite
      <3>3. /\ objs[o].refcount - Cardinality(S) + 0 = objs[o].refcount - Cardinality(S)
            /\ (objs[o].aliases \ S) \cup {} = objs[o].aliases \ S
        BY <3>2, SMTT(40) DEF Object
      <3>4. /\ objs' = [objs EXCEPT ![o] = Counted(objs[o], objs[o].refcount - Cardinality(S) + 0,
                                                   (objs[o].aliases \ S) \cup {})]
            /\ paths' = [p \in Paths |-> IF p \in {} THEN o ELSE Without(S)[p]]
        BY Zenon, <1>5, <2>3 DEF RollBack
      <3>5. paths' = Without(S)
        BY Zenon, <3>4 DEF Without
      <3>6. Forgets(o, S)
        BY Zenon, <3>1, <3>3, <3>4, <3>5 DEF Forgets
      <3>7. Mild
        BY Zenon, <3>1, <3>2, <3>6 DEF Mild
      <3>. QED  BY Zenon, <1>0, <1>2, <1>5, <2>1, <3>7 DEF Others, TypeOK
    <2>. QED  BY Zenon, <2>2, <2>3
  <1>. QED  BY Zenon, <1>1, <1>3, <1>4, <1>5 DEF alias_next

-----------------------------------------------------------------------------
LEMMA ChangeKeeps ==
    ASSUME IInv, Change
    PROVE  Agree'
  <1>1. CASE UNCHANGED <<paths, objs>>
    BY <1>1 DEF IInv, TypeOK, NamesAgree, RefcountsAgree, Agree, Tables, Live, PathsOf
  <1>. QED  BY Zenon, <1>1, AddsKeeps, LinksKeeps, ForgetsKeeps, DropsKeeps DEF Change, Mild

LEMMA StepChanges ==
    ASSUME Ordinary, IInv, [Next]_vars
    PROVE  Change /\ Others'
  <1>1. CASE Next
    BY Zenon, <1>1, CallChanges, TurnChanges DEF Next, Idle, Change
  <1>2. CASE UNCHANGED vars
    BY Zenon, <1>2 DEF vars, Change, Mild, Others, IInv, TypeOK
  <1>. QED  BY Zenon, <1>1, <1>2

LEMMA InvariantParts == (Agree /\ Others) => IInv
  BY Zenon DEF Agree, Others, IInv, Tables, TypeOK

LEMMA InvariantPartsNext == (Agree' /\ Others') => IInv'
  BY InvariantParts, PTL

LEMMA RegistryInvariant ==
    ASSUME Ordinary
    PROVE  Spec => []IInv
  <1>1. Init => IInv
    BY Zenon, NamesAssumption DEF Init, IInv, TypeOK, NamesAgree, RefcountsAgree, Live
  <1>2. IInv /\ [Next]_vars => IInv'
    BY Zenon, StepChanges, ChangeKeeps, InvariantPartsNext
  <1>. QED  BY <1>1, <1>2, PTL DEF Spec

\* The variables of the registry keep their types, so that no reference count
\* drops below 0, whatever is called in whatever order.
THEOREM RegistryTypeCorrect ==
    ASSUME Ordinary
    PROVE  Spec => []TypeOK
  BY RegistryInvariant, PTL DEF IInv

\* Objects and paths agree: an object in memory is reached from its main path
\* and its aliases and from nowhere else.
THEOREM RegistryNamesAgree ==
    ASSUME Ordinary
    PROVE  Spec => []NamesAgree
  BY RegistryInvariant, PTL DEF IInv

\* The reference count of an object is the number of paths that lead to it.
THEOREM RegistryRefcountsAgree ==
    ASSUME Ordinary
    PROVE  Spec => []RefcountsAgree
  BY RegistryInvariant, PTL DEF IInv

-----------------------------------------------------------------------------
\* The main path of a path that is in use, and of one that is not.
LEMMA MainPathOf ==
    ASSUME IInv, NEW p \in Paths
    PROVE  /\ paths[p] = NULL => MainPath[p] = NULL
           /\ paths[p] /= NULL =>
                /\ MainPath[p] = objs[paths[p]].main_path
                /\ MainPath[p] \in Paths
                /\ MainPath[p] /= NULL
                /\ paths[MainPath[p]] = paths[p]
  <1>1. paths[p] = NULL => MainPath[p] = NULL
    BY Zenon DEF MainPath
  <1>2. ASSUME paths[p] /= NULL
        PROVE  /\ MainPath[p] = objs[paths[p]].main_path
               /\ MainPath[p] \in Paths
               /\ MainPath[p] /= NULL
               /\ paths[MainPath[p]] = paths[p]
    <2>1. MainPath[p] = objs[paths[p]].main_path
      BY Zenon, <1>2 DEF MainPath
    <2>2. paths[p] \in Objects /\ objs[paths[p]] /= NULL
      BY Zenon, <1>2, EntryLeads
    <2>3. MainPath[p] \in PathsOf(paths[p])
      BY Zenon, <2>1, <2>2, OneObject
    <2>. QED  BY Zenon, <2>1, <2>3, NamesAssumption DEF PathsOf
  <1>. QED  BY Zenon, <1>1, <1>2

LEMMA ChangeRefines ==
    ASSUME IInv, Change
    PROVE  [Names!Next]_MainPath
  <1>0. TypeOK /\ Agree'
    BY Zenon, ChangeKeeps DEF IInv
  <1>1. CASE UNCHANGED <<paths, objs>>
    BY Zenon, <1>1 DEF MainPath
  <1>2. ASSUME NEW p \in Paths, NEW o \in Objects, NEW ts \in SUBSET Traits, Adds(p, o, ts)
        PROVE  Names!Register(p)
    <2>1. MainPath[p] = NULL
      BY Zenon, <1>2, MainPathOf DEF Adds
    <2>2. \A q \in Paths : paths[q] /= o
      BY Zenon, <1>2, NamesAssumption DEF Adds, IInv, NamesAgree, Live
    <2>3. /\ paths'[p] = o /\ o /= NULL /\ objs'[o].main_path = p
          /\ \A q \in Paths \ {p} : paths'[q] = paths[q]
          /\ \A u \in Objects \ {o} : objs'[u] = objs[u]
      BY Zenon, <1>0, <1>2, NamesAssumption DEF Adds, TypeOK, object_new_with
    <2>4. \A q \in Paths : MainPath'[q] = IF q = p THEN p ELSE MainPath[q]
      BY ZenonT(40), <1>0, <2>2, <2>3 DEF MainPath, TypeOK
    <2>5. MainPath' = [MainPath EXCEPT ![p] = p]
      BY Zenon, <2>4 DEF MainPath
    <2>. QED  BY Zenon, <2>1, <2>5 DEF Names!Register
  <1>3. ASSUME NEW o \in Objects, NEW a \in Paths, Links(o, a)
        PROVE  \E p \in Paths : Names!Alias(p, a)
    <2>. DEFINE p == objs[o].main_path
    <2>1. objs[o] /= NULL /\ p \in Paths /\ paths[p] = o
      BY <1>3, OneObject, ZenonT(40) DEF Links, PathsOf
    <2>2. MainPath[a] = NULL /\ MainPath[p] = p /\ MainPath[p] /= NULL
      BY Zenon, <1>3, <2>1, MainPathOf, NamesAssumption DEF Links
    <2>3. /\ paths'[a] = o /\ o /= NULL /\ objs'[o].main_path = p
          /\ \A q \in Paths \ {a} : paths'[q] = paths[q]
          /\ \A u \in Objects \ {o} : objs'[u] = objs[u]
      BY Zenon, <1>0, <1>3, NamesAssumption DEF Links, TypeOK, Counted
    <2>4. \A q \in Paths : MainPath'[q] = IF q = a THEN MainPath[p] ELSE MainPath[q]
      BY <1>0, <2>2, <2>3, SMTT(40) DEF MainPath, TypeOK
    <2>5. MainPath' = [MainPath EXCEPT ![a] = MainPath[p]]
      BY Zenon, <2>4 DEF MainPath
    <2>. QED  BY Zenon, <2>1, <2>2, <2>5 DEF Names!Alias
  <1>4. ASSUME NEW o \in Objects, NEW S \in SUBSET Paths, Forgets(o, S)
        PROVE  Names!Forget(S)
    <2>1. \A a \in S : MainPath[a] \notin {NULL, a}
      <3>. SUFFICES ASSUME NEW a \in S PROVE MainPath[a] \notin {NULL, a}
        BY Zenon
      <3>1. paths[a] = o /\ a /= objs[o].main_path
        BY Zenon, <1>4, OneObject DEF Forgets, PathsOf
      <3>. QED  BY Zenon, <3>1, MainPathOf, NamesAssumption
    <2>2. /\ objs'[o].main_path = objs[o].main_path
          /\ \A q \in Paths : paths'[q] = IF q \in S THEN NULL ELSE paths[q]
          /\ \A u \in Objects \ {o} : objs'[u] = objs[u]
      BY Zenon, <1>0, <1>4 DEF Forgets, TypeOK, Counted, Without
    <2>3. \A q \in Paths : MainPath'[q] = IF q \in S THEN NULL ELSE MainPath[q]
      BY Zenon, <1>0, <2>2 DEF MainPath, TypeOK
    <2>4. MainPath' = [q \in Paths |-> IF q \in S THEN NULL ELSE MainPath[q]]
      BY Zenon, <2>3 DEF MainPath
    <2>. QED  BY Zenon, <2>1, <2>4 DEF Names!Forget
  <1>5. ASSUME NEW o \in Objects, Drops(o)
        PROVE  \E m \in Paths : Names!Unregister(m)
    <2>. DEFINE m == objs[o].main_path
    <2>0. objs[o] /= NULL /\ m \in PathsOf(o)
      BY Zenon, <1>5, OneObject DEF Drops
    <2>1. objs[o] /= NULL /\ m \in Paths /\ paths[m] = o /\ o /= NULL
      BY Zenon, <2>0, NamesAssumption DEF PathsOf
    <2>2. MainPath[m] = m
      BY Zenon, <2>1, MainPathOf
    <2>3. \A q \in Paths : MainPath[q] = m <=> paths[q] = o
      <3>1. \A q \in Paths : paths[q] = o => MainPath[q] = m
        BY Zenon, <2>1, MainPathOf
      <3>2. \A q \in Paths : MainPath[q] = m => paths[q] = o
        BY Zenon, <2>1, MainPathOf, NamesAssumption
      <3>. QED  BY Zenon, <3>1, <3>2
    <2>4. Names!NamesOf(m) = PathsOf(o)
      BY Zenon, <2>3 DEF Names!NamesOf, PathsOf
    <2>5. /\ \A q \in Paths : paths'[q] = IF q \in PathsOf(o) THEN NULL ELSE paths[q]
          /\ \A u \in Objects \ {o} : objs'[u] = objs[u]
      BY Zenon, <1>0, <1>5 DEF Drops, TypeOK, Without
    <2>6. MainPath' = [q \in Paths |-> IF q \in PathsOf(o) THEN NULL ELSE MainPath[q]]
      BY Zenon, <1>0, <2>5 DEF MainPath, TypeOK, PathsOf
    <2>. QED  BY Zenon, <2>1, <2>2, <2>4, <2>6 DEF Names!Unregister
  <1>. QED  BY Zenon, <1>1, <1>2, <1>3, <1>4, <1>5 DEF Change, Mild, Names!Next

\* The registry implements the name space: to its users, an alias is one more
\* name of an object, which goes with the object or before it.
THEOREM RegistryRefinesNameSpace ==
    ASSUME Ordinary
    PROVE  Spec => RefinesNameSpace
  <1>1. Init => Names!Init
    BY Zenon DEF Init, Names!Init, MainPath
  <1>2. IInv /\ [Next]_vars => [Names!Next]_MainPath
    BY Zenon, StepChanges, ChangeRefines
  <1>. QED  BY <1>1, <1>2, RegistryInvariant, PTL DEF Spec, RefinesNameSpace, Names!Spec
====
