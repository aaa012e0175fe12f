------------------------------ MODULE MCRegistry ------------------------------
(* Registry, with the two traits it knows by name and their metaobjects.     *)
EXTENDS Registry, TLC

CONSTANTS m1, m2

MCTraits == {TRAIT_TRAIT, INTROSPECTION}
MCMetaPath == (TRAIT_TRAIT :> m1) @@ (INTROSPECTION :> m2)

\* Nothing tells the paths of the users apart.
MCSymmetry == Permutations(UserPaths)
==============================================================================
