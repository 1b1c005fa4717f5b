-------------------------- MODULE MCPluginManager ---------------------------
(* Values for PluginManager's constants.                                   *)
EXTENDS PluginManager, TLC

CONSTANTS p1, p2, sA, sB, sX, c1, c2, c3

MCSlugOf == (c1 :> sA) @@ (c2 :> sB)
MCSlugOfUnsupported == (c1 :> sA) @@ (c3 :> sX)
Symmetry == Permutations(PluginIDs)

=============================================================================
