----------------------------- MODULE MCSession -----------------------------
(* Values for Session's constants.                                         *)
EXTENDS Session, TLC

CONSTANTS c1, c2

Symmetry == Permutations(Conns)

=============================================================================
