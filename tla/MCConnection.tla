---------------------------- MODULE MCConnection ----------------------------
(* Values for Connection's constants.                                      *)
EXTENDS Connection

CONSTANTS g1, g2, g3

=============================================================================
