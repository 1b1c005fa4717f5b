-------------------------- MODULE MCSecretManifest --------------------------
(* Values for SecretManifest's constants: three plugins, so that an entry  *)
(* leaves a list from its front, its middle and its end.                   *)
EXTENDS SecretManifest

CONSTANTS p1, p2, p3, sA, sB

=============================================================================
