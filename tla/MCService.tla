----------------------------- MODULE MCService ------------------------------
(* Values for the constants of Service and Settings.                       *)
EXTENDS Service

CONSTANTS t1, t2, k1, k2

\* The shell gives one duration that fits its width and leaves the other to .env,
\* whose durations do not.
MCShells == {[v \in Variables |-> IF v = "heartbeat" THEN Unset ELSE 3]}
MCDotEnvs == {[v \in Variables |-> 26]}

=============================================================================
