----------------------------- MODULE Enrollment -----------------------------
(***************************************************************************)
(* What the agent and the gateways promise about an enrollment, without    *)
(* connections, messages or a choice of gateways: a token is redeemed once *)
(* and by a machine whose key pair is on disk, the identity it is good for *)
(* reaches memory, then the disk, and stays there, the token leaves the    *)
(* disk after that, and only an agent that knows its identity is served.   *)
(***************************************************************************)
VARIABLES
  (* durable *)
  identity,  \* of the machine: "absent", its "keys", or "enrolled"
  token,     \* the one-time token is on disk
  redeemed,  \* the gateways have accepted it
  (* volatile *)
  known,     \* the running agent has its identity in memory
  serving    \* it is in a session

vars == <<identity, token, redeemed, known, serving>>

Init ==
  /\ identity \in {"absent", "enrolled"}
  /\ token \in BOOLEAN
  /\ redeemed = (identity = "enrolled")
  /\ known = FALSE
  /\ serving = FALSE

MakeKeys ==
  /\ identity = "absent"
  /\ identity' = "keys"
  /\ UNCHANGED <<token, redeemed, known, serving>>

Redeem ==
  /\ identity = "keys"
  /\ ~redeemed
  /\ redeemed' = TRUE
  /\ UNCHANGED <<identity, token, known, serving>>

\* From the answer of the gateway, or from the disk.
Learn ==
  /\ redeemed
  /\ known' = TRUE
  /\ UNCHANGED <<identity, token, redeemed, serving>>

Save ==
  /\ known
  /\ identity' = "enrolled"
  /\ UNCHANGED <<token, redeemed, known, serving>>

Forget ==
  /\ identity = "enrolled"
  /\ token' = FALSE
  /\ UNCHANGED <<identity, redeemed, known, serving>>

Serve ==
  /\ known
  /\ serving' = TRUE
  /\ UNCHANGED <<identity, token, redeemed, known>>

Hangup ==
  /\ serving' = FALSE
  /\ UNCHANGED <<identity, token, redeemed, known>>

Crash ==
  /\ known' = FALSE
  /\ serving' = FALSE
  /\ UNCHANGED <<identity, token, redeemed>>

Next ==
  MakeKeys \/ Redeem \/ Learn \/ Save \/ Forget \/ Serve \/ Hangup \/ Crash

Spec == Init /\ [][Next]_vars
=============================================================================
