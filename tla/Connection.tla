----------------------------- MODULE Connection -----------------------------
(***************************************************************************)
(* The agent's connection loop (internal/agent Run, connectAndRun and      *)
(* finishHandshake), with what it rests on: the start of the process       *)
(* (cmd/agent runAgent), the credentials file (internal/identity), the     *)
(* enrollment token file (internal/config) and the choice of a gateway     *)
(* (internal/gateway).                                                     *)
(*                                                                         *)
(* The loop is one goroutine; `pc' says where it is.  Each action ends at  *)
(* the next effect that outlives a crash or that the gateway can see.      *)
(* The process may end between any two: the service manager kills it, it   *)
(* crashes, or its context is cancelled, and in each case only the disk    *)
(* remains.  The gateway is external: it is modelled from the messages the *)
(* agent sends to it and expects of it.                                    *)
(*                                                                         *)
(* A gateway that is not in `up' fails every call made to it while it is   *)
(* out: a probe, a dial, a send, an answer within its deadline.            *)
(***************************************************************************)
EXTENDS Naturals, FiniteSets

CONSTANTS
  Gateways,    \* cfg.WSNodes, without repetition
  MaxBackoff,  \* cfg.ReconnectMax, in seconds
  TokenFlags,  \* whether the process may be started with --token
  None         \* no value

ASSUME GatewaysAssumption == IsFiniteSet(Gateways) /\ Gateways # {}
ASSUME BackoffAssumption == MaxBackoff \in Nat \ {0}
ASSUME FlagsAssumption == TokenFlags \subseteq BOOLEAN /\ TokenFlags # {}

VARIABLES
  (* The disk. *)
  credsFile,  \* credentials.json: absent, a key pair, or an enrolled identity
  tokenFile,  \* the file enrollment-token exists
  (* The memory of the process. *)
  pc,         \* where Run is
  creds,      \* Agent.creds
  token,      \* Run's enrollmentToken is not empty
  selected,   \* the gateway of this round
  failed,     \* failedGateways
  backoff,    \* the next sleep, in seconds
  (* The network and the gateways. *)
  up,         \* the gateways that can be reached
  sent,       \* what the gateway has to answer
  inbox,      \* its message that the agent has not read
  tokenUsed   \* the one-time token has been redeemed

disk == <<credsFile, tokenFile>>
wire == <<sent, inbox>>
round == <<selected, failed, backoff>>
vars == <<credsFile, tokenFile, pc, creds, token, selected, failed, backoff,
          up, sent, inbox, tokenUsed>>

\* What the gateway may have to answer, and what it may answer.
Requests == {"register", "registered", "authenticate", "response"}
Answers == {"registration_complete", "challenge", "authenticated", "error"}

ASSUME NoneAssumption == None \notin Gateways \cup Requests \cup Answers

\* The places of Run where it holds a connection.
Connected == {"hello", "handshake", "persist", "forget", "session"}

TypeOK ==
  /\ credsFile \in {"absent", "keys", "enrolled"}
  /\ tokenFile \in BOOLEAN
  /\ pc \in {"down", "select", "retry", "dial", "sleep"} \cup Connected
  /\ creds \in {"none", "keys", "enrolled"}
  /\ token \in BOOLEAN
  /\ selected \in Gateways \cup {None}
  /\ failed \subseteq Gateways
  /\ backoff \in 1..MaxBackoff
  /\ up \subseteq Gateways
  /\ sent \in Requests \cup {None}
  /\ inbox \in Answers \cup {None}
  /\ tokenUsed \in BOOLEAN

\* The service has been installed, for the first time or over an older one
\* whose identity it kept; or the agent is run by hand, with nothing on disk.
Init ==
  /\ credsFile \in {"absent", "enrolled"}
  /\ tokenFile \in BOOLEAN
  /\ pc = "down"
  /\ creds = "none"
  /\ token = FALSE
  /\ selected = None
  /\ failed = {}
  /\ backoff = 1
  /\ up \in SUBSET Gateways
  /\ sent = None
  /\ inbox = None
  /\ tokenUsed = (credsFile = "enrolled")

-----------------------------------------------------------------------------
(* The process.                                                            *)

\* ReadEnrollmentToken: the token comes from the command line or else from its
\* file, which may be missing or unreadable.
TokenFound == {flag \/ (tokenFile /\ readable) : flag \in TokenFlags, readable \in BOOLEAN}

\* Store.LoadOrCreate: the stored identity, or a key pair if there is none.
LoadedIdentity == IF credsFile = "absent" THEN "keys" ELSE credsFile

\* Mutant: every error of reading the credentials is taken for a missing file.
StartRegenerates ==
  /\ pc = "down"
  /\ token' \in TokenFound
  /\ creds' \in {"keys", LoadedIdentity}
  /\ credsFile' = creds'
  /\ pc' = "select"
  /\ UNCHANGED <<tokenFile, round, up, wire, tokenUsed>>

\* runAgent and agent.New: the process has a token or not, and an identity, which
\* is on disk before Run begins.  A start that fails changes nothing.
Start ==
  /\ pc = "down"
  /\ token' \in TokenFound
  /\ creds' = LoadedIdentity
  /\ credsFile' = creds'
  /\ pc' = "select"
  /\ UNCHANGED <<tokenFile, round, up, wire, tokenUsed>>

\* The process is killed, crashes or is told to stop.
ProcessEnds ==
  /\ pc # "down"
  /\ pc' = "down"
  /\ creds' = "none"
  /\ token' = FALSE
  /\ selected' = None
  /\ failed' = {}
  /\ backoff' = 1
  /\ sent' = None
  /\ inbox' = None
  /\ UNCHANGED <<disk, up, tokenUsed>>

-----------------------------------------------------------------------------
(* The choice of a gateway.                                                *)

\* SelectFastestExcluding probes the gateways that have not failed, or all of
\* them if every one has; which of those that answer is the fastest is open.
Candidates == IF Gateways \subseteq failed THEN Gateways ELSE Gateways \ failed

Select ==
  /\ pc = "select"
  /\ \E g \in Candidates \cap up : selected' = g
  /\ pc' = "dial"
  /\ UNCHANGED <<disk, creds, token, failed, backoff, up, wire, tokenUsed>>

\* No candidate answers: Run sleeps and selects again.
SelectFails ==
  /\ pc = "select"
  /\ Candidates \cap up = {}
  /\ pc' = "retry"
  /\ UNCHANGED <<disk, creds, token, round, up, wire, tokenUsed>>

\* Mutant: the limit of the backoff is forgotten.
DoubledForEver == 2 * backoff

Doubled == IF 2 * backoff < MaxBackoff THEN 2 * backoff ELSE MaxBackoff

WakeToRetry ==
  /\ pc = "retry"
  /\ backoff' = Doubled
  /\ pc' = "select"
  /\ UNCHANGED <<disk, creds, token, selected, failed, up, wire, tokenUsed>>

\* Mutant: the pool is reset one failure too late.
WakeOffByOne ==
  /\ pc = "sleep"
  /\ backoff' = Doubled
  /\ failed' = IF Cardinality(failed) > Cardinality(Gateways) THEN {} ELSE failed
  /\ selected' = None
  /\ pc' = "select"
  /\ UNCHANGED <<disk, creds, token, up, wire, tokenUsed>>

\* The sleep after a connection that ended: when every gateway has failed, all
\* are candidates again.
Wake ==
  /\ pc = "sleep"
  /\ backoff' = Doubled
  /\ failed' = IF Cardinality(failed) >= Cardinality(Gateways) THEN {} ELSE failed
  /\ selected' = None
  /\ pc' = "select"
  /\ UNCHANGED <<disk, creds, token, up, wire, tokenUsed>>

-----------------------------------------------------------------------------
(* The connection.                                                         *)

\* connectAndRun returns an error: the connection is closed, the gateway is set
\* aside, and the enrollment token is dropped.
ConnectionFails ==
  /\ failed' = failed \cup {selected}
  /\ token' = FALSE
  /\ sent' = None
  /\ inbox' = None
  /\ pc' = "sleep"
  /\ UNCHANGED <<disk, creds, selected, backoff, up, tokenUsed>>

Dial ==
  /\ pc = "dial"
  /\ selected \in up
  /\ pc' = "hello"
  /\ UNCHANGED <<disk, creds, token, round, up, wire, tokenUsed>>

DialFails ==
  /\ pc = "dial"
  /\ selected \notin up
  /\ ConnectionFails

Authenticate ==
  /\ pc = "hello"
  /\ creds = "enrolled"
  /\ sent' = "authenticate"
  /\ pc' = "handshake"
  /\ UNCHANGED <<disk, creds, token, round, up, inbox, tokenUsed>>

\* Mutant: a token, if there is one, goes before the stored identity.
RegisterFirst ==
  /\ pc = "hello"
  /\ token
  /\ sent' = "register"
  /\ pc' = "handshake"
  /\ UNCHANGED <<disk, creds, token, round, up, inbox, tokenUsed>>

Register ==
  /\ pc = "hello"
  /\ creds # "enrolled"
  /\ token
  /\ sent' = "register"
  /\ pc' = "handshake"
  /\ UNCHANGED <<disk, creds, token, round, up, inbox, tokenUsed>>

\* The agent is not enrolled and has no token, or the send fails.
HelloFails ==
  /\ pc = "hello"
  /\ (creds # "enrolled" /\ ~ token) \/ selected \notin up
  /\ ConnectionFails

Receive(message) ==
  /\ pc = "handshake"
  /\ inbox = message
  /\ inbox' = None

\* Mutant: the identity is not saved.
ReceiveUnsaved ==
  /\ Receive("registration_complete")
  /\ creds' = "enrolled"
  /\ pc' = "forget"
  /\ UNCHANGED <<disk, token, round, up, sent, tokenUsed>>

\* Mutant: the token file is removed as soon as the registration arrives.
ReceiveAndForget ==
  /\ Receive("registration_complete")
  /\ creds' = "enrolled"
  /\ tokenFile' = FALSE
  /\ pc' = "persist"
  /\ UNCHANGED <<credsFile, token, round, up, sent, tokenUsed>>

\* registration_complete: the identity is in memory before it is on disk.
ReceiveRegistration ==
  /\ Receive("registration_complete")
  /\ creds' = "enrolled"
  /\ pc' = "persist"
  /\ UNCHANGED <<disk, token, round, up, sent, tokenUsed>>

\* Store.Save: one rename replaces the credentials file.
SaveCredentials ==
  /\ pc = "persist"
  /\ credsFile' = creds
  /\ pc' = "forget"
  /\ UNCHANGED <<tokenFile, creds, token, round, up, wire, tokenUsed>>

SaveFails ==
  /\ pc = "persist"
  /\ ConnectionFails

\* os.Remove of the token file; its error is ignored.
ForgetToken ==
  /\ pc = "forget"
  /\ tokenFile' \in {FALSE, tokenFile}
  /\ pc' = "handshake"
  /\ UNCHANGED <<credsFile, creds, token, round, up, wire, tokenUsed>>

\* Mutant: the signed answer to a challenge is not sent.
ReceiveChallengeOnly ==
  /\ Receive("challenge")
  /\ UNCHANGED <<disk, pc, creds, token, round, up, sent, tokenUsed>>

ReceiveChallenge ==
  /\ Receive("challenge")
  /\ sent' = "response"
  /\ UNCHANGED <<disk, pc, creds, token, round, up, tokenUsed>>

ReceiveAuthenticated ==
  /\ Receive("authenticated")
  /\ pc' = "session"
  /\ UNCHANGED <<disk, creds, token, round, up, sent, tokenUsed>>

\* The gateway refuses, or the connection breaks or stays silent until the read
\* deadline, which covers the whole handshake.
HandshakeFails ==
  /\ pc = "handshake"
  /\ inbox = "error" \/ selected \notin up
  /\ ConnectionFails

\* The event loop ends on any read, write or probe error, also when the agent
\* itself was too slow to keep the connection alive.
SessionEnds ==
  /\ pc = "session"
  /\ ConnectionFails

-----------------------------------------------------------------------------
(* The gateways (external).                                                *)

\* The answer to what the agent sent last.  A token is accepted once; after a
\* registration the gateway may or may not ask for a signature.
GatewayAnswers ==
  /\ pc \in Connected
  /\ selected \in up
  /\ sent # None
  /\ inbox = None
  /\ inbox' \in CASE sent = "register"     -> {IF tokenUsed THEN "error" ELSE "registration_complete"}
                  [] sent = "registered"   -> {"challenge", "authenticated"}
                  [] sent = "authenticate" -> {"challenge"}
                  [] sent = "response"     -> {"authenticated"}
  /\ sent' = IF sent = "register" /\ ~ tokenUsed THEN "registered" ELSE None
  /\ tokenUsed' = (tokenUsed \/ sent = "register")
  /\ UNCHANGED <<disk, pc, creds, token, round, up>>

GatewayComesUp(g) ==
  /\ g \notin up
  /\ up' = up \cup {g}
  /\ UNCHANGED <<disk, pc, creds, token, round, wire, tokenUsed>>

GatewayGoesDown(g) ==
  /\ g \in up
  /\ up' = up \ {g}
  /\ UNCHANGED <<disk, pc, creds, token, round, wire, tokenUsed>>

-----------------------------------------------------------------------------
Loop ==
  \/ Select \/ SelectFails \/ WakeToRetry \/ Wake
  \/ Dial \/ DialFails \/ Authenticate \/ Register \/ HelloFails
  \/ ReceiveRegistration \/ SaveCredentials \/ SaveFails \/ ForgetToken
  \/ ReceiveChallenge \/ ReceiveAuthenticated \/ HandshakeFails

Network == \E g \in Gateways : GatewayComesUp(g) \/ GatewayGoesDown(g)

Next == Start \/ ProcessEnds \/ Loop \/ SessionEnds \/ GatewayAnswers \/ Network

\* The service manager starts the agent again whenever it ends (Restart=always);
\* every call in the loop has a timeout; a gateway that is up answers.
Fairness == WF_vars(Start) /\ WF_vars(Loop) /\ WF_vars(GatewayAnswers)

Spec == Init /\ [][Next]_vars
FairSpec == Spec /\ Fairness

-----------------------------------------------------------------------------
(* Safety.                                                                 *)

\* The agent registers only if it is not enrolled yet, whatever became of the
\* token file: a token that could not be removed, or one given again on the
\* command line, is not presented by an agent that has an identity.
RegistersOnlyUnenrolled ==
  sent = "register" => creds = "keys" /\ credsFile = "keys"

\* A gateway is not dialled again before the others have been: the gateway that
\* Run selects is never one that failed since the pool was last full.
DialsUntried ==
  pc \in {"dial"} \cup Connected => selected \in Gateways \ failed

\* The token stays on disk until the identity that it was exchanged for is
\* there, so that a process that dies in between finds one or the other.
TokenKeptUntilEnrolled ==
  [][tokenFile /\ ~ tokenFile' => credsFile = "enrolled"]_vars

\* No crash, failed write or unreadable file makes the agent replace an identity
\* that the gateways know, or lose its key pair.
IdentityNeverLost ==
  [][/\ credsFile = "enrolled" => credsFile' = "enrolled"
     /\ credsFile # "absent" => credsFile' # "absent"]_vars

\* A session survives a restart of the process: its identity is on disk.  (Save
\* may fail after the identity is in memory, and the next connection uses it:
\* see the run identity_not_saved.)
IdentityIsRemembered ==
  pc = "session" => credsFile = "enrolled"

\* No write of the credentials file fails.
SavesSucceed == [][~SaveFails]_vars

\* What the properties above rest on: what memory, disk and wire may hold
\* together, and that the pool of gateways is never empty at a selection.
StageInv ==
  /\ pc = "down" <=> creds = "none"
  /\ pc = "down" => failed = {}
  /\ pc # "down" /\ credsFile # "keys" => creds = "enrolled" /\ credsFile = "enrolled"
  /\ pc \in {"persist", "forget"} => creds = "enrolled"
  /\ pc = "forget" => credsFile = "enrolled"
  /\ pc \in {"select", "retry", "dial"} \cup Connected => failed # Gateways
  /\ pc \notin Connected \ {"hello"} => sent = None /\ inbox = None
  /\ sent = "register" => creds = "keys" /\ pc = "handshake" /\ inbox = None
  /\ inbox = "registration_complete" => creds = "keys" /\ pc = "handshake"

\* Who is enrolled with a gateway, or has one's word for it, has redeemed the
\* token; and only the enrolled authenticate and are served.
EnrollInv ==
  /\ creds = "enrolled" \/ credsFile = "enrolled" => tokenUsed
  /\ inbox = "registration_complete" => tokenUsed
  /\ sent = "registered" => creds = "enrolled" \/ inbox = "registration_complete"
  /\ sent \in {"authenticate", "response"} => creds = "enrolled"
  /\ inbox \in {"challenge", "authenticated"} => creds = "enrolled"
  /\ pc = "session" => creds = "enrolled"

\* The inductive invariant.
IInv ==
  /\ TypeOK
  /\ StageInv
  /\ EnrollInv
  /\ DialsUntried

-----------------------------------------------------------------------------
(* Refinement.                                                             *)

\* However connections and processes end and writes fail, the enrollment keeps
\* to Enrollment: it is the credentials file, the token file and what the
\* gateways know (Run, finishHandshake, LoadOrCreate, Save).
Enrolled == INSTANCE Enrollment WITH
  identity <- credsFile,
  token <- tokenFile,
  redeemed <- tokenUsed,
  known <- (creds = "enrolled"),
  serving <- (pc = "session")

EnrollmentSpec == Enrolled!Spec

-----------------------------------------------------------------------------
(* Liveness, under FairSpec.                                               *)

\* Once enrolled, and once the gateways stay up and the process stays alive, the
\* agent is again and again in a session, whatever failed before and however
\* often a session ends.
Reconnects ==
  <>[](up = Gateways /\ pc # "down" /\ credsFile = "enrolled") => []<>(pc = "session")

\* An agent that was given a token presents it, and again after a connection that
\* failed before it could, once the gateways stay up: in the end the agent is
\* enrolled or the token used, unless the process ends first.  (Run drops the token
\* with the first connection that fails: see the run token_dropped.)
EnrollsEventually ==
  <>[](up = Gateways) =>
    [](token /\ creds = "keys" =>
         <>(creds = "enrolled" \/ tokenUsed \/ pc = "down"))

=============================================================================
