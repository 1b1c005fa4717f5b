-------------------------- MODULE Connection_proofs -------------------------
(***************************************************************************)
(* Proofs about Connection, for any finite set of gateways and any limit   *)
(* of the backoff.  StageInv is what makes the properties inductive: it    *)
(* ties what memory, disk and wire hold to the place where Run is.         *)
(***************************************************************************)
EXTENDS Connection, FiniteSetTheorems, TLAPS

USE DEF disk, wire, round

\* Run resets the pool exactly when every gateway is in it, so that a selection
\* always finds a gateway that has not failed.
LEMMA PoolReset ==
  ASSUME NEW S \in SUBSET Gateways
  PROVE  (IF Cardinality(S) >= Cardinality(Gateways) THEN {} ELSE S) # Gateways
<1>1. IsFiniteSet(Gateways) /\ Gateways # {}
  BY GatewaysAssumption
<1>2. Cardinality(Gateways) \in Nat
  BY <1>1, FS_CardinalityType
<1>3. S = Gateways => Cardinality(S) >= Cardinality(Gateways)
  BY <1>2
<1> QED
  BY <1>1, <1>3

\* The backoff starts, and stays when doubled, between a second and its limit.
LEMMA BackoffRange == 1 \in 1..MaxBackoff /\ (TypeOK => Doubled \in 1..MaxBackoff)
<1>1. 1 \in 1..MaxBackoff
  BY BackoffAssumption
<1>2. TypeOK => Doubled \in 1..MaxBackoff
  BY BackoffAssumption DEF TypeOK, Doubled
<1> QED
  BY <1>1, <1>2

LEMMA InitInv == Init => IInv
<1> SUFFICES ASSUME Init PROVE IInv
  OBVIOUS
<1>1. TypeOK
  BY BackoffRange DEF Init, TypeOK
<1>2. StageInv
  BY NoneAssumption DEF Init, StageInv, Connected, Answers, Requests
<1>3. DialsUntried
  BY DEF Init, DialsUntried, Connected
<1>4. EnrollInv
  BY NoneAssumption DEF Init, EnrollInv, Answers, Requests
<1> QED
  BY <1>1, <1>2, <1>3, <1>4 DEF IInv

\* Every step of the agent, of the gateways and of the network keeps IInv.
LEMMA NextInv == IInv /\ [Next]_vars => IInv'
<1> SUFFICES ASSUME IInv, [Next]_vars PROVE IInv'
  OBVIOUS
<1> USE GatewaysAssumption, BackoffAssumption, NoneAssumption
<1> USE DEF IInv, StageInv, EnrollInv, DialsUntried, Connected, Requests, Answers
<1>1. CASE Start
  BY <1>1, FlagsAssumption DEF Start, TokenFound, LoadedIdentity, TypeOK
<1>2. CASE ProcessEnds
  <2>1. TypeOK'
    BY <1>2, BackoffRange DEF ProcessEnds, TypeOK
  <2>2. StageInv'
    BY <1>2 DEF ProcessEnds, TypeOK
  <2>3. DialsUntried'
    BY <1>2 DEF ProcessEnds
  <2>4. EnrollInv'
    BY <1>2 DEF ProcessEnds
  <2> QED
    BY <2>1, <2>2, <2>3, <2>4
<1>3. CASE Select
  BY <1>3 DEF Select, Candidates, TypeOK
<1>4. CASE SelectFails
  BY <1>4 DEF SelectFails, TypeOK
<1>5. CASE WakeToRetry
  BY <1>5, BackoffRange DEF WakeToRetry, TypeOK
<1>6. CASE Wake
  BY <1>6, BackoffRange, PoolReset DEF Wake, TypeOK
<1>7. CASE Dial
  BY <1>7 DEF Dial, TypeOK
<1>8. CASE DialFails
  BY <1>8 DEF DialFails, ConnectionFails, TypeOK
<1>9. CASE Authenticate
  BY <1>9 DEF Authenticate, TypeOK
<1>10. CASE Register
  BY <1>10 DEF Register, TypeOK
<1>11. CASE HelloFails
  BY <1>11 DEF HelloFails, ConnectionFails, TypeOK
<1>12. CASE ReceiveRegistration
  BY <1>12 DEF ReceiveRegistration, Receive, TypeOK
<1>13. CASE SaveCredentials
  BY <1>13 DEF SaveCredentials, TypeOK
<1>14. CASE SaveFails
  BY <1>14 DEF SaveFails, ConnectionFails, TypeOK
<1>15. CASE ForgetToken
  BY <1>15 DEF ForgetToken, TypeOK
<1>16. CASE ReceiveChallenge
  BY <1>16 DEF ReceiveChallenge, Receive, TypeOK
<1>17. CASE ReceiveAuthenticated
  BY <1>17 DEF ReceiveAuthenticated, Receive, TypeOK
<1>18. CASE HandshakeFails
  BY <1>18 DEF HandshakeFails, ConnectionFails, TypeOK
<1>19. CASE SessionEnds
  BY <1>19 DEF SessionEnds, ConnectionFails, TypeOK
<1>20. CASE GatewayAnswers
  BY <1>20 DEF GatewayAnswers, TypeOK
<1>21. ASSUME NEW g \in Gateways, GatewayComesUp(g) PROVE IInv'
  BY <1>21 DEF GatewayComesUp, TypeOK
<1>22. ASSUME NEW g \in Gateways, GatewayGoesDown(g) PROVE IInv'
  BY <1>22 DEF GatewayGoesDown, TypeOK
<1>23. CASE UNCHANGED vars
  BY <1>23 DEF vars, TypeOK
<1> QED
  BY <1>1, <1>2, <1>3, <1>4, <1>5, <1>6, <1>7, <1>8, <1>9, <1>10, <1>11,
     <1>12, <1>13, <1>14, <1>15, <1>16, <1>17, <1>18, <1>19, <1>20,
     <1>21, <1>22, <1>23
     DEF Next, Loop, Network

-----------------------------------------------------------------------------
(* What holds of every behaviour.                                          *)

\* IInv holds throughout, across restarts, lost connections and failed writes.
THEOREM Invariance == Spec => []IInv
<1>1. Init => IInv
  BY InitInv
<1>2. IInv /\ [Next]_vars => IInv'
  BY NextInv
<1> QED
  BY <1>1, <1>2, PTL DEF Spec

\* Every variable keeps to the values the code gives it; the backoff never
\* exceeds its limit.
THEOREM TypeCorrect == Spec => []TypeOK
<1>1. IInv => TypeOK
  BY DEF IInv
<1> QED
  BY <1>1, Invariance, PTL

\* Run goes through all gateways before it dials one of them again.
THEOREM FailoverIsFair == Spec => []DialsUntried
<1>1. IInv => DialsUntried
  BY DEF IInv
<1> QED
  BY <1>1, Invariance, PTL

\* An agent with an identity never presents an enrollment token.
THEOREM EnrollsOnce == Spec => []RegistersOnlyUnenrolled
<1>1. IInv => RegistersOnlyUnenrolled
  BY DEF IInv, StageInv, TypeOK, RegistersOnlyUnenrolled
<1> QED
  BY <1>1, Invariance, PTL

\* Only ForgetToken writes the token file.
LEMMA TokenFileSteps == [Next]_vars => ForgetToken \/ UNCHANGED tokenFile
<1> USE DEF ConnectionFails, Receive
<1>1. Start \/ ProcessEnds \/ SessionEnds \/ GatewayAnswers => UNCHANGED tokenFile
  BY DEF Start, ProcessEnds, SessionEnds, GatewayAnswers
<1>2. Network => UNCHANGED tokenFile
  BY DEF Network, GatewayComesUp, GatewayGoesDown
<1>3. Loop => ForgetToken \/ UNCHANGED tokenFile
  BY DEF Loop, Select, SelectFails, WakeToRetry, Wake, Dial, DialFails, Authenticate,
         Register, HelloFails, ReceiveRegistration, SaveCredentials, SaveFails,
         ReceiveChallenge, ReceiveAuthenticated, HandshakeFails
<1> QED
  BY <1>1, <1>2, <1>3 DEF Next, vars

\* Only Start and SaveCredentials write the credentials file.
LEMMA CredsFileSteps == [Next]_vars => Start \/ SaveCredentials \/ UNCHANGED credsFile
<1> USE DEF ConnectionFails, Receive
<1>1. ProcessEnds \/ SessionEnds \/ GatewayAnswers => UNCHANGED credsFile
  BY DEF ProcessEnds, SessionEnds, GatewayAnswers
<1>2. Network => UNCHANGED credsFile
  BY DEF Network, GatewayComesUp, GatewayGoesDown
<1>3. Loop => SaveCredentials \/ UNCHANGED credsFile
  BY DEF Loop, Select, SelectFails, WakeToRetry, Wake, Dial, DialFails, Authenticate,
         Register, HelloFails, ReceiveRegistration, ForgetToken, SaveFails,
         ReceiveChallenge, ReceiveAuthenticated, HandshakeFails
<1> QED
  BY <1>1, <1>2, <1>3 DEF Next, vars

\* The enrollment token leaves the disk only when the identity is there.
THEOREM TokenIsKept == Spec => TokenKeptUntilEnrolled
<1>1. IInv /\ [Next]_vars => [tokenFile /\ ~ tokenFile' => credsFile = "enrolled"]_vars
  BY TokenFileSteps DEF ForgetToken, IInv, StageInv
<1> QED
  BY <1>1, Invariance, PTL DEF Spec, TokenKeptUntilEnrolled

\* An identity on disk, once known to the gateways, stays there.
THEOREM IdentityIsKept == Spec => IdentityNeverLost
<1>1. IInv /\ [Next]_vars =>
        [/\ credsFile = "enrolled" => credsFile' = "enrolled"
         /\ credsFile # "absent" => credsFile' # "absent"]_vars
  BY CredsFileSteps DEF Start, LoadedIdentity, SaveCredentials, IInv, StageInv
<1> QED
  BY <1>1, Invariance, PTL DEF Spec, IdentityNeverLost

\* A failed write of the credentials is the only way into a session that a
\* restart forgets (finishHandshake, Save): without one, every session has its
\* identity on disk.  (The run identity_not_saved shows that with one it need not.)
THEOREM RememberedUnlessSaveFails == Spec /\ SavesSucceed => []IdentityIsRemembered
<1> DEFINE Saved == creds = "enrolled" /\ pc # "persist" => credsFile = "enrolled"
<1>1. Init => Saved
  BY DEF Init
<1>2. IInv /\ Saved /\ [Next]_vars /\ [~SaveFails]_vars => Saved'
  <2> SUFFICES ASSUME IInv, Saved, [Next]_vars, [~SaveFails]_vars PROVE Saved'
    OBVIOUS
  <2>1. CASE Start \/ SaveCredentials
    BY <2>1 DEF Start, SaveCredentials, LoadedIdentity
  <2>2. CASE ReceiveRegistration
    BY <2>2 DEF ReceiveRegistration
  <2>3. CASE ProcessEnds
    BY <2>3 DEF ProcessEnds
  <2>4. CASE DialFails \/ HelloFails \/ HandshakeFails \/ SessionEnds
    BY <2>4 DEF DialFails, HelloFails, HandshakeFails, SessionEnds, ConnectionFails
  <2>5. CASE Select \/ SelectFails \/ WakeToRetry \/ Wake \/ Dial \/ ForgetToken
             \/ Authenticate \/ Register \/ ReceiveChallenge \/ ReceiveAuthenticated
    BY <2>5 DEF Select, SelectFails, WakeToRetry, Wake, Dial, ForgetToken, Authenticate,
                Register, ReceiveChallenge, ReceiveAuthenticated, Receive
  <2>6. CASE GatewayAnswers \/ Network \/ UNCHANGED vars
    BY <2>6 DEF GatewayAnswers, Network, GatewayComesUp, GatewayGoesDown, vars
  <2>7. CASE SaveFails
    BY <2>7 DEF SaveFails, ConnectionFails, vars
  <2> QED
    BY <2>1, <2>2, <2>3, <2>4, <2>5, <2>6, <2>7 DEF Next, Loop
<1>3. IInv /\ Saved => IdentityIsRemembered
  BY DEF IInv, EnrollInv, IdentityIsRemembered
<1> QED
  BY <1>1, <1>2, <1>3, Invariance, PTL DEF Spec, SavesSucceed

-----------------------------------------------------------------------------
(* Connection implements Enrollment.  Six actions are steps of it, the end *)
(* of a connection or of the process is its Hangup or Crash, and all       *)
(* others stutter.                                                         *)

USE DEF Enrolled!vars

LEMMA EnrolledInit == Init => Enrolled!Init
  BY DEF Init, Enrolled!Init

LEMMA EnrolledNext == IInv /\ [Next]_vars => [Enrolled!Next]_(Enrolled!vars)
<1> SUFFICES ASSUME IInv, [Next]_vars PROVE [Enrolled!Next]_(Enrolled!vars)
  OBVIOUS
<1> USE NoneAssumption DEF Enrolled!Next
<1>1. ASSUME ConnectionFails PROVE Enrolled!Hangup
  BY <1>1 DEF ConnectionFails, Enrolled!Hangup
<1>2. CASE Start
  <2>1. /\ pc' # "session" /\ pc # "session" /\ creds # "enrolled"
        /\ UNCHANGED <<tokenFile, tokenUsed>>
        /\ creds' = LoadedIdentity /\ credsFile' = creds'
    BY <1>2 DEF Start, IInv, StageInv
  <2>2. CASE credsFile = "absent"
    BY <2>1, <2>2 DEF LoadedIdentity, Enrolled!MakeKeys
  <2>3. CASE credsFile = "keys"
    BY <2>1, <2>3 DEF LoadedIdentity
  <2>4. CASE credsFile = "enrolled"
    BY <2>1, <2>4 DEF LoadedIdentity, IInv, EnrollInv, Enrolled!Learn
  <2> QED
    BY <2>2, <2>3, <2>4 DEF IInv, TypeOK
<1>3. CASE ProcessEnds
  BY <1>3 DEF ProcessEnds, Enrolled!Crash
<1>4. CASE ReceiveRegistration
  BY <1>4 DEF ReceiveRegistration, Receive, IInv, EnrollInv, Enrolled!Learn
<1>5. CASE SaveCredentials
  BY <1>5 DEF SaveCredentials, IInv, StageInv, Enrolled!Save
<1>6. CASE ForgetToken
  BY <1>6 DEF ForgetToken, IInv, StageInv, Enrolled!Forget
<1>7. CASE ReceiveAuthenticated
  BY <1>7 DEF ReceiveAuthenticated, Receive, IInv, EnrollInv, Enrolled!Serve
<1>8. CASE GatewayAnswers
  <2>1. UNCHANGED <<credsFile, tokenFile, creds, pc>>
        /\ tokenUsed' = (tokenUsed \/ sent = "register")
    BY <1>8 DEF GatewayAnswers
  <2>2. CASE ~tokenUsed /\ sent = "register"
    BY <2>1, <2>2 DEF IInv, StageInv, Enrolled!Redeem
  <2>3. CASE tokenUsed \/ sent # "register"
    BY <2>1, <2>3 DEF IInv, TypeOK
  <2> QED
    BY <2>2, <2>3
<1>9. CASE Select \/ SelectFails \/ WakeToRetry \/ Wake \/ Dial
           \/ Authenticate \/ Register \/ ReceiveChallenge
  BY <1>9 DEF Select, SelectFails, WakeToRetry, Wake, Dial,
              Authenticate, Register, ReceiveChallenge, Receive
<1>10. CASE DialFails \/ HelloFails \/ SaveFails \/ HandshakeFails \/ SessionEnds
  BY <1>1, <1>10 DEF DialFails, HelloFails, SaveFails, HandshakeFails, SessionEnds
<1>11. CASE Network \/ UNCHANGED vars
  BY <1>11 DEF Network, GatewayComesUp, GatewayGoesDown, vars
<1> QED
  BY <1>2, <1>3, <1>4, <1>5, <1>6, <1>7, <1>8, <1>9, <1>10, <1>11 DEF Next, Loop

\* The connection loop implements Enrollment, across lost connections, failed
\* writes and restarts at any point: the gateways accept the token once and from
\* a key pair on disk, and no agent without an identity is served.
THEOREM ImplementsEnrollment == Spec => EnrollmentSpec
<1>1. Init => Enrolled!Init
  BY EnrolledInit
<1>2. IInv /\ [Next]_vars => [Enrolled!Next]_(Enrolled!vars)
  BY EnrolledNext
<1> QED
  BY <1>1, <1>2, Invariance, PTL DEF Spec, EnrollmentSpec, Enrolled!Spec

=============================================================================
