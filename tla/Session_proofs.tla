--------------------------- MODULE Session_proofs ---------------------------
(***************************************************************************)
(* Proofs about Session, for any connections and any number of messages.   *)
(* IInv ties the place of the main goroutine to what the others may do:    *)
(* none of them exists before the handshake of its connection, and what is *)
(* between the wire and the event loop is counted (StreamInv), which is    *)
(* what the order of the messages rests on.                                *)
(***************************************************************************)
EXTENDS Session, TLAPS

USE DEF streams, readers, plugins, writers, others

\* When a write returns, nobody is left inside a write.
LEMMA WriteReturns ==
  ASSUME LockInv, NEW w \in Writers, NEW ok \in BOOLEAN, Written(w, ok)
  PROVE  writing' = {} /\ writeMu' = None /\ target[w] # None
BY DEF LockInv, Written

\* The same for a send whose result does not matter.
LEMMA SendReturns ==
  ASSUME LockInv, NEW w \in Writers, Sent(w)
  PROVE  writing' = {} /\ writeMu' = None /\ target[w] # None
<1>1. CASE Written(w, TRUE)
  BY <1>1, WriteReturns
<1>2. CASE Written(w, FALSE)
  BY <1>2, WriteReturns
<1> QED
  BY <1>1, <1>2 DEF Sent

-----------------------------------------------------------------------------
(* The inductive invariant.                                                *)

\* Before the first dial nothing is sent, read or held.
LEMMA InitInv == Init => IInv
<1> SUFFICES ASSUME Init PROVE IInv
  OBVIOUS
<1> USE MessagesAssumption, NamesAssumption
<1>0. 0 \in 0..MaxMessages
  OBVIOUS
<1>1. TypeOK
  BY <1>0 DEF Init, TypeOK, Sending, Between
<1>2. LockInv /\ MainInv /\ StartInv
  BY DEF Init, LockInv, MainInv, StartInv, Sending, Between, Writers
<1>3. StreamInv /\ PluginInv
  BY DEF Init, StreamInv, PluginInv, Messages, Writers
<1> QED
  BY <1>1, <1>2, <1>3 DEF IInv

\* Every step of a goroutine, of the gateway and of the network keeps IInv.
LEMMA NextInv == IInv /\ [Next]_vars => IInv'
<1> SUFFICES ASSUME IInv, [Next]_vars PROVE IInv'
  OBVIOUS
<1> USE MessagesAssumption, NamesAssumption
<1> USE DEF IInv, TypeOK, LockInv, MainInv, StartInv, StreamInv, PluginInv,
            Messages, Results, ReadError, Writers, Sending, Between
<1>1. ASSUME NEW w \in Writers, Lock(w) PROVE IInv'
  BY <1>1 DEF Lock
<1>2. CASE Dial
  BY <1>2 DEF Dial, MainSends
<1>3. CASE Return
  BY <1>3 DEF Return, MainGoesTo, MainSends
<1>4. CASE HelloSent
  BY <1>4, WriteReturns DEF HelloSent, MainGoesTo, MainSends, Written
<1>5. CASE ReceiveAuthenticated
  <2>1. conn \in Conns /\ pluginConn = conn /\ got[conn] \in Nat
    BY <1>5 DEF ReceiveAuthenticated
  <2>2. readCh[conn] = None /\ held[conn] = None
    BY <1>5, <2>1 DEF ReceiveAuthenticated
  <2>3. got[conn] = done[conn] /\ got[conn] + 1 <= sent[conn]
    BY <1>5, <2>1, <2>2 DEF ReceiveAuthenticated
  <2>4. got[conn] + 1 \in 0..MaxMessages
    BY <2>1, <2>3
  <2>5. running' \in BOOLEAN
    BY <1>5 DEF ReceiveAuthenticated
  <2>6. \/ MainSends("restore", conn)
        \/ MainSends("greet", conn)
    BY <1>5, <2>1 DEF ReceiveAuthenticated
  <2>7. /\ pc' \in {"restore", "greet"}
          /\ target' = [target EXCEPT !["main"] = conn]
    BY <2>6 DEF MainSends
  <2>8. /\ done' \in [Conns -> 0..MaxMessages]
          /\ \A c \in Conns : done'[c] = IF c = conn THEN done[c] + 1 ELSE done[c]
    BY <1>5, <2>1, <2>3, <2>4 DEF ReceiveAuthenticated
  <2>9. TypeOK'
    BY <1>5, <2>1, <2>4, <2>5, <2>7, <2>8 DEF ReceiveAuthenticated
  <2>10. LockInv'
    BY <1>5, <2>7 DEF ReceiveAuthenticated
  <2>11. MainInv'
    BY <1>5, <2>1, <2>3, <2>7, <2>8 DEF ReceiveAuthenticated
  <2>12. StartInv'
    BY <1>5, <2>1, <2>2, <2>3, <2>7, <2>8 DEF ReceiveAuthenticated
  <2>13. StreamInv'
    BY <1>5, <2>1, <2>2, <2>3, <2>7, <2>8 DEF ReceiveAuthenticated
  <2>14. PluginInv'
    BY <1>5, <2>1, <2>3, <2>7, <2>8 DEF ReceiveAuthenticated
  <2> QED
    BY <2>9, <2>10, <2>11, <2>12, <2>13, <2>14
<1>6. CASE HandshakeFails
  BY <1>6 DEF HandshakeFails, MainGoesTo, MainSends
<1>7. CASE RestoreReported
  BY <1>7, SendReturns DEF RestoreReported, MainSends
<1>8. CASE GreetingSent
  <2>1. conn \in Conns /\ done[conn] > 0 /\ link[conn] # "unused"
    BY <1>8 DEF GreetingSent
  <2>2. TypeOK'
    BY <1>8, WriteReturns, <2>1 DEF GreetingSent, MainGoesTo, MainSends, Written
  <2>3. LockInv'
    BY <1>8, WriteReturns, <2>1 DEF GreetingSent, MainGoesTo, MainSends, Written
  <2>4. MainInv'
    BY <1>8, WriteReturns, <2>1 DEF GreetingSent, MainGoesTo, MainSends, Written
  <2>5. StartInv'
    <3>1. target' = [target EXCEPT !["main"] = None] /\ pc' = "loop"
      BY <1>8 DEF GreetingSent, MainGoesTo, MainSends
    <3>2. /\ reader' = [reader EXCEPT ![conn] = "reading"]
          /\ metrics' = [metrics EXCEPT ![conn] = "wait"]
          /\ UNCHANGED <<link, done, readCh, held>>
      BY <1>8 DEF GreetingSent
    <3>3. target[conn] = None
      BY <2>1, <1>8 DEF GreetingSent
    <3> QED
      BY <2>1, <3>1, <3>2, <3>3
  <2>6. StreamInv'
    BY <1>8, WriteReturns, <2>1 DEF GreetingSent, MainGoesTo, MainSends, Written
  <2>7. PluginInv'
    BY <1>8, WriteReturns, <2>1 DEF GreetingSent, MainGoesTo, MainSends, Written
  <2> QED
    BY <2>2, <2>3, <2>4, <2>5, <2>6, <2>7
<1>9. CASE SendFails
  BY <1>9, WriteReturns DEF SendFails, MainGoesTo, MainSends, Written
<1>10. CASE NoticeStop
  BY <1>10 DEF NoticeStop, MainGoesTo, MainSends
<1>11. CASE ConnectionLost
  BY <1>11 DEF ConnectionLost, Take, MainGoesTo, MainSends
<1>12. CASE HandleMessage
  <2>1. PICK m \in 1..MaxMessages : Take(m) /\ done' = [done EXCEPT ![conn] = m]
    BY <1>12 DEF HandleMessage
  <2>2. conn \in Conns /\ pluginConn = conn /\ readCh[conn] = m
    BY <2>1 DEF Take
  <2>3. m = done[conn] + 1 /\ m \in 0..MaxMessages /\ m > 0
    BY <2>1, <2>2
  <2>4. running' \in BOOLEAN
    BY <1>12 DEF HandleMessage
  <2>5. MainSends("command", conn) \/ MainSends("loop", None)
    BY <1>12, <2>2 DEF HandleMessage, MainGoesTo
  <2>6. /\ pc' \in {"command", "loop"}
          /\ target' = [target EXCEPT !["main"] = IF pc' = "command" THEN conn ELSE None]
    BY <2>5 DEF MainSends
  <2>7. /\ done' \in [Conns -> 0..MaxMessages]
          /\ \A c \in Conns : done'[c] = IF c = conn THEN m ELSE done[c]
    BY <2>1, <2>2, <2>3
  <2>8. \A c \in Conns : readCh'[c] = IF c = conn THEN None ELSE readCh[c]
    BY <2>1, <2>2 DEF Take
  <2>9. TypeOK'
    BY <1>12, <2>2, <2>3, <2>4, <2>6, <2>7 DEF HandleMessage, Take
  <2>10. LockInv'
    BY <1>12, <2>1, <2>6 DEF HandleMessage, Take
  <2>11. MainInv'
    BY <1>12, <2>2, <2>3, <2>6, <2>7 DEF HandleMessage, Take
  <2>12. StartInv'
    BY <1>12, <2>2, <2>3, <2>6, <2>7, <2>8 DEF HandleMessage, Take
  <2>13. StreamInv'
    <3>1. got' = got /\ sent' = sent /\ held' = held
      BY <1>12 DEF HandleMessage
    <3>2. ASSUME NEW c \in Conns, c # conn
          PROVE  done'[c] = done[c] /\ readCh'[c] = readCh[c]
      BY <3>2, <2>7, <2>8
    <3>3. /\ done'[conn] = m /\ readCh'[conn] = None
          /\ got[conn] = m + Messages(held[conn])
      BY <2>2, <2>3, <2>7, <2>8
    <3> QED
      BY <2>2, <2>3, <3>1, <3>2, <3>3
  <2>14. PluginInv'
    BY <1>12, <2>2, <2>3, <2>6, <2>7 DEF HandleMessage
  <2> QED
    BY <2>9, <2>10, <2>11, <2>12, <2>13, <2>14
<1>13. CASE CommandReported
  BY <1>13, SendReturns DEF CommandReported, MainGoesTo, MainSends
<1>14. CASE Tick
  BY <1>14 DEF Tick, MainSends
<1>15. CASE BeatSent
  BY <1>15, WriteReturns DEF BeatSent, MainGoesTo, MainSends, Written
<1>16. CASE ProbeFails
  BY <1>16 DEF ProbeFails, MainGoesTo, MainSends
<1>17. CASE Unpublish
  BY <1>17 DEF Unpublish, MainGoesTo, MainSends
<1>18. CASE Hangup
  BY <1>18 DEF Hangup, MainGoesTo, MainSends
<1>19. ASSUME NEW c \in Conns, Read(c) PROVE IInv'
  BY <1>19 DEF Read
<1>20. ASSUME NEW c \in Conns, ReadLost(c) PROVE IInv'
  BY <1>20 DEF ReadLost, ReadFails
<1>21. ASSUME NEW c \in Conns, ReadTimesOut(c) PROVE IInv'
  BY <1>21 DEF ReadTimesOut, ReadFails
<1>22. ASSUME NEW c \in Conns, PassOn(c) PROVE IInv'
  BY <1>22 DEF PassOn, Deliver, AfterResult
<1>23. ASSUME NEW c \in Conns, MetricsCollect(c) PROVE IInv'
  BY <1>23 DEF MetricsCollect
<1>24. ASSUME NEW c \in Conns, MetricsSent(c) PROVE IInv'
  BY <1>24, SendReturns DEF MetricsSent, Written
<1>25. ASSUME NEW c \in Conns, MetricsFail(c) PROVE IInv'
  BY <1>25, WriteReturns DEF MetricsFail, Written
<1>26. ASSUME NEW c \in Conns, MetricsStop(c) PROVE IInv'
  BY <1>26 DEF MetricsStop
<1>27. CASE Collect
  BY <1>27 DEF Collect
<1>28. CASE Report
  BY <1>28 DEF Report
<1>29. CASE ReportDropped
  BY <1>29 DEF ReportDropped, AfterReport
<1>30. CASE Reported
  BY <1>30, SendReturns DEF Reported, AfterReport
<1>31. CASE CollectorStop
  BY <1>31 DEF CollectorStop
<1>32. ASSUME NEW c \in Conns, GatewaySends(c) PROVE IInv'
  BY <1>32 DEF GatewaySends
<1>33. ASSUME NEW c \in Conns, Break(c) PROVE IInv'
  BY <1>33 DEF Break
<1>34. CASE Stop
  BY <1>34 DEF Stop
<1>35. CASE Exit
  BY <1>35 DEF Exit, vars
<1>36. CASE UNCHANGED vars
  BY <1>36 DEF vars
<1> QED
  BY
     <1>1, <1>2, <1>3, <1>4, <1>5, <1>6, <1>7, <1>8, <1>9, <1>10, <1>11,
     <1>12, <1>13, <1>14, <1>15, <1>16, <1>17, <1>18, <1>19, <1>20, <1>21,
     <1>22, <1>23, <1>24, <1>25, <1>26, <1>27, <1>28, <1>29, <1>30, <1>31,
     <1>32, <1>33, <1>34, <1>35, <1>36
     DEF Next, Main, Collector, Reader, Metrics, Network

-----------------------------------------------------------------------------
(* What holds of every behaviour.                                          *)

\* IInv holds throughout, whichever goroutine runs when.
THEOREM Invariance == Spec => []IInv
<1>1. Init => IInv
  BY InitInv
<1>2. IInv /\ [Next]_vars => IInv'
  BY NextInv
<1> QED
  BY <1>1, <1>2, PTL DEF Spec

\* Two goroutines never write to one connection at a time.
THEOREM WritersExclude == Spec => []OneWriter
<1>1. IInv => OneWriter
  BY DEF IInv, LockInv, OneWriter
<1> QED
  BY <1>1, Invariance, PTL

\* System metrics are sent on authenticated connections only.
THEOREM MetricsWaitForHandshake == Spec => []MetricsAuthenticated
<1>1. IInv => MetricsAuthenticated
  BY DEF IInv, StartInv, MetricsAuthenticated
<1> QED
  BY <1>1, Invariance, PTL

\* The collector sends nothing before the first handshake of the process.
THEOREM PluginsWaitForIdentity == Spec => []PluginsNeedIdentity
<1>1. IInv => PluginsNeedIdentity
  BY DEF IInv, PluginInv, PluginsNeedIdentity
<1> QED
  BY <1>1, Invariance, PTL

\* The messages that were read and not handled are those in the channel and in the
\* reader's hands: none is skipped, and they are handled in order.
THEOREM MessagesInOrder == Spec => []NothingSkipped
<1>1. ASSUME IInv, NEW c \in Conns
      PROVE  {readCh[c], held[c]} \ {None, ReadError} = done[c] + 1 .. got[c]
  <2> USE <1>1, MessagesAssumption, NamesAssumption
  <2> USE DEF IInv, TypeOK, StreamInv, Messages, Results, ReadError
  <2>1. done[c] \in Nat /\ got[c] \in Nat
    OBVIOUS
  <2>2. CASE Messages(readCh[c]) = 0 /\ Messages(held[c]) = 0
    BY <2>1, <2>2
  <2>3. CASE Messages(readCh[c]) = 0 /\ Messages(held[c]) = 1
    BY <2>1, <2>3
  <2>4. CASE Messages(readCh[c]) = 1 /\ Messages(held[c]) = 0
    BY <2>1, <2>4
  <2>5. CASE Messages(readCh[c]) = 1 /\ Messages(held[c]) = 1
    BY <2>1, <2>5
  <2> QED
    BY <2>2, <2>3, <2>4, <2>5
<1>2. IInv => NothingSkipped
  BY <1>1 DEF NothingSkipped
<1> QED
  BY <1>2, Invariance, PTL

=============================================================================
