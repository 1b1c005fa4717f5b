------------------------------ MODULE Session ------------------------------
(***************************************************************************)
(* The sessions of one process (internal/agent connectAndRun, readLoop,    *)
(* send, the plugin reporters, and runMetricsLoop) and the goroutines that *)
(* share them: the main one, which runs connectAndRun; a reader and a      *)
(* metrics goroutine for each connection; and the plugin collector, which  *)
(* lives as long as the process and reports on whatever connection is      *)
(* published in pluginConn.                                                *)
(*                                                                         *)
(* Every write to a connection is two steps: take writeMu, and return from *)
(* the write.  Time is left out: any deadline may pass when what it waits  *)
(* for is not there.  The exchange before `authenticated', which module    *)
(* Connection describes, is the one message `hello'; what a plugin command *)
(* does to the plugins is in PluginManager.                                *)
(***************************************************************************)
EXTENDS Naturals

CONSTANTS
  Conns,        \* the connections of one process
  MaxMessages,  \* bound: the messages the gateway sends on one of them
  None          \* no value

ASSUME MessagesAssumption == MaxMessages \in Nat \ {0}

\* The goroutines that write to connections.  The metrics goroutine of a
\* connection has its name.
Writers == {"main", "collector"} \cup Conns

\* What ReadMessage returned: the number of the message, or an error.  Message 1
\* is `authenticated', the others are plugin commands.
ReadError == 0
Results == 0..MaxMessages

ASSUME NamesAssumption ==
  /\ None \notin Conns \cup Results
  /\ "main" \notin Conns
  /\ "collector" \notin Conns
  /\ None \notin {"main", "collector"}

VARIABLES
  stop,        \* the context is cancelled
  pc,          \* where the main goroutine is
  conn,        \* its connection, or the last one it had
  restored,    \* pluginRestoreOnce is done
  running,     \* some plugin is in the manager's map
  pluginConn,  \* the connection that plugin reports go to
  link,        \* the state of each connection
  sent,        \* how many messages the gateway has sent on it
  got,         \* how many of them have been read
  done,        \* the last one that has been handled
  reader,      \* readLoop
  held,        \* the result that readLoop has not put into its channel yet
  readCh,      \* the channel, of capacity 1
  metrics,     \* runMetricsLoop
  collector,   \* Manager.Run
  target,      \* the connection each goroutine sends on
  writing,     \* the goroutines inside WriteMessage
  writeMu      \* who holds the lock

streams == <<sent, got, done>>
readers == <<reader, held, readCh>>
plugins == <<restored, running, pluginConn>>
writers == <<target, writing, writeMu>>
vars == <<stop, pc, conn, restored, running, pluginConn, link, sent, got, done,
          reader, held, readCh, metrics, collector, target, writing, writeMu>>

\* Where the main goroutine sends something, and the places between sessions.
Sending == {"hello", "restore", "greet", "command", "beat"}
Between == {"dial", "returned"}

TypeOK ==
  /\ stop \in BOOLEAN
  /\ pc \in {"handshake", "loop", "close", "hangup"} \cup Sending \cup Between
  /\ conn \in Conns \cup {None}
  /\ restored \in BOOLEAN
  /\ running \in BOOLEAN
  /\ pluginConn \in Conns \cup {None}
  /\ link \in [Conns -> {"unused", "open", "broken", "closed"}]
  /\ sent \in [Conns -> 0..MaxMessages]
  /\ got \in [Conns -> 0..MaxMessages]
  /\ done \in [Conns -> 0..MaxMessages]
  /\ reader \in [Conns -> {"none", "reading", "ended"}]
  /\ held \in [Conns -> Results \cup {None}]
  /\ readCh \in [Conns -> Results \cup {None}]
  /\ metrics \in [Conns -> {"none", "wait", "send", "ended"}]
  /\ collector \in {"wait", "report", "ended"}
  /\ target \in [Writers -> Conns \cup {None}]
  /\ writing \subseteq Writers
  /\ writeMu \in Writers \cup {None}

Init ==
  /\ stop = FALSE
  /\ pc = "dial"
  /\ conn = None
  /\ restored = FALSE
  /\ running = FALSE
  /\ pluginConn = None
  /\ link = [c \in Conns |-> "unused"]
  /\ sent = [c \in Conns |-> 0]
  /\ got = [c \in Conns |-> 0]
  /\ done = [c \in Conns |-> 0]
  /\ reader = [c \in Conns |-> "none"]
  /\ held = [c \in Conns |-> None]
  /\ readCh = [c \in Conns |-> None]
  /\ metrics = [c \in Conns |-> "none"]
  /\ collector = "wait"
  /\ target = [w \in Writers |-> None]
  /\ writing = {}
  /\ writeMu = None

\* connectAndRun has left connection c: its deferred functions have cancelled
\* the metrics context.
Over(c) ==
  /\ link[c] # "unused"
  /\ conn = c => pc \in {"hangup"} \cup Between

-----------------------------------------------------------------------------
(* Writing: send, and the ping.                                            *)

\* Mutant: heartbeats and pings are written without the lock.
LockUnlessBeat(w) ==
  /\ target[w] # None
  /\ w \notin writing
  /\ writeMu = None \/ (w = "main" /\ pc = "beat")
  /\ writeMu' = w
  /\ writing' = writing \cup {w}
  /\ UNCHANGED <<stop, pc, conn, plugins, link, streams, readers, metrics, collector, target>>

Lock(w) ==
  /\ target[w] # None
  /\ w \notin writing
  /\ writeMu = None
  /\ writeMu' = w
  /\ writing' = writing \cup {w}
  /\ UNCHANGED <<stop, pc, conn, plugins, link, streams, readers, metrics, collector, target>>

\* The write returns, by its deadline at the latest, and the lock is released.
\* What is written to a broken connection may still be taken, and is lost.
Written(w, ok) ==
  /\ w \in writing
  /\ link[target[w]] # (IF ok THEN "closed" ELSE "open")
  /\ writing' = writing \ {w}
  /\ writeMu' = None

Sent(w) == Written(w, TRUE) \/ Written(w, FALSE)

\* The main goroutine goes on to p and sends on c there.
MainSends(p, c) ==
  /\ pc' = p
  /\ target' = [target EXCEPT !["main"] = c]

MainGoesTo(p) == MainSends(p, None)

\* What most steps of the main goroutine leave alone.
others == <<stop, conn, plugins, link, streams, readers, metrics, collector>>

-----------------------------------------------------------------------------
(* The main goroutine: from the dial to the event loop.                    *)

\* Mutant: the plugins are restored before the first connection.
DialRestores ==
  /\ pc = "dial"
  /\ ~ stop
  /\ \E c \in Conns :
       /\ link[c] = "unused"
       /\ link' = [link EXCEPT ![c] = "open"]
       /\ conn' = c
       /\ pluginConn' = c
       /\ MainSends("hello", c)
  /\ restored' = TRUE
  /\ running' \in {running, TRUE}
  /\ UNCHANGED <<stop, streams, readers, metrics, collector, writing, writeMu>>

\* The new connection is published to the plugin reporters at once.
Dial ==
  /\ pc = "dial"
  /\ ~ stop
  /\ \E c \in Conns :
       /\ link[c] = "unused"
       /\ link' = [link EXCEPT ![c] = "open"]
       /\ conn' = c
       /\ pluginConn' = c
       /\ MainSends("hello", c)
  /\ UNCHANGED <<stop, restored, running, streams, readers, metrics, collector, writing, writeMu>>

\* Run returns when its context is cancelled between two connections.
Return ==
  /\ pc = "dial"
  /\ stop
  /\ MainGoesTo("returned")
  /\ UNCHANGED <<others, writing, writeMu>>

\* Mutant: the metrics goroutine starts before the handshake.
HelloSentWithMetrics ==
  /\ pc = "hello"
  /\ Written("main", TRUE)
  /\ metrics' = [metrics EXCEPT ![conn] = "wait"]
  /\ MainGoesTo("handshake")
  /\ UNCHANGED <<stop, conn, plugins, link, streams, readers, collector>>

HelloSent ==
  /\ pc = "hello"
  /\ Written("main", TRUE)
  /\ MainGoesTo("handshake")
  /\ UNCHANGED others

\* finishHandshake reads `authenticated'.  The first time in a process, Restore
\* follows, which starts plugins or not and reports each that it tries.
ReceiveAuthenticated ==
  /\ pc = "handshake"
  /\ got[conn] < sent[conn]
  /\ link[conn] # "closed"
  /\ got' = [got EXCEPT ![conn] = @ + 1]
  /\ done' = [done EXCEPT ![conn] = @ + 1]
  /\ restored' = TRUE
  /\ \/ ~ restored /\ running' \in BOOLEAN /\ MainSends("restore", pluginConn)
     \/ UNCHANGED running /\ MainSends("greet", conn)
  /\ UNCHANGED <<stop, conn, pluginConn, link, sent, readers, metrics, collector, writing, writeMu>>

\* The gateway refuses, the connection breaks, or the deadline passes.
HandshakeFails ==
  /\ pc = "handshake"
  /\ MainGoesTo("close")
  /\ UNCHANGED <<others, writing, writeMu>>

\* Restore's report has been sent or has failed: the first heartbeat is next.
RestoreReported ==
  /\ pc = "restore"
  /\ Sent("main")
  /\ MainSends("greet", conn)
  /\ UNCHANGED others

\* The session begins: the metrics goroutine and the reader start.
GreetingSent ==
  /\ pc = "greet"
  /\ Written("main", TRUE)
  /\ metrics' = [metrics EXCEPT ![conn] = "wait"]
  /\ reader' = [reader EXCEPT ![conn] = "reading"]
  /\ MainGoesTo("loop")
  /\ UNCHANGED <<stop, conn, plugins, link, streams, held, readCh, collector>>

\* A send that the session cannot do without has failed.
SendFails ==
  /\ pc \in {"hello", "greet", "beat"}
  /\ Written("main", FALSE)
  /\ MainGoesTo("close")
  /\ UNCHANGED others

-----------------------------------------------------------------------------
(* The main goroutine: the event loop.                                     *)

\* Mutant: a cancelled context ends the wait, and the loop goes on.
NoticeAndGoOn == pc = "loop" /\ stop /\ UNCHANGED vars

NoticeStop ==
  /\ pc = "loop"
  /\ stop
  /\ MainGoesTo("close")
  /\ UNCHANGED <<others, writing, writeMu>>

Take(result) ==
  /\ pc = "loop"
  /\ readCh[conn] # None
  /\ result = readCh[conn]
  /\ readCh' = [readCh EXCEPT ![conn] = None]

ConnectionLost ==
  /\ Take(ReadError)
  /\ MainGoesTo("close")
  /\ UNCHANGED <<stop, conn, plugins, link, streams, reader, held, metrics, collector, writing, writeMu>>

\* handleServerMessage: a command changes the plugins or fails, with a report or
\* (a removal, an invalid or unknown message) without.
HandleMessage ==
  /\ \E m \in 1..MaxMessages :
       /\ Take(m)
       /\ done' = [done EXCEPT ![conn] = m]
  /\ running' \in BOOLEAN
  /\ MainSends("command", pluginConn) \/ MainGoesTo("loop")
  /\ UNCHANGED <<stop, conn, restored, pluginConn, link, sent, got, reader, held, metrics,
                 collector, writing, writeMu>>

CommandReported ==
  /\ pc = "command"
  /\ Sent("main")
  /\ MainGoesTo("loop")
  /\ UNCHANGED others

\* The ticker of the heartbeat or that of the ping.
Tick ==
  /\ pc = "loop"
  /\ MainSends("beat", conn)
  /\ UNCHANGED <<others, writing, writeMu>>

BeatSent ==
  /\ pc = "beat"
  /\ Written("main", TRUE)
  /\ MainGoesTo("loop")
  /\ UNCHANGED others

\* The health ticker: a probe, on a connection of its own, fails.
ProbeFails ==
  /\ pc = "loop"
  /\ MainGoesTo("close")
  /\ UNCHANGED <<others, writing, writeMu>>

-----------------------------------------------------------------------------
(* The main goroutine: the deferred functions.                             *)

\* Mutant: the connection stays published.
UnpublishNothing ==
  /\ pc = "close"
  /\ MainGoesTo("hangup")
  /\ UNCHANGED <<others, writing, writeMu>>

\* metricsCancel, and the connection is withdrawn from the plugin reporters.
Unpublish ==
  /\ pc = "close"
  /\ pluginConn' = IF pluginConn = conn THEN None ELSE pluginConn
  /\ MainGoesTo("hangup")
  /\ UNCHANGED <<stop, conn, restored, running, link, streams, readers, metrics, collector,
                 writing, writeMu>>

\* conn.Close, and Run goes on or returns.
Hangup ==
  /\ pc = "hangup"
  /\ link' = [link EXCEPT ![conn] = "closed"]
  /\ MainGoesTo(IF stop THEN "returned" ELSE "dial")
  /\ UNCHANGED <<stop, conn, plugins, streams, readers, metrics, collector, writing, writeMu>>

-----------------------------------------------------------------------------
(* readLoop.                                                               *)

Read(c) ==
  /\ reader[c] = "reading"
  /\ held[c] = None
  /\ got[c] < sent[c]
  /\ link[c] # "closed"
  /\ got' = [got EXCEPT ![c] = @ + 1]
  /\ held' = [held EXCEPT ![c] = got'[c]]
  /\ UNCHANGED <<stop, pc, conn, plugins, link, sent, done, reader, readCh, metrics, collector, writers>>

ReadFails(c) ==
  /\ reader[c] = "reading"
  /\ held[c] = None
  /\ held' = [held EXCEPT ![c] = ReadError]
  /\ UNCHANGED <<stop, pc, conn, plugins, link, streams, reader, readCh, metrics, collector, writers>>

\* The connection is closed or broken; or nothing, not even a pong, has come
\* before the deadline.
ReadLost(c) == link[c] # "open" /\ ReadFails(c)
ReadTimesOut(c) == link[c] = "open" /\ got[c] = sent[c] /\ ReadFails(c)

\* The reader's result goes into the channel; the reader is then r.
Deliver(c, r) ==
  /\ held[c] # None
  /\ readCh' = [readCh EXCEPT ![c] = held[c]]
  /\ held' = [held EXCEPT ![c] = None]
  /\ reader' = [reader EXCEPT ![c] = r]
  /\ UNCHANGED <<stop, pc, conn, plugins, link, streams, metrics, collector, writers>>

\* After an error the reader returns.
AfterResult(c) == IF held[c] = ReadError THEN "ended" ELSE "reading"

\* Mutant: an error ends the reader without a word.
PassOnMessages(c) ==
  \/ readCh[c] = None /\ held[c] # ReadError /\ Deliver(c, "reading")
  \/ /\ held[c] = ReadError
     /\ held' = [held EXCEPT ![c] = None]
     /\ reader' = [reader EXCEPT ![c] = "ended"]
     /\ UNCHANGED <<stop, pc, conn, plugins, link, streams, readCh, metrics, collector, writers>>

\* Mutant: a full channel loses its message to the newer one.
PassOnLatest(c) == Deliver(c, AfterResult(c))

\* Mutant: the reader ends after the first message.
PassOnOnce(c) == readCh[c] = None /\ Deliver(c, "ended")

\* Mutant: the reader goes on after an error.
PassOnAndGoOn(c) == readCh[c] = None /\ Deliver(c, "reading")

\* The result is passed on as soon as the channel has room.
PassOn(c) == readCh[c] = None /\ Deliver(c, AfterResult(c))

-----------------------------------------------------------------------------
(* runMetricsLoop.                                                         *)

\* At its start and at every tick the goroutine takes a snapshot and sends it.  A
\* snapshot that cannot be taken changes nothing.
MetricsCollect(c) ==
  /\ metrics[c] = "wait"
  /\ metrics' = [metrics EXCEPT ![c] = "send"]
  /\ target' = [target EXCEPT ![c] = c]
  /\ UNCHANGED <<stop, pc, conn, plugins, link, streams, readers, collector, writing, writeMu>>

MetricsSent(c) ==
  /\ Written(c, TRUE)
  /\ metrics' = [metrics EXCEPT ![c] = "wait"]
  /\ target' = [target EXCEPT ![c] = None]
  /\ UNCHANGED <<stop, pc, conn, plugins, link, streams, readers, collector>>

\* The goroutine closes the connection, for the reader to notice, and returns.
MetricsFail(c) ==
  /\ Written(c, FALSE)
  /\ link' = [link EXCEPT ![c] = "closed"]
  /\ metrics' = [metrics EXCEPT ![c] = "ended"]
  /\ target' = [target EXCEPT ![c] = None]
  /\ UNCHANGED <<stop, pc, conn, plugins, streams, readers, collector>>

MetricsStop(c) ==
  /\ metrics[c] = "wait"
  /\ stop \/ Over(c)
  /\ metrics' = [metrics EXCEPT ![c] = "ended"]
  /\ UNCHANGED <<stop, pc, conn, plugins, link, streams, readers, collector, writers>>

-----------------------------------------------------------------------------
(* Manager.Run, the collector.                                             *)

\* A round over the copied map begins, with a report to send.
Collect ==
  /\ collector = "wait"
  /\ running
  /\ collector' = "report"
  /\ UNCHANGED <<stop, pc, conn, plugins, link, streams, readers, metrics, writers>>

\* Telemetry and status of this plugin and the next, or the round is over.
AfterReport == {"report", "wait"}

\* reportPluginTelemetry and reportPluginStatus take the published connection.
Report ==
  /\ collector = "report"
  /\ target["collector"] = None
  /\ pluginConn # None
  /\ target' = [target EXCEPT !["collector"] = pluginConn]
  /\ UNCHANGED <<stop, pc, conn, plugins, link, streams, readers, metrics, collector, writing, writeMu>>

\* If there is none, the report is dropped.
ReportDropped ==
  /\ collector = "report"
  /\ target["collector"] = None
  /\ pluginConn = None
  /\ collector' \in AfterReport
  /\ UNCHANGED <<stop, pc, conn, plugins, link, streams, readers, metrics, writers>>

Reported ==
  /\ Sent("collector")
  /\ collector' \in AfterReport
  /\ target' = [target EXCEPT !["collector"] = None]
  /\ UNCHANGED <<stop, pc, conn, plugins, link, streams, readers, metrics>>

CollectorStop ==
  /\ collector = "wait"
  /\ stop
  /\ collector' = "ended"
  /\ UNCHANGED <<stop, pc, conn, plugins, link, streams, readers, metrics, writers>>

-----------------------------------------------------------------------------
(* The gateway, the network and the user (external).                       *)

\* `authenticated' answers the agent's hello; commands follow.
GatewaySends(c) ==
  /\ link[c] = "open"
  /\ c = conn
  /\ sent[c] = 0 => pc = "handshake"
  /\ sent[c] < MaxMessages
  /\ sent' = [sent EXCEPT ![c] = @ + 1]
  /\ UNCHANGED <<stop, pc, conn, plugins, link, got, done, readers, metrics, collector, writers>>

Break(c) ==
  /\ link[c] = "open"
  /\ link' = [link EXCEPT ![c] = "broken"]
  /\ UNCHANGED <<stop, pc, conn, plugins, streams, readers, metrics, collector, writers>>

Stop ==
  /\ ~ stop
  /\ stop' = TRUE
  /\ UNCHANGED <<pc, conn, plugins, link, streams, readers, metrics, collector, writers>>

\* Run has returned, and the process is at its end.
Exit == pc = "returned" /\ UNCHANGED vars

-----------------------------------------------------------------------------
Main ==
  \/ Dial \/ Return \/ HelloSent \/ ReceiveAuthenticated \/ HandshakeFails
  \/ RestoreReported \/ GreetingSent \/ SendFails
  \/ NoticeStop \/ ConnectionLost \/ HandleMessage \/ CommandReported
  \/ Tick \/ BeatSent \/ ProbeFails \/ Unpublish \/ Hangup

Reader(c) == Read(c) \/ ReadLost(c) \/ PassOn(c)

Metrics(c) ==
  MetricsCollect(c) \/ MetricsSent(c) \/ MetricsFail(c) \/ MetricsStop(c)

Collector == Collect \/ Report \/ ReportDropped \/ Reported \/ CollectorStop

Network(c) == GatewaySends(c) \/ Break(c) \/ ReadTimesOut(c)

Next ==
  \/ Main
  \/ Collector
  \/ \E w \in Writers : Lock(w)
  \/ \E c \in Conns : Reader(c) \/ Metrics(c) \/ Network(c)
  \/ Stop
  \/ Exit

\* The goroutines run and their calls have deadlines.  A mutex is not held back
\* from one goroutine for ever, and select chooses at random among the cases that
\* are ready, so that none is passed over for ever.  Neither the network nor the
\* gateway promises anything.
Fairness ==
  /\ WF_vars(Main) /\ SF_vars(NoticeStop) /\ SF_vars(ConnectionLost \/ HandleMessage)
  /\ WF_vars(Collector)
  /\ \A w \in Writers : SF_vars(Lock(w))
  /\ \A c \in Conns : WF_vars(Reader(c)) /\ WF_vars(Metrics(c)) /\ SF_vars(MetricsStop(c))

Spec == Init /\ [][Next]_vars
FairSpec == Spec /\ Fairness

-----------------------------------------------------------------------------
(* Safety.                                                                 *)

\* A connection has one writer at a time, as its package demands, among the event
\* loop, the metrics goroutines of this and of earlier sessions, and the
\* collector, which may still hold an earlier connection.
OneWriter ==
  \A v, w \in writing : target[v] = target[w] => v = w

\* System metrics go out only on a connection that has been authenticated.
\* (Plugin telemetry does not wait: the collector finds the connection when it
\* is dialled.)
MetricsAuthenticated ==
  \A c \in Conns : target[c] # None => done[c] > 0

\* The collector sends nothing before the process has been authenticated once:
\* nothing runs before Restore, which comes after the first handshake.
PluginsNeedIdentity ==
  target["collector"] # None => \E c \in Conns : done[c] > 0

\* Across the reader, its channel and the event loop, the messages of the gateway
\* are handled in their order and none is left out: those that have been read and
\* not handled are in the channel or in the reader's hands.
NothingSkipped ==
  \A c \in Conns : {readCh[c], held[c]} \ {None, ReadError} = done[c] + 1 .. got[c]

\* What the properties above rest on.  Who writes holds the lock, and has a
\* connection to write to.
LockInv == \A w \in writing : writeMu = w /\ target[w] # None

\* The main goroutine sends on its own connection, which exists, and which is the
\* published one for as long as it has not been left.
MainInv ==
  /\ conn # None => link[conn] # "unused"
  /\ pc \notin Between => conn # None
  /\ pluginConn = IF pc \in {"hangup"} \cup Between THEN None ELSE conn
  /\ target["main"] = IF pc \in Sending THEN conn ELSE None
  /\ pc \in {"restore", "greet", "loop", "command", "beat"} => done[conn] > 0

\* The goroutines of a connection start only after its handshake.
StartInv ==
  /\ \A c \in Conns :
       /\ link[c] = "unused" => reader[c] = "none" /\ metrics[c] = "none"
       /\ reader[c] = "none" => readCh[c] = None /\ held[c] = None
       /\ metrics[c] # "none" => done[c] > 0
       /\ target[c] # None => metrics[c] = "send" /\ target[c] = c
  /\ pc \in {"hello", "handshake", "restore", "greet"} =>
       reader[conn] = "none" /\ metrics[conn] = "none"

\* What is in flight between the wire and the event loop.
Messages(result) == IF result \in {None, ReadError} THEN 0 ELSE 1

StreamInv ==
  \A c \in Conns :
    /\ got[c] <= sent[c]
    /\ got[c] = done[c] + Messages(readCh[c]) + Messages(held[c])
    /\ Messages(readCh[c]) = 1 => readCh[c] = done[c] + 1
    /\ Messages(held[c]) = 1 => held[c] = got[c]

\* Plugins run only in a process that has been authenticated.
PluginInv ==
  /\ target["collector"] # None => collector = "report"
  /\ running \/ collector = "report" => \E c \in Conns : done[c] > 0

\* The inductive invariant.
IInv == TypeOK /\ LockInv /\ MainInv /\ StartInv /\ StreamInv /\ PluginInv

-----------------------------------------------------------------------------
(* Liveness, under FairSpec.                                               *)

\* A cancelled context ends Run, whatever it is doing.
StopIsObeyed == stop ~> pc = "returned"

\* A connection that is lost, or that the metrics goroutine has closed, ends its
\* session, although writes to it may go on succeeding.
LossIsNoticed == \A c \in Conns : link[c] \in {"broken", "closed"} ~> Over(c)

\* A command that the gateway sends is handled while the session lasts.
CommandsAreHandled ==
  \A c \in Conns, m \in 1..MaxMessages : sent[c] >= m ~> done[c] >= m \/ Over(c)

\* No goroutine outlives its session, but a reader that is left behind with a
\* result in its hands while a command that nobody will take fills the channel.
SessionsEnd ==
  \A c \in Conns :
    Over(c) ~> /\ metrics[c] \in {"none", "ended"}
               /\ reader[c] = "reading" =>
                    held[c] # None /\ readCh[c] \notin {None, ReadError}

=============================================================================
