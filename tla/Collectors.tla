----------------------------- MODULE Collectors -----------------------------
(***************************************************************************)
(* The rounds of the collector goroutine (internal/plugins, Manager.Run)   *)
(* and what each plugin does in its turn: the UniFi plugin's requests      *)
(* (module UniFi) and the one request of the Proxmox plugin.               *)
(*                                                                         *)
(* Module PluginManager has these rounds beside installs and removals,     *)
(* without time; here the plugins are fixed and time is what matters: one  *)
(* goroutine collects from all of them, so that a slow one delays the      *)
(* others, and the ticker drops the ticks that nobody takes.               *)
(***************************************************************************)
EXTENDS UniFi

CONSTANTS
  UniFis, Proxmoxes,  \* the plugins that run
  WithSite,           \* the UniFi plugins that have a site configured
  Nodes,              \* names of nodes of a Proxmox cluster
  NodeScope,          \* the entries of each Proxmox plugin's scope
  Blank,              \* an entry without a name
  Star, SpacedStar,   \* the entry *, and one with blanks beside it
  ProxmoxTimeout,     \* the time-out of the plugin's client
  SendTime,           \* the longest that telemetry and status take to send
  None                \* no plugin

Plugins == UniFis \cup Proxmoxes

ASSUME PluginsAssumption ==
  /\ IsFiniteSet(Plugins) /\ UniFis \cap Proxmoxes = {} /\ None \notin Plugins
  /\ WithSite \subseteq UniFis
ASSUME ScopeAssumption ==
  /\ Nodes \cap {Blank, Star, SpacedStar} = {}
  /\ Blank \notin {Star, SpacedStar} /\ Star # SpacedStar
  /\ NodeScope \in [Proxmoxes -> Seq(Nodes \cup {Blank, Star, SpacedStar})]
ASSUME SendAssumption == ProxmoxTimeout \in Nat \ {0} /\ SendTime \in Nat

VARIABLES
  todo,     \* the plugins of the round that have not had their turn
  current,  \* the plugin that has it
  found,    \* what its collection gave, until it is reported
  untick,   \* the time until the next tick
  tick,     \* the channel of the ticker, of capacity 1
  age,      \* the time since the last collection of each plugin began
  result,   \* what it gave, "measured" before the first
  status    \* the plugin's last status

round == <<todo, current, found>>
ticker == <<untick, tick>>
reports == <<result, status>>
vars == <<job, spent, todo, current, found, untick, tick, age, result, status>>

\* The longest between two collections of a plugin: it is the first of a round
\* and the last of the next, and every turn takes as long as it can.
Longest == (2 * Cardinality(Plugins) - 1) * (Interval + SendTime)

Found == {"none", "failed", "noNodes", "outOfScope", "measured"}

\* A collection without an error and without a measurement.
Empty == {"noNodes", "outOfScope"}

\* The plugins have been started and reported as running.
Init ==
  /\ job = NoJob /\ spent = 0
  /\ todo = Plugins /\ current = None /\ found = "none"
  /\ untick = Interval /\ tick = FALSE
  /\ age = [p \in Plugins |-> 0]
  /\ result = [p \in Plugins |-> "measured"]
  /\ status = [p \in Plugins |-> "running"]

Capped(n) == IF n > Longest THEN Longest + 1 ELSE n

\* A ticker without a buffer: a tick during a round is lost.
ElapseUnbuffered(d) ==
  /\ untick' = IF d < untick THEN untick - d
                             ELSE Interval - ((d - untick) % Interval)
  /\ tick' = (d >= untick /\ todo = {} /\ current = None)
  /\ age' = [p \in Plugins |-> Capped(age[p] + d)]

\* Time passes.  A tick that finds the channel full is dropped.  Ages stop one
\* above the bound.
Elapse(d) ==
  /\ untick' = IF d < untick THEN untick - d
                             ELSE Interval - ((d - untick) % Interval)
  /\ tick' = (tick \/ d >= untick)
  /\ age' = [p \in Plugins |-> Capped(age[p] + d)]

-----------------------------------------------------------------------------
\* A plugin that failed is left out of the next round.
BeginRoundWithout ==
  /\ todo = {} /\ current = None /\ tick
  /\ todo' = {p \in Plugins : status[p] = "running"} /\ tick' = FALSE
  /\ UNCHANGED <<job, spent, current, found, untick, age, reports>>

\* <-ticker.C, and the snapshot of the plugins.
BeginRound ==
  /\ todo = {} /\ current = None /\ tick
  /\ todo' = Plugins /\ tick' = FALSE
  /\ UNCHANGED <<job, spent, current, found, untick, age, reports>>

\* The goroutine waits for the ticker.
Await ==
  /\ todo = {} /\ current = None /\ ~tick
  /\ Elapse(untick)
  /\ UNCHANGED <<job, spent, round, reports>>

\* The snapshot is of a map: its order is any.
Turn(p) ==
  /\ current = None /\ p \in todo
  /\ current' = p /\ todo' = todo \ {p}
  /\ job' = IF p \in UniFis THEN Started ELSE NoJob
  /\ spent' = 0
  /\ age' = [age EXCEPT ![p] = 0]
  /\ UNCHANGED <<found, ticker, reports>>

\* A collection of the UniFi plugin.
Request(d) ==
  /\ current \in UniFis /\ found = "none"
  /\ Requesting(d, current \in WithSite)
  /\ Elapse(d)
  /\ UNCHANGED <<round, reports>>

\* The summary and the rows make at least one measurement.
Collected ==
  /\ current \in UniFis /\ found = "none"
  /\ \/ Complete /\ found' = "measured"
     \/ job.stage = "failed" /\ found' = "failed"
  /\ UNCHANGED <<job, spent, todo, current, ticker, age, reports>>

\* A scope of blank entries is taken for a scope of no nodes.
InScopeOfBlanks(scope, nodes) ==
  IF scope \in {<<Blank>>, <<Star>>} THEN nodes ELSE nodes \cap Range(scope)

\* The scope as it stands is compared with the star, and only then are its entries
\* trimmed.  A star among others, or with blanks, names no node; a scope whose
\* entries are all blank is of all nodes.
InScope(scope, nodes) ==
  LET wanted == Range(scope) \ {Blank}
  IN  IF scope = <<Star>> \/ wanted = {} THEN nodes ELSE nodes \cap wanted

\* A collection of the Proxmox plugin: one request, answered with any nodes or none.
ListNodes(d) ==
  /\ current \in Proxmoxes /\ found = "none"
  /\ d \in 0..ProxmoxTimeout /\ d <= Interval
  /\ \/ found' = "failed"
     \/ /\ d < ProxmoxTimeout /\ d < Interval
        /\ \E nodes \in SUBSET Nodes :
             \/ nodes = {} /\ found' = "noNodes"
             \/ /\ nodes # {}
                /\ found' = IF InScope(NodeScope[current], nodes) = {}
                            THEN "outOfScope" ELSE "measured"
  /\ spent' = d /\ Elapse(d)
  /\ UNCHANGED <<job, todo, current, reports>>

\* The telemetry and the status; nothing for a collection that is empty.
Report(d) ==
  /\ found # "none"
  /\ d \in 0..(IF found \in Empty THEN 0 ELSE SendTime)
  /\ status' = [status EXCEPT ![current] =
       CASE found = "failed"   -> "degraded"
         [] found = "measured" -> "running"
         [] found \in Empty    -> @]
  /\ result' = [result EXCEPT ![current] = found]
  /\ current' = None /\ found' = "none" /\ job' = NoJob /\ spent' = 0
  /\ Elapse(d)
  /\ UNCHANGED todo

Next ==
  \/ BeginRound \/ Await
  \/ \E p \in Plugins : Turn(p)
  \/ Collected
  \/ \E d \in 0..UniFiTimeout : Request(d)
  \/ \E d \in 0..ProxmoxTimeout : ListNodes(d)
  \/ \E d \in 0..SendTime : Report(d)

\* The goroutine runs until the agent stops, and every request and every
\* message ends: at an answer, at a time-out or at the write deadline.
FairSpec == Init /\ [][Next]_vars /\ WF_vars(Next)
Spec == Init /\ [][Next]_vars

-----------------------------------------------------------------------------
TypeOK ==
  /\ job \in Job
  /\ spent \in 0..Interval
  /\ todo \subseteq Plugins /\ current \in Plugins \cup {None}
  /\ found \in Found
  /\ untick \in 1..Interval /\ tick \in BOOLEAN
  /\ age \in [Plugins -> 0..(Longest + 1)]
  /\ result \in [Plugins -> Found]
  /\ status \in [Plugins -> {"running", "degraded"}]

\* However slow the others are and however the rounds order them, and although
\* ticks are dropped, a plugin's collections begin at most Longest apart: the
\* deadline of a collection bounds what one plugin takes from the others (Run).
NoPluginStarves == \A p \in Plugins : age[p] <= Longest

\* The summary that goes out agrees with the rows beside it, the requests that
\* failed included: its counts are those of the rows, and the average lies within
\* the loads of the devices that answered (Collect).
SummaryAgrees ==
  found = "measured" /\ current \in UniFis => AgreesWithRows

\* A scope that is not for all nodes: an entry that is not blank, and not the star
\* alone.
Narrows(scope) == scope # <<Star>> /\ \E i \in DOMAIN scope : scope[i] # Blank

\* A status that the last collection does not bear out is that of a Proxmox plugin
\* that was answered, with no node at all or with none in a scope that is not for
\* all nodes: it reports nothing then.  For every other plugin the status follows
\* every collection (Run, listNodes).
StaleOnlyWithoutNodes ==
  \A p \in Plugins :
    status[p] = "degraded" /\ result[p] # "failed" =>
      /\ p \in Proxmoxes /\ result[p] \in Empty
      /\ result[p] = "outOfScope" => Narrows(NodeScope[p])

(* The inductive invariant behind the three.  Used is the longest that the *)
(* turns of the round can have taken so far.                               *)
OneTurn == Interval + SendTime
Begun == Cardinality(Plugins \ todo)
Used == Begun * OneTurn - (IF current = None THEN 0 ELSE OneTurn - spent)

\* A plugin that had its turn in this round waits since then; one that has it
\* still to come had it in the round before.  Without a tick in the channel no
\* more time has passed since the round began than since the last tick.
AgeInv ==
  \A p \in Plugins :
    /\ p \notin todo => age[p] <= Used
    /\ p \in todo => age[p] <= Cardinality(Plugins) * OneTurn + Used
    /\ p \notin todo /\ ~tick => age[p] <= Interval - untick

\* Time is spent in a turn, and by a Proxmox plugin in its only request.
TurnInv ==
  /\ current = None => found = "none" /\ spent = 0
  /\ current \notin todo
  /\ current \in Proxmoxes /\ found = "none" => spent = 0

ScopeInv ==
  found \in Empty =>
    /\ current \in Proxmoxes
    /\ found = "outOfScope" => Narrows(NodeScope[current])

\* A collection is reported as measured when every device has its row.
CountInv == RowsInv /\ (found = "measured" /\ current \in UniFis => Complete)

IInv ==
  TypeOK /\ AgeInv /\ TurnInv /\ ScopeInv /\ CountInv /\ StaleOnlyWithoutNodes

\* Every plugin gets its turn again and again, whatever failed before (Run).
EveryPluginIsCollected == \A p \in Plugins : []<>(current = p)
=============================================================================
