--------------------------- MODULE PluginRegistry ---------------------------
(***************************************************************************)
(* What the plugin subsystem promises, without its files, its goroutines   *)
(* or its error paths.  There is a durable registry of plugins and a       *)
(* volatile table of running ones.  Only a registered plugin is ever       *)
(* started, it is started as the registry describes it, it leaves the      *)
(* registry only while it is not running, and a crash empties the table    *)
(* and nothing else.                                                       *)
(***************************************************************************)
CONSTANTS
  PluginIDs,  \* the plugins the control plane knows
  Slugs,      \* what the registry records of one
  None        \* no entry

VARIABLES
  registry,   \* durable: what is installed
  running     \* volatile: what runs, and as what

vars == <<registry, running>>

Init ==
  /\ registry = [id \in PluginIDs |-> None]
  /\ running = [id \in PluginIDs |-> None]

Register(id, slug) ==
  /\ registry' = [registry EXCEPT ![id] = slug]
  /\ UNCHANGED running

Start(id) ==
  /\ registry[id] # None
  /\ running' = [running EXCEPT ![id] = registry[id]]
  /\ UNCHANGED registry

Stop(id) ==
  /\ running' = [running EXCEPT ![id] = None]
  /\ UNCHANGED registry

Unregister(id) ==
  /\ running[id] = None
  /\ registry' = [registry EXCEPT ![id] = None]
  /\ UNCHANGED running

Crash ==
  /\ running' = [id \in PluginIDs |-> None]
  /\ UNCHANGED registry

Next ==
  \/ \E id \in PluginIDs :
       \/ \E slug \in Slugs : Register(id, slug)
       \/ Start(id)
       \/ Stop(id)
       \/ Unregister(id)
  \/ Crash

Spec == Init /\ [][Next]_vars

=============================================================================
