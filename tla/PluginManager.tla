--------------------------- MODULE PluginManager ----------------------------
(***************************************************************************)
(* The plugin manager of the agent (internal/plugins): the Install and     *)
(* Remove commands that the gateway sends, the Restore that follows the    *)
(* first handshake of a process, the collection loop that runs beside      *)
(* them, the two files they leave on disk for every plugin, and a process  *)
(* that may die between any two steps.                                     *)
(*                                                                         *)
(* The agent's main goroutine runs Install, Remove and Restore, one at a   *)
(* time; `pc' says where it is.  Each of its actions ends at the next      *)
(* effect that another goroutine, the gateway or a restarted process can   *)
(* see: a report, the rename of a file, a change of the plugin map.  The   *)
(* collector goroutine interleaves with it at those points.                *)
(*                                                                         *)
(* A slug stands for the slug and version of an Installation record.       *)
(***************************************************************************)
CONSTANTS
  PluginIDs,  \* the plugin IDs the gateway uses
  Slugs,      \* the slugs it may ask for
  Supported,  \* those newPlugin knows
  Configs,    \* the plugin configurations
  SlugOf,     \* the slug the gateway sends with each configuration
  Health,     \* the conditions a plugin's endpoint goes through
  None        \* no value

ASSUME SlugAssumption == Supported \subseteq Slugs /\ SlugOf \in [Configs -> Slugs]
ASSUME HealthAssumption == Health \subseteq {"up", "empty", "down"}
VARIABLES
  (* The disk. *)
  secrets,    \* the configuration in the file <path>.<id>
  manifest,   \* the entry of the manifest file for each plugin
  (* The memory of the agent process. *)
  plugins,    \* Manager.plugins
  pc,         \* where the main goroutine is
  cmd,        \* the plugin it installs, restores or removes
  restored,   \* pluginRestoreOnce is done
  todo,       \* entries that Restore's loop has not reached
  snapshot,   \* entries that the collector's round has not reached
  current,    \* the entry it has collected from and not reported
  (* The environment. *)
  link,       \* the connection to the gateway works
  endpoint,   \* the state of the infrastructure behind each plugin
  status,     \* the last plugin_status the gateway received
  (* History. *)
  acked,      \* what the last finished command left of each plugin
  skipped     \* entries that this process's Restore could not bring back

disk == <<secrets, manifest>>
collector == <<snapshot, current>>
history == <<acked, skipped>>
vars == <<secrets, manifest, plugins, pc, cmd, restored, todo, snapshot,
          current, link, endpoint, status, acked, skipped>>

(* Shapes of the values. *)
Instance == [slug : Slugs, config : Configs]
Command == [op : {"install", "restore", "remove"}, id : PluginIDs,
            slug : Slugs \cup {None}, config : Configs \cup {None}]
Collected == [id : PluginIDs, status : {"running", "degraded"}]
Status == {"installing", "running", "degraded", "error"}

\* A value of acked: a command has begun to change the plugin's files and has
\* not finished.
Unsettled == "unsettled"

ASSUME NoneAssumption ==
  /\ None \notin Slugs \cup Configs \cup Status \cup {Unsettled}
  /\ None \notin Instance \cup Command \cup Collected
  /\ Unsettled \notin Configs

TypeOK ==
  /\ secrets \in [PluginIDs -> Configs \cup {None}]
  /\ manifest \in [PluginIDs -> Slugs \cup {None}]
  /\ plugins \in [PluginIDs -> Instance \cup {None}]
  /\ pc \in {"offline", "list", "restoring", "serve", "start", "save",
             "manifest", "swap", "running", "delete", "unlist"}
  /\ cmd \in Command \cup {None}
  /\ restored \in BOOLEAN
  /\ todo \subseteq PluginIDs
  /\ snapshot \subseteq PluginIDs
  /\ current \in Collected \cup {None}
  /\ link \in BOOLEAN
  /\ endpoint \in [PluginIDs -> Health]
  /\ status \in [PluginIDs -> Status \cup {None}]
  /\ acked \in [PluginIDs -> Configs \cup {None, Unsettled}]
  /\ skipped \subseteq PluginIDs

Init ==
  /\ secrets = [id \in PluginIDs |-> None]
  /\ manifest = [id \in PluginIDs |-> None]
  /\ plugins = [id \in PluginIDs |-> None]
  /\ pc = "offline"
  /\ cmd = None
  /\ restored = FALSE
  /\ todo = {}
  /\ snapshot = {}
  /\ current = None
  /\ link = FALSE
  /\ endpoint \in [PluginIDs -> Health]
  /\ status = [id \in PluginIDs |-> None]
  /\ acked = [id \in PluginIDs |-> None]
  /\ skipped = {}

-----------------------------------------------------------------------------
(* Reports.  A send fails when there is no connection; every caller        *)
(* ignores the error or only logs it.  The agent already sends them while  *)
(* a handshake is under way: what the gateway makes of those is not known, *)
(* and they count as lost here.                                            *)

Report(id, s) ==
  status' = IF link THEN [status EXCEPT ![id] = s] ELSE status

\* The end of a command, or of one turn of Restore's loop.
Finish ==
  /\ pc' = IF cmd.op = "restore" THEN "restoring" ELSE "serve"
  /\ cmd' = None

\* An error return: the gateway is told, the files stay as they are.
Fail ==
  /\ Report(cmd.id, "error")
  /\ Finish
  /\ skipped' = IF cmd.op = "restore" THEN skipped \cup {cmd.id} ELSE skipped
  /\ UNCHANGED <<plugins, restored, todo, collector, link, endpoint, acked>>

-----------------------------------------------------------------------------
(* The connection, as the plugin manager sees it.                          *)

\* A handshake succeeds; the first one of a process goes on to Restore.
Connect ==
  /\ pc = "offline"
  /\ link' = TRUE
  /\ pc' = IF restored THEN "serve" ELSE "list"
  /\ UNCHANGED <<disk, plugins, cmd, restored, todo, collector, endpoint,
                 status, history>>

\* The connection breaks, whatever the agent is doing.
LinkDown ==
  /\ link
  /\ link' = FALSE
  /\ UNCHANGED <<disk, plugins, pc, cmd, restored, todo, collector, endpoint,
                 status, history>>

\* The event loop ends on a read, write or probe error and closes the
\* connection.
Disconnect ==
  /\ pc = "serve"
  /\ pc' = "offline"
  /\ link' = FALSE
  /\ UNCHANGED <<disk, plugins, cmd, restored, todo, collector, endpoint,
                 status, history>>

-----------------------------------------------------------------------------
(* Install.                                                                *)

ReceiveInstall(id, config) ==
  /\ pc = "serve"
  /\ Report(id, "installing")
  /\ cmd' = [op |-> "install", id |-> id, slug |-> SlugOf[config], config |-> config]
  /\ pc' = "start"
  /\ UNCHANGED <<disk, plugins, restored, todo, collector, link, endpoint, history>>

\* newPlugin accepts the slug and Start reaches the endpoint.
Starts(id, slug) == slug \in Supported /\ endpoint[id] # "down"

\* Mutant: Install publishes the instance before it writes anything.
StartPluginPublishes ==
  /\ pc = "start"
  /\ Starts(cmd.id, cmd.slug)
  /\ plugins' = [plugins EXCEPT ![cmd.id] = [slug |-> cmd.slug, config |-> cmd.config]]
  /\ pc' = IF cmd.op = "install" THEN "save" ELSE "swap"
  /\ UNCHANGED <<disk, cmd, restored, todo, collector, link, endpoint, status, history>>

StartPlugin ==
  /\ pc = "start"
  /\ Starts(cmd.id, cmd.slug)
  /\ pc' = IF cmd.op = "install" THEN "save" ELSE "swap"
  /\ UNCHANGED <<disk, plugins, cmd, restored, todo, collector, link, endpoint,
                 status, history>>

\* Mutant: the error return without its report.
StartFailsSilently ==
  /\ pc = "start"
  /\ ~ Starts(cmd.id, cmd.slug)
  /\ Finish
  /\ skipped' = IF cmd.op = "restore" THEN skipped \cup {cmd.id} ELSE skipped
  /\ UNCHANGED <<disk, plugins, restored, todo, collector, link, endpoint, status, acked>>

StartFails ==
  /\ pc = "start"
  /\ ~ Starts(cmd.id, cmd.slug)
  /\ Fail
  /\ UNCHANGED disk

\* SecretStore.Save: one rename makes the new configuration visible.
SaveSecret ==
  /\ pc = "save"
  /\ secrets' = [secrets EXCEPT ![cmd.id] = cmd.config]
  /\ acked' = [acked EXCEPT ![cmd.id] = Unsettled]
  /\ pc' = "manifest"
  /\ UNCHANGED <<manifest, plugins, cmd, restored, todo, collector, link,
                 endpoint, status, skipped>>

\* Mutant: the entry that the loop finds is not replaced.
SaveInstallationKeepsOld ==
  /\ pc = "manifest"
  /\ manifest' = IF manifest[cmd.id] = None
                 THEN [manifest EXCEPT ![cmd.id] = cmd.slug]
                 ELSE manifest
  /\ pc' = "swap"
  /\ UNCHANGED <<secrets, plugins, cmd, restored, todo, collector, link,
                 endpoint, status, history>>

\* SecretStore.SaveInstallation: one rename replaces the manifest.
SaveInstallation ==
  /\ pc = "manifest"
  /\ manifest' = [manifest EXCEPT ![cmd.id] = cmd.slug]
  /\ pc' = "swap"
  /\ UNCHANGED <<secrets, plugins, cmd, restored, todo, collector, link,
                 endpoint, status, history>>

\* Mutant: the error path cleans up the file that the previous Install wrote.
SaveFailsDeletes ==
  /\ pc \in {"save", "manifest"}
  /\ Fail
  /\ secrets' = [secrets EXCEPT ![cmd.id] = None]
  /\ UNCHANGED manifest

\* Either write returns an error and leaves the old file.
SaveFails ==
  /\ pc \in {"save", "manifest"}
  /\ Fail
  /\ UNCHANGED disk

\* Under m.mu: stop the previous instance, if any, and publish the new one.
SwapIn ==
  /\ pc = "swap"
  /\ plugins' = [plugins EXCEPT ![cmd.id] = [slug |-> cmd.slug, config |-> cmd.config]]
  /\ acked' = IF cmd.op = "install" THEN [acked EXCEPT ![cmd.id] = cmd.config] ELSE acked
  /\ pc' = "running"
  /\ UNCHANGED <<disk, cmd, restored, todo, collector, link, endpoint, status, skipped>>

ReportRunning ==
  /\ pc = "running"
  /\ Report(cmd.id, "running")
  /\ Finish
  /\ UNCHANGED <<disk, plugins, restored, todo, collector, link, endpoint, history>>

-----------------------------------------------------------------------------
(* Remove.  Neither plugin's Stop returns an error.                        *)

\* Mutant: the files are deleted before the map entry.
ReceiveRemoveKeeps(id) ==
  /\ pc = "serve"
  /\ acked' = [acked EXCEPT ![id] = Unsettled]
  /\ cmd' = [op |-> "remove", id |-> id, slug |-> None, config |-> None]
  /\ pc' = "delete"
  /\ UNCHANGED <<disk, plugins, restored, todo, collector, link, endpoint, status, skipped>>

ReceiveRemove(id) ==
  /\ pc = "serve"
  /\ plugins' = [plugins EXCEPT ![id] = None]
  /\ acked' = [acked EXCEPT ![id] = Unsettled]
  /\ cmd' = [op |-> "remove", id |-> id, slug |-> None, config |-> None]
  /\ pc' = "delete"
  /\ UNCHANGED <<disk, restored, todo, collector, link, endpoint, status, skipped>>

\* SecretStore.Delete: a missing file is no error.
DeleteSecret ==
  /\ pc = "delete"
  /\ secrets' = [secrets EXCEPT ![cmd.id] = None]
  /\ pc' = "unlist"
  /\ UNCHANGED <<manifest, plugins, cmd, restored, todo, collector, link,
                 endpoint, status, history>>

\* Mutant: the filtered manifest is not written back.
DeleteInstallationForgets ==
  /\ pc = "unlist"
  /\ acked' = [acked EXCEPT ![cmd.id] = None]
  /\ Finish
  /\ UNCHANGED <<disk, plugins, restored, todo, collector, link, endpoint,
                 status, skipped>>

\* SecretStore.DeleteInstallation, and Remove returns.
DeleteInstallation ==
  /\ pc = "unlist"
  /\ manifest' = [manifest EXCEPT ![cmd.id] = None]
  /\ acked' = [acked EXCEPT ![cmd.id] = None]
  /\ Finish
  /\ UNCHANGED <<secrets, plugins, restored, todo, collector, link, endpoint,
                 status, skipped>>

\* Either deletion fails: Remove returns the error and nobody is told.
DeleteFails ==
  /\ pc \in {"delete", "unlist"}
  /\ Finish
  /\ UNCHANGED <<disk, plugins, restored, todo, collector, link, endpoint,
                 status, history>>

-----------------------------------------------------------------------------
(* Restore.  The manifest cannot change while its entries are in todo: the *)
(* goroutine that would change it is the one that restores.                *)

ListInstallations ==
  /\ pc = "list"
  /\ restored' = TRUE
  /\ todo' = {id \in PluginIDs : manifest[id] # None}
  /\ pc' = "restoring"
  /\ UNCHANGED <<disk, plugins, cmd, collector, link, endpoint, status, history>>

\* The manifest cannot be read: Restore returns, and the Once is spent.
ListFails ==
  /\ pc = "list"
  /\ restored' = TRUE
  /\ skipped' = PluginIDs
  /\ pc' = "serve"
  /\ UNCHANGED <<disk, plugins, cmd, todo, collector, link, endpoint, status, acked>>

LoadSecret(id) ==
  /\ pc = "restoring"
  /\ id \in todo
  /\ secrets[id] # None
  /\ Report(id, "installing")
  /\ todo' = todo \ {id}
  /\ cmd' = [op |-> "restore", id |-> id, slug |-> manifest[id], config |-> secrets[id]]
  /\ pc' = "start"
  /\ UNCHANGED <<disk, plugins, restored, collector, link, endpoint, history>>

\* Mutant: return instead of continue.
LoadFailsReturns(id) ==
  /\ pc = "restoring"
  /\ id \in todo
  /\ Report(id, "error")
  /\ todo' = {}
  /\ skipped' = skipped \cup {id}
  /\ UNCHANGED <<disk, plugins, pc, cmd, restored, collector, link, endpoint, acked>>

\* The file is missing, unreadable or undecryptable: on to the next entry.
LoadFails(id) ==
  /\ pc = "restoring"
  /\ id \in todo
  /\ Report(id, "error")
  /\ todo' = todo \ {id}
  /\ skipped' = skipped \cup {id}
  /\ UNCHANGED <<disk, plugins, pc, cmd, restored, collector, link, endpoint, acked>>

RestoreDone ==
  /\ pc = "restoring"
  /\ todo = {}
  /\ pc' = "serve"
  /\ UNCHANGED <<disk, plugins, cmd, restored, todo, collector, link, endpoint,
                 status, history>>

-----------------------------------------------------------------------------
(* The collector goroutine: Manager.Run.                                   *)

\* Mutant: a round starts from the manifest.
StartRoundFromManifest ==
  /\ snapshot = {} /\ current = None
  /\ snapshot' = {id \in PluginIDs : manifest[id] # None}
  /\ UNCHANGED <<disk, plugins, pc, cmd, restored, todo, current, link,
                 endpoint, status, history>>

\* Under m.mu.RLock: a round starts from a copy of the plugin map.
StartRound ==
  /\ snapshot = {} /\ current = None
  /\ snapshot' = {id \in PluginIDs : plugins[id] # None}
  /\ UNCHANGED <<disk, plugins, pc, cmd, restored, todo, current, link,
                 endpoint, status, history>>

\* What becomes of a collection: an error, measurements, or neither, as when no
\* node of the cluster is in the plugin's scope.
Outcome(id) ==
  CASE endpoint[id] = "up"    -> [id |-> id, status |-> "running"]
    [] endpoint[id] = "down"  -> [id |-> id, status |-> "degraded"]
    [] endpoint[id] = "empty" -> None

\* Collect returns; a success without measurements is not reported.
Collect(id) ==
  /\ current = None
  /\ id \in snapshot
  /\ snapshot' = snapshot \ {id}
  /\ current' = Outcome(id)
  /\ UNCHANGED <<disk, plugins, pc, cmd, restored, todo, link, endpoint, status,
                 history>>

\* Mutant: only a failed collection is reported.
ReportCollectedErrors ==
  /\ current # None
  /\ IF current.status = "degraded" THEN Report(current.id, "degraded") ELSE UNCHANGED status
  /\ current' = None
  /\ UNCHANGED <<disk, plugins, pc, cmd, restored, todo, snapshot, link,
                 endpoint, history>>

\* sendTelemetry, if there is any, and the status report.
ReportCollected ==
  /\ current # None
  /\ Report(current.id, current.status)
  /\ current' = None
  /\ UNCHANGED <<disk, plugins, pc, cmd, restored, todo, snapshot, link,
                 endpoint, history>>

-----------------------------------------------------------------------------
(* The environment.                                                        *)

EndpointChanges(id) ==
  /\ \E h \in Health \ {endpoint[id]} : endpoint' = [endpoint EXCEPT ![id] = h]
  /\ UNCHANGED <<disk, plugins, pc, cmd, restored, todo, collector, link,
                 status, history>>

\* The process dies and the service manager starts it again.
Restart ==
  /\ plugins' = [id \in PluginIDs |-> None]
  /\ pc' = "offline"
  /\ cmd' = None
  /\ restored' = FALSE
  /\ todo' = {}
  /\ snapshot' = {}
  /\ current' = None
  /\ link' = FALSE
  /\ skipped' = {}
  /\ UNCHANGED <<disk, endpoint, status, acked>>

-----------------------------------------------------------------------------
Install == StartPlugin \/ StartFails \/ SaveSecret \/ SaveInstallation \/ SaveFails \/ SwapIn \/ ReportRunning
Remove == DeleteSecret \/ DeleteInstallation \/ DeleteFails
Restore ==
  \/ ListInstallations \/ ListFails \/ RestoreDone
  \/ \E id \in PluginIDs : LoadSecret(id) \/ LoadFails(id)
Run == StartRound \/ (\E id \in PluginIDs : Collect(id)) \/ ReportCollected

GatewayCommand ==
  \E id \in PluginIDs :
    \/ \E config \in Configs : ReceiveInstall(id, config)
    \/ ReceiveRemove(id)

Environment ==
  \/ LinkDown \/ Disconnect \/ Restart \/ Connect
  \/ \E id \in PluginIDs : EndpointChanges(id)

Next == Install \/ Remove \/ Restore \/ Run \/ GatewayCommand \/ Environment

\* The main goroutine does not stop inside a command or inside Restore, since
\* every call it makes there has a timeout; the collector's ticker keeps firing
\* and Collect has a deadline.
Fairness == WF_vars(Install \/ Remove \/ Restore) /\ WF_vars(Run)

Spec == Init /\ [][Next]_vars
FairSpec == Spec /\ Fairness

-----------------------------------------------------------------------------
(* Safety.                                                                 *)

\* A plugin never runs without both of its files, so whatever runs is what a
\* restart can bring back: Install writes before it publishes and Remove
\* unpublishes before it deletes.
RunningIsPersisted ==
  \A id \in PluginIDs :
    plugins[id] # None => secrets[id] # None /\ manifest[id] # None

\* The manifest describes what runs, except between the rename that records a
\* new installation and the swap of the instance under m.mu.
RunningMatchesManifest ==
  \A id \in PluginIDs :
    plugins[id] # None =>
      \/ manifest[id] = plugins[id].slug
      \/ pc = "swap" /\ cmd.id = id

\* What the last finished command left of a plugin is what every later process
\* finds and runs, whatever fails or dies meanwhile: an installed plugin is
\* restored from its own configuration, a removed one does not come back, and
\* an Install that fails before its first write changes nothing.
AckedSurvives ==
  \A id \in PluginIDs :
    /\ acked[id] \in Configs =>
         /\ secrets[id] = acked[id]
         /\ manifest[id] = SlugOf[acked[id]]
         /\ plugins[id] \in {None, [slug |-> SlugOf[acked[id]], config |-> acked[id]]}
    /\ acked[id] = None =>
         /\ secrets[id] = None
         /\ manifest[id] = None
         /\ plugins[id] = None
         /\ id \notin todo

Restoring(id) == id \in todo \/ (cmd # None /\ cmd.op = "restore" /\ cmd.id = id)

\* Once Restore has gone through the manifest, every plugin that a finished
\* Install left there runs, unless Restore reported that very plugin as failed:
\* one bad entry does not keep the others from starting.
RestoreIsComplete ==
  \A id \in PluginIDs :
    restored /\ acked[id] \in Configs /\ id \notin skipped =>
      plugins[id] # None \/ Restoring(id)

\* What the main goroutine holds at each point, and what it has done to the
\* files by then.
CommandInv ==
  /\ (cmd = None) <=> (pc \in {"offline", "list", "restoring", "serve"})
  /\ pc \in {"start", "running"} => cmd.op \in {"install", "restore"}
  /\ pc \in {"save", "manifest"} => cmd.op = "install"
  /\ pc \in {"delete", "unlist"} <=> (cmd # None /\ cmd.op = "remove")
  /\ cmd # None /\ cmd.op # "remove" => cmd.slug \in Slugs /\ cmd.config \in Configs
  /\ cmd # None /\ cmd.op = "install" => cmd.slug = SlugOf[cmd.config]
  /\ cmd # None /\ cmd.op = "restore" =>
       secrets[cmd.id] = cmd.config /\ manifest[cmd.id] = cmd.slug
  /\ pc = "manifest" => secrets[cmd.id] = cmd.config
  /\ pc = "swap" => secrets[cmd.id] = cmd.config /\ manifest[cmd.id] = cmd.slug
  /\ pc = "manifest" \/ (pc = "swap" /\ cmd.op = "install") => acked[cmd.id] = Unsettled
  /\ pc \in {"delete", "unlist"} => plugins[cmd.id] = None /\ acked[cmd.id] = Unsettled
  /\ pc = "unlist" => secrets[cmd.id] = None
  /\ pc = "running" => plugins[cmd.id] # None

\* Where Restore is: nothing else runs before it in a process, and nothing
\* changes the manifest under it.
RestoreInv ==
  /\ ~ restored => pc \in {"offline", "list"} /\ \A id \in PluginIDs : plugins[id] = None
  /\ pc = "list" => ~ restored
  /\ todo # {} => pc = "restoring" \/ (cmd # None /\ cmd.op = "restore")
  /\ \A id \in todo : manifest[id] # None

\* The inductive invariant: the properties above and what they rest on.
IInv ==
  /\ TypeOK
  /\ CommandInv
  /\ RestoreInv
  /\ RunningIsPersisted
  /\ RunningMatchesManifest
  /\ AckedSurvives
  /\ RestoreIsComplete

\* The plugin subsystem implements the registry: what runs was started from the
\* registry, and nothing leaves the registry while it runs.
Registry == INSTANCE PluginRegistry WITH
  registry <- manifest,
  running <- [id \in PluginIDs |-> IF plugins[id] = None THEN None ELSE plugins[id].slug]

RegistrySpec == Registry!Spec

\* What Restore starts is what was installed: the configuration it loads belongs
\* to the slug that the manifest names.  (Install writes the two files one after
\* the other, so this does not hold: see the run torn_install.)
RestoresWhatWasInstalled ==
  \A id \in PluginIDs :
    plugins[id] # None => plugins[id].slug = SlugOf[plugins[id].config]

\* No Install is cut off between its two writes, by a crash or by a failure of
\* the second.
InstallsComplete == [][pc = "manifest" => ~Restart /\ ~SaveFails]_vars

-----------------------------------------------------------------------------
(* Liveness, under FairSpec.                                               *)

Steady(id) ==
  link /\ pc = "serve" /\ plugins[id] # None /\ endpoint[id] = "up"

\* While the connection, the plugin and its endpoint stay up, the gateway ends
\* up showing the plugin as running, whatever it showed before: a degraded
\* report, or one lost with an earlier connection, does not stick.
StatusConverges ==
  \A id \in PluginIDs : <>[]Steady(id) => <>[](status[id] = "running")

Collecting(id) == id \in snapshot \/ (current # None /\ current.id = id)

\* A plugin that stays removed is in the end no longer collected from: the
\* collector's copy of the map keeps it for the rest of one round at most.
RemovalQuiesces ==
  \A id \in PluginIDs : <>[](plugins[id] = None) => <>[]~ Collecting(id)

\* Every installation that the gateway was told of is followed by an answer, on
\* every path through Install and Restore, unless the connection breaks first.
EveryInstallIsAnswered ==
  \A id \in PluginIDs :
    (pc = "start" /\ cmd.id = id /\ status[id] = "installing")
      ~> (status[id] # "installing" \/ ~ link)

=============================================================================
