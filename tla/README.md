# A TLA+ model of fortmont-agent

The agent (Go, about 1900 lines, no tests) connects a machine to a gateway over
a WebSocket, enrolls it with a one-time token, keeps an Ed25519 identity, and
runs plugins that collect telemetry. This directory holds TLA+ modules of its
logic, TLC configurations that check them on small instances, and proofs that
TLAPS checks for every instance.

## The system

| component | state | operations | talks to |
|---|---|---|---|
| connection loop (`agent.go`: `Run`, `connectAndRun`, `finishHandshake`) | token, identity in memory, pool of failed gateways, backoff, connection | select, dial, authenticate or register, handshake, sleep | gateway, identity store, token file |
| gateway selection (`gateway/select.go`) | none | probe all candidates in parallel, take the fastest | gateways |
| identity store (`identity/store.go`) | `credentials.json` | `LoadOrCreate`, `Save` (temporary file and rename) | disk |
| session (`agent.go` event loop, `readLoop`, `metrics.go`) | tickers, `readCh` of capacity 1, write lock, `pluginConn` | read, heartbeat, ping, probe, metrics | gateway, plugin manager |
| plugin manager (`plugins/manager.go`) | map of running plugins under `mu` | `Install`, `Remove`, `Restore`, `Run` (collection) | secret store, plugins, `reportPluginStatus` |
| secret store (`plugins/store.go`) | one encrypted file per plugin, one manifest | `Save`, `Load`, `Delete`, `SaveInstallation`, `DeleteInstallation`, `ListInstallations` | disk |
| Proxmox and UniFi plugins (`plugins/proxmox`, `plugins/unifi`) | HTTP client | `Start`, `Stop`, `Collect` | infrastructure |
| configuration (`config.go`) | environment | `Load`, `ReadEnrollmentToken` | environment files |
| command line (`cmd/agent/main.go`) | none | `runAgent`, `service ...` | all of the above |
| service management (`service/`) | unit file or Windows service, configuration directory | `install`, `uninstall`, `status`, `Execute` | service manager |
| system metrics (`metrics/collector.go`) | none | `Collect` | operating system |

How they interact: `Run` is one goroutine, and the event loop in it executes the
gateway's plugin commands inline. `Manager.Run` is a second goroutine for the
life of the process; it shares the plugin map (under `mu`) and the connection
(`pluginConn`, under `pluginMu`) with the first. Every session adds a reader and
a metrics goroutine. `Restore` runs once per process, after the first handshake
(`sync.Once`). The disk is all that a restart keeps, and every stop of the Linux
service is a crash as far as the code is concerned: `service run` installs no
signal handler there.

What is hard about it: a crash or a failed write between two writes of one
operation; a collector that works on a copy of the map; statuses that arrive
late or not at all; an enrollment that spans the gateway, memory and two files;
failover among gateways that come and go; an install or uninstall command that
works on the files of an agent that is running; one goroutine that collects from
all plugins, however slow. `PROJECT.json` lists these hazards, each at its line.

What makes each part correct:

- plugin manager and secret store: files, map and finished commands agree; what
  is installed comes back after a restart, what is removed does not; the gateway
  ends up with the right status of what runs;
- connection loop and identity: enrolled once, the token kept until then, the
  identity never replaced, all gateways tried, a session whenever one is possible;
- session: one writer at a time, no command lost, a stop and a lost connection
  noticed, no goroutine left behind but a reader that holds a message for a full
  channel nobody takes from;
- service: an installation that has finished, beside a running agent or after
  others that were interrupted, leaves an identity or a token, on Windows those of
  its own token if no agent was enrolling beside it, and the settings it was given;
  a stop does not cut off an enrollment; an uninstallation leaves no service, and
  no file if none of the failures it ignores has happened;
- collectors: no plugin waits for ever, the summary agrees with the rows beside
  it, the last status is that of the last collection that reported anything.

## Modules

| module | content |
|---|---|
| `PluginRegistry` | abstract specification: a durable registry and a volatile table of what runs |
| `PluginManager` | `manager.go`, `plugins/store.go` and the parts of `agent.go` that call them |
| `PluginManager_proofs` | its theorems |
| `InstallationTable` | abstract specification: a table with one entry per plugin, changed by calls that succeed or fail |
| `SecretManifest` | the manifest in `plugins/store.go`: its list and the loops of `SaveInstallation` and `DeleteInstallation` |
| `SecretManifest_proofs` | its theorems |
| `Enrollment` | abstract specification: identity, token and what the gateways accepted, across crashes |
| `Connection` | `Run`, `connectAndRun` and `finishHandshake`, `runAgent`, identity store, token file, gateway selection |
| `Connection_proofs` | its theorems |
| `Session` | `connectAndRun` and its event loop, `readLoop`, `send`, the plugin reporters, `runMetricsLoop`, the goroutine of `Manager.Run` |
| `Session_proofs` | its theorems |
| `Settings` | `config.go`: `Load`, `seconds`, `loadDotEnv`; `writeServiceEnv`: pure definitions |
| `Service` | `service/*` and the commands of `main.go`, beside the agent as it is seen from its files; extends `Settings` |
| `Service_proofs` | its theorems |
| `UniFi` | one collection of `unifi.go`, request by request |
| `UniFi_proofs` | lemmas on its rows, counts and averages |
| `Collectors` | the rounds of `Manager.Run` with a clock, over UniFi and Proxmox plugins; extends `UniFi` |
| `Collectors_proofs` | its theorems |
| `MCPluginManager`, `MCSecretManifest`, `MCConnection`, `MCSession`, `MCService`, `MCCollectors` | values of the constants for TLC |

### PluginManager

`secrets` and `manifest` are the files, as functions from plugin IDs (that the
manifest, a list, behaves like one is what `SecretManifest` shows). `plugins` is the map, `pc` and `cmd` are where the main goroutine is
and with which plugin, `restored` is `pluginRestoreOnce`, `todo` the rest of
Restore's loop, `snapshot` and `current` the collector. `link`, `endpoint` and
`status` are the connection, the infrastructure and the last status received by
the gateway. `acked` and `skipped` are history: what the last finished command
left of each plugin, and what Restore gave up on.

An action ends at the next effect another party can see. So `Install` is
`ReceiveInstall` (report *installing*), `StartPlugin` or `StartFails`,
`SaveSecret`, `SaveInstallation` (or `SaveFails` at either), `SwapIn` (the
critical section), `ReportRunning`; `Restore` shares `StartPlugin`, `SwapIn` and
`ReportRunning`. A write is one rename, so it happens or not. `Restart` can come
between any two actions: it stands for a crash or a kill and the start that
follows. The rename is assumed durable once done (the code syncs the file and
not the directory, which matters for a power failure only). A slug stands for
slug and version, a configuration for the decrypted JSON; that the gateway sends
a configuration always with the same slug (`SlugOf`) lets the model tell a
mixture of two installations. Reports sent while a handshake is still under way
count as lost. `Remove` reports nothing, in the model as in the code, so the status
of a removed plugin stays what it was.

### SecretManifest

`file` is the list in the manifest, `installations` the one in memory, `i` the
index of the loop over it and `pc` the place in the call whose argument is `arg`.
`filtered` is the length of `DeleteInstallation`'s slice of that name, which starts
as `installations[:0]` and so shares its array: `Keep` writes an entry over the
list that the loop is reading, and `Filtered` cuts the list to that length, or its
tail would be written back. `Fails` stands for every error return and for a
process that ends, at any step of a call; a write is again one rename. The two
methods are called from the main goroutine only, one at a time (`Manager.Install`
and `Remove`), as is `ListInstallations` by Restore.

`InstallationTable` knows a table, the call under way and its result. The table is
`TableOf(file)`; a call takes effect at its rename, or where there is nothing to
delete, and the steps of the loops stutter. `PluginManager` writes the same table
in one action, `SaveInstallation` or `DeleteInstallation`.

### Connection

`credsFile` is absent, a key pair, or an enrolled identity, and `creds` the same
in memory; `token` is Run's parameter. `selected`, `failed` and `backoff` are its
locals. `up` is the set of gateways that can be reached: a call to one that is
not fails, which covers refused connections, timeouts and missed deadlines.
`sent` and `inbox` are the message on its way in each direction; the protocol
allows one at a time. `tokenUsed` belongs to the gateway, which is external and
modelled from the messages the agent sends and expects: it redeems the token
once, refuses it afterwards, and asks an enrolled agent for a signature.
`ProcessEnds` may come anywhere and covers a crash, a kill and a clean stop,
which leave the same disk. A session may end at any time.

`Enrollment` leaves out connections, messages and gateways: its `identity` is the
credentials file, `token` the token file, `redeemed` is `tokenUsed`, `known` that
the identity is in memory and `serving` that there is a session. It allows a token
to be redeemed only once and from a key pair on disk, to leave the disk only after
the identity is there, and an identity never to be replaced; so it contains
`TokenKeptUntilEnrolled` and `IdentityNeverLost`, which are proved apart and not
spent a run on. That redeeming comes before saving, so that a crash in between
costs the token, is in it as in the code.

### Session

The goroutines of one process: the main one (`pc`, its connection `conn`), a
reader and a metrics goroutine for each of `Conns`, and the collector. A
connection's `link` is unused, open, broken (the network or the peer ended it) or
closed by the agent. The gateway's messages are counted: `sent` by the gateway,
`got` from the wire, `done` by the event loop; the first is `authenticated`, the
others are plugin commands. `held` is the result that `readLoop` has in its
hands, `readCh` the channel of capacity 1.

Every write is `Lock` and then `Written`, with or without success, so that all
goroutines compete for `writeMu`; `writing` is who is inside `WriteMessage`, and
`target` on which connection. A broken connection may still take what is written
to it. The deferred functions of `connectAndRun` are `Unpublish` and `Hangup`, in
the order in which Go runs them.

Left to the other modules: the messages of the handshake (here one `hello`), the
gateways (a failed dial changes nothing here), and what a command or Restore does
to the plugins (here `running`: whether some plugin may be collected from). Both
tickers of the loop are one action, a probe that succeeds or a snapshot that
cannot be taken changes nothing, and the reports of a collector round are a
sequence of any length.

### Service and Settings

The administrator's command `cmd` is a script, `LinuxInstall`, `LinuxUninstall`,
`WindowsInstall` or `WindowsUninstall`, whose steps are the effects of the
source in its order; `at` is the next one, and `CommandFails` ends it anywhere.
`os.WriteFile` empties a file before it fills it, so such a write is two steps.
`os.RemoveAll` removes one file after the other in any order (`RemoveFile`), beside
an agent that may write them again; it ends with the directory gone
(`RemoveDirectory`) or with an error that the commands ignore (`RemoveAllFails`).
The Windows directory holds the executable, so it cannot go while the agent runs.
A failure of `systemctl disable --now` is ignored too, and any part of its effect
may then be missing (`Disable`).

`creds`, `tokenFile`, `serviceEnv` and `secret` are the configuration directory
(`secret` is the key that the plugins' files are encrypted with), `unit` and
`wanted` the service manager. `proc` is the worker, with the places at which it
touches the directory: settings and token, `LoadOrCreate`, registration,
`SaveIdentity`, `RemoveToken`, a plugin's secret. A new key pair is any that is not
`secret`; which one it is makes no difference (`NewKey`). `handler`, `stop` and
`done` are `Execute` on Windows.

External and modelled from how the commands use them: `systemctl enable --now`
starts a service unless it runs, `disable --now` kills it (the agent handles no
signal under `service run`), and systemd restarts it whenever it ends; `sc stop`
is taken only by a service that has reported Running, `sc delete` of a running
service takes effect when it ends, `sc create` fails until then, a running
executable cannot be overwritten or removed, and the failure actions restart a
process that went without reporting its end. The service's own environment is
assumed to have no settings and its working directory no `.env`; the
administrator's shell may have both.

History, read by the properties only: `beside` (on Windows an agent with an
enrollment to do was up during the installation, on Linux one that had saved its
identity, lost it to an uninstallation, and was about to remove the token file),
`spent` (the gateway had redeemed the command's token before; kept on Windows, where
a property asks), `older` (the agent that is up loaded its settings before the
command wrote them), `ignored` (a failure that the command ignored) and `robbed`
(on Linux, the agent's credentials were removed while it was up). `NoOlderIdentity` is `NewTokenPrevails` without the excuse of
`beside`, and it is violated (the run `older_identity`).

In `Settings` a text is what `strconv.Atoi` makes of it and the multiplication
by `time.Second` wraps at the width of a duration (`Second` and `IntMax` are
scaled down). FORTMONT_METRICS_INTERVAL_SEC is read by `Load` and not handed on
by `writeServiceEnv` (`Others`); FORTMONT_WS_NODES of `.env.example` is read
nowhere. That the tickers of a session panic on an interval that is not positive is
covered by `Crash`.

### UniFi and Collectors

`job` is the collection under way: the request it is at, the first page of
devices and clients, the rows and the counters. Every request takes a time `d`
and is answered only before its own time-out and the deadline; `spent` is the
time since the collection began. A required request that fails ends it, the
legacy one changes nothing that is kept, the statistics of a device that fail
give a row of zeros. `Collectors` adds the round (`todo`, `current`, `found`),
the ticker (`untick`, `tick`, a channel of capacity 1 that drops ticks), the
`age` of each plugin's last collection, and `result` and `status`, what its last
collection gave and what was last reported. The Proxmox plugin makes one request,
which is answered with any nodes, none included, and applies its scope. `InScope`
compares the scope as it stands with the star and trims its entries only then, as
`proxmox.go:84-96` does: a star with blanks beside it (`SpacedStar`) names no node,
and a scope that is nothing but blanks is of all nodes. A collection without a node
(`noNodes`, `outOfScope`) is no error and no measurement, so it leaves the status as
it was. A report takes up to `SendTime` (telemetry and
status, with their write deadlines). Plugins come and go in `PluginManager`, not
here, and the statuses that are lost without a connection are lost there.

## Runs

| run | bounds | shows |
|---|---|---|
| `manager_safety` | 2 plugins, 2 configurations with different slugs, endpoints up | `RunningIsPersisted`, `RunningMatchesManifest`, `AckedSurvives`, `RestoreIsComplete`, the inductive invariant, and that `PluginRegistry` is implemented |
| `manager_liveness` | 1 plugin, a supported and an unsupported slug, all endpoint states | `StatusConverges`, `RemovalQuiesces`, `EveryInstallIsAnswered` |
| `manifest` | 3 plugins, 2 slugs | that `InstallationTable` is implemented, and the inductive invariant, in which no plugin is named twice |
| `connection_safety` | 3 gateways, backoff to 4 s, started with or without `--token` | `RegistersOnlyUnenrolled`, `DialsUntried`, that `Enrollment` is implemented, `Reconnects`, the inductive invariant |
| `session_safety` | 2 connections, 3 messages on each | `OneWriter`, `MetricsAuthenticated`, `PluginsNeedIdentity`, `NothingSkipped`, the inductive invariant |
| `session_liveness` | 1 connection, 3 messages | `StopIsObeyed`, `LossIsNoticed`, `CommandsAreHandled`, `SessionsEnd` |
| `service` | both systems, 2 tokens, 2 keys, one setting from the shell, one that overflows from `.env` and one that is not handed on | `InstallLeavesAWayIn`, `NewTokenPrevails`, `SecretsStayReadable`, `RunsAsConfigured`, `UninstallIsClean`, `StopIsGraceful`, `StopIsCompleted`, the inductive invariant |
| `collectors` | 1 UniFi and 2 Proxmox plugins, 0 or 3 devices with one of 2 loads and 3 clients on pages of 2 | `NoPluginStarves`, `SummaryAgrees`, `StaleOnlyWithoutNodes`, `EveryPluginIsCollected`, the inductive invariant |
| `torn_install` | 1 plugin, 2 configurations | violated: a crash between Install's two writes leaves a mixture that Restore starts |
| `older_identity` | Windows, 2 tokens | violated: an agent that is enrolling saves an older identity after the installation has removed it, and the new token is never used |
| `token_dropped` | 1 gateway | violated: a connection that fails before the token was sent makes the process forget it |
| `identity_not_saved` | 1 gateway | violated: a session with an identity that is not on disk |

The inductive invariants of all six components contain their type invariants.

Bounds. Two plugins are what it takes for one to disturb the other (a snapshot
of the map, Restore's loop), two configurations for an old and a new
installation to mix; a third adds no kind of state, since the main goroutine
handles one plugin at a time. The endpoints stay up in `manager_safety`, where
failed writes already give every error path past `Start`, and unreadable secrets
those of Restore; `manager_liveness` adds endpoints that fail, with one plugin, and
the theorems cover both at once (with two plugins TLC meets more than nine million states).
Three plugins give a manifest
that loses an entry at its front, in its middle and at its end. Three gateways give
a pool that is empty, partly and almost full. `MaxBackoff` only limits a counter: 4 lets it
double twice and meet the limit. Two connections let the goroutines of one
session run into the next; three messages are a handshake and two commands, which
fill the channel and the reader's hands. In `service` each of two tokens may be
installed again and again, spent or not, so that one can be older than the other;
the second key is the one that replaces the first. Every installation has the same
environment, which holds all cases at once: one setting in the shell, one in `.env`
beside it, one that is not handed on; the text 26 overflows a width of 127 with 10
units to a second, 3 does not. In
`collectors` the deadline is one and a half UniFi time-outs instead of three (3 and
2 for 60 s and 20 s), so that it passes at every request; seven requests can take 14
units. One page
holds fewer devices than the site has, with one that is offline; two loads make an
average that is neither. The one Proxmox
scope is all blanks, the other a name and a star with blanks beside it. `age` stops one above its bound
`Longest`. Plugins and connections are symmetric in the safety runs of
`PluginManager` and `Session`; no run with a liveness property uses symmetry.
There is no other bound: the models are finite.

Fairness. `PluginManager`: weak fairness of the main goroutine inside a command
or Restore, since every call it makes there has a timeout (15 s of the HTTP
client, `ConnectTimeout` of a write), and of the collector, whose ticker keeps
firing and whose `Collect` has a deadline. Nothing obliges the gateway to send a
command, the link to work, or a write to succeed. `Connection`: weak fairness of
the start of the process (`Restart=always`), of the loop, and of the answer of a
gateway that is up. `Session`: weak fairness of every goroutine, whose calls all
have deadlines; strong fairness of taking the lock (Go's mutex hands itself over
to a goroutine that has waited long) and of the cases of a `select` (Go chooses
at random among those that are ready), without which a busy loop might never
look at its context. `Service`: weak fairness of the worker, which is at one place
at a time, of `Execute`, and of the end of a registration, by its answer or by the
read deadline; none of the administrator's command or of the service manager. `Collectors`: weak fairness of the goroutine, since every request and
every write ends by its time-out. Failures are not fair, and the liveness properties state
as premises what must hold in the end (a link, gateways that stay up).

## Proofs

`PluginManager_proofs` proves for any plugins, slugs, configurations and endpoint
states that `IInv` is inductive, from it `TypeOK` and the four safety properties,
and that `Spec` implements `PluginRegistry!Spec`. None of the properties is
inductive alone. `CommandInv` records what the main goroutine has done to the
files at each point: what `SwapIn` publishes agrees with the files because of the
two writes before it. `RestoreInv` says that nothing runs before Restore in a
process and that the manifest does not change under its loop. The refinement maps
`registry` to the manifest and `running` to the slugs in the map; five actions
are steps of the registry and all others stutter. `RestoresWhatWasInstalled` is
violated (the run `torn_install`); `RestoresUnlessTorn` proves that nothing but a
crash or a failed write between Install's two writes is to blame: under
`InstallsComplete`, which forbids exactly that, it holds, whatever else crashes or
fails. Its own invariant is `Paired`, on what a plugin's two files say of each other.

`SecretManifest_proofs` proves for any plugins and slugs and lists of any length
that `IInv` is inductive and that `Spec` implements `InstallationTable!Spec`.
`FilterInv` is the invariant of the filtering loop: the part it has yet to read is
the file's, the front of the array holds exactly the entries it keeps, each once,
and the front is no longer than what was read. `ReplacedEntry`, `AppendedEntry` and
`FilteredList` say what the three ways to change a list do to its table;
`OnePerPlugin` is what makes "the entry of a plugin" mean anything, and no change
is right without it.

`Connection_proofs` proves for any finite non-empty set of gateways and any limit
of the backoff that its `IInv` is inductive, `TypeOK`, `DialsUntried` and
`RegistersOnlyUnenrolled` from it, the action properties `TokenKeptUntilEnrolled`
and `IdentityNeverLost`, and that `Spec` implements `Enrollment!Spec`. `EnrollInv`
is what the refinement adds to the invariant: who is enrolled, or has the answer on
its way, has redeemed the token, and only the enrolled are asked for a signature or
served. `IdentityIsRemembered` is violated (the run `identity_not_saved`);
`RememberedUnlessSaveFails` proves that a failed `Store.Save` is the only way there:
under `SavesSucceed` every session has its identity on disk. The step that
needs arithmetic is `PoolReset`: comparing two cardinalities resets the pool
exactly when it holds every gateway (`FiniteSetTheorems`).

`Session_proofs` proves for any connections and any number of messages that
`IInv` is inductive and the four invariants of the run. `LockInv` says that who
writes holds the lock; `MainInv` that the published connection is the main
goroutine's; `StartInv` that the goroutines of a connection come after its
handshake; `StreamInv` counts the messages between wire and event loop, from
which `NothingSkipped` follows.

`Service_proofs` proves for any tokens, keys and settings that `IInv` is
inductive, from it the type invariant, the four invariants of the run and its two
action properties, `SecretsStayReadable` and `StopIsGraceful`. `LinuxInv` and
`WindowsInv` say what each command has reached at each of its steps, the failures
that it ignores being set down in `ignored`; `LinuxInv` also says that the key of
the agent is the one on disk unless its files went from under it, which is what
`ReadableStep` needs: a plugin's secret is written with the key of the agent.
`FreshInv` carries the Windows promise: since the older identity went, with no
enrollment under way beside the command, identity, token file and worker know
nothing but the new token.

`Collectors_proofs` proves for any finite sets of plugins, any scopes and any
times that `IInv` is inductive, `TypeOK`, `StaleOnlyWithoutNodes`, the bound
`NoPluginStarves` and, for any inventory and any loads, `SummaryAgrees`. The bound is not inductive: `AgeInv` bounds the age of a plugin
that had its turn by the turns begun in the round, that of a plugin still to come
by a whole round more, and says that without a tick in the channel the round is
younger than the last tick, so that waiting for the next one adds nothing.
`Counting` and `Turns` are the lemmas on cardinalities and products. For the summary,
`RowsInv` ties the counters of the device loop to the rows so far: they are the
numbers of the rows online and answered, and the total of the loads lies between
the lowest and the highest load times the samples (`LoadsInv`), which puts the
average between the two without a sum over the rows. `UniFi_proofs` has one lemma
for a row added to it and one for what follows at the last row.

The assumptions are the named ones of the modules: `None` is different from every
other value, slugs and health states are as declared, the gateways are finitely
many and the limit of the backoff is positive, plugins are finitely many, time-outs
and deadlines are positive, a default fits its width, for every key there is
another one (`KeysAssumption`). TLC evaluates them in every run.

The two conditional theorems assume a temporal formula about steps, not a constant:
the behaviours that they leave out are the ones of the violated runs, and each of
the other crashes and failures stays possible under them.

Only model-checked: the liveness properties, which are out of the prover's reach.
Every safety property of a passing run is stated by a theorem. Not proved because
not true: the four violated properties.

## What is not modelled, and the plan

Not modelled: encryption and key generation, JSON, logging, the numbers in a
measurement other than the counts and the average of UniFi's summary (so not the
sums of its legacy bandwidth), which gateway is the fastest, the parsing of a line
of an environment file, `service status`, which only prints. System metrics
(`metrics/collector.go`) are readings of the operating system without state or
decisions; when they are sent is in `Session`. Failover between several gateways
is in `Connection` for any number of them; the code has one today
(`config.go:35`), so whether it is enough that one of several is up is not asked
of it.

Next, in this order:

1. `Agent`: `Connection`, `Session` and `PluginManager` composed, with `Connect`,
   `Disconnect` and `Restart` driven by the loop; Restore happens in the first
   session of each process and never before; a refinement to each part. A clock
   for the read deadline against a slow command.
2. `GatewaySelect`: the stable sort and the fallback against a reference
   definition.

Theorems to follow: the refinement of `PluginManager`, `Connection` and `Session`
by `Agent`.
