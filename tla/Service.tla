------------------------------ MODULE Service ------------------------------
(***************************************************************************)
(* `service install' and `service uninstall' on Linux and on Windows       *)
(* (internal/service, called by cmd/agent handleServiceCommand), beside    *)
(* the agent that the service manager may be running meanwhile, and the    *)
(* handler under which the agent runs on Windows (Execute).                *)
(*                                                                         *)
(* The command is a script whose steps are single effects on the disk or   *)
(* calls of the service manager; it may fail or be interrupted between any *)
(* two.  The agent is seen from the disk: when it reads the settings, the  *)
(* token and its identity, when it writes the identity, removes the token  *)
(* and writes a plugin's secret.  Module Connection has the same process   *)
(* in detail, without the command beside it.  The service managers are     *)
(* external.                                                               *)
(***************************************************************************)
EXTENDS Settings, Sequences

CONSTANTS
  Platforms,  \* the operating systems to consider
  Tokens,     \* one-time enrollment tokens
  Keys,       \* key pairs
  Shells,     \* the environments that an administrator may install from
  DotEnvs,    \* what may be in the file .env beside him
  None        \* no value

ASSUME PlatformsAssumption == Platforms \subseteq {"linux", "windows"}
ASSUME ShellsAssumption == Shells \subseteq Env /\ DotEnvs \subseteq Env
ASSUME NoneAssumption == None \notin Tokens \cup Keys
ASSUME KeysAssumption == \A other \in Keys \cup {None} : Keys \ {other} # {}

VARIABLES
  platform,
  cmd,         \* the administrator's command
  (* The configuration directory. *)
  creds,       \* credentials.json
  tokenFile,   \* enrollment-token
  serviceEnv,  \* service.env
  secret,      \* the key that the plugins' secrets are encrypted with
  (* The service manager. *)
  unit,        \* the entry of the service
  wanted,      \* the manager starts the service when it is not running
  (* The process of the service. *)
  proc,        \* the worker
  handler,     \* Execute, on Windows
  stop,        \* a stop that Execute has not received
  done,        \* the channel of the same name
  (* The gateway. *)
  used         \* the tokens it has redeemed

disk == <<creds, tokenFile, serviceEnv, secret>>
manager == <<unit, wanted>>
control == <<handler, stop, done>>
vars == <<platform, cmd, creds, tokenFile, serviceEnv, secret, unit, wanted,
          proc, handler, stop, done, used>>

NoFile == [key |-> None, agent |-> None]
\* robbed is history: on Linux the identity was removed while the agent was up.
Down == [pc |-> "down", key |-> None, agent |-> None, token |-> None,
         settings |-> NoLines, cancelled |-> FALSE, robbed |-> FALSE]

\* Of a command's fields the last four are history: its token was spent before (on
\* Windows), the agent that is up has loaded older settings, a failure was ignored,
\* and an agent that could spoil the installation was beside it.
NoCommand == [op |-> "none", at |-> 1, token |-> None, env |-> NoLines,
              spent |-> FALSE, older |-> FALSE, ignored |-> FALSE,
              beside |-> FALSE]

Windows == platform = "windows"

\* A reinstallation that starts afresh on Linux, as on Windows.
LinuxInstallResets ==
  <<"reset", "emptyToken", "token", "emptyEnv", "env", "unit", "enable">>

\* The files go while the agent is still there to write them again.
LinuxUninstallFilesFirst == <<"removeFiles", "disable", "removeUnit">>

\* The older identity stays and takes precedence.
WindowsInstallKeepsIdentity ==
  <<"emptyToken", "token", "emptyEnv", "env",
    "stop", "delete", "copy", "create", "start">>

\* The service is started before its settings are written.
WindowsInstallStartsEarly ==
  <<"reset", "emptyToken", "token", "stop", "delete", "copy", "create",
    "start", "emptyEnv", "env">>

\* The steps of the commands, in the order of the source.
LinuxInstall == <<"emptyToken", "token", "emptyEnv", "env", "unit", "enable">>
LinuxUninstall == <<"disable", "removeUnit", "removeFiles">>
WindowsInstall ==
  <<"reset", "emptyToken", "token", "emptyEnv", "env",
    "stop", "delete", "copy", "create", "start">>
WindowsUninstall == <<"stop", "delete", "removeFiles">>

Script(op) ==
  CASE op = "install"   -> IF Windows THEN WindowsInstall ELSE LinuxInstall
    [] op = "uninstall" -> IF Windows THEN WindowsUninstall ELSE LinuxUninstall
    [] OTHER            -> <<>>

Running == cmd.at <= Len(Script(cmd.op))
Installing == Running /\ cmd.op = "install"
Succeeded(op) == cmd.op = op /\ ~Running
Up == proc.pc # "down"

\* The agent that is up has no part of an enrollment to do: it knows its identity, or
\* its worker has returned.
Settled ==
  proc.pc = "returned" \/ (proc.agent # None /\ proc.pc \notin {"saving", "saved"})

\* The identity of the agent that is up was removed, and it has not saved it anew.
Orphan == proc.robbed /\ creds = NoFile

\* An agent that can spoil what an installation writes: on Windows one with an
\* enrollment to do, on Linux one that is about to remove the token file although
\* the identity that it has saved is gone.
Spoiler == IF Windows THEN Up /\ ~Settled ELSE Orphan /\ proc.pc = "saved"

Init ==
  /\ platform \in Platforms
  /\ cmd = NoCommand
  /\ creds = NoFile /\ tokenFile = None
  /\ serviceEnv = NoLines /\ secret = None
  /\ unit = "absent" /\ wanted = FALSE
  /\ proc = Down
  /\ handler = "none" /\ stop = FALSE /\ done = "none"
  /\ used = {}

-----------------------------------------------------------------------------
(* The command.                                                            *)

At(step) == Running /\ Script(cmd.op)[cmd.at] = step
Advance == cmd' = [cmd EXCEPT !.at = @ + 1]

Begin(op, token, env) ==
  /\ ~Running
  /\ cmd' = [op |-> op, at |-> 1, token |-> token, env |-> env,
             spent |-> Windows /\ token \in used, older |-> FALSE, ignored |-> FALSE,
             beside |-> op = "install" /\ Spoiler]
  /\ UNCHANGED <<platform, disk, manager, proc, control, used>>

\* handleServiceCommand: the settings are loaded to see that they are valid.
BeginInstall ==
  \E token \in Tokens, shell \in Shells, file \in DotEnvs :
    LET env == LoadDotEnv(shell, file)
    IN  Valid(env) /\ Begin("install", token, env)

BeginUninstall == Begin("uninstall", None, NoLines)

\* A step returns an error, or the command is interrupted.
CommandFails ==
  /\ Running
  /\ cmd' = NoCommand
  /\ UNCHANGED <<platform, disk, manager, proc, control, used>>

\* Windows only: the older identity goes.
RemoveCredentials ==
  /\ At("reset") /\ Advance
  /\ creds' = NoFile
  /\ UNCHANGED <<platform, tokenFile, serviceEnv, secret, manager, proc,
                 control, used>>

\* os.WriteFile empties a file before it writes to it.
WriteToken ==
  /\ \/ At("emptyToken") /\ tokenFile' = None
     \/ At("token") /\ tokenFile' = cmd.token
  /\ Advance
  /\ UNCHANGED <<platform, creds, serviceEnv, secret, manager, proc, control,
                 used>>

\* An agent that is up has loaded its settings before they are complete.
WriteEnv ==
  /\ \/ At("emptyEnv") /\ serviceEnv' = NoLines /\ Advance
     \/ /\ At("env") /\ serviceEnv' = WriteServiceEnv(cmd.env)
        /\ cmd' = [cmd EXCEPT !.at = @ + 1, !.older = proc.pc \notin {"down", "load"}]
  /\ UNCHANGED <<platform, creds, tokenFile, secret, manager, proc, control,
                 used>>

\* The unit file and daemon-reload; sc create, which refuses a name in use.
Register ==
  /\ \/ At("unit")
     \/ At("create") /\ unit = "absent"
  /\ Advance
  /\ unit' = "present"
  /\ UNCHANGED <<platform, disk, wanted, proc, control, used>>

\* systemctl enable --now, sc start: a service that runs already is left alone.
StartService ==
  /\ At("enable") \/ At("start")
  /\ unit = "present"
  /\ Advance
  /\ wanted' = TRUE
  /\ UNCHANGED <<platform, disk, unit, proc, control, used>>

\* sc stop only sends the request, and its failure is ignored: a service that
\* has not reported Running yet, or is about to be restarted, does not take it.
StopService ==
  /\ At("stop") /\ Advance
  /\ stop' = (stop \/ handler = "running")
  /\ wanted' = (wanted /\ handler # "running")
  /\ UNCHANGED <<platform, disk, unit, proc, handler, done, used>>

\* sc delete: the entry of a running service goes when the service has ended.
\* An installation ignores its failure.
DeleteService ==
  /\ At("delete")
  /\ unit = "present" \/ cmd.op = "install"
  /\ Advance
  /\ unit' = IF unit = "present" THEN IF Up THEN "deleting" ELSE "absent"
             ELSE unit
  /\ wanted' = FALSE
  /\ UNCHANGED <<platform, disk, proc, control, used>>

\* Windows does not let a running executable be written to.
CopyExecutable ==
  /\ At("copy") /\ Advance
  /\ ~Up
  /\ UNCHANGED <<platform, disk, manager, proc, control, used>>

\* systemctl disable --now: the agent installs no handler for the signal.  A
\* failure is ignored; any part of the effect may be missing then.
Disable ==
  /\ At("disable")
  /\ wanted' \in {FALSE, wanted} /\ proc' \in {Down, proc}
  /\ cmd' = [cmd EXCEPT !.at = @ + 1, !.ignored = wanted' \/ Up']
  /\ UNCHANGED <<platform, disk, unit, control, used>>

RemoveUnit ==
  /\ At("removeUnit") /\ Advance
  /\ unit' = "absent"
  /\ UNCHANGED <<platform, disk, wanted, proc, control, used>>

FilesGone ==
  creds = NoFile /\ tokenFile = None /\ serviceEnv = NoLines /\ secret = None

\* os.RemoveAll goes from file to file; an agent beside it may write others.
RemoveFile ==
  /\ At("removeFiles")
  /\ \/ /\ creds' = NoFile
        /\ proc' = [proc EXCEPT !.robbed = ~Windows /\ proc.key # None]
        /\ UNCHANGED <<tokenFile, serviceEnv, secret>>
     \/ tokenFile' = None /\ UNCHANGED <<creds, serviceEnv, secret, proc>>
     \/ serviceEnv' = NoLines /\ UNCHANGED <<creds, tokenFile, secret, proc>>
     \/ secret' = None /\ UNCHANGED <<creds, tokenFile, serviceEnv, proc>>
  /\ UNCHANGED <<platform, cmd, manager, control, used>>

\* It succeeds if the directory is empty in the end, on Windows also of the
\* executable, which cannot be removed while it runs.
RemoveDirectory ==
  /\ At("removeFiles") /\ Advance
  /\ FilesGone /\ (Windows => ~Up)
  /\ UNCHANGED <<platform, disk, manager, proc, control, used>>

\* It fails anywhere, and the command goes on to report its success.
RemoveAllFails ==
  /\ At("removeFiles")
  /\ cmd' = [cmd EXCEPT !.at = @ + 1, !.ignored = TRUE]
  /\ UNCHANGED <<platform, disk, manager, proc, control, used>>

Command ==
  \/ BeginInstall \/ BeginUninstall \/ CommandFails
  \/ RemoveCredentials \/ WriteToken \/ WriteEnv \/ Register \/ StartService
  \/ StopService \/ DeleteService \/ CopyExecutable
  \/ Disable \/ RemoveUnit \/ RemoveFile \/ RemoveDirectory \/ RemoveAllFails

-----------------------------------------------------------------------------
(* The process.                                                            *)

\* What becomes of the rest when the process is gone.
ProcessGone(end) ==
  /\ proc' = Down
  /\ handler' = end /\ stop' = FALSE /\ done' = "none"
  /\ unit' = IF unit = "deleting" THEN "absent" ELSE unit

\* The service manager starts `service run'.
Start ==
  /\ wanted /\ unit = "present" /\ ~Up
  /\ proc' = [Down EXCEPT !.pc = "load"]
  /\ handler' = IF Windows THEN "starting" ELSE "none"
  /\ cmd' = [cmd EXCEPT !.beside = @ \/ (Windows /\ Installing), !.older = FALSE]
  /\ UNCHANGED <<platform, disk, manager, stop, done, used>>

\* The process is gone without a word to the service manager.
Ended == IF Windows THEN "crashed" ELSE "none"

\* The worker function returns.  On Windows its result goes to Execute, on
\* Linux the process ends with it.
Return(result) ==
  IF Windows
  THEN /\ proc' = [Down EXCEPT !.pc = "returned"]
       /\ done' = result
       /\ UNCHANGED <<handler, stop, unit>>
  ELSE ProcessGone("none")

\* runAgent: config.Load and ReadEnrollmentToken.
LoadSettings ==
  /\ proc.pc = "load"
  /\ IF Valid(serviceEnv)
     THEN /\ proc' = [proc EXCEPT !.pc = "identity", !.token = tokenFile,
                                  !.settings = Load(LoadDotEnv(NoLines, serviceEnv))]
          /\ UNCHANGED <<control, unit>>
     ELSE Return("error")
  /\ UNCHANGED <<platform, cmd, disk, wanted, used>>

\* A new key pair.  Which one does not matter, if it is not the one that something
\* is encrypted with.
NewKey == CHOOSE key \in Keys : key # secret

\* The new key pair is not saved.
LoadOrCreateUnsaved ==
  /\ proc.pc = "identity"
  /\ IF creds # NoFile
     THEN proc' = [proc EXCEPT !.pc = "idle", !.key = creds.key, !.agent = creds.agent]
     ELSE proc' = [proc EXCEPT !.pc = "idle", !.key = NewKey]
  /\ UNCHANGED <<platform, cmd, disk, manager, control, used>>

\* agent.New: the identity on disk, or a new key pair.
LoadOrCreate ==
  /\ proc.pc = "identity"
  /\ IF creds # NoFile
     THEN /\ proc' = [proc EXCEPT !.pc = "idle", !.key = creds.key,
                                  !.agent = creds.agent]
          /\ UNCHANGED creds
     ELSE /\ proc' = [proc EXCEPT !.pc = "idle", !.key = NewKey]
          /\ creds' = [key |-> NewKey, agent |-> None]
  /\ UNCHANGED <<platform, cmd, tokenFile, serviceEnv, secret, manager,
                 control, used>>

\* runAgent returns an error: the log, the settings or the identity.
StartupFails ==
  /\ proc.pc \in {"load", "identity"}
  /\ Return("error")
  /\ UNCHANGED <<platform, cmd, disk, wanted, used>>

\* connectAndRun: with an identity to a session, with a token to a
\* registration, and otherwise to nothing.
Connect ==
  /\ proc.pc = "idle" /\ ~proc.cancelled
  /\ \/ /\ proc.agent # None
        /\ proc' = [proc EXCEPT !.pc = "session"]
     \/ /\ proc.agent = None /\ proc.token # None
        /\ proc' = [proc EXCEPT !.pc = "registering"]
  /\ UNCHANGED <<platform, cmd, disk, manager, control, used>>

\* Run goes on without the token.
Forget ==
  proc' = [proc EXCEPT !.pc = "idle", !.token = None]

\* A connection ends, or there is none.
ConnectionFails ==
  /\ proc.pc \in {"idle", "registering", "session"}
  /\ Forget
  /\ UNCHANGED <<platform, cmd, disk, manager, control, used>>

\* The token file goes before the identity is saved.
EnrollAndForget ==
  /\ proc.pc = "registering" /\ proc.token \notin used
  /\ used' = used \cup {proc.token}
  /\ proc' = [proc EXCEPT !.pc = "saving", !.agent = proc.token]
  /\ tokenFile' = None
  /\ UNCHANGED <<platform, cmd, creds, serviceEnv, secret, manager, control>>

\* registration_complete: the gateway has redeemed the token.
Enroll ==
  /\ proc.pc = "registering" /\ proc.token \notin used
  /\ used' = used \cup {proc.token}
  /\ proc' = [proc EXCEPT !.pc = "saving", !.agent = proc.token]
  /\ UNCHANGED <<platform, cmd, disk, manager, control>>

SaveIdentity ==
  /\ proc.pc = "saving"
  /\ creds' = [key |-> proc.key, agent |-> proc.agent]
  /\ proc' = [proc EXCEPT !.pc = "saved"]
  /\ UNCHANGED <<platform, cmd, tokenFile, serviceEnv, secret, manager,
                 control, used>>

SaveFails ==
  /\ proc.pc = "saving"
  /\ Forget
  /\ UNCHANGED <<platform, cmd, disk, manager, control, used>>

\* The file goes, whatever it holds by now; a failure is ignored.
RemoveToken ==
  /\ proc.pc = "saved"
  /\ tokenFile' \in {None, tokenFile}
  /\ proc' = [proc EXCEPT !.pc = "session"]
  /\ UNCHANGED <<platform, cmd, creds, serviceEnv, secret, manager, control,
                 used>>

\* A plugin is installed: its secret is encrypted with the key in memory.
SaveSecret ==
  /\ proc.pc = "session"
  /\ secret' = proc.key
  /\ UNCHANGED <<platform, cmd, creds, tokenFile, serviceEnv, manager, proc,
                 control, used>>

\* Run does not look at the context between two connections.
ObeyStopInSession ==
  /\ proc.cancelled /\ proc.pc = "session"
  /\ Return("nil")
  /\ UNCHANGED <<platform, cmd, disk, wanted, used>>

\* Run sees the cancelled context between connections and in the session.
ObeyStop ==
  /\ proc.cancelled /\ proc.pc \in {"idle", "session"}
  /\ Return("nil")
  /\ UNCHANGED <<platform, cmd, disk, wanted, used>>

\* A kill from outside, or a panic: the tickers of a session refuse an interval that
\* is not positive, which an overflow can make.
Crash ==
  /\ Up
  /\ ProcessGone(Ended)
  /\ UNCHANGED <<platform, cmd, disk, wanted, used>>

-----------------------------------------------------------------------------
(* Execute.                                                                *)

ReportRunning ==
  /\ handler = "starting"
  /\ handler' = "running"
  /\ UNCHANGED <<platform, cmd, disk, manager, proc, stop, done, used>>

\* The handler returns without waiting for the worker.
TakeStopAtOnce ==
  /\ handler = "running" /\ stop
  /\ ProcessGone("none")
  /\ wanted' = FALSE
  /\ UNCHANGED <<platform, cmd, disk, used>>

\* A request to stop: the context is cancelled, and the handler waits.
TakeStop ==
  /\ handler = "running" /\ stop
  /\ handler' = "stopping" /\ stop' = FALSE
  /\ proc' = [proc EXCEPT !.cancelled = TRUE]
  /\ UNCHANGED <<platform, cmd, disk, manager, done, used>>

\* Execute returns after the worker, be it asked to stop or not.  A service that
\* has reported its end is not started again, whatever the exit code.
ExecuteReturns ==
  /\ handler \in {"running", "stopping"} /\ done # "none"
  /\ ProcessGone("none")
  /\ wanted' = FALSE
  /\ UNCHANGED <<platform, cmd, disk, used>>

-----------------------------------------------------------------------------

Worker ==
  \/ LoadSettings \/ LoadOrCreate \/ Connect \/ Enroll \/ SaveIdentity
  \/ RemoveToken \/ ObeyStop

Execute == ReportRunning \/ TakeStop \/ ExecuteReturns

Agent == Worker \/ Execute

Faults ==
  StartupFails \/ ConnectionFails \/ SaveFails \/ Crash

Next == Command \/ Start \/ Agent \/ SaveSecret \/ Faults

Spec == Init /\ [][Next]_vars

\* The worker and its handler go on, and the gateway answers a registration or its
\* deadline passes.  The worker is at one
\* place at a time, so that fairness of the whole is fairness of each step.  Nothing
\* obliges the administrator, the network or the disk.
Fairness ==
  /\ WF_vars(\/ Worker \/ SaveFails
             \/ (proc.pc = "registering" /\ ConnectionFails))
  /\ WF_vars(Execute)

FairSpec == Spec /\ Fairness

-----------------------------------------------------------------------------
(* Properties.                                                             *)

PCs == {"down", "load", "identity", "idle", "registering", "saving", "saved",
        "session", "returned"}

Processes ==
  [pc : PCs, key : Keys \cup {None}, agent : Tokens \cup {None},
   token : Tokens \cup {None}, settings : [Variables -> Durations \cup {Unset}],
   cancelled : BOOLEAN, robbed : BOOLEAN]

\* A command, or none so far.
Commands ==
  [op : {"none", "install", "uninstall"}, at : 1..11, token : Tokens \cup {None},
   env : Env, spent : BOOLEAN, beside : BOOLEAN, older : BOOLEAN,
   ignored : BOOLEAN]

TypeOK ==
  /\ platform \in Platforms
  /\ cmd \in Commands
  /\ creds \in [key : Keys \cup {None}, agent : Tokens \cup {None}]
  /\ tokenFile \in Tokens \cup {None}
  /\ serviceEnv \in Env
  /\ secret \in Keys \cup {None}
  /\ unit \in {"absent", "present", "deleting"}
  /\ wanted \in BOOLEAN
  /\ proc \in Processes
  /\ proc.pc \notin {"down", "load", "returned"} =>
       proc.settings \in [Variables -> Durations]
  /\ handler \in {"none", "crashed", "starting", "running", "stopping"}
  /\ stop \in BOOLEAN
  /\ done \in {"none", "nil", "error"}
  /\ used \subseteq Tokens

Enrolled == creds.agent # None

\* An installation that has succeeded leaves an agent that is enrolled or has a
\* token to enroll with, although a running agent writes and removes the same
\* files.  Excused are an enrollment beside a Windows installation, which removes
\* the older identity first, and an agent that has lost its files to an
\* uninstallation before and goes on to remove the new token (install,
\* finishHandshake).
InstallLeavesAWayIn ==
  Succeeded("install") /\ ~cmd.beside => Enrolled \/ tokenFile # None

\* On Windows, if no agent with an enrollment to do was beside the command, the
\* identity after an installation is the one that its token was for, never that of
\* another token, and none if the token was spent before (install).
NewTokenPrevails ==
  Windows /\ Succeeded("install") /\ ~cmd.beside =>
    /\ creds.agent \in {None, cmd.token}
    /\ cmd.spent => ~Enrolled

\* On Windows no older identity takes precedence over the token of an
\* installation.  (An agent beside it saves its identity after the command has
\* removed the older one: see the run older_identity.)
NoOlderIdentity ==
  Windows /\ Succeeded("install") => creds.agent \in {None, cmd.token}

\* The plugins' secrets can be decrypted after a restart.
Readable == secret \in {None, creds.key}

\* On Linux nothing separates the plugins' secrets from the key that they are
\* encrypted with, no installation and no crash, but the removal of the files and
\* an agent that goes on after its files were removed (install, uninstall).
SecretsStayReadable ==
  [][~Windows /\ Readable => Readable' \/ At("removeFiles") \/ Orphan]_vars

\* A service runs with the settings that its installation has loaded, from the
\* shell and .env, overflow included, and with the defaults for what is not handed
\* on: on Windows whatever ran before, on Linux unless it is still the agent that
\* was up when the settings were written (handleServiceCommand, writeServiceEnv,
\* loadDotEnv).
RunsAsConfigured ==
  /\ Succeeded("install") /\ proc.pc \notin {"down", "load", "returned"}
  /\ Windows \/ ~cmd.older
  => \A v \in Variables :
       proc.settings[v] = IF v \in Saved THEN Load(cmd.env)[v] ELSE Default * Second

\* After an uninstallation there is no service, and if no failure was ignored
\* neither a file that a later agent would read nor an agent to write one, also
\* when the agent was enrolling or the stop did not reach it (uninstall).
UninstallIsClean ==
  Succeeded("uninstall") =>
    /\ unit # "present"
    /\ ~cmd.ignored => FilesGone /\ ~Up

\* Execute does not cut off a worker: on Windows an enrollment that the gateway
\* has granted is lost to a crash, never to a stop.
StopIsGraceful ==
  [][Windows /\ proc.pc \in {"saving", "saved"} /\ ~Up' => handler' = "crashed"]_vars

\* A stop that the handler has received ends the process, also when it comes
\* during the startup or an enrollment.
StopIsCompleted == handler = "stopping" ~> ~Up

-----------------------------------------------------------------------------
(* The inductive invariant.                                                *)

\* The handler, its channel and a stop that is on its way belong to the process.
HandlerInv ==
  /\ Windows => (Up <=> handler \in {"starting", "running", "stopping"})
  /\ ~Windows => handler = "none" /\ proc.pc # "returned"
  /\ stop => handler = "running"
  /\ done # "none" <=> proc.pc = "returned"

\* What the worker knows at each place.
WorkerInv ==
  /\ proc.pc \in {"down", "load", "identity", "registering"} => proc.agent = None
  /\ proc.pc \in {"saving", "saved", "session"} => proc.agent # None
  /\ proc.pc \in {"idle", "registering", "saving", "saved", "session"} =>
       proc.key # None
  /\ proc.pc = "registering" => proc.token # None
  /\ proc.pc \in {"down", "load"} => proc.token = None
  /\ creds.key = None => creds = NoFile

\* The worker has loaded its settings from the file as it is.
LoadedFromFile ==
  proc.pc \notin {"down", "load", "returned"} =>
    proc.settings = Load(LoadDotEnv(NoLines, serviceEnv))

\* What the command has: a token, spent or not, and on Windows no process beside
\* it, or a settled one, unless it says otherwise.
CommandInv ==
  /\ cmd.op = "install" => cmd.token # None /\ Valid(cmd.env)
  /\ cmd.spent => cmd.token \in used
  /\ Windows /\ Installing /\ ~cmd.beside =>
       \/ proc.pc \in {"down", "returned"}
       \/ proc.pc \in {"idle", "session"} /\ proc.agent # None

\* On Linux the identity stays with its agent or is removed from under it, and the
\* token stays until it has been redeemed.
LinuxInv ==
  ~Windows =>
    /\ proc.key # None => creds.key = proc.key \/ Orphan
    /\ proc.pc = "saved" => Enrolled \/ Orphan
    /\ cmd.op = "install" =>
         /\ proc.pc = "saved" /\ ~cmd.beside => Enrolled
         /\ cmd.at >= 3 /\ ~cmd.beside => Enrolled \/ tokenFile # None
         /\ cmd.at >= 5 => serviceEnv = WriteServiceEnv(cmd.env)
         /\ cmd.at >= 5 /\ ~cmd.older => LoadedFromFile
    /\ cmd.op = "uninstall" =>
         /\ cmd.at >= 2 /\ ~cmd.ignored => ~wanted /\ ~Up
         /\ cmd.at >= 3 => unit = "absent"
         /\ cmd.at >= 4 /\ ~cmd.ignored => FilesGone

\* On Windows the process that an installation starts is a new one, and none is
\* left to write into the directory that an uninstallation has removed.
WindowsInv ==
  Windows =>
    /\ cmd.op = "install" =>
         /\ cmd.at >= 6 => serviceEnv = WriteServiceEnv(cmd.env)
         /\ cmd.at \in 8..10 => ~wanted
         /\ cmd.at \in 9..10 => ~Up
         /\ cmd.at = 11 => LoadedFromFile
    /\ cmd.op = "uninstall" =>
         /\ cmd.at >= 3 => ~wanted /\ unit # "present"
         /\ cmd.at >= 4 /\ ~cmd.ignored => ~Up /\ FilesGone

\* On Windows what is known of the identity and of the token since a new
\* installation, with nothing beside it, is what that installation has brought.
FreshInv ==
  Windows /\ cmd.op = "install" /\ ~cmd.beside =>
    /\ cmd.at \in 2..10 => creds = NoFile
    /\ cmd.at \in 4..10 => tokenFile = cmd.token
    /\ cmd.at = 11 =>
         /\ {creds.agent, proc.agent, proc.token, tokenFile} \subseteq {None, cmd.token}
         /\ Enrolled \/ tokenFile = cmd.token
         /\ proc.pc = "saved" => Enrolled
         /\ cmd.spent => ~Enrolled /\ proc.agent = None

IInv ==
  TypeOK /\ HandlerInv /\ WorkerInv /\ CommandInv /\ LinuxInv /\ WindowsInv /\ FreshInv

=============================================================================
