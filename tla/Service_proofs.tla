--------------------------- MODULE Service_proofs ---------------------------
(***************************************************************************)
(* Proofs about Service, for any tokens, keys and environments.  What a    *)
(* command promises when it has succeeded was brought about by its earlier *)
(* steps, so that IInv follows it from step to step: on Linux the running  *)
(* agent may write the same files (LinuxInv), on Windows a command with    *)
(* nothing beside it finds the files as it left them (FreshInv).           *)
(***************************************************************************)
EXTENDS Service, TLAPS

USE PlatformsAssumption, NoneAssumption

\* What seconds returns, overflow included, is a duration.
LEMMA SecondsType == ASSUME NEW text PROVE Seconds(text) \in Durations
<1> USE NumbersAssumption, WidthAssumption
<1>1. ASSUME NEW n \in Int PROVE Wrap(n) \in Durations
  <2>1. (n + IntMax + 1) % (2 * (IntMax + 1)) \in 0..(2 * (IntMax + 1) - 1)
    OBVIOUS
  <2> QED
    BY <2>1 DEF Wrap, Durations
<1>2. ASSUME text \in Numbers PROVE text * Second \in Int
  BY <1>2
<1>3. Default * Second \in Durations
  BY DEF Durations
<1> QED
  BY <1>1, <1>2, <1>3 DEF Seconds

\* A number of seconds that fits a duration is not changed by the conversion.
LEMMA SecondsExact ==
  ASSUME NEW text \in Numbers, text > 0, text * Second <= IntMax
  PROVE  Seconds(text) = text * Second
<1> USE NumbersAssumption, WidthAssumption
<1> DEFINE n == text * Second
<1>1. n \in Int /\ 0 <= n /\ n <= IntMax
  OBVIOUS
<1> HIDE DEF n
<1>2. (n + IntMax + 1) % (2 * (IntMax + 1)) = n + IntMax + 1
  BY <1>1
<1>3. Wrap(n) = n
  BY <1>1, <1>2 DEF Wrap
<1> QED
  BY <1>3 DEF Seconds, n

\* Where the commands have their steps.
LEMMA Steps ==
  ASSUME TypeOK, NEW step, At(step)
  PROVE
    /\ step = "reset" => Windows /\ cmd.op = "install" /\ cmd.at = 1
    /\ step = "emptyToken" => cmd.op = "install" /\ cmd.at = (IF Windows THEN 2 ELSE 1)
    /\ step = "token" => cmd.op = "install" /\ cmd.at = (IF Windows THEN 3 ELSE 2)
    /\ step = "emptyEnv" => cmd.op = "install" /\ cmd.at = (IF Windows THEN 4 ELSE 3)
    /\ step = "env" => cmd.op = "install" /\ cmd.at = (IF Windows THEN 5 ELSE 4)
    /\ step = "unit" => ~Windows /\ cmd.op = "install" /\ cmd.at = 5
    /\ step = "enable" => ~Windows /\ cmd.op = "install" /\ cmd.at = 6
    /\ step = "stop" => Windows /\ cmd.at = (IF cmd.op = "install" THEN 6 ELSE 1)
    /\ step = "delete" => Windows /\ cmd.at = (IF cmd.op = "install" THEN 7 ELSE 2)
    /\ step = "copy" => Windows /\ cmd.op = "install" /\ cmd.at = 8
    /\ step = "create" => Windows /\ cmd.op = "install" /\ cmd.at = 9
    /\ step = "start" => Windows /\ cmd.op = "install" /\ cmd.at = 10
    /\ step = "disable" => ~Windows /\ cmd.op = "uninstall" /\ cmd.at = 1
    /\ step = "removeUnit" => ~Windows /\ cmd.op = "uninstall" /\ cmd.at = 2
    /\ step = "removeFiles" => cmd.op = "uninstall" /\ cmd.at = 3
<1>1. cmd.at \in 1..11 /\ cmd.at <= Len(Script(cmd.op)) /\ Script(cmd.op)[cmd.at] = step
  BY DEF At, TypeOK, Commands, Running
<1>2. CASE cmd.op = "install" /\ Windows
  <2>1. cmd.at <= Len(WindowsInstall) /\ WindowsInstall[cmd.at] = step
    BY <1>1, <1>2 DEF Script
  <2> QED
    BY <1>1, <1>2, <2>1 DEF WindowsInstall
<1>3. CASE cmd.op = "install" /\ ~Windows
  <2>1. cmd.at <= Len(LinuxInstall) /\ LinuxInstall[cmd.at] = step
    BY <1>1, <1>3 DEF Script
  <2> QED
    BY <1>1, <1>3, <2>1 DEF LinuxInstall
<1>4. CASE cmd.op = "uninstall" /\ Windows
  <2>1. cmd.at <= Len(WindowsUninstall) /\ WindowsUninstall[cmd.at] = step
    BY <1>1, <1>4 DEF Script
  <2> QED
    BY <1>1, <1>4, <2>1 DEF WindowsUninstall
<1>5. CASE cmd.op = "uninstall" /\ ~Windows
  <2>1. cmd.at <= Len(LinuxUninstall) /\ LinuxUninstall[cmd.at] = step
    BY <1>1, <1>5 DEF Script
  <2> QED
    BY <1>1, <1>5, <2>1 DEF LinuxUninstall
<1>6. CASE cmd.op = "none"
  BY <1>1, <1>6 DEF Script
<1> QED
  BY <1>2, <1>3, <1>4, <1>5, <1>6 DEF TypeOK, Commands

\* A command that runs is at one of its steps.
LEMMA Length ==
  ASSUME TypeOK
  PROVE  Running <=>
           \/ cmd.op = "install" /\ cmd.at <= IF Windows THEN 10 ELSE 6
           \/ cmd.op = "uninstall" /\ cmd.at <= 3
<1>1. cmd.at \in 1..11 /\ cmd.op \in {"none", "install", "uninstall"}
  BY DEF TypeOK, Commands
<1> QED
  BY <1>1 DEF Running, Script, WindowsInstall, LinuxInstall, WindowsUninstall,
    LinuxUninstall

\* The same for the next state.
LEMMA LengthNext ==
  ASSUME TypeOK'
  PROVE  Running' <=>
           \/ cmd'.op = "install" /\ cmd'.at <= IF Windows' THEN 10 ELSE 6
           \/ cmd'.op = "uninstall" /\ cmd'.at <= 3
<1>1. cmd'.at \in 1..11 /\ cmd'.op \in {"none", "install", "uninstall"}
  BY DEF TypeOK, Commands
<1> QED
  BY <1>1 DEF Running, Script, WindowsInstall, LinuxInstall, WindowsUninstall,
    LinuxUninstall

\* Environments and settings stay what they are.
LEMMA EnvTypes ==
  /\ NoLines \in Env
  /\ \A env \in Env :
       /\ WriteServiceEnv(env) \in Env
       /\ Load(env) \in [Variables -> Durations]
       /\ \A file \in Env : LoadDotEnv(env, file) \in Env
BY SecondsType DEF NoLines, Env, Texts, WriteServiceEnv, Load, LoadDotEnv

\* A process that is not there is a process without anything.
LEMMA DownType ==
  /\ Down \in Processes
  /\ Down.pc = "down" /\ Down.key = None /\ Down.agent = None /\ Down.token = None
BY DEF Down, Processes, PCs, NoLines

\* A new key is a key that nothing is encrypted with.
LEMMA NewKeyType ==
  ASSUME secret \in Keys \cup {None}
  PROVE  NewKey \in Keys /\ NewKey # secret
BY KeysAssumption DEF NewKey

-----------------------------------------------------------------------------
(* The inductive invariant.                                                *)

\* Nothing is installed, nothing runs, no command has been given.
LEMMA InitInv == Init => IInv
<1> SUFFICES ASSUME Init PROVE IInv
  OBVIOUS
<1>1. TypeOK
  <2>1. NoCommand \in Commands
    BY EnvTypes DEF Commands, NoCommand
  <2> QED
    BY <2>1, EnvTypes, DownType DEF Init, TypeOK, NoFile
<1>2. ~Running
  BY <1>1, Length DEF Init, NoCommand
<1>3. HandlerInv /\ WorkerInv
  BY DownType DEF Init, HandlerInv, WorkerInv, NoFile, Up
<1>4. CommandInv
  BY <1>2, DownType DEF Init, CommandInv, NoCommand
<1>5. LinuxInv /\ WindowsInv /\ FreshInv
  BY DownType DEF Init, LinuxInv, WindowsInv, FreshInv, NoCommand, NoFile
<1> QED
  BY <1>1, <1>3, <1>4, <1>5 DEF IInv

\* The process goes, and with it the rest.
LEMMA GoneInv ==
  ASSUME IInv, NEW end \in {"none", "crashed"}, ~Windows => end = "none",
         ProcessGone(end), wanted' \in {wanted, FALSE},
         UNCHANGED <<platform, cmd, disk, used>>
  PROVE  IInv'
<1> USE EnvTypes, DownType, Length
<1> USE DEF IInv, TypeOK, Processes, Commands, PCs, HandlerInv, WorkerInv, CommandInv,
            LinuxInv, WindowsInv, FreshInv, Up, Enrolled, FilesGone, Windows, NoFile,
            Installing, Orphan, LoadedFromFile, disk, manager, control
<1>1. TypeOK'
  <2>2. proc' \in Processes
    BY DEF ProcessGone
  <2>3. proc'.pc \notin {"down", "load", "returned"} =>
          proc'.settings \in [Variables -> Durations]
    BY DEF ProcessGone
  <2>4. unit' \in {"absent", "present", "deleting"} /\ wanted' \in BOOLEAN
    BY DEF ProcessGone
  <2>5. handler' \in {"none", "crashed"} /\ stop' \in BOOLEAN /\ done' = "none"
    BY DEF ProcessGone
  <2>6. /\ platform' \in Platforms /\ cmd' \in Commands
        /\ creds' \in [key : Keys \cup {None}, agent : Tokens \cup {None}]
        /\ tokenFile' \in Tokens \cup {None} /\ serviceEnv' \in Env
        /\ secret' \in Keys \cup {None} /\ used' \subseteq Tokens
    OBVIOUS
  <2> QED
    BY <2>2, <2>3, <2>4, <2>5, <2>6
<1>2. HandlerInv'
  BY DEF ProcessGone
<1>3. WorkerInv'
  BY DEF ProcessGone
<1>4. CommandInv'
  BY <1>1, LengthNext DEF ProcessGone
<1>5. LinuxInv'
  BY DEF ProcessGone
<1>6. WindowsInv'
  BY DEF ProcessGone
<1>7. FreshInv'
  BY DEF ProcessGone
<1> QED
  BY <1>1, <1>2, <1>3, <1>4, <1>5, <1>6, <1>7

\* The worker function returns, while no enrollment is under way.
LEMMA ReturnInv ==
  ASSUME IInv, NEW result \in {"nil", "error"}, Return(result),
         proc.pc \in {"load", "identity", "idle", "session"},
         UNCHANGED <<platform, cmd, disk, wanted, used>>
  PROVE  IInv'
<1> USE EnvTypes, DownType, Length
<1> USE DEF IInv, TypeOK, Processes, Commands, PCs, HandlerInv, WorkerInv, CommandInv,
            LinuxInv, WindowsInv, FreshInv, Up, Enrolled, FilesGone, Windows, NoFile,
            Installing, Orphan, LoadedFromFile, disk, manager, control
<1>1. CASE ~Windows
  BY <1>1, GoneInv DEF Return
<1>2. CASE Windows
  <2>1. TypeOK'
    <3>1. proc' \in Processes
      BY <1>2 DEF Return
    <3>2. proc'.pc \notin {"down", "load", "returned"} =>
            proc'.settings \in [Variables -> Durations]
      BY <1>2 DEF Return
    <3> QED
      BY <1>2, <3>1, <3>2 DEF Return
  <2>2. HandlerInv' /\ WorkerInv' /\ CommandInv' /\ LinuxInv' /\ WindowsInv' /\ FreshInv'
    BY <1>2, <2>1, LengthNext DEF Return
  <2> QED
    BY <2>1, <2>2
<1> QED
  BY <1>1, <1>2

\* Every step of a command, of the agent and of its handler keeps IInv.
LEMMA NextInv == IInv /\ [Next]_vars => IInv'
<1> SUFFICES ASSUME IInv, [Next]_vars PROVE IInv'
  OBVIOUS
<1> USE EnvTypes, DownType, Length
<1> USE DEF IInv, TypeOK, Processes, Commands, PCs, HandlerInv, WorkerInv, CommandInv,
            LinuxInv, WindowsInv, FreshInv, Up, Enrolled, FilesGone, Windows, NoFile,
            Installing, Orphan, LoadedFromFile, disk, manager, control
<1>1. CASE BeginInstall
  <2>0. PICK token \in Tokens, env \in Env : Valid(env) /\ Begin("install", token, env)
    BY <1>1, ShellsAssumption DEF BeginInstall
  <2>1. TypeOK'
    <3>1. cmd' \in Commands
      BY <2>0 DEF Begin, Spoiler, Settled, NoCommand
    <3> QED
      BY <2>0, <3>1 DEF Begin, Spoiler, Settled
  <2>2. HandlerInv' /\ WorkerInv' /\ LinuxInv' /\ WindowsInv' /\ FreshInv'
    BY <2>0 DEF Begin, Spoiler, Settled
  <2>3. CommandInv'
    <3>1. /\ cmd'.op = "install" /\ cmd'.token = token /\ cmd'.env = env
          /\ cmd'.spent = (Windows /\ token \in used)
          /\ cmd'.beside = ("install" = "install" /\ Spoiler)
          /\ UNCHANGED <<proc, used>>
      BY <2>0 DEF Begin
    <3> QED
      BY <2>0, <3>1 DEF Begin, Spoiler, Settled
  <2> QED
    BY <2>1, <2>2, <2>3
<1>2. CASE BeginUninstall
  <2>0. Begin("uninstall", None, NoLines)
    BY <1>2 DEF BeginUninstall
  <2>1. TypeOK'
    <3>1. cmd' \in Commands
      BY <2>0 DEF Begin, Spoiler, Settled, NoCommand
    <3> QED
      BY <2>0, <3>1 DEF Begin, Spoiler, Settled
  <2>2. HandlerInv' /\ WorkerInv' /\ LinuxInv' /\ WindowsInv' /\ FreshInv'
    BY <2>0 DEF Begin, Spoiler, Settled
  <2>3. CommandInv'
    <3>1. /\ cmd'.op = "uninstall" /\ cmd'.token = None /\ cmd'.env = NoLines
          /\ cmd'.spent = (Windows /\ None \in used)
          /\ cmd'.beside = ("uninstall" = "install" /\ Spoiler)
          /\ UNCHANGED <<proc, used>>
      BY <2>0 DEF Begin
    <3> QED
      BY <2>0, <3>1 DEF Begin, Spoiler, Settled
  <2> QED
    BY <2>1, <2>2, <2>3
<1>3. CASE CommandFails
  <2>1. TypeOK'
    <3>1. cmd' \in Commands
      BY <1>3 DEF CommandFails, NoCommand
    <3> QED
      BY <1>3, <3>1 DEF CommandFails, NoCommand
  <2>2. HandlerInv' /\ WorkerInv' /\ CommandInv' /\ LinuxInv' /\ WindowsInv' /\ FreshInv'
    BY <1>3, <2>1, LengthNext DEF CommandFails, NoCommand
  <2> QED
    BY <2>1, <2>2
<1>4. CASE RemoveCredentials
  <2>1. TypeOK'
    <3>1. cmd' \in Commands
      BY <1>4, Steps DEF RemoveCredentials, Advance
    <3> QED
      BY <1>4, Steps, <3>1 DEF RemoveCredentials, Advance
  <2>2. HandlerInv' /\ WorkerInv' /\ CommandInv' /\ LinuxInv' /\ WindowsInv' /\ FreshInv'
    BY <1>4, Steps, <2>1, LengthNext DEF RemoveCredentials, Advance
  <2> QED
    BY <2>1, <2>2
<1>5. CASE WriteToken
  <2>1. TypeOK'
    <3>1. cmd' \in Commands
      BY <1>5, Steps DEF WriteToken, Advance
    <3> QED
      BY <1>5, Steps, <3>1 DEF WriteToken, Advance
  <2>2. HandlerInv' /\ WorkerInv' /\ CommandInv' /\ LinuxInv' /\ WindowsInv' /\ FreshInv'
    BY <1>5, Steps, <2>1, LengthNext DEF WriteToken, Advance
  <2> QED
    BY <2>1, <2>2
<1>6. CASE WriteEnv
  <2>0. PICK older \in BOOLEAN :
          /\ cmd' = [cmd EXCEPT !.at = @ + 1, !.older = older]
          /\ At("env") /\ ~older => proc.pc \in {"down", "load"}
          /\ \/ At("emptyEnv") /\ serviceEnv' = NoLines
             \/ At("env") /\ serviceEnv' = WriteServiceEnv(cmd.env)
    <3>1. CASE At("emptyEnv") /\ Advance /\ serviceEnv' = NoLines
      <4>1. ~At("env")
        BY <3>1 DEF At
      <4>2. cmd' = [cmd EXCEPT !.at = @ + 1, !.older = cmd.older]
        BY <3>1 DEF Advance
      <4> QED
        BY <3>1, <4>1, <4>2
    <3>2. CASE /\ At("env") /\ serviceEnv' = WriteServiceEnv(cmd.env)
               /\ cmd' = [cmd EXCEPT !.at = @ + 1,
                                     !.older = proc.pc \notin {"down", "load"}]
      BY <3>2
    <3> QED
      BY <1>6, <3>1, <3>2 DEF WriteEnv
  <2>1. /\ cmd.op = "install"
        /\ At("emptyEnv") => cmd.at = (IF Windows THEN 4 ELSE 3)
        /\ At("env") => cmd.at = (IF Windows THEN 5 ELSE 4)
    BY <2>0, Steps
  <2>2. UNCHANGED <<platform, creds, tokenFile, secret, manager, proc, control, used>>
    BY <1>6 DEF WriteEnv
  <2>3. TypeOK'
    <3>0. cmd \in Commands /\ cmd.at + 1 \in 1..11
      BY <2>0, <2>1
    <3>1. cmd' \in Commands
      BY <2>0, <3>0
    <3> QED
      BY <2>0, <2>2, <3>1
  <2>4. HandlerInv' /\ WorkerInv' /\ CommandInv'
    BY <2>0, <2>1, <2>2, <2>3, LengthNext
  <2>5. LinuxInv' /\ WindowsInv' /\ FreshInv'
    BY <2>0, <2>1, <2>2, <2>3
  <2> QED
    BY <2>3, <2>4, <2>5
<1>7. CASE Register
  <2>1. TypeOK'
    <3>1. cmd' \in Commands
      BY <1>7, Steps DEF Register, Advance
    <3> QED
      BY <1>7, Steps, <3>1 DEF Register, Advance
  <2>2. HandlerInv' /\ WorkerInv' /\ CommandInv' /\ LinuxInv' /\ WindowsInv' /\ FreshInv'
    BY <1>7, Steps, <2>1, LengthNext DEF Register, Advance
  <2> QED
    BY <2>1, <2>2
<1>8. CASE StartService
  <2>1. TypeOK'
    <3>1. cmd' \in Commands
      BY <1>8, Steps DEF StartService, Advance
    <3> QED
      BY <1>8, Steps, <3>1 DEF StartService, Advance
  <2>2. HandlerInv' /\ WorkerInv' /\ CommandInv' /\ LinuxInv' /\ WindowsInv' /\ FreshInv'
    BY <1>8, Steps, <2>1, LengthNext DEF StartService, Advance
  <2> QED
    BY <2>1, <2>2
<1>9. CASE StopService
  <2>1. TypeOK'
    <3>2. cmd' \in Commands
      BY <1>9, Steps DEF StopService, Advance
    <3>3. stop' \in BOOLEAN /\ wanted' \in BOOLEAN
      BY <1>9 DEF StopService
    <3> QED
      BY <1>9, <3>2, <3>3 DEF StopService
  <2>2. HandlerInv' /\ WorkerInv' /\ CommandInv' /\ LinuxInv' /\ WindowsInv' /\ FreshInv'
    BY <1>9, Steps, <2>1, LengthNext DEF StopService, Advance
  <2> QED
    BY <2>1, <2>2
<1>10. CASE DeleteService
  <2>1. TypeOK'
    <3>1. cmd' \in Commands
      BY <1>10, Steps DEF DeleteService, Advance
    <3>4. unit' \in {"absent", "present", "deleting"} /\ wanted' \in BOOLEAN
      BY <1>10, Steps DEF DeleteService, Advance
    <3> QED
      BY <1>10, Steps, <3>1, <3>4 DEF DeleteService, Advance
  <2>2. HandlerInv' /\ WorkerInv' /\ CommandInv' /\ LinuxInv' /\ WindowsInv' /\ FreshInv'
    BY <1>10, Steps, <2>1, LengthNext DEF DeleteService, Advance
  <2> QED
    BY <2>1, <2>2
<1>11. CASE CopyExecutable
  <2>1. TypeOK'
    <3>1. cmd' \in Commands
      BY <1>11, Steps DEF CopyExecutable, Advance
    <3> QED
      BY <1>11, Steps, <3>1 DEF CopyExecutable, Advance
  <2>2. HandlerInv' /\ WorkerInv' /\ CommandInv' /\ LinuxInv' /\ WindowsInv' /\ FreshInv'
    BY <1>11, Steps, <2>1, LengthNext DEF CopyExecutable, Advance
  <2> QED
    BY <2>1, <2>2
<1>12. CASE Disable
  <2>0. PICK ignored \in BOOLEAN :
          /\ cmd' = [cmd EXCEPT !.at = @ + 1, !.ignored = ignored]
          /\ ~ignored => ~wanted' /\ proc'.pc = "down"
          /\ wanted' \in BOOLEAN /\ proc' \in {Down, proc}
          /\ UNCHANGED <<platform, disk, unit, control, used>>
    BY <1>12 DEF Disable
  <2>2. ~Windows /\ cmd.op = "uninstall" /\ cmd.at = 1
    BY <1>12, Steps DEF Disable
  <2>1. TypeOK'
    <3>0. cmd \in Commands /\ cmd.at + 1 \in 1..11
      BY <2>2
    <3>1. cmd' \in Commands
      BY <2>0, <3>0
    <3>2. proc' \in Processes /\ (proc'.pc \notin {"down", "load", "returned"} =>
            proc'.settings \in [Variables -> Durations])
      BY <2>0
    <3> QED
      BY <2>0, <3>1, <3>2
  <2>3. HandlerInv' /\ WorkerInv' /\ CommandInv' /\ LinuxInv' /\ WindowsInv' /\ FreshInv'
    BY <2>0, <2>1, <2>2, LengthNext
  <2> QED
    BY <2>1, <2>3
<1>13. CASE RemoveUnit
  <2>1. TypeOK'
    <3>1. cmd' \in Commands
      BY <1>13, Steps DEF RemoveUnit, Advance
    <3> QED
      BY <1>13, Steps, <3>1 DEF RemoveUnit, Advance
  <2>2. HandlerInv' /\ WorkerInv' /\ CommandInv' /\ LinuxInv' /\ WindowsInv' /\ FreshInv'
    BY <1>13, Steps, <2>1, LengthNext DEF RemoveUnit, Advance
  <2> QED
    BY <2>1, <2>2
<1>14. CASE RemoveFile
  <2>0. /\ creds' \in {creds, NoFile} /\ tokenFile' \in {tokenFile, None}
        /\ serviceEnv' \in {serviceEnv, NoLines} /\ secret' \in {secret, None}
        /\ UNCHANGED <<platform, cmd, manager, control, used>>
    BY <1>14 DEF RemoveFile
  <2>1. TypeOK'
    <3>1. proc' \in Processes /\ proc'.pc = proc.pc /\ proc'.settings = proc.settings
      BY <1>14 DEF RemoveFile
    <3> QED
      BY <2>0, <3>1
  <2>2. cmd.op = "uninstall" /\ cmd.at = 3
    BY <1>14, Steps DEF RemoveFile
  <2>3. HandlerInv' /\ WorkerInv' /\ CommandInv' /\ LinuxInv' /\ WindowsInv' /\ FreshInv'
    BY <1>14, <2>1, <2>2, LengthNext DEF RemoveFile
  <2> QED
    BY <2>1, <2>3
<1>32. CASE RemoveDirectory
  <2>1. TypeOK'
    <3>1. cmd' \in Commands
      BY <1>32, Steps DEF RemoveDirectory, Advance
    <3> QED
      BY <1>32, <3>1 DEF RemoveDirectory
  <2>2. HandlerInv' /\ WorkerInv' /\ CommandInv' /\ LinuxInv' /\ WindowsInv' /\ FreshInv'
    BY <1>32, Steps, <2>1, LengthNext DEF RemoveDirectory, Advance
  <2> QED
    BY <2>1, <2>2
<1>33. CASE RemoveAllFails
  <2>1. TypeOK'
    <3>1. cmd' = [cmd EXCEPT !.at = @ + 1, !.ignored = TRUE] /\ cmd.at = 3
      BY <1>33, Steps DEF RemoveAllFails
    <3>0. cmd \in Commands /\ cmd.at + 1 \in 1..11
      BY <3>1
    <3>2. cmd' \in Commands
      BY <3>0, <3>1
    <3> QED
      BY <1>33, <3>2 DEF RemoveAllFails
  <2>2. HandlerInv' /\ WorkerInv' /\ CommandInv' /\ LinuxInv' /\ WindowsInv' /\ FreshInv'
    BY <1>33, Steps, <2>1, LengthNext DEF RemoveAllFails
  <2> QED
    BY <2>1, <2>2
<1>15. CASE Start
  <2>0. /\ wanted /\ unit = "present" /\ proc.pc = "down"
        /\ proc' = [Down EXCEPT !.pc = "load"]
        /\ handler' = IF Windows THEN "starting" ELSE "none"
        /\ UNCHANGED <<platform, disk, manager, stop, done, used>>
    BY <1>15 DEF Start
  <2>1. PICK beside \in BOOLEAN :
          /\ cmd' = [cmd EXCEPT !.beside = beside, !.older = FALSE]
          /\ beside <=> cmd.beside \/ (Windows /\ Installing)
    BY <1>15 DEF Start
  <2>2. TypeOK'
    <3>1. cmd' \in Commands
      BY <2>1
    <3>2. proc' \in Processes /\ proc'.pc = "load"
      BY <2>0
    <3> QED
      BY <2>0, <3>1, <3>2
  <2>3. HandlerInv' /\ WorkerInv'
    BY <2>0
  <2>4. CommandInv' /\ FreshInv'
    BY <2>0, <2>1, <2>2, LengthNext
  <2>5. LinuxInv' /\ WindowsInv'
    BY <2>0, <2>1, <2>2
  <2> QED
    BY <2>2, <2>3, <2>4, <2>5
<1>16. CASE LoadSettings
  <2>1. CASE ~Valid(serviceEnv)
    BY <1>16, <2>1, ReturnInv DEF LoadSettings
  <2>2. CASE Valid(serviceEnv)
    <3>0. /\ proc.pc = "load"
          /\ proc' = [proc EXCEPT !.pc = "identity", !.token = tokenFile,
                                  !.settings = Load(LoadDotEnv(NoLines, serviceEnv))]
          /\ UNCHANGED <<platform, cmd, disk, manager, control, used>>
          /\ Load(LoadDotEnv(NoLines, serviceEnv)) \in [Variables -> Durations]
      BY <1>16, <2>2 DEF LoadSettings
    <3>1. TypeOK'
      <4>1. proc' \in Processes
        BY <3>0
      <4>2. proc'.pc \notin {"down", "load", "returned"} =>
              proc'.settings \in [Variables -> Durations]
        BY <3>0
      <4> QED
        BY <3>0, <4>1, <4>2
    <3>2. HandlerInv' /\ WorkerInv' /\ CommandInv' /\ LinuxInv' /\ WindowsInv' /\ FreshInv'
      BY <3>0, <3>1, LengthNext
    <3> QED
      BY <3>1, <3>2
  <2> QED
    BY <2>1, <2>2
<1>17. CASE LoadOrCreate
  <2>1. CASE creds # NoFile
    <3>0. /\ proc.pc = "identity" /\ creds.key # None
          /\ proc' = [proc EXCEPT !.pc = "idle", !.key = creds.key, !.agent = creds.agent]
          /\ UNCHANGED <<platform, cmd, disk, manager, control, used>>
      BY <1>17, <2>1 DEF LoadOrCreate
    <3>1. TypeOK'
      <4>1. proc' \in Processes
        BY <3>0
      <4>2. proc'.pc \notin {"down", "load", "returned"} =>
              proc'.settings \in [Variables -> Durations]
        BY <3>0
      <4> QED
        BY <3>0, <4>1, <4>2
    <3>2. HandlerInv' /\ WorkerInv' /\ CommandInv' /\ LinuxInv' /\ WindowsInv' /\ FreshInv'
      BY <3>0, <3>1, LengthNext
    <3> QED
      BY <3>1, <3>2
  <2>2. CASE creds = NoFile
    <3>0. PICK key \in Keys :
            /\ proc.pc = "identity"
            /\ proc' = [proc EXCEPT !.pc = "idle", !.key = key]
            /\ creds' = [key |-> key, agent |-> None]
            /\ UNCHANGED <<platform, cmd, tokenFile, serviceEnv, secret, manager,
                           control, used>>
      BY <1>17, <2>2, NewKeyType DEF LoadOrCreate
    <3>1. TypeOK'
      <4>1. proc' \in Processes
        BY <2>2, <3>0
      <4>2. proc'.pc \notin {"down", "load", "returned"} =>
              proc'.settings \in [Variables -> Durations]
        BY <2>2, <3>0
      <4> QED
        BY <2>2, <3>0, <4>1, <4>2
    <3>2. HandlerInv' /\ WorkerInv' /\ CommandInv' /\ LinuxInv' /\ WindowsInv' /\ FreshInv'
      BY <2>2, <3>0, <3>1, LengthNext
    <3> QED
      BY <3>1, <3>2
  <2> QED
    BY <2>1, <2>2
<1>18. CASE Connect
  <2>1. TypeOK'
    <3>1. proc' \in Processes
      BY <1>18 DEF Connect
    <3>2. proc'.pc \notin {"down", "load", "returned"} =>
            proc'.settings \in [Variables -> Durations]
      BY <1>18 DEF Connect
    <3> QED
      BY <1>18, <3>1, <3>2 DEF Connect
  <2>2. HandlerInv' /\ WorkerInv' /\ CommandInv' /\ LinuxInv' /\ WindowsInv' /\ FreshInv'
    BY <1>18, <2>1, LengthNext DEF Connect
  <2> QED
    BY <2>1, <2>2
<1>19. CASE Enroll
  <2>1. TypeOK'
    <3>1. proc' \in Processes
      BY <1>19 DEF Enroll
    <3>2. proc'.pc \notin {"down", "load", "returned"} =>
            proc'.settings \in [Variables -> Durations]
      BY <1>19 DEF Enroll
    <3> QED
      BY <1>19, <3>1, <3>2 DEF Enroll
  <2>2. HandlerInv' /\ WorkerInv' /\ CommandInv' /\ LinuxInv' /\ WindowsInv' /\ FreshInv'
    BY <1>19, <2>1, LengthNext DEF Enroll
  <2> QED
    BY <2>1, <2>2
<1>20. CASE SaveIdentity
  <2>1. TypeOK'
    <3>1. proc' \in Processes
      BY <1>20 DEF SaveIdentity
    <3>2. proc'.pc \notin {"down", "load", "returned"} =>
            proc'.settings \in [Variables -> Durations]
      BY <1>20 DEF SaveIdentity
    <3> QED
      BY <1>20, <3>1, <3>2 DEF SaveIdentity
  <2>2. HandlerInv' /\ WorkerInv' /\ CommandInv' /\ LinuxInv' /\ WindowsInv' /\ FreshInv'
    BY <1>20, <2>1, LengthNext DEF SaveIdentity
  <2> QED
    BY <2>1, <2>2
<1>21. CASE RemoveToken
  <2>1. TypeOK'
    <3>1. proc' \in Processes
      BY <1>21 DEF RemoveToken
    <3>2. proc'.pc \notin {"down", "load", "returned"} =>
            proc'.settings \in [Variables -> Durations]
      BY <1>21 DEF RemoveToken
    <3> QED
      BY <1>21, <3>1, <3>2 DEF RemoveToken
  <2>2. HandlerInv' /\ WorkerInv' /\ CommandInv' /\ LinuxInv' /\ WindowsInv' /\ FreshInv'
    BY <1>21, <2>1, LengthNext DEF RemoveToken
  <2> QED
    BY <2>1, <2>2
<1>22. CASE ObeyStop
  BY <1>22, ReturnInv DEF ObeyStop
<1>23. CASE ReportRunning
  <2>1. TypeOK'
    BY <1>23 DEF ReportRunning
  <2>2. HandlerInv' /\ WorkerInv' /\ CommandInv' /\ LinuxInv' /\ WindowsInv' /\ FreshInv'
    BY <1>23, <2>1, LengthNext DEF ReportRunning
  <2> QED
    BY <2>1, <2>2
<1>24. CASE TakeStop
  <2>1. TypeOK'
    <3>1. proc' \in Processes
      BY <1>24 DEF TakeStop
    <3>2. proc'.pc \notin {"down", "load", "returned"} =>
            proc'.settings \in [Variables -> Durations]
      BY <1>24 DEF TakeStop
    <3>3. stop' \in BOOLEAN /\ proc'.pc = proc.pc /\ proc'.settings = proc.settings
      BY <1>24 DEF TakeStop
    <3> QED
      BY <1>24, <3>1, <3>2, <3>3 DEF TakeStop
  <2>2. HandlerInv' /\ WorkerInv' /\ CommandInv' /\ LinuxInv' /\ WindowsInv' /\ FreshInv'
    BY <1>24, <2>1, LengthNext DEF TakeStop
  <2> QED
    BY <2>1, <2>2
<1>25. CASE ExecuteReturns
  BY <1>25, GoneInv DEF ExecuteReturns
<1>26. CASE SaveSecret
  <2>1. TypeOK'
    BY <1>26 DEF SaveSecret
  <2>2. HandlerInv' /\ WorkerInv' /\ CommandInv' /\ LinuxInv' /\ WindowsInv' /\ FreshInv'
    BY <1>26, <2>1, LengthNext DEF SaveSecret
  <2> QED
    BY <2>1, <2>2
<1>27. CASE StartupFails
  BY <1>27, ReturnInv DEF StartupFails
<1>28. CASE ConnectionFails
  <2>1. TypeOK'
    <3>1. proc' \in Processes
      BY <1>28 DEF ConnectionFails, Forget
    <3>2. proc'.pc \notin {"down", "load", "returned"} =>
            proc'.settings \in [Variables -> Durations]
      BY <1>28 DEF ConnectionFails, Forget
    <3> QED
      BY <1>28, <3>1, <3>2 DEF ConnectionFails, Forget
  <2>2. HandlerInv' /\ WorkerInv' /\ CommandInv' /\ LinuxInv' /\ WindowsInv' /\ FreshInv'
    BY <1>28, <2>1, LengthNext DEF ConnectionFails, Forget
  <2> QED
    BY <2>1, <2>2
<1>29. CASE SaveFails
  <2>1. TypeOK'
    <3>1. proc' \in Processes
      BY <1>29 DEF SaveFails, Forget
    <3>2. proc'.pc \notin {"down", "load", "returned"} =>
            proc'.settings \in [Variables -> Durations]
      BY <1>29 DEF SaveFails, Forget
    <3> QED
      BY <1>29, <3>1, <3>2 DEF SaveFails, Forget
  <2>2. HandlerInv' /\ WorkerInv' /\ CommandInv' /\ LinuxInv' /\ WindowsInv' /\ FreshInv'
    BY <1>29, <2>1, LengthNext DEF SaveFails, Forget
  <2> QED
    BY <2>1, <2>2
<1>30. CASE Crash
  BY <1>30, GoneInv DEF Crash, Ended
<1>31. CASE UNCHANGED vars
  BY <1>31 DEF vars, Running, Script, At
<1> QED
  BY <1>1, <1>2, <1>3, <1>4, <1>5, <1>6, <1>7, <1>8, <1>9, <1>10, <1>11,
    <1>12, <1>13, <1>14, <1>15, <1>16, <1>17, <1>18, <1>19, <1>20, <1>21, <1>22,
    <1>23, <1>24, <1>25, <1>26, <1>27, <1>28, <1>29, <1>30, <1>31, <1>32,
    <1>33
  DEF Next, Command, Agent, Worker, Execute, Faults

-----------------------------------------------------------------------------
(* The theorems.                                                           *)

\* IInv holds throughout, whatever the command and the agent do beside each other.
THEOREM Invariance == Spec => []IInv
<1>1. Init => IInv
  BY InitInv
<1>2. IInv /\ [Next]_vars => IInv'
  BY NextInv
<1> QED
  BY <1>1, <1>2, PTL DEF Spec

\* Type correctness: the settings that the worker runs with are durations.
THEOREM TypeCorrect == Spec => []TypeOK
<1>1. IInv => TypeOK
  BY DEF IInv
<1> QED
  BY <1>1, Invariance, PTL

\* An installation that has succeeded is at its end.
LEMMA InstallEnds ==
  ASSUME TypeOK, Succeeded("install")
  PROVE  cmd.op = "install" /\ (IF Windows THEN cmd.at = 11 ELSE cmd.at >= 7)
BY Length DEF Succeeded, TypeOK, Commands

\* After an installation there is an identity or a token to get one with, if no
\* agent that could spoil it was beside the command.
THEOREM WayIn == Spec => []InstallLeavesAWayIn
<1>1. IInv => InstallLeavesAWayIn
  <2> SUFFICES ASSUME IInv, Succeeded("install"), ~cmd.beside
               PROVE  Enrolled \/ tokenFile # None
    BY DEF InstallLeavesAWayIn
  <2>1. CASE Windows
    BY <2>1, InstallEnds DEF IInv, FreshInv, CommandInv
  <2>2. CASE ~Windows
    BY <2>2, InstallEnds DEF IInv, LinuxInv, TypeOK, Commands
  <2> QED
    BY <2>1, <2>2
<1> QED
  BY <1>1, Invariance, PTL

\* On Windows the identity is the one that the installation's token was for, if
\* no enrollment was under way beside the command.
THEOREM TokenPrevails == Spec => []NewTokenPrevails
<1>1. IInv => NewTokenPrevails
  BY InstallEnds DEF IInv, FreshInv, NewTokenPrevails, Enrolled
<1> QED
  BY <1>1, Invariance, PTL

\* What separates secrets from their key is the removal of the files or an agent
\* whose files were removed.
LEMMA ReadableStep ==
  ASSUME IInv, [Next]_vars, ~Windows, Readable, ~At("removeFiles"), ~Orphan
  PROVE  Readable'
<1> USE DEF Readable, IInv, TypeOK, LinuxInv, WorkerInv, NoFile, disk, manager, control
<1>1. CASE Command
  <2>1. ~RemoveCredentials
    BY Steps DEF RemoveCredentials
  <2>2. ~RemoveFile /\ ~RemoveDirectory /\ ~RemoveAllFails
    BY DEF RemoveFile, RemoveDirectory, RemoveAllFails
  <2> QED
    BY <1>1, <2>1, <2>2 DEF Command, BeginInstall, BeginUninstall, Begin, CommandFails,
      WriteToken, WriteEnv, Register, StartService, StopService, DeleteService,
      CopyExecutable, Disable, RemoveUnit
<1>2. CASE LoadOrCreate
  BY <1>2 DEF LoadOrCreate
<1>3. CASE SaveIdentity
  BY <1>3 DEF SaveIdentity
<1>4. CASE SaveSecret
  BY <1>4 DEF SaveSecret
<1>5. CASE Start \/ (Agent /\ ~LoadOrCreate /\ ~SaveIdentity) \/ Faults
  BY <1>5 DEF Agent, Worker, Execute, Faults, Start, LoadSettings, Connect, Enroll,
    RemoveToken, ObeyStop, ReportRunning, TakeStop, ExecuteReturns, StartupFails, ConnectionFails, SaveFails,
    Crash
<1>6. CASE UNCHANGED vars
  BY <1>6 DEF vars
<1> QED
  BY <1>1, <1>2, <1>3, <1>4, <1>5, <1>6 DEF Next

\* On Linux neither an installation nor the agent, unless its files were removed,
\* separates the plugins' secrets from their key.
THEOREM SecretsAreReadable == Spec => SecretsStayReadable
<1>1. IInv /\ [Next]_vars =>
        [~Windows /\ Readable => Readable' \/ At("removeFiles") \/ Orphan]_vars
  BY ReadableStep
<1> QED
  BY <1>1, Invariance, PTL DEF Spec, SecretsStayReadable

\* What was handed on is read again as it was loaded, the rest as its default.
LEMMA HandedOn ==
  ASSUME NEW env, env \in Env, NEW v \in Variables
  PROVE  Load(LoadDotEnv(NoLines, WriteServiceEnv(env)))[v]
           = IF v \in Saved THEN Load(env)[v] ELSE Default * Second
<1>1. LoadDotEnv(NoLines, WriteServiceEnv(env))[v]
        = IF v \in Saved /\ env[v] # Empty THEN env[v] ELSE Unset
  BY DEF LoadDotEnv, NoLines, WriteServiceEnv
<1>2. Load(LoadDotEnv(NoLines, WriteServiceEnv(env)))[v]
        = Seconds(LoadDotEnv(NoLines, WriteServiceEnv(env))[v])
  BY DEF Load
<1>3. Seconds(Unset) = Default * Second /\ Seconds(Empty) = Default * Second
  BY TextsAssumption DEF Seconds
<1>4. Load(env)[v] = Seconds(env[v])
  BY DEF Load
<1> QED
  BY <1>1, <1>2, <1>3, <1>4

\* The service runs with the settings that its installation has loaded.
THEOREM Configured == Spec => []RunsAsConfigured
<1>1. IInv => RunsAsConfigured
  <2> SUFFICES ASSUME IInv, Succeeded("install"),
                      proc.pc \notin {"down", "load", "returned"}, Windows \/ ~cmd.older,
                      NEW v \in Variables
               PROVE  proc.settings[v]
                        = IF v \in Saved THEN Load(cmd.env)[v] ELSE Default * Second
    BY DEF RunsAsConfigured
  <2>1. cmd.env \in Env
    BY DEF IInv, TypeOK, Commands
  <2>2. /\ serviceEnv = WriteServiceEnv(cmd.env)
        /\ proc.settings = Load(LoadDotEnv(NoLines, serviceEnv))
    <3>1. CASE Windows
      BY <3>1, InstallEnds DEF IInv, WindowsInv, LoadedFromFile
    <3>2. CASE ~Windows
      BY <3>2, InstallEnds DEF IInv, LinuxInv, LoadedFromFile, TypeOK, Commands
    <3> QED
      BY <3>1, <3>2
  <2> QED
    BY <2>1, <2>2, HandedOn
<1> QED
  BY <1>1, Invariance, PTL

\* An uninstallation leaves no service and, if no failure was ignored, nothing
\* that would be read and nothing that would write it.
THEOREM CleanUninstall == Spec => []UninstallIsClean
<1>1. IInv => UninstallIsClean
  <2> SUFFICES ASSUME IInv, Succeeded("uninstall")
               PROVE  unit # "present" /\ (~cmd.ignored => FilesGone /\ ~Up)
    BY DEF UninstallIsClean
  <2>1. cmd.op = "uninstall" /\ cmd.at >= 4
    BY Length DEF Succeeded, IInv, TypeOK, Commands
  <2> QED
    BY <2>1 DEF IInv, LinuxInv, WindowsInv, TypeOK, Commands
<1> QED
  BY <1>1, Invariance, PTL

\* A worker that is gone without having returned has crashed.
LEMMA GoneInTheMiddle ==
  ASSUME IInv, [Next]_vars, Windows, proc.pc \in {"saving", "saved"}, ~Up'
  PROVE  handler' = "crashed"
<1> USE DEF Up, IInv, TypeOK, Processes
<1>1. ~Return("nil") /\ ~Return("error")
  BY DEF Return, Down
<1>2. proc.pc # "down" /\ done = "none"
  BY DEF HandlerInv
<1>3. ~Command
  <2>1. ~Disable
    BY Steps DEF Disable
  <2> QED
    BY <1>2, <2>1 DEF Command, BeginInstall, BeginUninstall, Begin, CommandFails,
      RemoveCredentials, WriteToken, WriteEnv, Register, StartService, StopService,
      DeleteService, CopyExecutable, RemoveUnit, RemoveFile, RemoveDirectory,
      RemoveAllFails
<1>4. ~Agent /\ ~Start /\ ~SaveSecret
  BY <1>1, <1>2 DEF Agent, Worker, Execute, Start, SaveSecret, LoadSettings,
    LoadOrCreate, Connect, Enroll, SaveIdentity, RemoveToken, ObeyStop, ReportRunning, TakeStop, ExecuteReturns
<1>5. Crash
  BY <1>1, <1>2, <1>3, <1>4 DEF Next, Faults, StartupFails, ConnectionFails, SaveFails,
    Forget, vars
<1> QED
  BY <1>5 DEF Crash, ProcessGone, Ended

\* On Windows a stop never cuts an enrollment off.
THEOREM GracefulStop == Spec => StopIsGraceful
<1>1. IInv /\ [Next]_vars =>
        [Windows /\ proc.pc \in {"saving", "saved"} /\ ~Up' => handler' = "crashed"]_vars
  BY GoneInTheMiddle
<1> QED
  BY <1>1, Invariance, PTL DEF Spec, StopIsGraceful

=============================================================================
