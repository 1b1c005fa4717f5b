------------------------ MODULE PluginManager_proofs ------------------------
(***************************************************************************)
(* Proofs about PluginManager, for any set of plugins, slugs and           *)
(* configurations: the inductive invariant IInv, the safety properties it  *)
(* contains, and the implementation of PluginRegistry.                     *)
(*                                                                         *)
(* IInv is needed because none of the properties is inductive alone: what  *)
(* SwapIn publishes is right only because of what the two writes before it *)
(* left in the files (CommandInv), and Restore's entries stay in the       *)
(* manifest only because nothing else runs meanwhile (RestoreInv).         *)
(***************************************************************************)
EXTENDS PluginManager, TLAPS

USE DEF disk, collector, history

\* No value that a variable may hold is None.
LEMMA NoneIsApart ==
  /\ None \notin Slugs /\ None \notin Configs /\ None \notin Status
  /\ None \notin Instance /\ None \notin Command /\ None \notin Collected
  /\ Unsettled # None /\ Unsettled \notin Configs
BY NoneAssumption

-----------------------------------------------------------------------------
(* The inductive invariant.                                                *)

\* A process that has never run, with an empty disk, satisfies the invariant.
LEMMA InitInv == Init => IInv
<1> SUFFICES ASSUME Init PROVE IInv
  OBVIOUS
<1>1. TypeOK
  BY DEF Init, TypeOK
<1>2. CommandInv /\ RestoreInv
  BY DEF Init, CommandInv, RestoreInv
<1>3. RunningIsPersisted /\ RunningMatchesManifest
  BY DEF Init, RunningIsPersisted, RunningMatchesManifest
<1>4. AckedSurvives /\ RestoreIsComplete
  BY NoneIsApart DEF Init, AckedSurvives, RestoreIsComplete
<1> QED
  BY <1>1, <1>2, <1>3, <1>4 DEF IInv

\* Every step of the agent, of the gateway and of the environment keeps it.
LEMMA NextInv == IInv /\ [Next]_vars => IInv'
<1> SUFFICES ASSUME IInv, [Next]_vars PROVE IInv'
  OBVIOUS
<1> USE SlugAssumption, HealthAssumption, NoneIsApart
<1> USE DEF IInv, Instance, Command, Collected, Status, Restoring
<1>1. CASE StartPlugin
  BY <1>1
     DEF StartPlugin, Starts, TypeOK, CommandInv, RestoreInv, RunningIsPersisted,
        RunningMatchesManifest, AckedSurvives, RestoreIsComplete
<1>2. CASE StartFails
  BY <1>2
     DEF StartFails, Fail, Report, Finish, Starts, TypeOK, CommandInv, RestoreInv, RunningIsPersisted,
        RunningMatchesManifest, AckedSurvives, RestoreIsComplete
<1>3. CASE SaveSecret
  <2>1. TypeOK'
    BY <1>3 DEF SaveSecret, TypeOK, CommandInv
  <2>2. CommandInv'
    BY <1>3 DEF SaveSecret, TypeOK, CommandInv, RestoreInv, RunningIsPersisted
  <2>3. RestoreInv'
    BY <1>3 DEF SaveSecret, TypeOK, CommandInv, RestoreInv
  <2>4. RunningIsPersisted' /\ RunningMatchesManifest'
    BY <1>3 DEF SaveSecret, TypeOK, CommandInv, RestoreInv,
       RunningIsPersisted, RunningMatchesManifest
  <2>5. AckedSurvives'
    BY <1>3 DEF SaveSecret, TypeOK, CommandInv, RestoreInv, AckedSurvives
  <2>6. RestoreIsComplete'
    BY <1>3 DEF SaveSecret, TypeOK, CommandInv, RestoreInv, AckedSurvives,
       RestoreIsComplete
  <2> QED
    BY <2>1, <2>2, <2>3, <2>4, <2>5, <2>6
<1>4. CASE SaveInstallation
  <2>1. TypeOK'
    BY <1>4 DEF SaveInstallation, TypeOK, CommandInv
  <2>2. CommandInv'
    BY <1>4 DEF SaveInstallation, TypeOK, CommandInv, RestoreInv, RunningIsPersisted
  <2>3. RestoreInv'
    BY <1>4 DEF SaveInstallation, TypeOK, CommandInv, RestoreInv
  <2>4. RunningIsPersisted' /\ RunningMatchesManifest'
    BY <1>4 DEF SaveInstallation, TypeOK, CommandInv, RestoreInv,
       RunningIsPersisted, RunningMatchesManifest
  <2>5. AckedSurvives'
    BY <1>4 DEF SaveInstallation, TypeOK, CommandInv, RestoreInv, AckedSurvives
  <2>6. RestoreIsComplete'
    BY <1>4 DEF SaveInstallation, TypeOK, CommandInv, RestoreInv, AckedSurvives,
       RestoreIsComplete
  <2> QED
    BY <2>1, <2>2, <2>3, <2>4, <2>5, <2>6
<1>5. CASE SaveFails
  BY <1>5
     DEF SaveFails, Fail, Report, Finish, TypeOK, CommandInv, RestoreInv, RunningIsPersisted,
        RunningMatchesManifest, AckedSurvives, RestoreIsComplete
<1>6. CASE SwapIn
  <2>1. TypeOK'
    BY <1>6 DEF SwapIn, TypeOK, CommandInv
  <2>2. CommandInv'
    BY <1>6 DEF SwapIn, TypeOK, CommandInv, RestoreInv, RunningIsPersisted
  <2>3. RestoreInv'
    BY <1>6 DEF SwapIn, TypeOK, CommandInv, RestoreInv
  <2>4. RunningIsPersisted' /\ RunningMatchesManifest'
    BY <1>6 DEF SwapIn, TypeOK, CommandInv, RestoreInv,
       RunningIsPersisted, RunningMatchesManifest
  <2>5. AckedSurvives'
    BY <1>6 DEF SwapIn, TypeOK, CommandInv, RestoreInv, AckedSurvives
  <2>6. RestoreIsComplete'
    BY <1>6 DEF SwapIn, TypeOK, CommandInv, RestoreInv, AckedSurvives,
       RestoreIsComplete
  <2> QED
    BY <2>1, <2>2, <2>3, <2>4, <2>5, <2>6
<1>7. CASE ReportRunning
  BY <1>7
     DEF ReportRunning, Report, Finish, TypeOK, CommandInv, RestoreInv, RunningIsPersisted,
        RunningMatchesManifest, AckedSurvives, RestoreIsComplete
<1>8. CASE DeleteSecret
  <2>1. TypeOK'
    BY <1>8 DEF DeleteSecret, TypeOK, CommandInv
  <2>2. CommandInv'
    BY <1>8 DEF DeleteSecret, TypeOK, CommandInv, RestoreInv, RunningIsPersisted
  <2>3. RestoreInv'
    BY <1>8 DEF DeleteSecret, TypeOK, CommandInv, RestoreInv
  <2>4. RunningIsPersisted' /\ RunningMatchesManifest'
    BY <1>8 DEF DeleteSecret, TypeOK, CommandInv, RestoreInv,
       RunningIsPersisted, RunningMatchesManifest
  <2>5. AckedSurvives'
    BY <1>8 DEF DeleteSecret, TypeOK, CommandInv, RestoreInv, AckedSurvives
  <2>6. RestoreIsComplete'
    BY <1>8 DEF DeleteSecret, TypeOK, CommandInv, RestoreInv, AckedSurvives,
       RestoreIsComplete
  <2> QED
    BY <2>1, <2>2, <2>3, <2>4, <2>5, <2>6
<1>9. CASE DeleteInstallation
  <2>1. TypeOK'
    BY <1>9 DEF DeleteInstallation, Finish, TypeOK, CommandInv
  <2>2. CommandInv'
    BY <1>9 DEF DeleteInstallation, Finish, TypeOK, CommandInv, RestoreInv, RunningIsPersisted
  <2>3. RestoreInv'
    BY <1>9 DEF DeleteInstallation, Finish, TypeOK, CommandInv, RestoreInv
  <2>4. RunningIsPersisted' /\ RunningMatchesManifest'
    BY <1>9 DEF DeleteInstallation, Finish, TypeOK, CommandInv, RestoreInv,
       RunningIsPersisted, RunningMatchesManifest
  <2>5. AckedSurvives'
    BY <1>9 DEF DeleteInstallation, Finish, TypeOK, CommandInv, RestoreInv, AckedSurvives
  <2>6. RestoreIsComplete'
    BY <1>9 DEF DeleteInstallation, Finish, TypeOK, CommandInv, RestoreInv, AckedSurvives,
       RestoreIsComplete
  <2> QED
    BY <2>1, <2>2, <2>3, <2>4, <2>5, <2>6
<1>10. CASE DeleteFails
  BY <1>10
     DEF DeleteFails, Finish, TypeOK, CommandInv, RestoreInv, RunningIsPersisted,
        RunningMatchesManifest, AckedSurvives, RestoreIsComplete
<1>11. CASE ListInstallations
  <2>1. TypeOK'
    BY <1>11 DEF ListInstallations, TypeOK, CommandInv
  <2>2. CommandInv'
    BY <1>11 DEF ListInstallations, TypeOK, CommandInv, RestoreInv, RunningIsPersisted
  <2>3. RestoreInv'
    BY <1>11 DEF ListInstallations, TypeOK, CommandInv, RestoreInv
  <2>4. RunningIsPersisted' /\ RunningMatchesManifest'
    BY <1>11 DEF ListInstallations, TypeOK, CommandInv, RestoreInv,
       RunningIsPersisted, RunningMatchesManifest
  <2>5. AckedSurvives'
    BY <1>11 DEF ListInstallations, TypeOK, CommandInv, RestoreInv, AckedSurvives
  <2>6. RestoreIsComplete'
    BY <1>11 DEF ListInstallations, TypeOK, CommandInv, RestoreInv, AckedSurvives,
       RestoreIsComplete
  <2> QED
    BY <2>1, <2>2, <2>3, <2>4, <2>5, <2>6
<1>12. CASE ListFails
  BY <1>12
     DEF ListFails, TypeOK, CommandInv, RestoreInv, RunningIsPersisted,
        RunningMatchesManifest, AckedSurvives, RestoreIsComplete
<1>13. CASE RestoreDone
  BY <1>13
     DEF RestoreDone, TypeOK, CommandInv, RestoreInv, RunningIsPersisted,
        RunningMatchesManifest, AckedSurvives, RestoreIsComplete
<1>14. ASSUME NEW id \in PluginIDs, LoadSecret(id) PROVE IInv'
  <2>1. TypeOK'
    BY <1>14 DEF LoadSecret, Report, TypeOK, CommandInv
  <2>2. CommandInv'
    BY <1>14 DEF LoadSecret, Report, TypeOK, CommandInv, RestoreInv, RunningIsPersisted
  <2>3. RestoreInv'
    BY <1>14 DEF LoadSecret, Report, TypeOK, CommandInv, RestoreInv
  <2>4. RunningIsPersisted' /\ RunningMatchesManifest'
    BY <1>14 DEF LoadSecret, Report, TypeOK, CommandInv, RestoreInv,
       RunningIsPersisted, RunningMatchesManifest
  <2>5. AckedSurvives'
    BY <1>14 DEF LoadSecret, Report, TypeOK, CommandInv, RestoreInv, AckedSurvives
  <2>6. RestoreIsComplete'
    BY <1>14 DEF LoadSecret, Report, TypeOK, CommandInv, RestoreInv, AckedSurvives,
       RestoreIsComplete
  <2> QED
    BY <2>1, <2>2, <2>3, <2>4, <2>5, <2>6
<1>15. ASSUME NEW id \in PluginIDs, LoadFails(id) PROVE IInv'
  BY <1>15
     DEF LoadFails, Report, TypeOK, CommandInv, RestoreInv, RunningIsPersisted,
        RunningMatchesManifest, AckedSurvives, RestoreIsComplete
<1>16. CASE StartRound
  BY <1>16
     DEF StartRound, TypeOK, CommandInv, RestoreInv, RunningIsPersisted,
        RunningMatchesManifest, AckedSurvives, RestoreIsComplete
<1>17. ASSUME NEW id \in PluginIDs, Collect(id) PROVE IInv'
  BY <1>17
     DEF Collect, Outcome, TypeOK, CommandInv, RestoreInv, RunningIsPersisted,
        RunningMatchesManifest, AckedSurvives, RestoreIsComplete
<1>18. CASE ReportCollected
  BY <1>18
     DEF ReportCollected, Report, TypeOK, CommandInv, RestoreInv, RunningIsPersisted,
        RunningMatchesManifest, AckedSurvives, RestoreIsComplete
<1>19. ASSUME NEW id \in PluginIDs, NEW config \in Configs,
             ReceiveInstall(id, config)
      PROVE  IInv'
  BY <1>19
     DEF ReceiveInstall, Report, TypeOK, CommandInv, RestoreInv, RunningIsPersisted,
        RunningMatchesManifest, AckedSurvives, RestoreIsComplete
<1>20. ASSUME NEW id \in PluginIDs, ReceiveRemove(id) PROVE IInv'
  <2>1. TypeOK'
    BY <1>20 DEF ReceiveRemove, TypeOK, CommandInv
  <2>2. CommandInv'
    BY <1>20 DEF ReceiveRemove, TypeOK, CommandInv, RestoreInv, RunningIsPersisted
  <2>3. RestoreInv'
    BY <1>20 DEF ReceiveRemove, TypeOK, CommandInv, RestoreInv
  <2>4. RunningIsPersisted' /\ RunningMatchesManifest'
    BY <1>20 DEF ReceiveRemove, TypeOK, CommandInv, RestoreInv,
       RunningIsPersisted, RunningMatchesManifest
  <2>5. AckedSurvives'
    BY <1>20 DEF ReceiveRemove, TypeOK, CommandInv, RestoreInv, AckedSurvives
  <2>6. RestoreIsComplete'
    BY <1>20 DEF ReceiveRemove, TypeOK, CommandInv, RestoreInv, AckedSurvives,
       RestoreIsComplete
  <2> QED
    BY <2>1, <2>2, <2>3, <2>4, <2>5, <2>6
<1>21. CASE LinkDown
  <2>1. TypeOK' /\ CommandInv' /\ RestoreInv'
    BY <1>21 DEF LinkDown, TypeOK, CommandInv, RestoreInv
  <2>2. RunningIsPersisted' /\ RunningMatchesManifest'
    BY <1>21 DEF LinkDown, RunningIsPersisted, RunningMatchesManifest
  <2>3. AckedSurvives' /\ RestoreIsComplete'
    BY <1>21 DEF LinkDown, AckedSurvives, RestoreIsComplete
  <2> QED
    BY <2>1, <2>2, <2>3
<1>22. CASE Disconnect
  <2>1. TypeOK' /\ CommandInv' /\ RestoreInv'
    BY <1>22 DEF Disconnect, TypeOK, CommandInv, RestoreInv
  <2>2. RunningIsPersisted' /\ RunningMatchesManifest'
    BY <1>22 DEF Disconnect, RunningIsPersisted, RunningMatchesManifest
  <2>3. AckedSurvives' /\ RestoreIsComplete'
    BY <1>22 DEF Disconnect, AckedSurvives, RestoreIsComplete
  <2> QED
    BY <2>1, <2>2, <2>3
<1>23. CASE Restart
  <2>1. TypeOK'
    BY <1>23 DEF Restart, TypeOK, CommandInv
  <2>2. CommandInv'
    BY <1>23 DEF Restart, TypeOK, CommandInv, RestoreInv, RunningIsPersisted
  <2>3. RestoreInv'
    BY <1>23 DEF Restart, TypeOK, CommandInv, RestoreInv
  <2>4. RunningIsPersisted' /\ RunningMatchesManifest'
    BY <1>23 DEF Restart, TypeOK, CommandInv, RestoreInv,
       RunningIsPersisted, RunningMatchesManifest
  <2>5. AckedSurvives'
    BY <1>23 DEF Restart, TypeOK, CommandInv, RestoreInv, AckedSurvives
  <2>6. RestoreIsComplete'
    BY <1>23 DEF Restart, TypeOK, CommandInv, RestoreInv, AckedSurvives,
       RestoreIsComplete
  <2> QED
    BY <2>1, <2>2, <2>3, <2>4, <2>5, <2>6
<1>24. CASE Connect
  BY <1>24
     DEF Connect, TypeOK, CommandInv, RestoreInv, RunningIsPersisted,
        RunningMatchesManifest, AckedSurvives, RestoreIsComplete
<1>25. ASSUME NEW id \in PluginIDs, EndpointChanges(id) PROVE IInv'
  BY <1>25
     DEF EndpointChanges, TypeOK, CommandInv, RestoreInv, RunningIsPersisted,
        RunningMatchesManifest, AckedSurvives, RestoreIsComplete
<1>26. CASE UNCHANGED vars
  BY <1>26 DEF vars, TypeOK, CommandInv, RestoreInv, RunningIsPersisted,
        RunningMatchesManifest, AckedSurvives, RestoreIsComplete
<1> QED
  BY <1>1, <1>2, <1>3, <1>4, <1>5, <1>6, <1>7, <1>8, <1>9, <1>10, <1>11,
     <1>12, <1>13, <1>14, <1>15, <1>16, <1>17, <1>18, <1>19, <1>20,
     <1>21, <1>22, <1>23, <1>24, <1>25, <1>26
     DEF Next, Install, Remove, Restore, Run, GatewayCommand, Environment

-----------------------------------------------------------------------------
(* What holds of every behaviour.                                          *)

\* IInv holds throughout, across crashes, failed writes and lost connections.
THEOREM Invariance == Spec => []IInv
<1>1. Init => IInv
  BY InitInv
<1>2. IInv /\ [Next]_vars => IInv'
  BY NextInv
<1> QED
  BY <1>1, <1>2, PTL DEF Spec

\* Every variable keeps to the values the code gives it.
THEOREM TypeCorrect == Spec => []TypeOK
<1>1. IInv => TypeOK
  BY DEF IInv
<1> QED
  BY <1>1, Invariance, PTL

\* Whatever runs has both of its files: Install writes before it publishes,
\* Remove unpublishes before it deletes.
THEOREM RunningIsAlwaysPersisted == Spec => []RunningIsPersisted
<1>1. IInv => RunningIsPersisted
  BY DEF IInv
<1> QED
  BY <1>1, Invariance, PTL

\* The manifest describes what runs, up to the swap of a new instance.
THEOREM ManifestIsCurrent == Spec => []RunningMatchesManifest
<1>1. IInv => RunningMatchesManifest
  BY DEF IInv
<1> QED
  BY <1>1, Invariance, PTL

\* A finished Install or Remove survives every crash, restart and failure.
THEOREM Durability == Spec => []AckedSurvives
<1>1. IInv => AckedSurvives
  BY DEF IInv
<1> QED
  BY <1>1, Invariance, PTL

\* Restore brings back every installed plugin that it does not report as failed.
THEOREM RestoreCompleteness == Spec => []RestoreIsComplete
<1>1. IInv => RestoreIsComplete
  BY DEF IInv
<1> QED
  BY <1>1, Invariance, PTL

-----------------------------------------------------------------------------
(* What the two files of a plugin say of each other.                       *)

\* Only an Install that has renamed the first file and not the second leaves a
\* configuration beside the entry of another plugin.
Paired ==
  \A id \in PluginIDs :
    secrets[id] # None /\ manifest[id] # None =>
      manifest[id] = SlugOf[secrets[id]] \/ (pc = "manifest" /\ cmd.id = id)

\* A step that writes neither file and does not leave the middle of an Install
\* keeps them paired.
LEMMA PairedStutter ==
  ASSUME UNCHANGED disk, pc = "manifest" => UNCHANGED <<pc, cmd>>, Paired
  PROVE  Paired'
BY DEF Paired

\* Outside Install's two writes, an Install that is not cut off and a Remove keep
\* the files paired.
LEMMA PairedNext ==
  IInv /\ Paired /\ [Next]_vars /\ [pc = "manifest" => ~Restart /\ ~SaveFails]_vars
    => Paired'
<1> SUFFICES ASSUME IInv, Paired, [Next]_vars,
                    [pc = "manifest" => ~Restart /\ ~SaveFails]_vars
             PROVE  Paired'
  OBVIOUS
<1> USE NoneIsApart DEF IInv
<1>1. CASE SaveSecret
  BY <1>1 DEF SaveSecret, Paired, TypeOK
<1>2. CASE SaveInstallation
  BY <1>2 DEF SaveInstallation, Paired, TypeOK, CommandInv
<1>3. CASE DeleteSecret
  BY <1>3 DEF DeleteSecret, Paired, TypeOK
<1>4. CASE DeleteInstallation
  BY <1>4 DEF DeleteInstallation, Paired, TypeOK
<1>5. CASE pc # "manifest" /\ (Restart \/ SaveFails)
  BY <1>5, PairedStutter DEF Restart, SaveFails
<1>6. CASE pc = "manifest" /\ (Restart \/ SaveFails)
  <2>1. UNCHANGED vars
    BY <1>6
  <2> QED
    BY <2>1, PairedStutter DEF vars
<1>7. CASE StartPlugin \/ StartFails \/ SwapIn \/ ReportRunning \/ DeleteFails
  BY <1>7, PairedStutter
     DEF StartPlugin, StartFails, SwapIn, ReportRunning, DeleteFails, Fail
<1>8. CASE Restore
  BY <1>8, PairedStutter
     DEF Restore, ListInstallations, ListFails, RestoreDone, LoadSecret, LoadFails
<1>9. CASE Run
  BY <1>9, PairedStutter DEF Run, StartRound, Collect, ReportCollected
<1>10. CASE GatewayCommand
  BY <1>10, PairedStutter DEF GatewayCommand, ReceiveInstall, ReceiveRemove
<1>11. CASE Connect \/ LinkDown \/ Disconnect \/ (\E id \in PluginIDs : EndpointChanges(id))
  BY <1>11, PairedStutter DEF Connect, LinkDown, Disconnect, EndpointChanges
<1>12. CASE UNCHANGED vars
  BY <1>12, PairedStutter DEF vars
<1> QED
  BY <1>1, <1>2, <1>3, <1>4, <1>5, <1>6, <1>7, <1>8, <1>9, <1>10, <1>11, <1>12
     DEF Next, Install, Remove, Environment

\* While the files are paired, what is swapped in is what was installed.
LEMMA RestoresNext ==
  IInv /\ Paired /\ RestoresWhatWasInstalled /\ [Next]_vars => RestoresWhatWasInstalled'
<1> SUFFICES ASSUME IInv, Paired, RestoresWhatWasInstalled, [Next]_vars
             PROVE  RestoresWhatWasInstalled'
  OBVIOUS
<1> USE NoneIsApart DEF IInv
<1>1. CASE SwapIn
  <2>1. cmd.id \in PluginIDs /\ cmd.slug \in Slugs /\ cmd.config \in Configs
    BY <1>1 DEF SwapIn, TypeOK, CommandInv, Command
  <2>2. secrets[cmd.id] = cmd.config /\ manifest[cmd.id] = cmd.slug
    BY <1>1 DEF SwapIn, CommandInv
  <2>3. cmd.slug = SlugOf[cmd.config]
    BY <1>1, <2>1, <2>2 DEF SwapIn, Paired
  <2> QED
    BY <1>1, <2>1, <2>3 DEF SwapIn, RestoresWhatWasInstalled, TypeOK
<1>2. CASE Restart
  BY <1>2 DEF Restart, RestoresWhatWasInstalled
<1>3. ASSUME NEW id \in PluginIDs, ReceiveRemove(id) PROVE RestoresWhatWasInstalled'
  BY <1>3 DEF ReceiveRemove, RestoresWhatWasInstalled, TypeOK
<1>4. CASE UNCHANGED plugins
  BY <1>4 DEF RestoresWhatWasInstalled
<1>5. Install => SwapIn \/ UNCHANGED plugins
  BY DEF Install, StartPlugin, StartFails, SaveSecret, SaveInstallation, SaveFails,
         ReportRunning, Fail
<1>6. Remove \/ Restore \/ Run => UNCHANGED plugins
  BY DEF Remove, DeleteSecret, DeleteInstallation, DeleteFails, Restore,
         ListInstallations, ListFails, RestoreDone, LoadSecret, LoadFails,
         Run, StartRound, Collect, ReportCollected
<1>7. Environment => Restart \/ UNCHANGED plugins
  BY DEF Environment, LinkDown, Disconnect, Connect, EndpointChanges
<1>8. GatewayCommand => (\E id \in PluginIDs : ReceiveRemove(id)) \/ UNCHANGED plugins
  BY DEF GatewayCommand, ReceiveInstall
<1>9. UNCHANGED vars => UNCHANGED plugins
  BY DEF vars
<1> QED
  BY <1>1, <1>2, <1>3, <1>4, <1>5, <1>6, <1>7, <1>8, <1>9 DEF Next

\* Were no Install cut off between its two writes, Restore would always start what
\* was installed: crashes anywhere else, failed deletions and half-done removals
\* do no harm.  (The run torn_install shows what a cut off one does.)
THEOREM RestoresUnlessTorn == Spec /\ InstallsComplete => []RestoresWhatWasInstalled
<1>1. Init => Paired /\ RestoresWhatWasInstalled
  BY DEF Init, Paired, RestoresWhatWasInstalled
<1>2. IInv /\ Paired /\ [Next]_vars /\ [pc = "manifest" => ~Restart /\ ~SaveFails]_vars
        => Paired'
  BY PairedNext
<1>3. IInv /\ Paired /\ RestoresWhatWasInstalled /\ [Next]_vars => RestoresWhatWasInstalled'
  BY RestoresNext
<1> QED
  BY <1>1, <1>2, <1>3, Invariance, PTL DEF Spec, InstallsComplete

-----------------------------------------------------------------------------
(* The implementation of PluginRegistry.                                   *)

\* The registry's view of the two tables.
Running == [id \in PluginIDs |-> IF plugins[id] = None THEN None ELSE plugins[id].slug]

\* A first process implements an empty registry.
LEMMA RegistryInit == Init => Registry!Init
BY DEF Init, Registry!Init

\* A step that changes neither the manifest nor what runs is no step of the
\* registry.
LEMMA RegistryStutter ==
  manifest' = manifest /\ plugins' = plugins => UNCHANGED Registry!vars
BY DEF Registry!vars

\* Only five actions are steps of the registry: the write of a new entry, the
\* swap of a new instance, the removal from the map, the removal from the
\* manifest, and the end of the process.
LEMMA RegistryNext == IInv /\ [Next]_vars => [Registry!Next]_(Registry!vars)
<1> SUFFICES ASSUME IInv, [Next]_vars PROVE [Registry!Next]_(Registry!vars)
  OBVIOUS
<1> USE NoneIsApart DEF IInv
<1>1. CASE SaveInstallation
  <2>1. cmd.id \in PluginIDs /\ cmd.slug \in Slugs
    BY <1>1 DEF SaveInstallation, TypeOK, CommandInv, Command
  <2>2. Registry!Register(cmd.id, cmd.slug)
    BY <1>1 DEF SaveInstallation, Registry!Register
  <2> QED
    BY <2>1, <2>2 DEF Registry!Next
<1>2. ASSUME NEW id \in PluginIDs, SwapIn, cmd.id = id PROVE Registry!Next
  <2>1. manifest[id] = cmd.slug /\ cmd.slug # None
    BY <1>2 DEF SwapIn, TypeOK, CommandInv, Command
  <2>2. plugins' = [plugins EXCEPT ![id] = [slug |-> cmd.slug, config |-> cmd.config]]
    BY <1>2 DEF SwapIn
  <2>3. plugins'[id] # None
    BY <1>2, <2>1, <2>2 DEF TypeOK, CommandInv, SwapIn, Instance
  <2>4. Running' = [Running EXCEPT ![id] = manifest[id]]
    BY <2>1, <2>2, <2>3 DEF Running, TypeOK
  <2>5. Registry!Start(id)
    BY <1>2, <2>1, <2>4 DEF SwapIn, Running, Registry!Start
  <2> QED
    BY <2>5 DEF Registry!Next
<1>3. ASSUME NEW id \in PluginIDs, ReceiveRemove(id) PROVE Registry!Next
  <2>1. Running' = [Running EXCEPT ![id] = None]
    BY <1>3 DEF ReceiveRemove, Running, TypeOK
  <2>2. Registry!Stop(id)
    BY <1>3, <2>1 DEF ReceiveRemove, Running, Registry!Stop
  <2> QED
    BY <2>2 DEF Registry!Next
<1>4. CASE DeleteInstallation
  <2>1. cmd.id \in PluginIDs /\ plugins[cmd.id] = None
    BY <1>4 DEF DeleteInstallation, TypeOK, CommandInv, Command
  <2>2. Registry!Unregister(cmd.id)
    BY <1>4, <2>1 DEF DeleteInstallation, Registry!Unregister
  <2> QED
    BY <2>1, <2>2 DEF Registry!Next
<1>5. CASE Restart
  <2>1. Registry!Crash
    BY <1>5 DEF Restart, Registry!Crash
  <2> QED
    BY <2>1 DEF Registry!Next
<1>6. CASE StartPlugin \/ StartFails \/ SaveSecret \/ SaveFails \/ ReportRunning
          \/ DeleteSecret \/ DeleteFails
  BY <1>6, RegistryStutter
     DEF StartPlugin, StartFails, SaveSecret, SaveFails, ReportRunning, DeleteSecret,
         DeleteFails, Fail
<1>7. CASE Restore
  BY <1>7, RegistryStutter
     DEF Restore, ListInstallations, ListFails, RestoreDone, LoadSecret, LoadFails
<1>8. CASE Run
  BY <1>8, RegistryStutter DEF Run, StartRound, Collect, ReportCollected
<1>9. CASE Connect \/ LinkDown \/ Disconnect
  BY <1>9, RegistryStutter DEF Connect, LinkDown, Disconnect
<1>10. ASSUME NEW id \in PluginIDs, EndpointChanges(id) PROVE UNCHANGED Registry!vars
  BY <1>10, RegistryStutter DEF EndpointChanges
<1>11. ASSUME NEW id \in PluginIDs, NEW config \in Configs,
              ReceiveInstall(id, config)
       PROVE  UNCHANGED Registry!vars
  BY <1>11, RegistryStutter DEF ReceiveInstall
<1>12. CASE UNCHANGED vars
  BY <1>12, RegistryStutter DEF vars
<1>13. SwapIn => cmd.id \in PluginIDs
  BY DEF SwapIn, TypeOK, CommandInv, Command
<1> QED
  BY <1>1, <1>2, <1>3, <1>4, <1>5, <1>6, <1>7, <1>8, <1>9, <1>10, <1>11, <1>12, <1>13
     DEF Next, Install, Remove, GatewayCommand, Environment

\* The plugin subsystem implements the registry: seen through its manifest and
\* its map, it only starts what is registered, as it is registered, and
\* unregisters only what does not run.
THEOREM ImplementsRegistry == Spec => RegistrySpec
<1>1. Init => Registry!Init
  BY RegistryInit
<1>2. IInv /\ [Next]_vars => [Registry!Next]_(Registry!vars)
  BY RegistryNext
<1> QED
  BY <1>1, <1>2, Invariance, PTL DEF Spec, RegistrySpec, Registry!Spec

=============================================================================
