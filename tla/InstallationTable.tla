------------------------- MODULE InstallationTable -------------------------
(***************************************************************************)
(* What the plugin manager is promised of the manifest: a table with at    *)
(* most one installation for a plugin, in which a call that succeeds has   *)
(* changed the one entry that it is about, and one that fails nothing.     *)
(***************************************************************************)
CONSTANTS PluginIDs, Slugs, None

VARIABLES
  table,    \* the installation of each plugin
  pending,  \* the entry that the call under way is to establish
  result    \* what the last call returned; "error" if the process ended in it

vars == <<table, pending, result>>

Entry == [pluginId : PluginIDs, slug : Slugs \cup {None}]

Init ==
  /\ table = [id \in PluginIDs |-> None]
  /\ pending = None
  /\ result = None

\* An entry without a slug asks for the removal of the plugin's installation.
Call(entry) ==
  /\ pending = None
  /\ pending' = entry
  /\ UNCHANGED <<table, result>>

Succeed ==
  /\ pending # None
  /\ table' = [table EXCEPT ![pending.pluginId] = pending.slug]
  /\ pending' = None
  /\ result' = "ok"

Fail ==
  /\ pending # None
  /\ pending' = None
  /\ result' = "error"
  /\ UNCHANGED table

Next == (\E entry \in Entry : Call(entry)) \/ Succeed \/ Fail

Spec == Init /\ [][Next]_vars
=============================================================================
