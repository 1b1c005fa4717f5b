--------------------------- MODULE SecretManifest ---------------------------
(***************************************************************************)
(* The plugin manifest of the secret store (internal/plugins/store.go): a  *)
(* JSON list of installations in one file, which SaveInstallation and      *)
(* DeleteInstallation read, change in memory and write back.  Their loops  *)
(* are modelled step by step, on the array that ListInstallations made:    *)
(* DeleteInstallation filters it in place, so that the entries it keeps    *)
(* are written over the list that it is still reading.                     *)
(*                                                                         *)
(* The manager makes one call at a time.  The process may end at any       *)
(* point of one; only the file remains.                                    *)
(***************************************************************************)
EXTENDS Naturals, Sequences

CONSTANTS
  PluginIDs,  \* the plugin IDs the gateway uses
  Slugs,      \* the slugs and versions it installs
  None        \* no value

Installation == [pluginId : PluginIDs, slug : Slugs]
Deletion == [pluginId : PluginIDs, slug : {None}]

ASSUME NoneAssumption == None \notin Slugs \cup Installation \cup Deletion

VARIABLES
  file,           \* the list in the manifest; an absent file is an empty list
  pc,             \* where the call is
  arg,            \* its argument, None between calls
  installations,  \* the list it works on
  i,              \* the index of its loop
  filtered,       \* the length of DeleteInstallation's result so far
  result          \* what the last call returned, or "error" if it never did

vars == <<file, pc, arg, installations, i, filtered, result>>

TypeOK ==
  /\ file \in Seq(Installation)
  /\ pc \in {"idle", "list", "replace", "filter", "write"}
  /\ arg \in Installation \cup Deletion \cup {None}
  /\ installations \in Seq(Installation)
  /\ i \in Nat \ {0}
  /\ filtered \in Nat
  /\ result \in {"ok", "error", None}

Init ==
  /\ file = <<>>
  /\ pc = "idle"
  /\ arg = None
  /\ installations = <<>>
  /\ i = 1
  /\ filtered = 0
  /\ result = None

-----------------------------------------------------------------------------
\* SaveInstallation or DeleteInstallation is called.
Call(entry) ==
  /\ pc = "idle"
  /\ arg' = entry
  /\ pc' = "list"
  /\ UNCHANGED <<file, installations, i, filtered, result>>

\* ListInstallations reads the file; a missing one is an empty list.
ListInstallations ==
  /\ pc = "list"
  /\ installations' = file
  /\ i' = 1
  /\ filtered' = 0
  /\ pc' = IF arg \in Deletion THEN "filter" ELSE "replace"
  /\ UNCHANGED <<file, arg, result>>

\* The call returns, and its list is garbage.
Return(r) ==
  /\ pc' = "idle"
  /\ arg' = None
  /\ installations' = <<>>
  /\ i' = 1
  /\ filtered' = 0
  /\ result' = r

\* The list cannot be read or written back, or the process ends.
Fails ==
  /\ pc # "idle"
  /\ Return("error")
  /\ UNCHANGED file

Matches == installations[i].pluginId = arg.pluginId

-----------------------------------------------------------------------------
(* SaveInstallation.                                                       *)

Skip ==
  /\ pc = "replace"
  /\ i <= Len(installations)
  /\ ~ Matches
  /\ i' = i + 1
  /\ UNCHANGED <<file, pc, arg, installations, filtered, result>>

Replace ==
  /\ pc = "replace"
  /\ i <= Len(installations)
  /\ Matches
  /\ installations' = [installations EXCEPT ![i] = arg]
  /\ pc' = "write"
  /\ UNCHANGED <<file, arg, i, filtered, result>>

\* Mutant: the entry is appended without a look at those that are there.
AppendAlways ==
  /\ pc = "replace"
  /\ installations' = Append(installations, arg)
  /\ pc' = "write"
  /\ UNCHANGED <<file, arg, i, filtered, result>>

AppendNew ==
  /\ pc = "replace"
  /\ i > Len(installations)
  /\ installations' = Append(installations, arg)
  /\ pc' = "write"
  /\ UNCHANGED <<file, arg, i, filtered, result>>

-----------------------------------------------------------------------------
(* DeleteInstallation.  filtered is installations[:0] at first: what is    *)
(* appended to it lands in the same array.                                 *)

Keep ==
  /\ pc = "filter"
  /\ i <= Len(installations)
  /\ ~ Matches
  /\ installations' = [installations EXCEPT ![filtered + 1] = installations[i]]
  /\ filtered' = filtered + 1
  /\ i' = i + 1
  /\ UNCHANGED <<file, pc, arg, result>>

Drop ==
  /\ pc = "filter"
  /\ i <= Len(installations)
  /\ Matches
  /\ i' = i + 1
  /\ UNCHANGED <<file, pc, arg, installations, filtered, result>>

\* Nothing was dropped: the file is not written.
NothingToDelete ==
  /\ pc = "filter"
  /\ i > Len(installations)
  /\ filtered = Len(installations)
  /\ Return("ok")
  /\ UNCHANGED file

\* Mutant: the array is written with its old length.
FilterUntruncated ==
  /\ pc = "filter"
  /\ i > Len(installations)
  /\ filtered # Len(installations)
  /\ pc' = "write"
  /\ UNCHANGED <<file, arg, installations, i, filtered, result>>

Filtered ==
  /\ pc = "filter"
  /\ i > Len(installations)
  /\ filtered # Len(installations)
  /\ installations' = SubSeq(installations, 1, filtered)
  /\ pc' = "write"
  /\ UNCHANGED <<file, arg, i, filtered, result>>

\* writeManifest: one rename replaces the file.
WriteManifest ==
  /\ pc = "write"
  /\ file' = installations
  /\ Return("ok")

-----------------------------------------------------------------------------
SaveInstallation == Skip \/ Replace \/ AppendNew
DeleteInstallation == Keep \/ Drop \/ NothingToDelete \/ Filtered

Next ==
  \/ \E entry \in Installation \cup Deletion : Call(entry)
  \/ ListInstallations \/ SaveInstallation \/ DeleteInstallation
  \/ WriteManifest \/ Fails

Spec == Init /\ [][Next]_vars

-----------------------------------------------------------------------------
(* Properties.                                                             *)

\* A list names no plugin twice.
OnePerPlugin(list) ==
  \A p, q \in 1..Len(list) : list[p].pluginId = list[q].pluginId => p = q

\* The plugins of the first n entries of a list.
Named(list, n) == {list[p].pluginId : p \in 1..n}

\* A list without two entries of a plugin, read as a table.
TableOf(list) ==
  [id \in PluginIDs |->
    IF id \in Named(list, Len(list))
    THEN list[CHOOSE p \in 1..Len(list) : list[p].pluginId = id].slug
    ELSE None]

\* SaveInstallation has not found the plugin yet.
ReplaceInv ==
  pc = "replace" =>
    /\ arg \in Installation
    /\ installations = file
    /\ arg.pluginId \notin Named(file, i - 1)
    /\ i <= Len(file) + 1

\* DeleteInstallation has moved the entries it keeps to the front, each once, and
\* has not overwritten one that it has yet to read.
FilterInv ==
  pc = "filter" =>
    /\ arg \in Deletion
    /\ Len(installations) = Len(file)
    /\ filtered < i /\ i <= Len(file) + 1
    /\ \A p \in i..Len(file) : installations[p] = file[p]
    /\ \A p \in 1..filtered :
         \E q \in 1..(i - 1) : file[q].pluginId # arg.pluginId /\ installations[p] = file[q]
    /\ \A q \in 1..(i - 1) :
         file[q].pluginId # arg.pluginId =>
           \E p \in 1..filtered : installations[p] = file[q]
    /\ \A p, q \in 1..filtered :
         installations[p].pluginId = installations[q].pluginId => p = q
    /\ filtered = i - 1 => arg.pluginId \notin Named(file, i - 1)

\* What is about to be written is the old table with the one change.
WriteInv ==
  pc = "write" =>
    /\ OnePerPlugin(installations)
    /\ TableOf(installations) = [TableOf(file) EXCEPT ![arg.pluginId] = arg.slug]

\* The inductive invariant: the file names no plugin twice, and each loop has done
\* its work on the part of the list that it has passed.
IInv ==
  /\ TypeOK
  /\ arg = None <=> pc = "idle"
  /\ OnePerPlugin(file)
  /\ ReplaceInv
  /\ FilterInv
  /\ WriteInv

\* The manifest is a table: SaveInstallation, DeleteInstallation and
\* ListInstallations implement InstallationTable, though they work on a list in
\* place and may be cut off or fail at any point.
Table == INSTANCE InstallationTable WITH table <- TableOf(file), pending <- arg

TableSpec == Table!Spec

=============================================================================
