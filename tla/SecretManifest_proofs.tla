----------------------- MODULE SecretManifest_proofs -----------------------
(***************************************************************************)
(* Proofs about SecretManifest, for any plugins and slugs and a manifest   *)
(* of any length: its loops keep IInv, and with it the list in the file    *)
(* implements InstallationTable.                                           *)
(***************************************************************************)
EXTENDS SecretManifest, SequenceTheorems, TLAPS

LEMMA NoneIsApart ==
  /\ None \notin Slugs /\ None \notin Installation /\ None \notin Deletion
  /\ Installation \cap Deletion = {}
BY NoneAssumption DEF Installation, Deletion

-----------------------------------------------------------------------------
(* Lists and the tables they stand for.                                    *)

LEMMA EntryType ==
  ASSUME NEW list \in Seq(Installation), NEW p \in 1..Len(list)
  PROVE  list[p].pluginId \in PluginIDs /\ list[p].slug \in Slugs
<1>1. list[p] \in Installation
  OBVIOUS
<1> QED
  BY <1>1 DEF Installation

\* The table has the slug of every entry of the list.
LEMMA TableAt ==
  ASSUME NEW list \in Seq(Installation), OnePerPlugin(list), NEW p \in 1..Len(list)
  PROVE  TableOf(list)[list[p].pluginId] = list[p].slug
<1> DEFINE id == list[p].pluginId
           q == CHOOSE r \in 1..Len(list) : list[r].pluginId = id
<1>1. id \in PluginIDs /\ id \in Named(list, Len(list))
  BY EntryType DEF Named
<1>2. q \in 1..Len(list) /\ list[q].pluginId = id
  OBVIOUS
<1>3. q = p
  BY <1>2 DEF OnePerPlugin
<1>4. TableOf(list)[id] = list[q].slug
  BY <1>1 DEF TableOf
<1> QED
  BY <1>3, <1>4

\* A table that agrees with every entry, and has none for the other plugins, is
\* the table of the list.
LEMMA TableIs ==
  ASSUME NEW list \in Seq(Installation), OnePerPlugin(list),
         NEW S, NEW table \in [PluginIDs -> S],
         \A p \in 1..Len(list) : table[list[p].pluginId] = list[p].slug,
         \A id \in PluginIDs : id \notin Named(list, Len(list)) => table[id] = None
  PROVE  TableOf(list) = table
<1>1. ASSUME NEW id \in PluginIDs PROVE TableOf(list)[id] = table[id]
  <2>1. CASE id \in Named(list, Len(list))
    <3>1. PICK p \in 1..Len(list) : list[p].pluginId = id
      BY <2>1 DEF Named
    <3> QED
      BY <3>1, TableAt
  <2>2. CASE id \notin Named(list, Len(list))
    BY <2>2 DEF TableOf
  <2> QED
    BY <2>1, <2>2
<1> QED
  BY <1>1 DEF TableOf

\* Every value of the table is a slug or None.
LEMMA TableType ==
  ASSUME NEW list \in Seq(Installation), OnePerPlugin(list)
  PROVE  TableOf(list) \in [PluginIDs -> Slugs \cup {None}]
<1>1. ASSUME NEW id \in PluginIDs PROVE TableOf(list)[id] \in Slugs \cup {None}
  <2>1. CASE id \in Named(list, Len(list))
    <3>1. PICK p \in 1..Len(list) : list[p].pluginId = id
      BY <2>1 DEF Named
    <3> QED
      BY <3>1, TableAt, EntryType
  <2>2. CASE id \notin Named(list, Len(list))
    BY <2>2 DEF TableOf
  <2> QED
    BY <2>1, <2>2
<1> QED
  BY <1>1 DEF TableOf

\* To replace an entry by one of the same plugin changes that plugin's slug.
LEMMA ReplacedEntry ==
  ASSUME NEW list \in Seq(Installation), OnePerPlugin(list),
         NEW p \in 1..Len(list), NEW entry \in Installation,
         list[p].pluginId = entry.pluginId
  PROVE  LET new == [list EXCEPT ![p] = entry]
         IN  /\ new \in Seq(Installation)
             /\ OnePerPlugin(new)
             /\ TableOf(new) = [TableOf(list) EXCEPT ![entry.pluginId] = entry.slug]
<1> DEFINE new == [list EXCEPT ![p] = entry]
           table == [TableOf(list) EXCEPT ![entry.pluginId] = entry.slug]
<1>1. new \in Seq(Installation) /\ Len(new) = Len(list)
  OBVIOUS
<1>2. \A q \in 1..Len(list) : new[q].pluginId = list[q].pluginId
  OBVIOUS
<1>3. OnePerPlugin(new)
  BY <1>1, <1>2 DEF OnePerPlugin
<1>4. entry.pluginId \in PluginIDs /\ entry.slug \in Slugs
  BY DEF Installation
<1>5. table \in [PluginIDs -> Slugs \cup {None}]
  BY <1>4, TableType
<1>6. ASSUME NEW q \in 1..Len(new) PROVE table[new[q].pluginId] = new[q].slug
  <2>0. list[q].pluginId \in PluginIDs
    BY <1>1, EntryType
  <2>1. CASE q = p
    BY <1>4, <2>1, TableType
  <2>2. CASE q # p
    <3>1. list[q].pluginId # entry.pluginId
      BY <1>1, <2>2 DEF OnePerPlugin
    <3>2. new[q] = list[q]
      BY <1>1, <2>2
    <3> QED
      BY <1>1, <2>0, <3>1, <3>2, TableAt, TableType
  <2> QED
    BY <2>1, <2>2
<1>7. ASSUME NEW id \in PluginIDs, id \notin Named(new, Len(new)) PROVE table[id] = None
  <2>1. id \notin Named(list, Len(list))
    BY <1>1, <1>2, <1>7 DEF Named
  <2>2. id # entry.pluginId
    BY <2>1 DEF Named
  <2> QED
    BY <2>1, <2>2, TableType DEF TableOf
<1>8. TableOf(new) = table
  BY <1>1, <1>3, <1>5, <1>6, <1>7, TableIs
<1> QED
  BY <1>1, <1>3, <1>8

\* To append an entry of a new plugin gives that plugin its slug.
LEMMA AppendedEntry ==
  ASSUME NEW list \in Seq(Installation), OnePerPlugin(list), NEW entry \in Installation,
         entry.pluginId \notin Named(list, Len(list))
  PROVE  LET new == Append(list, entry)
         IN  /\ new \in Seq(Installation)
             /\ OnePerPlugin(new)
             /\ TableOf(new) = [TableOf(list) EXCEPT ![entry.pluginId] = entry.slug]
<1> DEFINE new == Append(list, entry)
           table == [TableOf(list) EXCEPT ![entry.pluginId] = entry.slug]
<1>1. /\ new \in Seq(Installation) /\ Len(new) = Len(list) + 1
      /\ \A q \in 1..Len(list) : new[q] = list[q]
      /\ new[Len(list) + 1] = entry
  OBVIOUS
<1>2. \A q \in 1..Len(list) : list[q].pluginId # entry.pluginId
  BY DEF Named
<1>3. OnePerPlugin(new)
  BY <1>1, <1>2 DEF OnePerPlugin
<1>4. entry.pluginId \in PluginIDs /\ entry.slug \in Slugs
  BY DEF Installation
<1>5. table \in [PluginIDs -> Slugs \cup {None}]
  BY <1>4, TableType
<1>6. ASSUME NEW q \in 1..Len(new) PROVE table[new[q].pluginId] = new[q].slug
  <2>1. CASE q = Len(list) + 1
    BY <1>1, <1>4, <2>1, TableType
  <2>2. CASE q \in 1..Len(list)
    <3>1. list[q].pluginId \in PluginIDs
      BY <2>2, EntryType
    <3> QED
      BY <1>1, <1>2, <2>2, <3>1, TableAt, TableType
  <2> QED
    BY <1>1, <2>1, <2>2
<1>7. ASSUME NEW id \in PluginIDs, id \notin Named(new, Len(new)) PROVE table[id] = None
  <2>1. id \notin Named(list, Len(list))
    BY <1>1, <1>7 DEF Named
  <2>2. id # entry.pluginId
    BY <1>1, <1>7 DEF Named
  <2> QED
    BY <2>1, <2>2, TableType DEF TableOf
<1>8. TableOf(new) = table
  BY <1>1, <1>3, <1>5, <1>6, <1>7, TableIs
<1> QED
  BY <1>1, <1>3, <1>8

\* A list that has the entries of another but for one plugin's, each once, stands
\* for the table without that plugin.
LEMMA FilteredList ==
  ASSUME NEW list \in Seq(Installation), OnePerPlugin(list), NEW id \in PluginIDs,
         NEW new \in Seq(Installation), OnePerPlugin(new),
         \A p \in 1..Len(new) :
           \E q \in 1..Len(list) : list[q].pluginId # id /\ new[p] = list[q],
         \A q \in 1..Len(list) :
           list[q].pluginId # id => \E p \in 1..Len(new) : new[p] = list[q]
  PROVE  TableOf(new) = [TableOf(list) EXCEPT ![id] = None]
<1> DEFINE table == [TableOf(list) EXCEPT ![id] = None]
<1>1. table \in [PluginIDs -> Slugs \cup {None}]
  BY TableType
<1>2. ASSUME NEW p \in 1..Len(new) PROVE table[new[p].pluginId] = new[p].slug
  <2>1. PICK q \in 1..Len(list) : list[q].pluginId # id /\ new[p] = list[q]
    OBVIOUS
  <2>2. list[q].pluginId \in PluginIDs
    BY EntryType
  <2> QED
    BY <2>1, <2>2, TableAt, TableType
<1>3. ASSUME NEW other \in PluginIDs, other \notin Named(new, Len(new)) PROVE table[other] = None
  <2>1. CASE other = id
    BY <2>1, TableType
  <2>2. CASE other # id
    <3>1. other \notin Named(list, Len(list))
      BY <1>3, <2>2 DEF Named
    <3> QED
      BY <2>2, <3>1, TableType DEF TableOf
  <2> QED
    BY <2>1, <2>2
<1> QED
  BY <1>1, <1>2, <1>3, TableIs

\* To delete a plugin that the list does not name changes nothing.
LEMMA NothingDeleted ==
  ASSUME NEW list \in Seq(Installation), OnePerPlugin(list), NEW id \in PluginIDs,
         id \notin Named(list, Len(list))
  PROVE  TableOf(list) = [TableOf(list) EXCEPT ![id] = None]
<1>1. TableOf(list)[id] = None
  BY DEF TableOf
<1>2. TableOf(list) \in [PluginIDs -> Slugs \cup {None}]
  BY TableType
<1> QED
  BY <1>1, <1>2

-----------------------------------------------------------------------------
(* The inductive invariant.                                                *)

LEMMA EmptyList ==
  <<>> \in Seq(Installation) /\ Len(<<>>) = 0 /\ OnePerPlugin(<<>>)
BY DEF OnePerPlugin

LEMMA InitInv == Init => IInv
BY EmptyList DEF Init, IInv, TypeOK, ReplaceInv, FilterInv, WriteInv

\* A call that returns without a write leaves the file as it was.
LEMMA ReturnInv ==
  ASSUME IInv, NEW r \in {"ok", "error"}, Return(r), UNCHANGED file
  PROVE  IInv'
BY EmptyList DEF Return, IInv, TypeOK, ReplaceInv, FilterInv, WriteInv, OnePerPlugin

\* Every step of a call, and its end at any point, keeps IInv.
LEMMA NextInv == IInv /\ [Next]_vars => IInv'
<1> SUFFICES ASSUME IInv, [Next]_vars PROVE IInv'
  OBVIOUS
<1> USE NoneIsApart DEF IInv
<1>1. ASSUME NEW entry \in Installation \cup Deletion, Call(entry) PROVE IInv'
  BY <1>1 DEF Call, TypeOK, ReplaceInv, FilterInv, WriteInv, OnePerPlugin
<1>2. CASE ListInstallations
  <2>1. TypeOK' /\ (arg = None <=> pc = "idle")' /\ OnePerPlugin(file)'
    BY <1>2 DEF ListInstallations, TypeOK, OnePerPlugin
  <2>2. Len(file) \in Nat
    BY DEF TypeOK
  <2>3. ReplaceInv'
    BY <1>2, <2>2 DEF ListInstallations, ReplaceInv, TypeOK, Named
  <2>4. FilterInv'
    BY <1>2, <2>2 DEF ListInstallations, FilterInv, TypeOK, Named
  <2>5. WriteInv'
    BY <1>2 DEF ListInstallations, WriteInv
  <2> QED
    BY <2>1, <2>3, <2>4, <2>5
<1>3. CASE Skip
  <2>1. installations = file /\ arg \in Installation /\ i \in 1..Len(file)
    BY <1>3 DEF Skip, TypeOK, ReplaceInv
  <2>2. TypeOK' /\ (arg = None <=> pc = "idle")' /\ OnePerPlugin(file)'
    BY <1>3 DEF Skip, TypeOK, OnePerPlugin
  <2>3. arg.pluginId \notin Named(file, i)
    BY <1>3, <2>1 DEF Skip, Matches, ReplaceInv, Named, TypeOK
  <2>4. ReplaceInv'
    BY <1>3, <2>1, <2>3 DEF Skip, ReplaceInv, TypeOK
  <2>5. FilterInv' /\ WriteInv'
    BY <1>3 DEF Skip, FilterInv, WriteInv
  <2> QED
    BY <2>2, <2>4, <2>5
<1>4. CASE Replace
  <2>1. /\ installations = file /\ arg \in Installation /\ i \in 1..Len(file)
        /\ file[i].pluginId = arg.pluginId
        /\ file \in Seq(Installation)
        /\ installations' = [file EXCEPT ![i] = arg]
    BY <1>4 DEF Replace, Matches, TypeOK, ReplaceInv
  <2>2. /\ installations' \in Seq(Installation)
        /\ OnePerPlugin(installations')
        /\ TableOf(installations') = [TableOf(file) EXCEPT ![arg.pluginId] = arg.slug]
    BY <2>1, ReplacedEntry
  <2>3. TypeOK' /\ (arg = None <=> pc = "idle")' /\ OnePerPlugin(file)'
    BY <1>4, <2>2 DEF Replace, TypeOK, OnePerPlugin
  <2>4. ReplaceInv' /\ FilterInv' /\ WriteInv'
    BY <1>4, <2>2 DEF Replace, ReplaceInv, FilterInv, WriteInv
  <2> QED
    BY <2>3, <2>4
<1>5. CASE AppendNew
  <2>1. /\ installations = file /\ arg \in Installation
        /\ i = Len(file) + 1
        /\ file \in Seq(Installation)
        /\ installations' = Append(file, arg)
    BY <1>5 DEF AppendNew, TypeOK, ReplaceInv
  <2>2. arg.pluginId \notin Named(file, Len(file))
    BY <1>5, <2>1 DEF AppendNew, ReplaceInv
  <2>3. /\ installations' \in Seq(Installation)
        /\ OnePerPlugin(installations')
        /\ TableOf(installations') = [TableOf(file) EXCEPT ![arg.pluginId] = arg.slug]
    BY <2>1, <2>2, AppendedEntry
  <2>4. TypeOK' /\ (arg = None <=> pc = "idle")' /\ OnePerPlugin(file)'
    BY <1>5, <2>3 DEF AppendNew, TypeOK, OnePerPlugin
  <2>5. ReplaceInv' /\ FilterInv' /\ WriteInv'
    BY <1>5, <2>3 DEF AppendNew, ReplaceInv, FilterInv, WriteInv
  <2> QED
    BY <2>4, <2>5
<1>6. CASE Keep
  <2>1. /\ installations \in Seq(Installation) /\ file \in Seq(Installation)
        /\ Len(installations) = Len(file) /\ i \in 1..Len(file)
        /\ filtered \in Nat /\ filtered < i
        /\ installations[i] = file[i] /\ file[i].pluginId # arg.pluginId
        /\ arg \in Deletion
    BY <1>6 DEF Keep, Matches, TypeOK, FilterInv
  <2>2. /\ installations' = [installations EXCEPT ![filtered + 1] = file[i]]
        /\ filtered' = filtered + 1 /\ i' = i + 1
        /\ UNCHANGED <<file, pc, arg, result>> /\ pc = "filter"
    BY <1>6, <2>1 DEF Keep
  <2>3. /\ installations' \in Seq(Installation)
        /\ Len(installations') = Len(file)
        /\ installations'[filtered + 1] = file[i]
        /\ \A p \in 1..Len(file) : p # filtered + 1 => installations'[p] = installations[p]
    <3>1. filtered + 1 \in 1..Len(installations)
      BY <2>1
    <3>2. file[i] \in Installation
      BY <2>1
    <3> QED
      BY <2>1, <2>2, <3>1, <3>2
  <2>4. \A p \in (i + 1)..Len(file) : installations'[p] = file[p]
    BY <2>1, <2>2, <2>3 DEF FilterInv
  <2>5. ASSUME NEW p \in 1..(filtered + 1)
        PROVE  \E q \in 1..i : file[q].pluginId # arg.pluginId /\ installations'[p] = file[q]
    <3>1. CASE p = filtered + 1
      BY <2>1, <2>3, <3>1
    <3>2. CASE p # filtered + 1
      <4>1. p \in 1..filtered /\ p \in 1..Len(file)
        BY <2>1, <3>2
      <4>2. PICK q \in 1..(i - 1) : file[q].pluginId # arg.pluginId /\ installations[p] = file[q]
        BY <2>2, <4>1 DEF FilterInv
      <4> QED
        BY <2>1, <2>3, <3>2, <4>1, <4>2
    <3> QED
      BY <3>1, <3>2
  <2>6. ASSUME NEW q \in 1..i, file[q].pluginId # arg.pluginId
        PROVE  \E p \in 1..(filtered + 1) : installations'[p] = file[q]
    <3>1. CASE q = i
      BY <2>1, <2>3, <3>1
    <3>2. CASE q # i
      <4>1. q \in 1..(i - 1)
        BY <2>1, <3>2
      <4>2. PICK p \in 1..filtered : installations[p] = file[q]
        BY <2>2, <2>6, <4>1 DEF FilterInv
      <4>3. p \in 1..(filtered + 1) /\ p # filtered + 1 /\ p \in 1..Len(file)
        BY <2>1
      <4> QED
        BY <2>3, <4>2, <4>3
    <3> QED
      BY <3>1, <3>2
  <2>7. ASSUME NEW p \in 1..filtered
        PROVE  installations[p].pluginId # file[i].pluginId
    <3>1. PICK q \in 1..(i - 1) : installations[p] = file[q]
      BY <2>2 DEF FilterInv
    <3>2. q \in 1..Len(file) /\ q # i
      BY <2>1
    <3> QED
      BY <2>1, <3>1, <3>2 DEF OnePerPlugin
  <2>8. ASSUME NEW p \in 1..(filtered + 1), NEW q \in 1..(filtered + 1),
               installations'[p].pluginId = installations'[q].pluginId
        PROVE  p = q
    <3>1. CASE p \in 1..filtered /\ q \in 1..filtered
      <4>1. installations'[p] = installations[p] /\ installations'[q] = installations[q]
        BY <2>1, <2>3, <3>1
      <4> QED
        BY <2>2, <2>8, <3>1, <4>1 DEF FilterInv
    <3>2. CASE p = filtered + 1 /\ q \in 1..filtered
      <4>1. installations'[q] = installations[q]
        BY <2>1, <2>3, <3>2
      <4> QED
        BY <2>3, <2>7, <2>8, <3>2, <4>1
    <3>3. CASE p \in 1..filtered /\ q = filtered + 1
      <4>1. installations'[p] = installations[p]
        BY <2>1, <2>3, <3>3
      <4> QED
        BY <2>3, <2>7, <2>8, <3>3, <4>1
    <3> QED
      BY <2>1, <3>1, <3>2, <3>3
  <2>9. ASSUME filtered + 1 = i PROVE arg.pluginId \notin Named(file, i)
    <3>1. filtered = i - 1
      BY <2>1, <2>9
    <3>2. \A q \in 1..(i - 1) : file[q].pluginId # arg.pluginId
      BY <2>2, <3>1 DEF FilterInv, Named
    <3>3. \A q \in 1..i : q \in 1..(i - 1) \/ q = i
      BY <2>1
    <3> QED
      BY <2>1, <3>2, <3>3 DEF Named
  <2>10. FilterInv'
    <3>1. i' - 1 = i /\ filtered' < i' /\ i' <= Len(file) + 1
      BY <2>1, <2>2
    <3>2. (filtered' = i' - 1) = (filtered + 1 = i)
      BY <2>1, <2>2
    <3> QED
      BY <2>1, <2>2, <2>3, <2>4, <2>5, <2>6, <2>8, <2>9, <3>1, <3>2 DEF FilterInv
  <2>11. TypeOK' /\ (arg = None <=> pc = "idle")' /\ OnePerPlugin(file)'
    BY <2>1, <2>2, <2>3 DEF TypeOK, OnePerPlugin
  <2>12. ReplaceInv' /\ WriteInv'
    BY <2>2 DEF ReplaceInv, WriteInv
  <2> QED
    BY <2>10, <2>11, <2>12
<1>7. CASE Drop
  <2>1. /\ i \in 1..Len(file) /\ filtered \in Nat /\ filtered < i
        /\ Len(installations) = Len(file)
        /\ file[i].pluginId = arg.pluginId
    BY <1>7 DEF Drop, Matches, TypeOK, FilterInv
  <2>2. i' = i + 1 /\ UNCHANGED <<file, pc, arg, installations, filtered, result>>
        /\ pc = "filter"
    BY <1>7 DEF Drop
  <2>3. FilterInv'
    <3>1. i' - 1 = i /\ filtered < i' /\ i' <= Len(file) + 1 /\ filtered # i' - 1
      BY <2>1, <2>2
    <3>2. \A p \in i'..Len(file) : installations[p] = file[p]
      BY <2>1, <2>2 DEF FilterInv
    <3>3. \A p \in 1..filtered :
            \E q \in 1..i : file[q].pluginId # arg.pluginId /\ installations[p] = file[q]
      BY <2>1, <2>2 DEF FilterInv
    <3>4. \A q \in 1..i :
            file[q].pluginId # arg.pluginId => \E p \in 1..filtered : installations[p] = file[q]
      BY <2>1, <2>2 DEF FilterInv
    <3> QED
      BY <2>2, <3>1, <3>2, <3>3, <3>4 DEF FilterInv
  <2>4. TypeOK' /\ (arg = None <=> pc = "idle")' /\ OnePerPlugin(file)'
    BY <2>1, <2>2 DEF TypeOK, OnePerPlugin
  <2>5. ReplaceInv' /\ WriteInv'
    BY <2>2 DEF ReplaceInv, WriteInv
  <2> QED
    BY <2>3, <2>4, <2>5
<1>8. CASE NothingToDelete
  BY <1>8, ReturnInv DEF NothingToDelete
<1>9. CASE Filtered
  <2>1. /\ installations \in Seq(Installation) /\ file \in Seq(Installation)
        /\ Len(installations) = Len(file) /\ i = Len(file) + 1
        /\ filtered \in 0..Len(file)
        /\ arg \in Deletion
        /\ installations' = SubSeq(installations, 1, filtered)
        /\ pc = "filter" /\ pc' = "write"
        /\ UNCHANGED <<file, arg, i, filtered, result>>
    BY <1>9 DEF Filtered, TypeOK, FilterInv
  <2>2. /\ installations' \in Seq(Installation)
        /\ Len(installations') = filtered
        /\ \A p \in 1..filtered : installations'[p] = installations[p]
    BY <2>1, SubSeqProperties
  <2>3. OnePerPlugin(installations')
    BY <2>1, <2>2 DEF FilterInv, OnePerPlugin
  <2>4. ASSUME NEW p \in 1..Len(installations')
        PROVE  \E q \in 1..Len(file) :
                 file[q].pluginId # arg.pluginId /\ installations'[p] = file[q]
    <3>1. p \in 1..filtered
      BY <2>2
    <3>2. PICK q \in 1..(i - 1) : file[q].pluginId # arg.pluginId /\ installations[p] = file[q]
      BY <2>1, <3>1 DEF FilterInv
    <3> QED
      BY <2>1, <2>2, <3>1, <3>2
  <2>5. \A q \in 1..Len(file) :
          file[q].pluginId # arg.pluginId =>
            \E p \in 1..Len(installations') : installations'[p] = file[q]
    BY <2>1, <2>2 DEF FilterInv
  <2>6. arg.pluginId \in PluginIDs /\ arg.slug = None
    BY <2>1 DEF Deletion
  <2>7. TableOf(installations') = [TableOf(file) EXCEPT ![arg.pluginId] = arg.slug]
    BY <2>1, <2>2, <2>3, <2>4, <2>5, <2>6, FilteredList
  <2>8. TypeOK' /\ (arg = None <=> pc = "idle")' /\ OnePerPlugin(file)'
    BY <2>1, <2>2 DEF TypeOK, OnePerPlugin
  <2>9. ReplaceInv' /\ FilterInv' /\ WriteInv'
    BY <2>1, <2>3, <2>7 DEF ReplaceInv, FilterInv, WriteInv
  <2> QED
    BY <2>8, <2>9
<1>10. CASE WriteManifest
  BY <1>10, EmptyList
     DEF WriteManifest, Return, TypeOK, ReplaceInv, FilterInv, WriteInv, OnePerPlugin
<1>11. CASE Fails
  BY <1>11, ReturnInv DEF Fails
<1>12. CASE UNCHANGED vars
  BY <1>12 DEF vars, TypeOK, ReplaceInv, FilterInv, WriteInv, OnePerPlugin
<1> QED
  BY <1>1, <1>2, <1>3, <1>4, <1>5, <1>6, <1>7, <1>8, <1>9, <1>10, <1>11, <1>12
     DEF Next, SaveInstallation, DeleteInstallation

\* IInv holds throughout, however calls end: the file never names a plugin twice.
THEOREM Invariance == Spec => []IInv
<1>1. Init => IInv
  BY InitInv
<1>2. IInv /\ [Next]_vars => IInv'
  BY NextInv
<1> QED
  BY <1>1, <1>2, PTL DEF Spec

-----------------------------------------------------------------------------
(* SecretManifest implements InstallationTable.  A call begins with Call   *)
(* and ends with Succeed, at its write or where there is nothing to write, *)
(* or with Fail; the steps of its loops stutter.                           *)

LEMMA TableInit == Init => Table!Init
BY EmptyList DEF Init, Table!Init, TableOf, Named

LEMMA TableNext == IInv /\ [Next]_vars => [Table!Next]_(Table!vars)
<1> SUFFICES ASSUME IInv, [Next]_vars PROVE [Table!Next]_(Table!vars)
  OBVIOUS
<1> USE NoneIsApart DEF IInv, Table!Next, Table!vars
<1>1. ASSUME NEW entry \in Installation \cup Deletion, Call(entry) PROVE Table!Next
  <2>1. entry \in Table!Entry
    BY DEF Installation, Deletion, Table!Entry
  <2> QED
    BY <1>1, <2>1 DEF Call, Table!Call
<1>2. CASE WriteManifest
  BY <1>2 DEF WriteManifest, Return, WriteInv, Table!Succeed
<1>3. CASE NothingToDelete
  <2>1. /\ arg \in Deletion /\ arg # None /\ file \in Seq(Installation)
        /\ arg' = None /\ result' = "ok" /\ file' = file
    BY <1>3 DEF NothingToDelete, Return, FilterInv, TypeOK
  <2>2. arg.pluginId \notin Named(file, Len(file))
    BY <1>3 DEF NothingToDelete, FilterInv, TypeOK
  <2>3. arg.pluginId \in PluginIDs /\ arg.slug = None
    BY <2>1 DEF Deletion
  <2>4. TableOf(file) = [TableOf(file) EXCEPT ![arg.pluginId] = arg.slug]
    BY <2>1, <2>2, <2>3, NothingDeleted
  <2> QED
    BY <2>1, <2>4 DEF Table!Succeed
<1>4. CASE Fails
  BY <1>4 DEF Fails, Return, Table!Fail
<1>5. CASE ListInstallations \/ Skip \/ Replace \/ AppendNew \/ Keep \/ Drop \/ Filtered
  BY <1>5 DEF ListInstallations, Skip, Replace, AppendNew, Keep, Drop, Filtered
<1>6. CASE UNCHANGED vars
  BY <1>6 DEF vars
<1> QED
  BY <1>1, <1>2, <1>3, <1>4, <1>5, <1>6
     DEF Next, SaveInstallation, DeleteInstallation

\* Every call changes the one entry that it is about, or nothing, whatever the
\* list is and wherever the call is cut off: what PluginManager takes the manifest
\* for.
THEOREM ImplementsTable == Spec => TableSpec
<1>1. Init => Table!Init
  BY TableInit
<1>2. IInv /\ [Next]_vars => [Table!Next]_(Table!vars)
  BY TableNext
<1> QED
  BY <1>1, <1>2, Invariance, PTL DEF Spec, TableSpec, Table!Spec

=============================================================================
