-------------------------- MODULE Collectors_proofs -------------------------
(***************************************************************************)
(* Proofs about Collectors, for any finite sets of plugins, any scopes and *)
(* any times.  AgeInv carries the argument: the age of a plugin is bounded *)
(* by the turns begun since its own, and the turns of a round are bounded  *)
(* by their number.                                                        *)
(***************************************************************************)
EXTENDS Collectors, UniFi_proofs, FiniteSetTheorems, TLAPS

USE DEF round, ticker, reports

\* A turn takes a natural number of time units.
LEMMA OneTurnType == OneTurn \in Nat /\ Interval <= OneTurn /\ Interval \in Nat \ {0}
  BY TimesAssumption, SendAssumption DEF OneTurn

\* Products with the length of a turn.
LEMMA Turns ==
  ASSUME NEW k \in Nat, NEW n \in Nat
  PROVE  /\ k * OneTurn \in Nat
         /\ (k + 1) * OneTurn = k * OneTurn + OneTurn
         /\ k <= n => k * OneTurn <= n * OneTurn
         /\ (2 * n - 1) * OneTurn = n * OneTurn + n * OneTurn - OneTurn
<1> DEFINE T == OneTurn
<1>1. T \in Nat
  BY OneTurnType
<1> HIDE DEF T
<1>2. k * T \in Nat /\ (k + 1) * T = k * T + T
  BY <1>1
<1>3. k <= n => k * T <= n * T
  BY <1>1
<1>4. (2 * n - 1) * T = n * T + n * T - T
  BY <1>1
<1> QED
  BY <1>2, <1>3, <1>4 DEF T

\* How many turns have begun, of how many plugins.
LEMMA Counting ==
  ASSUME todo \subseteq Plugins
  PROVE  /\ Cardinality(Plugins) \in Nat /\ Begun \in Nat
         /\ Begun <= Cardinality(Plugins)
         /\ todo = {} => Begun = Cardinality(Plugins)
         /\ \A p \in todo : Begun + 1 <= Cardinality(Plugins)
         /\ \A p \in todo : Cardinality(Plugins \ (todo \ {p})) = Begun + 1
         /\ \A p \in Plugins : 1 <= Cardinality(Plugins)
<1> DEFINE B == Plugins \ todo
<1>1. IsFiniteSet(Plugins) /\ B \subseteq Plugins
  BY PluginsAssumption
<1>2. IsFiniteSet(B) /\ Cardinality(B) <= Cardinality(Plugins)
  BY <1>1, FS_Subset
<1>3. Cardinality(Plugins) \in Nat /\ Cardinality(B) \in Nat
  BY <1>1, <1>2, FS_CardinalityType
<1>4. ASSUME NEW p \in todo
      PROVE  /\ Cardinality(Plugins \ (todo \ {p})) = Cardinality(B) + 1
             /\ Cardinality(B) + 1 <= Cardinality(Plugins)
  <2>1. Plugins \ (todo \ {p}) = B \cup {p} /\ p \notin B /\ B \cup {p} \subseteq Plugins
    BY <1>4
  <2>2. Cardinality(B \cup {p}) = Cardinality(B) + 1
    BY <1>2, <2>1, FS_AddElement
  <2>3. Cardinality(B \cup {p}) <= Cardinality(Plugins)
    BY <1>1, <2>1, FS_Subset
  <2> QED
    BY <2>1, <2>2, <2>3
<1>5. ASSUME NEW p \in Plugins PROVE 1 <= Cardinality(Plugins)
  <2>1. {p} \subseteq Plugins /\ Cardinality({p}) = 1
    BY FS_Singleton
  <2> QED
    BY <1>1, <2>1, FS_Subset
<1>6. todo = {} => B = Plugins
  OBVIOUS
<1> QED
  BY <1>2, <1>3, <1>4, <1>5, <1>6 DEF Begun

LEMMA LongestType ==
  ASSUME todo \subseteq Plugins
  PROVE  Longest \in Nat \/ Plugins = {}
<1>1. SUFFICES ASSUME NEW p \in Plugins PROVE Longest \in Nat
  OBVIOUS
<1>2. Cardinality(Plugins) \in Nat /\ 1 <= Cardinality(Plugins)
  BY Counting
<1>3. 2 * Cardinality(Plugins) - 1 \in Nat
  BY <1>2
<1> QED
  BY <1>3, Turns DEF Longest, OneTurn

\* What the passing of time does to the ticker and to the ages.
LEMMA Passing ==
  ASSUME TypeOK, NEW d \in Nat, Elapse(d)
  PROVE  /\ untick' \in 1..Interval /\ tick' \in BOOLEAN
         /\ age' \in [Plugins -> 0..(Longest + 1)]
         /\ \A p \in Plugins : age'[p] <= age[p] + d
         /\ tick \/ d >= untick => tick'
         /\ ~tick' => untick' = untick - d /\ ~tick
<1>1. Interval \in Nat \ {0} /\ untick \in 1..Interval
  BY TimesAssumption DEF TypeOK
<1>2. untick' \in 1..Interval
  <2>1. CASE d < untick
    BY <1>1, <2>1 DEF Elapse
  <2>2. CASE ~(d < untick)
    <3>1. (d - untick) % Interval \in 0..(Interval - 1)
      BY <1>1, <2>2
    <3> QED
      BY <1>1, <2>2, <3>1 DEF Elapse
  <2> QED
    BY <2>1, <2>2
<1>3. Longest \in Nat \/ Plugins = {}
  BY LongestType DEF TypeOK
<1>4. ASSUME NEW p \in Plugins
      PROVE  age'[p] \in 0..(Longest + 1) /\ age'[p] <= age[p] + d
  <2>1. Longest \in Nat /\ age[p] \in 0..(Longest + 1)
    BY <1>3 DEF TypeOK
  <2>2. age'[p] = IF age[p] + d > Longest THEN Longest + 1 ELSE age[p] + d
    BY DEF Elapse, Capped
  <2> QED
    BY <2>1, <2>2
<1>5. age' \in [Plugins -> 0..(Longest + 1)]
  BY <1>4 DEF Elapse
<1>6. tick' \in BOOLEAN /\ (tick \/ d >= untick => tick')
      /\ (~tick' => ~tick /\ ~(d >= untick))
  BY Zenon DEF Elapse, TypeOK
<1>7. ~(d >= untick) => untick' = untick - d
  <2>1. ~(d >= untick) => d < untick
    BY <1>1
  <2> QED
    BY <2>1 DEF Elapse
<1> QED
  BY <1>2, <1>4, <1>5, <1>6, <1>7

\* Every step keeps the counters of the collection, and a collection ends as
\* measured only when every device has its row.
LEMMA CountNext == IInv /\ [Next]_vars => CountInv'
<1> SUFFICES ASSUME IInv, [Next]_vars PROVE CountInv'
  OBVIOUS
<1> USE DEF IInv, CountInv
<1>1. job \in Job /\ RowsInv
  BY DEF TypeOK
<1>2. job' = job => RowsInv' /\ (Complete => Complete')
  BY <1>1 DEF RowsInv, LoadsInv, OnlineRows, AnsweredRows, Complete
<1>3. ASSUME job' \in {NoJob, Started} PROVE RowsInv'
  <2>1. /\ job'.rows = <<>> /\ job'.devices = <<>>
        /\ job'.online = 0 /\ job'.samples = 0 /\ job'.total = 0
    BY <1>3 DEF NoJob, Started
  <2>2. OnlineRows' = {} /\ AnsweredRows' = {}
    BY <2>1 DEF OnlineRows, AnsweredRows
  <2> QED
    BY <2>1, <2>2, FS_EmptySet DEF RowsInv, LoadsInv
<1>4. CASE BeginRound \/ Await \/ UNCHANGED vars
  BY <1>2, <1>4 DEF BeginRound, Await, vars
<1>5. ASSUME NEW p \in Plugins, Turn(p) PROVE CountInv'
  BY <1>3, <1>5 DEF Turn, TurnInv
<1>6. ASSUME NEW d \in 0..UniFiTimeout, Request(d) PROVE CountInv'
  BY <1>1, <1>6, RowsStep DEF Request
<1>7. CASE Collected
  BY <1>1, <1>2, <1>7 DEF Collected
<1>8. ASSUME NEW d \in 0..ProxmoxTimeout, ListNodes(d) PROVE CountInv'
  BY <1>2, <1>8, PluginsAssumption DEF ListNodes
<1>9. ASSUME NEW d \in 0..SendTime, Report(d) PROVE CountInv'
  BY <1>3, <1>9 DEF Report
<1> QED
  BY <1>4, <1>5, <1>6, <1>7, <1>8, <1>9 DEF Next

LEMMA InitInv == Init => IInv
<1> SUFFICES ASSUME Init PROVE IInv
  OBVIOUS
<1>1. TypeOK
  <2>1. Longest \in Nat \/ Plugins = {}
    BY LongestType DEF Init
  <2>2. NoJob \in Job
    BY DEF NoJob, Job, Stages, Row
  <2>3. job \in Job /\ spent \in 0..Interval /\ untick \in 1..Interval
    BY <2>2, TimesAssumption DEF Init
  <2>4. age \in [Plugins -> 0..(Longest + 1)]
    BY <2>1 DEF Init
  <2>5. /\ todo \subseteq Plugins /\ current \in Plugins \cup {None}
        /\ found \in Found /\ tick \in BOOLEAN
        /\ result \in [Plugins -> Found]
        /\ status \in [Plugins -> {"running", "degraded"}]
    BY DEF Init, Found
  <2> QED
    BY <2>3, <2>4, <2>5 DEF TypeOK
<1>2. AgeInv
  <2>1. Plugins \ todo = {} /\ Begun = 0
    BY FS_EmptySet DEF Init, Begun
  <2>2. Used = 0
    BY <2>1, OneTurnType DEF Init, Used
  <2>3. Cardinality(Plugins) * OneTurn \in Nat
    BY Turns, PluginsAssumption, FS_CardinalityType
  <2> QED
    BY <2>2, <2>3 DEF Init, AgeInv
<1>3. TurnInv /\ ScopeInv /\ StaleOnlyWithoutNodes
  BY PluginsAssumption DEF Init, TurnInv, ScopeInv, StaleOnlyWithoutNodes, Empty
<1>4. CountInv
  <2>1. RowsInv
    BY NoRows DEF Init, NoJob
  <2> QED
    BY <2>1 DEF Init, CountInv
<1> QED
  BY <1>1, <1>2, <1>3, <1>4 DEF IInv

\* What every case of the next lemma uses of the state before the step.
LEMMA Before ==
  ASSUME IInv
  PROVE  /\ TypeOK /\ todo \subseteq Plugins
         /\ Cardinality(Plugins) * OneTurn \in Nat /\ Begun * OneTurn \in Nat
         /\ Begun * OneTurn <= Cardinality(Plugins) * OneTurn
         /\ current = None => Used = Begun * OneTurn
         /\ current # None => Used = Begun * OneTurn - OneTurn + spent
         /\ \A p \in Plugins : age[p] \in Nat
<1>1. TypeOK /\ todo \subseteq Plugins
  BY DEF IInv, TypeOK
<1>2. /\ Cardinality(Plugins) \in Nat /\ Begun \in Nat
      /\ Begun <= Cardinality(Plugins)
  BY <1>1, Counting
<1>3. /\ Cardinality(Plugins) * OneTurn \in Nat /\ Begun * OneTurn \in Nat
      /\ Begun * OneTurn <= Cardinality(Plugins) * OneTurn
  BY <1>2, Turns
<1>4. OneTurn \in Nat /\ spent \in Nat
  BY <1>1, OneTurnType DEF TypeOK
<1>5. /\ current = None => Used = Begun * OneTurn
      /\ current # None => Used = Begun * OneTurn - OneTurn + spent
  BY <1>3, <1>4 DEF Used
<1>6. \A p \in Plugins : age[p] \in Nat
  BY <1>1, LongestType DEF TypeOK
<1> QED
  BY <1>1, <1>3, <1>5, <1>6

\* Time that passes within a turn is time that its plugin has spent.
LEMMA PassingInTurn ==
  ASSUME IInv, NEW d \in Nat, Elapse(d), current # None, current' = current,
         todo' = todo, spent' = spent + d
  PROVE  AgeInv'
<1>1. Used \in Int /\ Used' = Used + d
  <2>1. Begun' = Begun /\ OneTurn \in Nat /\ spent \in Nat
    BY OneTurnType DEF Begun, IInv, TypeOK
  <2>2. Begun * OneTurn \in Nat
    BY Before
  <2>3. Used' = Begun * OneTurn - (OneTurn - (spent + d))
    BY <2>1 DEF Used, OneTurn
  <2> QED
    BY <2>1, <2>2, <2>3, Before
<1>2. ASSUME NEW p \in Plugins
      PROVE  /\ p \notin todo' => age'[p] <= Used'
             /\ p \in todo' => age'[p] <= Cardinality(Plugins) * OneTurn + Used'
             /\ p \notin todo' /\ ~tick' => age'[p] <= Interval - untick'
  <2>1. /\ age[p] \in Nat /\ age'[p] \in Nat /\ age'[p] <= age[p] + d
        /\ untick \in Nat /\ (~tick' => untick' = untick - d /\ ~tick)
    <3>1. age'[p] \in 0..(Longest + 1) /\ age'[p] <= age[p] + d
          /\ (~tick' => untick' = untick - d /\ ~tick)
      BY Passing, Before
    <3>2. Longest \in Nat
      BY LongestType, Before
    <3> QED
      BY <3>1, <3>2, Before DEF TypeOK
  <2>2. Cardinality(Plugins) * OneTurn \in Nat /\ Interval \in Nat
    BY Before, OneTurnType
  <2>3. /\ p \notin todo => age[p] <= Used
        /\ p \in todo => age[p] <= Cardinality(Plugins) * OneTurn + Used
        /\ p \notin todo /\ ~tick => age[p] <= Interval - untick
    BY DEF IInv, AgeInv
  <2> QED
    BY <1>1, <2>1, <2>2, <2>3
<1> QED
  BY <1>2 DEF AgeInv, OneTurn

\* Every step of the goroutine keeps IInv.
LEMMA NextInv == IInv /\ [Next]_vars => IInv'
<1> SUFFICES ASSUME IInv, [Next]_vars PROVE IInv'
  OBVIOUS
<1>0. CountInv'
  BY CountNext
<1>1. CASE BeginRound
  <2>1. /\ todo = {} /\ current = None /\ todo' = Plugins /\ tick' = FALSE
        /\ current' = current /\ spent' = spent /\ found' = found /\ age' = age
        /\ job' = job /\ untick' = untick /\ result' = result /\ status' = status
    BY <1>1 DEF BeginRound
  <2>2. TypeOK'
    BY <2>1 DEF IInv, TypeOK, Longest
  <2>3. AgeInv'
    <3>1. Begun' = 0 /\ OneTurn \in Nat
      BY <2>1, FS_EmptySet, OneTurnType DEF Begun
    <3>2. Used' = 0
      BY <2>1, <3>1 DEF Used, OneTurn
    <3>3. Begun = Cardinality(Plugins) /\ Used = Begun * OneTurn
      BY <2>1, Before, Counting
    <3>4. \A p \in Plugins : age[p] <= Cardinality(Plugins) * OneTurn
      BY <2>1, <3>3 DEF IInv, AgeInv
    <3>5. Cardinality(Plugins) * OneTurn \in Nat
      BY Before
    <3> QED
      BY <2>1, <3>2, <3>4, <3>5 DEF AgeInv, OneTurn
  <2>4. TurnInv' /\ ScopeInv' /\ StaleOnlyWithoutNodes'
    BY <2>1, PluginsAssumption
    DEF IInv, TurnInv, ScopeInv, StaleOnlyWithoutNodes, Empty
  <2> QED
    BY <1>0, <2>2, <2>3, <2>4 DEF IInv
<1>2. CASE Await
  <2>1. /\ todo = {} /\ current = None /\ ~tick /\ Elapse(untick)
        /\ todo' = todo /\ current' = current /\ found' = found /\ spent' = spent
        /\ job' = job /\ result' = result /\ status' = status
    BY <1>2 DEF Await
  <2>2. /\ untick \in Nat /\ TypeOK /\ untick \in 1..Interval
        /\ Interval \in Nat
    BY TimesAssumption DEF IInv, TypeOK
  <2>3. /\ untick' \in 1..Interval /\ tick' \in BOOLEAN /\ tick'
        /\ age' \in [Plugins -> 0..(Longest + 1)]
        /\ \A p \in Plugins : age'[p] <= age[p] + untick
    <3>1. untick >= untick
      BY <2>2
    <3> QED
      BY <2>1, <2>2, <3>1, Passing
  <2>4. TypeOK'
    BY <2>1, <2>2, <2>3 DEF TypeOK, Longest
  <2>5. AgeInv'
    <3>1. ASSUME NEW p \in Plugins PROVE age'[p] <= Used'
      <4>1. /\ age[p] <= Interval - untick /\ age[p] \in Nat
            /\ age'[p] <= age[p] + untick
        BY <2>1, <2>3, Before DEF IInv, AgeInv
      <4>2. Used' = Begun * OneTurn /\ Begun * OneTurn \in Nat
        <5>1. Used' = Used
          BY <2>1 DEF Used, Begun, OneTurn
        <5> QED
          BY <2>1, <5>1, Before
      <4>3. Begun = Cardinality(Plugins) /\ 1 <= Begun /\ Begun \in Nat
        BY <2>1, Counting
      <4>4. 1 * OneTurn <= Begun * OneTurn /\ 1 * OneTurn = OneTurn
        BY <4>3, Turns, OneTurnType
      <4>5. Interval <= OneTurn /\ OneTurn \in Nat
        BY OneTurnType
      <4>6. age'[p] \in Nat
        BY <2>3, LongestType, Before
      <4> QED
        BY <2>2, <4>1, <4>2, <4>4, <4>5, <4>6
    <3> QED
      BY <2>1, <2>3, <3>1 DEF AgeInv
  <2>6. TurnInv' /\ ScopeInv' /\ StaleOnlyWithoutNodes'
    BY <2>1 DEF IInv, TurnInv, ScopeInv, StaleOnlyWithoutNodes
  <2> QED
    BY <1>0, <2>4, <2>5, <2>6 DEF IInv
<1>3. ASSUME NEW p \in Plugins, Turn(p) PROVE IInv'
  <2>1. /\ current = None /\ p \in todo /\ current' = p /\ todo' = todo \ {p}
        /\ job' = (IF p \in UniFis THEN Started ELSE NoJob) /\ spent' = 0
        /\ age' = [age EXCEPT ![p] = 0]
        /\ found' = found /\ untick' = untick /\ tick' = tick
        /\ result' = result /\ status' = status
    BY <1>3 DEF Turn
  <2>2. TypeOK'
    <3>1. Started \in Job /\ NoJob \in Job
      <4>1. NoJob \in Job
        BY DEF NoJob, Job, Stages
      <4>2. "info" \in Stages
        BY DEF Stages, RequiredStages
      <4> QED
        BY <4>1, <4>2 DEF Started, Job
    <3>2. job' \in Job /\ spent' \in 0..Interval
      BY <2>1, <3>1, TimesAssumption
    <3>3. Longest \in Nat
      BY LongestType, Before
    <3>4. age' \in [Plugins -> 0..(Longest + 1)]
      BY <2>1, <3>3 DEF IInv, TypeOK
    <3> QED
      BY <2>1, <3>2, <3>4 DEF IInv, TypeOK, Longest
  <2>3. AgeInv'
    <3>1. Begun \in Nat /\ Begun' = Begun + 1 /\ todo \subseteq Plugins
      BY <2>1, Counting, Before DEF Begun
    <3>2. Begun' * OneTurn = Begun * OneTurn + OneTurn
      BY <3>1, Turns
    <3>3. OneTurn \in Nat /\ Begun * OneTurn \in Nat /\ Used = Begun * OneTurn
      BY <2>1, OneTurnType, Before
    <3>4. p # None
      BY PluginsAssumption
    <3>5. Used' = Used
      BY <2>1, <3>2, <3>3, <3>4 DEF Used, OneTurn
    <3>6. untick \in 1..Interval /\ Interval \in Nat
      BY TimesAssumption DEF IInv, TypeOK
    <3>7. ASSUME NEW q \in Plugins
          PROVE  /\ q \notin todo' => age'[q] <= Used'
                 /\ q \in todo' => age'[q] <= Cardinality(Plugins) * OneTurn + Used'
                 /\ q \notin todo' /\ ~tick' => age'[q] <= Interval - untick'
      <4>1. CASE q = p
        <5>1. age'[q] = 0 /\ q \notin todo'
          BY <2>1, <4>1 DEF IInv, TypeOK
        <5> QED
          BY <2>1, <3>3, <3>5, <3>6, <5>1
      <4>2. CASE q # p
        <5>1. age'[q] = age[q] /\ (q \in todo' <=> q \in todo)
          BY <2>1, <4>2 DEF IInv, TypeOK
        <5> QED
          BY <2>1, <3>5, <5>1 DEF IInv, AgeInv
      <4> QED
        BY <4>1, <4>2
    <3> QED
      BY <3>7 DEF AgeInv, OneTurn
  <2>4. TurnInv' /\ ScopeInv' /\ StaleOnlyWithoutNodes'
    BY <2>1, PluginsAssumption
    DEF IInv, TurnInv, ScopeInv, StaleOnlyWithoutNodes, Empty
  <2> QED
    BY <1>0, <2>2, <2>3, <2>4 DEF IInv
<1>4. ASSUME NEW d \in 0..UniFiTimeout, Request(d) PROVE IInv'
  <2>1. /\ current \in UniFis /\ found = "none" /\ Elapse(d)
        /\ Requesting(d, current \in WithSite)
        /\ todo' = todo /\ current' = current /\ found' = found
        /\ result' = result /\ status' = status
    BY <1>4 DEF Request
  <2>2. d \in Nat /\ current # None
    BY <2>1, TimesAssumption, PluginsAssumption DEF Plugins
  <2>3. job' \in Job /\ spent' = spent + d /\ spent' \in 0..Interval
    <3>1. \A site \in BOOLEAN :
            Requesting(d, site) =>
              job' \in Job /\ spent' = spent + d /\ spent' \in 0..Interval
      BY JobType DEF IInv, TypeOK
    <3>2. (current \in WithSite) \in BOOLEAN
      OBVIOUS
    <3> QED
      BY <2>1, <3>1, <3>2, Zenon
  <2>4. TypeOK'
    <3>1. /\ untick' \in 1..Interval /\ tick' \in BOOLEAN
          /\ age' \in [Plugins -> 0..(Longest + 1)]
      BY <2>1, <2>2, Passing, Before
    <3> QED
      BY <2>1, <2>3, <3>1 DEF IInv, TypeOK, Longest
  <2>5. AgeInv'
    BY <2>1, <2>2, <2>3, PassingInTurn
  <2>6. TurnInv' /\ ScopeInv' /\ StaleOnlyWithoutNodes'
    BY <2>1, <2>2, PluginsAssumption
    DEF IInv, TurnInv, ScopeInv, StaleOnlyWithoutNodes, Empty
  <2> QED
    BY <1>0, <2>4, <2>5, <2>6 DEF IInv
<1>5. CASE Collected
  <2>1. /\ current \in UniFis /\ found' \in {"measured", "failed"}
        /\ todo' = todo /\ current' = current /\ spent' = spent /\ age' = age
        /\ job' = job /\ untick' = untick /\ tick' = tick
        /\ result' = result /\ status' = status
    BY <1>5 DEF Collected
  <2>2. TypeOK'
    BY <2>1 DEF IInv, TypeOK, Longest, Found
  <2>3. AgeInv'
    BY <2>1 DEF IInv, AgeInv, Used, Begun, OneTurn
  <2>4. TurnInv' /\ ScopeInv' /\ StaleOnlyWithoutNodes'
    BY <2>1, PluginsAssumption
    DEF IInv, TurnInv, ScopeInv, StaleOnlyWithoutNodes, Plugins, Empty
  <2> QED
    BY <1>0, <2>2, <2>3, <2>4 DEF IInv
<1>6. ASSUME NEW d \in 0..ProxmoxTimeout, ListNodes(d) PROVE IInv'
  <2>1. /\ current \in Proxmoxes /\ found = "none" /\ Elapse(d) /\ spent' = d
        /\ d <= Interval
        /\ todo' = todo /\ current' = current /\ job' = job
        /\ result' = result /\ status' = status
    BY <1>6 DEF ListNodes
  <2>2. d \in Nat /\ current # None /\ spent = 0
    BY <2>1, SendAssumption, PluginsAssumption DEF Plugins, IInv, TurnInv
  <2>3. /\ found' \in {"failed", "noNodes", "outOfScope", "measured"}
        /\ found' = "outOfScope" => \E nodes \in (SUBSET Nodes) \ {{}} :
                                    InScope(NodeScope[current], nodes) = {}
    BY <1>6 DEF ListNodes
  <2>4. spent' = spent + d /\ spent' \in 0..Interval
    BY <2>1, <2>2, TimesAssumption
  <2>5. TypeOK'
    <3>1. /\ untick' \in 1..Interval /\ tick' \in BOOLEAN
          /\ age' \in [Plugins -> 0..(Longest + 1)]
      BY <2>1, <2>2, Passing, Before
    <3> QED
      BY <2>1, <2>3, <2>4, <3>1 DEF IInv, TypeOK, Longest, Found
  <2>6. AgeInv'
    BY <2>1, <2>2, <2>4, PassingInTurn
  <2>7. ScopeInv'
    <3>1. SUFFICES ASSUME found' = "outOfScope" PROVE Narrows(NodeScope[current])
      BY <2>1 DEF ScopeInv
    <3>2. PICK nodes \in (SUBSET Nodes) \ {{}} :
            InScope(NodeScope[current], nodes) = {}
      BY <2>3, <3>1
    <3>3. NodeScope[current] # <<Star>>
          /\ Range(NodeScope[current]) \ {Blank} # {}
      <4>1. nodes # {}
        BY <3>2
      <4> QED
        BY <3>2, <4>1, Zenon DEF InScope
    <3> QED
      BY <3>3 DEF Range, Narrows
  <2>8. TurnInv' /\ StaleOnlyWithoutNodes'
    BY <2>1, <2>2, <2>3 DEF IInv, TurnInv, StaleOnlyWithoutNodes
  <2> QED
    BY <1>0, <2>5, <2>6, <2>7, <2>8 DEF IInv
<1>7. ASSUME NEW d \in 0..SendTime, Report(d) PROVE IInv'
  <2>1. /\ found # "none" /\ Elapse(d) /\ todo' = todo
        /\ result' = [result EXCEPT ![current] = found]
        /\ status' = [status EXCEPT ![current] =
             CASE found = "failed"   -> "degraded"
               [] found = "measured" -> "running"
               [] found \in Empty    -> @]
        /\ current' = None /\ found' = "none" /\ job' = NoJob /\ spent' = 0
    BY <1>7 DEF Report
  <2>2. /\ d \in Nat /\ current # None /\ current \in Plugins
        /\ current \notin todo /\ found \in Found
    BY <2>1, SendAssumption DEF IInv, TurnInv, TypeOK
  <2>3. /\ untick' \in 1..Interval /\ tick' \in BOOLEAN
        /\ age' \in [Plugins -> 0..(Longest + 1)]
        /\ \A p \in Plugins : age'[p] <= age[p] + d
        /\ ~tick' => untick' = untick - d /\ ~tick
    BY <2>1, <2>2, Passing, Before
  <2>4. TypeOK'
    <3>1. NoJob \in Job /\ spent' \in 0..Interval
      BY <2>1, TimesAssumption DEF NoJob, Job, Stages
    <3>2. result' \in [Plugins -> Found]
      BY <2>1, <2>2 DEF IInv, TypeOK
    <3>3. status' \in [Plugins -> {"running", "degraded"}]
      BY <2>1, <2>2 DEF IInv, TypeOK, Found, Empty
    <3> QED
      BY <2>1, <2>3, <3>1, <3>2, <3>3 DEF IInv, TypeOK, Longest, Found
  <2>5. AgeInv'
    <3>1. Begun' = Begun /\ Begun * OneTurn \in Nat
          /\ Used = Begun * OneTurn - OneTurn + spent
      BY <2>1, <2>2, Before DEF Begun
    <3>2. Used' = Begun * OneTurn
      BY <2>1, <3>1 DEF Used, OneTurn
    <3>3. OneTurn = Interval + SendTime /\ d <= SendTime /\ spent <= Interval
          /\ spent \in Nat /\ Interval \in Nat /\ SendTime \in Nat
      BY TimesAssumption, SendAssumption DEF OneTurn, IInv, TypeOK
    <3>4. Used + d <= Used' /\ Used \in Int /\ Used' \in Int
      BY <2>2, <3>1, <3>2, <3>3
    <3>5. ASSUME NEW p \in Plugins
          PROVE  /\ p \notin todo' => age'[p] <= Used'
                 /\ p \in todo' => age'[p] <= Cardinality(Plugins) * OneTurn + Used'
                 /\ p \notin todo' /\ ~tick' => age'[p] <= Interval - untick'
      <4>1. /\ age[p] \in Nat /\ age'[p] \in Nat /\ age'[p] <= age[p] + d
            /\ untick \in Nat
        BY <2>3, LongestType, Before DEF TypeOK
      <4>2. /\ p \notin todo => age[p] <= Used
            /\ p \in todo => age[p] <= Cardinality(Plugins) * OneTurn + Used
            /\ p \notin todo /\ ~tick => age[p] <= Interval - untick
        BY DEF IInv, AgeInv
      <4>3. Cardinality(Plugins) * OneTurn \in Nat
        BY Before
      <4> QED
        BY <2>1, <2>2, <2>3, <3>3, <3>4, <4>1, <4>2, <4>3
    <3> QED
      BY <3>5 DEF AgeInv, OneTurn
  <2>6. StaleOnlyWithoutNodes'
    <3>1. SUFFICES ASSUME NEW p \in Plugins,
                          status'[p] = "degraded", result'[p] # "failed"
                   PROVE  /\ p \in Proxmoxes /\ result'[p] \in Empty
                          /\ result'[p] = "outOfScope" => Narrows(NodeScope[p])
      BY DEF StaleOnlyWithoutNodes
    <3>2. CASE p = current
      <4>1. result'[p] = found /\ found \in Empty
        BY <2>1, <2>2, <3>1, <3>2 DEF IInv, TypeOK, Found, Empty
      <4> QED
        BY <3>2, <4>1 DEF IInv, ScopeInv
    <3>3. CASE p # current
      <4>1. result'[p] = result[p] /\ status'[p] = status[p]
        BY <2>1, <2>2, <3>3 DEF IInv, TypeOK
      <4> QED
        BY <3>1, <4>1 DEF IInv, StaleOnlyWithoutNodes
    <3> QED
      BY <3>2, <3>3
  <2>7. TurnInv' /\ ScopeInv'
    BY <2>1, PluginsAssumption DEF IInv, TypeOK, TurnInv, ScopeInv, Plugins, Empty
  <2> QED
    BY <1>0, <2>4, <2>5, <2>6, <2>7 DEF IInv
<1>8. CASE UNCHANGED vars
  <2>1. TypeOK'
    BY <1>8 DEF vars, IInv, TypeOK, Longest
  <2>2. AgeInv'
    BY <1>8 DEF vars, IInv, AgeInv, Used, Begun, OneTurn
  <2>3. TurnInv' /\ ScopeInv' /\ StaleOnlyWithoutNodes'
    BY <1>8 DEF vars, IInv, TurnInv, ScopeInv, StaleOnlyWithoutNodes
  <2> QED
    BY <1>0, <2>1, <2>2, <2>3 DEF IInv
<1> QED
  BY <1>1, <1>2, <1>3, <1>4, <1>5, <1>6, <1>7, <1>8 DEF Next

\* The invariant that the others follow from holds in every state (Run).
THEOREM Invariance == Spec => []IInv
<1> QED
  BY InitInv, NextInv, PTL DEF Spec

\* Every variable keeps its type; a collection never outlasts its deadline.
THEOREM TypeCorrect == Spec => []TypeOK
<1>1. IInv => TypeOK
  BY DEF IInv
<1> QED
  BY Invariance, <1>1, PTL

\* For any plugins, scopes and answers: a status that the last collection does not
\* bear out is that of a Proxmox plugin that was answered, with no node at all or
\* with none in a scope that narrows (Run, listNodes).
THEOREM StatusFollows == Spec => []StaleOnlyWithoutNodes
<1>1. IInv => StaleOnlyWithoutNodes
  BY DEF IInv
<1> QED
  BY Invariance, <1>1, PTL

\* For any inventory, page size and answers: a summary that goes out agrees with
\* the rows that go out beside it (Collect).
THEOREM SummaryIsRight == Spec => []SummaryAgrees
<1>1. IInv => SummaryAgrees
  BY SummaryOfRows DEF IInv, TypeOK, CountInv, SummaryAgrees
<1> QED
  BY Invariance, <1>1, PTL

\* For any number of plugins, whatever their requests do: the collections of
\* each begin at most Longest apart (Run).
THEOREM NoStarvation == Spec => []NoPluginStarves
<1>1. IInv => NoPluginStarves
  <2> SUFFICES ASSUME IInv, NEW p \in Plugins PROVE age[p] <= Longest
    BY DEF NoPluginStarves
  <2> DEFINE n == Cardinality(Plugins)
  <2>1. /\ n \in Nat /\ Begun \in Nat /\ Begun <= n /\ 1 <= n
        /\ p \in todo => Begun + 1 <= n
    BY Counting, Before
  <2>2. Longest = n * OneTurn + n * OneTurn - OneTurn
    BY <2>1, Turns DEF Longest, OneTurn
  <2>3. Used \in Int /\ Used <= Begun * OneTurn
    <3>1. OneTurn \in Nat /\ spent \in Nat /\ spent <= OneTurn
      BY TimesAssumption, SendAssumption DEF OneTurn, IInv, TypeOK
    <3>2. /\ Begun * OneTurn \in Nat
          /\ current = None => Used = Begun * OneTurn
          /\ current # None => Used = Begun * OneTurn - OneTurn + spent
      BY Before
    <3> QED
      BY <3>1, <3>2
  <2>4. /\ n * OneTurn \in Nat /\ Begun * OneTurn \in Nat
        /\ Begun * OneTurn <= n * OneTurn /\ age[p] \in Nat
    BY Before
  <2>5. OneTurn \in Nat /\ OneTurn <= n * OneTurn
    <3>1. 1 * OneTurn <= n * OneTurn
      BY <2>1, Turns
    <3> QED
      BY <3>1, OneTurnType
  <2>6. CASE p \notin todo
    <3>1. age[p] <= Used
      BY <2>6 DEF IInv, AgeInv
    <3> QED
      BY <2>2, <2>3, <2>4, <2>5, <3>1
  <2>7. CASE p \in todo
    <3>1. age[p] <= n * OneTurn + Used
      BY <2>7 DEF IInv, AgeInv
    <3>2. (Begun + 1) * OneTurn <= n * OneTurn
          /\ (Begun + 1) * OneTurn = Begun * OneTurn + OneTurn
      BY <2>1, <2>7, Turns
    <3> QED
      BY <2>2, <2>3, <2>4, <2>5, <3>1, <3>2
  <2> QED
    BY <2>6, <2>7
<1> QED
  BY Invariance, <1>1, PTL

=============================================================================
