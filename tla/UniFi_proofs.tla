---------------------------- MODULE UniFi_proofs ----------------------------
(***************************************************************************)
(* Lemmas about one collection of the UniFi plugin, for any site, any page *)
(* size and any times: every request keeps the type of the job and what    *)
(* its counters have to do with its rows, and a summary made at the end    *)
(* agrees with them.                                                       *)
(***************************************************************************)
EXTENDS UniFi, FiniteSetTheorems, TLAPS

LEMMA SubSeqType ==
  ASSUME NEW S, NEW s \in Seq(S), NEW n \in Nat, n < Len(s)
  PROVE  SubSeq(s, 1, n) \in Seq(S)
<1>1. \A i \in 1..n : s[i] \in S
  OBVIOUS
<1> QED
  BY <1>1

LEMMA PageType ==
  ASSUME NEW S, NEW s \in Seq(S)
  PROVE  FirstPage(s) \in Seq(S)
<1>1. Limit \in Nat /\ Len(s) \in Nat
  BY TimesAssumption
<1>2. CASE Len(s) > Limit
  BY <1>1, <1>2, SubSeqType DEF FirstPage
<1>3. CASE ~(Len(s) > Limit)
  BY <1>1, <1>3 DEF FirstPage
<1> QED
  BY <1>2, <1>3

\* The collection of the UniFi plugin keeps its type through every request.
LEMMA JobType ==
  ASSUME job \in Job, spent \in 0..Interval,
         NEW d \in 0..UniFiTimeout, NEW site \in BOOLEAN, Requesting(d, site)
  PROVE  job' \in Job /\ spent' = spent + d /\ spent' \in 0..Interval
<1> USE TimesAssumption, SitesAssumption DEF Answers, Takes
<1>1. spent' = spent + d /\ spent' \in 0..Interval
  <2>1. spent' = spent + d /\ spent + d <= Interval
    BY Zenon DEF Requesting, AppInfo, ResolveSiteID, ListDevices, ListClients,
           RequiredFails, LegacyDevices, DeviceStats
  <2> QED
    BY <2>1
<1>2. ASSUME NEW answered \in BOOLEAN, NEW load \in Loads \cup {0},
             Len(job.rows) < Len(job.devices), AddRow(answered, load)
      PROVE  job' \in Job
  <2> DEFINE i == Len(job.rows) + 1
  <2>1. job.devices \in Seq(BOOLEAN) /\ job.rows \in Seq(Row)
        /\ job.online \in Nat /\ job.total \in Nat /\ job.samples \in Nat
    BY DEF Job
  <2>2. i \in 1..Len(job.devices)
    BY <1>2, <2>1
  <2>3. job.devices[i] \in BOOLEAN
    BY <2>1, <2>2
  <2> DEFINE row == [online |-> job.devices[i], answered |-> answered, load |-> load]
  <2>4. row \in Row
    BY <2>3 DEF Row
  <2>5. Append(job.rows, row) \in Seq(Row)
    BY <2>1, <2>4
  <2>6. load \in Nat /\ \A b \in BOOLEAN : Bit(b) \in Nat
    BY DEF Bit
  <2>7. Bit(job.devices[i]) \in Nat /\ Bit(answered) \in Nat
    BY <2>3, <2>6
  <2>8. \A m, n \in Nat : m + n \in Nat
    OBVIOUS
  <2>9. job.online + Bit(job.devices[i]) \in Nat /\ job.total + load \in Nat
        /\ job.samples + Bit(answered) \in Nat
    BY <2>1, <2>6, <2>7, <2>8, Zenon
  <2> HIDE DEF i, row
  <2> QED
    BY <1>2, <2>5, <2>9 DEF AddRow, Job, i, row
<1>3. job' \in Job
  <2>1. CASE AppInfo(d, site) \/ ResolveSiteID(d) \/ RequiredFails(d)
             \/ LegacyDevices(d)
    BY <2>1 DEF AppInfo, ResolveSiteID, RequiredFails, LegacyDevices, Job,
                Stages, RequiredStages
  <2>2. CASE ListDevices(d)
    <3>1. PICK devices \in Inventories :
            job' = [job EXCEPT !.stage = "clients", !.devices = FirstPage(devices)]
      BY <2>2 DEF ListDevices
    <3> QED
      BY <3>1, PageType DEF Job, Stages, RequiredStages
  <2>3. CASE ListClients(d)
    <3>1. PICK clients \in Populations :
            job' = [job EXCEPT !.stage = "legacy", !.clients = FirstPage(clients)]
      BY <2>3 DEF ListClients
    <3> QED
      BY <3>1, PageType DEF Job, Stages, RequiredStages
  <2>4. CASE DeviceStats(d)
    <3>1. Len(job.rows) < Len(job.devices)
      BY <2>4 DEF DeviceStats
    <3>2. CASE \E load \in Loads : AddRow(TRUE, load)
      BY <1>2, <3>1, <3>2
    <3>3. CASE AddRow(FALSE, 0)
      BY <1>2, <3>1, <3>3
    <3> QED
      BY <2>4, <3>2, <3>3 DEF DeviceStats
  <2> QED
    BY <2>1, <2>2, <2>3, <2>4 DEF Requesting
<1> QED
  BY <1>1, <1>3

-----------------------------------------------------------------------------
(* The counters.                                                           *)

\* Products with a number of samples, and the average of numbers between two
\* bounds.
LEMMA Samples ==
  ASSUME NEW n \in Nat, NEW a \in Nat, NEW b \in Nat
  PROVE  /\ a * n \in Nat /\ a * (n + 1) = a * n + a
         /\ a <= b => a * n <= b * n
  OBVIOUS

LEMMA AverageBetween ==
  ASSUME NEW n \in Nat \ {0}, NEW total \in Nat, NEW lo \in Nat, NEW hi \in Nat,
         total \in (lo * n)..(hi * n)
  PROVE  total \div n \in lo..hi
<1> DEFINE q == total \div n
           r == total % n
<1>1. q \in Nat /\ r \in Nat /\ r < n /\ total = n * q + r
  OBVIOUS
<1> HIDE DEF q, r
<1>2. q * n = n * q /\ (q + 1) * n = n * q + n /\ n * q \in Nat
  BY <1>1
<1>3. lo <= q
  <2>1. q + 1 <= lo => (q + 1) * n <= lo * n
    BY <1>1, Samples
  <2> QED
    BY <1>1, <1>2, <2>1
<1>4. q <= hi
  <2>1. hi + 1 <= q => (hi + 1) * n <= q * n
    BY <1>1, Samples
  <2>2. (hi + 1) * n = hi * n + n /\ hi * n \in Nat
    OBVIOUS
  <2> QED
    BY <1>1, <1>2, <2>1, <2>2
<1> QED
  BY <1>1, <1>3, <1>4 DEF q

\* Without rows there is nothing to count.
LEMMA NoRows ==
  ASSUME job.rows = <<>>, job.devices \in Seq(BOOLEAN),
         job.online = 0, job.samples = 0, job.total = 0
  PROVE  RowsInv
<1>1. OnlineRows = {} /\ AnsweredRows = {}
  BY DEF OnlineRows, AnsweredRows
<1>2. Cardinality({}) = 0
  BY FS_EmptySet
<1>3. Len(job.rows) <= Len(job.devices)
  OBVIOUS
<1> QED
  BY <1>1, <1>2, <1>3 DEF RowsInv, LoadsInv

\* A set of indexes of a sequence, when the sequence gets one element more.
LEMMA Counted ==
  ASSUME NEW n \in Nat, NEW I \in SUBSET (1..n), NEW b \in BOOLEAN
  PROVE  /\ Cardinality(I) \in Nat /\ Cardinality(I) <= n
         /\ Cardinality(IF b THEN I \cup {n + 1} ELSE I) = Cardinality(I) + Bit(b)
<1>1. IsFiniteSet(1..n) /\ Cardinality(1..n) <= n
  BY FS_Interval
<1>2. IsFiniteSet(I) /\ Cardinality(I) <= Cardinality(1..n) /\ Cardinality(1..n) \in Nat
  BY <1>1, FS_Subset, FS_CardinalityType
<1>3. Cardinality(I) \in Nat
  BY <1>2, FS_CardinalityType
<1>4. n + 1 \notin I
  OBVIOUS
<1>5. Cardinality(I \cup {n + 1}) = Cardinality(I) + 1
  BY <1>2, <1>4, FS_AddElement
<1> QED
  BY <1>1, <1>2, <1>3, <1>5 DEF Bit

\* The row of one more device keeps what the counters have to do with the rows.
LEMMA RowAdded ==
  ASSUME job \in Job, RowsInv, job.stage = "stats", Len(job.rows) < Len(job.devices),
         NEW answered \in BOOLEAN, NEW load \in Nat, ~answered => load = 0,
         AddRow(answered, load)
  PROVE  RowsInv'
<1> DEFINE n == Len(job.rows)
           row == [online |-> job.devices[n + 1], answered |-> answered, load |-> load]
<1>1. /\ job.rows \in Seq(Row) /\ job.devices \in Seq(BOOLEAN) /\ n \in Nat
      /\ Len(job.devices) \in Nat
      /\ job.total \in Nat /\ job.samples \in Nat /\ job.online \in Nat
      /\ DOMAIN job.rows = 1..n
  BY DEF Job
<1>2. /\ job'.rows = Append(job.rows, row) /\ job'.devices = job.devices
      /\ job'.stage = job.stage
      /\ job'.online = job.online + Bit(row.online)
      /\ job'.total = job.total + load
      /\ job'.samples = job.samples + Bit(answered)
  BY DEF AddRow, Job
<1>3. row.online \in BOOLEAN /\ row.answered = answered /\ row.load = load
  BY <1>1
<1> HIDE DEF row
<1>4. /\ Len(job'.rows) = n + 1 /\ DOMAIN job'.rows = 1..(n + 1)
      /\ \A i \in 1..n : job'.rows[i] = job.rows[i]
      /\ job'.rows[n + 1] = row
  BY <1>1, <1>2
<1>5. OnlineRows \subseteq 1..n /\ AnsweredRows \subseteq 1..n
  BY <1>1 DEF OnlineRows, AnsweredRows
<1>6. OnlineRows' = IF row.online THEN OnlineRows \cup {n + 1} ELSE OnlineRows
  BY <1>1, <1>4 DEF OnlineRows
<1>7. AnsweredRows' = IF answered THEN AnsweredRows \cup {n + 1} ELSE AnsweredRows
  BY <1>1, <1>3, <1>4 DEF AnsweredRows
<1>8. job'.online = Cardinality(OnlineRows')
  <2>1. Cardinality(OnlineRows') = Cardinality(OnlineRows) + Bit(row.online)
    BY <1>1, <1>3, <1>5, <1>6, Counted
  <2> QED
    BY <1>2, <2>1 DEF RowsInv
<1>9. job'.samples = Cardinality(AnsweredRows')
  <2>1. Cardinality(AnsweredRows') = Cardinality(AnsweredRows) + Bit(answered)
    BY <1>1, <1>5, <1>7, Counted
  <2> QED
    BY <1>2, <2>1 DEF RowsInv
<1>10. LoadsInv'
  <2> DEFINE L(i) == job.rows[i].load
  <2>1. \A i \in 1..n : L(i) \in Nat /\ job'.rows[i].load = L(i)
    <3>1. \A i \in 1..n : job.rows[i] \in Row
      BY <1>1
    <3>2. \A r \in Row : r.load \in Nat
      <4>1. Loads \cup {0} \subseteq Nat
        BY TimesAssumption
      <4> QED
        BY <4>1, Zenon DEF Row
    <3> QED
      BY <1>4, <3>1, <3>2
  <2>2. job'.rows[n + 1].load = load
    BY <1>3, <1>4
  <2>3. CASE ~answered
    <3>1. load = 0 /\ AnsweredRows' = AnsweredRows /\ job'.total = job.total
          /\ job'.samples = job.samples
      BY <1>1, <1>2, <1>7, <2>3 DEF Bit
    <3>2. CASE AnsweredRows = {}
      <4>1. job.total = 0
        BY <3>2 DEF RowsInv, LoadsInv
      <4> QED
        BY <3>1, <3>2, <4>1 DEF LoadsInv
    <3>3. CASE AnsweredRows # {}
      <4>1. PICK lo, hi \in AnsweredRows :
              /\ \A i \in AnsweredRows : L(i) \in L(lo)..L(hi)
              /\ job.total \in (L(lo) * job.samples)..(L(hi) * job.samples)
        BY <3>3 DEF RowsInv, LoadsInv
      <4>2. \A i \in AnsweredRows : job'.rows[i].load = L(i)
        BY <1>5, <2>1
      <4> QED
        BY <3>1, <4>1, <4>2 DEF LoadsInv
    <3> QED
      BY <3>2, <3>3
  <2>4. CASE answered
    <3>1. /\ AnsweredRows' = AnsweredRows \cup {n + 1}
          /\ job'.total = job.total + load /\ job'.samples = job.samples + 1
      BY <1>1, <1>2, <1>7, <2>4 DEF Bit
    <3>2. SUFFICES \E lo, hi \in AnsweredRows' :
            /\ \A i \in AnsweredRows' :
                 job'.rows[i].load \in job'.rows[lo].load..job'.rows[hi].load
            /\ job'.total \in (job'.rows[lo].load * job'.samples)..
                              (job'.rows[hi].load * job'.samples)
      BY DEF LoadsInv
    <3>3. CASE AnsweredRows = {}
      <4>1. job.samples = 0 /\ job.total = 0
        BY <3>3, FS_EmptySet DEF RowsInv, LoadsInv
      <4>2. AnsweredRows' = {n + 1} /\ job'.total = load /\ job'.samples = 1
        BY <3>1, <3>3, <4>1
      <4>3. load * 1 = load /\ load \in load..load
        OBVIOUS
      <4> QED
        BY <2>2, <4>2, <4>3
    <3>4. CASE AnsweredRows # {}
      <4>1. PICK lo, hi \in AnsweredRows :
              /\ \A i \in AnsweredRows : L(i) \in L(lo)..L(hi)
              /\ job.total \in (L(lo) * job.samples)..(L(hi) * job.samples)
        BY <3>4 DEF RowsInv, LoadsInv
      <4> DEFINE lo2 == IF load < L(lo) THEN n + 1 ELSE lo
                 hi2 == IF load > L(hi) THEN n + 1 ELSE hi
                 a == job'.rows[lo2].load
                 b == job'.rows[hi2].load
      <4>2. lo \in 1..n /\ hi \in 1..n /\ L(lo) \in Nat /\ L(hi) \in Nat
        BY <1>5, <2>1
      <4>3. a \in Nat /\ a <= load /\ a <= L(lo) /\ b \in Nat /\ load <= b /\ L(hi) <= b
        <5>1. a = (IF load < L(lo) THEN load ELSE L(lo))
          BY <2>1, <2>2, <4>2
        <5>2. b = (IF load > L(hi) THEN load ELSE L(hi))
          BY <2>1, <2>2, <4>2
        <5> HIDE DEF a, b, L
        <5> QED
          BY <4>2, <5>1, <5>2
      <4>4. lo2 \in AnsweredRows' /\ hi2 \in AnsweredRows'
        BY <3>1
      <4>5. ASSUME NEW i \in AnsweredRows' PROVE job'.rows[i].load \in a..b
        <5>1. CASE i = n + 1
          BY <2>2, <4>3, <5>1
        <5>2. CASE i \in AnsweredRows
          <6>1. job'.rows[i].load = L(i) /\ L(i) \in Nat /\ L(i) \in L(lo)..L(hi)
            BY <1>5, <2>1, <4>1, <5>2
          <6>2. \A m, l, h \in Nat : m \in l..h => m >= l /\ m <= h
            OBVIOUS
          <6> HIDE DEF a, b, L
          <6> QED
            BY <4>2, <4>3, <6>1, <6>2
        <5> QED
          BY <3>1, <5>1, <5>2
      <4> HIDE DEF a, b
      <4>6. /\ a * job.samples <= L(lo) * job.samples
            /\ L(hi) * job.samples <= b * job.samples
            /\ a * (job.samples + 1) = a * job.samples + a
            /\ b * (job.samples + 1) = b * job.samples + b
        BY <1>1, <4>2, <4>3, Samples
      <4>7. /\ a * job.samples \in Nat /\ b * job.samples \in Nat
            /\ L(lo) * job.samples \in Nat /\ L(hi) * job.samples \in Nat
        BY <1>1, <4>2, <4>3, Samples
      <4>8. job'.total \in (a * job'.samples)..(b * job'.samples)
        <5>1. \A t, p, q \in Nat : t \in p..q <=> p <= t /\ t <= q
          OBVIOUS
        <5>2. L(lo) * job.samples <= job.total /\ job.total <= L(hi) * job.samples
          BY <1>1, <4>1, <4>7, <5>1
        <5>3. /\ a * job'.samples = a * job.samples + a
              /\ b * job'.samples = b * job.samples + b
          BY <3>1, <4>6
        <5>4. job'.total = job.total + load /\ job.total \in Nat
          BY <1>1, <3>1
        <5> DEFINE low == a * job.samples
                   high == b * job.samples
                   under == L(lo) * job.samples
                   over == L(hi) * job.samples
        <5>5. /\ low \in Nat /\ low <= under /\ high \in Nat /\ over <= high
              /\ under \in Nat /\ over \in Nat
              /\ under <= job.total /\ job.total <= over
          BY <4>6, <4>7, <5>2
        <5> HIDE DEF low, high, under, over
        <5>6. /\ low + a \in Nat /\ high + b \in Nat /\ job'.total \in Nat
              /\ low + a <= job'.total /\ job'.total <= high + b
          <6>1. \A l, h, u, o, t, x, y, z \in Nat :
                  l <= u /\ o <= h /\ u <= t /\ t <= o /\ x <= z /\ z <= y =>
                    /\ l + x \in Nat /\ h + y \in Nat /\ t + z \in Nat
                    /\ l + x <= t + z /\ t + z <= h + y
            OBVIOUS
          <6>2. a \in Nat /\ a <= load /\ b \in Nat /\ load <= b
            BY <4>3
          <6> QED
            BY <5>4, <5>5, <6>1, <6>2
        <5> QED
          BY <5>1, <5>3, <5>6 DEF low, high
      <4> QED
        BY <4>4, <4>5, <4>8 DEF a, b
    <3> QED
      BY <3>3, <3>4
  <2> QED
    BY <2>3, <2>4
<1>11. Len(job'.rows) <= Len(job'.devices) /\ job'.stage = "stats"
  BY <1>1, <1>2, <1>4
<1> QED
  BY <1>8, <1>9, <1>10, <1>11 DEF RowsInv

\* Every request keeps what the counters have to do with the rows.
LEMMA RowsStep ==
  ASSUME job \in Job, RowsInv, NEW d, NEW site, Requesting(d, site)
  PROVE  RowsInv'
<1> USE DEF Answers, Takes
<1>1. CASE DeviceStats(d)
  <2>1. /\ job.stage = "stats" /\ Len(job.rows) < Len(job.devices)
        /\ (\E load \in Loads : AddRow(TRUE, load)) \/ AddRow(FALSE, 0)
    BY <1>1 DEF DeviceStats
  <2>2. Loads \subseteq Nat
    BY TimesAssumption
  <2>3. CASE \E load \in Loads : AddRow(TRUE, load)
    BY <2>1, <2>2, <2>3, RowAdded
  <2>4. CASE AddRow(FALSE, 0)
    BY <2>1, <2>4, RowAdded
  <2> QED
    BY <2>1, <2>3, <2>4
<1>2. CASE ~DeviceStats(d)
  <2>1. /\ job.stage # "stats"
        /\ job'.rows = job.rows /\ job'.online = job.online
        /\ job'.total = job.total /\ job'.samples = job.samples
        /\ job'.devices = job.devices \/ \E s \in Inventories : job'.devices = FirstPage(s)
    BY <1>2 DEF Requesting, AppInfo, ResolveSiteID, ListDevices, ListClients,
                RequiredFails, LegacyDevices, RequiredStages, Job
  <2>2. job.rows = <<>> /\ OnlineRows = {} /\ AnsweredRows = {}
    BY <2>1 DEF RowsInv, OnlineRows, AnsweredRows
  <2>3. job.online = 0 /\ job.samples = 0 /\ job.total = 0
    BY <2>2, FS_EmptySet DEF RowsInv, LoadsInv
  <2>4. OnlineRows' = {} /\ AnsweredRows' = {}
    BY <2>1, <2>2 DEF OnlineRows, AnsweredRows
  <2>5. Len(job'.devices) \in Nat
    <3>1. job.devices \in Seq(BOOLEAN)
      BY DEF Job
    <3>2. \A s \in Inventories : FirstPage(s) \in Seq(BOOLEAN)
      BY PageType, SitesAssumption
    <3> QED
      BY <2>1, <3>1, <3>2
  <2> QED
    BY <2>1, <2>2, <2>3, <2>4, <2>5, FS_EmptySet DEF RowsInv, LoadsInv
<1> QED
  BY <1>1, <1>2

\* A summary made at the end of a collection agrees with its rows.
LEMMA SummaryOfRows ==
  ASSUME job \in Job, RowsInv, Complete
  PROVE  AgreesWithRows
<1> DEFINE L(i) == job.rows[i].load
           loads == {row.load : row \in {r \in Range(job.rows) : r.answered}}
<1>1. /\ Len(job.devices) = Len(job.rows) /\ Len(job.rows) \in Nat
      /\ job.rows \in Seq(Row) /\ job.clients \in Seq(Kinds)
      /\ job.online \in Nat /\ job.total \in Nat /\ job.samples \in Nat
  BY DEF Job, Complete
<1>2. /\ Summary.devices = Len(job.rows) /\ Summary.online = Cardinality(OnlineRows)
      /\ Summary.online + Summary.offline = Len(job.rows)
  BY <1>1 DEF Summary, RowsInv
<1>3. Summary.wired + Summary.wireless <= Summary.clients
  <2> DEFINE C == 1..Len(job.clients)
             A == {i \in DOMAIN job.clients : job.clients[i] = "WIRED"}
             B == {i \in DOMAIN job.clients : job.clients[i] = "WIRELESS"}
  <2>1. Len(job.clients) \in Nat /\ DOMAIN job.clients = C
    BY <1>1
  <2>2. IsFiniteSet(C) /\ Cardinality(C) = Len(job.clients)
    BY <2>1, FS_Interval
  <2>3. A \subseteq C /\ B \subseteq C /\ A \cap B = {} /\ A \cup B \subseteq C
    BY <2>1
  <2> HIDE DEF A, B, C
  <2>4. IsFiniteSet(A) /\ IsFiniteSet(B)
    BY <2>2, <2>3, FS_Subset
  <2>5. Cardinality(A \cup B) <= Cardinality(C)
    BY <2>2, <2>3, FS_Subset
  <2>6. Cardinality(A \cup B) = Cardinality(A) + Cardinality(B)
    <3>1. Cardinality(A \cup B) = Cardinality(A) + Cardinality(B) - Cardinality({})
      BY <2>3, <2>4, FS_Union
    <3>2. Cardinality({}) = 0 /\ Cardinality(A) \in Nat /\ Cardinality(B) \in Nat
      BY <2>4, FS_EmptySet, FS_CardinalityType
    <3> QED
      BY <3>1, <3>2
  <2>7. Summary.wired = Cardinality(A) /\ Summary.wireless = Cardinality(B)
        /\ Summary.clients = Len(job.clients)
    BY DEF Summary, OfKind, A, B
  <2> QED
    BY <2>2, <2>5, <2>6, <2>7
<1>4. loads = {L(i) : i \in AnsweredRows}
  BY DEF Range, AnsweredRows
<1>5. Summary.average = Average
  BY DEF Summary
<1> HIDE DEF loads
<1>6. CASE AnsweredRows = {}
  <2>1. loads = {} /\ job.samples = 0
    BY <1>4, <1>6, FS_EmptySet DEF RowsInv
  <2> QED
    BY <1>2, <1>3, <1>5, <2>1 DEF AgreesWithRows, Average, loads
<1>7. CASE AnsweredRows # {}
  <2>1. PICK lo, hi \in AnsweredRows :
          /\ \A i \in AnsweredRows : L(i) \in L(lo)..L(hi)
          /\ job.total \in (L(lo) * job.samples)..(L(hi) * job.samples)
    BY <1>7 DEF RowsInv, LoadsInv
  <2>2. \A i \in AnsweredRows : L(i) \in Nat
    <3>1. \A i \in AnsweredRows : job.rows[i] \in Row
      BY <1>1 DEF AnsweredRows
    <3>2. Loads \cup {0} \subseteq Nat
      BY TimesAssumption
    <3> QED
      BY <3>1, <3>2, Zenon DEF Row
  <2>3. Min(loads) = L(lo) /\ Max(loads) = L(hi)
    <3> HIDE DEF L
    <3>1. L(lo) \in loads /\ L(hi) \in loads
      BY <1>4
    <3>2. \A x \in loads : x \in Nat /\ L(lo) <= x /\ x <= L(hi) /\ x >= L(lo) /\ L(hi) >= x
      BY <1>4, <2>1, <2>2
    <3>3. \A x, y \in Nat : x <= y /\ y <= x => x = y
      OBVIOUS
    <3>4. Min(loads) \in loads /\ \A y \in loads : Min(loads) <= y
      BY <3>1, <3>2 DEF Min
    <3>5. Max(loads) \in loads /\ \A y \in loads : Max(loads) >= y
      BY <3>1, <3>2 DEF Max
    <3> QED
      BY <3>1, <3>2, <3>4, <3>5
  <2>4. job.samples \in Nat \ {0}
    <3>1. AnsweredRows \subseteq 1..Len(job.rows)
      BY <1>1 DEF AnsweredRows
    <3>2. IsFiniteSet(AnsweredRows)
      <4>1. IsFiniteSet(1..Len(job.rows))
        BY <1>1, FS_Interval
      <4> QED
        BY <3>1, <4>1, FS_Subset
    <3> QED
      BY <1>1, <1>7, <3>2, FS_EmptySet DEF RowsInv
  <2>5. Average \in L(lo)..L(hi)
    BY <1>1, <2>1, <2>2, <2>4, AverageBetween DEF Average
  <2>6. loads # {}
    BY <1>4, <1>7
  <2> QED
    BY <1>2, <1>3, <1>5, <2>3, <2>5, <2>6 DEF AgreesWithRows, loads
<1> QED
  BY <1>6, <1>7

=============================================================================
