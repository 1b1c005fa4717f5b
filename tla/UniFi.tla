------------------------------- MODULE UniFi -------------------------------
(***************************************************************************)
(* One collection of the UniFi plugin (internal/plugins/unifi, Collect): a *)
(* sequence of requests to the console, each of which takes its time, all  *)
(* of them under the deadline of the collection.  The actions are those of *)
(* the module that composes the plugins, Collectors.                       *)
(*                                                                         *)
(* What tells two collections apart is kept: which request is made, which  *)
(* of them was answered, the device and client rows and what the summary   *)
(* counts.  Names, addresses and the bandwidth of the legacy API are not.  *)
(***************************************************************************)
EXTENDS Integers, FiniteSetsExt, SequencesExt

CONSTANTS
  Interval,      \* the time between rounds, and the deadline of a collection
  UniFiTimeout,  \* the time-out of the plugin's client
  Limit,         \* the rows that the console puts on a page
  Inventories,   \* what a site may have: for each device, whether it is online
  Populations,   \* the kinds of the clients it may have
  Loads          \* what a device may answer for its load, in percent

ASSUME TimesAssumption ==
  /\ Interval \in Nat \ {0} /\ UniFiTimeout \in Nat \ {0}
  /\ Limit \in Nat /\ Loads \subseteq Nat

Kinds == {"WIRED", "WIRELESS", "VPN"}

ASSUME SitesAssumption ==
  Inventories \subseteq Seq(BOOLEAN) /\ Populations \subseteq Seq(Kinds)

VARIABLES
  job,   \* the collection
  spent  \* the time since it began

Row == [online : BOOLEAN, answered : BOOLEAN, load : Loads \cup {0}]

NoJob ==
  [stage |-> "none", devices |-> <<>>, clients |-> <<>>, rows |-> <<>>,
   online |-> 0, total |-> 0, samples |-> 0]

\* The requests without which there is no collection, in their order.
RequiredStages == {"info", "sites", "devices", "clients"}
Stages == RequiredStages \cup {"none", "legacy", "stats", "failed"}

Job ==
  [stage : Stages, devices : Seq(BOOLEAN), clients : Seq(Kinds), rows : Seq(Row),
   online : Nat, total : Nat, samples : Nat]

\* ?offset=0&limit=200: what follows the first page is never asked for.
FirstPage(s) == IF Len(s) <= Limit THEN s ELSE SubSeq(s, 1, Limit)

\* The deadline of the collection is not passed on to the request.
TakesItsOwnTime(d) == d \in 0..UniFiTimeout /\ spent' = spent + d

\* A request ends when the console answers, at the time-out of the client or at
\* the deadline of the collection; past the deadline it fails at once.
Takes(d) ==
  /\ d \in 0..UniFiTimeout
  /\ spent + d <= Interval
  /\ spent' = spent + d

Answers(d) == Takes(d) /\ d < UniFiTimeout /\ spent + d < Interval

Started == [NoJob EXCEPT !.stage = "info"]

\* The site is the one configured, or the first that the console lists.
AppInfo(d, site) ==
  /\ job.stage = "info" /\ Answers(d)
  /\ job' = [job EXCEPT !.stage = IF site THEN "devices" ELSE "sites"]

ResolveSiteID(d) ==
  /\ job.stage = "sites" /\ Answers(d)
  /\ job' = [job EXCEPT !.stage = "devices"]

ListDevices(d) ==
  /\ job.stage = "devices" /\ Answers(d)
  /\ \E devices \in Inventories :
       job' = [job EXCEPT !.stage = "clients", !.devices = FirstPage(devices)]

ListClients(d) ==
  /\ job.stage = "clients" /\ Answers(d)
  /\ \E clients \in Populations :
       job' = [job EXCEPT !.stage = "legacy", !.clients = FirstPage(clients)]

\* No answer, an answer other than 2xx or that is not JSON, or no site at all.
RequiredFails(d) ==
  /\ job.stage \in RequiredStages /\ Takes(d)
  /\ job' = [job EXCEPT !.stage = "failed"]

\* Optional: without it the bandwidth is zero.
LegacyDevices(d) ==
  /\ job.stage = "legacy" /\ Takes(d)
  /\ job' = [job EXCEPT !.stage = "stats"]

Bit(b) == IF b THEN 1 ELSE 0

\* A device that does not answer counts as one without load.
CountsEvery(answered, load) ==
  LET online == job.devices[Len(job.rows) + 1]
      row == [online |-> online, answered |-> answered, load |-> load]
  IN  job' = [job EXCEPT !.rows = Append(@, row),
                         !.online = @ + Bit(online),
                         !.total = @ + load,
                         !.samples = @ + 1]

\* The row of a device.  Its state is that of the page, its load that of its own
\* answer, or zero without one, and then the average does not count it.
AddRow(answered, load) ==
  LET online == job.devices[Len(job.rows) + 1]
      row == [online |-> online, answered |-> answered, load |-> load]
  IN  job' = [job EXCEPT !.rows = Append(@, row),
                         !.online = @ + Bit(online),
                         !.total = @ + load,
                         !.samples = @ + Bit(answered)]

DeviceStats(d) ==
  /\ job.stage = "stats" /\ Len(job.rows) < Len(job.devices)
  /\ \/ Answers(d) /\ \E load \in Loads : AddRow(TRUE, load)
     \/ Takes(d) /\ AddRow(FALSE, 0)

Complete == job.stage = "stats" /\ Len(job.rows) = Len(job.devices)

\* The summary, whose counts of devices and clients are those of the first page.
Average == IF job.samples = 0 THEN 0 ELSE job.total \div job.samples
OfKind(kind) == Cardinality({i \in DOMAIN job.clients : job.clients[i] = kind})

Summary ==
  [devices |-> Len(job.devices), clients |-> Len(job.clients),
   online |-> job.online, offline |-> Len(job.devices) - job.online,
   wired |-> OfKind("WIRED"), wireless |-> OfKind("WIRELESS"),
   average |-> Average]

OnlineRows == {i \in DOMAIN job.rows : job.rows[i].online}

\* What a reader of the summary and of the rows beside it would expect.
AgreesWithRows ==
  LET loads == {row.load : row \in {r \in Range(job.rows) : r.answered}}
  IN  /\ Summary.devices = Len(job.rows)
      /\ Summary.online = Cardinality(OnlineRows)
      /\ Summary.online + Summary.offline = Len(job.rows)
      /\ Summary.wired + Summary.wireless <= Summary.clients
      /\ IF loads = {} THEN Summary.average = 0
         ELSE Summary.average \in Min(loads)..Max(loads)

(* What the counters of the loop over the devices have to do with its rows,  *)
(* so that the summary agrees with them at its end.                          *)
AnsweredRows == {i \in DOMAIN job.rows : job.rows[i].answered}

\* The total lies between as many times the lowest load and the highest.
LoadsInv ==
  \/ AnsweredRows = {} /\ job.total = 0
  \/ \E lo, hi \in AnsweredRows :
       /\ \A i \in AnsweredRows : job.rows[i].load \in job.rows[lo].load..job.rows[hi].load
       /\ job.total \in (job.rows[lo].load * job.samples)..(job.rows[hi].load * job.samples)

RowsInv ==
  /\ Len(job.rows) <= Len(job.devices)
  /\ job.stage # "stats" => job.rows = <<>>
  /\ job.online = Cardinality(OnlineRows)
  /\ job.samples = Cardinality(AnsweredRows)
  /\ LoadsInv

Requesting(d, site) ==
  \/ AppInfo(d, site) \/ ResolveSiteID(d) \/ ListDevices(d) \/ ListClients(d)
  \/ RequiredFails(d) \/ LegacyDevices(d) \/ DeviceStats(d)
=============================================================================
