# A TLA+ model of ckb-discovery

ckb-discovery finds the nodes of the CKB networks and shows them on a map. This
directory holds TLA+ modules that model its parts, TLC configurations that
check them on small instances, and proofs checked by TLAPS.

## The system

    dialer --peer/online, peer/reachable, peer/unknown--> MQTT --> marci --> Redis --> exposed --> HTTP
    dialer <----------------peer/needs_dial-------------- MQTT <-- marci

| component | state | operations | talks to |
|---|---|---|---|
| `types` | none | conversions of the network type, message types | all |
| `marci` (control centre) | three bounded channels; all keys in Redis | MQTT task; handlers of online, unknown and reachable reports; broadcast on a timer | MQTT, Redis, ipinfo.io |
| `exposed` (query service) | a cached list and its time per worker; one Redis connection for all | `/peer`, `/peer_status`, `/health`, `/add_node` | Redis (reads only) |
| `src` (dialer) | p2p sessions, one service per network | dial requests, Identify, Discovery, dial errors, redial of bootnodes; compression of the Sync protocol | MQTT, CKB nodes |

What is hard in it:

* Nothing is a transaction. A handler of marci is a sequence of Redis commands
  with an await at each; a key may expire, a reader may look, or the process may
  die between any two of them. Most failing commands end the process (`?`), some
  failing reads are silently taken for absent keys.
* The status of a peer is spread over three keys with a time to live
  (`peer.online.*`, `peer.online2.*`, `peer.unknown.*`), plus a set of witnesses
  that is traded for the unknown key. exposed reads them one command at a time.
* The MQTT task feeds three channels and blocks on a full one; one `select!` loop
  empties them and also waits for the acknowledgement of each publish.
* The cache of exposed is checked, filled, stamped and answered from with awaits
  in between, and the connection is shared behind a mutex.
* The dialer handles Identify and Discovery of one session in two tasks, and
  Discovery closes the session. Handlers panic on malformed addresses, the MQTT
  task on the network Dev, and `main` waits for the MQTT task only.
* Reports are published by spawned tasks, over topics without an order between
  them. Both sides start a clean session and do not subscribe again after a
  reconnect.
* Dialing feeds back on itself: a named peer is dialed, a failed dial renews the
  key of an online peer, and only the loss of its witnesses ends that.

What makes the parts correct: a peer is not online and unknown at once, except
where the code leaves it so (see Findings, `online2`); it leaves the map only because nobody renewed it; witnesses are not lost; dialers are sent
to the right network; no report waits forever; a list is a true picture of the
map while it was read, and not too old; every request is answered; the dialer
dials only whom it was asked to dial and reports only on those; a peer that others
name comes on the map, one that answers is online, one that is gone and forgotten
leaves; a message arrives as it was sent.
`PROJECT.json` lists the places where this could go wrong ("hazards").

## Modules

| module | what it is |
|---|---|
| `NodeTypes` | `types/src/lib.rs`: `IntoStr`, `IntoLegacyStr`, `FromString` |
| `PeerMap` | abstract specification of the keys between marci and exposed |
| `Marci` | `marci/src/main.rs` |
| `Exposed` | `exposed/src/main.rs`, composed with `PeerMap` |
| `Registry` | abstract specification of marci: one step per report |
| `IpInfo` | `marci/src/main.rs:120-189`, the cache of places |
| `Addresses` | `src/network.rs`, conversions of addresses |
| `Dialer` | `src/main.rs`, `src/handler.rs` |
| `System` | `Registry` and `Dialer` over MQTT, with peers that live and die |
| `Codec`, `CodecProofs` | `src/compress.rs` with the frame limit of `src/support_protocols.rs`, and theorems about it |
| `MarciProofs`, `RegistryProofs`, `ExposedProofs`, `IpInfoProofs`, `DialerProofs`, `SystemProofs` | theorems about `Marci`, its refinement of `Registry`, and the other modules |
| `MC...` | constants of the instances that TLC checks |

The definitions marked "Mutant" are wrong variants of the definition that
follows them. Each property is violated if one of them is used instead, which
shows that the property depends on the code.

### Marci

Redis is `val` and `ttl` (the status keys), `reachable` (witnesses), `quick`
(the index `network.peer.*.*`), `ips`, `network`, `info` (which other
`peer_info` fields are present) and `lastUpdate`. `held` is the report that the
MQTT task is sending, `rx` the channels, `pc`, `cur`, `todo` and `geo` the main
loop, `needs_dial` the publish that waits for the broker. `torn`, `failures`
and `eclipsed` are history: which handlers a failure has left undone, how many
failures there were, and which peers became unknown while they were marked
`online2`.

Each action is one Redis command together with the control flow up to the next
one: `OnlineGet` ... `OnlineDel` (lines 330-357), `UnknownGet` ... `UnknownSeen`
(358-379), `ReachableSadd` ... `ReachableService` (380-407), `BroadcastKeys`,
`BroadcastPublish`, `BroadcastService` (410-441). The actions `...Misread` are
reads that fail and are taken for absent keys. `Crash` stands for every failing
command with `?`, for a failing publish and for a kill: memory is lost, Redis
stays. `KeyExpires` may happen at any moment once the key is due; `TimePasses`
only while no report is being handled, since timeouts are days and handlers
fractions of a second.

A failing SET of `service.last_update` is swallowed by the code, so that key may
stay as it was (`UpdateService`) without this being a failure.

Abstractions: a location field is present or not, an empty string counting as
absent; a lookup at ipinfo.io fails or gives any of the subsets of the four fields
in `Places`, in any order (its cache is in `IpInfo`); the timestamps are reduced to their presence; the key `online.{}.ip`, which
nobody reads, is left out; messages that do not parse are dropped and so never
appear; the MQTT connection is not lost (that is in `System`).

### Registry and System

`Registry` has the same state as Redis and handles a report in one step. `Marci`
implements it (`ImplementsRegistry`) with a mapping that shows a handler's
remaining commands as done: a report takes effect at the command that writes its
key or its witness. That holds until there is a failure; failures of marci are
studied in `Marci` alone.

`System` extends `Registry`, instantiates `Dialer` and connects them. `wire` holds
the reports on the way to marci, `calls` the dial requests on the way to the
dialer; neither has an order. With `Unreliable`, reports are lost (`Lose`) or
delivered twice (`DeliverTwice`). `LinkLost` and `LinkBack` are the connection of
marci (lines 310-319), which is not subscribed again, so that the broker has the
subscriptions (`heard`) only if it has kept the session. `Others` are reports of
other dialers. A session opens only with a peer that is alive; a dial may fail
for any peer. `Asks` leaves out GetNodes when no peer would answer it.

### Dialer and Addresses

The process is `up`, `mqtt` and `sub` (the MQTT task and its subscription) and
`req`, the request in hand. Each service has `boot`, the bootnodes its Identify
task has still to dial, `dialing` and one `session` per peer. `out` are the reports
that are being published, each by a task of its own, except `peer/unknown`, which
`handle_error` awaits. `asked`, `greeted` and `faults` are history.

Actions: `Receive`, `RequestDial`, `RequestDone` (`main.rs:90-123`), `Reconnect`
(127-136), `StreamEnds` (138), `MainReturns` (141); `BootnodeDial` and `Notify`
(`init`, `notify`), `DialerError` and `ProtocolSelectError` (`handle_error`),
`ConnectedDiscovery`, `ReceivedIdentify`, `ReceivedDiscovery`. A message waits in
its session until the task of its protocol handles it, in any order, also after a
disconnect, which takes effect later (`"closing"`). The loop of
`received_discovery` is one step: reports are spawned and a second disconnect of a
session does nothing. A panic in it stops the Discovery task of that network
(`"panicked"`), after which the library may end the service (`ServiceEnds`). Only
the service of that network ends. The `select!` loop then also drops the run of
the other service and calls it again; the model assumes that the other network
goes on and does not check it.

In `Addresses` a multiaddress is a sequence of protocols, of which the last IP,
port and id count; DNS names become 127.0.0.1, as in the code, and are not dialed.

### Codec and IpInfo

`Codec` has `compress` and `decompress` as operators on frames (a flag and a
payload). Byte strings are opaque, with a length and what snappy makes of them;
snappy is trusted to decode what it encoded and to announce the right length
(`SnappyAssumption`), and nothing else: encoding may fail, payloads may be
anything. `IpInfo` has the cache (`cache`), the loop over the addresses of a report
(`query`, `next`) and a service that fails or changes its mind.

### PeerMap and Exposed

`PeerMap` has the marks of each peer, the marks that are due, the index of
networks, and the peers whose marks a failure may have left out of step
(`cut`). A mark goes when it is due, or when `unknown` is replaced by an online
mark that is already there. `unknown` may come beside `online2`, as in the code.
`Marci` implements it with the mapping `MapOf`,
`DueOf`, `CutOf`; this is both checked and proved.

`Exposed` takes `PeerMap` as its environment (`MapChanges`) and adds the
requests: `CheckData`, `CheckTime` and `Cached` (lines 193-199, 237-244),
`LockClient`, `NetworkKeys`, `MarkKeys`, `AddRow`, `FetchFails` (get_peers),
`Fetched` and `Stamp` (209-230), `InMap` and `NoKeys` (peer_in_map), `Health`.
A guard in the first operand of `||` is dropped before the second operand is
evaluated (the build uses Rust 1.93), so `CheckData` and `CheckTime` are two
steps without a lock between them. The mutex of `last_cache_update` is never held
across an await and has no state. `get_peers` returns and `try_lock` follows
without an await, so that is one step (`Fetched`). The lock is taken if it is free;
the answer goes out without it if somebody holds it or waits for it, since a
released mutex is handed to the one who waits (`Awaited`). A panic unwinds and unlocks.
Which marks a peer had at some time (`seen`) and at all times (`kept`) since the
connection was taken is recorded to say what a correct answer is.

## Runs

| run | instance | shows |
|---|---|---|
| `marci_status` | one peer on Pudge, its online reports with and without `is_ex`, one witness, threshold 1, one failure | `TypeOK`, `MapExclusive`, `ShownPeerHasLastSeen`, `LeavesMapOnlyByExpiry`, `WitnessesTraded`, `DialNetworkKnown`, `ImplementsPeerMap`, `ImplementsRegistry` |
| `marci_live` | reports of all kinds with addresses, without end, threshold 1, online reports with `is_ex` | `MqttNeverStuck`, `EveryKindServed`, `ReachableIsDialed` |
| `marci_version` | online reports of two versions | violated: see Findings |
| `exposed_map` | two requests of one worker, for a list of one of two networks or a status; four changes of the map | `TypeOK`, `ListSound`, `ListComplete`, `StatusRegular`, `CachedIsFresh`, `FreshListIsOwn` |
| `exposed_live` | two requests, all endpoints, failing commands, a panic | `EveryRequestAnswered` |
| `dialer_reports` | a bootnode that names a requested peer by name, address and localhost | `TypeOK`, `DialsOnlyAsked`, `SpeaksOfTold` |
| `dialer_live` | a bootnode that is also requested, on Mirana and Dev; useless and malformed messages; one fault | `BootnodesRedialed`, `SessionEnds`, `MqttPanicRecovered` |
| `system_safe` | a mortal peer named on Pudge; reports lost and doubled, one fault | `AskedWhereNamed`, `ShownIsListed` |
| `system_live` | a peer named on Mirana | `NamedIsShown`, `AnsweredIsOnline` |
| `system_dead` | the same peer, mortal | `DeadPeerLeaves` |
| `codec` | messages at the limits of the code, frames with six flags | `SentIsReceived`, `ReceivedIsBounded` |
| `ipinfo` | two addresses, two changes of place, one restart | `TypeOK`, `AnswersAgree`, `EmptyIsUnknown`, `LocatedInTheEnd` |

Bounds. Channels have capacity 1, so that they are full most of the time (the
code has 100, 500 and 100; what is checked does not depend on it, and the proofs
are for every capacity). Timeouts are one unit, so that keys become due after
every unit; `MaxFailures` is 1: a failure at every step and what follows it. One
peer suffices for the status keys, since a handler touches only the keys of its
own peer; the proofs are for any set of peers. Threshold 1 (3 by default) keeps
the run small: what the threshold decides is one comparison, which
`ImplementsRegistry` notices when it is wrong, and the theorem `Traded` is for
every threshold. Two requests suffice for the
cache: its races are between one that checks or answers and one that fetches.
They are alike, so `exposed_map`, which has no liveness property, checks one state
of each pair that differs in their names (`SYMMETRY`).
Four changes (`MaxChanges`) let a peer be listed, become unknown, become online
and lose its unknown mark while it is read. `CacheTtl` 1 or 0 stands for 30 seconds.
`MaxFaults` is 1: a lost connection, an ended stream, a failed publish or a crash
at any point. One bootnode and one requested peer suffice for the dialer, since
sessions of different peers share nothing but their service. `System` has one peer
and its witness, and at most one report on the wire (`MaxWire`); since any report
in `out` may be published next, reports still overtake each other, and a published
report may be overtaken by what the dialer does meanwhile. `codec` uses the real
limits of the code (1024, 2^21 and 2^23 bytes).

What the properties leave out. `DialNetworkKnown`, `MapExclusive`,
`ShownPeerHasLastSeen` and `LeavesMapOnlyByExpiry` exempt a peer whose handler a
failure has cut short (`torn`) until a report of that kind is handled to its end:
they show that nothing but a failure does the damage, not that there is none.
`MapExclusive` also exempts a peer that became unknown while it was marked
`online2` (`eclipsed`). `FreshListIsOwn` speaks of a list that was fetched, not of
one that was in the cache, which may be of the other network. Nothing is said of
the completeness of a location.
`ListComplete` and `StatusRegular` speak of one mark that lasts for the request:
a peer that changes from unknown to online in between is on the map all the time
and can still be missed, since the keys are read one after the other.
`ShownIsListed` leaves out bootnodes: they are dialed without being named, so they
can be online without an index entry, and the query service does not list them.
`DeadPeerLeaves` speaks of peers without witnesses: with witnesses, each round
dials the peer, the failed dial renews its online key, and it stays for ever.
`NamedIsShown` exempts a peer whose session was closed before its Identify message
was handled, and peers with loopback addresses only. `SessionEnds` and
`BootnodesRedialed` exempt a service that a panic has ended, which nothing
repairs; with requests for Dev without end, the process may end before each dial.

Fairness. In `Marci`: weak fairness of the steps of a running handler, of the
broadcast, of the MQTT task and of the broker's acknowledgement; strong fairness
of `Take` for each channel and of `BroadcastKeys`, because `select!` starts
polling at a random branch. None for time, expiry, arrivals, failures or
`Restart`: marci has no restart policy in `compose.yaml`. In `Exposed`: strong
fairness of the steps of each request, because the mutexes of tokio serve their
waiters in turn and the executor polls every request. In `Dialer`: weak fairness
of the tasks, of the end of a dial (the service has a timeout of 30 seconds), of a
disconnect, of the reconnect, which is retried without end, and of `Restart`,
since the repository's README runs the dialer with `--restart always`; strong
fairness of `ReceivedIdentify`, because the timer of the same task does not shut
its messages out. None for what peers do. In `System`: as few of these as the
properties need, and of time, expiry, rounds, publishing and delivery, which stand
for a broker and a Redis that work; a peer that is alive and has a session
identifies itself. In `IpInfo`: the loop, and strong fairness of a lookup that
succeeds, since ipinfo.io does not fail on an address for ever.

## Findings

* `marci_version`: an online report for a peer whose key exists only renews the
  key, so the version of an upgraded node is not stored, and if the key expires
  between GET and EXPIRE there is none; the log at `marci/src/main.rs:356` says
  that the key was set with the new version.

More observations, which have no run of their own:

* The unknown handler looks at `peer.online.*` only (`marci/src/main.rs:364`).
  After an online report with `is_ex`, a failed dial of a peer with enough
  witnesses sets `peer.unknown.*` beside `peer.online2.*` and deletes the
  witnesses, without any failure. The peer has both keys until `online2` expires
  or it is reported online again; the query service shows it as online.
  `MapExclusive` names this as an exception, so that everything else is excluded.
* The cache of the query service is not keyed by network
  (`exposed/src/main.rs:193`): within its 30 seconds, a request for Pudge gets the
  list that was fetched for Mirana. `exposed_map` has such answers.
* Only the country decides whether a location is looked up
  (`marci/src/main.rs:396`): if the process dies after that field, or ipinfo.io
  gives a country and not the rest, the other fields stay empty until an online
  report.
* `GET /peer?network=dev` reaches `unreachable!()` at `exposed/src/main.rs:304`,
  since the conversion of the parameter knows `dev`; `exposed_live` has this panic,
  and the others are answered all the same. A dial request for Dev does the same
  to the dialer (`src/main.rs:112`); `dialer_live` shows that it comes back, and
  `AskedWhereNamed` that marci sends none unless a dialer has named a peer on Dev.
* The answer to GetNodes may be handled before Identify, which closes the session,
  and the peer that answered is not reported as online (`src/handler.rs:187`):
  this is the exception in `NamedIsShown`.

## Proofs

Every safety property that a run checks is also proved, and so are both
refinements: for all values of the constants that satisfy the assumptions named
below, which TLC evaluates in the runs. In each module the properties follow from
one inductive invariant. Hardly any of them is inductive by itself: they relate
what was read or promised at one step to what is done at a later one, with steps
of others in between. The invariant says what is still true there.

### MarciProofs

For all sets of peers, versions and endpoints, every inbox, capacity, threshold
and timeout greater than 0, and any number of failures (`MarciAssumption`):

| theorem | statement |
|---|---|
| `TypeCorrect` | `Spec => []TypeOK` |
| `Invariance` | `Spec => []MarciInv` |
| `Exclusive` | `Spec => []MapExclusive` |
| `Traded` | `Spec => WitnessesTraded` |
| `DialKnown` | `Spec => DialNetworkKnown` |
| `LeavesByExpiry` | `Spec => LeavesMapOnlyByExpiry` |
| `SeenWhenShown` | `Spec => []ShownPeerHasLastSeen` |
| `Refinement` | `Spec => ImplementsPeerMap` |

`MarciInv` adds what the handler knows at each step. `StatusKnown`: what GET saw
absent stays absent (only the main loop sets keys) unless GET failed.
`UnknownReplaced`: until the unknown key is deleted, the online key just written
is there and not due, since no time passes while a report is handled. `Upgraded`:
the same for the unknown key and the witnesses. `NetworkIndexed`: the network of
a peer is in the index, and a peer without one has no witnesses, its handler is
on the way, or it was cut short. Each conjunct has a lemma with one step per
action (`TypeStep`, `StatusStep`, `UpgradedStep`, `NetworkStep`). `MapSimulation`
maps each step to a step of `PeerMap` or to none. `SeenInv` stands on its own: it
knows that last_seen is written before the last step of the online handler.

### RegistryProofs

`RegistryRefinement`: `Spec => ImplementsRegistry`, under the same assumption. Each
report takes effect at one command, `OnlineExpire` or `OnlineSet`, `UnknownExpire`
or `UnknownSet`, `ReachableSadd`; the other commands of a handler are stuttering
steps under the mapping (`LeftOf`, `WitnessesOf`, ...), which shows the commands
still to come as done. `MappingInvariance` gives what the mapping needs beyond
`MarciInv`: only a failure leaves a handler undone (`TornByFailure`), reports that
are handled have arrived (`FromInbox`), `OnlineSet` finds no online key
(`SetWhenAbsent`), and the addresses of a report that are not written yet are
exactly those in `todo` (`AddrsWritten`).

### ExposedProofs

For any number of peers, requests, workers and changes of the map
(`ExposedAssumption`):

| theorem | statement |
|---|---|
| `TypeCorrect` | `Spec => []TypeOK` |
| `ListsSound` | `Spec => []ListSound` |
| `ListsComplete` | `Spec => []ListComplete` |
| `StatusIsRegular` | `Spec => StatusRegular` |
| `CacheFresh` | `Spec => CachedIsFresh` |
| `OwnLists` | `Spec => FreshListIsOwn` |

`ExposedInv`: one request at most holds the connection, exactly at the steps that
use it (`Held`); at each of them, what KEYS has returned was seen since the
connection was taken, and what lasted so far was returned (`FoundSound`,
`FoundComplete`, `StatusMissed`, over `Watched`); the rows are sound one by one
(`RowsSound`). `Ages`: a list is never younger than the age it is taken for, and
its lock is held from the moment it is replaced until it is stamped. That keeps a
request that has checked one list and is answered from another from getting an
old one. `OwnList` says the same of the network: while a request waits to stamp
the list it has put into the cache, the list is still its own.

### DialerProofs and IpInfoProofs

For all bootnodes, requests and messages of peers, and any number of faults
(`AddressAssumption`, `DialerAssumption`: bootnodes have an id and no loopback
address), `DialerProofs` has `TypeCorrect` (`TypeOK`), `OnlyAskedDialed`
(`DialsOnlyAsked`) and `OnlyToldReported` (`SpeaksOfTold`). `DialerInv` follows an
address from the request or the table of bootnodes (`RequestTold`, `BootKnown`)
through `dialing` (`DialsTold`) into a session (`SessionsTold`) and a report. It
rests on `RequestRoundTrip`: what `meta_info_to_addr` formats is read back by
`addr_to_node_meta` and `addr_to_endpoint` as the same peer and endpoint.

`IpInfoProofs` has `TypeCorrect`, `OnePlace` (`AnswersAgree`) and
`FailsOnlyIfUnknown` (`EmptyIsUnknown`), for queries of any length. `IpInv` adds
that the cache is what was told first, and that the addresses the query has passed
by, and the one it waits for, are not in the cache.

### SystemProofs

For any number of peers, reports on the way and faults, reliable MQTT or not:
`NameSurvives` (`SystemSpec => []AskedWhereNamed`) and `OnlyListedShown`
(`SystemSpec => []ShownIsListed`). `SystemAssumption` says of other dialers that
they report nodes on the networks of the services, and as online or unknown only
bootnodes: they are a fixed set of reports, which cannot depend on what was asked.
`SystemInv` is a circle. Reports on the wire about a
peer that is shown are about one that is listed, or about a bootnode (`Sound`);
a peer with a witness, or in a round, has a network with a service, under which
it is listed (`Placed`); so has every request on its way (`Wanted`), and so every
peer that was asked for; and the dialer speaks of no others, which is `DialerInv`,
taken over from `DialerProofs` through an instance. The lists only grow (`Grows`),
so that old messages stay sound.

### CodecProofs

For all byte strings, limits, frames and every snappy that satisfies
`SnappyAssumption`:

| theorem | statement |
|---|---|
| `RoundTrip` | `decompress(compress(b))` is `b`, or `b` is longer than the limit and it fails |
| `SentArrives` | `Spec => []SentIsReceived` |
| `MemoryBounded` | `Spec => []ReceivedIsBounded` |

The invariant is `WireInv` with the two properties: the frames on the way are those
made of what was sent, in the same order, so that `RoundTrip` applies to the head.

### Only model-checked

The liveness properties (`MqttNeverStuck`, `EveryKindServed`, `ReachableIsDialed`,
`EveryRequestAnswered`, `BootnodesRedialed`, `SessionEnds`, `MqttPanicRecovered`,
`NamedIsShown`, `AnsweredIsOnline`, `DeadPeerLeaves`, `LocatedInTheEnd`): the
prover has no rules for fairness and ENABLED. `LoggedVersionIsSet` is refuted by
TLC.

## Not modelled

The builders of molecule messages and the names, ids and versions of the protocols
(constants without state); `addr_to_ip` and `build_discovery_nodes`, which nobody
calls; `add_node` (echoes its input); the texts of a row; the clock of exposed
going back; start-up and configuration. Whether the run of a tentacle service may
be dropped and called again, as the `select!` loop at `src/main.rs:77` does when one
service has ended, depends on that library. Failures of marci while a dialer runs
are not composed: `Marci` has them, `System` does not.

## Plan

Every safety property of a run is proved. What is left to prove are facts that no
run states yet: that a composition of `Marci`, instead of `Registry`, with the
dialer keeps the properties of `System` until a failure happens (from
`RegistryRefinement`), and what a failure of marci does to them.
