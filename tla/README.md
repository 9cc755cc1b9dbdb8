# QUIC Diver in TLA+

QUIC Diver is a proxy network over QUIC. Nodes let clients in, carry their
streams and choose exits among each other; the members of the network, its
clients, its nodes, its settings, are records of a signed journal that every
node and every owner's device keeps a copy of. There is no server that has the
truth: copies are exchanged in pairs, and everything has to come out the same.
That is where the program is hard, and what these modules are about.

Paths below are relative to `internal/` of the repository unless they begin
with `cmd/`.

## 1. The system

| Component | State | Operations | What is hard |
|---|---|---|---|
| `oplog` rules of the journal | rights, revoked keys, clients, nodes, routing, settings, a counter per key, a stamp per object | `State.Apply` | order of arrival, clocks that disagree, rights that change on the way |
| `store` a process' journal | SQLite table `ops`, live `State`, channel of changes | `Open`, `Append`, `Import`, `Since`, `Changed` | failed INSERT after memory changed, failed reload, crash, new build over old rows |
| `control` exchange of two journals | goroutines of one connection | `Sync`, `ExchangeUsage`, `ServeSnapshots` | both sides write and read at once; refusals, full streams, closed connections |
| `ownerlog` journal on a device | records in memory and in a file | `signWith`, `Fetch`, `Push`, `Adopt` | two owners at once, a clock that goes back, lost answers |
| `mesh` links between nodes | goroutine per neighbour, list of live links | `review`, `keep`, `exchangeLoop`, `Accept`, `Pick`, `OnRace` | revocation and re-addition while a goroutine is on its way out |
| `ledger` who spent what, who works now | a G-counter cell per node, sessions with the moment they were seen | `Add`, `Merge`, `Own`, `Restore`, `SessionUp`, `SessionDown`, `Sweep`, `Check` | late and repeated pictures, restarts, two savers |
| `race` choice of an exit | table of pending races | `Run`, `Reply`, `Answer` | datagrams lost, late, out of order |
| `node` the server and its client side | table of greeted connections, list of QUIC connections | control streams, CONNECT, CONNECT-UDP, `DialRace`, bootstrap | handlers that race with the end of their connection |
| `hello` greetings | the directory (a `State`) | `Accept`, `Recognize` | which `State` the directory is |
| `cmd/qd-node` the program | the goroutines `sweep`, `watchDNS`, `watchRate`, shutdown | | missed wake-ups, saves at shutdown |
| `client` the tunnel's client | goroutines of a run, the interface and its descriptor, routes, list of nodes in memory and on disk, open streams | `Run`, `Configure`, `watchSnapshots`, `RememberNetwork`, the TUN handler | stops at any moment, lists that change under a race, half-closed streams |
| `link` keeps a connection | the connection, the channel its waiters sleep on, the targets | `Run`, `Conn`, `SetTargets` | a wake-up between two races |
| `fakeip`, `dnsproxy`, `dnscache` names | pool of substitutes, cache of answers, upstreams | `Lookup`, `Name`, `SetReal`; `Lookup`, `Configure`, `Flush` | an address that changes hands while somebody uses it, settings that change under a question |
| `routing`, `geodata` rules | rules, sets, the default | `Decide`, `Replace`, `SetSets`, `SetFallback` | which of several rules is the strongest |
| `mobile`, `android` the app | the running client, the owner's journal | `Start`, `Stop`, the owner's calls | what is left when a call dies |
| `tunnel`, `socks`, `procmatch` | none of their own | packet forwarding, SOCKS | how a stream ends |
| `admin`, `bundle`, `certs`, `config`, `decoy`, `hwid`, `quicx`, `cmd/qd-admin`, `cmd/qd-client`, `cmd/qd-probe`, `deploy`, `third_party` | none that several steps change | | |

How they meet: an owner's device signs a record (`ownerlog`) and pushes it to a
node over a control stream (`control.Sync`); the node appends it
(`store.Append`, which asks `oplog`), which closes the channel of changes; that
wakes the watchers of settings and the goroutines that send clients their
snapshots; `mesh.review` sees added and revoked nodes; links between nodes carry
the record on, and with it the counters and sessions of `ledger`. A client
races greetings at several endpoints (`node.DialRace`), is admitted by
`ledger.Check`, and its streams leave by the node or by the exit that wins
`race`. What an application of the phone connects to is a substitute address
(`fakeip`), which the tunnel turns back into a name, decides about (`routing`)
and sends to the node, which resolves it (`dnscache`).

What makes each component correct is stated as properties of the modules below;
the hazards they are aimed at are listed in `PROJECT.json`.

## 2. The modules

| Module | Models | State and actions against the code |
|---|---|---|
| `Oplog` | `oplog` | A state is the record of maps in `State`. `Refusal` gives the error of `State.Apply`, check by check in its order; `After` gives the state it leaves. `Loaded` replays a sequence of records as `loadState` does |
| `Reading` | what a journal says | `View` reads rights, contents and counters off the *set* of records: the latest by time wins, the key breaks a tie. Not a line of it follows `State.Apply` |
| `Journal` | the promise of a store | A sequence of records that only legal ones join, read by `Reading` |
| `Store` | `store` over `oplog` | `disk` is the table, `mem` the live state, `pending` the record between `Apply` and the INSERT. `Apply`, `Insert`, `InsertFails`, `InsertAndReloadFail` are the pieces of `Append`; `Crash`, `Open`, `Upgrade` are the process. `ImportOutcome` says what `Import` makes of one record |
| `Directory` | `hello.StateDirectory` over `store` | Adds `dir`, the state object the node took at start. `Apply` changes it while it is the store's own; a failed INSERT puts another object in the store |
| `Replication` | owners' devices and the nodes they manage | A call of the app on a device is a phase: `Sign` reads the file and edits, `Finish` saves, `TryNext`, `Offer`, `Import`, `Refuse`, `Pushed` are `Push` or `Fetch` node by node and record by record, `Break` and `Die` end them early. `Adopt`, `Adopted`, `AdoptionFails` bring the journal to a fresh node, `Restore` to a second device. `lost` is a history variable: the records of adoption a node has taken whose answer did not come back |
| `SyncSession` | one connection | Reader, writer and rejecter of both sides, the lock around a frame, streams that hold a few chunks, the two calls (`Sync`, `ExchangeUsage`), the dialler's `Close` and the handler's return |
| `Ledger` | traffic | `cells`, `disk`, two savers, pictures under way. A process begins with its row (`Start`) or, when `LoadUsage` fails, without it (`StartAnew`). `counted` (what was really carried) and `knows` (this process has read its row, or written it) are history variables |
| `Sessions` | sessions | The control handler, the table, requests between `lookup`, `activate` and `SessionUp`, ages instead of moments. Every node tells its neighbours of all the sessions it knows (`Picture`), those it heard of from others among them; pictures travel and may be lost. `since` is a history variable |
| `Mesh` | `mesh` links | One record per goroutine ever started for a neighbour, with the node record it was started with. `Connect` is the dial and the greeting, `AddLive` the end of `OpenRace`, which comes whether or not the goroutine was cancelled in between; a connection dies in `Breaks` and is noticed by the next exchange (`ExchangeFails`). `late` is a history variable: a cancelled goroutine was the last to enter itself in the list |
| `Race` | `race`, `Pick`, `OnRace`, `serveViaExit` | Several streams at once over the same channels; a set of datagrams. `said` is a history variable |
| `DialRace` | `node.DialRace`, `dropLosers`, `greet` | An attempt per endpoint, the channel of results, the two contexts. `silent` nodes never answer a greeting |
| `Client` | `mobile/qdiver.go`, `client.Run`, `link`, targets and their file | `core` is how far `Run` is, `fd` who owns the descriptor, `link` the loop of `Link.Run`, `waiter` a stream in `Conn`, `reader` the snapshots. `Race == INSTANCE DialRace WITH Attempts <- Nodes`: each dial of the link is a run of that module's actions |
| `Watch` | followers of settings | The channel of `Changed` as a number; three loops with their own order of subscribing, reading and waiting; `SetSendMbps`, which stores no rate of zero, visiting connections; `connContext` in its three steps. A version of the settings gives a rate or none (`ceiling`) |
| `Streams` | `splice`, `splicePackets`, `meter`, `serveConnect`, `serveConnectUDP`, `OpenVia`, SOCKS | Three processes (client, entry, exit), five legs of two directions, two goroutines for each process. `crossed`, `counted` are history variables |
| `Fakeip` | the pool | `addrOf`, `nameOf`, `seen`; `holds` is what applications were given, and how long ago |
| `Routing` | the engine | Operators: `Compile` and `Decide` walk the list as the code does, by recursive functions; `Promised` is its comment, the strongest of all that match |
| `Resolver` | `dnscache` | The cache with ages, the questions under way family by family: a server answers (`ServerAnswers`), the answer travels for up to `Patience` ticks, and is put into the cache when it comes (`Replies`), past a move of the name, another caller's answer or a `Flush`; settings that change |
| `Naming` | `dnsproxy`, the TUN handler, `Fakeip`, `Routing` and `Resolver` together | A flow from `Ask` through `Starts`, `Handles`, `Learned` to the node's `Resolves`, `Waits`, `Dials` |

`Store` implements `Journal`: `J == INSTANCE Journal WITH log <- disk`, and
`IsJournal == J!Spec` is checked as a property and proved in `StoreProofs`. The
refinement mapping forgets memory, crashes and half-made appends.

`OplogProofs`, `StoreProofs`, `ReplicationProofs`, `LedgerProofs` (on `Ledger`
and `Sessions`), `MeshProofs` (on `Mesh`, `Race` and `SyncSession`),
`StreamsProofs`, `NamingProofs` (on `Naming` and the three modules it composes)
and `ClientProofs` hold theorems and their proofs (section 5).

`MC*` modules give the instances. Constants that depend on each other are
constrained by named assumptions in the module that declares them. The
operators marked "Mistake:" are plausible slips in the definition that follows
them (a guard dropped, a lock released too soon, a reset forgotten); each
property has one that it detects, which shows that it looks at the code.

## 3. What is abstracted

* The content of an object is the identity `<<key, ctr>>` of the record that
  wrote it. Properties compare contents, they never look inside.
* A signature or a body is sound or flawed. That a fingerprint determines a
  genesis record, and a signature its signer, is taken from cryptography.
* Key identifiers are naturals, which keeps their order (8-byte strings,
  compared in `stamp.newer`). Counters and times are naturals without width:
  64 bits are not used up by records signed one by one.
* Frames are chunks; a long frame has two or three, a stream holds one. A stream that
  holds less than a frame is what the comments of `sync.go` are worried about.
* Two directions of a traffic cell are counted alike; one client and one
  billing period, since cells of others do not interact.
* Time: `Sessions` has a clock whose step is a fraction of `sessionTTL`, and
  ages. Node clocks are taken to agree. Elsewhere timers fire at any moment,
  or stand in for "in the end".
* `Client`: a node that takes a greeting and never answers is in `DialRace`
  only; here such a dial is a failed one. The goroutines of an earlier run or
  race are waited for before the next one begins; in the code they share
  nothing with it but the file of the network. The reader notices a connection
  that is gone before the next one is won.
* `Replication`: the app makes one call at a time (nothing in `mobile/manage.go`
  locks the journal between its opening and its save). An adoption may fail at any
  point, after the node has taken the record as well. The file is kept with the state that opening it gives: `Store`
  shows that a journal's replay is the state its records made.
* `Streams`: one stream at a time; streams share only the meter's receiver, and
  additions commute. `Naming`: an application asks once and connects once; two
  applications are two steps of one as well.
* Text a rule matches with is a set of names or addresses; `domain`, `full`,
  `keyword` and `regexp` are sets alike.
* `Streams`: the client is known by name; without one the meter drops what it
  has (`node/connect.go:352`). `Watch`: `ServeSnapshots` has no ticker, which in the
  code would bring a missed edit thirty seconds later (`snapshot.go:171`).
* `Ledger`: a row is all there is on disk of a node's counting; a `LoadUsage` that
  fails reads nothing of it.
* `Mesh`: a neighbour has one endpoint at a time. A goroutine cancelled before
  its greeting is answered may still be greeted (`node/dial.go:136`), but the
  opening of the race channel then looks at the context; a goroutine cancelled
  after that comes to `addLive` all the same.
* Neighbours of a node in `Mesh`, attempts in `DialRace`, flows in `Race` are
  small sets of model values.

## 4. The runs

Each finishes within about two minutes on two workers.

| Run | Bounds | Why they are enough |
|---|---|---|
| `StoreRecords` | 3 keys (2 founders), 1 client, 1 node, counters 1..3, 2 instants, a second genesis and tampered records, a table of 4 rows | After the genesis there is room for grant, use, and revocation of a right, in each order, with equal and reversed times |
| `StoreFailures` | settings edits of the founders, reload may fail, table of 5 rows, old build first | A failed reload, a later record of the same key and a third one after it |
| `ReplicationRuns` | 2 devices with a key each and a node, all but the first empty; 3 edits beside the genesis and the adoption, 3 instants, 1 break or death | A network is born, adopted, restored, and then edited on both sides at once: an edit, its revocation, and a third that passes both, at equal or different times; an exchange that ends in the middle and is repeated; an adoption whose answer is lost, and an edit or another adoption signed after it with the same counter |
| `SyncRuns` | frames of 3 and 2 chunks, window 1, 2 rounds, 3 moods a side, device or node dials | The window is smaller than any long frame, so every deadlock by a full stream is possible; 2 rounds show what one leaves for the next |
| `LedgerRuns` | 2 nodes, 3 units at one and 1 at the other, 2 deaths, each followed by a start with the row or without it | A figure told, lost by a crash, and counted again past the older one; a row of two units overwritten by one after a failed load. With two nodes a picture comes back to its origin, but there is no third; `NeverOvercharged` and `NeverShrinks` are proved for any number, `Convergence` is checked for two |
| `MeshRuns` | 1 neighbour, 2 places, 5 edits, 2 breaks | Added, moved, revoked, added, revoked: three goroutines of which two are on their way out, or late to enter themselves. Two connections may die, during an exchange, between two, or before the channel is open. Neighbours do not interact |
| `SessionsRuns` | 3 connections of 2 devices, limit 1, lifetime 1 step, 2 other nodes: the host tells the peer, the peer and the third tell each other | Two connections of a device is the loser of a race beside the winner. What the third knows it has at second hand, and it tells the peer it had it from |
| `WatchRuns` | 1 connection, 3 edits, each with a rate or without one | An edit in each gap of a loop and one after; a rate taken away and given again |
| `RaceRuns` | 2 streams, 2 exits | One race's answers come while another is under way |
| `StreamsRuns` | 1 piece each way, a meter of 2, 1 broken connection, 1 switch | Both goroutines of a process meet at a full meter; each half of each leg ends first, second or not at all |
| `NamingRuns` | 2 names, 1 substitute, 2 applications, a lease of 2 ticks and an answer of 1, 2 lists of 4 and 5 rules, an answer that travels for up to 1 tick; either one change of the client's rules, sets or switch, or one of the node's resolver (its settings or a `Flush`) and one move of a name | The one substitute has to change hands; the rules hold each kind against each other; limits change, or the cache is emptied, before and after a name has moved, with an answer under way |
| `ClientRuns` | 2 nodes of which the link names 1, 2 starts, 2 mishaps, phone or desktop | A second start after a stop in any state; a list that grows, a node that dies, a connection that breaks, two of them in a row |

`Directory` and `DialRace` have no run of their own: the one thing worth saying
of `Directory`, `DirectoryIsCurrent`, does not hold (section 6), and `DialRace`
is checked as a part of `Client`.

What each shows is said in `PROJECT.json` under `about`. Deadlock is looked for in
`StoreRecords` and `SessionsRuns`; the others stop because
their bounds (edits, breaks, traffic, rounds) are used up, or because a race,
a stream or a run of the client is over, as in the program.

`CHECK_DEADLOCK FALSE` hides nothing there: that nobody is left waiting is stated
as liveness (`EverybodyGoesHome`, `StreamGoesOut`, `NobodyIsLeft`, `WaiterIsAnswered`,
`StopEndsAll`). Every module but the pure ones has a `TypeOK`; where it is not
proved (section 5) it can be added to a run's INVARIANTS.

### Fairness

Only weak fairness is used, and only for what the code schedules: goroutines
that can go on do (`SyncSession`, `Watch`, `DialRace`, `Race`, `Sessions`,
`Streams`, `Client`); a call of the app that has begun goes on (`Replication`);
tickers and timeouts fire (`Mesh`: `reviewPeriod`, retries; `Ledger`:
`gossipPeriod`; `Client`: the pause between races; `Streams`: the minute of
silence after which a packet stream ends); a process that ended is started again
by systemd (`Ledger`); QUIC delivers what was written while the connection is up,
and notices in the end that it is not (`Client`). Never assumed: that somebody
edits, connects, disconnects, crashes or cancels, that an owner opens the app
(`OwnersComeBack` is a premise of `Convergence`), that a datagram
arrives, that a node answers a greeting (where that is needed, it is a premise of
the property). One thing is asked of the outside world: a server that was told
the client is done closes its side too (`Answers` in `Streams`). The
node's `splice` counts on it; `EndsAreEnough` in section 6 is what happens
without.

## 5. What is proved

`tlapm` checks these for every value of the constants. Each module of proofs
extends the module it is about.

**`StoreProofs`** (on `OplogProofs`) has three inductive invariants.

* `Always`, whatever fails, gives `TypeCorrect`, `RevokedAreOut`,
  `RowsNeverCollide` and `TableIsCovered` (`TypeOK`, `RevokedHoldNoRights`,
  `InsertFits`, `MemoryCoversTable`). It joins them to what they rest on: memory
  is *sound* (`Sound`: a revoked key has no scope) and *covers* the table
  (`Covers`: its counter for a key is at least each row's). Neither can be
  dropped: `InsertFits` follows from covering, as a record is accepted only at
  the counter after the last, and covering survives a failed reload only
  because memory is never replaced by less than a replay.
* `Faithful`, under the assumption `Reliable` (a reload does not fail by itself
  and one build runs), gives `MemoryFollowsTable` and `NodeComesUp`
  (`MemoryIsReplay`, `AlwaysOpens`). Both halves of the assumption are needed:
  `StoreReloadOpen.cfg`, and the same with `FirstKinds <- OlderKinds`, are the
  counterexamples without them. The invariant adds the step in between: while a
  record is pending, memory is the replay of the table *and then* that record.
* `TableReads`, under `Reliable`, gives `WinnersDecide` and `StoreIsJournal`
  (`LastWriterWins`, and the refinement `IsJournal`). It says that the replay of
  the table, one `State.Apply` after the other, is `Reading`'s view of the
  *set* of its rows, and that the set is well formed (`Well`): it begins with
  one genesis, the counters of a key have no gaps, and about everything one
  record leads. The last is why the `CHOOSE` in `Winner` has one candidate:
  `Beats` is a strict order in which two records of one key are told apart by
  counters. The step is `ViewGrows`: the first record by `FirstGrows`, any later
  one by `NextGrows`, where the new record either loses to the one that leads
  about its object (`Superseded`, and the reading stays) or leads itself (the
  reading changes at that object alone, `AboutGrows`). For the refinement
  `PassingIsLegal` shows that a record `Refusal` lets through is one
  `Journal.Legal` allows; the INSERT is then `Accept`, and all else a stutter.

`OplogProofs` holds the lemmas: a replay is a chain of single steps
(`ReplayIsChain`, `ChainUnique`), replaying one row more is one step more
(`LoadedAppend`), and each change of a state keeps its type, soundness and
counters (`WriteTyped`, `AfterSound`, `CoversAppend`, ...).

**`LedgerProofs`**: `TypeCorrect`, `ChargesAreSound` (`NeverOvercharged`),
`PictureGrows` (`NeverShrinks`), `RowsGrow` (`DiskNeverShrinks`). `IInv` bounds
by `counted` not only cells and rows but everything on its way to become one:
pictures under way and the copies of the savers. A node's own cell is never
above what it has counted because `Merge` never touches it. `RowInv` adds that no
copy is above the node's own cell, nor a row the process has read or written, and
that in service only the sweeper holds a copy, not smaller than such a row; main's
copy, taken at shutdown, is why the promise ends there (`LedgerStopKeeps.cfg`), and
a row that could not be read is why it begins where it does (`RowsOnlyGrow`,
section 6).

The same module has the sessions: `AnnouncedCount` (`WorkingCounts`) and
`SightingsAreHonest` (`SeenIsHonest`). `SessionsInv` says that a node's own
sighting is as old as the announcement unless `Sweep` took it (`HostAgrees`; no
picture of another node touches it), and that pictures under way are as honest
as what nodes hold (`PicturesAreHonest`): `MergeSessions` keeps the younger of two
honest sightings, and `TellSessions` passes on what is honest already, whoever it
came from, so that any graph of neighbours will do.

**`ReplicationProofs`** (on `OplogProofs`): `JournalsHold`, `Counters`
(`SameCountersSameState`), `Beginnings` (`OnlyWhatWasSigned`) and `AdoptedHaveIt`
(`AdoptedTookIt`), for any devices, nodes, keys and edits. `Inv` has four parts
beside the types.

* `Journals`: each log, in memory or in a file, is *journaled*. Its state is
  `Reading`'s view of the set of its records, by `ViewGrows`, and the records of
  a key stand in it at the places their counters say (`Numbered`). From these
  two alone, equal counters give equal states as soon as a record is determined by its
  key and counter.
* `Traced` is what determines it: whatever any replica or connection has of a
  key, the key's own device vouches for: it is in its file, or in its hand
  while it adopts a node, or was there when the answer was lost. The one exception
  is an edit that is not saved yet, and that is nowhere else (`Unsaved`). It has to
  speak of the file and not of the device's memory, which `Die` sets back.
* `Calm`: between calls a device's memory is its file, and it has nothing
  under way.
* `Adoptions`: the record an adoption is about is the last one sent, it would
  still be accepted by the device, and who else has it has it as a lost one.

An adoption may end in any of three ways, and the third is that the node has taken
the record and the device is not told. The record is then `lost`: not in the
device's journal, so the next one the device signs has the same counter. `Forked`
says of a key that this has happened, with two different records of one counter.
The three properties say what is left then, and are proved with no hypothesis about
answers: a key that is not forked is held by everybody as a beginning of what its
device has signed, with at most one record that the device was not told of after it
(`Tails`); equal counters stand for equal journals if the forked keys were gone the same
way; and a journal that names a node may have passed its record over for a doubled
one. `Losses`, inductive beside `Inv` with `Settled`, says where a lost record is
(with the node it names) and that it was the next of its key, which is why the
tail has one record and no more. What is false without such an exception is
`NoCounterTwice` (section 6).

`AdoptedHaveIt` is inductive relative to `Inv`: a record of adoption reaches a
replica from one that has it already, or from the device's hand, which it
leaves when the node has taken everything. Its one hypothesis is that nodes have ids
of their own (`DistinctIds`): an id is written into a node's configuration, and two
nodes with one id would be one node to the journal.

**`MeshProofs`**: `RacesSeeTheLinks` (`LiveIsServed`). `MeshInv` has `OneGoesOn`
(a goroutine that was not cancelled holds the link: a successor starts only after
its predecessor was cancelled), `LiveIsHeld` (the list names a goroutine that has
its connection still, dead or alive) and `LinkIsLive` (the link that is wanted and
held is the one in the list, unless a cancelled goroutine came to `addLive` after
it). `OneGoesOn` is why an entry that is made by a goroutine not cancelled is the
wanted link's, and why whoever takes an entry out takes out its own.

The same module has the race, `WinnersTookTheStream` (`WinnerTook`): `RaceInv` follows
an answer from the exit over the wire (`AnswersWereGiven`) and the channel of its race
(`RepliesWereGiven`) to `Run`. And it has the exchange: `FramesStayWhole`
(`WholeFrames`) and `SuccessMeansTaken` (`SuccessIsTaken`), for frames of any
length, any window, any moods. `SyncInv` says that the pieces on a stream are a
chain (`Chained`): each is the first of a frame or follows the one before it, and
the first follows what the reader has read; and as long as a write can succeed,
the side that writes is in its frame where the chain ends (`Continuous`). A
goroutine may give up in the middle of a frame only when writing fails for the
other one as well, and whoever has a frame half written holds the lock (`AtWork`).
`HasTaken` says which results of reader and writer go with what was imported.

**`ClientProofs`**: `FdComesBack` (`FdIsReturned`) and `WinnerStaysUp`
(`WinnerIsUp`). `FdInv` ties who owns the descriptor to how often it was closed and
to how far `Run` has come. `WonInv` says of the results of a race that each comes from an attempt still
awaited (`left`), that no attempt reports twice, and that the winner is not awaited
any more: what `dropLosers` reads from the channel is therefore never the
winner. `NamesInv` keeps the lists a race is given within the nodes there are.

**`StreamsProofs`**: `BytesAreCountedOnce` (`EveryByteOnce`). The books of a node
balance after every step (`Carried`), because a goroutine that takes the meter
holds nothing it took before, and a node whose stream is over has passed its last
flush (`MetersAtWork`). `InOrder` is why a byte cannot be counted by two nodes:
a process has a stream only after the one in front of it asked.

**`NamingProofs`** has four inductive invariants, for any names, ranges, rules,
settings and applications.

* `PoolInv` gives `PoolOneToOne` (`OneToOne`) and `AnswerLeadsToItsName`
  (`LeadsToItsName`) of the pool alone. It adds `AnswersAreRecent`: the lease behind an
  answer that is still good was used no longer ago than the answer was given, so it
  cannot be the one that is taken away. It needs the assumption
  `LeaseOutlivesTheAnswer`: the comment at `fakeip.go:17` asks for it, the constants
  of `fakeip.go` and `dnsproxy.go` satisfy it, and nothing in the code compares them.
* `WayInv` carries it to the whole way of a name: `AnswersHoldOnTheWay`
  (`LeadsToItsName` again) and `NobodyElsesAddress` (`RealIsOwn`). What a flow
  waits for is bound to the name it had when it began to wait.
* `CacheInv` gives `NoAddressLongGone` (`NotLongGone`). The measure is a sum: the
  ticks an entry has left plus the ticks its address has been gone are never more than
  `Memory`, the longest an answer may be kept and the longest it may travel. A tick
  takes from the one at least what it adds to the other, no step lengthens what an
  entry has left, what a name has now it has been without for no time (`HasItNow`),
  and an answer under way is of an address that has been gone for no longer than the
  answer has travelled (`OnTheWay`). An answer that arrives after a `Flush` is kept
  like any other: the property allows it, as the code does.
* `EngineInv` (the compiled rules stand in the order of their numbers) gives
  `TheStrongestDecides` (`DecidesByTheStrongest`). `DecideFindsTheStrongest` says what the
  walk has found after each rule, and `DecideIsPromised` that the end of it
  is `Promised`.

Assumed are the named assumptions on constants only: `KeysAreOrdered`,
`SubjectsAreDistinct`, `StoreConstants`, `LedgerConstants`, `SessionsConstants`,
`MeshConstants`, `ClientConstants`, `ReplicationConstants`, `FoundingPasses`,
`EditsAreWellFormed`, `LeaseOutlivesTheAnswer`, `TheWorldIsKnown`, `RulesAreListed`,
`SettingsAreNumbers`, `TimesAreBounded`, and those a module states of its own
bounds. TLC evaluates them in the runs. `Reliable` and `DistinctIds` are hypotheses of the theorems named above, and said there;
`StoreFailures` looks at what is left without the first.

So every invariant, every action property and the refinement that a run checks is
also proved. Only model-checked is all liveness (both `Convergence`,
`EverybodyGoesHome`, `OutboundIsCut`, `AddedIsLinked`, `GoneIsForgotten`,
`SnapshotsFollow`, `RateFollows`, `StreamGoesOut`, `NobodyIsLeft`, `GoesWithTheApp`,
`CutIsOver`, `StopEndsAll`, `WaiterIsAnswered`, `LosersAreClosed`), which rests on
fairness and ENABLED, out of the prover's reach. `WatchRuns` has only such properties, so
`Watch` has no theorem. `TypeOK` of a module whose invariant does not name it is a
matter of adding it to a run.

What a recursive function computes for every input would need an induction scheme
over an operator, which the provers cannot instantiate. Where it was needed the proofs argue
about the least counterexample instead: `LeastNatural` and `ReplayIsChain` for
the replay of a table, `SiftExists` for the records of one key, `CountUp` and
`WalkExists` for the two walks over a list of rules.

## 6. Where the code and its words disagree

Each property below is one that a comment, a test or plain expectation gives,
and TLC finds it violated by what the code does. They are not among the runs;
to see one, put the property into the configuration named (alone: TLC stops at
the first violation). Six configurations are kept for the cases whose constants differ
from a run's.

| Configuration (module) | Property | What happens |
|---|---|---|
| `ReplicationRuns` with `Edits <- Removing` (`MCReplication`) | `AlwaysConverges` | `store.go:14` says the order of records differs between nodes "and this does not matter". `client.update` and `client.revoke` (`state.go:376`, `385`) are refused where an earlier revocation by another key came first, and accepted where they came before it. The journal that refuses does not count the record, each later one of that key is a gap, and `Import` ends there for good |
| `ReplicationRuns` (`MCReplication`) | `NoCounterTwice` | A node has taken its adoption and the answer is lost: the device does not have the record (`adopt.go:154`), signs another with the same counter, and the network holds two |
| the same | `BootstrapIsWhole` | A bootstrap cut off after the genesis leaves a node that takes no other one (`bootstrap.go:106`) and has no neighbours to ask |
| `StoreRecords` (`MCStore`) | `OwnerRemains` | `admin.add` with a lower scope demotes the last owner; only `admin.revoke` is guarded (`state.go:361-366`) |
| `StoreRecords` (`MCStore`) | `ReimportIsQuiet` | A record we have whose signer was revoked since aborts the import (`store.go:335` promises silence): `authorize` comes before `checkSequence` |
| `StoreReloadOpen` (`MCStore`) | `AlwaysOpens` | After a failed INSERT and a failed reload the next record leaves a gap in the table |
| the same with `FirstKinds <- OlderKinds` | `AlwaysOpens` | An older build stores a record of a kind it does not know unchecked; the newer one refuses it and does not open |
| `DirectoryCurrent` (`MCDirectory`) | `DirectoryIsCurrent` | After a failed INSERT the node greets by a state nobody updates |
| `SyncRuns` (`MCSyncSession`) | `RefusalIsNamed` | The handler returns before the reason is written |
| `SyncSentIsStored` (`MCSyncSession`) | `SentIsStored` | A push succeeds although the node refused its records |
| `LedgerStopKeeps` (`MCLedger`) | `StopKeepsCounted` | The sweeper's older copy is written over main's |
| `LedgerRuns` (`MCLedger`) | `RowsOnlyGrow` | The comment of `restore` (`accounting.go:170`) wants the counter to outlive an update of the node. When `LoadUsage` fails the node logs it and counts from nothing (`accounting.go:174`); its next save puts the smaller figure over the larger row |
| `LedgerRuns` (`MCLedger`) | `AlwaysConverges` | A node that came back with less than it had told is not corrected by its neighbours until it has counted past it |
| `MeshRuns` (`MCMesh`) | `LiveIsUp` | A silent participant of a race is worse than an absent one, says `exits.go:14`. A connection that dies while the loop waits on its ticker (`mesh.go:303`) stays in the list until the next exchange |
| `MeshRuns` (`MCMesh`) | `LinkIsOffered` | A goroutine cancelled while it opens its race channel comes to `addLive` (`mesh.go:286`) after its successor, over the successor's entry; when it leaves, the neighbour is linked and not in the list until the link is raised anew |
| `MeshRuns` (`MCMesh`) | `RevokedIsCut` | The link a revoked node raised itself goes on |
| `MeshRuns` (`MCMesh`) | `RolesAreFollowed` | A live link keeps the role its node had when it was raised |
| `SessionsServing` (`MCSessions`) | `ServingCounts` | `ledger.go:195` says of `Devices` how many work now; `SessionUp` is called for the first request of a connection only (`sessions.go:88`, `accounting.go:67`), and ninety seconds later a device that is still served does not count against the limit |
| `SessionsRuns` (`MCSessions`) | `GoneAtOnce` | A session announced after its connection ended stays for its lifetime |
| `DialRaceDeadline` (`DialRace`) | `DeadlineEnds`, `LosersAlwaysClosed` | The caller's deadline does not reach the greeting; a loser whose node never answers stays open |
| `WatchRuns` with `Early = TRUE` (`MCWatch`) | `RateFollows` | An edit between building the node and starting the watcher is taken for applied |
| `WatchRuns` (`MCWatch`) | `RateEnds` | `payload.go:286` says that zero means ordinary Cubic. When the journal goes from a rate to none and the node's file has none, `watchRate` takes zero for applied (`rate.go:29`) and `SetSendMbps` stores nothing (`node/rate.go:81`): the old rate stays |
| `WatchRuns` (`MCWatch`) | `DnsFollows` | An edit between reading the settings and taking the channel waits for the next one |
| `WatchRuns` (`MCWatch`) | `ConnectionsFollow` | `connContext` overwrites the rate a visit has just set |
| `StreamsRuns` with no break and no switch (`MCStreams`) | `EndsAreEnough` | After the server's end the client's `splice` closes the side of the application only (`tun.go:288`), and the node waits for the client: both ends have gone, and the stream lives until its connection dies. `idleTimeout` (`connect.go:37`) is applied to packet streams only |
| `StreamsRuns` (`MCStreams`) | `AnswerIsHeard` | An application that half-closes loses the answer, which the comment at `open.go:35` wants kept |
| `StreamsRuns` (`MCStreams`) | `FollowsTheSwitch` | A stream being opened when the person switches is entered in the table after the cut and goes by the old route (`streams.go:20`); a SOCKS stream is never entered |
| `NamingRuns` (`MCNaming`) | `ForceIsNotOverridden` | The name service decides by the name alone: a rule by address marked to be kept always (`rule.go`, `Force`) does not save a name that a weaker rule blocks |
| `ClientRuns` (`MCClient`) | `EveryTargetIsExcepted` | A node learned after the routes were set is raced for through the tunnel it should carry |
| `ClientRuns` (`MCClient`) | `RunningIsTrue` | The client has ended by itself and `Running` goes on saying it runs |
| `ClientRuns` (`MCClient`) | `GuardEnds`, `RoutesAreRemoved` | The tunnel's guard closes the interface and the run goes on without it; routes set for exceptions may stay |

Seen while reading, and not stated as a property:

* `Adopt` dates its record by the clock and not by `tick` (`adopt.go:138`): a
  node that is revoked and adopted again on a device whose clock went back is
  superseded by its revocation, silently.
* Nothing locks the journal's file between the opening and the save of two calls
  of the app; the later save drops the other's record.
* `AdoptOwnerBundle` writes the key before it looks at whose network the
  journal on the device is; `WipeOwner` leaves the spare key; `IssueOwnerBundles`
  drops the spare key before the links have reached anybody.
* A device that is set up anew takes the journal of the first node that answers: what that node lacks
  of its own records is signed again under the same counters.
* `SetRules` between `Start` and the attachment of the tunnel waits for the next
  start (`qdiver.go:136` says at once); the rate of `SetBrutalUp` is lost
  when the link reconnects.
* A frame of a snapshot that does not decode ends the snapshots of a connection
  without ending the connection.

## 7. What is not modelled

Because nothing in it is a step of a protocol: encodings, sealing of keys, configuration
files, certificates, the decoy site, the command-line programs, the screens of the phone.
Because TLC cannot say more than a test: parsing of geodata and of rules,
packet forwarding, the tables of processes, statistics. Because it is
cryptography: signatures over the channel binding in `hello`.

Cut short, and worth extending:

* two calls of the app at once, and a device set up anew with the key of another
  (`Replication` has one device per key and one call at a time);
* nodes that are silent in `Client`, and a run whose goroutines outlive it;
* usage of several clients and periods, limits by traffic;
* proofs: the lemmas liveness rests on, such as that an exchange which is not
  refused brings two journals closer.
