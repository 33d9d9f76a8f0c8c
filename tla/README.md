# RPN Direct in TLA+

This directory is a verification project for RPN Direct: a private network in
which customers reach the internet through Raspberry Pis in other people's
homes. It holds TLA+ modules translated from the code in `src/`, TLC
configurations that check them on small instances, and proofs checked by TLAPS.

    tlc -workers 2 -config SigHub_hub.cfg MCSigHub.tla      # a run
    tlapm FleetRegistryProofs.tla                           # a proof module

`PROJECT.json` lists the runs, the code lines behind every definition, a mutant
for every checked property, the hazards and the theorems.

## 1. The system

Two generations of the product live in the repository, and they share nothing
but WireGuard.

* The *direct* stack: a coordinator (Go), an agent on every Pi (Go), and a
  signaling protocol over WebSockets. The coordinator hands out VPN addresses,
  pairs customers with Pis, and introduces peers to each other.
* The *hub-and-spoke* stack: a hub that forwards customers' traffic to a Pi, a
  provisioning API in Python that adds devices to the hub, a script that
  restores the hub after a boot, and clients for Windows and Android.

### Components

| Component | State it keeps | Operations | Talks to |
|---|---|---|---|
| Fleet registry (`coordinator/coord.go`, `db.go`) | SQLite tables `pis`, `customers`, `access_codes` | `/pi/register`, `/pi/heartbeat`, `/customer/register`, `/admin/codes` | the agents, the customers' devices, the administrator |
| Address pools (`db.go`) | none of their own: an address is computed from a row count | `nextPiIP`, `nextCustomerIP`, `seqIP` | the fleet registry |
| Signaling hub (`coord.go`, `protocol.go`) | `h.peers` behind `h.mu`, one channel of 64 messages and two goroutines per WebSocket | hello, `endpoints`, `connect`, `result`, disconnect; `broadcastPeers`, `introduce`, `trySend`, `drop` | peers, over WebSockets |
| Rate limiter (`coord.go`) | the times of recent calls per key | `allow` | in front of the hello and of `/customer/register` |
| TURN, STUN, admin lists (`coord.go`) | none | credentials are an HMAC, STUN is an echo, lists are reads | peers |
| Pi agent (`agent/main.go`) | `a.known`, the keys it takes to be on the interface | `tick`: STUN, heartbeat, `syncPeers`; backoff; restart | the fleet registry, `wg` |
| Provisioning (`provisioning/provision.py`) | `peers.json` under a file lock, `wgd0.conf`, the live interface, policy routes | `provision` (create, re-key, repeat), `apply_peer`, `remove_peer` | devices, `wg`, `ip rule` |
| Boot script (`provisioning/apply-routes.sh`) | none | re-applies `peers.json` to the interface and the routes | the same files, without the lock |
| Windows client (`windows-client/RPN.cs`) | the tunnel service, the UI, the fail-open guard | start, connect, disconnect, close, guard | provisioning, the tunnel service |
| Android client (`MainActivity.kt`) | one tunnel, one toggle | connect, disconnect | provisioning, GoBackend |
| Scripts (`pi-setup`, `server`) | none | install, patch a third-party portal | - |

### What is hard in each, and what correct means

*Fleet registry.* A handler is a sequence of SQL statements without a
transaction: an address is computed from `COUNT(*)` in one statement and
inserted in another. Requests overlap, clients repeat requests that timed out,
the process restarts, and the errors of several statements are discarded.
Correct means: an address has one owner, for good; a device is told the address
that is stored; a code is bound only to a stored customer; a failure that left
a customer without a Pi ends with the request it happened in.

*Address pools.* The arithmetic carries at host 254, and the pools meet.
Correct means: no address twice, within a pool or across them.

*Signaling hub.* Four kinds of goroutines meet in one mutex. A full channel
evicts its peer in the middle of a broadcast; a key that reconnects replaces a
connection whose goroutines are still running; the welcome is sent outside the
lock, before a writer exists; remote ends vanish without a FIN. Correct means:
the peer list everybody has converges to the registry, nothing crosses
networks, a relay precedes a punch and a punch has two sides, dead peers leave,
evicted peers notice, and the hub goes on serving.

*Rate limiter.* Window borders, equal times, refused calls. Correct means:
never more than the limit in a window, and never a refusal without it.

*Pi agents.* An agent never looks at the interface; it compares lists with what
it remembers. Heartbeats get lost or are served late, answers are truncated,
STUN and commands fail, agents restart, NATs remap, and customers are moved from
one Pi to another. Correct means: in the end every interface is the table, and
public address and load in the table are those of the Pi.

*Provisioning.* Each request is up to six separate effects on four stores, any
of which may be the last; the boot script works on the same stores without the
lock. Correct means: one allocation per address and per device, a known device
keeps its address, and a device that was answered keeps working.

*Windows client.* A tunnel that is up and leads nowhere takes the machine
offline (the kill switch), so that every way a connect can go wrong must end
with the tunnel removed. Handlers give the UI thread back at each await; every
command may fail, silently or not; the service moves on its own; the window may
be closed at any time, and a registration may be served after the client has
given it up. Correct means: one operation at a time, a failed connect leaves no
service, each operation ends with a button the user can press, and the
configured key is one the hub has had. It cannot mean that the service has
stopped: that is up to the service manager, and the client waits 8 s at most.

## 2. Modules

| Module | Models |
|---|---|
| `IPPool` | the two pools with their real capacities |
| `AddressBook` | the abstract specification: what a pool promises, whatever requests do |
| `FleetRegistry` | the REST handlers over the three tables, one statement a step |
| `SigHub` | the hub: handlers, writers, channels, the mutex |
| `RateLimiter` | `allow` and the clock |
| `Fleet` | several agents, the tables they share, customers that register and NATs that remap |
| `Provision` | `provision.py` and `apply-routes.sh` |
| `WinClient` | `RPN.cs`: its handlers, the tunnel service, the configuration file |
| `MC*` | the small instances of the module in their name |
| `IPPoolProofs`, `FleetRegistryProofs`, `SigHubProofs`, `RateLimiterProofs`, `FleetProofs`, `ProvisionProofs`, `WinClientProofs` | the theorems |

### How a module corresponds to the code

**FleetRegistry.** A table is a function from primary keys to rows. `req[r]` is
the local state of the handler in slot `r`: where it is (`pc`), whose request it
is, and the address and Pi it has found so far. Every SQL statement that a
handler executes is an action: `PiLookup` is `piByID`, `PiAlloc` is
`nextPiIP`, `PiUpsert` is `upsertPi`, and `CuValidate`, `CuLookup`, `CuPi`,
`CuPick`, `CuAlloc`, `CuUpsert`, `CuBind` are the statements of
`handleCustomerRegister`. `/pi/heartbeat` changes state in one statement
(`Heartbeat`), and so does `/admin/codes` (`AddCode`). `Silence` is the passing
of 120 s, `Restart` that of the process. With `Faults` a statement may fail and
the handler does what it does then, which for the discarded errors is to go on
with a zero record. `blind` is a history that no action reads: the request's own
`leastLoadedPi` has failed, so that it goes on without a Pi. An address is its index in its pool: `IPPool` shows that
indices are addresses. Uniqueness constraints are `Taken`. A statement outside
a transaction is an SQLite transaction of its own, so it is atomic. Connections
may meet a busy database: `_journal`, `_timeout` and `_foreign_keys` in the
connection string (`db.go:77`) are options of another driver, the one in
`go.mod` takes `_pragma=`. Such a failure is one of `Faults`, and the model does
not count on foreign keys.

**SigHub.** A connection `c` has a handler (`pc[c]`) and a writer
(`writer[c]`). What happens under `h.mu` is one step; `Broadcast` and
`Introduced` are the sends of `broadcastPeers` and `introduce` with the
evictions `trySend` makes in their course. Sends of `introduce` are threaded
through a record `Hub` because each of the four may close a channel the next
one uses; a send on a closed channel sets `panic`. `Greet` is the blocking send
of the welcome outside the lock, with the start of the writer after it. `Drop`
also closes the connection, which in the code happens right after the unlock
and touches nothing another goroutine waits for. A write to a remote end that
does not read may block for ever, so `Write` needs no fairness while the end is
up. Frames a connection may send are the constant `Frames`.

**Fleet.** `rows` is the table of customers, each with a key and a Pi; `cols`
holds the two columns of `pis` that heartbeats write. `Register` is
`handleCustomerRegister` as a whole, since `FleetRegistry` has its statements; it
leaves open which Pi is least loaded. `Measure` is the first half of `tick`
(STUN, the peer count, the request is sent), `Serve` the coordinator's handler
and the receipt of its answer: `UPDATE` and `SELECT` are one step, as what comes
between them only changes a list that may be incomplete anyway. `TimeOut` leaves
the heartbeat in `late`, from which `ServeLate` may serve it at any later time.
An endpoint is an address and the socket whose port it is. `nat` is the address
the NAT gives a Pi, taken to be one for all its sockets; `Stun` returns the
mapping of the socket `stunSRFLX` opens for one query, which is what the code
reports, and not that of WireGuard's port (Disagreements).
Then `syncPeers` handles one entry a step, in any order, one `wg` command at
most in each: `See`, `Mark`, `Forget` are its three map operations, `Command`
the command that may fail. `wg` is an interface: key to address, an address
being its owner's code; `Set` does what `wg set ... allowed-ips` does, which
takes the address from whoever had it. `Restart` loses `known`, and the
interface's peers too if the whole Pi restarts. `astray` is a history that no
action reads: the keys whose last command failed and the peers a stopped agent
has left behind, the only ones an agent can be wrong about. `Register` looks at
the endpoint of the chosen Pi in the step that assigns it; that the coordinator
picks in one statement and stores in another only lets it be out of date, as
it may be a moment later anyway.

**Provision.** `peers`, `live`, `conf`, `rules` are `peers.json`, the
interface, `wgd0.conf` and the policy routes. A request holds the file lock;
`req` is how far it is. Every file replacement and every command is an action,
and `Abort` may end the request after any of them. `Reboot` rebuilds the
interface from `conf`; `RoutesRead`, `RoutesApply` and `RoutesDone` are the
boot script, which interleaves with requests. `served` and `overlap` are
history variables that the properties need and the actions do not read, and so
is `missed`, the keys for which a command of the boot script has failed: its
`wg set` and `ip rule add` run with `check=False`, so that in `RoutesApply` each
of them may fail and the script goes on. They are two commands taken as one
step: no property tells them apart before the script is done.

**RateLimiter.** `windows` is `r.windows`, `granted` a history of all grants; a
call is its number and its time, so that the sets of them stand for slices. The
order in a slice decides nothing: the filter looks at times only. The clock is a
counter that may stand still between calls.

**WinClient.** A slot of `task` is a handler that has been started: which one
(`op`), the await it is at (`pc`), and the key it has generated. What the UI
thread does between two awaits is one step, and so is each awaited command;
`IsTunnelUp` is read once in a step, where the code may read it two or three
times in a row. `Click` is the guard the buttons are and the `SetButtons(false)`
every handler begins with, `Throw` what an exception leads to, `End` the two
lines after the `try`. `Run` throws only if a failing command also wrote to
stderr, so a command may also fail silently, and it waits for its command
without a timeout. The service is "ending" while it runs and "leaving" while it
does not (still starting, or stopping and not up by `IsTunnelUp`, but perhaps
blocking) when its removal has been accepted and it is not gone; either may last
for ever. A request that was given up stays in
`asked` and may be served at any time. `Close` is the end of the program at any
point. `stuck` remembers that the last removal of the service failed.
`RefreshIp` is a step that only ends the handler, since a second handler may
start before it does.

## 3. Runs

| Run | Instance | Shows |
|---|---|---|
| `pools` | all 2540 Pis, 2 customers | Pi addresses never repeat; below the last place they are no customer's |
| `registry_pis` | 3 Pis over 2 slots and 2 addresses, 1 customer | the Pi table is an address book (`PiBookSpec`), answers agree with it, customers keep a Pi that is heard (`CustomerKeepsPi`) |
| `registry_faults` | 1 Pi, 2 codes, overlapping requests for one of them, failing statements | addresses permanent (`AddressKept`), codes bound to stored customers (`BoundHasCustomer`), a missing Pi not passed on (`SoundRequestFindsPi`), `CustomerBookSpec` |
| `registry_retry` | the same, nothing fails | *violation*: an answer that is not the stored address |
| `hub` | 3 connections, two with one key in different networks, channels of 2, one may vanish | `RosterFresh`, `RegisteredOpen`, `NetworkIsolation`, `StopsOnlyFull`, `RelayFirst`, `PunchPaired`, `RegistrationEnds` |
| `hub_live` | 2 peers, 1 frame each, fairness | `Attended`; in the end `DeadPeerRemoved`, `EvictedClosed` |
| `hub_wedge` | 2 peers, one asks for the other | *violation*: the hub stops for good |
| `limiter` | 2 keys, a window of 3 ticks, 8 times | `AtMostMaxPerWindow`, `RefusedWithCause` |
| `fleet` | 2 Pis, 2 customers with 3 keys, 2 changes (registrations or remappings), 2 faults of any kind | `KnownIsThere`, `KnownHasAddress`, `TickReachesAnswer`; in the end `InterfaceIsTable`, `EveryCustomerServed`, `ColumnsFollow` |
| `provision` | 3 keys, 2 devices and legacy clients, 2 addresses, 1 abort, 1 reboot, failing boot commands | `AllocationsDistinct`, `DeviceKeepsIP`, `ServedWorks` |
| `provision_boot` | the same without aborts | *violation*: the boot script undoes a re-keying |
| `client` | 2 slots, 3 keys, every failure, commands that hang | `OneOperation`, `ButtonsBack`, `FailOpen`, `ConfIsPeer`, `OperationEnds` |

### Bounds and why they are enough

* `MaxPis` and `MaxCustomers` in `IPPool` pass the real Pi capacity, so that
  its guard and the border between the pools are reached. All 61950 customer
  addresses are covered by a theorem.
* `FleetRegistry`: the races are between two requests of one kind, over the
  same or different owners; a third Pi makes the pool run out and the losers of
  a race try again. `MaxLoad` is 0 as the load decides only between Pis.
* `SigHub`: `QCap` is 2 where the code has 64. What matters is that a channel
  can hold the welcome and one more message, be full, and be filled by another
  peer before or during an introduction, which needs four sends. `MaxFrames`
  bounds what a connection reads to one frame; two connections that read one
  each give both orders of a report and an introduction. Three connections are
  the least for a key that comes back while a peer talks to it. `Leavers` says
  whose remote end may vanish.
* `RateLimiter`: `MaxTime` is over two windows, so that a limit is reached,
  expires and is reached again.
* `Fleet`: `MaxChanges` and `MaxFaults` are 2 and shared by all kinds: a customer
  that registers and then re-keys or is moved, a remapping between two
  heartbeats, and any two faults before, between and after them, a late
  heartbeat served after a restart included.
* `WinClient`: one handler works while another's `RefreshIp` is still out, hence
  two slots; a third key lets two given-up requests be served in either order.
* `Provision`: three keys let a device re-key twice and another take the
  address of a third; `MaxAborts` and `MaxReboots` are 1, and an abort may
  precede or follow the reboot. Keys and devices are symmetric: no definition
  orders them.

`CHECK_DEADLOCK FALSE` stands where the system stops: a full pool, and a hub
that is wedged or whose bounded peers have nothing more to say.

### Fairness, and why the code justifies it

`SigHub!Fairness`: goroutines that can run do, and the mutex is fair (Go's
mutex hands over to a waiter after 1 ms). A read of a connection that was
closed on this side fails; a write to an end that is gone fails in the end
(TCP); the ticker of the writer fires. Nothing is assumed of peers: they need
not say hello, send, read or leave, and a vanished end need not be noticed by a
read. `Fleet!FairSpec`: `run` loops for ever and waits at most 72 s between
ticks (`backoff`), so an agent that can take a step does; its `wg` commands run
without a timeout (`main.go:109`) and are assumed to end. Faults stop after
`MaxFaults`, which stands for "not for ever"; a late heartbeat need never be
served. `WinClient!FairSpec` is fair to the steps in `Prompt` alone: requests and
probes have timeouts (20 s and 15 s), polling is counted, files are local. `Run`
(`RPN.cs:163`) waits for `msiexec`, `wg` and `wireguard.exe` without a timeout:
that they end is not assumed, and `OperationEnds` says that a handler ends,
reaches a message box or stays in such a command for ever. Nothing is assumed
of the user, who may never close the box, nor of the service or the hub.

## 4. Proofs

TLAPS proves the following for every value of the constants.

`IPPoolProofs`: the two pools keep their types; Pi addresses never repeat,
since `SeqIP` is injective (`SeqIPInjective`); addresses of both pools lie in
the ranges the comment at `db.go:234` gives, except the last Pi's
(`PoolsMeetAtPiCap`: index 2539 of the Pis is index 0 of the customers).

`FleetRegistryProofs`, without a bound on Pis, customers, slots or requests:

* `TypeCorrect`. `TypeOK` is not inductive: it must be known that a slot about
  to insert a customer has an address and a key of the right kind. `TypeInv`
  adds `PiReqOK` and `CuReqOK`, what a slot knows at each `pc`.
* `AddressesKept`, and the lemma that no two rows of a table share an address, rest on two lemmas, `PisStep` and
  `CustomersStep`: every step either keeps the addresses of a table (`Kept`)
  or adds one row with an address that nobody has (`Joins`).
* `BoundCodesHaveCustomers` uses `BindInv`: a slot at `bind` has its row.
* `PisImplementBook` (for `Faults = FALSE`) and `CustomersImplementBook` refine
  `AddressBook`. `PiBookInv` and `CuBookInv` say that the addresses in a table
  are exactly the indices below its row count, and that a slot that is about to
  insert holds an index at most the row count: so an index that no row has is
  the row count, whatever was inserted since it was computed. Failing
  statements do the customers no harm, since an unreadable row count is taken
  to be 0, which is taken; a Pi may then be stored with an empty address.
* `PatientRepliesAreRows`: if nothing fails and slots carry different owners
  (`OwnSlots`), that is, if everybody waits for an answer before asking again, the answered
  address is the stored one, and so is the Pi a customer is told.
  `registry_retry` shows that the assumption is needed.
* `SoundRequestsFindPi`, whatever fails: `PickInv` says that a slot past `CuPick`
  holds a Pi of the table, or the blank one if its own `leastLoadedPi` has failed,
  and that the table of customers refers to Pis of the table or to none.
* `CustomersKeepPi` (for `OwnSlots` and `Faults = FALSE`): a stored customer keeps
  a Pi that is heard. `KeepInv` says that a slot that has looked the customer up
  carries the stored Pi until it stores it. Both assumptions are needed: an
  overlapping request, or a lookup that fails, moves the customer. The code keeps
  a silent Pi as well; since the comment at `coord.go:499` has it otherwise, the
  property does not ask for that.
* `AddressesApart` composes the registry with the pools: with the capacities of
  the code, and the indices of the rows turned into addresses by `IPPool`
  (`INSTANCE IPPoolProofs`), no two devices of the VPN, Pis and customers
  together, ever have the same address, failing statements and restarts
  included - but for the last Pi and the first customer. (A Pi stored without an
  address has none.) `PlaceInv` says that indices in tables and requests are
  below the capacity of their pool.

`SigHubProofs`, for any connections, keys, networks and channel capacity:

* `TypeCorrect` (no channel ever holds more than its capacity),
  `RegisteredOpenHolds`, `NetworkIsolationHolds` and `RegistrationEndsHolds`
  follow from one invariant, `Inv`. It adds `Away` to the properties: a
  connection that has not said hello has an open channel, and one that has not,
  or that has left, is in nobody's registry. Without it a `Register` could
  bring back a connection whose channel `trySend` has closed, and a drop could
  seem to end another's registration.
* `introduce` is four sends, each on what the one before left, with a panic
  possible in between. `TrySendOK` says what one send keeps (`HubOK`) and whom it
  can evict (`Evicts`); `IntroducedOK` chains four of them with
  `EvictsTransitive`. All of it holds in the step that wedges the hub as well.

* `RelayComesFirst` and `PunchesArePaired` are about what one step appends. They
  rest on `Sends`, what one `trySend` does to the channels, and on
  `IntroducedPunches`, which follows the four sends backwards: the send of a
  punch found its channel open, so the relay before it was not refused, and
  everything appended since stays where it is.
* `StopsOnlyFullHolds` says exactly when the hub stops. `SendPanics` is what one
  send does to the space left in the channels, `IntroducedPanics` adds up four.
* `RosterFreshHolds`. That everybody knows the roster is no invariant, since it
  is announced some time after it changes. The invariant is `Heard`: a registered
  connection of a network *at rest*, in which no connection has an announcement
  to make (`Resting`), knows its members. A step after which a network rests is
  either an announcement in it (`AnnounceHeard`), which tells everybody, or has
  left alone all that could be known (`Calm`, one lemma for each kind of step).
  `RosterExact` is the same without the exception for orphans, where a key
  stays in one network.
* `AttendedHolds` is the safety half of `DeadPeerRemoved` and `EvictedClosed`:
  who has to act for them to come true is there. It needs that only a hello
  registers a connection (`RegistersOnce`).

`RateLimiterProofs`, for any limit, window and number of keys: `TypeCorrect`,
`LimitHolds` and `RefusalsHaveCause`. `Inv` adds `Remembers`: every grant that
still counts is in its key's window. A grant thus sees all grants of the last
minute, and a minute that holds it holds no earlier ones but those.

`FleetProofs`, for any Pis, customers, keys and numbers of faults:

* `TypeCorrect` and `KnownIsThereHolds`: what an agent takes to be on its
  interface is there and nothing else is, astray keys apart. `Inv` is `TypeOK`
  with `KnownIsThere`; the former must know that `seen` is part of `known`.
* `KnownHasAddressHolds`, if customers have keys of their own (`KeysApart`, as in
  the run): a key that is skipped because it is known has its customer's
  address. Its invariant `AddrInv` has three parts: a list has one entry per
  customer, and none for a customer whose key it has had already (`Lists`); an
  address goes to keys of its customer only (`Owned`); and a known key without
  address was displaced in this tick, by another key of its customer, and is not
  in the list, so that the second loop will remove it (`Displaced`).
* `TicksReachAnswers`, the safety half of `InterfaceIsTable`: the steps of a tick
  keep what is due (`Due`), and when the tick is done the interface is that.

`ProvisionProofs`, for any keys, devices and pool:

* `TypeCorrect`. The type of `conf` says that it has at most one stanza per key.
  `conf` is a sequence, and that a re-keying takes a stanza out without making
  two of one follows from `RemoveAtProperties`, as the stanzas of a key are at
  most one.
* `AllocationsStayDistinct` (the addresses of `peers.json` are distinct, and so
  are its devices), `DevicesKeepIP`, and `ServedKeepWorking`, whose invariant
  says for each pc of a request which of its effects are done (`ReqOK`, `ReqSet`),
  and for the boot script which peers it has still to set (`BootOK`). A key for
  which a command of the boot script failed is excepted until it is provisioned
  again.

`WinClientProofs`, for any number of slots and keys: `TypeCorrect`,
`OneOperationHolds`, `ButtonsBackHolds`, `FailOpenHolds` and `ConfIsPeerHolds`.
The invariant adds `Working`, that no handler works while a failed connect is
reported and that one waiting for a removal has asked for it, and `Asking`,
that the newest key is the one in the file or the one being asked for because
there is none. `FailOpenHolds` says that a service left over by a failed connect
is on its way out, not that it has stopped.

Every safety property of every passing run is thus a theorem. Only model-checked
are the liveness properties, which are out of TLAPS's reach: `DeadPeerRemoved`,
`EvictedClosed`, `EveryCustomerServed`, `InterfaceIsTable`, `ColumnsFollow` and
`OperationEnds`; `Attended` and `TickReachesAnswer` are what could be proved of
them. The types of `RateLimiter` and `WinClient` are proved and not checked.

## 5. Disagreements

Three have a run, whose counterexample is the shortest way to see them:
`registry_retry`, `hub_wedge` and `provision_boot` (`findings` in
`PROJECT.json`). The model contains the following as well, and no run is spent
on them:

* `db.go:126`: a heartbeat whose STUN query failed, or one served late,
  overwrites the endpoint with an empty or an old one. A customer that comes back
  is then given a configuration that leads nowhere, until the next tick
  (`ColumnsFollow` is what is left).
* `coord.go:500`: the column `active` is never set to 0. A customer is sent
  back to a Pi that has long been silent, against the comment at `coord.go:499`
  ("or Pi went inactive"). `CustomerKeepsPi` takes no side in this.
* `agent/main.go:59`: STUN is asked from a socket opened for the query. A mapping
  is per source port (`coordinator/ARCHITECTURE.md:18`), so the port customers
  are told is not that of WireGuard's port 51821 (`setup.sh:17`, `setup.sh:87`)
  but of a closed socket, behind which nothing listens. `ColumnsFollow` therefore
  speaks of the address only.
* `apply-routes.sh:40`, `apply-routes.sh:42`: a failing `wg set` or `ip rule add`
  is ignored, and the device stays without peer or route after "rpn exit routes
  applied" (the exception `missed` in `ServedWorks`).
* `coord.go:391`, `coord.go:501`: the error of `piByID` or `leastLoadedPi` is
  discarded and the zero record used. A Pi can be stored with an empty address
  for good, a customer without a Pi.
* `db.go:241`: the capacity of the Pi pool admits index 2539, which is
  10.100.10.1, the first customer's (theorem `PoolsMeetAtPiCap`).
* `coord.go:322`: the eviction of an old connection removes the registration of
  the new connection with its key, which is then served but in nobody's list.
  When the new one is in another network, an introduction in the old network can
  do this, and the members of the other one are not told: they go on listing a
  peer that nobody can be introduced to. The proof of `RosterFresh` met this case,
  which takes four connections; the property excepts such orphans.
* `coord.go:345`: besides a full channel, an evicted peer stops the hub if a
  `connect` it had sent before is read, as its channel is closed already. So does
  a peer with two places left that asks for itself. `StopsOnlyFull` lists all
  the causes.
* `coord.go:487`: of two overlapping requests of one customer the later one may
  move it to another Pi, or be told a Pi that is not the stored one
  (`CustomersKeepPi` and `PatientRepliesAreRows` exclude overlaps).
* `coord.go:329`: exits are in the network `fleet`, clients in the network of
  their code, which is `default` unless the administrator names another.
  `introduce` ignores a target of another network.
* `coord.go:352`: `onResult` changes `directOK` and pushes nothing, while
  `protocol.go:11` says the list is pushed on any change. `RosterFresh`
  therefore compares connections and candidates only.
* `agent/main.go:286`: a key is marked known although the `wg` command failed,
  and is not tried again as long as it is listed. The properties of the run say
  that this harms no other key. `agent/main.go:284`: a known key is not added
  again, so that a device that moves from one code to another keeps the address
  of the first; the run gives each code keys of its own.
  `agent/main.go:228`: a customer that leaves while the agent restarts stays a
  peer. `agent/main.go:201`: a truncated answer removes every peer until the
  next tick. `EveryCustomerServed` and `InterfaceIsTable` state what is left.
* `provision.py:132`: a request that ends between saving `peers.json` and
  removing the old key leaves the old key in `wgd0.conf` for good.
* `agent/main.go:271`: `status.ok` is set by the first good tick and never taken
  back, so `/healthz` goes on saying `"ok":true` when every heartbeat fails.
* `coord.go:119`, `coord.go:714`: without a TURN secret the coordinator hands out
  an HMAC as the password, while the relay expects the user name; the relay that
  `coord.go:829` calls open refuses the coordinator's own credentials.
* `setup.sh:33`: under `set -euo pipefail` a missing Serial line ends the script
  before the fallbacks below it. The last of them (`setup.sh:39`) contains the
  time, so that a second run registers the same key under a new serial, which
  `pubkey UNIQUE` refuses.
* `RPN.cs:295`: "Connect failed - internet restored" is shown also when
  `SafeDisconnect` has swallowed a failed removal (`stuck` in `FailOpen`), and so
  is "Connect failed" behind the comment "never leave a half-up kill switch"
  (`RPN.cs:306`). Both are shown after 8 s in any case, so that an accepted removal
  may not have taken effect yet: the service may still run, or, also behind
  "Disconnected", be stopping and block until it has. `FailOpen` says no more than
  that it is on its way out.
* `RPN.cs:163`: `Run` has no timeout and reads one pipe to its end before the
  other, so that a command that hangs keeps its handler, and both buttons
  disabled, for ever (the exception in `OperationEnds`).
* `RPN.cs:337` says that the probe "only succeeds if traffic genuinely egresses
  via the Pi". A service that stops during the probe lets it succeed outside the
  tunnel, and the client says "Connected".
* `RPN.cs:188`: a start of the program that finds a running service says
  "Connected" without the probe; closing the window during a connect leads there.
* `RPN.cs:222`: a configuration file that was not written to its end counts as
  registered for good.
* `RPN.cs:192`: after a failed setup both buttons stay disabled.
* `RPN.cs:233`: a request that timed out may be served after its successor; the
  hub then has the older key and the client's tunnel stays mute
  (the exception in `ConfIsPeer`).

## 6. Not modelled, and why

* TURN, STUN and the HMAC credentials: library code or stateless.
* Admin lists, `/healthz`, `/exit/info`: reads that change nothing.
* The length of the agent's backoff, which decides when a tick runs and is left
  open, and the status for its health endpoint, which nothing else reads.
* NAT and firewall lines of `apply-routes.sh`: no property is about them.
* The Android client: one toggle with a background thread around a library that
  does the work; what could be modelled of it is the library.
* Of the Windows client: the IP label, progress messages, and a second instance
  of the program, against which the code has no guard.
* Install scripts and the portal patch: straight-line operations work.
* The rate limiter in front of a handler: a refused request changes nothing,
  so the handlers' models leave the refusal out.

## 7. Plan

All modules of the original plan are written: `IPPool`, `AddressBook`,
`FleetRegistry`, `SigHub`, `RateLimiter`, `Fleet` (which composes agents and
tables), `Provision` and `WinClient`, and every safety property is proved. What
`Fleet` takes from `FleetRegistry` is proved there: a registered Pi
(`SoundRequestsFindPi`), kept, silent or not, unless requests overlap (shown in
the proof of `CustomersKeepPi`; the disjunct with `Fault` in `Register`), and an
address that is the customer's own (`AddressesApart`, `AddressesKept`). What
remains:

1. The step `Register` of `Fleet` as a refinement of the statements of
   `FleetRegistry`, which would put the three theorems above into one.
2. More safety halves of the liveness properties: for `OperationEnds`, that each
   await of a handler has an end; for `EveryCustomerServed`, that a customer
   assigned to a Pi is due in its next complete answer.
