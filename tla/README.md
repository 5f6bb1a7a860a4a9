# A TLA+ model of v6Space

v6Space is an overlay network node written in Go: it derives an IPv6 address
from its public key, keeps links to peers, finds more of them by multicast,
passes IPv6 packets between a TUN device and a routing library, and is
controlled over HTTP. This directory holds TLA+ models of the parts with
concurrency, timers or non-trivial algorithms, TLC configurations that check
them on small instances, and TLAPS proofs for instances of any size.

Paths below are relative to the repository (`src/core/link.go` and so on).

## Inventory

| Part | State | Operations | What is hard | What makes it correct |
|---|---|---|---|---|
| Key store (`src/ipv6rwc`) | key infos, index by address and subnet, one buffered packet per destination, a timer on each | `Write`, `Read`, out-of-band lookups and answers, timeouts, `SetMTU` | callbacks of timers that were reset too late; keys that share a subnet; packets sent after the mutex is released | a packet goes to the right key, at most once; nothing waits for a known key; nothing stays without a timer |
| Addresses (`src/core/address.go`) | none | key → address, subnet; address, subnet → partial key | bits, truncation, off by one | the owner of an address recognises a lookup for it, and the lookup leads towards the owner |
| Links and peer list (`src/core/link*.go`, `api.go`, `core.go`) | `_links`, `_peers`, dial and handler goroutines, retry timers | add, remove, call, dial, accept, handshake, drop, retry, stop | check and mark are two actor steps; entries deleted by another handler; retries after removal and after stop | no stale entry; a reachable peer comes back; stop ends everything |
| Handshake (`link.go`, `version.go`) | one connection, two handlers | write, read, check, give up | each end decides alone; silence | only admitted links come up; the ends agree; no handshake hangs |
| Listeners (`link*.go`) | `_listeners` per link type, accept goroutines | listen, accept error, `Close`, `shutdown` | an actor is held while it waits for a goroutine that needs it | stop returns, and no listener is left |
| Peer loop (`core.go`) | a timer | loop, `RetryPeersNow`, `Stop` | the timer is read outside the actor; its channel is nil | the loop never dies before stop, and does after it |
| Remote requests (`proto.go`, `nodeinfo.go`) | request tables, one-slot channels | ask, answer, time out, clean up | replaced callers, late and double answers, late cleanups | the actor never blocks; a request has its full minute; none stays for ever |
| Multicast (`src/multicast`) | interface snapshot, listeners, a timer, a reader goroutine | announce, `AnnounceNow`, `Stop`, receive | interfaces and addresses change; stop overtakes the reader | announcing goes on; listeners follow addresses; stop ends reader and timer |
| REST: configuration (`src/restapi`, `src/defaults`) | the file, the running peer list and nodeinfo | POST, PUT, DELETE peers; PUT nodeinfo; restart | concurrent read-modify-write, truncation, one of several steps failing | what was stored is there after a restart |
| Server events (`src/restapi`) | a channel of ten events, the update timer, goroutines of health tests and updates | `PeersChangedSignal`, POST health, GET sse | sends that block until somebody polls; a timer that polls share without a lock | a link is never held up; tests and updates reach a client that keeps polling |
| TUN adapter (`src/tun`) | the device, a reader and a writer goroutine | read, write, stop | each goroutine blocks in something that another part closes | both end with the program |
| Programs (`cmd/mesh`, `contrib/mobile`) | the running parts, some of them nil | start, interrupt, stop, `RetryPeersNow` | each stop waits for an actor that may wait for another one; parts that were never made | an interrupted program ends, and nothing accepts connections afterwards |

The parts interact like this. The TUN adapter reads from and writes to the key
store, which sends through `Core.WriteTo` and is called back by the routing
library (lookups, packets). The peer loop, the REST server and the multicast
reader call `links.call`; listeners and dials both end in `link.handler`, which
gives the connection to the routing library. The multicast announcement opens
and closes listeners. The REST server changes the peer list and the nodeinfo
and asks remote nodes through the proto handler. The program stops multicast,
TUN, core and REST server, in this order. A link that comes up or goes down
emits `PeersChangedSignal`, whose callback is in the REST server.

Actors (`phony.Inbox`) run one function at a time; `phony.Block(a, f)` waits
until `f` has run on `a`, `a.Act(nil, f)` does not. In the models one function
on an actor is one step, and so is one section under the key store's mutex.

## Modules

**KeyStore** – one action per locked section: `Write` (`writePC` with
`sendToAddress` or `sendToSubnet`), `oobHandler` and `readPC` (both call
`update`), `readTooBig`, `SetMTU`. Addresses and subnets are treated alike as
destinations. A timer that fires leaves its callback waiting for the mutex
(`infoTimerFires`, then `infoTimeout`), and a callback that waits survives
`timer.Stop()`. `readPC` is the critical section of `update` in `readPC`, and
`ReadReturns` the return of `Read`: between the two everything else goes on. Infos and buffers have identities because the code compares
pointers. Packets carry their destination; `written` is what `Core.WriteTo` got.

**Router** – what the key store promises, without objects, timers and callbacks:
a table of routes, and packets that are sent once to the key their destination
is routed to, wait alone while there is no route, or are lost. `KeyStore!Host`
is the refinement mapping: a route is the key of the info an index entry points
to, a packet is pending while a buffer in the map holds it. `Routes` says that the
key store implements the router.

**Address**, **KeyLookup** – the conversions of `address.go` on keys of a few
bytes, as functions from bit positions, with the shape of the real ones
(prefix, count of ones, remaining whole bytes). KeyLookup follows one lookup: a
sender asks for the owner of an address or subnet with a partial key, and a
node reached by it decides whether to answer.

**LinkTypes** – what differs between tcp, tls, unix, socks, sctp and mpath: does
`dial` look its linkInfo up, does it honour the context, does `listen` register
the listener; and the types `links.shutdown` goes through. The listed types are
those of Linux; other systems have no SCTP, and on Android mpath does look its
linkInfo up.

**Links** – tasks: each is a connection from the call through the dial to the
handler. `call` computes one linkInfo (from the URI), the dial another (from
the resolved address), which are different for host names: `CallInfo` and
`DialInfo`. A connection is made in one step (`dialled`, where a dialer with the
context of the node looks at it for the last time) and reaches a handler in
another one (`create`). Core.Stop is two steps, the cancel of the context and
the closing of listeners and packet connection, between which all but the core
actor goes on. `adding` counts, per peer, the calls of `AddPeer` that have called
the peer and not stored it yet. `RemovePeers` models the closures that share their loop variable
(go.mod asks for go 1.18).

**Handshake** – both ends of the exchange in `link.handler`, for all versions,
keys, pinned and allowed keys. `runs` says which ends run this program. One
that does not sends any metadata, be it the key of another node, and is
up or closed as it likes. Any end may go silent at any point, before it has
sent its metadata or after (`hang`), and may lose its connection.

**Listeners** – accept goroutines, `Listener.Close` and `links.shutdown`, with the
actor of the link type that shutdown holds. It has no callers of its own.

**PeerLoop** – the timer of `_addPeerLoop` and the three unsynchronised reads of
it in `RetryPeersNow` (`RetryPeersNow`, `retryStop`, `retryReceive`): the state of the timer in the field, and how many replaced
timers still run. `time.AfterFunc` returns a timer whose channel is nil.

**Node** – a running program and its stop: instances of Listeners and PeerLoop, the
actor of the multicast module as far as it opens and closes listeners, reader
and writer of the TUN device, and the REST server, which may be nil, as far as its
`Shutdown` waits for requests in flight. Its initial states are those of `cmd/mesh` and of
the phone, which has no TUN goroutines, alone calls `RetryPeersNow`, and has no
multicast module where no interface is configured. The handler of the interrupt
goes through the parts as the code does, waiting for the actor of each. A panic
of any goroutine ends the process (`Alive`). After `done` main returns; what goroutines would
still do then is allowed and not required.

**ServerEvents** – the event channel with its senders and polls. A queue stands
for the channel: what is beyond its capacity belongs to goroutines blocked in
their sends. Polls are split where they read or write the field `updateTimer`.

**Requests** – callers of `getSelfHandler`, `getPeersHandler`, `getDHTHandler`
and the nodeinfo handler. A slot is one entry of one of the tables. The three
debug tables have a timer per request, the nodeinfo table a periodic cleanup
(`NodeInfoSlot`).

**Multicast** – the announcement as one step of the actor, the environment that
changes interfaces and addresses, the reader.

**ConfigFile** – REST requests that change peers and nodeinfo, with the steps of
`saveConfig` and `os.WriteFile`, bodies that cannot be decoded, files that cannot
be read, opened or written, and restarts from the file. An
empty file is a configuration with nothing in it, so `ReadConfig` returns the
generated one.

The `MC*` modules give the constants of the `.cfg` files. Operators whose
comment begins with "Mutant" are variants with a plausible bug; the properties
fail for them, and no specification uses them.

## What is checked

| Run | Result | Shows |
|---|---|---|
| KeyStoreAll | holds | two keys with a common subnet: the router is implemented, no wait for a known key, sound and complete index, no leak; the source of what `Read` accepts has a route back, which only its own timers end; without traffic the store becomes empty |
| KeyLookupAll | holds | all 16-bit keys: a lookup has the right prefix and its owner answers; the key asked for agrees with the owner's on every bit the destination shows |
| LinksAll | holds | no entry of `_links` outlives its handlers; a reachable configured peer is connected again and again; retries end; for a type that dials with the context, stop ends all links for good |
| LinksConnectOnce | fails | two handlers of one linkInfo both connect |
| LinksRemoval | fails | `RemovePeers` follows a nil linkInfo |
| HandshakeAll | holds | an end comes up only if its configuration admits the other node, or what a node of another program claims; two nodes of this program agree unless one goes silent; no hanging handshake |
| NodeStop | holds | an interrupted program ends if the REST requests in flight do; nothing accepts after the core has stopped; the peer loop lives until stop and no longer; the TUN goroutines end |
| RequestsAll | holds | the actor never blocks, requests keep their minute and go after it, the tables are consistent |
| ServerEventsAll | holds | the handler of a link is never held up; every health test and update after update reach a client that keeps polling |
| MulticastAll | holds | announcing continues, listeners follow addresses, stop is quiet and the reader does not panic |
| ConfigSequential | holds | one request at a time: a stored peer list survives |
| ConfigConcurrent | fails | concurrent saves undo each other |

The runs that fail check what a comment or a description in the repository
says; `PROJECT.json` quotes it under `findings`.

### Observations without a run

The models contain these too, or leave them out where it says so; no property
is stated that they would refute.

- A link that `CallPeer` made is dialled again up to three times when it drops
  (`link.go:216-237`), although `api.go:267` says it is not.
- SOCKS and SCTP dial without the node's context (`link_socks.go:36`,
  `link_sctp_linux.go:55`) and the retry does not look at it: such a link is
  dialled again and again after `Stop`. `StopEndsLinks` is therefore checked
  for a type whose `context` is TRUE.
- `links.shutdown` (`link.go:61`) leaves out mpath and sctp: their listeners go
  on after `Stop`. `StopClosesListeners` is checked with TLS ones and proved for
  every type that shutdown goes through.
- The phone's `Stop` panics on the nil multicast module if no interface is
  configured (`mobile.go:181`), and it and `cmd/mesh` panic on the nil REST server
  where `NewRestServer` has failed (`main.go:345`). `ProgramEnds` names both
  outcomes and says that they occur in these cases only.
- `RestServer.Shutdown` passes `context.Background()` (`rest_server.go:219`): a
  request that never ends, say because its client does not read the answer, keeps
  the program from ending. `ProgramEnds` has the end of requests for a
  hypothesis.
- An end whose remote sends its metadata and then goes silent comes up and stays
  up alone: the six seconds are over with the handshake (`link.go:143`), and only
  `HandleConn` can end it. `Agreement` exempts silent ends.
- The metadata is not signed. A node of another program comes up under any key it
  claims, pinned and allowed ones included, which `link.go:165` calls "a bit of a
  weak check"; what the routing library does with the connection then is not modelled.
- The packet that `Read` returns may have a source that is not routed any more: a
  timer callback of its key info that waited for the mutex during `update` deletes
  the info after the unlock (`ipv6rwc.go:154`), and the answer needs a lookup.
- A dial that has its connection when `Stop` cancels the context is handed to a handler
  all the same, and is ended there by the closed packet connection.
- `RetryPeersNow` waits for ever on the nil channel of an `AfterFunc` timer if
  the timer has fired (`core.go:141`); `mobile.go:190` promises a retry. If the
  core stops between its three reads of the field, it panics.
- The reader of the TUN device returns on the first error (`iface.go:9`) and nothing
  starts it again; the program goes on without it.
- The peers event is built before it is sent, is dropped if the channel is full,
  and two of them may change places (`rest_server.go:167`): a client may keep an
  old list until the next change. Two polls share the event counter, so ids may
  repeat.
- `AnnounceNow` has the same receive, on the actor itself (`multicast.go:218`):
  announcements, `Stop` and the reader then wait for ever. Nothing in the
  repository calls it; the properties are stated for an actor that does not hang.
- `_getAllowedInterfaces` takes the first matching entry of a map whose order
  is random (`multicast.go:194`); `config.go:34` speaks of the first entry.
- An error of `Accept` ends a listener's goroutine for good, but its entry stays
  and beacons go on announcing the closed port (`multicast.go:303`). Since
  the death changes nothing that multicast keeps, the module has no step for it.
- POST of peers saves only if adding one has failed (`rest_server.go:615`), or if its
  body cannot be decoded, in which case it stores an empty or partial list for
  the one that was there and adds no peer; and a nodeinfo that was refused is saved all the same (`rest_server.go:399`), after
  which the node cannot start from the file.

### Bounds

- KeyStore: two keys, two packets that compete for a buffer and one with a
  foreign source, two identities each for infos and buffers. Each hazard
  involves two timers of one object, or two objects for one destination; two of
  each suffice, and the proofs do not have the bound. An identity is used again
  once nothing refers to it. MTUs
  are 1 and 2, packets of these lengths are read, and a caller asks for less and
  for more (`Size`, `Requested`).
- Links: two or three tasks, one or two peers. A race needs two tasks with one
  linkInfo, and a third one to see its effect. `MaxActs` bounds the queued
  closes, `MaxAdds`, 2, the calls of `AddPeer` for one peer that are under way at once. In LinksAll a dial is repeated up to `MaxAttempts`, 2, for
  3 in the code and in the other two runs. Two retry timers of one peer and attempt count as one.
- KeyLookup: all keys of four bytes of four bits, so that, as in the real shape, the
  count of ones wraps exactly at the length of a key. Addresses show two bytes and
  subnets one: keys whose remaining bits fill the destination and keys whose
  bits end before it both occur; the proofs hold for any lengths. A lookup reaches the owner or a node whose key
  differs from the owner's in one bit.
- Node: two TLS listeners, so that an iteration of shutdown has a next element
  and tcp and unix come before and after it; two callers of `RetryPeersNow`, one to
  stop the timer under the other. `MaxLoops`, 2, bounds timers and queued runs together:
  without a bound a caller that is faster than the timer multiplies the loops.
  `MCInit` leaves out initial states: one of two that differ only by an exchange
  of the listeners, and those without a REST server but with listeners, since
  nothing but the last call of the program depends on the server. A request in flight
  counts from the call of `Shutdown` on. The proofs have all initial states.
- Handshake: two keys, two versions, all sets of pinned and allowed keys.
- Multicast: `MaxLoops` likewise; the longest interval is scaled from 15 to 2. The
  proofs hold for any interval and any `MaxLoops`.
- ServerEvents: a channel of one for one of ten, two tests, one handler and two
  polls: the channel fills, each kind of sender can be the one that is blocked, and
  polls race for the timer. `MaxUpdates`, 2, stops the timer while two updates wait for
  room, each of which may be between its two events. The proofs hold for any of these sizes.
- Requests: two slots, three calls: a caller, one that replaces it,
  and one that comes after.
- ConfigFile: two valid peers and an invalid one, a nodeinfo that fits and one
  that does not; two requests at a time for the race.

Deadlock checking is off where the system may come to rest: stopped nodes,
finished connections, closed listeners, idle actors.

### Fairness

Weak fairness of goroutines, actors and timers: the Go scheduler runs what can
run, `AfterFunc` timers fire, deadlines pass. Beyond that:

- `Links!Reachable`, a hypothesis of `PeerReconnects`, says that from some time
  on no dial and no handshake fails, and that the loop's timer is strongly fair
  (the bound on tasks can disable the loop for a while; goroutines have none).
- `HandleConn` returns after stop, since the packet connection is closed
  (external).
- `Multicast!FairSpec`: `Listen` that is tried again and again on an interface
  succeeds some time.
- `Node!FairSpec`: the handler of the interrupt goes on, accept goroutines and the
  peer loop run, a read of a closed device returns. Nobody need interrupt
  the program, call `RetryPeersNow`, or let `Accept` fail before its socket is closed.
  Strong fairness for `retryAct`, which only the bound disables. That requests end is
  not assumed: it is the hypothesis of `ProgramEnds`.
- `Handshake!HandshakeFairSpec`: for an end that runs this program the deadline passes,
  and a connection that the other end has closed ends `HandleConn`. Nothing is
  assumed of other programs and silent ends.
- `ServerEvents!FairSpec`: that clients poll is not assumed; `Polled` is a hypothesis of
  the properties that need it, and `HandlerNotHeld` does without.
- Nothing is assumed about remote nodes, dropped connections, the environment's
  changes of interfaces, requests, crashes.

## What is proved

Eight modules hold TLAPS proofs. All theorems are for any finite sets and any
number of tasks, keys, timers, listeners and callers.

A liveness property says that something happens because steps are scheduled and
because the state never stops promising it. The first half is fairness, which
TLC checks on an instance. The second half is an invariant, and several theorems
below prove it for every instance: they are called the safety core of a property.

- **KeyStoreProofs**: from `KeyStoreAssumption`. `Invariance` proves the inductive
  invariant: types; an index entry points to a current info of a key that the
  destination belongs to; no buffer at a known destination; every info and
  buffer in a map has a running timer or a waiting callback; an identity that
  is not in use is in no map; a buffered packet is not written yet. The last
  two are not visible in the properties: without the first a callback might
  delete a reused identity, without the second a flush might write twice.
  (`WaitingUnsent`, the last one, and `Delivery` are proved and not part of the
  run, where the router says the same.) From it follow `TypeCorrect`, `NoWait`,
  `IndexSound`, `LeakFree` (the safety core of `QuiescentDrains`) and `Delivery`. `Replies` says that the source of a packet that `Read` accepts is routed to its
  sender at the unlock, and that only a timer callback of the sender's own infos takes
  the route away. `Completeness` and `Replies` speak of
  destinations that one key alone has: with a shared subnet the newer key takes
  the index over, and when it expires the older one is known but not indexed.
  `Implementation`: every behaviour of the key store is one of the router. The
  initial states correspond, and under the inductive invariant each step is a
  step of the router or changes nothing there. The invariant is needed twice: a
  timer callback deletes the routes of one key and of no other because the index
  is sound, and learning a key releases exactly the packets in the buffers of its
  destinations because nothing else waits there.
- **KeyLookupProofs**: from `AddressAssumption` and `KeyLookupAssumption`, which the
  sizes of the code satisfy (a byte of 8 bits, keys of 32 bytes, addresses of 16,
  subnets of 8, prefix 0xfc). `OwnerRecognises` and `BitsRecovered` say of keys
  of 256 bits what the run sees of keys of 16. The number of leading ones is a
  maximum over a set; it is shown to be the position of the first zero, which
  exists as a least element. The key recovered from an address then has as many
  ones as the owner's and the same bits behind them. The count wraps to zero for one key
  only: the inverted key has 256 ones where the key is all zeros.
- **LinksProofs**: from `LinksAssumption`. `NoStaleEntry` is inductive together
  with `TypeOK` and `TaskConsistent` (a task that handles a link has a
  linkInfo, a dial has a peer). The argument: an entry is written by a handler
  that has not ended; when a handler ends it deletes the entry, whoever wrote
  it, so what is left was written by another one that still runs.
  `NoLinkAfterStop`, the safety core of `StopEndsLinks`: where all dials use the
  context of the node and all listeners are of types that shutdown goes through, no
  dial makes a connection after the cancel of Core.Stop, and after its shutdown the
  set of connections only shrinks; those dialled before the cancel may reach their
  handlers afterwards. tcp, tls and unix satisfy both hypotheses, mpath
  the first only, SOCKS and SCTP neither (see the observations).
  `OnlyAdmitted` is about Handshake: an end of this program judges what it reads before it is
  up, and what a node of this program has sent is its own metadata. Of a node of
  another program the theorem says what it claimed and no more. `Agreement` is
  model-checked only.
- **NodeProofs**: `TypeCorrect`, and `ListenersClosed` where all listeners are of types that
  shutdown goes through. Three facts are inductive together: types; once the
  multicast module is stopped, no listener is about to be registered; no listener of
  a type that shutdown has passed accepts. The second one holds because the
  stop runs on the actor that opens listeners, and the third one needs it,
  since shutdown visits what is registered when it comes to a type.
  `CloseGoesOn` is a safety core of `ProgramEnds`. In every state (`CloseInvariance`)
  whoever waits in `Listener.Close` waits for a goroutine that was started and whose
  socket is closed; the theorem shows that then the step of this goroutine towards
  the closing of its channel is a step of the program, one that `FairSpec` promises, whatever
  actors are held. (The enabledness of a step is shown by its outcome, `GoesOn`, since
  the prover has no ENABLED.) It would not hold if the channel were closed on the
  actor of the link type, as in the mutant `closeChannelLast`. That the other waits of the stop
  end is model-checked.
  `LoopNeverLost` and `NoTimerAfterStop` are those of `LoopKeepsRunning` and
  `StopEndsLoop`: before the stop a run of the peer loop is queued, or a timer or a
  caller of `RetryPeersNow` will queue it; after it nothing starts a timer.
  `RetryPanicsAfterStop`: the panic of `RetryPeersNow` needs a core that has stopped.
- **RequestsProofs**: `NonBlocking`, `FullMinute`, `Consistency` and `TypeCorrect`,
  inductive together with `CallPhases`, which relates the table, the queue, the timers and the channel of a call: a call
  that is registered has not been answered, so its channel has room.
- **MulticastProofs**: `TypeCorrect`, `ReaderQuiet` and `ChainUnbroken`, the safety core of
  `BeaconsContinue`; `ListenersLeave`, that of `ListenersFollow`: an announcement closes
  what listens on an address that is gone, and nothing opens a listener there.
  Inductive: the socket is open exactly as long as the
  module is, so a reader that has found it closed can only learn that the module
  is stopped; timers and queued announcements keep their common bound.
- **ConfigFileProofs**: `TypeCorrect`, and `Persisted` under each of two
  hypotheses: requests come one at a time (`OneAtATimePersists`, the setting of
  ConfigSequential), or any number of requests overlap but between the moment one of them reads the
  file and the moment it has written it no other does either (`SavesApartPersist`). The second one
  says that a lock around `saveConfig` alone would be enough; the code has
  none, and ConfigConcurrent shows what follows. The invariant: while no save is
  under way, the file has the promised peers, and a save that is under way has read them.
- **ServerEventsProofs**: `TypeCorrect`; `NoResultLost`, the safety core of
  `HealthPrinted`: a result that is not printed is in the channel or with a blocked
  sender, exactly once; `TimerNeverLost`, that of `UpdatesPrinted`: polls that find and
  replace the update timer without a lock never leave one that neither runs, nor has a tick
  waiting, nor is about to be started again.

Only model-checked: what needs fairness (PeerReconnects, StopEndsLinks,
ProgramEnds, QuiescentDrains, Agreement and so on), because ENABLED and liveness
are out of the prover's reach. Every invariant that a run finds to hold is
also proved.

## What is not modelled

- The routing library (ironwood), third-party: the models use what the code
  expects of it. `HandleConn` returns when a connection ends, `WriteTo` may lose
  packets, out-of-band messages may be lost, doubled and delayed.
- What server events say, and the order of their ids; the REST handlers that only
  format what the core returns; the web interface and its authentication.
- Flags, parsing, formatting, tables of defaults, socket options, the set-up of
  devices, and the failures of start-up, after which the program does not run
  (a REST server that could not be made is in Node).
- The copy loops of the phone, which its own application drives.
- A read error of the multicast socket while the module runs: the code panics,
  by its own decision.
- A late callback of the key store may delete an info that was used a moment
  before, or drop a packet that has just replaced the buffered one. Both only
  cost another lookup; no property says they cannot happen.

## Plan

1. An abstract peering (absent, connecting, connected) implemented by Links.
2. Two key stores that look each other up through a network that loses and
   reorders.
3. Multicast's discovery composed with Node, so that its listeners have the
   addresses and interfaces they stand for.
4. Proofs: the rest of the safety core of `ProgramEnds` (who waits for which actor), and that
   of `HandlerNotHeld`.
