# TLA+ verification of ws-gateway

ws-gateway is a WebSocket gateway node: clients keep a long connection to it,
upstream messages are forwarded to business backends, backends push downstream
messages through it, and a webhook starts further nodes when the load grows. This
directory models the parts of the system in which several goroutines or nodes
share state, checks them with TLC and proves the safety properties that TLC
checks on small instances for every instance with TLAPS.

## 1. Inventory

| Part (source) | State | Operations | Interacts with | Hard about it |
|---|---|---|---|---|
| Connection limiter (`internal/limiter`) | token channel, current capacity, two contexts | Acquire, Release, StartRampUp, Close | accept loop, handleConn | ramp-up races with Acquire/Release; a blocking channel send; conservation over all error paths |
| Link (`internal/link/link.go`) | send and receive channel, context, `closeOnce`, activity time | sendLoop, receiveLoop, Send, Close, UpdateActiveTime, TryCloseIfIdle | handleConn, pushers, idle cleaner, the network | five goroutines, circular waiting, concurrent closing, retries of writes, half-open peers |
| WebSocket server (`internal/websocket_server.go`) | accepting flag, listener, context | acceptConn, handleConn, cleanIdleLinks, GracefulStop, Stop | everything | shutdown against running handlers, order of deferred calls, token ownership |
| Link manager (`internal/link/manager.go`) | map user → link, counter `len` | NewLink, RemoveLink, FindLinkByUserInfo, CleanIdleLinks, Close, GracefulClose | handlers, cleaner, GracefulStop, push consumer | removal by user ID, reconnects, map and counter change in two steps |
| Upgrader, session (`internal/upgrader`, `pkg/session`) | session in Redis | Upgrade, Build | handleConn | an existing session is accepted (reconnect, second login) |
| Push retransmission (`pkg/pushretry`) | map key → task, counter, timers | Start, Stop, StopByLinkID, Close, Task.retry | event handler, link | timers against stops, keys reused, early acknowledgements |
| Link event handler (`internal/linkevent/handler.go`) | idempotency cache, backend clients | OnFrontendSendMessage, OnBackendPushMessage, OnDisconnect | push retransmission, cache, backends | deduplication, partial failure between cache, backend and client |
| Batch event handler, coordinator and processor (`internal/linkevent/batch_handler.go`, `coordinator.go`, `batch_processor.go`) | idempotency cache, map biz → batch, timers, stop flag | OnFrontendSendMessage, OnReceive, addToBatch, triggerBatch, Stop, Process | link, cache, backend | three kinds of triggers race, stop against batches in flight, errors of the coordinator against the cache |
| Node registry (`internal/registry`) | node record under a lease in etcd | Register, KeepAlive, GracefulDeregister, UpdateNodeInfo, StartNodeStateUpdater | server, etcd | read-modify-write against deregistration, lease loss |
| Scaler and webhook (`pkg/scaler`, `internal/webhook`) | lock in etcd, containers, registry | ScaleUp, Rebalance, webhook handlers | Docker, etcd, message queue | lock lost to an expired lease, same number taken twice, containers that never register |
| Scale-up rebalancing (`internal/event`, `consumeScaleUpEvent`, selectors) | links of each node | redirect a share of the links | scaler, link manager | arithmetic, late and old events |
| gRPC balancer and resolver (`pkg/grpc`) | sub connections, picker, capacity of each node | resolve, watch, UpdateClientConnState, state callbacks, Pick, Done | service registry, gRPC | stale addresses, late callbacks, growth by calls that end together |
| Handler chain and session (`types.go`, small handlers of `internal/linkevent`, `pkg/session`) | gauge of online users, user action events, rate limiter, session in Redis | OnConnect, OnFrontendSendMessage, OnDisconnect, Build | handleConn, message queue, Redis | one handler's error against the others' effects, overlapping connections of a user |
| Alternative links (`internal/link/link_v2.go`, `link_v3.go`, `link_v4.go`) | as Link, one goroutine | readWriteLoop, Send, Close, TryCloseIfIdle | as Link | one goroutine reads and writes: circular waiting |
| Batch producer (`internal/event/batch_send_to_backend.go`) | request channel | Produce, oneLoop | message queue | batch never reset, blocking answers |
| Node ID generator | counter in etcd | compare-and-swap | etcd | – (nothing constructs it) |

What makes them correct: the limiter never admits more than its capacity and
never loses a token; a link delivers both streams without a hole and always
ends after it is closed; the server's map, counter and tokens agree with the
live handlers, and a stop terminates; a push is retransmitted until it is
acknowledged or there is a reason to give up, and never for ever; a batched
request is in one batch and its caller gets an answer; an upstream message
is worked on by one link at a time and is acknowledged only when the backend has
processed it, also when it travels in a batch; the registry shows a node on its
own lease and not after its end; scaling out announces every new node once, when
it can be reached, and does not flood it; the balancer picks among the ready
connections; metrics and events agree with the connections there are.

## 2. Modules

| Module | Models | Uses |
|---|---|---|
| `ConnectionPool` | abstract pool: holders never exceed a capacity that only grows | – |
| `TokenLimiter` | the limiter; implements `ConnectionPool` | `ConnectionPool` |
| `Link` | one link with its callers | – |
| `LinkProofs` | theorems about `Link` | `Link`, TLAPS |
| `WsServer` | server and link manager on top of the limiter | extends `TokenLimiter` |
| `PushRetry` | retransmission manager with the handler code around it | – |
| `PushRetryProofs` | theorems about `PushRetry` | `PushRetry`, TLAPS |
| `Coordinator` | batch coordinator and processor | – |
| `BatchUpstream` | the batch event handler on top of them | extends `Coordinator` |
| `BatchUpstreamProofs` | theorems about `Coordinator` and `BatchUpstream` | `BatchUpstream`, TLAPS |
| `NodeRegistry` | the node's record in etcd with the goroutines that write it | – |
| `WsServerProofs` | theorems about `TokenLimiter`, about `WsServer` on top of it and about the record of its node | `WsServer`, `NodeRegistry`, TLAPS |
| `Upstream` | the upstream path of the event handler | – |
| `Balancer` | resolver, balancer (v2), picker and the registry they watch | – |
| `BackendProofs` | theorems about `Upstream` and `Balancer`, the two ends of a call to the backend | `Upstream`, `Balancer`, TLAPS |
| `Scaling` | webhook, Docker scaler, lock, scale-up event and its consumers | – |
| `ScalingProofs` | theorems about `Scaling` | `Scaling`, TLAPS |
| `LinkEvents` | handler chain, session, user action events, gauge and counters | – |
| `LinkEventsProofs` | theorems about `LinkEvents` | `LinkEvents`, TLAPS |
| `SoloLink` | the single-goroutine links, versions 2 and 3 | – |
| `SoloLinkProofs` | theorems about `SoloLink` | `SoloLink`, TLAPS |
| `MC*` | instances for TLC | the module of the same name |

Conventions. A step is what the code does between two points where another
goroutine can interfere: one channel, atomic, `sync.Map`, timer or mutex
operation, or a section under one mutex. Variables keep the names of the fields;
`pc`-like variables name the place of a goroutine. Logging is left out, payloads
are numbers or model values. An operator `X_Variant` right before `X`, commented
"Mutant", is a plausible bug: it is not used by the specification and replaces
`X` when one wants to see that a property can fail. `LimSpec`, `RegSpec` and
`BalSpec` are the specifications of modules that share a module of proofs with
another one; elsewhere it is `Spec`.

### TokenLimiter
`tokens` is the length of the channel, `held` the set of connections between a
successful Acquire and their Release; a client releases only what it holds, and
that the server's paths give every token back is its `TokenOwners`. `RampTick`, `RampPush`
(one per token) and `RampStore` are the steps of a tick; `RampPush` is disabled
by a full channel just as the code would block. `cancelled` holds the contexts
that were cancelled: the limiter's own (`Close`) and the server's.

### Link
`Step(p)` is the next step of goroutine `p`. `Close` is split in the steps of
the `closeOnce` body, because other callers wait for its end and the context is
cancelled before the connection is closed. A payload is its number, so the
stream properties say that the numbers arrive without a hole. The network is
external: a write on an open connection succeeds or misses its deadline, a read
gets a message, misses its deadline or fails; the client may leave ("gone") or
be cut off silently ("lost"). `listed` says that the link is the one in the
manager's map: `Unlisted` is the reconnect of the user, or a removal by user ID,
after which the idle cleaner does not visit the link any more. A write is one step: partial frames are not
modelled, and whether a retried write can succeed is left open.

### WsServer
`st[c]` is where handleConn of connection `c` is, deferred calls in their order;
`Waiting` is the token an Accept holds that no client answers. `links` and `len`
are changed in separate steps by handlers, cleaner and forced close.
`sync.Map.Range` visits every key at most once, at any time of the call. A link is reduced to
"none / open / closed": `LinkDies` stands for what module `Link` does inside.
`GracefulStop` is one goroutine with `gs` as its place; the registry calls and
the consumers' Stop in between do not touch this state. The marshalling of the
node list, whose failure would end GracefulClose early, is taken to succeed.

### PushRetry
Tasks are named by the push that creates them. `timer` says that the newest
timer of a task is pending and `ptr` whether `timerPtr` refers to it: between
`time.AfterFunc` and `timerPtr.Store` a stop reaches only an older timer.
`victim[d]` is the task that deleter `d` has taken from the map and not yet
stopped. A link is "open", "ended" (handleConn may already be in OnDisconnect,
while the link's context is not cancelled and Send still accepts) or "closed".
A push may fail, which ends the task; bodies of messages are left out. A retry
cannot overlap the next one of its own task except in the instant between
arming and publishing the timer, a retry interval apart; that overlap is left out.

### Coordinator and BatchUpstream
Calls are named by their request, batches by their first request, and
goroutines that run triggerBatch by their cause. `BatchUpstream` adds what
`BatchHandler` does around `OnReceive`: the entry in the idempotency cache, the
acknowledgement, and which errors delete the entry again. An invocation of the
handler is named by its request too; several may carry the same message.
`Coordinator` has no specification of its own: its callers are these handlers.

### NodeRegistry
Etcd is `live` (leases) and `rec` (the value under the node's key). A Put or
Revoke may fail although it was carried out, and a lease may expire at any time.
`rg`, `ka`, `upd` and `gd` are the places of Register, KeepAlive, the state
updater and GracefulStop; `copy` and `draft` are the nodes that updater and
GracefulDeregister have read, changed and not yet written. `Die` ends the process
anywhere. GracefulStop during Start (lease 0) is not in the model.

### Upstream
`h[l]` is where OnFrontendSendMessage of link `l` is. The messages are upstream
messages; heartbeats are not cached and acknowledgements are in `PushRetry`. The
reload of the backend clients is three steps, because the map is built, stored
and read without a lock. `spoilt` remembers the keys whose cache entry was left
behind by a failing call of the cache. Cache entries do not expire in the model.

### Balancer
An instance is an address, a node ID and its maximal capacity, the attribute that
may be reconfigured. The registry has one instance per address, but a node ID may be
at several (a node that moved while its old lease is not over). Sub connections are
numbered, never reused, and keep the instance they were made with: a later list with
other attributes for the address is skipped. `mem` is the map of the picker builder
from node IDs to capacity objects. An object is named by its sub connection: each
has at most one that can be remembered or picked, and `selected` lets a call on one
that was replaced go. Build visits the ready connections in any order, and of
several with one ID only the first can reuse the remembered object. Its skip of an
empty ID cannot happen: `resolver.go:98` composes the ID as "name-id".

`actual` is the state of a sub connection in gRPC, `queue` what the balancer has not
been told yet, `state` what it believes: callbacks come one at a time and, for one
connection, in order. Pick may select any connection of the picker (round robin and
the random number are left to chance). `increaseCapacity` is its Load and its
CompareAndSwap, and goes back to the Load when another call was faster, so that calls
that end together collide and none gives up. A resolution is the listing and the
update, and two may overlap.

### Scaling
A node is its number, which stands for its container's name, its node ID and its
port. The code derives name and ID from the largest ID and the port from the largest
port; the two grow together. `pc` is the place of a
webhook request, `lock` and `alive` the lock and the leases of the etcd sessions;
a lease may expire while its holder goes on, and a TryLock may have been carried out
although it is reported as failed. Docker, etcd and queue may fail in
every call. `job[n][c]` is what node `n` does with the event of request `c`:
events may be handled late, and by a consumer group that starts with old ones. The
records of running nodes do not expire, and the links of a node do not change
between the Len and the Links of one rebalancing.

### LinkEvents
The wrapper calls the handlers of its list one by one (`pos`), and a connection is
at one of its events (`st`). `err` is the error it has collected, which decides
whether the remaining handlers are called. `session` is who created the session in
Redis; a connection that finds one uses it. Messages are heartbeats, messages and
payloads that cannot be decoded, as far as the rate limit tells them apart.

### SoloLink
`ver` says which of the two types the link is; what they share is written once.
Nothing in the repository constructs them, so the callers are those of a Link
today. Looking at the context and attempting a write is one step. No option of
version 3 sets a limiter, and idle closing is taken to be switched on. Version 2
examines the error of its first read after a message also when it is nil, and
returns: the model keeps that.

## 3. Runs

Passing runs:

| Run (cfg) | Instance | Shows |
|---|---|---|
| `server` (MCWsServer) | 2 connections of one user, capacity 1 → 2 with a step of 2, so that the step is clamped | no token leaked or doubled (`TokensConserved`, `TokenOwners`), `NoStaleEntry`, `LenCountsLinks`, the limiter's refinement (`PoolSpec`) inside the server, `StopEndsAll` |
| `link` (MCLink) | buffers of 1, 1 retry, 5 upstream messages: enough to fill both buffers and block receiveLoop, handler and sendLoop at once | no hole in either stream (`StreamsArePrefixes`), `ClosedLinkStops`, `SendReturns` |
| `link_idle` (MCLinkIdle) | idle closing on, 1 upstream message, 1 push | `SendAfterCloseFails`, `LostPeerCleaned` with the cleaner holding `l.mu`, for a link that is in the map when the cleaner comes |
| `solo_link` (MCSoloLink) | both versions; buffers of 1, batches of 2, 1 retry, 3 upstream messages, 1 push: the smallest instance that can jam | `InOrder`, `ClosedLinkEnds`, `PeerLossEnds` (a client that has gone is noticed unless loop and handler wait for each other) |
| `push_retry` (MCPushRetry) | 2 pushes with one key on one link, limit 2, Close called, pushes that fail | `TotalCountsTasks`, `TaskEndsForAReason`, `TasksEnd` |
| `registry` (MCNodeRegistry) | 2 attempts to register, 2 retries of KeepAlive, loads 0 and 1 | `NoResurrection`, `RecordOnOwnLease`, `NodeLeaves` |
| `upstream` (MCUpstream) | 2 links, 2 keys, 1 retry | `OneAtATime`, `AckMeansHandled`, `GetsThrough` |
| `batch_upstream` (MCBatchUpstream) | 3 invocations of one biz, one message twice, threshold 2, 2 tries | `OwnedOnce`, `AckMeansHandled`, `ShutOutByStopOrMismatch`, `HandlersReturn` |
| `balancer` (MCBalancer) | 2 addresses, 2 node IDs that may be at either, 2 calls, capacity 1 to 3, 1 change of the registry, 3 sub connections, 1 break | `PickerIsReadySet`, `CapacityCountsCalls`, `CapacityKept` |
| `scaling` (MCScaling) | 2 alerts at 2 nodes with 2 and 3 links, 2 deaths, 50 percent | `AnnouncedOnce`, `NotFlooded`, `AnnouncedIsReady`, `LockFreed`, `AlertsAnswered` |
| `link_events` (MCLinkEvents) | 2 connections of a user at one node, 1 token, 2 messages | `GaugeCountsConnections`, `EventsBalance`, `EachMessageOnce` |

Deadlock is checked except in `scaling`, `balancer` and `link_events`, whose
environments are bounded and may stop: elsewhere the only states without another
step are those in which every goroutine has ended (`Finished`, `Satisfied`).

In one run TLC refutes what a comment says: `server_find` (MCWsServerFind) checks
`OnlineUserFindable`, after `types.go:132` (FindLinkByUserInfo finds the link of
the user). The old connection's handler removes the new connection's entry.

Further behaviours of the code disagree with a comment or surprise. The properties of
the passing runs are stated so that they hold in spite of them. In the models, first
those in which a comment is plainly contradicted:

* A link that was cut off silently and whose user has reconnected is no longer in
  the map (`manager.go:87`). CleanIdleLinks ranges over the map (`manager.go:220`), so
  nothing but the end of the server ends it, although `types.go:145` says that it
  visits all connections.
  `LostPeerCleaned` names this case (`Overtaken`) as its exception.
* A link is in the map before it is counted (`manager.go:87`, `92`). A GracefulClose
  between the two sees 0 and returns (`manager.go:280`) without the redirect that
  `types.go:160` promises; nor does it redirect a link that a reconnect has replaced.
* A disconnect stops the retransmissions of the user's new connection too, because
  both have one ID (`pushretry/manager.go:90`), although the comment at line 86 speaks
  of the given connection. `TaskEndsForAReason` therefore allows any link with the
  ID of the task's; that it is the task's own is proved for links without reconnects.
* Sub connections are kept by address, capacities by node ID. With one ID at two
  addresses, delisting one makes the balancer forget the capacity of the other
  (`balancer.go:98`), although `picker_builder.go:97` speaks of a node that is removed
  for good; and while both are ready, every rebuild of the picker gives at least one
  of them a new object with the initial capacity (`picker_builder.go:49`).
  `CapacityKept` excepts exactly these two causes.
* A maxCapacity that is changed in the registry never reaches a connection that
  exists: `balancer.go:112` skips an address it knows, and `updateAttributes` is given
  the attributes of the first list, although `picker_builder.go:71` promises that such
  updates take effect at once.
* The gauge of online users counts connections: two connections of a user are two
  online users to it, although its help text (`online_user_handler.go:23`) says users.
* LinkV2 examines the nil error of a read that succeeded and closes behind its first
  message (`link_v2.go:149`); the comment there speaks of a real error.
* `Send` waits on a full buffer; `types.go:35` says that it fails.
* A reconnect leaves `Len` one too high for good, because the entry is
  overwritten and counted again (`manager.go:235`); the exact part of
  `LenCountsLinks` therefore speaks of users who have not reconnected.
* A timer of a stopped task goes on retrying when another task has its key
  (`pushretry/manager.go:131`); a Start that overlaps `Close` adds a task after
  its Range (`pushretry/manager.go:109`). An ACK handled before Start stops
  nothing, and the ones that follow are duplicates (`linkevent/handler.go:431`).
* The state updater may write the old weight back while GracefulDeregister holds
  it at 0 for the others to notice (`registry.go:238`, `254`, `377`).
* Batches that were taken from the map before `Stop` are still in Process when
  the waiters are notified (`coordinator.go:287`). A request that a stopped
  coordinator or a mismatched answer turned down keeps its cache entry, and its
  repetitions are dropped as duplicates (`batch_handler.go:130`).
* LinkV3 jams when its loop waits for room in `receiveCh` and the handler in
  `sendCh`; the report in `demo/prof` calls that fatal.
* A sub connection that became idle is not connected again (`balancer.go:207`).
  A registry error gives the resolver an empty list, and an update with it removes
  every sub connection (`resolver.go:86`); a change between its first listing
  and its watch is missed (`resolver.go:41`).
* A container that failed or died keeps its name, so that later requests that
  compute the same number are refused. When the event counts no node but the new
  ones (the others' records gone at that moment), a node redirects all its links;
  otherwise each node rounds its share up (`websocket_server.go:487`).
* The last user action event of an online user may be OFFLINE, when the end of an
  old connection is late. The error with which a limited message is answered is
  sent once, and whether that works is ignored (`limit_handler.go:46`).
* Responses are matched to the requests of a batch by position (`coordinator.go:272`).
  That the backend keeps the order is its obligation (`message.proto:72`), which
  the model takes for granted and the gateway cannot check.

Outside them: a retry encrypts the body again (`linkevent/handler.go:279`); a
watch goroutine of the service registry blocks for ever on its channel when the
resolver is closed (`pkg/grpc/registry/etcd/registry.go:103`); the service list of
`backend_client_loader.go:81-97` is read and watched without order; `oneLoop` of
the batch producer, wired to nothing, never resets its requests.

**Bounds.** Two connections, links or pushes are the smallest number at which the
races between "old" and "new" show; three requests with threshold 2 give a full
batch, a batch above the threshold and a trigger that comes too late; two
attempts to register give a lease and a record that an earlier one left behind;
two alerts are what it takes to contend for the lock, and static nodes with 2 and
3 links round differently; three sub connections let an address come back.
Buffers of size 1 make every full/empty transition happen. Counters are bounded
by these constants (retries, upstream messages, tries), never by a state
constraint. Only the balancer run, which checks safety, uses symmetry (addresses, node IDs
and calls). It has one maximal capacity; two are only in the proofs.

**Fairness.** Weak fairness of goroutines that can run, and of timers: the Go
scheduler and runtime guarantee both. `WsServer`, `PushRetry` and `BatchUpstream`
assume even less, that some goroutine that can run does (`WF_vars(Progress)`).
Reads, writes and backend calls carry deadlines, so they return. Nothing is
assumed of clients (connecting, finishing a handshake, sending, acknowledging,
leaving), of the callers of Stop and GracefulStop, nor of the latter's deadline;
`StopEndsAll` therefore excepts handlers whose handshake is not over: Upgrade has
no deadline. `NodeRegistry` assumes strong fairness of the cases that see a
cancelled context, because Go's select picks at random among ready cases, and
that etcd expires a lease nobody renews. `Upstream` assumes of the environment
what `GetsThrough` is about: the client goes on sending, and neither the cache
nor the backend fails on every attempt. `Scaling` assumes that the calls of a
request return, that the timer of its wait fires and that a lease nobody keeps
alive expires; `Link` assumes that the idle cleaner comes back to a link as long as
it is in the map, and to no other; `SoloLink` relies on the loop, the handler, a pusher in Send and a
Close under way, not on the idle cleaner's ticks. `Balancer` and `LinkEvents`
state safety only and assume nothing.

**Type invariants.** The `TypeOK` of a module (`LimTypeOK`, `RegTypeOK`,
`BatchTypeOK`) states the values of its variables. They are not among the properties
of the runs: they are part of the inductive invariants proved below, as are the
`Typed` predicates of the modules of proofs where the model has none. Every
inductive invariant was checked with TLC before it was proved.

## 4. Proofs

`WsServerProofs` first proves of the limiter, for every finite set of clients and
every configuration that `NewTokenLimiter` accepts (`ConfigAssumption`):

* `LimTypeCorrect`, `LimConservation`, `LimRoomForTokens`: the invariants
  `LimTypeOK`, `TokensConserved`, `RoomForTokens`;
* `LimCapacityMonotone`: the action property;
* `LimImplementsPool`: `LimSpec => PoolSpec`, with `holders <- held` and
  `capacity <- Issued`.

The inductive invariant `LimIInv` is type correctness, `TokensConserved` and
`RampShape`. Conservation alone is not inductive: in the middle of a tick the
tokens issued are `newCapacity - toAdd`, and `RampShape` ties `newCapacity`,
`toAdd` and `currentCapacity` together while the tick runs. That no Release is
dropped and no push blocks then follows by arithmetic: with a token in use or
still to be pushed, fewer than `MaxCapacity` are in the channel.

It then carries these results into the server and adds the server's own,
for every set of connections and users and every assignment of one to the other
(`ServerAssumption`: users finite, markers distinct):

* `SrvTokensConserved`, `SrvImplementsPool`: from the limiter's theorems, since every
  step of acceptor, handlers and GracefulStop is one of `LimSpec` or leaves the
  limiter alone (lemma `SrvUsesLimiter`).
* `SrvTokenOwners`, `SrvNoStaleEntry`: from `SrvIInv`, which adds type correctness
  and `KeyShape` (cleaner and forced close remove the key of a user).
* `SrvLenCountsLinks`: neither half of `LenCountsLinks` is inductive, because map
  and counter change in separate steps. `LenShape` counts the increments and
  decrements under way: entries + removals under way <= `len` + stores not yet
  counted, with equality while nobody has reconnected (`NoReconnect`), since only
  then no store replaces an entry.

Of the node's record it proves, for every number of retries, weight and set of
loads (`RegistryAssumption`), `RegTypeCorrect`, `RegOwnLease` (`RecordOnOwnLease`) and
`RegNoResurrection` (`NoResurrection`). Neither invariant is inductive: what a
pending update will write counts as well. `LeaseShape` says that a record hangs
on a living lease, that after Register the record and both pending writes name
the node's lease, and that this lease is dead once Deregister has revoked it;
`RegShape` says that nobody else writes before Register has succeeded. A pending
Put then cannot be carried out after the Revoke, because etcd refuses its lease.

`LinkProofs`, for every buffer size, number of retries, pushes and messages, with or
without idle closing: `LinkStreams` (`StreamsArePrefixes`) and `LinkSendAfterClose`
(`SendAfterCloseFails`). That a step of the wire adds exactly the next payload
depends on what is in the channel: `OutShape` says that the payload sendLoop holds
and those in `sendCh` are numbered on from the wire up to the last one accepted, as
long as sendLoop has not given up; `InShape` says the same of `receiveCh` and
receiveLoop. `LateShape` keeps a late Send on a link whose context stays cancelled.

`BackendProofs`, for every set of links and keys and every number of retries:
`UpOneAtATime` and `UpAckMeansHandled`. `EntryHeld` says that a handler past the
cache has its entry there, `Apart` that two such handlers have different messages;
the second needs the first, because only an entry still in the cache stops the
second link. `AckShape` covers the acknowledgement that is about to be sent.

Of the balancer it proves, for all finite sets of addresses, node IDs, maxima and
calls and all capacities, growth rates and bounds, `BalPickerIsReadySet`,
`BalCapacityCountsCalls` and `BalCapacityKept`. `ConnShape` says that two managed
connections never have one address, that what is remembered under an ID is the object
of a managed connection with that ID, and that gRPC reports the shutdown only of a
connection the balancer has dropped: the first two make the object that Build finds
at an address the one of that very connection, the third makes the picker right
although a state that arrives late is ignored. `GrowthShape` says that whatever can
be picked or is held by a call has an object, and that no capacity exceeds its
maximum; with it a call that finds the node full counts as one that grows by nothing,
so that the capacity is `CapacityAfter(max)` of the number of calls over on that
object. What a rebuild does to the objects is one lemma (`BuildFacts`) for the two
events that cause one.

`BatchUpstreamProofs`, for every set of requests and businesses, batch size and
number of tries: `BatchOwnedOnce`, `BatchAckMeansHandled`, `BatchShutOut`. The part about the coordinator (`CoIInv`) does not mention the
handler: a request is in one batch, named by its first request (`BatchShape`); a
batch is in the map or taken by one goroutine for good (`OwnerShape`); once Stop has
begun, what is in the map waits for a goroutine of Stop (`StopShape`), so that
nothing is left when it ends; a fresh request has started nothing (`FreshShape`);
results are one's own or errors (`ResultShape`). `HandledShape` follows the fact
that the backend has processed a request from the call through the channel to the
caller.

`PushRetryProofs`, for every finite set of pushes, keys and links, which keys and
links pushes have, link IDs shared or not: `RetryTotalCountsTasks`,
`RetryTaskEndsForAReason` and `RetryOwnLink`. `VictimShape` says who holds a task
between its removal and the decrement, `CountShape` that a task has one timer at a
time and retries left when it is armed, `ReasonShape` why a goroutine is about to
delete: OnDisconnect when the loop of a link with that ID is over, closed or not.
`RetryOwnLink` states `TaskEndsWithOwnLink`, which reconnects make false, under the
hypothesis that no two links share an ID and the pushes of a key go to one
link.

`LinkEventsProofs`, for every finite set of connections, every set of nodes, every
burst and number of messages: `EventsGauge`, `EventsAddUp` and
`EventsEachMessageOnce`. Each is inductive together with `EventsIInv`: types and
`ConnectShape`, that no handler's OnConnect returns an error. Without it a
connection could end after OnConnect was counted and before OnDisconnect is
called. The counting itself is one lemma per event: OnConnect of the i-th handler
adds the connection to those online to it and to no other handler's, OnDisconnect
takes it out, no other step changes them.

`ScalingProofs`, for every finite set of requests and running nodes, every assignment
of hosts, number of links and deaths, every percentage: `ScalingAnnouncedOnce`,
`ScalingAnnouncedIsReady`, `ScalingNotFlooded`. The lock is not used in the argument,
because it may be lost: `OwnerShape` says that from the creation of the container on
a request owns the name, which Docker refuses to give twice, and `ReadyShape` that
after the wait the node is registered as long as it runs. `EventShape` bounds what one
node redirects for one event by its share, rounded up, of the links it has; that the
nodes together stay within the sum is `SumsCompared`.

`SoloLinkProofs`, for every buffer, batch size, number of retries and messages and
both versions: `SoloInOrder`. `SoloOut` is the same argument as `OutShape` for a
loop that also reads; `SoloInV3` says that nothing is missing between the handler,
`receiveCh` and the loop, `SoloInV2`, where a full channel drops a message, only that
`receiveCh` is in order between what the handler has got and what the client has
sent. Most steps move no payload: they are covered at once by `Quiet`.

**Induction.** `CapacityCountsCalls` uses a recursive function of the number of calls
and `NotFlooded` sums over a set of nodes. The library's induction rules take an
operator, which the provers cannot instantiate. `NatInduct` therefore states
induction for a set of natural numbers, from the fact that each non-empty set of
them has a least one (`WFMin`); with it `CapacityDefined` and `SumDefined` show that
the recursion has a solution, and `CapacityFacts`, `ToldSum` and `LenSum` that it
computes what its equations say.

The assumptions on constants are those that make the model meaningful: sets that
are counted are finite, model values that stand for "none", an error or a goroutine
differ from what they are told apart from, sizes and limits are natural numbers
(positive where the constructors demand it). TLC evaluates them in every run.

**Only model-checked.** All liveness (the prover has no rules for fairness):
`StopEndsAll`, `ClosedLinkStops`, `SendReturns`, `LostPeerCleaned`, `ClosedLinkEnds`,
`PeerLossEnds`, `TasksEnd`, `NodeLeaves`, `GetsThrough`, `HandlersReturn`,
`LockFreed`, `AlertsAnswered`. Every safety property of a passing run is proved.
Type correctness, `RoomForTokens`, `CapacityMonotone` and `RetryOwnLink` are proved
and not checked by a run.

## 5. Plan

1. The watch of the service list (`backend_client_loader.go`), as the source of
   the backend clients that `Upstream` reloads.
2. Code that nothing constructs yet, should it be wired: LinkV4, the node ID
   generator, the batch producer.

## 6. Not modelled

Codecs, encryption, compression and JWT are stateless library wrappers. Generated
code, demos, wiring and `main` are construction and I/O. LinkV4, the node ID
generator, the batch producer, `handlerv2`, version 1 of the balancer and
`GracefulCloseV2` are called by nothing. Get, Set and Destroy of a session have
no caller. The per-link rate limiter only delays reads. The bytes of a frame are
below the level of the models: that a close frame is written into the middle of
another (`link.go:308`) is not seen. GracefulStop during Start, which passes the
lease 0 (`websocket_server.go:349`), is not in `NodeRegistry`.
