# transport-lib in TLA+

TLA+ specifications of `transport-lib`, a Go library for services that talk
over a bidirectional gRPC stream ("the bridge"), over Kafka, and with JWTs whose
state is kept in Redis. The specifications are model-checked with TLC on small
instances and proved about with TLAPS for every value of their constants.

| Module | What it is |
|---|---|
| `BridgeClient` | the Sidecar's side of the bridge: `pkg/bridge/client.go`, `delivery.go` |
| `BridgeClientProofs` | type correctness, one live consumer, Register before traffic, no overlapping sends |
| `BridgeClientResourceProofs` | connections, panics in service, slots, the WaitGroup, the back-off, nobody waits in a ring |
| `SessionPromise` | what a Handler and the Sessions are promised, whatever the Sidecars do |
| `BridgeServer` | the Worker's side: `pkg/bridge/server.go`; implements `SessionPromise` |
| `BridgeServerProofs` | type correctness, what is over after Close, OnClose per session, one Send at a time, who is waited for, the refinement of `SessionPromise` |
| `TokenPromise` | what versioned tokens promise, without versions, keys, clocks or callers |
| `SimpleToken` | versioned tokens over Redis: `pkg/auth/simple_token.go`, `redis_store.go`; implements `TokenPromise` |
| `BridgeLink` | both ends in service, over one bounded stream at a time; implements `AckPromise` |
| `BridgeLinkProofs` | the refinement of `AckPromise`, types, no delivery lost, arrival in order, what an Ack and the end of a stream wait for |
| `AckPromise` | what `Delivery.Ack` promises, whatever becomes of the streams |
| `KafkaManager` | the shared producer, observers and consumer groups: `pkg/kafka/manager.go` |
| `KafkaManagerProofs` | Close, the options of groups, what observers hear, nobody waits for ever |
| `ServiceStart` | how a service comes up: `pkg/config`, `pkg/bootstrap` |
| `Service` | main of `ServiceStart` and the manager of `KafkaManager`, composed |
| `ServiceProofs` | the service uses its manager as `KafkaManager` has it; types, secrets, defaults |
| `SimpleTokenProofs` | the refinement, distinct versions, invalidation of earlier tokens |
| `TokenPair` | access and refresh tokens: `pkg/auth/token.go`, `redis_store.go` |
| `TokenPairProofs` | its four properties, and the fifth when there is no clock skew |
| `MCBridgeClient`, `MCBridgeServer`, `MCBridgeLink`, `MCSimpleToken`, `MCTokenPair`, `MCService` | the instances that TLC checks, with their `MC*.cfg` files |

To check: `tlc -config MCClientReconnect.cfg MCBridgeClient`, and so on for the
runs below; `tlapm BridgeClientProofs.tla`, and so on for the proofs.

## Inventory

### Bridge client (`pkg/bridge/client.go`) — modelled

State: the fields `cancel`, `conn`, `stream`, `recvErr`, `started`, without a
lock; `sendMu`, which orders senders among themselves; the semaphore `inflight`;
the channels `deliverCh` and `broadcastCh`; `stopOnce`, `closed` and the
WaitGroup `wg`. Operations: `Start`, `run` (with `connect`, back-off and
`cleanup`), `consume`, `heartbeatLoop`, `PublishIngress`, the `Ack` of a
delivery, `Close`, `Drain`.

Interaction: `run` starts a `consume` and a `heartbeatLoop` for every stream; the
application calls the rest from goroutines of its own; the Worker sends frames
and ends streams. Hard: at least six kinds of goroutine share unprotected
fields; a goroutine may outlive the attempt that started it; Close runs against
connect and cleanup. Correct when: a stream begins with Register and never has
two Sends at a time; there is one consumer; no goroutine dereferences nil or sends
on a closed channel; the semaphore, the back-off and the WaitGroup are exact; a
lost stream is noticed; cancellation and Drain come to an end.

### Bridge server (`pkg/bridge/server.go`) — modelled

State: `grpcServer`, `lis`, `stopOnce`; a session per stream, with its `sendMu`.
Operations: `Serve`, `Close`, `bridgeService.Stream` (first Recv, OnRegister, the
receive loop, the deferred OnClose), `SendDeliver`, `SendBroadcast`,
`SendHeartbeat`, `session.Close`. Hard: `Close` before or during `Serve`;
`GracefulStop` waits for live streams without bound; a second `Close` waits for
the first; `OnIngress` runs in the receive loop and may itself send. Correct when:
OnClose comes exactly once, and only after an OnRegister that succeeded; nothing
runs after a Close that stopped the server; a stream has one Send at a time; a
stop comes to its end.

### Bridge link and deliveries (`client.go`, `server.go`, `delivery.go`) — modelled

State: the flow-control window of the stream in each direction, `deliverCh` and
`broadcastCh`, and of a delivery `ackOnce` and `ackErr`. A delivery goes from
`session.send` through the window, `consume` and `deliverCh` to the application,
its Ack back through `sendMu` and the other window to `OnAck`. Hard: everything
on the way is bounded and blocks; callbacks reply from within the receive loop;
a delivery outlives its stream; Acks of one delivery race, and one that failed
cannot be retried. Correct when: no delivery is lost on a stream that lasts, nor
overtaken, nor acknowledged twice; every caller of Ack gets its one outcome; the
two ends do not wait for each other.

### Versioned tokens (`pkg/auth/simple_token.go`, `redis_store.go`) — modelled

State: one Redis key per user, the current version, with an optional TTL.
Operations: `GenerateSimpleToken` and `RevokeSimpleToken` (INCR, then EXPIRE),
`VerifySimpleToken` (parse, GET, compare). Hard: two logins race, a reply of INCR
is lost, INCR and EXPIRE are two commands, the key expires and starts over.
Correct when: a token passes exactly if no later login or revocation happened.

### Token pairs (`pkg/auth/token.go`, `redis_store.go`, `config.go`) — modelled

State: a Redis key per refresh token, one per revoked access token, one per user
for the session version. Operations: `GenerateTokenPair(WithVersion)`,
`VerifyAccessToken(WithVersion)`, `ConsumeRefreshToken`, `RevokeAccessToken`, and
`SessionVersionStore.Incr` which the application calls. Hard: two exchanges of
one refresh token, revocations that race, a TTL computed before it is set, expiry
with a leeway and whole seconds. Correct when: a refresh token is exchanged at
most once and not lost before its time; a revoked token stays refused; a
superseded one is refused.

### The others

* Kafka manager (`pkg/kafka/manager.go`) — modelled. State: `producer`, two
  observers behind an RWMutex, `closeOnce`, the base configuration of all
  consumer groups. Hard: Publish against Close, two Closes, observers that
  install others, a deferred function that runs also in a panic. Correct when:
  an observer hears what the caller gets, nobody is stuck, a Close that returns
  has flushed, a group has its own options.
* Configuration (`pkg/config`) — partly modelled. State: the environment of the
  process, viper's global settings, the target structure. Hard: the precedence
  of files, variables, `.env`, defaults; failures half way. Correct when: every
  secret is what the precedence says, and numbers that depend on each other fit.
* Bootstrap (`pkg/bootstrap`) — modelled. State: what the Init functions leave in
  globals or open. Hard: each may fail after it opened something, and what it then
  returns may not be what the example main goes on to use.
* Envelope helpers (`pkg/envelope`), logger, tracing, error codes, the protocol
  definition: see Not modelled.

`PROJECT.json` lists the hazards, each at its line with the properties about it.

## BridgeClient

A goroutine is a program counter and an action is one access to the shared
fields, so that everything the scheduler may do between two accesses is in the
model. The n-th call of `connect` names everything it creates: its context, its
ClientConn, its stream, its `consume` and its `heartbeatLoop`; a field holds such
a number or Nil.

| Code | Actions |
|---|---|
| `connect` | `Connect`, `Dial`, `OpenStream`, `Register`, `ConnectFails`, `Launch` |
| `run` | `BackoffElapses`, `BackoffCancelled`, `LeaveWait`; `NextBackoff` |
| `cleanup` | `CleanupCancel`, `CleanupStream`, `CleanupConn` |
| `consume` | `ConsumeLoad`, `ConsumeFrame`, `ConsumeEnds`, `ConsumeReport`, `ConsumeQueue` |
| `PublishIngress`, `acquireSlot`, `releaseSlot` | `Publish`, `AcquireSlot`, `AbandonSlot`, `Lock`, `Send`, `ReleaseSlot` |
| `Delivery.Ack`, `sendAck` | `TakeDelivery`, `Lock`, `Reload`, `Send` |
| `heartbeatLoop`, `sendHeartbeat` | `Tick`, `HeartbeatEnds`, `Lock`, `Send` |
| `Close`, `Drain` | `Close`, `CloseCheck`, `CloseUse`, `CloseChannels`, `DrainReturns` |
| gRPC, the network, the application | `CtxDone`, `StreamDown`, `Transmit`, `Break`, `CallerCancels`, `TakeBroadcast` |

* `Lock` takes `sendMu` and reads `c.stream` in one step: a sender that has the
  mutex but has not read is the same as one that is still waiting, except that it
  keeps other senders out, and those only read as well.
* `Start` is one step. A Close within it would find what one before or after it
  finds; the one thing left out is a Drain that returns between the assignment of
  runCancel and the wg.Add, after which `run` begins with a context that has ended.
* Where the code reads a field twice without a lock (`sendAck`, `Close`), the
  build may read again or reuse the first value: the model takes both.
* Frames on a stream are kept up to the first, since the Worker looks only at
  whether that is a Register. `UseMetadata` is the branch of `connect` that
  derives the stream's context from the dial context.
* An unrecovered panic ends the process (`panic`), after which nothing happens.
* `Close` runs once (`stopOnce`). The `Close` inside `Drain` and one called
  alone are the same; a Drain whose context ends first changes nothing.
* Bound: `MaxAttempts`, in `BackoffElapses` and `CleanupConn` only. Two attempts
  show everything one attempt may do to the next; three also show a goroutine of
  the first under the third, and two back-offs in a row.
* Deadlock is not checked: a client that was drained or that panicked has
  stopped, and one that used up its attempts is at the bound.

Fairness (`FairSpec`). The Go scheduler runs what can run: weak fairness of
`run`, of `Close` and of every `consume`; strong fairness of a sender's steps
(`SenderGoes`), since a `sync.Mutex` in starvation mode is handed over first come
first served and the waiters of a channel are a queue; of `HeartbeatEnds`, since
a `select` with several ready cases picks at random; of `ConsumeEnds`, since a
stream that is over has finitely many frames left. The application is assumed to keep
receiving from both channels (`TakeDelivery`, `TakeBroadcast`). Nothing is assumed
of the Worker, not even that it reads: `stream.Send` waits for gRPC's flow control,
under sendMu, so that a Send, that of the Register included, is sure to return only
when its stream is over (`SendFails`, `RunReturns`). Nothing is assumed of the network
either, nor of when the application publishes, cancels or closes.
`DeliverOnlySpec` drops the assumption on broadcasts; what then goes wrong is
shown in `BridgeLink`.

`SendersReturn` therefore has the condition that no Send is held up for ever by
the Worker (`HeldByWorker`): what it says of the client is that no path leaves
sendMu locked. `Stops` and `Reconnects` need no such condition, because a stream
that is over ends its Send. The three are stated with []<>, where a leads-to would do,
because TLC checks that form without a tableau: a context that has ended stays so,
as does a stream, and what a sender that has begun comes to next is idle or done.

`OnlyTheWorkerIsWaitedFor` is what they have of a safety property. `MayStep` are the
guards of the steps in `FairSpec`, the application's `TakeDelivery` and `TakeBroadcast`
left out, and of the wg.Wait in Drain. While a client is stopping, one of them
holds: it needs nobody's help. So it is with the end of a stream when consume is not stuck
on a full channel. A send waits in the end for itself or another in `HeldByWorker`,
never in a ring. `OnlyTheWorkerBlocks` compares the guards with what is ENABLED.

| Run | Instance | Shows |
|---|---|---|
| `client_reconnect` | 2 publishers, 1 acker, 3 attempts, 1 slot, buffers of 1, faulty network | `TypeOK`, `RegisterBeforeTraffic`, `OneSendAtATime`, `OneConsumer`, `NoPanicInService`, `SlotsExact`, `BackoffExact`, `ConnectionsClosed`, `OnlyTheWorkerIsWaitedFor` |
| `client_shutdown` | 1 acker, 1 attempt, the application cancels, closes and drains at any time, `FairSpec` | `OnlyTheWorkerBlocks`, `DrainWaits`, `Reconnects`, `Stops`, `SendersReturn` |
| `client_register_order` | 1 publisher, 2 attempts | violates `RegisterFirst` |
| `client_nil_stream` | 1 publisher, 2 attempts | violates `NoNilStream` |
| `client_metadata` | Metadata set, no faults | violates `StartConnects` |

Two publishers are enough for the mutex and for a slot that is contended (a
third only waits too); a buffer of one is both empty and full; back-offs 1, 2, 3
reach the limit between two doublings. `client_shutdown` has no publisher, which would
take it past what can be checked in minutes: there an Ack and a heartbeat contend for
sendMu. Publishers and their slots are in `client_reconnect`, and in the theorem.

## BridgeServer and SessionPromise

A goroutine is again a program counter: `Serve`, every `Close` (the watcher that
Serve starts is one of them), a handler per stream, and the senders: a
handler's callback, or a goroutine of the Worker that kept a Session.

| Code | Actions |
|---|---|
| `server.Serve` | `Listen`, `LoadFails`, `Publish`, `Accept`, `AcceptEnds`, `ServeReturns` |
| `server.Close` | `Close`, `CloseCheck`, `Stopped`, `CloseListener`, `OnceReturns` |
| `bridgeService.Stream` | `First`, `Registered`, `Recv`, `FrameHandled`, `RecvFails`, `Closed` |
| `SendDeliver`, `SendBroadcast`, `SendHeartbeat`, `session.send` | `Push`, `Lock`, `SendReturns` |
| gRPC, the Sidecars, the application | `Open`, `End`, `Drained`, `ContextEnds` |

* Close reads `s.grpcServer` without a lock. A read that misses the assignment is
  the same as one that came earlier, so `CloseCheck` and `Publish` in either order
  are all there is. A Close that finds no server stops nothing: handlers may
  then outlive both Close and Serve, and `QuietAfterClose` speaks of the others.
* What is assumed of gRPC: `GracefulStop` closes the listener of a server that
  serves, and returns when the accept loop and all handlers have; a connection
  that is there may carry another stream while the server drains, or when only
  the listener was closed; `srv.Serve` of a stopped server closes the listener.
* `Push` leaves out what `NormalizeEnvelope` fills in (see Not modelled).
* Serve is called once. Deadlock is not checked: a server that has stopped, or
  whose Sidecars are silent, has no step left.

Fairness (`FairSpec`): weak for every goroutine at a step that can be taken, and
strong for `Lock` as in the client; strong for `CallbackReturns`, which says that
a callback sends only finitely often; a Send is sure to return only when its stream
is over (`SendFails`), since a Sidecar need not read. Nothing is assumed of the Sidecars: the
hypothesis that they have ended their streams is part of `ShutdownCompletes`, for
the code has no other bound on the wait (`Options.GracefulShutdownTimeout` is
never read).

| Run | Instance | Shows |
|---|---|---|
| `server_sessions` | 2 streams, 1 Close of the application, the watcher, 1 goroutine with a Session | `QuietAfterClose`, `ClosedOnce`, `OneSendPerStream`, `OnlySidecarsAreWaitedFor`, `ShutdownCompletes`, `KeepsSessionPromise` |

`OnlySidecarsAreWaitedFor` says in which states a server waits: `MayStep` are the
guards of the steps in `FairSpec`, and when none holds while something is under way,
a Sidecar that has not ended its stream is in a Recv or a Send that only it can end
(`HeldBySidecar`). Nothing else holds up a Close.

`SessionPromise` is the server as its Handler sees it, without listener, gRPC,
stopOnce, Close and mutexes: per stream the callback that runs, whether the
session is new, open or over, and who is in a Send. `OnRegister`, `OnFrame` (for
OnIngress, OnAck and OnHeartbeat) and `OnClose` begin a callback, `Registered`,
`Handled` and `Closed` end it, `Stop` is the moment after which none begins. The
mapping reads the first two off the program counter of the stream (`RunningIn`,
`StateIn`); a goroutine is in Send from `Lock` to `SendReturns`; the server has
stopped when a GracefulStop has begun and a Close or Serve has returned. That
moment is a step of whichever of them returns first.

The second stream is one that opens beside the first, also while the server
drains; two Closes meet in stopOnce; two senders contend for a stream.

## BridgeLink and AckPromise

`BridgeClient` and `BridgeServer` each take the other end for a source of
arbitrary frames and errors. `BridgeLink` puts the two together and follows the
traffic. The life of either end is coarse here, since those modules have it:
`connect` and `cleanup` are one step each, both ends are in service, a stream
that a frame reaches before its Register is one that breaks.

| Code | Actions |
|---|---|
| `client.run` | `Connect`, `Cleanup` |
| `consume` | `Recv`, `RecvFails`, `Offer` |
| `Delivery.Ack`, `sendAck` | `Ask`, `Lock`, `NotReady`, `Send`, `SendFails`, `Answer` |
| `PublishIngress`, `sendHeartbeat` | `PublishIngress` |
| `bridgeService.Stream` | `Handle`, `HandleFails`; a callback that sends: `Reply`, `ReplyFails` |
| `SendDeliver`, `SendBroadcast` of other goroutines | `Push` |
| the application, the network | `Receive`, `ReceiveBroadcast`, `Break` |

* A frame that fits in the window leaves Send; a stream that breaks loses what
  the Worker has not read, while Recv of the client may still return what was
  there. A Send on a broken stream may return nil or an error.
* A goroutine that publishes or pushes holds a `sendMu` while it waits for room.
  Whoever else wants that mutex wants room in the same window, so that the model
  has these sends as one step, taken when there is room.
* The Ack of a broadcast sends nothing, because `SendBroadcast` never sets the
  `broadcast_id` that the client asks for (server.go:95, client.go:229); the
  README of the library lists the id as part of the frame. A delivery without
  request id is not acknowledged either: NormalizeEnvelope gives it one.

`AckPromise` is the promise of `Delivery.Ack` alone: one outcome per delivery, at
most one frame, every caller gets that outcome. A frame on a stream that broke
unnoticed is lost, and the outcome is "sent" all the same: the promise is at
most once, not exactly once. `AckKeepsPromise` is the refinement.

The two properties of waiting are stated of the states where nobody can move
(`~Moves`): the client, the Worker and the goroutines that receive deliveries have
no step, and the others need not take one. Under the fairness of the Go runtime
these are the states where a wait could last for ever. `OnlyTheCircleBlocksAck` says
that an Ack is stuck there only if the circle has closed: a callback that
sends on its own session into a full window, `consume` with a frame that the
application does not take, the application in Ack behind a full window. The model
reaches the circle in both its forms, so the property describes a deadlock
that the code has, and rules out any other. `EndNoticed` says the same of `run`,
which learns of a lost stream through `consume` alone. `MayMove` spells out the
guards of these steps, so that the two properties can be proved about; the part
`MayMove => Moves` of `OnlyTheCircleBlocksAck` has TLC compare them with what is
ENABLED.

| Run | Instance | Shows |
|---|---|---|
| `bridge_link` | 2 receiving goroutines, 2 streams, 3 deliveries, windows and channels of 1 | `TypeOK`, `Conserved`, `InOrder`, `AckKeepsPromise`, `OnlyTheCircleBlocksAck`, `EndNoticed` |

Bounds: `MaxStreams` (in `Connect`) and `MaxDeliveries` (in `PutDown`). Three
deliveries fill the window, the hand of `consume` and the channel at the same time, and
the second stream may deliver while all three places hold what the first one
left. Two goroutines ask of one delivery or contend for `sendMu`; they are
interchangeable, hence the symmetry. Deadlock is not checked: at the bounds the
link may come to rest.

## SimpleToken and TokenPromise

`TokenPromise` says what the tokens are for: a login or a revocation opens the
user's next epoch (`Supersede`), an epoch grants at most one token (`Grant`), a
verification accepts if and only if no later epoch was opened (`Answer`). A store
that forgets users (`Forget`) says nothing more about the tokens of an earlier
life.

`SimpleToken` is the code: an action is one Redis command or one reading of the
clock by one of any number of calls. `Call`, `Incr`, `IncrFails`, `Expire` and
`Stamp` are GenerateSimpleToken; RevokeSimpleToken is the same up to the answer of
the store (`AfterVersion`). `Parse` and `Compare` are VerifySimpleToken. A Redis
error leaves open whether the command was applied; a command that the Redis
client retried was applied twice, which is another call's lost reply.
`NumericDate` is the truncation to seconds of `jwt.NewNumericDate`. The history
variables `incrs`, `lives` and `turn` name the INCR a token comes from; the
refinement reads the abstract epochs and lives off them (`KeepsPromise`).

| Run | Instance | Shows |
|---|---|---|
| `token_versions` | 1 user, 2 calls, 1 verification, key TTL = token TTL, Redis fails | `OneTokenPerVersion`, `KeepsPromise` |
| `token_key_ttl` | the same without failures | violates `PreviousInvalid` |

Bounds: `MaxIncrs` INCRs of a user and `MaxTime` ticks. Three INCRs allow two
calls to race and a third to supersede both; four ticks let a key expire and
start over while a token of its earlier life has not expired. Users share no
state, so that one is enough. Keys and tokens expire by one clock: what Redis and
the hosts differ by is not modelled.

## TokenPair

The pairs are of one user, and the n-th stands for both JTIs. `Generate` and
`Save` are GenerateTokenPairWithVersion; `ParseAccess`, `AskBlocklist` and
`AskVersion` are VerifyAccessToken and its version, which goes on to ask the
session version; `ParseRefresh` and `Consume` are ConsumeRefreshToken; `Revoke`
and `Block` are RevokeAccessToken. Every one of them stops between the clock and
Redis, and between two stores. `Save` stores the user and the sequence that are
signed into the token, so that the mismatch tests of ConsumeRefreshToken cannot
fail on a token that was issued, and they are left out.

| Run | Instance | Shows |
|---|---|---|
| `pair_tokens` | 1 pair, 2 exchanges, 2 revocations, 1 verification, 2 session versions, Redis fails | `RefreshOnce`, `RefreshHonoured`, `RevokedUntilExpiry`, `SupersededRefused` |
| `pair_skew` | 1 pair, clock skew 1, no failures | violates `BlockedWhileUnexpired` |

Pairs share nothing but the session version, so that one is enough; two exchanges
and two revocations are a race. Five ticks pass the exp of
a pair that is generated early, exp plus the skew, and the exp of its refresh
token; with two ticks in a second and an odd TTL the truncation of exp shows.

Deadlock is not checked in either: at the last tick everything may have expired.

## KafkaManager, ServiceStart and Service

A service is one goroutine, main, that comes up step by step, and then the
goroutines that use what it made. `Service` extends `KafkaManager`, whose
manager is made by main's `InitKafka` and used while main serves, and
instantiates `ServiceStart`.

| Code | Actions |
|---|---|
| `LoadConfig`, `LoadConfigWithSecrets` | `LoadDotenv`, `LoadConfig`, `InjectSecret`, `SecretsInjected` |
| the `ApplyDefaults` methods | `ApplyDefaults` |
| `InitLogger`, `InitLoggerWithFile`, `InitRedis`, `InitTracing`, `InitKafka` | the same names; the first two are `InitLogger` |
| the end of the example main | `MainReturns` |
| `Manager.Publish` | `Publish`, `SendMessage`, `Answered`, `Snapshot`, `Observe`, `Return` |
| `Manager.ObserveConsume` | `ObserveConsume`, `Snapshot`, `Observe`, `Return` |
| `Manager.SetPublishObserver`, `SetConsumeObserver` | `Set`, `Installs` |
| `Manager.Close` | `Close`, `ProducerClosed`, `OnceReturns` |
| `NewConsumerGroup`, `NewConsumerGroupWithOptions` | `NewConsumerGroup` |

* The order of the Init functions is that of the example in `bootstrap/doc.go`,
  which ends the process on every error but that of InitTracing.
* A machine is a record: the variables of the process, `.env`, the files that
  secrets may be in, `config_<env>.yaml` for two environments, and the options
  the service is built with. `MCService` has ten: one where all is well, and
  one per case of the precedence (an unreadable file, a blank one, a variable
  that is set but empty and so keeps `.env` out, an environment named in `.env`,
  a prefixed variable, a negative number, a missing or malformed file).
* `Unmarshal` knows the keys of the file only: with `AllowNoConfig` and no file
  nothing comes from the environment, whatever the prefix. A malformed file
  stands also for one with a duration written as text, which nothing decodes. A
  prefixed variable may also override a number; a file with that number stands for it.
* A consumer group without a name, or of a nil manager, is an error that changes
  nothing, and is left out.
* What is assumed of sarama: a producer that is closing refuses messages and
  waits for those under way; one that is closed panics on a send. The deferred
  function of Publish then tells the observer of a success.
* The two observers and their snapshots are one: a call looks at one of them,
  and both are behind the same mutex.

`ServiceAssumption` is what is taken for granted of a machine: it says of every
file that a service may look for whether it is there, the environments it names
have a configuration file (which may be missing or malformed), and numbers are
numbers.

`SecretsResolved` names the value of a target apart from the order of the code's
tests, by the rank of the sources. Where two secrets have one target the last
one wins; an exporter that resolves to nothing may get its default later.
`NobodyStuck` is of the states where no call can go on, as above: `MayStep` are
the guards of System, and TLC compares them with what is ENABLED.
`ObservedAsReturned` is an action property: the observer was told, once, what the caller
gets at that moment. No property speaks of the shutdown of tracing: the example may
panic there (see below), and that the spans are flushed is not promised, for
provider.Shutdown may give up and its error is dropped (`unflushed`).

| Run | Instance | Shows |
|---|---|---|
| `service` | 10 machines, 3 secrets, 1 publisher, 1 consumer, 1 setter, 2 Closes | `ServiceTypeOK`, `SecretsResolved`, `DefaultsAgree`, `NobodyStuck`, `CloseCompletes`, `OptionsDoNotLeak`, `ObservedAsReturned` |

Two Closes meet in closeOnce; a publisher, a consumer and a setter are one each
of those who want the mutex. There is no bound: calls start over, and main does
not. Deadlock is not checked: main ends.

## Proofs

No theorem assumes more of the constants than the ASSUMEs of its module, which
are the effect of the `Defaults` of the code (positive TTLs and back-offs, a skew
that is not negative), except where it says so.

* `BridgeClientProofs`. `TypeCorrect` needs no help. `OneConsumerHolds` rests on
  `ConsumerInv`: while a consume lives, `run` is at the wait, in the cleanup
  that follows or done, and a cleanup that meets a living consume is the last,
  since the context of `run` has ended. By itself `OneConsumer` is not
  inductive: it does not say that `run` cannot pass the wait before the report.
  `RegisterPrecedesTraffic` and `SendsDoNotOverlap` rest on `TrafficInv`:
  `c.started` is false until the first connect succeeded, and until then every
  sender is idle; a sender past `Lock` is the holder of `sendMu`, and the stream
  that it read has its first frame or follows one that was launched.
* `BridgeClientResourceProofs` goes on from there.
  - `ConnectionsAreClosed`: from Dial on, c.conn is the connection of the last
    attempt, and one that had a stream is open from its Launch to its
    `CleanupConn` only (`ConnInv`).
  - `NoPanicWhileUp`: c.stream is nil only before the first Launch and from a
    `CleanupStream` on, and by then `CleanupCancel` has called the cancel function
    of the attempt, c.cancel being that of the last attempt until it was used;
    the channels are closed by a Close alone (`PanicInv`).
  - `SlotsAreExact` and `DrainHasWaited`: the two counters are the cardinality of
    the publishers between `acquireSlot` and `releaseSlot`, and of the
    goroutines that run (`SlotInv`, `WgInv`), with the theorems on finite sets.
  - `BackoffIsExact`: `retry` is the back-off after the attempts that failed
    since the last Launch (`BackoffInv`), and one doubling more is the next
    (`NextIsBackoffOf`). The provers do not know the exponential, so the theorem has
    its recurrence as a hypothesis (`PowersOfTwo`: 2^n is positive and 2^(n+1)
    is twice 2^n), which is arithmetic and restricts no constant.
  - `OnlyTheWorkerHolds` proves `OnlyTheWorkerIsWaitedFor`. Who holds sendMu is past
    `Lock`, and can go on or is in a Send on a stream that is up, and who holds or
    wants a slot is a publisher (`HolderInv`), so that a send that cannot move is
    traced to that Send, the slots being exact (`SendingMayStep`). When the context
    of the client has ended no stream is up. A
    consume that is over has reported, unless the context of its attempt was
    cancelled, which before a Close is done by the cleanup after the wait only
    (`ReportInv`): the end of a stream reaches `run` (`EndIsHeard`). When all have
    come to rest the WaitGroup is at zero (`WgInv`), and Drain returns
    (`StoppingMayStep`).
* `BridgeServerProofs`. `ClosedIsQuiet` rests on `ShutdownInv`: one goroutine at
  a time runs the function of stopOnce (`OnceInv`), GracefulStop begins and ends
  at its place (`HaltInv`), and a listener that was closed without a GracefulStop
  was closed by a stopOnce that is done (`StopInv`), so that no GracefulStop
  follows: this last part is what `QuietAfterClose` lacks to be inductive.
  `SessionsClosedOnce` rests on the histories at every place of a handler
  (`SessionInv`), `SendsAreSerial` on the holder of sendMu (`SendInv`).
  `OnlySidecarsHold` proves `OnlySidecarsAreWaitedFor`. Who wants a sendMu waits for
  somebody in Send on that stream, a callback that has not returned is one that
  sends (`HolderInv`), and who waits for stopOnce waits for its one runner, which
  waits for the handlers at most (`RunnerInv`): by those three the wait is traced
  to a Send or a Recv that its stream has not ended.
  `SessionsKeepPromise` is the refinement. Steps of a stream map to the callbacks,
  `Lock` and `SendReturns` to the begin and the end of a send. That a callback does
  not end in the middle of its Send needs `HolderInv`, that no goroutine sends on a
  Session before OnRegister has it `KeptInv`. A step of Serve or Close
  either is the `Stop` or is not seen (`StopIsStop`), and the promise allows no
  OnRegister after it: there `ClosedIsQuiet` is used, before and after the step.
* `SimpleTokenProofs`. `TokenInv` relates every call and token to its INCR: no two
  have the same INCR, and in one life of the key the version lags behind the
  number of INCRs by the same for all of them and for the key, so that equal
  versions are equal INCRs. `VersionsAreDistinct` follows. `PreviousTokensEnd` adds the
  assumption `KeyTTL = 0`, which `token_key_ttl` shows to be needed.
  `TokensKeepPromise` is the refinement, for every `KeyTTL`: INCR maps to
  `Supersede`, applied or lost; `Stamp` to `Grant`; `Tick`, by which keys
  expire, to `Forget`; `Parse` to `Ask`; `Compare` to `Answer`, by
  `CompareIsExact`; `Call` and `Expire` to a stutter.
* `TokenPairProofs`. `PairInv` has a part for each of the four properties:
  a pair is saved once, before it is handed out, and its key is not set again,
  which with GETDEL gives `RefreshIsOnce`; the key's TTL counts from a later reading of the clock than
  exp, and truncation only shortens exp, which gives `RefreshIsHonoured`; a
  pending `ttl` reaches to exp however late it is applied, which gives
  `RevokedIsRefused` and, with the assumption `ClockSkew = 0` that `pair_skew` shows to
  be needed, `BlockedWithoutSkew`; the session version only grows, which gives
  `SupersededIsRefused`.
* `BridgeLinkProofs`. For `AcksKeepPromise`, `AckInv` says that one goroutine at a
  time runs the function of a delivery's ackOnce, and that no frame of it is out
  while it does. `NothingLost` and `DeliveredInOrder` rest on one invariant:
  - `RunInv`: the streams that came before the current one have broken, their
    consume is gone, and nothing is left in its hand or in their windows down;
  - `OrderInv`: on each stream the frame in the hand and those in the window are
    in the order of their sending, and later than all that have arrived (`Follows`);
  - `Kept`: a delivery on a stream that lasts is one of them, or has arrived.

  `InOrder` alone is not inductive. That no other stream has anything on its way
  when consume offers a delivery is the point, and that is because `run` waits for
  the report of consume before it connects again. What Recv, Offer and Send do to
  the frames is said by lemmas on sequences (`FollowsRecv`, `FollowsOffer`,
  `FollowsSend`, `HeldRecv`, `HeldSend`).

  `OnlyTheCircle` proves `OnlyTheCircleWaits`, the guard form of
  `OnlyTheCircleBlocksAck`, with `WaitInv`: whoever waits for the outcome of an Ack
  waits for one that runs, whoever wants sendMu for one that sends, that one sends on a
  stream that was opened (`TurnInv`), and both ends stay with a stream until it has
  ended (`LeaveInv`). So an Ack that cannot move is one in Send, on the stream that
  the client has, with no room (`StuckAckIsInSend`), and on such a stream
  everybody else waits only in the circle (`FullStreamIsCircle`).
  `EndIsNoticed` assumes that some goroutine receives deliveries: with none, a
  full channel keeps consume from the end of its stream.
* `KafkaManagerProofs`. `KafkaInv`: closeOnce has one runner, and once it is done
  the producer is closed and nobody sends (`CloseInv`), which stays so because
  a closed producer takes no message; the base configuration is never written
  (`OptionsInv`); an observer hears once of a call, of which nothing changes until
  it returns (`ToldInv`). `NobodyWaitsForEver` proves `SomebodyMayStep`, the guard form
  of `NobodyStuck`, with `FreeInv`: observerMu is not held for reading across a
  call of an observer, and a closeOnce that is busy has somebody in
  producer.Close, who waits for answers that come.
* `ServiceProofs`. `ServiceUsesKafka`: each step of the service is a step of the
  manager or leaves it alone, so that the theorems above hold of the service
  (`ServiceKeepsKafka`).
  The others rest on `EnvInv`: after LoadDotenv the environment is the machine's with what
  `.env` adds, and nobody writes it again.
  - `SecretsAreResolved`: what GetSecretOrEnv finds step by step is the source of
    the lowest rank (`SecretIsResolved`); the next secret is the last of its
    target so far, and what it leaves alone has not changed (`SecretInv`).
  - `DefaultsDoAgree`: a number that is positive before ApplyDefaults is one that the
    file has, and afterwards every number is the file's or its default
    (`NumberInv`), of which each pair agrees.
  - `ServiceTypes` adds that no target is left without a string (`TextInv`).

Only model-checked: the liveness properties `Reconnects`, `Stops`, `SendersReturn`
and `ShutdownCompletes`, and that the guards in `MayMove` and `MayStep` are those of
steps that are ENABLED. Both are out of the prover's reach. `OnlyTheWorkerBlocks`,
`OnlyTheCircleBlocksAck` and `NobodyStuck` have this comparison as a conjunct, which is
why `OnlyTheWorkerHolds`, `OnlyTheCircle` and `NobodyWaitsForEver` prove the other
conjunct, under its own name; the guards of `BridgeServer` are compared by no run. For
the bridge it is proved that in every state in which one of the liveness properties
promises something, some goroutine has what it waits for, or it is said who outside
is waited for; what a proof of liveness would add is that those steps come to an
end. Every other property of a run that TLC passes is stated by a theorem.

## What the code does otherwise than it says

1. `RegisterFirst`. After a reconnect, `PublishIngress` (client.go:261), an Ack or
   a heartbeat may reach the new stream before its Register (client.go:183), and
   the Worker ends the stream: "register frame required" (server.go:126).
2. `NoNilStream`. `cleanup` sets `c.stream` to nil (client.go:321) and
   `PublishIngress` and `sendHeartbeat` use it without the test that `sendAck`
   has (client.go:377): between two streams they end the process.
3. `StartConnects`. With `Options.Metadata` the stream's context derives from the
   dial context (client.go:169), already cancelled (client.go:160): no connect
   succeeds, although "Start dials the remote gRPC bridge and begins stream
   consumption" (client.go:83).
4. `PreviousInvalid`. With `WithTokenVersionTTL` the version starts over at 1, and
   a token that a later login had ended is accepted again, although IncrVersion
   "automatically invalidates all previous tokens" (redis_store.go:173).
5. `BlockedWhileUnexpired`. RevokeAccessToken blocks for the "remaining TTL"
   (token.go:220) up to exp, and a token is accepted up to exp plus the skew.

Met while modelling, and shown by no run of their own:

* bootstrap/doc.go:28-32 warns of an error of InitTracing and then defers the nil
  function that came with it: main panics on return (`shutdown = "nil"`). The
  error is not a rare one: resource.Merge refuses two schema URLs, and those of
  semconv v1.26.0 and of the SDK in go.mod need not be the same.
* config/duration.go:6 says that a Duration is parsed from a number or from text
  like "30s"; no method does that, so that the text ends LoadConfig with an error.
* config/loader.go:15 gives ConfigPath the default "./configs"; options that leave
  it empty get no path.
* config/loader.go:17 speaks of configuration by the environment alone, which
  AutomaticEnv does not give to Unmarshal.
* kafka/manager.go:117 takes 3 for the least number of retries, not for the default.
* envelope.go:83 says that StampTrace fills in what is missing; it overwrites.
* bootstrap/doc.go:17 calls InitLogger with two arguments; it takes one.
* The library's README lists a broadcast_id (README.md:78) that SendBroadcast does not set.

## Not modelled

* Envelope helpers. NormalizeMessage, NormalizeEnvelope, ValidateIngress, StampTrace
  and the slot functions test and set fields of one record: a model would be the
  same text. The one behaviour is a data race: SendDeliver takes the envelope by
  value, but its Message is shared, so that a fan-out from several goroutines may
  give one Message two request ids. It depends on the application and on the
  memory model alone, and is listed as a hazard.
* A second LoadConfig in one process: viper's search paths, prefix and settings
  are global and stay from the first one.
* SecretLoader (a map around GetSecretOrEnv) and GetNodeID (the first variable
  that is not empty): no state that outlives the call.
* Logger, tracing, codes: a wrapper, a copy into metadata, a constant table.
* The protocol definition and the generated code: data types. The frames are
  small sets in the bridge modules.

## Plan

What the model has left: the fan-out of one Message, if the library gets a
broadcast of its own; a second LoadConfig; a Close that comes before Serve has
made its server, for which the library would first have to say what it promises.
What can still be proved: that the steps of `BridgeLink` are those of the two ends,
`BridgeClient` and `BridgeServer`, which would need the windows in those modules
as well.
