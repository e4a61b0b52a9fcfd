---------------------------- MODULE BridgeClient ----------------------------
(***************************************************************************)
(* The Sidecar's side of the bridge: the client of pkg/bridge/client.go.   *)
(*                                                                         *)
(* One goroutine (run) connects, waits for the stream to end, cleans up    *)
(* and connects again.  Every connect that succeeds starts two more: a     *)
(* heartbeatLoop and a consume.  The application calls PublishIngress,     *)
(* Delivery.Ack, Close and Drain from goroutines of its own.  They all     *)
(* share the fields c.cancel, c.conn, c.stream and c.recvErr, which no     *)
(* lock protects: sendMu orders the senders among themselves, and neither  *)
(* connect nor cleanup nor Close takes it.                                 *)
(*                                                                         *)
(* A goroutine is a program counter, and an action is one access to the    *)
(* shared fields.  The context, the ClientConn, the stream, the            *)
(* heartbeatLoop and the consume of the n-th call of connect are all named *)
(* n; Nil is the Go nil.  An unrecovered panic ends the process.           *)
(***************************************************************************)
EXTENDS Integers, FiniteSets

CONSTANTS
    Publishers,     \* application goroutines that call PublishIngress
    Ackers,         \* application goroutines that receive a Delivery and Ack it
    MaxAttempts,    \* BOUND: how many times run calls connect
    MaxInFlight,    \* Options.MaxInFlightDeliver; 0 when backpressure is off
    Buffer,         \* Options.DeliverBuffer and Options.BroadcastBuffer
    BaseBackoff,    \* Options.ReconnectBackoff, defaulted
    MaxBackoff,     \* Options.MaxReconnectBackoff, defaulted
    UseMetadata,    \* len(Options.Metadata) > 0
    NetworkFaults,  \* whether dialing, opening and keeping a stream may fail
    AppStops        \* whether the application ever cancels, closes or drains

Attempts == 1 .. MaxAttempts
Nil      == 0
Senders  == Publishers \cup Ackers \cup Attempts
Channels == {"deliver", "broadcast"}

ASSUME ClientAssumption ==
    /\ MaxAttempts \in Nat \ {0}
    /\ MaxInFlight \in Nat
    /\ Buffer \in Nat \ {0}
    /\ BaseBackoff \in Nat \ {0}
    /\ MaxBackoff \in Nat \ {0}
    /\ UseMetadata \in BOOLEAN
    /\ NetworkFaults \in BOOLEAN
    /\ AppStops \in BOOLEAN

ASSUME SendersAreDistinct ==
    /\ Publishers \cap Ackers = {}
    /\ (Publishers \cup Ackers) \cap Attempts = {}

VARIABLES
    run,        \* pc of client.run and of the connect and cleanup it calls
    retry,      \* run's local: the next back-off
    runCtx,     \* the context of run: "none" before Start, "live" or "done"
    attempt,    \* calls of connect so far
    cancel,     \* c.cancel \  the attempt whose cancel function, connection
    conn,       \* c.conn    > and stream the field holds, or Nil
    stream,     \* c.stream /
    cancelled,  \* the attempts whose context was cancelled
    open,       \* the attempts whose ClientConn was dialled and not closed
    broken,     \* the attempts whose stream the peer or the network ended
    first,      \* [Attempts -> the kind of the first frame sent on the stream]
    started,    \* c.started
    recvErr,    \* errors buffered in the channel c.recvErr, of capacity 1
    consumer,   \* [Attempts -> pc of consume]
    sender,     \* [Senders -> pc of a PublishIngress, an Ack, a heartbeatLoop]
    loaded,     \* [Senders -> what a sender read from c.stream]
    sendMu,     \* the holder of c.sendMu, in a set
    inflight,   \* tokens in the channel c.inflight
    wg,         \* counter of c.wg
    queued,     \* [Channels -> deliveries buffered in deliverCh, broadcastCh]
    closed,     \* c.closed: both channels are closed
    closer,     \* pc of the Drain (and the Close it calls) of the application
    checked,    \* what Close read from the field it is about to use
    panic       \* "none", or the run-time panic that ended the process

runVars    == <<run, retry, attempt>>
fieldVars  == <<cancel, conn, stream, started, recvErr>>
grpcVars   == <<cancelled, open, broken, first>>
sendVars   == <<sender, loaded, sendMu, inflight>>
closeVars  == <<closed, closer, checked>>
vars == <<runVars, fieldVars, grpcVars, sendVars, closeVars, runCtx, consumer,
          wg, queued, panic>>

RunPC      == {"off", "connect", "dial", "open", "register", "launch", "wait",
               "clCancel", "clStream", "clConn", "backoff", "done"}
ConsumerPC == {"off", "load", "recv", "report", "done"} \cup Channels
SenderPC   == {"off", "idle", "acquire", "lock", "reload", "send", "release",
               "done"}
CloserPC   == {"idle", "cancel", "stream", "conn", "channels", "closed",
               "drained"}
Panics     == {"none", "nil stream", "nil cancel", "nil conn", "closed channel"}
FrameKinds == {"register", "ingress", "ack", "heartbeat"}

TypeOK ==
    /\ run \in RunPC
    /\ retry \in Nat
    /\ runCtx \in {"none", "live", "done"}
    /\ attempt \in 0 .. MaxAttempts
    /\ cancel \in 0 .. MaxAttempts
    /\ conn \in 0 .. MaxAttempts
    /\ stream \in 0 .. MaxAttempts
    /\ cancelled \in SUBSET Attempts
    /\ open \in SUBSET Attempts
    /\ broken \in SUBSET Attempts
    /\ first \in [Attempts -> FrameKinds \cup {"none"}]
    /\ started \in BOOLEAN
    /\ recvErr \in {0, 1}
    /\ consumer \in [Attempts -> ConsumerPC]
    /\ sender \in [Senders -> SenderPC]
    /\ loaded \in [Senders -> 0 .. MaxAttempts]
    /\ sendMu \in SUBSET Senders
    /\ inflight \in 0 .. MaxInFlight
    /\ wg \in Int
    /\ queued \in [Channels -> 0 .. Buffer]
    /\ closed \in BOOLEAN
    /\ closer \in CloserPC
    /\ checked \in 0 .. MaxAttempts
    /\ panic \in Panics

Init ==
    /\ run = "off" /\ retry = BaseBackoff /\ runCtx = "none" /\ attempt = 0
    /\ cancel = Nil /\ conn = Nil /\ stream = Nil
    /\ cancelled = {} /\ open = {} /\ broken = {}
    /\ first = [a \in Attempts |-> "none"]
    /\ started = FALSE /\ recvErr = 0
    /\ consumer = [a \in Attempts |-> "off"]
    /\ sender = [s \in Senders |-> IF s \in Attempts THEN "off" ELSE "idle"]
    /\ loaded = [s \in Senders |-> Nil]
    /\ sendMu = {} /\ inflight = 0 /\ wg = 0
    /\ queued = [k \in Channels |-> 0]
    /\ closed = FALSE /\ closer = "idle" /\ checked = Nil /\ panic = "none"

-----------------------------------------------------------------------------
(* gRPC, as client.go uses it.                                             *)

\* The context of attempt a is cancelled: its own cancel, or run's.
CtxDone(a) == runCtx = "done" \/ a \in cancelled

\* Send on the stream of attempt a returns an error, and so does Recv, if not
\* before it has returned what had arrived.
StreamDown(a) == CtxDone(a) \/ a \in broken \/ a \notin open

\* The frames on a stream matter up to the first: the Worker refuses a stream
\* that does not begin with a Register (server.go, bridgeService.Stream).
Transmit(a, kind) ==
    first' = [first EXCEPT ![a] = IF @ = "none" THEN kind ELSE @]

\* The Worker or the network ends the stream that c.stream holds.
Break ==
    /\ NetworkFaults
    /\ stream # Nil /\ ~StreamDown(stream)
    /\ broken' = broken \cup {stream}
    /\ UNCHANGED <<runVars, fieldVars, cancelled, open, first, sendVars,
                   closeVars, runCtx, consumer, wg, queued, panic>>

-----------------------------------------------------------------------------
(* Start, and the application's own cancellation of the context it gave.   *)

Start ==
    /\ run = "off"
    /\ run' = "connect" /\ runCtx' = "live" /\ wg' = wg + 1
    /\ UNCHANGED <<retry, attempt, fieldVars, grpcVars, sendVars, closeVars,
                   consumer, queued, panic>>

CallerCancels ==
    /\ runCtx = "live" /\ AppStops
    /\ runCtx' = "done"
    /\ UNCHANGED <<runVars, fieldVars, grpcVars, sendVars, closeVars, consumer,
                   wg, queued, panic>>

-----------------------------------------------------------------------------
(* client.connect.                                                         *)

\* The context of the new attempt: c.cancel is overwritten, not called.
Connect ==
    /\ run = "connect"
    /\ run' = "dial" /\ attempt' = attempt + 1 /\ cancel' = attempt + 1
    /\ UNCHANGED <<retry, conn, stream, started, recvErr, grpcVars, sendVars,
                   closeVars, runCtx, consumer, wg, queued, panic>>

\* grpc.DialContext does not wait for the connection; c.conn is overwritten.
Dial ==
    /\ run = "dial"
    /\ run' = "open" /\ conn' = attempt /\ open' = open \cup {attempt}
    /\ UNCHANGED <<retry, attempt, cancel, stream, started, recvErr, cancelled,
                   broken, first, sendVars, closeVars, runCtx, consumer, wg,
                   queued, panic>>

\* With Options.Metadata the stream's context derives from dctx, and
\* cancelDial has cancelled dctx by then.
StreamCtxDone == CtxDone(attempt) \/ UseMetadata

OpenStream ==
    /\ run = "open" /\ ~StreamCtxDone
    /\ run' = "register" /\ stream' = attempt
    /\ UNCHANGED <<retry, attempt, cancel, conn, started, recvErr, grpcVars,
                   sendVars, closeVars, runCtx, consumer, wg, queued, panic>>

\* The Register frame is sent without sendMu, after c.stream was assigned.  Its
\* Send may wait for the Worker as any other.
Register ==
    /\ run = "register" /\ ~StreamDown(attempt)
    /\ run' = "launch" /\ Transmit(attempt, "register")
    /\ UNCHANGED <<retry, attempt, fieldVars, cancelled, open, broken, sendVars,
                   closeVars, runCtx, consumer, wg, queued, panic>>

\* connect returns an error and leaves c.cancel, c.conn and c.stream as they are.
ConnectFails ==
    /\ \/ run = "dial" /\ NetworkFaults
       \/ run = "open" /\ (NetworkFaults \/ StreamCtxDone)
       \/ run = "register" /\ StreamDown(attempt)
    /\ run' = "backoff"
    /\ UNCHANGED <<retry, attempt, fieldVars, grpcVars, sendVars, closeVars,
                   runCtx, consumer, wg, queued, panic>>

\* run's back-off starts over when connect has succeeded.
RetryNotReset == retry
RetryAfterSuccess == BaseBackoff

\* The goroutines of the attempt start.
Launch ==
    /\ run = "launch"
    /\ run' = "wait" /\ retry' = RetryAfterSuccess
    /\ started' = TRUE /\ recvErr' = 0 /\ wg' = wg + 1
    /\ sender' = [sender EXCEPT ![attempt] = "idle"]
    /\ consumer' = [consumer EXCEPT ![attempt] = "load"]
    /\ UNCHANGED <<attempt, cancel, conn, stream, grpcVars, loaded, sendMu,
                   inflight, closeVars, runCtx, queued, panic>>

-----------------------------------------------------------------------------
(* client.run: back-off, the wait for the end of the stream, and cleanup.  *)

\* The back-off after the one just slept.
NextBackoff(r) ==
    IF r >= MaxBackoff THEN r
    ELSE IF 2 * r > MaxBackoff THEN MaxBackoff ELSE 2 * r

BackoffElapses ==
    /\ run = "backoff" /\ attempt < MaxAttempts
    /\ run' = "connect" /\ retry' = NextBackoff(retry)
    /\ UNCHANGED <<attempt, fieldVars, grpcVars, sendVars, closeVars, runCtx,
                   consumer, wg, queued, panic>>

\* ctx.Done ends the wait between two attempts, without a cleanup.
BackoffCancelled ==
    /\ run = "backoff" /\ runCtx = "done"
    /\ run' = "done" /\ wg' = wg - 1
    /\ UNCHANGED <<retry, attempt, fieldVars, grpcVars, sendVars, closeVars,
                   runCtx, consumer, queued, panic>>

\* The two ways out of run's second select.
LeavesWithTheStream == StreamDown(stream) /\ UNCHANGED recvErr
StreamEnded ==
    /\ recvErr = 1
    /\ recvErr' = 0
RunIgnoresCancel == FALSE /\ UNCHANGED recvErr
RunCancelled ==
    /\ runCtx = "done"
    /\ UNCHANGED recvErr

LeaveWait ==
    /\ run = "wait"
    /\ StreamEnded \/ RunCancelled
    /\ run' = "clCancel"
    /\ UNCHANGED <<retry, attempt, cancel, conn, stream, started, grpcVars,
                   sendVars, closeVars, runCtx, consumer, wg, queued, panic>>

CleanupCancel ==
    /\ run = "clCancel"
    /\ run' = "clStream" /\ cancel' = Nil
    /\ cancelled' = cancelled \cup ({cancel} \ {Nil})
    /\ UNCHANGED <<retry, attempt, conn, stream, started, recvErr, open, broken,
                   first, sendVars, closeVars, runCtx, consumer, wg, queued,
                   panic>>

\* CloseSend on a stream whose context is cancelled changes nothing more.
CleanupStream ==
    /\ run = "clStream"
    /\ run' = "clConn" /\ stream' = Nil
    /\ UNCHANGED <<retry, attempt, cancel, conn, started, recvErr, grpcVars,
                   sendVars, closeVars, runCtx, consumer, wg, queued, panic>>

CleanupForgetsClose == open
OpenAfterCleanup == open \ {conn}

CleanupConn ==
    /\ run = "clConn"
    /\ conn' = Nil /\ open' = OpenAfterCleanup
    /\ \/ runCtx = "done" /\ run' = "done" /\ wg' = wg - 1
       \/ runCtx # "done" /\ attempt < MaxAttempts /\ run' = "connect"
          /\ UNCHANGED wg
    /\ UNCHANGED <<retry, attempt, cancel, stream, started, recvErr, cancelled,
                   broken, first, sendVars, closeVars, runCtx, consumer, queued,
                   panic>>

RunStep ==
    \/ Connect \/ Dial \/ OpenStream \/ Register \/ ConnectFails \/ Launch
    \/ BackoffElapses \/ BackoffCancelled
    \/ LeaveWait \/ CleanupCancel \/ CleanupStream \/ CleanupConn

-----------------------------------------------------------------------------
(* client.consume of attempt a.                                            *)

ConsumerTo(a, pc) == consumer' = [consumer EXCEPT ![a] = pc]

\* c.stream.Recv() reads the field again on every turn of the loop.
ConsumeLoad(a) ==
    /\ consumer[a] = "load"
    /\ \/ stream # Nil /\ ConsumerTo(a, "recv") /\ UNCHANGED panic
       \/ stream = Nil /\ panic' = "nil stream" /\ UNCHANGED consumer
    /\ UNCHANGED <<runVars, fieldVars, grpcVars, sendVars, closeVars, runCtx,
                   wg, queued>>

\* A Deliver or a Broadcast with an envelope is offered to its channel; any
\* other frame (a Heartbeat, an empty Deliver) is dropped.  A stream that is
\* over still has the frames that had arrived.
ConsumeFrame(a) ==
    /\ consumer[a] = "recv"
    /\ \E pc \in Channels \cup {"load"} : ConsumerTo(a, pc)
    /\ UNCHANGED <<runVars, fieldVars, grpcVars, sendVars, closeVars, runCtx,
                   wg, queued, panic>>

ReturnsUnreported == "done"
AfterRecvError == "report"

ConsumeEnds(a) ==
    /\ consumer[a] = "recv" /\ StreamDown(a)
    /\ ConsumerTo(a, AfterRecvError)
    /\ UNCHANGED <<runVars, fieldVars, grpcVars, sendVars, closeVars, runCtx,
                   wg, queued, panic>>

\* The buffered channel that Launch made; a full one would block consume.
ConsumeReport(a) ==
    /\ consumer[a] = "report" /\ recvErr = 0
    /\ recvErr' = 1 /\ ConsumerTo(a, "done")
    /\ UNCHANGED <<runVars, cancel, conn, stream, started, grpcVars, sendVars,
                   closeVars, runCtx, wg, queued, panic>>

\* The select between the channel and ctx.Done.  Close closes the channel
\* while consume may be here, and then the send panics.
ConsumeQueue(a, k) ==
    /\ consumer[a] = k
    /\ \/ /\ ~closed /\ queued[k] < Buffer
          /\ queued' = [queued EXCEPT ![k] = @ + 1]
          /\ ConsumerTo(a, "load") /\ UNCHANGED panic
       \/ closed /\ panic' = "closed channel" /\ UNCHANGED <<queued, consumer>>
       \/ CtxDone(a) /\ ConsumerTo(a, "done") /\ UNCHANGED <<queued, panic>>
    /\ UNCHANGED <<runVars, fieldVars, grpcVars, sendVars, closeVars, runCtx,
                   wg>>

ConsumeStep(a) ==
    \/ ConsumeLoad(a) \/ ConsumeEnds(a) \/ ConsumeReport(a)
    \/ \E k \in Channels : ConsumeQueue(a, k)

-----------------------------------------------------------------------------
(* The senders: PublishIngress, sendAck and heartbeatLoop.                 *)

SenderTo(s, pc) == sender' = [sender EXCEPT ![s] = pc]

FrameOf(s) ==
    IF s \in Publishers THEN "ingress"
    ELSE IF s \in Ackers THEN "ack" ELSE "heartbeat"

\* The test of c.started in PublishIngress and in sendHeartbeat.
NeverTested == TRUE
Ready == started

\* PublishIngress returns ErrNotStarted until connect has set c.started.
Publish(p) ==
    /\ sender[p] = "idle" /\ Ready
    /\ SenderTo(p, "acquire")
    /\ UNCHANGED <<runVars, fieldVars, grpcVars, loaded, sendMu, inflight,
                   closeVars, runCtx, consumer, wg, queued, panic>>

OneSlotTooMany == inflight <= MaxInFlight
SlotFree == inflight < MaxInFlight

\* acquireSlot, when backpressure is on.
AcquireSlot(p) ==
    /\ sender[p] = "acquire"
    /\ \/ MaxInFlight = 0 /\ UNCHANGED inflight
       \/ SlotFree /\ inflight' = inflight + 1
    /\ SenderTo(p, "lock")
    /\ UNCHANGED <<runVars, fieldVars, grpcVars, loaded, sendMu, closeVars,
                   runCtx, consumer, wg, queued, panic>>

\* acquireSlot gives up when the context of the call ends; the release of the
\* slot is not deferred yet.
ReleaseDeferredEarly == "release"
AfterNoSlot == "idle"

AbandonSlot(p) ==
    /\ sender[p] = "acquire" /\ MaxInFlight # 0
    /\ SenderTo(p, AfterNoSlot)
    /\ UNCHANGED <<runVars, fieldVars, grpcVars, loaded, sendMu, inflight,
                   closeVars, runCtx, consumer, wg, queued, panic>>

\* The deferred releaseSlot; it does not block when it finds no token.
ReleaseSlot(p) ==
    /\ sender[p] = "release"
    /\ inflight' = IF inflight > 0 THEN inflight - 1 ELSE inflight
    /\ SenderTo(p, "idle")
    /\ UNCHANGED <<runVars, fieldVars, grpcVars, loaded, sendMu, closeVars,
                   runCtx, consumer, wg, queued, panic>>

\* The application receives from deliverCh and acknowledges what it got.  A
\* Delivery without a message id, or an expired context, sends no Ack.
TakeDelivery(k) ==
    /\ sender[k] = "idle" /\ queued["deliver"] > 0
    /\ queued' = [queued EXCEPT !["deliver"] = @ - 1]
    /\ SenderTo(k, "lock") \/ UNCHANGED sender
    /\ UNCHANGED <<runVars, fieldVars, grpcVars, loaded, sendMu, inflight,
                   closeVars, runCtx, consumer, wg, panic>>

\* The application receives from broadcastCh.  The Ack of a broadcast sends
\* nothing: SendBroadcast leaves the broadcast id empty.
TakeBroadcast ==
    /\ queued["broadcast"] > 0
    /\ queued' = [queued EXCEPT !["broadcast"] = @ - 1]
    /\ UNCHANGED <<runVars, fieldVars, grpcVars, sendVars, closeVars, runCtx,
                   consumer, wg, panic>>

\* heartbeatLoop of attempt a: the ticker, or ctx.Done.
Tick(a) ==
    /\ sender[a] = "idle" /\ Ready
    /\ SenderTo(a, "lock")
    /\ UNCHANGED <<runVars, fieldVars, grpcVars, loaded, sendMu, inflight,
                   closeVars, runCtx, consumer, wg, queued, panic>>

HeartbeatEnds(a) ==
    /\ sender[a] = "idle" /\ CtxDone(a)
    /\ SenderTo(a, "done") /\ wg' = wg - 1
    /\ UNCHANGED <<runVars, fieldVars, grpcVars, loaded, sendMu, inflight,
                   closeVars, runCtx, consumer, queued, panic>>

NoMutex == TRUE
MuFree == sendMu = {}

\* Where a sender goes when it has given sendMu back.
AfterUnlock(s) == IF s \in Publishers THEN "release" ELSE "idle"

\* "stream not ready" returns through the deferred unlock.
MuLeftLocked(s) == {s}
MuAfterNotReady(s) == {}

\* A sender locks sendMu and reads c.stream.  Only sendAck looks whether it is
\* nil.
Lock(s) ==
    /\ sender[s] = "lock" /\ MuFree
    /\ \/ /\ stream # Nil
          /\ sendMu' = {s} /\ loaded' = [loaded EXCEPT ![s] = stream]
          /\ SenderTo(s, IF s \in Ackers THEN "reload" ELSE "send")
          /\ UNCHANGED panic
       \/ /\ stream = Nil /\ s \in Ackers
          /\ sendMu' = MuAfterNotReady(s) /\ SenderTo(s, AfterUnlock(s))
          /\ UNCHANGED <<loaded, panic>>
       \/ /\ stream = Nil /\ s \notin Ackers
          /\ panic' = "nil stream"
          /\ UNCHANGED <<sender, loaded, sendMu>>
    /\ UNCHANGED <<runVars, fieldVars, grpcVars, inflight, closeVars, runCtx,
                   consumer, wg, queued>>

\* sendAck's second read of c.stream, after its nil check.  The two reads race
\* with cleanup: the build may reuse the first or read the field again.
Reload(s) ==
    /\ sender[s] = "reload"
    /\ \/ SenderTo(s, "send") /\ UNCHANGED <<loaded, panic>>
       \/ /\ stream # Nil
          /\ loaded' = [loaded EXCEPT ![s] = stream]
          /\ SenderTo(s, "send") /\ UNCHANGED panic
       \/ /\ stream = Nil
          /\ panic' = "nil stream" /\ UNCHANGED <<sender, loaded>>
    /\ UNCHANGED <<runVars, fieldVars, grpcVars, sendMu, inflight, closeVars,
                   runCtx, consumer, wg, queued>>

\* stream.Send, and the unlock that follows whether it failed or not.  It returns
\* when the Worker's window has room for the frame, or with an error when the
\* stream is over; sendMu is held until then.
Send(s) ==
    /\ sender[s] = "send"
    /\ \/ ~StreamDown(loaded[s]) /\ Transmit(loaded[s], FrameOf(s))
       \/ StreamDown(loaded[s]) /\ UNCHANGED first
    /\ sendMu' = {} /\ SenderTo(s, AfterUnlock(s))
    /\ loaded' = [loaded EXCEPT ![s] = Nil]
    /\ UNCHANGED <<runVars, fieldVars, cancelled, open, broken, inflight,
                   closeVars, runCtx, consumer, wg, queued, panic>>

SendFails(s) == StreamDown(loaded[s]) /\ Send(s)

SendStep(s) == Lock(s) \/ Reload(s) \/ Send(s)

-----------------------------------------------------------------------------
(* client.Close, called once (stopOnce), and client.Drain.                 *)

\* Close, or the Close in Drain, enters stopOnce and calls runCancel.
Close ==
    /\ closer = "idle" /\ AppStops
    /\ closer' = "cancel"
    /\ runCtx' = IF runCtx = "live" THEN "done" ELSE runCtx
    /\ UNCHANGED <<runVars, fieldVars, grpcVars, sendVars, closed, checked,
                   consumer, wg, queued, panic>>

\* The fields that Close tests and then uses, and the step after each.
Field(f) ==
    IF f = "cancel" THEN cancel ELSE IF f = "stream" THEN stream ELSE conn
AfterField(f) ==
    IF f = "cancel" THEN "stream" ELSE IF f = "stream" THEN "conn"
    ELSE "channels"
NilPanic(f) ==
    IF f = "cancel" THEN "nil cancel" ELSE IF f = "stream" THEN "nil stream"
    ELSE "nil conn"
CloseFields == {"cancel", "stream", "conn"}

\* if c.f != nil
CloseCheck(f) ==
    /\ closer = f /\ checked = Nil
    /\ checked' = Field(f)
    /\ closer' = IF Field(f) = Nil THEN AfterField(f) ELSE f
    /\ UNCHANGED <<runVars, fieldVars, grpcVars, sendVars, closed, runCtx,
                   consumer, wg, queued, panic>>

\* The call on c.f: cleanup may have set it to nil since, and connect to
\* another attempt's; the build may reuse the value of the check.
CloseUse(f) ==
    /\ closer = f /\ checked # Nil
    /\ \E x \in {checked, Field(f)} :
         IF x = Nil
         THEN /\ panic' = NilPanic(f)
              /\ UNCHANGED <<closer, checked, cancelled, open>>
         ELSE /\ closer' = AfterField(f) /\ checked' = Nil /\ UNCHANGED panic
              /\ cancelled' = IF f = "cancel" THEN cancelled \cup {x}
                                              ELSE cancelled
              /\ open' = IF f = "conn" THEN open \ {x} ELSE open
    /\ UNCHANGED <<runVars, fieldVars, broken, first, sendVars, closed, runCtx,
                   consumer, wg, queued>>

CloseChannels ==
    /\ closer = "channels"
    /\ closer' = "closed" /\ closed' = TRUE
    /\ UNCHANGED <<runVars, fieldVars, grpcVars, sendVars, checked, runCtx,
                   consumer, wg, queued, panic>>

OnlyRunIsWaitedFor == run \in {"off", "done"}
WaitGroupDone == wg = 0

\* Drain returns nil when wg.Wait does.  One whose context ends first returns
\* an error and changes nothing.
DrainReturns ==
    /\ closer = "closed" /\ WaitGroupDone
    /\ closer' = "drained"
    /\ UNCHANGED <<runVars, fieldVars, grpcVars, sendVars, closed, checked,
                   runCtx, consumer, wg, queued, panic>>

CloseStep ==
    \/ \E f \in CloseFields : CloseCheck(f) \/ CloseUse(f)
    \/ CloseChannels

-----------------------------------------------------------------------------
Application ==
    \/ Start \/ CallerCancels \/ Close \/ DrainReturns
    \/ \E p \in Publishers :
          Publish(p) \/ AcquireSlot(p) \/ AbandonSlot(p) \/ ReleaseSlot(p)
    \/ \E k \in Ackers : TakeDelivery(k)
    \/ TakeBroadcast

Client ==
    \/ RunStep
    \/ \E a \in Attempts :
          ConsumeStep(a) \/ ConsumeFrame(a) \/ Tick(a) \/ HeartbeatEnds(a)
    \/ \E s \in Senders : SendStep(s)
    \/ CloseStep

\* After a panic the process is gone.
Next == panic = "none" /\ (Application \/ Client \/ Break)

Spec == Init /\ [][Next]_vars
-----------------------------------------------------------------------------
(* Fairness.  The Go scheduler runs every goroutine that can run.  Nothing *)
(* is assumed of the Worker, not even that it reads: a Send is sure to     *)
(* return only when its stream is over.  Nor is anything assumed of the    *)
(* network (Break) or of when the application publishes, cancels or closes.*)
(* Strong fairness is the runtime's own: a sync.Mutex in starvation mode   *)
(* and a channel's wait queue are first come first served, and a select    *)
(* with several ready cases picks one of them at random.  And a stream     *)
(* that is over has finitely many frames left for Recv.                    *)

Alive(A) == panic = "none" /\ A

RunReturns == (run = "register" => StreamDown(attempt)) /\ RunStep
SenderGoes(s) ==
    \/ Lock(s) \/ Reload(s) \/ SendFails(s)
    \/ s \in Publishers /\ (AcquireSlot(s) \/ ReleaseSlot(s))

ClientFairness ==
    /\ WF_vars(Alive(RunReturns))
    /\ WF_vars(Alive(CloseStep))
    /\ \A a \in Attempts :
          /\ WF_vars(Alive(ConsumeStep(a))) /\ SF_vars(Alive(ConsumeEnds(a)))
          /\ SF_vars(Alive(HeartbeatEnds(a)))
    /\ \A s \in Senders : SF_vars(Alive(SenderGoes(s)))

\* The application keeps receiving from deliverCh and from broadcastCh.
DeliverDrained   == WF_vars(Alive(\E k \in Ackers : TakeDelivery(k)))
BroadcastDrained == WF_vars(Alive(TakeBroadcast))

FairSpec == Spec /\ ClientFairness /\ DeliverDrained /\ BroadcastDrained

\* An application that subscribes to deliverCh only, like the README's sidecar.
DeliverOnlySpec == Spec /\ ClientFairness /\ DeliverDrained

-----------------------------------------------------------------------------
(* Safety.                                                                 *)

\* The attempts whose connect returned no error; the last of them; and the
\* calls of connect that failed since.
Launched      == {a \in Attempts : consumer[a] # "off"}
Last          == IF Launched = {} THEN 0
                 ELSE CHOOSE a \in Launched : \A b \in Launched : b <= a
FailedInARow  == attempt - Last
Consuming     == {a \in Attempts : consumer[a] \notin {"off", "done"}}
HoldsSlot     == {p \in Publishers :
                     sender[p] \in {"lock", "send", "release"}}

\* Nobody sends on the stream of the first successful connect before its
\* Register: c.started is what keeps PublishIngress away, although c.stream is
\* already assigned and the Register is sent without sendMu.  (After a
\* reconnect c.started is no help: see RegisterFirst.)
RegisterBeforeTraffic ==
    \A a \in Attempts :
        first[a] \notin {"none", "register"} => \E b \in Launched : b < a

\* gRPC allows one Send on a stream at a time.  Until the first reconnect the
\* senders never overlap, and none overlaps the Register.
OneSendAtATime ==
    \A s \in Senders : sender[s] = "send" =>
        /\ \A t \in Senders \ {s} :
              sender[t] = "send" => loaded[t] # loaded[s]
        /\ run = "register" /\ loaded[s] = attempt
              => \E b \in Launched : b < attempt

\* consume reads c.stream and c.recvErr without a lock, and so does the consume
\* of a later attempt.  They are never two: run connects again only when the
\* consume of the attempt has reported.  So a consume reads the stream of its
\* own attempt (or the nil of the cleanup), and reports to the channel made for
\* it, which has room: its report cannot block.
OneConsumer ==
    \A a \in Consuming :
        /\ a = attempt /\ \A b \in Launched : b <= a
        /\ stream \in {a, Nil} /\ recvErr = 0

\* A goroutine dereferences a nil field only when a stream that was up is torn
\* down, and a consume panics on a closed channel only when Close closed it:
\* while the first stream is up, no order of the goroutines ends the process.
NoPanicInService ==
    panic # "none" => cancelled # {} \/ closer # "idle"

\* The reconnecting client keeps one connection that had a stream: every other
\* one it had was closed by cleanup before the next connect overwrote c.conn.
\* (A connection whose stream was refused is overwritten unclosed.)
ConnectionsClosed ==
    \A a \in Launched \cap open :
        conn = a /\ run \in {"wait", "clCancel", "clStream", "clConn"}

\* The tokens in c.inflight are those of the publishers between acquireSlot and
\* their deferred releaseSlot: none is lost when acquireSlot gives up, when
\* Send fails, or when the stream is replaced under a publisher.
SlotsExact ==
    MaxInFlight > 0 => inflight = Cardinality(HoldsSlot)

\* The n-th back-off in a row is min(Base * 2^(n-1), Max), or Base where Base is
\* the larger, and a successful connect starts over with n = 1.
BackoffOf(n) ==
    LET doubled == BaseBackoff * 2 ^ (n - 1)
    IN  IF BaseBackoff >= MaxBackoff THEN BaseBackoff
        ELSE IF doubled > MaxBackoff THEN MaxBackoff ELSE doubled

BackoffExact ==
    run = "backoff" => retry = BackoffOf(FailedInARow)

\* Drain returns nil only when run and every heartbeatLoop have returned (also
\* when Drain ran before Start, and when cleanup and Close raced).
DrainWaits ==
    [][closer # "drained" /\ closer' = "drained"
        => /\ run \in {"off", "done"}
           /\ \A a \in Attempts : sender[a] \in {"off", "done"}]_vars

-----------------------------------------------------------------------------
(* Liveness.                                                               *)

\* A stream that ends is noticed: run does not stay at its wait but cleans up,
\* provided the application keeps receiving from both channels and does not
\* close the client.  (A Close that came before Start keeps consume from
\* reporting, and nobody can cancel that run.)
Reconnects ==
    []<>(run = "wait" /\ stream \in broken /\ closer = "idle"
            => panic # "none")

\* When its context ends, the client comes to rest: run, every heartbeatLoop
\* and every consume return.  (A context that has ended stays so.)
Stops ==
    []<>(runCtx = "done" =>
            \/ panic # "none"
            \/ /\ run = "done" /\ Consuming = {}
               /\ \A a \in Attempts : sender[a] \in {"off", "done"})

\* A Send on a stream that is up, which waits for room in the Worker's window.
HeldByWorker(s) == sender[s] = "send" /\ ~StreamDown(loaded[s])

\* A send that has begun returns, whatever becomes of the stream, if no Send
\* waits for ever on a Worker that does not read: no path leaves sendMu locked.
\* (A publisher also wants a slot: see OnlyTheWorkerIsWaitedFor.)
SendersReturn ==
    (\A s \in Senders : []<>~HeldByWorker(s))
        => \A s \in Senders :
              []<>(sender[s] \in {"off", "idle", "done"} \/ panic # "none")

-----------------------------------------------------------------------------
(* Nobody waits in a ring.                                                 *)

\* What the steps of ClientFairness, and the wg.Wait of Drain, wait for: their
\* guards.
MayStep ==
    \/ run \in {"connect", "dial", "open", "launch", "clCancel", "clStream"}
    \/ run = "register" /\ StreamDown(attempt)
    \/ run \in {"backoff", "clConn"} /\ (runCtx = "done" \/ attempt < MaxAttempts)
    \/ run = "wait" /\ (recvErr = 1 \/ runCtx = "done")
    \/ \E a \in Attempts :
          \/ consumer[a] = "load"
          \/ consumer[a] = "recv" /\ StreamDown(a)
          \/ consumer[a] = "report" /\ recvErr = 0
          \/ \E k \in Channels :
                consumer[a] = k /\ (closed \/ queued[k] < Buffer \/ CtxDone(a))
          \/ sender[a] = "idle" /\ CtxDone(a)
    \/ \E s \in Senders :
          \/ sender[s] = "lock" /\ MuFree
          \/ sender[s] = "reload"
          \/ sender[s] = "send" /\ StreamDown(loaded[s])
    \/ \E p \in Publishers :
          \/ sender[p] = "acquire" /\ (MaxInFlight = 0 \/ SlotFree)
          \/ sender[p] = "release"
    \/ closer \in CloseFields \cup {"channels"}
    \/ closer = "closed" /\ WaitGroupDone

AtRest ==
    /\ run = "done" /\ Consuming = {} /\ closer \in {"idle", "drained"}
    /\ \A a \in Attempts : sender[a] \in {"off", "done"}

Stopping == runCtx = "done" /\ ~AtRest
Sending  == \E s \in Senders : sender[s] \notin {"off", "idle", "done"}
EndUnheard ==
    /\ run = "wait" /\ stream \in broken /\ closer = "idle"
    /\ \A k \in Channels : consumer[stream] = k => queued[k] < Buffer

\* A client whose context has ended comes to rest, and its Drain returns, with
\* nobody's help: in every state before that some goroutine has what it waits
\* for, and none waits for sendMu, a slot, recvErr or wg in a ring with the
\* others.  So it is with run when the stream has ended and the application
\* leaves room for consume.  A PublishIngress, an Ack or a heartbeat that cannot
\* go on waits in the end for one Send, on a stream that is up, which the Worker
\* leaves without room: nothing bounds that wait, under sendMu.
OnlyTheWorkerIsWaitedFor ==
    panic = "none" =>
        /\ Stopping \/ EndUnheard => MayStep
        /\ Sending => MayStep \/ \E s \in Senders : HeldByWorker(s)

\* The steps that FairSpec is sure of, and Drain's return.
FairStep ==
    \/ RunReturns \/ CloseStep \/ DrainReturns
    \/ \E a \in Attempts : ConsumeStep(a) \/ HeartbeatEnds(a)
    \/ \E s \in Senders : SenderGoes(s)

\* The same, with the guards of MayStep compared with the steps themselves: some
\* goroutine of connect, run, consume, Close or a sender can then really go on.
OnlyTheWorkerBlocks ==
    OnlyTheWorkerIsWaitedFor /\ (MayStep => ENABLED FairStep)

-----------------------------------------------------------------------------
(* What the documents say of the client, and its code does not keep.       *)

\* Every stream begins with its Register: the Worker ends any other with
\* "register frame required" (server.go:126).
RegisterFirst == \A a \in Attempts : first[a] \in {"none", "register"}

\* sendAck answers "stream not ready" when c.stream is nil (client.go:377); so
\* no sender meets a nil stream.
NoNilStream == panic # "nil stream"

\* Start "dials the remote gRPC bridge and begins stream consumption"
\* (client.go:83): with a network that works and a context that lives, connect
\* does not fail.
StartConnects == ~NetworkFaults /\ runCtx = "live" => run # "backoff"
=============================================================================
