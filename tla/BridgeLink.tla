----------------------------- MODULE BridgeLink -----------------------------
(***************************************************************************)
(* The bridge from end to end: the Sidecar's client (client.go), the       *)
(* Worker's sessions (server.go), the deliveries and their Acks            *)
(* (delivery.go), and between them one stream at a time with a bounded     *)
(* window in each direction.                                               *)
(*                                                                         *)
(* BridgeClient and BridgeServer have the life of either end, its connect, *)
(* cleanup and shutdown, and its mutexes.  Here both ends are in service,  *)
(* and what is followed is the traffic: a delivery from the Worker's Send  *)
(* through consume and deliverCh to the application, its Ack back to       *)
(* OnAck, and all that these wait for.  connect and cleanup are one step   *)
(* each; a stream that a frame reaches before its Register is one that     *)
(* breaks.  A goroutine that publishes, beats or pushes and waits for room *)
(* in a window holds a sendMu; but whoever waits for that sendMu has no    *)
(* room either, so these sends are one step, taken when there is room.     *)
(* The Worker's heartbeats are dropped by consume and are left out; those  *)
(* of the client are, to the window and to the handler, what an Ingress    *)
(* is.                                                                     *)
(***************************************************************************)
EXTENDS Naturals, Sequences

CONSTANTS
    Callers,        \* the application's goroutines that receive and Ack
    Window,         \* the frames that fit in one direction of a stream
    Buffer,         \* Options.DeliverBuffer and BroadcastBuffer
    MaxStreams,     \* BOUND: the streams opened one after the other
    MaxDeliveries   \* BOUND: the deliveries that the Worker transmits

ASSUME LinkAssumption ==
    /\ Window \in Nat \ {0} /\ Buffer \in Nat \ {0}
    /\ MaxStreams \in Nat /\ MaxDeliveries \in Nat

Streams    == 1 .. MaxStreams
Deliveries == 1 .. MaxDeliveries
Nil        == 0
Ingress    == 0                  \* a frame up that is not an Ack
Broadcast  == 0                  \* a frame down that is not a Deliver

VARIABLES
    stream,      \* c.stream, or Nil
    opened,      \* how many streams were opened
    broken,      \* those that have ended
    consumer,    \* [Streams -> pc of consume]
    hand,        \* [Streams -> the frame that consume is about to offer]
    deliverCh,   \* the deliveries in c.deliverCh
    broadcastCh, \* the number of those in c.broadcastCh
    offered,     \* the deliveries put into c.deliverCh (history)
    up, down,    \* [Streams -> the frames in either window]
    sentOn,      \* the stream of each delivery, in order of transmission
    caller,      \* [Callers -> pc of Delivery.Ack]
    item,        \* [Callers -> the delivery whose Ack it is in, or Nil]
    aim,         \* [Callers -> the stream on which it is in Send, or Nil]
    sendMu,      \* the holder of c.sendMu, in a set
    ack,         \* [Deliveries -> ackOnce and ackErr]
    frames,      \* [Deliveries -> the Ack frames put on a stream] (history)
    handler      \* [Streams -> pc of bridgeService.Stream]

runVars     == <<stream, opened, broken>>
consumeVars == <<consumer, hand, deliverCh, broadcastCh, offered>>
netVars     == <<up, down, sentOn>>
callVars    == <<caller, item, aim, sendMu>>
ackVars     == <<ack, frames>>
vars == <<runVars, consumeVars, netVars, callVars, ackVars,
          handler>>

TypeOK ==
    /\ stream \in 0 .. MaxStreams /\ opened \in 0 .. MaxStreams
    /\ broken \in SUBSET Streams
    /\ consumer \in [Streams -> {"off", "recv", "offer", "done"}]
    /\ hand \in [Streams -> 0 .. MaxDeliveries]
    /\ deliverCh \in Seq(Deliveries) /\ Len(deliverCh) <= Buffer
    /\ broadcastCh \in 0 .. Buffer
    /\ offered \in SUBSET Deliveries
    /\ up \in [Streams -> Seq(0 .. MaxDeliveries)]
    /\ down \in [Streams -> Seq(0 .. MaxDeliveries)]
    /\ \A s \in Streams : Len(up[s]) <= Window /\ Len(down[s]) <= Window
    /\ sentOn \in Seq(Streams) /\ Len(sentOn) <= MaxDeliveries
    /\ caller \in [Callers -> {"idle", "lock", "send", "wait"}]
    /\ item \in [Callers -> 0 .. MaxDeliveries]
    /\ aim \in [Callers -> 0 .. MaxStreams]
    /\ sendMu \in SUBSET Callers
    /\ ack \in [Deliveries -> {"fresh", "busy", "sent", "failed"}]
    /\ frames \in [Deliveries -> Nat]
    /\ handler \in [Streams -> {"off", "recv", "send", "done"}]

Init ==
    /\ stream = Nil /\ opened = 0 /\ broken = {}
    /\ consumer = [s \in Streams |-> "off"]
    /\ hand = [s \in Streams |-> Broadcast]
    /\ deliverCh = <<>> /\ broadcastCh = 0 /\ offered = {}
    /\ up = [s \in Streams |-> <<>>] /\ down = [s \in Streams |-> <<>>]
    /\ sentOn = <<>>
    /\ caller = [c \in Callers |-> "idle"]
    /\ item = [c \in Callers |-> Nil]
    /\ aim = [c \in Callers |-> Nil] /\ sendMu = {}
    /\ ack = [d \in Deliveries |-> "fresh"]
    /\ frames = [d \in Deliveries |-> 0]
    /\ handler = [s \in Streams |-> "off"]

\* Send waits for room in the window.
HasRoomForOneMore(window) == Len(window) <= Window
HasRoom(window) == Len(window) < Window

-----------------------------------------------------------------------------
(* client.run: connect, the wait for the end of the stream, cleanup.       *)

\* The stream, its consume, and the Worker's Stream that has its Register.
Connect ==
    /\ stream = Nil /\ opened < MaxStreams
    /\ opened' = opened + 1 /\ stream' = opened'
    /\ consumer' = [consumer EXCEPT ![opened'] = "recv"]
    /\ handler' = [handler EXCEPT ![opened'] = "recv"]
    /\ UNCHANGED <<broken, hand, deliverCh, broadcastCh, offered, netVars,
                   callVars, ackVars>>

\* The connection is lost, with the frames that the Worker has not read.
Break(s) ==
    /\ s <= opened /\ s \notin broken
    /\ broken' = broken \cup {s} /\ up' = [up EXCEPT ![s] = <<>>]
    /\ UNCHANGED <<stream, opened, consumeVars, down, sentOn, callVars,
                   ackVars, handler>>

\* run hears of the end of the stream from consume alone, through recvErr.
WithTheStream == stream \in broken
StreamEnded == consumer[stream] = "done"

\* cleanup cancels the stream and closes the connection, with its windows.
Cleanup ==
    /\ stream # Nil /\ StreamEnded
    /\ broken' = broken \cup {stream}
    /\ up' = [up EXCEPT ![stream] = <<>>]
    /\ down' = [down EXCEPT ![stream] = <<>>]
    /\ stream' = Nil
    /\ UNCHANGED <<opened, consumeVars, sentOn, callVars, ackVars, handler>>

-----------------------------------------------------------------------------
(* client.consume, and the application that receives.                      *)

ConsumerTo(s, pc) == consumer' = [consumer EXCEPT ![s] = pc]

\* Recv of a stream that ended may still return the frames before the end.
Recv(s) ==
    /\ consumer[s] = "recv" /\ down[s] # <<>>
    /\ ConsumerTo(s, "offer")
    /\ hand' = [hand EXCEPT ![s] = Head(down[s])]
    /\ down' = [down EXCEPT ![s] = Tail(@)]
    /\ UNCHANGED <<runVars, deliverCh, broadcastCh, offered, up, sentOn,
                   callVars, ackVars, handler>>

\* The error of Recv goes to recvErr, and consume returns.
ReturnsUnreported(s) == ConsumerTo(s, "off")
Reports(s) == ConsumerTo(s, "done")

RecvFails(s) ==
    /\ consumer[s] = "recv" /\ s \in broken
    /\ Reports(s)
    /\ UNCHANGED <<runVars, hand, deliverCh, broadcastCh, offered, netVars,
                   callVars, ackVars, handler>>

PutOrDrop(s) ==
    LET room == Len(deliverCh) < Buffer
    IN  /\ deliverCh' = IF room THEN Append(deliverCh, hand[s]) ELSE deliverCh
        /\ offered' = IF room THEN offered \cup {hand[s]} ELSE offered

\* The two selects: consume waits for room in the channel.  (ctx.Done is ready
\* only after cleanup, and cleanup waits for consume.)
PutWhenRoom(s) ==
    /\ Len(deliverCh) < Buffer
    /\ deliverCh' = Append(deliverCh, hand[s])
    /\ offered' = offered \cup {hand[s]}

Offer(s) ==
    /\ consumer[s] = "offer" /\ ConsumerTo(s, "recv")
    /\ hand' = [hand EXCEPT ![s] = Broadcast]
    /\ \/ hand[s] # Broadcast /\ PutWhenRoom(s) /\ UNCHANGED broadcastCh
       \/ /\ hand[s] = Broadcast /\ broadcastCh < Buffer
          /\ broadcastCh' = broadcastCh + 1
          /\ UNCHANGED <<deliverCh, offered>>
    /\ UNCHANGED <<runVars, netVars, callVars, ackVars, handler>>

\* A goroutine of the application receives when it is not in an Ack.
Receive ==
    /\ \E c \in Callers : caller[c] = "idle"
    /\ deliverCh # <<>> /\ deliverCh' = Tail(deliverCh)
    /\ UNCHANGED <<runVars, consumer, hand, broadcastCh, offered, netVars,
                   callVars, ackVars, handler>>

\* It may receive broadcasts, or never.  Their Ack sends nothing, for
\* SendBroadcast sets no broadcast id.
ReceiveBroadcast ==
    /\ broadcastCh > 0
    /\ broadcastCh' = broadcastCh - 1
    /\ UNCHANGED <<runVars, consumer, hand, deliverCh, offered, netVars,
                   callVars, ackVars, handler>>

-----------------------------------------------------------------------------
(* Delivery.Ack and client.sendAck; client.PublishIngress.                 *)

CallerTo(c, pc) == caller' = [caller EXCEPT ![c] = pc]
Received == offered \ {deliverCh[i] : i \in 1 .. Len(deliverCh)}

\* sendAck looks at its context before it waits for sendMu, and never again.
Run(c, d) ==
    \/ CallerTo(c, "lock") /\ ack' = [ack EXCEPT ![d] = "busy"]
    \/ CallerTo(c, "wait") /\ ack' = [ack EXCEPT ![d] = "failed"]

\* Ack is called on any delivery that was received, by whoever has it, any
\* number of times.  ackOnce: the first call runs ackFn, the others wait.
WhoeverFindsNoResult(d) == ack[d] \in {"fresh", "busy"}
First(d) == ack[d] = "fresh"

Ask(c, d) ==
    /\ caller[c] = "idle" /\ d \in Received
    /\ item' = [item EXCEPT ![c] = d]
    /\ \/ First(d) /\ Run(c, d)
       \/ ~First(d) /\ CallerTo(c, "wait") /\ UNCHANGED ack
    /\ UNCHANGED <<runVars, consumeVars, netVars, aim, sendMu, frames,
                   handler>>

\* ackErr is set, and the call is about to return it with the others.
Settle(c, result) ==
    /\ ack' = [ack EXCEPT ![item[c]] = result]
    /\ CallerTo(c, "wait")

\* The stream is read under sendMu.
Lock(c) ==
    /\ caller[c] = "lock" /\ sendMu = {} /\ stream # Nil
    /\ CallerTo(c, "send") /\ sendMu' = {c}
    /\ aim' = [aim EXCEPT ![c] = stream]
    /\ UNCHANGED <<runVars, consumeVars, netVars, item, ackVars, handler>>

\* There is none: "stream not ready", and the deferred unlock.
ReturnsLocked(c) == sendMu' = {c}
Unlock(c) == sendMu' = {}

NotReady(c) ==
    /\ caller[c] = "lock" /\ sendMu = {} /\ stream = Nil
    /\ Settle(c, "failed") /\ Unlock(c)
    /\ UNCHANGED <<runVars, consumeVars, netVars, item, aim, frames, handler>>

SendReturns(c, result) ==
    /\ Settle(c, result) /\ sendMu' = {}
    /\ aim' = [aim EXCEPT ![c] = Nil]

\* Send returns when there is room ...
Send(c) ==
    LET s == aim[c]
    IN  /\ caller[c] = "send" /\ s \notin broken /\ HasRoom(up[s])
        /\ up' = [up EXCEPT ![s] = Append(@, item[c])]
        /\ frames' = [frames EXCEPT ![item[c]] = @ + 1]
        /\ SendReturns(c, "sent")
        /\ UNCHANGED <<runVars, consumeVars, down, sentOn, item, handler>>

\* ... or for the end of the stream, which loses the frame with or without an
\* error.
SendFails(c) ==
    /\ caller[c] = "send" /\ aim[c] \in broken
    /\ \E result \in {"sent", "failed"} : SendReturns(c, result)
    /\ UNCHANGED <<runVars, consumeVars, netVars, item, frames, handler>>

Answer(c) ==
    /\ caller[c] = "wait" /\ ack[item[c]] \in {"sent", "failed"}
    /\ CallerTo(c, "idle") /\ item' = [item EXCEPT ![c] = Nil]
    /\ UNCHANGED <<runVars, consumeVars, netVars, aim, sendMu, ackVars,
                   handler>>

\* PublishIngress, and sendHeartbeat.  (On a stream that has ended they lose
\* their frame, between two streams they panic: see BridgeClient.)
PublishIngress ==
    /\ stream # Nil /\ stream \notin broken /\ sendMu = {}
    /\ HasRoom(up[stream])
    /\ up' = [up EXCEPT ![stream] = Append(@, Ingress)]
    /\ UNCHANGED <<runVars, consumeVars, down, sentOn, callVars, ackVars,
                   handler>>

-----------------------------------------------------------------------------
(* bridgeService.Stream, its callbacks, and session.send.                  *)

HandlerTo(s, pc) == handler' = [handler EXCEPT ![s] = pc]

\* A frame goes to OnIngress, OnHeartbeat or OnAck, which returns nil, or
\* sends on its Session before it does, or returns an error, which ends the
\* stream.
Handle(s) ==
    /\ handler[s] = "recv" /\ up[s] # <<>>
    /\ \/ /\ HandlerTo(s, "send") \/ UNCHANGED handler
          /\ up' = [up EXCEPT ![s] = Tail(@)] /\ UNCHANGED broken
       \/ /\ HandlerTo(s, "done") /\ broken' = broken \cup {s}
          /\ up' = [up EXCEPT ![s] = <<>>]
    /\ UNCHANGED <<stream, opened, consumeVars, down, sentOn, callVars,
                   ackVars>>

HandleFails(s) ==
    /\ handler[s] = "recv" /\ s \in broken
    /\ HandlerTo(s, "done")
    /\ UNCHANGED <<runVars, consumeVars, netVars, callVars, ackVars>>

\* SendDeliver or SendBroadcast, when the window has room.
PutDown(s) ==
    /\ s \notin broken /\ HasRoom(down[s])
    /\ \/ /\ Len(sentOn) < MaxDeliveries
          /\ sentOn' = Append(sentOn, s)
          /\ down' = [down EXCEPT ![s] = Append(@, Len(sentOn'))]
       \/ /\ down' = [down EXCEPT ![s] = Append(@, Broadcast)]
          /\ UNCHANGED sentOn
    /\ UNCHANGED <<runVars, consumeVars, up, callVars, ackVars>>

\* The send of a callback, which is in the way of the next frame until it
\* returns; on a stream that has ended it returns an error.
Reply(s) == handler[s] = "send" /\ PutDown(s) /\ HandlerTo(s, "recv")

ReplyFails(s) ==
    /\ handler[s] = "send" /\ s \in broken
    /\ HandlerTo(s, "recv")
    /\ UNCHANGED <<runVars, consumeVars, netVars, callVars, ackVars>>

\* The send of another goroutine of the Worker, which kept the Session.
Push(s) == s <= opened /\ PutDown(s) /\ UNCHANGED handler

-----------------------------------------------------------------------------
Client ==
    \/ Cleanup
    \/ \E s \in Streams : Recv(s) \/ RecvFails(s) \/ Offer(s)
    \/ \E c \in Callers :
          Lock(c) \/ NotReady(c) \/ Send(c) \/ SendFails(c)
             \/ Answer(c)

Worker ==
    \E s \in Streams : Handle(s) \/ HandleFails(s) \/ Reply(s) \/ ReplyFails(s)

Application ==
    \/ Receive \/ ReceiveBroadcast \/ PublishIngress
    \/ \E c \in Callers, d \in Deliveries : Ask(c, d)
    \/ \E s \in Streams : Push(s)

Network == Connect \/ \E s \in Streams : Break(s)

Next == Client \/ Worker \/ Application \/ Network

Spec == Init /\ [][Next]_vars

-----------------------------------------------------------------------------
(* Properties.                                                             *)

\* No delivery is lost on a stream that lasts: what the Worker's Send put on it
\* is in the window, in the hand of consume, or was offered to the application,
\* however full the channel is and however often streams were replaced before.
Conserved ==
    \A d \in 1 .. Len(sentOn) :
        LET s == sentOn[d]
        IN  \/ s \in broken \/ d \in offered
            \/ \E i \in 1 .. Len(down[s]) : down[s][i] = d
            \/ consumer[s] = "offer" /\ hand[s] = d

\* Deliveries reach the application in the order in which the Worker sent them,
\* each once, across reconnects: the consume of a stream that ended does not put
\* its last delivery behind those of the next stream.
InOrder == [][\A d \in offered' \ offered : \A e \in offered : e < d]_vars

\* Delivery.Ack keeps the promise of AckPromise through sendMu, full windows,
\* streams that break under a Send and the reconnects of the client.
Asking(c) ==
    IF caller[c] = "idle" THEN {} ELSE {item[c]}
Promise == INSTANCE AckPromise WITH
    outcome <- [d \in Deliveries |->
                   IF ack[d] \in {"fresh", "busy"} THEN "open" ELSE ack[d]],
    asking  <- [c \in Callers |-> Asking(c)]
AckKeepsPromise == Promise!Spec

\* Everybody waits for everybody: the Worker's callback to send into a full
\* window, consume, which would empty it, for room in a channel that nobody
\* empties, and what is sent up for the callback to end.
Blocked(c) ==
    \/ caller[c] \in {"lock", "send"}
    \/ caller[c] = "wait" /\ ack[item[c]] = "busy"

Unread(s) ==
    /\ consumer[s] = "offer" /\ hand[s] = Broadcast
    /\ broadcastCh = Buffer

CircularWait ==
    LET s == stream
    IN  /\ s # Nil /\ s \notin broken
        /\ Len(up[s]) = Window /\ Len(down[s]) = Window
        /\ handler[s] = "send" /\ consumer[s] = "offer"
        /\ \/ Unread(s)
           \/ /\ hand[s] # Broadcast /\ Len(deliverCh) = Buffer
              /\ \A c \in Callers : Blocked(c)

\* Somebody can take a step other than those who need not: the application may
\* publish, push, Ack and receive a broadcast, the network may connect and break.
Moves == ENABLED (Client \/ Worker \/ Receive)

\* What these steps wait for: their guards.
MayMove ==
    \/ stream # Nil /\ consumer[stream] = "done"
    \/ \E s \in Streams :
          \/ consumer[s] = "recv" /\ (down[s] # <<>> \/ s \in broken)
          \/ /\ consumer[s] = "offer"
             /\ IF hand[s] = Broadcast THEN broadcastCh < Buffer
                                       ELSE Len(deliverCh) < Buffer
          \/ handler[s] = "recv" /\ (up[s] # <<>> \/ s \in broken)
          \/ handler[s] = "send" /\ (HasRoom(down[s]) \/ s \in broken)
    \/ \E c \in Callers :
          \/ caller[c] = "idle" /\ deliverCh # <<>>
          \/ caller[c] = "lock" /\ sendMu = {}
          \/ caller[c] = "send" /\ (HasRoom(up[aim[c]]) \/ aim[c] \in broken)
          \/ caller[c] = "wait" /\ ack[item[c]] \in {"sent", "failed"}

\* Every Ack returns, whatever the streams do, unless that circle has closed: it
\* takes a callback that replies on its own session, and an application all of
\* whose receiving goroutines are in Ack, or that reads no broadcasts.
OnlyTheCircleWaits ==
    (\E c \in Callers : caller[c] # "idle") /\ ~CircularWait => MayMove

\* The same, with the guards checked against the steps themselves.
OnlyTheCircleBlocksAck == OnlyTheCircleWaits /\ (MayMove => Moves)

\* run learns that the stream has ended and makes way for the next, unless
\* consume is stuck with a broadcast that the application does not receive.
EndNoticed == stream \in broken /\ ~Unread(stream) => MayMove
=============================================================================
