------------------------- MODULE BridgeClientProofs -------------------------
(* Theorems of BridgeClient: they hold for every number of publishers,     *)
(* ackers and attempts, and whatever the network and the application do.   *)
EXTENDS BridgeClient, TLAPS

-----------------------------------------------------------------------------
(* Type correctness.  TypeOK alone is not inductive: Connect increments    *)
(* attempt, and what keeps it in range is the bound tested on every way    *)
(* back to "connect".                                                      *)

TypeInv ==
    /\ TypeOK
    /\ run = "off" => attempt = 0
    /\ run \in {"dial", "open", "register", "launch"} => attempt \in Attempts
    /\ run = "connect" => attempt < MaxAttempts

\* Every step of the client keeps the type invariant.
LEMMA TypeStep == TypeInv /\ [Next]_vars => TypeInv'
<1> SUFFICES ASSUME TypeInv, [Next]_vars PROVE TypeInv'
  OBVIOUS
<1> USE ClientAssumption DEF TypeInv, TypeOK, runVars, fieldVars, grpcVars,
        sendVars, closeVars
<1>1. CASE UNCHANGED vars
  BY <1>1 DEF vars
<1>2. CASE Break
  BY <1>2 DEF Break, Attempts, Nil
<1>3. CASE Start
  BY <1>3 DEF Start, RunPC
<1>4. CASE CallerCancels
  BY <1>4 DEF CallerCancels
<1>5. CASE Connect
  BY <1>5 DEF Connect, RunPC, Attempts
<1>6. CASE Dial
  BY <1>6 DEF Dial, RunPC, Attempts
<1>7. CASE OpenStream
  BY <1>7 DEF OpenStream, RunPC
<1>8. CASE Register
  BY <1>8 DEF Register, RunPC, FrameKinds, Transmit
<1>9. CASE ConnectFails
  BY <1>9 DEF ConnectFails, RunPC
<1>10. CASE Launch
  <2>1. sender' \in [Senders -> SenderPC]
    BY <1>10 DEF Launch, SenderPC
  <2>2. consumer' \in [Attempts -> ConsumerPC]
    BY <1>10 DEF Launch, ConsumerPC
  <2> QED BY <1>10, <2>1, <2>2 DEF Launch, RunPC, RetryAfterSuccess
<1>11. CASE BackoffElapses
  BY <1>11 DEF BackoffElapses, RunPC, NextBackoff
<1>12. CASE BackoffCancelled
  BY <1>12 DEF BackoffCancelled, RunPC
<1>13. CASE LeaveWait
  BY <1>13 DEF LeaveWait, RunPC, StreamEnded, RunCancelled
<1>14. CASE CleanupCancel
  BY <1>14 DEF CleanupCancel, RunPC, Attempts, Nil
<1>15. CASE CleanupStream
  BY <1>15 DEF CleanupStream, RunPC, Nil
<1>16. CASE CleanupConn
  BY <1>16 DEF CleanupConn, RunPC, Nil, OpenAfterCleanup
<1>17. ASSUME NEW a \in Attempts, ConsumeStep(a) \/ ConsumeFrame(a) PROVE TypeInv'
  <2>1. CASE ConsumeLoad(a)
    <3>1. consumer' \in [Attempts -> ConsumerPC]
      BY <2>1 DEF ConsumeLoad, ConsumerPC, ConsumerTo
    <3>2. panic' \in Panics
      BY <2>1 DEF ConsumeLoad, Panics
    <3> QED BY <2>1, <3>1, <3>2 DEF ConsumeLoad
  <2>2. CASE ConsumeFrame(a)
    BY <2>2 DEF ConsumeFrame, ConsumerPC, Channels, ConsumerTo
  <2>3. CASE ConsumeEnds(a)
    BY <2>3 DEF ConsumeEnds, ConsumerPC, ConsumerTo, AfterRecvError
  <2>4. CASE ConsumeReport(a)
    BY <2>4 DEF ConsumeReport, ConsumerPC, ConsumerTo
  <2>5. ASSUME NEW k \in Channels, ConsumeQueue(a, k) PROVE TypeInv'
    <3>1. consumer' \in [Attempts -> ConsumerPC]
      BY <2>5 DEF ConsumeQueue, ConsumerPC, ConsumerTo
    <3>2. queued' \in [Channels -> 0 .. Buffer]
      <4>1. CASE queued[k] < Buffer /\ queued' = [queued EXCEPT ![k] = @ + 1]
        BY <4>1
      <4>2. CASE queued' = queued
        BY <4>2
      <4> QED BY <2>5, <4>1, <4>2 DEF ConsumeQueue
    <3>3. panic' \in Panics
      BY <2>5 DEF ConsumeQueue, Panics
    <3> QED BY <2>5, <3>1, <3>2, <3>3 DEF ConsumeQueue
  <2> QED BY <1>17, <2>1, <2>2, <2>3, <2>4, <2>5 DEF ConsumeStep
<1>18. ASSUME NEW p \in Publishers, Publish(p) PROVE TypeInv'
  BY <1>18 DEF Publish, SenderPC, SenderTo
<1>19. ASSUME NEW p \in Publishers, AcquireSlot(p) PROVE TypeInv'
  <2>1. sender' \in [Senders -> SenderPC]
    BY <1>19 DEF AcquireSlot, SenderPC, SenderTo
  <2>2. inflight' \in 0 .. MaxInFlight
    BY <1>19 DEF AcquireSlot, SlotFree
  <2> QED BY <1>19, <2>1, <2>2 DEF AcquireSlot
<1>20. ASSUME NEW p \in Publishers, AbandonSlot(p) PROVE TypeInv'
  BY <1>20 DEF AbandonSlot, SenderPC, SenderTo, AfterNoSlot
<1>21. ASSUME NEW p \in Publishers, ReleaseSlot(p) PROVE TypeInv'
  <2>1. sender' \in [Senders -> SenderPC]
    BY <1>21 DEF ReleaseSlot, SenderPC, SenderTo
  <2>2. inflight' \in 0 .. MaxInFlight
    BY <1>21 DEF ReleaseSlot
  <2> QED BY <1>21, <2>1, <2>2 DEF ReleaseSlot
<1>22. ASSUME NEW k \in Ackers, TakeDelivery(k) PROVE TypeInv'
  BY <1>22 DEF TakeDelivery, SenderPC, Channels, SenderTo
<1>23. CASE TakeBroadcast
  BY <1>23 DEF TakeBroadcast, Channels
<1>24. ASSUME NEW a \in Attempts, Tick(a) PROVE TypeInv'
  BY <1>24 DEF Tick, SenderPC, SenderTo
<1>25. ASSUME NEW a \in Attempts, HeartbeatEnds(a) PROVE TypeInv'
  <2>1. sender' \in [Senders -> SenderPC]
    BY <1>25 DEF HeartbeatEnds, SenderPC, SenderTo
  <2> QED BY <1>25, <2>1 DEF HeartbeatEnds
<1>26. ASSUME NEW s \in Senders, SendStep(s) PROVE TypeInv'
  <2>1. CASE Lock(s)
    <3>1. sender' \in [Senders -> SenderPC]
      BY <2>1 DEF Lock, SenderPC, SenderTo, AfterUnlock
    <3>2. loaded' \in [Senders -> 0 .. MaxAttempts]
      BY <2>1 DEF Lock
    <3>3. sendMu' \in SUBSET Senders
      BY <1>26, <2>1 DEF Lock, MuAfterNotReady
    <3>4. panic' \in Panics
      BY <2>1 DEF Lock, Panics
    <3> QED BY <2>1, <3>1, <3>2, <3>3, <3>4 DEF Lock
  <2>2. CASE Reload(s)
    <3>1. sender' \in [Senders -> SenderPC]
      BY <2>2 DEF Reload, SenderPC, SenderTo
    <3>2. loaded' \in [Senders -> 0 .. MaxAttempts]
      BY <2>2 DEF Reload
    <3>3. panic' \in Panics
      BY <2>2 DEF Reload, Panics
    <3> QED BY <2>2, <3>1, <3>2, <3>3 DEF Reload
  <2>3. CASE Send(s)
    BY <1>26, <2>3 DEF Send, SenderPC, FrameKinds, Nil, SenderTo, AfterUnlock, Transmit, FrameOf
  <2> QED BY <1>26, <2>1, <2>2, <2>3 DEF SendStep
<1>27. CASE Close
  BY <1>27 DEF Close, CloserPC
<1>28. ASSUME NEW f \in CloseFields, CloseCheck(f) PROVE TypeInv'
  BY <1>28 DEF CloseCheck, CloserPC, CloseFields, Field, AfterField
<1>29. ASSUME NEW f \in CloseFields, CloseUse(f) PROVE TypeInv'
  <2>1. PICK x \in {checked, Field(f)} :
          IF x = Nil
          THEN /\ panic' = NilPanic(f)
               /\ UNCHANGED <<closer, checked, cancelled, open>>
          ELSE /\ closer' = AfterField(f) /\ checked' = Nil
               /\ UNCHANGED panic
               /\ cancelled' = IF f = "cancel" THEN cancelled \cup {x}
                                              ELSE cancelled
               /\ open' = IF f = "conn" THEN open \ {x} ELSE open
    BY <1>29 DEF CloseUse
  <2>2. x \in 0 .. MaxAttempts /\ (x # Nil => x \in Attempts)
    BY DEF Field, Nil, Attempts
  <2>3. panic' \in Panics
    BY <2>1 DEF NilPanic, Panics
  <2>4. closer' \in CloserPC
    BY <2>1 DEF AfterField, CloserPC
  <2>5. checked' \in 0 .. MaxAttempts
    BY <2>1 DEF Nil
  <2>6. cancelled' \in SUBSET Attempts /\ open' \in SUBSET Attempts
    BY <2>1, <2>2
  <2> QED BY <1>29, <2>3, <2>4, <2>5, <2>6 DEF CloseUse
<1>30. CASE CloseChannels
  BY <1>30 DEF CloseChannels, CloserPC
<1>31. CASE DrainReturns
  BY <1>31 DEF DrainReturns, CloserPC
<1> QED
  BY <1>1, <1>2, <1>3, <1>4, <1>5, <1>6, <1>7, <1>8, <1>9, <1>10, <1>11,
     <1>12, <1>13, <1>14, <1>15, <1>16, <1>17, <1>18, <1>19, <1>20, <1>21,
     <1>22, <1>23, <1>24, <1>25, <1>26, <1>27, <1>28, <1>29, <1>30, <1>31
     DEF Next, Application, Client, RunStep, CloseStep

LEMMA TypeInit == Init => TypeInv
<1> SUFFICES ASSUME Init PROVE TypeInv
  OBVIOUS
<1>1. sender \in [Senders -> SenderPC] /\ consumer \in [Attempts -> ConsumerPC]
  BY DEF Init, SenderPC, ConsumerPC
<1>2. first \in [Attempts -> FrameKinds \cup {"none"}]
  BY DEF Init
<1>3. loaded \in [Senders -> 0 .. MaxAttempts] /\ queued \in [Channels -> 0 .. Buffer]
  BY ClientAssumption DEF Init, Nil
<1>4. /\ run \in RunPC /\ closer \in CloserPC /\ panic \in Panics
      /\ runCtx \in {"none", "live", "done"}
  BY DEF Init, RunPC, CloserPC, Panics
<1>5. /\ attempt \in 0 .. MaxAttempts /\ cancel \in 0 .. MaxAttempts
      /\ conn \in 0 .. MaxAttempts /\ stream \in 0 .. MaxAttempts
      /\ checked \in 0 .. MaxAttempts /\ inflight \in 0 .. MaxInFlight
      /\ retry \in Nat /\ wg \in Int
  BY ClientAssumption DEF Init, Nil
<1> QED BY <1>1, <1>2, <1>3, <1>4, <1>5 DEF Init, TypeInv, TypeOK

\* Every variable of the client keeps its type (BridgeClient.TypeOK).
THEOREM TypeCorrect == Spec => []TypeOK
<1>1. TypeInv => TypeOK
  BY DEF TypeInv
<1> QED BY <1>1, TypeInit, TypeStep, PTL DEF Spec

LEMMA TypeAlways == Spec => []TypeInv
BY TypeInit, TypeStep, PTL DEF Spec

-----------------------------------------------------------------------------
(* One consume at a time.  The heart of the invariant is its last part:    *)
(* run is in its wait, in the cleanup that follows, or finished, whenever a *)
(* consume lives, and goes back to connect only if none does.  It leaves    *)
(* the wait for a report, which is a consume's last act, or because its     *)
(* context ended, and then the cleanup does not lead to connect.            *)

Dialing   == {"dial", "open", "register", "launch"}
Streaming == {"register", "launch", "wait", "clCancel", "clStream"}
Cleaning  == {"clCancel", "clStream", "clConn"}

ConsumerInv ==
    /\ \A a \in Launched : a <= attempt
    /\ run \in Dialing => attempt \notin Launched
    /\ run \in Streaming => stream = attempt
    /\ run \in Cleaning => Consuming = {} \/ runCtx = "done"
    /\ \A a \in Consuming :
          /\ a = attempt /\ stream \in {a, Nil} /\ recvErr = 0
          /\ run \in Cleaning \cup {"wait", "done"}

\* What ConsumerInv speaks of is left alone by the senders and by Close.
LEMMA SendersLeaveConsumers ==
    ASSUME \/ Break
           \/ \E p \in Publishers : \/ Publish(p) \/ AcquireSlot(p)
                                    \/ AbandonSlot(p) \/ ReleaseSlot(p)
           \/ \E k \in Ackers : TakeDelivery(k)
           \/ \E a \in Attempts : Tick(a) \/ HeartbeatEnds(a)
           \/ \E s \in Senders : SendStep(s)
           \/ CloseStep \/ DrainReturns \/ TakeBroadcast
    PROVE  UNCHANGED <<run, runCtx, attempt, stream, recvErr, consumer>>
<1> USE DEF runVars, fieldVars
<1>1. CASE Break \/ DrainReturns \/ TakeBroadcast
  BY <1>1 DEF Break, DrainReturns, TakeBroadcast
<1>2. ASSUME NEW p \in Publishers,
             Publish(p) \/ AcquireSlot(p) \/ AbandonSlot(p) \/ ReleaseSlot(p)
      PROVE  UNCHANGED <<run, runCtx, attempt, stream, recvErr, consumer>>
  BY <1>2 DEF Publish, AcquireSlot, AbandonSlot, ReleaseSlot
<1>3. ASSUME NEW k \in Ackers, TakeDelivery(k)
      PROVE  UNCHANGED <<run, runCtx, attempt, stream, recvErr, consumer>>
  BY <1>3 DEF TakeDelivery
<1>4. ASSUME NEW a \in Attempts, Tick(a) \/ HeartbeatEnds(a)
      PROVE  UNCHANGED <<run, runCtx, attempt, stream, recvErr, consumer>>
  BY <1>4 DEF Tick, HeartbeatEnds
<1>5. ASSUME NEW s \in Senders, SendStep(s)
      PROVE  UNCHANGED <<run, runCtx, attempt, stream, recvErr, consumer>>
  BY <1>5 DEF SendStep, Lock, Reload, Send
<1>6. CASE CloseStep
  BY <1>6 DEF CloseStep, CloseCheck, CloseUse, CloseChannels
<1> QED BY <1>1, <1>2, <1>3, <1>4, <1>5, <1>6

LEMMA ConsumerInit == Init => ConsumerInv
BY DEF Init, ConsumerInv, Launched, Consuming, Dialing, Streaming, Cleaning

LEMMA ConsumerStep == TypeInv /\ ConsumerInv /\ [Next]_vars => ConsumerInv'
<1> SUFFICES ASSUME TypeInv, ConsumerInv, [Next]_vars PROVE ConsumerInv'
  OBVIOUS
<1>t. /\ attempt \in 0 .. MaxAttempts /\ stream \in 0 .. MaxAttempts
      /\ consumer \in [Attempts -> ConsumerPC] /\ Attempts \subseteq Nat
      /\ recvErr \in {0, 1}
      /\ run = "off" => attempt = 0
      /\ run \in Dialing => attempt \in Attempts
  BY ClientAssumption DEF TypeInv, TypeOK, Attempts, Dialing
<1>u. CASE UNCHANGED <<run, runCtx, attempt, stream, recvErr, consumer>>
  BY <1>u DEF ConsumerInv, Launched, Consuming
<1>v. recvErr = 1 => Consuming = {}
  BY DEF ConsumerInv
<1> USE <1>t DEF ConsumerInv, Launched, Consuming, Dialing, Streaming, Cleaning,
        runVars, fieldVars
<1>1. CASE Start
  BY <1>1 DEF Start
<1>2. CASE CallerCancels \/ Close
  BY <1>2 DEF CallerCancels, Close
<1>3. CASE Connect
  BY <1>3 DEF Connect
<1>4. CASE Dial
  BY <1>4 DEF Dial
<1>5. CASE OpenStream
  BY <1>5 DEF OpenStream
<1>6. CASE Register
  BY <1>6 DEF Register
<1>7. CASE ConnectFails
  BY <1>7 DEF ConnectFails
<1>8. CASE Launch
  BY <1>8 DEF Launch
<1>9. CASE BackoffElapses \/ BackoffCancelled
  BY <1>9 DEF BackoffElapses, BackoffCancelled
<1>10. CASE LeaveWait
  <2>1. Consuming = {} \/ runCtx = "done"
    <3>1. CASE recvErr = 1
      BY <3>1, <1>v
    <3>2. CASE runCtx = "done"
      BY <3>2
    <3> QED BY <1>10, <3>1, <3>2 DEF LeaveWait, StreamEnded, RunCancelled
  <2>2. recvErr' = 0 \/ recvErr' = recvErr
    BY <1>10 DEF LeaveWait, StreamEnded, RunCancelled
  <2> QED BY <1>10, <2>1, <2>2 DEF LeaveWait
<1>11. CASE CleanupCancel
  BY <1>11 DEF CleanupCancel
<1>12. CASE CleanupStream
  BY <1>12 DEF CleanupStream
<1>13. CASE CleanupConn
  BY <1>13 DEF CleanupConn
<1>14. ASSUME NEW a \in Attempts, ConsumeStep(a) \/ ConsumeFrame(a)
       PROVE  ConsumerInv'
  <2>1. CASE ConsumeLoad(a)
    BY <2>1 DEF ConsumeLoad, ConsumerTo
  <2>2. CASE ConsumeFrame(a)
    BY <2>2 DEF ConsumeFrame, ConsumerTo, Channels
  <2>3. CASE ConsumeEnds(a)
    BY <2>3 DEF ConsumeEnds, ConsumerTo, AfterRecvError
  <2>4. CASE ConsumeReport(a)
    BY <2>4 DEF ConsumeReport, ConsumerTo
  <2>5. ASSUME NEW k \in Channels, ConsumeQueue(a, k) PROVE ConsumerInv'
    BY <2>5 DEF ConsumeQueue, ConsumerTo, Channels
  <2> QED BY <1>14, <2>1, <2>2, <2>3, <2>4, <2>5 DEF ConsumeStep
<1>15. CASE UNCHANGED vars
  BY <1>15, <1>u DEF vars
<1> QED
  BY <1>u, <1>1, <1>2, <1>3, <1>4, <1>5, <1>6, <1>7, <1>8, <1>9, <1>10, <1>11,
     <1>12, <1>13, <1>14, <1>15, SendersLeaveConsumers
     DEF Next, Application, Client, RunStep

\* A live consume reads the stream of its own attempt, and its report finds
\* room: no two consumes ever share c.stream and c.recvErr.
THEOREM OneConsumerHolds == Spec => []OneConsumer
<1>1. TypeInv /\ ConsumerInv => OneConsumer
  BY DEF ConsumerInv, OneConsumer
<1> QED
  BY <1>1, TypeInit, TypeStep, ConsumerInit, ConsumerStep, PTL DEF Spec

-----------------------------------------------------------------------------
(* Register comes first on the first stream.  No sender leaves "idle" before *)
(* the first Launch: c.started is false and no delivery is queued.  After it *)
(* a sender may hold a later stream that has no Register yet, so the        *)
(* invariant carries, for every stream a sender holds, the two cases: some  *)
(* frame was sent on it, or an earlier attempt was launched.                *)

Covered(a) == first[a] # "none" \/ \E b \in Launched : b < a

TrafficInv ==
    /\ Launched = {} => /\ ~started /\ queued["deliver"] = 0
                        /\ \A s \in Senders : sender[s] \in {"off", "idle"}
    /\ \A a \in Attempts : sender[a] # "off" => a \in Launched
    /\ stream <= attempt
    /\ stream # Nil => \A b \in Launched : b <= stream
    /\ \A b \in Launched : first[b] # "none"
    /\ run = "launch" => first[attempt] # "none"
    /\ run \in {"dial", "open", "register"} => first[attempt] # "register"
    /\ \A a \in Attempts : a > attempt => first[a] = "none"
    /\ \A s \in Senders : sender[s] \in {"reload", "send"} =>
          /\ sendMu = {s} /\ loaded[s] \in Attempts
          /\ loaded[s] <= attempt /\ Covered(loaded[s])

TrafficVars == <<run, attempt, stream, first, started, consumer, sender, loaded,
                 sendMu, queued>>

\* What TrafficInv speaks of is left alone by cleanup and by Close.
LEMMA StopLeavesTraffic ==
    ASSUME \/ Break \/ CallerCancels \/ Close \/ CloseStep \/ DrainReturns
           \/ UNCHANGED vars
    PROVE  UNCHANGED TrafficVars
<1> USE DEF runVars, fieldVars, grpcVars, sendVars, TrafficVars
<1>1. CASE Break \/ CallerCancels \/ Close \/ DrainReturns
  BY <1>1 DEF Break, CallerCancels, Close, DrainReturns
<1>2. CASE CloseStep
  BY <1>2 DEF CloseStep, CloseCheck, CloseUse, CloseChannels
<1>3. CASE UNCHANGED vars
  BY <1>3 DEF vars
<1> QED BY <1>1, <1>2, <1>3

LEMMA TrafficInit == Init => TrafficInv /\ RegisterBeforeTraffic
<1> SUFFICES ASSUME Init PROVE TrafficInv /\ RegisterBeforeTraffic
  OBVIOUS
<1>1. /\ Launched = {} /\ \A s \in Senders : sender[s] \in {"off", "idle"}
      /\ \A a \in Attempts : sender[a] = "off"
  BY DEF Init, Launched, Senders
<1>2. queued["deliver"] = 0
  BY DEF Init, Channels
<1>3. \A a \in Attempts : first[a] = "none"
  BY DEF Init
<1> QED
  BY <1>1, <1>2, <1>3 DEF Init, TrafficInv, RegisterBeforeTraffic, Nil

LEMMA TrafficStep ==
    TypeInv /\ ConsumerInv /\ TrafficInv /\ [Next]_vars => TrafficInv'
<1> SUFFICES ASSUME TypeInv, ConsumerInv, TrafficInv, [Next]_vars
             PROVE  TrafficInv'
  OBVIOUS
<1>t. /\ attempt \in 0 .. MaxAttempts /\ stream \in 0 .. MaxAttempts
      /\ consumer \in [Attempts -> ConsumerPC] /\ Attempts \subseteq Nat
      /\ sender \in [Senders -> SenderPC] /\ sendMu \in SUBSET Senders
      /\ loaded \in [Senders -> 0 .. MaxAttempts]
      /\ first \in [Attempts -> FrameKinds \cup {"none"}]
      /\ queued \in [Channels -> 0 .. Buffer]
      /\ run \in Dialing => attempt \in Attempts
      /\ run = "connect" => attempt + 1 \in Attempts
      /\ Publishers \subseteq Senders /\ Ackers \subseteq Senders
      /\ Attempts \subseteq Senders
      /\ \A x \in 0 .. MaxAttempts : x # Nil => x \in Attempts
      /\ "deliver" \in Channels
  BY ClientAssumption
     DEF TypeInv, TypeOK, Attempts, Dialing, Senders, Nil, Channels
<1>c. /\ \A a \in Launched : a <= attempt
      /\ run \in Streaming => stream = attempt
  BY DEF ConsumerInv
<1>u. CASE UNCHANGED TrafficVars
  BY <1>u DEF TrafficVars, TrafficInv, Launched, Covered
<1>s. ASSUME stream # Nil, Launched # {}
      PROVE  stream \in Attempts /\ stream <= attempt /\ Covered(stream)
  <2>1. PICK b \in Launched : TRUE
    BY <1>s
  <2>2. stream \in Attempts /\ stream <= attempt
    BY <1>s, <1>t DEF TrafficInv
  <2>3. CASE stream \in Launched
    <3>1. \A l \in Launched : first[l] # "none"
      BY DEF TrafficInv
    <3> QED BY <2>2, <2>3, <3>1 DEF Covered
  <2>4. CASE stream \notin Launched
    <3>1. b < stream
      BY <1>s, <1>t, <2>1, <2>2, <2>4 DEF TrafficInv, Launched
    <3> QED BY <2>1, <2>2, <3>1 DEF Covered
  <2> QED BY <2>2, <2>3, <2>4
<1> USE <1>t, <1>c DEF TrafficInv, Covered, Nil, runVars, fieldVars, grpcVars,
        sendVars
<1>1. CASE Start
  BY <1>1 DEF Start, Launched
<1>2. CASE Connect
  BY <1>2 DEF Connect, Launched
<1>3. CASE Dial
  BY <1>3 DEF Dial, Launched
<1>4. CASE OpenStream
  BY <1>4 DEF OpenStream, Launched
<1>5. CASE Register
  BY <1>5 DEF Register, Transmit, Launched, Dialing
<1>6. CASE Launch
  <2>1. attempt \in Attempts /\ Launched' = Launched \cup {attempt}
    BY <1>6 DEF Launch, Launched, Dialing, ConsumerPC
  <2>2. stream = attempt
    BY <1>6 DEF Launch, Streaming
  <2>3. \A s \in Senders : sender'[s] \in {"reload", "send"}
                              => sender[s] \in {"reload", "send"}
    BY <1>6 DEF Launch
  <2> QED BY <1>6, <2>1, <2>2, <2>3 DEF Launch
<1>7. CASE ConnectFails \/ BackoffElapses \/ BackoffCancelled
  BY <1>7 DEF ConnectFails, BackoffElapses, BackoffCancelled, Launched
<1>8. CASE LeaveWait \/ CleanupCancel \/ CleanupConn
  BY <1>8 DEF LeaveWait, CleanupCancel, CleanupConn, Launched
<1>9. CASE CleanupStream
  BY <1>9 DEF CleanupStream, Launched
<1>10. ASSUME NEW a \in Attempts, ConsumeStep(a) \/ ConsumeFrame(a)
       PROVE  TrafficInv'
  <2>1. /\ consumer[a] # "off"
        /\ \/ consumer' = consumer
           \/ \E pc : pc # "off" /\ consumer' = [consumer EXCEPT ![a] = pc]
    <3>1. CASE ConsumeLoad(a) \/ ConsumeFrame(a)
      BY <3>1 DEF ConsumeLoad, ConsumeFrame, ConsumerTo, Channels
    <3>2. CASE ConsumeEnds(a) \/ ConsumeReport(a)
      BY <3>2 DEF ConsumeEnds, ConsumeReport, ConsumerTo, AfterRecvError
    <3>3. ASSUME NEW k \in Channels, ConsumeQueue(a, k)
          PROVE  /\ consumer[a] # "off"
                 /\ \/ consumer' = consumer
                    \/ \E pc : /\ pc # "off"
                              /\ consumer' = [consumer EXCEPT ![a] = pc]
      BY <3>3 DEF ConsumeQueue, ConsumerTo, Channels
    <3> QED BY <1>10, <3>1, <3>2, <3>3 DEF ConsumeStep
  <2>3. a \in Launched /\ Launched' = Launched
    <3>1. \A b \in Attempts : consumer'[b] # "off" <=> consumer[b] # "off"
      BY <2>1
    <3>2. consumer[a] # "off"
      BY <2>1
    <3> HIDE DEF TrafficInv
    <3> QED BY <3>1, <3>2 DEF Launched
  <2>2. UNCHANGED <<run, attempt, stream, first, started, sender, loaded, sendMu>>
    <3>1. CASE ConsumeLoad(a) \/ ConsumeFrame(a)
      BY <3>1 DEF ConsumeLoad, ConsumeFrame
    <3>2. CASE ConsumeEnds(a) \/ ConsumeReport(a)
      BY <3>2 DEF ConsumeEnds, ConsumeReport
    <3>3. CASE \E k \in Channels : ConsumeQueue(a, k)
      BY <3>3 DEF ConsumeQueue
    <3> QED BY <1>10, <3>1, <3>2, <3>3 DEF ConsumeStep
  <2> QED BY <2>2, <2>3
<1>11. ASSUME NEW p \in Publishers, Publish(p) PROVE TrafficInv'
  BY <1>11 DEF Publish, Ready, SenderTo, Launched
<1>12. ASSUME NEW p \in Publishers,
              AcquireSlot(p) \/ AbandonSlot(p) \/ ReleaseSlot(p)
       PROVE  TrafficInv'
  BY <1>12 DEF AcquireSlot, AbandonSlot, ReleaseSlot, AfterNoSlot, SenderTo,
               Launched
<1>13. ASSUME NEW k \in Ackers, TakeDelivery(k) PROVE TrafficInv'
  BY <1>13 DEF TakeDelivery, SenderTo, Launched
<1>14. CASE TakeBroadcast
  BY <1>14 DEF TakeBroadcast, Launched, Channels
<1>15. ASSUME NEW a \in Attempts, Tick(a) \/ HeartbeatEnds(a) PROVE TrafficInv'
  <2>1. a \in Launched /\ Launched' = Launched
    BY <1>15 DEF Tick, HeartbeatEnds, Launched
  <2>2. sender' \in {[sender EXCEPT ![a] = "lock"], [sender EXCEPT ![a] = "done"]}
    BY <1>15 DEF Tick, HeartbeatEnds, SenderTo
  <2> QED BY <1>15, <2>1, <2>2 DEF Tick, HeartbeatEnds
<1>16. ASSUME NEW s \in Senders, Lock(s) PROVE TrafficInv'
  <2>1. Launched' = Launched /\ Launched # {} /\ sendMu = {}
    BY <1>16 DEF Lock, Launched, MuFree
  <2>2. CASE stream = Nil
    <3>1. UNCHANGED <<sender, loaded, sendMu>> \/ s \in Ackers
      BY <1>16, <2>2 DEF Lock
    <3>2. CASE UNCHANGED <<sender, loaded, sendMu>>
      BY <1>16, <2>1, <3>2 DEF Lock
    <3>3. CASE sender' = [sender EXCEPT ![s] = AfterUnlock(s)] /\ sendMu' = {}
               /\ UNCHANGED loaded
      <4>1. \A r \in Senders : sender'[r] \notin {"reload", "send"}
        BY <2>1, <3>3 DEF AfterUnlock
      <4> QED BY <1>16, <2>1, <3>3, <4>1 DEF Lock
    <3> QED BY <1>16, <2>2, <3>2, <3>3 DEF Lock, SenderTo, MuAfterNotReady
  <2>3. CASE stream # Nil
    <3>1. stream \in Attempts /\ Covered(stream)
      BY <2>1, <2>3, <1>s
    <3>2. \A r \in Senders : sender'[r] \in {"reload", "send"} => r = s
      BY <1>16, <2>1, <2>3 DEF Lock, SenderTo
    <3>3. sendMu' = {s} /\ loaded'[s] = stream
      BY <1>16, <2>3 DEF Lock
    <3> QED BY <1>16, <2>1, <2>3, <3>1, <3>2, <3>3 DEF Lock, SenderTo
  <2> QED BY <2>2, <2>3
<1>17. ASSUME NEW s \in Senders, Reload(s) PROVE TrafficInv'
  <2>1. Launched' = Launched /\ Launched # {} /\ sendMu = {s}
    BY <1>17 DEF Reload, Launched
  <2>2. \A r \in Senders \ {s} : sender[r] \notin {"reload", "send"}
    BY <2>1
  <2>3. CASE UNCHANGED <<sender, loaded>>
    BY <1>17, <2>1, <2>3 DEF Reload
  <2>4. CASE /\ sender' = [sender EXCEPT ![s] = "send"]
             /\ \/ loaded' = loaded
                \/ stream # Nil /\ loaded' = [loaded EXCEPT ![s] = stream]
    <3>1. /\ loaded'[s] \in Attempts /\ loaded'[s] <= attempt
          /\ Covered(loaded'[s])
      BY <1>17, <2>1, <2>4, <1>s DEF Reload
    <3> QED BY <1>17, <2>1, <2>2, <2>4, <3>1 DEF Reload
  <2> QED BY <1>17, <2>3, <2>4 DEF Reload, SenderTo
<1>18. ASSUME NEW s \in Senders, Send(s) PROVE TrafficInv'
  BY <1>18 DEF Send, AfterUnlock, SenderTo, Launched, Transmit, FrameOf
<1> QED
  BY <1>u, <1>1, <1>2, <1>3, <1>4, <1>5, <1>6, <1>7, <1>8, <1>9, <1>10, <1>11,
     <1>12, <1>13, <1>14, <1>15, <1>16, <1>17, <1>18, StopLeavesTraffic
     DEF Next, Application, Client, RunStep, SendStep

\* An attempt that was launched stays so.
LEMMA LaunchedGrows ==
    ASSUME TypeInv, [Next]_vars
    PROVE  Launched \subseteq Launched'
<1>t. consumer \in [Attempts -> ConsumerPC]
  BY DEF TypeInv, TypeOK
<1>u. CASE UNCHANGED consumer
  BY <1>u DEF Launched
<1>1. CASE Launch
  BY <1>1, <1>t DEF Launch, Launched
<1>2. ASSUME NEW a \in Attempts, ConsumeLoad(a) \/ ConsumeFrame(a)
      PROVE  Launched \subseteq Launched'
  BY <1>2, <1>t DEF ConsumeLoad, ConsumeFrame, ConsumerTo, Channels, Launched
<1>3. ASSUME NEW a \in Attempts, ConsumeEnds(a) \/ ConsumeReport(a)
      PROVE  Launched \subseteq Launched'
  BY <1>3, <1>t DEF ConsumeEnds, ConsumeReport, ConsumerTo, AfterRecvError,
                    Launched
<1>4. ASSUME NEW a \in Attempts, NEW k \in Channels, ConsumeQueue(a, k)
      PROVE  Launched \subseteq Launched'
  BY <1>4, <1>t DEF ConsumeQueue, ConsumerTo, Channels, Launched
<1>5. CASE RunStep
  BY <1>5, <1>1, <1>u
     DEF RunStep, Connect, Dial, OpenStream, Register, ConnectFails,
         BackoffElapses, BackoffCancelled, LeaveWait, CleanupCancel,
         CleanupStream, CleanupConn
<1>6. CASE Start \/ CallerCancels \/ Close
  BY <1>6, <1>u DEF Start, CallerCancels, Close
<1>7. CASE UNCHANGED vars
  BY <1>7, <1>u DEF vars
<1> QED
  BY <1>u, <1>2, <1>3, <1>4, <1>5, <1>6, <1>7, SendersLeaveConsumers
     DEF Next, Application, Client, ConsumeStep

\* Only a Register and a Send put a first frame on a stream.
LEMMA OthersLeaveFirst ==
    ASSUME [Next]_vars, ~Register, \A s \in Senders : ~Send(s)
    PROVE  UNCHANGED first
<1> USE DEF grpcVars
<1>1. CASE RunStep
  BY <1>1 DEF RunStep, Connect, Dial, OpenStream, ConnectFails, Launch,
              BackoffElapses, BackoffCancelled, LeaveWait, CleanupCancel,
              CleanupStream, CleanupConn
<1>2. ASSUME NEW a \in Attempts,
             ConsumeStep(a) \/ ConsumeFrame(a) \/ Tick(a) \/ HeartbeatEnds(a)
      PROVE  UNCHANGED first
  BY <1>2 DEF ConsumeStep, ConsumeLoad, ConsumeFrame, ConsumeEnds,
              ConsumeReport, ConsumeQueue, Tick, HeartbeatEnds
<1>3. ASSUME NEW s \in Senders, SendStep(s) PROVE UNCHANGED first
  BY <1>3 DEF SendStep, Lock, Reload
<1>4. CASE CloseStep
  BY <1>4 DEF CloseStep, CloseCheck, CloseUse, CloseChannels
<1>5. CASE Application
  BY <1>5 DEF Application, Start, CallerCancels, Close, DrainReturns, Publish,
              AcquireSlot, AbandonSlot, ReleaseSlot, TakeDelivery, TakeBroadcast
<1>6. CASE Break \/ UNCHANGED vars
  BY <1>6 DEF Break, vars
<1> QED BY <1>1, <1>2, <1>3, <1>4, <1>5, <1>6 DEF Next, Client

LEMMA RegisterStep ==
    TypeInv /\ TrafficInv /\ RegisterBeforeTraffic /\ [Next]_vars
        => RegisterBeforeTraffic'
<1> SUFFICES ASSUME TypeInv, TrafficInv, RegisterBeforeTraffic, [Next]_vars,
                    NEW a \in Attempts, first'[a] \notin {"none", "register"}
             PROVE  \E b \in Launched' : b < a
  BY DEF RegisterBeforeTraffic
<1>t. first \in [Attempts -> FrameKinds \cup {"none"}]
  BY DEF TypeInv, TypeOK
<1>1. CASE first[a] \notin {"none", "register"}
  BY <1>1, LaunchedGrows DEF RegisterBeforeTraffic
<1>2. CASE first[a] \in {"none", "register"}
  <2>1. ~Register
    BY <1>2, <1>t DEF Register, Transmit
  <2>2. PICK s \in Senders : Send(s)
    BY <1>2, <2>1, OthersLeaveFirst
  <2>3. loaded[s] = a /\ first[a] = "none"
    BY <1>2, <1>t, <2>2 DEF Send, Transmit
  <2>4. \E b \in Launched : b < a
    BY <2>2, <2>3 DEF Send, TrafficInv, Covered
  <2> QED BY <2>4, LaunchedGrows
<1> QED BY <1>1, <1>2

\* On the stream of the first connect that succeeds, nothing precedes Register.
THEOREM RegisterPrecedesTraffic == Spec => []RegisterBeforeTraffic
BY TypeInit, TypeStep, ConsumerInit, ConsumerStep, TrafficInit, TrafficStep,
   RegisterStep, PTL DEF Spec

\* No two goroutines are in Send on one stream, and until the first reconnect
\* none is in Send while connect registers.
THEOREM SendsDoNotOverlap == Spec => []OneSendAtATime
<1>1. TypeInv /\ TrafficInv /\ RegisterBeforeTraffic => OneSendAtATime
  <2> SUFFICES ASSUME TypeInv, TrafficInv, RegisterBeforeTraffic,
                      NEW s \in Senders, sender[s] = "send"
               PROVE  /\ \A t \in Senders \ {s} :
                            sender[t] = "send" => loaded[t] # loaded[s]
                      /\ run = "register" /\ loaded[s] = attempt
                            => \E b \in Launched : b < attempt
    BY DEF OneSendAtATime
  <2>1. \A t \in Senders : sender[t] = "send" => sendMu = {t}
    BY DEF TrafficInv
  <2>2. sendMu = {s} /\ loaded[s] \in Attempts /\ Covered(loaded[s])
    BY DEF TrafficInv
  <2>3. ASSUME run = "register", loaded[s] = attempt
        PROVE  \E b \in Launched : b < attempt
    <3>1. first[attempt] # "register"
      BY <2>3 DEF TrafficInv
    <3> QED BY <2>2, <2>3, <3>1 DEF Covered, RegisterBeforeTraffic
  <2> QED BY <2>1, <2>2, <2>3
<1> QED
  BY <1>1, TypeInit, TypeStep, ConsumerInit, ConsumerStep, TrafficInit,
     TrafficStep, RegisterStep, PTL DEF Spec
=============================================================================
