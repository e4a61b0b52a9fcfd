---------------------- MODULE BridgeClientResourceProofs ---------------------
(* Theorems of BridgeClient about what the client holds and must give back: *)
(* connections, the fields a goroutine may dereference, the slots of        *)
(* publishers, the wait group and the back-off.  Each has an invariant of   *)
(* its own, on top of those of BridgeClientProofs.                          *)
EXTENDS BridgeClientProofs, FiniteSetTheorems

Up == Cleaning \cup {"wait"}

-----------------------------------------------------------------------------
(* Who writes what.                                                         *)

\* Besides run, only Start moves run's pc, and nobody assigns c.cancel, c.conn,
\* c.stream or c.started.  Contexts are cancelled for good, by cleanup or by
\* Close, and only a Dial opens a connection.
LEMMA OnlyRunWrites ==
    ASSUME [Next]_vars, ~RunStep
    PROVE  /\ UNCHANGED <<retry, attempt, cancel, conn, stream, started>>
           /\ run' = run \/ Start
           /\ open' \subseteq open /\ cancelled \subseteq cancelled'
           /\ closer = "idle" => cancelled' = cancelled
<1> USE DEF runVars, fieldVars, grpcVars
<1>1. CASE Break \/ TakeBroadcast \/ Start \/ CallerCancels \/ UNCHANGED vars
  BY <1>1 DEF Break, TakeBroadcast, Start, CallerCancels, vars
<1>2. CASE Close \/ DrainReturns
  BY <1>2 DEF Close, DrainReturns
<1>3. ASSUME NEW p \in Publishers,
             Publish(p) \/ AcquireSlot(p) \/ AbandonSlot(p) \/ ReleaseSlot(p)
      PROVE  UNCHANGED <<runVars, fieldVars, open, cancelled>>
  BY <1>3 DEF Publish, AcquireSlot, AbandonSlot, ReleaseSlot
<1>4. ASSUME NEW k \in Ackers, TakeDelivery(k)
      PROVE  UNCHANGED <<runVars, fieldVars, open, cancelled>>
  BY <1>4 DEF TakeDelivery
<1>5. ASSUME NEW a \in Attempts, Tick(a) \/ HeartbeatEnds(a)
      PROVE  UNCHANGED <<runVars, fieldVars, open, cancelled>>
  BY <1>5 DEF Tick, HeartbeatEnds
<1>6. ASSUME NEW a \in Attempts, ConsumeStep(a) \/ ConsumeFrame(a)
      PROVE  /\ UNCHANGED <<runVars, cancel, conn, stream, started>>
             /\ UNCHANGED <<open, cancelled>>
  BY <1>6 DEF ConsumeStep, ConsumeLoad, ConsumeFrame, ConsumeEnds,
              ConsumeReport, ConsumeQueue
<1>7. ASSUME NEW s \in Senders, SendStep(s)
      PROVE  UNCHANGED <<runVars, fieldVars, open, cancelled>>
  BY <1>7 DEF SendStep, Lock, Reload, Send
<1>8. ASSUME NEW f \in CloseFields, CloseCheck(f)
      PROVE  UNCHANGED <<runVars, fieldVars, open, cancelled>>
  BY <1>8 DEF CloseCheck
<1>9. ASSUME NEW f \in CloseFields, CloseUse(f)
      PROVE  /\ UNCHANGED <<runVars, fieldVars>>
             /\ open' \subseteq open /\ cancelled \subseteq cancelled'
             /\ closer # "idle"
  BY <1>9 DEF CloseUse, CloseFields
<1>10. CASE CloseChannels
  BY <1>10 DEF CloseChannels
<1> QED
  BY <1>1, <1>2, <1>3, <1>4, <1>5, <1>6, <1>7, <1>8, <1>9, <1>10
     DEF Next, Application, Client, CloseStep

\* Only a Launch makes an attempt launched, and it is the last attempt.
LEMMA LaunchedStep ==
    ASSUME TypeInv, [Next]_vars
    PROVE  \/ Launch /\ attempt \in Attempts
              /\ Launched' = Launched \cup {attempt}
           \/ ~Launch /\ Launched' = Launched
<1>t. consumer \in [Attempts -> ConsumerPC]
  BY DEF TypeInv, TypeOK
<1>1. CASE Launch
  <2>1. attempt \in Attempts
    BY <1>1 DEF Launch, TypeInv
  <2> QED BY <1>1, <1>t, <2>1 DEF Launch, Launched, ConsumerPC
<1>2. ASSUME ~Launch PROVE Launched' = Launched
  <2>u. CASE UNCHANGED consumer
    BY <2>u DEF Launched
  <2>1. ASSUME NEW a \in Attempts, ConsumeLoad(a) \/ ConsumeFrame(a)
        PROVE  Launched' = Launched
    BY <2>1, <1>t DEF ConsumeLoad, ConsumeFrame, ConsumerTo, Channels, Launched
  <2>2. ASSUME NEW a \in Attempts, ConsumeEnds(a) \/ ConsumeReport(a)
        PROVE  Launched' = Launched
    BY <2>2, <1>t DEF ConsumeEnds, ConsumeReport, ConsumerTo, AfterRecvError,
                      Launched
  <2>3. ASSUME NEW a \in Attempts, NEW k \in Channels, ConsumeQueue(a, k)
        PROVE  Launched' = Launched
    BY <2>3, <1>t DEF ConsumeQueue, ConsumerTo, Channels, Launched
  <2>4. CASE RunStep
    BY <2>4, <1>2, <2>u
       DEF RunStep, Connect, Dial, OpenStream, Register, ConnectFails,
           BackoffElapses, BackoffCancelled, LeaveWait, CleanupCancel,
           CleanupStream, CleanupConn
  <2>5. CASE Start \/ CallerCancels \/ Close \/ UNCHANGED vars
    BY <2>5, <2>u DEF Start, CallerCancels, Close, vars
  <2> QED
    BY <2>u, <2>1, <2>2, <2>3, <2>4, <2>5, SendersLeaveConsumers
       DEF Next, Application, Client, ConsumeStep
<1> QED BY <1>1, <1>2

-----------------------------------------------------------------------------
(* Connections.  A launched attempt is open only from its Launch to its     *)
(* CleanupConn, and CleanupConn closes the right one because c.conn is the  *)
(* connection of the last attempt from Dial on.                             *)

ConnInv ==
    /\ run \in (Dialing \ {"dial"}) \cup Up => conn = attempt
    /\ \A a \in Launched \cap open : a = attempt /\ run \in Up

LEMMA ConnInit == Init => ConnInv
BY DEF Init, ConnInv, Dialing, Up, Cleaning

LEMMA ConnStep == TypeInv /\ ConsumerInv /\ ConnInv /\ [Next]_vars => ConnInv'
<1> SUFFICES ASSUME TypeInv, ConsumerInv, ConnInv, [Next]_vars PROVE ConnInv'
  OBVIOUS
<1>t. run \in Dialing => attempt \notin Launched
  BY DEF ConsumerInv
<1> USE DEF ConnInv, Dialing, Up, Cleaning
<1>1. CASE ~RunStep
  BY <1>1, OnlyRunWrites, LaunchedStep DEF RunStep, Start
<1>2. CASE Launch
  BY <1>2, <1>t, LaunchedStep DEF Launch, grpcVars
<1>3. CASE RunStep /\ ~Launch
  <2>0. Launched' = Launched
    BY <1>3, LaunchedStep
  <2>1. CASE Connect \/ OpenStream \/ Register \/ ConnectFails
    BY <2>0, <2>1 DEF Connect, OpenStream, Register, ConnectFails, fieldVars,
                      grpcVars
  <2>2. CASE Dial
    BY <1>t, <2>0, <2>2 DEF Dial
  <2>3. CASE BackoffElapses \/ BackoffCancelled
    BY <2>0, <2>3 DEF BackoffElapses, BackoffCancelled, grpcVars
  <2>4. CASE LeaveWait \/ CleanupCancel \/ CleanupStream
    BY <2>0, <2>4 DEF LeaveWait, CleanupCancel, CleanupStream, grpcVars
  <2>5. CASE CleanupConn
    BY <2>0, <2>5 DEF CleanupConn, OpenAfterCleanup
  <2> QED BY <1>3, <2>1, <2>2, <2>3, <2>4, <2>5 DEF RunStep
<1> QED BY <1>1, <1>2, <1>3

\* Of the connections that had a stream only that of the last attempt is open,
\* and the client still has it in c.conn and will close it: none leaks.
THEOREM ConnectionsAreClosed == Spec => []ConnectionsClosed
<1>1. ConnInv => ConnectionsClosed
  BY DEF ConnInv, ConnectionsClosed, Up, Cleaning
<1> QED
  BY <1>1, TypeInit, TypeStep, ConsumerInit, ConsumerStep, ConnInit, ConnStep,
     PTL DEF Spec

-----------------------------------------------------------------------------
(* Panics.  c.stream is nil before the first Launch, when nobody reads it,  *)
(* and from a CleanupStream on.  By then CleanupCancel has called the       *)
(* cancel function of the attempt: c.cancel is that of the last attempt     *)
(* until CleanupCancel has used it.                                         *)

PanicInv ==
    /\ run \in Dialing \cup {"wait", "clCancel"} => cancel = attempt
    /\ run \in Up => attempt \in Attempts
    /\ run \in {"clStream", "clConn"} => cancelled # {}
    /\ Launched # {} /\ cancelled = {} => stream # Nil
    /\ closed => closer \in {"closed", "drained"}
    /\ NoPanicInService

\* A goroutine other than Close panics on a nil stream or on a closed channel.
LEMMA Panicking ==
    ASSUME TrafficInv, [Next]_vars, panic' # panic
    PROVE  \/ stream = Nil /\ Launched # {}
           \/ closed
           \/ closer # "idle"
<1>1. ASSUME NEW a \in Attempts, ConsumeStep(a)
      PROVE  closed \/ (stream = Nil /\ Launched # {})
  <2>1. CASE ConsumeLoad(a)
    BY <2>1 DEF ConsumeLoad, Launched
  <2>2. CASE ConsumeEnds(a) \/ ConsumeReport(a)
    BY <2>2 DEF ConsumeEnds, ConsumeReport
  <2>3. ASSUME NEW k \in Channels, ConsumeQueue(a, k) PROVE closed
    BY <2>3 DEF ConsumeQueue
  <2> QED BY <1>1, <2>1, <2>2, <2>3 DEF ConsumeStep
<1>2. ASSUME NEW s \in Senders, SendStep(s) PROVE stream = Nil /\ Launched # {}
  <2>1. sender[s] \notin {"off", "idle"}
    BY <1>2 DEF SendStep, Lock, Reload, Send
  <2>2. stream = Nil
    BY <1>2 DEF SendStep, Lock, Reload, Send
  <2> QED BY <2>1, <2>2 DEF TrafficInv
<1>3. CASE CloseStep
  BY <1>3 DEF CloseStep, CloseFields, CloseCheck, CloseUse, CloseChannels
<1>4. CASE RunStep
  BY <1>4 DEF RunStep, Connect, Dial, OpenStream, Register, ConnectFails, Launch,
              BackoffElapses, BackoffCancelled, LeaveWait, CleanupCancel,
              CleanupStream, CleanupConn
<1>5. ASSUME NEW a \in Attempts, ConsumeFrame(a) \/ Tick(a) \/ HeartbeatEnds(a)
      PROVE  FALSE
  BY <1>5 DEF ConsumeFrame, Tick, HeartbeatEnds
<1>6. CASE Application
  BY <1>6 DEF Application, Start, CallerCancels, Close, DrainReturns, Publish,
              AcquireSlot, AbandonSlot, ReleaseSlot, TakeDelivery, TakeBroadcast
<1>7. CASE Break \/ UNCHANGED vars
  BY <1>7 DEF Break, vars
<1> QED BY <1>1, <1>2, <1>3, <1>4, <1>5, <1>6, <1>7 DEF Next, Client

\* Only Close moves its own pc, and closes the channels at the end of its way.
LEMMA ClosingStep ==
    ASSUME TypeInv, [Next]_vars
    PROVE  /\ closer # "idle" => closer' # "idle"
           /\ \/ UNCHANGED <<closed, closer>>
              \/ closer' \in {"closed", "drained"}
              \/ closer \in CloseFields \cup {"idle"} /\ closed' = closed
<1> USE DEF closeVars
<1>1. CASE Close \/ DrainReturns \/ CloseChannels
  BY <1>1 DEF Close, DrainReturns, CloseChannels
<1>2. ASSUME NEW f \in CloseFields, CloseCheck(f) \/ CloseUse(f)
      PROVE  /\ closer \in CloseFields /\ closed' = closed
             /\ closer' # "idle"
  BY <1>2 DEF CloseFields, CloseCheck, CloseUse, AfterField
<1>3. CASE RunStep
  BY <1>3 DEF RunStep, Connect, Dial, OpenStream, Register, ConnectFails, Launch,
              BackoffElapses, BackoffCancelled, LeaveWait, CleanupCancel,
              CleanupStream, CleanupConn
<1>4. ASSUME NEW a \in Attempts,
             ConsumeStep(a) \/ ConsumeFrame(a) \/ Tick(a) \/ HeartbeatEnds(a)
      PROVE  UNCHANGED <<closed, closer>>
  BY <1>4 DEF ConsumeStep, ConsumeLoad, ConsumeFrame, ConsumeEnds,
              ConsumeReport, ConsumeQueue, Tick, HeartbeatEnds
<1>5. ASSUME NEW s \in Senders, SendStep(s) PROVE UNCHANGED <<closed, closer>>
  BY <1>5 DEF SendStep, Lock, Reload, Send
<1>6. CASE Break \/ Start \/ CallerCancels \/ TakeBroadcast \/ UNCHANGED vars
  BY <1>6 DEF Break, Start, CallerCancels, TakeBroadcast, vars
<1>7. ASSUME NEW p \in Publishers,
             Publish(p) \/ AcquireSlot(p) \/ AbandonSlot(p) \/ ReleaseSlot(p)
      PROVE  UNCHANGED <<closed, closer>>
  BY <1>7 DEF Publish, AcquireSlot, AbandonSlot, ReleaseSlot
<1>8. ASSUME NEW k \in Ackers, TakeDelivery(k)
      PROVE  UNCHANGED <<closed, closer>>
  BY <1>8 DEF TakeDelivery
<1> QED
  BY <1>1, <1>2, <1>3, <1>4, <1>5, <1>6, <1>7, <1>8
     DEF Next, Application, Client, CloseStep

LEMMA PanicInit == Init => PanicInv
BY DEF Init, PanicInv, NoPanicInService, Launched, Dialing, Up, Cleaning

\* run keeps c.cancel until cleanup has used it, and c.stream until then.
LEMMA PanicRunStep ==
    ASSUME TypeInv, ConsumerInv, PanicInv, [Next]_vars
    PROVE  /\ run' \in Dialing \cup {"wait", "clCancel"} => cancel' = attempt'
           /\ run' \in Up => attempt' \in Attempts
           /\ run' \in {"clStream", "clConn"} => cancelled' # {}
           /\ Launched' # {} /\ cancelled' = {} => stream' # Nil
<1>t. /\ run \in Dialing => attempt \in Attempts
      /\ run \in Streaming => stream = attempt
      /\ \A x \in Attempts : x # Nil
  BY DEF TypeInv, ConsumerInv, Dialing, Attempts, Nil
<1> USE DEF PanicInv, Dialing, Up, Cleaning
<1>1. CASE ~RunStep
  BY <1>1, OnlyRunWrites, LaunchedStep DEF RunStep, Start
<1>2. CASE Launch
  BY <1>2, <1>t, LaunchedStep DEF Launch, Streaming, grpcVars
<1>3. CASE RunStep /\ ~Launch
  <2>0. Launched' = Launched
    BY <1>3, LaunchedStep
  <2>1. CASE Connect \/ Dial \/ Register \/ ConnectFails
    BY <2>0, <2>1 DEF Connect, Dial, Register, ConnectFails, fieldVars,
                      grpcVars
  <2>2. CASE OpenStream
    BY <1>t, <2>0, <2>2 DEF OpenStream, grpcVars
  <2>3. CASE BackoffElapses \/ BackoffCancelled
    BY <2>0, <2>3 DEF BackoffElapses, BackoffCancelled, fieldVars, grpcVars
  <2>4. CASE LeaveWait
    BY <2>0, <2>4 DEF LeaveWait, grpcVars
  <2>5. CASE CleanupCancel
    <3>1. cancelled' # {}
      BY <1>t, <2>5 DEF CleanupCancel
    <3> QED BY <2>0, <2>5, <3>1 DEF CleanupCancel
  <2>6. CASE CleanupStream \/ CleanupConn
    BY <2>0, <2>6 DEF CleanupStream, CleanupConn, grpcVars
  <2> QED BY <1>3, <2>1, <2>2, <2>3, <2>4, <2>5, <2>6 DEF RunStep
<1> QED BY <1>1, <1>2, <1>3

LEMMA PanicStep ==
    TypeInv /\ ConsumerInv /\ TrafficInv /\ PanicInv /\ [Next]_vars => PanicInv'
<1> SUFFICES ASSUME TypeInv, ConsumerInv, TrafficInv, PanicInv, [Next]_vars
             PROVE  PanicInv'
  OBVIOUS
<1>1. closed' => closer' \in {"closed", "drained"}
  BY ClosingStep DEF PanicInv, CloseFields
<1>2. NoPanicInService'
  <2>1. cancelled \subseteq cancelled'
    <3>1. CASE RunStep
      BY <3>1 DEF RunStep, Connect, Dial, OpenStream, Register, ConnectFails,
                  Launch, BackoffElapses, BackoffCancelled, LeaveWait,
                  CleanupCancel, CleanupStream, CleanupConn, grpcVars
    <3> QED BY <3>1, OnlyRunWrites
  <2>2. CASE panic' = panic
    BY <2>1, <2>2, ClosingStep DEF PanicInv, NoPanicInService
  <2>3. CASE panic' # panic
    BY <2>1, <2>3, Panicking, ClosingStep DEF PanicInv, NoPanicInService
  <2> QED BY <2>2, <2>3
<1> QED BY <1>1, <1>2, PanicRunStep DEF PanicInv

\* While the first stream is up and nobody closes the client, no order of its
\* goroutines ends the process.
THEOREM NoPanicWhileUp == Spec => []NoPanicInService
<1>1. PanicInv => NoPanicInService
  BY DEF PanicInv
<1> QED
  BY <1>1, TypeInit, TypeStep, ConsumerInit, ConsumerStep, TrafficInit,
     TrafficStep, PanicInit, PanicStep, PTL DEF Spec

-----------------------------------------------------------------------------
(* Slots and the wait group.  Both are counters of goroutines that are      *)
(* somewhere in their code, and the invariants say who is counted.          *)

SlotInv ==
    /\ \A p \in Publishers :
          sender[p] \in {"idle", "acquire", "lock", "send", "release"}
    /\ MaxInFlight > 0 =>
          IsFiniteSet(HoldsSlot) /\ inflight = Cardinality(HoldsSlot)

\* The heartbeatLoops that run.
Beating == {a \in Attempts : sender[a] \notin {"off", "done"}}

WgInv ==
    /\ IsFiniteSet(Beating)
    /\ wg = Cardinality(Beating) + (IF run \in {"off", "done"} THEN 0 ELSE 1)

\* What the consumes, Break, Start and Close do to the senders: nothing.
LEMMA OthersLeaveSenders ==
    ASSUME \/ Break \/ Start \/ CallerCancels \/ Close \/ DrainReturns
           \/ TakeBroadcast \/ CloseStep \/ UNCHANGED vars
           \/ \E a \in Attempts : ConsumeStep(a) \/ ConsumeFrame(a)
           \/ RunStep /\ ~Launch
    PROVE  UNCHANGED <<sender, sendMu, inflight>>
<1> USE DEF sendVars
<1>1. CASE \/ Break \/ Start \/ CallerCancels \/ Close \/ DrainReturns
           \/ TakeBroadcast \/ UNCHANGED vars
  BY <1>1 DEF Break, Start, CallerCancels, Close, DrainReturns, TakeBroadcast,
              vars
<1>2. CASE CloseStep
  BY <1>2 DEF CloseStep, CloseCheck, CloseUse, CloseChannels
<1>3. ASSUME NEW a \in Attempts, ConsumeStep(a) \/ ConsumeFrame(a)
      PROVE  UNCHANGED <<sender, sendMu, inflight>>
  BY <1>3 DEF ConsumeStep, ConsumeLoad, ConsumeFrame, ConsumeEnds,
              ConsumeReport, ConsumeQueue
<1>4. CASE RunStep /\ ~Launch
  BY <1>4 DEF RunStep, Connect, Dial, OpenStream, Register, ConnectFails,
              BackoffElapses, BackoffCancelled, LeaveWait, CleanupCancel,
              CleanupStream, CleanupConn
<1> QED BY <1>1, <1>2, <1>3, <1>4

\* They leave the wait group alone too, but for Start and the end of run.
LEMMA OthersLeaveWg ==
    ASSUME \/ Break \/ CallerCancels \/ Close \/ DrainReturns
           \/ TakeBroadcast \/ CloseStep \/ UNCHANGED vars
           \/ \E a \in Attempts : ConsumeStep(a) \/ ConsumeFrame(a)
           \/ \E p \in Publishers : \/ Publish(p) \/ AcquireSlot(p)
                                    \/ AbandonSlot(p) \/ ReleaseSlot(p)
           \/ \E k \in Ackers : TakeDelivery(k)
           \/ \E a \in Attempts : Tick(a)
           \/ \E s \in Senders : SendStep(s)
    PROVE  UNCHANGED <<run, wg>>
<1> USE DEF runVars
<1>1. CASE \/ Break \/ CallerCancels \/ Close \/ DrainReturns
           \/ TakeBroadcast \/ UNCHANGED vars
  BY <1>1 DEF Break, CallerCancels, Close, DrainReturns, TakeBroadcast, vars
<1>2. CASE CloseStep
  BY <1>2 DEF CloseStep, CloseCheck, CloseUse, CloseChannels
<1>3. ASSUME NEW a \in Attempts, ConsumeStep(a) \/ ConsumeFrame(a) \/ Tick(a)
      PROVE  UNCHANGED <<run, wg>>
  BY <1>3 DEF ConsumeStep, ConsumeLoad, ConsumeFrame, ConsumeEnds,
              ConsumeReport, ConsumeQueue, Tick
<1>4. ASSUME NEW p \in Publishers,
             Publish(p) \/ AcquireSlot(p) \/ AbandonSlot(p) \/ ReleaseSlot(p)
      PROVE  UNCHANGED <<run, wg>>
  BY <1>4 DEF Publish, AcquireSlot, AbandonSlot, ReleaseSlot
<1>5. ASSUME NEW k \in Ackers, TakeDelivery(k) PROVE UNCHANGED <<run, wg>>
  BY <1>5 DEF TakeDelivery
<1>6. ASSUME NEW s \in Senders, SendStep(s) PROVE UNCHANGED <<run, wg>>
  BY <1>6 DEF SendStep, Lock, Reload, Send
<1> QED BY <1>1, <1>2, <1>3, <1>4, <1>5, <1>6

\* A send goes from "lock" to "send", and on to "release" or "idle".
LEMMA SendStepMoves ==
    ASSUME TypeInv, NEW s \in Senders, SendStep(s)
    PROVE  /\ sender[s] \in {"lock", "reload", "send"} /\ inflight' = inflight
           /\ \E pc \in {"lock", "reload", "send", "release", "idle"} :
                 /\ sender' = [sender EXCEPT ![s] = pc]
                 /\ s \in Publishers => pc # "idle"
                 /\ s \notin Publishers => pc # "release"
                 /\ s \notin Ackers /\ sender[s] # "reload" => pc # "reload"
<1>t. sender = [sender EXCEPT ![s] = sender[s]]
  BY DEF TypeInv, TypeOK
<1>1. CASE Lock(s)
  BY <1>1, <1>t, SendersAreDistinct DEF Lock, SenderTo, AfterUnlock
<1>2. CASE Reload(s)
  BY <1>2, <1>t DEF Reload, SenderTo
<1>3. CASE Send(s)
  BY <1>3 DEF Send, SenderTo, AfterUnlock
<1> QED BY <1>1, <1>2, <1>3 DEF SendStep

LEMMA SlotInit == Init => SlotInv
<1> SUFFICES ASSUME Init PROVE SlotInv
  OBVIOUS
<1>1. \A p \in Publishers : sender[p] = "idle"
  BY SendersAreDistinct DEF Init, Senders
<1>2. HoldsSlot = {}
  BY <1>1 DEF HoldsSlot
<1> QED BY <1>1, <1>2, FS_EmptySet DEF Init, SlotInv

LEMMA SlotStep == TypeInv /\ SlotInv /\ [Next]_vars => SlotInv'
<1> SUFFICES ASSUME TypeInv, SlotInv, [Next]_vars PROVE SlotInv'
  OBVIOUS
<1>t. /\ sender \in [Senders -> SenderPC] /\ inflight \in Nat
      /\ Publishers \subseteq Senders
      /\ Publishers \cap Ackers = {} /\ Publishers \cap Attempts = {}
  BY ClientAssumption, SendersAreDistinct DEF TypeInv, TypeOK, Senders
<1>s. ASSUME inflight' = inflight,
             \A p \in Publishers :
                /\ sender'[p] \in {"idle", "acquire", "lock", "send", "release"}
                /\ sender'[p] \in {"lock", "send", "release"}
                      <=> sender[p] \in {"lock", "send", "release"}
      PROVE  SlotInv'
  <2>1. HoldsSlot' = HoldsSlot
    BY <1>s DEF HoldsSlot
  <2> QED BY <1>s, <2>1 DEF SlotInv
<1>1. CASE UNCHANGED <<sender, inflight>>
  BY <1>1, <1>s DEF SlotInv
<1>2. CASE Launch
  BY <1>2, <1>s, <1>t DEF Launch, SlotInv, TypeInv
<1>3. ASSUME NEW p \in Publishers, Publish(p) \/ AbandonSlot(p) PROVE SlotInv'
  BY <1>3, <1>s, <1>t DEF Publish, AbandonSlot, AfterNoSlot, SenderTo, SlotInv
<1>4. ASSUME NEW p \in Publishers, AcquireSlot(p) PROVE SlotInv'
  <2>1. sender' = [sender EXCEPT ![p] = "lock"] /\ sender[p] = "acquire"
    BY <1>4 DEF AcquireSlot, SenderTo
  <2>2. HoldsSlot' = HoldsSlot \cup {p} /\ p \notin HoldsSlot
    BY <2>1, <1>t DEF HoldsSlot
  <2>3. MaxInFlight > 0 => inflight' = inflight + 1
    BY <1>4, ClientAssumption DEF AcquireSlot
  <2>4. \A q \in Publishers :
          sender'[q] \in {"idle", "acquire", "lock", "send", "release"}
    BY <2>1, <1>t DEF SlotInv
  <2>5. ASSUME MaxInFlight > 0
        PROVE  IsFiniteSet(HoldsSlot') /\ inflight' = Cardinality(HoldsSlot')
    <3>1. IsFiniteSet(HoldsSlot) /\ inflight = Cardinality(HoldsSlot)
      BY <2>5 DEF SlotInv
    <3>2. /\ IsFiniteSet(HoldsSlot \cup {p})
          /\ Cardinality(HoldsSlot \cup {p}) = Cardinality(HoldsSlot) + 1
      BY <3>1, <2>2, FS_AddElement
    <3> QED BY <2>2, <2>3, <2>5, <3>1, <3>2
  <2> QED BY <2>4, <2>5 DEF SlotInv
<1>5. ASSUME NEW p \in Publishers, ReleaseSlot(p) PROVE SlotInv'
  <2>1. sender' = [sender EXCEPT ![p] = "idle"] /\ sender[p] = "release"
    BY <1>5 DEF ReleaseSlot, SenderTo
  <2>2. HoldsSlot' = HoldsSlot \ {p} /\ p \in HoldsSlot
    BY <2>1, <1>t DEF HoldsSlot
  <2>3. inflight' = IF inflight > 0 THEN inflight - 1 ELSE inflight
    BY <1>5 DEF ReleaseSlot
  <2>4. \A q \in Publishers :
          sender'[q] \in {"idle", "acquire", "lock", "send", "release"}
    BY <2>1, <1>t DEF SlotInv
  <2>5. ASSUME MaxInFlight > 0
        PROVE  IsFiniteSet(HoldsSlot') /\ inflight' = Cardinality(HoldsSlot')
    <3>1. IsFiniteSet(HoldsSlot) /\ inflight = Cardinality(HoldsSlot)
      BY <2>5 DEF SlotInv
    <3>2. /\ IsFiniteSet(HoldsSlot \ {p})
          /\ Cardinality(HoldsSlot \ {p}) = Cardinality(HoldsSlot) - 1
      BY <3>1, <2>2, FS_RemoveElement
    <3>3. inflight > 0
      BY <3>1, <2>2, <1>t, FS_EmptySet
    <3> QED BY <2>2, <2>3, <3>1, <3>2, <3>3
  <2> QED BY <2>4, <2>5 DEF SlotInv
<1>6. ASSUME NEW k \in Ackers, TakeDelivery(k) PROVE SlotInv'
  <2>1. sender' = sender \/ sender' = [sender EXCEPT ![k] = "lock"]
    BY <1>6 DEF TakeDelivery, SenderTo
  <2> QED BY <1>6, <2>1, <1>s, <1>t DEF TakeDelivery, SlotInv
<1>7. ASSUME NEW a \in Attempts, Tick(a) \/ HeartbeatEnds(a) PROVE SlotInv'
  BY <1>7, <1>s, <1>t DEF Tick, HeartbeatEnds, SenderTo, SlotInv
<1>8. ASSUME NEW s \in Senders, SendStep(s) PROVE SlotInv'
  <2>1. PICK pc \in {"lock", "reload", "send", "release", "idle"} :
          /\ sender' = [sender EXCEPT ![s] = pc]
          /\ s \in Publishers => pc # "idle"
          /\ s \notin Ackers /\ sender[s] # "reload" => pc # "reload"
    BY <1>8, SendStepMoves
  <2>2. sender[s] \in {"lock", "reload", "send"} /\ inflight' = inflight
    BY <1>8, SendStepMoves
  <2>3. ASSUME NEW p \in Publishers
        PROVE  /\ sender'[p] \in {"idle", "acquire", "lock", "send", "release"}
               /\ sender'[p] \in {"lock", "send", "release"}
                     <=> sender[p] \in {"lock", "send", "release"}
    BY <2>1, <2>2, <2>3, <1>t DEF SlotInv
  <2> QED BY <2>2, <2>3, <1>s
<1> QED
  BY <1>1, <1>2, <1>3, <1>4, <1>5, <1>6, <1>7, <1>8, OthersLeaveSenders
     DEF Next, Application, Client

\* The tokens in c.inflight are always those of the publishers between
\* acquireSlot and releaseSlot.
THEOREM SlotsAreExact == Spec => []SlotsExact
<1>1. SlotInv => SlotsExact
  BY DEF SlotInv, SlotsExact
<1> QED BY <1>1, TypeInit, TypeStep, SlotInit, SlotStep, PTL DEF Spec

LEMMA WgInit == Init => WgInv
<1> SUFFICES ASSUME Init PROVE WgInv
  OBVIOUS
<1>1. \A a \in Attempts : sender[a] = "off"
  BY DEF Init, Senders
<1>2. Beating = {}
  BY <1>1 DEF Beating
<1> QED BY <1>2, FS_EmptySet DEF Init, WgInv

LEMMA WgStep == TypeInv /\ ConsumerInv /\ TrafficInv /\ WgInv /\ [Next]_vars => WgInv'
<1> SUFFICES ASSUME TypeInv, ConsumerInv, TrafficInv, WgInv, [Next]_vars
             PROVE  WgInv'
  OBVIOUS
<1>t. /\ sender \in [Senders -> SenderPC] /\ wg \in Int
      /\ Attempts \subseteq Senders
      /\ Ackers \cap Attempts = {} /\ Publishers \cap Attempts = {}
  BY SendersAreDistinct DEF TypeInv, TypeOK, Senders
<1>c. IsFiniteSet(Beating) /\ Cardinality(Beating) \in Nat
  BY FS_CardinalityType DEF WgInv
<1>s. ASSUME UNCHANGED wg, run' \in {"off", "done"} <=> run \in {"off", "done"},
             \A a \in Attempts : sender'[a] \notin {"off", "done"}
                                    <=> sender[a] \notin {"off", "done"}
      PROVE  WgInv'
  <2>1. Beating' = Beating
    BY <1>s DEF Beating
  <2> QED BY <1>s, <2>1 DEF WgInv
<1>1. CASE \/ Break \/ CallerCancels \/ Close \/ DrainReturns \/ TakeBroadcast
           \/ CloseStep \/ UNCHANGED vars
           \/ \E a \in Attempts : ConsumeStep(a) \/ ConsumeFrame(a)
  BY <1>1, <1>s, OthersLeaveSenders, OthersLeaveWg
<1>2. CASE Start \/ (RunStep /\ ~Launch)
  <2>1. Beating' = Beating
    BY <1>2, OthersLeaveSenders DEF Beating
  <2>2. CASE Start
    BY <2>1, <2>2, <1>t, <1>c DEF Start, WgInv
  <2>3. CASE BackoffCancelled
    BY <2>1, <2>3, <1>t, <1>c DEF BackoffCancelled, WgInv
  <2>4. CASE CleanupConn
    BY <2>1, <2>4, <1>t, <1>c DEF CleanupConn, WgInv
  <2>5. CASE \/ Connect \/ Dial \/ OpenStream \/ Register \/ ConnectFails
             \/ BackoffElapses \/ LeaveWait \/ CleanupCancel \/ CleanupStream
    BY <2>1, <2>5
       DEF Connect, Dial, OpenStream, Register, ConnectFails, BackoffElapses,
           LeaveWait, CleanupCancel, CleanupStream, WgInv
  <2> QED BY <1>2, <2>2, <2>3, <2>4, <2>5 DEF RunStep
<1>3. CASE Launch
  <2>1. attempt \in Attempts /\ sender[attempt] = "off"
    BY <1>3 DEF Launch, TypeInv, ConsumerInv, TrafficInv, Dialing
  <2>2. Beating' = Beating \cup {attempt} /\ attempt \notin Beating
    BY <1>3, <1>t, <2>1 DEF Launch, Beating
  <2>3. IsFiniteSet(Beating') /\ Cardinality(Beating') = Cardinality(Beating) + 1
    BY <1>c, <2>2, FS_AddElement
  <2> QED BY <1>3, <1>t, <1>c, <2>3 DEF Launch, WgInv
<1>4. ASSUME NEW a \in Attempts, HeartbeatEnds(a) PROVE WgInv'
  <2>1. Beating' = Beating \ {a} /\ a \in Beating
    BY <1>4, <1>t DEF HeartbeatEnds, SenderTo, Beating
  <2>2. IsFiniteSet(Beating') /\ Cardinality(Beating') = Cardinality(Beating) - 1
    BY <1>c, <2>1, FS_RemoveElement
  <2> QED BY <1>4, <1>t, <1>c, <2>2 DEF HeartbeatEnds, WgInv, runVars
<1>5. ASSUME NEW a \in Attempts, Tick(a) PROVE WgInv'
  <2>1. UNCHANGED <<run, wg>>
    BY <1>5, OthersLeaveWg
  <2> QED BY <1>5, <1>s, <1>t, <2>1 DEF Tick, SenderTo
<1>6. ASSUME NEW p \in Publishers,
             Publish(p) \/ AcquireSlot(p) \/ AbandonSlot(p) \/ ReleaseSlot(p)
      PROVE  WgInv'
  <2>1. UNCHANGED <<run, wg>>
    BY <1>6, OthersLeaveWg
  <2>2. \A a \in Attempts : sender'[a] = sender[a]
    BY <1>6, <1>t DEF Publish, AcquireSlot, AbandonSlot, ReleaseSlot, SenderTo
  <2> QED BY <1>s, <2>1, <2>2
<1>7. ASSUME NEW k \in Ackers, TakeDelivery(k) PROVE WgInv'
  <2>1. UNCHANGED <<run, wg>>
    BY <1>7, OthersLeaveWg
  <2>2. \A a \in Attempts : sender'[a] = sender[a]
    BY <1>7, <1>t DEF TakeDelivery, SenderTo
  <2> QED BY <1>s, <2>1, <2>2
<1>8. ASSUME NEW s \in Senders, SendStep(s) PROVE WgInv'
  <2>1. UNCHANGED <<run, wg>>
    BY <1>8, OthersLeaveWg
  <2>2. PICK pc \in {"lock", "reload", "send", "release", "idle"} :
          sender' = [sender EXCEPT ![s] = pc]
    BY <1>8, SendStepMoves
  <2>3. sender[s] \in {"lock", "reload", "send"}
    BY <1>8, SendStepMoves
  <2> QED BY <1>s, <1>t, <2>1, <2>2, <2>3
<1> QED
  BY <1>1, <1>2, <1>3, <1>4, <1>5, <1>6, <1>7, <1>8
     DEF Next, Application, Client

\* Only DrainReturns ends a Drain.
LEMMA OnlyDrainReturns ==
    ASSUME [Next]_vars, closer # "drained", closer' = "drained"
    PROVE  DrainReturns
<1> USE DEF closeVars
<1>1. CASE Close \/ CloseChannels
  BY <1>1 DEF Close, CloseChannels
<1>2. ASSUME NEW f \in CloseFields, CloseCheck(f) \/ CloseUse(f) PROVE FALSE
  BY <1>2 DEF CloseFields, CloseCheck, CloseUse, AfterField
<1>3. CASE RunStep
  BY <1>3 DEF RunStep, Connect, Dial, OpenStream, Register, ConnectFails, Launch,
              BackoffElapses, BackoffCancelled, LeaveWait, CleanupCancel,
              CleanupStream, CleanupConn
<1>4. ASSUME NEW a \in Attempts,
             ConsumeStep(a) \/ ConsumeFrame(a) \/ Tick(a) \/ HeartbeatEnds(a)
      PROVE  FALSE
  BY <1>4 DEF ConsumeStep, ConsumeLoad, ConsumeFrame, ConsumeEnds,
              ConsumeReport, ConsumeQueue, Tick, HeartbeatEnds
<1>5. ASSUME NEW s \in Senders, SendStep(s) PROVE FALSE
  BY <1>5 DEF SendStep, Lock, Reload, Send
<1>6. CASE Break \/ Start \/ CallerCancels \/ TakeBroadcast \/ UNCHANGED vars
  BY <1>6 DEF Break, Start, CallerCancels, TakeBroadcast, vars
<1>7. ASSUME NEW p \in Publishers,
             Publish(p) \/ AcquireSlot(p) \/ AbandonSlot(p) \/ ReleaseSlot(p)
      PROVE  FALSE
  BY <1>7 DEF Publish, AcquireSlot, AbandonSlot, ReleaseSlot
<1>8. ASSUME NEW k \in Ackers, TakeDelivery(k) PROVE FALSE
  BY <1>8 DEF TakeDelivery
<1> QED
  BY <1>1, <1>2, <1>3, <1>4, <1>5, <1>6, <1>7, <1>8
     DEF Next, Application, Client, CloseStep

\* When Drain returns nil, run and every heartbeatLoop have returned.
THEOREM DrainHasWaited == Spec => DrainWaits
<1>1. ASSUME TypeInv, WgInv, [Next]_vars
      PROVE  [closer # "drained" /\ closer' = "drained"
                => /\ run \in {"off", "done"}
                   /\ \A a \in Attempts : sender[a] \in {"off", "done"}]_vars
  <2> SUFFICES ASSUME closer # "drained", closer' = "drained"
               PROVE  /\ run \in {"off", "done"}
                      /\ \A a \in Attempts : sender[a] \in {"off", "done"}
    OBVIOUS
  <2>1. wg = 0
    BY <1>1, OnlyDrainReturns DEF DrainReturns, WaitGroupDone
  <2>2. IsFiniteSet(Beating) /\ Cardinality(Beating) \in Nat
    BY <1>1, FS_CardinalityType DEF WgInv
  <2>3. run \in {"off", "done"} /\ Cardinality(Beating) = 0
    BY <1>1, <2>1, <2>2 DEF WgInv
  <2>4. Beating = {}
    BY <2>2, <2>3, FS_EmptySet
  <2> QED BY <2>3, <2>4 DEF Beating
<1> QED
  BY <1>1, TypeInit, TypeStep, ConsumerInit, ConsumerStep, TrafficInit,
     TrafficStep, WgInit, WgStep, PTL DEF Spec, DrainWaits

-----------------------------------------------------------------------------
(* The back-off.  It is set back only at a Launch and doubled only at the   *)
(* end of a sleep, so from one Launch to the next it counts the attempts    *)
(* that failed.  The recurrence of the powers of two, which the provers do  *)
(* not know, is a hypothesis of what is proved here.                        *)

PowersOfTwo == \A n \in Nat : 2 ^ n \in Nat \ {0} /\ 2 ^ (n + 1) = 2 * 2 ^ n

LEMMA FirstBackoff == BackoffOf(1) = BaseBackoff
<1>1. 2 ^ (1 - 1) = 1
  OBVIOUS
<1> QED BY <1>1, ClientAssumption DEF BackoffOf

LEMMA NextIsBackoffOf ==
    ASSUME PowersOfTwo, NEW n \in Nat \ {0}
    PROVE  NextBackoff(BackoffOf(n)) = BackoffOf(n + 1)
<1> DEFINE power == 2 ^ (n - 1)
           doubled == BaseBackoff * power
<1>1. power \in Nat \ {0} /\ 2 ^ ((n - 1) + 1) = 2 * power
  <2>1. n - 1 \in Nat
    OBVIOUS
  <2> QED BY <2>1 DEF PowersOfTwo
<1>2. (n - 1) + 1 = (n + 1) - 1
  OBVIOUS
<1>3. 2 ^ ((n + 1) - 1) = 2 * power
  BY <1>1, <1>2
<1>4. doubled \in Nat /\ doubled > 0 /\ BaseBackoff * (2 * power) = 2 * doubled
  BY <1>1, ClientAssumption
<1>5. BackoffOf(n + 1) =
        IF BaseBackoff >= MaxBackoff THEN BaseBackoff
        ELSE IF 2 * doubled > MaxBackoff THEN MaxBackoff ELSE 2 * doubled
  BY <1>3, <1>4 DEF BackoffOf
<1>6. BackoffOf(n) =
        IF BaseBackoff >= MaxBackoff THEN BaseBackoff
        ELSE IF doubled > MaxBackoff THEN MaxBackoff ELSE doubled
  BY DEF BackoffOf
<1> HIDE DEF doubled
<1> QED BY <1>4, <1>5, <1>6, ClientAssumption DEF NextBackoff

BackoffInv ==
    /\ Launched = {} \/ \E a \in Launched : \A b \in Launched : b <= a
    /\ run \in Up => attempt \in Launched
    /\ run \in Dialing \cup {"backoff"} =>
          Last < attempt /\ retry = BackoffOf(attempt - Last)
    /\ run \in {"off", "connect"} \cup Up =>
          retry = BackoffOf(attempt - Last + 1)

\* Last is a launched attempt, and none is later; 0 when there is none.
LEMMA LastLaunched ==
    ASSUME TypeInv, ConsumerInv,
           Launched = {} \/ \E a \in Launched : \A b \in Launched : b <= a
    PROVE  /\ Last \in 0 .. attempt
           /\ \A a \in Launched : (\A b \in Launched : b <= a) => Last = a
<1>1. attempt \in Nat /\ Launched \subseteq Nat \ {0}
  BY DEF TypeInv, TypeOK, Launched, Attempts
<1>2. CASE Launched = {}
  BY <1>1, <1>2 DEF Last
<1>3. CASE Launched # {}
  <2>1. Last \in Launched /\ \A b \in Launched : b <= Last
    BY <1>3 DEF Last
  <2> QED BY <1>1, <2>1 DEF ConsumerInv
<1> QED BY <1>2, <1>3

LEMMA BackoffInit == Init => BackoffInv
<1> SUFFICES ASSUME Init PROVE BackoffInv
  OBVIOUS
<1>1. Launched = {} /\ Last = 0
  BY DEF Init, Launched, Last
<1>2. attempt - Last + 1 = 1
  BY <1>1 DEF Init
<1> QED
  BY <1>1, <1>2, FirstBackoff DEF Init, BackoffInv, Dialing, Up, Cleaning

LEMMA BackoffStep ==
    ASSUME PowersOfTwo, TypeInv, ConsumerInv, BackoffInv, [Next]_vars
    PROVE  BackoffInv'
<1>t. /\ run \in RunPC /\ attempt \in Nat
      /\ run = "off" => attempt = 0
      /\ \A a \in Launched : a <= attempt
      /\ Last \in 0 .. attempt
  BY LastLaunched DEF TypeInv, TypeOK, ConsumerInv, BackoffInv
<1> USE DEF BackoffInv, Dialing, Up, Cleaning
<1>l. ASSUME Launched' = Launched PROVE Last' = Last
  BY <1>l DEF Last
<1>1. CASE ~RunStep
  <2>1. Launched' = Launched /\ Last' = Last
    BY <1>1, <1>l, LaunchedStep DEF RunStep
  <2> QED BY <1>1, <2>1, OnlyRunWrites DEF Start
<1>2. CASE Launch
  <2>1. Launched' = Launched \cup {attempt} /\ attempt \in Launched'
    BY <1>2, LaunchedStep
  <2>2. \A b \in Launched' : b <= attempt
    BY <1>t, <2>1
  <2>3. Last' = attempt
    <3>1. Last' \in Launched' /\ \A b \in Launched' : b <= Last'
      BY <2>1, <2>2 DEF Last
    <3>2. Last' \in Nat
      BY <1>t, <2>1, <3>1 DEF Launched, Attempts
    <3> QED BY <1>t, <2>1, <2>2, <3>1, <3>2
  <2>4. attempt' = attempt /\ retry' = BaseBackoff /\ run' = "wait"
    BY <1>2 DEF Launch, RetryAfterSuccess
  <2>5. attempt' - Last' + 1 = 1
    BY <1>t, <2>3, <2>4
  <2> QED BY <2>1, <2>2, <2>4, <2>5, FirstBackoff
<1>3. CASE RunStep /\ ~Launch
  <2>0. Launched' = Launched /\ Last' = Last
    BY <1>3, <1>l, LaunchedStep
  <2>1. CASE Connect
    <3>1. attempt' - Last' = attempt - Last + 1
      BY <1>t, <2>0, <2>1 DEF Connect
    <3> QED BY <1>t, <2>0, <2>1, <3>1 DEF Connect
  <2>2. CASE Dial \/ OpenStream \/ Register \/ ConnectFails
    BY <2>0, <2>2 DEF Dial, OpenStream, Register, ConnectFails
  <2>3. CASE BackoffElapses
    <3>1. attempt - Last \in Nat \ {0}
      BY <1>t, <2>3 DEF BackoffElapses
    <3>2. retry' = BackoffOf(attempt - Last + 1)
      BY <2>3, <3>1, NextIsBackoffOf DEF BackoffElapses
    <3> QED BY <2>0, <2>3, <3>2 DEF BackoffElapses
  <2>4. CASE BackoffCancelled \/ LeaveWait \/ CleanupCancel \/ CleanupStream
    BY <2>0, <2>4 DEF BackoffCancelled, LeaveWait, CleanupCancel,
                      CleanupStream, runVars
  <2>5. CASE CleanupConn
    BY <2>0, <2>5 DEF CleanupConn
  <2> QED BY <1>3, <2>1, <2>2, <2>3, <2>4, <2>5 DEF RunStep
<1> QED BY <1>1, <1>2, <1>3

\* The n-th back-off in a row is the base doubled n - 1 times, up to the limit,
\* and a successful connect starts over.
THEOREM BackoffIsExact ==
    ASSUME PowersOfTwo
    PROVE  Spec => []BackoffExact
<1>1. BackoffInv => BackoffExact
  BY DEF BackoffInv, BackoffExact, FailedInARow
<1>2. TypeInv /\ ConsumerInv /\ BackoffInv /\ [Next]_vars => BackoffInv'
  BY BackoffStep
<1> QED
  BY <1>1, <1>2, TypeInit, TypeStep, ConsumerInit, ConsumerStep, BackoffInit,
     PTL DEF Spec

-----------------------------------------------------------------------------
(* Nobody waits in a ring.  Who holds sendMu or a slot is in a place it can *)
(* leave, and run's wait ends: a consume that has returned has reported,    *)
(* unless the context of its attempt was cancelled, which before a Close    *)
(* only cleanup does.                                                       *)

HolderInv ==
    /\ \A s \in sendMu : sender[s] \in {"reload", "send"}
    /\ \A s \in Senders : sender[s] \in {"acquire", "release"} => s \in Publishers

ReportInv ==
    /\ runCtx = "none" <=> run = "off"
    /\ run \in Up => attempt \in Launched
    /\ closer = "idle" =>
          \A a \in cancelled :
             a <= attempt /\ (a = attempt => run \notin Dialing \cup {"wait"})
    /\ closer = "idle" /\ run = "wait" /\ consumer[attempt] = "done"
          => recvErr = 1 \/ runCtx = "done"

LEMMA HolderInit == Init => HolderInv
BY DEF Init, HolderInv

\* A sender takes sendMu on its way to "reload" or "send", and gives it back
\* when it leaves.
LEMMA HolderStep ==
    TypeInv /\ ConsumerInv /\ TrafficInv /\ HolderInv /\ [Next]_vars
        => HolderInv'
<1> SUFFICES ASSUME TypeInv, ConsumerInv, TrafficInv, HolderInv, [Next]_vars
             PROVE  HolderInv'
  OBVIOUS
<1>t. /\ sender \in [Senders -> SenderPC] /\ sendMu \in SUBSET Senders
      /\ Publishers \subseteq Senders
      /\ Publishers \cap Ackers = {} /\ Publishers \cap Attempts = {}
  BY SendersAreDistinct DEF TypeInv, TypeOK, Senders
<1>s. ASSUME NEW s \in Senders, NEW pc,
             sender' = [sender EXCEPT ![s] = pc], sendMu' = sendMu,
             sender[s] \notin {"reload", "send"},
             pc \in {"acquire", "release"} => s \in Publishers
      PROVE  HolderInv'
  BY <1>s, <1>t DEF HolderInv
<1>1. CASE UNCHANGED <<sender, sendMu>>
  BY <1>1 DEF HolderInv
<1>2. CASE Launch
  <2>1. attempt \in Senders /\ attempt \notin sendMu /\ sendMu' = sendMu
    <3>1. attempt \in Attempts
      BY <1>2 DEF Launch, TypeInv
    <3>2. sender[attempt] \notin {"reload", "send"}
      BY <1>2, <3>1 DEF Launch, ConsumerInv, TrafficInv, Dialing
    <3> QED BY <1>2, <3>1, <3>2 DEF Launch, HolderInv, Senders
  <2> QED BY <1>2, <1>t, <2>1 DEF Launch, HolderInv
<1>3. ASSUME NEW p \in Publishers,
             Publish(p) \/ AcquireSlot(p) \/ AbandonSlot(p) \/ ReleaseSlot(p)
      PROVE  HolderInv'
  BY <1>3, <1>s, <1>t DEF Publish, AcquireSlot, AbandonSlot, ReleaseSlot,
     AfterNoSlot, SenderTo
<1>4. ASSUME NEW k \in Ackers, TakeDelivery(k) PROVE HolderInv'
  <2>1. sendMu' = sendMu /\ sender[k] = "idle" /\ k \in Senders
        /\ (sender' = sender \/ sender' = [sender EXCEPT ![k] = "lock"])
    BY <1>4 DEF TakeDelivery, SenderTo, Senders
  <2> QED BY <2>1, <1>1, <1>s
<1>5. ASSUME NEW a \in Attempts, Tick(a) \/ HeartbeatEnds(a) PROVE HolderInv'
  BY <1>5, <1>s DEF Tick, HeartbeatEnds, SenderTo, Senders
<1>6. ASSUME NEW s \in Senders, SendStep(s) PROVE HolderInv'
  <2>1. PICK pc \in {"lock", "reload", "send", "release", "idle"} :
          /\ sender' = [sender EXCEPT ![s] = pc]
          /\ s \notin Publishers => pc # "release"
    BY <1>6, SendStepMoves
  <2>2. \A r \in Senders : sender'[r] \in {"acquire", "release"}
                              => r \in Publishers
    BY <1>6, <1>t, <2>1, SendStepMoves DEF HolderInv
  <2>3. \A r \in sendMu' : sender'[r] \in {"reload", "send"}
    <3>1. CASE Lock(s)
      BY <3>1, <1>t DEF Lock, MuFree, MuAfterNotReady, SenderTo
    <3>2. CASE Reload(s)
      BY <3>2, <1>t DEF Reload, SenderTo, HolderInv
    <3>3. CASE Send(s)
      BY <3>3 DEF Send
    <3> QED BY <1>6, <3>1, <3>2, <3>3 DEF SendStep
  <2> QED BY <2>2, <2>3 DEF HolderInv
<1> QED
  BY <1>1, <1>2, <1>3, <1>4, <1>5, <1>6, OthersLeaveSenders
     DEF Next, Application, Client

LEMMA ReportInit == Init => ReportInv
BY DEF Init, ReportInv, Up, Cleaning

\* The steps of run: each attempt is a new one, and its context is not cancelled
\* before its cleanup.
LEMMA ReportRunStep ==
    ASSUME TypeInv, ConsumerInv, PanicInv, ReportInv, [Next]_vars, RunStep
    PROVE  ReportInv'
<1>t. /\ attempt \in 0 .. MaxAttempts /\ Attempts \subseteq Nat
      /\ cancelled \subseteq Attempts /\ consumer \in [Attempts -> ConsumerPC]
      /\ run \in Dialing => attempt \in Attempts
      /\ run \in RunPC /\ recvErr \in {0, 1}
  BY ClientAssumption DEF TypeInv, TypeOK, Attempts, Dialing
<1> USE <1>t DEF ReportInv, Dialing, Up, Cleaning, runVars, fieldVars, grpcVars,
        closeVars
<1>1. CASE Launch
  BY <1>1, LaunchedStep DEF Launch
<1>2. ASSUME ~Launch PROVE Launched' = Launched
  BY <1>2, LaunchedStep
<1>3. CASE Connect
  BY <1>3, <1>2 DEF Connect, Launch
<1>4. CASE Dial \/ OpenStream \/ Register \/ ConnectFails
  BY <1>4, <1>2 DEF Dial, OpenStream, Register, ConnectFails, Launch
<1>5. CASE BackoffElapses \/ BackoffCancelled
  BY <1>5, <1>2 DEF BackoffElapses, BackoffCancelled, Launch
<1>6. CASE LeaveWait
  BY <1>6, <1>2 DEF LeaveWait, Launch
<1>7. CASE CleanupCancel
  <2>1. cancel = attempt
    BY <1>7 DEF CleanupCancel, PanicInv
  <2> QED BY <1>7, <1>2, <2>1 DEF CleanupCancel, Launch
<1>8. CASE CleanupStream \/ CleanupConn
  BY <1>8, <1>2 DEF CleanupStream, CleanupConn, Launch
<1> QED BY <1>1, <1>3, <1>4, <1>5, <1>6, <1>7, <1>8 DEF RunStep

\* The steps of consume: it reports, or its context was cancelled.
LEMMA ReportConsumeStep ==
    ASSUME TypeInv, ConsumerInv, ReportInv, [Next]_vars, NEW a \in Attempts,
           ConsumeStep(a) \/ ConsumeFrame(a)
    PROVE  ReportInv'
<1>t. consumer \in [Attempts -> ConsumerPC]
  BY DEF TypeInv, TypeOK
<1>1. UNCHANGED <<run, runCtx, attempt, cancelled, closer>>
  BY DEF ConsumeStep, ConsumeLoad, ConsumeFrame, ConsumeEnds, ConsumeReport,
     ConsumeQueue, runVars, grpcVars, closeVars
<1>2. Launched' = Launched
  <2>1. ~Launch
    BY <1>1 DEF Launch
  <2> QED BY <2>1, LaunchedStep
<1>3. ASSUME closer = "idle", run = "wait", consumer'[attempt] = "done"
      PROVE  recvErr' = 1 \/ runCtx = "done"
  <2>0. attempt \in Attempts
    BY <1>3 DEF ReportInv, Up, Launched
  <2>1. CASE ConsumeLoad(a)
    BY <1>3, <1>t, <2>0, <2>1 DEF ConsumeLoad, ConsumerTo, ReportInv, fieldVars
  <2>2. CASE ConsumeFrame(a)
    BY <1>3, <1>t, <2>0, <2>2 DEF ConsumeFrame, ConsumerTo, Channels, ReportInv,
       fieldVars
  <2>3. CASE ConsumeEnds(a)
    BY <1>3, <1>t, <2>0, <2>3 DEF ConsumeEnds, ConsumerTo, AfterRecvError,
       ReportInv, fieldVars
  <2>4. CASE ConsumeReport(a)
    BY <2>4 DEF ConsumeReport
  <2>5. ASSUME NEW k \in Channels, ConsumeQueue(a, k)
        PROVE  recvErr' = 1 \/ runCtx = "done"
    <3>1. CASE consumer[attempt] = "done"
      BY <1>3, <2>5, <3>1 DEF ConsumeQueue, ReportInv, fieldVars
    <3>2. CASE consumer[attempt] # "done"
      <4>1. CtxDone(a) /\ a = attempt
        BY <1>3, <1>t, <2>0, <2>5, <3>2 DEF ConsumeQueue, ConsumerTo
      <4> QED BY <1>3, <4>1 DEF CtxDone, ReportInv
    <3> QED BY <3>1, <3>2
  <2> QED BY <2>1, <2>2, <2>3, <2>4, <2>5 DEF ConsumeStep
<1> QED BY <1>1, <1>2, <1>3 DEF ReportInv

LEMMA ReportStep ==
    TypeInv /\ ConsumerInv /\ PanicInv /\ ReportInv /\ [Next]_vars => ReportInv'
<1> SUFFICES ASSUME TypeInv, ConsumerInv, PanicInv, ReportInv, [Next]_vars
             PROVE  ReportInv'
  OBVIOUS
<1>1. CASE RunStep
  BY <1>1, ReportRunStep
<1>2. ASSUME NEW a \in Attempts, ConsumeStep(a) \/ ConsumeFrame(a)
      PROVE  ReportInv'
  BY <1>2, ReportConsumeStep
<1>3. ASSUME ~RunStep, UNCHANGED <<consumer, recvErr>>,
             UNCHANGED <<run, runCtx>> \/ (run # "off" /\ run' = run /\ runCtx' = "done")
      PROVE  ReportInv'
  <2>1. Launched' = Launched /\ UNCHANGED attempt
    BY <1>3, LaunchedStep, OnlyRunWrites DEF RunStep
  <2>2. closer' = "idle" => closer = "idle" /\ cancelled' = cancelled
    BY <1>3, ClosingStep, OnlyRunWrites
  <2> QED BY <1>3, <2>1, <2>2 DEF ReportInv
<1>4. CASE Start
  <2>1. ~RunStep \/ RunStep
    OBVIOUS
  <2>2. CASE ~RunStep
    <3>1. Launched' = Launched /\ UNCHANGED attempt
      BY <2>2, LaunchedStep, OnlyRunWrites DEF RunStep
    <3>2. closer' = "idle" => closer = "idle" /\ cancelled' = cancelled
      BY <2>2, ClosingStep, OnlyRunWrites
    <3>3. run' = "connect" /\ runCtx' = "live"
      BY <1>4 DEF Start
    <3> QED BY <3>1, <3>2, <3>3 DEF ReportInv, Up, Cleaning, Dialing
  <2> QED BY <2>2, <1>1
<1>5. CASE CallerCancels \/ Close
  <2>1. UNCHANGED <<consumer, recvErr, run>>
    BY <1>5 DEF CallerCancels, Close, runVars, fieldVars
  <2>2. UNCHANGED runCtx \/ (run # "off" /\ runCtx' = "done")
    BY <1>5 DEF CallerCancels, Close, ReportInv
  <2> QED BY <1>1, <1>3, <2>1, <2>2
<1>6. CASE UNCHANGED <<run, runCtx, attempt, stream, recvErr, consumer>>
  BY <1>1, <1>3, <1>6
<1> QED
  BY <1>1, <1>2, <1>4, <1>5, <1>6, SendersLeaveConsumers
     DEF Next, Application, Client, vars, runVars, fieldVars

\* A send that has begun can go on, or the holder of what it waits for can, or
\* that one is in Send and the Worker leaves it no room.
LEMMA SendingMayStep ==
    ASSUME TypeInv, SlotInv, HolderInv, Sending
    PROVE  MayStep \/ \E s \in Senders : HeldByWorker(s)
<1> DEFINE Goal == MayStep \/ \E s \in Senders : HeldByWorker(s)
<1>t. sender \in [Senders -> SenderPC] /\ sendMu \in SUBSET Senders
      /\ inflight \in 0 .. MaxInFlight /\ MaxInFlight \in Nat
      /\ Publishers \subseteq Senders
  BY ClientAssumption DEF TypeInv, TypeOK, Senders
<1>0. ASSUME NEW s \in Senders, sender[s] \in {"reload", "send"} PROVE Goal
  BY <1>0 DEF MayStep, HeldByWorker
<1>1. ASSUME NEW s \in Senders, sender[s] \in {"reload", "send", "lock"}
      PROVE  Goal
  <2>1. CASE sender[s] = "lock" /\ MuFree
    BY <2>1 DEF MayStep
  <2>2. CASE ~MuFree
    <3>1. PICK h \in sendMu : TRUE
      BY <2>2 DEF MuFree
    <3> QED BY <1>0, <1>t, <3>1 DEF HolderInv
  <2> QED BY <1>0, <1>1, <2>1, <2>2
<1>2. ASSUME NEW p \in Publishers, sender[p] = "release" PROVE Goal
  BY <1>2 DEF MayStep
<1>3. ASSUME NEW p \in Publishers, sender[p] = "acquire" PROVE Goal
  <2>1. CASE MaxInFlight = 0 \/ SlotFree
    BY <1>3, <2>1 DEF MayStep
  <2>2. CASE MaxInFlight > 0 /\ ~SlotFree
    <3>1. IsFiniteSet(HoldsSlot) /\ Cardinality(HoldsSlot) # 0
      BY <1>t, <2>2 DEF SlotInv, SlotFree
    <3>2. PICK q \in HoldsSlot : TRUE
      BY <3>1, FS_EmptySet
    <3> QED BY <1>t, <1>1, <1>2, <3>2 DEF HoldsSlot
  <2> QED BY <1>t, <2>1, <2>2
<1>4. PICK s \in Senders : sender[s] \notin {"off", "idle", "done"}
  BY DEF Sending
<1>5. sender[s] \in {"acquire", "release"} => s \in Publishers
  BY DEF HolderInv
<1>6. sender[s] \in {"reload", "send", "lock", "acquire", "release"}
  BY <1>t, <1>4 DEF SenderPC
<1> QED BY <1>1, <1>2, <1>3, <1>5, <1>6

\* When the context has ended and nobody can step, everybody has returned.
LEMMA StoppingMayStep ==
    ASSUME TypeInv, ConsumerInv, SlotInv, HolderInv, WgInv, ReportInv, Stopping
    PROVE  MayStep
<1> SUFFICES ASSUME ~MayStep PROVE AtRest
  BY DEF Stopping
<1>t. /\ runCtx = "done" /\ run \in RunPC /\ closer \in CloserPC
      /\ sender \in [Senders -> SenderPC] /\ Attempts \subseteq Senders
      /\ consumer \in [Attempts -> ConsumerPC]
  BY DEF Stopping, TypeInv, TypeOK, Senders
<1>1. \A a \in Attempts : CtxDone(a) /\ StreamDown(a)
  BY <1>t DEF CtxDone, StreamDown
<1>2. run = "done"
  BY <1>t DEF RunPC, MayStep, ReportInv, StreamDown, CtxDone
<1>3. Consuming = {}
  <2> SUFFICES ASSUME NEW a \in Consuming PROVE FALSE
    OBVIOUS
  <2>1. a \in Attempts /\ recvErr = 0
    BY DEF Consuming, ConsumerInv
  <2>2. consumer[a] \in {"load", "recv", "report"} \cup Channels
    BY <1>t, <2>1 DEF Consuming, ConsumerPC
  <2> QED BY <1>1, <2>1, <2>2 DEF MayStep
<1>4. \A s \in Senders : sender[s] \in {"off", "idle", "done"}
  <2>1. \A s \in Senders : ~HeldByWorker(s)
    BY <1>t DEF HeldByWorker, StreamDown, CtxDone
  <2> QED BY <2>1, SendingMayStep DEF Sending
<1>5. \A a \in Attempts : sender[a] \in {"off", "done"}
  BY <1>1, <1>4, <1>t DEF MayStep
<1>6. wg = 0
  <2>1. Beating = {}
    BY <1>5 DEF Beating
  <2> QED BY <1>2, <2>1, FS_EmptySet DEF WgInv
<1>7. closer \in {"idle", "drained"}
  BY <1>t, <1>6 DEF CloserPC, CloseFields, MayStep, WaitGroupDone
<1> QED BY <1>2, <1>3, <1>5, <1>7 DEF AtRest

\* When the stream has ended, consume can report it or has, and run can hear it.
LEMMA EndIsHeard ==
    ASSUME TypeInv, ConsumerInv, PanicInv, ReportInv, EndUnheard
    PROVE  MayStep
<1>t. /\ consumer \in [Attempts -> ConsumerPC]
      /\ run = "wait" /\ stream = attempt /\ attempt \in Launched
      /\ stream \in broken /\ closer = "idle"
  BY DEF EndUnheard, TypeInv, TypeOK, ConsumerInv, Streaming, ReportInv, Up
<1>1. attempt \in Attempts /\ consumer[attempt] # "off"
  BY <1>t DEF Launched
<1>2. CASE consumer[attempt] = "done"
  BY <1>2, <1>t DEF ReportInv, MayStep
<1>3. CASE consumer[attempt] \in Channels
  <2>1. queued[consumer[attempt]] < Buffer
    BY <1>3, <1>t DEF EndUnheard
  <2> QED BY <1>1, <1>3, <2>1 DEF MayStep
<1>4. CASE consumer[attempt] \in {"load", "recv"}
  BY <1>1, <1>4, <1>t DEF MayStep, StreamDown
<1>5. CASE consumer[attempt] = "report"
  <2>1. attempt \in Consuming
    BY <1>1, <1>5 DEF Consuming
  <2> QED BY <1>1, <1>5, <2>1 DEF MayStep, ConsumerInv
<1> QED BY <1>1, <1>2, <1>3, <1>4, <1>5, <1>t DEF ConsumerPC

\* For any number of publishers, ackers and attempts, a client that is stopping
\* or whose stream has ended has a goroutine whose guard holds: whatever it
\* waits for, sendMu, a slot, recvErr or wg, somebody can give.  One that is
\* sending has such a goroutine too, or a Send for which the Worker has no room.
THEOREM OnlyTheWorkerHolds == Spec => []OnlyTheWorkerIsWaitedFor
<1>1. TypeInv /\ ConsumerInv /\ SlotInv /\ HolderInv /\ WgInv /\ PanicInv
         /\ ReportInv => OnlyTheWorkerIsWaitedFor
  BY SendingMayStep, StoppingMayStep, EndIsHeard DEF OnlyTheWorkerIsWaitedFor
<1> QED
  BY <1>1, TypeInit, TypeStep, ConsumerInit, ConsumerStep, TrafficInit,
     TrafficStep, PanicInit, PanicStep, SlotInit, SlotStep, WgInit, WgStep,
     HolderInit, HolderStep, ReportInit, ReportStep, PTL DEF Spec
=============================================================================
