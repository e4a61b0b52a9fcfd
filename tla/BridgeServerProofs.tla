------------------------- MODULE BridgeServerProofs -------------------------
(* Theorems of BridgeServer: they hold for every number of streams, of     *)
(* closers and of goroutines that kept a Session, and whatever the         *)
(* Sidecars do and the callbacks return.                                   *)
EXTENDS BridgeServer, TLAPS

-----------------------------------------------------------------------------
(* The inductive invariants.                                               *)

\* OnClose has run for the streams that OnRegister accepted, from Leave on.
SessionInv ==
    \A s \in Streams :
        /\ stream[s] \in {"none", "first", "OnRegister"}
               => s \notin accepted /\ closes[s] = 0
        /\ stream[s] \in {"recv", "OnFrame"} => s \in accepted /\ closes[s] = 0
        /\ stream[s] = "OnClose" => s \in accepted /\ closes[s] = 1
        /\ stream[s] = "done"
               => closes[s] = IF s \in accepted THEN 1 ELSE 0

\* Who sends holds the mutex of the session.
SendInv == \A x \in Senders : sender[x] = "send" => sendMu[SessionOf(x)] = {x}

\* The goroutine that runs the function of stopOnce.
Runs(c) == closer[c] \in {"check", "graceful", "listener"}

\* stopOnce has one runner at a time, and none before and after.
OnceInv ==
    /\ \A c, d \in AllClosers : Runs(c) /\ Runs(d) => c = d
    /\ \A c \in AllClosers : Runs(c) => once = "busy"
    /\ \A c \in AllClosers : closer[c] = "returned" => once = "done"

\* The server and its listener exist where Serve says so.
PublishInv ==
    /\ serve \in {"published", "accepting", "leaving"} => published
    /\ published => serve \notin {"idle", "listening"}
    /\ published \/ serve = "listening" => lis # "none"
    /\ serve \in {"idle", "listening", "published"}
           => \A s \in Streams : stream[s] = "none"

\* GracefulStop runs within stopOnce, at the place of its runner.
HaltInv ==
    /\ halt # "no" => published /\ once # "fresh"
    /\ halt = "draining" => once = "busy"
    /\ \A c \in AllClosers : closer[c] = "check" => halt = "no"
    /\ \A c \in AllClosers : closer[c] = "graceful" => halt = "draining"
    /\ \A c \in AllClosers : closer[c] = "listener" => halt # "draining"

\* What is closed when.  A listener that was closed without a GracefulStop was
\* closed by a stopOnce that found no server and that is done.
StopInv ==
    /\ lis = "closed" /\ halt = "no" => once = "done"
    /\ serve = "leaving" => lis = "closed"
    /\ serve = "returned" /\ published => lis = "closed"
    /\ serve = "accepting" /\ halt # "no" => lis = "closed"
    /\ halt = "stopped"
           => serve # "accepting" /\ \A s \in Streams : ~Live(s)
    /\ halt = "draining" /\ serve = "returned"
           => \A s \in Streams : stream[s] = "none"
    /\ halt # "no" /\ once = "done" => lis = "closed"

ShutdownInv == OnceInv /\ PublishInv /\ HaltInv /\ StopInv

\* A sendMu is held by a goroutine in Send on its session, and the goroutine of
\* a stream sends within its callbacks.
HolderInv ==
    \A s \in Streams :
        /\ \A x \in sendMu[s] : sender[x] = "send" /\ SessionOf(x) = s
        /\ sender[s] # "idle" => stream[s] \in Callbacks

\* Who waits for stopOnce or for GracefulStop waits for a goroutine that runs
\* it.
RunnerInv ==
    /\ once = "busy" => \E c \in AllClosers : Runs(c)
    /\ once = "fresh" => \A c \in AllClosers : closer[c] = "idle"
    /\ halt = "draining" => \E c \in AllClosers : closer[c] = "graceful"
-----------------------------------------------------------------------------
(* Type correctness.                                                       *)

\* Every step of the server keeps the types.
LEMMA TypeStep == TypeOK /\ [Next]_vars => TypeOK'
<1> SUFFICES ASSUME TypeOK, [Next]_vars PROVE TypeOK'
  OBVIOUS
<1> USE ServerAssumption DEF TypeOK, serveVars, closeVars, streamVars, sendVars
<1>1. CASE UNCHANGED vars
  BY <1>1 DEF vars
<1>2. CASE ContextEnds
  BY <1>2 DEF ContextEnds
<1>3. CASE ServeStep
  <2>1. CASE Listen \/ LoadFails \/ Publish
    BY <2>1 DEF Listen, LoadFails, Publish
  <2>2. CASE Accept \/ AcceptEnds \/ ServeReturns
    BY <2>2 DEF Accept, AcceptEnds, ServeReturns
  <2> QED BY <1>3, <2>1, <2>2 DEF ServeStep
<1>4. ASSUME NEW c \in AllClosers, Close(c) PROVE TypeOK'
  <2>1. closer' \in [AllClosers -> {"idle", "check", "graceful", "listener",
                                    "wait", "returned"}]
    BY <1>4 DEF Close, CloserTo, WhileOnceIsBusy
  <2>2. once' \in {"fresh", "busy", "done"}
    BY <1>4 DEF Close
  <2> QED BY <1>4, <2>1, <2>2 DEF Close
<1>5. ASSUME NEW c \in AllClosers, CloserStep(c) PROVE TypeOK'
  <2>1. CASE CloseCheck(c)
    BY <2>1 DEF CloseCheck, CloserTo
  <2>2. CASE Stopped(c)
    BY <2>2 DEF Stopped, CloserTo
  <2>3. CASE CloseListener(c)
    BY <2>3 DEF CloseListener, CloserTo
  <2>4. CASE OnceReturns(c)
    BY <2>4 DEF OnceReturns, CloserTo
  <2> QED BY <1>5, <2>1, <2>2, <2>3, <2>4 DEF CloserStep
<1>6. ASSUME NEW s \in Streams, Open(s) \/ End(s) PROVE TypeOK'
  BY <1>6 DEF Open, End, StreamPC
<1>7. ASSUME NEW s \in Streams, First(s) \/ Recv(s) PROVE TypeOK'
  BY <1>7 DEF First, Recv, Dispatch, StreamTo, StreamPC, Callbacks
<1>8. ASSUME NEW s \in Streams, RecvFails(s) \/ Closed(s) PROVE TypeOK'
  BY <1>8 DEF RecvFails, Leave, Closed, StreamTo, StreamPC, Callbacks
<1>9. ASSUME NEW s \in Streams, Registered(s) PROVE TypeOK'
  <2>1. stream' \in [Streams -> StreamPC]
    BY <1>9 DEF Registered, StreamTo, StreamPC, AfterRefusal
  <2>2. closes' \in [Streams -> Nat]
    BY <1>9 DEF Registered, AfterRefusal
  <2> QED BY <1>9, <2>1, <2>2 DEF Registered
<1>10. ASSUME NEW s \in Streams, FrameHandled(s) PROVE TypeOK'
  BY <1>10 DEF FrameHandled, Leave, StreamTo, StreamPC, Callbacks
<1>11. ASSUME NEW x \in Senders, Push(x) PROVE TypeOK'
  BY <1>11 DEF Push, SenderTo
<1>12. ASSUME NEW x \in Senders, Lock(x) PROVE TypeOK'
  BY <1>12 DEF Lock, SenderTo
<1>13. ASSUME NEW x \in Senders, SendReturns(x) PROVE TypeOK'
  BY <1>13 DEF SendReturns, SenderTo, Unlock
<1> QED
  BY <1>1, <1>2, <1>3, <1>4, <1>5, <1>6, <1>7, <1>8, <1>9, <1>10, <1>11,
     <1>12, <1>13
  DEF Next, Application, Server, Sidecars, CallbackReturns, AllClosers

\* Serve, Close, the streams and the sends keep the types of TypeOK.
THEOREM TypeCorrect == Spec => []TypeOK
<1>1. ASSUME Init PROVE TypeOK
  <2>1. stream \in [Streams -> StreamPC] /\ closes \in [Streams -> Nat]
    BY <1>1 DEF Init, StreamPC
  <2>2. sender \in [Senders -> {"idle", "lock", "send"}]
    BY <1>1 DEF Init
  <2>3. sendMu \in [Streams -> SUBSET Senders]
    BY <1>1 DEF Init
  <2> QED BY <1>1, <2>1, <2>2, <2>3 DEF Init, TypeOK
<1>2. Init => TypeOK
  BY <1>1
<1> QED BY <1>2, TypeStep, PTL DEF Spec

-----------------------------------------------------------------------------
(* Sends: one at a time on a stream.                                       *)

\* Only Push, Lock and SendReturns touch a sender or a mutex.
LEMMA SendStep == TypeOK /\ SendInv /\ [Next]_vars => SendInv'
<1> SUFFICES ASSUME TypeOK, SendInv, [Next]_vars PROVE SendInv'
  OBVIOUS
<1> USE ServerAssumption DEF SendInv, SessionOf
<1>1. CASE UNCHANGED sendVars
  BY <1>1 DEF sendVars
<1>2. ASSUME NEW x \in Senders, Push(x) PROVE SendInv'
  BY <1>2 DEF Push, SenderTo, TypeOK
<1>3. ASSUME NEW x \in Senders, Lock(x) PROVE SendInv'
  <2> SUFFICES ASSUME NEW y \in Senders, sender'[y] = "send"
               PROVE sendMu'[SessionOf(y)] = {y}
    OBVIOUS
  <2>1. SessionOf(y) \in Streams
    BY DEF Senders
  <2>2. SessionOf(x) \in Streams
    BY DEF Senders
  <2>3. CASE y = x
    BY <1>3, <2>2, <2>3 DEF Lock, TypeOK
  <2>4. CASE y # x
    <3>1. sendMu[SessionOf(y)] = {y}
      BY <1>3, <2>4 DEF Lock, SenderTo, TypeOK
    <3>2. SessionOf(y) # SessionOf(x)
      BY <1>3, <3>1 DEF Lock, MuFree
    <3> QED BY <1>3, <2>1, <3>1, <3>2 DEF Lock, TypeOK
  <2> QED BY <2>3, <2>4
<1>4. ASSUME NEW x \in Senders, SendReturns(x) PROVE SendInv'
  <2> SUFFICES ASSUME NEW y \in Senders, sender'[y] = "send"
               PROVE sendMu'[SessionOf(y)] = {y}
    OBVIOUS
  <2>1. y # x /\ sender[y] = "send"
    BY <1>4 DEF SendReturns, SenderTo, TypeOK
  <2>2. sendMu[SessionOf(y)] = {y} /\ sendMu[SessionOf(x)] = {x}
    BY <1>4, <2>1 DEF SendReturns
  <2>3. SessionOf(y) # SessionOf(x)
    BY <2>1, <2>2
  <2> QED BY <1>4, <2>2, <2>3 DEF SendReturns, Unlock, TypeOK
<1>5. CASE ContextEnds \/ ServeStep
  BY <1>1, <1>5 DEF ContextEnds, ServeStep, Listen, LoadFails, Publish, Accept,
     AcceptEnds, ServeReturns
<1>6. ASSUME NEW c \in AllClosers, Close(c) \/ CloserStep(c) PROVE SendInv'
  BY <1>1, <1>6 DEF Close, CloserStep, CloseCheck, Stopped, CloseListener,
     OnceReturns
<1>7. ASSUME NEW s \in Streams,
             Open(s) \/ End(s) \/ First(s) \/ Recv(s) \/ RecvFails(s)
               \/ CallbackReturns(s)
      PROVE SendInv'
  BY <1>1, <1>7 DEF Open, End, First, Recv, Dispatch, RecvFails, CallbackReturns,
     Registered, FrameHandled, Closed
<1> QED
  BY <1>1, <1>2, <1>3, <1>4, <1>5, <1>6, <1>7
  DEF Next, Application, Server, Sidecars, AllClosers, vars

\* No two goroutines are in stream.Send of one stream, whoever kept the
\* Session and whatever the callbacks send.
THEOREM SendsAreSerial == Spec => []OneSendPerStream
<1>1. Init => SendInv
  BY DEF Init, SendInv
<1>2. SendInv => OneSendPerStream
  BY DEF SendInv, OneSendPerStream
<1> QED BY <1>1, <1>2, SendStep, TypeCorrect, PTL DEF Spec

-----------------------------------------------------------------------------
(* Sessions: OnRegister and OnClose in pairs.                              *)

\* Only the actions of a stream touch the stream and its histories.
LEMMA SessionStep == TypeOK /\ SessionInv /\ [Next]_vars => SessionInv'
<1> SUFFICES ASSUME TypeOK, SessionInv, [Next]_vars PROVE SessionInv'
  OBVIOUS
<1> USE DEF SessionInv
<1>1. CASE UNCHANGED streamVars
  BY <1>1 DEF streamVars
<1>2. ASSUME NEW s \in Streams, Open(s) \/ End(s) PROVE SessionInv'
  BY <1>2 DEF Open, End, TypeOK
<1>3. ASSUME NEW s \in Streams, First(s) \/ Recv(s) PROVE SessionInv'
  BY <1>3 DEF First, Recv, Dispatch, StreamTo, TypeOK
<1>4. ASSUME NEW s \in Streams, Registered(s) PROVE SessionInv'
  <2>1. s \notin accepted /\ closes[s] = 0
    BY <1>4 DEF Registered
  <2>2. CASE stream' = [stream EXCEPT ![s] = "recv"]
             /\ accepted' = accepted \cup {s} /\ closes' = closes
    BY <2>1, <2>2 DEF TypeOK
  <2>3. CASE stream' = [stream EXCEPT ![s] = "done"]
             /\ accepted' = accepted /\ closes' = [closes EXCEPT ![s] = @]
    BY <2>1, <2>3 DEF TypeOK
  <2> QED BY <1>4, <2>2, <2>3 DEF Registered, StreamTo, AfterRefusal
<1>5. ASSUME NEW s \in Streams, RecvFails(s) PROVE SessionInv'
  BY <1>5 DEF RecvFails, Leave, StreamTo, TypeOK
<1>6. ASSUME NEW s \in Streams, FrameHandled(s) PROVE SessionInv'
  BY <1>6 DEF FrameHandled, Leave, StreamTo, TypeOK
<1>7. ASSUME NEW s \in Streams, Closed(s) PROVE SessionInv'
  BY <1>7 DEF Closed, StreamTo, TypeOK
<1>8. CASE ContextEnds \/ ServeStep
  BY <1>1, <1>8 DEF ContextEnds, ServeStep, Listen, LoadFails, Publish, Accept,
     AcceptEnds, ServeReturns
<1>9. ASSUME NEW c \in AllClosers, Close(c) \/ CloserStep(c) PROVE SessionInv'
  BY <1>1, <1>9 DEF Close, CloserStep, CloseCheck, Stopped, CloseListener,
     OnceReturns
<1>10. ASSUME NEW x \in Senders, Push(x) \/ Lock(x) \/ SendReturns(x)
       PROVE SessionInv'
  BY <1>1, <1>10 DEF Push, Lock, SendReturns
<1> QED
  BY <1>1, <1>2, <1>3, <1>4, <1>5, <1>6, <1>7, <1>8, <1>9, <1>10
  DEF Next, Application, Server, Sidecars, CallbackReturns, AllClosers, vars

\* Every accepted session is closed once, every refused one never, however the
\* stream ends.
THEOREM SessionsClosedOnce == Spec => []ClosedOnce
<1>1. ASSUME Init PROVE SessionInv
  BY <1>1 DEF Init, SessionInv
<1>2. ASSUME TypeOK, SessionInv PROVE ClosedOnce
  <2> SUFFICES ASSUME NEW s \in Streams
               PROVE /\ closes[s] <= 1
                     /\ stream[s] = "done"
                            => closes[s] = IF s \in accepted THEN 1 ELSE 0
    BY DEF ClosedOnce
  <2>1. stream[s] \in {"none", "first", "OnRegister", "recv", "OnFrame",
                       "OnClose", "done"}
    BY <1>2 DEF TypeOK, StreamPC, Callbacks
  <2>2. closes[s] \in {0, 1}
    BY <1>2, <2>1 DEF SessionInv
  <2> QED BY <1>2, <2>2 DEF SessionInv
<1>3. (Init => SessionInv) /\ (TypeOK /\ SessionInv => ClosedOnce)
  BY <1>1, <1>2
<1> QED BY <1>3, SessionStep, TypeCorrect, PTL DEF Spec

-----------------------------------------------------------------------------
(* Shutdown.                                                               *)

\* What a stream does by itself opens no other, and only ends what is live.
LEMMA StreamMoves ==
    ASSUME TypeOK, NEW s \in Streams,
           First(s) \/ Recv(s) \/ RecvFails(s) \/ CallbackReturns(s) \/ End(s)
    PROVE  /\ UNCHANGED <<serveVars, closeVars>>
           /\ \A t \in Streams : /\ stream[t] = "none" => stream'[t] = "none"
                                 /\ ~Live(t) => ~Live(t)'
<1> USE DEF TypeOK, Live, StreamTo
<1>1. CASE First(s)
  BY <1>1 DEF First
<1>2. CASE Recv(s)
  BY <1>2 DEF Recv, Dispatch
<1>3. CASE RecvFails(s)
  BY <1>3 DEF RecvFails, Leave
<1>4. CASE Registered(s)
  BY <1>4 DEF Registered
<1>5. CASE FrameHandled(s)
  BY <1>5 DEF FrameHandled, Leave
<1>6. CASE Closed(s)
  BY <1>6 DEF Closed
<1>7. CASE End(s)
  BY <1>7 DEF End
<1> QED BY <1>1, <1>2, <1>3, <1>4, <1>5, <1>6, <1>7 DEF CallbackReturns

\* The steps that touch neither Serve, nor Close, nor whether a stream is open.
LEMMA ShutdownKept ==
    ASSUME ShutdownInv, UNCHANGED <<serveVars, closeVars>>,
           \A t \in Streams : /\ stream[t] = "none" => stream'[t] = "none"
                              /\ ~Live(t) => ~Live(t)'
    PROVE  ShutdownInv'
BY DEF ShutdownInv, OnceInv, Runs, PublishInv, HaltInv, StopInv, serveVars,
   closeVars

\* A step of Serve closes the listener only after a GracefulStop.
LEMMA ServeKeeps ==
    ASSUME TypeOK, ShutdownInv, ServeStep \/ ContextEnds PROVE ShutdownInv'
<1> USE DEF ShutdownInv, OnceInv, Runs, PublishInv, HaltInv, StopInv,
            closeVars, streamVars, Live
<1>1. CASE ContextEnds
  BY <1>1 DEF ContextEnds
<1>2. CASE Listen
  BY <1>2 DEF Listen
<1>3. CASE LoadFails
  BY <1>3 DEF LoadFails
<1>4. CASE Publish
  BY <1>4 DEF Publish
<1>5. CASE Accept
  BY <1>5 DEF Accept
<1>6. CASE AcceptEnds
  BY <1>6 DEF AcceptEnds
<1>7. CASE ServeReturns
  BY <1>7 DEF ServeReturns, TypeOK
<1> QED BY <1>1, <1>2, <1>3, <1>4, <1>5, <1>6, <1>7 DEF ServeStep

\* A step of Close is one of the runner of stopOnce, or of a waiter.
LEMMA CloserKeeps ==
    ASSUME TypeOK, ShutdownInv, NEW c \in AllClosers, Close(c) \/ CloserStep(c)
    PROVE  ShutdownInv'
<1> USE DEF TypeOK, ShutdownInv, OnceInv, Runs, CloserTo
<1>1. CASE Close(c)
  <2>1. OnceInv'
    BY <1>1 DEF Close, WhileOnceIsBusy
  <2>2. PublishInv' /\ StopInv'
    BY <1>1 DEF Close, PublishInv, HaltInv, StopInv, serveVars, streamVars, Live
  <2>3. HaltInv'
    BY <1>1 DEF Close, HaltInv, WhileOnceIsBusy, serveVars
  <2> QED BY <2>1, <2>2, <2>3
<1>2. CASE CloseCheck(c)
  <2>1. once = "busy" /\ halt = "no"
    BY <1>2 DEF CloseCheck, HaltInv
  <2>2. OnceInv'
    BY <1>2 DEF CloseCheck
  <2>3. PublishInv'
    BY <1>2 DEF CloseCheck, PublishInv, streamVars
  <2>4. HaltInv'
    BY <1>2, <2>1 DEF CloseCheck, HaltInv
  <2>5. StopInv'
    BY <1>2, <2>1 DEF CloseCheck, PublishInv, HaltInv, StopInv, streamVars, Live
  <2> QED BY <2>2, <2>3, <2>4, <2>5
<1>3. CASE Stopped(c)
  <2>1. once = "busy"
    BY <1>3 DEF Stopped
  <2>2. OnceInv'
    BY <1>3 DEF Stopped
  <2>3. PublishInv'
    BY <1>3 DEF Stopped, PublishInv, streamVars
  <2>4. HaltInv'
    BY <1>3, <2>1 DEF Stopped, HaltInv
  <2>5. StopInv'
    BY <1>3, <2>1 DEF Stopped, Drained, StopInv, HaltInv, streamVars, Live
  <2> QED BY <2>2, <2>3, <2>4, <2>5
<1>4. CASE CloseListener(c)
  <2>1. once = "busy"
    BY <1>4 DEF CloseListener
  <2>2. OnceInv'
    BY <1>4, <2>1 DEF CloseListener
  <2>3. PublishInv'
    BY <1>4 DEF CloseListener, PublishInv, streamVars
  <2>4. HaltInv'
    BY <1>4, <2>1 DEF CloseListener, HaltInv
  <2>5. StopInv'
    BY <1>4, <2>1 DEF CloseListener, StopInv, HaltInv, PublishInv, streamVars,
       Live
  <2> QED BY <2>2, <2>3, <2>4, <2>5
<1>5. CASE OnceReturns(c)
  <2>1. OnceInv'
    BY <1>5 DEF OnceReturns
  <2>2. HaltInv'
    BY <1>5 DEF OnceReturns, HaltInv, serveVars
  <2>3. PublishInv' /\ StopInv'
    BY <1>5 DEF OnceReturns, PublishInv, StopInv, serveVars, streamVars, Live
  <2> QED BY <2>1, <2>2, <2>3
<1> QED BY <1>1, <1>2, <1>3, <1>4, <1>5 DEF CloserStep

\* A stream opens only while the server accepts, or next to another one.
LEMMA OpenKeeps ==
    ASSUME TypeOK, ShutdownInv, NEW s \in Streams, Open(s) PROVE ShutdownInv'
<1>1. UNCHANGED <<serveVars, closeVars>> /\ halt # "stopped"
  BY DEF Open, ShutdownInv, TypeOK
<1>2. (serve = "accepting" /\ halt = "no") \/ \E t \in Streams : stream[t] # "none"
  BY DEF Open
<1>3. PublishInv'
  BY <1>1, <1>2 DEF ShutdownInv, PublishInv, serveVars
<1>4. StopInv'
  BY <1>1, <1>2 DEF ShutdownInv, StopInv, serveVars, closeVars
<1>5. OnceInv' /\ HaltInv'
  BY <1>1 DEF ShutdownInv, OnceInv, Runs, HaltInv, serveVars, closeVars
<1> QED BY <1>3, <1>4, <1>5 DEF ShutdownInv

\* Every step of the system keeps the invariant of the shutdown.
LEMMA ShutdownStep == TypeOK /\ ShutdownInv /\ [Next]_vars => ShutdownInv'
<1> SUFFICES ASSUME TypeOK, ShutdownInv, [Next]_vars PROVE ShutdownInv'
  OBVIOUS
<1>1. CASE UNCHANGED <<serveVars, closeVars, streamVars>>
  BY <1>1, ShutdownKept DEF streamVars, Live
<1>2. CASE ServeStep \/ ContextEnds
  BY <1>2, ServeKeeps
<1>3. ASSUME NEW c \in AllClosers, Close(c) \/ CloserStep(c) PROVE ShutdownInv'
  BY <1>3, CloserKeeps
<1>4. ASSUME NEW s \in Streams, Open(s) PROVE ShutdownInv'
  BY <1>4, OpenKeeps
<1>5. ASSUME NEW s \in Streams,
             First(s) \/ Recv(s) \/ RecvFails(s) \/ CallbackReturns(s) \/ End(s)
      PROVE ShutdownInv'
  BY <1>5, StreamMoves, ShutdownKept
<1>6. ASSUME NEW x \in Senders, Push(x) \/ Lock(x) \/ SendReturns(x)
      PROVE ShutdownInv'
  BY <1>1, <1>6 DEF Push, Lock, SendReturns
<1> QED
  BY <1>1, <1>2, <1>3, <1>4, <1>5, <1>6
  DEF Next, Application, Server, Sidecars, AllClosers, vars

\* After a Close that found the server, and after the Serve it stopped, no
\* callback runs, no stream opens and the listener is closed: also for a
\* Close that came while another was stopping.
THEOREM ClosedIsQuiet == Spec => []QuietAfterClose
<1>1. ASSUME Init PROVE ShutdownInv
  BY <1>1 DEF Init, ShutdownInv, OnceInv, Runs, PublishInv, HaltInv, StopInv, Live
<1>2. ASSUME TypeOK, ShutdownInv PROVE QuietAfterClose
  <2> SUFFICES ASSUME halt # "no",
                      serve = "returned"
                        \/ \E c \in AllClosers : closer[c] = "returned"
               PROVE  lis = "closed" /\ \A s \in Streams : ~Live(s)
    BY DEF QuietAfterClose
  <2>1. CASE halt = "stopped"
    BY <1>2, <2>1 DEF ShutdownInv, OnceInv, HaltInv, StopInv
  <2>2. CASE halt = "draining"
    <3>1. serve = "returned"
      BY <1>2, <2>2 DEF ShutdownInv, OnceInv, HaltInv
    <3> QED BY <1>2, <2>2, <3>1 DEF ShutdownInv, HaltInv, StopInv, Live
  <2> QED BY <1>2, <2>1, <2>2 DEF TypeOK
<1>3. (Init => ShutdownInv) /\ (TypeOK /\ ShutdownInv => QuietAfterClose)
  BY <1>1, <1>2
<1> QED BY <1>3, ShutdownStep, TypeCorrect, PTL DEF Spec

-----------------------------------------------------------------------------
(* Whoever waits, waits in the end for a Sidecar.                          *)

\* Only Push, Lock and SendReturns touch a sender or a mutex, and a callback
\* returns when it does not send.
LEMMA HolderStep == TypeOK /\ HolderInv /\ [Next]_vars => HolderInv'
<1> SUFFICES ASSUME TypeOK, HolderInv, [Next]_vars PROVE HolderInv'
  OBVIOUS
<1> USE ServerAssumption DEF HolderInv
<1>0. ASSUME NEW x \in Senders PROVE SessionOf(x) \in Streams
  BY DEF SessionOf, Senders
<1>1. CASE UNCHANGED <<sendVars, streamVars>>
  BY <1>1 DEF sendVars, streamVars, SessionOf
<1>2. ASSUME NEW x \in Senders, Push(x) PROVE HolderInv'
  <2> SUFFICES ASSUME NEW s \in Streams
               PROVE  /\ \A y \in sendMu'[s] : /\ sender'[y] = "send"
                                               /\ SessionOf(y) = s
                      /\ sender'[s] # "idle" => stream'[s] \in Callbacks
    BY DEF SessionOf
  <2>1. sender' = [sender EXCEPT ![x] = "lock"] /\ sender[x] = "idle"
        /\ sendMu' = sendMu /\ stream' = stream
    BY <1>2 DEF Push, SenderTo, streamVars
  <2>2. x = s => stream[s] \in Callbacks
    BY <1>2 DEF Push
  <2>3. \A y \in sendMu[s] : y # x /\ y \in Senders
    BY <2>1 DEF TypeOK
  <2>4. s \in Senders
    BY DEF Senders
  <2> QED BY <2>1, <2>2, <2>3, <2>4 DEF TypeOK
<1>3. ASSUME NEW x \in Senders, Lock(x) PROVE HolderInv'
  <2> SUFFICES ASSUME NEW s \in Streams
               PROVE  /\ \A y \in sendMu'[s] : /\ sender'[y] = "send"
                                               /\ SessionOf(y) = s
                      /\ sender'[s] # "idle" => stream'[s] \in Callbacks
    BY DEF SessionOf
  <2>1. /\ sender' = [sender EXCEPT ![x] = "send"] /\ sender[x] = "lock"
        /\ sendMu' = [sendMu EXCEPT ![SessionOf(x)] = {x}]
        /\ stream' = stream
    BY <1>3 DEF Lock, SenderTo, streamVars
  <2>2. \A y \in sendMu[s] : y # x /\ y \in Senders
    BY <2>1 DEF TypeOK
  <2>3. s \in Senders
    BY DEF Senders
  <2>4. CASE s = SessionOf(x)
    BY <1>0, <2>1, <2>3, <2>4 DEF TypeOK
  <2>5. CASE s # SessionOf(x)
    BY <2>1, <2>2, <2>3, <2>5 DEF TypeOK
  <2> QED BY <2>4, <2>5
<1>4. ASSUME NEW x \in Senders, SendReturns(x) PROVE HolderInv'
  <2> SUFFICES ASSUME NEW s \in Streams
               PROVE  /\ \A y \in sendMu'[s] : /\ sender'[y] = "send"
                                               /\ SessionOf(y) = s
                      /\ sender'[s] # "idle" => stream'[s] \in Callbacks
    BY DEF SessionOf
  <2>1. /\ sender' = [sender EXCEPT ![x] = "idle"]
        /\ sendMu' = [sendMu EXCEPT ![SessionOf(x)] = {}]
        /\ stream' = stream
    BY <1>4 DEF SendReturns, SenderTo, Unlock, streamVars
  <2>2. \A y \in sendMu'[s] : y \in sendMu[s] /\ s # SessionOf(x)
    BY <2>1 DEF TypeOK
  <2>3. \A y \in sendMu'[s] : y # x /\ y \in Senders
    BY <2>2 DEF TypeOK
  <2>4. s \in Senders
    BY DEF Senders
  <2> QED BY <2>1, <2>2, <2>3, <2>4 DEF TypeOK
<1>5. CASE ContextEnds \/ ServeStep
  BY <1>1, <1>5 DEF ContextEnds, ServeStep, Listen, LoadFails, Publish, Accept,
     AcceptEnds, ServeReturns
<1>6. ASSUME NEW c \in AllClosers, Close(c) \/ CloserStep(c) PROVE HolderInv'
  BY <1>1, <1>6 DEF Close, CloserStep, CloseCheck, Stopped, CloseListener,
     OnceReturns
<1>7. ASSUME NEW s \in Streams,
             Open(s) \/ End(s) \/ First(s) \/ Recv(s) \/ RecvFails(s)
               \/ CallbackReturns(s)
      PROVE HolderInv'
  <2>1. UNCHANGED <<sender, sendMu>>
    BY <1>7 DEF Open, End, First, Recv, Dispatch, RecvFails, CallbackReturns, Registered,
       FrameHandled, Closed, sendVars
  <2>2. \A t \in Streams : stream'[t] # stream[t] => t = s
    BY <1>7 DEF Open, End, First, Recv, Dispatch, RecvFails, CallbackReturns, Registered,
       FrameHandled, Closed, Leave, StreamTo, TypeOK
  <2>3. stream[s] \in Callbacks /\ stream' # stream => sender[s] = "idle"
    BY <1>7 DEF Open, End, First, Recv, Dispatch, RecvFails, CallbackReturns, Registered,
       FrameHandled, Closed, Callbacks
  <2> QED BY <2>1, <2>2, <2>3 DEF SessionOf
<1> QED
  BY <1>1, <1>2, <1>3, <1>4, <1>5, <1>6, <1>7
  DEF Next, Application, Server, Sidecars, AllClosers, vars

\* The runner of stopOnce is done when once is; GracefulStop is when its caller
\* goes on.
LEMMA RunnerStep ==
    TypeOK /\ ShutdownInv /\ RunnerInv /\ [Next]_vars => RunnerInv'
<1> SUFFICES ASSUME TypeOK, ShutdownInv, RunnerInv, [Next]_vars
             PROVE  RunnerInv'
  OBVIOUS
<1> USE DEF RunnerInv, Runs
<1>1. CASE UNCHANGED <<once, closer, halt>>
  BY <1>1
<1>2. ASSUME NEW c \in AllClosers, Close(c) PROVE RunnerInv'
  BY <1>2 DEF Close, CloserTo, WhileOnceIsBusy, serveVars, ShutdownInv, HaltInv,
     TypeOK
<1>3. ASSUME NEW c \in AllClosers, CloseCheck(c) PROVE RunnerInv'
  BY <1>3 DEF CloseCheck, CloserTo, ShutdownInv, HaltInv, TypeOK
<1>4. ASSUME NEW c \in AllClosers, Stopped(c) PROVE RunnerInv'
  BY <1>4 DEF Stopped, CloserTo, TypeOK
<1>5. ASSUME NEW c \in AllClosers, CloseListener(c) PROVE RunnerInv'
  BY <1>5 DEF CloseListener, CloserTo, ShutdownInv, HaltInv, TypeOK
<1>6. ASSUME NEW c \in AllClosers, OnceReturns(c) PROVE RunnerInv'
  BY <1>6 DEF OnceReturns, CloserTo, serveVars, TypeOK
<1>7. CASE ContextEnds \/ ServeStep
  BY <1>1, <1>7 DEF ContextEnds, ServeStep, Listen, LoadFails, Publish, Accept,
     AcceptEnds, ServeReturns, closeVars
<1>8. ASSUME NEW s \in Streams,
             Open(s) \/ End(s) \/ First(s) \/ Recv(s) \/ RecvFails(s)
               \/ CallbackReturns(s)
      PROVE RunnerInv'
  BY <1>1, <1>8 DEF Open, End, First, Recv, Dispatch, RecvFails, CallbackReturns,
     Registered, FrameHandled, Closed, closeVars, serveVars
<1>9. ASSUME NEW x \in Senders, Push(x) \/ Lock(x) \/ SendReturns(x)
      PROVE RunnerInv'
  BY <1>1, <1>9 DEF Push, Lock, SendReturns, closeVars, serveVars
<1> QED
  BY <1>1, <1>2, <1>3, <1>4, <1>5, <1>6, <1>7, <1>8, <1>9
  DEF Next, Application, Server, Sidecars, AllClosers, CloserStep, vars,
      closeVars, serveVars

\* A goroutine that sends, or waits to, and cannot step has a Sidecar in its
\* way: the one of the holder of the mutex.
LEMMA SendersWaitForSidecars ==
    ASSUME TypeOK, HolderInv, ~MayStep, NEW x \in Senders, sender[x] # "idle"
    PROVE  \E s \in Streams : HeldBySidecar(s)
<1> USE ServerAssumption
<1>0. ASSUME NEW y \in Senders PROVE SessionOf(y) \in Streams
  BY DEF SessionOf, Senders
<1>1. ASSUME NEW y \in Senders, sender[y] = "send"
      PROVE  HeldBySidecar(SessionOf(y))
  BY <1>1 DEF MayStep, Over, HeldBySidecar
<1>2. CASE sender[x] = "lock"
  <2>1. PICK y \in sendMu[SessionOf(x)] : TRUE
    BY <1>2 DEF MayStep, MuFree
  <2>2. y \in Senders /\ sender[y] = "send"
    BY <1>0, <2>1 DEF TypeOK, HolderInv
  <2> QED BY <1>0, <1>1, <2>2
<1> QED BY <1>0, <1>1, <1>2 DEF TypeOK

\* So has a stream that is open and cannot step.
LEMMA StreamsWaitForSidecars ==
    ASSUME TypeOK, HolderInv, ~MayStep, NEW s \in Streams, Live(s)
    PROVE  \E t \in Streams : HeldBySidecar(t)
<1>1. CASE stream[s] \in {"first", "recv"}
  BY <1>1 DEF MayStep, HeldBySidecar
<1>2. CASE stream[s] \in Callbacks
  <2>1. sender[s] # "idle" /\ s \in Senders
    BY <1>2 DEF MayStep, Senders
  <2> QED BY <2>1, SendersWaitForSidecars
<1> QED BY <1>1, <1>2 DEF TypeOK, StreamPC, Live

\* When no stream is open and no send under way, Close and Serve do not wait:
\* the function of stopOnce has its runner, and GracefulStop its end.
LEMMA StopsAreNotStuck ==
    ASSUME TypeOK, ShutdownInv, RunnerInv, ~MayStep,
           \A s \in Streams : ~Live(s)
    PROVE  /\ \A c \in AllClosers : closer[c] \in {"idle", "returned"}
           /\ ~Quitting
           /\ halt # "no" => serve = "returned"
<1>1. halt # "no" => serve # "accepting"
  BY DEF MayStep, ShutdownInv, StopInv
<1>2. \A c \in AllClosers : ~Runs(c)
  <2> SUFFICES ASSUME NEW c \in AllClosers, Runs(c) PROVE FALSE
    OBVIOUS
  <2>1. closer[c] = "graceful"
    BY DEF Runs, MayStep
  <2>2. halt = "draining"
    BY <2>1 DEF ShutdownInv, HaltInv
  <2> QED BY <1>1, <2>1, <2>2 DEF MayStep, Drained
<1>3. once # "busy" /\ halt # "draining"
  BY <1>2 DEF RunnerInv, Runs
<1>4. \A c \in AllClosers : closer[c] \in {"idle", "returned"}
  BY <1>2, <1>3 DEF Runs, RunnerInv, MayStep, TypeOK
<1>5. ~Quitting
  <2>1. once = "fresh" => closer[Watcher] = "idle"
    BY DEF RunnerInv, AllClosers
  <2> QED BY <1>3, <2>1 DEF Quitting, MayStep, Called
<1>6. halt # "no" => serve = "returned"
  BY <1>1, <1>3 DEF MayStep, TypeOK
<1> QED BY <1>4, <1>5, <1>6

\* For any number of streams, closers and goroutines that kept a Session, a
\* server in which something is under way and no goroutine's guard holds has a
\* Sidecar that keeps its stream: the goroutines never wait in a ring.
THEOREM OnlySidecarsHold == Spec => []OnlySidecarsAreWaitedFor
<1>1. ASSUME Init PROVE ShutdownInv /\ HolderInv /\ RunnerInv
  <2>1. ShutdownInv
    BY <1>1 DEF Init, ShutdownInv, OnceInv, Runs, PublishInv, HaltInv, StopInv,
       Live
  <2>2. HolderInv
    BY <1>1 DEF Init, HolderInv, Senders
  <2> QED BY <1>1, <2>1, <2>2 DEF Init, RunnerInv
<1>2. ASSUME TypeOK, ShutdownInv, HolderInv, RunnerInv
      PROVE  OnlySidecarsAreWaitedFor
  <2> SUFFICES ASSUME UnderWay, ~MayStep
               PROVE  \E s \in Streams : HeldBySidecar(s)
    BY DEF OnlySidecarsAreWaitedFor
  <2>1. CASE \E x \in Senders : sender[x] # "idle"
    BY <1>2, <2>1, SendersWaitForSidecars
  <2>2. CASE \E s \in Streams : Live(s)
    BY <1>2, <2>2, StreamsWaitForSidecars
  <2>3. CASE \A s \in Streams : ~Live(s)
    BY <1>2, <2>1, <2>3, StopsAreNotStuck DEF UnderWay
  <2> QED BY <2>2, <2>3
<1>3. /\ Init => ShutdownInv /\ HolderInv /\ RunnerInv
      /\ TypeOK /\ ShutdownInv /\ HolderInv /\ RunnerInv
             => OnlySidecarsAreWaitedFor
  BY <1>1, <1>2
<1> QED
  BY <1>3, TypeCorrect, ShutdownStep, HolderStep, RunnerStep, PTL DEF Spec

-----------------------------------------------------------------------------
(* The server keeps the promise of SessionPromise: step by step, it takes a *)
(* step of the promise or one that the Handler and the Sessions do not see. *)

\* A goroutine that kept a Session has it from an OnRegister.
KeptInv ==
    \A x \in Pushers :
        sender[x] # "idle" => stream[Kept[x]] \notin {"none", "first"}

\* A stream that has got to OnRegister does not go back.
LEMMA KeptStep == TypeOK /\ KeptInv /\ [Next]_vars => KeptInv'
<1> SUFFICES ASSUME TypeOK, KeptInv, [Next]_vars PROVE KeptInv'
  OBVIOUS
<1> USE ServerAssumption DEF KeptInv
<1>1. CASE UNCHANGED <<sender, stream>>
  BY <1>1
<1>2. ASSUME NEW x \in Senders, Push(x) PROVE KeptInv'
  BY <1>2 DEF Push, SenderTo, streamVars, TypeOK
<1>3. ASSUME NEW x \in Senders, Lock(x) \/ SendReturns(x) PROVE KeptInv'
  <2>1. stream' = stream /\ sender[x] # "idle"
    BY <1>3 DEF Lock, SendReturns, streamVars
  <2>2. \A y \in Senders : y # x => sender'[y] = sender[y]
    BY <1>3 DEF Lock, SendReturns, SenderTo, TypeOK
  <2>3. Pushers \subseteq Senders
    BY DEF Senders
  <2> QED BY <2>1, <2>2, <2>3
<1>4. CASE ContextEnds \/ ServeStep
  BY <1>1, <1>4 DEF ContextEnds, ServeStep, Listen, LoadFails, Publish, Accept,
     AcceptEnds, ServeReturns, sendVars, streamVars
<1>5. ASSUME NEW c \in AllClosers, Close(c) \/ CloserStep(c) PROVE KeptInv'
  BY <1>1, <1>5 DEF Close, CloserStep, CloseCheck, Stopped, CloseListener,
     OnceReturns, sendVars, streamVars
<1>6. ASSUME NEW s \in Streams,
             Open(s) \/ End(s) \/ First(s) \/ Recv(s) \/ RecvFails(s)
               \/ CallbackReturns(s)
      PROVE KeptInv'
  <2>1. sender' = sender
    BY <1>6 DEF Open, End, First, Recv, Dispatch, RecvFails, CallbackReturns, Registered,
       FrameHandled, Closed, sendVars
  <2>2. \A t \in Streams : stream[t] \notin {"none", "first"}
                               => stream'[t] \notin {"none", "first"}
    BY <1>6 DEF Open, End, First, Recv, Dispatch, RecvFails, CallbackReturns, Registered,
       FrameHandled, Closed, Leave, StreamTo, AfterRefusal, TypeOK
  <2> QED BY <2>1, <2>2
<1> QED
  BY <1>1, <1>2, <1>3, <1>4, <1>5, <1>6
  DEF Next, Application, Server, Sidecars, AllClosers, vars, sendVars,
      streamVars

LEMMA PromiseInit == Init => Promise!Init
<1> SUFFICES ASSUME Init PROVE Promise!Init
  OBVIOUS
<1>1. [s \in Streams |-> RunningIn(stream[s])] = [s \in Streams |-> "none"]
  BY DEF Init, RunningIn, Callbacks
<1>2. [s \in Streams |-> StateIn(stream[s])] = [s \in Streams |-> "new"]
  BY DEF Init, StateIn
<1>3. [s \in Streams |-> InSend(s)] = [s \in Streams |-> {}]
  BY DEF Init, InSend
<1>4. HasStopped = FALSE
  BY DEF Init, HasStopped
<1> QED BY <1>1, <1>2, <1>3, <1>4 DEF Promise!Init

\* The mapping of a step of one stream, when nothing else is disturbed.
LEMMA TurnIsTurn ==
    ASSUME TypeOK, NEW s \in Streams, NEW pc, StreamTo(s, pc),
           UNCHANGED <<serve, halt, closer, sender>>
    PROVE  Promise!Turn(s, RunningIn(pc), StateIn(pc))
<1>0. stream' = [stream EXCEPT ![s] = pc] /\ stream \in [Streams -> StreamPC]
  BY DEF StreamTo, TypeOK
<1>1. [t \in Streams |-> RunningIn(stream'[t])]
      = [[t \in Streams |-> RunningIn(stream[t])] EXCEPT ![s] = RunningIn(pc)]
  BY <1>0
<1>2. [t \in Streams |-> StateIn(stream'[t])]
      = [[t \in Streams |-> StateIn(stream[t])] EXCEPT ![s] = StateIn(pc)]
  BY <1>0
<1>3. [t \in Streams |-> InSend(t)]' = [t \in Streams |-> InSend(t)]
  BY DEF InSend, SessionOf
<1>4. HasStopped' = HasStopped
  BY DEF HasStopped
<1> QED BY <1>1, <1>2, <1>3, <1>4 DEF Promise!Turn

\* Where a stream is in the promise.
LEMMA BetweenIsBetween ==
    ASSUME NEW s \in Streams, sender[s] = "idle"
    PROVE  /\ \A c : Promise!Between(s, c) <=> RunningIn(stream[s]) = c
           /\ [t \in Streams |-> StateIn(stream[t])][s] = StateIn(stream[s])
BY DEF Promise!Between, InSend

LEMMA PlaceOf ==
    /\ RunningIn("none") = "none" /\ StateIn("none") = "new"
    /\ RunningIn("first") = "none" /\ StateIn("first") = "new"
    /\ RunningIn("OnRegister") = "OnRegister" /\ StateIn("OnRegister") = "new"
    /\ RunningIn("recv") = "none" /\ StateIn("recv") = "open"
    /\ RunningIn("OnFrame") = "OnFrame" /\ StateIn("OnFrame") = "open"
    /\ RunningIn("OnClose") = "OnClose" /\ StateIn("OnClose") = "over"
    /\ RunningIn("done") = "none" /\ StateIn("done") = "over"
BY DEF RunningIn, StateIn, Callbacks

\* Steps that the promise does not see.
LEMMA UnseenKeeps ==
    ASSUME UNCHANGED <<serve, halt, closer>>,
           \A s \in Streams : /\ RunningIn(stream[s])' = RunningIn(stream[s])
                              /\ StateIn(stream[s])' = StateIn(stream[s]),
           \A x \in Senders : (sender'[x] = "send") = (sender[x] = "send")
    PROVE  UNCHANGED Promise!vars
<1>1. [s \in Streams |-> InSend(s)]' = [s \in Streams |-> InSend(s)]
  BY DEF InSend, SessionOf
<1>2. HasStopped' = HasStopped
  BY DEF HasStopped
<1> QED BY <1>1, <1>2 DEF Promise!vars

\* A step of Serve or of Close at which the server has stopped is the Stop of
\* the promise, any other is not seen.
LEMMA StopIsStop ==
    ASSUME QuietAfterClose', HasStopped => HasStopped',
           UNCHANGED <<stream, sender>>
    PROVE  Promise!Stop \/ UNCHANGED Promise!vars
<1>1. /\ [s \in Streams |-> RunningIn(stream[s])]'
             = [s \in Streams |-> RunningIn(stream[s])]
      /\ [s \in Streams |-> StateIn(stream[s])]'
             = [s \in Streams |-> StateIn(stream[s])]
      /\ [s \in Streams |-> InSend(s)]' = [s \in Streams |-> InSend(s)]
  BY DEF InSend, SessionOf
<1>2. CASE HasStopped' = HasStopped
  BY <1>1, <1>2 DEF Promise!vars
<1>3. CASE HasStopped'
  <2>1. \A s \in Streams : stream[s] \in {"none", "done"}
    BY <1>3 DEF HasStopped, QuietAfterClose, Live
  <2>2. \A s \in Streams : RunningIn(stream[s]) = "none"
                           /\ StateIn(stream[s]) # "open"
    BY <2>1, PlaceOf
  <2> QED BY <1>1, <1>3, <2>2 DEF Promise!Stop
<1>4. HasStopped \in BOOLEAN /\ HasStopped' \in BOOLEAN
  BY DEF HasStopped
<1> QED BY <1>2, <1>3, <1>4

\* Nothing takes a stop back.
LEMMA StopStays ==
    ASSUME TypeOK, HasStopped,
           \/ ServeStep \/ ContextEnds
           \/ \E c \in AllClosers : Close(c) \/ CloserStep(c)
    PROVE  HasStopped' /\ UNCHANGED <<stream, sender>>
<1>1. CASE ServeStep \/ ContextEnds
  BY <1>1 DEF ServeStep, ContextEnds, Listen, LoadFails, Publish, Accept,
     AcceptEnds, ServeReturns, closeVars, streamVars, sendVars, HasStopped
<1>2. ASSUME NEW c \in AllClosers, Close(c) \/ CloserStep(c)
      PROVE  HasStopped' /\ UNCHANGED <<stream, sender>>
  <2>1. /\ serve' = serve /\ (halt # "no" => halt' # "no")
        /\ UNCHANGED <<stream, sender>>
    BY <1>2 DEF Close, CloserStep, CloseCheck, Stopped, CloseListener,
       OnceReturns, serveVars, streamVars, sendVars
  <2>2. \A d \in AllClosers : closer[d] = "returned" => closer'[d] = "returned"
    BY <1>2 DEF Close, CloserStep, CloseCheck, Stopped, CloseListener,
       OnceReturns, CloserTo, TypeOK
  <2> QED BY <2>1, <2>2 DEF HasStopped
<1> QED BY <1>1, <1>2

LEMMA StopStepIsPromised ==
    ASSUME TypeOK, QuietAfterClose',
           \/ ServeStep \/ ContextEnds
           \/ \E c \in AllClosers : Close(c) \/ CloserStep(c)
    PROVE  Promise!Next \/ UNCHANGED Promise!vars
<1>1. UNCHANGED <<stream, sender>>
  BY DEF ServeStep, ContextEnds, Listen, LoadFails, Publish, Accept,
     AcceptEnds, ServeReturns, Close, CloserStep, CloseCheck, Stopped,
     CloseListener, OnceReturns, streamVars, sendVars
<1> QED BY <1>1, StopStays, StopIsStop DEF Promise!Next

\* The steps of a stream are callbacks, or are not seen.
LEMMA StreamStepIsPromised ==
    ASSUME TypeOK, QuietAfterClose, HolderInv, NEW s \in Streams,
           Open(s) \/ End(s) \/ First(s) \/ Recv(s) \/ RecvFails(s)
             \/ CallbackReturns(s)
    PROVE  Promise!Next \/ UNCHANGED Promise!vars
<1>1. UNCHANGED <<serve, halt, closer, sender>>
  BY DEF Open, End, First, Recv, Dispatch, RecvFails, CallbackReturns, Registered,
     FrameHandled, Closed, serveVars, closeVars, sendVars
<1>2. stream[s] \notin Callbacks => sender[s] = "idle"
  BY DEF HolderInv
<1>3. ASSUME NEW pc, StreamTo(s, pc)
      PROVE  Promise!Turn(s, RunningIn(pc), StateIn(pc))
  BY <1>1, <1>3, TurnIsTurn
<1>4. ASSUME sender[s] = "idle"
      PROVE  /\ \A c : Promise!Between(s, c) <=> RunningIn(stream[s]) = c
             /\ [t \in Streams |-> StateIn(stream[t])][s] = StateIn(stream[s])
  BY <1>4, BetweenIsBetween
<1> USE PlaceOf
<1>5. CASE UNCHANGED stream
  BY <1>1, <1>5, UnseenKeeps
<1>6. CASE Open(s)
  <2>1. stream' = [stream EXCEPT ![s] = "first"] /\ stream[s] = "none"
    BY <1>6 DEF Open
  <2>2. \A t \in Streams : /\ RunningIn(stream[t])' = RunningIn(stream[t])
                           /\ StateIn(stream[t])' = StateIn(stream[t])
    BY <2>1 DEF TypeOK
  <2> QED BY <1>1, <2>2, UnseenKeeps
<1>7. CASE End(s)
  BY <1>5, <1>7 DEF End
<1>8. CASE First(s)
  <2>1. stream[s] = "first" /\ sender[s] = "idle"
    BY <1>2, <1>8 DEF First, Callbacks
  <2>2. Promise!Between(s, "none")
        /\ [t \in Streams |-> StateIn(stream[t])][s] = "new"
    BY <1>4, <2>1
  <2>3. ~HasStopped
    BY <2>1 DEF HasStopped, QuietAfterClose, Live
  <2>4. CASE StreamTo(s, "OnRegister")
    <3>1. Promise!Turn(s, "OnRegister", "new")
      BY <1>3, <2>4
    <3> QED BY <2>2, <2>3, <3>1 DEF Promise!OnRegister, Promise!Next
  <2>5. CASE StreamTo(s, "done")
    <3>1. Promise!Turn(s, "none", "over")
      BY <1>3, <2>5
    <3> QED BY <2>2, <3>1 DEF Promise!NoRegister, Promise!Next
  <2> QED BY <1>8, <2>4, <2>5 DEF First
<1>9. CASE Registered(s)
  <2>1. Promise!Between(s, "OnRegister")
    BY <1>4, <1>9 DEF Registered
  <2>2. Promise!Turn(s, "none", "open") \/ Promise!Turn(s, "none", "over")
    BY <1>3, <1>9 DEF Registered, AfterRefusal
  <2> QED BY <2>1, <2>2 DEF Promise!Registered, Promise!Next
<1>10. CASE Recv(s)
  <2>1. stream[s] = "recv" /\ sender[s] = "idle"
    BY <1>2, <1>10 DEF Recv, Dispatch, Callbacks
  <2>2. Promise!Between(s, "none")
        /\ [t \in Streams |-> StateIn(stream[t])][s] = "open"
    BY <1>4, <2>1
  <2>3. CASE StreamTo(s, "OnFrame")
    <3>1. Promise!Turn(s, "OnFrame", "open")
      BY <1>3, <2>3
    <3> QED BY <2>2, <3>1 DEF Promise!OnFrame, Promise!Next
  <2> QED BY <1>5, <1>10, <2>3 DEF Recv, Dispatch
<1>11. CASE RecvFails(s)
  <2>1. stream[s] = "recv" /\ sender[s] = "idle"
    BY <1>2, <1>11 DEF RecvFails, Callbacks
  <2>2. Promise!Between(s, "none")
        /\ [t \in Streams |-> StateIn(stream[t])][s] = "open"
    BY <1>4, <2>1
  <2>3. Promise!Turn(s, "OnClose", "over")
    BY <1>3, <1>11 DEF RecvFails, Leave
  <2> QED BY <2>2, <2>3 DEF Promise!OnClose, Promise!Next
<1>12. CASE FrameHandled(s)
  <2>1. Promise!Between(s, "OnFrame")
        /\ [t \in Streams |-> StateIn(stream[t])][s] = "open"
    BY <1>4, <1>12 DEF FrameHandled
  <2>2. Promise!Turn(s, "none", "open") \/ Promise!Turn(s, "OnClose", "over")
    BY <1>3, <1>12 DEF FrameHandled, Leave
  <2> QED BY <2>1, <2>2 DEF Promise!Handled, Promise!OnClose, Promise!Next
<1>13. CASE Closed(s)
  <2>1. Promise!Between(s, "OnClose")
    BY <1>4, <1>13 DEF Closed
  <2>2. Promise!Turn(s, "none", "over")
    BY <1>3, <1>13 DEF Closed
  <2> QED BY <2>1, <2>2 DEF Promise!Closed, Promise!Next
<1> QED
  BY <1>6, <1>7, <1>8, <1>9, <1>10, <1>11, <1>12, <1>13 DEF CallbackReturns

\* The steps of a send: it begins when the mutex is taken, and ends with it.
LEMMA SendStepIsPromised ==
    ASSUME TypeOK, SendInv, HolderInv, KeptInv, NEW x \in Senders,
           Push(x) \/ Lock(x) \/ SendReturns(x)
    PROVE  Promise!Next \/ UNCHANGED Promise!vars
<1> USE ServerAssumption
<1>1. PICK s \in Streams : s = SessionOf(x)
  BY DEF SessionOf, Senders
<1>2. UNCHANGED <<serve, halt, closer, stream>>
  BY DEF Push, Lock, SendReturns, serveVars, closeVars, streamVars
<1>3. /\ [t \in Streams |-> RunningIn(stream[t])]'
             = [t \in Streams |-> RunningIn(stream[t])]
      /\ [t \in Streams |-> StateIn(stream[t])]'
             = [t \in Streams |-> StateIn(stream[t])]
      /\ HasStopped' = HasStopped
  BY <1>2 DEF HasStopped
<1>4. CASE Push(x)
  <2>1. \A y \in Senders : (sender'[y] = "send") = (sender[y] = "send")
    BY <1>4 DEF Push, SenderTo, TypeOK
  <2> QED BY <1>2, <2>1, UnseenKeeps
<1>5. CASE Lock(x)
  <2>1. sender' = [sender EXCEPT ![x] = "send"] /\ sender[x] = "lock"
    BY <1>5 DEF Lock, SenderTo
  <2>2. InSend(s) = {}
    BY <1>1, <1>5 DEF Lock, MuFree, InSend, SendInv
  <2>3. InSend(s)' = {x}
    BY <1>1, <2>1, <2>2 DEF InSend, SessionOf, TypeOK
  <2>4. \A t \in Streams : t # s => InSend(t)' = InSend(t)
    BY <1>1, <2>1 DEF InSend, SessionOf, TypeOK
  <2>5. [t \in Streams |-> InSend(t)]'
        = [[t \in Streams |-> InSend(t)] EXCEPT ![s] = {x}]
    BY <2>3, <2>4
  <2>6. CASE x = s
    <3>1. stream[s] \in Callbacks
      BY <2>1, <2>6 DEF HolderInv
    <3>2. RunningIn(stream[s]) # "none"
      BY <3>1 DEF RunningIn, Callbacks
    <3> QED BY <1>3, <2>2, <2>5, <2>6, <3>2 DEF Promise!SendBegins, Promise!Next
  <2>7. CASE x # s
    <3>1. x \in Pushers /\ s = Kept[x]
      BY <1>1, <2>7 DEF SessionOf, Senders
    <3>2. stream[s] \notin {"none", "first"}
      BY <2>1, <3>1 DEF KeptInv
    <3>3. StateIn(stream[s]) # "new" \/ RunningIn(stream[s]) = "OnRegister"
      BY <3>2, PlaceOf DEF StateIn
    <3> QED BY <1>3, <2>2, <2>5, <2>7, <3>3 DEF Promise!SendBegins, Promise!Next
  <2> QED BY <2>6, <2>7
<1>6. CASE SendReturns(x)
  <2>1. sender' = [sender EXCEPT ![x] = "idle"] /\ sender[x] = "send"
    BY <1>6 DEF SendReturns, SenderTo
  <2>2. InSend(s) = {x}
    BY <1>1, <2>1 DEF InSend, SendInv
  <2>3. InSend(s)' = {}
    BY <1>1, <2>1, <2>2 DEF InSend, SessionOf, TypeOK
  <2>4. \A t \in Streams : t # s => InSend(t)' = InSend(t)
    BY <1>1, <2>1 DEF InSend, SessionOf, TypeOK
  <2>5. [t \in Streams |-> InSend(t)]'
        = [[t \in Streams |-> InSend(t)] EXCEPT ![s] = {}]
    BY <2>3, <2>4
  <2> QED BY <1>3, <2>2, <2>5 DEF Promise!SendEnds, Promise!Next
<1> QED BY <1>4, <1>5, <1>6

\* BridgeServer implements SessionPromise.
LEMMA StepIsPromised ==
    TypeOK /\ QuietAfterClose /\ QuietAfterClose' /\ SendInv /\ HolderInv
      /\ KeptInv /\ [Next]_vars => [Promise!Next]_(Promise!vars)
<1> SUFFICES ASSUME TypeOK, QuietAfterClose, QuietAfterClose', SendInv,
                    HolderInv, KeptInv, [Next]_vars
             PROVE  Promise!Next \/ UNCHANGED Promise!vars
  OBVIOUS
<1>1. CASE UNCHANGED vars
  BY <1>1, UnseenKeeps DEF vars, serveVars, closeVars, streamVars, sendVars
<1>2. CASE \/ ServeStep \/ ContextEnds
           \/ \E c \in AllClosers : Close(c) \/ CloserStep(c)
  BY <1>2, StopStepIsPromised
<1>3. ASSUME NEW s \in Streams,
             Open(s) \/ End(s) \/ First(s) \/ Recv(s) \/ RecvFails(s)
               \/ CallbackReturns(s)
      PROVE  Promise!Next \/ UNCHANGED Promise!vars
  BY <1>3, StreamStepIsPromised
<1>4. ASSUME NEW x \in Senders, Push(x) \/ Lock(x) \/ SendReturns(x)
      PROVE  Promise!Next \/ UNCHANGED Promise!vars
  BY <1>4, SendStepIsPromised
<1> QED
  BY <1>1, <1>2, <1>3, <1>4 DEF Next, Application, Server, Sidecars, AllClosers

\* Whatever the Sidecars do, however many goroutines call Close and send: the
\* callbacks of each stream come in the promised order, a Session sends one
\* frame at a time, and no callback runs once a stop has returned.
THEOREM SessionsKeepPromise == Spec => KeepsSessionPromise
<1>1. Init => SendInv /\ KeptInv
  BY DEF Init, SendInv, KeptInv, Senders
<1>2. Init => HolderInv
  BY DEF Init, HolderInv, Senders
<1> QED
  BY <1>1, <1>2, TypeCorrect, ClosedIsQuiet, SendStep, HolderStep, KeptStep,
     PromiseInit, StepIsPromised, PTL
  DEF Spec, KeepsSessionPromise, Promise!Spec
=============================================================================
