---------------------------- MODULE BridgeServer ----------------------------
(***************************************************************************)
(* The Worker's side of the bridge: the server of pkg/bridge/server.go.    *)
(*                                                                         *)
(* Serve listens, publishes s.lis and s.grpcServer without a lock and runs *)
(* the gRPC server, which runs bridgeService.Stream in a goroutine of its  *)
(* own for every stream a Sidecar opens.  Close may be called by anybody,  *)
(* at any time, and is called by the goroutine that Serve starts to watch  *)
(* its context.  The handler's callbacks, and any goroutine of the Worker  *)
(* that kept a Session, send on the stream under the session's sendMu.     *)
(*                                                                         *)
(* Serve is called once.  What is known of gRPC is in a section of its     *)
(* own.  A Session's Close and Metadata change nothing and are left out.   *)
(***************************************************************************)
EXTENDS Naturals

CONSTANTS
    Streams,        \* the streams that Sidecars open, and their goroutines
    Closers,        \* goroutines of the application that call Close
    Watcher,        \* the goroutine that waits for the context of Serve
    Pushers,        \* goroutines of the application that kept a Session
    Kept,           \* [Pushers -> the stream of the Session that it kept]
    Insecure        \* Options.Insecure: without it, a certificate is loaded

ASSUME ServerAssumption ==
    /\ Insecure \in BOOLEAN
    /\ Watcher \notin Closers
    /\ Pushers \cap Streams = {}
    /\ Kept \in [Pushers -> Streams]

AllClosers == Closers \cup {Watcher}
Senders    == Streams \cup Pushers

VARIABLES
    serve,      \* pc of Serve, and of the grpc Serve it calls
    lis,        \* the listener in s.lis: "none", "open" or "closed"
    published,  \* s.grpcServer is set
    halt,       \* GracefulStop: not called, "draining", or "stopped"
    ctxDone,    \* the context of Serve has ended
    once,       \* s.stopOnce: "fresh", "busy" or "done"
    closer,     \* [AllClosers -> pc of Close]
    stream,     \* [Streams -> pc of bridgeService.Stream]
    ended,      \* the streams whose context has ended
    accepted,   \* the streams whose OnRegister returned nil (history)
    closes,     \* [Streams -> calls of OnClose] (history)
    sender,     \* [Senders -> pc of session.send]
    sendMu      \* [Streams -> the holder of the session's sendMu, in a set]

serveVars  == <<serve, lis, published, halt, ctxDone>>
closeVars  == <<once, closer>>
streamVars == <<stream, ended, accepted, closes>>
sendVars   == <<sender, sendMu>>
vars == <<serveVars, closeVars, streamVars, sendVars>>

Callbacks == {"OnRegister", "OnFrame", "OnClose"}
StreamPC  == {"none", "first", "recv", "done"} \cup Callbacks

TypeOK ==
    /\ serve \in {"idle", "listening", "published", "accepting", "leaving",
                  "returned"}
    /\ lis \in {"none", "open", "closed"}
    /\ published \in BOOLEAN
    /\ halt \in {"no", "draining", "stopped"}
    /\ ctxDone \in BOOLEAN
    /\ once \in {"fresh", "busy", "done"}
    /\ closer \in [AllClosers -> {"idle", "check", "graceful", "listener",
                                  "wait", "returned"}]
    /\ stream \in [Streams -> StreamPC]
    /\ ended \in SUBSET Streams
    /\ accepted \in SUBSET Streams
    /\ closes \in [Streams -> Nat]
    /\ sender \in [Senders -> {"idle", "lock", "send"}]
    /\ sendMu \in [Streams -> SUBSET Senders]

Init ==
    /\ serve = "idle" /\ lis = "none" /\ published = FALSE /\ halt = "no"
    /\ ctxDone = FALSE /\ once = "fresh"
    /\ closer = [c \in AllClosers |-> "idle"]
    /\ stream = [s \in Streams |-> "none"]
    /\ ended = {} /\ accepted = {} /\ closes = [s \in Streams |-> 0]
    /\ sender = [x \in Senders |-> "idle"]
    /\ sendMu = [s \in Streams |-> {}]

Live(s) == stream[s] \notin {"none", "done"}

-----------------------------------------------------------------------------
(* gRPC, as server.go uses it.                                             *)

\* A stream is opened on a new connection while the server accepts, or on one
\* that is still there: also while it drains, for the Sidecar may not have
\* heard of it, and when only the listener was closed.
Open(s) ==
    /\ stream[s] = "none"
    /\ \/ serve = "accepting" /\ lis = "open" /\ halt = "no"
       \/ halt # "stopped" /\ \E t \in Streams : stream[t] # "none"
    /\ stream' = [stream EXCEPT ![s] = "first"]
    /\ UNCHANGED <<serveVars, closeVars, ended, accepted, closes, sendVars>>

\* The Sidecar cancels a stream, or its connection is lost.
End(s) ==
    /\ Live(s) /\ s \notin ended
    /\ ended' = ended \cup {s}
    /\ UNCHANGED <<serveVars, closeVars, stream, accepted, closes, sendVars>>

\* Send returns an error.
Over(s) == s \in ended \/ stream[s] = "done"

\* GracefulStop returns when the accept loop and all streams have ended.
Drained == serve # "accepting" /\ \A s \in Streams : ~Live(s)

-----------------------------------------------------------------------------
(* server.Serve.                                                           *)

\* net.Listen, and the assignment of s.lis.
Listen ==
    /\ serve = "idle"
    /\ \/ serve' = "listening" /\ lis' = "open"
       \/ serve' = "returned" /\ UNCHANGED lis
    /\ UNCHANGED <<published, halt, ctxDone, closeVars, streamVars, sendVars>>

\* The key pair does not load: the listener stays open.
LoadFails ==
    /\ serve = "listening" /\ ~Insecure
    /\ serve' = "returned"
    /\ UNCHANGED <<lis, published, halt, ctxDone, closeVars, streamVars,
                   sendVars>>

\* s.grpcServer is assigned, and the watcher starts.
Publish ==
    /\ serve = "listening"
    /\ serve' = "published" /\ published' = TRUE
    /\ UNCHANGED <<lis, halt, ctxDone, closeVars, streamVars, sendVars>>

\* srv.Serve: a server that was stopped closes the listener and returns.
Accept ==
    /\ serve = "published"
    /\ \/ halt = "no" /\ serve' = "accepting" /\ UNCHANGED lis
       \/ halt # "no" /\ serve' = "returned" /\ lis' = "closed"
    /\ UNCHANGED <<published, halt, ctxDone, closeVars, streamVars, sendVars>>

\* The accept loop ends with the listener ...
AcceptEnds ==
    /\ serve = "accepting" /\ lis = "closed"
    /\ serve' = "leaving"
    /\ UNCHANGED <<lis, published, halt, ctxDone, closeVars, streamVars,
                   sendVars>>

\* ... and srv.Serve returns, when a GracefulStop has come to its end.
ServeReturns ==
    /\ serve = "leaving" /\ halt # "draining"
    /\ serve' = "returned"
    /\ UNCHANGED <<lis, published, halt, ctxDone, closeVars, streamVars,
                   sendVars>>

ContextEnds ==
    /\ ~ctxDone
    /\ ctxDone' = TRUE
    /\ UNCHANGED <<serve, lis, published, halt, closeVars, streamVars, sendVars>>

ServeStep ==
    Listen \/ LoadFails \/ Publish \/ Accept \/ AcceptEnds \/ ServeReturns

-----------------------------------------------------------------------------
(* server.Close.                                                           *)

CloserTo(c, pc) == closer' = [closer EXCEPT ![c] = pc]

\* The application calls Close when it likes, the watcher when the context of
\* Serve has ended.
Called(c) == c = Watcher => published /\ ctxDone

\* sync.Once: the first to come runs the function, the others wait for it.
ReturnsAtOnce == "returned"
WhileOnceIsBusy == "wait"

Close(c) ==
    /\ closer[c] = "idle" /\ Called(c)
    /\ \/ once = "fresh" /\ once' = "busy" /\ CloserTo(c, "check")
       \/ once = "busy" /\ CloserTo(c, WhileOnceIsBusy) /\ UNCHANGED once
       \/ once = "done" /\ CloserTo(c, "returned") /\ UNCHANGED once
    /\ UNCHANGED <<serveVars, streamVars, sendVars>>

\* if s.grpcServer != nil.  GracefulStop begins: it closes the listener that
\* srv.Serve was given, and tells the Sidecars.
CloseCheck(c) ==
    /\ closer[c] = "check"
    /\ \/ /\ published /\ CloserTo(c, "graceful") /\ halt' = "draining"
          /\ lis' = IF serve = "accepting" THEN "closed" ELSE lis
       \/ /\ ~published /\ CloserTo(c, "listener")
          /\ UNCHANGED <<halt, lis>>
    /\ UNCHANGED <<serve, published, ctxDone, once, streamVars, sendVars>>

\* GracefulStop returns.
Stopped(c) ==
    /\ closer[c] = "graceful" /\ Drained
    /\ CloserTo(c, "listener") /\ halt' = "stopped"
    /\ UNCHANGED <<serve, lis, published, ctxDone, once, streamVars, sendVars>>

\* if s.lis != nil; the function that stopOnce ran is done.
CloseListener(c) ==
    /\ closer[c] = "listener"
    /\ lis' = IF lis = "none" THEN "none" ELSE "closed"
    /\ once' = "done" /\ CloserTo(c, "returned")
    /\ UNCHANGED <<serve, published, halt, ctxDone, streamVars, sendVars>>

OnceReturns(c) ==
    /\ closer[c] = "wait" /\ once = "done"
    /\ CloserTo(c, "returned")
    /\ UNCHANGED <<serveVars, once, streamVars, sendVars>>

CloserStep(c) ==
    CloseCheck(c) \/ Stopped(c) \/ CloseListener(c) \/ OnceReturns(c)

-----------------------------------------------------------------------------
(* bridgeService.Stream.                                                   *)

StreamTo(s, pc) == stream' = [stream EXCEPT ![s] = pc]

\* The first Recv: a Register goes to OnRegister, any other frame and an error
\* end the stream.
First(s) ==
    /\ stream[s] = "first"
    /\ \/ s \notin ended /\ StreamTo(s, "OnRegister")
       \/ StreamTo(s, "done")
    /\ UNCHANGED <<serveVars, closeVars, ended, accepted, closes, sendVars>>

\* OnRegister returns; OnClose is deferred only when it returned nil.
DeferredBeforeTheTest == "OnClose"
AfterRefusal == "done"

Registered(s) ==
    /\ stream[s] = "OnRegister" /\ sender[s] = "idle"
    /\ \/ StreamTo(s, "recv") /\ accepted' = accepted \cup {s}
          /\ UNCHANGED closes
       \/ StreamTo(s, AfterRefusal) /\ UNCHANGED accepted
          /\ closes' = [closes EXCEPT ![s] =
                           IF AfterRefusal = "OnClose" THEN @ + 1 ELSE @]
    /\ UNCHANGED <<serveVars, closeVars, ended, sendVars>>

\* An Ingress with an envelope, an Ack or a Heartbeat goes to its callback; a
\* second Register and an empty frame are dropped.
RegisterAgain(s) == StreamTo(s, "OnFrame") \/ StreamTo(s, "OnRegister")
Dispatch(s) == StreamTo(s, "OnFrame") \/ UNCHANGED stream

Recv(s) ==
    /\ stream[s] = "recv" /\ s \notin ended
    /\ Dispatch(s)
    /\ UNCHANGED <<serveVars, closeVars, ended, accepted, closes, sendVars>>

\* The end of the loop runs the deferred OnClose.
Leave(s) ==
    /\ StreamTo(s, "OnClose")
    /\ closes' = [closes EXCEPT ![s] = @ + 1]

RecvFails(s) ==
    /\ stream[s] = "recv" /\ s \in ended
    /\ Leave(s)
    /\ UNCHANGED <<serveVars, closeVars, ended, accepted, sendVars>>

\* A callback that returns an error ends the stream.
FrameHandled(s) ==
    /\ stream[s] = "OnFrame" /\ sender[s] = "idle"
    /\ \/ StreamTo(s, "recv") /\ UNCHANGED closes
       \/ Leave(s)
    /\ UNCHANGED <<serveVars, closeVars, ended, accepted, sendVars>>

Closed(s) ==
    /\ stream[s] = "OnClose" /\ sender[s] = "idle"
    /\ StreamTo(s, "done")
    /\ UNCHANGED <<serveVars, closeVars, ended, accepted, closes, sendVars>>

CallbackReturns(s) == Registered(s) \/ FrameHandled(s) \/ Closed(s)

-----------------------------------------------------------------------------
(* session.send, for SendDeliver, SendBroadcast and SendHeartbeat.         *)

SenderTo(x, pc) == sender' = [sender EXCEPT ![x] = pc]
SessionOf(x) == IF x \in Streams THEN x ELSE Kept[x]

\* A callback sends on its own session, a goroutine that kept a Session on
\* that one as soon as OnRegister has it, over or not.  (A stream that ends at
\* its first frame has no Session, but a send on it would disturb nothing.)
Push(x) ==
    /\ sender[x] = "idle"
    /\ \/ x \in Streams /\ stream[x] \in Callbacks
       \/ x \in Pushers /\ stream[Kept[x]] \notin {"none", "first"}
    /\ SenderTo(x, "lock")
    /\ UNCHANGED <<serveVars, closeVars, streamVars, sendMu>>

NoMutex(x) == TRUE
MuFree(x) == sendMu[SessionOf(x)] = {}

Lock(x) ==
    /\ sender[x] = "lock" /\ MuFree(x)
    /\ SenderTo(x, "send")
    /\ sendMu' = [sendMu EXCEPT ![SessionOf(x)] = {x}]
    /\ UNCHANGED <<serveVars, closeVars, streamVars>>

\* The deferred unlock.
LeftLocked(x) == UNCHANGED sendMu
Unlock(x) == sendMu' = [sendMu EXCEPT ![SessionOf(x)] = {}]

\* stream.Send returns when the Sidecar's window has room for the frame, or
\* with an error when the stream is over.
SendReturns(x) ==
    /\ sender[x] = "send"
    /\ SenderTo(x, "idle") /\ Unlock(x)
    /\ UNCHANGED <<serveVars, closeVars, streamVars>>

SendFails(x) == Over(SessionOf(x)) /\ SendReturns(x)

-----------------------------------------------------------------------------
Application ==
    \/ ContextEnds
    \/ \E c \in Closers : Close(c)
    \/ \E x \in Senders : Push(x)

Server ==
    \/ ServeStep \/ Close(Watcher)
    \/ \E c \in AllClosers : CloserStep(c)
    \/ \E s \in Streams :
          First(s) \/ Recv(s) \/ RecvFails(s) \/ CallbackReturns(s)
    \/ \E x \in Senders : Lock(x) \/ SendReturns(x)

Sidecars == \E s \in Streams : Open(s) \/ End(s)

Next == Application \/ Server \/ Sidecars

Spec == Init /\ [][Next]_vars
-----------------------------------------------------------------------------
(* Fairness.  The Go scheduler runs every goroutine that can run, and a    *)
(* sync.Mutex in starvation mode is handed over first come first served.   *)
(* The handler's callbacks return (they may send any number of times       *)
(* before).  Nothing is assumed of the Sidecars, not even that they read:  *)
(* a Send is sure to return only when its stream is over.                  *)

ServerFairness ==
    /\ WF_vars(ServeStep) /\ WF_vars(Close(Watcher))
    /\ \A c \in AllClosers : WF_vars(CloserStep(c))
    /\ \A s \in Streams :
          /\ WF_vars(s \in ended /\ First(s)) /\ WF_vars(RecvFails(s))
          /\ SF_vars(CallbackReturns(s))
    /\ \A x \in Senders : SF_vars(Lock(x)) /\ WF_vars(SendFails(x))

FairSpec == Spec /\ ServerFairness

-----------------------------------------------------------------------------
(* Properties.                                                             *)

\* When a Close, be it the one that stops the server or one that comes while
\* another does, or Serve returns from a server that was stopped, the listener
\* is closed and no callback of the handler runs or will run.  (Close may also
\* come before Serve has published the server: then it stops nothing, and
\* handlers may outlive both it and Serve.)
QuietAfterClose ==
    halt # "no" /\ (serve = "returned"
                    \/ \E c \in AllClosers : closer[c] = "returned")
        => lis = "closed" /\ \A s \in Streams : ~Live(s)

\* Every OnRegister that returned nil is followed by one OnClose, and none that
\* was refused is, whatever ends the stream: a failed Recv, a callback's error.
ClosedOnce ==
    \A s \in Streams :
        /\ closes[s] <= 1
        /\ stream[s] = "done" => closes[s] = IF s \in accepted THEN 1 ELSE 0

\* gRPC allows one Send on a stream at a time: the callbacks and the goroutines
\* that kept the Session never overlap.
OneSendPerStream ==
    \A x, y \in Senders :
        sender[x] = "send" /\ sender[y] = "send" /\ SessionOf(x) = SessionOf(y)
            => x = y

\* A stop comes to its end once the Sidecars have ended their streams: one that
\* the end of Serve's context asks for, and one that has begun.  No callback
\* and no stop is left waiting for a sendMu, for stopOnce or for a stream.
Quitting ==
    halt = "draining" \/ (published /\ ctxDone /\ once = "fresh")
AllOver == \A s \in Streams : Live(s) => s \in ended

ShutdownCompletes ==
    <>[]AllOver => (Quitting ~> once = "done" /\ serve = "returned")

\* What the steps of ServerFairness wait for: their guards.
MayStep ==
    \/ serve \in {"idle", "listening", "published"}
    \/ serve = "accepting" /\ lis = "closed"
    \/ serve = "leaving" /\ halt # "draining"
    \/ closer[Watcher] = "idle" /\ Called(Watcher)
    \/ \E c \in AllClosers :
          \/ closer[c] \in {"check", "listener"}
          \/ closer[c] = "graceful" /\ Drained
          \/ closer[c] = "wait" /\ once = "done"
    \/ \E s \in Streams :
          \/ stream[s] \in {"first", "recv"} /\ s \in ended
          \/ stream[s] \in Callbacks /\ sender[s] = "idle"
    \/ \E x \in Senders :
          \/ sender[x] = "lock" /\ MuFree(x)
          \/ sender[x] = "send" /\ Over(SessionOf(x))

\* A stream that its Sidecar keeps, with a Recv that has no frame or a Send that
\* has no room.
HeldBySidecar(s) ==
    /\ s \notin ended
    /\ \/ stream[s] \in {"first", "recv"}
       \/ \E x \in Senders :
             sender[x] = "send" /\ SessionOf(x) = s /\ stream[s] # "done"

UnderWay ==
    \/ Quitting
    \/ halt # "no" /\ serve # "returned"
    \/ \E c \in AllClosers : closer[c] \notin {"idle", "returned"}
    \/ \E s \in Streams : Live(s)
    \/ \E x \in Senders : sender[x] # "idle"

\* Whoever waits in the server, a Close or Serve for a GracefulStop or for
\* stopOnce, a callback or another goroutine for a sendMu or in Send, waits in
\* the end for a Sidecar that keeps its stream, never for each other in a ring:
\* and nothing bounds that wait, for GracefulStop has no time limit.
OnlySidecarsAreWaitedFor ==
    UnderWay => MayStep \/ \E s \in Streams : HeldBySidecar(s)

\* The server keeps the promise of SessionPromise to the Handler and to whoever
\* kept a Session: the order of a stream's callbacks, one Send at a time, none
\* that outlives its callback, and no callback once a stop has returned.
RunningIn(pc) == IF pc \in Callbacks THEN pc ELSE "none"
StateIn(pc) ==
    CASE pc \in {"none", "first", "OnRegister"} -> "new"
      [] pc \in {"recv", "OnFrame"} -> "open"
      [] OTHER -> "over"
InSend(s) == {x \in Senders : sender[x] = "send" /\ SessionOf(x) = s}
HasStopped ==
    halt # "no" /\ (serve = "returned"
                    \/ \E c \in AllClosers : closer[c] = "returned")
Promise == INSTANCE SessionPromise WITH
    running <- [s \in Streams |-> RunningIn(stream[s])],
    session <- [s \in Streams |-> StateIn(stream[s])],
    sending <- [s \in Streams |-> InSend(s)],
    stopped <- HasStopped
KeepsSessionPromise == Promise!Spec
=============================================================================
