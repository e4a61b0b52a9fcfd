--------------------------- MODULE SessionPromise ---------------------------
(***************************************************************************)
(* What the server of pkg/bridge/server.go promises the Handler and the    *)
(* Sessions of pkg/bridge/bridge.go, whatever the Sidecars do and however  *)
(* often Close is called.  The callbacks of a stream come one at a time:   *)
(* OnRegister before all others, and after one that returned nil, in the   *)
(* end, OnClose, once.  A Session sends one frame at a time, and a         *)
(* callback that sends returns after its Send.  And there is a moment from *)
(* which on, when the server was stopped, no callback runs.                *)
(***************************************************************************)
EXTENDS Naturals

CONSTANTS
    Streams,        \* the streams, and the goroutines of their callbacks
    Senders         \* the goroutines that may send, those of Streams included

VARIABLES
    running,        \* [Streams -> the callback that runs, or "none"]
    session,        \* [Streams -> "new", "open" or "over"]
    sending,        \* [Streams -> the goroutines in a Send of its Session]
    stopped         \* the server was stopped

vars == <<running, session, sending, stopped>>

Init ==
    /\ running = [s \in Streams |-> "none"]
    /\ session = [s \in Streams |-> "new"]
    /\ sending = [s \in Streams |-> {}]
    /\ stopped = FALSE

\* Between two callbacks, or at the end of one: it sends nothing.
Between(s, callback) == running[s] = callback /\ s \notin sending[s]

Turn(s, callback, state) ==
    /\ running' = [running EXCEPT ![s] = callback]
    /\ session' = [session EXCEPT ![s] = state]
    /\ UNCHANGED <<sending, stopped>>

OnRegister(s) ==
    /\ ~stopped /\ session[s] = "new" /\ Between(s, "none")
    /\ Turn(s, "OnRegister", "new")

\* A stream that does not begin with a Register has no callbacks.
NoRegister(s) ==
    /\ session[s] = "new" /\ Between(s, "none")
    /\ Turn(s, "none", "over")

\* OnRegister returns nil, or an error that ends the stream.
Registered(s) ==
    /\ Between(s, "OnRegister")
    /\ Turn(s, "none", "open") \/ Turn(s, "none", "over")

\* OnIngress, OnAck or OnHeartbeat, and its return.
OnFrame(s) ==
    /\ session[s] = "open" /\ Between(s, "none")
    /\ Turn(s, "OnFrame", "open")

Handled(s) == Between(s, "OnFrame") /\ Turn(s, "none", "open")

\* The stream ends, or the callback before returns an error.
OnClose(s) ==
    /\ session[s] = "open" /\ (Between(s, "none") \/ Between(s, "OnFrame"))
    /\ Turn(s, "OnClose", "over")

Closed(s) == Between(s, "OnClose") /\ Turn(s, "none", "over")

\* The callbacks of a stream send while they run, other goroutines once
\* OnRegister has given them the Session, over or not.
SendBegins(s, x) ==
    /\ sending[s] = {}
    /\ IF x = s THEN running[s] # "none"
                ELSE session[s] # "new" \/ running[s] = "OnRegister"
    /\ sending' = [sending EXCEPT ![s] = {x}]
    /\ UNCHANGED <<running, session, stopped>>

SendEnds(s) ==
    /\ sending[s] # {}
    /\ sending' = [sending EXCEPT ![s] = {}]
    /\ UNCHANGED <<running, session, stopped>>

\* No callback runs, and none is to come: every session is over.
Stop ==
    /\ \A s \in Streams : running[s] = "none" /\ session[s] # "open"
    /\ stopped' = TRUE
    /\ UNCHANGED <<running, session, sending>>

Next ==
    \/ \E s \in Streams :
          \/ OnRegister(s) \/ NoRegister(s) \/ Registered(s)
          \/ OnFrame(s) \/ Handled(s) \/ OnClose(s) \/ Closed(s)
          \/ SendEnds(s) \/ \E x \in Senders : SendBegins(s, x)
    \/ Stop

Spec == Init /\ [][Next]_vars
=============================================================================
