----------------------------- MODULE AckPromise -----------------------------
(***************************************************************************)
(* What Delivery.Ack of pkg/bridge/delivery.go promises, whatever becomes  *)
(* of the streams: a delivery is acknowledged once.  However often and     *)
(* from however many goroutines Ack is called, at most one Ack frame is    *)
(* put on a stream, the first outcome is the only one, also when it is an  *)
(* error, and every call returns it, none before it is there.              *)
(***************************************************************************)
EXTENDS Naturals

CONSTANTS
    Deliveries,     \* the deliveries
    Callers         \* goroutines that call Ack

VARIABLES
    outcome,        \* [Deliveries -> "open", or what Ack returns]
    frames,         \* [Deliveries -> the Ack frames put on any stream]
    asking          \* [Callers -> the delivery whose Ack it is in, in a set]

vars == <<outcome, frames, asking>>

Init ==
    /\ outcome = [d \in Deliveries |-> "open"]
    /\ frames = [d \in Deliveries |-> 0]
    /\ asking = [c \in Callers |-> {}]

\* The first call whose context has ended fails at once, for all.
Ask(c, d) ==
    /\ asking[c] = {}
    /\ asking' = [asking EXCEPT ![c] = {d}]
    /\ \/ UNCHANGED outcome
       \/ outcome[d] = "open" /\ outcome' = [outcome EXCEPT ![d] = "failed"]
    /\ UNCHANGED frames

\* The one outcome of a delivery that is asked about: "sent" with a frame, or
\* without one when the stream had broken unnoticed; or an error, no frame.
Settle(d) ==
    /\ outcome[d] = "open"
    /\ \E c \in Callers : asking[c] = {d}
    /\ \/ /\ outcome' = [outcome EXCEPT ![d] = "sent"]
          /\ frames' = [frames EXCEPT ![d] = 1] \/ UNCHANGED frames
       \/ /\ outcome' = [outcome EXCEPT ![d] = "failed"]
          /\ UNCHANGED frames
    /\ UNCHANGED asking

\* A call returns the outcome of its delivery.
Answer(c) ==
    /\ \E d \in Deliveries : asking[c] = {d} /\ outcome[d] # "open"
    /\ asking' = [asking EXCEPT ![c] = {}]
    /\ UNCHANGED <<outcome, frames>>

Next ==
    \/ \E d \in Deliveries : Settle(d) \/ \E c \in Callers : Ask(c, d)
    \/ \E c \in Callers : Answer(c)

Spec == Init /\ [][Next]_vars
=============================================================================
