-------------------------- MODULE BridgeLinkProofs --------------------------
(* Theorems of BridgeLink: they hold for every number of goroutines that   *)
(* Ack, every size of the windows and of the channels, and every number of *)
(* streams and deliveries.                                                 *)
EXTENDS BridgeLink, TLAPS

-----------------------------------------------------------------------------
(* Delivery.Ack: the refinement of AckPromise.                             *)

InSendAck(c) == caller[c] \in {"lock", "send"}

\* One goroutine runs ackFn of a delivery, and while it does no frame is out.
AckInv ==
    /\ caller \in [Callers -> {"idle", "lock", "send", "wait"}]
    /\ item \in [Callers -> 0 .. MaxDeliveries]
    /\ ack \in [Deliveries -> {"fresh", "busy", "sent", "failed"}]
    /\ frames \in [Deliveries -> Nat]
    /\ \A c \in Callers : caller[c] # "idle" => item[c] \in Deliveries
    /\ \A c \in Callers : InSendAck(c) => ack[item[c]] = "busy"
    /\ \A c, e \in Callers :
          InSendAck(c) /\ InSendAck(e) /\ item[c] = item[e] => c = e
    /\ \A d \in Deliveries : ack[d] \in {"fresh", "busy"} => frames[d] = 0

\* The outcome of a delivery, as AckPromise has it
Outcome(d) == IF ack[d] \in {"fresh", "busy"} THEN "open" ELSE ack[d]

LEMMA InitAckInv == Init => AckInv
  BY LinkAssumption DEF Init, AckInv, InSendAck, Nil, Deliveries

\* Whoever is not in an Ack does not touch what Acks share.
AckUntouched == UNCHANGED <<caller, item, ackVars>>

LEMMA UntouchedKeeps == AckInv /\ AckUntouched => AckInv'
  BY DEF AckInv, AckUntouched, ackVars, InSendAck

LEMMA AskKeeps ==
  ASSUME AckInv, NEW c \in Callers, NEW d \in Deliveries, Ask(c, d)
  PROVE  AckInv'
  <1> USE DEF Ask, CallerTo, AckInv, InSendAck
  <1> d \in 0 .. MaxDeliveries BY LinkAssumption DEF Deliveries
  <1>1. CASE First(d) /\ Run(c, d) BY <1>1 DEF First, Run
  <1>2. CASE ~First(d) /\ CallerTo(c, "wait") /\ UNCHANGED ack BY <1>2
  <1> QED BY <1>1, <1>2

LEMMA LockKeeps ==
  ASSUME AckInv, NEW c \in Callers, Lock(c) PROVE AckInv'
  BY DEF Lock, CallerTo, AckInv, InSendAck, ackVars

LEMMA SettleKeeps ==
  ASSUME AckInv, NEW c \in Callers, InSendAck(c), UNCHANGED <<item, frames>>,
         NEW result \in {"sent", "failed"}, Settle(c, result)
  PROVE  AckInv'
  BY DEF Settle, CallerTo, AckInv, InSendAck

LEMMA SendKeeps ==
  ASSUME AckInv, NEW c \in Callers, Send(c) PROVE AckInv'
  BY DEF Send, SendReturns, Settle, CallerTo, AckInv, InSendAck

LEMMA AnswerKeeps ==
  ASSUME AckInv, NEW c \in Callers, Answer(c) PROVE AckInv'
  BY LinkAssumption DEF Answer, CallerTo, AckInv, InSendAck, Nil, ackVars

\* The steps that are not an Ack's.
Others ==
    \/ Cleanup \/ Connect \/ Worker
    \/ Receive \/ ReceiveBroadcast \/ PublishIngress
    \/ \E s \in Streams :
          Recv(s) \/ RecvFails(s) \/ Offer(s) \/ Push(s) \/ Break(s)

LEMMA OthersTouchNoAck == Others => AckUntouched
  BY DEF Others, AckUntouched, Cleanup, Connect, Worker, Handle, HandleFails,
         Reply, ReplyFails, PutDown, Receive, ReceiveBroadcast,
         PublishIngress, Recv, RecvFails, Offer, Push, Break, callVars,
         ackVars

\* The steps of an Ack.
AckStep(c) ==
    \/ \E d \in Deliveries : Ask(c, d)
    \/ Lock(c) \/ NotReady(c) \/ Send(c) \/ SendFails(c) \/ Answer(c)

LEMMA NextSplit ==
  Next => Others \/ \E c \in Callers : AckStep(c)
  BY DEF Next, Client, Application, Network, Others, AckStep

LEMMA AckStepKeeps ==
  ASSUME AckInv, NEW c \in Callers, AckStep(c) PROVE AckInv'
  <1>1. CASE \E d \in Deliveries : Ask(c, d) BY <1>1, AskKeeps
  <1>2. CASE Lock(c) BY <1>2, LockKeeps
  <1>3. CASE NotReady(c)
    BY <1>3, SettleKeeps DEF NotReady, InSendAck
  <1>4. CASE Send(c) BY <1>4, SendKeeps
  <1>5. CASE SendFails(c)
    BY <1>5, SettleKeeps DEF SendFails, SendReturns, InSendAck
  <1>6. CASE Answer(c) BY <1>6, AnswerKeeps
  <1> QED BY <1>1, <1>2, <1>3, <1>4, <1>5, <1>6 DEF AckStep

LEMMA NextKeepsAck == AckInv /\ [Next]_vars => AckInv'
  <1> SUFFICES ASSUME AckInv, [Next]_vars PROVE AckInv' OBVIOUS
  <1>1. CASE Others BY <1>1, OthersTouchNoAck, UntouchedKeeps
  <1>2. CASE \E c \in Callers : AckStep(c) BY <1>2, AckStepKeeps
  <1>3. CASE UNCHANGED vars
    BY <1>3, UntouchedKeeps DEF vars, AckUntouched, callVars
  <1> QED BY <1>1, <1>2, <1>3, NextSplit

\* One goroutine at a time runs ackFn of a delivery (ackOnce).
THEOREM AckInvariant == Spec => []AckInv
  BY InitAckInv, NextKeepsAck, PTL DEF Spec

LEMMA AckInitial == Init => Promise!Init
  BY DEF Init, Promise!Init, Asking, Nil

LEMMA AckStutter == AckUntouched => UNCHANGED Promise!vars
  BY DEF AckUntouched, Promise!vars, Asking, ackVars

\* What every step below needs of the mapping.
LEMMA AskIsAsk ==
  ASSUME AckInv, NEW c \in Callers, NEW d \in Deliveries, Ask(c, d)
  PROVE  Promise!Ask(c, d)
  <1> USE DEF Ask, CallerTo, AckInv
  <1>1. Asking(c) = {} BY DEF Asking
  <1>2. \A e \in Callers : Asking(e)' = IF e = c THEN {d} ELSE Asking(e)
    BY DEF Asking, Run
  <1>3. CASE First(d) /\ CallerTo(c, "wait")
             /\ ack' = [ack EXCEPT ![d] = "failed"]
    BY <1>1, <1>2, <1>3 DEF Promise!Ask, First
  <1>4. CASE First(d) /\ ack' = [ack EXCEPT ![d] = "busy"]
    BY <1>1, <1>2, <1>4 DEF Promise!Ask, First
  <1>5. CASE UNCHANGED ack BY <1>1, <1>2, <1>5 DEF Promise!Ask
  <1> QED BY <1>3, <1>4, <1>5 DEF Run

LEMMA SettleIsSettle ==
  ASSUME AckInv, NEW c \in Callers, InSendAck(c), UNCHANGED item,
         NEW result \in {"sent", "failed"}, Settle(c, result),
         \/ UNCHANGED frames
         \/ result = "sent" /\ frames' = [frames EXCEPT ![item[c]] = @ + 1]
  PROVE  Promise!Next
  <1> USE DEF Settle, CallerTo, AckInv, InSendAck
  <1>1. PICK d \in Deliveries : d = item[c] OBVIOUS
  <1>2. ack[d] = "busy" /\ Asking(c) = {d} /\ frames[d] = 0
    BY <1>1 DEF Asking
  <1>3. \A e \in Callers : Asking(e)' = Asking(e) BY DEF Asking
  <1>4. [e \in Deliveries |-> Outcome(e)]'
        = [[e \in Deliveries |-> Outcome(e)] EXCEPT ![d] = result]
    BY <1>1, <1>2 DEF Outcome
  <1>5. \/ UNCHANGED frames
        \/ result = "sent" /\ frames' = [frames EXCEPT ![d] = 1]
    BY <1>1, <1>2
  <1>6. Promise!Settle(d)
    <2>1. [e \in Deliveries |-> Outcome(e)][d] = "open" BY <1>2 DEF Outcome
    <2>2. [e \in Callers |-> Asking(e)][c] = {d} BY <1>2
    <2>3. UNCHANGED [e \in Callers |-> Asking(e)] BY <1>3
    <2> HIDE DEF Settle, CallerTo, AckInv, InSendAck
    <2>4. CASE result = "sent"
      BY <1>4, <1>5, <2>1, <2>2, <2>3, <2>4 DEF Promise!Settle, Outcome
    <2>5. CASE result = "failed"
      BY <1>4, <1>5, <2>1, <2>2, <2>3, <2>5 DEF Promise!Settle, Outcome
    <2> QED BY <2>4, <2>5
  <1> QED BY <1>6 DEF Promise!Next

LEMMA AnswerIsAnswer ==
  ASSUME AckInv, NEW c \in Callers, Answer(c) PROVE Promise!Answer(c)
  <1> USE DEF Answer, CallerTo, AckInv
  <1>1. item[c] \in Deliveries /\ Asking(c) = {item[c]} BY DEF Asking
  <1>2. \A e \in Callers : Asking(e)' = IF e = c THEN {} ELSE Asking(e)
    BY DEF Asking
  <1> QED BY <1>1, <1>2 DEF Promise!Answer, ackVars

LEMMA LockIsStutter ==
  ASSUME AckInv, NEW c \in Callers, Lock(c) PROVE UNCHANGED Promise!vars
  BY DEF Lock, CallerTo, AckInv, Promise!vars, Asking, ackVars

LEMMA StepIsPromised == AckInv /\ [Next]_vars => [Promise!Next]_(Promise!vars)
  <1> SUFFICES ASSUME AckInv, [Next]_vars
               PROVE  Promise!Next \/ UNCHANGED Promise!vars
    OBVIOUS
  <1>1. CASE Others BY <1>1, OthersTouchNoAck, AckStutter
  <1>2. ASSUME NEW c \in Callers, AckStep(c)
        PROVE  Promise!Next \/ UNCHANGED Promise!vars
    <2>1. CASE \E d \in Deliveries : Ask(c, d)
      BY <2>1, AskIsAsk DEF Promise!Next
    <2>2. CASE Lock(c) BY <2>2, LockIsStutter
    <2>3. CASE NotReady(c)
      BY <2>3, SettleIsSettle DEF NotReady, InSendAck
    <2>4. CASE Send(c)
      BY <2>4, SettleIsSettle DEF Send, InSendAck, SendReturns
    <2>5. CASE SendFails(c)
      BY <2>5, SettleIsSettle DEF SendFails, InSendAck, SendReturns
    <2>6. CASE Answer(c) BY <2>6, AnswerIsAnswer DEF Promise!Next
    <2> QED BY <1>2, <2>1, <2>2, <2>3, <2>4, <2>5, <2>6 DEF AckStep
  <1>3. CASE UNCHANGED vars
    BY <1>3, AckStutter DEF vars, AckUntouched, callVars
  <1> QED BY <1>1, <1>2, <1>3, NextSplit

\* Delivery.Ack keeps its promise: one outcome per delivery for every caller
\* and at most one frame, whatever becomes of the streams meanwhile.
THEOREM AcksKeepPromise == Spec => AckKeepsPromise
  BY AckInitial, StepIsPromised, AckInvariant, PTL
     DEF Spec, AckKeepsPromise, Promise!Spec

-----------------------------------------------------------------------------
(* The traffic of deliveries: types, conservation and order.               *)

\* One stream at a time: its predecessors have broken, their consume is gone
\* and nothing is left of what was on its way down.
RunInv ==
    /\ stream \in {Nil, opened}
    /\ \A s \in Streams :
          /\ s <= opened /\ s # stream => s \in broken
          /\ consumer[s] \in {"recv", "offer"} => s = stream
          /\ s # stream => down[s] = <<>>
          /\ hand[s] # Broadcast => consumer[s] = "offer"
          /\ handler[s] # "off" => s <= opened

\* The frames h, in the hand, and q, in the window behind it, are deliveries in
\* the order in which they were sent, after those of O that arrived before, and
\* among the n that were sent so far (or no deliveries).
Follows(h, q, O, n) ==
    /\ h # Broadcast => h <= n /\ \A e \in O : e < h
    /\ \A i \in 1 .. Len(q) : q[i] # Broadcast
           => q[i] <= n /\ h < q[i] /\ \A e \in O : e < q[i]
    /\ \A i, j \in 1 .. Len(q) :
           i < j /\ q[i] # Broadcast /\ q[j] # Broadcast => q[i] < q[j]

Held(d, h, q) == h = d \/ \E i \in 1 .. Len(q) : q[i] = d

OrderInv ==
    /\ \A e \in offered : e <= Len(sentOn)
    /\ \A s \in Streams : Follows(hand[s], down[s], offered, Len(sentOn))

Kept ==
    \A d \in 1 .. Len(sentOn) :
        \/ sentOn[d] \in broken \/ d \in offered
        \/ Held(d, hand[sentOn[d]], down[sentOn[d]])

FlowInv == RunInv /\ OrderInv /\ Kept
LinkInv == TypeOK /\ AckInv /\ FlowInv

\* TypeOK in parts that most steps leave alone
IsWindow(w)  == w \in Seq(0 .. MaxDeliveries) /\ Len(w) <= Window
IsWindows(w) == w \in [Streams -> Seq(0 .. MaxDeliveries)]
                /\ \A s \in Streams : Len(w[s]) <= Window
RunType ==
    /\ stream \in 0 .. MaxStreams /\ opened \in 0 .. MaxStreams
    /\ broken \in SUBSET Streams
    /\ consumer \in [Streams -> {"off", "recv", "offer", "done"}]
    /\ hand \in [Streams -> 0 .. MaxDeliveries]
    /\ handler \in [Streams -> {"off", "recv", "send", "done"}]
ChannelType ==
    /\ deliverCh \in Seq(Deliveries) /\ Len(deliverCh) <= Buffer
    /\ broadcastCh \in 0 .. Buffer
    /\ offered \in SUBSET Deliveries
SentType == sentOn \in Seq(Streams) /\ Len(sentOn) <= MaxDeliveries
CallType ==
    /\ caller \in [Callers -> {"idle", "lock", "send", "wait"}]
    /\ item \in [Callers -> 0 .. MaxDeliveries]
    /\ aim \in [Callers -> 0 .. MaxStreams]
    /\ sendMu \in SUBSET Callers
    /\ ack \in [Deliveries -> {"fresh", "busy", "sent", "failed"}]
    /\ frames \in [Deliveries -> Nat]

LEMMA TypeParts ==
  TypeOK <=> /\ RunType /\ ChannelType /\ IsWindows(up) /\ IsWindows(down)
             /\ SentType /\ CallType
  BY DEF TypeOK, RunType, ChannelType, IsWindows, SentType, CallType

LEMMA TypePartsNext ==
  TypeOK' <=> /\ RunType' /\ ChannelType' /\ IsWindows(up') /\ IsWindows(down')
              /\ SentType' /\ CallType'
  BY DEF TypeOK, RunType, ChannelType, IsWindows, SentType, CallType

LEMMA SetWindow ==
  ASSUME NEW w, IsWindows(w), NEW s, NEW q, IsWindow(q)
  PROVE  IsWindows([w EXCEPT ![s] = q])
  BY DEF IsWindows, IsWindow

LEMMA EmptyWindow == IsWindow(<<>>)
  BY LinkAssumption DEF IsWindow

LEMMA TailWindow ==
  ASSUME NEW w, IsWindow(w), w # <<>>
  PROVE  IsWindow(Tail(w)) /\ Head(w) \in 0 .. MaxDeliveries
  BY LinkAssumption DEF IsWindow

LEMMA AppendWindow ==
  ASSUME NEW w, IsWindow(w), HasRoom(w), NEW f \in 0 .. MaxDeliveries
  PROVE  IsWindow(Append(w, f))
  BY LinkAssumption DEF IsWindow, HasRoom

LEMMA OneWindow ==
  ASSUME NEW w, IsWindows(w), NEW s \in Streams PROVE IsWindow(w[s])
  BY DEF IsWindows, IsWindow

-----------------------------------------------------------------------------
LEMMA InitLinkInv == Init => LinkInv
  <1> SUFFICES ASSUME Init PROVE LinkInv OBVIOUS
  <1> USE LinkAssumption DEF Init, Nil, Broadcast
  <1>1. TypeOK BY DEF TypeOK
  <1>2. RunInv BY DEF RunInv, Streams
  <1>3. OrderInv BY DEF OrderInv, Follows
  <1>4. Kept BY DEF Kept
  <1> QED BY <1>1, <1>2, <1>3, <1>4, InitAckInv DEF LinkInv, FlowInv

\* Types, action by action.
LEMMA ConnectTypes == TypeOK /\ Connect => TypeOK'
  <1> SUFFICES ASSUME TypeOK, Connect PROVE TypeOK' OBVIOUS
  <1> USE DEF Connect, netVars, callVars, ackVars
  <1>1. RunType'
    BY TypeParts, LinkAssumption DEF RunType, Streams
  <1>2. ChannelType' /\ SentType' /\ CallType'
    BY TypeParts DEF ChannelType, SentType, CallType
  <1> QED BY <1>1, <1>2, TypeParts, TypePartsNext

LEMMA BreakTypes ==
  ASSUME TypeOK, NEW s \in Streams, Break(s) PROVE TypeOK'
  <1> USE DEF Break, consumeVars, callVars, ackVars
  <1>1. RunType' BY TypeParts DEF RunType
  <1>2. ChannelType' /\ SentType' /\ CallType'
    BY TypeParts DEF ChannelType, SentType, CallType
  <1>3. IsWindows(up') BY TypeParts, SetWindow, EmptyWindow
  <1> QED BY <1>1, <1>2, <1>3, TypeParts, TypePartsNext

LEMMA CleanupTypes == TypeOK /\ Cleanup => TypeOK'
  <1> SUFFICES ASSUME TypeOK, Cleanup PROVE TypeOK' OBVIOUS
  <1> USE DEF Cleanup, consumeVars, callVars, ackVars
  <1>1. RunType' BY TypeParts, LinkAssumption DEF RunType, Streams, Nil
  <1>2. ChannelType' /\ SentType' /\ CallType'
    BY TypeParts DEF ChannelType, SentType, CallType
  <1>3. IsWindows(up') /\ IsWindows(down')
    BY TypeParts, SetWindow, EmptyWindow
  <1> QED BY <1>1, <1>2, <1>3, TypeParts, TypePartsNext

LEMMA RecvTypes ==
  ASSUME TypeOK, NEW s \in Streams, Recv(s) PROVE TypeOK'
  <1> USE DEF Recv, ConsumerTo, runVars, callVars, ackVars
  <1>1. IsWindow(Tail(down[s])) /\ Head(down[s]) \in 0 .. MaxDeliveries
    BY TypeParts, OneWindow, TailWindow
  <1>2. RunType' BY <1>1, TypeParts DEF RunType
  <1>3. ChannelType' /\ SentType' /\ CallType'
    BY TypeParts DEF ChannelType, SentType, CallType
  <1>4. IsWindows(down') BY <1>1, TypeParts, SetWindow
  <1> QED BY <1>2, <1>3, <1>4, TypeParts, TypePartsNext

LEMMA RecvFailsTypes ==
  ASSUME TypeOK, NEW s \in Streams, RecvFails(s) PROVE TypeOK'
  <1> USE DEF RecvFails, Reports, ConsumerTo, runVars, netVars, callVars,
              ackVars
  <1>1. RunType' BY TypeParts DEF RunType
  <1>2. ChannelType' /\ SentType' /\ CallType'
    BY TypeParts DEF ChannelType, SentType, CallType
  <1> QED BY <1>1, <1>2, TypeParts, TypePartsNext

LEMMA OfferTypes ==
  ASSUME TypeOK, NEW s \in Streams, Offer(s) PROVE TypeOK'
  <1> USE DEF Offer, ConsumerTo, PutWhenRoom, Broadcast, runVars, netVars,
              callVars, ackVars
  <1>1. RunType' BY TypeParts, LinkAssumption DEF RunType
  <1>2. hand[s] # Broadcast => hand[s] \in Deliveries
    BY TypeParts, LinkAssumption DEF RunType, Deliveries
  <1>3. ChannelType'
    <2> HIDE DEF Deliveries
    <2> QED BY <1>2, TypeParts, LinkAssumption DEF ChannelType
  <1>4. SentType' /\ CallType' BY TypeParts DEF SentType, CallType
  <1> QED BY <1>1, <1>3, <1>4, TypeParts, TypePartsNext

LEMMA ReceiveTypes ==
  ASSUME TypeOK, Receive \/ ReceiveBroadcast PROVE TypeOK'
  <1> USE DEF Receive, ReceiveBroadcast, runVars, netVars, callVars, ackVars
  <1>1. RunType' BY TypeParts DEF RunType
  <1>2. SentType' /\ CallType' BY TypeParts DEF SentType, CallType
  <1>3. ChannelType' BY TypeParts, LinkAssumption DEF ChannelType
  <1>4. UNCHANGED <<up, down>> OBVIOUS
  <1> QED BY <1>1, <1>2, <1>3, <1>4, TypeParts, TypePartsNext

\* A step that fills the window up with a frame of an Ack, or not at all
LEMMA AckTypes ==
  ASSUME TypeOK, AckInv, AckInv', NEW c \in Callers,
         AckStep(c) PROVE TypeOK'
  <1> USE DEF AckStep, Ask, Lock, NotReady, Send, SendFails, Answer,
              SendReturns, Unlock, runVars, consumeVars, netVars
  <1>1. RunType' /\ ChannelType' /\ SentType' /\ UNCHANGED down
    BY TypeParts DEF RunType, ChannelType, SentType
  <1>2. CallType'
    <2>1. aim' \in [Callers -> 0 .. MaxStreams] /\ sendMu' \in SUBSET Callers
      BY TypeParts, LinkAssumption DEF CallType, RunType, Nil
    <2> QED BY <2>1 DEF CallType, AckInv
  <1>3. CASE Send(c)
    <2>1. item[c] \in 0 .. MaxDeliveries BY DEF AckInv
    <2>2. CASE aim[c] \in Streams
      <3>1. IsWindow(Append(up[aim[c]], item[c]))
        BY <1>3, <2>1, <2>2, TypeParts, OneWindow, AppendWindow
      <3> QED BY <1>1, <1>2, <1>3, <3>1, TypeParts, TypePartsNext, SetWindow
    <2>3. CASE aim[c] \notin Streams
      <3>1. UNCHANGED up BY <1>3, <2>3, TypeParts DEF IsWindows
      <3> QED BY <1>1, <1>2, <3>1, TypeParts, TypePartsNext
    <2> QED BY <2>2, <2>3
  <1>4. CASE ~Send(c)
    <2>1. UNCHANGED up BY <1>4
    <2> QED BY <1>1, <1>2, <2>1, TypeParts, TypePartsNext
  <1> QED BY <1>3, <1>4

LEMMA PublishIngressTypes == TypeOK /\ PublishIngress => TypeOK'
  <1> SUFFICES ASSUME TypeOK, PublishIngress PROVE TypeOK' OBVIOUS
  <1> USE DEF PublishIngress, Ingress, runVars, consumeVars, callVars, ackVars
  <1>1. RunType' /\ ChannelType' /\ SentType' /\ CallType'
    BY TypeParts DEF RunType, ChannelType, SentType, CallType
  <1>2. stream \in Streams
    BY TypeParts, LinkAssumption DEF RunType, Nil, Streams
  <1>3. IsWindow(Append(up[stream], Ingress))
    BY <1>2, TypeParts, OneWindow, AppendWindow, LinkAssumption
  <1>4. IsWindows(up') BY <1>3, TypeParts, SetWindow
  <1> QED BY <1>1, <1>4, TypeParts, TypePartsNext

LEMMA HandlerTypes ==
  ASSUME TypeOK, NEW s \in Streams,
         Handle(s) \/ HandleFails(s) \/ ReplyFails(s)
  PROVE  TypeOK'
  <1> USE DEF Handle, HandleFails, ReplyFails, HandlerTo, runVars, consumeVars,
              netVars, callVars, ackVars
  <1>1. RunType' BY TypeParts DEF RunType
  <1>2. ChannelType' /\ SentType' /\ CallType' /\ UNCHANGED down
    BY TypeParts DEF ChannelType, SentType, CallType
  <1>3. IsWindows(up')
    <2>1. CASE UNCHANGED up BY <2>1, TypeParts
    <2>2. CASE up' = [up EXCEPT ![s] = <<>>]
      BY <2>2, TypeParts, SetWindow, EmptyWindow
    <2>3. CASE up[s] # <<>> /\ up' = [up EXCEPT ![s] = Tail(@)]
      BY <2>3, TypeParts, SetWindow, OneWindow, TailWindow
    <2> QED BY <2>1, <2>2, <2>3
  <1> QED BY <1>1, <1>2, <1>3, TypeParts, TypePartsNext

LEMMA PutDownTypes ==
  ASSUME TypeOK, NEW s \in Streams, PutDown(s),
         UNCHANGED handler \/ HandlerTo(s, "recv")
  PROVE  TypeOK'
  <1> USE DEF PutDown, HandlerTo, runVars, consumeVars, callVars, ackVars
  <1>1. RunType' BY TypeParts DEF RunType
  <1>2. ChannelType' /\ CallType' /\ UNCHANGED up
    BY TypeParts DEF ChannelType, CallType
  <1>3. SentType' BY TypeParts, LinkAssumption DEF SentType
  <1>4. PICK f \in 0 .. MaxDeliveries : down' = [down EXCEPT ![s] = Append(@, f)]
    BY <1>3, LinkAssumption DEF SentType, Broadcast
  <1>5. IsWindows(down')
    BY <1>4, TypeParts, SetWindow, OneWindow, AppendWindow
  <1> QED BY <1>1, <1>2, <1>3, <1>5, TypeParts, TypePartsNext

-----------------------------------------------------------------------------
(* What Recv, Offer and a send do to the frames on their way.              *)

LEMMA TailOf ==
  ASSUME NEW S, NEW q \in Seq(S), q # <<>>
  PROVE  /\ Len(q) \in Nat \ {0} /\ Head(q) = q[1] /\ Len(Tail(q)) = Len(q) - 1
         /\ \A i \in 1 .. Len(Tail(q)) : Tail(q)[i] = q[i + 1]
         /\ \A i \in 1 .. Len(q) : q[i] \in S
  OBVIOUS

LEMMA AppendTo ==
  ASSUME NEW S, NEW q \in Seq(S), NEW f
  PROVE  /\ Len(q) \in Nat /\ Len(Append(q, f)) = Len(q) + 1
         /\ Append(q, f)[Len(q) + 1] = f
         /\ \A i \in 1 .. Len(q) : Append(q, f)[i] = q[i] /\ q[i] \in S
         /\ \A i \in 1 .. Len(Append(q, f)) :
               i \in 1 .. Len(q) \/ i = Len(q) + 1
  OBVIOUS

LEMMA FollowsNothing ==
  ASSUME NEW O, NEW n PROVE Follows(Broadcast, <<>>, O, n)
  BY DEF Follows

LEMMA FollowsRecv ==
  ASSUME NEW q \in Seq(0 .. MaxDeliveries), q # <<>>, NEW O, NEW n,
         Follows(Broadcast, q, O, n)
  PROVE  Follows(Head(q), Tail(q), O, n)
  <1> DEFINE t == Tail(q)
  <1>1. \A i \in 1 .. Len(t) : i + 1 \in 1 .. Len(q) /\ t[i] = q[i + 1]
    BY TailOf
  <1>2. 1 \in 1 .. Len(q) /\ Head(q) = q[1] BY TailOf
  <1> HIDE DEF t
  <1>3. Head(q) # Broadcast => Head(q) <= n /\ \A e \in O : e < Head(q)
    BY <1>2 DEF Follows
  <1>4. ASSUME NEW i \in 1 .. Len(t), t[i] # Broadcast
        PROVE  t[i] <= n /\ Head(q) < t[i] /\ \A e \in O : e < t[i]
    <2>1. q[i + 1] <= n /\ Broadcast < q[i + 1] /\ \A e \in O : e < q[i + 1]
      BY <1>1, <1>4 DEF Follows
    <2>2. CASE q[1] = Broadcast BY <1>1, <1>2, <2>1, <2>2
    <2>3. CASE q[1] # Broadcast
      <3>1. i \in Nat /\ 1 < i + 1
        BY TailOf DEF t
      <3>2. q[1] < q[i + 1]
        BY <1>1, <1>2, <1>4, <2>3, <3>1 DEF Follows
      <3> QED BY <1>1, <1>2, <2>1, <3>2
    <2> QED BY <2>2, <2>3
  <1>5. ASSUME NEW i \in 1 .. Len(t), NEW j \in 1 .. Len(t), i < j,
               t[i] # Broadcast, t[j] # Broadcast
        PROVE  t[i] < t[j]
    <2>1. i + 1 < j + 1 BY <1>5, TailOf DEF t
    <2> QED BY <1>1, <1>5, <2>1 DEF Follows
  <1> QED BY <1>3, <1>4, <1>5 DEF Follows, t

LEMMA FollowsOffer ==
  ASSUME NEW h, h # Broadcast, NEW q \in Seq(0 .. MaxDeliveries), NEW O, NEW n,
         Follows(h, q, O, n)
  PROVE  Follows(Broadcast, q, O \cup {h}, n) /\ h <= n /\ \A e \in O : e < h
  <1>1. \A i \in 1 .. Len(q) : q[i] \in 0 .. MaxDeliveries BY AppendTo
  <1>2. \A i \in 1 .. Len(q) : q[i] # Broadcast => Broadcast < q[i]
    BY <1>1, LinkAssumption DEF Broadcast
  <1> QED BY <1>2 DEF Follows

LEMMA FollowsSend ==
  ASSUME NEW h \in Nat, NEW q \in Seq(0 .. MaxDeliveries), NEW O, NEW n \in Nat,
         Follows(h, q, O, n), \A e \in O : e \in Nat /\ e <= n,
         NEW m \in Nat, NEW f,
         \/ f = Broadcast /\ m = n
         \/ f = n + 1 /\ m = n + 1
  PROVE  Follows(h, Append(q, f), O, m)
  <1> DEFINE t == Append(q, f)
  <1>1. /\ Len(q) \in Nat
        /\ \A i \in 1 .. Len(t) :
              \/ i \in 1 .. Len(q) /\ t[i] = q[i] /\ t[i] \in Nat
              \/ i = Len(q) + 1 /\ t[i] = f
    BY AppendTo, LinkAssumption
  <1> HIDE DEF t
  <1>2. n <= m /\ f \in Nat BY LinkAssumption DEF Broadcast
  <1>3. h # Broadcast => h <= m /\ \A e \in O : e < h BY <1>2 DEF Follows
  <1>4. ASSUME NEW i \in 1 .. Len(t), t[i] # Broadcast
        PROVE  t[i] <= m /\ h < t[i] /\ \A e \in O : e < t[i]
    <2>1. CASE i \in 1 .. Len(q) /\ t[i] = q[i] /\ t[i] \in Nat
      BY <1>2, <1>4, <2>1 DEF Follows
    <2>2. CASE i = Len(q) + 1 /\ t[i] = f
      BY <1>2, <1>4, <2>2 DEF Follows, Broadcast
    <2> QED BY <1>1, <2>1, <2>2
  <1>5. ASSUME NEW i \in 1 .. Len(t), NEW j \in 1 .. Len(t), i < j,
               t[i] # Broadcast, t[j] # Broadcast
        PROVE  t[i] < t[j]
    <2>1. i \in 1 .. Len(q) /\ t[i] = q[i] /\ t[i] \in Nat BY <1>1, <1>5
    <2>2. CASE j \in 1 .. Len(q) /\ t[j] = q[j]
      BY <1>5, <2>1, <2>2 DEF Follows
    <2>3. CASE j = Len(q) + 1 /\ t[j] = f
      <3>1. t[i] <= n BY <1>5, <2>1 DEF Follows
      <3> QED BY <1>5, <2>1, <2>3, <3>1
    <2> QED BY <1>1, <2>2, <2>3
  <1> QED BY <1>3, <1>4, <1>5 DEF Follows, t

LEMMA HeldRecv ==
  ASSUME NEW q \in Seq(0 .. MaxDeliveries), q # <<>>, NEW d,
         \E i \in 1 .. Len(q) : q[i] = d
  PROVE  Held(d, Head(q), Tail(q))
  <1>1. PICK i \in 1 .. Len(q) : q[i] = d OBVIOUS
  <1>2. CASE i = 1 BY <1>1, <1>2, TailOf DEF Held
  <1>3. CASE i # 1
    <2>1. i - 1 \in 1 .. Len(Tail(q)) /\ (i - 1) + 1 = i BY <1>3, TailOf
    <2>2. Tail(q)[i - 1] = d BY <1>1, <2>1, TailOf
    <2> QED BY <2>1, <2>2 DEF Held
  <1> QED BY <1>2, <1>3

LEMMA HeldSend ==
  ASSUME NEW q \in Seq(0 .. MaxDeliveries), NEW f, NEW h, NEW d
  PROVE  /\ Held(d, h, q) => Held(d, h, Append(q, f))
         /\ Held(f, h, Append(q, f))
  BY DEF Held

-----------------------------------------------------------------------------
(* One stream, conservation and order, action by action.                   *)

LEMMA SentOn == TypeOK => \A d \in 1 .. Len(sentOn) : sentOn[d] \in Streams
  BY DEF TypeOK

\* Streams break, and callbacks come and go: nothing on its way is touched.
LEMMA CalmKeepsFlow ==
  ASSUME FlowInv, broken \subseteq broken',
         UNCHANGED <<stream, opened, consumer, hand, offered, down, sentOn>>,
         \A s \in Streams : handler'[s] # "off" => handler[s] # "off"
  PROVE  FlowInv'
  <1>1. RunInv' BY DEF FlowInv, RunInv
  <1>2. OrderInv' BY DEF FlowInv, OrderInv
  <1>3. Kept' BY DEF FlowInv, Kept
  <1> QED BY <1>1, <1>2, <1>3 DEF FlowInv

LEMMA ConnectFlow == TypeOK /\ FlowInv /\ Connect => FlowInv'
  <1> SUFFICES ASSUME TypeOK, FlowInv, Connect PROVE FlowInv' OBVIOUS
  <1> USE DEF Connect, netVars
  <1>1. \A s \in Streams : s <= opened => s # stream /\ s <= opened + 1
    BY LinkAssumption DEF TypeOK, Nil, Streams
  <1>2. \A s \in Streams : s <= opened + 1 /\ s # opened + 1 => s <= opened
    BY LinkAssumption DEF TypeOK, Streams
  <1>3. \A s \in Streams : /\ consumer[s] \notin {"recv", "offer"}
                           /\ down[s] = <<>> /\ hand[s] = Broadcast
    BY LinkAssumption DEF FlowInv, RunInv, Nil, Streams
  <1>4. RunInv'
    BY <1>1, <1>2, <1>3 DEF FlowInv, RunInv, TypeOK
  <1>5. OrderInv' BY DEF FlowInv, OrderInv
  <1>6. Kept' BY DEF FlowInv, Kept
  <1> QED BY <1>4, <1>5, <1>6 DEF FlowInv

LEMMA CleanupFlow == TypeOK /\ FlowInv /\ Cleanup => FlowInv'
  <1> SUFFICES ASSUME TypeOK, FlowInv, Cleanup PROVE FlowInv' OBVIOUS
  <1> USE DEF Cleanup, StreamEnded, consumeVars
  <1>1. stream \in Streams /\ stream = opened /\ hand[stream] = Broadcast
    BY LinkAssumption DEF TypeOK, FlowInv, RunInv, Nil, Streams
  <1>2. /\ down'[stream] = <<>>
        /\ \A s \in Streams \ {stream} : down'[s] = down[s]
    BY <1>1 DEF TypeOK
  <1>3. RunInv' BY <1>1, <1>2 DEF FlowInv, RunInv
  <1>4. OrderInv' BY <1>1, <1>2, FollowsNothing DEF FlowInv, OrderInv
  <1>5. Kept' BY <1>1, <1>2, SentOn DEF FlowInv, Kept
  <1> QED BY <1>3, <1>4, <1>5 DEF FlowInv

LEMMA RecvFailsFlow ==
  ASSUME TypeOK, FlowInv, NEW s \in Streams, RecvFails(s) PROVE FlowInv'
  <1> USE DEF RecvFails, Reports, ConsumerTo, runVars, netVars
  <1>1. RunInv' BY DEF FlowInv, RunInv, TypeOK
  <1>2. OrderInv' BY DEF FlowInv, OrderInv
  <1>3. Kept' BY DEF FlowInv, Kept
  <1> QED BY <1>1, <1>2, <1>3 DEF FlowInv

\* The first frame moves from the window into the hand, which was empty.
LEMMA RecvFlow ==
  ASSUME TypeOK, FlowInv, NEW s \in Streams, Recv(s) PROVE FlowInv'
  <1> USE DEF Recv, ConsumerTo, runVars
  <1>1. /\ down[s] \in Seq(0 .. MaxDeliveries) /\ down[s] # <<>>
        /\ consumer[s] = "recv" /\ s = stream /\ hand[s] = Broadcast
    BY DEF TypeOK, FlowInv, RunInv
  <1>2. /\ hand'[s] = Head(down[s]) /\ down'[s] = Tail(down[s])
        /\ consumer'[s] = "offer"
        /\ \A t \in Streams \ {s} : /\ hand'[t] = hand[t] /\ down'[t] = down[t]
                                    /\ consumer'[t] = consumer[t]
    BY DEF TypeOK
  <1>3. UNCHANGED <<stream, opened, broken, offered, sentOn, handler>>
    OBVIOUS
  <1> HIDE DEF Recv
  <1>4. RunInv' BY <1>1, <1>2, <1>3 DEF FlowInv, RunInv
  <1>5. OrderInv'
    <2>1. Follows(hand'[s], down'[s], offered, Len(sentOn))
      BY <1>1, <1>2, FollowsRecv DEF FlowInv, OrderInv
    <2> QED BY <1>2, <1>3, <2>1 DEF FlowInv, OrderInv
  <1>6. Kept'
    <2>1. ASSUME NEW d \in 1 .. Len(sentOn), Held(d, hand[s], down[s])
          PROVE  Held(d, hand'[s], down'[s])
      <3>1. \E i \in 1 .. Len(down[s]) : down[s][i] = d
        BY <1>1, <2>1 DEF Held, Broadcast
      <3> QED BY <1>1, <1>2, <3>1, HeldRecv
    <2> QED BY <1>2, <1>3, <2>1, SentOn DEF FlowInv, Kept
  <1> QED BY <1>4, <1>5, <1>6 DEF FlowInv

\* The frame leaves the hand, and a delivery goes to those that arrived: the
\* other streams have nothing on its way that it could overtake.
LEMMA OfferFlow ==
  ASSUME TypeOK, FlowInv, NEW s \in Streams, Offer(s)
  PROVE  /\ FlowInv'
         /\ \A d \in offered' \ offered : \A e \in offered : e < d
  <1> USE DEF Offer, ConsumerTo, PutWhenRoom, runVars, netVars
  <1>1. /\ down[s] \in Seq(0 .. MaxDeliveries) /\ consumer[s] = "offer"
        /\ s = stream
        /\ \A t \in Streams \ {s} : hand[t] = Broadcast /\ down[t] = <<>>
    BY DEF TypeOK, FlowInv, RunInv
  <1>2. /\ hand'[s] = Broadcast /\ consumer'[s] = "recv"
        /\ \A t \in Streams \ {s} : hand'[t] = hand[t]
                                    /\ consumer'[t] = consumer[t]
    BY DEF TypeOK
  <1>3. UNCHANGED <<stream, opened, broken, down, sentOn, handler>>
    OBVIOUS
  <1>4. \/ hand[s] = Broadcast /\ offered' = offered
        \/ hand[s] # Broadcast /\ offered' = offered \cup {hand[s]}
    OBVIOUS
  <1> HIDE DEF Offer
  <1>5. RunInv' BY <1>1, <1>2, <1>3 DEF FlowInv, RunInv
  <1>6. /\ Follows(Broadcast, down[s], offered', Len(sentOn))
        /\ \A d \in offered' \ offered : d <= Len(sentOn)
                                       /\ \A e \in offered : e < d
    <2>1. Follows(hand[s], down[s], offered, Len(sentOn))
      BY DEF FlowInv, OrderInv
    <2>2. CASE hand[s] = Broadcast /\ offered' = offered BY <2>1, <2>2
    <2>3. CASE hand[s] # Broadcast /\ offered' = offered \cup {hand[s]}
      <3>1. /\ Follows(Broadcast, down[s], offered \cup {hand[s]}, Len(sentOn))
            /\ hand[s] <= Len(sentOn) /\ \A e \in offered : e < hand[s]
        BY <1>1, <2>1, <2>3, FollowsOffer
      <3> QED BY <2>3, <3>1
    <2> QED BY <1>4, <2>2, <2>3
  <1>7. OrderInv'
    BY <1>1, <1>2, <1>3, <1>6, FollowsNothing DEF FlowInv, OrderInv
  <1>8. Kept'
    <2>1. ASSUME NEW d \in 1 .. Len(sentOn), Held(d, hand[s], down[s])
          PROVE  d \in offered' \/ Held(d, hand'[s], down'[s])
      BY <1>2, <1>3, <1>4, <2>1 DEF Held, Broadcast
    <2> QED BY <1>2, <1>3, <1>4, <2>1, SentOn DEF FlowInv, Kept
  <1> QED BY <1>5, <1>6, <1>7, <1>8 DEF FlowInv

\* What is sent is sent on the stream that has not broken, behind the rest.
LEMMA PutDownFlow ==
  ASSUME TypeOK, FlowInv, NEW s \in Streams, PutDown(s), s <= opened,
         \A t \in Streams : handler'[t] # "off" => handler[t] # "off"
  PROVE  FlowInv'
  <1> USE DEF PutDown, runVars, consumeVars
  <1>1. /\ down[s] \in Seq(0 .. MaxDeliveries) /\ hand[s] \in Nat
        /\ s = stream /\ Len(sentOn) \in Nat
        /\ \A e \in offered : e \in Nat
    BY LinkAssumption DEF TypeOK, FlowInv, RunInv, Deliveries
  <1>2. PICK f : /\ down' = [down EXCEPT ![s] = Append(@, f)]
                 /\ \/ f = Broadcast /\ sentOn' = sentOn
                    \/ f = Len(sentOn) + 1 /\ sentOn' = Append(sentOn, s)
    BY <1>1, AppendTo DEF TypeOK
  <1>3. /\ Len(sentOn') \in Nat /\ Len(sentOn) <= Len(sentOn')
        /\ \/ f = Broadcast /\ Len(sentOn') = Len(sentOn)
           \/ f = Len(sentOn) + 1 /\ Len(sentOn') = Len(sentOn) + 1
    BY <1>1, <1>2, AppendTo DEF TypeOK
  <1>4. /\ down'[s] = Append(down[s], f)
        /\ \A t \in Streams \ {s} : down'[t] = down[t]
    BY <1>2 DEF TypeOK
  <1>5. UNCHANGED <<stream, opened, broken, consumer, hand, offered>>
    OBVIOUS
  <1> HIDE DEF PutDown
  <1>6. RunInv' BY <1>1, <1>4, <1>5 DEF FlowInv, RunInv
  <1>7. OrderInv'
    <2>1. Follows(hand[s], down'[s], offered, Len(sentOn'))
      <3>1. Follows(hand[s], down[s], offered, Len(sentOn))
        BY DEF FlowInv, OrderInv
      <3>2. \A e \in offered : e \in Nat /\ e <= Len(sentOn)
        BY <1>1 DEF FlowInv, OrderInv
      <3>3. Follows(hand[s], Append(down[s], f), offered, Len(sentOn'))
        BY <1>1, <1>3, <3>1, <3>2, FollowsSend
      <3> QED BY <1>4, <3>3
    <2>2. \A t \in Streams \ {s} : hand[t] = Broadcast /\ down[t] = <<>>
      BY <1>1 DEF FlowInv, RunInv
    <2>3. \A e \in offered : e <= Len(sentOn')
      BY <1>1, <1>3 DEF FlowInv, OrderInv
    <2> QED BY <1>4, <1>5, <2>1, <2>2, <2>3, FollowsNothing DEF OrderInv
  <1>8. Kept'
    <2> SUFFICES ASSUME NEW d \in 1 .. Len(sentOn')
                 PROVE  \/ sentOn'[d] \in broken \/ d \in offered
                        \/ Held(d, hand[sentOn'[d]], down'[sentOn'[d]])
      BY <1>5 DEF Kept
    <2>1. CASE d \in 1 .. Len(sentOn)
      <3>1. sentOn'[d] = sentOn[d] /\ sentOn[d] \in Streams
        <4>1. sentOn \in Seq(Streams) BY DEF TypeOK
        <4>2. CASE sentOn' = sentOn BY <2>1, <4>2, SentOn
        <4>3. CASE sentOn' = Append(sentOn, s)
          BY <2>1, <4>1, <4>3, AppendTo
        <4> QED BY <1>2, <4>2, <4>3
      <3>2. Held(d, hand[s], down[s]) => Held(d, hand[s], down'[s])
        BY <1>1, <1>4, HeldSend
      <3> QED BY <1>4, <2>1, <3>1, <3>2 DEF FlowInv, Kept
    <2>2. CASE d \notin 1 .. Len(sentOn)
      <3>1. d = Len(sentOn) + 1 /\ f = d /\ sentOn' = Append(sentOn, s)
        BY <1>1, <1>2, <1>3, <2>2
      <3>2. sentOn'[d] = s BY <3>1, AppendTo DEF TypeOK
      <3> QED BY <1>1, <1>4, <3>1, <3>2, HeldSend
    <2> QED BY <2>1, <2>2
  <1> QED BY <1>6, <1>7, <1>8 DEF FlowInv

-----------------------------------------------------------------------------
(* The steps together.                                                     *)

\* The stream of a callback or of a kept Session was opened.
LEMMA Opened ==
  ASSUME FlowInv, NEW s \in Streams, handler[s] # "off" PROVE s <= opened
  BY DEF FlowInv, RunInv

LEMMA NextKeepsType == TypeOK /\ AckInv /\ [Next]_vars => TypeOK'
  <1> SUFFICES ASSUME TypeOK, AckInv, [Next]_vars PROVE TypeOK' OBVIOUS
  <1>1. AckInv' BY NextKeepsAck
  <1>2. CASE Client
    BY <1>1, <1>2, CleanupTypes, RecvTypes, RecvFailsTypes, OfferTypes, AckTypes
       DEF Client, AckStep
  <1>3. CASE Worker
    BY <1>3, HandlerTypes, PutDownTypes DEF Worker, Reply
  <1>4. CASE Application
    BY <1>1, <1>4, ReceiveTypes, PublishIngressTypes, AckTypes, PutDownTypes
       DEF Application, AckStep, Push
  <1>5. CASE Network BY <1>5, ConnectTypes, BreakTypes DEF Network
  <1>6. CASE UNCHANGED vars
    BY <1>6 DEF TypeOK, vars, runVars, consumeVars, netVars, callVars, ackVars
  <1> QED BY <1>2, <1>3, <1>4, <1>5, <1>6 DEF Next

\* An Ack, and what else goes up or is received, leaves the way down alone.
LEMMA UpwardsIsCalm ==
  ASSUME \/ \E c \in Callers : AckStep(c)
         \/ Receive \/ ReceiveBroadcast \/ PublishIngress \/ UNCHANGED vars
  PROVE  UNCHANGED <<stream, opened, broken, consumer, hand, offered, down,
                     sentOn, handler>>
  BY DEF AckStep, Ask, Lock, NotReady, Send, SendFails, Answer, Receive,
         ReceiveBroadcast, PublishIngress, vars, runVars, consumeVars, netVars

LEMMA HandlerIsCalm ==
  ASSUME TypeOK, NEW s \in Streams,
         Break(s) \/ Handle(s) \/ HandleFails(s) \/ ReplyFails(s)
  PROVE  /\ UNCHANGED <<stream, opened, consumer, hand, offered, down, sentOn>>
         /\ broken \subseteq broken'
         /\ \A t \in Streams : handler'[t] # "off" => handler[t] # "off"
  BY DEF TypeOK, Break, Handle, HandleFails, ReplyFails, HandlerTo, runVars,
         consumeVars, netVars

LEMMA ReplyFlow ==
  ASSUME TypeOK, FlowInv, NEW s \in Streams, Reply(s) \/ Push(s)
  PROVE  FlowInv'
  <1>1. PutDown(s) BY DEF Reply, Push
  <1>2. s <= opened BY Opened DEF Reply, Push
  <1>3. \A t \in Streams : handler'[t] # "off" => handler[t] # "off"
    BY DEF TypeOK, Reply, Push, HandlerTo
  <1> QED BY <1>1, <1>2, <1>3, PutDownFlow

\* Every step keeps what is on its way; one alone adds to what has arrived.
LEMMA NextKeepsFlow ==
  ASSUME TypeOK, FlowInv, [Next]_vars
  PROVE  /\ FlowInv'
         /\ \A d \in offered' \ offered : \A e \in offered : e < d
  <1>1. CASE \/ \E c \in Callers : AckStep(c)
             \/ Receive \/ ReceiveBroadcast \/ PublishIngress \/ UNCHANGED vars
    BY <1>1, UpwardsIsCalm, CalmKeepsFlow
  <1>2. CASE \E s \in Streams :
                 Break(s) \/ Handle(s) \/ HandleFails(s) \/ ReplyFails(s)
    BY <1>2, HandlerIsCalm, CalmKeepsFlow
  <1>3. CASE Connect
    BY <1>3, ConnectFlow DEF Connect
  <1>4. CASE Cleanup
    BY <1>4, CleanupFlow DEF Cleanup, consumeVars
  <1>5. ASSUME NEW s \in Streams, Recv(s)
        PROVE  FlowInv' /\ UNCHANGED offered
    BY <1>5, RecvFlow DEF Recv
  <1>6. ASSUME NEW s \in Streams, RecvFails(s)
        PROVE  FlowInv' /\ UNCHANGED offered
    BY <1>6, RecvFailsFlow DEF RecvFails
  <1>7. CASE \E s \in Streams : Offer(s)
    BY <1>7, OfferFlow
  <1>8. ASSUME NEW s \in Streams, Reply(s) \/ Push(s)
        PROVE  FlowInv' /\ UNCHANGED offered
    BY <1>8, ReplyFlow DEF Reply, Push, PutDown, consumeVars
  <1> QED BY <1>1, <1>2, <1>3, <1>4, <1>5, <1>6, <1>7, <1>8
          DEF Next, Client, Worker, Application, Network, AckStep

LEMMA NextKeepsLink == LinkInv /\ [Next]_vars => LinkInv'
  BY NextKeepsType, NextKeepsAck, NextKeepsFlow DEF LinkInv

\* The invariant of the link holds throughout: one stream at a time has frames
\* on their way down, in the order in which they were sent.
THEOREM LinkInvariant == Spec => []LinkInv
  BY InitLinkInv, NextKeepsLink, PTL DEF Spec

\* No window and no channel ever holds more than fits in it (TypeOK).
THEOREM LinkTypes == Spec => []TypeOK
  <1>1. LinkInv => TypeOK BY DEF LinkInv
  <1> QED BY <1>1, LinkInvariant, PTL

\* No delivery is lost on a stream that lasts.
THEOREM NothingLost == Spec => []Conserved
  <1>1. LinkInv => Conserved
    <2> SUFFICES ASSUME LinkInv, NEW d \in 1 .. Len(sentOn)
                 PROVE  \/ sentOn[d] \in broken \/ d \in offered
                        \/ \E i \in 1 .. Len(down[sentOn[d]]) :
                              down[sentOn[d]][i] = d
                        \/ /\ consumer[sentOn[d]] = "offer"
                           /\ hand[sentOn[d]] = d
      BY DEF Conserved
    <2>1. sentOn[d] \in Streams /\ d # Broadcast
      BY SentOn DEF LinkInv, Broadcast
    <2>2. hand[sentOn[d]] = d => consumer[sentOn[d]] = "offer"
      BY <2>1 DEF LinkInv, FlowInv, RunInv
    <2> QED BY <2>2 DEF LinkInv, FlowInv, Kept, Held
  <1> QED BY <1>1, LinkInvariant, PTL

\* Deliveries arrive in the order in which they were sent, across streams.
THEOREM DeliveredInOrder == Spec => InOrder
  <1>1. LinkInv /\ [Next]_vars
            => [\A d \in offered' \ offered : \A e \in offered : e < d]_vars
    BY NextKeepsFlow DEF LinkInv
  <1> QED BY <1>1, LinkInvariant, PTL DEF Spec, InOrder

-----------------------------------------------------------------------------
(* What an Ack and the end of a stream wait for.                           *)

\* The Ack whose turn it is sends on a stream that was opened, and whoever
\* waits, waits for an Ack that is under way.
TurnInv ==
    /\ \A c \in Callers :
          /\ caller[c] = "send" => aim[c] \in Streams /\ aim[c] <= opened
          /\ caller[c] = "wait" => ack[item[c]] # "fresh"
    /\ \A c \in sendMu : caller[c] = "send"
    /\ \A d \in Deliveries : ack[d] = "busy"
          => \E c \in Callers : InSendAck(c) /\ item[c] = d

\* consume and the handler of a stream leave it when it has ended.
LeaveInv ==
    \A s \in Streams :
        /\ s <= opened => consumer[s] # "off" /\ handler[s] # "off"
        /\ consumer[s] = "done" \/ handler[s] = "done" => s \in broken

WaitInv == TurnInv /\ LeaveInv

LEMMA InitWaitInv == Init => WaitInv
  BY LinkAssumption DEF Init, WaitInv, TurnInv, LeaveInv, Streams

LEMMA OthersKeepTurn ==
  ASSUME TypeOK, TurnInv, Others \/ UNCHANGED vars PROVE TurnInv'
  <1>1. UNCHANGED <<caller, item, ack, aim, sendMu>>
    BY DEF Others, Cleanup, Connect, Worker, Handle, HandleFails,
           Reply, ReplyFails, PutDown, Receive, ReceiveBroadcast,
           PublishIngress, Recv, RecvFails, Offer, Push, Break, callVars,
           ackVars, vars
  <1>2. opened \in Nat /\ opened' \in {opened, opened + 1}
    <2>1. opened \in Nat BY LinkAssumption DEF TypeOK
    <2> QED
      BY <2>1
         DEF Others, Cleanup, Connect, Worker, Handle, HandleFails,
             Reply, ReplyFails, PutDown, Receive, ReceiveBroadcast,
             PublishIngress, Recv, RecvFails, Offer, Push, Break, runVars,
             vars
  <1>3. \A s \in Streams : s <= opened => s <= opened'
    BY <1>2 DEF Streams
  <1> QED BY <1>1, <1>3 DEF TurnInv, InSendAck

\* A settled delivery is nobody's any more: one goroutine ran its ackFn.
LEMMA SettleKeepsTurn ==
  ASSUME AckInv, TurnInv, NEW c \in Callers, InSendAck(c),
         UNCHANGED <<item, opened>>, NEW result \in {"sent", "failed"},
         Settle(c, result), sendMu' = {},
         \A e \in Callers : e # c => aim'[e] = aim[e]
  PROVE  TurnInv'
  <1>1. ASSUME NEW e \in Callers
        PROVE  /\ caller'[e] = IF e = c THEN "wait" ELSE caller[e]
               /\ caller[e] # "idle" => item[e] \in Deliveries
    BY DEF Settle, CallerTo, AckInv
  <1>2. \A d \in Deliveries :
           ack'[d] = IF d = item[c] THEN result ELSE ack[d]
    BY DEF Settle, AckInv
  <1>3. ASSUME NEW e \in Callers
        PROVE  /\ caller'[e] = "send" => aim'[e] \in Streams /\ aim'[e] <= opened
               /\ caller'[e] = "wait" => ack'[item[e]] # "fresh"
    BY <1>1, <1>2 DEF TurnInv, InSendAck
  <1>4. ASSUME NEW d \in Deliveries, ack'[d] = "busy"
        PROVE  \E e \in Callers : InSendAck(e)' /\ item[e] = d
    <2>1. d # item[c] /\ ack[d] = "busy" BY <1>2, <1>4
    <2>2. PICK e \in Callers : InSendAck(e) /\ item[e] = d
      BY <2>1 DEF TurnInv
    <2> QED BY <1>1, <2>1, <2>2 DEF InSendAck
  <1> QED BY <1>3, <1>4 DEF TurnInv

LEMMA AskKeepsTurn ==
  ASSUME AckInv, TurnInv, NEW c \in Callers, NEW d \in Deliveries, Ask(c, d)
  PROVE  TurnInv'
  <1> USE DEF Ask, CallerTo, AckInv, InSendAck
  <1>1. /\ UNCHANGED <<opened, aim, sendMu>> /\ caller[c] = "idle"
        /\ c \notin sendMu
    BY DEF TurnInv, runVars
  <1>2. item' = [item EXCEPT ![c] = d] OBVIOUS
  <1>3. CASE ack[d] = "fresh" /\ caller' = [caller EXCEPT ![c] = "lock"]
             /\ ack' = [ack EXCEPT ![d] = "busy"]
    BY <1>1, <1>2, <1>3 DEF TurnInv
  <1>4. CASE ack[d] = "fresh" /\ caller' = [caller EXCEPT ![c] = "wait"]
             /\ ack' = [ack EXCEPT ![d] = "failed"]
    BY <1>1, <1>2, <1>4 DEF TurnInv
  <1>5. CASE ack[d] # "fresh" /\ caller' = [caller EXCEPT ![c] = "wait"]
             /\ UNCHANGED ack
    BY <1>1, <1>2, <1>5 DEF TurnInv
  <1> QED BY <1>3, <1>4, <1>5 DEF First, Run

LEMMA LockKeepsTurn ==
  ASSUME TypeOK, AckInv, RunInv, TurnInv, NEW c \in Callers, Lock(c)
  PROVE  TurnInv'
  <1>1. stream \in Streams /\ stream <= opened
    BY LinkAssumption DEF TypeOK, RunInv, Lock, Streams, Nil
  <1> QED
    BY <1>1
       DEF Lock, CallerTo, TurnInv, TypeOK, InSendAck, ackVars, runVars

LEMMA AnswerKeepsTurn ==
  ASSUME TypeOK, AckInv, TurnInv, NEW c \in Callers, Answer(c)
  PROVE  TurnInv'
  BY DEF Answer, CallerTo, TurnInv, AckInv, InSendAck, ackVars, runVars

LEMMA AckKeepsTurn ==
  ASSUME TypeOK, AckInv, RunInv, TurnInv, NEW c \in Callers, AckStep(c)
  PROVE  TurnInv'
  <1>1. CASE \E d \in Deliveries : Ask(c, d) BY <1>1, AskKeepsTurn
  <1>2. CASE Lock(c) BY <1>2, LockKeepsTurn
  <1>3. CASE NotReady(c)
    BY <1>3, SettleKeepsTurn DEF NotReady, Unlock, InSendAck, runVars
  <1>4. CASE Send(c) \/ SendFails(c)
    <2>1. PICK result \in {"sent", "failed"} : SendReturns(c, result)
      BY <1>4 DEF Send, SendFails
    <2>2. InSendAck(c) /\ UNCHANGED <<item, opened>>
      BY <1>4 DEF Send, SendFails, InSendAck, runVars
    <2>3. \A e \in Callers : e # c => aim'[e] = aim[e]
      BY <2>1 DEF SendReturns, TypeOK
    <2> QED BY <2>1, <2>2, <2>3, SettleKeepsTurn DEF SendReturns
  <1>5. CASE Answer(c) BY <1>5, AnswerKeepsTurn
  <1> QED BY <1>1, <1>2, <1>3, <1>4, <1>5 DEF AckStep

\* What one end of a stream does to the other is to break it.
LEMMA NextKeepsLeave ==
  ASSUME TypeOK, RunInv, LeaveInv, [Next]_vars PROVE LeaveInv'
  <1> USE DEF LeaveInv
  <1>1. CASE \/ \E c \in Callers : AckStep(c)
             \/ Receive \/ ReceiveBroadcast \/ PublishIngress \/ UNCHANGED vars
    BY <1>1, UpwardsIsCalm
  <1>2. CASE Connect
    <2>1. opened \in Nat /\ \A s \in Streams : s <= opened + 1 =>
             s = opened + 1 \/ s <= opened
      BY LinkAssumption DEF TypeOK, Streams
    <2> QED BY <1>2, <2>1 DEF Connect, TypeOK
  <1>3. CASE Cleanup
    BY <1>3 DEF Cleanup, consumeVars
  <1>4. ASSUME NEW s \in Streams,
               Recv(s) \/ RecvFails(s) \/ Offer(s) \/ Push(s) \/ Break(s)
        PROVE  LeaveInv'
    BY <1>4
       DEF Recv, RecvFails, Offer, Push, PutDown, Break, ConsumerTo, Reports,
           TypeOK, runVars, consumeVars
  <1>5. ASSUME NEW s \in Streams,
               Handle(s) \/ HandleFails(s) \/ Reply(s) \/ ReplyFails(s)
        PROVE  LeaveInv'
    BY <1>5
       DEF Handle, HandleFails, Reply, ReplyFails, PutDown, HandlerTo,
           TypeOK, runVars, consumeVars
  <1> QED
    BY <1>1, <1>2, <1>3, <1>4, <1>5
       DEF Next, Client, Worker, Application, Network, AckStep

LEMMA NextKeepsWait == LinkInv /\ WaitInv /\ [Next]_vars => WaitInv'
  <1> SUFFICES ASSUME TypeOK, AckInv, RunInv, TurnInv, LeaveInv, [Next]_vars
               PROVE  TurnInv' /\ LeaveInv'
    BY DEF LinkInv, FlowInv, WaitInv
  <1>1. TurnInv'
    BY NextSplit, OthersKeepTurn, AckKeepsTurn
  <1> QED BY <1>1, NextKeepsLeave

\* Whoever is in an Ack waits, through ackOnce and sendMu, for one that is in
\* Send, and this for room on the stream that the client has.
LEMMA StuckAckIsInSend ==
  ASSUME LinkInv, WaitInv, ~MayMove,
         NEW c \in Callers, caller[c] # "idle"
  PROVE  /\ stream # Nil /\ stream \in Streams /\ stream \notin broken
         /\ Len(up[stream]) = Window
  <1> USE DEF LinkInv, WaitInv
  <1>1. ASSUME NEW e \in Callers, caller[e] = "send"
        PROVE  /\ stream # Nil /\ stream \in Streams /\ stream \notin broken
               /\ Len(up[stream]) = Window
    <2>1. aim[e] \in Streams /\ aim[e] <= opened BY <1>1 DEF TurnInv
    <2>2. aim[e] \notin broken /\ ~HasRoom(up[aim[e]]) BY <1>1 DEF MayMove
    <2>3. aim[e] = stream BY <2>1, <2>2 DEF FlowInv, RunInv
    <2>4. Len(up[aim[e]]) \in Nat /\ Len(up[aim[e]]) <= Window
      BY <2>1 DEF TypeOK
    <2>5. Len(up[aim[e]]) = Window
      BY <2>2, <2>4, LinkAssumption DEF HasRoom
    <2> QED BY <2>1, <2>2, <2>3, <2>5 DEF Streams, Nil
  <1>2. ASSUME NEW e \in Callers, caller[e] = "lock"
        PROVE  \E f \in Callers : caller[f] = "send"
    <2>1. sendMu # {} BY <1>2 DEF MayMove
    <2> QED BY <2>1 DEF TurnInv, TypeOK
  <1>3. ASSUME caller[c] = "wait"
        PROVE  \E e \in Callers : InSendAck(e)
    <2>1. item[c] \in Deliveries BY <1>3 DEF AckInv
    <2>2. ack[item[c]] = "busy"
      BY <1>3, <2>1 DEF MayMove, TurnInv, TypeOK
    <2> QED BY <2>1, <2>2 DEF TurnInv
  <1> QED BY <1>1, <1>2, <1>3 DEF TypeOK, InSendAck

\* On such a stream the Worker's callback waits for room as well, and consume
\* for room in a channel.
LEMMA FullStreamIsCircle ==
  ASSUME LinkInv, WaitInv, ~MayMove,
         stream # Nil, stream \in Streams, stream \notin broken,
         Len(up[stream]) = Window
  PROVE  CircularWait
  <1> USE DEF LinkInv, WaitInv
  <1> PICK s \in Streams : s = stream OBVIOUS
  <1>1. stream = opened /\ s <= opened
    BY LinkAssumption DEF FlowInv, RunInv, TypeOK, Streams
  <1>2. up[s] # <<>> BY LinkAssumption
  <1>3. handler[s] = "send"
    BY <1>1, <1>2 DEF MayMove, LeaveInv, TypeOK
  <1>4. Len(down[s]) = Window
    <2>1. Len(down[s]) \in Nat /\ Len(down[s]) <= Window BY DEF TypeOK
    <2>2. ~HasRoom(down[s]) BY <1>3 DEF MayMove
    <2> QED BY <2>1, <2>2, LinkAssumption DEF HasRoom
  <1>5. down[s] # <<>> BY <1>4, LinkAssumption
  <1>6. consumer[s] = "offer"
    BY <1>1, <1>5 DEF MayMove, LeaveInv, TypeOK
  <1>7. CASE hand[s] = Broadcast
    <2>1. ~(broadcastCh < Buffer) BY <1>6, <1>7 DEF MayMove
    <2>2. broadcastCh = Buffer BY <2>1, LinkAssumption DEF TypeOK
    <2> QED BY <1>3, <1>4, <1>6, <1>7, <2>2 DEF CircularWait, Unread
  <1>8. CASE hand[s] # Broadcast
    <2>1. Len(deliverCh) = Buffer
      <3>1. ~(Len(deliverCh) < Buffer) BY <1>6, <1>8 DEF MayMove
      <3>2. Len(deliverCh) \in Nat /\ Len(deliverCh) <= Buffer BY DEF TypeOK
      <3> QED BY <3>1, <3>2, LinkAssumption
    <2>2. deliverCh # <<>> BY <2>1, LinkAssumption
    <2>3. ASSUME NEW e \in Callers PROVE Blocked(e)
      <3>1. caller[e] # "idle" BY <2>2 DEF MayMove
      <3>2. CASE caller[e] = "wait"
        <4>1. item[e] \in Deliveries BY <3>2 DEF AckInv
        <4> QED BY <3>2, <4>1 DEF MayMove, TurnInv, TypeOK, Blocked
      <3> QED BY <3>1, <3>2 DEF TypeOK, Blocked
    <2> QED BY <1>3, <1>4, <1>6, <1>8, <2>1, <2>3 DEF CircularWait
  <1> QED BY <1>7, <1>8

\* Nothing but the circle of a callback, consume and the application keeps an
\* Ack from its result: not another Ack, not sendMu, not a stream that breaks.
THEOREM OnlyTheCircle == Spec => []OnlyTheCircleWaits
  <1>1. LinkInv /\ WaitInv => OnlyTheCircleWaits
    BY StuckAckIsInSend, FullStreamIsCircle DEF OnlyTheCircleWaits
  <1> QED
    BY <1>1, LinkInvariant, InitWaitInv, NextKeepsWait, PTL DEF Spec

\* The end of a stream is noticed by whoever has to make way for the next one,
\* if somebody receives deliveries at all.
THEOREM EndIsNoticed == ASSUME Callers # {} PROVE Spec => []EndNoticed
  <1>1. LinkInv /\ WaitInv => EndNoticed
    <2> SUFFICES ASSUME LinkInv, WaitInv, stream \in broken,
                        ~Unread(stream), ~MayMove
                 PROVE  FALSE
      BY DEF EndNoticed
    <2> USE DEF LinkInv, WaitInv
    <2> PICK s \in Streams : s = stream BY DEF TypeOK
    <2>1. stream # Nil /\ s <= opened
      BY LinkAssumption DEF FlowInv, RunInv, TypeOK, Streams, Nil
    <2>2. consumer[s] = "offer"
      BY <2>1 DEF MayMove, LeaveInv, TypeOK
    <2>3. CASE hand[s] = Broadcast
      <3>1. broadcastCh < Buffer
        BY <2>2, <2>3, LinkAssumption DEF Unread, TypeOK
      <3> QED BY <2>2, <2>3, <3>1 DEF MayMove
    <2>4. CASE hand[s] # Broadcast
      <3>1. ~(Len(deliverCh) < Buffer) BY <2>2, <2>4 DEF MayMove
      <3>2. deliverCh # <<>> BY <3>1, LinkAssumption
      <3>3. PICK c \in Callers : caller[c] # "idle" BY <3>2 DEF MayMove
      <3> QED BY <3>3, StuckAckIsInSend
    <2> QED BY <2>3, <2>4
  <1> QED
    BY <1>1, LinkInvariant, InitWaitInv, NextKeepsWait, PTL DEF Spec
=============================================================================
