---------------------------- MODULE KafkaManager ----------------------------
(***************************************************************************)
(* The shared Kafka manager of pkg/kafka/manager.go: Publish from any      *)
(* number of goroutines, the observers that are called when a Publish or   *)
(* the processing of a message ends, consumer groups made from one base    *)
(* configuration, and Close.                                               *)
(*                                                                         *)
(* The producer is sarama's.  What is told apart of a message is whether   *)
(* it has a topic.  Keys, headers and the trace context put into them, and *)
(* the TLS, SASL and acknowledgement options that NewManager copies, are   *)
(* left out.                                                               *)
(***************************************************************************)
EXTENDS Naturals

CONSTANTS
    Publishers,     \* goroutines that call Publish
    Consumers,      \* goroutines that call ObserveConsume
    Setters,        \* goroutines that install an observer
    Closers         \* goroutines that call Close

ASSUME KafkaAssumption ==
    /\ Publishers \cap Consumers = {} /\ Setters \cap Publishers = {}
    /\ Setters \cap Consumers = {}

Observed   == Publishers \cup Consumers   \* whose calls end with an observer's
Installers == Observed \cup Setters       \* an observer may install another
Errors     == {"none", "no topic", "context", "not sent"}
Newest     == "newest"
Options    == [offset : {"unset", Newest, "oldest"},
               strategies : {"unset", "own"}]

VARIABLES
    manager,    \* the *Manager the service has: "nil" or "made"
    hasTopic,   \* cfg.Topic is not empty
    producer,   \* "open", "closing" or "closed"
    once,       \* closeOnce: "fresh", "busy" or "done"
    closer,     \* [Closers -> pc of Close]
    installed,  \* publishObserver and consumeObserver are set
    readers,    \* those who hold observerMu for reading
    call,       \* [Installers -> pc]
    topic,      \* [Observed -> the message has a topic]
    err,        \* [Observed -> the named result of Publish]
    panics,     \* the publishers whose SendMessage panicked
    seen,       \* [Observed -> what the observer was told in this call]
    base,       \* the options in the base configuration
    asked, got  \* the options asked for the last group, and what it got

closeVars   == <<producer, once, closer>>
publishVars == <<call, topic, err, panics, seen>>
groupVars   == <<base, asked, got>>
vars == <<manager, hasTopic, closeVars, installed, readers, publishVars,
          groupVars>>

SaramaDefaults == [offset |-> Newest, strategies |-> "unset"]

TypeOK ==
    /\ manager \in {"nil", "made"} /\ hasTopic \in BOOLEAN
    /\ producer \in {"open", "closing", "closed"}
    /\ once \in {"fresh", "busy", "done"}
    /\ closer \in [Closers -> {"idle", "close", "wait", "returned"}]
    /\ installed \in BOOLEAN /\ readers \in SUBSET Observed
    /\ call \in [Installers -> {"idle", "ready", "sending", "ended",
                                "observe", "install",
                                "told"}]
    /\ topic \in [Observed -> BOOLEAN] /\ err \in [Observed -> Errors]
    /\ panics \in SUBSET Publishers
    /\ seen \in [Observed -> SUBSET (Errors \X BOOLEAN)]
    /\ {base, asked, got} \subseteq Options

Init ==
    /\ manager = "nil" /\ hasTopic \in BOOLEAN
    /\ producer = "open" /\ once = "fresh"
    /\ closer = [c \in Closers |-> "idle"]
    /\ installed = FALSE /\ readers = {}
    /\ call = [x \in Installers |-> "idle"]
    /\ topic = [x \in Observed |-> FALSE] /\ err = [x \in Observed |-> "none"]
    /\ panics = {} /\ seen = [x \in Observed |-> {}]
    /\ base = SaramaDefaults /\ asked = SaramaDefaults /\ got = SaramaDefaults

-----------------------------------------------------------------------------
\* NewManager: no brokers or no producer, no manager.
NewManager ==
    /\ manager = "nil"
    /\ manager' = "made" \/ UNCHANGED manager
    /\ UNCHANGED <<hasTopic, closeVars, installed, readers, publishVars,
                   groupVars>>

-----------------------------------------------------------------------------
(* Publish and ObserveConsume.                                             *)

CallTo(x, pc) == call' = [call EXCEPT ![x] = pc]

\* The call is over: its arguments and results are forgotten.
Forget(x) ==
    /\ topic' = [topic EXCEPT ![x] = FALSE] /\ err' = [err EXCEPT ![x] = "none"]
    /\ seen' = [seen EXCEPT ![x] = {}]
    /\ panics' = panics \ {x}

\* With a nil manager Publish returns an error that no observer hears of.  An
\* empty topic is replaced by the configured one; a message without topic and
\* one whose context has ended are not sent.
Publish(p) ==
    /\ call[p] = "idle" /\ manager = "made"
    /\ \E given \in BOOLEAN :
          /\ topic' = [topic EXCEPT ![p] = given \/ hasTopic]
          /\ \/ topic'[p] /\ CallTo(p, "ready") /\ UNCHANGED err
             \/ /\ CallTo(p, "ended")
                /\ err' = [err EXCEPT ![p] =
                              IF topic'[p] THEN "context" ELSE "no topic"]
    /\ UNCHANGED <<manager, hasTopic, closeVars, installed, readers, panics,
                   seen, groupVars>>

\* SendMessage hands the message over.  A producer that is closing refuses it;
\* one that is closed panics, and the deferred function runs all the same.
SendMessage(p) ==
    /\ call[p] = "ready"
    /\ \/ producer = "open" /\ CallTo(p, "sending") /\ UNCHANGED <<err, panics>>
       \/ producer = "closing" /\ CallTo(p, "ended") /\ UNCHANGED panics
          /\ err' = [err EXCEPT ![p] = "not sent"]
       \/ producer = "closed" /\ CallTo(p, "ended") /\ UNCHANGED err
          /\ panics' = panics \cup {p}
    /\ UNCHANGED <<manager, hasTopic, closeVars, installed, readers, topic,
                   seen, groupVars>>

\* ... and returns when the brokers have answered, or not.
Answered(p) ==
    /\ call[p] = "sending" /\ CallTo(p, "ended")
    /\ \E e \in {"none", "not sent"} : err' = [err EXCEPT ![p] = e]
    /\ UNCHANGED <<manager, hasTopic, closeVars, installed, readers, topic,
                   panics, seen, groupVars>>

ObserveConsume(c) ==
    /\ call[c] = "idle" /\ manager = "made"
    /\ CallTo(c, "ended") /\ topic' = [topic EXCEPT ![c] = TRUE]
    /\ \E e \in {"none", "not sent"} : err' = [err EXCEPT ![c] = e]
    /\ UNCHANGED <<manager, hasTopic, closeVars, installed, readers, panics,
                   seen, groupVars>>

\* The snapshot takes observerMu for reading (a waiting writer has precedence)
\* and gives it back before the observer is called.
HeldDuringTheCall(x) == readers' = readers \cup {x}
GivenBack(x) == UNCHANGED readers

Snapshot(x) ==
    /\ call[x] = "ended" /\ \A y \in Installers : call[y] # "install"
    /\ \/ installed /\ CallTo(x, "observe") /\ GivenBack(x)
          /\ UNCHANGED <<topic, err, panics, seen>>
       \/ ~installed /\ CallTo(x, "idle") /\ Forget(x) /\ UNCHANGED readers
    /\ UNCHANGED <<manager, hasTopic, closeVars, installed, groupVars>>

\* The arguments of ObservePublish are read when it is called: the topic that
\* was resolved and the named result.
ReadEarly(x) == <<"none", topic[x]>>
Told(x) == <<err[x], topic[x]>>

\* The observer hears of the call; it may install another before it returns.
Observe(x) ==
    /\ call[x] = "observe"
    /\ seen' = [seen EXCEPT ![x] = @ \cup {Told(x)}]
    /\ CallTo(x, "install") \/ CallTo(x, "told")
    /\ UNCHANGED <<manager, hasTopic, closeVars, installed, readers, topic,
                   err, panics, groupVars>>

Return(x) ==
    /\ call[x] = "told" /\ CallTo(x, "idle") /\ Forget(x)
    /\ readers' = readers \ {x}
    /\ UNCHANGED <<manager, hasTopic, closeVars, installed, groupVars>>

-----------------------------------------------------------------------------
(* SetPublishObserver and SetConsumeObserver, by a goroutine of their own  *)
(* or by an observer.                                                      *)

Set(x) ==
    /\ call[x] = "idle" /\ manager = "made" /\ CallTo(x, "install")
    /\ UNCHANGED <<manager, hasTopic, closeVars, installed, readers, topic,
                   err, panics, seen, groupVars>>

Installs(x) ==
    /\ call[x] = "install" /\ readers = {}
    /\ installed' \in BOOLEAN
    /\ CallTo(x, IF x \in Observed THEN "told" ELSE "idle")
    /\ UNCHANGED <<manager, hasTopic, closeVars, readers, topic, err, panics,
                   seen, groupVars>>

-----------------------------------------------------------------------------
(* Close.                                                                  *)

CloserTo(c, pc) == closer' = [closer EXCEPT ![c] = pc]

ReturnsAtOnce == "returned"
WhileOnceIsBusy == "wait"

Close(c) ==
    /\ closer[c] = "idle" /\ manager = "made"
    /\ \/ once = "fresh" /\ once' = "busy" /\ CloserTo(c, "close")
          /\ producer' = "closing"
       \/ once = "busy" /\ CloserTo(c, WhileOnceIsBusy)
          /\ UNCHANGED <<once, producer>>
       \/ once = "done" /\ CloserTo(c, "returned")
          /\ UNCHANGED <<once, producer>>
    /\ UNCHANGED <<manager, hasTopic, installed, readers, publishVars,
                   groupVars>>

\* producer.Close waits for the messages that were handed over.
ProducerClosed(c) ==
    /\ closer[c] = "close" /\ \A p \in Publishers : call[p] # "sending"
    /\ producer' = "closed" /\ once' = "done" /\ CloserTo(c, "returned")
    /\ UNCHANGED <<manager, hasTopic, installed, readers, publishVars,
                   groupVars>>

OnceReturns(c) ==
    /\ closer[c] = "wait" /\ once = "done" /\ CloserTo(c, "returned")
    /\ UNCHANGED <<manager, hasTopic, producer, once, installed, readers,
                   publishVars, groupVars>>

-----------------------------------------------------------------------------
(* NewConsumerGroupWithOptions, and NewConsumerGroup with no options set.  *)

WithOptions(old, opts) ==
    [offset |-> IF opts.offset = "unset" THEN Newest ELSE opts.offset,
     strategies |-> IF opts.strategies = "unset" THEN old.strategies
                    ELSE opts.strategies]

\* cfg := *m.baseConf copies the configuration, and the options go into the
\* copy; a pointer to it would put them into the base.
IntoTheBase == base' = got'
IntoTheCopy == UNCHANGED base

NewConsumerGroup(opts) ==
    /\ manager = "made"
    /\ asked' = opts /\ got' = WithOptions(base, opts) /\ IntoTheCopy
    /\ UNCHANGED <<manager, hasTopic, closeVars, installed, readers,
                   publishVars>>

-----------------------------------------------------------------------------
CallStep(x) == Snapshot(x) \/ Observe(x) \/ Return(x)

System ==
    \/ \E p \in Publishers : SendMessage(p) \/ Answered(p)
    \/ \E x \in Observed : CallStep(x)
    \/ \E x \in Installers : Installs(x)
    \/ \E c \in Closers : ProducerClosed(c) \/ OnceReturns(c)

Application ==
    \/ \E p \in Publishers : Publish(p)
    \/ \E c \in Consumers : ObserveConsume(c)
    \/ \E x \in Setters : Set(x)
    \/ \E c \in Closers : Close(c)
    \/ \E opts \in Options : NewConsumerGroup(opts)

Work == System \/ Application

Next == NewManager \/ Work

Spec == Init /\ [][Next]_vars

-----------------------------------------------------------------------------
(* Properties.                                                             *)

\* When Publish returns or panics, its observer was told the error that the
\* caller gets and the topic that was resolved, not those of an earlier moment.
\* (A send on a closed producer panics and is reported as a success.)
ObservedAsReturned ==
    [][\A x \in Observed : call[x] = "told" /\ call'[x] = "idle"
           => seen[x] = {<<err[x], topic[x]>>}]_vars

InProgress ==
    \/ \E x \in Installers : call[x] # "idle"
    \/ \E c \in Closers : closer[c] \in {"close", "wait"}

\* What somebody's next step waits for: the guards of System.
MayStep ==
    \/ \E p \in Publishers : call[p] \in {"ready", "sending"}
    \/ \E x \in Observed :
          \/ call[x] \in {"observe", "told"}
          \/ call[x] = "ended" /\ \A y \in Installers : call[y] # "install"
    \/ \E x \in Installers : call[x] = "install" /\ readers = {}
    \/ \E c \in Closers :
          \/ closer[c] = "close" /\ \A p \in Publishers : call[p] # "sending"
          \/ closer[c] = "wait" /\ once = "done"

\* No Publish waits for ever for observerMu, not even when its observer installs
\* another one from within the call, and no Close for the one before it.
SomebodyMayStep == InProgress => MayStep

\* The same, with the guards checked against the steps themselves.
NobodyStuck == SomebodyMayStep /\ (MayStep => ENABLED System)

\* A Close that returns, the first or one that came while it was under way, has
\* a closed producer behind it and no message between the service and Kafka.
CloseCompletes ==
    (\E c \in Closers : closer[c] = "returned")
        => producer = "closed" /\ \A p \in Publishers : call[p] # "sending"

\* A group gets the options it was made with and the defaults for the rest,
\* whatever groups were made of the same base configuration before.
OptionsDoNotLeak == got = WithOptions(SaramaDefaults, asked)
=============================================================================
