------------------------- MODULE KafkaManagerProofs -------------------------
(* Theorems of KafkaManager: they hold for every number of goroutines that *)
(* publish, consume, set observers and close.                              *)
EXTENDS KafkaManager, TLAPS

-----------------------------------------------------------------------------
(* The inductive invariant.                                                *)

\* closeOnce has one runner, and the producer is at its place.
CloseInv ==
    /\ \A c, d \in Closers : closer[c] = "close" /\ closer[d] = "close" => c = d
    /\ \A c \in Closers : closer[c] = "close" => once = "busy"
    /\ \A c \in Closers : closer[c] = "returned" => once = "done"
    /\ once = "done" => /\ producer = "closed"
                        /\ \A p \in Publishers : call[p] # "sending"

\* No group has left anything in the base configuration.
OptionsInv == base = SaramaDefaults /\ OptionsDoNotLeak

\* An observer hears once of a call, and nothing of it changes any more.
ToldInv ==
    \A x \in Observed :
        /\ call[x] \in {"idle", "ready", "sending", "ended", "observe"}
               => seen[x] = {}
        /\ call[x] \in {"install", "told"} => seen[x] = {<<err[x], topic[x]>>}

KafkaInv == TypeOK /\ CloseInv /\ OptionsInv /\ ToldInv

-----------------------------------------------------------------------------
(* Initial states.                                                         *)

LEMMA InitKafkaInv == Init => KafkaInv
  <1> SUFFICES ASSUME Init PROVE KafkaInv OBVIOUS
  <1> USE DEF Init
  <1>1. TypeOK
    <2>1. seen \in [Observed -> SUBSET (Errors \X BOOLEAN)] BY DEF Observed
    <2>2. SaramaDefaults \in Options BY DEF Options, SaramaDefaults, Newest
    <2>3. {base, asked, got} \subseteq Options BY <2>2
    <2> QED BY <2>1, <2>3 DEF TypeOK, Errors
  <1>2. CloseInv BY DEF CloseInv
  <1>3. OptionsInv
    BY DEF OptionsInv, OptionsDoNotLeak, WithOptions, SaramaDefaults, Newest
  <1>4. ToldInv BY DEF ToldInv, Observed, Installers
  <1> QED BY <1>1, <1>2, <1>3, <1>4 DEF KafkaInv

-----------------------------------------------------------------------------
(* The steps of a goroutine whose call an observer hears of.               *)

\* A call touches neither closeOnce nor the producer, and begins to send only
\* while the producer is open.
LEMMA CallKeepsClose ==
  ASSUME CloseInv, UNCHANGED closeVars,
         \A p \in Publishers :
             call'[p] = "sending" => call[p] = "sending" \/ producer = "open"
  PROVE  CloseInv'
  BY DEF CloseInv, closeVars

LEMMA GroupsUntouched == OptionsInv /\ UNCHANGED groupVars => OptionsInv'
  BY DEF OptionsInv, OptionsDoNotLeak, groupVars, WithOptions

LEMMA PublishKeeps ==
  ASSUME KafkaInv, NEW p \in Publishers, Publish(p) PROVE KafkaInv'
  <1> USE DEF Publish, CallTo, Observed, Installers
  <1>1. TypeOK' BY DEF KafkaInv, TypeOK, Errors, closeVars, groupVars
  <1>2. CloseInv' BY CallKeepsClose DEF KafkaInv, TypeOK
  <1>3. OptionsInv' BY GroupsUntouched DEF KafkaInv
  <1>4. ToldInv' BY DEF KafkaInv, TypeOK, ToldInv
  <1> QED BY <1>1, <1>2, <1>3, <1>4 DEF KafkaInv

LEMMA SendMessageKeeps ==
  ASSUME KafkaInv, NEW p \in Publishers, SendMessage(p) PROVE KafkaInv'
  <1> USE DEF SendMessage, CallTo, Observed, Installers
  <1>1. TypeOK' BY DEF KafkaInv, TypeOK, Errors, closeVars, groupVars
  <1>2. CloseInv' BY CallKeepsClose DEF KafkaInv, TypeOK
  <1>3. OptionsInv' BY GroupsUntouched DEF KafkaInv
  <1>4. ToldInv' BY DEF KafkaInv, TypeOK, ToldInv
  <1> QED BY <1>1, <1>2, <1>3, <1>4 DEF KafkaInv

LEMMA AnsweredKeeps ==
  ASSUME KafkaInv, NEW p \in Publishers, Answered(p) PROVE KafkaInv'
  <1> USE DEF Answered, CallTo, Observed, Installers
  <1>1. TypeOK' BY DEF KafkaInv, TypeOK, Errors, closeVars, groupVars
  <1>2. CloseInv' BY CallKeepsClose DEF KafkaInv, TypeOK
  <1>3. OptionsInv' BY GroupsUntouched DEF KafkaInv
  <1>4. ToldInv' BY DEF KafkaInv, TypeOK, ToldInv
  <1> QED BY <1>1, <1>2, <1>3, <1>4 DEF KafkaInv

LEMMA ObserveConsumeKeeps ==
  ASSUME KafkaInv, NEW c \in Consumers, ObserveConsume(c) PROVE KafkaInv'
  <1> USE DEF ObserveConsume, CallTo, Observed, Installers
  <1>1. TypeOK' BY DEF KafkaInv, TypeOK, Errors, closeVars, groupVars
  <1>2. CloseInv' BY CallKeepsClose DEF KafkaInv, TypeOK
  <1>3. OptionsInv' BY GroupsUntouched DEF KafkaInv
  <1>4. ToldInv' BY DEF KafkaInv, TypeOK, ToldInv
  <1> QED BY <1>1, <1>2, <1>3, <1>4 DEF KafkaInv

LEMMA SnapshotKeeps ==
  ASSUME KafkaInv, NEW x \in Observed, Snapshot(x) PROVE KafkaInv'
  <1> USE DEF Snapshot, CallTo, Forget, GivenBack, Observed, Installers
  <1>1. TypeOK'
    <2>1. seen' \in [Observed -> SUBSET (Errors \X BOOLEAN)]
      BY DEF KafkaInv, TypeOK
    <2> QED BY <2>1 DEF KafkaInv, TypeOK, Errors, closeVars, groupVars
  <1>2. CloseInv' BY CallKeepsClose DEF KafkaInv, TypeOK
  <1>3. OptionsInv' BY GroupsUntouched DEF KafkaInv
  <1>4. ToldInv' BY DEF KafkaInv, TypeOK, ToldInv
  <1> QED BY <1>1, <1>2, <1>3, <1>4 DEF KafkaInv

LEMMA ObserveKeeps ==
  ASSUME KafkaInv, NEW x \in Observed, Observe(x) PROVE KafkaInv'
  <1> USE DEF Observe, CallTo, Told, Observed, Installers
  <1>1. TypeOK'
    <2>1. Told(x) \in Errors \X BOOLEAN BY DEF KafkaInv, TypeOK
    <2>2. seen' \in [Observed -> SUBSET (Errors \X BOOLEAN)]
      BY <2>1 DEF KafkaInv, TypeOK
    <2> QED BY <2>2 DEF KafkaInv, TypeOK, closeVars, groupVars
  <1>2. CloseInv' BY CallKeepsClose DEF KafkaInv, TypeOK
  <1>3. OptionsInv' BY GroupsUntouched DEF KafkaInv
  <1>4. ToldInv' BY DEF KafkaInv, TypeOK, ToldInv
  <1> QED BY <1>1, <1>2, <1>3, <1>4 DEF KafkaInv

LEMMA ReturnKeeps ==
  ASSUME KafkaInv, NEW x \in Observed, Return(x) PROVE KafkaInv'
  <1> USE DEF Return, CallTo, Forget, Observed, Installers
  <1>1. TypeOK' BY DEF KafkaInv, TypeOK, Errors, closeVars, groupVars
  <1>2. CloseInv' BY CallKeepsClose DEF KafkaInv, TypeOK
  <1>3. OptionsInv' BY GroupsUntouched DEF KafkaInv
  <1>4. ToldInv' BY DEF KafkaInv, TypeOK, ToldInv
  <1> QED BY <1>1, <1>2, <1>3, <1>4 DEF KafkaInv

-----------------------------------------------------------------------------
(* The other steps.                                                        *)

LEMMA SetKeeps ==
  ASSUME KafkaInv, NEW x \in Setters, Set(x) PROVE KafkaInv'
  <1> USE DEF Set, CallTo, Observed, Installers
  <1>1. TypeOK' BY DEF KafkaInv, TypeOK, closeVars, groupVars
  <1>2. CloseInv' BY CallKeepsClose DEF KafkaInv, TypeOK
  <1>3. OptionsInv' BY GroupsUntouched DEF KafkaInv
  <1>4. ToldInv' BY KafkaAssumption DEF KafkaInv, TypeOK, ToldInv
  <1> QED BY <1>1, <1>2, <1>3, <1>4 DEF KafkaInv

LEMMA InstallsKeeps ==
  ASSUME KafkaInv, NEW x \in Installers, Installs(x) PROVE KafkaInv'
  <1> USE DEF Installs, CallTo, Observed, Installers
  <1>1. TypeOK' BY DEF KafkaInv, TypeOK, closeVars, groupVars
  <1>2. CloseInv' BY CallKeepsClose DEF KafkaInv, TypeOK
  <1>3. OptionsInv' BY GroupsUntouched DEF KafkaInv
  <1>4. ToldInv' BY DEF KafkaInv, TypeOK, ToldInv
  <1> QED BY <1>1, <1>2, <1>3, <1>4 DEF KafkaInv

LEMMA CallsUntouched == ToldInv /\ UNCHANGED publishVars => ToldInv'
  BY DEF ToldInv, publishVars

LEMMA CloseKeeps ==
  ASSUME KafkaInv, NEW c \in Closers, Close(c) PROVE KafkaInv'
  <1> USE DEF Close, CloserTo, WhileOnceIsBusy
  <1>1. TypeOK' BY DEF KafkaInv, TypeOK, publishVars, groupVars
  <1>2. CloseInv' BY DEF KafkaInv, TypeOK, CloseInv, publishVars
  <1>3. OptionsInv' BY GroupsUntouched DEF KafkaInv
  <1>4. ToldInv' BY CallsUntouched DEF KafkaInv
  <1> QED BY <1>1, <1>2, <1>3, <1>4 DEF KafkaInv

LEMMA ProducerClosedKeeps ==
  ASSUME KafkaInv, NEW c \in Closers, ProducerClosed(c) PROVE KafkaInv'
  <1> USE DEF ProducerClosed, CloserTo
  <1>1. TypeOK' BY DEF KafkaInv, TypeOK, publishVars, groupVars
  <1>2. CloseInv' BY DEF KafkaInv, TypeOK, CloseInv, publishVars
  <1>3. OptionsInv' BY GroupsUntouched DEF KafkaInv
  <1>4. ToldInv' BY CallsUntouched DEF KafkaInv
  <1> QED BY <1>1, <1>2, <1>3, <1>4 DEF KafkaInv

LEMMA OnceReturnsKeeps ==
  ASSUME KafkaInv, NEW c \in Closers, OnceReturns(c) PROVE KafkaInv'
  <1> USE DEF OnceReturns, CloserTo
  <1>1. TypeOK' BY DEF KafkaInv, TypeOK, publishVars, groupVars
  <1>2. CloseInv' BY DEF KafkaInv, TypeOK, CloseInv, publishVars
  <1>3. OptionsInv' BY GroupsUntouched DEF KafkaInv
  <1>4. ToldInv' BY CallsUntouched DEF KafkaInv
  <1> QED BY <1>1, <1>2, <1>3, <1>4 DEF KafkaInv

LEMMA NewManagerKeeps == ASSUME KafkaInv, NewManager PROVE KafkaInv'
  <1> USE DEF NewManager
  <1>1. TypeOK' BY DEF KafkaInv, TypeOK, publishVars, groupVars, closeVars
  <1>2. CloseInv' BY DEF KafkaInv, CloseInv, publishVars, closeVars
  <1>3. OptionsInv' BY GroupsUntouched DEF KafkaInv
  <1>4. ToldInv' BY CallsUntouched DEF KafkaInv
  <1> QED BY <1>1, <1>2, <1>3, <1>4 DEF KafkaInv

\* The group gets a copy of the base, which is what sarama's defaults make.
LEMMA NewConsumerGroupKeeps ==
  ASSUME KafkaInv, NEW opts \in Options, NewConsumerGroup(opts)
  PROVE  KafkaInv'
  <1> USE DEF NewConsumerGroup, IntoTheCopy
  <1>1. got' \in Options
    BY DEF KafkaInv, TypeOK, WithOptions, Options, Newest
  <1>2. TypeOK'
    BY <1>1 DEF KafkaInv, TypeOK, publishVars, closeVars
  <1>3. CloseInv' BY DEF KafkaInv, CloseInv, publishVars, closeVars
  <1>4. OptionsInv'
    BY DEF KafkaInv, OptionsInv, OptionsDoNotLeak
  <1>5. ToldInv' BY CallsUntouched DEF KafkaInv
  <1> QED BY <1>2, <1>3, <1>4, <1>5 DEF KafkaInv

-----------------------------------------------------------------------------
LEMMA StepKeeps == KafkaInv /\ [Next]_vars => KafkaInv'
  <1> SUFFICES ASSUME KafkaInv, [Next]_vars PROVE KafkaInv' OBVIOUS
  <1>1. CASE NewManager BY <1>1, NewManagerKeeps
  <1>2. CASE System
    BY <1>2, SendMessageKeeps, AnsweredKeeps, SnapshotKeeps, ObserveKeeps,
       ReturnKeeps, InstallsKeeps, ProducerClosedKeeps, OnceReturnsKeeps
       DEF System, CallStep
  <1>3. CASE Application
    BY <1>3, PublishKeeps, ObserveConsumeKeeps, SetKeeps, CloseKeeps,
       NewConsumerGroupKeeps DEF Application
  <1>4. CASE UNCHANGED vars
    BY <1>4 DEF KafkaInv, TypeOK, CloseInv, OptionsInv, OptionsDoNotLeak,
       WithOptions, ToldInv, vars, closeVars, publishVars, groupVars
  <1> QED BY <1>1, <1>2, <1>3, <1>4 DEF Next, Work

\* The invariant holds throughout: one runner of closeOnce, an untouched base
\* configuration, and observers that hear once of every call.
THEOREM KafkaInvariant == Spec => []KafkaInv
  BY InitKafkaInv, StepKeeps, PTL DEF Spec

\* No Close returns before the producer is closed and every message that was
\* handed over has its answer, however many Closes and publishers race.
THEOREM CloseIsComplete == Spec => []CloseCompletes
  <1>1. KafkaInv => CloseCompletes BY DEF KafkaInv, CloseInv, CloseCompletes
  <1> QED BY <1>1, KafkaInvariant, PTL

\* The options of one consumer group never reach another.
THEOREM OptionsStayPut == Spec => []OptionsDoNotLeak
  <1>1. KafkaInv => OptionsDoNotLeak BY DEF KafkaInv, OptionsInv
  <1> QED BY <1>1, KafkaInvariant, PTL

\* A call that an observer hears of returns what the observer was told.
THEOREM ObserversAreRight == Spec => ObservedAsReturned
  <1>1. KafkaInv => \A x \in Observed : call[x] = "told" /\ call'[x] = "idle"
                        => seen[x] = {<<err[x], topic[x]>>}
    BY DEF KafkaInv, ToldInv
  <1>2. KafkaInv => [\A x \in Observed : call[x] = "told" /\ call'[x] = "idle"
                        => seen[x] = {<<err[x], topic[x]>>}]_vars
    BY <1>1
  <1> QED BY <1>2, KafkaInvariant, PTL DEF ObservedAsReturned

-----------------------------------------------------------------------------
(* Nobody waits for ever.                                                  *)

\* observerMu is never held for reading across a call of an observer, the
\* goroutines do nothing but their own calls, and a closeOnce that is busy has
\* somebody in producer.Close.
FreeInv ==
    /\ readers = {}
    /\ \A x \in Setters : call[x] \in {"idle", "install"}
    /\ \A x \in Consumers : call[x] \notin {"ready", "sending"}
    /\ once = "busy" => \E c \in Closers : closer[c] = "close"
    /\ \A c \in Closers : closer[c] = "wait" => once # "fresh"

LEMMA InitFreeInv == Init => FreeInv
  BY DEF Init, FreeInv, Installers, Observed

\* The steps of calls leave Close alone, ...
LEMMA CallKeepsFree ==
  ASSUME FreeInv, UNCHANGED closeVars, readers' = {},
         \A x \in Setters : call'[x] \in {"idle", "install"},
         \A x \in Consumers : call'[x] \notin {"ready", "sending"}
  PROVE  FreeInv'
  BY DEF FreeInv, closeVars

LEMMA PublishStepsKeepFree ==
  ASSUME TypeOK, FreeInv, NEW p \in Publishers,
         Publish(p) \/ SendMessage(p) \/ Answered(p)
  PROVE  FreeInv'
  <1>1. UNCHANGED <<closeVars, readers>> /\ \E pc : CallTo(p, pc)
    BY DEF Publish, SendMessage, Answered, CallTo
  <1>2. p \notin Setters /\ p \notin Consumers BY KafkaAssumption
  <1> QED
    BY <1>1, <1>2, CallKeepsFree
       DEF CallTo, FreeInv, TypeOK, Installers, Observed

LEMMA ObservedStepsKeepFree ==
  ASSUME TypeOK, FreeInv, NEW x \in Observed, CallStep(x) \/ Installs(x)
  PROVE  FreeInv'
  <1>1. /\ UNCHANGED closeVars /\ readers' = {}
        /\ \E pc \in {"idle", "observe", "install", "told"} : CallTo(x, pc)
    BY DEF CallStep, Snapshot, Observe, Return, Installs, GivenBack, FreeInv,
           CallTo
  <1>2. x \notin Setters BY KafkaAssumption DEF Observed
  <1> QED
    BY <1>1, <1>2, CallKeepsFree DEF CallTo, FreeInv, TypeOK, Installers

LEMMA SetterStepsKeepFree ==
  ASSUME TypeOK, FreeInv, NEW x \in Setters, Set(x) \/ Installs(x)
  PROVE  FreeInv'
  <1>1. x \notin Observed BY KafkaAssumption DEF Observed
  <1>2. /\ UNCHANGED <<closeVars, readers>>
        /\ \E pc \in {"idle", "install"} : CallTo(x, pc)
    BY <1>1 DEF Set, Installs
  <1>3. x \notin Consumers BY KafkaAssumption
  <1> QED
    BY <1>2, <1>3, CallKeepsFree
       DEF CallTo, FreeInv, TypeOK, Installers, Observed

LEMMA ConsumeKeepsFree ==
  ASSUME TypeOK, FreeInv, NEW c \in Consumers, ObserveConsume(c)
  PROVE  FreeInv'
  BY CallKeepsFree, KafkaAssumption
     DEF ObserveConsume, CallTo, FreeInv, TypeOK, Installers, Observed

\* ... and those of Close the calls.
LEMMA CloseStepsKeepFree ==
  ASSUME TypeOK, CloseInv, FreeInv, NEW c \in Closers,
         Close(c) \/ ProducerClosed(c) \/ OnceReturns(c)
  PROVE  FreeInv'
  <1> USE DEF FreeInv, TypeOK, CloserTo, publishVars
  <1>1. CASE Close(c) BY <1>1 DEF Close, WhileOnceIsBusy
  <1>2. CASE ProducerClosed(c) BY <1>2 DEF ProducerClosed
  <1>3. CASE OnceReturns(c) BY <1>3 DEF OnceReturns
  <1> QED BY <1>1, <1>2, <1>3

LEMMA FreeStep == KafkaInv /\ FreeInv /\ [Next]_vars => FreeInv'
  <1> SUFFICES ASSUME TypeOK, CloseInv, FreeInv, [Next]_vars PROVE FreeInv'
    BY DEF KafkaInv
  <1>1. CASE NewManager \/ UNCHANGED vars
              \/ \E opts \in Options : NewConsumerGroup(opts)
    BY <1>1, CallKeepsFree
       DEF NewManager, NewConsumerGroup, vars, publishVars, FreeInv
  <1>2. CASE System
    BY <1>2, PublishStepsKeepFree, ObservedStepsKeepFree,
       SetterStepsKeepFree, CloseStepsKeepFree DEF System, Installers
  <1>3. CASE Application
    BY <1>1, <1>3, PublishStepsKeepFree, ConsumeKeepsFree,
       SetterStepsKeepFree, CloseStepsKeepFree DEF Application
  <1> QED BY <1>1, <1>2, <1>3 DEF Next, Work

\* A caller waits for a goroutine that installs an observer, which waits for no
\* reader; a Close waits for the first one, that for the brokers' answers, and
\* these come.
LEMMA FreeIsNotStuck == TypeOK /\ FreeInv => SomebodyMayStep
  <1> SUFFICES ASSUME TypeOK, FreeInv, ~MayStep PROVE ~InProgress
    BY DEF SomebodyMayStep
  <1>1. \A x \in Installers : call[x] # "install"
    BY DEF MayStep, FreeInv
  <1>2. \A x \in Observed : call[x] \notin {"observe", "told", "ended"}
    BY <1>1 DEF MayStep
  <1>3. \A p \in Publishers : call[p] \notin {"ready", "sending"}
    BY DEF MayStep
  <1>4. ASSUME NEW x \in Installers PROVE call[x] = "idle"
    BY <1>1, <1>2, <1>3 DEF TypeOK, FreeInv, Installers, Observed
  <1>5. \A c \in Closers : closer[c] # "close"
    BY <1>3 DEF MayStep
  <1>6. \A c \in Closers : closer[c] # "wait"
    BY <1>5 DEF MayStep, FreeInv, TypeOK
  <1> QED BY <1>4, <1>5, <1>6 DEF InProgress

\* As long as a call or a Close is under way the guard of somebody's next step
\* holds, however many of them there are.
THEOREM NobodyWaitsForEver == Spec => []SomebodyMayStep
  <1>1. KafkaInv /\ FreeInv => SomebodyMayStep
    BY FreeIsNotStuck DEF KafkaInv
  <1> QED BY <1>1, KafkaInvariant, InitFreeInv, FreeStep, PTL DEF Spec
=============================================================================
