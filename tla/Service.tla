------------------------------- MODULE Service ------------------------------
(***************************************************************************)
(* A service: main comes up as in ServiceStart and makes the manager of    *)
(* KafkaManager on its way, the goroutines use it while main serves, and   *)
(* main closes it before it returns.                                       *)
(***************************************************************************)
EXTENDS Integers, KafkaManager

CONSTANTS Machines, Definitions

VARIABLES
    machine, pc, env, text, number, injected, logging, redis, exporter,
    shutdown

Main == INSTANCE ServiceStart

ASSUME ServiceAssumption ==
    Main!AreDefinitions /\ \A m \in Machines : Main!IsMachine(m)

mainVars == <<machine, pc, env, text, number, injected, logging, redis,
              exporter, shutdown>>

ServiceInit == Init /\ Main!Init

MainStarts == Main!Start /\ UNCHANGED vars

\* bootstrap.InitKafka.  A service without Kafka, or one that goes on without
\* it, has a nil manager, whose methods return at once.
InitKafka ==
    /\ NewManager
    /\ \E failed \in BOOLEAN :
          Main!InitKafka(failed) /\ (failed => manager' = "nil")

Serves == pc = "serve" /\ Work /\ UNCHANGED mainVars

\* main returns when a Close has, if there is a manager.
MainReturns ==
    /\ manager = "nil" \/ \E c \in Closers : closer[c] = "returned"
    /\ Main!Return /\ UNCHANGED vars

ServiceNext == MainStarts \/ InitKafka \/ Serves \/ MainReturns

ServiceSpec == ServiceInit /\ [][ServiceNext]_<<vars, mainVars>>

-----------------------------------------------------------------------------
(* The properties of ServiceStart, of the service as a whole.              *)

\* Every variable of the two parts holds a value of its type.
ServiceTypeOK == TypeOK /\ Main!TypeOK

\* Every target of a secret holds what the machine says of it, by rank.
SecretsResolved == Main!SecretsResolved

\* Numbers that depend on each other agree unless one of them was configured.
DefaultsAgree == Main!DefaultsAgree
=============================================================================
