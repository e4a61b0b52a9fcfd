----------------------------- MODULE ServiceStart ----------------------------
(***************************************************************************)
(* How a service comes up: the configuration and the secrets of pkg/config *)
(* and the Init functions of pkg/bootstrap, called by one goroutine in the *)
(* order of the example in bootstrap/doc.go, with the defaults of          *)
(* config/defaults.go applied by the services that do so.                  *)
(*                                                                         *)
(* A machine is what the service finds when it starts.  Of the settings,   *)
(* the model keeps the targets of secrets, the trace exporter and the      *)
(* numbers that have to fit each other.                                    *)
(***************************************************************************)
EXTENDS Integers, Sequences

CONSTANTS
    Machines,       \* what a service may find, see TypeOK
    Definitions     \* Seq of [name, file, target, default, required]

Absent == "absent"      \* a variable that is not set, no target, no number

Numbers == {"lease", "renew", "base", "max", "idle", "open"}
Default == [lease |-> 120, renew |-> 30, base |-> 1, max |-> 15,
            idle |-> 5, open |-> 10]

VARIABLES
    machine,    \* the machine, with the options the service is built with
    pc,         \* the next call of main
    env,        \* the environment of the process
    text,       \* the settings that are strings
    number,     \* the settings that are numbers
    injected,   \* how many secrets have been injected
    logging,    \* what InitLogger has set up
    redis,      \* the client: "none", "open" (not returned), "owned"
    exporter,   \* the span exporter: "none", "lost" (nobody has it any more),
                \* "installed", or after its Shutdown "closed" or "unflushed"
    shutdown    \* what InitTracing returned: "none", "nil", "no-op", "provider"

vars == <<machine, pc, env, text, number, injected, logging, redis, exporter,
          shutdown>>

\* What is taken for granted of a machine: it says of every file that a service
\* may look for whether it is there, and its settings have numbers for numbers.
IsMachine(m) ==
    /\ "APP_ENV" \in DOMAIN m.env
    /\ \A i \in DOMAIN Definitions :
          {Definitions[i].file, Definitions[i].name} \subseteq DOMAIN m.env
    /\ \A e \in {m.env, m.dotenv.vars} :
          /\ e["APP_ENV"] \in DOMAIN m.yaml \cup {"", Absent}
          /\ \A i \in DOMAIN Definitions :
                e[Definitions[i].file] \in DOMAIN m.disk \cup {"", Absent}
    /\ "dev" \in DOMAIN m.yaml
    /\ \A x \in DOMAIN m.yaml : m.yaml[x].number \in [Numbers -> Int]
    /\ DOMAIN m.disk \cap {"", Absent} = {}
    /\ \A p \in DOMAIN m.disk : m.disk[p] # Absent

AreDefinitions ==
    Definitions \in Seq([name : STRING, file : STRING, target : STRING,
                         default : STRING \ {Absent}, required : BOOLEAN])

Calls  == {"dotenv", "config", "secrets", "defaults", "logger", "redis",
           "tracing", "kafka", "serve"}
Ends   == {"fatal", "stopped", "panicked"}

TypeOK ==
    /\ machine \in Machines /\ pc \in Calls \cup Ends
    /\ DOMAIN env = DOMAIN machine.env
    /\ \A k \in DOMAIN text : text[k] # Absent
    /\ DOMAIN number = Numbers /\ \A n \in Numbers : number[n] \in Int
    /\ injected \in 0 .. Len(Definitions)
    /\ logging \subseteq {"level", "file", "hook"}
    /\ redis \in {"none", "open", "owned"}
    /\ exporter \in {"none", "lost", "installed", "closed", "unflushed"}
    /\ shutdown \in {"none", "nil", "no-op", "provider"}

-----------------------------------------------------------------------------
\* os.Getenv: a variable that is not set reads as an empty one.
Getenv(e, v) == IF e[v] = Absent THEN "" ELSE e[v]

\* strings.TrimSpace, of the contents that a file may have
TrimSpace(contents) == IF contents = "\n" THEN "" ELSE contents

\* A file that can be read wins over the variable even when it is blank; one
\* that cannot be read is passed over.
GetSecretOrEnv(d) ==
    LET path == Getenv(env, d.file) IN
    IF path # "" /\ machine.disk[path] # "unreadable"
    THEN TrimSpace(machine.disk[path])
    ELSE IF Getenv(env, d.name) # "" THEN Getenv(env, d.name) ELSE d.default

\* godotenv.Load sets the variables that the process does not have.  An empty
\* variable is one it has.
Overload(old, file) ==
    [v \in DOMAIN old |-> IF file[v] # Absent THEN file[v] ELSE old[v]]
Load(old, file) ==
    [v \in DOMAIN old |-> IF old[v] = Absent THEN file[v] ELSE old[v]]

GetEnv == IF Getenv(env, "APP_ENV") = "" THEN "dev" ELSE Getenv(env, "APP_ENV")

\* With a prefix, viper takes a key from a variable that is not empty, but
\* Unmarshal knows only the keys of the file.
KeepAbsent(file) == [k \in DOMAIN text |-> file[k]]
Unmarshal(file) ==
    [k \in DOMAIN text |->
        CASE file[k] = Absent -> ""
          [] file[k] # Absent /\ k \in DOMAIN env /\ machine.prefixed
                /\ Getenv(env, k) # "" -> env[k]
          [] OTHER -> file[k]]

-----------------------------------------------------------------------------
Init ==
    /\ machine \in Machines /\ pc = "dotenv" /\ env = machine.env
    /\ text = [k \in DOMAIN machine.yaml["dev"].text |-> ""]
    /\ number = [n \in Numbers |-> 0]
    /\ injected = 0 /\ logging = {} /\ redis = "none"
    /\ exporter = "none" /\ shutdown = "none"

\* LoadConfig, the .env file: it may be missing, but not malformed.
LoadDotenv ==
    /\ pc = "dotenv"
    /\ \/ machine.dotenv.state = "bad" /\ pc' = "fatal" /\ UNCHANGED env
       \/ machine.dotenv.state = "missing" /\ pc' = "config" /\ UNCHANGED env
       \/ /\ machine.dotenv.state = "good" /\ pc' = "config"
          /\ env' = Load(env, machine.dotenv.vars)
    /\ UNCHANGED <<machine, text, number, injected, logging, redis, exporter,
                   shutdown>>

\* LoadConfig, config_<env>.yaml: it may be missing if the options allow that.
LoadConfig ==
    /\ pc = "config"
    /\ LET file == machine.yaml[GetEnv] IN
       CASE file.state = "good" ->
               /\ pc' = "secrets" /\ text' = Unmarshal(file.text)
               /\ number' = file.number
         [] file.state = "missing" /\ machine.allowNoConfig ->
               pc' = "secrets" /\ UNCHANGED <<text, number>>
         [] OTHER -> pc' = "fatal" /\ UNCHANGED <<text, number>>
    /\ UNCHANGED <<machine, env, injected, logging, redis, exporter, shutdown>>

\* LoadConfigWithSecrets: the definitions in order, until a required one is
\* missing.  What a secret resolves to replaces what the file said.
Missing(d) == d.required /\ GetSecretOrEnv(d) = ""

InjectSecret ==
    /\ pc = "secrets" /\ injected < Len(Definitions)
    /\ LET d == Definitions[injected + 1] IN
       \/ /\ Missing(d) /\ pc' = "fatal" /\ UNCHANGED <<text, injected>>
       \/ /\ ~Missing(d) /\ UNCHANGED pc /\ injected' = injected + 1
          /\ text' = [k \in DOMAIN text |->
                        IF k = d.target THEN GetSecretOrEnv(d) ELSE text[k]]
    /\ UNCHANGED <<machine, env, number, logging, redis, exporter, shutdown>>

SecretsInjected ==
    /\ pc = "secrets" /\ injected = Len(Definitions) /\ pc' = "defaults"
    /\ UNCHANGED <<machine, env, text, number, injected, logging, redis,
                   exporter, shutdown>>

\* The ApplyDefaults methods: a number that is not positive, and an exporter
\* that is not named, get their default.
DefaultedIfZero(n) == IF number[n] = 0 THEN Default[n] ELSE number[n]
Defaulted(n) == IF number[n] <= 0 THEN Default[n] ELSE number[n]

ApplyDefaults ==
    /\ pc = "defaults" /\ pc' = "logger"
    /\ \/ /\ machine.defaults /\ number' = [n \in Numbers |-> Defaulted(n)]
          /\ text' = [text EXCEPT !["exporter"] = IF @ = "" THEN "stdout" ELSE @]
       \/ ~machine.defaults /\ UNCHANGED <<text, number>>
    /\ UNCHANGED <<machine, env, injected, logging, redis, exporter, shutdown>>

\* InitLogger sets the format and the level; with a file it sets the output and
\* then the container hook, unless the file cannot be set up.
InitLogger ==
    /\ pc = "logger"
    /\ \/ /\ ~machine.logFile /\ logging' = {"level"} /\ pc' = "redis"
       \/ /\ machine.logFile
          /\ \/ logging' = {"level", "file", "hook"} /\ pc' = "redis"
             \/ logging' = {"level"} /\ pc' = "fatal"
    /\ UNCHANGED <<machine, env, text, number, injected, redis, exporter,
                   shutdown>>

\* A client that cannot be pinged is not returned, and not closed either.
InitRedis ==
    /\ pc = "redis"
    /\ \/ redis' = "owned" /\ pc' = "tracing"
       \/ redis' = "open" /\ pc' = "fatal"
    /\ UNCHANGED <<machine, env, text, number, injected, logging, exporter,
                   shutdown>>

\* InitTracing returns no shutdown function with an error, and the example only
\* warns of one.  An exporter is lost when the resources do not merge.
TracingOff == text["exporter"] \in {"", "disabled"}

InitTracing ==
    /\ pc = "tracing" /\ pc' = "kafka"
    /\ \/ TracingOff /\ shutdown' = "no-op" /\ UNCHANGED exporter
       \/ ~TracingOff /\ shutdown' = "nil" /\ exporter' \in {"none", "lost"}
       \/ ~TracingOff /\ shutdown' = "provider" /\ exporter' = "installed"
    /\ UNCHANGED <<machine, env, text, number, injected, logging, redis>>

\* InitKafka, and what main makes of its error; a service without Kafka does
\* not call it.  log.Fatal runs no deferred function.
InitKafka(failed) ==
    /\ pc = "kafka"
    /\ \/ ~failed /\ pc' = "serve"
       \/ failed /\ pc' = "fatal"
    /\ UNCHANGED <<machine, env, text, number, injected, logging, redis,
                   exporter, shutdown>>

\* main returns and runs defer shutdown(ctx).  The provider's Shutdown gives up
\* when ctx has ended, and its error is dropped.
Return ==
    /\ pc = "serve"
    /\ \/ shutdown = "nil" /\ pc' = "panicked" /\ UNCHANGED exporter
       \/ shutdown = "no-op" /\ pc' = "stopped" /\ UNCHANGED exporter
       \/ /\ shutdown = "provider" /\ pc' = "stopped"
          /\ exporter' \in {"closed", "unflushed"}
    /\ UNCHANGED <<machine, env, text, number, injected, logging, redis,
                   shutdown>>

Start ==
    LoadDotenv \/ LoadConfig \/ InjectSecret \/ SecretsInjected
    \/ ApplyDefaults \/ InitLogger \/ InitRedis \/ InitTracing

-----------------------------------------------------------------------------
(* Properties.                                                             *)

\* What the machine says of a secret, with the rank of each source: the file,
\* the variable of the process or else of .env, the default.
Variable(v) ==
    IF machine.env[v] = Absent /\ machine.dotenv.state = "good"
    THEN machine.dotenv.vars[v] ELSE machine.env[v]

Sources(d) ==
    {<<1, TrimSpace(machine.disk[p])>> :
        p \in {q \in DOMAIN machine.disk :
                  q = Variable(d.file) /\ machine.disk[q] # "unreadable"}}
    \cup {<<2, v>> : v \in {Variable(d.name)} \ {"", Absent}}
    \cup {<<3, d.default>>}

Resolved(d) ==
    (CHOOSE s \in Sources(d) : \A t \in Sources(d) : s[1] <= t[1])[2]

\* No secret injected after the i-th has its target.
LastOfTarget(i) ==
    \A j \in i + 1 .. injected :
        Definitions[j].target # Definitions[i].target

\* A target holds what its last secret resolves to by rank: a .env file never
\* overrides a variable of the process, not even an empty one, and nothing of
\* the configuration file is left in a target.  A service that gets past its
\* secrets has all the required ones.  (An empty exporter may get its default.)
SecretsResolved ==
    /\ \A i \in 1 .. injected :
          LET d == Definitions[i] IN
          /\ d.target \in DOMAIN text /\ LastOfTarget(i)
                => \/ text[d.target] = Resolved(d)
                   \/ d.target = "exporter" /\ Resolved(d) = ""
          /\ d.required => Resolved(d) # ""
    /\ pc \notin {"dotenv", "config", "secrets", "fatal"}
          => injected = Len(Definitions)

\* Where the defaults are applied, a renewal comes before the lease ends, a
\* backoff starts below its limit and no more connections are idle than may be
\* open, unless the file sets one number of the pair by itself.
Configured(n) == machine.yaml[GetEnv].number[n] > 0

DefaultsAgree ==
    machine.defaults /\ pc \notin {"dotenv", "config", "secrets", "defaults",
                                   "fatal"}
        => /\ \A n \in Numbers : number[n] > 0
           /\ \A p \in {<<"renew", "lease">>, <<"base", "max">>,
                        <<"idle", "open">>} :
                 number[p[1]] <= number[p[2]]
                     \/ Configured(p[1]) \/ Configured(p[2])
=============================================================================
