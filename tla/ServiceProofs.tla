---------------------------- MODULE ServiceProofs ---------------------------
(* Theorems of Service: they hold for every machine, every list of secrets *)
(* and every number of goroutines.                                         *)
EXTENDS Service, KafkaManagerProofs, Sequences

-----------------------------------------------------------------------------
(* The manager in the service is the one that KafkaManager describes.      *)

LEMMA ServiceStep == [ServiceNext]_<<vars, mainVars>> => [Next]_vars
  BY DEF ServiceNext, MainStarts, InitKafka, Serves, MainReturns, Next

\* The goroutines of a service get no more of its manager than Next allows:
\* main adds only that the manager is made before it is used, and that main
\* waits for a Close.
THEOREM ServiceUsesKafka == ServiceSpec => Spec
  BY ServiceStep, PTL DEF ServiceSpec, ServiceInit, Spec

\* In the service a Close that returned has closed the producer, with nothing
\* on its way; groups get their own options; observers hear what is returned;
\* and no Publish and no Close waits for ever.
THEOREM ServiceKeepsKafka ==
  ServiceSpec => /\ []CloseCompletes /\ []OptionsDoNotLeak
                 /\ ObservedAsReturned /\ []SomebodyMayStep
  BY ServiceUsesKafka, CloseIsComplete, OptionsStayPut, ObserversAreRight,
     NobodyWaitsForEver, PTL

-----------------------------------------------------------------------------
(* The environment.  It is that of the machine until LoadDotenv, and with   *)
(* the variables of .env that the process does not have afterwards; nobody  *)
(* writes it again.                                                         *)

EnvInv ==
    /\ machine \in Machines
    /\ \/ env = machine.env /\ (pc = "dotenv" \/ machine.dotenv.state # "good")
       \/ /\ pc # "dotenv" /\ machine.dotenv.state = "good"
          /\ env = Main!Load(machine.env, machine.dotenv.vars)

\* After LoadDotenv a variable is what the properties call Variable.
LEMMA EnvIsVariable ==
  ASSUME EnvInv, pc # "dotenv"
  PROVE  /\ DOMAIN env = DOMAIN machine.env
         /\ \A v \in DOMAIN machine.env : env[v] = Main!Variable(v)
  BY DEF EnvInv, Main!Load, Main!Variable

\* The steps of main that do not load the environment leave it alone.
LEMMA EnvUntouched ==
  [ServiceNext]_<<vars, mainVars>> /\ ~Main!LoadDotenv
      => UNCHANGED <<machine, env>> /\ (pc' = "dotenv" => pc = "dotenv")
         /\ (pc = "dotenv" => pc' = pc)
  <1> SUFFICES ASSUME [ServiceNext]_<<vars, mainVars>>, ~Main!LoadDotenv
               PROVE  /\ UNCHANGED <<machine, env>>
                      /\ pc' = "dotenv" => pc = "dotenv"
                      /\ pc = "dotenv" => pc' = pc
    OBVIOUS
  <1>1. CASE MainStarts
    BY <1>1
       DEF MainStarts, Main!Start, Main!LoadConfig, Main!InjectSecret,
           Main!SecretsInjected, Main!ApplyDefaults, Main!InitLogger,
           Main!InitRedis, Main!InitTracing
  <1>2. CASE InitKafka
    BY <1>2 DEF InitKafka, Main!InitKafka
  <1>3. CASE Serves \/ UNCHANGED <<vars, mainVars>>
    BY <1>3 DEF Serves, mainVars
  <1>4. CASE MainReturns
    BY <1>4 DEF MainReturns, Main!Return
  <1> QED BY <1>1, <1>2, <1>3, <1>4 DEF ServiceNext

LEMMA InitEnvInv == ServiceInit => EnvInv
  BY DEF ServiceInit, Main!Init, EnvInv

LEMMA EnvStep == EnvInv /\ [ServiceNext]_<<vars, mainVars>> => EnvInv'
  <1> SUFFICES ASSUME EnvInv, [ServiceNext]_<<vars, mainVars>> PROVE EnvInv'
    OBVIOUS
  <1>1. CASE Main!LoadDotenv
    BY <1>1 DEF Main!LoadDotenv, EnvInv
  <1>2. CASE ~Main!LoadDotenv
    BY <1>2, EnvUntouched DEF EnvInv
  <1> QED BY <1>1, <1>2

-----------------------------------------------------------------------------
(* The numbers and their defaults.                                          *)

BeforeDefaults == {"dotenv", "config", "secrets", "defaults"}

NumberInv ==
    /\ number \in [Main!Numbers -> Int]
    /\ pc \in {"dotenv", "config"} => \A n \in Main!Numbers : number[n] = 0
    /\ pc \in {"secrets", "defaults"} =>
          \A n \in Main!Numbers : number[n] > 0 => Main!Configured(n)
    /\ machine.defaults /\ pc \notin BeforeDefaults \cup {"fatal"} =>
          \A n \in Main!Numbers :
              /\ number[n] > 0
              /\ Main!Configured(n) \/ number[n] = Main!Default[n]

LEMMA InitNumberInv == ServiceInit => NumberInv
  <1> SUFFICES ASSUME ServiceInit PROVE NumberInv OBVIOUS
  <1>1. pc = "dotenv" /\ number = [n \in Main!Numbers |-> 0]
    BY DEF ServiceInit, Main!Init
  <1>2. number \in [Main!Numbers -> Int]
    BY <1>1
  <1> QED BY <1>1, <1>2 DEF NumberInv, BeforeDefaults

\* Main!GetEnv names an environment of which the machine knows the file.
LEMMA EnvironmentKnown ==
  ASSUME EnvInv, pc # "dotenv"
  PROVE  /\ Main!GetEnv \in DOMAIN machine.yaml
         /\ machine.yaml[Main!GetEnv].number \in [Main!Numbers -> Int]
  <1>1. Main!IsMachine(machine)
    BY ServiceAssumption DEF EnvInv
  <1>2. /\ machine.env["APP_ENV"] \in DOMAIN machine.yaml \cup {"", "absent"}
        /\ machine.dotenv.vars["APP_ENV"]
              \in DOMAIN machine.yaml \cup {"", "absent"}
        /\ "APP_ENV" \in DOMAIN machine.env /\ "dev" \in DOMAIN machine.yaml
        /\ \A x \in DOMAIN machine.yaml :
              machine.yaml[x].number \in [Main!Numbers -> Int]
    BY <1>1 DEF Main!IsMachine, Main!Absent
  <1>3. env["APP_ENV"] \in DOMAIN machine.yaml \cup {"", "absent"}
    BY <1>2, EnvIsVariable DEF Main!Variable
  <1>4. Main!GetEnv \in DOMAIN machine.yaml
    BY <1>2, <1>3 DEF Main!GetEnv, Main!Getenv, Main!Absent
  <1> QED BY <1>2, <1>4

\* What is written of a number: the file's, and its default.
LEMMA NumberStep ==
  EnvInv /\ NumberInv /\ [ServiceNext]_<<vars, mainVars>> => NumberInv'
  <1> SUFFICES ASSUME EnvInv, NumberInv, [ServiceNext]_<<vars, mainVars>>
               PROVE  NumberInv'
    OBVIOUS
  <1> USE DEF NumberInv, BeforeDefaults
  <1>c. ASSUME UNCHANGED <<machine, env>>
        PROVE  \A n : Main!Configured(n)' = Main!Configured(n)
    BY <1>c DEF Main!Configured, Main!GetEnv, Main!Getenv
  <1>1. CASE Main!LoadDotenv
    BY <1>1 DEF Main!LoadDotenv
  <1>2. CASE Main!LoadConfig
    <2>1. UNCHANGED <<machine, env>> /\ pc = "config"
      BY <1>2 DEF Main!LoadConfig
    <2>2. CASE pc' = "secrets" /\ number' = machine.yaml[Main!GetEnv].number
      BY <2>1, <2>2, <1>c, EnvironmentKnown DEF Main!Configured
    <2>3. CASE pc' \in {"secrets", "fatal"} /\ number' = number
      BY <2>1, <2>3
    <2> QED BY <1>2, <2>2, <2>3 DEF Main!LoadConfig
  <1>3. CASE Main!InjectSecret \/ Main!SecretsInjected
    BY <1>3, <1>c DEF Main!InjectSecret, Main!SecretsInjected
  <1>4. CASE Main!ApplyDefaults
    <2>1. UNCHANGED <<machine, env>> /\ pc = "defaults" /\ pc' = "logger"
      BY <1>4 DEF Main!ApplyDefaults
    <2>2. CASE number' = number /\ ~machine.defaults
      BY <2>1, <2>2
    <2>3. CASE number' = [n \in Main!Numbers |-> Main!Defaulted(n)]
      <3>1. \A n \in Main!Numbers :
                Main!Default[n] \in Int /\ Main!Default[n] > 0
        BY DEF Main!Numbers, Main!Default
      <3>2. ASSUME NEW n \in Main!Numbers
            PROVE  /\ number'[n] \in Int /\ number'[n] > 0
                   /\ Main!Configured(n) \/ number'[n] = Main!Default[n]
        BY <2>1, <2>3, <3>1 DEF Main!Defaulted
      <3>3. number' \in [Main!Numbers -> Int]
        BY <2>3, <3>2
      <3> QED BY <2>1, <3>2, <3>3, <1>c
    <2> QED BY <1>4, <2>2, <2>3 DEF Main!ApplyDefaults
  <1>5. CASE Main!InitLogger \/ Main!InitRedis \/ Main!InitTracing
    BY <1>5, <1>c DEF Main!InitLogger, Main!InitRedis, Main!InitTracing
  <1>6. CASE InitKafka
    BY <1>6, <1>c DEF InitKafka, Main!InitKafka
  <1>7. CASE Serves \/ UNCHANGED <<vars, mainVars>>
    BY <1>7, <1>c DEF Serves, mainVars
  <1>8. CASE MainReturns
    BY <1>8, <1>c DEF MainReturns, Main!Return
  <1> QED
    BY <1>1, <1>2, <1>3, <1>4, <1>5, <1>6, <1>7, <1>8
       DEF ServiceNext, MainStarts, Main!Start

\* With the defaults applied every number is positive, and those that depend
\* on each other agree unless the file sets one of them by itself.
THEOREM DefaultsDoAgree == ServiceSpec => []DefaultsAgree
  <1>1. NumberInv => DefaultsAgree
    <2>1. ASSUME NumberInv, machine.defaults,
                 pc \notin BeforeDefaults \cup {"fatal"},
                 NEW p \in {<<"renew", "lease">>, <<"base", "max">>,
                            <<"idle", "open">>}
          PROVE  \/ number[p[1]] <= number[p[2]]
                 \/ Main!Configured(p[1]) \/ Main!Configured(p[2])
      <3>1. /\ p[1] \in Main!Numbers /\ p[2] \in Main!Numbers
            /\ Main!Default[p[1]] <= Main!Default[p[2]]
        BY DEF Main!Numbers, Main!Default
      <3> QED BY <2>1, <3>1 DEF NumberInv
    <2> QED
      BY <2>1 DEF NumberInv, BeforeDefaults, DefaultsAgree, Main!DefaultsAgree
  <1> QED
    BY <1>1, InitEnvInv, EnvStep, InitNumberInv, NumberStep, PTL
       DEF ServiceSpec
-----------------------------------------------------------------------------
(* The secrets.                                                             *)

Secret == [name : STRING, file : STRING, target : STRING,
           default : STRING \ {Main!Absent}, required : BOOLEAN]

LEMMA SecretType ==
  /\ Len(Definitions) \in Nat /\ DOMAIN Definitions = 1 .. Len(Definitions)
  /\ \A i \in 1 .. Len(Definitions) : Definitions[i] \in Secret
  <1>1. Definitions \in Seq(Secret)
    BY ServiceAssumption DEF Main!AreDefinitions, Secret
  <1> HIDE DEF Secret
  <1> QED BY <1>1

\* What the machine has for the i-th secret: the file that is named, which it
\* knows, and the variable.
LEMMA SecretKnown ==
  ASSUME EnvInv, pc # "dotenv", NEW i \in 1 .. Len(Definitions)
  PROVE  /\ env[Definitions[i].file] = Main!Variable(Definitions[i].file)
         /\ env[Definitions[i].name] = Main!Variable(Definitions[i].name)
         /\ Main!Variable(Definitions[i].file)
               \in DOMAIN machine.disk \cup {"", Main!Absent}
         /\ "" \notin DOMAIN machine.disk
         /\ Main!Absent \notin DOMAIN machine.disk
         /\ \A p \in DOMAIN machine.disk : machine.disk[p] # Main!Absent
  <1>1. Main!IsMachine(machine) /\ i \in DOMAIN Definitions
    BY ServiceAssumption, SecretType DEF EnvInv
  <1>2. /\ Definitions[i].file \in DOMAIN machine.env
        /\ Definitions[i].name \in DOMAIN machine.env
    BY <1>1 DEF Main!IsMachine
  <1>3. Main!Variable(Definitions[i].file)
           \in DOMAIN machine.disk \cup {"", Main!Absent}
    BY <1>1 DEF Main!IsMachine, Main!Variable
  <1>4. /\ "" \notin DOMAIN machine.disk
        /\ Main!Absent \notin DOMAIN machine.disk
        /\ \A p \in DOMAIN machine.disk : machine.disk[p] # Main!Absent
    BY <1>1 DEF Main!IsMachine
  <1> QED BY <1>2, <1>3, <1>4, EnvIsVariable

\* Of several sources the one that comes before all others is chosen.
LEMMA FirstIsChosen ==
  ASSUME NEW S, NEW s \in S, \A t \in S : t[1] \in {1, 2, 3},
         \A t \in S : s[1] <= t[1] /\ (t[1] = s[1] => t = s)
  PROVE  (CHOOSE r \in S : \A t \in S : r[1] <= t[1]) = s
  <1>1. ASSUME NEW r \in S, \A t \in S : r[1] <= t[1] PROVE r = s
    <2>1. r[1] <= s[1] /\ s[1] <= r[1] BY <1>1
    <2>2. r[1] \in Int /\ s[1] \in Int OBVIOUS
    <2> QED BY <2>1, <2>2
  <1> QED BY <1>1

\* GetSecretOrEnv looks where Resolved does: the source of the lowest rank.
LEMMA SecretIsResolved ==
  ASSUME EnvInv, pc # "dotenv", NEW i \in 1 .. Len(Definitions)
  PROVE  /\ Main!GetSecretOrEnv(Definitions[i]) = Main!Resolved(Definitions[i])
         /\ Main!GetSecretOrEnv(Definitions[i]) # Main!Absent
  <1> PICK d : d = Definitions[i] OBVIOUS
  <1> DEFINE path == Main!Variable(d.file)
             own == Main!Variable(d.name)
             first == {<<1, Main!TrimSpace(machine.disk[p])>> :
                          p \in {q \in DOMAIN machine.disk :
                                    /\ q = path
                                    /\ machine.disk[q] # "unreadable"}}
             second == {<<2, v>> : v \in {own} \ {"", Main!Absent}}
             third == {<<3, d.default>>}
  <1>1. /\ env[d.file] = path /\ env[d.name] = own
        /\ path \in DOMAIN machine.disk \cup {"", Main!Absent}
        /\ "" \notin DOMAIN machine.disk
        /\ Main!Absent \notin DOMAIN machine.disk
        /\ \A p \in DOMAIN machine.disk : machine.disk[p] # Main!Absent
        /\ d.default # Main!Absent
    BY SecretKnown, SecretType DEF Secret
  <1> DEFINE readable == /\ path \in DOMAIN machine.disk
                         /\ machine.disk[path] # "unreadable"
             ofFile == <<1, Main!TrimSpace(machine.disk[path])>>
             ofVariable == <<2, own>>
             default == <<3, d.default>>
  <1>2. Main!Sources(d) =
              (IF readable THEN {ofFile} ELSE {})
              \cup (IF own \in {"", Main!Absent} THEN {} ELSE {ofVariable})
              \cup {default}
    <2>1. first = IF readable THEN {ofFile} ELSE {}
      OBVIOUS
    <2>2. second = IF own \in {"", Main!Absent} THEN {} ELSE {ofVariable}
      OBVIOUS
    <2>3. Main!Sources(d) = first \cup second \cup third
      BY DEF Main!Sources
    <2> QED BY <2>1, <2>2, <2>3
  <1>3. /\ ofFile[1] = 1 /\ ofVariable[1] = 2 /\ default[1] = 3
        /\ ofFile[2] = Main!TrimSpace(machine.disk[path])
        /\ ofVariable[2] = own /\ default[2] = d.default
    OBVIOUS
  <1> HIDE DEF ofFile, ofVariable, default
  <1>r. ASSUME NEW s \in Main!Sources(d),
               \A t \in Main!Sources(d) :
                   t[1] \in {1, 2, 3} /\ s[1] <= t[1] /\ (t[1] = s[1] => t = s)
        PROVE  Main!Resolved(d) = s[2]
    <2>1. (CHOOSE r \in Main!Sources(d) :
              \A t \in Main!Sources(d) : r[1] <= t[1]) = s
      BY <1>r, FirstIsChosen
    <2> QED BY <2>1 DEF Main!Resolved
  <1>4. CASE readable
    <2>1. Main!Resolved(d) = ofFile[2]
      <3>1. ofFile \in Main!Sources(d) BY <1>2, <1>4
      <3>2. \A t \in Main!Sources(d) : t \in {ofFile, ofVariable, default}
        BY <1>2
      <3>3. \A t \in Main!Sources(d) :
               /\ t[1] \in {1, 2, 3} /\ ofFile[1] <= t[1]
               /\ t[1] = ofFile[1] => t = ofFile
        BY <3>2, <1>3
      <3> QED BY <3>1, <3>3, <1>r
    <2>2. Main!GetSecretOrEnv(d) = Main!TrimSpace(machine.disk[path])
      BY <1>1, <1>4 DEF Main!GetSecretOrEnv, Main!Getenv
    <2>3. Main!TrimSpace(machine.disk[path]) # Main!Absent
      BY <1>1, <1>4 DEF Main!TrimSpace, Main!Absent
    <2> QED BY <1>3, <2>1, <2>2, <2>3
  <1>5. CASE ~readable /\ own \notin {"", Main!Absent}
    <2>1. Main!Resolved(d) = ofVariable[2]
      <3>1. ofVariable \in Main!Sources(d) BY <1>2, <1>5
      <3>2. \A t \in Main!Sources(d) : t \in {ofVariable, default}
        BY <1>2, <1>5
      <3>3. \A t \in Main!Sources(d) :
               /\ t[1] \in {1, 2, 3} /\ ofVariable[1] <= t[1]
               /\ t[1] = ofVariable[1] => t = ofVariable
        BY <3>2, <1>3
      <3> QED BY <3>1, <3>3, <1>r
    <2>2. Main!GetSecretOrEnv(d) = own
      BY <1>1, <1>5 DEF Main!GetSecretOrEnv, Main!Getenv
    <2> QED BY <1>3, <1>5, <2>1, <2>2
  <1>6. CASE ~readable /\ own \in {"", Main!Absent}
    <2>1. Main!Resolved(d) = default[2]
      <3>1. Main!Sources(d) = {default} BY <1>2, <1>6
      <3>2. \A t \in Main!Sources(d) :
               /\ t[1] \in {1, 2, 3} /\ default[1] <= t[1]
               /\ t[1] = default[1] => t = default
        BY <3>1, <1>3
      <3> QED BY <3>1, <3>2, <1>r
    <2>2. Main!GetSecretOrEnv(d) = d.default
      BY <1>1, <1>6 DEF Main!GetSecretOrEnv, Main!Getenv
    <2> QED BY <1>1, <1>3, <2>1, <2>2
  <1> QED BY <1>4, <1>5, <1>6

\* What is left behind while the secrets are injected, and afterwards.
SecretInv ==
    /\ injected \in 0 .. Len(Definitions)
    /\ pc \in {"dotenv", "config"} => injected = 0
    /\ Main!SecretsResolved

LEMMA InitSecretInv == ServiceInit => SecretInv
  <1> SUFFICES ASSUME ServiceInit PROVE SecretInv OBVIOUS
  <1>1. injected = 0 /\ pc = "dotenv" BY DEF ServiceInit, Main!Init
  <1> QED BY <1>1, SecretType DEF SecretInv, Main!SecretsResolved

\* A machine says the same of a secret as long as it is the same machine.
LEMMA ResolvedStays ==
  machine' = machine => \A d : Main!Resolved(d)' = Main!Resolved(d)
  BY DEF Main!Resolved, Main!Sources, Main!Variable

\* The next secret is the last of its target, and takes that from the others.
LEMMA InjectStep ==
  EnvInv /\ SecretInv /\ Main!InjectSecret => SecretInv'
  <1> SUFFICES ASSUME EnvInv, SecretInv, Main!InjectSecret PROVE SecretInv'
    OBVIOUS
  <1>1. /\ machine' = machine /\ pc = "secrets"
        /\ injected \in Nat /\ injected < Len(Definitions)
        /\ injected + 1 \in 1 .. Len(Definitions) /\ Len(Definitions) \in Nat
    BY SecretType DEF SecretInv, Main!InjectSecret
  <1>2. \A i : Main!Resolved(Definitions[i])' = Main!Resolved(Definitions[i])
    BY <1>1, ResolvedStays
  <1> PICK d : d = Definitions[injected + 1] OBVIOUS
  <1>3. Main!GetSecretOrEnv(d) = Main!Resolved(d)
    BY <1>1, SecretIsResolved
  <1>4. CASE Main!Missing(d)
    <2>1. pc' = "fatal" /\ UNCHANGED <<text, injected>>
      BY <1>4 DEF Main!InjectSecret
    <2> QED
      BY <1>1, <1>2, <2>1
         DEF SecretInv, Main!SecretsResolved, Main!LastOfTarget
  <1>5. CASE ~Main!Missing(d)
    <2>1. /\ pc' = pc /\ injected' = injected + 1
          /\ text' = [k \in DOMAIN text |->
                IF k = d.target THEN Main!GetSecretOrEnv(d) ELSE text[k]]
      BY <1>5 DEF Main!InjectSecret
    <2>2. ASSUME NEW i \in 1 .. injected',
                 Definitions[i].target \in DOMAIN text',
                 Main!LastOfTarget(i)'
          PROVE  \/ text'[Definitions[i].target]
                        = Main!Resolved(Definitions[i])
                 \/ /\ Definitions[i].target = "exporter"
                    /\ Main!Resolved(Definitions[i]) = ""
      <3>1. CASE i = injected + 1
        BY <1>3, <2>1, <2>2, <3>1
      <3>2. CASE i # injected + 1
        <4>1. i \in 1 .. injected BY <1>1, <2>1, <3>2
        <4>2. Definitions[i].target # d.target
          BY <1>1, <2>1, <2>2, <4>1 DEF Main!LastOfTarget
        <4>3. Main!LastOfTarget(i)
          BY <1>1, <2>1, <2>2, <4>1 DEF Main!LastOfTarget
        <4> QED
          BY <2>1, <2>2, <4>1, <4>2, <4>3 DEF SecretInv, Main!SecretsResolved
      <3> QED BY <3>1, <3>2
    <2>3. ASSUME NEW i \in 1 .. injected', Definitions[i].required
          PROVE  Main!Resolved(Definitions[i]) # ""
      <3>1. CASE i = injected + 1
        BY <1>3, <1>5, <2>3, <3>1 DEF Main!Missing
      <3>2. CASE i # injected + 1
        <4>1. i \in 1 .. injected BY <1>1, <2>1, <3>2
        <4> QED BY <2>3, <4>1 DEF SecretInv, Main!SecretsResolved
      <3> QED BY <3>1, <3>2
    <2>4. Main!SecretsResolved'
      BY <1>1, <1>2, <2>1, <2>2, <2>3 DEF Main!SecretsResolved
    <2> QED BY <1>1, <2>1, <2>4 DEF SecretInv
  <1> QED BY <1>4, <1>5

\* No other step injects a secret, and only ApplyDefaults writes to the targets
\* afterwards.
LEMMA SecretStep ==
  EnvInv /\ SecretInv /\ [ServiceNext]_<<vars, mainVars>> => SecretInv'
  <1> SUFFICES ASSUME EnvInv, SecretInv, [ServiceNext]_<<vars, mainVars>>
               PROVE  SecretInv'
    OBVIOUS
  <1> USE SecretType
  <1>s. ASSUME UNCHANGED <<machine, text, injected>>,
               pc' \in {"dotenv", "config"} => injected = 0,
               \/ pc' \in {"dotenv", "config", "secrets", "fatal"}
               \/ injected = Len(Definitions)
        PROVE  SecretInv'
    <2>1. \A i : Main!Resolved(Definitions[i])'
                    = Main!Resolved(Definitions[i])
      BY <1>s, ResolvedStays
    <2> QED
      BY <1>s, <2>1 DEF SecretInv, Main!SecretsResolved, Main!LastOfTarget
  <1>1. CASE Main!LoadDotenv
    BY <1>1, <1>s DEF Main!LoadDotenv, SecretInv
  <1>2. CASE Main!LoadConfig
    <2>1. /\ injected = 0 /\ injected' = 0 /\ pc' \in {"secrets", "fatal"}
      BY <1>2 DEF Main!LoadConfig, SecretInv
    <2> QED BY <2>1 DEF SecretInv, Main!SecretsResolved
  <1>3. CASE Main!InjectSecret
    BY <1>3, InjectStep
  <1>4. CASE Main!SecretsInjected
    BY <1>4, <1>s DEF Main!SecretsInjected
  <1>5. CASE Main!ApplyDefaults
    <2>1. /\ UNCHANGED <<machine, injected>> /\ pc' = "logger"
          /\ pc = "defaults"
          /\ \/ text' = text
             \/ text' = [text EXCEPT !["exporter"] =
                            IF @ = "" THEN "stdout" ELSE @]
      BY <1>5 DEF Main!ApplyDefaults
    <2>2. \A i : Main!Resolved(Definitions[i])'
                    = Main!Resolved(Definitions[i])
      BY <2>1, ResolvedStays
    <2>3. ASSUME NEW k \in DOMAIN text'
          PROVE  /\ k \in DOMAIN text
                 /\ \/ text'[k] = text[k]
                    \/ k = "exporter" /\ text[k] = ""
      BY <2>1
    <2>4. ASSUME NEW i \in 1 .. injected,
                 Definitions[i].target \in DOMAIN text',
                 Main!LastOfTarget(i)
          PROVE  \/ text'[Definitions[i].target]
                        = Main!Resolved(Definitions[i])
                 \/ /\ Definitions[i].target = "exporter"
                    /\ Main!Resolved(Definitions[i]) = ""
      <3> PICK k : k = Definitions[i].target OBVIOUS
      <3>1. \/ text[k] = Main!Resolved(Definitions[i])
            \/ k = "exporter" /\ Main!Resolved(Definitions[i]) = ""
        BY <2>3, <2>4 DEF SecretInv, Main!SecretsResolved
      <3> QED BY <2>3, <2>4, <3>1
    <2>5. \A i : Main!LastOfTarget(i)' = Main!LastOfTarget(i)
      BY <2>1 DEF Main!LastOfTarget
    <2>6. Main!SecretsResolved'
      BY <2>1, <2>2, <2>4, <2>5 DEF SecretInv, Main!SecretsResolved
    <2> QED BY <2>1, <2>6 DEF SecretInv
  <1>6. CASE Main!InitLogger \/ Main!InitRedis \/ Main!InitTracing
    BY <1>6, <1>s
       DEF Main!InitLogger, Main!InitRedis, Main!InitTracing, SecretInv,
           Main!SecretsResolved
  <1>7. CASE InitKafka
    BY <1>7, <1>s
       DEF InitKafka, Main!InitKafka, SecretInv, Main!SecretsResolved
  <1>8. CASE Serves \/ UNCHANGED <<vars, mainVars>>
    BY <1>8, <1>s DEF Serves, mainVars, SecretInv, Main!SecretsResolved
  <1>9. CASE MainReturns
    BY <1>9, <1>s
       DEF MainReturns, Main!Return, SecretInv, Main!SecretsResolved
  <1> QED
    BY <1>1, <1>2, <1>3, <1>4, <1>5, <1>6, <1>7, <1>8, <1>9
       DEF ServiceNext, MainStarts, Main!Start

\* Whatever the files, the variables and .env say, a target holds what the
\* source of the lowest rank has for it, and no service gets past its secrets
\* without the required ones.
THEOREM SecretsAreResolved == ServiceSpec => []SecretsResolved
  <1>1. SecretInv => SecretsResolved BY DEF SecretInv, SecretsResolved
  <1> QED
    BY <1>1, InitEnvInv, EnvStep, InitSecretInv, SecretStep, PTL
       DEF ServiceSpec

-----------------------------------------------------------------------------
(* Types.                                                                  *)

\* The settings that are strings: neither viper nor a secret leaves a target
\* without a string.
TextInv == \A k \in DOMAIN text : text[k] # Main!Absent

LEMMA TextStep ==
  EnvInv /\ SecretInv /\ TextInv /\ [ServiceNext]_<<vars, mainVars>>
      => TextInv'
  <1> SUFFICES ASSUME EnvInv, SecretInv, TextInv,
                      [ServiceNext]_<<vars, mainVars>>
               PROVE  TextInv'
    OBVIOUS
  <1>1. CASE Main!LoadConfig
    <2>1. CASE text' = text
      BY <2>1 DEF TextInv
    <2>2. CASE text' = Main!Unmarshal(machine.yaml[Main!GetEnv].text)
      <3> PICK file : file = machine.yaml[Main!GetEnv].text OBVIOUS
      <3>1. text' = Main!Unmarshal(file) BY <2>2
      <3>2. ASSUME NEW k \in DOMAIN text PROVE text'[k] # Main!Absent
        <4>1. CASE file[k] = Main!Absent
          BY <3>1, <4>1 DEF Main!Unmarshal, Main!Absent
        <4>2. CASE file[k] # Main!Absent
          BY <3>1, <4>2 DEF Main!Unmarshal, Main!Absent, Main!Getenv
        <4> QED BY <4>1, <4>2
      <3>3. DOMAIN text' = DOMAIN text BY <3>1 DEF Main!Unmarshal
      <3> QED BY <3>2, <3>3 DEF TextInv
    <2> QED BY <1>1, <2>1, <2>2 DEF Main!LoadConfig
  <1>2. CASE Main!InjectSecret
    <2>1. CASE text' = text
      BY <2>1 DEF TextInv
    <2>2. CASE text' # text
      <3> PICK d : d = Definitions[injected + 1] OBVIOUS
      <3>1. injected + 1 \in 1 .. Len(Definitions) /\ pc = "secrets"
        BY <1>2, SecretType DEF SecretInv, Main!InjectSecret
      <3>2. Main!GetSecretOrEnv(d) # Main!Absent
        BY <3>1, SecretIsResolved
      <3>3. text' = [k \in DOMAIN text |->
                IF k = d.target THEN Main!GetSecretOrEnv(d) ELSE text[k]]
        BY <1>2, <2>2 DEF Main!InjectSecret
      <3> QED BY <3>2, <3>3 DEF TextInv
    <2> QED BY <2>1, <2>2
  <1>3. CASE Main!ApplyDefaults
    BY <1>3 DEF Main!ApplyDefaults, TextInv, Main!Absent
  <1>4. CASE Main!LoadDotenv \/ Main!SecretsInjected \/ Main!InitLogger
             \/ Main!InitRedis \/ Main!InitTracing
    BY <1>4
       DEF Main!LoadDotenv, Main!SecretsInjected, Main!InitLogger,
           Main!InitRedis, Main!InitTracing, TextInv
  <1>5. CASE InitKafka \/ Serves \/ UNCHANGED <<vars, mainVars>>
    BY <1>5 DEF InitKafka, Main!InitKafka, Serves, mainVars, TextInv
  <1>6. CASE MainReturns
    BY <1>6 DEF MainReturns, Main!Return, TextInv
  <1> QED
    BY <1>1, <1>2, <1>3, <1>4, <1>5, <1>6
       DEF ServiceNext, MainStarts, Main!Start

\* What main has come to, and what the Init functions have given it.
ProgressInv ==
    /\ pc \in Main!Calls \cup Main!Ends
    /\ logging \subseteq {"level", "file", "hook"}
    /\ redis \in {"none", "open", "owned"}
    /\ exporter \in {"none", "lost", "installed", "closed", "unflushed"}
    /\ shutdown \in {"none", "nil", "no-op", "provider"}

LEMMA ProgressStep ==
  ProgressInv /\ [ServiceNext]_<<vars, mainVars>> => ProgressInv'
  <1> SUFFICES ASSUME ProgressInv, [ServiceNext]_<<vars, mainVars>>
               PROVE  ProgressInv'
    OBVIOUS
  <1> USE DEF ProgressInv, Main!Calls, Main!Ends
  <1>1. CASE Main!LoadDotenv \/ Main!LoadConfig
    BY <1>1 DEF Main!LoadDotenv, Main!LoadConfig
  <1>2. CASE Main!InjectSecret \/ Main!SecretsInjected \/ Main!ApplyDefaults
    BY <1>2 DEF Main!InjectSecret, Main!SecretsInjected, Main!ApplyDefaults
  <1>3. CASE Main!InitLogger \/ Main!InitRedis \/ Main!InitTracing
    BY <1>3 DEF Main!InitLogger, Main!InitRedis, Main!InitTracing
  <1>4. CASE InitKafka \/ Serves \/ UNCHANGED <<vars, mainVars>>
    BY <1>4 DEF InitKafka, Main!InitKafka, Serves, mainVars
  <1>5. CASE MainReturns
    BY <1>5 DEF MainReturns, Main!Return
  <1> QED
    BY <1>1, <1>2, <1>3, <1>4, <1>5 DEF ServiceNext, MainStarts, Main!Start

LEMMA InitTypes == ServiceInit => TextInv /\ ProgressInv
  BY DEF ServiceInit, Main!Init, TextInv, ProgressInv, Main!Absent,
         Main!Calls, Main!Ends

\* Every variable of main and of the manager keeps to its type.
THEOREM ServiceTypes == ServiceSpec => []ServiceTypeOK
  <1>1. KafkaInv /\ EnvInv /\ NumberInv /\ SecretInv /\ TextInv /\ ProgressInv
            => ServiceTypeOK
    <2> SUFFICES ASSUME KafkaInv, EnvInv, NumberInv, SecretInv, TextInv,
                        ProgressInv
                 PROVE  ServiceTypeOK
      OBVIOUS
    <2>1. DOMAIN env = DOMAIN machine.env /\ machine \in Machines
      BY DEF EnvInv, Main!Load
    <2>2. DOMAIN number = Main!Numbers
          /\ \A n \in Main!Numbers : number[n] \in Int
      BY DEF NumberInv
    <2>3. TypeOK BY DEF KafkaInv
    <2> QED
      BY <2>1, <2>2, <2>3
         DEF ServiceTypeOK, Main!TypeOK, TextInv, ProgressInv, SecretInv
  <1>2. ServiceSpec => []KafkaInv BY ServiceUsesKafka, KafkaInvariant, PTL
  <1> QED
    BY <1>1, <1>2, InitEnvInv, EnvStep, InitNumberInv, NumberStep,
       InitSecretInv, SecretStep, InitTypes, TextStep, ProgressStep, PTL
       DEF ServiceSpec
=============================================================================
