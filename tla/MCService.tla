------------------------------ MODULE MCService -----------------------------
(* Small instances of Service for TLC.                                     *)
EXTENDS Service

CONSTANTS p1, q1, s1, k1, k2

OnePublisher == {p1}
OneConsumer  == {q1}
OneSetter    == {s1}
TwoClosers   == {k1, k2}

A == "absent"

\* An optional secret, a required one, and one whose value is only looked up.
ThreeSecrets == <<
    [name |-> "DB_PASSWORD", file |-> "DB_PASSWORD_FILE",
     target |-> "password", default |-> "", required |-> FALSE],
    [name |-> "JWT_SECRET", file |-> "JWT_SECRET_FILE",
     target |-> "jwt", default |-> "", required |-> TRUE],
    [name |-> "API_KEY", file |-> "API_KEY_FILE",
     target |-> A, default |-> "d", required |-> FALSE]>>

Variables == {"APP_ENV", "DB_PASSWORD", "DB_PASSWORD_FILE", "JWT_SECRET",
              "JWT_SECRET_FILE", "API_KEY", "API_KEY_FILE", "exporter"}

\* The variables of f set as it says, and no others
Only(f) == [v \in Variables |-> IF v \in DOMAIN f THEN f[v] ELSE A]

Nothing == [lease |-> 0, renew |-> 0, base |-> 0, max |-> 0, idle |-> 0,
            open |-> 0]
Yaml(state, exporterName, numbers) ==
    [state |-> state, number |-> numbers,
     text |-> [password |-> "y", jwt |-> A, exporter |-> exporterName]]
NoYaml == Yaml("missing", A, Nothing)

\* A machine where everything is in its place and tracing is off
Plain ==
    [env        |-> Only([JWT_SECRET |-> "a"]),
     dotenv     |-> [state |-> "missing", vars |-> Only([x \in {} |-> A])],
     disk       |-> [run |-> "b", blank |-> "\n", lost |-> "unreadable"],
     yaml       |-> [dev |-> Yaml("good", "disabled", Nothing),
                     prod |-> NoYaml],
     prefixed   |-> FALSE, allowNoConfig |-> FALSE, defaults |-> TRUE,
     logFile    |-> FALSE]

Env(m, f)         == [m EXCEPT !.env = Only(f)]
Dotenv(m, how, f) == [m EXCEPT !.dotenv = [state |-> how, vars |-> Only(f)]]
Config(m, where, y) == [m EXCEPT !.yaml[where] = y]

AllMachines ==
    LET files   == [JWT_SECRET_FILE |-> "lost", JWT_SECRET |-> "a",
                    DB_PASSWORD_FILE |-> "run", DB_PASSWORD |-> ""]
        shadow  == [JWT_SECRET |-> "b", DB_PASSWORD |-> "b",
                    APP_ENV |-> "prod", API_KEY |-> "b"]
        oneKnob == [Nothing EXCEPT !.lease = 20, !.base = -1]
    IN {Plain,
        Config(Env(Plain, files), "dev", Yaml("good", A, oneKnob)),
        Config([Plain EXCEPT !.defaults = FALSE, !.prefixed = TRUE,
                             !.env["exporter"] = "disabled"],
               "dev", Yaml("good", "stdout", Nothing)),
        Dotenv(Env([Plain EXCEPT !.logFile = TRUE],
                   [DB_PASSWORD |-> "", APP_ENV |-> ""]), "good", shadow),
        Dotenv(Env(Config(Plain, "prod", Yaml("good", "disabled", Nothing)),
                   [DB_PASSWORD |-> ""]), "good", shadow),
        [Plain EXCEPT !.allowNoConfig = TRUE, !.defaults = FALSE,
                      !.env["APP_ENV"] = "prod"],
        Env(Plain, [JWT_SECRET_FILE |-> "blank", JWT_SECRET |-> "a"]),
        Dotenv(Plain, "bad", shadow),
        Config(Plain, "dev", Yaml("bad", A, Nothing)),
        Config(Plain, "dev", NoYaml)}
=============================================================================
