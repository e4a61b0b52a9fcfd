----------------------------- MODULE SimpleToken -----------------------------
(***************************************************************************)
(* The version-controlled tokens of pkg/auth/simple_token.go over the      *)
(* RedisTokenVersionStore of pkg/auth/redis_store.go.                      *)
(*                                                                         *)
(* A user has one Redis key, the current version.  GenerateSimpleToken and *)
(* RevokeSimpleToken increment it, VerifySimpleToken compares a token with *)
(* it.  The functions keep no state of their own and run in any number of  *)
(* goroutines and processes: an action is one Redis command, or one look   *)
(* at the clock, of one call.                                              *)
(*                                                                         *)
(* The calls are made with a secret and a store: without one they return   *)
(* before they do anything.  Signatures are left out; a token is verified  *)
(* only if it was issued.                                                  *)
(***************************************************************************)
EXTENDS Integers

CONSTANTS
    Users,
    Callers,        \* goroutines in GenerateSimpleToken or RevokeSimpleToken
    Verifiers,      \* goroutines in VerifySimpleToken
    TTL,            \* SimpleTokenConfig.TTL, defaulted, in ticks
    ClockSkew,      \* SimpleTokenConfig.ClockSkew, defaulted
    Second,         \* ticks in a second
    KeyTTL,         \* WithTokenVersionTTL; 0 when the option is not given
    RedisFails,     \* whether a Redis command may return an error
    MaxIncrs,       \* BOUND: increments of one user's version
    MaxTime,        \* BOUND: the last tick of the clock
    NoToken         \* what a verifier holds that verifies nothing

ASSUME TokenAssumption ==
    /\ TTL \in Nat \ {0}
    /\ ClockSkew \in Nat
    /\ Second \in Nat \ {0}
    /\ KeyTTL \in Nat
    /\ RedisFails \in BOOLEAN
    /\ MaxIncrs \in Nat
    /\ MaxTime \in Nat

VARIABLES
    now,        \* the clock
    ver,        \* [Users -> the value of the key when it was last written]
    until,      \* [Users -> when the key expires, or Never]
    incrs,      \* [Users -> how many INCRs were applied] (history)
    lives,      \* [Users -> how many of them found no key] (history)
    pc,         \* [Callers -> where the call is]
    user,       \* [Callers -> the userID of the call]
    got,        \* [Callers -> the version that INCR returned to it]
    turn,       \* [Callers -> which INCR that was, in which life] (history)
    revokes,    \* [Callers -> whether the call is a RevokeSimpleToken]
    tokens,     \* the tokens that were issued
    held,       \* [Verifiers -> the token that passed ParseWithClaims]
    verdict     \* [Verifiers -> the outcome of the last call]

keyVars    == <<ver, until, incrs, lives>>
callVars   == <<pc, user, got, turn, revokes>>
verifyVars == <<held, verdict>>
vars == <<now, keyVars, callVars, tokens, verifyVars>>

Never == 0

\* An INCR is the nth of its user, in one life of the user's key.
Turns == [nth : Nat, life : Nat]

\* What a token carries, and the INCR it comes from (history).
Tokens == [user : Users, ver : Nat, exp : Int, turn : Turns]

\* What TokenPromise knows of a token.
Grants == [user : Users, life : Nat, epoch : Nat]

ASSUME NoTokenAssumption == NoToken \notin Tokens \cup Grants

TypeOK ==
    /\ now \in 0 .. MaxTime
    /\ ver \in [Users -> Nat]
    /\ until \in [Users -> Nat]
    /\ incrs \in [Users -> 0 .. MaxIncrs]
    /\ lives \in [Users -> Nat]
    /\ pc \in [Callers -> {"idle", "incr", "expire", "stamp"}]
    /\ user \in [Callers -> Users]
    /\ got \in [Callers -> Nat]
    /\ turn \in [Callers -> Turns]
    /\ revokes \in [Callers -> BOOLEAN]
    /\ tokens \in SUBSET Tokens
    /\ held \in [Verifiers -> tokens \cup {NoToken}]
    /\ verdict \in [Verifiers -> {"none", "accepted", "superseded", "failed"}]

NoTurn == [nth |-> 0, life |-> 0]

Init ==
    /\ now = 0
    /\ ver = [u \in Users |-> 0]
    /\ until = [u \in Users |-> Never]
    /\ incrs = [u \in Users |-> 0]
    /\ lives = [u \in Users |-> 0]
    /\ pc = [c \in Callers |-> "idle"]
    /\ user \in [Callers -> Users]
    /\ got = [c \in Callers |-> 0]
    /\ turn = [c \in Callers |-> NoTurn]
    /\ revokes = [c \in Callers |-> FALSE]
    /\ tokens = {}
    /\ held = [v \in Verifiers |-> NoToken]
    /\ verdict = [v \in Verifiers |-> "none"]

Tick ==
    /\ now < MaxTime
    /\ now' = now + 1
    /\ UNCHANGED <<keyVars, callVars, tokens, verifyVars>>

-----------------------------------------------------------------------------
(* Redis.                                                                  *)

\* The version a user's key holds; 0 when there is no key, or no longer.
Stored(u) == IF until[u] = Never \/ now < until[u] THEN ver[u] ELSE 0

\* INCR is one atomic command.  It keeps the key's time to live, and starts a
\* key that is missing at 1 with none.
OnlyStarted(u) == IF Stored(u) = 0 THEN 1 ELSE Stored(u)
Incremented(u) == Stored(u) + 1

ApplyIncr(u) ==
    /\ ver' = [ver EXCEPT ![u] = Incremented(u)]
    /\ until' = [until EXCEPT ![u] = IF Stored(u) = 0 THEN Never ELSE @]
    /\ incrs' = [incrs EXCEPT ![u] = @ + 1]
    /\ lives' = [lives EXCEPT ![u] = IF Stored(u) = 0 THEN @ + 1 ELSE @]

-----------------------------------------------------------------------------
(* GenerateSimpleToken and RevokeSimpleToken.                              *)

\* A call begins.  The version of an earlier one is forgotten.
Call(c) ==
    /\ pc[c] = "idle"
    /\ pc' = [pc EXCEPT ![c] = "incr"]
    /\ \E u \in Users : user' = [user EXCEPT ![c] = u]
    /\ \E r \in BOOLEAN : revokes' = [revokes EXCEPT ![c] = r]
    /\ got' = [got EXCEPT ![c] = 0] /\ turn' = [turn EXCEPT ![c] = NoTurn]
    /\ UNCHANGED <<now, keyVars, tokens, verifyVars>>

\* Where a call goes when the version store has answered it.
AfterVersion(c) == IF revokes[c] THEN "idle" ELSE "stamp"

\* IncrVersion's first command.
Incr(c) ==
    /\ pc[c] = "incr" /\ incrs[user[c]] < MaxIncrs
    /\ ApplyIncr(user[c])
    /\ got' = [got EXCEPT ![c] = Incremented(user[c])]
    /\ turn' = [turn EXCEPT ![c] = [nth |-> incrs'[user[c]],
                                    life |-> lives'[user[c]]]]
    /\ pc' = [pc EXCEPT ![c] = IF KeyTTL > 0 THEN "expire"
                                             ELSE AfterVersion(c)]
    /\ UNCHANGED <<now, user, revokes, tokens, verifyVars>>

\* INCR returns an error: it was not applied, or its reply was lost.
IncrFails(c) ==
    /\ pc[c] = "incr" /\ RedisFails
    /\ \/ UNCHANGED keyVars
       \/ incrs[user[c]] < MaxIncrs /\ ApplyIncr(user[c])
    /\ pc' = [pc EXCEPT ![c] = "idle"]
    /\ UNCHANGED <<now, user, got, turn, revokes, tokens, verifyVars>>

\* IncrVersion's second command, when a TTL is configured.  EXPIRE does nothing
\* to a key that is gone, and an error of it is ignored.
Expire(c) ==
    /\ pc[c] = "expire"
    /\ \/ Stored(user[c]) # 0
          /\ until' = [until EXCEPT ![user[c]] = now + KeyTTL]
       \/ (Stored(user[c]) = 0 \/ RedisFails) /\ UNCHANGED until
    /\ pc' = [pc EXCEPT ![c] = AfterVersion(c)]
    /\ UNCHANGED <<now, ver, incrs, lives, user, got, turn, revokes, tokens,
                   verifyVars>>

\* jwt.NewNumericDate drops the fraction of a second.
NumericDate(t) == t - (t % Second)

\* GenerateSimpleToken reads the clock, signs and returns.
Stamp(c) ==
    /\ pc[c] = "stamp"
    /\ tokens' = tokens \cup {[user |-> user[c], ver |-> got[c],
                               exp |-> NumericDate(now + TTL),
                               turn |-> turn[c]]}
    /\ pc' = [pc EXCEPT ![c] = "idle"]
    /\ UNCHANGED <<now, keyVars, user, got, turn, revokes, verifyVars>>

-----------------------------------------------------------------------------
(* VerifySimpleToken.                                                      *)

\* jwt.ParseWithClaims with the leeway.
Unexpired(t) == now < t.exp + ClockSkew

\* The token passes ParseWithClaims; one that has expired is refused here.
Parse(v) ==
    /\ held[v] = NoToken
    /\ \E t \in tokens : Unexpired(t) /\ held' = [held EXCEPT ![v] = t]
    /\ verdict' = [verdict EXCEPT ![v] = "none"]
    /\ UNCHANGED <<now, keyVars, callVars, tokens>>

NotNewerThanStored(t) == t.ver <= Stored(t.user)
VersionMatches(t) == t.ver = Stored(t.user)

\* GetVersion, and the comparison with what it returned.
Compare(v) ==
    /\ held[v] # NoToken
    /\ \/ VersionMatches(held[v])
          /\ verdict' = [verdict EXCEPT ![v] = "accepted"]
       \/ ~VersionMatches(held[v])
          /\ verdict' = [verdict EXCEPT ![v] = "superseded"]
       \/ RedisFails /\ verdict' = [verdict EXCEPT ![v] = "failed"]
    /\ held' = [held EXCEPT ![v] = NoToken]
    /\ UNCHANGED <<now, keyVars, callVars, tokens>>

-----------------------------------------------------------------------------
Next ==
    \/ Tick
    \/ \E c \in Callers :
          Call(c) \/ Incr(c) \/ IncrFails(c) \/ Expire(c) \/ Stamp(c)
    \/ \E v \in Verifiers : Parse(v) \/ Compare(v)

Spec == Init /\ [][Next]_vars
-----------------------------------------------------------------------------
(* Properties.                                                             *)

\* The increment of a login or a revocation "automatically invalidates all
\* previous tokens for this user" (redis_store.go:173): while a token that was
\* followed by another INCR has not expired, the key holds another version.
\* It needs a key that does not expire.
PreviousInvalid ==
    \A t \in tokens :
        t.turn.nth < incrs[t.user] /\ Unexpired(t) => ~VersionMatches(t)

\* Two calls of GenerateSimpleToken for one user never issue the same version
\* in one life of the key, however they interleave: otherwise a login would
\* not end the other.
OneTokenPerVersion ==
    \A s, t \in tokens :
        s.user = t.user /\ s.turn.life = t.turn.life /\ s.ver = t.ver => s = t

\* The calls keep the promise of TokenPromise: in one life of the key, a
\* verification accepts a token exactly when no INCR followed the token's own.
Granted(t) == [user |-> t.user, life |-> t.turn.life, epoch |-> t.turn.nth]

Promise == INSTANCE TokenPromise WITH
    Nobody  <- NoToken,
    Forgets <- KeyTTL > 0,
    known   <- [u \in Users |-> Stored(u) # 0],
    life    <- lives,
    epoch   <- incrs,
    granted <- {Granted(t) : t \in tokens},
    asked   <- [v \in Verifiers |->
                   IF held[v] = NoToken THEN NoToken ELSE Granted(held[v])]

KeepsPromise == Promise!Spec
=============================================================================
