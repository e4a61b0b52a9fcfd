------------------------------ MODULE TokenPair ------------------------------
(***************************************************************************)
(* The access and refresh tokens of pkg/auth/token.go, over the stores of  *)
(* pkg/auth/redis_store.go: the refresh key of a pair, the blocklist entry *)
(* of an access token and the session version of the user.                 *)
(*                                                                         *)
(* The functions keep no state of their own and run in any number of       *)
(* goroutines: an action is one Redis command, or one look at the clock,   *)
(* of one call.  All pairs are of one user, and the n-th pair stands for   *)
(* the JTIs of its two tokens.  The calls have a secret and all the        *)
(* stores.  Only tokens that were issued, of the right type, are presented *)
(* for verification; Save stores the user and sequence of the claims, so   *)
(* that the mismatch tests of ConsumeRefreshToken never fail.              *)
(***************************************************************************)
EXTENDS Integers

CONSTANTS
    Issuers,        \* goroutines in GenerateTokenPairWithVersion
    Revokers,       \* goroutines in RevokeAccessToken
    Verifiers,      \* goroutines in VerifyAccessToken(WithVersion)
    Refreshers,     \* goroutines in ConsumeRefreshToken
    AccessTTL, RefreshTTL, ClockSkew,   \* Config, defaulted, in ticks
    Second,         \* ticks in a second
    RedisFails,     \* whether a Redis command may return an error
    MaxPairs,       \* BOUND: pairs generated
    MaxVersion,     \* BOUND: the last session version
    MaxTime         \* BOUND: the last tick of the clock

ASSUME PairAssumption ==
    /\ AccessTTL \in Nat \ {0}
    /\ RefreshTTL \in Nat \ {0}
    /\ ClockSkew \in Nat
    /\ Second \in Nat \ {0}
    /\ RedisFails \in BOOLEAN
    /\ MaxPairs \in Nat
    /\ MaxVersion \in Nat
    /\ MaxTime \in Nat

Pairs == 1 .. MaxPairs
None  == 0

VARIABLES
    now,            \* the clock
    made,           \* pairs generated so far
    accessExp,      \* [Pairs -> exp of the access token]
    refreshExp,     \* [Pairs -> exp of the refresh token]
    session,        \* [Pairs -> session version in the access token]
    returned,       \* the pairs that were returned to the application
    refreshUntil,   \* [Pairs -> when the refresh key expires, or None]
    blockUntil,     \* [Pairs -> when the blocklist entry expires, or None]
    sessionVer,     \* the value of the session version key; 0 without one
    saving,         \* [Issuers -> the pair to be saved, or None]
    revoking,       \* [Revokers -> the pair to be blocked, or None]
    ttl,            \* [Revokers -> for how long it is to be blocked]
    verifying,      \* [Verifiers -> the pair under verification, or None]
    stage,          \* [Verifiers -> the store that is asked next]
    verdict,        \* [Verifiers -> the outcome of the last call]
    consuming,      \* [Refreshers -> the pair that passed the parser, or None]
    revoked,        \* pairs for which RevokeAccessToken returned nil (history)
    revokedThen,    \* [Verifiers -> revoked when the call began] (history)
    versionThen,    \* [Verifiers -> sessionVer when it began] (history)
    exchanged,      \* [Pairs -> refreshes that returned the claims] (history)
    taken           \* pairs whose refresh key a GETDEL removed (history)

pairVars    == <<made, accessExp, refreshExp, session, returned, saving>>
storeVars   == <<refreshUntil, blockUntil, sessionVer>>
revokeVars  == <<revoking, ttl, revoked>>
verifyVars  == <<verifying, stage, verdict, revokedThen, versionThen>>
refreshVars == <<consuming, exchanged, taken>>
vars == <<now, pairVars, storeVars, revokeVars, verifyVars, refreshVars>>

TypeOK ==
    /\ now \in 0 .. MaxTime
    /\ made \in 0 .. MaxPairs
    /\ accessExp \in [Pairs -> Int]
    /\ refreshExp \in [Pairs -> Int]
    /\ session \in [Pairs -> 0 .. MaxVersion]
    /\ returned \in SUBSET Pairs
    /\ refreshUntil \in [Pairs -> Nat]
    /\ blockUntil \in [Pairs -> Nat]
    /\ sessionVer \in 0 .. MaxVersion
    /\ saving \in [Issuers -> 0 .. MaxPairs]
    /\ revoking \in [Revokers -> 0 .. MaxPairs]
    /\ ttl \in [Revokers -> Nat]
    /\ verifying \in [Verifiers -> 0 .. MaxPairs]
    /\ stage \in [Verifiers -> {"blocklist", "version"}]
    /\ verdict \in [Verifiers -> {"none", "accepted", "refused"}]
    /\ consuming \in [Refreshers -> 0 .. MaxPairs]
    /\ revoked \in SUBSET Pairs
    /\ revokedThen \in [Verifiers -> SUBSET Pairs]
    /\ versionThen \in [Verifiers -> 0 .. MaxVersion]
    /\ exchanged \in [Pairs -> Nat]
    /\ taken \in SUBSET Pairs

Init ==
    /\ now = 0 /\ made = 0
    /\ accessExp = [n \in Pairs |-> 0] /\ refreshExp = [n \in Pairs |-> 0]
    /\ session = [n \in Pairs |-> 0] /\ returned = {}
    /\ refreshUntil = [n \in Pairs |-> None]
    /\ blockUntil = [n \in Pairs |-> None]
    /\ sessionVer = 0
    /\ saving = [g \in Issuers |-> None]
    /\ revoking = [r \in Revokers |-> None] /\ ttl = [r \in Revokers |-> 0]
    /\ verifying = [v \in Verifiers |-> None]
    /\ stage = [v \in Verifiers |-> "blocklist"]
    /\ verdict = [v \in Verifiers |-> "none"]
    /\ consuming = [f \in Refreshers |-> None]
    /\ revoked = {} /\ taken = {} /\ exchanged = [n \in Pairs |-> 0]
    /\ revokedThen = [v \in Verifiers |-> {}]
    /\ versionThen = [v \in Verifiers |-> 0]

Tick ==
    /\ now < MaxTime
    /\ now' = now + 1
    /\ UNCHANGED <<pairVars, storeVars, revokeVars, verifyVars, refreshVars>>

\* A key with a time to live exists until it runs out.
Exists(until) == now < until

\* The parser's test of exp, with the leeway.
Unexpired(exp) == now < exp + ClockSkew

\* jwt.NewNumericDate drops the fraction of a second.
NumericDate(t) == t - (t % Second)

-----------------------------------------------------------------------------
(* GenerateTokenPairWithVersion.                                           *)

\* One reading of the clock for both tokens.  GenerateTokenPair passes 0; an
\* application that keeps session versions passes one that it was given.
Generate(g) ==
    /\ saving[g] = None /\ made < MaxPairs
    /\ made' = made + 1 /\ saving' = [saving EXCEPT ![g] = made + 1]
    /\ accessExp' =
           [accessExp EXCEPT ![made + 1] = NumericDate(now + AccessTTL)]
    /\ refreshExp' =
           [refreshExp EXCEPT ![made + 1] = NumericDate(now + RefreshTTL)]
    /\ \E s \in 0 .. sessionVer : session' = [session EXCEPT ![made + 1] = s]
    /\ UNCHANGED <<now, returned, storeVars, revokeVars, verifyVars,
                   refreshVars>>

SavedLikeTheAccessToken == now + AccessTTL
RefreshKeyUntil == now + RefreshTTL

\* Save: only a pair that was stored is returned.
Save(g) ==
    /\ saving[g] # None
    /\ \/ /\ refreshUntil' =
                 [refreshUntil EXCEPT ![saving[g]] = RefreshKeyUntil]
          /\ returned' = returned \cup {saving[g]}
       \/ /\ RedisFails
          /\ \/ UNCHANGED refreshUntil
             \/ refreshUntil' =
                    [refreshUntil EXCEPT ![saving[g]] = RefreshKeyUntil]
          /\ UNCHANGED returned
    /\ saving' = [saving EXCEPT ![g] = None]
    /\ UNCHANGED <<now, made, accessExp, refreshExp, session, blockUntil,
                   sessionVer, revokeVars, verifyVars, refreshVars>>

\* SessionVersionStore.Incr: the key has no time to live.
IncrSession ==
    /\ sessionVer < MaxVersion
    /\ sessionVer' = sessionVer + 1
    /\ UNCHANGED <<now, pairVars, refreshUntil, blockUntil, revokeVars,
                   verifyVars, refreshVars>>

-----------------------------------------------------------------------------
(* RevokeAccessToken.                                                      *)

BlockedASecondLess(n) == accessExp[n] - now - Second
Remaining(n) == accessExp[n] - now

\* What is left of the token; a second when that is nothing.
Revoke(r) ==
    /\ revoking[r] = None
    /\ \E n \in returned :
          /\ revoking' = [revoking EXCEPT ![r] = n]
          /\ ttl' = [ttl EXCEPT ![r] =
                        IF Remaining(n) <= 0 THEN Second ELSE Remaining(n)]
    /\ UNCHANGED <<now, pairVars, storeVars, revoked, verifyVars, refreshVars>>

\* Block sets the entry and its time to live, an earlier entry's included.
Block(r) ==
    /\ revoking[r] # None
    /\ \/ /\ blockUntil' = [blockUntil EXCEPT ![revoking[r]] = now + ttl[r]]
          /\ revoked' = revoked \cup {revoking[r]}
       \/ /\ RedisFails
          /\ \/ UNCHANGED blockUntil
             \/ blockUntil' =
                    [blockUntil EXCEPT ![revoking[r]] = now + ttl[r]]
          /\ UNCHANGED revoked
    /\ revoking' = [revoking EXCEPT ![r] = None]
    /\ ttl' = [ttl EXCEPT ![r] = 0]
    /\ UNCHANGED <<now, pairVars, refreshUntil, sessionVer, verifyVars,
                   refreshVars>>

-----------------------------------------------------------------------------
(* VerifyAccessToken and VerifyAccessTokenWithVersion.                     *)

\* ParseWithClaims; what has expired is refused here.
ParseAccess(v) ==
    /\ verifying[v] = None
    /\ \E n \in returned :
          Unexpired(accessExp[n]) /\ verifying' = [verifying EXCEPT ![v] = n]
    /\ stage' = [stage EXCEPT ![v] = "blocklist"]
    /\ verdict' = [verdict EXCEPT ![v] = "none"]
    /\ revokedThen' = [revokedThen EXCEPT ![v] = revoked]
    /\ versionThen' = [versionThen EXCEPT ![v] = sessionVer]
    /\ UNCHANGED <<now, pairVars, storeVars, revokeVars, refreshVars>>

\* The call returns.
Decide(v, outcome) ==
    /\ verdict' = [verdict EXCEPT ![v] = outcome]
    /\ verifying' = [verifying EXCEPT ![v] = None]
    /\ UNCHANGED stage

\* IsBlocked.  Without a version store, a token that is not blocked is good.
AskBlocklist(v) ==
    /\ verifying[v] # None /\ stage[v] = "blocklist"
    /\ \/ Exists(blockUntil[verifying[v]]) /\ Decide(v, "refused")
       \/ RedisFails /\ Decide(v, "refused")
       \/ /\ ~Exists(blockUntil[verifying[v]])
          /\ \/ Decide(v, "accepted")
             \/ stage' = [stage EXCEPT ![v] = "version"]
                /\ UNCHANGED <<verifying, verdict>>
    /\ UNCHANGED <<now, pairVars, storeVars, revokeVars, revokedThen, versionThen,
                   refreshVars>>

NotFromTheFuture(n) == sessionVer > 0 => session[n] <= sessionVer
VersionHolds(n) == sessionVer > 0 => session[n] = sessionVer

\* SessionVersionStore.Get.  A missing key counts as version 0, and 0 accepts
\* every token.
AskVersion(v) ==
    /\ verifying[v] # None /\ stage[v] = "version"
    /\ \/ VersionHolds(verifying[v]) /\ Decide(v, "accepted")
       \/ (~VersionHolds(verifying[v]) \/ RedisFails) /\ Decide(v, "refused")
    /\ UNCHANGED <<now, pairVars, storeVars, revokeVars, revokedThen, versionThen,
                   refreshVars>>

-----------------------------------------------------------------------------
(* ConsumeRefreshToken.                                                    *)

ParseRefresh(f) ==
    /\ consuming[f] = None
    /\ \E n \in returned :
          Unexpired(refreshExp[n]) /\ consuming' = [consuming EXCEPT ![f] = n]
    /\ UNCHANGED <<now, pairVars, storeVars, revokeVars, verifyVars, exchanged,
                   taken>>

\* GETDEL reads and removes the key in one command.
OnlyRead(n) == UNCHANGED refreshUntil
GetDel(n) == refreshUntil' = [refreshUntil EXCEPT ![n] = None]

Consume(f) ==
    /\ consuming[f] # None
    /\ LET n == consuming[f] IN
         \/ /\ Exists(refreshUntil[n]) /\ GetDel(n)
            /\ taken' = taken \cup {n}
            /\ \/ exchanged' = [exchanged EXCEPT ![n] = @ + 1]
               \/ RedisFails /\ UNCHANGED exchanged  \* the reply is lost
         \/ /\ ~Exists(refreshUntil[n]) \/ RedisFails
            /\ UNCHANGED <<refreshUntil, exchanged, taken>>
    /\ consuming' = [consuming EXCEPT ![f] = None]
    /\ UNCHANGED <<now, pairVars, blockUntil, sessionVer, revokeVars,
                   verifyVars>>

-----------------------------------------------------------------------------
Next ==
    \/ Tick \/ IncrSession
    \/ \E g \in Issuers : Generate(g) \/ Save(g)
    \/ \E r \in Revokers : Revoke(r) \/ Block(r)
    \/ \E v \in Verifiers : ParseAccess(v) \/ AskBlocklist(v) \/ AskVersion(v)
    \/ \E f \in Refreshers : ParseRefresh(f) \/ Consume(f)

Spec == Init /\ [][Next]_vars
-----------------------------------------------------------------------------
(* Properties.                                                             *)

\* A refresh token is exchanged at most once ("one-time use", token.go:44),
\* also by calls that race with each other and with the save of the pair.
RefreshOnce == \A n \in Pairs : exchanged[n] <= 1

\* A refresh token that was handed out, has not expired and was never taken is
\* still in the store, however long the save of the pair took.
RefreshHonoured ==
    \A n \in returned \ taken :
        now < refreshExp[n] => Exists(refreshUntil[n])

Accepts(v) == verifying[v] # None /\ verdict'[v] = "accepted"

\* A verification that began after RevokeAccessToken returned never accepts
\* the token before its exp, whatever passes between reading the clock and
\* setting the entry, between parsing and asking the blocklist, and whichever
\* revocation of the token came last.
RevokedUntilExpiry ==
    [][\A v \in Verifiers :
          Accepts(v) /\ verifying[v] \in revokedThen[v]
              => now >= accessExp[verifying[v]]]_vars

\* "tokens with lower versions are invalid once a higher version is issued"
\* (token.go:18): a verification with a version store never accepts a token
\* older than the session version that stood when it began.
SupersededRefused ==
    [][\A v \in Verifiers :
          Accepts(v) /\ stage[v] = "version"
              => session[verifying[v]] >= versionThen[v]]_vars

\* RevokeAccessToken blocks the token for its "remaining TTL" (token.go:220):
\* as long as VerifyAccessToken would still accept it.
BlockedWhileUnexpired ==
    \A n \in revoked : Unexpired(accessExp[n]) => Exists(blockUntil[n])
=============================================================================
