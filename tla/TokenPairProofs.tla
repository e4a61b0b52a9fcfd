--------------------------- MODULE TokenPairProofs ---------------------------
(***************************************************************************)
(* Proofs about TokenPair, for any lifetimes, any number of concurrent     *)
(* calls and any failures of Redis.                                        *)
(*                                                                         *)
(* The argument is about clocks: a time to live that is computed at one    *)
(* moment and applied at a later one ends no earlier than it was meant to  *)
(* (RevokeInv, RefreshInv), and what a verification saw of the blocklist   *)
(* stays true of the time that has passed since (VerifyInv).               *)
(***************************************************************************)
EXTENDS TokenPair, TLAPS

\* Pairs are saved once, before anybody holds them.
IssueInv ==
    /\ \A n \in returned : n <= made
    /\ \A g \in Issuers :
          /\ saving[g] <= made /\ saving[g] \notin returned
          /\ saving[g] # None => refreshExp[saving[g]] <= now + RefreshTTL
    /\ \A g, h \in Issuers : saving[g] = saving[h] => g = h \/ saving[g] = None

\* An entry of the blocklist outlives the token.
RevokeInv ==
    /\ \A r \in Revokers : revoking[r] # None =>
          revoking[r] \in returned /\ accessExp[revoking[r]] <= now + ttl[r]
    /\ \A n \in revoked : n \in returned /\ accessExp[n] <= blockUntil[n]

VerifyInv ==
    \A v \in Verifiers :
        /\ revokedThen[v] \subseteq revoked
        /\ versionThen[v] <= sessionVer
        /\ verifying[v] # None =>
              /\ verifying[v] \in returned /\ verdict[v] = "none"
              /\ stage[v] = "version" /\ verifying[v] \in revokedThen[v]
                    => now >= accessExp[verifying[v]]

\* The refresh key of a pair is removed once, and outlives the token till then.
RefreshInv ==
    /\ \A f \in Refreshers : consuming[f] # None => consuming[f] \in returned
    /\ \A n \in taken : n \in returned /\ refreshUntil[n] = None
    /\ \A n \in returned \ taken : refreshExp[n] <= refreshUntil[n]
    /\ \A n \in Pairs : exchanged[n] <= 1 /\ (n \notin taken => exchanged[n] = 0)

PairInv == TypeOK /\ IssueInv /\ RevokeInv /\ VerifyInv /\ RefreshInv

-----------------------------------------------------------------------------
(* Types.                                                                  *)

LEMMA NumericDateBound ==
    ASSUME NEW t \in Nat
    PROVE  NumericDate(t) \in Int /\ NumericDate(t) <= t
  BY PairAssumption DEF NumericDate

LEMMA InvInit == Init => PairInv
  <1> SUFFICES ASSUME Init PROVE PairInv
    OBVIOUS
  <1>1. TypeOK
    BY PairAssumption DEF Init, TypeOK, Pairs, None
  <1>2. IssueInv /\ RevokeInv /\ VerifyInv /\ RefreshInv
    BY PairAssumption
       DEF Init, IssueInv, RevokeInv, VerifyInv, RefreshInv, Pairs, None
  <1>3. QED
    BY <1>1, <1>2 DEF PairInv

\* TypeOK, a group of variables at a time.
PairTypes ==
    /\ made \in 0 .. MaxPairs
    /\ accessExp \in [Pairs -> Int] /\ refreshExp \in [Pairs -> Int]
    /\ session \in [Pairs -> 0 .. MaxVersion]
    /\ returned \in SUBSET Pairs
    /\ saving \in [Issuers -> 0 .. MaxPairs]

StoreTypes ==
    /\ refreshUntil \in [Pairs -> Nat] /\ blockUntil \in [Pairs -> Nat]
    /\ sessionVer \in 0 .. MaxVersion

RevokeTypes ==
    /\ revoking \in [Revokers -> 0 .. MaxPairs]
    /\ ttl \in [Revokers -> Nat]
    /\ revoked \in SUBSET Pairs

VerifyTypes ==
    /\ verifying \in [Verifiers -> 0 .. MaxPairs]
    /\ stage \in [Verifiers -> {"blocklist", "version"}]
    /\ verdict \in [Verifiers -> {"none", "accepted", "refused"}]
    /\ revokedThen \in [Verifiers -> SUBSET Pairs]
    /\ versionThen \in [Verifiers -> 0 .. MaxVersion]

RefreshTypes ==
    /\ consuming \in [Refreshers -> 0 .. MaxPairs]
    /\ exchanged \in [Pairs -> Nat]
    /\ taken \in SUBSET Pairs

LEMMA TypeGroups ==
    TypeOK <=> /\ now \in 0 .. MaxTime
               /\ PairTypes /\ StoreTypes /\ RevokeTypes /\ VerifyTypes
               /\ RefreshTypes
  BY DEF TypeOK, PairTypes, StoreTypes, RevokeTypes, VerifyTypes, RefreshTypes

LEMMA TypeStep == TypeOK /\ [Next]_vars => TypeOK'
  <1> SUFFICES ASSUME TypeOK, [Next]_vars PROVE TypeOK'
    OBVIOUS
  <1>0. /\ now \in 0 .. MaxTime /\ PairTypes /\ StoreTypes /\ RevokeTypes
        /\ VerifyTypes /\ RefreshTypes
    BY TypeGroups
  <1>1. now' \in 0 .. MaxTime
    BY <1>0, PairAssumption
       DEF Next, Tick, IncrSession, Generate, Save, Revoke, Block, ParseAccess,
           AskBlocklist, AskVersion, ParseRefresh, Consume, vars
  <1>2. PairTypes'
    <2>1. ASSUME NEW g \in Issuers, Generate(g) PROVE PairTypes'
      <3>1. now + AccessTTL \in Nat /\ now + RefreshTTL \in Nat
        BY <1>0, PairAssumption
      <3>2. /\ NumericDate(now + AccessTTL) \in Int
            /\ NumericDate(now + RefreshTTL) \in Int
        BY <3>1, NumericDateBound
      <3>3. accessExp' \in [Pairs -> Int] /\ refreshExp' \in [Pairs -> Int]
        BY <1>0, <2>1, <3>2 DEF Generate, PairTypes
      <3>4. session' \in [Pairs -> 0 .. MaxVersion]
        <4>1. PICK n \in 0 .. sessionVer :
                  session' = [session EXCEPT ![made + 1] = n]
          BY <2>1 DEF Generate
        <4>2. n \in 0 .. MaxVersion
          BY <1>0, PairAssumption DEF StoreTypes
        <4>3. QED
          BY <1>0, <4>1, <4>2 DEF PairTypes
      <3>5. made' \in 0 .. MaxPairs /\ saving' \in [Issuers -> 0 .. MaxPairs]
        BY <1>0, <2>1, PairAssumption DEF Generate, PairTypes
      <3>6. QED
        BY <1>0, <2>1, <3>3, <3>4, <3>5 DEF Generate, PairTypes
    <2>2. ASSUME NEW g \in Issuers, Save(g) PROVE PairTypes'
      <3>1. saving[g] \in Pairs
        BY <1>0, <2>2, PairAssumption DEF Save, PairTypes, Pairs, None
      <3>2. returned' \in SUBSET Pairs
        BY <1>0, <2>2, <3>1 DEF Save, PairTypes
      <3>3. saving' \in [Issuers -> 0 .. MaxPairs]
        BY <1>0, <2>2, PairAssumption DEF Save, PairTypes, None
      <3>4. QED
        BY <1>0, <2>2, <3>2, <3>3 DEF Save, PairTypes
    <2>3. CASE UNCHANGED pairVars
      BY <1>0, <2>3 DEF PairTypes, pairVars
    <2>4. QED
      BY <2>1, <2>2, <2>3
         DEF Next, Tick, IncrSession, Revoke, Block, ParseAccess, AskBlocklist,
             AskVersion, ParseRefresh, Consume, vars
  <1>3. StoreTypes'
    <2>1. ASSUME NEW g \in Issuers, Save(g) PROVE StoreTypes'
      BY <1>0, <2>1, PairAssumption DEF Save, RefreshKeyUntil, StoreTypes
    <2>2. ASSUME NEW r \in Revokers, Block(r) PROVE StoreTypes'
      <3>1. now + ttl[r] \in Nat
        BY <1>0, PairAssumption DEF RevokeTypes
      <3>2. QED
        BY <1>0, <2>2, <3>1 DEF Block, StoreTypes
    <2>3. ASSUME NEW f \in Refreshers, Consume(f) PROVE StoreTypes'
      BY <1>0, <2>3 DEF Consume, GetDel, StoreTypes, None
    <2>4. CASE IncrSession
      BY <1>0, <2>4, PairAssumption DEF IncrSession, StoreTypes
    <2>5. CASE UNCHANGED storeVars
      BY <1>0, <2>5 DEF StoreTypes, storeVars
    <2>6. QED
      BY <2>1, <2>2, <2>3, <2>4, <2>5
         DEF Next, Tick, Generate, Revoke, ParseAccess, AskBlocklist,
             AskVersion, ParseRefresh, vars
  <1>4. RevokeTypes'
    <2>1. ASSUME NEW r \in Revokers, Revoke(r) PROVE RevokeTypes'
      <3>1. PICK n \in returned :
                /\ revoking' = [revoking EXCEPT ![r] = n]
                /\ ttl' = [ttl EXCEPT ![r] = IF Remaining(n) <= 0 THEN Second
                                                            ELSE Remaining(n)]
        BY <2>1 DEF Revoke
      <3>2. n \in 0 .. MaxPairs /\ Remaining(n) \in Int
        BY <1>0, PairAssumption DEF PairTypes, Pairs, Remaining
      <3>3. QED
        BY <1>0, <2>1, <3>1, <3>2, PairAssumption DEF Revoke, RevokeTypes
    <2>2. ASSUME NEW r \in Revokers, Block(r) PROVE RevokeTypes'
      <3>1. revoking[r] \in Pairs
        BY <1>0, <2>2, PairAssumption DEF Block, RevokeTypes, Pairs, None
      <3>2. revoked' \in SUBSET Pairs
        BY <1>0, <2>2, <3>1 DEF Block, RevokeTypes
      <3>3. /\ revoking' \in [Revokers -> 0 .. MaxPairs]
            /\ ttl' \in [Revokers -> Nat]
        BY <1>0, <2>2, PairAssumption DEF Block, RevokeTypes, None
      <3>4. QED
        BY <3>2, <3>3 DEF RevokeTypes
    <2>3. CASE UNCHANGED revokeVars
      BY <1>0, <2>3 DEF RevokeTypes, revokeVars
    <2>4. QED
      BY <2>1, <2>2, <2>3
         DEF Next, Tick, IncrSession, Generate, Save, ParseAccess,
             AskBlocklist, AskVersion, ParseRefresh, Consume, vars
  <1>5. VerifyTypes'
    <2>1. ASSUME NEW v \in Verifiers, ParseAccess(v) PROVE VerifyTypes'
      <3>1. verifying' \in [Verifiers -> 0 .. MaxPairs]
        BY <1>0, <2>1, PairAssumption
           DEF ParseAccess, VerifyTypes, PairTypes, Pairs
      <3>2. revokedThen' \in [Verifiers -> SUBSET Pairs]
            /\ versionThen' \in [Verifiers -> 0 .. MaxVersion]
        BY <1>0, <2>1 DEF ParseAccess, VerifyTypes, RevokeTypes, StoreTypes
      <3>3. stage' \in [Verifiers -> {"blocklist", "version"}]
            /\ verdict' \in [Verifiers -> {"none", "accepted", "refused"}]
        BY <1>0, <2>1 DEF ParseAccess, VerifyTypes
      <3>4. QED
        BY <3>1, <3>2, <3>3 DEF VerifyTypes
    <2>2. ASSUME NEW v \in Verifiers, AskBlocklist(v) \/ AskVersion(v)
          PROVE  VerifyTypes'
      <3>1. verifying' \in [Verifiers -> 0 .. MaxPairs]
        BY <1>0, <2>2, PairAssumption
           DEF AskBlocklist, AskVersion, Decide, VerifyTypes, None
      <3>2. stage' \in [Verifiers -> {"blocklist", "version"}]
        BY <1>0, <2>2 DEF AskBlocklist, AskVersion, Decide, VerifyTypes
      <3>3. verdict' \in [Verifiers -> {"none", "accepted", "refused"}]
        BY <1>0, <2>2 DEF AskBlocklist, AskVersion, Decide, VerifyTypes
      <3>4. UNCHANGED <<revokedThen, versionThen>>
        BY <2>2 DEF AskBlocklist, AskVersion
      <3>5. QED
        BY <1>0, <3>1, <3>2, <3>3, <3>4 DEF VerifyTypes
    <2>3. CASE UNCHANGED verifyVars
      BY <1>0, <2>3 DEF VerifyTypes, verifyVars
    <2>4. QED
      BY <2>1, <2>2, <2>3
         DEF Next, Tick, IncrSession, Generate, Save, Revoke, Block,
             ParseRefresh, Consume, vars
  <1>6. RefreshTypes'
    <2>1. ASSUME NEW f \in Refreshers, ParseRefresh(f) PROVE RefreshTypes'
      <3>1. PICK n \in returned : consuming' = [consuming EXCEPT ![f] = n]
        BY <2>1 DEF ParseRefresh
      <3>2. n \in 0 .. MaxPairs
        BY <1>0, PairAssumption DEF PairTypes, Pairs
      <3>3. QED
        BY <1>0, <2>1, <3>1, <3>2 DEF ParseRefresh, RefreshTypes
    <2>2. ASSUME NEW f \in Refreshers, Consume(f) PROVE RefreshTypes'
      <3>1. consuming[f] \in Pairs
        BY <1>0, <2>2 DEF Consume, RefreshTypes, Pairs, None
      <3>2. QED
        BY <1>0, <2>2, <3>1, PairAssumption DEF Consume, RefreshTypes, None
    <2>3. CASE UNCHANGED refreshVars
      BY <1>0, <2>3 DEF RefreshTypes, refreshVars
    <2>4. QED
      BY <2>1, <2>2, <2>3
         DEF Next, Tick, IncrSession, Generate, Save, Revoke, Block,
             ParseAccess, AskBlocklist, AskVersion, vars
  <1>7. QED
    BY <1>1, <1>2, <1>3, <1>4, <1>5, <1>6
       DEF TypeOK, PairTypes, StoreTypes, RevokeTypes, VerifyTypes, RefreshTypes

-----------------------------------------------------------------------------
(* The inductive invariant, a part at a time.                              *)

LEMMA IssueStep == PairInv /\ [Next]_vars => IssueInv'
  <1> SUFFICES ASSUME PairInv, [Next]_vars PROVE IssueInv'
    OBVIOUS
  <1>a. PairTypes /\ IssueInv /\ now \in Nat /\ RefreshTTL \in Nat
    BY TypeGroups, PairAssumption DEF PairInv
  <1>b. returned \subseteq Pairs
    BY <1>a DEF PairTypes
  <1>c. 0 \notin Pairs
    BY DEF Pairs
  <1>0. /\ PairTypes /\ IssueInv /\ now \in Nat /\ RefreshTTL \in Nat
        /\ 0 \notin returned
    BY <1>a, <1>b, <1>c
  <1>1. ASSUME NEW g \in Issuers, Generate(g) PROVE IssueInv'
    <2>1. /\ made \in Nat /\ made' = made + 1 /\ made + 1 \in Pairs
          /\ saving[g] = None /\ saving' = [saving EXCEPT ![g] = made + 1]
          /\ now' = now /\ returned' = returned
      BY <1>0, <1>1, PairAssumption DEF Generate, PairTypes, Pairs
    <2>2. /\ refreshExp'[made + 1] = NumericDate(now + RefreshTTL)
          /\ \A n \in Pairs : n # made + 1 => refreshExp'[n] = refreshExp[n]
      BY <1>0, <1>1, <2>1 DEF Generate, PairTypes
    <2>3. refreshExp'[made + 1] <= now + RefreshTTL
      <3>1. now + RefreshTTL \in Nat
        BY <1>0
      <3>2. QED
        BY <2>2, <3>1, NumericDateBound
    <2>4. \A n \in returned : n <= made + 1 /\ n # made + 1
      BY <1>0, <2>1 DEF IssueInv, PairTypes, Pairs
    <2>5. ASSUME NEW h \in Issuers, h # g
          PROVE  /\ saving'[h] = saving[h] /\ saving[h] \in 0 .. made
                 /\ saving[h] # made + 1
                 /\ saving[h] # None => refreshExp'[saving[h]]
                                            = refreshExp[saving[h]]
      <3>1. saving'[h] = saving[h]
        BY <1>0, <2>1, <2>5 DEF PairTypes
      <3>2. saving[h] \in 0 .. MaxPairs /\ saving[h] <= made
        BY <1>0 DEF IssueInv, PairTypes
      <3>3. saving[h] \in 0 .. made /\ saving[h] # made + 1
        BY <2>1, <3>2, PairAssumption
      <3>4. saving[h] # None => saving[h] \in Pairs
        BY <3>2, PairAssumption DEF Pairs, None
      <3>5. QED
        BY <2>2, <3>1, <3>3, <3>4
    <2>6. saving'[g] = made + 1
      BY <1>0, <2>1 DEF PairTypes
    <2>7. \A h \in Issuers :
              /\ saving'[h] <= made' /\ saving'[h] \notin returned'
              /\ saving'[h] # None =>
                     refreshExp'[saving'[h]] <= now' + RefreshTTL
      BY <1>0, <2>1, <2>3, <2>4, <2>5, <2>6 DEF IssueInv
    <2>8. \A h, i \in Issuers :
              saving'[h] = saving'[i] => h = i \/ saving'[h] = None
      BY <1>0, <2>5, <2>6 DEF IssueInv
    <2>9. QED
      BY <2>1, <2>4, <2>7, <2>8 DEF IssueInv
  <1>2. ASSUME NEW g \in Issuers, Save(g) PROVE IssueInv'
    <2>1. /\ saving[g] # None /\ saving' = [saving EXCEPT ![g] = None]
          /\ returned' \subseteq returned \cup {saving[g]}
          /\ UNCHANGED <<now, made, refreshExp>>
      BY <1>2 DEF Save
    <2>2. saving'[g] = None /\ \A h \in Issuers \ {g} : saving'[h] = saving[h]
      BY <1>0, <2>1 DEF PairTypes
    <2>3. \A h \in Issuers : saving'[h] \notin returned'
      BY <1>0, <2>1, <2>2 DEF IssueInv, None
    <2>4. \A n \in returned' : n <= made'
      BY <1>0, <2>1 DEF IssueInv
    <2>5. made \in Nat
      BY <1>0, PairAssumption DEF PairTypes
    <2>6. QED
      BY <1>0, <2>1, <2>2, <2>3, <2>4, <2>5 DEF IssueInv, None
  <1>3. CASE Tick
    <2>1. /\ now' = now + 1
          /\ UNCHANGED <<made, returned, refreshExp, saving>>
      BY <1>3 DEF Tick, pairVars
    <2>2. \A g \in Issuers :
              saving[g] # None => refreshExp[saving[g]] \in Int
      BY <1>0, PairAssumption DEF PairTypes, Pairs, None
    <2>3. \A g \in Issuers :
              saving[g] # None => refreshExp[saving[g]] <= now + 1 + RefreshTTL
      BY <1>0, <2>2 DEF IssueInv
    <2>4. QED
      BY <1>0, <2>1, <2>3 DEF IssueInv
  <1>4. CASE UNCHANGED <<now, pairVars>>
    BY <1>0, <1>4 DEF IssueInv, pairVars
  <1>5. QED
    BY <1>1, <1>2, <1>3, <1>4
       DEF Next, IncrSession, Revoke, Block, ParseAccess, AskBlocklist,
           AskVersion, ParseRefresh, Consume, vars

\* What the three parts below need of any step: time passes, and of a pair that
\* was returned the claims stay as they are.
LEMMA Frame ==
    ASSUME PairInv, [Next]_vars
    PROVE  /\ now \in Nat /\ now' \in Nat /\ now <= now'
           /\ returned \subseteq returned'
           /\ returned' \subseteq Pairs
           /\ \A n \in returned : /\ accessExp'[n] = accessExp[n]
                                  /\ refreshExp'[n] = refreshExp[n]
                                  /\ session'[n] = session[n]
  <1> USE PairAssumption DEF PairInv, TypeOK, IssueInv
  <1>1. ASSUME NEW g \in Issuers, Generate(g)
        PROVE  \A n \in returned : /\ accessExp'[n] = accessExp[n]
                                   /\ refreshExp'[n] = refreshExp[n]
                                   /\ session'[n] = session[n]
    <2>1. \A n \in returned : n # made + 1 /\ n \in Pairs
      BY PairAssumption DEF Pairs
    <2>2. QED
      BY <1>1, <2>1 DEF Generate
  <1>2. \A n \in returned : /\ accessExp'[n] = accessExp[n]
                            /\ refreshExp'[n] = refreshExp[n]
                            /\ session'[n] = session[n]
    BY <1>1 DEF Next, Tick, IncrSession, Save, Revoke, Block, ParseAccess,
       AskBlocklist, AskVersion, ParseRefresh, Consume, vars, pairVars
  <1>3. now <= now'
    BY DEF Next, Tick, IncrSession, Generate, Save, Revoke, Block, ParseAccess,
       AskBlocklist, AskVersion, ParseRefresh, Consume, vars
  <1>4. returned \subseteq returned'
    BY DEF Next, Tick, IncrSession, Generate, Save, Revoke, Block, ParseAccess,
       AskBlocklist, AskVersion, ParseRefresh, Consume, vars, pairVars
  <1>5. QED
    BY <1>2, <1>3, <1>4, TypeStep

LEMMA RevokeStep == PairInv /\ [Next]_vars => RevokeInv'
  <1> SUFFICES ASSUME PairInv, [Next]_vars PROVE RevokeInv'
    OBVIOUS
  <1>0. TypeOK /\ TypeOK' /\ RevokeInv
    BY TypeStep DEF PairInv
  <1> USE <1>0, Frame, PairAssumption DEF TypeOK, RevokeInv
  <1>1. ASSUME NEW r \in Revokers, Revoke(r) PROVE RevokeInv'
    <2>1. PICK n \in returned :
              /\ revoking' = [revoking EXCEPT ![r] = n]
              /\ ttl' = [ttl EXCEPT ![r] = IF Remaining(n) <= 0 THEN Second
                                                          ELSE Remaining(n)]
      BY <1>1 DEF Revoke
    <2>2. accessExp[n] <= now + ttl'[r]
      BY <2>1 DEF Remaining
    <2>3. QED
      BY <1>1, <2>1, <2>2 DEF Revoke, pairVars, storeVars, None
  <1>2. ASSUME NEW r \in Revokers, Block(r) PROVE RevokeInv'
    BY <1>2 DEF Block, pairVars, None
  <1>3. CASE UNCHANGED <<blockUntil, revokeVars>>
    BY <1>3 DEF revokeVars, None
  <1>4. QED
    BY <1>1, <1>2, <1>3
       DEF Next, Tick, IncrSession, Generate, Save, ParseAccess, AskBlocklist,
           AskVersion, ParseRefresh, Consume, vars, storeVars

LEMMA VerifyStep == PairInv /\ [Next]_vars => VerifyInv'
  <1> SUFFICES ASSUME PairInv, [Next]_vars PROVE VerifyInv'
    OBVIOUS
  <1>0. TypeOK /\ TypeOK' /\ RevokeInv /\ VerifyInv
    BY TypeStep DEF PairInv
  <1> USE <1>0, Frame, PairAssumption DEF TypeOK
  <1>1. revoked \subseteq revoked' /\ sessionVer <= sessionVer'
    BY DEF Next, Tick, IncrSession, Generate, Save, Revoke, Block, ParseAccess,
       AskBlocklist, AskVersion, ParseRefresh, Consume, vars, storeVars,
       revokeVars
  <1>2. ASSUME NEW v \in Verifiers, ParseAccess(v) PROVE VerifyInv'
    BY <1>1, <1>2 DEF ParseAccess, VerifyInv, None
  <1>3. ASSUME NEW v \in Verifiers, AskBlocklist(v) PROVE VerifyInv'
    <2>1. verifying[v] \in revokedThen[v] /\ ~Exists(blockUntil[verifying[v]])
              => now >= accessExp[verifying[v]]
      BY DEF Exists, VerifyInv, RevokeInv
    <2>2. QED
      BY <1>1, <1>3, <2>1 DEF AskBlocklist, Decide, VerifyInv, None
  <1>4. ASSUME NEW v \in Verifiers, AskVersion(v) PROVE VerifyInv'
    BY <1>1, <1>4 DEF AskVersion, Decide, VerifyInv, None
  <1>5. CASE UNCHANGED verifyVars
    BY <1>1, <1>5 DEF verifyVars, VerifyInv, None
  <1>6. QED
    BY <1>2, <1>3, <1>4, <1>5
       DEF Next, Tick, IncrSession, Generate, Save, Revoke, Block,
           ParseRefresh, Consume, vars

\* The key of a pair that is being saved is nobody else's yet.
LEMMA RefreshSave ==
    ASSUME PairInv, NEW g \in Issuers, Save(g)
    PROVE  RefreshInv'
  <1> DEFINE p == saving[g]
  <1>1. /\ PairTypes /\ StoreTypes /\ RefreshTypes /\ IssueInv /\ RefreshInv
        /\ now \in Nat /\ RefreshTTL \in Nat
    BY TypeGroups, PairAssumption DEF PairInv
  <1>0. saving[g] # None /\ saving[g] \in 0 .. MaxPairs
    BY <1>1 DEF Save, PairTypes
  <1>2. /\ p \in Pairs /\ p \notin returned
        /\ refreshExp[p] <= now + RefreshTTL
    BY <1>0, <1>1, PairAssumption DEF IssueInv, Pairs, None
  <1>3. /\ UNCHANGED <<now, refreshExp, consuming, exchanged, taken>>
        /\ \/ returned' = returned \cup {p}
              /\ refreshUntil' = [refreshUntil EXCEPT ![p] = now + RefreshTTL]
           \/ returned' = returned
              /\ \/ refreshUntil' = refreshUntil
                 \/ refreshUntil' =
                        [refreshUntil EXCEPT ![p] = now + RefreshTTL]
    BY DEF Save, RefreshKeyUntil, refreshVars
  <1> HIDE DEF p
  <1>4. \A n \in Pairs \ {p} : refreshUntil'[n] = refreshUntil[n]
    BY <1>1, <1>3 DEF StoreTypes
  <1>5. p \in returned' => refreshUntil'[p] = now + RefreshTTL
    BY <1>1, <1>2, <1>3 DEF StoreTypes
  <1>6. p \notin taken /\ returned \subseteq Pairs /\ taken \subseteq Pairs
    BY <1>1, <1>2 DEF RefreshInv, PairTypes, RefreshTypes
  <1>7. \A n \in taken : n \in returned' /\ refreshUntil'[n] = None
    BY <1>1, <1>3, <1>4, <1>6 DEF RefreshInv
  <1>8. \A n \in returned' \ taken : refreshExp'[n] <= refreshUntil'[n]
    BY <1>1, <1>2, <1>3, <1>4, <1>5, <1>6 DEF RefreshInv
  <1>9. QED
    BY <1>1, <1>3, <1>7, <1>8 DEF RefreshInv

LEMMA RefreshStep == PairInv /\ [Next]_vars => RefreshInv'
  <1> SUFFICES ASSUME PairInv, [Next]_vars PROVE RefreshInv'
    OBVIOUS
  <1>0. TypeOK /\ TypeOK' /\ IssueInv /\ RefreshInv
    BY TypeStep DEF PairInv
  <1> USE <1>0, Frame, PairAssumption DEF TypeOK, RefreshInv
  <1>1. ASSUME NEW g \in Issuers, Save(g) PROVE RefreshInv'
    BY <1>1, RefreshSave DEF PairInv
  <1>2. ASSUME NEW f \in Refreshers, ParseRefresh(f) PROVE RefreshInv'
    BY <1>2 DEF ParseRefresh, storeVars, pairVars, None
  <1>3. ASSUME NEW f \in Refreshers, Consume(f) PROVE RefreshInv'
    <2>1. consuming[f] \in returned /\ returned' = returned
      BY <1>3 DEF Consume, pairVars
    <2>2. CASE Exists(refreshUntil[consuming[f]]) /\ GetDel(consuming[f])
               /\ taken' = taken \cup {consuming[f]}
      <3>1. consuming[f] \notin taken
        BY <2>1, <2>2 DEF Exists, None
      <3>2. QED
        BY <1>3, <2>1, <2>2, <3>1 DEF Consume, GetDel, None
    <2>3. CASE UNCHANGED <<refreshUntil, exchanged, taken>>
      BY <1>3, <2>1, <2>3 DEF Consume, None
    <2>4. QED
      BY <1>3, <2>2, <2>3 DEF Consume
  <1>4. CASE UNCHANGED <<refreshUntil, returned, refreshVars>>
    BY <1>4 DEF refreshVars
  <1>5. QED
    BY <1>1, <1>2, <1>3, <1>4
       DEF Next, Tick, IncrSession, Generate, Revoke, Block, ParseAccess,
           AskBlocklist, AskVersion, vars, storeVars, pairVars

LEMMA InvAlways == Spec => []PairInv
  <1>1. PairInv /\ [Next]_vars => PairInv'
    BY TypeStep, IssueStep, RevokeStep, VerifyStep, RefreshStep DEF PairInv
  <1>2. QED
    BY <1>1, InvInit, PTL DEF Spec

-----------------------------------------------------------------------------
(* Theorems.                                                               *)

\* A refresh token is exchanged at most once: GETDEL removes the key with the
\* command that reads it, and a pair is saved only before it is returned.
THEOREM RefreshIsOnce == Spec => []RefreshOnce
  <1>1. PairInv => RefreshOnce
    BY DEF PairInv, RefreshInv, RefreshOnce
  <1>2. QED
    BY <1>1, InvAlways, PTL

\* A refresh token in the application's hands finds its key until it expires
\* or is taken: the key's time to live starts after the token's.
THEOREM RefreshIsHonoured == Spec => []RefreshHonoured
  <1>1. PairInv => RefreshHonoured
    BY PairAssumption
       DEF PairInv, TypeOK, RefreshInv, RefreshHonoured, Exists
  <1>2. QED
    BY <1>1, InvAlways, PTL

\* A revoked access token is refused until its exp by every verification that
\* began after the revocation returned.
THEOREM RevokedIsRefused == Spec => RevokedUntilExpiry
  <1>1. ASSUME PairInv, [Next]_vars, NEW v \in Verifiers, Accepts(v),
               verifying[v] \in revokedThen[v]
        PROVE  now >= accessExp[verifying[v]]
    <2>1. TypeOK /\ VerifyInv /\ RevokeInv
      BY <1>1 DEF PairInv
    <2>2. verdict[v] = "none" /\ verifying[v] \in revoked
      BY <1>1, <2>1 DEF Accepts, VerifyInv
    <2>3. ASSUME NEW w \in Verifiers, AskBlocklist(w)
          PROVE  now >= accessExp[verifying[v]]
      <3>1. w = v /\ ~Exists(blockUntil[verifying[v]])
        BY <1>1, <2>1, <2>2, <2>3
           DEF Accepts, AskBlocklist, Decide, TypeOK
      <3>2. QED
        BY <2>1, <2>2, <3>1, PairAssumption DEF RevokeInv, Exists, TypeOK
    <2>4. ASSUME NEW w \in Verifiers, AskVersion(w)
          PROVE  now >= accessExp[verifying[v]]
      <3>1. w = v /\ stage[v] = "version"
        BY <1>1, <2>1, <2>2, <2>4 DEF Accepts, AskVersion, Decide, TypeOK
      <3>2. QED
        BY <1>1, <2>1, <3>1 DEF VerifyInv, Accepts
    <2>5. ASSUME NEW w \in Verifiers, ParseAccess(w) PROVE FALSE
      BY <1>1, <2>1, <2>2, <2>5 DEF Accepts, ParseAccess, TypeOK
    <2>6. CASE UNCHANGED verdict
      BY <1>1, <2>2, <2>6 DEF Accepts
    <2>7. QED
      BY <1>1, <2>3, <2>4, <2>5, <2>6
         DEF Next, Tick, IncrSession, Generate, Save, Revoke, Block,
             ParseRefresh, Consume, vars, verifyVars
  <1>2. PairInv /\ [Next]_vars =>
            [\A v \in Verifiers :
                Accepts(v) /\ verifying[v] \in revokedThen[v]
                    => now >= accessExp[verifying[v]]]_vars
    BY <1>1
  <1>3. QED
    BY <1>2, InvAlways, PTL DEF Spec, RevokedUntilExpiry

\* With a version store, a token of an older session version than the one that
\* stood when the verification began is refused.
THEOREM SupersededIsRefused == Spec => SupersededRefused
  <1>1. ASSUME PairInv, [Next]_vars, NEW v \in Verifiers, Accepts(v),
               stage[v] = "version"
        PROVE  session[verifying[v]] >= versionThen[v]
    <2>1. TypeOK /\ VerifyInv
      BY <1>1 DEF PairInv
    <2>2. /\ verdict[v] = "none" /\ verifying[v] \in Pairs
          /\ versionThen[v] <= sessionVer
      BY <1>1, <2>1 DEF Accepts, VerifyInv, TypeOK
    <2>3. ASSUME NEW w \in Verifiers, AskVersion(w)
          PROVE  session[verifying[v]] >= versionThen[v]
      <3>1. w = v /\ VersionHolds(verifying[v])
        BY <1>1, <2>1, <2>2, <2>3 DEF Accepts, AskVersion, Decide, TypeOK
      <3>2. /\ sessionVer \in Nat /\ versionThen[v] \in Nat
            /\ session[verifying[v]] \in Nat
        BY <2>1, <2>2, PairAssumption DEF TypeOK
      <3>3. QED
        BY <2>2, <3>1, <3>2 DEF VersionHolds
    <2>4. ASSUME NEW w \in Verifiers, AskBlocklist(w) \/ ParseAccess(w)
          PROVE  FALSE
      BY <1>1, <2>1, <2>2, <2>4
         DEF Accepts, AskBlocklist, ParseAccess, Decide, TypeOK
    <2>5. CASE UNCHANGED verdict
      BY <1>1, <2>2, <2>5 DEF Accepts
    <2>6. QED
      BY <1>1, <2>3, <2>4, <2>5
         DEF Next, Tick, IncrSession, Generate, Save, Revoke, Block,
             ParseRefresh, Consume, vars, verifyVars
  <1>2. PairInv /\ [Next]_vars =>
            [\A v \in Verifiers :
                Accepts(v) /\ stage[v] = "version"
                    => session[verifying[v]] >= versionThen[v]]_vars
    BY <1>1
  <1>3. QED
    BY <1>2, InvAlways, PTL DEF Spec, SupersededRefused


\* Without a leeway, which is what a Config that sets none gets, a revoked token
\* has its entry for as long as the parser would let it pass: the gap that a
\* leeway opens is all there is between the two.
THEOREM BlockedWithoutSkew ==
    ASSUME ClockSkew = 0 PROVE Spec => []BlockedWhileUnexpired
  <1>1. PairInv => BlockedWhileUnexpired
    BY PairAssumption
       DEF PairInv, TypeOK, RevokeInv, BlockedWhileUnexpired, Unexpired,
           Exists
  <1>2. QED
    BY <1>1, InvAlways, PTL
=============================================================================
