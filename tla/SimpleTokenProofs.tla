-------------------------- MODULE SimpleTokenProofs --------------------------
(***************************************************************************)
(* Proofs about SimpleToken, for any users, callers and verifiers, any     *)
(* lifetimes and any failures of Redis.                                    *)
(*                                                                         *)
(* In one life of a user's key the version counts the INCRs: the INCR of a *)
(* token and the version in the token lag behind those of the key by the   *)
(* same amount (Fits).  That, and that no two calls got the same INCR, is  *)
(* the inductive invariant TokenInv.                                       *)
(***************************************************************************)
EXTENDS SimpleToken, TLAPS

Waiting(c) == pc[c] \in {"expire", "stamp"}

\* The INCR n of life l that returned w, when the key stands at INCR inc of
\* life liv with version v.
Fits(n, l, w, inc, liv, v) ==
    /\ n \in 1 .. inc /\ l \in 1 .. liv /\ w \in Nat \ {0}
    /\ l = liv => inc - n = v - w

CallFits(c)  == Fits(turn[c].nth, turn[c].life, got[c],
                     incrs[user[c]], lives[user[c]], ver[user[c]])
TokenFits(t) == Fits(t.turn.nth, t.turn.life, t.ver,
                     incrs[t.user], lives[t.user], ver[t.user])

KeyInv ==
    \A u \in Users :
        /\ ver[u] # 0 <=> lives[u] >= 1
        /\ KeyTTL = 0 => until[u] = Never /\ lives[u] <= 1

CallInv ==
    \A c \in Callers :
        /\ pc[c] = "expire" => KeyTTL > 0
        /\ Waiting(c) => CallFits(c)

GrantInv == \A t \in tokens : TokenFits(t)

\* No two have the same INCR; in one life, INCR and version lag alike.
Apart(m, k, w, n, l, x) == m # n /\ (k = l => m - w = n - x)

CallsApart ==
    \A c, d \in Callers :
        c # d /\ Waiting(c) /\ Waiting(d) /\ user[c] = user[d] =>
            Apart(turn[c].nth, turn[c].life, got[c],
                  turn[d].nth, turn[d].life, got[d])

CallsApartFromTokens ==
    \A c \in Callers, t \in tokens :
        Waiting(c) /\ user[c] = t.user =>
            Apart(turn[c].nth, turn[c].life, got[c],
                  t.turn.nth, t.turn.life, t.ver)

TokensApart ==
    \A s, t \in tokens :
        s # t /\ s.user = t.user =>
            Apart(s.turn.nth, s.turn.life, s.ver,
                  t.turn.nth, t.turn.life, t.ver)

TokenInv ==
    /\ TypeOK /\ KeyInv /\ CallInv /\ GrantInv
    /\ CallsApart /\ CallsApartFromTokens /\ TokensApart

-----------------------------------------------------------------------------
(* Types.                                                                  *)

LEMMA StoredType ==
    ASSUME TypeOK, NEW u \in Users
    PROVE  /\ Stored(u) \in Nat
           /\ Stored(u) # 0 => Stored(u) = ver[u]
  BY DEF TypeOK, Stored, Never

LEMMA NumericDateType ==
    ASSUME NEW t \in Nat
    PROVE  NumericDate(t) \in Int
  BY TokenAssumption DEF NumericDate

\* What an INCR of user x does to the key.
LEMMA IncrEffect ==
    ASSUME TypeOK, NEW x \in Users, ApplyIncr(x)
    PROVE  /\ ver' \in [Users -> Nat] /\ until' \in [Users -> Nat]
           /\ lives' \in [Users -> Nat] /\ incrs' \in [Users -> Nat]
           /\ ver'[x] = Stored(x) + 1 /\ incrs'[x] = incrs[x] + 1
           /\ Stored(x) = 0 => lives'[x] = lives[x] + 1 /\ until'[x] = Never
           /\ Stored(x) # 0 => lives'[x] = lives[x] /\ until'[x] = until[x]
           /\ \A u \in Users \ {x} :
                 /\ ver'[u] = ver[u] /\ incrs'[u] = incrs[u]
                 /\ lives'[u] = lives[u] /\ until'[u] = until[u]
  BY StoredType DEF TypeOK, ApplyIncr, Incremented, Never

LEMMA TypeInit == Init => TypeOK
  BY TokenAssumption DEF Init, TypeOK, NoTurn, Turns, Never

LEMMA TypeStep == TypeOK /\ [Next]_vars => TypeOK'
  <1> SUFFICES ASSUME TypeOK, [Next]_vars PROVE TypeOK'
    OBVIOUS
  <1> USE DEF TypeOK
  <1>1. CASE Tick
    BY <1>1, TokenAssumption DEF Tick, keyVars, callVars, verifyVars
  <1>2. ASSUME NEW c \in Callers, Call(c) PROVE TypeOK'
    <2>1. turn' \in [Callers -> Turns]
      BY <1>2 DEF Call, NoTurn, Turns
    <2>2. QED
      BY <1>2, <2>1 DEF Call, keyVars, verifyVars
  <1>3. ASSUME NEW c \in Callers, Incr(c) PROVE TypeOK'
    <2>1. ApplyIncr(user[c]) /\ user[c] \in Users
      BY <1>3 DEF Incr
    <2>2. /\ ver' \in [Users -> Nat] /\ until' \in [Users -> Nat]
          /\ lives' \in [Users -> Nat]
      BY <2>1, IncrEffect
    <2>3. incrs' \in [Users -> 0 .. MaxIncrs]
      BY <1>3, TokenAssumption DEF Incr, ApplyIncr
    <2>4. turn' \in [Callers -> Turns]
      <3>1. incrs'[user[c]] \in Nat /\ lives'[user[c]] \in Nat
        BY <2>1, IncrEffect
      <3>2. QED
        BY <1>3, <3>1 DEF Incr, Turns
    <2>5. got' \in [Callers -> Nat]
      BY <1>3, <2>1, StoredType DEF Incr, Incremented
    <2>6. pc' \in [Callers -> {"idle", "incr", "expire", "stamp"}]
      BY <1>3 DEF Incr, AfterVersion
    <2>7. QED
      BY <1>3, <2>2, <2>3, <2>4, <2>5, <2>6 DEF Incr, verifyVars
  <1>4. ASSUME NEW c \in Callers, IncrFails(c) PROVE TypeOK'
    <2>1. CASE UNCHANGED keyVars
      BY <1>4, <2>1 DEF IncrFails, keyVars, verifyVars
    <2>2. CASE incrs[user[c]] < MaxIncrs /\ ApplyIncr(user[c])
      <3>1. /\ ver' \in [Users -> Nat] /\ until' \in [Users -> Nat]
            /\ lives' \in [Users -> Nat]
        BY <2>2, IncrEffect
      <3>2. incrs' \in [Users -> 0 .. MaxIncrs]
        BY <2>2, TokenAssumption DEF ApplyIncr
      <3>3. QED
        BY <1>4, <3>1, <3>2 DEF IncrFails, verifyVars
    <2>3. QED
      BY <1>4, <2>1, <2>2 DEF IncrFails
  <1>5. ASSUME NEW c \in Callers, Expire(c) PROVE TypeOK'
    <2>1. until' \in [Users -> Nat]
      BY <1>5, TokenAssumption DEF Expire
    <2>2. pc' \in [Callers -> {"idle", "incr", "expire", "stamp"}]
      BY <1>5 DEF Expire, AfterVersion
    <2>3. QED
      BY <1>5, <2>1, <2>2 DEF Expire, verifyVars
  <1>6. ASSUME NEW c \in Callers, Stamp(c) PROVE TypeOK'
    <2> DEFINE t == [user |-> user[c], ver |-> got[c],
                     exp |-> NumericDate(now + TTL), turn |-> turn[c]]
    <2>1. now + TTL \in Nat
      BY TokenAssumption
    <2>2. NumericDate(now + TTL) \in Int
      BY <2>1, NumericDateType
    <2>3. t \in Tokens
      BY <2>2 DEF Tokens
    <2>4. tokens' = tokens \cup {t}
      BY <1>6 DEF Stamp
    <2>5. pc' \in [Callers -> {"idle", "incr", "expire", "stamp"}]
      BY <1>6 DEF Stamp
    <2> HIDE DEF t
    <2>6. QED
      BY <1>6, <2>3, <2>4, <2>5 DEF Stamp, keyVars, verifyVars
  <1>7. ASSUME NEW v \in Verifiers, Parse(v) PROVE TypeOK'
    BY <1>7 DEF Parse, keyVars, callVars
  <1>8. ASSUME NEW v \in Verifiers, Compare(v) PROVE TypeOK'
    BY <1>8 DEF Compare, keyVars, callVars
  <1>9. CASE UNCHANGED vars
    BY <1>9 DEF vars, keyVars, callVars, verifyVars
  <1>10. QED
    BY <1>1, <1>2, <1>3, <1>4, <1>5, <1>6, <1>7, <1>8, <1>9 DEF Next

-----------------------------------------------------------------------------
(* One INCR.                                                               *)

\* The calls and tokens that fitted the key fit it after another INCR.
LEMMA IncrKeepsFits ==
    ASSUME TypeOK, NEW x \in Users, ApplyIncr(x)
    PROVE  \A u \in Users : \A n, l, w :
               Fits(n, l, w, incrs[u], lives[u], ver[u])
                   => Fits(n, l, w, incrs'[u], lives'[u], ver'[u])
  <1> TAKE u \in Users
  <1> TAKE n, l, w
  <1> HAVE Fits(n, l, w, incrs[u], lives[u], ver[u])
  <1>1. incrs[u] \in Nat /\ lives[u] \in Nat /\ ver[u] \in Nat
    BY TokenAssumption DEF TypeOK
  <1>2. CASE u # x
    BY <1>2, IncrEffect DEF Fits
  <1>3. CASE u = x /\ Stored(x) = 0
    BY <1>1, <1>3, IncrEffect DEF Fits
  <1>4. CASE u = x /\ Stored(x) # 0
    BY <1>1, <1>4, IncrEffect, StoredType DEF Fits
  <1>5. QED
    BY <1>2, <1>3, <1>4

\* The INCR itself fits, and is apart from every earlier one of its user.
LEMMA IncrFits ==
    ASSUME TypeOK, KeyInv, NEW x \in Users, ApplyIncr(x)
    PROVE  /\ Fits(incrs'[x], lives'[x], Incremented(x),
                   incrs'[x], lives'[x], ver'[x])
           /\ \A n, l, w :
                 Fits(n, l, w, incrs[x], lives[x], ver[x]) =>
                     /\ Apart(incrs'[x], lives'[x], Incremented(x), n, l, w)
                     /\ Apart(n, l, w, incrs'[x], lives'[x], Incremented(x))
  <1>1. incrs[x] \in Nat /\ lives[x] \in Nat /\ ver[x] \in Nat
    BY TokenAssumption DEF TypeOK
  <1>2. Incremented(x) = ver'[x] /\ Incremented(x) \in Nat \ {0}
    BY IncrEffect, StoredType DEF Incremented
  <1>3. lives'[x] \in Nat /\ lives'[x] >= 1
    BY <1>1, IncrEffect, StoredType DEF KeyInv
  <1>4. Fits(incrs'[x], lives'[x], Incremented(x),
             incrs'[x], lives'[x], ver'[x])
    BY <1>1, <1>2, <1>3, IncrEffect DEF Fits
  <1>5. ASSUME NEW n, NEW l, NEW w,
               Fits(n, l, w, incrs[x], lives[x], ver[x])
        PROVE  /\ Apart(incrs'[x], lives'[x], Incremented(x), n, l, w)
               /\ Apart(n, l, w, incrs'[x], lives'[x], Incremented(x))
    <2>1. CASE Stored(x) = 0
      BY <1>1, <1>5, <2>1, IncrEffect DEF Fits, Apart
    <2>2. CASE Stored(x) # 0
      BY <1>1, <1>2, <1>5, <2>2, IncrEffect, StoredType DEF Fits, Apart
    <2>3. QED
      BY <2>1, <2>2
  <1>6. QED
    BY <1>4, <1>5

LEMMA IncrKeepsKey ==
    ASSUME TypeOK, KeyInv, NEW x \in Users, ApplyIncr(x)
    PROVE  KeyInv'
  <1> SUFFICES ASSUME NEW u \in Users
               PROVE  /\ ver'[u] # 0 <=> lives'[u] >= 1
                      /\ KeyTTL = 0 => until'[u] = Never /\ lives'[u] <= 1
    BY DEF KeyInv
  <1>1. lives[u] \in Nat
    BY DEF TypeOK
  <1>2. CASE u # x
    BY <1>2, IncrEffect DEF KeyInv
  <1>3. CASE u = x /\ Stored(x) = 0
    <2>1. KeyTTL = 0 => lives[x] = 0
      BY <1>1, <1>3 DEF KeyInv, Stored
    <2>2. QED
      BY <1>1, <1>3, <2>1, IncrEffect
  <1>4. CASE u = x /\ Stored(x) # 0
    BY <1>1, <1>4, IncrEffect, StoredType DEF KeyInv
  <1>5. QED
    BY <1>2, <1>3, <1>4

-----------------------------------------------------------------------------
(* The inductive invariant.                                                *)

LEMMA InvInit == Init => TokenInv
  <1> SUFFICES ASSUME Init PROVE TokenInv
    OBVIOUS
  <1>1. TypeOK
    BY TypeInit
  <1>2. \A c \in Callers : pc[c] = "idle"
    BY DEF Init
  <1>3. QED
    BY <1>1, <1>2 DEF Init, TokenInv, KeyInv, CallInv, GrantInv, CallsApart,
       CallsApartFromTokens, TokensApart, Waiting

\* A step that changes neither key nor tokens, and lets no call start waiting.
LEMMA QuietStep ==
    ASSUME TokenInv, TypeOK',
           UNCHANGED <<ver, incrs, lives, tokens>>,
           KeyInv',
           \A c \in Callers :
               /\ pc'[c] = "expire" => pc[c] = "expire"
               /\ Waiting(c)' => Waiting(c) /\ turn'[c] = turn[c]
                                 /\ got'[c] = got[c] /\ user'[c] = user[c]
    PROVE  TokenInv'
  <1>1. CallInv'
    BY DEF TokenInv, CallInv, CallFits
  <1>2. GrantInv'
    BY DEF TokenInv, GrantInv, TokenFits
  <1>3. CallsApart'
    BY DEF TokenInv, CallsApart
  <1>4. CallsApartFromTokens'
    BY DEF TokenInv, CallsApartFromTokens
  <1>5. TokensApart'
    BY DEF TokenInv, TokensApart
  <1>6. QED
    BY <1>1, <1>2, <1>3, <1>4, <1>5 DEF TokenInv

LEMMA InvIncr ==
    ASSUME TokenInv, TypeOK', NEW c \in Callers, Incr(c)
    PROVE  TokenInv'
  <1> DEFINE x == user[c]
  <1> USE DEF TokenInv
  <1>1. /\ x \in Users /\ ApplyIncr(x) /\ user' = user /\ tokens' = tokens
        /\ UNCHANGED <<revokes>>
    BY DEF Incr, TypeOK
  <1>2. /\ turn'[c].nth = incrs'[x] /\ turn'[c].life = lives'[x]
        /\ got'[c] = Incremented(x)
    BY DEF Incr, TypeOK
  <1>3. \A d \in Callers \ {c} :
            pc'[d] = pc[d] /\ turn'[d] = turn[d] /\ got'[d] = got[d]
    BY DEF Incr, TypeOK
  <1>4. pc'[c] = "expire" => KeyTTL > 0
    BY TokenAssumption DEF Incr, AfterVersion, TypeOK
  <1>5. \A d \in Callers \ {c} : Waiting(d)' => Waiting(d) /\ CallFits(d)
    BY <1>3 DEF CallInv, Waiting
  <1> HIDE DEF x
  <1>6. KeyInv'
    BY <1>1, IncrKeepsKey
  <1>7. CallInv'
    <2>1. CallFits(c)'
      BY <1>1, <1>2, IncrFits DEF CallFits, x
    <2>2. \A d \in Callers \ {c} : Waiting(d)' => CallFits(d)'
      <3> SUFFICES ASSUME NEW d \in Callers \ {c}, Waiting(d)'
                   PROVE  CallFits(d)'
        OBVIOUS
      <3>1. CallFits(d) /\ user[d] \in Users
        BY <1>5 DEF TypeOK
      <3>2. Fits(turn[d].nth, turn[d].life, got[d],
                 incrs'[user[d]], lives'[user[d]], ver'[user[d]])
        BY <1>1, <3>1, IncrKeepsFits DEF CallFits
      <3>3. QED
        BY <1>1, <1>3, <3>2 DEF CallFits
    <2>3. \A d \in Callers \ {c} : pc'[d] = "expire" => KeyTTL > 0
      BY <1>3 DEF CallInv
    <2>4. QED
      BY <1>4, <2>1, <2>2, <2>3 DEF CallInv
  <1>8. GrantInv'
    <2> SUFFICES ASSUME NEW t \in tokens PROVE TokenFits(t)'
      BY <1>1 DEF GrantInv
    <2>1. TokenFits(t) /\ t.user \in Users
      BY DEF GrantInv, TypeOK, Tokens
    <2>2. QED
      BY <1>1, <2>1, IncrKeepsFits DEF TokenFits
  <1>9. CallsApart'
    <2>1. \A d \in Callers \ {c} :
              Waiting(d)' /\ user[d] = x =>
                  /\ Apart(turn'[c].nth, turn'[c].life, got'[c],
                           turn'[d].nth, turn'[d].life, got'[d])
                  /\ Apart(turn'[d].nth, turn'[d].life, got'[d],
                           turn'[c].nth, turn'[c].life, got'[c])
      <3> SUFFICES ASSUME NEW d \in Callers \ {c}, Waiting(d)', user[d] = x
                   PROVE  /\ Apart(turn'[c].nth, turn'[c].life, got'[c],
                                   turn'[d].nth, turn'[d].life, got'[d])
                          /\ Apart(turn'[d].nth, turn'[d].life, got'[d],
                                   turn'[c].nth, turn'[c].life, got'[c])
        OBVIOUS
      <3>1. Fits(turn[d].nth, turn[d].life, got[d], incrs[x], lives[x], ver[x])
        BY <1>5 DEF CallFits
      <3>2. /\ Apart(incrs'[x], lives'[x], Incremented(x),
                     turn[d].nth, turn[d].life, got[d])
            /\ Apart(turn[d].nth, turn[d].life, got[d],
                     incrs'[x], lives'[x], Incremented(x))
        BY <1>1, <3>1, IncrFits
      <3>3. QED
        BY <1>2, <1>3, <3>2
    <2>2. \A d, e \in Callers \ {c} :
              d # e /\ Waiting(d)' /\ Waiting(e)' /\ user[d] = user[e] =>
                  Apart(turn'[d].nth, turn'[d].life, got'[d],
                        turn'[e].nth, turn'[e].life, got'[e])
      BY <1>3, <1>5 DEF CallsApart
    <2>3. QED
      BY <1>1, <2>1, <2>2 DEF CallsApart, x
  <1>10. CallsApartFromTokens'
    <2>1. \A t \in tokens : t.user = x =>
              Apart(turn'[c].nth, turn'[c].life, got'[c],
                    t.turn.nth, t.turn.life, t.ver)
      <3> SUFFICES ASSUME NEW t \in tokens, t.user = x
                   PROVE  Apart(turn'[c].nth, turn'[c].life, got'[c],
                                t.turn.nth, t.turn.life, t.ver)
        OBVIOUS
      <3>1. Fits(t.turn.nth, t.turn.life, t.ver, incrs[x], lives[x], ver[x])
        BY DEF GrantInv, TokenFits
      <3>2. QED
        BY <1>1, <1>2, <3>1, IncrFits
    <2>2. \A d \in Callers \ {c}, t \in tokens :
              Waiting(d)' /\ user[d] = t.user =>
                  Apart(turn'[d].nth, turn'[d].life, got'[d],
                        t.turn.nth, t.turn.life, t.ver)
      BY <1>3, <1>5 DEF CallsApartFromTokens
    <2>3. QED
      BY <1>1, <2>1, <2>2 DEF CallsApartFromTokens, x
  <1>11. TokensApart'
    BY <1>1 DEF TokensApart
  <1>12. QED
    BY <1>6, <1>7, <1>8, <1>9, <1>10, <1>11

\* The reply of an INCR that was applied is lost.
LEMMA InvIncrLost ==
    ASSUME TokenInv, TypeOK', NEW c \in Callers, IncrFails(c),
           ApplyIncr(user[c])
    PROVE  TokenInv'
  <1> USE DEF TokenInv
  <1>1. /\ user[c] \in Users
        /\ user' = user /\ turn' = turn /\ got' = got /\ tokens' = tokens
    BY DEF IncrFails, TypeOK
  <1>2. \A d \in Callers :
            /\ pc'[d] = "expire" => pc[d] = "expire"
            /\ Waiting(d)' => Waiting(d) /\ CallFits(d)
    BY DEF IncrFails, TypeOK, CallInv, Waiting
  <1>3. KeyInv'
    BY <1>1, IncrKeepsKey
  <1>4. CallInv'
    <2> SUFFICES ASSUME NEW d \in Callers, Waiting(d)' PROVE CallFits(d)'
      BY <1>2 DEF CallInv
    <2>1. CallFits(d) /\ user[d] \in Users
      BY <1>2 DEF TypeOK
    <2>2. QED
      BY <1>1, <2>1, IncrKeepsFits DEF CallFits
  <1>5. GrantInv'
    <2> SUFFICES ASSUME NEW t \in tokens PROVE TokenFits(t)'
      BY <1>1 DEF GrantInv
    <2>1. TokenFits(t) /\ t.user \in Users
      BY DEF GrantInv, TypeOK, Tokens
    <2>2. QED
      BY <1>1, <2>1, IncrKeepsFits DEF TokenFits
  <1>6. CallsApart'
    BY <1>1, <1>2 DEF CallsApart
  <1>7. CallsApartFromTokens'
    BY <1>1, <1>2 DEF CallsApartFromTokens
  <1>8. TokensApart'
    BY <1>1 DEF TokensApart
  <1>9. QED
    BY <1>3, <1>4, <1>5, <1>6, <1>7, <1>8

LEMMA InvExpire ==
    ASSUME TokenInv, TypeOK', NEW c \in Callers, Expire(c)
    PROVE  TokenInv'
  <1>1. KeyTTL > 0
    BY DEF Expire, TokenInv, CallInv
  <1>2. KeyInv'
    BY <1>1 DEF Expire, TokenInv, KeyInv
  <1>3. \A d \in Callers :
            /\ pc'[d] = "expire" => pc[d] = "expire"
            /\ Waiting(d)' => Waiting(d) /\ turn'[d] = turn[d]
                              /\ got'[d] = got[d] /\ user'[d] = user[d]
    BY DEF Expire, TokenInv, TypeOK, AfterVersion, Waiting
  <1>4. UNCHANGED <<ver, incrs, lives, tokens>>
    BY DEF Expire
  <1>5. QED
    BY <1>2, <1>3, <1>4, QuietStep

LEMMA InvStamp ==
    ASSUME TokenInv, TypeOK', NEW c \in Callers, Stamp(c)
    PROVE  TokenInv'
  <1> DEFINE t == [user |-> user[c], ver |-> got[c],
                   exp |-> NumericDate(now + TTL), turn |-> turn[c]]
  <1> USE DEF TokenInv
  <1>1. /\ tokens' = tokens \cup {t} /\ Waiting(c) /\ CallFits(c)
        /\ UNCHANGED <<keyVars, user, got, turn>>
    BY DEF Stamp, CallInv, Waiting
  <1>2. \A d \in Callers :
            /\ pc'[d] = "expire" => pc[d] = "expire"
            /\ Waiting(d)' => Waiting(d) /\ d # c
    BY DEF Stamp, TypeOK, Waiting
  <1>3. t.user = user[c] /\ t.ver = got[c] /\ t.turn = turn[c]
    OBVIOUS
  <1>4. /\ turn[c].nth \in Nat /\ turn[c].life \in Nat /\ got[c] \in Nat
        /\ \A s \in tokens : s.turn.nth \in Nat /\ s.turn.life \in Nat
                             /\ s.ver \in Nat
    BY DEF TypeOK, Turns, Tokens
  <1> HIDE DEF t
  <1>5. KeyInv'
    BY <1>1 DEF KeyInv, keyVars
  <1>6. CallInv'
    BY <1>1, <1>2 DEF CallInv, CallFits, keyVars
  <1>7. GrantInv'
    BY <1>1, <1>3 DEF GrantInv, TokenFits, CallFits, keyVars
  <1>8. CallsApart'
    BY <1>1, <1>2 DEF CallsApart
  <1>9. CallsApartFromTokens'
    BY <1>1, <1>2, <1>3 DEF CallsApartFromTokens, CallsApart
  <1>10. TokensApart'
    <2>1. \A s \in tokens : s.user = t.user =>
              /\ Apart(s.turn.nth, s.turn.life, s.ver,
                       t.turn.nth, t.turn.life, t.ver)
              /\ Apart(t.turn.nth, t.turn.life, t.ver,
                       s.turn.nth, s.turn.life, s.ver)
      BY <1>1, <1>3, <1>4 DEF CallsApartFromTokens, Apart
    <2>2. QED
      BY <1>1, <2>1 DEF TokensApart
  <1>11. QED
    BY <1>5, <1>6, <1>7, <1>8, <1>9, <1>10

LEMMA InvStep == TokenInv /\ [Next]_vars => TokenInv'
  <1> SUFFICES ASSUME TokenInv, [Next]_vars PROVE TokenInv'
    OBVIOUS
  <1>0. TypeOK'
    BY TypeStep DEF TokenInv
  <1>1. CASE Tick \/ UNCHANGED vars
        \/ \E v \in Verifiers : Parse(v) \/ Compare(v)
    <2>1. UNCHANGED <<keyVars, callVars, tokens>>
      BY <1>1 DEF Tick, Parse, Compare, vars
    <2>2. KeyInv'
      BY <2>1 DEF TokenInv, KeyInv, keyVars
    <2>3. QED
      BY <1>0, <2>1, <2>2, QuietStep DEF keyVars, callVars, Waiting
  <1>2. ASSUME NEW c \in Callers, Call(c) PROVE TokenInv'
    <2>1. KeyInv'
      BY <1>2 DEF Call, TokenInv, KeyInv, keyVars
    <2>2. \A d \in Callers :
              /\ pc'[d] = "expire" => pc[d] = "expire"
              /\ Waiting(d)' => Waiting(d) /\ turn'[d] = turn[d]
                                /\ got'[d] = got[d] /\ user'[d] = user[d]
      BY <1>2 DEF Call, TokenInv, TypeOK, Waiting
    <2>3. QED
      BY <1>0, <1>2, <2>1, <2>2, QuietStep DEF Call, keyVars
  <1>3. ASSUME NEW c \in Callers, Incr(c) PROVE TokenInv'
    BY <1>0, <1>3, InvIncr
  <1>4. ASSUME NEW c \in Callers, IncrFails(c) PROVE TokenInv'
    <2>1. CASE UNCHANGED keyVars
      <3>1. KeyInv'
        BY <2>1 DEF TokenInv, KeyInv, keyVars
      <3>2. \A d \in Callers :
                /\ pc'[d] = "expire" => pc[d] = "expire"
                /\ Waiting(d)' => Waiting(d) /\ turn'[d] = turn[d]
                                  /\ got'[d] = got[d] /\ user'[d] = user[d]
        BY <1>4 DEF IncrFails, TokenInv, TypeOK, Waiting
      <3>3. QED
        BY <1>0, <1>4, <2>1, <3>1, <3>2, QuietStep DEF IncrFails, keyVars
    <2>2. CASE ApplyIncr(user[c])
      BY <1>0, <1>4, <2>2, InvIncrLost
    <2>3. QED
      BY <1>4, <2>1, <2>2 DEF IncrFails
  <1>5. ASSUME NEW c \in Callers, Expire(c) PROVE TokenInv'
    BY <1>0, <1>5, InvExpire
  <1>6. ASSUME NEW c \in Callers, Stamp(c) PROVE TokenInv'
    BY <1>0, <1>6, InvStamp
  <1>7. QED
    BY <1>1, <1>2, <1>3, <1>4, <1>5, <1>6 DEF Next

LEMMA InvAlways == Spec => []TokenInv
  BY InvInit, InvStep, PTL DEF Spec

-----------------------------------------------------------------------------
(* Theorems.                                                               *)

\* Two logins of one user never get the same version in one life of the key:
\* INCR is one command, and what the calls do between is their own.
THEOREM VersionsAreDistinct == Spec => []OneTokenPerVersion
  <1>1. TokenInv => OneTokenPerVersion
    <2> SUFFICES ASSUME TokenInv, NEW s \in tokens, NEW t \in tokens,
                        s.user = t.user, s.turn.life = t.turn.life,
                        s.ver = t.ver, s # t
                 PROVE  FALSE
      BY DEF OneTokenPerVersion
    <2>1. /\ s.turn.nth \in Nat /\ t.turn.nth \in Nat /\ s.ver \in Nat
          /\ s.turn.nth # t.turn.nth
          /\ s.turn.nth - s.ver = t.turn.nth - t.ver
      BY DEF TokenInv, TypeOK, Tokens, Turns, TokensApart, Apart
    <2>2. QED
      BY <2>1
  <1>2. QED
    BY <1>1, InvAlways, PTL

\* When the version key has no time to live, a later login or revocation ends
\* every earlier token of the user, as redis_store.go:173 has it.
THEOREM PreviousTokensEnd ==
    ASSUME KeyTTL = 0
    PROVE  Spec => []PreviousInvalid
  <1>1. TokenInv => PreviousInvalid
    <2> SUFFICES ASSUME TokenInv, NEW t \in tokens,
                        t.turn.nth < incrs[t.user]
                 PROVE  ~VersionMatches(t)
      BY DEF PreviousInvalid
    <2> DEFINE u == t.user
    <2>1. /\ u \in Users /\ ver[u] \in Nat /\ lives[u] \in Nat
          /\ incrs[u] \in Nat /\ t.ver \in Nat
          /\ t.turn.nth \in Nat /\ t.turn.life \in Nat
      BY TokenAssumption DEF TokenInv, TypeOK, Tokens, Turns
    <2>2. TokenFits(t)
      BY DEF TokenInv, GrantInv
    <2>3. lives[u] <= 1 /\ Stored(u) = ver[u]
      BY <2>1 DEF TokenInv, KeyInv, Stored
    <2>4. incrs[u] - t.turn.nth = ver[u] - t.ver
      BY <2>1, <2>2, <2>3 DEF TokenFits, Fits
    <2>5. QED
      BY <2>1, <2>3, <2>4 DEF VersionMatches
  <1>2. QED
    BY <1>1, InvAlways, PTL

-----------------------------------------------------------------------------
(* SimpleToken implements TokenPromise.                                    *)

LEMMA PromiseInit == Init => Promise!Init
  <1> SUFFICES ASSUME Init PROVE Promise!Init
    OBVIOUS
  <1>1. \A u \in Users : Stored(u) = 0
    BY DEF Init, Stored
  <1>2. {Granted(t) : t \in tokens} = {}
    BY DEF Init
  <1>3. /\ incrs = [u \in Users |-> 0] /\ lives = [u \in Users |-> 0]
        /\ held = [v \in Verifiers |-> NoToken]
        /\ verdict = [v \in Verifiers |-> "none"]
    BY DEF Init
  <1>4. QED
    BY <1>1, <1>2, <1>3 DEF Promise!Init

\* An INCR opens the user's next epoch, and a new life if there was no key.
LEMMA PromiseIncr ==
    ASSUME TokenInv, NEW x \in Users, ApplyIncr(x),
           UNCHANGED <<now, tokens, held, verdict>>
    PROVE  Promise!Supersede(x)
  <1>1. TypeOK
    BY DEF TokenInv
  <1>2. incrs' = [incrs EXCEPT ![x] = @ + 1]
    BY DEF ApplyIncr
  <1>3. lives' = [lives EXCEPT ![x] = IF Stored(x) # 0 THEN @ ELSE @ + 1]
    BY <1>1 DEF ApplyIncr, TypeOK
  <1>4. \A u \in Users : (Stored(u) # 0)' <=> u = x \/ Stored(u) # 0
    <2> TAKE u \in Users
    <2>1. CASE u # x
      BY <1>1, <2>1, IncrEffect DEF Stored
    <2>2. CASE u = x
      BY <1>1, <2>2, IncrEffect, StoredType DEF Stored, Never
    <2>3. QED
      BY <2>1, <2>2
  <1>5. QED
    BY <1>2, <1>3, <1>4 DEF Promise!Supersede

LEMMA PromiseStamp ==
    ASSUME TokenInv, NEW c \in Callers, Stamp(c)
    PROVE  Promise!Grant(user[c])
  <1> DEFINE t == [user |-> user[c], ver |-> got[c],
                   exp |-> NumericDate(now + TTL), turn |-> turn[c]]
  <1>1. /\ tokens' = tokens \cup {t} /\ Waiting(c)
        /\ UNCHANGED <<now, keyVars, verifyVars>>
    BY DEF Stamp, Waiting
  <1>2. Granted(t) = [user |-> user[c], life |-> turn[c].life,
                      epoch |-> turn[c].nth]
    BY DEF Granted
  <1>3. turn[c].nth \in 1 .. incrs[user[c]]
        /\ turn[c].life \in 1 .. lives[user[c]]
    BY <1>1 DEF TokenInv, CallInv, CallFits, Fits
  <1>4. \A g \in {Granted(s) : s \in tokens} :
            g.user = user[c] => g.epoch # turn[c].nth
    BY <1>1 DEF TokenInv, CallsApartFromTokens, Apart, Granted
  <1> HIDE DEF t
  <1>5. {Granted(s) : s \in tokens}'
            = {Granted(s) : s \in tokens} \cup {Granted(t)}
    BY <1>1 DEF Granted
  <1>6. QED
    BY <1>1, <1>2, <1>3, <1>4, <1>5
       DEF Promise!Grant, Promise!storeVars, keyVars, verifyVars, Stored

LEMMA GrantedType ==
    ASSUME TypeOK, NEW t \in tokens
    PROVE  Granted(t) # NoToken /\ t # NoToken
  BY NoTokenAssumption DEF TypeOK, Tokens, Turns, Granted, Grants

LEMMA PromiseParse ==
    ASSUME TokenInv, NEW v \in Verifiers, Parse(v)
    PROVE  Promise!Ask(v)
  <1> DEFINE ask == [w \in Verifiers |->
                        IF held[w] = NoToken THEN NoToken ELSE Granted(held[w])]
  <1>1. PICK t \in tokens : held' = [held EXCEPT ![v] = t]
    BY DEF Parse
  <1>2. held[v] = NoToken
    BY DEF Parse
  <1>3. ask' = [ask EXCEPT ![v] = Granted(t)]
    BY <1>1, GrantedType DEF TokenInv, TypeOK, Granted
  <1>4. UNCHANGED <<now, keyVars, tokens>>
        /\ verdict' = [verdict EXCEPT ![v] = "none"]
    BY DEF Parse
  <1>5. {Granted(s) : s \in tokens}' = {Granted(s) : s \in tokens}
    BY <1>4 DEF Granted
  <1>6. QED
    BY <1>2, <1>3, <1>4, <1>5
       DEF Promise!Ask, Promise!storeVars, keyVars, Stored

\* The comparison says what the promise allows: in one life the token and the
\* key hold the same version exactly if no INCR followed the token's.
LEMMA CompareIsExact ==
    ASSUME TokenInv, NEW t \in tokens
    PROVE  /\ VersionMatches(t) =>
                  /\ Stored(t.user) # 0
                  /\ t.turn.life = lives[t.user] => t.turn.nth = incrs[t.user]
           /\ ~VersionMatches(t) /\ Stored(t.user) # 0
                  /\ t.turn.life = lives[t.user] => t.turn.nth # incrs[t.user]
  <1>1. /\ t.user \in Users /\ ver[t.user] \in Nat /\ lives[t.user] \in Nat
        /\ incrs[t.user] \in Nat /\ t.ver \in Nat
        /\ t.turn.nth \in Nat /\ t.turn.life \in Nat
    BY TokenAssumption DEF TokenInv, TypeOK, Tokens, Turns
  <1>2. TokenFits(t)
    BY DEF TokenInv, GrantInv
  <1>3. /\ Stored(t.user) \in Nat
        /\ Stored(t.user) # 0 => Stored(t.user) = ver[t.user]
    BY <1>1, StoredType DEF TokenInv
  <1>4. /\ t.ver # 0
        /\ t.turn.life = lives[t.user]
              => incrs[t.user] - t.turn.nth = ver[t.user] - t.ver
    BY <1>2 DEF TokenFits, Fits
  <1>5. t.turn.life = lives[t.user]
            => (t.turn.nth = incrs[t.user] <=> t.ver = ver[t.user])
    BY <1>1, <1>4
  <1>6. QED
    BY <1>3, <1>4, <1>5 DEF VersionMatches

LEMMA PromiseCompare ==
    ASSUME TokenInv, NEW v \in Verifiers, Compare(v)
    PROVE  Promise!Answer(v)
  <1> DEFINE ask == [w \in Verifiers |->
                        IF held[w] = NoToken THEN NoToken ELSE Granted(held[w])]
             known == [u \in Users |-> Stored(u) # 0]
  <1>1. PICK t \in tokens : held[v] = t
    BY DEF Compare, TokenInv, TypeOK
  <1>2. ask[v] = Granted(t) /\ ask[v] # NoToken
    BY <1>1, GrantedType DEF TokenInv
  <1>3. ask' = [ask EXCEPT ![v] = NoToken]
    BY DEF Compare, TokenInv, TypeOK, Granted
  <1>4. UNCHANGED <<now, keyVars, tokens>>
    BY DEF Compare
  <1>5. {Granted(s) : s \in tokens}' = {Granted(s) : s \in tokens}
    BY <1>4 DEF Granted
  <1>6. /\ Granted(t).user = t.user /\ Granted(t).life = t.turn.life
        /\ Granted(t).epoch = t.turn.nth
    BY DEF Granted
  <1>7. t.user \in Users
    BY DEF TokenInv, TypeOK, Tokens
  <1>8. VersionMatches(t) => Promise!MayAccept(ask[v])
    BY <1>2, <1>6, <1>7, CompareIsExact DEF Promise!MayAccept, Promise!ThisLife
  <1>9. ~VersionMatches(t) => Promise!MaySupersede(ask[v])
    BY <1>2, <1>6, <1>7, CompareIsExact
       DEF Promise!MaySupersede, Promise!ThisLife
  <1> HIDE DEF ask
  <1>10. \/ Promise!MayAccept(ask[v])
            /\ verdict' = [verdict EXCEPT ![v] = "accepted"]
         \/ Promise!MaySupersede(ask[v])
            /\ verdict' = [verdict EXCEPT ![v] = "superseded"]
         \/ verdict' = [verdict EXCEPT ![v] = "failed"]
    BY <1>1, <1>8, <1>9 DEF Compare
  <1>11. known' = known
    BY <1>4 DEF keyVars, Stored
  <1>12. QED
    BY <1>2, <1>3, <1>4, <1>5, <1>10, <1>11
       DEF Promise!Answer, Promise!storeVars, keyVars, ask

\* Time passes: keys may expire, and none without a time to live does.
LEMMA PromiseTick ==
    ASSUME TokenInv, Tick
    PROVE  Promise!Forget \/ UNCHANGED Promise!promiseVars
  <1>1. UNCHANGED <<keyVars, tokens, verifyVars>> /\ now' = now + 1
    BY DEF Tick
  <1>2. {Granted(s) : s \in tokens}' = {Granted(s) : s \in tokens}
    BY <1>1 DEF Granted
  <1>3. UNCHANGED <<incrs, lives, verdict,
                    [w \in Verifiers |-> IF held[w] = NoToken THEN NoToken
                                         ELSE Granted(held[w])]>>
    BY <1>1 DEF keyVars, verifyVars, Granted
  <1>4. CASE KeyTTL = 0
    <2>1. \A u \in Users : until[u] = Never /\ until'[u] = Never
      BY <1>1, <1>4 DEF TokenInv, KeyInv, keyVars
    <2>2. [u \in Users |-> Stored(u) # 0]' = [u \in Users |-> Stored(u) # 0]
      BY <1>1, <2>1 DEF Stored, keyVars
    <2>3. QED
      BY <1>2, <1>3, <2>2 DEF Promise!promiseVars, Promise!storeVars
  <1>5. CASE KeyTTL > 0
    <2> DEFINE gone == {u \in Users : (Stored(u) = 0)'}
    <2>1. \A u \in Users : (Stored(u) # 0)' => Stored(u) # 0
      BY <1>1 DEF Stored, keyVars, TokenInv, TypeOK
    <2>2. [u \in Users |-> Stored(u) # 0]'
              = [u \in Users |-> Stored(u) # 0 /\ u \notin gone]
      BY <2>1
    <2>3. gone \in SUBSET Users
      OBVIOUS
    <2> HIDE DEF gone
    <2>4. QED
      BY <1>2, <1>3, <1>5, <2>2, <2>3 DEF Promise!Forget
  <1>6. QED
    BY <1>4, <1>5, TokenAssumption

\* The rest are invisible to the promise.
LEMMA PromiseQuiet ==
    ASSUME UNCHANGED <<now, keyVars, tokens, verifyVars>>
    PROVE  UNCHANGED Promise!promiseVars
  BY DEF Promise!promiseVars, Promise!storeVars, keyVars, verifyVars, Stored,
     Granted

LEMMA PromiseExpire ==
    ASSUME TokenInv, NEW c \in Callers, Expire(c)
    PROVE  UNCHANGED Promise!promiseVars
  <1>1. KeyTTL > 0 /\ KeyTTL \in Nat
    BY TokenAssumption DEF Expire, TokenInv, CallInv
  <1>2. \A u \in Users : (Stored(u) # 0)' <=> Stored(u) # 0
    BY <1>1 DEF Expire, TokenInv, TypeOK, Stored, Never
  <1>3. QED
    BY <1>2 DEF Expire, verifyVars, Promise!promiseVars, Promise!storeVars,
       Granted

LEMMA PromiseStep == TokenInv /\ [Next]_vars => [Promise!Next]_Promise!promiseVars
  <1> SUFFICES ASSUME TokenInv, [Next]_vars
               PROVE  Promise!Next \/ UNCHANGED Promise!promiseVars
    OBVIOUS
  <1>1. CASE Tick
    BY <1>1, PromiseTick DEF Promise!Next
  <1>2. ASSUME NEW c \in Callers, Call(c)
        PROVE  UNCHANGED Promise!promiseVars
    BY <1>2, PromiseQuiet DEF Call
  <1>3. ASSUME NEW c \in Callers, Incr(c) \/ IncrFails(c)
        PROVE  Promise!Next \/ UNCHANGED Promise!promiseVars
    <2>1. CASE UNCHANGED keyVars
      BY <1>3, <2>1, PromiseQuiet DEF Incr, IncrFails
    <2>2. CASE ApplyIncr(user[c])
      <3>1. user[c] \in Users
        BY DEF TokenInv, TypeOK
      <3>2. Promise!Supersede(user[c])
        BY <1>3, <2>2, <3>1, PromiseIncr DEF Incr, IncrFails, verifyVars
      <3>3. QED
        BY <3>1, <3>2 DEF Promise!Next
    <2>3. QED
      BY <1>3, <2>1, <2>2 DEF Incr, IncrFails
  <1>4. ASSUME NEW c \in Callers, Expire(c)
        PROVE  UNCHANGED Promise!promiseVars
    BY <1>4, PromiseExpire
  <1>5. ASSUME NEW c \in Callers, Stamp(c) PROVE Promise!Next
    BY <1>5, PromiseStamp DEF Promise!Next, TokenInv, TypeOK
  <1>6. ASSUME NEW v \in Verifiers, Parse(v) PROVE Promise!Next
    BY <1>6, PromiseParse DEF Promise!Next
  <1>7. ASSUME NEW v \in Verifiers, Compare(v) PROVE Promise!Next
    BY <1>7, PromiseCompare DEF Promise!Next
  <1>8. CASE UNCHANGED vars
    BY <1>8, PromiseQuiet DEF vars
  <1>9. QED
    BY <1>1, <1>2, <1>3, <1>4, <1>5, <1>6, <1>7, <1>8 DEF Next

\* The tokens keep the promise: a verification accepts a token exactly when no
\* login and no revocation of the user followed it, in one life of the key.
THEOREM TokensKeepPromise == Spec => KeepsPromise
  BY InvAlways, PromiseInit, PromiseStep, PTL
     DEF KeepsPromise, Spec, Promise!Spec

=============================================================================
