---------------------------- MODULE TokenPromise ----------------------------
(***************************************************************************)
(* What pkg/auth/simple_token.go promises, without versions, keys, clocks  *)
(* or callers: a login or a revocation of a user opens the user's next     *)
(* epoch, an epoch grants at most one token, and the verification of a     *)
(* token that has not expired accepts it if and only if no later epoch was *)
(* opened.  SimpleToken implements it.                                     *)
(*                                                                         *)
(* A store whose keys have a time to live may forget a user.  Then nothing *)
(* is accepted until the user's next epoch, which begins a new life, and   *)
(* the tokens of an earlier life may be judged either way: that much is    *)
(* all the code promises of them.                                          *)
(***************************************************************************)
EXTENDS Naturals

CONSTANTS Users, Verifiers,
          Nobody,       \* what a verifier that verifies nothing is asked
          Forgets       \* whether the store may forget a user

VARIABLES
    known,      \* [Users -> whether the store knows the user]
    life,       \* [Users -> how often it came to know the user]
    epoch,      \* [Users -> how many epochs were opened, in all lives]
    granted,    \* the tokens granted: a user, a life and an epoch
    asked,      \* [Verifiers -> the token under verification, or Nobody]
    verdict     \* [Verifiers -> the outcome of the last verification]

storeVars   == <<known, life, epoch>>
promiseVars == <<storeVars, granted, asked, verdict>>

Init ==
    /\ known = [u \in Users |-> FALSE]
    /\ life = [u \in Users |-> 0]
    /\ epoch = [u \in Users |-> 0]
    /\ granted = {}
    /\ asked = [v \in Verifiers |-> Nobody]
    /\ verdict = [v \in Verifiers |-> "none"]

Supersede(u) ==
    /\ epoch' = [epoch EXCEPT ![u] = @ + 1]
    /\ life' = [life EXCEPT ![u] = IF known[u] THEN @ ELSE @ + 1]
    /\ known' = [known EXCEPT ![u] = TRUE]
    /\ UNCHANGED <<granted, asked, verdict>>

Forget ==
    /\ Forgets
    /\ \E gone \in SUBSET Users :
          known' = [u \in Users |-> known[u] /\ u \notin gone]
    /\ UNCHANGED <<life, epoch, granted, asked, verdict>>

\* A login that another has overtaken is granted a token that is superseded.
Grant(u) ==
    /\ \E e \in 1 .. epoch[u], l \in 1 .. life[u] :
          /\ \A g \in granted : g.user = u => g.epoch # e
          /\ granted' = granted \cup {[user |-> u, life |-> l, epoch |-> e]}
    /\ UNCHANGED <<storeVars, asked, verdict>>

Ask(v) ==
    /\ asked[v] = Nobody
    /\ \E g \in granted : asked' = [asked EXCEPT ![v] = g]
    /\ verdict' = [verdict EXCEPT ![v] = "none"]
    /\ UNCHANGED <<storeVars, granted>>

ThisLife(g) == g.life = life[g.user]
MayAccept(g) ==
    known[g.user] /\ (ThisLife(g) => g.epoch = epoch[g.user])
MaySupersede(g) ==
    known[g.user] /\ ThisLife(g) => g.epoch # epoch[g.user]

\* The verdict is about the one moment at which the verifier gives it.
Answer(v) ==
    /\ asked[v] # Nobody
    /\ \/ MayAccept(asked[v]) /\ verdict' = [verdict EXCEPT ![v] = "accepted"]
       \/ MaySupersede(asked[v])
          /\ verdict' = [verdict EXCEPT ![v] = "superseded"]
       \/ verdict' = [verdict EXCEPT ![v] = "failed"]
    /\ asked' = [asked EXCEPT ![v] = Nobody]
    /\ UNCHANGED <<storeVars, granted>>

Next ==
    \/ \E u \in Users : Supersede(u) \/ Grant(u)
    \/ Forget
    \/ \E v \in Verifiers : Ask(v) \/ Answer(v)

Spec == Init /\ [][Next]_promiseVars
=============================================================================
