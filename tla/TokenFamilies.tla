---------------------------- MODULE TokenFamilies ----------------------------
(* What the token service promises about refresh tokens                    *)
(* (token_service.go): they come in families.  A login starts one; a       *)
(* refresh gives up its token for good before it draws the next, which is  *)
(* of the same user.  A token that is dead, for whatever reason, comes     *)
(* back to no life and begets nothing, but for the refreshes that arrived  *)
(* while it was alive.                                                     *)

CONSTANTS Tokens, Requests, Users, None

VARIABLES
    owner,   \* the user of each token; None while it is not drawn
    parent,  \* the token that it replaces; None for the first of a family
    dead,    \* tokens that are revoked or expired
    held,    \* per refresh in progress, the token that it arrived with, alive
    spent    \* refreshes that have given up their token

vars == <<owner, parent, dead, held, spent>>

Init ==
    /\ owner = [t \in Tokens |-> None] /\ parent = [t \in Tokens |-> None]
    /\ dead = {}
    /\ held = [r \in Requests |-> None] /\ spent = {}

Start(t, u) ==
    /\ owner[t] = None
    /\ owner' = [owner EXCEPT ![t] = u]
    /\ UNCHANGED <<parent, dead, held, spent>>

Present(r, t) ==
    /\ held[r] = None /\ owner[t] # None /\ t \notin dead
    /\ held' = [held EXCEPT ![r] = t]
    /\ UNCHANGED <<owner, parent, dead, spent>>

GiveUp(r) ==
    /\ held[r] # None
    /\ dead' = dead \cup {held[r]}
    /\ spent' = spent \cup {r}
    /\ UNCHANGED <<owner, parent, held>>

Succeed(r, t) ==
    /\ r \in spent /\ owner[t] = None
    /\ owner' = [owner EXCEPT ![t] = owner[held[r]]]
    /\ parent' = [parent EXCEPT ![t] = held[r]]
    /\ held' = [held EXCEPT ![r] = None]
    /\ spent' = spent \ {r}
    /\ UNCHANGED dead

(* Tokens die: of a logout, a reuse, a deactivated user, of age.  Refreshes *)
(* end without a token: refused, failed, or with the process.              *)
Lapse(tokens, refreshes) ==
    /\ \A t \in tokens : owner[t] # None
    /\ dead' = dead \cup tokens
    /\ held' = [r \in Requests |-> IF r \in refreshes THEN None ELSE held[r]]
    /\ spent' = spent \ refreshes
    /\ UNCHANGED <<owner, parent>>

Next ==
    \/ \E t \in Tokens, u \in Users : Start(t, u)
    \/ \E r \in Requests, t \in Tokens : Present(r, t) \/ Succeed(r, t)
    \/ \E r \in Requests : GiveUp(r)
    \/ \E tokens \in SUBSET Tokens, refreshes \in SUBSET Requests : Lapse(tokens, refreshes)

Spec == Init /\ [][Next]_vars
=============================================================================
