------------------------------- MODULE Registry -------------------------------
(* What POST /profiles promises (internal/handler/http/profile_handler.go, *)
(* CreateProfile), whatever else happens to the table meanwhile: a request *)
(* takes effect at one moment.  It either gets the profile that the table  *)
(* has for its name, or adds one that is all about that name, or fails.    *)
(* Profiles that exist are never changed.                                  *)
CONSTANTS Names, Requests, Profiles,
          AllAbout(_),  \* the profile of a name, from what the three APIs know
          None, Pending, Failed

VARIABLES
    table,   \* the profile of each name, if it has one
    client   \* what each client asked for, and got

Init ==
    /\ table = [n \in Names |-> None]
    /\ client = [r \in Requests |-> None]

Gets(r, answer) == client' = [client EXCEPT ![r] = [@ EXCEPT !.got = answer]]
Waits(r) == client[r] # None /\ client[r].got = Pending

Ask(r, n) ==
    /\ client' = [client EXCEPT ![r] = [asked |-> n, got |-> Pending]]
    /\ UNCHANGED table

GetExisting(r) ==
    /\ Waits(r) /\ table[client[r].asked] # None
    /\ Gets(r, table[client[r].asked])
    /\ UNCHANGED table

(* When the answer is lost on its way, the client sees an error.           *)
Create(r) ==
    LET n == client[r].asked
    IN  /\ Waits(r) /\ table[n] = None
        /\ table' = [table EXCEPT ![n] = AllAbout(n)]
        /\ Gets(r, AllAbout(n)) \/ Gets(r, Failed)

Fail(r) == Waits(r) /\ Gets(r, Failed) /\ UNCHANGED table

Import(n) ==
    /\ table[n] = None
    /\ \E p \in Profiles : table' = [table EXCEPT ![n] = p]
    /\ UNCHANGED client

Delete(n) ==
    /\ table[n] # None
    /\ table' = [table EXCEPT ![n] = None]
    /\ UNCHANGED client

Next ==
    \/ \E r \in Requests : (\E n \in Names : Ask(r, n)) \/ GetExisting(r) \/ Create(r) \/ Fail(r)
    \/ \E n \in Names : Import(n) \/ Delete(n)

Spec == Init /\ [][Next]_<<table, client>>
=============================================================================
