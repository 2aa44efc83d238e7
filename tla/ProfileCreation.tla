---------------------------- MODULE ProfileCreation ----------------------------
(* POST /profiles: CreateProfile (internal/handler/http), BuildProfile and *)
(* fetchAll (internal/service/utils.go) and the clients of genderize,      *)
(* agify and nationalize (internal/client).  A request looks its name up,  *)
(* asks the three APIs at once, waits for all of them, and inserts what    *)
(* they say; seconds lie between the first step and the last.              *)
EXTENDS Naturals

CONSTANTS
    Names,
    Requests,   \* bound on the requests at once
    MaxTasks,   \* bound on the goroutines that are to invalidate the lists
    Faults,     \* may statements fail, and their answers be lost?
    Unreliable, \* the APIs that may be down
    None,       \* no row, no request
    Pending,    \* no answer yet
    Failed      \* an error for an answer

Apis == {"Genderize", "Agify", "Nationalize"}

(* A reply is about the name asked for, or no use: an error, a status      *)
(* other than 200, the timeout, no gender, no age, no country.             *)
Replies == Names \cup {"waiting", "invalid"}

(* What a profile is made of: whose gender, age and country it has.        *)
(* An import may leave any of them out.                                    *)
Profiles == [Apis -> Names \cup {"missing"}]
AllAbout(n) == [api \in Apis |-> n]

Steps == {"lookup", "fetch", "insert", "answered"}
Request == [step : Steps, name : Names, replies : [Apis -> Replies],
            got : Profiles \cup {Pending, Failed},
            left : BOOLEAN,    \* the client is gone: the context is cancelled
            \* History, read by the properties only:
            late : BOOLEAN,    \* the lookup failed, or the name got a row since
            clash : BOOLEAN]   \* the INSERT violated profiles.name UNIQUE

ASSUME ConstantsAssumption ==
    /\ Faults \in BOOLEAN /\ Unreliable \subseteq Apis /\ MaxTasks \in Nat \ {0}
    /\ Profiles \cap {None, Pending, Failed} = {} /\ Pending # Failed
    /\ None \notin Request \cup [asked : Names, got : Profiles \cup {Pending, Failed}]
    /\ \A n \in Names : n \notin {"waiting", "invalid", "missing"}

VARIABLES
    table,  \* table profiles, by name
    req,    \* the requests
    down,   \* the APIs that do not answer
    tasks   \* how many invalidations of the lists are still to run

vars == <<table, req, down, tasks>>

-----------------------------------------------------------------------------
Sending(r) == req[r] # None /\ req[r].step # "answered"
At(r, step) == req[r] # None /\ req[r].step = step
LookedUp(r) == At(r, "fetch") \/ At(r, "insert")

Unasked == [api \in Apis |-> "waiting"]

(* The handler returns; what it knew is gone.                              *)
Answered(request, answer) ==
    [request EXCEPT !.step = "answered", !.got = answer, !.replies = Unasked,
                    !.left = FALSE, !.late = FALSE]
Answers(r, answer) == req' = [req EXCEPT ![r] = Answered(@, answer)]

(* The name gets a row: who looked it up in vain before is too late.       *)
Late(n) == [r \in Requests |->
                IF LookedUp(r) /\ req[r].name = n THEN [req[r] EXCEPT !.late = TRUE] ELSE req[r]]

(* A statement may fail, and does once its context is cancelled.           *)
MayFail(r) == Faults \/ req[r].left

Begin(r, n) ==
    /\ ~Sending(r)
    /\ req' = [req EXCEPT ![r] =
                [step |-> "lookup", name |-> n, replies |-> Unasked,
                 got |-> Pending, left |-> FALSE,
                 late |-> FALSE, clash |-> FALSE]]
    /\ UNCHANGED <<table, down, tasks>>

Leave(r) ==
    /\ Sending(r)
    /\ req' = [req EXCEPT ![r].left = TRUE]
    /\ UNCHANGED <<table, down, tasks>>

(* GetProfileByName: "Profile already exists".                             *)
FindExisting(r) ==
    /\ At(r, "lookup") /\ ~req[r].left
    /\ table[req[r].name] # None
    /\ Answers(r, table[req[r].name])
    /\ UNCHANGED <<table, down, tasks>>

FindNoneAlways(r) ==
    /\ At(r, "lookup")
    /\ req' = [req EXCEPT ![r].step = "fetch"]
    /\ UNCHANGED <<table, down, tasks>>
(* Every error of the lookup counts as a name that has no profile.         *)
FindNone(r) ==
    /\ At(r, "lookup")
    /\ table[req[r].name] = None \/ MayFail(r)
    /\ req' = [req EXCEPT ![r] = [@ EXCEPT !.step = "fetch",
                                          !.late = table[req[r].name] # None]]
    /\ UNCHANGED <<table, down, tasks>>

Replied(r, api, reply) ==
    /\ At(r, "fetch") /\ req[r].replies[api] = "waiting"
    /\ req' = [req EXCEPT ![r].replies[api] = reply]
    /\ UNCHANGED <<table, down, tasks>>

FetchWithoutTimeout(r, api) ==
    api \notin down /\ (Replied(r, api, req[r].name) \/ Replied(r, api, "invalid"))
(* One of the three goroutines of fetchAll; the client times out.          *)
Fetch(r, api) ==
    \/ api \notin down /\ Replied(r, api, req[r].name)
    \/ Replied(r, api, "invalid")

BuildEarly(r) ==
    /\ At(r, "fetch")
    /\ IF \E api \in Apis : req[r].replies[api] = "invalid"
       THEN Answers(r, Failed)
       ELSE req' = [req EXCEPT ![r].step = "insert"]
    /\ UNCHANGED <<table, down, tasks>>
(* BuildProfile, when all of fetchAll is done: one invalid reply is enough *)
(* for 502 Bad Gateway.                                                    *)
Build(r) ==
    /\ At(r, "fetch")
    /\ \A api \in Apis : req[r].replies[api] # "waiting"
    /\ IF \E api \in Apis : req[r].replies[api] = "invalid"
       THEN Answers(r, Failed)
       ELSE req' = [req EXCEPT ![r].step = "insert"]
    /\ UNCHANGED <<table, down, tasks>>

Built(r) == req[r].replies

Upsert(r) ==
    /\ At(r, "insert") /\ ~req[r].left
    /\ tasks < MaxTasks
    /\ table' = [table EXCEPT ![req[r].name] = Built(r)]
    /\ req' = [Late(req[r].name) EXCEPT ![r] = Answered(@, Built(r))]
    /\ tasks' = tasks + 1
    /\ UNCHANGED down
(* The INSERT, and 201 Created with the profile that was sent to it; a     *)
(* goroutine is to invalidate the lists.                                   *)
Insert(r) ==
    /\ At(r, "insert") /\ ~req[r].left
    /\ table[req[r].name] = None
    /\ tasks < MaxTasks
    /\ table' = [table EXCEPT ![req[r].name] = Built(r)]
    /\ req' = [Late(req[r].name) EXCEPT ![r] = Answered(@, Built(r))]
    /\ tasks' = tasks + 1
    /\ UNCHANGED down

(* The INSERT commits, but the handler does not hear of it: 500.           *)
InsertUnheard(r) ==
    /\ At(r, "insert") /\ MayFail(r)
    /\ table[req[r].name] = None
    /\ table' = [table EXCEPT ![req[r].name] = Built(r)]
    /\ req' = [Late(req[r].name) EXCEPT ![r] = Answered(@, Failed)]
    /\ UNCHANGED <<down, tasks>>

InsertFails(r) ==
    /\ At(r, "insert")
    /\ table[req[r].name] # None \/ MayFail(r)
    /\ LET clash == table[req[r].name] # None
       IN  req' = [req EXCEPT ![r] = [Answered(@, Failed) EXCEPT !.clash = clash,
                                                         !.late = clash /\ req[r].late]]
    /\ UNCHANGED <<table, down, tasks>>

RunTask ==
    /\ tasks > 0
    /\ tasks' = tasks - 1
    /\ UNCHANGED <<table, req, down>>

-----------------------------------------------------------------------------
(* The rest of the service, and of the world                               *)

(* Import and seeding skip names that exist, and leave gaps.               *)
ImportRow(n, p) ==
    /\ table[n] = None
    /\ table' = [table EXCEPT ![n] = p]
    /\ req' = Late(n)
    /\ UNCHANGED <<down, tasks>>

DeleteProfile(n) ==
    /\ table[n] # None
    /\ table' = [table EXCEPT ![n] = None]
    /\ UNCHANGED <<req, down, tasks>>

Outage(api) ==
    /\ api \in Unreliable
    /\ down' = IF api \in down THEN down \ {api} ELSE down \cup {api}
    /\ UNCHANGED <<table, req, tasks>>

-----------------------------------------------------------------------------
Init ==
    /\ table = [n \in Names |-> None]
    /\ req = [r \in Requests |-> None]
    /\ down = {}
    /\ tasks = 0

Lookup(r) == FindExisting(r) \/ FindNone(r)
Store(r) == Insert(r) \/ InsertUnheard(r) \/ InsertFails(r)
Imported(n) == {AllAbout(n), [AllAbout(n) EXCEPT !["Agify"] = "missing"]}

Next ==
    \/ \E r \in Requests : \/ \E n \in Names : Begin(r, n)
                           \/ Leave(r) \/ Lookup(r) \/ Build(r) \/ Store(r)
                           \/ \E api \in Apis : Fetch(r, api)
    \/ RunTask
    \/ \E n \in Names : DeleteProfile(n) \/ \E p \in Imported(n) : ImportRow(n, p)
    \/ \E api \in Apis : Outage(api)

Spec == Init /\ [][Next]_vars

(* Statements return or fail, fetches reply or time out, and goroutines    *)
(* run; the APIs may stay down, and clients and imports do as they please. *)
Fairness ==
    /\ WF_vars(RunTask)
    /\ \A r \in Requests : /\ WF_vars(Lookup(r)) /\ WF_vars(Build(r)) /\ WF_vars(Store(r))
                           /\ \A api \in Apis : WF_vars(Fetch(r, api))

FairSpec == Spec /\ Fairness

-----------------------------------------------------------------------------
(* Properties                                                              *)

(* Only whole profiles get as far as the table: none is built while an API *)
(* has yet to reply, or from a reply that is no use.                       *)
TypeOK ==
    /\ table \in [Names -> Profiles \cup {None}]
    /\ req \in [Requests -> Request \cup {None}]
    /\ down \subseteq Apis
    /\ tasks \in 0..MaxTasks

client == [r \in Requests |-> IF req[r] = None THEN None
                              ELSE [asked |-> req[r].name, got |-> req[r].got]]
R == INSTANCE Registry

(* Steps of requests that overlap with each other, with deletions and with *)
(* imports amount to requests that happen at once: a request gets a        *)
(* profile that the table had or adds a complete one, and changes none.    *)
ImplementsRegistry == R!Spec

(* The race between lookup and INSERT is the only way to a clash: who gets *)
(* a unique violation instead of the profile looked the name up before     *)
(* another request or an import added it, or had its lookup fail.          *)
ClashesAreRaces ==
    \A r \in Requests : req[r] # None /\ req[r].clash => req[r].late

(* Every request ends, whichever APIs hang, whatever fails.                *)
RequestsEnd == \A r \in Requests : Sending(r) ~> ~Sending(r)
=============================================================================
