------------------------- MODULE ProfileCreationProofs -------------------------
(* Type correctness of ProfileCreation, the cause of every unique          *)
(* violation, and the refinement of Registry, for any names, any number of *)
(* requests, and whatever fails.                                           *)
EXTENDS ProfileCreation, TLAPS

-----------------------------------------------------------------------------
(* The inductive invariant                                                 *)

(* What is known of a request, when row is what the table has for its      *)
(* name: it has no answer before the end, what it fetched is about its     *)
(* name, and whoever looked up in vain a name that has a row is late.      *)
Open(q) == q.step # "answered" => q.got = Pending /\ ~q.clash
Fetched(q) ==
    /\ q.step \in {"lookup", "fetch"} =>
            \A api \in Apis : q.replies[api] \in {q.name, "waiting", "invalid"}
    /\ q.step = "insert" => q.replies = AllAbout(q.name)
Overtaken(q, row) == q.step \in {"fetch", "insert"} /\ row # None => q.late
Excused(q) == q.clash => q.late

Good(q, row) == Open(q) /\ Fetched(q) /\ Overtaken(q, row) /\ Excused(q)

Inv ==
    /\ TypeOK
    /\ \A r \in Requests : req[r] # None => Good(req[r], table[req[r].name])

-----------------------------------------------------------------------------
(* Facts about the data                                                    *)

(* A profile built for a name is a profile, and so is one with a gap.      *)
LEMMA BuiltProfiles ==
    ASSUME NEW n \in Names
    PROVE  AllAbout(n) \in Profiles /\ Imported(n) \subseteq Profiles
BY DEF AllAbout, Profiles, Imported

LEMMA ReqTyped ==
    ASSUME TypeOK, NEW r \in Requests, req[r] # None
    PROVE  /\ req[r] \in Request
           /\ req[r].name \in Names
           /\ table[req[r].name] \in Profiles \cup {None}
<1>1. req[r] \in Request
  BY DEF TypeOK
<1>2. req[r].name \in Names
  BY <1>1 DEF Request
<1> QED
  BY <1>1, <1>2 DEF TypeOK

(* A request that has its answer is well typed, and knows nothing else.    *)
LEMMA AnsweredTyped ==
    ASSUME NEW q \in Request, NEW answer \in Profiles \cup {Pending, Failed}
    PROVE  /\ Answered(q, answer) \in Request
           /\ Answered(q, answer).step = "answered"
           /\ Answered(q, answer).name = q.name
           /\ Answered(q, answer).got = answer
           /\ Answered(q, answer).clash = q.clash
<1>1. Unasked \in [Apis -> Replies]
  BY DEF Unasked, Replies
<1> QED
  BY <1>1 DEF Answered, Request, Steps

(* An answer is good if the request was open before.                       *)
LEMMA AnsweredGood ==
    ASSUME NEW q \in Request, NEW answer \in Profiles \cup {Pending, Failed}, NEW row,
           Open(q), q.step # "answered"
    PROVE  Good(Answered(q, answer), row)
<1>1. ~q.clash
  BY DEF Open
<1> QED
  BY <1>1, AnsweredTyped DEF Good, Open, Fetched, Overtaken, Excused

(* Being late changes nothing else, and harms nobody.                      *)
LEMMA LateGood ==
    ASSUME NEW q \in Request, NEW row, Open(q), Fetched(q), Excused(q)
    PROVE  /\ [q EXCEPT !.late = TRUE] \in Request
           /\ [q EXCEPT !.late = TRUE].name = q.name
           /\ Good([q EXCEPT !.late = TRUE], row)
<1> DEFINE p == [q EXCEPT !.late = TRUE]
<1>1. /\ p \in Request /\ p.name = q.name /\ p.step = q.step /\ p.got = q.got
      /\ p.replies = q.replies /\ p.clash = q.clash
  BY DEF Request
<1>2. p.late
  BY DEF Request
<1>3. Open(p)
  BY <1>1 DEF Open
<1>4. Fetched(p)
  BY <1>1 DEF Fetched
<1> QED
  BY <1>1, <1>2, <1>3, <1>4 DEF Good, Overtaken, Excused

-----------------------------------------------------------------------------
(* What one step does                                                      *)

(* A step that replaces one request by a good one, and leaves the table.   *)
LEMMA OneRequest ==
    ASSUME Inv, NEW r \in Requests, NEW q \in Request,
           Good(q, table[q.name]), req' = [req EXCEPT ![r] = q],
           UNCHANGED <<table, down>>, tasks' = tasks
    PROVE  Inv'
<1>1. req' \in [Requests -> Request \cup {None}]
  BY DEF Inv, TypeOK
<1>2. TypeOK'
  BY <1>1 DEF Inv, TypeOK
<1>3. ASSUME NEW x \in Requests, req'[x] # None
      PROVE  Good(req'[x], table[req'[x].name])
  BY <1>3 DEF Inv, TypeOK
<1> QED
  BY <1>2, <1>3 DEF Inv

(* A step that adds a row for a name, while all who looked it up are late. *)
LEMMA RowAdded ==
    ASSUME Inv, NEW n \in Names, NEW p \in Profiles,
           table' = [table EXCEPT ![n] = p], UNCHANGED down, tasks' \in 0..MaxTasks,
           NEW S \in SUBSET Requests,
           req' \in [Requests -> Request \cup {None}],
           \A r \in S : req'[r] = Late(n)[r],
           \A r \in Requests \ S : req'[r] # None => Good(req'[r], table'[req'[r].name])
    PROVE  Inv'
<1>1. TypeOK'
  BY DEF Inv, TypeOK
<1>2. ASSUME NEW r \in S, req'[r] # None
      PROVE  Good(req'[r], table'[req'[r].name])
  <2> DEFINE q == req[r]
  <2>1. q # None
    BY <1>2, ReqTyped DEF Late, LookedUp, At
  <2>2. q \in Request /\ q.name \in Names /\ Good(q, table[q.name])
    BY <2>1, ReqTyped DEF Inv
  <2>3. CASE LookedUp(r) /\ q.name = n
    BY <2>2, <2>3, LateGood DEF Late, Good
  <2>4. CASE ~(LookedUp(r) /\ q.name = n)
    <3>1. req'[r] = q
      BY <2>4 DEF Late
    <3>2. CASE q.name # n
      <4>1. table'[q.name] = table[q.name]
        BY <2>2, <3>2 DEF Inv, TypeOK
      <4> QED
        BY <3>1, <4>1, <2>2
    <3>3. CASE q.step \notin {"fetch", "insert"}
      BY <3>1, <2>2, <3>3 DEF Good, Overtaken
    <3> QED
      BY <2>1, <2>4, <3>2, <3>3 DEF LookedUp, At
  <2> QED
    BY <2>3, <2>4
<1> QED
  BY <1>1, <1>2 DEF Inv

LEMMA LateTyped ==
    ASSUME Inv, NEW n \in Names
    PROVE  /\ Late(n) \in [Requests -> Request \cup {None}]
           /\ \A r \in Requests : req[r] # None => Late(n)[r] # None
<1>1. ASSUME NEW r \in Requests
      PROVE  /\ Late(n)[r] \in Request \cup {None}
             /\ req[r] # None => Late(n)[r] # None
  <2>1. CASE req[r] = None
    BY <2>1 DEF Late, LookedUp, At
  <2>2. CASE req[r] # None
    BY <2>2, ReqTyped, LateGood, ConstantsAssumption DEF Inv, Good, Late
  <2> QED
    BY <2>1, <2>2
<1>2. Late(n) = [r \in Requests |-> Late(n)[r]]
  BY DEF Late
<1> QED
  BY <1>1, <1>2

(* INSERT: the request is answered as the row appears.                     *)
LEMMA InsertStep ==
    ASSUME Inv, NEW r \in Requests, At(r, "insert"), NEW answer \in Profiles \cup {Failed},
           table' = [table EXCEPT ![req[r].name] = Built(r)],
           req' = [Late(req[r].name) EXCEPT ![r] = Answered(@, answer)],
           UNCHANGED down, tasks' \in 0..MaxTasks
    PROVE  Inv' /\ Built(r) = AllAbout(req[r].name)
<1> DEFINE n == req[r].name
           q == Late(n)[r]
<1>1. req[r] # None /\ req[r] \in Request /\ n \in Names /\ Good(req[r], table[n])
  BY ReqTyped DEF At, Inv
<1>2. Built(r) = AllAbout(n) /\ Built(r) \in Profiles
  BY <1>1, BuiltProfiles DEF At, Good, Fetched, Built
<1>3. q = [req[r] EXCEPT !.late = TRUE]
  BY <1>1 DEF Late, LookedUp, At
<1>4. q \in Request /\ Good(q, table'[n]) /\ q.name = n
  BY <1>1, <1>3, LateGood DEF Good
<1>5. q.step = "insert"
  BY <1>1, <1>3 DEF Request, At
<1>6. /\ Answered(q, answer) \in Request
      /\ Good(Answered(q, answer), table'[n]) /\ Answered(q, answer).name = n
  BY <1>4, <1>5, AnsweredTyped, AnsweredGood DEF Good
<1>7. Late(n) \in [Requests -> Request \cup {None}]
  BY <1>1, LateTyped
<1>8. req' \in [Requests -> Request \cup {None}] /\ req'[r] = Answered(q, answer)
      /\ \A x \in Requests \ {r} : req'[x] = Late(n)[x]
  BY <1>6, <1>7
<1>9. \A x \in Requests \ (Requests \ {r}) : req'[x] # None => Good(req'[x], table'[req'[x].name])
  BY <1>6, <1>8
<1>10. table' = [table EXCEPT ![n] = AllAbout(n)]
  BY <1>2
<1> HIDE DEF n, q
<1> QED
  BY <1>1, <1>2, <1>8, <1>9, RowAdded DEF n

-----------------------------------------------------------------------------
(* The steps of a request, as they change the request                      *)

LEMMA BeginStep ==
    ASSUME Inv, NEW r \in Requests, NEW n \in Names, Begin(r, n)
    PROVE  Inv'
<1> DEFINE q == [step |-> "lookup", name |-> n, replies |-> Unasked, got |-> Pending,
                 left |-> FALSE, late |-> FALSE, clash |-> FALSE]
<1>1. q \in Request
  BY DEF Request, Steps, Unasked, Replies
<1>2. Good(q, table[q.name])
  BY DEF Good, Open, Fetched, Overtaken, Excused, Unasked
<1>3. req' = [req EXCEPT ![r] = q] /\ UNCHANGED <<table, down>> /\ tasks' = tasks
  BY DEF Begin
<1> HIDE DEF q
<1> QED
  BY <1>1, <1>2, <1>3, OneRequest

LEMMA LeaveStep ==
    ASSUME Inv, NEW r \in Requests, Leave(r)
    PROVE  Inv'
<1> DEFINE q == [req[r] EXCEPT !.left = TRUE]
<1>1. req[r] # None /\ req[r] \in Request /\ Good(req[r], table[req[r].name])
  BY ReqTyped DEF Leave, Sending, Inv
<1>2. q \in Request
  BY <1>1 DEF Request
<1>3. /\ q.step = req[r].step /\ q.name = req[r].name /\ q.got = req[r].got
      /\ q.replies = req[r].replies /\ q.late = req[r].late /\ q.clash = req[r].clash
  BY <1>1 DEF Request
<1>4. Good(q, table[q.name])
  BY <1>1, <1>3 DEF Good, Open, Fetched, Overtaken, Excused
<1>5. req' = [req EXCEPT ![r] = q] /\ UNCHANGED <<table, down>> /\ tasks' = tasks
  BY <1>1 DEF Leave, Inv, TypeOK
<1> HIDE DEF q
<1> QED
  BY <1>2, <1>4, <1>5, OneRequest

(* A request that gets its answer while the table stays as it is.          *)
LEMMA AnswerStep ==
    ASSUME Inv, NEW r \in Requests, Sending(r), NEW answer \in Profiles \cup {Failed},
           Answers(r, answer), UNCHANGED <<table, down, tasks>>
    PROVE  Inv'
<1>1. req[r] # None /\ req[r] \in Request /\ Good(req[r], table[req[r].name])
  BY ReqTyped DEF Sending, Inv
<1>2. Answered(req[r], answer) \in Request
  BY <1>1, AnsweredTyped
<1>3. Good(Answered(req[r], answer), table[Answered(req[r], answer).name])
  BY <1>1, AnsweredGood DEF Sending, Good
<1>4. req' = [req EXCEPT ![r] = Answered(req[r], answer)]
  BY DEF Answers
<1> QED
  BY <1>2, <1>3, <1>4, OneRequest

LEMMA FindExistingStep ==
    ASSUME Inv, NEW r \in Requests, FindExisting(r)
    PROVE  Inv'
<1>1. table[req[r].name] \in Profiles
  BY ReqTyped DEF FindExisting, At, Inv
<1> QED
  BY <1>1, AnswerStep DEF FindExisting, At, Sending

LEMMA FindNoneStep ==
    ASSUME Inv, NEW r \in Requests, FindNone(r)
    PROVE  Inv'
<1> DEFINE row == table[req[r].name]
           q == [req[r] EXCEPT !.step = "fetch", !.late = row # None]
<1>1. req[r] # None /\ req[r] \in Request /\ Good(req[r], row) /\ req[r].step = "lookup"
  BY ReqTyped DEF FindNone, At, Inv
<1>2. q \in Request
  BY <1>1 DEF Request, Steps
<1>3. /\ q.step = "fetch" /\ q.name = req[r].name /\ q.got = req[r].got
      /\ q.replies = req[r].replies /\ q.late = (row # None) /\ q.clash = req[r].clash
  BY <1>1 DEF Request
<1>4. Open(q) /\ Excused(q)
  BY <1>1, <1>3 DEF Good, Open, Excused
<1>5. Fetched(q)
  BY <1>1, <1>3 DEF Good, Fetched
<1>6. Overtaken(q, row)
  BY <1>3 DEF Overtaken
<1>7. Good(q, table[q.name])
  BY <1>3, <1>4, <1>5, <1>6 DEF Good
<1>8. req' = [req EXCEPT ![r] = q] /\ UNCHANGED <<table, down>> /\ tasks' = tasks
  BY <1>1 DEF FindNone, Inv, TypeOK
<1> HIDE DEF q
<1> QED
  BY <1>2, <1>7, <1>8, OneRequest

LEMMA FetchStep ==
    ASSUME Inv, NEW r \in Requests, NEW api \in Apis, Fetch(r, api)
    PROVE  Inv'
<1>1. PICK reply \in {req[r].name, "invalid"} : Replied(r, api, reply)
  BY DEF Fetch
<1> DEFINE q == [req[r] EXCEPT !.replies[api] = reply]
<1>2. req[r] # None /\ req[r] \in Request /\ req[r].name \in Names
      /\ Good(req[r], table[req[r].name]) /\ req[r].step = "fetch"
  BY <1>1, ReqTyped DEF Replied, At, Inv
<1>3. reply \in Replies
  BY <1>2 DEF Replies
<1>4. q \in Request
  BY <1>2, <1>3 DEF Request
<1>5. /\ q.step = "fetch" /\ q.name = req[r].name /\ q.got = req[r].got
      /\ q.late = req[r].late /\ q.clash = req[r].clash
  BY <1>2 DEF Request
<1>6. \A x \in Apis : q.replies[x] = IF x = api THEN reply ELSE req[r].replies[x]
  BY <1>2 DEF Request
<1>7. Fetched(q)
  BY <1>2, <1>5, <1>6 DEF Good, Fetched
<1>8. Good(q, table[q.name])
  BY <1>2, <1>5, <1>7 DEF Good, Open, Overtaken, Excused
<1>9. req' = [req EXCEPT ![r] = q] /\ UNCHANGED <<table, down>> /\ tasks' = tasks
  BY <1>1, <1>2 DEF Replied, Inv, TypeOK
<1> HIDE DEF q
<1> QED
  BY <1>4, <1>8, <1>9, OneRequest

LEMMA BuildStep ==
    ASSUME Inv, NEW r \in Requests, Build(r)
    PROVE  Inv'
<1>1. req[r] # None /\ req[r] \in Request /\ req[r].step = "fetch"
      /\ Good(req[r], table[req[r].name])
  BY ReqTyped DEF Build, At, Inv
<1>2. CASE \E api \in Apis : req[r].replies[api] = "invalid"
  BY <1>1, <1>2, AnswerStep DEF Build, Sending
<1>3. CASE \A api \in Apis : req[r].replies[api] # "invalid"
  <2> DEFINE q == [req[r] EXCEPT !.step = "insert"]
  <2>1. q \in Request
    BY <1>1 DEF Request, Steps
  <2>2. /\ q.step = "insert" /\ q.name = req[r].name /\ q.got = req[r].got
        /\ q.replies = req[r].replies /\ q.late = req[r].late /\ q.clash = req[r].clash
    BY <1>1 DEF Request
  <2>3. \A api \in Apis : q.replies[api] = q.name
    BY <1>1, <1>3, <2>2 DEF Build, Good, Fetched
  <2>4. q.replies = AllAbout(q.name)
    <3>1. q.replies \in [Apis -> Replies]
      BY <2>1 DEF Request
    <3> QED
      BY <3>1, <2>3 DEF AllAbout
  <2>5. Good(q, table[q.name])
    BY <1>1, <2>2, <2>4 DEF Good, Open, Fetched, Overtaken, Excused
  <2>6. req' = [req EXCEPT ![r] = q] /\ UNCHANGED <<table, down>> /\ tasks' = tasks
    BY <1>1, <1>3 DEF Build, Inv, TypeOK
  <2> HIDE DEF q
  <2> QED
    BY <2>1, <2>5, <2>6, OneRequest
<1> QED
  BY <1>2, <1>3

LEMMA InsertFailsStep ==
    ASSUME Inv, NEW r \in Requests, InsertFails(r)
    PROVE  Inv'
<1> DEFINE row == table[req[r].name]
           a == Answered(req[r], Failed)
           q == [a EXCEPT !.clash = row # None, !.late = (row # None) /\ req[r].late]
<1>1. req[r] # None /\ req[r] \in Request /\ Good(req[r], row) /\ req[r].step = "insert"
  BY ReqTyped DEF InsertFails, At, Inv
<1>2. a \in Request /\ a.step = "answered" /\ a.name = req[r].name
  BY <1>1, AnsweredTyped
<1>3. q \in Request
  BY <1>2 DEF Request
<1>4. /\ q.step = "answered" /\ q.name = req[r].name
      /\ q.clash = (row # None) /\ q.late = ((row # None) /\ req[r].late)
  BY <1>2 DEF Request
<1>5. row # None => req[r].late
  BY <1>1 DEF Good, Overtaken
<1>6. Good(q, table[q.name])
  BY <1>4, <1>5 DEF Good, Open, Fetched, Overtaken, Excused
<1>7. req' = [req EXCEPT ![r] = q] /\ UNCHANGED <<table, down>> /\ tasks' = tasks
  BY <1>1 DEF InsertFails, Inv, TypeOK
<1> HIDE DEF q, a
<1> QED
  BY <1>3, <1>6, <1>7, OneRequest

LEMMA ImportStep ==
    ASSUME Inv, NEW n \in Names, NEW p \in Imported(n), ImportRow(n, p)
    PROVE  Inv'
<1>1. p \in Profiles
  BY BuiltProfiles
<1>2. req' \in [Requests -> Request \cup {None}] /\ \A r \in Requests : req'[r] = Late(n)[r]
  BY LateTyped DEF ImportRow
<1>3. tasks' \in 0..MaxTasks
  BY DEF ImportRow, Inv, TypeOK
<1>4. table' = [table EXCEPT ![n] = p] /\ UNCHANGED down
  BY DEF ImportRow
<1> QED
  BY <1>1, <1>2, <1>3, <1>4, RowAdded

LEMMA DeleteStep ==
    ASSUME Inv, NEW n \in Names, DeleteProfile(n)
    PROVE  Inv'
<1>1. TypeOK'
  BY DEF DeleteProfile, Inv, TypeOK
<1>2. ASSUME NEW r \in Requests, req'[r] # None
      PROVE  Good(req'[r], table'[req'[r].name])
  <2>1. req'[r] = req[r] /\ req[r].name \in Names /\ Good(req[r], table[req[r].name])
    BY <1>2, ReqTyped DEF DeleteProfile, Inv
  <2>2. table'[req[r].name] # None => table'[req[r].name] = table[req[r].name]
    BY <2>1 DEF DeleteProfile, Inv, TypeOK
  <2> QED
    BY <2>1, <2>2 DEF Good, Overtaken
<1> QED
  BY <1>1, <1>2 DEF Inv

LEMMA Induction ==
    ASSUME Inv, [Next]_vars
    PROVE  Inv'
<1>1. ASSUME NEW r \in Requests, NEW n \in Names, Begin(r, n)
      PROVE  Inv'
  BY <1>1, BeginStep
<1>2. ASSUME NEW r \in Requests, Leave(r) \/ Lookup(r) \/ Build(r)
      PROVE  Inv'
  BY <1>2, LeaveStep, FindExistingStep, FindNoneStep, BuildStep DEF Lookup
<1>3. ASSUME NEW r \in Requests, Store(r)
      PROVE  Inv'
  <2>1. CASE Insert(r)
    <3>1. req[r] \in Request /\ req[r].name \in Names /\ Good(req[r], table[req[r].name])
          /\ req[r].step = "insert"
      BY <2>1, ReqTyped DEF Insert, At, Inv
    <3>2. Built(r) \in Profiles
      BY <3>1, BuiltProfiles DEF Good, Fetched, Built
    <3>3. tasks' \in 0..MaxTasks
      BY <2>1, ConstantsAssumption DEF Insert, Inv, TypeOK
    <3> QED
      BY <2>1, <3>2, <3>3, InsertStep DEF Insert
  <2>2. CASE InsertUnheard(r)
    <3>1. tasks' \in 0..MaxTasks
      BY <2>2 DEF InsertUnheard, Inv, TypeOK
    <3> QED
      BY <2>2, <3>1, InsertStep DEF InsertUnheard
  <2> QED
    BY <1>3, <2>1, <2>2, InsertFailsStep DEF Store
<1>4. ASSUME NEW r \in Requests, NEW api \in Apis, Fetch(r, api)
      PROVE  Inv'
  BY <1>4, FetchStep
<1>5. CASE RunTask
  BY <1>5, ConstantsAssumption DEF RunTask, Inv, TypeOK
<1>6. ASSUME NEW n \in Names, DeleteProfile(n)
      PROVE  Inv'
  BY <1>6, DeleteStep
<1>7. ASSUME NEW n \in Names, NEW p \in Imported(n), ImportRow(n, p)
      PROVE  Inv'
  BY <1>7, ImportStep
<1>8. ASSUME NEW api \in Apis, Outage(api)
      PROVE  Inv'
  BY <1>8 DEF Outage, Inv, TypeOK
<1>9. CASE UNCHANGED vars
  BY <1>9 DEF vars, Inv, TypeOK
<1> QED
  BY <1>1, <1>2, <1>3, <1>4, <1>5, <1>6, <1>7, <1>8, <1>9 DEF Next

LEMMA Start ==
    ASSUME Init
    PROVE  Inv
BY ConstantsAssumption DEF Init, Inv, TypeOK

LEMMA Invariance == Spec => []Inv
<1>1. Init => Inv
  BY Start
<1>2. Inv /\ [Next]_vars => Inv'
  BY Induction
<1> QED
  BY <1>1, <1>2, PTL DEF Spec

-----------------------------------------------------------------------------
(* The theorems                                                            *)

(* Tables and requests are well typed: every profile in the table is made  *)
(* of replies that came, about its own name, or was imported.              *)
THEOREM TypeCorrect == Spec => []TypeOK
<1>1. Inv => TypeOK
  BY DEF Inv
<1> QED
  BY <1>1, Invariance, PTL

(* A request of POST /profiles gets a unique violation only if its lookup  *)
(* failed or another write won the race since.                             *)
THEOREM OnlyRacesClash == Spec => []ClashesAreRaces
<1>1. Inv => ClashesAreRaces
  BY DEF Inv, Good, Excused, ClashesAreRaces
<1> QED
  BY <1>1, Invariance, PTL

-----------------------------------------------------------------------------
(* The refinement of Registry                                              *)

(* What the client of a request knows, if the request becomes q.           *)
LEMMA OneClient ==
    ASSUME Inv, NEW r \in Requests, NEW q \in Request, req' = [req EXCEPT ![r] = q]
    PROVE  client' = [client EXCEPT ![r] = [asked |-> q.name, got |-> q.got]]
<1>1. q # None
  BY ConstantsAssumption
<1>2. req'[r] = q /\ \A x \in Requests : x # r => req'[x] = req[x]
  BY DEF Inv, TypeOK
<1> QED
  BY <1>1, <1>2 DEF client

(* A step that leaves name and answer of each request is nothing to them.  *)
LEMMA SameClients ==
    ASSUME NEW S \in SUBSET Requests,
           \A r \in S : \/ req'[r] = req[r]
                         \/ /\ req[r] # None /\ req'[r] # None
                            /\ req'[r].name = req[r].name /\ req'[r].got = req[r].got
    PROVE  \A r \in S : client'[r] = client[r]
BY DEF client

LEMMA Quiet ==
    ASSUME Inv, NEW r \in Requests, req[r] # None, NEW q \in Request,
           q.name = req[r].name, q.got = req[r].got, req' = [req EXCEPT ![r] = q]
    PROVE  client' = client
<1>1. client' = [client EXCEPT ![r] = [asked |-> q.name, got |-> q.got]]
  BY OneClient
<1>2. client[r] = [asked |-> q.name, got |-> q.got]
  BY DEF client
<1> QED
  BY <1>1, <1>2 DEF client

(* A request that is on its way has a client that waits.                   *)
LEMMA Waiting ==
    ASSUME Inv, NEW r \in Requests, Sending(r)
    PROVE  R!Waits(r) /\ client[r].asked = req[r].name
<1>1. req[r] # None /\ req[r].got = Pending /\ req[r].name \in Names
  BY ReqTyped DEF Inv, Good, Open, Sending
<1>2. client[r] = [asked |-> req[r].name, got |-> Pending]
  BY <1>1 DEF client
<1>3. client[r] # None
  BY <1>1, <1>2, ConstantsAssumption
<1> QED
  BY <1>2, <1>3 DEF R!Waits

(* An answer to one request is an answer to its client.                    *)
LEMMA Told ==
    ASSUME Inv, NEW r \in Requests, Sending(r), NEW q \in Request, q.name = req[r].name,
           req' = [req EXCEPT ![r] = q]
    PROVE  R!Gets(r, q.got)
<1>1. client' = [client EXCEPT ![r] = [asked |-> q.name, got |-> q.got]]
  BY OneClient
<1>2. client[r] = [asked |-> q.name, got |-> req[r].got]
  BY DEF client, Sending
<1>3. [client[r] EXCEPT !.got = q.got] = [asked |-> q.name, got |-> q.got]
  BY <1>2
<1> QED
  BY <1>1, <1>3 DEF R!Gets

LEMMA AnsweredTells ==
    ASSUME Inv, NEW r \in Requests, Sending(r), NEW answer \in Profiles \cup {Failed},
           Answers(r, answer)
    PROVE  R!Gets(r, answer)
<1> DEFINE q == Answered(req[r], answer)
<1>1. q \in Request /\ q.name = req[r].name /\ q.got = answer
  BY AnsweredTyped, ReqTyped DEF Sending, Inv
<1>2. req' = [req EXCEPT ![r] = q]
  BY DEF Answers
<1> HIDE DEF q
<1> QED
  BY <1>1, <1>2, Told

LEMMA LateIsQuiet ==
    ASSUME Inv, NEW n \in Names, NEW r \in Requests
    PROVE  \/ Late(n)[r] = req[r]
           \/ /\ req[r] # None /\ Late(n)[r] # None
              /\ Late(n)[r].name = req[r].name /\ Late(n)[r].got = req[r].got
<1>1. CASE LookedUp(r) /\ req[r].name = n
  <2>1. req[r] # None /\ req[r] \in Request
    BY <1>1, ReqTyped DEF Inv, LookedUp, At
  <2>2. Late(n)[r] = [req[r] EXCEPT !.late = TRUE]
    BY <1>1 DEF Late
  <2> QED
    BY <2>1, <2>2, LateTyped DEF Request
<1>2. CASE ~(LookedUp(r) /\ req[r].name = n)
  BY <1>2 DEF Late
<1> QED
  BY <1>1, <1>2

(* INSERT: one client gets the answer, the others hear nothing.            *)
LEMMA InsertTells ==
    ASSUME Inv, NEW r \in Requests, At(r, "insert"), NEW answer \in Profiles \cup {Failed},
           req' = [Late(req[r].name) EXCEPT ![r] = Answered(@, answer)]
    PROVE  R!Gets(r, answer)
<1> DEFINE n == req[r].name
           q == Late(n)[r]
<1>1. req[r] # None /\ n \in Names
  BY ReqTyped DEF At, Inv
<1>2. q \in Request /\ q.name = n
  <2>1. q \in Request
    BY <1>1, LateTyped
  <2> QED
    BY <2>1, <1>1, LateIsQuiet
<1>3. /\ Answered(q, answer) # None
      /\ Answered(q, answer).name = n /\ Answered(q, answer).got = answer
  BY <1>2, AnsweredTyped, ConstantsAssumption
<1>4. /\ req'[r] = Answered(q, answer)
      /\ \A x \in Requests \ {r} : req'[x] = Late(n)[x]
  BY <1>1, LateTyped
<1>5. client'[r] = [asked |-> n, got |-> answer]
  BY <1>3, <1>4 DEF client
<1>6. \A x \in Requests \ {r} : client'[x] = client[x]
  <2>1. \A x \in Requests \ {r} :
          \/ req'[x] = req[x]
          \/ /\ req[x] # None /\ req'[x] # None
             /\ req'[x].name = req[x].name /\ req'[x].got = req[x].got
    BY <1>1, <1>4, LateIsQuiet
  <2> QED
    BY <2>1, SameClients
<1>7. client[r] = [asked |-> n, got |-> req[r].got]
  BY <1>1 DEF client
<1>8. [client[r] EXCEPT !.got = answer] = client'[r]
  BY <1>5, <1>7
<1>9. client' = [x \in Requests |-> client'[x]] /\ client = [x \in Requests |-> client[x]]
  BY DEF client
<1> HIDE DEF n, q
<1>10. client' = [client EXCEPT ![r] = client'[r]]
  BY <1>6, <1>9
<1> QED
  BY <1>8, <1>10 DEF R!Gets

LEMMA InsertRefines ==
    ASSUME Inv, NEW r \in Requests, Store(r)
    PROVE  R!Create(r) \/ R!Fail(r)
<1>1. At(r, "insert") /\ Sending(r) /\ req[r] \in Request /\ req[r].name \in Names
  BY ReqTyped DEF Store, Insert, InsertUnheard, InsertFails, At, Sending, Inv
<1>2. R!Waits(r) /\ client[r].asked = req[r].name
  BY <1>1, Waiting
<1>3. Built(r) = AllAbout(req[r].name) /\ Built(r) \in Profiles
  BY <1>1, BuiltProfiles DEF At, Inv, Good, Fetched, Built
<1>4. CASE Insert(r)
  BY <1>1, <1>2, <1>3, <1>4, InsertTells DEF Insert, R!Create
<1>5. CASE InsertUnheard(r)
  BY <1>1, <1>2, <1>3, <1>5, InsertTells DEF InsertUnheard, R!Create
<1>6. CASE InsertFails(r)
  <2> DEFINE a == Answered(req[r], Failed)
             clash == table[req[r].name] # None
             q == [a EXCEPT !.clash = clash, !.late = clash /\ req[r].late]
  <2>1. a \in Request /\ a.name = req[r].name /\ a.got = Failed
    BY <1>1, AnsweredTyped
  <2>2. q \in Request /\ q.name = req[r].name /\ q.got = Failed
    <3>1. req[r].late \in BOOLEAN
      BY <1>1 DEF Request
    <3> HIDE DEF a
    <3> QED
      BY <2>1, <3>1 DEF Request
  <2>3. req' = [req EXCEPT ![r] = q] /\ UNCHANGED table
    BY <1>6, <1>1 DEF InsertFails, At, Inv, TypeOK
  <2> HIDE DEF q
  <2> QED
    BY <1>1, <1>2, <2>2, <2>3, Told DEF R!Fail
<1> QED
  BY <1>4, <1>5, <1>6 DEF Store

LEMMA RefinedStart ==
    ASSUME Init
    PROVE  R!Init
BY DEF Init, R!Init, client

LEMMA RefinedStep ==
    ASSUME Inv, [Next]_vars
    PROVE  [R!Next]_<<table, client>>
<1>1. ASSUME NEW r \in Requests, NEW n \in Names, Begin(r, n)
      PROVE  R!Ask(r, n)
  <2> DEFINE q == [step |-> "lookup", name |-> n, replies |-> Unasked, got |-> Pending,
                   left |-> FALSE, late |-> FALSE, clash |-> FALSE]
  <2>1. q \in Request /\ q.name = n /\ q.got = Pending
    BY DEF Request, Steps, Unasked, Replies
  <2>2. req' = [req EXCEPT ![r] = q] /\ UNCHANGED table
    BY <1>1 DEF Begin
  <2> HIDE DEF q
  <2> QED
    BY <2>1, <2>2, OneClient DEF R!Ask
<1>2. ASSUME NEW r \in Requests, Leave(r)
      PROVE  UNCHANGED <<table, client>>
  <2>1. req[r] # None /\ req[r] \in Request /\ UNCHANGED table
    BY <1>2, ReqTyped DEF Leave, Sending, Inv
  <2> DEFINE q == [req[r] EXCEPT !.left = TRUE]
  <2>2. q \in Request /\ q.name = req[r].name /\ q.got = req[r].got
    BY <2>1 DEF Request
  <2>3. req' = [req EXCEPT ![r] = q]
    BY <1>2, <2>1 DEF Leave, Inv, TypeOK
  <2> HIDE DEF q
  <2> QED
    BY <2>1, <2>2, <2>3, Quiet
<1>3. ASSUME NEW r \in Requests, FindExisting(r)
      PROVE  R!GetExisting(r)
  <2>1. Sending(r) /\ table[req[r].name] \in Profiles
    BY <1>3, ReqTyped DEF FindExisting, At, Sending, Inv
  <2>2. R!Waits(r) /\ client[r].asked = req[r].name
    BY <2>1, Waiting
  <2> QED
    BY <1>3, <2>1, <2>2, AnsweredTells DEF FindExisting, R!GetExisting
<1>4. ASSUME NEW r \in Requests, FindNone(r)
      PROVE  UNCHANGED <<table, client>>
  <2>1. req[r] # None /\ req[r] \in Request /\ UNCHANGED table
    BY <1>4, ReqTyped DEF FindNone, At, Inv
  <2> DEFINE q == [req[r] EXCEPT !.step = "fetch", !.late = table[req[r].name] # None]
  <2>2. q \in Request /\ q.name = req[r].name /\ q.got = req[r].got
    BY <2>1 DEF Request, Steps
  <2>3. req' = [req EXCEPT ![r] = q]
    BY <1>4, <2>1 DEF FindNone, Inv, TypeOK
  <2> HIDE DEF q
  <2> QED
    BY <2>1, <2>2, <2>3, Quiet
<1>5. ASSUME NEW r \in Requests, NEW api \in Apis, Fetch(r, api)
      PROVE  UNCHANGED <<table, client>>
  <2>1. PICK reply \in {req[r].name, "invalid"} : Replied(r, api, reply)
    BY <1>5 DEF Fetch
  <2>2. req[r] # None /\ req[r] \in Request /\ reply \in Replies /\ UNCHANGED table
    BY <2>1, ReqTyped DEF Replied, At, Inv, Replies
  <2> DEFINE q == [req[r] EXCEPT !.replies[api] = reply]
  <2>3. q \in Request /\ q.name = req[r].name /\ q.got = req[r].got
    BY <2>2 DEF Request
  <2>4. req' = [req EXCEPT ![r] = q]
    BY <2>1, <2>2 DEF Replied, Inv, TypeOK
  <2> HIDE DEF q
  <2> QED
    BY <2>2, <2>3, <2>4, Quiet
<1>6. ASSUME NEW r \in Requests, Build(r)
      PROVE  R!Fail(r) \/ UNCHANGED <<table, client>>
  <2>1. req[r] # None /\ req[r] \in Request /\ Sending(r) /\ UNCHANGED table
    BY <1>6, ReqTyped DEF Build, At, Sending, Inv
  <2>2. CASE Answers(r, Failed)
    BY <2>1, <2>2, AnsweredTells, Waiting DEF R!Fail
  <2>3. CASE req' = [req EXCEPT ![r].step = "insert"]
    <3> DEFINE q == [req[r] EXCEPT !.step = "insert"]
    <3>1. q \in Request /\ q.name = req[r].name /\ q.got = req[r].got
      BY <2>1 DEF Request, Steps
    <3>2. req' = [req EXCEPT ![r] = q]
      BY <2>1, <2>3 DEF Inv, TypeOK
    <3> HIDE DEF q
    <3> QED
      BY <2>1, <3>1, <3>2, Quiet
  <2> QED
    BY <1>6, <2>2, <2>3 DEF Build
<1>7. ASSUME NEW r \in Requests, Store(r)
      PROVE  R!Create(r) \/ R!Fail(r)
  BY <1>7, InsertRefines
<1>8. CASE RunTask \/ \E api \in Apis : Outage(api)
  BY <1>8 DEF RunTask, Outage, client
<1>9. ASSUME NEW n \in Names, DeleteProfile(n)
      PROVE  R!Delete(n)
  BY <1>9 DEF DeleteProfile, R!Delete, client
<1>10. ASSUME NEW n \in Names, NEW p \in Imported(n), ImportRow(n, p)
       PROVE  R!Import(n)
  <2>1. p \in Profiles
    BY BuiltProfiles
  <2>2. \A r \in Requests : client'[r] = client[r]
    <3>1. \A r \in Requests : req'[r] = Late(n)[r]
      BY <1>10, LateTyped DEF ImportRow
    <3>2. \A r \in Requests :
            \/ req'[r] = req[r]
            \/ /\ req[r] # None /\ req'[r] # None
               /\ req'[r].name = req[r].name /\ req'[r].got = req[r].got
      BY <3>1, LateIsQuiet
    <3> QED
      BY <3>2, SameClients
  <2>3. client' = [r \in Requests |-> client'[r]] /\ client = [r \in Requests |-> client[r]]
    BY DEF client
  <2>4. UNCHANGED client
    BY <2>2, <2>3
  <2> QED
    BY <1>10, <2>1, <2>4 DEF ImportRow, R!Import
<1>11. CASE UNCHANGED vars
  BY <1>11 DEF vars, client
<1> QED
  BY <1>1, <1>2, <1>3, <1>4, <1>5, <1>6, <1>7, <1>8, <1>9, <1>10, <1>11
     DEF Next, R!Next, Lookup

(* POST /profiles, in its several steps and with all that can fail between *)
(* them, implements requests that take effect at one moment.               *)
THEOREM Refinement == Spec => ImplementsRegistry
<1>1. Init => R!Init
  BY RefinedStart
<1>2. Inv /\ [Next]_vars => [R!Next]_<<table, client>>
  BY RefinedStep
<1> QED
  BY <1>1, <1>2, Invariance, PTL DEF Spec, ImplementsRegistry, R!Spec
=============================================================================
