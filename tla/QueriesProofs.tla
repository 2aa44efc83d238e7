----------------------------- MODULE QueriesProofs -----------------------------
(* Type correctness of Queries, what an answer and its links have to do    *)
(* with the question, and what a client reads that follows them to the     *)
(* end, for any tables, requests, limits and number of cached lists.       *)
EXTENDS Queries, FiltersProofs, FiniteSetTheorems, SequenceTheorems

-----------------------------------------------------------------------------
(* Facts about the data                                                    *)

LEMMA PageAndLimit ==
    ASSUME NEW r \in Request
    PROVE  /\ Page(r) \in Nat \ {0} /\ Limit(r) \in Nat \ {0} /\ Limit(r) <= MaxLimit
           /\ r.page \in Int /\ r.limit \in Int
BY QueriesAssumption DEF Request, Page, Limit

LEMMA AcceptedCanonical ==
    ASSUME NEW r \in Request, NEW f \in Accepted(r)
    PROVE  f \in Filter /\ NormalizeFilters(f) = f
<1> DEFINE parsed == IF r.path = "list" THEN {r.ask} ELSE ParseNaturalLanguage(r.ask)
<1>1. parsed \subseteq Filter
  <2>1. CASE r.path = "list"
    BY <2>1 DEF Request
  <2>2. CASE r.path # "list"
    <3>1. r.ask \in Search
      BY <2>2 DEF Request
    <3> QED
      BY <2>2, <3>1, ParsedTyped
  <2> QED
    BY <2>1, <2>2
<1>2. PICK g \in parsed : f = NormalizeFilters(g)
  BY DEF Accepted
<1>3. g \in Filter
  BY <1>1, <1>2
<1> QED
  BY <1>2, <1>3, NormalFields, Idempotent

(* The question of a request is its path and its words; the links of an    *)
(* answer repeat it.                                                       *)
Repeats(link, r) == link \in Request /\ link.path = r.path /\ link.ask = r.ask

LEMMA SameQuestion ==
    ASSUME NEW r, NEW link, Repeats(link, r)
    PROVE  Accepted(link) = Accepted(r)
BY DEF Accepted, Repeats

LEMMA LinkTo ==
    ASSUME NEW r \in Request, NEW page \in Nat \ {0}
    PROVE  Repeats(Link(r, page), r) /\ Page(Link(r, page)) = page
           /\ Limit(Link(r, page)) = Limit(r)
<1>1. Limit(r) \in Nat \ {0} /\ Limit(r) <= MaxLimit
  BY PageAndLimit
<1>2. /\ Link(r, page).path = r.path /\ Link(r, page).ask = r.ask
      /\ Link(r, page).page = page /\ Link(r, page).limit = Limit(r)
  BY DEF Link
<1>3. Link(r, page) \in Request
  <2>1. page \in Int /\ Limit(r) \in Int
    BY <1>1
  <2>2. CASE r \in [path : {"list"}, ask : Filter, page : Int, limit : Int]
    <3>1. r.path \in {"list"} /\ r.ask \in Filter
      BY <2>2
    <3> QED
      BY <2>1, <3>1 DEF Request, Link
  <2>3. CASE r \in [path : {"search"}, ask : Search, page : Int, limit : Int]
    <3>1. r.path \in {"search"} /\ r.ask \in Search
      BY <2>3
    <3> QED
      BY <2>1, <3>1 DEF Request, Link
  <2> QED
    BY <2>2, <2>3 DEF Request
<1>4. Page(Link(r, page)) = page
  BY <1>2 DEF Page
<1>5. Limit(Link(r, page)) = Limit(r)
  <2>1. ~(Link(r, page).limit <= 0) /\ Link(r, page).limit <= MaxLimit
    BY <1>1, <1>2, QueriesAssumption
  <2> QED
    BY <1>2, <2>1 DEF Limit
<1> QED
  BY <1>2, <1>3, <1>4, <1>5 DEF Repeats

-----------------------------------------------------------------------------
(* The database                                                            *)

LEMMA FoundTyped ==
    ASSUME table \in Tables, NEW f, NEW page \in Nat \ {0}, NEW limit \in Nat \ {0},
           NEW found \in FindFiltered(f, page, limit)
    PROVE  /\ found.rows \in Seq(Row) /\ found.total \in Nat
           /\ found = [rows |-> found.rows, total |-> found.total]
<1>1. Matches(f) \subseteq Row /\ Cardinality(Matches(f)) \in Nat
  BY QueriesAssumption, FS_Subset, FS_CardinalityType DEF Matches
<1>2. PICK s \in Orderings(f) :
        found = [rows |-> SubSeq(s, (page - 1) * limit + 1, Least(page * limit, Len(s))),
                 total |-> IF (page - 1) * limit < Len(s) THEN Len(s) ELSE 0]
  BY DEF FindFiltered
<1>3. s \in [1..Cardinality(Matches(f)) -> Matches(f)]
  BY DEF Orderings
<1>4. s \in Seq(Row) /\ Len(s) \in Nat /\ \A i \in 1..Len(s) : s[i] \in Row
  BY <1>1, <1>3
<1> DEFINE m == (page - 1) * limit + 1
           n == Least(page * limit, Len(s))
<1>5. m \in Nat \ {0} /\ page * limit \in Nat
  OBVIOUS
<1>6. n \in Int /\ n <= Len(s)
  BY <1>4, <1>5 DEF Least
<1>7. SubSeq(s, m, n) \in Seq(Row)
  <2> HIDE DEF m, n
  <2>1. \A i \in m..n : s[i] \in Row
    BY <1>4, <1>5, <1>6
  <2> QED
    BY <1>5, <1>6, <2>1, SubSeqProperties
<1> QED
  BY <1>2, <1>4, <1>7

LEMMA SameTable ==
    ASSUME UNCHANGED table, NEW f, NEW page, NEW limit
    PROVE  FindFiltered(f, page, limit)' = FindFiltered(f, page, limit)
<1>1. Matches(f)' = Matches(f)
  BY DEF Matches
<1>2. Orderings(f)' = Orderings(f)
  BY <1>1 DEF Orderings
<1> QED
  BY <1>2 DEF FindFiltered

-----------------------------------------------------------------------------
(* The invariant                                                           *)

(* A request that a client begins with, or one that a link leads to.       *)
Asked(r) == r \in Request /\ \E r0 \in Requests : Repeats(r, r0)

(* An answer was made for some question that has its key.                  *)
Origin(k, a) ==
    \E r \in Request :
        /\ Asked(r)
        /\ \E f \in Accepted(r) : \E found \in FindFiltered(f, Page(r), Limit(r)) :
              k = Key(r, f) /\ a = Response(r, found)

Bounded == /\ IsFiniteSet(tasks) /\ Cardinality(tasks) <= MaxTasks
           /\ IsFiniteSet(DOMAIN cache) /\ Cardinality(DOMAIN cache) <= MaxEntries

Reading(w) ==
    /\ w \in Walk /\ Asked(w.asked) /\ w.filter \in Accepted(w.asked)
    /\ \E a : /\ Origin(Key(w.asked, w.filter), a)
              /\ w.answer = Sent(a) /\ w.whole = Readable(a)

Inv ==
    /\ table \in Tables
    /\ Bounded
    /\ \A task \in tasks : Origin(task.key, task.answer)
    /\ \A k \in DOMAIN cache : Origin(k, cache[k]) /\ Readable(cache[k])
    /\ reader # None => Reading(reader)

LEMMA RequestsAsked ==
    ASSUME NEW r \in Requests
    PROVE  Asked(r)
BY QueriesAssumption DEF Asked, Repeats

LEMMA LinkAsked ==
    ASSUME NEW r, Asked(r), NEW page \in Nat \ {0}
    PROVE  Asked(Link(r, page)) /\ Accepted(Link(r, page)) = Accepted(r)
<1>1. r \in Request
  BY DEF Asked
<1>2. Repeats(Link(r, page), r)
  BY <1>1, LinkTo
<1> QED
  BY <1>2, SameQuestion DEF Asked, Repeats

(* What an answer is made of.                                              *)
LEMMA ResponseParts ==
    ASSUME NEW r \in Request, NEW found
    PROVE  LET a == Response(r, found)
           IN  /\ a.rows = found.rows /\ a.total = found.total
               /\ a.next = Link(r, Page(r) + 1) \/ a.next = None
               /\ \/ a.prev = Link(r, Page(r) - 1) /\ Page(r) - 1 \in Nat \ {0}
                  \/ a.prev = None
               /\ a = [rows |-> a.rows, total |-> a.total, next |-> a.next, prev |-> a.prev]
<1>1. Page(r) \in Nat \ {0}
  BY PageAndLimit
<1> QED
  BY <1>1 DEF Response

LEMMA OriginTyped ==
    ASSUME table \in Tables, NEW k, NEW a, Origin(k, a)
    PROVE  a \in Answer
<1>1. PICK r \in Request :
        \E f \in Accepted(r) : \E found \in FindFiltered(f, Page(r), Limit(r)) :
            a = Response(r, found)
  BY DEF Origin
<1> PICK f \in Accepted(r) : \E found \in FindFiltered(f, Page(r), Limit(r)) :
        a = Response(r, found)
  BY <1>1
<1>2. PICK found \in FindFiltered(f, Page(r), Limit(r)) : a = Response(r, found)
  OBVIOUS
<1>3. Page(r) \in Nat \ {0} /\ Limit(r) \in Nat \ {0}
  BY PageAndLimit
<1>4. found.rows \in Seq(Row) /\ found.total \in Nat
  BY <1>3, FoundTyped
<1>5. Link(r, Page(r) + 1) \in Request
  <2>1. Page(r) + 1 \in Nat \ {0}
    BY <1>3
  <2> QED
    BY <2>1, LinkTo DEF Repeats
<1>6. Page(r) - 1 \in Nat \ {0} => Link(r, Page(r) - 1) \in Request
  BY LinkTo DEF Repeats
<1>7. a.next \in Request \cup {None} /\ a.prev \in Request \cup {None}
  BY <1>2, <1>5, <1>6, ResponseParts
<1>8. a.rows \in Seq(Row) /\ a.total \in Nat
  BY <1>2, <1>4, ResponseParts
<1>9. a = [rows |-> a.rows, total |-> a.total, next |-> a.next, prev |-> a.prev]
  BY <1>2, ResponseParts
<1> QED
  BY <1>7, <1>8, <1>9 DEF Answer

LEMMA SentTyped ==
    ASSUME NEW a \in Answer
    PROVE  Sent(a) \in Answer /\ Sent(a).rows \in Seq(Row)
<1>1. [rows |-> <<>>, total |-> 0, next |-> None, prev |-> None] \in Answer
  BY DEF Answer
<1>2. Sent(a) \in Answer
  BY <1>1 DEF Sent
<1> QED
  BY <1>2 DEF Answer

(* The links of what was sent lead to requests of the same question.       *)
LEMMA SentLinks ==
    ASSUME NEW k, NEW a, Origin(k, a)
    PROVE  Sent(a).next # None => Asked(Sent(a).next)
<1>1. PICK r \in Request :
        Asked(r) /\ \E f \in Accepted(r) : \E found \in FindFiltered(f, Page(r), Limit(r)) :
            a = Response(r, found)
  BY DEF Origin
<1>2. PICK found : a = Response(r, found)
  BY <1>1
<1>3. a.next = Link(r, Page(r) + 1) \/ a.next = None
  BY <1>2, ResponseParts
<1>4. Page(r) + 1 \in Nat \ {0}
  BY PageAndLimit
<1>5. Asked(Link(r, Page(r) + 1))
  BY <1>1, <1>4, LinkAsked
<1> QED
  BY <1>3, <1>5 DEF Sent

LEMMA SameOrigin ==
    ASSUME UNCHANGED table, NEW k, NEW a
    PROVE  Origin(k, a)' <=> Origin(k, a)
<1>1. \A f, page, limit : FindFiltered(f, page, limit)' = FindFiltered(f, page, limit)
  BY SameTable
<1> QED
  BY <1>1 DEF Origin

-----------------------------------------------------------------------------
(* The steps                                                               *)

LEMMA InitInv == Init => Inv
<1> SUFFICES ASSUME Init PROVE Inv
  OBVIOUS
<1>1. tasks = {} /\ DOMAIN cache = {} /\ table \in Tables /\ reader = None
  BY DEF Init
<1>2. Bounded
  BY <1>1, FS_EmptySet, QueriesAssumption DEF Bounded
<1> QED
  BY <1>1, <1>2 DEF Inv

(* What a client receives.                                                 *)
LEMMA ReceivesKeeps ==
    ASSUME table \in Tables, UNCHANGED table,
           NEW first \in Request, NEW r, Asked(r), NEW f \in Accepted(r), NEW a,
           NEW walked \in Seq(Row),
           Origin(Key(r, f), a), Receives(first, r, f, a, walked)
    PROVE  (reader # None => Reading(reader))'
<1>1. a \in Answer /\ Sent(a) \in Answer /\ Sent(a).rows \in Seq(Row)
  BY OriginTyped, SentTyped
<1>2. r \in Request /\ f \in Filter
  BY AcceptedCanonical DEF Asked
<1>3. walked \o Sent(a).rows \in Seq(Row)
  BY <1>1, ConcatProperties
<1>4. Readable(a) \in BOOLEAN
  BY DEF Readable
<1>5. reader' \in Walk
  BY <1>1, <1>2, <1>3, <1>4 DEF Receives, Walk
<1>6. /\ reader'.asked = r /\ reader'.filter = f
      /\ reader'.answer = Sent(a) /\ reader'.whole = Readable(a)
  BY DEF Receives
<1>7. Origin(Key(r, f), a)'
  BY SameOrigin
<1> QED
  BY <1>5, <1>6, <1>7 DEF Reading

LEMMA MissOrigin ==
    ASSUME NEW r, Asked(r), NEW f \in Accepted(r),
           NEW found \in FindFiltered(f, Page(r), Limit(r))
    PROVE  Origin(Key(r, f), Response(r, found))
BY DEF Origin, Asked

LEMMA StoresKeeps ==
    ASSUME Inv, UNCHANGED <<table, cache>>, NEW r, NEW f, NEW a,
           Origin(Key(r, f), a), Stores(r, f, a)
    PROVE  Bounded' /\ (\A task \in tasks : Origin(task.key, task.answer))'
<1>1. \A k, b : Origin(k, b)' <=> Origin(k, b)
  BY SameOrigin
<1>2. CASE UNCHANGED tasks
  BY <1>1, <1>2 DEF Inv, Bounded
<1>3. CASE /\ Cardinality(tasks) < MaxTasks
           /\ tasks' = tasks \cup {[key |-> Key(r, f), answer |-> a]}
  <2>1. /\ IsFiniteSet(tasks')
        /\ Cardinality(tasks') = Cardinality(tasks)
            \/ Cardinality(tasks') = Cardinality(tasks) + 1
    BY <1>3, FS_AddElement DEF Inv, Bounded
  <2>2. Cardinality(tasks) \in Nat
    BY FS_CardinalityType DEF Inv, Bounded
  <2>3. Bounded'
    BY <1>3, <2>1, <2>2, QueriesAssumption DEF Inv, Bounded
  <2> QED
    BY <1>1, <1>3, <2>3 DEF Inv
<1> QED
  BY <1>2, <1>3 DEF Stores

LEMMA CacheKeeps ==
    ASSUME Inv, UNCHANGED <<table, cache>>
    PROVE  /\ (table \in Tables)'
           /\ (\A k \in DOMAIN cache : Origin(k, cache[k]) /\ Readable(cache[k]))'
<1>1. \A k, b : Origin(k, b)' <=> Origin(k, b)
  BY SameOrigin
<1> QED
  BY <1>1 DEF Inv, Readable

LEMMA ReaderKeeps ==
    ASSUME Inv, UNCHANGED <<table, reader>>
    PROVE  (reader # None => Reading(reader))'
<1>1. \A k, b : Origin(k, b)' <=> Origin(k, b)
  BY SameOrigin
<1> QED
  BY <1>1 DEF Inv, Reading

(* One request of a client, at the beginning or on a link.                 *)
LEMMA RequestKeeps ==
    ASSUME Inv, UNCHANGED <<table, cache>>,
           NEW first \in Request, NEW r, Asked(r), NEW f \in Accepted(r),
           NEW walked \in Seq(Row), Hit(first, r, f, walked) \/ Miss(first, r, f, walked)
    PROVE  Inv'
<1>1. CASE Hit(first, r, f, walked)
  <2>1. Origin(Key(r, f), cache[Key(r, f)])
    BY <1>1 DEF Hit, Inv
  <2>2. (reader # None => Reading(reader))'
    BY <1>1, <2>1, ReceivesKeeps DEF Hit, Inv
  <2>3. \A k, b : Origin(k, b)' <=> Origin(k, b)
    BY SameOrigin
  <2> QED
    BY <1>1, <2>2, <2>3, CacheKeeps DEF Hit, Inv, Bounded
<1>2. CASE Miss(first, r, f, walked)
  <2>1. PICK found \in FindFiltered(f, Page(r), Limit(r)) :
          /\ Stores(r, f, Response(r, found))
          /\ Receives(first, r, f, Response(r, found), walked)
    BY <1>2 DEF Miss
  <2>2. Origin(Key(r, f), Response(r, found))
    BY MissOrigin
  <2>3. (reader # None => Reading(reader))'
    BY <2>1, <2>2, ReceivesKeeps DEF Inv
  <2>4. Bounded' /\ (\A task \in tasks : Origin(task.key, task.answer))'
    BY <2>1, <2>2, StoresKeeps
  <2> QED
    BY <2>3, <2>4, CacheKeeps DEF Inv
<1> QED
  BY <1>1, <1>2

LEMMA BeginInv ==
    ASSUME Inv, NEW r \in Requests, Begin(r)
    PROVE  Inv'
<1>1. Asked(r) /\ r \in Request
  BY RequestsAsked DEF Asked
<1>2. <<>> \in Seq(Row)
  OBVIOUS
<1> QED
  BY <1>1, <1>2, RequestKeeps DEF Begin

LEMMA FollowInv ==
    ASSUME Inv, reader # None, Follow(reader.answer.next)
    PROVE  Inv'
<1>1. Asked(reader.answer.next)
  BY SentLinks DEF Inv, Reading, Follow
<1>2. reader.first \in Request /\ reader.walked \in Seq(Row)
  BY DEF Inv, Reading, Walk
<1> QED
  BY <1>1, <1>2, RequestKeeps DEF Follow

LEMMA OthersInv ==
    ASSUME Inv, NEW r \in Requests, Others(r)
    PROVE  Inv'
<1> PICK f \in Accepted(r) : \E found \in FindFiltered(f, Page(r), Limit(r)) :
        Stores(r, f, Response(r, found))
  BY DEF Others
<1>1. PICK found \in FindFiltered(f, Page(r), Limit(r)) : Stores(r, f, Response(r, found))
  OBVIOUS
<1>2. Asked(r)
  BY RequestsAsked
<1>3. Origin(Key(r, f), Response(r, found))
  BY <1>2, MissOrigin
<1> QED
  BY <1>1, <1>3, StoresKeeps, CacheKeeps, ReaderKeeps DEF Others, Inv

LEMMA RunSetInv ==
    ASSUME Inv, NEW task \in tasks, RunSet(task)
    PROVE  Inv'
<1>1. \A k, b : Origin(k, b)' <=> Origin(k, b)
  BY SameOrigin DEF RunSet
<1>2. DOMAIN cache' = DOMAIN cache \cup {task.key}
  BY DEF RunSet
<1>3. \A k \in DOMAIN cache' : cache'[k] = IF k = task.key THEN task.answer ELSE cache[k]
  BY DEF RunSet
<1>4. \A k \in DOMAIN cache' : Origin(k, cache'[k]) /\ Readable(cache'[k])
  BY <1>2, <1>3 DEF RunSet, Inv
<1>5. (\A k \in DOMAIN cache : Origin(k, cache[k]) /\ Readable(cache[k]))'
  BY <1>1, <1>4 DEF Readable
<1>6. IsFiniteSet(tasks') /\ Cardinality(tasks') <= MaxTasks
  <2>1. IsFiniteSet(tasks') /\ Cardinality(tasks') <= Cardinality(tasks)
    BY FS_Subset DEF RunSet, Inv, Bounded
  <2> QED
    BY <2>1, FS_CardinalityType, QueriesAssumption DEF Inv, Bounded
<1>7. IsFiniteSet(DOMAIN cache')
  BY <1>2, FS_AddElement DEF Inv, Bounded
<1>8. Bounded'
  BY <1>2, <1>6, <1>7 DEF Bounded, RunSet
<1>9. (\A t \in tasks : Origin(t.key, t.answer))'
  BY <1>1 DEF RunSet, Inv
<1> QED
  BY <1>5, <1>8, <1>9, ReaderKeeps DEF RunSet, Inv

LEMMA SetFailsInv ==
    ASSUME Inv, NEW task \in tasks, SetFails(task)
    PROVE  Inv'
<1>1. \A k, b : Origin(k, b)' <=> Origin(k, b)
  BY SameOrigin DEF SetFails
<1>2. IsFiniteSet(tasks') /\ Cardinality(tasks') <= Cardinality(tasks)
  BY FS_Subset DEF SetFails, Inv, Bounded
<1>3. Bounded'
  BY <1>2, FS_CardinalityType, QueriesAssumption DEF Inv, Bounded, SetFails
<1>4. (\A t \in tasks : Origin(t.key, t.answer))'
  BY <1>1 DEF SetFails, Inv
<1> QED
  BY <1>3, <1>4, ReaderKeeps, CacheKeeps DEF SetFails, Inv

LEMMA ExpireInv ==
    ASSUME Inv, NEW k \in DOMAIN cache, Expire(k)
    PROVE  Inv'
<1>1. \A key, b : Origin(key, b)' <=> Origin(key, b)
  BY SameOrigin DEF Expire
<1>2. /\ DOMAIN cache' = DOMAIN cache \ {k}
      /\ \A key \in DOMAIN cache' : cache'[key] = cache[key]
  BY DEF Expire
<1>3. (\A key \in DOMAIN cache : Origin(key, cache[key]) /\ Readable(cache[key]))'
  BY <1>1, <1>2 DEF Inv, Readable
<1>4. IsFiniteSet(DOMAIN cache') /\ Cardinality(DOMAIN cache') <= Cardinality(DOMAIN cache)
  BY <1>2, FS_Subset DEF Inv, Bounded
<1>5. Bounded'
  BY <1>4, FS_CardinalityType, QueriesAssumption DEF Inv, Bounded, Expire
<1>6. (\A t \in tasks : Origin(t.key, t.answer))'
  BY <1>1 DEF Expire, Inv
<1> QED
  BY <1>3, <1>5, <1>6, ReaderKeeps DEF Expire, Inv

LEMMA StutterInv ==
    ASSUME Inv, UNCHANGED vars
    PROVE  Inv'
<1>1. \A key, b : Origin(key, b)' <=> Origin(key, b)
  BY SameOrigin DEF vars
<1>2. (\A t \in tasks : Origin(t.key, t.answer))'
  BY <1>1 DEF vars, Inv
<1>3. Bounded'
  BY DEF vars, Inv, Bounded
<1> QED
  BY <1>2, <1>3, ReaderKeeps, CacheKeeps DEF vars, Inv

LEMMA InvStep == Inv /\ [Next]_vars => Inv'
<1> SUFFICES ASSUME Inv, [Next]_vars PROVE Inv'
  OBVIOUS
<1>1. CASE \E r \in Requests : Begin(r) \/ Others(r)
  BY <1>1, BeginInv, OthersInv
<1>2. CASE reader # None /\ Follow(reader.answer.next)
  BY <1>2, FollowInv
<1>3. CASE \E task \in tasks : RunSet(task) \/ SetFails(task)
  BY <1>3, RunSetInv, SetFailsInv
<1>4. CASE \E k \in DOMAIN cache : Expire(k)
  BY <1>4, ExpireInv
<1>5. CASE UNCHANGED vars
  BY <1>5, StutterInv
<1> QED
  BY <1>1, <1>2, <1>3, <1>4, <1>5 DEF Next

LEMMA Invariance == Spec => []Inv
<1> QED
  BY InitInv, InvStep, PTL DEF Spec

-----------------------------------------------------------------------------
(* The theorems                                                            *)

LEMMA InvTyped == Inv => TypeOK
<1> SUFFICES ASSUME Inv PROVE TypeOK
  OBVIOUS
<1>1. table \in Tables
  BY DEF Inv
<1>2. \A k, a : Origin(k, a) => a \in Answer
  BY <1>1, OriginTyped
<1> QED
  BY <1>1, <1>2 DEF Inv, Bounded, Reading, TypeOK

(* Type correctness of the queries: what is stored, cached and read is an  *)
(* answer, and only what JSON can express is cached.                       *)
THEOREM TypeCorrect == Spec => []TypeOK
<1> QED
  BY Invariance, InvTyped, PTL

(* Two requests that share a key ask almost the same, for the same page.   *)
LEMMA SharedKey ==
    ASSUME NEW r \in Request, NEW r2 \in Request,
           NEW f \in Accepted(r), NEW f2 \in Accepted(r2), Key(r, f) = Key(r2, f2)
    PROVE  Page(r) = Page(r2) /\ Limit(r) = Limit(r2) /\ AlmostSame(f, f2)
<1>1. f \in Filter /\ NormalizeFilters(f) = f
  BY AcceptedCanonical
<1>2. f2 \in Filter /\ NormalizeFilters(f2) = f2
  BY AcceptedCanonical
<1> DEFINE p == Page(r)
           l == Limit(r)
           p2 == Page(r2)
           l2 == Limit(r2)
<1>3. NormalizedCacheKey(f, p, l) = NormalizedCacheKey(f2, p2, l2)
  BY DEF Key
<1>4. p = p2 /\ l = l2 /\ AlmostSame(f, f2)
  <2> HIDE DEF p, l, p2, l2
  <2> QED
    BY <1>1, <1>2, <1>3, KeysTellApart
<1> QED
  BY <1>4

LEMMA InvNear == Inv => AnswersNearTheQuestion
<1> SUFFICES ASSUME Inv, reader # None, reader.whole
             PROVE  \E g \in Questions :
                      /\ AlmostSame(g, reader.filter)
                      /\ [rows |-> reader.answer.rows, total |-> reader.answer.total]
                            \in FindFiltered(g, Page(reader.asked), Limit(reader.asked))
  BY DEF AnswersNearTheQuestion
<1>1. Reading(reader) /\ table \in Tables
  BY DEF Inv
<1>2. PICK a : /\ Origin(Key(reader.asked, reader.filter), a)
               /\ reader.answer = Sent(a) /\ reader.whole = Readable(a)
  BY <1>1 DEF Reading
<1>3. PICK r \in Request :
        /\ Asked(r)
        /\ \E f \in Accepted(r) : \E found \in FindFiltered(f, Page(r), Limit(r)) :
              Key(reader.asked, reader.filter) = Key(r, f) /\ a = Response(r, found)
  BY <1>2 DEF Origin
<1> PICK g \in Accepted(r) : \E found \in FindFiltered(g, Page(r), Limit(r)) :
        Key(reader.asked, reader.filter) = Key(r, g) /\ a = Response(r, found)
  BY <1>3
<1>4. PICK found \in FindFiltered(g, Page(r), Limit(r)) :
        Key(reader.asked, reader.filter) = Key(r, g) /\ a = Response(r, found)
  OBVIOUS
<1>5. reader.answer.rows = found.rows /\ reader.answer.total = found.total
  BY <1>2, <1>4, ResponseParts DEF Sent
<1>6. reader.asked \in Request /\ reader.filter \in Accepted(reader.asked)
  BY <1>1 DEF Reading, Asked
<1>7. /\ Page(r) = Page(reader.asked) /\ Limit(r) = Limit(reader.asked)
      /\ AlmostSame(g, reader.filter)
  BY <1>4, <1>6, SharedKey
<1>8. found = [rows |-> found.rows, total |-> found.total]
  BY <1>1, PageAndLimit, FoundTyped
<1>9. g \in Questions
  <2>1. PICK r0 \in Requests : Repeats(r, r0)
    BY <1>3 DEF Asked
  <2>2. Accepted(r) = Accepted(r0)
    BY <2>1, SameQuestion
  <2> QED
    BY <1>4, <2>1, <2>2 DEF Questions
<1> QED
  BY <1>4, <1>5, <1>7, <1>8, <1>9

(* normalizer.go, profile_handler.go: whatever is in the cache, the rows   *)
(* and the total that a client gets are what the database has for its page *)
(* of a question that its key does not tell from its own.                  *)
THEOREM CacheNeverMixesUp == Spec => []AnswersNearTheQuestion
<1> QED
  BY Invariance, InvNear, PTL

LEMMA InvLinks == Inv => LinksContinue
<1> SUFFICES ASSUME Inv, reader # None
             PROVE  /\ LeadsTo(reader.answer.next, Page(reader.asked) + 1)
                    /\ LeadsTo(reader.answer.prev, Page(reader.asked) - 1)
  BY DEF LinksContinue
<1>1. Reading(reader)
  BY DEF Inv
<1>2. PICK a : /\ Origin(Key(reader.asked, reader.filter), a)
               /\ reader.answer = Sent(a)
  BY <1>1 DEF Reading
<1>3. PICK r \in Request :
        /\ Asked(r)
        /\ \E f \in Accepted(r) : \E found \in FindFiltered(f, Page(r), Limit(r)) :
              Key(reader.asked, reader.filter) = Key(r, f) /\ a = Response(r, found)
  BY <1>2 DEF Origin
<1>4. PICK g \in Accepted(r) : \E found :
        Key(reader.asked, reader.filter) = Key(r, g) /\ a = Response(r, found)
  BY <1>3
<1>5. PICK found : Key(reader.asked, reader.filter) = Key(r, g) /\ a = Response(r, found)
  BY <1>4
<1>6. reader.asked \in Request /\ reader.filter \in Accepted(reader.asked)
  BY <1>1 DEF Reading, Asked
<1>7. /\ Page(r) = Page(reader.asked) /\ Limit(r) = Limit(reader.asked)
      /\ AlmostSame(g, reader.filter)
  BY <1>4, <1>5, <1>6, SharedKey
<1>8. \A page \in Nat \ {0} :
        /\ Page(Link(r, page)) = page /\ Limit(Link(r, page)) = Limit(reader.asked)
        /\ \E h \in Accepted(Link(r, page)) : AlmostSame(h, reader.filter)
  BY <1>3, <1>4, <1>7, LinkTo, LinkAsked
<1>9. Page(r) + 1 \in Nat \ {0}
  BY PageAndLimit
<1>10. /\ reader.answer.next = Link(r, Page(r) + 1) \/ reader.answer.next = None
       /\ \/ reader.answer.prev = Link(r, Page(r) - 1) /\ Page(r) - 1 \in Nat \ {0}
          \/ reader.answer.prev = None
  BY <1>2, <1>5, ResponseParts DEF Sent
<1> QED
  BY <1>7, <1>8, <1>9, <1>10 DEF LeadsTo

(* pagination.go: the links of an answer, cached or not, lead to the page  *)
(* after and before it, with the same limit, of the same list.             *)
THEOREM LinksStayOnTheList == Spec => []LinksContinue
<1> QED
  BY Invariance, InvLinks, PTL

-----------------------------------------------------------------------------
(* The walk from page to page                                              *)

(* Only lists are cached.                                                  *)
ListOrigin(k, a) ==
    \E r \in Request :
        /\ Asked(r) /\ r.path = "list"
        /\ \E f \in Accepted(r) : \E found \in FindFiltered(f, Page(r), Limit(r)) :
              k = Key(r, f) /\ a = Response(r, found)

Lists == /\ \A task \in tasks : ListOrigin(task.key, task.answer)
         /\ \A k \in DOMAIN cache : ListOrigin(k, cache[k])

(* A client that reads a list from its first page.                         *)
Walker(w) == w.first.path = "list" /\ Page(w.first) = 1 /\ Exportable(w.first.ask)

(* Page by page, it has read the beginning of the one ordering of its list. *)
Along(w) ==
    LET g == NormalizeFilters(w.first.ask)
        read == Page(w.asked) * Limit(w.first)
        next == w.answer.next
    IN  /\ w.asked.path = "list" /\ w.filter = g /\ Limit(w.asked) = Limit(w.first)
        /\ Validate(w.first.ask)
        /\ next # None =>
            /\ w.whole
            /\ next.path = "list" /\ Page(next) = Page(w.asked) + 1
            /\ Limit(next) = Limit(w.first) /\ Accepted(next) = {g}
        /\ w.whole => \E s \in Orderings(g) :
                        /\ w.walked = SubSeq(s, 1, Least(read, Len(s)))
                        /\ next # None <=> read < Len(s)

Walking == reader # None /\ Walker(reader) => Along(reader)

(* There is a next page as long as pages were not enough for the rows.     *)
LEMMA MorePages ==
    ASSUME NEW n \in Nat, NEW limit \in Nat \ {0}, NEW page \in Nat \ {0}
    PROVE  page < Pages(n, limit) <=> page * limit < n
<1>1. PICK q \in Int : q = Pages(n, limit)
  BY DEF Pages
<1>2. q * limit <= n + limit - 1 /\ n + limit - 1 < q * limit + limit
  BY <1>1 DEF Pages
<1>3. page < q => page * limit + limit <= q * limit
  <2>1. SUFFICES ASSUME page < q PROVE page * limit + limit <= q * limit
    OBVIOUS
  <2>2. PICK d \in Nat : q = page + 1 + d
    <3>1. q - page - 1 \in Nat /\ q = page + 1 + (q - page - 1)
      BY <2>1
    <3> QED
      BY <3>1
  <2>3. q * limit = page * limit + limit + d * limit /\ d * limit \in Nat
    BY <2>2
  <2> QED
    BY <2>3
<1>4. ~(page < q) => q * limit <= page * limit
  <2>1. SUFFICES ASSUME ~(page < q) PROVE q * limit <= page * limit
    OBVIOUS
  <2>2. PICK d \in Nat : page = q + d
    <3>1. page - q \in Nat /\ page = q + (page - q)
      BY <2>1
    <3> QED
      BY <3>1
  <2>3. page * limit = q * limit + d * limit /\ d * limit \in Nat /\ q * limit \in Int
    BY <2>2
  <2> QED
    BY <2>3
<1>5. page * limit \in Int /\ q * limit \in Int
  OBVIOUS
<1> QED
  BY <1>1, <1>2, <1>3, <1>4, <1>5

LEMMA OrderingTyped ==
    ASSUME table \in Tables, NEW f, NEW s \in Orderings(f)
    PROVE  s \in Seq(Matches(f)) /\ Len(s) \in Nat
<1>1. IsFiniteSet(Matches(f))
  BY QueriesAssumption, FS_Subset DEF Matches
<1>2. Cardinality(Matches(f)) \in Nat
  BY <1>1, FS_CardinalityType
<1>3. s \in [1..Cardinality(Matches(f)) -> Matches(f)]
  BY DEF Orderings
<1> QED
  BY <1>2, <1>3

(* The rows up to a row, in an ordering that leaves no ties.               *)
UpTo(f, x) == {y \in Matches(f) : Precedes(f, y, x)}

LEMMA NoTies ==
    ASSUME table \in Tables, NEW f, f.sort = "name",
           NEW a \in Matches(f), NEW b \in Matches(f)
    PROVE  /\ Precedes(f, a, a)
           /\ Precedes(f, a, b) /\ Precedes(f, b, a) => a = b
<1>1. a \in table /\ b \in table /\ a \in Row /\ b \in Row
  BY QueriesAssumption DEF Matches
<1>2. a.name \in Nat /\ b.name \in Nat
  BY <1>1 DEF Row
<1>3. Column(a, f.sort) = a.name /\ Column(b, f.sort) = b.name
  BY DEF Column
<1>4. a.name = b.name => a = b
  BY <1>1, QueriesAssumption
<1> QED
  BY <1>2, <1>3, <1>4 DEF Precedes

LEMMA Ranked ==
    ASSUME table \in Tables, NEW f, f.sort = "name", NEW s \in Orderings(f)
    PROVE  /\ \A x \in Matches(f) : \E i \in DOMAIN s : s[i] = x
           /\ \A i \in DOMAIN s : Cardinality(UpTo(f, s[i])) = i
<1>1. PICK n : n = Cardinality(Matches(f))
  OBVIOUS
<1>2. IsFiniteSet(Matches(f)) /\ n \in Nat
  <2>1. IsFiniteSet(table) /\ Matches(f) \subseteq table
    BY QueriesAssumption DEF Matches
  <2> QED
    BY <1>1, <2>1, FS_Subset, FS_CardinalityType
<1>3. s \in [1..n -> Matches(f)] /\ DOMAIN s = 1..n
  BY <1>1 DEF Orderings
<1>4. \A i, j \in 1..n : i < j => s[i] # s[j] /\ Precedes(f, s[i], s[j])
  BY <1>3 DEF Orderings
<1>5. \A i, j \in 1..n : s[i] = s[j] => i = j
  <2>1. \A i, j \in 1..n : i < j \/ j < i \/ i = j
    BY <1>2
  <2> QED
    BY <1>4, <2>1
<1>6. s \in Injection(1..n, Matches(f))
  BY <1>3, <1>5 DEF Injection, IsInjective
<1>7. Cardinality(1..n) = n /\ IsFiniteSet(1..n)
  BY <1>2, FS_Interval
<1>8. s \in Surjection(1..n, Matches(f))
  BY <1>1, <1>2, <1>6, <1>7, FS_Injection
<1>9. \A x \in Matches(f) : \E i \in 1..n : s[i] = x
  BY <1>8 DEF Surjection
<1>10. ASSUME NEW i \in 1..n
       PROVE  Cardinality(UpTo(f, s[i])) = i
  <2>1. ASSUME NEW j \in 1..n
        PROVE  Precedes(f, s[j], s[i]) <=> j <= i
    <3>1. s[i] \in Matches(f) /\ s[j] \in Matches(f)
      BY <1>3
    <3>2. CASE j < i
      BY <1>4, <3>2
    <3>3. CASE j = i
      BY <3>1, <3>3, NoTies
    <3>4. CASE i < j
      BY <1>4, <3>1, <3>4, NoTies
    <3> QED
      BY <1>2, <3>2, <3>3, <3>4
  <2>2. PICK r : r = [j \in 1..i |-> s[j]]
    OBVIOUS
  <2>3. \A j \in 1..i : j \in 1..n /\ j <= i /\ r[j] = s[j]
    BY <1>2, <2>2
  <2>4. \A j \in 1..i : r[j] \in UpTo(f, s[i])
    BY <1>3, <2>1, <2>3 DEF UpTo
  <2>5. \A x \in UpTo(f, s[i]) : \E j \in 1..i : r[j] = x
    <3>1. SUFFICES ASSUME NEW x \in UpTo(f, s[i])
                   PROVE  \E j \in 1..i : r[j] = x
      OBVIOUS
    <3>2. PICK j \in 1..n : s[j] = x
      BY <1>9 DEF UpTo
    <3>3. j <= i
      BY <2>1, <3>2 DEF UpTo
    <3>4. j \in 1..i
      BY <1>2, <3>3
    <3> QED
      BY <2>3, <3>2, <3>4
  <2>6. r \in [1..i -> UpTo(f, s[i])]
    BY <2>2, <2>3, <2>4
  <2>7. r \in Bijection(1..i, UpTo(f, s[i]))
    BY <1>5, <2>3, <2>5, <2>6 DEF Bijection, Injection, Surjection, IsInjective
  <2>8. ExistsBijection(1..i, UpTo(f, s[i])) /\ i \in Nat
    BY <1>2, <2>7 DEF ExistsBijection
  <2> QED
    BY <2>8, FS_CountingElements
<1> QED
  BY <1>3, <1>9, <1>10

(* An ordering by name is the only one.                                    *)
LEMMA OneOrdering ==
    ASSUME table \in Tables, NEW f, f.sort = "name",
           NEW s \in Orderings(f), NEW t \in Orderings(f)
    PROVE  s = t
<1>1. PICK n : n = Cardinality(Matches(f))
  OBVIOUS
<1>2. s \in [1..n -> Matches(f)] /\ t \in [1..n -> Matches(f)]
  BY <1>1 DEF Orderings
<1>3. ASSUME NEW i \in 1..n
      PROVE  s[i] = t[i]
  <2>1. s[i] \in Matches(f)
    BY <1>2
  <2>2. PICK j \in 1..n : t[j] = s[i]
    BY <1>2, <2>1, Ranked
  <2>3. Cardinality(UpTo(f, s[i])) = i /\ Cardinality(UpTo(f, t[j])) = j
    BY <1>2, Ranked
  <2> QED
    BY <2>2, <2>3
<1>4. s = [i \in 1..n |-> s[i]] /\ t = [i \in 1..n |-> t[i]]
  BY <1>2
<1> QED
  BY <1>3, <1>4

(* The export of a list that is Exportable.                                *)
LEMMA SameSelection ==
    ASSUME NEW f \in Filter, Validate(f), Exportable(f),
           NEW row \in Row, f.group # Empty => row.group = ageGroup(row.age)
    PROVE  Where(NormalizeFilters(f), row) <=> Where(f, row)
<1> DEFINE n == NormalizeFilters(f)
<1>1. f.gender \in Genders \cup {Empty} /\ f.group \in AgeGroups \cup {Empty}
  BY DEF Validate, Exportable
<1>2. CASE f.group # Empty
  BY <1>1, <1>2, CanonicalFormSelectsTheSame
<1>3. CASE f.group = Empty
  <2>1. normalizeGender(f.gender) = f.gender /\ normalizeAgeGroup(f.group) = Empty
    BY <1>1, <1>3 DEF normalizeGender, normalizeAgeGroup, Genders, AgeGroups, MaleWords,
         FemaleWords, ChildWords, TeenagerWords, AdultWords, SeniorWords, Empty
  <2>2. /\ n.gender = f.gender /\ n.group = f.group /\ n.country = f.country
        /\ n.gp = f.gp /\ n.cp = f.cp /\ n.minAge = f.minAge /\ n.maxAge = f.maxAge
    BY <1>3, <2>1, NormalFields
  <2> HIDE DEF n
  <2>3. Where(n, row) <=> Where(f, row)
    BY <2>2 DEF Where
  <2> QED
    BY <2>3 DEF n
<1> QED
  BY <1>2, <1>3

LEMMA SameOrderings ==
    ASSUME NEW f, NEW g, Matches(f) = Matches(g), f.sort = g.sort, f.order = g.order
    PROVE  Orderings(f) = Orderings(g)
<1>1. \A a, b : Precedes(f, a, b) <=> Precedes(g, a, b)
  BY DEF Precedes
<1> QED
  BY <1>1 DEF Orderings

LEMMA ExportedList ==
    ASSUME table \in Tables, NEW f \in Filter, Validate(f), Exportable(f),
           f.group # Empty => \A row \in table : row.group = ageGroup(row.age)
    PROVE  Orderings(NormalizeFilters(f)) = Exported(f)
<1>1. PICK n : n = NormalizeFilters(f)
  OBVIOUS
<1>2. PICK e : e = [f EXCEPT !.sort = sortColumn(@),
                             !.order = IF @ = "asc" THEN "asc" ELSE "desc",
                             !.cp = None]
  OBVIOUS
<1>3. /\ e.gender = f.gender /\ e.group = f.group /\ e.country = f.country
      /\ e.minAge = f.minAge /\ e.maxAge = f.maxAge /\ e.gp = f.gp /\ e.cp = None
      /\ e.sort = sortColumn(f.sort) /\ e.order = IF f.order = "asc" THEN "asc" ELSE "desc"
  BY <1>2 DEF Filter
<1>4. n.sort = sortColumn(f.sort) /\ n.order = e.order
  BY <1>1, <1>3, NormalFields DEF Exportable
<1>5. ASSUME NEW row \in table
      PROVE  Where(n, row) <=> Where(e, row)
  <2>1. row \in Row
    BY QueriesAssumption
  <2>2. Where(n, row) <=> Where(f, row)
    BY <1>1, <2>1, SameSelection
  <2>3. Where(f, row) <=> Where(e, row)
    BY <1>3 DEF Where, Exportable
  <2> QED
    BY <2>2, <2>3
<1>6. Matches(n) = Matches(e)
  BY <1>5 DEF Matches
<1>7. Orderings(n) = Orderings(e)
  BY <1>3, <1>4, <1>6, SameOrderings
<1> QED
  BY <1>1, <1>2, <1>7 DEF Exported

(* A list is one question; its links repeat it.                            *)
LEMMA OneQuestion ==
    ASSUME NEW r, r.path = "list", NEW f \in Accepted(r)
    PROVE  Accepted(r) = {f} /\ f = NormalizeFilters(r.ask) /\ Validate(r.ask)
BY DEF Accepted

(* A page of the list that a client walks, wherever it comes from.         *)
LEMMA PageOfList ==
    ASSUME table \in Tables, NEW ask, Exportable(ask),
           NEW r, Asked(r), r.path = "list", NEW f \in Accepted(r), f = NormalizeFilters(ask),
           NEW a, ListOrigin(Key(r, f), a)
    PROVE  /\ \E s \in Orderings(f) :
                /\ a.rows = SubSeq(s, (Page(r) - 1) * Limit(r) + 1, Least(Page(r) * Limit(r), Len(s)))
                /\ a.next # None <=> Page(r) * Limit(r) < Len(s)
           /\ a.next # None =>
                /\ a.next.path = "list" /\ Page(a.next) = Page(r) + 1
                /\ Limit(a.next) = Limit(r) /\ Accepted(a.next) = {f}
<1>1. PICK q \in Request :
        /\ Asked(q) /\ q.path = "list"
        /\ \E g \in Accepted(q) : \E found \in FindFiltered(g, Page(q), Limit(q)) :
              Key(r, f) = Key(q, g) /\ a = Response(q, found)
  BY DEF ListOrigin
<1> PICK g \in Accepted(q) : \E found \in FindFiltered(g, Page(q), Limit(q)) :
        Key(r, f) = Key(q, g) /\ a = Response(q, found)
  BY <1>1
<1>2. PICK found \in FindFiltered(g, Page(q), Limit(q)) :
        Key(r, f) = Key(q, g) /\ a = Response(q, found)
  OBVIOUS
<1>3. r \in Request
  BY DEF Asked
<1>4. Page(q) = Page(r) /\ Limit(q) = Limit(r) /\ AlmostSame(g, f)
  BY <1>2, <1>3, SharedKey
<1>5. g = f
  <2>1. PICK r0 \in Requests : Repeats(q, r0)
    BY <1>1 DEF Asked
  <2>2. Accepted(q) = Accepted(r0)
    BY <2>1, SameQuestion
  <2>3. g \in Questions
    BY <2>1, <2>2 DEF Questions
  <2> QED
    BY <1>4, <2>3 DEF Exportable
<1>6. PICK p, l : p = Page(r) /\ l = Limit(r)
  OBVIOUS
<1>7. p \in Nat \ {0} /\ l \in Nat \ {0}
  BY <1>3, <1>6, PageAndLimit
<1>8. PICK s \in Orderings(f) :
        found = [rows |-> SubSeq(s, (p - 1) * l + 1, Least(p * l, Len(s))),
                 total |-> IF (p - 1) * l < Len(s) THEN Len(s) ELSE 0]
  BY <1>2, <1>4, <1>5, <1>6 DEF FindFiltered
<1>9. /\ a.rows = SubSeq(s, (p - 1) * l + 1, Least(p * l, Len(s)))
      /\ a.next = IF p < Pages(found.total, l) THEN Link(q, p + 1) ELSE None
  BY <1>2, <1>4, <1>6, <1>8 DEF Response
<1>10. Len(s) \in Nat
  BY OrderingTyped
<1>11. p < Pages(found.total, l) <=> p * l < Len(s)
  <2>1. found.total = IF (p - 1) * l < Len(s) THEN Len(s) ELSE 0
    BY <1>8
  <2>2. p < Pages(found.total, l) <=> p * l < found.total
    BY <1>7, <1>10, <2>1, MorePages
  <2>3. (p - 1) * l <= p * l /\ p * l \in Nat /\ (p - 1) * l \in Nat
    BY <1>7
  <2> QED
    BY <1>10, <2>1, <2>2, <2>3
<1>12. PICK link : link = Link(q, p + 1)
  OBVIOUS
<1>13. link \in Request /\ link.path = "list" /\ Page(link) = p + 1 /\ Limit(link) = l
  <2>1. p + 1 \in Nat \ {0}
    BY <1>7
  <2> QED
    BY <1>1, <1>4, <1>6, <1>12, <2>1, LinkTo DEF Repeats
<1>14. Accepted(link) = {f}
  <2>1. p + 1 \in Nat \ {0}
    BY <1>7
  <2>2. Accepted(link) = Accepted(q)
    BY <1>1, <1>12, <2>1, LinkAsked
  <2> QED
    BY <1>1, <1>5, <2>2, OneQuestion
<1>15. link # None
  BY <1>13, QueriesAssumption
<1> QED
  BY <1>6, <1>9, <1>11, <1>12, <1>13, <1>14, <1>15

LEMMA SameLists ==
    ASSUME UNCHANGED table
    PROVE  /\ \A k, a : ListOrigin(k, a)' <=> ListOrigin(k, a)
           /\ \A f : Orderings(f)' = Orderings(f)
<1>1. \A f, page, limit : FindFiltered(f, page, limit)' = FindFiltered(f, page, limit)
  BY SameTable
<1>2. \A f : Matches(f)' = Matches(f)
  BY DEF Matches
<1> QED
  BY <1>1, <1>2 DEF ListOrigin, Orderings

LEMMA ListMissed ==
    ASSUME NEW r, Asked(r), r.path = "list", NEW f \in Accepted(r),
           NEW found \in FindFiltered(f, Page(r), Limit(r))
    PROVE  ListOrigin(Key(r, f), Response(r, found))
BY DEF ListOrigin, Asked

LEMMA ListStored ==
    ASSUME Lists, UNCHANGED <<table, cache>>,
           NEW r, Asked(r), NEW f \in Accepted(r), NEW found \in FindFiltered(f, Page(r), Limit(r)),
           Stores(r, f, Response(r, found))
    PROVE  Lists'
<1>1. \A k, b : ListOrigin(k, b)' <=> ListOrigin(k, b)
  BY SameLists
<1>2. CASE r.path = "list"
  <2>1. PICK task : task = [key |-> Key(r, f), answer |-> Response(r, found)]
    OBVIOUS
  <2>2. ListOrigin(task.key, task.answer)
    BY <1>2, <2>1, ListMissed
  <2>3. tasks' = tasks \cup {task}
    BY <1>2, <2>1 DEF Stores
  <2> QED
    BY <1>1, <2>2, <2>3 DEF Lists
<1>3. CASE r.path # "list"
  BY <1>1, <1>3 DEF Stores, Lists
<1> QED
  BY <1>2, <1>3

LEMMA ListsKept ==
    ASSUME Lists, UNCHANGED table, tasks' \subseteq tasks,
           \A k \in DOMAIN cache' :
                \/ k \in DOMAIN cache /\ cache'[k] = cache[k]
                \/ \E task \in tasks : k = task.key /\ cache'[k] = task.answer
    PROVE  Lists'
BY SameLists DEF Lists

(* A client of a list is answered from the cache or the database.          *)
LEMMA RequestLists ==
    ASSUME Lists, UNCHANGED <<table, cache>>, NEW first, NEW r, Asked(r), NEW f \in Accepted(r),
           NEW walked, Hit(first, r, f, walked) \/ Miss(first, r, f, walked)
    PROVE  /\ Lists'
           /\ \E a : /\ Receives(first, r, f, a, walked)
                     /\ r.path = "list" => ListOrigin(Key(r, f), a)
<1>1. CASE Hit(first, r, f, walked)
  <2>1. Lists'
    BY <1>1, ListsKept DEF Hit
  <2>2. ListOrigin(Key(r, f), cache[Key(r, f)])
    BY <1>1 DEF Hit, Lists
  <2> QED
    BY <1>1, <2>1, <2>2 DEF Hit
<1>2. CASE Miss(first, r, f, walked)
  <2>1. PICK found \in FindFiltered(f, Page(r), Limit(r)) :
          /\ Stores(r, f, Response(r, found))
          /\ Receives(first, r, f, Response(r, found), walked)
    BY <1>2 DEF Miss
  <2>2. Lists'
    BY <2>1, ListStored
  <2>3. r.path = "list" => ListOrigin(Key(r, f), Response(r, found))
    BY ListMissed
  <2> QED
    BY <2>1, <2>2, <2>3
<1> QED
  BY <1>1, <1>2

LEMMA ListsStep ==
    ASSUME Inv, Lists, [Next]_vars
    PROVE  Lists'
<1>1. CASE \E r \in Requests : Begin(r)
  BY <1>1, RequestsAsked, RequestLists DEF Begin
<1>2. ASSUME NEW r \in Requests, Others(r) PROVE Lists'
  <2>1. PICK f \in Accepted(r) : \E found \in FindFiltered(f, Page(r), Limit(r)) :
            Stores(r, f, Response(r, found))
    BY <1>2 DEF Others
  <2>2. PICK found \in FindFiltered(f, Page(r), Limit(r)) : Stores(r, f, Response(r, found))
    BY <2>1
  <2> QED
    BY <1>2, <2>2, RequestsAsked, ListStored DEF Others
<1>3. ASSUME reader # None, Follow(reader.answer.next) PROVE Lists'
  <2>1. Asked(reader.answer.next)
    BY <1>3, SentLinks DEF Inv, Reading, Follow
  <2> QED
    BY <1>3, <2>1, RequestLists DEF Follow
<1>4. ASSUME NEW task \in tasks, RunSet(task) \/ SetFails(task) PROVE Lists'
  <2>1. CASE RunSet(task)
    <3>1. /\ DOMAIN cache' = DOMAIN cache \cup {task.key}
          /\ \A k \in DOMAIN cache' : cache'[k] = IF k = task.key THEN task.answer ELSE cache[k]
          /\ tasks' \subseteq tasks /\ UNCHANGED table
      BY <2>1 DEF RunSet
    <3> QED
      BY <3>1, ListsKept
  <2>2. CASE SetFails(task)
    BY <2>2, ListsKept DEF SetFails
  <2> QED
    BY <1>4, <2>1, <2>2
<1>5. ASSUME NEW k \in DOMAIN cache, Expire(k) PROVE Lists'
  <2>1. /\ UNCHANGED <<table, tasks>> /\ DOMAIN cache' = DOMAIN cache \ {k}
        /\ \A key \in DOMAIN cache' : cache'[key] = cache[key]
    BY <1>5 DEF Expire
  <2> QED
    BY <2>1, ListsKept
<1>6. CASE UNCHANGED vars
  BY <1>6, ListsKept DEF vars
<1> QED
  BY <1>1, <1>2, <1>3, <1>4, <1>5, <1>6 DEF Next

(* One more page of a walk.                                                *)
LEMMA PageRead ==
    ASSUME table \in Tables, UNCHANGED table,
           NEW first \in Request, Exportable(first.ask), Validate(first.ask),
           NEW r, Asked(r), r.path = "list", NEW f \in Accepted(r),
           f = NormalizeFilters(first.ask), Limit(r) = Limit(first),
           NEW a, ListOrigin(Key(r, f), a), NEW walked, Receives(first, r, f, a, walked),
           \A s \in Orderings(f) :
                /\ (Page(r) - 1) * Limit(r) <= Len(s)
                /\ walked = SubSeq(s, 1, (Page(r) - 1) * Limit(r))
    PROVE  Along(reader)'
<1>1. /\ reader'.first = first /\ reader'.asked = r /\ reader'.filter = f
      /\ reader'.answer = Sent(a) /\ reader'.walked = walked \o Sent(a).rows
      /\ reader'.whole = Readable(a)
  BY DEF Receives
<1>2. PICK p, l : p = Page(r) /\ l = Limit(r)
  OBVIOUS
<1>3. p \in Nat \ {0} /\ l \in Nat \ {0}
  BY <1>2, PageAndLimit DEF Asked
<1>4. PICK s \in Orderings(f) :
        /\ a.rows = SubSeq(s, (p - 1) * l + 1, Least(p * l, Len(s)))
        /\ a.next # None <=> p * l < Len(s)
  BY <1>2, PageOfList
<1>5. a.next # None =>
        /\ a.next.path = "list" /\ Page(a.next) = p + 1
        /\ Limit(a.next) = l /\ Accepted(a.next) = {f}
  BY <1>2, PageOfList
<1>6. ~Readable(a) => Sent(a).next = None
  BY DEF Sent
<1>7. Readable(a) => Sent(a) = a
  BY DEF Sent
<1>8. walked \o a.rows = SubSeq(s, 1, Least(p * l, Len(s)))
  <2>1. PICK m, n, k : m = (p - 1) * l /\ n = Least(p * l, Len(s)) /\ k = Len(s)
    OBVIOUS
  <2>2. PICK S : S = Matches(f)
    OBVIOUS
  <2>3. s \in Seq(S) /\ k \in Nat
    BY <2>1, <2>2, OrderingTyped
  <2>4. m \in Nat /\ m <= k /\ walked = SubSeq(s, 1, m)
    <3>1. m \in Nat
      BY <1>3, <2>1
    <3>2. (Page(r) - 1) * Limit(r) = m
      BY <1>2, <2>1
    <3>3. m <= Len(s) /\ walked = SubSeq(s, 1, m)
      BY <3>2
    <3> QED
      BY <2>1, <3>1, <3>3
  <2>5. m <= p * l /\ p * l \in Nat
    BY <1>3, <2>1
  <2>6. n \in m..k
    BY <2>1, <2>3, <2>4, <2>5 DEF Least
  <2>7. 1 \in 1..Len(s) + 1 /\ m \in 1 - 1..Len(s) /\ n \in m..Len(s)
    BY <2>1, <2>3, <2>4, <2>6
  <2>8. SubSeq(s, 1, m) \o SubSeq(s, m + 1, n) = SubSeq(s, 1, n)
    BY <2>3, <2>7, ConcatAdjacentSubSeq
  <2> QED
    BY <1>4, <2>1, <2>4, <2>8
<1>9. Orderings(f)' = Orderings(f)
  BY SameLists
<1>10. Readable(a) => \E t \in Orderings(f)' :
                        /\ reader'.walked = SubSeq(t, 1, Least(p * l, Len(t)))
                        /\ reader'.answer.next # None <=> p * l < Len(t)
  BY <1>1, <1>4, <1>7, <1>8, <1>9
<1>11. reader'.answer.next # None =>
        /\ Readable(a)
        /\ reader'.answer.next.path = "list" /\ Page(reader'.answer.next) = p + 1
        /\ Limit(reader'.answer.next) = l /\ Accepted(reader'.answer.next) = {f}
  BY <1>1, <1>5, <1>6, <1>7
<1> QED
  BY <1>1, <1>2, <1>10, <1>11 DEF Along

LEMMA ByNameOnly ==
    ASSUME NEW ask \in Filter, Exportable(ask)
    PROVE  NormalizeFilters(ask).sort = "name"
<1>1. sortColumn("name") = "name"
  BY DEF sortColumn, SortColumns
<1> QED
  BY <1>1, NormalFields DEF Exportable

LEMMA WalkBegins ==
    ASSUME Inv, Lists, NEW r \in Requests, Begin(r)
    PROVE  Walking'
<1>1. Asked(r) /\ r \in Request /\ table \in Tables /\ UNCHANGED table
  BY RequestsAsked DEF Asked, Inv, Begin
<1>2. PICK f \in Accepted(r) : Hit(r, r, f, <<>>) \/ Miss(r, r, f, <<>>)
  BY DEF Begin
<1>3. PICK a : Receives(r, r, f, a, <<>>) /\ (r.path = "list" => ListOrigin(Key(r, f), a))
  BY <1>1, <1>2, RequestLists DEF Begin
<1>4. SUFFICES ASSUME Walker(reader')
               PROVE  Along(reader)'
  BY DEF Walking, Walker
<1>5. reader'.first = r
  BY <1>3 DEF Receives
<1>6. r.path = "list" /\ Page(r) = 1 /\ Exportable(r.ask)
  BY <1>4, <1>5 DEF Walker
<1>7. f = NormalizeFilters(r.ask) /\ Validate(r.ask)
  BY <1>6, OneQuestion
<1>8. ASSUME NEW s \in Orderings(f)
      PROVE  /\ (Page(r) - 1) * Limit(r) <= Len(s)
             /\ <<>> = SubSeq(s, 1, (Page(r) - 1) * Limit(r))
  <2>1. Limit(r) \in Nat
    BY <1>1, PageAndLimit
  <2>2. (Page(r) - 1) * Limit(r) = 0
    BY <1>6, <2>1
  <2>3. Len(s) \in Nat
    BY <1>1, OrderingTyped
  <2>4. SubSeq(s, 1, 0) = <<>>
    BY SubSeqEmpty
  <2> QED
    BY <2>2, <2>3, <2>4
<1> QED
  BY <1>1, <1>3, <1>6, <1>7, <1>8, PageRead

LEMMA WalkGoesOn ==
    ASSUME Inv, Lists, Walking, reader # None, Follow(reader.answer.next)
    PROVE  Walking'
<1>1. PICK r : r = reader.answer.next
  OBVIOUS
<1>2. Asked(r) /\ reader.first \in Request /\ table \in Tables /\ UNCHANGED table
      /\ reader.asked \in Request
  BY <1>1, SentLinks DEF Inv, Reading, Walk, Follow
<1>3. PICK first, walked : first = reader.first /\ walked = reader.walked
  OBVIOUS
<1>4. PICK f \in Accepted(r) : Hit(first, r, f, walked) \/ Miss(first, r, f, walked)
  BY <1>1, <1>3 DEF Follow
<1>5. PICK a : Receives(first, r, f, a, walked) /\ (r.path = "list" => ListOrigin(Key(r, f), a))
  BY <1>2, <1>4, RequestLists DEF Follow
<1>6. SUFFICES ASSUME Walker(reader')
               PROVE  Along(reader)'
  BY DEF Walking, Walker
<1>7. reader'.first = first
  BY <1>5 DEF Receives
<1>8. first.path = "list" /\ Exportable(first.ask) /\ Along(reader)
  BY <1>3, <1>6, <1>7 DEF Walker, Walking
<1>9. PICK g : g = NormalizeFilters(first.ask)
  OBVIOUS
<1>10. PICK p, l : p = Page(reader.asked) /\ l = Limit(first)
  OBVIOUS
<1>11. /\ Validate(first.ask) /\ reader.whole
       /\ r.path = "list" /\ Page(r) = p + 1 /\ Limit(r) = l /\ Accepted(r) = {g}
  BY <1>1, <1>3, <1>8, <1>9, <1>10 DEF Along, Follow
<1>12. PICK s \in Orderings(g) : walked = SubSeq(s, 1, Least(p * l, Len(s))) /\ p * l < Len(s)
  BY <1>1, <1>3, <1>8, <1>9, <1>10, <1>11 DEF Along, Follow
<1>13. p \in Nat \ {0} /\ l \in Nat \ {0}
  BY <1>2, <1>3, <1>10, PageAndLimit
<1>14. (Page(r) - 1) * Limit(r) = p * l /\ Least(p * l, Len(s)) = p * l
  BY <1>11, <1>12, <1>13 DEF Least
<1>15. \A t \in Orderings(g) : t = s
  <2>1. first.ask \in Filter
    BY <1>2, <1>3, <1>8 DEF Request
  <2>2. g.sort = "name"
    BY <1>8, <1>9, <2>1, ByNameOnly
  <2> QED
    BY <1>2, <2>2, OneOrdering
<1>16. p * l <= Len(s)
  <2>1. Len(s) \in Nat
    BY <1>2, OrderingTyped
  <2>2. p * l \in Nat
    BY <1>13
  <2> QED
    BY <1>12, <2>1, <2>2
<1>17. f = g
  BY <1>4, <1>11
<1>18. \A t \in Orderings(f) : /\ (Page(r) - 1) * Limit(r) <= Len(t)
                               /\ walked = SubSeq(t, 1, (Page(r) - 1) * Limit(r))
  BY <1>12, <1>14, <1>15, <1>16, <1>17
<1> QED
  BY <1>2, <1>3, <1>5, <1>8, <1>9, <1>10, <1>11, <1>17, <1>18, PageRead

LEMMA WalkStays ==
    ASSUME Walking, UNCHANGED <<table, reader>>
    PROVE  Walking'
<1>1. \A f : Orderings(f)' = Orderings(f)
  BY SameLists
<1>2. Along(reader)' <=> Along(reader)
  BY <1>1 DEF Along
<1> QED
  BY <1>2 DEF Walking, Walker

LEMMA WalkStep == Inv /\ Lists /\ Walking /\ [Next]_vars => Lists' /\ Walking'
<1> SUFFICES ASSUME Inv, Lists, Walking, [Next]_vars
             PROVE  Lists' /\ Walking'
  OBVIOUS
<1>1. Lists'
  BY ListsStep
<1>2. CASE \E r \in Requests : Begin(r)
  BY <1>1, <1>2, WalkBegins
<1>3. CASE reader # None /\ Follow(reader.answer.next)
  BY <1>1, <1>3, WalkGoesOn
<1>4. CASE \/ \E r \in Requests : Others(r)
           \/ \E task \in tasks : RunSet(task) \/ SetFails(task)
           \/ \E k \in DOMAIN cache : Expire(k)
           \/ UNCHANGED vars
  <2>1. UNCHANGED <<table, reader>>
    BY <1>4 DEF Others, RunSet, SetFails, Expire, vars
  <2> QED
    BY <1>1, <2>1, WalkStays
<1> QED
  BY <1>2, <1>3, <1>4 DEF Next

LEMMA WalkInit == Init => Lists /\ Walking
<1> SUFFICES ASSUME Init PROVE Lists /\ Walking
  OBVIOUS
<1>1. tasks = {} /\ DOMAIN cache = {} /\ reader = None
  BY DEF Init
<1> QED
  BY <1>1 DEF Lists, Walking

LEMMA WalkInvariance == Spec => [](Lists /\ Walking)
BY Invariance, WalkInit, WalkStep, PTL DEF Spec

LEMMA WalkEnds == Inv /\ Walking => WalkMatchesExport
<1> SUFFICES ASSUME Inv, Walking,
                    reader # None, reader.whole, reader.answer.next = None,
                    reader.first.path = "list", Page(reader.first) = 1,
                    Exportable(reader.first.ask),
                    reader.first.ask.group # Empty =>
                        \A row \in table : row.group = ageGroup(row.age)
             PROVE  reader.walked \in Exported(reader.first.ask)
  BY DEF WalkMatchesExport
<1>1. PICK f, g : f = reader.first.ask /\ g = NormalizeFilters(f)
  OBVIOUS
<1>2. Along(reader)
  BY DEF Walking, Walker
<1>3. table \in Tables /\ reader.first \in Request /\ reader.asked \in Request
  BY DEF Inv, Reading, Walk, Asked
<1>4. f \in Filter /\ Validate(f)
  BY <1>1, <1>2, <1>3 DEF Request, Along
<1>5. PICK p, l : p = Page(reader.asked) /\ l = Limit(reader.first)
  OBVIOUS
<1>6. p * l \in Nat
  <2>1. p \in Nat /\ l \in Nat
    BY <1>3, <1>5, PageAndLimit
  <2> QED
    BY <2>1
<1>7. PICK s \in Orderings(g) : reader.walked = SubSeq(s, 1, Least(p * l, Len(s))) /\ ~(p * l < Len(s))
  BY <1>1, <1>2, <1>5 DEF Along
<1>8. PICK S : S = Matches(g)
  OBVIOUS
<1>9. s \in Seq(S) /\ Len(s) \in Nat
  BY <1>3, <1>8, OrderingTyped
<1>10. Least(p * l, Len(s)) = Len(s)
  BY <1>6, <1>7, <1>9 DEF Least
<1>11. reader.walked = s
  BY <1>7, <1>9, <1>10, SubSeqFull
<1>12. Orderings(g) = Exported(f)
  BY <1>1, <1>3, <1>4, ExportedList
<1> QED
  BY <1>1, <1>11, <1>12

(* pagination.go, profile_repository.go, ExportProfiles: whoever follows   *)
(* the links of a list from its first page reads what the export has, each *)
(* row once and in its order, whatever others put into the cache meanwhile.*)
THEOREM WalkingReadsTheExport == Spec => []WalkMatchesExport
<1> QED
  BY Invariance, WalkInvariance, WalkEnds, PTL
=============================================================================
