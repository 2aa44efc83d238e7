-------------------------------- MODULE Queries --------------------------------
(* The requests that read profiles: GET /profiles, its search and its      *)
(* export (internal/handler/http, profile_service.go,                      *)
(* profile_repository.go), with pagination and the cache of lists.  The    *)
(* table stays as it is: what writes do to the cache is ProfileCache.      *)
EXTENDS Filters

CONSTANTS
    Tables,       \* the contents that table profiles may have
    Requests,     \* the requests that clients begin with
    DefaultLimit, \* 10
    MaxLimit,     \* 50
    MaxTasks,     \* bound on the goroutines that store a list
    MaxEntries    \* bound on the lists cached at once

(* path: ListProfiles takes filters, SearchProfiles a search.  A page or   *)
(* a limit that is missing or no number is 0.                              *)
Request == [path : {"list"}, ask : Filter, page : Int, limit : Int]
             \cup [path : {"search"}, ask : Search, page : Int, limit : Int]

ASSUME QueriesAssumption ==
    /\ \A t \in Tables : t \subseteq Row /\ IsFiniteSet(t)
    /\ \A t \in Tables : \A a, b \in t : a.name = b.name => a = b
    /\ Requests \subseteq Request
    /\ DefaultLimit \in Nat \ {0} /\ MaxLimit \in Nat \ {0} /\ DefaultLimit <= MaxLimit
    /\ MaxTasks \in Nat /\ MaxEntries \in Nat
    /\ None \notin Request

VARIABLES
    table,   \* table profiles
    cache,   \* Redis, profiles:list:*, from keys to answers
    tasks,   \* goroutines that are to store an answer
    reader   \* a client that follows the links of its answers

vars == <<table, cache, tasks, reader>>

-----------------------------------------------------------------------------
(* The database: profile_service.go and profile_repository.go              *)

Column(row, sort) == CASE sort = "age" -> row.age [] sort = "name" -> row.name
                       [] sort = "gender_probability" -> row.gp [] OTHER -> row.created

Precedes(f, a, b) == IF f.order = "asc"
                     THEN Column(a, f.sort) <= Column(b, f.sort)
                     ELSE Column(a, f.sort) >= Column(b, f.sort)

Matches(f) == {row \in table : Where(f, row)}

(* ORDER BY one column: rows that agree in it come in any order, which may *)
(* be another one in the next statement.                                   *)
Orderings(f) ==
    {s \in [1..Cardinality(Matches(f)) -> Matches(f)] :
        \A i, j \in DOMAIN s : i < j => s[i] # s[j] /\ Precedes(f, s[i], s[j])}

Least(a, b) == IF a < b THEN a ELSE b

SkipsPage(f, page, limit) ==
    {[rows |-> SubSeq(s, page * limit + 1, Least((page + 1) * limit, Len(s))),
      total |-> IF (page - 1) * limit < Len(s) THEN Len(s) ELSE 0] : s \in Orderings(f)}
(* GetFilteredProfiles and FindFiltered.  The total is a column of the     *)
(* rows: a page without rows has none.                                     *)
FindFiltered(f, page, limit) ==
    {[rows |-> SubSeq(s, (page - 1) * limit + 1, Least(page * limit, Len(s))),
      total |-> IF (page - 1) * limit < Len(s) THEN Len(s) ELSE 0] : s \in Orderings(f)}

-----------------------------------------------------------------------------
(* The handlers                                                            *)

Page(r) == IF r.page < 1 THEN 1 ELSE r.page

(* A limit above the maximum is cut by the list, and ignored by the search. *)
Limit(r) == IF r.limit <= 0 THEN DefaultLimit
            ELSE IF r.limit <= MaxLimit THEN r.limit
            ELSE IF r.path = "list" THEN MaxLimit ELSE DefaultLimit

(* What the database is asked, after validation; nothing, if it fails.     *)
Accepted(r) ==
    LET parsed == IF r.path = "list" THEN {r.ask} ELSE ParseNaturalLanguage(r.ask)
    IN  {NormalizeFilters(f) : f \in {g \in parsed : Validate(g)}}

Key(r, f) == NormalizedCacheKey(f, Page(r), Limit(r))

Pages(total, limit) == (total + limit - 1) \div limit

(* A link repeats the parameters of the request, but for the page and the  *)
(* limit that it was answered with.                                        *)
Link(r, page) == [path |-> r.path, ask |-> r.ask, page |-> page, limit |-> Limit(r)]

ResponseAtFirstPage(r, found) ==
    [rows |-> found.rows, total |-> found.total,
     next |-> IF Page(r) < Pages(found.total, Limit(r)) THEN Link(r, r.page + 1) ELSE None,
     prev |-> IF Page(r) > 1 THEN Link(r, Page(r) - 1) ELSE None]
(* BuildPaginatedResponse.                                                 *)
Response(r, found) ==
    [rows |-> found.rows, total |-> found.total,
     next |-> IF Page(r) < Pages(found.total, Limit(r)) THEN Link(r, Page(r) + 1) ELSE None,
     prev |-> IF Page(r) > 1 THEN Link(r, Page(r) - 1) ELSE None]

Answer == [rows : Seq(Row), total : Nat, next : Request \cup {None}, prev : Request \cup {None}]

(* JSON has no NaN: Respond sends an answer with one without a body, and   *)
(* Set fails.                                                              *)
Readable(answer) == \A i \in DOMAIN answer.rows :
                        answer.rows[i].gp # NaN /\ answer.rows[i].cp # NaN
Sent(answer) == IF Readable(answer) THEN answer
                ELSE [rows |-> <<>>, total |-> 0, next |-> None, prev |-> None]

(* The list stores what it found, from a goroutine; the search does not.   *)
Stores(r, f, answer) ==
    IF r.path = "list"
    THEN Cardinality(tasks) < MaxTasks
         /\ tasks' = tasks \cup {[key |-> Key(r, f), answer |-> answer]}
    ELSE UNCHANGED tasks

(* The client has an answer to r, for the filters f, after a walk that     *)
(* began with the request first.                                           *)
Receives(first, r, f, answer, walked) ==
    reader' = [first |-> first, asked |-> r, filter |-> f, answer |-> Sent(answer),
               walked |-> walked \o Sent(answer).rows, whole |-> Readable(answer)]

Hit(first, r, f, walked) ==
    /\ Key(r, f) \in DOMAIN cache
    /\ Receives(first, r, f, cache[Key(r, f)], walked)
    /\ UNCHANGED tasks

(* The key is not there, or Redis failed, which counts as a miss.          *)
Miss(first, r, f, walked) ==
    \E found \in FindFiltered(f, Page(r), Limit(r)) :
        /\ Stores(r, f, Response(r, found))
        /\ Receives(first, r, f, Response(r, found), walked)

Begin(r) ==
    /\ \E f \in Accepted(r) : Hit(r, r, f, <<>>) \/ Miss(r, r, f, <<>>)
    /\ UNCHANGED <<table, cache>>

Follow(link) ==
    /\ link # None
    /\ \E f \in Accepted(link) : Hit(reader.first, link, f, reader.walked)
                                 \/ Miss(reader.first, link, f, reader.walked)
    /\ UNCHANGED <<table, cache>>

(* A list is asked for by somebody else.                                   *)
Others(r) ==
    /\ r.path = "list"
    /\ \E f \in Accepted(r) : \E found \in FindFiltered(f, Page(r), Limit(r)) :
        Stores(r, f, Response(r, found))
    /\ UNCHANGED <<table, cache, reader>>

SetUnreadable(task) ==
    /\ Cardinality(DOMAIN cache \cup {task.key}) <= MaxEntries
    /\ cache' = [k \in DOMAIN cache \cup {task.key} |->
                    IF k = task.key THEN task.answer ELSE cache[k]]
    /\ tasks' = tasks \ {task}
    /\ UNCHANGED <<table, reader>>
RunSet(task) ==
    /\ Readable(task.answer)
    /\ Cardinality(DOMAIN cache \cup {task.key}) <= MaxEntries
    /\ cache' = [k \in DOMAIN cache \cup {task.key} |->
                    IF k = task.key THEN task.answer ELSE cache[k]]
    /\ tasks' = tasks \ {task}
    /\ UNCHANGED <<table, reader>>

SetFails(task) ==
    /\ tasks' = tasks \ {task}
    /\ UNCHANGED <<table, cache, reader>>

(* The key expires, or a write invalidates it.                             *)
Expire(k) ==
    /\ cache' = [other \in DOMAIN cache \ {k} |-> cache[other]]
    /\ UNCHANGED <<table, tasks, reader>>

-----------------------------------------------------------------------------
Init ==
    /\ table \in Tables
    /\ cache = <<>>
    /\ tasks = {}
    /\ reader = None

Next ==
    \/ \E r \in Requests : Begin(r) \/ Others(r)
    \/ reader # None /\ Follow(reader.answer.next)
    \/ \E task \in tasks : RunSet(task) \/ SetFails(task)
    \/ \E k \in DOMAIN cache : Expire(k)

Spec == Init /\ [][Next]_vars

-----------------------------------------------------------------------------
(* The export: no cache, no pages, and neither validation nor a canonical  *)
(* form.  parseFilters does not read min_country_probability.              *)
Exported(f) == Orderings([f EXCEPT !.sort = sortColumn(@),
                                   !.order = IF @ = "asc" THEN "asc" ELSE "desc",
                                   !.cp = None])
-----------------------------------------------------------------------------
(* Properties                                                              *)

Walk == [first : Request, asked : Request, filter : Filter, answer : Answer,
         walked : Seq(Row), whole : BOOLEAN]

(* Tasks and entries go with keys, and what is cached can be sent.         *)
TypeOK ==
    /\ table \in Tables
    /\ \A task \in tasks : task.answer \in Answer
    /\ Cardinality(tasks) <= MaxTasks /\ Cardinality(DOMAIN cache) <= MaxEntries
    /\ \A k \in DOMAIN cache : cache[k] \in Answer /\ Readable(cache[k])
    /\ reader # None => reader \in Walk

Questions == UNION {Accepted(r) : r \in Requests}

(* Whatever clients asked before, and in which words, a client gets the    *)
(* page it asked for of a question that is almost its own: the cache never *)
(* mixes up two lists that its key tells apart, nor two of their pages.    *)
AnswersNearTheQuestion ==
    reader # None /\ reader.whole =>
        \E g \in Questions :
            /\ AlmostSame(g, reader.filter)
            /\ [rows |-> reader.answer.rows, total |-> reader.answer.total]
                    \in FindFiltered(g, Page(reader.asked), Limit(reader.asked))

LeadsTo(link, page) ==
    link # None =>
        /\ Page(link) = page /\ Limit(link) = Limit(reader.asked)
        /\ \E g \in Accepted(link) : AlmostSame(g, reader.filter)

(* The links of an answer lead to the pages before and after it, of the    *)
(* same list, also when the cache has them from a request in other words   *)
(* or for another path, with other parameters for page and limit.          *)
LinksContinue ==
    reader # None => /\ LeadsTo(reader.answer.next, Page(reader.asked) + 1)
                     /\ LeadsTo(reader.answer.prev, Page(reader.asked) - 1)

(* A list whose parameters the export understands, in an order that leaves *)
(* no ties, and whose key no other question shares.                        *)
Exportable(f) ==
    /\ f.group \in AgeGroups \cup {Empty} /\ f.order # "ascending" /\ f.cp = None
    /\ f.sort = "name"
    /\ \A g \in Questions : AlmostSame(g, NormalizeFilters(f)) => g = NormalizeFilters(f)

(* Following the links from the first page to the last, through a cache    *)
(* that others fill with pages of the same list, a client sees every row   *)
(* that the export with the same parameters has, once, and in its order.   *)
(* The list takes an age group for a range of ages, the export does not:   *)
(* that is the same if no import brought a group that is not that of the   *)
(* age.                                                                    *)
WalkMatchesExport ==
    /\ reader # None /\ reader.whole /\ reader.answer.next = None
    /\ reader.first.path = "list" /\ Page(reader.first) = 1
    /\ Exportable(reader.first.ask)
    /\ reader.first.ask.group # Empty => \A row \in table : row.group = ageGroup(row.age)
    => reader.walked \in Exported(reader.first.ask)

(* README.md: "`min_gender_probability` | Minimum gender probability       *)
(* threshold".  No row of an answer is below a threshold of the request.   *)
ThresholdsHold ==
    reader # None =>
        \A i \in DOMAIN reader.answer.rows :
            Where([NoFilter EXCEPT !.gp = reader.filter.gp, !.cp = reader.filter.cp],
                  reader.answer.rows[i])
=============================================================================
