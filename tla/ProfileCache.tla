----------------------------- MODULE ProfileCache -----------------------------
(* The profiles table and the Redis cache in front of it                   *)
(* (internal/cache, and the handlers of internal/handler/http that fill    *)
(* and invalidate it).                                                     *)
(*                                                                         *)
(* A handler touches the cache twice: it looks a key up before it reads    *)
(* the database, and it starts a goroutine that writes to Redis after it.  *)
(* A hit changes nothing.  A miss carries nothing over to the database     *)
(* read but the decision to make it, and a Redis error is a miss, so a     *)
(* read of the database may happen at any moment, whatever is cached.      *)
(* What matters is the goroutine: it holds what its handler read or wrote, *)
(* it runs at any later time, and its errors are ignored.                  *)
EXTENDS Naturals

CONSTANTS
    Names,      \* names of people (column profiles.name, UNIQUE)
    Seeded,     \* the names in seed_profiles.json
    Ids,        \* UUIDs drawn for rows of profiles
    Spellings,  \* ways to write a UUID that PostgreSQL takes for the same one:
                \* upper or lower case, with or without hyphens, in braces
    Queries,    \* keys of list results: normalised filters, page and limit
    Matching,   \* per query, the names on its page
    Slots,      \* bound on the goroutines alive at once
    ListTTL,    \* cache.ProfileListTTL, 5 minutes, in ticks
    IdTTL,      \* cache.ProfileByIDTTL, 10 minutes, in ticks
    Faults,     \* may statements fail, answers be lost, the process stop?
    MaxBoots,   \* bound on the number of process starts
    None        \* no row, no entry, no goroutine

ASSUME ConstantsAssumption ==
    /\ Seeded \subseteq Names
    /\ Matching \in [Queries -> SUBSET Names]
    /\ ListTTL \in Nat \ {0} /\ IdTTL \in Nat \ {0} /\ MaxBoots \in Nat \ {0}
    /\ Faults \in BOOLEAN

(* IDKey is made of the path as the client wrote it, while the statement   *)
(* compares UUIDs: one row may be cached under several keys.               *)
Keys == [id : Ids, spelling : Spellings]
Spelt(id) == {key \in Keys : key.id = id}

(* The goroutines: Set of a profile, Set of a list, and invalidation,      *)
(* which deletes one key first when it follows a deletion, and then the     *)
(* list keys that its SCAN has yet to visit.                               *)
SetId == [op : {"setId"}, key : Keys]
SetList == [op : {"setList"}, query : Queries, ids : SUBSET Ids]
Invalidate == [op : {"invalidate"}, key : Keys \cup {None}, todo : SUBSET Queries]
Task == SetId \cup SetList \cup Invalidate

ListEntry == [ids : SUBSET Ids, ttl : 1..ListTTL]

ASSUME NoneAssumption == None \notin Ids \cup Keys \cup Task \cup ListEntry

VARIABLES
    table,      \* table profiles: the id of each name's row
    usedIds,    \* ids drawn so far
    idCache,    \* Redis, profiles:id:*, the ticks each key has left
    listCache,  \* Redis, profiles:list:*
    tasks,      \* the goroutines
    import,     \* the CSV import in progress
    boots,      \* how often the process has started
    (* History, read by the properties only: *)
    idCause,    \* why a deleted profile may be cached by id
    listCause   \* why a list may be cached that is out of date

vars == <<table, usedIds, idCache, listCache, tasks, import, boots,
          idCause, listCause>>

(* late: a Set ran after a write that its value has not seen.              *)
(* fault: an invalidation failed, or never began since the answer of the   *)
(* write was lost.                                                         *)
(* restart: the process stopped before an invalidation, or its next start  *)
(* seeded a row of the list.                                               *)
(* spelling: the profile was deleted under another spelling of its id.     *)
Causes == {"none", "late", "fault", "restart", "spelling"}

(* running: ProcessCSV has not returned; counted: result.Inserted > 0.     *)
Import == [running : BOOLEAN, counted : BOOLEAN]
NoImport == [running |-> FALSE, counted |-> FALSE]

-----------------------------------------------------------------------------
Rows == {table[n] : n \in Names} \ {None}
Listed(q) == {table[n] : n \in Matching[q]} \ {None}

CachedKeys == {key \in Keys : idCache[key] > 0}
CachedLists == {q \in Queries : listCache[q] # None}

(* What may go stale for this cause, of these keys or queries: the cached. *)
(* The first cause is kept.                                                *)
BlameKeys(keys, cause) ==
    [key \in Keys |-> IF key \in keys \cap CachedKeys /\ idCause[key] = "none"
                      THEN cause ELSE idCause[key]]
BlameLists(queries, cause) ==
    [q \in Queries |-> IF q \in queries \cap CachedLists /\ listCause[q] = "none"
                       THEN cause ELSE listCause[q]]

(* The queries whose lists the step changes.                               *)
Changed == {q \in Queries : Listed(q)' # Listed(q)}

(* An invalidation of the key, or of the list, is still to come.           *)
IdPending(key) ==
    \E s \in Slots : tasks[s] # None /\ tasks[s].op = "invalidate" /\ tasks[s].key = key
ListPending(q) ==
    \/ import.counted
    \/ \E s \in Slots : /\ tasks[s] # None /\ tasks[s].op = "invalidate"
                       /\ q \in tasks[s].todo

Spawn(task) == \E s \in Slots : tasks[s] = None /\ tasks' = [tasks EXCEPT ![s] = task]
Done(s) == tasks' = [tasks EXCEPT ![s] = None]

-----------------------------------------------------------------------------
(* Reads                                                                   *)

(* A miss: read the row, and answer while a goroutine stores it.           *)
GetProfile(key) ==
    /\ key.id \in Rows
    /\ Spawn([op |-> "setId", key |-> key])
    /\ UNCHANGED <<table, usedIds, idCache, listCache, import, boots,
                   idCause, listCause>>

ListProfiles(q) ==
    /\ Spawn([op |-> "setList", query |-> q, ids |-> Listed(q)])
    /\ UNCHANGED <<table, usedIds, idCache, listCache, import, boots,
                   idCause, listCause>>

-----------------------------------------------------------------------------
(* Writes                                                                  *)

InvalidateLists == [op |-> "invalidate", key |-> None, todo |-> Queries]
InvalidateOnlyLists(key) == InvalidateLists
InvalidateProfile(key) == [op |-> "invalidate", key |-> key, todo |-> Queries]

(* The INSERT of POST /profiles.  A name that got a row since the lookup   *)
(* is a unique violation: an error, and nothing changes.  When the answer  *)
(* of the INSERT is lost, the handler fails without invalidating.          *)
CreateProfile(n) ==
    /\ table[n] = None
    /\ \E id \in Ids \ usedIds :
        /\ table' = [table EXCEPT ![n] = id]
        /\ usedIds' = usedIds \cup {id}
    /\ \/ Spawn(InvalidateLists) /\ UNCHANGED listCause
       \/ Faults /\ UNCHANGED tasks /\ listCause' = BlameLists(Changed, "fault")
    /\ UNCHANGED <<idCache, listCache, import, boots, idCause>>

(* Whatever the spelling, the row is gone; only the key that is spelt like *)
(* the path of this request is invalidated.                                *)
DeleteProfile(n, spelling) ==
    /\ table[n] # None
    /\ table' = [table EXCEPT ![n] = None]
    /\ LET key == [id |-> table[n], spelling |-> spelling]
       IN  \/ /\ Spawn(InvalidateProfile(key))
              /\ idCause' = BlameKeys(Spelt(key.id) \ {key}, "spelling")
              /\ UNCHANGED listCause
           \/ /\ Faults
              /\ UNCHANGED tasks
              /\ idCause' = BlameKeys(Spelt(key.id), "fault")
              /\ listCause' = BlameLists(Changed, "fault")
    /\ UNCHANGED <<usedIds, idCache, listCache, import, boots>>

(* ImportProfiles: ProcessCSV inserts chunks, each as one statement that   *)
(* skips the names that have a row.                                        *)
ImportBegins ==
    /\ ~import.running
    /\ import' = [NoImport EXCEPT !.running = TRUE]
    /\ UNCHANGED <<table, usedIds, idCache, listCache, tasks, boots,
                   idCause, listCause>>

Inserted(names, ids) == [n \in Names |-> IF n \in names /\ table[n] = None
                                         THEN ids[n] ELSE table[n]]

Draws(names) == {ids \in [names -> Ids \ usedIds] :
                    \A a, b \in names : ids[a] = ids[b] => a = b}

(* A chunk that was inserted is counted, duplicates and all.  If its       *)
(* answer is lost, the rows are there and the fallback, row by row, counts *)
(* none of them: each is a duplicate by now.                               *)
ImportChunk(names) ==
    /\ import.running
    /\ LET new == {n \in names : table[n] = None}
       IN  \E ids \in Draws(new) :
                /\ table' = Inserted(new, ids)
                /\ usedIds' = usedIds \cup {ids[n] : n \in new}
    /\ \/ import' = [import EXCEPT !.counted = TRUE] /\ UNCHANGED listCause
       \/ Faults /\ UNCHANGED import /\ listCause' = BlameLists(Changed, "fault")
    /\ UNCHANGED <<idCache, listCache, tasks, boots, idCause>>

(* The cache is invalidated once, at the end, if anything was inserted.    *)
ImportEnds ==
    /\ import.running
    /\ import' = NoImport
    /\ IF import.counted THEN Spawn(InvalidateLists) ELSE UNCHANGED tasks
    /\ UNCHANGED <<table, usedIds, idCache, listCache, boots,
                   idCause, listCause>>

-----------------------------------------------------------------------------
(* The goroutines                                                          *)

RunSetId(s) ==
    /\ tasks[s] # None /\ tasks[s].op = "setId"
    /\ LET key == tasks[s].key
       IN  /\ idCache' = [idCache EXCEPT ![key] = IdTTL]
           /\ idCause' = [idCause EXCEPT ![key] =
                IF key.id \in Rows THEN "none" ELSE "late"]
    /\ Done(s)
    /\ UNCHANGED <<table, usedIds, listCache, import, boots, listCause>>

RunSetList(s) ==
    /\ tasks[s] # None /\ tasks[s].op = "setList"
    /\ LET q == tasks[s].query
       IN  /\ listCache' = [listCache EXCEPT ![q] = [ids |-> tasks[s].ids, ttl |-> ListTTL]]
           /\ listCause' = [listCause EXCEPT ![q] =
                IF tasks[s].ids = Listed(q) THEN "none" ELSE "late"]
    /\ Done(s)
    /\ UNCHANGED <<table, usedIds, idCache, import, boots, idCause>>

(* InvalidateProfileID: its error, too, is ignored, and the lists follow.  *)
RunDeleteId(s) ==
    /\ tasks[s] # None /\ tasks[s].op = "invalidate" /\ tasks[s].key # None
    /\ tasks' = [tasks EXCEPT ![s].key = None]
    /\ \/ /\ idCache' = [idCache EXCEPT ![tasks[s].key] = 0]
          /\ idCause' = [idCause EXCEPT ![tasks[s].key] = "none"]
       \/ /\ Faults
          /\ UNCHANGED idCache
          /\ idCause' = BlameKeys({tasks[s].key}, "fault")
    /\ UNCHANGED <<table, usedIds, listCache, import, boots, listCause>>

ScansOnce(s) ==
    /\ tasks[s] # None /\ tasks[s].op = "invalidate" /\ tasks[s].key = None
    /\ \E q \in tasks[s].todo :
        /\ listCache' = [listCache EXCEPT ![q] = None]
        /\ listCause' = [listCause EXCEPT ![q] = "none"]
    /\ Done(s)
    /\ UNCHANGED <<table, usedIds, idCache, import, boots, idCause>>
(* One round of SCAN and DEL.  A key present from start to end is visited; *)
(* a key stored after its turn is not.                                     *)
RunDeleteLists(s) ==
    /\ tasks[s] # None /\ tasks[s].op = "invalidate" /\ tasks[s].key = None
    /\ \E q \in tasks[s].todo :
        /\ listCache' = [listCache EXCEPT ![q] = None]
        /\ listCause' = [listCause EXCEPT ![q] = "none"]
        /\ tasks' = [tasks EXCEPT ![s] = IF tasks[s].todo = {q} THEN None
                                         ELSE [tasks[s] EXCEPT !.todo = @ \ {q}]]
    /\ UNCHANGED <<table, usedIds, idCache, import, boots, idCause>>

(* Redis fails, or the context of the goroutine times out.                 *)
TaskFails(s) ==
    /\ Faults
    /\ tasks[s] # None
    /\ Done(s)
    /\ IF tasks[s].op = "invalidate"
       THEN /\ idCause' = BlameKeys({tasks[s].key}, "fault")
            /\ listCause' = BlameLists(tasks[s].todo, "fault")
       ELSE UNCHANGED <<idCause, listCause>>
    /\ UNCHANGED <<table, usedIds, idCache, listCache, import, boots>>

-----------------------------------------------------------------------------
(* Time and restarts                                                       *)

AgedPastZero(entry) == IF entry = None THEN None ELSE [entry EXCEPT !.ttl = @ - 1]
NeverAged(entry) == entry
(* A key with one tick left is gone at the next.                           *)
Aged(entry) == IF entry = None \/ entry.ttl = 1 THEN None
               ELSE [entry EXCEPT !.ttl = @ - 1]

Tick ==
    /\ idCache' = [key \in Keys |-> IF idCache[key] = 0 THEN 0 ELSE idCache[key] - 1]
    /\ listCache' = [q \in Queries |-> Aged(listCache[q])]
    /\ idCause' = [key \in Keys |-> IF idCache'[key] = 0 THEN "none" ELSE idCause[key]]
    /\ listCause' = [q \in Queries |-> IF listCache'[q] = None THEN "none" ELSE listCause[q]]
    /\ UNCHANGED <<table, usedIds, tasks, import, boots>>

(* Goroutines and the import die with the process; the database and Redis  *)
(* do not.  SeedFromJSON then inserts the seeded names that have no row,   *)
(* with new ids, and does not invalidate; main only logs that it failed.   *)
Restart ==
    /\ Faults
    /\ boots < MaxBoots
    /\ boots' = boots + 1
    /\ \E new \in {{n \in Seeded : table[n] = None}, {}} : \E ids \in Draws(new) :
        /\ table' = Inserted(new, ids)
        /\ usedIds' = usedIds \cup {ids[n] : n \in new}
    /\ tasks' = [s \in Slots |-> None]
    /\ import' = NoImport
    /\ idCause' = BlameKeys({key \in Keys : IdPending(key)}, "restart")
    /\ listCause' = BlameLists({q \in Queries : ListPending(q)} \cup Changed, "restart")
    /\ UNCHANGED <<idCache, listCache>>

-----------------------------------------------------------------------------
Init ==
    /\ \E ids \in [Seeded -> Ids] :
        /\ \A a, b \in Seeded : ids[a] = ids[b] => a = b
        /\ table = [n \in Names |-> IF n \in Seeded THEN ids[n] ELSE None]
        /\ usedIds = {ids[n] : n \in Seeded}
    /\ idCache = [key \in Keys |-> 0]
    /\ listCache = [q \in Queries |-> None]
    /\ tasks = [s \in Slots |-> None]
    /\ import = NoImport
    /\ boots = 1
    /\ idCause = [key \in Keys |-> "none"]
    /\ listCause = [q \in Queries |-> "none"]

Run(s) == RunSetId(s) \/ RunSetList(s) \/ RunDeleteId(s) \/ RunDeleteLists(s)

Next ==
    \/ \E key \in Keys : GetProfile(key)
    \/ \E q \in Queries : ListProfiles(q)
    \/ \E n \in Names : CreateProfile(n) \/ \E spelling \in Spellings : DeleteProfile(n, spelling)
    \/ ImportBegins
    \/ \E names \in SUBSET Names \ {{}} : ImportChunk(names)
    \/ ImportEnds
    \/ \E s \in Slots : Run(s) \/ TaskFails(s)
    \/ Tick
    \/ Restart

Spec == Init /\ [][Next]_vars

(* Time passes, and every goroutine ends: each of its Redis calls returns  *)
(* by the deadline of its context.  Nothing is assumed of the requests.    *)
Fairness ==
    /\ WF_vars(Tick)
    /\ \A s \in Slots : WF_vars(Run(s) \/ TaskFails(s))

FairSpec == Spec /\ Fairness

-----------------------------------------------------------------------------
(* Properties                                                              *)

(* Rows, keys and goroutines keep their types; no two names share a row.   *)
TypeOK ==
    /\ table \in [Names -> Ids \cup {None}]
    /\ \A a, b \in Names : table[a] = table[b] /\ table[a] # None => a = b
    /\ Rows \subseteq usedIds /\ usedIds \subseteq Ids
    /\ idCache \in [Keys -> 0..IdTTL]
    /\ listCache \in [Queries -> ListEntry \cup {None}]
    /\ tasks \in [Slots -> Task \cup {None}]
    /\ import \in Import
    /\ boots \in 1..MaxBoots
    /\ idCause \in [Keys -> Causes]
    /\ listCause \in [Queries -> Causes]

StaleId(key) == idCache[key] > 0 /\ key.id \notin Rows
StaleList(q) == listCache[q] # None /\ listCache[q].ids # Listed(q)

(* Every write of the table invalidates what it makes stale: a deleted     *)
(* profile is cached under a key only until the invalidation that the      *)
(* deletion started reaches it.  What else explains it is that invalidation *)
(* lost, by a fault or by a restart that found it pending, a Set that      *)
(* undid it, or a deletion that was asked for in another spelling.         *)
StaleIdHasCause ==
    \A key \in Keys : StaleId(key) => IdPending(key) \/ idCause[key] # "none"

(* The same of the lists, which creations, deletions and imports change,   *)
(* and the seeding of a restart, which invalidates nothing.                *)
StaleListHasCause ==
    \A q \in Queries : StaleList(q) => ListPending(q) \/ listCause[q] # "none"

(* Whatever raced or failed, the cache agrees with the table for good once *)
(* clients stop writing to it: TTLs make up for lost invalidations.        *)
EventuallyFresh ==
    <>[]((\A key \in Keys : ~StaleId(key)) /\ (\A q \in Queries : ~StaleList(q)))

(* SOLUTION.md, Caching: "Any write (create, delete, import) invalidates   *)
(* all list cache keys."  When every goroutine has run, and nothing fails  *)
(* (~Faults), no list from before a write is left.                         *)
WritesInvalidateLists ==
    \A q \in Queries :
        StaleList(q) => import.running \/ \E s \in Slots : tasks[s] # None
=============================================================================
