--------------------------- MODULE ProfileCacheProofs ---------------------------
(* Type correctness of ProfileCache, and that whatever is stale in Redis   *)
(* has a cause, for any names, ids and spellings of them, lists,            *)
(* TTLs and goroutines.  *)
EXTENDS ProfileCache, TLAPS

-----------------------------------------------------------------------------
(* The invariant: what the import counted is that of an import in          *)
(* progress, or the next one would forget an invalidation still to come.   *)
CountsWhileRunning == import.counted => import.running

Inv == TypeOK /\ CountsWhileRunning /\ StaleIdHasCause /\ StaleListHasCause

(* The parts of TypeOK.                                                    *)
TableOK == /\ table \in [Names -> Ids \cup {None}]
           /\ \A a, b \in Names : table[a] = table[b] /\ table[a] # None => a = b
           /\ Rows \subseteq usedIds /\ usedIds \subseteq Ids
CacheOK == idCache \in [Keys -> 0..IdTTL] /\ listCache \in [Queries -> ListEntry \cup {None}]
TasksOK == tasks \in [Slots -> Task \cup {None}]
CausesOK == idCause \in [Keys -> Causes] /\ listCause \in [Queries -> Causes]

LEMMA Parts == TypeOK <=> /\ TableOK /\ CacheOK /\ TasksOK /\ CausesOK
                          /\ import \in Import /\ boots \in 1..MaxBoots
BY DEF TypeOK, TableOK, CacheOK, TasksOK, CausesOK

LEMMA PartsNext == /\ TableOK' /\ CacheOK' /\ TasksOK' /\ CausesOK'
                   /\ import' \in Import /\ boots' \in 1..MaxBoots
                   => TypeOK'
BY DEF TypeOK, TableOK, CacheOK, TasksOK, CausesOK

LEMMA SameParts ==
    /\ CacheOK /\ UNCHANGED <<idCache, listCache>> => CacheOK'
    /\ TasksOK /\ UNCHANGED tasks => TasksOK'
    /\ /\ CausesOK
       /\ UNCHANGED idCause \/ idCause' \in [Keys -> Causes]
       /\ UNCHANGED listCause \/ listCause' \in [Queries -> Causes]
       => CausesOK'
BY DEF CacheOK, TasksOK, CausesOK

-----------------------------------------------------------------------------
(* The data                                                                *)

LEMMA NoneApart == None \notin Ids /\ None \notin Keys /\ None \notin Task /\ None \notin ListEntry
BY NoneAssumption

LEMMA TaskKinds ==
    ASSUME NEW t \in Task
    PROVE  /\ t.op \in {"setId", "setList", "invalidate"}
           /\ t.op = "setId" => t.key \in Keys
           /\ t.op = "setList" => t.query \in Queries /\ t.ids \in SUBSET Ids
           /\ t.op = "invalidate" => /\ t \in Invalidate
                                     /\ t.key \in Keys \cup {None} /\ t.todo \in SUBSET Queries
BY DEF Task, SetId, SetList, Invalidate

LEMMA InvalidateKept ==
    ASSUME NEW t \in Invalidate, NEW q
    PROVE  /\ [t EXCEPT !.key = None] \in Task
           /\ [t EXCEPT !.key = None].op = "invalidate"
           /\ [t EXCEPT !.key = None].key = None /\ [t EXCEPT !.key = None].todo = t.todo
           /\ [t EXCEPT !.todo = @ \ {q}] \in Task
           /\ [t EXCEPT !.todo = @ \ {q}].op = "invalidate"
           /\ [t EXCEPT !.todo = @ \ {q}].key = t.key
           /\ [t EXCEPT !.todo = @ \ {q}].todo = t.todo \ {q}
BY DEF Task, Invalidate

LEMMA Invalidations ==
    /\ InvalidateLists \in Task /\ InvalidateLists.op = "invalidate"
    /\ InvalidateLists.key = None /\ InvalidateLists.todo = Queries
    /\ \A key \in Keys : /\ InvalidateProfile(key) \in Task
                         /\ InvalidateProfile(key).op = "invalidate"
                         /\ InvalidateProfile(key).key = key
                         /\ InvalidateProfile(key).todo = Queries
BY DEF InvalidateLists, InvalidateProfile, Task, Invalidate

LEMMA Blamed ==
    ASSUME CausesOK, CacheOK, NEW keys, NEW queries, NEW cause \in Causes \ {"none"}
    PROVE  /\ BlameKeys(keys, cause) \in [Keys -> Causes]
           /\ BlameLists(queries, cause) \in [Queries -> Causes]
           /\ \A key \in Keys : key \in keys /\ idCache[key] > 0
                                    => BlameKeys(keys, cause)[key] # "none"
           /\ \A key \in Keys : idCause[key] # "none" => BlameKeys(keys, cause)[key] # "none"
           /\ \A q \in Queries : q \in queries /\ listCache[q] # None
                                    => BlameLists(queries, cause)[q] # "none"
           /\ \A q \in Queries : listCause[q] # "none" => BlameLists(queries, cause)[q] # "none"
<1>1. BlameKeys(keys, cause) \in [Keys -> Causes]
  BY DEF BlameKeys, CausesOK
<1>2. BlameLists(queries, cause) \in [Queries -> Causes]
  BY DEF BlameLists, CausesOK
<1>3. \A key \in Keys : BlameKeys(keys, cause)[key] =
        IF key \in keys \cap CachedKeys /\ idCause[key] = "none" THEN cause ELSE idCause[key]
  BY DEF BlameKeys
<1>4. \A q \in Queries : BlameLists(queries, cause)[q] =
        IF q \in queries \cap CachedLists /\ listCause[q] = "none" THEN cause ELSE listCause[q]
  BY DEF BlameLists
<1> QED
  BY <1>1, <1>2, <1>3, <1>4 DEF CachedKeys, CachedLists

LEMMA RealCauses == {"late", "fault", "restart", "spelling"} \subseteq Causes \ {"none"}
BY DEF Causes

-----------------------------------------------------------------------------
(* The goroutines                                                          *)

(* Goroutine t is to invalidate the key, or the list of q.                 *)
IdTask(t, key) == t # None /\ t.op = "invalidate" /\ t.key = key
ListTask(t, q) == t # None /\ t.op = "invalidate" /\ q \in t.todo

LEMMA Pending ==
    /\ \A id : IdPending(id) <=> \E s \in Slots : IdTask(tasks[s], id)
    /\ \A id : IdPending(id)' <=> \E s \in Slots : IdTask(tasks'[s], id)
    /\ \A q : ListPending(q) <=> import.counted \/ \E s \in Slots : ListTask(tasks[s], q)
    /\ \A q : ListPending(q)' <=> import'.counted \/ \E s \in Slots : ListTask(tasks'[s], q)
BY DEF IdPending, ListPending, IdTask, ListTask

LEMMA Spawned ==
    ASSUME TasksOK, NEW t \in Task, Spawn(t)
    PROVE  /\ TasksOK'
           /\ \A s \in Slots : tasks[s] # None => tasks'[s] = tasks[s]
           /\ \E s \in Slots : tasks'[s] = t /\ t # None
<1>1. PICK s \in Slots : tasks[s] = None /\ tasks' = [tasks EXCEPT ![s] = t]
  BY DEF Spawn
<1> QED
  BY <1>1, NoneApart DEF TasksOK

(* Pending invalidations stay pending where goroutines are only added.     *)
LEMMA SpawnKeeps ==
    ASSUME \A s \in Slots : tasks[s] # None => tasks'[s] = tasks[s]
    PROVE  /\ \A id : IdPending(id) => IdPending(id)'
           /\ (import.counted => import'.counted)
              => \A q : ListPending(q) => ListPending(q)'
<1>1. \A s \in Slots : \A id : IdTask(tasks[s], id) => IdTask(tasks'[s], id)
  BY DEF IdTask
<1>2. \A s \in Slots : \A q : ListTask(tasks[s], q) => ListTask(tasks'[s], q)
  BY DEF ListTask
<1> QED
  BY <1>1, <1>2, Pending

(* A goroutine that ends, or has done a part of its work.                  *)
LEMMA SlotStep ==
    ASSUME TasksOK, NEW s \in Slots, NEW t \in Task \cup {None},
           tasks' = [tasks EXCEPT ![s] = t]
    PROVE  /\ TasksOK'
           /\ \A id : IdPending(id) /\ (IdTask(tasks[s], id) => IdTask(t, id))
                        => IdPending(id)'
           /\ \A q : /\ ListPending(q) /\ (import.counted => import'.counted)
                     /\ ListTask(tasks[s], q) => ListTask(t, q)
                     => ListPending(q)'
<1>1. TasksOK'
  BY DEF TasksOK
<1>2. \A u \in Slots : tasks'[u] = IF u = s THEN t ELSE tasks[u]
  BY DEF TasksOK
<1>3. \A id : IdPending(id) /\ (IdTask(tasks[s], id) => IdTask(t, id)) => IdPending(id)'
  BY <1>2, Pending
<1>4. \A q : /\ ListPending(q) /\ (import.counted => import'.counted)
             /\ ListTask(tasks[s], q) => ListTask(t, q)
             => ListPending(q)'
  BY <1>2, Pending
<1> QED
  BY <1>1, <1>3, <1>4

-----------------------------------------------------------------------------
(* What the conjuncts need of a step that leaves their part of the cache   *)
(* as it is                                                                *)

(* No row goes, and no invalidation is forgotten.                          *)
LEMMA IdFrame ==
    ASSUME StaleIdHasCause, UNCHANGED <<idCache, idCause>>, Rows \subseteq Rows',
           \A key \in Keys : IdPending(key) => IdPending(key)'
    PROVE  StaleIdHasCause'
BY DEF StaleIdHasCause, StaleId, Keys

(* The table stays, and no invalidation is forgotten.                      *)
LEMMA ListFrame ==
    ASSUME StaleListHasCause, UNCHANGED <<table, listCache, listCause>>,
           \A q \in Queries : ListPending(q) => ListPending(q)'
    PROVE  StaleListHasCause'
<1>1. \A q : Listed(q)' = Listed(q)
  BY DEF Listed
<1> QED
  BY <1>1 DEF StaleListHasCause, StaleList

(* Every list is to be invalidated.                                        *)
LEMMA AllPending ==
    ASSUME NEW s \in Slots, NEW t, t # None, tasks'[s] = t, t.op = "invalidate",
           t.todo = Queries
    PROVE  StaleListHasCause'
<1>1. \A q \in Queries : ListPending(q)'
  BY Pending DEF ListTask
<1> QED
  BY <1>1 DEF StaleListHasCause

(* The lists that a step changes, or whose invalidation it loses, are      *)
(* blamed on it.                                                           *)
LEMMA ListsBlamed ==
    ASSUME StaleListHasCause, CausesOK, CacheOK, UNCHANGED listCache,
           NEW queries, Changed \subseteq queries, NEW cause \in Causes \ {"none"},
           listCause' = BlameLists(queries, cause),
           \A q \in Queries : ListPending(q) => ListPending(q)' \/ q \in queries
    PROVE  StaleListHasCause' /\ listCause' \in [Queries -> Causes]
<1>1. /\ listCause' \in [Queries -> Causes]
      /\ \A q \in Queries : q \in queries /\ listCache[q] # None => listCause'[q] # "none"
      /\ \A q \in Queries : listCause[q] # "none" => listCause'[q] # "none"
  BY Blamed
<1>2. \A q \in Queries : q \notin queries => Listed(q)' = Listed(q)
  BY DEF Changed
<1>3. \A q \in Queries : StaleList(q)' => listCache[q] # None /\ (q \in queries \/ StaleList(q))
  BY <1>2 DEF StaleList
<1> QED
  BY <1>1, <1>3 DEF StaleListHasCause

LEMMA TableFrame ==
    ASSUME TableOK, UNCHANGED <<table, usedIds>>
    PROVE  TableOK' /\ Rows' = Rows
BY DEF TableOK, Rows

-----------------------------------------------------------------------------
(* The rows                                                                *)

(* New rows for names that have none, with ids drawn for them.             *)
LEMMA RowsGrow ==
    ASSUME TableOK, NEW new \in SUBSET Names, \A n \in new : table[n] = None,
           NEW ids \in Draws(new), table' = Inserted(new, ids),
           usedIds' = usedIds \cup {ids[n] : n \in new}
    PROVE  TableOK' /\ Rows \subseteq Rows'
<1>1. /\ ids \in [new -> Ids \ usedIds]
      /\ \A a, b \in new : ids[a] = ids[b] => a = b
  BY DEF Draws
<1>2. \A n \in Names : table'[n] = IF n \in new THEN ids[n] ELSE table[n]
  BY DEF Inserted
<1>3. table' \in [Names -> Ids \cup {None}]
  BY <1>1 DEF Inserted, TableOK
<1>4. \A n \in Names : table[n] # None => table[n] \in usedIds /\ table[n] \in Ids
  BY DEF TableOK, Rows
<1>5. \A a, b \in Names : table'[a] = table'[b] /\ table'[a] # None => a = b
  BY <1>1, <1>2, <1>4 DEF TableOK
<1>6. Rows \subseteq Rows'
  BY <1>2 DEF Rows
<1>7. Rows' \subseteq usedIds'
  BY <1>1, <1>2, <1>4 DEF Rows
<1>8. usedIds' \subseteq Ids
  BY <1>1 DEF TableOK
<1> QED
  BY <1>3, <1>5, <1>6, <1>7, <1>8 DEF TableOK

LEMMA RowCreated ==
    ASSUME TableOK, NEW n \in Names, table[n] = None, NEW id \in Ids \ usedIds,
           table' = [table EXCEPT ![n] = id], usedIds' = usedIds \cup {id}
    PROVE  TableOK' /\ Rows \subseteq Rows'
<1>1. \A m \in Names : table'[m] = IF m = n THEN id ELSE table[m]
  BY DEF TableOK
<1>2. table' \in [Names -> Ids \cup {None}]
  BY DEF TableOK
<1>3. \A m \in Names : table[m] # None => table[m] \in usedIds /\ table[m] \in Ids
  BY DEF TableOK, Rows
<1>4. \A a, b \in Names : table'[a] = table'[b] /\ table'[a] # None => a = b
  BY <1>1, <1>3 DEF TableOK
<1>5. Rows \subseteq Rows'
  BY <1>1 DEF Rows
<1>6. Rows' \subseteq usedIds'
  BY <1>1, <1>3 DEF Rows
<1> QED
  BY <1>2, <1>4, <1>5, <1>6 DEF TableOK

LEMMA RowDeleted ==
    ASSUME TableOK, NEW n \in Names, table[n] # None,
           table' = [table EXCEPT ![n] = None], UNCHANGED usedIds
    PROVE  TableOK' /\ Rows \subseteq Rows' \cup {table[n]} /\ table[n] \in Ids
<1>1. \A m \in Names : table'[m] = IF m = n THEN None ELSE table[m]
  BY DEF TableOK
<1>2. table' \in [Names -> Ids \cup {None}]
  BY DEF TableOK
<1>3. \A a, b \in Names : table'[a] = table'[b] /\ table'[a] # None => a = b
  BY <1>1 DEF TableOK
<1>4. Rows \subseteq Rows' \cup {table[n]}
  BY <1>1 DEF Rows
<1>5. Rows' \subseteq usedIds'
  BY <1>1 DEF Rows, TableOK
<1>6. table[n] \in Ids
  BY DEF TableOK
<1> QED
  BY <1>2, <1>3, <1>4, <1>5, <1>6 DEF TableOK

-----------------------------------------------------------------------------
(* The steps                                                               *)

LEMMA InitInv == Init => Inv
<1> SUFFICES ASSUME Init PROVE Inv
  OBVIOUS
<1>1. PICK ids \in [Seeded -> Ids] :
        /\ \A a, b \in Seeded : ids[a] = ids[b] => a = b
        /\ table = [n \in Names |-> IF n \in Seeded THEN ids[n] ELSE None]
        /\ usedIds = {ids[n] : n \in Seeded}
  BY DEF Init
<1>2. TableOK
  BY <1>1, ConstantsAssumption, NoneApart DEF TableOK, Rows
<1>3. CacheOK
  BY ConstantsAssumption DEF Init, CacheOK
<1>4. TasksOK /\ CausesOK
  BY DEF Init, TasksOK, CausesOK, Causes
<1>5. import \in Import /\ CountsWhileRunning
  BY DEF Init, Import, NoImport, CountsWhileRunning
<1>6. boots \in 1..MaxBoots
  BY ConstantsAssumption DEF Init
<1>7. StaleIdHasCause
  BY DEF Init, StaleIdHasCause, StaleId
<1>8. StaleListHasCause
  BY DEF Init, StaleListHasCause, StaleList
<1> QED
  BY <1>2, <1>3, <1>4, <1>5, <1>6, <1>7, <1>8, Parts DEF Inv

(* A read starts a goroutine, and changes nothing else.                    *)
LEMMA ReadInv ==
    ASSUME Inv, NEW t \in Task, Spawn(t),
           UNCHANGED <<table, usedIds, idCache, listCache, import, boots, idCause, listCause>>
    PROVE  Inv'
<1>1. TasksOK' /\ \A s \in Slots : tasks[s] # None => tasks'[s] = tasks[s]
  BY Spawned, Parts DEF Inv
<1>2. /\ \A id : IdPending(id) => IdPending(id)'
      /\ \A q : ListPending(q) => ListPending(q)'
  BY <1>1, SpawnKeeps
<1>3. TableOK' /\ Rows' = Rows
  BY TableFrame, Parts DEF Inv
<1>4. TypeOK'
  BY <1>1, <1>3, Parts, SameParts, PartsNext DEF Inv
<1>5. StaleIdHasCause'
  BY <1>2, <1>3, IdFrame DEF Inv
<1>6. StaleListHasCause'
  BY <1>2, ListFrame DEF Inv
<1> QED
  BY <1>4, <1>5, <1>6 DEF Inv, CountsWhileRunning

LEMMA GetProfileInv ==
    ASSUME Inv, NEW key \in Keys, GetProfile(key)
    PROVE  Inv'
<1>1. [op |-> "setId", key |-> key] \in Task
  BY DEF Task, SetId
<1> QED
  BY <1>1, ReadInv DEF GetProfile

LEMMA ListProfilesInv ==
    ASSUME Inv, NEW q \in Queries, ListProfiles(q)
    PROVE  Inv'
<1>1. Listed(q) \in SUBSET Ids
  BY Parts, ConstantsAssumption DEF Inv, Listed, TableOK
<1>2. [op |-> "setList", query |-> q, ids |-> Listed(q)] \in Task
  BY <1>1 DEF Task, SetList
<1> QED
  BY <1>2, ReadInv DEF ListProfiles

LEMMA CreateProfileInv ==
    ASSUME Inv, NEW n \in Names, CreateProfile(n)
    PROVE  Inv'
<1>1. /\ UNCHANGED <<idCache, listCache, import, boots, idCause>>
      /\ TableOK /\ CacheOK /\ TasksOK /\ CausesOK
  BY Parts DEF CreateProfile, Inv
<1>2. TableOK' /\ Rows \subseteq Rows'
  BY <1>1, RowCreated DEF CreateProfile
<1>3. /\ TasksOK' /\ listCause' \in [Queries -> Causes]
      /\ \A id : IdPending(id) => IdPending(id)'
      /\ StaleListHasCause'
  <2>1. CASE Spawn(InvalidateLists) /\ UNCHANGED listCause
    <3>1. /\ TasksOK' /\ \A s \in Slots : tasks[s] # None => tasks'[s] = tasks[s]
          /\ \E s \in Slots : tasks'[s] = InvalidateLists /\ InvalidateLists # None
      BY <1>1, <2>1, Spawned, Invalidations
    <3>2. StaleListHasCause'
      BY <3>1, AllPending, Invalidations
    <3> QED
      BY <1>1, <2>1, <3>1, <3>2, SpawnKeeps DEF CausesOK
  <2>2. CASE UNCHANGED tasks /\ listCause' = BlameLists(Changed, "fault")
    <3>1. \A q : ListPending(q) => ListPending(q)'
      BY <1>1, <2>2, Pending
    <3>2. StaleListHasCause' /\ listCause' \in [Queries -> Causes]
      BY <1>1, <2>2, <3>1, ListsBlamed, RealCauses DEF Inv
    <3> QED
      BY <1>1, <2>2, <3>2, SpawnKeeps DEF TasksOK
  <2> QED
    BY <2>1, <2>2 DEF CreateProfile
<1>4. TypeOK'
  BY <1>1, <1>2, <1>3, Parts, SameParts, PartsNext DEF Inv
<1>5. StaleIdHasCause'
  BY <1>1, <1>2, <1>3, IdFrame DEF Inv
<1> QED
  BY <1>1, <1>3, <1>4, <1>5 DEF Inv, CountsWhileRunning

LEMMA DeleteProfileInv ==
    ASSUME Inv, NEW n \in Names, NEW spelling \in Spellings, DeleteProfile(n, spelling)
    PROVE  Inv'
<1> PICK gone, key : gone = table[n] /\ key = [id |-> gone, spelling |-> spelling]
  OBVIOUS
<1>1. /\ UNCHANGED <<usedIds, idCache, listCache, import, boots>>
      /\ TableOK /\ CacheOK /\ TasksOK /\ CausesOK
  BY Parts DEF DeleteProfile, Inv
<1>2. TableOK' /\ Rows \subseteq Rows' \cup {gone} /\ gone \in Ids
  BY <1>1, RowDeleted DEF DeleteProfile
<1>3. key \in Keys /\ key.id = gone
  BY <1>2 DEF Keys
<1>4. \A k \in Keys : StaleId(k)' => idCache[k] > 0 /\ (StaleId(k) \/ k \in Spelt(gone))
  BY <1>1, <1>2 DEF StaleId, Keys, Spelt
<1>5. CASE /\ Spawn(InvalidateProfile(key))
           /\ idCause' = BlameKeys(Spelt(gone) \ {key}, "spelling") /\ UNCHANGED listCause
  <2>1. /\ TasksOK' /\ \A s \in Slots : tasks[s] # None => tasks'[s] = tasks[s]
        /\ \E s \in Slots : tasks'[s] = InvalidateProfile(key)
                            /\ InvalidateProfile(key) # None
    BY <1>1, <1>3, <1>5, Spawned, Invalidations
  <2>2. StaleListHasCause'
    BY <1>3, <2>1, AllPending, Invalidations
  <2>3. IdPending(key)'
    BY <1>3, <2>1, Pending, Invalidations DEF IdTask
  <2>4. \A k : IdPending(k) => IdPending(k)'
    BY <2>1, SpawnKeeps
  <2>5. /\ idCause' \in [Keys -> Causes]
        /\ \A k \in Keys : k \in Spelt(gone) \ {key} /\ idCache[k] > 0 => idCause'[k] # "none"
        /\ \A k \in Keys : idCause[k] # "none" => idCause'[k] # "none"
    <3>1. PICK keys : keys = Spelt(gone) \ {key}
      OBVIOUS
    <3>2. "spelling" \in Causes \ {"none"} /\ idCause' = BlameKeys(keys, "spelling")
      BY <1>5, <3>1, RealCauses
    <3> QED
      BY <1>1, <3>1, <3>2, Blamed
  <2>6. StaleIdHasCause'
    BY <1>4, <2>3, <2>4, <2>5 DEF Inv, StaleIdHasCause
  <2>7. TypeOK'
    BY <1>1, <1>2, <1>5, <2>1, <2>5, Parts, SameParts, PartsNext DEF Inv
  <2> QED
    BY <1>1, <2>2, <2>6, <2>7 DEF Inv, CountsWhileRunning
<1>6. CASE /\ UNCHANGED tasks
           /\ idCause' = BlameKeys(Spelt(gone), "fault")
           /\ listCause' = BlameLists(Changed, "fault")
  <2>1. /\ \A k : IdPending(k) => IdPending(k)'
        /\ \A q : ListPending(q) => ListPending(q)'
    BY <1>1, <1>6, Pending
  <2>2. StaleListHasCause' /\ listCause' \in [Queries -> Causes]
    BY <1>1, <1>6, <2>1, ListsBlamed, RealCauses DEF Inv
  <2>3. /\ idCause' \in [Keys -> Causes]
        /\ \A k \in Keys : k \in Spelt(gone) /\ idCache[k] > 0 => idCause'[k] # "none"
        /\ \A k \in Keys : idCause[k] # "none" => idCause'[k] # "none"
    BY <1>1, <1>6, Blamed, RealCauses
  <2>4. StaleIdHasCause'
    BY <1>4, <2>1, <2>3 DEF Inv, StaleIdHasCause
  <2>5. TypeOK'
    BY <1>1, <1>2, <1>6, <2>2, <2>3, Parts, SameParts, PartsNext DEF Inv
  <2> QED
    BY <1>1, <2>2, <2>4, <2>5 DEF Inv, CountsWhileRunning
<1> QED
  BY <1>3, <1>5, <1>6 DEF DeleteProfile

LEMMA ImportBeginsInv ==
    ASSUME Inv, ImportBegins
    PROVE  Inv'
<1>1. /\ UNCHANGED <<table, usedIds, idCache, listCache, tasks, boots, idCause, listCause>>
      /\ ~import.counted /\ import' = [running |-> TRUE, counted |-> FALSE]
  BY DEF ImportBegins, NoImport, Inv, CountsWhileRunning
<1>2. TableOK' /\ Rows' = Rows
  BY <1>1, TableFrame, Parts DEF Inv
<1>3. /\ \A id : IdPending(id) => IdPending(id)'
      /\ \A q : ListPending(q) => ListPending(q)'
  BY <1>1, Pending
<1>4. import' \in Import /\ CountsWhileRunning'
  BY <1>1 DEF Import, CountsWhileRunning
<1>5. TypeOK'
  BY <1>1, <1>2, <1>4, Parts, SameParts, PartsNext DEF Inv
<1>6. StaleIdHasCause'
  BY <1>1, <1>2, <1>3, IdFrame DEF Inv
<1>7. StaleListHasCause'
  BY <1>1, <1>3, ListFrame DEF Inv
<1> QED
  BY <1>4, <1>5, <1>6, <1>7 DEF Inv

LEMMA ImportChunkInv ==
    ASSUME Inv, NEW names \in SUBSET Names, ImportChunk(names)
    PROVE  Inv'
<1>1. /\ UNCHANGED <<idCache, listCache, tasks, boots, idCause>>
      /\ TableOK /\ CacheOK /\ TasksOK /\ CausesOK /\ import \in Import /\ import.running
  BY Parts DEF ImportChunk, Inv
<1> DEFINE new == {n \in names : table[n] = None}
<1>2. PICK ids \in Draws(new) :
        /\ table' = Inserted(new, ids)
        /\ usedIds' = usedIds \cup {ids[n] : n \in new}
  BY DEF ImportChunk
<1>3. TableOK' /\ Rows \subseteq Rows'
  <2>1. new \in SUBSET Names /\ \A n \in new : table[n] = None
    OBVIOUS
  <2> HIDE DEF new
  <2> QED
    BY <1>1, <1>2, <2>1, RowsGrow
<1>4. \A id : IdPending(id) => IdPending(id)'
  BY <1>1, Pending
<1>5. StaleIdHasCause'
  BY <1>1, <1>3, <1>4, IdFrame DEF Inv
<1>6. CASE import' = [import EXCEPT !.counted = TRUE] /\ UNCHANGED listCause
  <2>1. import' \in Import /\ import'.counted /\ import'.running
    BY <1>1, <1>6 DEF Import
  <2>2. \A q : ListPending(q)'
    BY <2>1, Pending
  <2>3. StaleListHasCause' /\ CountsWhileRunning'
    BY <2>1, <2>2 DEF StaleListHasCause, CountsWhileRunning
  <2>4. TypeOK'
    BY <1>1, <1>3, <1>6, <2>1, Parts, SameParts, PartsNext DEF Inv
  <2> QED
    BY <1>5, <2>3, <2>4 DEF Inv
<1>7. CASE UNCHANGED import /\ listCause' = BlameLists(Changed, "fault")
  <2>0. \A q : ListPending(q) => ListPending(q)'
    BY <1>1, <1>7, Pending
  <2>1. StaleListHasCause' /\ listCause' \in [Queries -> Causes]
    BY <1>1, <1>7, <2>0, ListsBlamed, RealCauses DEF Inv
  <2>2. TypeOK'
    BY <1>1, <1>3, <1>7, <2>1, Parts, SameParts, PartsNext DEF Inv
  <2> QED
    BY <1>5, <1>7, <2>1, <2>2 DEF Inv, CountsWhileRunning
<1> QED
  BY <1>6, <1>7 DEF ImportChunk

LEMMA ImportEndsInv ==
    ASSUME Inv, ImportEnds
    PROVE  Inv'
<1>1. /\ UNCHANGED <<table, usedIds, idCache, listCache, boots, idCause, listCause>>
      /\ import' = [running |-> FALSE, counted |-> FALSE]
      /\ TableOK /\ CacheOK /\ TasksOK /\ CausesOK
  BY Parts DEF ImportEnds, NoImport, Inv
<1>2. TableOK' /\ Rows' = Rows
  BY <1>1, TableFrame
<1>3. import' \in Import /\ CountsWhileRunning'
  BY <1>1 DEF Import, CountsWhileRunning
<1>4. TasksOK' /\ StaleListHasCause' /\ \A id : IdPending(id) => IdPending(id)'
  <2>1. CASE import.counted
    <3>1. /\ TasksOK' /\ \A s \in Slots : tasks[s] # None => tasks'[s] = tasks[s]
          /\ \E s \in Slots : tasks'[s] = InvalidateLists /\ InvalidateLists # None
      BY <1>1, <2>1, Spawned, Invalidations DEF ImportEnds
    <3>2. StaleListHasCause'
      BY <3>1, AllPending, Invalidations
    <3> QED
      BY <3>1, <3>2, SpawnKeeps
  <2>2. CASE ~import.counted
    <3>1. UNCHANGED tasks
      BY <2>2 DEF ImportEnds
    <3>2. /\ \A id : IdPending(id) => IdPending(id)'
          /\ \A q : ListPending(q) => ListPending(q)'
      BY <2>2, <3>1, Pending
    <3> QED
      BY <1>1, <3>1, <3>2, ListFrame DEF Inv, TasksOK
  <2> QED
    BY <2>1, <2>2
<1>5. TypeOK'
  BY <1>1, <1>2, <1>3, <1>4, Parts, SameParts, PartsNext DEF Inv
<1>6. StaleIdHasCause'
  BY <1>1, <1>2, <1>4, IdFrame DEF Inv
<1> QED
  BY <1>3, <1>4, <1>5, <1>6 DEF Inv

(* A Set of a profile.  Its goroutine had nothing to invalidate.           *)
LEMMA RunSetIdInv ==
    ASSUME Inv, NEW s \in Slots, RunSetId(s)
    PROVE  Inv'
<1>1. /\ UNCHANGED <<table, usedIds, listCache, import, boots, listCause>>
      /\ TableOK /\ CacheOK /\ TasksOK /\ CausesOK
      /\ tasks[s] # None /\ tasks[s].op = "setId" /\ tasks' = [tasks EXCEPT ![s] = None]
  BY Parts DEF RunSetId, Done, Inv
<1>2. PICK key : key = tasks[s].key
  OBVIOUS
<1>3. key \in Keys
  BY <1>1, <1>2, TaskKinds DEF TasksOK
<1>4. /\ idCache' = [idCache EXCEPT ![key] = IdTTL]
      /\ idCause' = [idCause EXCEPT ![key] = IF key.id \in Rows THEN "none" ELSE "late"]
  BY <1>2 DEF RunSetId
<1>5. TableOK' /\ Rows' = Rows
  BY <1>1, TableFrame
<1>6. TasksOK' /\ (\A i : IdPending(i) => IdPending(i)') /\ \A q : ListPending(q) => ListPending(q)'
  BY <1>1, SlotStep DEF IdTask, ListTask
<1>7. CacheOK' /\ CausesOK'
  <2>1. CacheOK'
    <3>1. IdTTL \in 0..IdTTL
      BY ConstantsAssumption
    <3>2. idCache' \in [Keys -> 0..IdTTL]
      BY <1>1, <1>4, <3>1 DEF CacheOK
    <3> QED
      BY <1>1, <3>2 DEF CacheOK
  <2>2. CausesOK'
    BY <1>1, <1>3, <1>4 DEF CausesOK, Causes
  <2> QED
    BY <2>1, <2>2
<1>8. StaleIdHasCause'
  <2>1. \A k \in Keys : k # key => idCache'[k] = idCache[k] /\ idCause'[k] = idCause[k]
    BY <1>1, <1>3, <1>4 DEF CacheOK, CausesOK
  <2>2. key.id \notin Rows => idCause'[key] # "none"
    BY <1>1, <1>3, <1>4 DEF CausesOK
  <2>3. \A k \in Keys : StaleId(k)' => k.id \notin Rows /\ (k = key \/ StaleId(k))
    BY <1>5, <2>1 DEF StaleId
  <2> QED
    BY <1>6, <2>1, <2>2, <2>3 DEF Inv, StaleIdHasCause
<1>9. StaleListHasCause'
  BY <1>1, <1>6, ListFrame DEF Inv
<1>10. TypeOK'
  BY <1>1, <1>5, <1>6, <1>7, Parts, PartsNext DEF Inv
<1> QED
  BY <1>1, <1>8, <1>9, <1>10 DEF Inv, CountsWhileRunning

LEMMA RunSetListInv ==
    ASSUME Inv, NEW s \in Slots, RunSetList(s)
    PROVE  Inv'
<1>1. /\ UNCHANGED <<table, usedIds, idCache, import, boots, idCause>>
      /\ TableOK /\ CacheOK /\ TasksOK /\ CausesOK
      /\ tasks[s] # None /\ tasks[s].op = "setList" /\ tasks' = [tasks EXCEPT ![s] = None]
  BY Parts DEF RunSetList, Done, Inv
<1>2. PICK q, ids : q = tasks[s].query /\ ids = tasks[s].ids
  OBVIOUS
<1>3. q \in Queries /\ ids \in SUBSET Ids
  BY <1>1, <1>2, TaskKinds DEF TasksOK
<1>4. /\ listCache' = [listCache EXCEPT ![q] = [ids |-> ids, ttl |-> ListTTL]]
      /\ listCause' = [listCause EXCEPT ![q] = IF ids = Listed(q) THEN "none" ELSE "late"]
  BY <1>2 DEF RunSetList
<1>5. TableOK' /\ Rows' = Rows
  BY <1>1, TableFrame
<1>6. TasksOK' /\ (\A i : IdPending(i) => IdPending(i)') /\ \A p : ListPending(p) => ListPending(p)'
  BY <1>1, SlotStep DEF IdTask, ListTask
<1>7. CacheOK' /\ CausesOK'
  <2>1. [ids |-> ids, ttl |-> ListTTL] \in ListEntry
    BY <1>3, ConstantsAssumption DEF ListEntry
  <2>2. CacheOK'
    BY <1>1, <1>4, <2>1 DEF CacheOK
  <2>3. CausesOK'
    BY <1>1, <1>4 DEF CausesOK, Causes
  <2> QED
    BY <2>2, <2>3
<1>8. StaleIdHasCause'
  BY <1>1, <1>5, <1>6, IdFrame DEF Inv
<1>9. StaleListHasCause'
  <2>1. \A p : Listed(p)' = Listed(p)
    BY <1>1 DEF Listed
  <2>2. \A p \in Queries : p # q => listCache'[p] = listCache[p] /\ listCause'[p] = listCause[p]
    BY <1>1, <1>3, <1>4 DEF CacheOK, CausesOK
  <2>3. /\ listCache'[q].ids = ids
        /\ ids # Listed(q) => listCause'[q] # "none"
    BY <1>1, <1>3, <1>4 DEF CacheOK, CausesOK
  <2>4. \A p \in Queries : StaleList(p)' => ListPending(p)' \/ listCause'[p] # "none"
    BY <1>6, <2>1, <2>2, <2>3 DEF Inv, StaleListHasCause, StaleList
  <2> QED
    BY <2>4 DEF StaleListHasCause
<1>10. TypeOK'
  BY <1>1, <1>5, <1>6, <1>7, Parts, PartsNext DEF Inv
<1> QED
  BY <1>1, <1>8, <1>9, <1>10 DEF Inv, CountsWhileRunning

(* The id of a deleted profile: it is gone from Redis, or a fault is its   *)
(* cause.                                                                  *)
LEMMA RunDeleteIdInv ==
    ASSUME Inv, NEW s \in Slots, RunDeleteId(s)
    PROVE  Inv'
<1>1. /\ UNCHANGED <<table, usedIds, listCache, import, boots, listCause>>
      /\ TableOK /\ CacheOK /\ TasksOK /\ CausesOK
  BY Parts DEF RunDeleteId, Inv
<1>2. PICK t : t = tasks[s]
  OBVIOUS
<1>3. t # None /\ t.op = "invalidate" /\ t.key # None /\ tasks[s] = t
  BY <1>2 DEF RunDeleteId
<1>4. t \in Invalidate /\ t.key \in Keys
  BY <1>1, <1>3, TaskKinds DEF TasksOK
<1>5. PICK rest : rest = [t EXCEPT !.key = None]
  OBVIOUS
<1>6. rest \in Task /\ rest.op = "invalidate" /\ rest.todo = t.todo
  BY <1>4, <1>5, InvalidateKept
<1>7. tasks' = [tasks EXCEPT ![s] = rest]
  BY <1>1, <1>2, <1>5 DEF RunDeleteId, TasksOK
<1>8. TasksOK'
  BY <1>1, <1>6, <1>7, SlotStep
<1>9. \A k \in Keys : IdPending(k) /\ k # t.key => IdPending(k)'
  BY <1>1, <1>3, <1>6, <1>7, SlotStep DEF IdTask
<1>10. \A q : ListPending(q) => ListPending(q)'
  BY <1>1, <1>3, <1>6, <1>7, SlotStep, NoneApart DEF ListTask
<1>11. TableOK' /\ Rows' = Rows
  BY <1>1, TableFrame
<1>12. StaleListHasCause'
  BY <1>1, <1>10, ListFrame DEF Inv
<1>13. CacheOK' /\ CausesOK' /\ StaleIdHasCause'
  <2>1. CASE /\ idCache' = [idCache EXCEPT ![t.key] = 0]
             /\ idCause' = [idCause EXCEPT ![t.key] = "none"]
    <3>1. CacheOK' /\ CausesOK'
      BY <1>1, <1>4, <2>1, ConstantsAssumption DEF CacheOK, CausesOK, Causes
    <3>2. \A k \in Keys : StaleId(k)' => StaleId(k) /\ k # t.key
      BY <1>1, <1>4, <1>11, <2>1 DEF StaleId, CacheOK
    <3>3. \A k \in Keys : k # t.key => idCause'[k] = idCause[k]
      BY <1>1, <1>4, <2>1 DEF CausesOK
    <3> QED
      BY <1>9, <3>1, <3>2, <3>3 DEF Inv, StaleIdHasCause
  <2>2. CASE UNCHANGED idCache /\ idCause' = BlameKeys({t.key}, "fault")
    <3>1. /\ idCause' \in [Keys -> Causes]
          /\ idCache[t.key] > 0 => idCause'[t.key] # "none"
          /\ \A k \in Keys : idCause[k] # "none" => idCause'[k] # "none"
      BY <1>1, <1>4, <2>2, Blamed, RealCauses
    <3>2. \A k \in Keys : StaleId(k)' => StaleId(k) /\ (k = t.key => idCache[t.key] > 0)
      BY <1>11, <2>2 DEF StaleId
    <3>3. StaleIdHasCause'
      BY <1>9, <3>1, <3>2 DEF Inv, StaleIdHasCause
    <3> QED
      BY <1>1, <2>2, <3>1, <3>3, SameParts
  <2> QED
    BY <1>2, <2>1, <2>2 DEF RunDeleteId
<1>14. TypeOK'
  BY <1>1, <1>8, <1>11, <1>13, Parts, PartsNext DEF Inv
<1> QED
  BY <1>1, <1>12, <1>13, <1>14 DEF Inv, CountsWhileRunning

LEMMA RunDeleteListsInv ==
    ASSUME Inv, NEW s \in Slots, RunDeleteLists(s)
    PROVE  Inv'
<1>1. /\ UNCHANGED <<table, usedIds, idCache, import, boots, idCause>>
      /\ TableOK /\ CacheOK /\ TasksOK /\ CausesOK
  BY Parts DEF RunDeleteLists, Inv
<1>2. PICK t : t = tasks[s]
  OBVIOUS
<1>3. t # None /\ t.op = "invalidate" /\ t.key = None
  BY <1>2 DEF RunDeleteLists
<1>4. t \in Invalidate /\ t.todo \in SUBSET Queries
  BY <1>1, <1>2, <1>3, TaskKinds DEF TasksOK
<1>5. PICK q \in t.todo :
        /\ listCache' = [listCache EXCEPT ![q] = None]
        /\ listCause' = [listCause EXCEPT ![q] = "none"]
        /\ tasks' = [tasks EXCEPT ![s] = IF t.todo = {q} THEN None
                                         ELSE [t EXCEPT !.todo = @ \ {q}]]
  BY <1>2 DEF RunDeleteLists
<1>6. PICK less : less = [t EXCEPT !.todo = @ \ {q}]
  OBVIOUS
<1>7. less \in Task /\ less.op = "invalidate" /\ less.key = None /\ less.todo = t.todo \ {q}
  BY <1>3, <1>4, <1>6, InvalidateKept
<1>8. PICK rest : rest = IF t.todo = {q} THEN None ELSE less
  OBVIOUS
<1>9. tasks' = [tasks EXCEPT ![s] = rest]
  BY <1>5, <1>6, <1>8
<1>10. rest \in Task \cup {None}
  BY <1>7, <1>8
<1>11. TasksOK'
  BY <1>1, <1>9, <1>10, SlotStep
<1>12. \A key \in Keys : IdPending(key) => IdPending(key)'
  BY <1>1, <1>2, <1>3, <1>9, <1>10, SlotStep, NoneApart DEF IdTask
<1>13. \A p : ListPending(p) /\ p # q => ListPending(p)'
  <2>1. \A p : p # q /\ ListTask(t, p) => ListTask(rest, p)
    BY <1>7, <1>8, NoneApart DEF ListTask
  <2> QED
    BY <1>1, <1>2, <1>9, <1>10, <2>1, SlotStep
<1>14. TableOK' /\ Rows' = Rows
  BY <1>1, TableFrame
<1>15. StaleIdHasCause'
  BY <1>1, <1>12, <1>14, IdFrame DEF Inv
<1>16. q \in Queries
  BY <1>4
<1>17. CacheOK' /\ CausesOK'
  BY <1>1, <1>5, <1>16 DEF CacheOK, CausesOK, Causes
<1>18. StaleListHasCause'
  <2>1. \A p : Listed(p)' = Listed(p)
    BY <1>1 DEF Listed
  <2>2. \A p \in Queries : p # q => listCache'[p] = listCache[p] /\ listCause'[p] = listCause[p]
    BY <1>1, <1>5 DEF CacheOK, CausesOK
  <2>3. listCache'[q] = None
    BY <1>1, <1>5, <1>16 DEF CacheOK
  <2>4. \A p \in Queries : StaleList(p)' => StaleList(p) /\ p # q
    BY <2>1, <2>2, <2>3 DEF StaleList
  <2> QED
    BY <1>13, <2>2, <2>4 DEF Inv, StaleListHasCause
<1>19. TypeOK'
  BY <1>1, <1>11, <1>14, <1>17, Parts, PartsNext DEF Inv
<1> QED
  BY <1>1, <1>15, <1>18, <1>19 DEF Inv, CountsWhileRunning

(* A goroutine fails: what it was to invalidate has a fault as its cause.  *)
LEMMA TaskFailsInv ==
    ASSUME Inv, NEW s \in Slots, TaskFails(s)
    PROVE  Inv'
<1>1. /\ UNCHANGED <<table, usedIds, idCache, listCache, import, boots>>
      /\ TableOK /\ CacheOK /\ TasksOK /\ CausesOK
      /\ tasks[s] # None /\ tasks' = [tasks EXCEPT ![s] = None]
  BY Parts DEF TaskFails, Done, Inv
<1>2. PICK t : t = tasks[s]
  OBVIOUS
<1>3. TableOK' /\ Rows' = Rows
  BY <1>1, TableFrame
<1>4. TasksOK'
  BY <1>1, SlotStep
<1>5. \A id : IdPending(id) /\ ~IdTask(t, id) => IdPending(id)'
  BY <1>1, <1>2, SlotStep
<1>6. \A q : ListPending(q) /\ ~ListTask(t, q) => ListPending(q)'
  BY <1>1, <1>2, SlotStep
<1>7. CASE t.op = "invalidate"
  <2>1. idCause' = BlameKeys({t.key}, "fault") /\ listCause' = BlameLists(t.todo, "fault")
    BY <1>2, <1>7 DEF TaskFails
  <2>2. CausesOK'
    BY <1>1, <2>1, Blamed, RealCauses, SameParts
  <2>3. /\ \A k \in Keys : k = t.key /\ idCache[k] > 0 => idCause'[k] # "none"
        /\ \A k \in Keys : idCause[k] # "none" => idCause'[k] # "none"
    BY <1>1, <2>1, Blamed, RealCauses
  <2>4. \A k \in Keys : StaleId(k)' => StaleId(k) /\ idCache[k] > 0
    BY <1>1, <1>3 DEF StaleId
  <2>5. StaleIdHasCause'
    BY <1>5, <2>3, <2>4 DEF Inv, StaleIdHasCause, IdTask
  <2>6. /\ \A q \in Queries : q \in t.todo /\ listCache[q] # None => listCause'[q] # "none"
        /\ \A q \in Queries : listCause[q] # "none" => listCause'[q] # "none"
    BY <1>1, <2>1, Blamed, RealCauses
  <2>7. \A q \in Queries : StaleList(q)' => StaleList(q) /\ listCache[q] # None
    BY <1>1 DEF StaleList, Listed
  <2>8. StaleListHasCause'
    BY <1>6, <2>6, <2>7 DEF Inv, StaleListHasCause, ListTask
  <2>9. TypeOK'
    BY <1>1, <1>3, <1>4, <2>2, Parts, SameParts, PartsNext DEF Inv
  <2> QED
    BY <1>1, <2>5, <2>8, <2>9 DEF Inv, CountsWhileRunning
<1>8. CASE t.op # "invalidate"
  <2>1. UNCHANGED <<idCause, listCause>>
    BY <1>2, <1>8 DEF TaskFails
  <2>2. /\ \A id : IdPending(id) => IdPending(id)'
        /\ \A q : ListPending(q) => ListPending(q)'
    BY <1>5, <1>6, <1>8 DEF IdTask, ListTask
  <2>3. StaleIdHasCause'
    BY <1>1, <1>3, <2>1, <2>2, IdFrame DEF Inv
  <2>4. StaleListHasCause'
    BY <1>1, <2>1, <2>2, ListFrame DEF Inv
  <2>5. TypeOK'
    BY <1>1, <1>3, <1>4, <2>1, Parts, SameParts, PartsNext DEF Inv
  <2> QED
    BY <1>1, <2>3, <2>4, <2>5 DEF Inv, CountsWhileRunning
<1> QED
  BY <1>7, <1>8

LEMMA AgedEntry ==
    ASSUME NEW e \in ListEntry \cup {None}
    PROVE  /\ Aged(e) \in ListEntry \cup {None}
           /\ Aged(e) # None => e # None /\ Aged(e).ids = e.ids
<1>1. CASE e = None \/ e.ttl = 1
  BY <1>1 DEF Aged
<1>2. CASE e # None /\ e.ttl # 1
  <2>1. e \in ListEntry /\ e.ttl \in 1..ListTTL /\ Aged(e) = [e EXCEPT !.ttl = @ - 1]
    BY <1>2 DEF ListEntry, Aged
  <2>2. e.ttl - 1 \in 1..ListTTL
    BY <1>2, <2>1, ConstantsAssumption
  <2> QED
    BY <1>2, <2>1, <2>2 DEF ListEntry
<1> QED
  BY <1>1, <1>2

(* What is left in Redis has the cause that it had.                        *)
LEMMA TickInv ==
    ASSUME Inv, Tick
    PROVE  Inv'
<1>1. /\ UNCHANGED <<table, usedIds, tasks, import, boots>>
      /\ TableOK /\ CacheOK /\ TasksOK /\ CausesOK
  BY Parts DEF Tick, Inv
<1>2. /\ idCache' = [key \in Keys |-> IF idCache[key] = 0 THEN 0 ELSE idCache[key] - 1]
      /\ listCache' = [q \in Queries |-> Aged(listCache[q])]
      /\ idCause' = [key \in Keys |-> IF idCache'[key] = 0 THEN "none" ELSE idCause[key]]
      /\ listCause' = [q \in Queries |-> IF listCache'[q] = None THEN "none" ELSE listCause[q]]
  BY DEF Tick
<1>3. TableOK' /\ Rows' = Rows
  BY <1>1, TableFrame
<1>4. /\ \A id : IdPending(id) => IdPending(id)'
      /\ \A q : ListPending(q) => ListPending(q)'
  BY <1>1, Pending
<1>5. \A key \in Keys : idCache[key] \in 0..IdTTL
  BY <1>1 DEF CacheOK
<1>6. \A q \in Queries : /\ Aged(listCache[q]) \in ListEntry \cup {None}
                         /\ Aged(listCache[q]) # None =>
                                listCache[q] # None /\ Aged(listCache[q]).ids = listCache[q].ids
  BY <1>1, AgedEntry DEF CacheOK
<1>7. CacheOK'
  <2>1. \A n \in 0..IdTTL : (IF n = 0 THEN 0 ELSE n - 1) \in 0..IdTTL
    BY ConstantsAssumption
  <2>2. idCache' \in [Keys -> 0..IdTTL]
    BY <1>2, <1>5, <2>1
  <2>3. listCache' \in [Queries -> ListEntry \cup {None}]
    BY <1>2, <1>6
  <2> QED
    BY <2>2, <2>3 DEF CacheOK
<1>8. CausesOK'
  BY <1>1, <1>2 DEF CausesOK, Causes
<1>9. StaleIdHasCause'
  <2>1. \A key \in Keys : idCache'[key] > 0 => idCache[key] > 0 /\ idCause'[key] = idCause[key]
    BY <1>2, <1>5
  <2> QED
    BY <1>3, <1>4, <2>1 DEF Inv, StaleIdHasCause, StaleId
<1>10. StaleListHasCause'
  <2>1. \A q \in Queries : listCache'[q] # None =>
            /\ listCache[q] # None /\ listCache'[q].ids = listCache[q].ids
            /\ listCause'[q] = listCause[q]
    BY <1>2, <1>6
  <2>2. \A q : Listed(q)' = Listed(q)
    BY <1>1 DEF Listed
  <2> QED
    BY <1>4, <2>1, <2>2 DEF Inv, StaleListHasCause, StaleList
<1>11. TypeOK'
  BY <1>1, <1>3, <1>7, <1>8, Parts, SameParts, PartsNext DEF Inv
<1> QED
  BY <1>1, <1>9, <1>10, <1>11 DEF Inv, CountsWhileRunning

(* The process stops: the invalidations that were to come do not, and the  *)
(* seeding changes lists.                                                  *)
LEMMA RestartInv ==
    ASSUME Inv, Restart
    PROVE  Inv'
<1>1. /\ UNCHANGED <<idCache, listCache>> /\ boots < MaxBoots /\ boots' = boots + 1
      /\ tasks' = [s \in Slots |-> None] /\ import' = NoImport
      /\ idCause' = BlameKeys({key \in Keys : IdPending(key)}, "restart")
      /\ listCause' = BlameLists({q \in Queries : ListPending(q)} \cup Changed, "restart")
      /\ TableOK /\ CacheOK /\ TasksOK /\ CausesOK /\ boots \in 1..MaxBoots
  BY Parts DEF Restart, Inv
<1>2. PICK new \in {{n \in Seeded : table[n] = None}, {}} :
        \E ids \in Draws(new) : /\ table' = Inserted(new, ids)
                                /\ usedIds' = usedIds \cup {ids[n] : n \in new}
  BY DEF Restart
<1>3. new \in SUBSET Names /\ \A n \in new : table[n] = None
  BY <1>2, ConstantsAssumption
<1>4. TableOK' /\ Rows \subseteq Rows'
  BY <1>1, <1>2, <1>3, RowsGrow
<1>5. import' \in Import /\ CountsWhileRunning'
  BY <1>1 DEF Import, NoImport, CountsWhileRunning
<1>6. boots' \in 1..MaxBoots
  BY <1>1, ConstantsAssumption
<1>7. TasksOK'
  BY <1>1 DEF TasksOK
<1>8. /\ idCause' \in [Keys -> Causes]
      /\ \A key \in Keys : IdPending(key) /\ idCache[key] > 0 => idCause'[key] # "none"
      /\ \A key \in Keys : idCause[key] # "none" => idCause'[key] # "none"
  BY <1>1, Blamed, RealCauses
<1>9. StaleListHasCause' /\ listCause' \in [Queries -> Causes]
  <2>1. PICK queries : queries = {q \in Queries : ListPending(q)} \cup Changed
    OBVIOUS
  <2>2. /\ Changed \subseteq queries /\ listCause' = BlameLists(queries, "restart")
        /\ \A q \in Queries : ListPending(q) => q \in queries
    BY <1>1, <2>1
  <2> QED
    BY <1>1, <2>2, ListsBlamed, RealCauses DEF Inv
<1>10. \A key \in Keys : StaleId(key)' => StaleId(key) /\ idCache[key] > 0
  BY <1>1, <1>4 DEF StaleId
<1>11. StaleIdHasCause'
  BY <1>8, <1>10 DEF Inv, StaleIdHasCause
<1>12. CacheOK' /\ CausesOK'
  BY <1>1, <1>8, <1>9, SameParts
<1> QED
  BY <1>4, <1>5, <1>6, <1>7, <1>9, <1>11, <1>12, PartsNext DEF Inv

LEMMA StutterInv ==
    ASSUME Inv, UNCHANGED vars
    PROVE  Inv'
<1>1. /\ \A id : IdPending(id) => IdPending(id)'
      /\ \A q : ListPending(q) => ListPending(q)'
  BY Pending DEF vars
<1>2. TableOK' /\ Rows' = Rows
  BY TableFrame, Parts DEF Inv, vars
<1>3. StaleIdHasCause'
  BY <1>1, <1>2, IdFrame DEF Inv, vars
<1>4. StaleListHasCause'
  BY <1>1, ListFrame DEF Inv, vars
<1>5. TypeOK'
  BY <1>2, Parts, SameParts, PartsNext DEF Inv, vars
<1> QED
  BY <1>3, <1>4, <1>5 DEF Inv, vars, CountsWhileRunning

LEMMA InvStep == Inv /\ [Next]_vars => Inv'
<1> SUFFICES ASSUME Inv, [Next]_vars PROVE Inv'
  OBVIOUS
<1>1. ASSUME NEW key \in Keys, GetProfile(key) PROVE Inv'
  BY <1>1, GetProfileInv
<1>2. ASSUME NEW q \in Queries, ListProfiles(q) PROVE Inv'
  BY <1>2, ListProfilesInv
<1>3. ASSUME NEW n \in Names,
             CreateProfile(n) \/ \E spelling \in Spellings : DeleteProfile(n, spelling)
      PROVE  Inv'
  BY <1>3, CreateProfileInv, DeleteProfileInv
<1>4. CASE ImportBegins \/ ImportEnds
  BY <1>4, ImportBeginsInv, ImportEndsInv
<1>5. ASSUME NEW names \in SUBSET Names \ {{}}, ImportChunk(names) PROVE Inv'
  BY <1>5, ImportChunkInv
<1>6. ASSUME NEW s \in Slots, Run(s) \/ TaskFails(s) PROVE Inv'
  BY <1>6, RunSetIdInv, RunSetListInv, RunDeleteIdInv, RunDeleteListsInv, TaskFailsInv DEF Run
<1>7. CASE Tick \/ Restart
  BY <1>7, TickInv, RestartInv
<1>8. CASE UNCHANGED vars
  BY <1>8, StutterInv
<1> QED
  BY <1>1, <1>2, <1>3, <1>4, <1>5, <1>6, <1>7, <1>8 DEF Next

LEMMA Invariance == Spec => []Inv
<1> QED
  BY InitInv, InvStep, PTL DEF Spec

-----------------------------------------------------------------------------
(* The theorems                                                            *)

(* Type correctness of ProfileCache: among it, that no two names share a   *)
(* row, that ids of rows were drawn, and that every key of Redis will      *)
(* expire.                                                                 *)
THEOREM TypeCorrect == Spec => []TypeOK
<1>1. Inv => TypeOK
  BY DEF Inv
<1> QED
  BY <1>1, Invariance, PTL

(* profile_handler.go, DeleteProfile: under the spelling of its id that    *)
(* the deletion was asked for, a deleted profile is answered from the      *)
(* cache only until its invalidation, unless that was lost or undone by a  *)
(* late Set; under other spellings it stays.                               *)
THEOREM DeletedIdsHaveCause == Spec => []StaleIdHasCause
<1>1. Inv => StaleIdHasCause
  BY DEF Inv
<1> QED
  BY <1>1, Invariance, PTL

(* profile_handler.go: every write invalidates the lists that it changes,  *)
(* so that one is stale only until then, unless the invalidation was lost  *)
(* or undone by a late Set, or seeding, which invalidates nothing, changed *)
(* the list.                                                               *)
THEOREM StaleListsHaveCause == Spec => []StaleListHasCause
<1>1. Inv => StaleListHasCause
  BY DEF Inv
<1> QED
  BY <1>1, Invariance, PTL
=============================================================================
