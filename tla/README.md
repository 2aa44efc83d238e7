# Insighta: a verification project

TLA+ models of the Insighta service (the Go program under `src/`), the TLC
configurations that check them on small instances, and proofs, checked by TLAPS,
for every value of the constants.

Insighta stores demographic profiles of names (gender, age, country) in
PostgreSQL, caches queries in Redis, and serves them over HTTP to users who log
in with GitHub. Paths below are relative to `src/`.

## 1. The system

| part | state | operations | talks to |
|---|---|---|---|
| token service, sessions, users (`internal/service/token_service.go`, `internal/repository/{session,user}_repository.go`, `internal/middleware/middleware.go`, `internal/handler/http/auth_handler.go`) | tables `users`, `sessions`; JWTs and refresh tokens that clients hold | login, `POST /auth/refresh`, `POST /auth/logout`, `AuthenticateJWT`, test tokens, an operator's updates, seeding at start | PostgreSQL |
| profile cache (`internal/cache/cache.go`, `internal/handler/http/profile_handler.go`) | Redis keys `profiles:id:*`, `profiles:list:*`, each with a TTL; detached goroutines | `GetProfile`, `ListProfiles`, `CreateProfile`, `DeleteProfile`, `ImportProfiles`, `SeedFromJSON` | PostgreSQL, Redis |
| CSV import (`internal/service/utils.go`) | reader, batch, channel, four workers, one shared `ImportResult` | `ProcessCSV`, `BulkInsert` | PostgreSQL, the profile cache (it decides whether to invalidate) |
| rate limiter (`internal/middleware/rateLimit.go`) | a map from clients to counters, under a mutex; a sweeper goroutine | `Limit`, the sweep | in front of every handler |
| OAuth login (`auth_handler.go`, `cli_handler.go`) | cookies of a browser; `CLIStore`, a map under a mutex | `GitHubLogin`, `GitHubCallback`, the CLI's login | GitHub, the token service |
| filters, cache key, natural-language queries (`internal/service/{normalizer,nlp_parser,utils}.go`) | none | `Validate`, `NormalizeFilters`, `NormalizedCacheKey`, `ParseNaturalLanguage`, `buildFilterQuery` | the profile cache (the key) |
| list, search, export, pagination (`profile_handler.go`, `csv_handler.go`, `profile_service.go`, `profile_repository.go`, `internal/utils/pagination.go`) | answers in Redis, links that clients hold | `ListProfiles`, `SearchProfiles`, `ExportProfilesCSV`, `FindFiltered`, `BuildPaginatedResponse` | PostgreSQL, the profile cache |
| profile creation (`profile_handler.go`, `utils.go: fetchAll`, `internal/client/client.go`) | three concurrent fetches | lookup, fetch, build, insert | genderize, agify, nationalize, PostgreSQL |
| configuration, logging, error answers, benchmark command | none | | |

The handlers are goroutines, one per request; they share nothing in memory but
the limiter's maps and the `CLIStore`. Everything else they share is in
PostgreSQL and Redis, and **no statement of this program runs in a transaction
with another one**: a handler that reads, decides and writes interleaves with
every other one between any two statements. Writes to Redis mostly run in
goroutines that outlive the request which started them.

What makes each part hard, and what makes it right:

* **Token service.** `RotateRefreshToken` reads a session, checks it, reads the
  user, revokes the session and inserts a new one: five statements, no
  transaction. Logouts, reuse detection (which revokes all of a user's
  sessions), expiry, deactivation and restarts come between any two of them. It
  is right if a rotated token can never be used again, if a token that is dead
  when it is presented gives nothing, and if requests act with the privileges
  that the database holds now and not with those that the JWT remembers.
* **Profile cache.** A `Set` runs in a goroutine after the answer, so it may
  run after an invalidation that should have removed its value. An invalidation
  scans keys while others are stored. It is right if what the cache serves agrees
  with the table, or soon will.
* **CSV import.** The reader reuses the batch while workers read chunks; a
  failing `INSERT` is repeated row by row, also when it has committed; everybody
  adds to one result. It is right if each row is handed over once and counted
  once, if a bad row takes no good one with it, and if it ends.
* **Login.** Tabs share one pair of cookies; callbacks are reloaded, come late or
  twice; `CLIStore.Get` and `Delete` lock separately; the store is lost in a
  restart. It is right if a code is exchanged with the verifier of its own
  attempt, if tokens reach the client that asked for them, and if a state is good
  for one login.
* **Queries.** The words of a search and the parameters of a list are put into a
  canonical form, and the answers are cached under a key made of it. The key
  forgets things on purpose (synonyms) and otherwise (digits); what is cached has
  the links of whoever asked first; list and search treat page and limit each in
  their own way; pages are separate statements, ordered by one column. It is right
  if a client gets the page that it asked for, if the links continue it, and if
  the pages together are the list.
* **Profile creation.** Up to eight seconds lie between the lookup of a name and
  its `INSERT`, in which other requests, imports and deletions act; three
  goroutines fill one struct; an API may hang, the client may leave. It is right
  if it amounts to one step at one moment, and if it ends.
* **Rate limiter.** A window's end, the sweeper and the counting of refused
  requests must agree. It is right if bursts are bounded and refusals justified.

`PROJECT.json` lists every component and every hazard with its line.

## 2. Modules

| module | what it is |
|---|---|
| `TokenService` | sessions, users, JWTs and the requests that use them |
| `TokenFamilies` | what the token service promises about refresh tokens; `TokenService` implements it |
| `TokenServiceProofs` | theorems about it, among them the refinement |
| `ProfileCache` | Redis, the profile table, and the goroutines between them |
| `ProfileCacheProofs` | theorems about it |
| `Filters` | what a query means: parser, canonical form, key, condition; operators without state |
| `FiltersProofs` | theorems about them |
| `Queries` | list, search and export over `Filters`: pages, links, the cache of answers |
| `QueriesProofs` | theorems about it |
| `Registry` | what `POST /profiles` promises; `ProfileCreation` implements it |
| `ProfileCreation` | `CreateProfile`, `BuildProfile`, `fetchAll`, the clients of the APIs |
| `ProfileCreationProofs` | theorems about it, among them the refinement |
| `CsvImport` | `ImportProfiles`, `ProcessCSV`, `BulkInsert` |
| `ImportLedger` | what an import promises; `CsvImport` implements it |
| `CsvImportProofs` | theorems about it, among them the refinement |
| `RateLimiter` | the limiter and its sweeper |
| `FixedWindow` | what a limiter promises; `RateLimiter` implements it |
| `RateLimiterProofs` | theorems about it |
| `LoginFlow` | OAuth attempts, callbacks, the `CLIStore`, cookies and credentials |
| `LoginFlowProofs` | theorems about it |
| `MC*` | the values of constants for TLC; the properties that quote a document about a concrete duration |

A module's properties are at its end. A definition right above the one it varies
(`ForgetsExpiry` above `Refused`, `OverAt` above `Over`, ...) is a bug that the
code could have had; no specification uses it. Replacing the one by the other
shows that the property which guards against that bug notices it (the `mutants`
of `PROJECT.json`).

### TokenService

`users` and `sessions` are the tables, by `github_id` and by token. `issued` and
`jwts` are what clients hold. `req` holds the goroutines: the step a request is
at, and its local variables (the token presented, the session or the user it
read). One action is one SQL statement with the local code that follows it up to
the next one:

| action | code |
|---|---|
| `RefreshToken`, `FindSession`, `RefuseRefresh`, `FindUser`, `RevokeOldSession`, `GenerateTokenPair` | `RotateRefreshToken` and the handler above it, in the order of its statements |
| `Login`, `IssueTestToken` | the end of `GitHubCallback` (Upsert, token pair); `handleTestCode` and `/dev/*` |
| `Logout` | `RevokeSession`, from the cookie or the body |
| `AuthenticateJWT`, `LoadUser`, `RefuseDeactivated`, `Serve` | the middleware, and the handler behind it |
| `RequestFails` | any statement fails, or the client goes away: the handler answers with an error |
| `SetPrivileges` | an operator's `UPDATE users` (the code has none) |
| `Restart` | the process stops; `InitSchema` drops `users` with CASCADE, `SeedTestUsers` inserts the test users again |

A statement may also commit and have its answer lost (`RevokeOldSession`,
`GenerateTokenPair`). The signature of a JWT is taken to be unforgeable: a client
presents only JWTs and tokens it was given. `parent`, `minter`, `born` and
`arrived` are history: only properties read them.

`TokenFamilies` has neither statements nor sessions: a login starts a family, a
refresh presents a token that is alive, gives it up, and only then draws the next
one of the same family; tokens die for whatever reason. The mapping reads a
session that is revoked or expired as dead (`DeadTokens`), and a refresh as
holding its token if that was alive when the request arrived (`HeldTokens`), so a
replay is nothing at all. `RevokeOldSession` maps to `GiveUp` (to `Lapse` if its
answer is lost), `GenerateTokenPair` to `Succeed` or, after a login, to `Start`;
every other step is a `Lapse`, mostly of nothing.

### ProfileCache

A profile is a name with an id. `IDKey` is made of the id as the client wrote it,
while PostgreSQL compares UUIDs, which may be written in several ways: a key is an
id with its spelling, and `GetProfile` and `DeleteProfile` find the row whatever the
spelling. `idCache` has the ticks each `profiles:id:*` key has left, `listCache` the ids that each list key holds and its ticks. `tasks` are
the detached goroutines (`setId`, `setList`, `invalidate`); an invalidation has
the keys that its `SCAN` has still to visit, and visits them one at a time.
`import` is what `ImportProfiles` knows while `ProcessCSV` runs; a chunk is one
step here, and `CsvImport` looks inside it. With `Faults`, statements of Redis
and PostgreSQL fail or lose their answers, goroutines fail, and the process
restarts.

What a key is made of, and what is in a list, is left to `Queries`: here a query
is a set of names that it matches. `idCause` and `listCause` are history: why a
cached key may be stale although no invalidation of it is pending.

| cause | what it is | the keys that it explains |
|---|---|---|
| `late` | a `Set` ran after a write that its value has not seen | the key that it set |
| `fault` | an invalidation failed, or never began, since the answer of the write was lost | the keys it had still to visit; the lists that the write changed |
| `restart` | the process stopped with invalidations pending, and seeded rows without invalidating | the keys that were pending; the lists that seeding changed |
| `spelling` | the profile was deleted under another spelling of its id | the other spellings of that id |

### Filters and Queries

`Filters` has the functions of `nlp_parser.go`, `normalizer.go` and the part of
`utils.go` that validates filters and builds the condition of SQL. Texts are the
words that the code compares them with, trimmed and in lower case: the code does
both before it compares, and the database compares with `ILIKE`. `"empty"` is a
text that is not given, `"other"` one that the code has no word for.
Probabilities are in thousandths, so that the key's two digits lose something;
`NaN`, which `ParseFloat` accepts, is `1001`: greater than every number, as it is
to PostgreSQL. A search is given by what the regular expressions of the parser find
in it. `ParseNaturalLanguage` is a set, since the code takes whichever country
the iteration over a Go map comes to first.

`Queries` serves them. `table` does not change (what writes do to the cache is
`ProfileCache`); it is one of several `Tables`. `cache` maps keys to answers with
rows, total and links; `tasks` are the goroutines that will store one;
`reader` is a client that follows the links of its answers, with the rows that it
saw so far.

| action | code |
|---|---|
| `Begin`, `Follow` | `ListProfiles` or `SearchProfiles`, for the client: from the parameters to the answer, by a `Hit` or a `Miss`; a list that missed stores its answer |
| `Others` | the same list, asked for by somebody else, who fills the cache |
| `RunSet`, `SetFails`, `Expire` | `Cache.Set`; Redis fails, or an answer with a `NaN` has no JSON; the TTL, or an invalidation |

`FindFiltered` is a set of answers, one for each order that `ORDER BY` one column
allows. `Exported` is what the export writes for the same parameters, with its own
ideas of defaults. A request whose parameters are not numbers is answered with an
error and changes nothing; it is left out, and so are requests that `Validate` refuses
or the parser does not understand (`Accepted` is empty).

### ProfileCreation

`req` holds the requests with the step each is at, the three replies, and whether
its client is gone, which cancels its statements but not its fetches
(`client.go` does not get the context). A reply is the name that it is about or
`"invalid"`; a profile is, per API, the name whose answer it was built from, so a
profile mixed from two requests, or built too early, would show.

| action | code |
|---|---|
| `Begin`, `FindExisting`, `FindNone` | `CreateProfile` up to the lookup; any error of it counts as "not found" |
| `Fetch` | one goroutine of `fetchAll` ends, with a reply, an error or a timeout |
| `Build` | `BuildProfile` after `wg.Wait()` |
| `Insert`, `InsertUnheard`, `InsertFails` | the `INSERT`: answered, committed but not answered, refused |
| `Leave`, `ImportRow`, `DeleteProfile`, `Outage` | the client, the other handlers, the APIs |

`Registry` has neither steps nor APIs: a request gets the profile that the table
has, or adds one that is all about its name, or fails. `late` and `clash` are
history.

### CsvImport

`pos`, `buffer`, `size` and `step` are the reader; `channel` and `closed` the
channel; `worker` the workers; `result` the shared `ImportResult`. A chunk is a
copy of rows, or (as for the last chunk, `utils.go:122-124`) a slice of the array
that the batch is built in: `shared`. Rows have a name and a defect; which of the
validation reasons a refused row gets is abstracted to one, `"validation"`.
`Others` are names that other requests insert and delete meanwhile. `database` is
how statements end: as they should but for the rows they carry (`"sound"`), also with
an error (`"failing"`), also with a commit whose answer is lost (`"lossy"`).

`OnTheWay` is where a row is between the reader and the result: in the batch, in
the channel or with a worker. `ImportLedger` knows only that set, as `pending`, and has neither chunks nor
workers nor statements: a row is taken up or refused, once; while it is pending its name may be
stored, in one `INSERT` with others; it is settled as inserted or skipped with
the other rows of its worker; and the answer comes when nothing is pending. A row
that the table has already may still count as inserted (as in the code, section
5). The other way round, a row that was stored counts as skipped only if the answer
of an `INSERT` may be lost (`heard` is false then).

### LoginFlow

An attempt is one `state` with the verifier drawn along with it. `jar` holds the
cookies of each browser, `held` the credentials of each CLI, `store` the
`CLIStore`; `handler` the callbacks in progress, each with what it read when it
arrived. GitHub is external: `Authorize` issues a code for an attempt, `Accepted`
is its check of code and verifier.

| action | code |
|---|---|
| `WebLogin`, `CliLogin` | the branches of `GitHubLogin` |
| `CliCallback`, `WebCallback` | `GitHubCallback` up to the exchange: `CLIStore.Get`, or the cookies |
| `DeleteEntry`, `Exchange`, `CallbackFails`, `Issue` | the rest of it; the answer sets and deletes cookies, or is lost |
| `WebRefresh`, `CliRefresh` | `RefreshToken`, with a cookie or a body; the rotation is one step here, five in `TokenService` |
| `WebLogout`, `CliLogout` | the branches of `Logout` |
| `CookiesLapse`, `EntryExpires`, `Restart` | `MaxAge`; ten minutes; the store is in memory |

Cookies and entries may lapse at any moment, which includes every clock. A
browser may open any callback URL that GitHub made, also one that another browser
or a CLI began, and open it again; codes are not guessed. All clients belong to
one user, so a reuse revokes everything.

### RateLimiter

One instance of the middleware. A decision is one step, since it is made under
the mutex; so is a sweep. `FixedWindow` knows neither the sweeper nor entries
of windows that are over nor the counting of refused requests; the refinement
mapping is `OpenWindow`.

## 3. Runs

| run | question | constants | states |
|---|---|---|---|
| `TokenRotation` | Can two generations of a family of tokens be usable, can a dead token mint a session, can one handler mint twice? Are they families? | 3 tokens, 2 requests, 1 user, clock 0..2 | 0.5 M |
| `TokenUsers` | Can a request act with privileges the database does not hold? Do logins and restarts corrupt users? | 2 accounts (one seeded admin), 3 ids, 2 tokens, 1 request, 2 starts, an operator | 1.4 M |
| `CacheStaleness` | Is every stale key explained? | 1 name, 2 ids, 2 spellings, 2 queries, 2 goroutines, faults, 2 starts | 1.3 M |
| `CacheFreshness` | Does the cache end up right? | 2 names, 2 ids, 1 spelling, 1 query, 2 goroutines, faults, 2 starts, fairness | 0.2 M |
| `CacheLateSet` | Does every write invalidate all lists? **No** | without faults | |
| `RateLimiter` | Are bursts bounded and refusals justified? Is it a fixed window? | 2 clients, limit 2, window 2, clock 0..7 | 0.5 M |
| `LoginFlow` | Do codes meet their verifier, tokens their client? Is a state good for one login? | 2 browsers, 1 CLI, 3 attempts, 2 codes, 2 callbacks, 2 tokens, faults, 2 starts | 0.3 M |
| `CookieRefresh` | Can a browser refresh with the cookie it has? **No** | 1 browser, 1 attempt, without faults | |
| `CsvImport` | Is every row handed over once, counted once and stored? Is it a ledger? Does the import answer? | 2 workers, chunks of 2, channel of 1, 4 files of up to 5 rows, a sound, a failing or a lossy database, 1 other writer, 1 I/O error | 0.6 M |
| `Queries` | Does a client get what it asked for, whoever filled the cache, and do its links lead it through the whole list? | 2 tables of 4 rows, 12 requests (8 lists, 4 searches), limits 2 and 3, 1 storing goroutine, 1 cached answer | 15 k |
| `QueryThresholds` | Is no row below the threshold that the client gave? **No** | 2 lists, 2 cached answers | |
| `ProfileCreation` | Is a creation one step at one moment? Does it end? Who gets a unique violation? | 1 name, 2 requests, an API that hangs, faults, clients that leave, imports, deletions, fairness | 88 k |

**Why these bounds.** Rotation needs a token, its successor and the successor's
successor (or a second successor), and two requests that overlap; expiry needs a
clock that passes `RefreshTTL` once. `TokenRotation` has one user, so that the owners
in `ImplementsTokenFamilies` never differ there: that a successor is of the user of
its parent rests on the theorem `Refinement`. `TokenUsers` needs a user that the restart
brings back and one it does not, and an id for the former's second life. A cache
key goes stale by one write; two goroutines suffice for a `Set` that overtakes an
invalidation or is overtaken, and two queries for a `SCAN` that is between two
keys; `CacheStaleness` has room for a profile that is deleted and created again,
and two spellings of its id. One name is enough there, since names meet only in lists
and a list is changed by any of its names; its two queries are one that the name
matches and one that it does not. `CacheFreshness` has the second name and a crash, and one spelling: what a
deletion leaves under another one, a failed `DEL` leaves as well.
The import needs more chunks than the channel holds, so that the reader blocks,
and a chunk that is in use while the batch is refilled; the files have
duplicates within a chunk, across chunks and with the table, and each defect.
Logins need two tabs of one browser (two attempts), another browser that opens
their callbacks, a CLI whose callback runs in either, two callbacks at once and a
second code for one attempt; two tokens are a token and its successor.
The limiter's clock spans three windows, and counters pass the limit by two.
The requests for `Queries` have each of the ways to say one thing (synonyms, a
search and a list with one key, limits that are cut or ignored), pairs that agree
in all but a digit, and lists with and without ties, over more rows than a
page; of its tables one is as seeding leaves it, the other has what an import may
bring: no gender, a `NaN`, an age group that does not fit the age. One entry is
enough for an answer to meet a key that somebody else filled, since the client
follows links while it changes. In `ProfileCreation` names do not interact, so one
is enough; two requests race with each other and with an import.

`MaxNow`, `MaxBoots`, `MaxCount` and `MaxErrors` bound counters, `MaxTasks` and
`MaxEntries` sets; they are in guards only. They do not stop a run: none disables
the deadlock check.

**Symmetry** is used in the runs that check no temporal property with fairness:
tokens, requests, user ids (`MCTokenService`), profile ids, spellings and
goroutines (`MCProfileCache`), clients (`MCRateLimiter`), browsers, attempts, codes, callbacks
and tokens (`MCLoginFlow`).

**Fairness.** `ProfileCache!FairSpec` assumes that time passes (`Tick`), and that
every goroutine ends: each runs under `context.WithTimeout` or a client with a
deadline, so its calls return or fail. It assumes nothing of requests, of imports
or of restarts. `CsvImport!FairSpec` assumes weak fairness of the reader
goroutine and of each worker: the Go scheduler runs whoever can run, and a
statement returns or fails. Its channel is first come, first served, so weak
fairness of a blocked sender is enough. An I/O error is retried without end in
the code (`utils.go:95`); `ImportAnswers` holds for at most `MaxErrors` of them.
`ProfileCreation!FairSpec` assumes that statements return or fail (they have the
context of the request, and the driver a connection), that each fetch replies or
times out (`client.go:11` has 8 seconds), and that goroutines run. The APIs may stay
down for good.

## 4. Proofs

`TokenServiceProofs` proves, for any number of accounts, tokens and requests and
any lifetimes, that `Spec` implies `TypeOK`, `OnlyLeavesLive`,
`ReplayNeverSucceeds`, `OneSuccessorPerHandler`, `ActsOnCurrentUser` and
`SessionsReferenceUsers`, `LoginKeepsPrivileges` as an action property, and the
refinement of `TokenFamilies`.
It uses the assumptions `ConstantsAssumption` and `NoneAssumption`.

None of these is inductive: each speaks of the end of a rotation, and depends on
what the request read several steps earlier. `IInv` adds what a request in
progress knows:

* `RevokedBeforeCreate`: a rotation reaches the `INSERT` with the old session
  revoked, and no statement ever unrevokes one. Hence `OnlyLeavesLive`.
* `DeadOnArrival`: a session that was dead when the request arrived is dead in
  the table and in the copy the request read, so the check refuses it whenever it
  is made. Hence `ReplayNeverSucceeds`.
* `SuccessorSeen`: a handler that minted a successor of the token it now holds
  has not read the session yet, or has read that it is revoked. Hence
  `OneSuccessorPerHandler`.
* `RowsWitnessed` and `UserStays`: rows of `users` change under a request but do
  not disappear while the process runs. Hence `ActsOnCurrentUser` and
  `SessionsReferenceUsers`.
* `SameUser` and `UndrawnHaveNoParent`: a rotation acts for the user of the
  session that it rotates, and a token has a parent only once it is drawn. Hence,
  with `ReplayNeverSucceeds`, the refinement.
* `Defined`: whatever a step dereferences is there.

`RateLimiterProofs` proves, for any limit and window, `TypeOK`, `SlidingBound`,
`RefusedOnlyWhenFull` and the refinement of `FixedWindow`. Its inductive
invariant says that the log of a client can be cut into windows: there is a set
of positions of the log (`Openings`) at which a window opened, no position is
more than `MaxRequests - 1` behind the last opening, a window opens only when the
one before is over, and the map's entry belongs to the last one (`Current`). That
set is not part of the state (the sweeper forgets entries), so the invariant says
that one exists. `2 * MaxRequests + 1` admissions then touch three windows and
contain all of the middle one: `SlidingBound`. TLC checked the invariant before it was proved.

`LoginFlowProofs` proves, for any number of clients, attempts, codes, callbacks and
tokens, `TypeOK`, `ExchangesMatch`, `TokensReachInitiator` and
`StatesAreUsedOnce`, from `ConstantsAssumption`. The invariant ties everything to
the attempt: the two cookies of a jar are those of one attempt, begun by that
browser (`CookiesPaired`); an entry has its state's verifier and the CLI that set
it (`EntriesPaired`); a callback answers the client that began the attempt
(`CallbacksPaired`); a state that was given up is in no store and no jar
(`UsedIsGone`). Types are only preserved together with `CallbacksPaired`, which
knows that a callback's code was issued. Lemmas say what a step may do to each
variable (`BeganStep`, `JarStep`, `StoreStep`, ...), and each conjunct is preserved
because of these.

`ProfileCacheProofs` proves, for any names, ids, spellings, queries, goroutines and
lifetimes,
`TypeOK`, `StaleIdHasCause` and `StaleListHasCause`. The two properties allow a
stale key while an invalidation is pending that has still to visit it, so they are
nearly inductive: every action either leaves such an invalidation in place or
records a cause. `Inv` adds `CountsWhileRunning` (what an import has counted belongs
to one in progress), since a stale list may also wait for the end of an import.

`FiltersProofs` proves, for any countries: `Idempotent` (normalising twice is
normalising once), `CanonicalFormSelectsTheSame` (for a gender and an age group in
canonical words, and a row whose age group is that of its age, the canonical form
of a filter selects the row if and only if the filter does) and `KeysTellApart` (two
filters with one key are `AlmostSame` in canonical form, and have one page and one limit).

`QueriesProofs` proves, for any tables, requests and limits, `TypeOK`,
`AnswersNearTheQuestion`, `LinksContinue` and `WalkMatchesExport`, from `QueriesAssumption` and
`FiltersAssumption`. `Inv` gives everything that is cached, that waits in a goroutine
or that the client holds an `Origin`: a request that somebody may have made, with
the key it is filed under. `KeysTellApart` then says how far that request can be
from the one that hits.
`WalkMatchesExport` takes a second invariant (`Walking`): a client that began with a
list by name holds, after each page, a prefix of what the export has (`Along`).
It is preserved because two orderings of one set of rows without ties are one
(`OneOrdering`), because a link asks for the next page of the selection that it
came from (`SameSelection`), and because a page that somebody else cached under
the same key is a page of the same list (`ListOrigin`).

`ProfileCreationProofs` proves, for any names and requests, `TypeOK`,
`ClashesAreRaces` and that the specification implements `Registry`. The invariant is
that replies are about the request's own name, that a request at the `INSERT` has three
of them, and that a request whose name has a row after a failed or vain lookup is
`late`. `Insert` and `InsertUnheard` map to `Create`, `FindExisting` to `GetExisting`,
a failing `Build` or `INSERT` to `Fail`, the rest to stutters.

`CsvImportProofs` proves, for any files, workers and sizes of chunks and of the
channel, `TypeOK`, `EachRowOnce`, `GoodRowsLand`, `Accounted`, `InsertedCoversStored` and the
refinement of `ImportLedger`. The invariant says where a row is
that was read and passed validation (`Carried`): in the batch, in one chunk of the
channel, with one worker, or already given to a statement, never in two of these and,
without I/O errors, always in one. It holds since the batch is copied as long as
the reader goes on, and a slice of it is sent only when the channel closes
(`ChunksOK`), so that no write to the array reaches a chunk (`ChunkKept`). Lemmas on
sets (`BatchGrows`, `ChunkQueued`, `ChunkTaken`, `ChunkDone`) say what each move keeps.
`Landing` adds that a good row which a statement was given is in the table, was
deleted, or is still to be tried alone. When the import returns, the workers have
left (`WorkersOK`), so nothing is on its way (`NothingLeft`).

The numbers need more (`Count`): not only is a row with one worker, the workers'
rows, the channel's and the batch's are disjoint (`Disjointly`), and no chunk has a row
twice (`DistinctOK`), so that the cardinality of `OnTheWay` falls by a chunk's length
when the chunk is counted. Within a chunk, a worker's own sum and the rows it has
yet to try make up the length (`CountsOK`). `Accounted` is then preserved. `Covered`
compares the rows that were stored with those counted as inserted, per worker and in the result:
`InsertedCoversStored` is what remains of it when nobody has a row in hand. Both are
for a database that may fail but does not lose answers: with a lost answer after the
commit they are false (section 5).
For the ledger, `InsertStores` shows that an `INSERT ... ON CONFLICT DO NOTHING` adds one row per
new name; `StillOpen`, that who has rows in hand works for an import that was not
rejected and has not answered; `AllSettled`, that the answer comes last.
TLC checked both invariants before they were proved.

**Model-checked only.** `EventuallyFresh`, `ImportAnswers` and `RequestsEnd`, for good,
since TLAPS does not prove liveness. Every other property of the runs that pass
is a theorem.

## 5. Findings

Each is a run that TLC refutes.

1. **A late `Set` undoes an invalidation** (`CacheLateSet`). `ListProfiles` reads
   the table and stores the list from a goroutine; if a write and its invalidation
   come in between, the cache serves the list from before the write for five
   minutes, with no failure anywhere. `CacheStaleness` shows what other ways there
   are to a stale key: an invalidation that was lost, a restart that seeds, and, for
   a deleted profile, another spelling of its id. `CacheFreshness` shows that TTLs
   end them all.
2. **A browser keeps the token it has rotated away** (`CookieRefresh`).
   `RefreshToken` sets the cookies after `Respond` has written the header
   (`auth_handler.go:338-355`), so they are never sent. The next refresh by cookie
   is a reuse, which revokes every session of the user; `README.md:57` says that
   one refreshes with the `rt` cookie.
3. **A list has rows below its threshold** (`QueryThresholds`). The key has
   `min_gender_probability` with two digits (`normalizer.go:124`), so 0.951 and
   0.954 share one, and `min_country_probability` not at all. `KeysTellApart` says
   that these are the only two parameters that a key confuses.

Disagreements seen while modelling, for which there is no run, because the
model states what the code does and the rest is a matter of reading:

* Refresh tokens live 20 minutes (`token_service.go:73`), not 7 days, and access
  tokens 10 (`token_service.go:67`), not 15 (`README.md:53`).
* `main` seeds on every start (`main.go:109`), not on "the first run"
  (`README.md:110`): profiles that were deleted come back.
* A profile is cached under its id as the client wrote it (`profile_handler.go:168`,
  `cache.go:65`), and PostgreSQL takes `id = $1` (`profile_repository.go:52,86`) for the
  same in upper case, without hyphens or in braces. After a `GET` in one spelling and
  a `DELETE` in another, the deleted profile is served for up to ten minutes, without
  any fault or race (`"spelling"` in `ProfileCache`). No document promises otherwise.
* If a bulk `INSERT` commits and its answer is lost, `BulkInsert` tries its rows one by
  one and counts them as duplicates (`utils.go:135-157`); `Inserted` may then be 0,
  and the lists are not invalidated (`profile_handler.go:339`) although the import
  wrote (`SOLUTION.md:25`).
* Two refreshes that overlap may both rotate one token (`token_service.go:83-98`), one
  that overlaps a logout may still draw a successor, and two callbacks that overlap
  may both use one state (`auth_handler.go:171`). The properties bound this to requests
  that arrived in time.
* Duplicates count as inserted: `BulkInsert` returns `len(profiles)`
  (`utils.go:136`), whatever `ON CONFLICT DO NOTHING` skipped; `SOLUTION.md:154` says
  they count as `duplicate_name`.
* `SOLUTION.md:150`: a row with the wrong number of columns is `malformed_row`.
  The reader takes any number (`utils.go:40`), so such a row is validated with
  empty fields and may be stored; only an I/O error counts as `malformed_row`.
* `SOLUTION.md:149`: a file without the column `name` is an error. `ProcessCSV`
  returns one, and the handler answers success (`profile_handler.go:335`).
* `NaN` is a valid probability in files and parameters (`utils.go:216`), against
  `SOLUTION.md:153`. A page with such a row has status 200 and no body.
* `country_id` also selects every country whose name begins with the code: `MA`
  gives Morocco, Mali and Madagascar, where `README.md:92` says an ISO code.
* Synonyms of a gender are refused, not normalised (`SOLUTION.md:66`): `Validate`
  runs first.
* A search with both genders has no gender filter, where `README.md:39` says that
  the last one counts.
* "adult" in a search means 18 and older, `age_group=adult` 20 to 59; they do not
  share a key, as `SOLUTION.md:74` has it.
* A search looks in the cache and never stores its answer (`SOLUTION.md` has "every
  list or search").
* The export ignores `min_country_probability`, `ascending` and synonyms.
* With ties in the sort column, as all rows of a seed have in `created_at`, pages
  may repeat a row and miss another: `ORDER BY` has no tie-breaker.
* `Logout` answers "Successfully logged out" although the `UPDATE` for a token in
  the body failed (`auth_handler.go:377`), and deletes cookies with
  `SameSite=None` but without `Secure`, which browsers may ignore.
* `SOLUTION.md:16` speaks of a job that removes old sessions; there is none.

## 6. Plan

What is left, in this order.

1. Queries over a table that changes between two pages, which `ProfileCache` and
   `Queries` have apart.
2. What `LoginFlow` takes of `TokenService` (its `Rotate` and `Reuse`, each one step)
   as a refinement of `TokenFamilies`, so that the two are joined.

**Not modelled**, because there is no behaviour to check: configuration, logging,
the layout of answers, the benchmark command (a client), the table of routes and the
version header (both static), and code that nothing calls
(`internal/utils/rate-limit.go`, `csv_service.go`, `UpdateProfile`,
`FindByGitHubID`). Not modelled because the model would only restate it: that
`sessions` and the `CLIStore` grow without bound, since nothing removes expired rows
and abandoned logins; and that the answer to a callback deletes whatever cookies
the browser holds by then.
