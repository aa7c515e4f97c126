# Verification of the Singapore bus arrival backend

TLA+ models of the backend (FastAPI, PostgreSQL, Redis, LTA DataMall), TLC
configurations that check them on small instances, and theorems that TLAPS
proves for every instance. `PROJECT.json` ties every definition to the source
lines it models, lists the runs, the seeded faults that each property catches,
the divergences found, and the hazards the properties are aimed at.

    tlc -workers 2 -config MCFavorites.cfg MCFavorites   # any run of PROJECT.json
    tlapm FavoritesProofs.tla                            # the proofs: likewise the
                                                         # other *Proofs modules

## 1. The system

One API process serves the mobile apps. Requests are coroutines of one event
loop: another request may run at every `await`. Each request has a database
session of its own; PostgreSQL runs at READ COMMITTED. Redis holds caches
and the retention statistics, and every Redis error is swallowed. Maintenance
tasks run in containers of their own, started by cron or by the release scripts,
against the same database.

| component (source under `app/`) | state | operations | what is hard | what makes it correct |
|---|---|---|---|---|
| Favourites (`services/favorite_service.py`, `api/v1/favorites.py`) | `users`, `favorite_groups` (cards), `favorite_items` | create, update, delete a card; create, reorder, delete favourites | rules that span rows (one station per card, no duplicate favourite) rest on reads before the write; no lock is taken for them | foreign keys; no duplicate; one station per card; no emptied card; devices isolated |
| Aliases (`services/bus_stop_alias_service.py`) | `bus_stop_aliases`, titles of cards | upsert, delete, list | one call writes two tables; the unique pair is raced | titles, aliases and display names agree; every call ends |
| Home (`services/home_service.py`) | Redis `home:<device>:…` | read through, invalidated by every write above | filled from several statements; invalidation after the commit, may fail or be cut off | a cached payload shows the tables, or stops doing otherwise |
| Static data sync (`tasks/sync_lta_data.py`) | `bus_stops`, `bus_routes`, `bus_services`, `static_data_state` | download, compare, replace in batches, write the version | many commits, no lock, interrupted or overlapping runs, a feed that changes meanwhile | version, checksum and rows agree; tables and apps catch up |
| Static data API (`services/static_data_service.py`) | none | version, package | a package is read by four statements | an app with the current version has the current rows |
| Arrivals (`services/arrival_service.py`) | Redis `arrival:<stop>`, `arrival:last_good:<stop>` | get, batch | time, slow answers that overtake, faults of LTA, Redis and PostgreSQL; a batch is answered stop by stop | unmarked answers are fresh; an outage is bridged; every request ends; every item is answered; the minutes are near what is left |
| LTA client (`clients/lta_client.py`) | none | GET with three attempts | which errors are tried again | attempts are bounded |
| Stop search and catalog (`services/bus_stop_service.py`, `bus_stop_catalog.py`) | catalog in memory, Redis `search:`, `nearby:` | search, nearby, lookup | loaded at start-up, stale after a sync; one cache for users with names of their own | new rows are found after a restart and a time to live; nobody sees another's names |
| Operating window (`services/operating_service.py`) | none | is a service operating now | midnight, weekday | a bus that still runs is not "Not In Operation" |
| Feedback (`services/feedback_service.py`) | `feedback` | post, mail, status | limit counted before the insert; restart during the mail | limit per day; a final status |
| Retention (`services/retention_service.py`) | Redis first-seen, active and cohort keys | track, reports | two pipelines, expiry, midnight; sliding counters | a new user is counted once and not lost; rates within 0..1; weeks and months count distinct users |
| Log files (`core/logging.py`) | daily files | append, trim, remove old days | limit reached, date change, a failure within a record | size bound, newest lines kept, old days removed |
| Log search, operations pages (`services/log_service.py`, `api/v1/ops.py`) | none | read, render | cut lines, lines of another day | the day's summary counts the day's calls |
| SQLite dataset (`tasks/generate_sqlite_dataset.py`, `api/v1/static_data.py`) | database, archive, manifest | write; version, download | not published atomically | a download is the archive that its ETag names |
| Release scripts, migrations, application start (`scripts/`, `migrations/`, `main.py`) | checkout, image, schema, container | release, update of the API alone, weekly sync, restart | order of steps, failure in the middle, two makers of tables | code never serves without its schema; a release can be repeated; completion means what was released is up |

Interactions: arrivals and home read favourites, aliases and stops; card titles
come from aliases; favourites' writes invalidate home payloads; the sync feeds
the static data API, the catalog and the dataset; LTA feeds arrivals and sync;
every answered call feeds the logs and the retention statistics; a release moves
schema, rows and catalog under searches and downloads.

## 2. Modules

| module | role |
|---|---|
| `FavoriteTables` | the rows, the queries of the services on them, the invariants of the tables; shared by the next two |
| `Favorites` | the favourites API as a serial machine: one atomic action per call. The abstract specification |
| `FavoriteRequests` | the same API as it runs: one step per awaited statement, row locks, a failing cache, restarts. Checked and proved to implement `Favorites` (`Serial == INSTANCE Favorites`, same variables) where devices wait for their answers |
| `FavoritesProofs` | theorems about `Favorites` |
| `RequestsProofs` | theorems about `FavoriteRequests`, the refinement among them |
| `StaticData`, `StaticDataProofs` | the sync task, the version row and the apps that download packages; theorems about them |
| `ArrivalCache` | both arrival caches, the attempts of the LTA client and the fallback, with time in ticks |
| `ArrivalCacheProofs` | theorems about `ArrivalCache` |
| `BatchArrivals` | what an answer says: batches over stops, minutes, operating windows, stale payloads |
| `Retention` | the tracking pipelines command by command, expiry, the cohort report |
| `Engagement` | the engagement report: sliding counters, activity of a cohort |
| `RetentionProofs` | theorems about `Retention` and about `Engagement` |
| `DailyLog`, `DailyLogProofs` | the daily request log byte by byte, and the summary read from it; theorems about them |
| `Feedback`, `FeedbackProofs` | limits, insert, mail and status of feedback; theorems about it |
| `Release` | release scripts, migrations, API container and catalog |
| `StopSearch` | search through cache, catalog and table; EXTENDS `Release` |
| `Dataset` | generator, manifest and downloads; EXTENDS `Release` |
| `ServingProofs` | theorems about what the API serves: `Release`, `StopSearch` and `Dataset` beside it, and `BatchArrivals` |
| `MCServing` | a release composed with searches or with downloads |
| `MCRetention` | the tracking and the reports together |
| `MCFavorites`, `MCFavoriteRequests`, `MCStaticData`, `MCArrivalCache`, `MCBatchArrivals`, `MCDailyLog`, `MCFeedback` | constants and symmetry for TLC |

A definition that starts with the comment "Mutant:" is a plausible fault; the
specification never uses it. `PROJECT.json` says which property catches it.

### Favourites

A table is a function from primary keys to rows. `users`, `groups`, `items` and
`aliases` are the tables `users`, `favorite_groups`, `favorite_items` and
`bus_stop_aliases`; `home[u]` is the cached payload of device `u`. An SQL query
with `ORDER BY … LIMIT 1` and possible ties is the set of its possible answers
(`FirstCards`, `FirstStops`). `Favorites` has one action per service method;
calls that are refused or only read are `Unchanging` (a new device still gets
its row, as `_get_or_create_user` commits it).

In `FavoriteRequests`, `req[r]` is a request: its payload, the label of the
statement it is at (`at`), what it has read (`alias`, `order`, `cards`, `view`)
and the rows it holds locked (`held`). The labels follow the methods statement
by statement. Writes that SQLAlchemy sends with no read between them and the
commit are one step with the commit. Where the session flushes early (the
`DELETE` before a count, the alias before a `SELECT`), the row is locked and
visible to others as it was until the commit. Unique constraints, foreign keys
and stale updates end a request with an error and roll it back;
`AbortDeadlock` is PostgreSQL's detector; `Crash` is a restart.

Abstractions: emoji and timestamps are left out (whether a patch sets an emoji
is kept, because it decides if the home cache is invalidated); one cached home
payload per device stands for its keys, which differ by coordinates and are all
deleted together; the official name of a station is a constant, although a sync
may change it; of the integers, `Order` is a bounded set, so an order that would
leave it is not explored.

### Static data

`tables` holds the three tables, `state` the row of `static_data_state`,
`sync[p]` a run of `sync_all` (statement, download, row set still to insert),
`client[c]` an app's package and the one it is downloading. The checksum stands
for the downloaded content. A table is downloaded in one step, the stops are
upserted in one transaction (rows equal to what was found are not sent, a row
that another run has inserted meanwhile refuses it), routes and services are
deleted in one commit and inserted in batches. A batch with a route of an
unknown stop is refused by the foreign key. Apps check the version and install
a package as `FRONTEND_STATIC_DATA_MIGRATION.md` asks of them; they are
external. Without a version row the API makes a version up from the rows; apps
are modelled from the first completed sync on, since `deploy_full.sh` runs it
before the API starts.

### Arrivals

A payload is its age in ticks, counted up to `Old`, from which on ages are not
told apart. A request passes `GetCache`, the attempts (`Ask`, `Make` at LTA,
`Receive` or a failure), `SetCache`, `SetLastGood`, `Answer`, or `Fallback`.
An exception of the hydration lies inside the `try` after a fetch, outside of
it after a cache hit or a fallback (`HydrateFails`). Time passes only while
requests wait (`Tick`). `timeout=5.0` of httpx limits each phase of an attempt,
not the whole; `Timeout` is what an attempt takes at most. One station stands
for all, as no key is shared. `bridged` and `lost` are history variables: the
time since an unmarked answer, and whether Redis lost a write of the last good
payload.

`BatchArrivals` takes the read of one stop as a step (two if LTA is asked, between
which time passes); other clients fetch any stop at any moment (`FetchElsewhere`).
It models what is said:
`Minutes` and `Estimate` are the normalizer, `Operating` with `Parse`, `Window`
and `InRange` the operating window, `Grouped`, `FoundItems`, `ErrorItems` and
`FallBack` the loop of the batch. Instants are ticks since a Monday began, so
that weekdays and midnights are arithmetic. `Runs` is the reference for the
operating window: windows laid out on the line of time. What LTA answers and
what `bus_routes` holds come from small sets; an answer of LTA is fresh when it
arrives.

### Retention

In `Retention` each command of a pipeline is a step (`SetFirstSeen`,
`AddActive`, `JoinCohort`, for all users and for the platform), because a
pipeline without MULTI is no transaction. Keys carry the day they lapse on and go
at any moment of it. `Cut` is a lost connection or a restart between commands,
`CutBeforeExpire` one between SADD and EXPIRE, which leaves a key for ever.
`CountCohort` and `CountColumn` are the report, key by key. In `Engagement`,
`CountDate` is one turn of the pass over the dates and `DetailDate` one of the
pass over the dates of a cohort, with `collections.Counter` as a bag; the sets
they read are any sets, as writes and expiry may have left
them in any state. Percentages, JSON and platform names are data.

### Request log

A line is three bytes (its date, the start of its JSON, its newline), a file a
sequence of bytes, so that cut lines and the trim's seek into the middle of a
line are what they are. A record that `_truncate_log_line` cuts is none that the
page can read as an arrivals call, like any other call. `Create` to `Rewrite` are
the steps of a record; `Fail` is an error or a crash at any of them, with any prefix
of the bytes written. An `OSError` of the removal of an old file is passed over;
`left` has the files that are still there because of one.
One process writes, as the API runs one worker. `Summary` and `Recent` are what
the operations page computes, between two records, as both run on one thread.

### Feedback

`req[r]` passes the two counts, the insert, the mail (in a thread, so that
others run meanwhile) and the status; each statement is a step. `Mail` may be
taken by the server although the call raises, which `raised` remembers. `Refuse` is
a refused statement, commit or refresh, `Restart` ends every request. What a post
says is left out.

### Release, search and dataset

A revision of the code is a number whose migration makes a table, adds a column,
drops one (as `0004_remove_postgis_dependency.py:19` does) or does nothing; `schema`
is the stamp of Alembic and the changes that have been made. `Made(rev)` says that
the tables and added columns of the code of `rev` are there, `Kept(rev)` that no
later revision has dropped one of its columns. The steps of `release_prod.sh` are actions, any of which may fail;
`LighterPath` is `up_api.sh` alone, guarded as `DEPLOYMENT.md` guards it.
`StartApi` is the lifespan of the application: `create_all`, which makes missing
tables without a stamp, then the catalog. A weekly sync that runs code ahead of the
schema may fail. Rows are editions, and a sync is one
step here (`StaticData` has its steps). `StopSearch` is one query, whose result
is the edition of the rows it came from; names of the user are put on at the
end. `Dataset` has the removals and writes of the generator as steps, and an
app that asks for the version, then downloads. Both EXTEND `Release`, whose
steps end requests in flight when the container changes (`SearchesUnder`,
`DownloadsUnder`); searches and downloads share nothing else, so a behaviour of
`MCServing` has one of the two beside the release.

## 3. Runs

| run | question | result |
|---|---|---|
| `favorites` | do serial calls keep foreign keys, no duplicates, one station per card, no emptied card, and is a cached home always what the tables hold? | holds |
| `requests_serial` | do the interleaved statements of two devices, each waiting for its answers, implement the serial machine (new devices, favourites, cards, aliases, reorders), and do rows of a device change in steps of its own requests only? | holds |
| `requests_liveness` | with calls of one device at once, row locks, deadlocks, failing Redis commands and restarts, does every call end, and does a stale home payload go away? | holds |
| `static` | with a changing and reverting feed, an interruption and refused batches: does the version name the rows whenever no sync was cut off, do current apps have them, and do tables and apps catch up? | holds |
| `arrivals` | whatever fails: is an unmarked answer never older than a time to live and an attempt, is an outage bridged as far as Redis works, and does every request end? | holds |
| `answers` | is every item of a batch answered, are unmarked minutes near what is left, and is "Not In Operation" right, also past midnight? | holds |
| `retention` | is a new user counted once, on a day of activity, and never lost; are rates rates; do the sliding counters count distinct users? | holds |
| `daily_log` | does a file keep its limit and its newest lines, do old days go, and is the summary that of the day? | holds |
| `feedback` | do concurrent posts exceed a limit by no more than the requests in flight, is the row there before the mail and does it tell whether that was taken, is a status set once and a mail sent once, and does every status become final? | holds |
| `serving` | releases that fail, are repeated or skipped, under searches and downloads: schema, migrations, completion, names, rows found, archives | holds |
| `lost_favorite` | a documented rule about favourites, two requests of one device at once | violated |
| `dataset_checksum` | the documented check of a download | violated |

Further configurations, which the list of runs leaves out: `MCAliasRace`
(alias calls of one device at once: every call ends, a stale home goes away,
foreign keys hold) and the divergences of section 5.
`MCDroppedColumn` (with `MCServing`) shows what `SchemaServesCode` leaves out, in
`NoColumnIsMissed`: `migrate.sh` drops a column while the old API, which reads it,
serves until `up_api.sh`; and if the release fails in between, until it is repeated. `TypeOK` of the modules
whose runs do not list it (`FavoriteRequests`, `StaticData`, `ArrivalCache`,
`BatchArrivals`, `Retention`, `DailyLog`, `Feedback`) holds in their
configurations as well; but for `StaticData` it is a theorem.

### Bounds

Two requests in flight, two devices, two cards and two or three favourites are
enough for every race that needs one other actor, for a card with two
favourites and one with another station's, and for a card that is emptied and
made again. Ids are drawn from a pool that never runs dry for the requests in
flight (`IdsLeft`), so that the bound refuses no insert. `Kinds` names the calls
that a run lets loose: `requests_serial` has every call but `create_group` and
`get_home`, which `requests_liveness` adds, with a device that has not called
before. The serial run of the requests has an empty name next to an ordinary
one, because the code's `or` treats `""` as missing. Orders other than 0 matter
to `favorites` only.

`static` has two editions, the second with a new stop and a route to it; LTA may
go back to the first; batches of one row make a replacement several commits; one
interruption and two versions bound the counters. Overlapping syncs are in
`MCTwoSyncs` only. `arrivals` has two requests, three attempts, times to live of
1 and 3 ticks and attempts of 1: long enough that a slow answer is older than an
entry made meanwhile.

`answers` has days of three hours of two minutes of three ticks, from shortly
before or after the midnights that begin a Saturday, a Sunday and a Monday, for
four ticks, with times to live of 2 and 4, so that a cached payload's minutes run
out; at a service and stop of its own kind each, windows within a day, past midnight, in hours from the day before
(24:30 and later), of a whole day, on weekends only, malformed and missing; batches with a
repeated item, a malformed code and a service LTA does not list. `retention` has
one device that changes between two platforms, two tasks at once, times to live
of 4 and 2 days over five days, so that keys lapse and a device is new again; the
report has two devices, a week of 2 and a month of 3 days and every range within
three dates. `daily_log` has room for two lines and a cut one, keeps two of four
days and writes four lines with one failure. `feedback` has limits of 1, two
requests, one device and posts without one, two addresses and three rows, so that
both limits can be exceeded by the one other request. `serving` has five revisions
(a column in the second, a table in the third, nothing in the fourth, a column
dropped by the fifth), two editions, two health checks, one fault, one
search of two users and two runs of the generator.

What the modules assume of their constants is what the code's values satisfy, and
TLC evaluates it in every run. `BatchAssumption` refuses an empty batch, as the
schema of the endpoint does; `TableAssumption` says that times in `bus_routes` are
two numbers or missing. `SetTtl > 1` in `Retention` (the code keeps the sets
for 60 days): with one day, a task that passes midnight could find the set of its
day lapsed between its commands. `IsFiniteSet(Req)` in `Feedback`, so that requests
in flight can be counted. `DataAssumption` in `StaticData` says that the tables of
an edition are functions.

Symmetry is used in runs without liveness properties only; `ImplementsSerial`
and the other action properties there are safety.

### Fairness

* `FavoriteRequests`: every request that has begun goes on. Its steps need
  strong fairness where they wait for row locks, which PostgreSQL grants in the
  order of a queue; `ExpireHome` is weakly fair because the keys have a time to
  live. Neither new requests, failures nor restarts are assumed.
* `StaticData`: a sync is started again and again (cron, `DEPLOYMENT.md:132`)
  and its steps go on; an app checks the version whenever it is opened. LTA and
  interruptions are not fair.
* `Feedback`: every request in flight is weakly fair: the event loop runs it, and
  the SMTP client gives up after 10 s. New posts and days are not fair.
* `ArrivalCache`: steps of the server and the end of an attempt are weakly fair;
  `Tick` is strongly fair: time passes although requests keep coming.

The other modules state no fairness, as their properties are safety.

Deadlock checking is on where the model goes on for ever, and off in the runs
whose counters end it: `answers`, `retention`, `daily_log`, `feedback`, `serving`
and `dataset_checksum` stop when their last day, line, batch or revision is
reached and nothing is in flight.

## 4. What is proved

`FavoritesProofs`, for any sets of devices, ids, stations, services, names and
orders that satisfy the named assumptions of `FavoriteTables` (an official name
for every station, `0` among the orders, `NoValue` distinct from values):

| theorem | statement |
|---|---|
| `TypeCorrect` | `Spec => []TypeOK` |
| `FavoritesSafe` | `Spec => [](ForeignKeys /\ NoDuplicateFavorite /\ OneStopPerCard)` |
| `HomeCoherent` | `Spec => []HomeCacheCoherent` |
| `Isolation` | `Spec => OneUserPerCall` |
| `NeverEmptied` | `Spec => CardsAreNeverEmptied` |
| `NeverPutBefore` | `Spec => NewFavoritesAreNotBefore` |
| `RowsReferToRows`, `StationsNeverShareACard` | parts of `FavoritesSafe` by themselves |

The argument. The three table invariants are inductive only together and with
`TypeOK` (`FavoritesInv`). `create_favorite` looks for duplicates over the
owner's cards, which says something about an item only if its card exists
(`ForeignKeys`); and it compares a card with the station of the card's *first*
item, which says something about all of them only if they share it
(`OneStopPerCard`). `TargetsFit` states that a card a favourite is added to is
the caller's and holds that station only, `NewItem` that such an item keeps the
invariants, `KeptItems` that deletions, renames and reorders do.
`CallsTouchTheirUser` shows, call by call, that rows of other devices stay;
`Isolation` and `HomeCoherent` follow from it, because `HomeView(v)` is a
function of the rows of `v`. `NeverEmptied` is a case analysis of the two
deletes and of the calls that replace or reorder items. `NeverPutBefore` follows from
`IsNextOrder`: the order of a new favourite is at least each of those in use,
although not always above them.

`RequestsProofs`, for any number of requests in flight, in any interleaving:

| theorem | hypotheses | statement |
|---|---|---|
| `TypeCorrect` | none | `Spec => []TypeOK` |
| `RowsReferToRows` | none | `Spec => []ForeignKeys` |
| `OwnRequestsOnly` | none | `Spec => OnlyOwnRequests` |
| `RequestsRefineCalls` | devices wait, no faults, no devices yet | `Spec => ImplementsSerial` |
| `RulesSurviveInterleaving` | the same | `Spec => [](NoDuplicateFavorite /\ OneStopPerCard)` |
| `CardsStayFilled` | the same | `Spec => CardsAreNeverEmptied` |
| `HomeIsFreshAtRest` | the same | `Spec => []HomeFreshAtRest` |
| `OnlyTheNamedFavoriteGoes` | devices wait, no faults | `Spec => DeletesOnlyItsItem` |

The argument, without hypotheses. The services find a row, then use its id some
statements later without asking again whose it is. That is safe because an id a
request holds never comes to belong to another user: rows do not change their
owner (`KeepsOwners`), and no row is inserted under an id that is in use or in a
request (`Mentioned`). `RequestsInv` says so: each request has the fields its
statement needs (`Statement`, `Payload`), and what it has found is its user's or
nobody's (`Owns`). A step either reads and brings its own request forward
(`Advances`), or writes rows of its user (`Writes`, of which `TouchesOnly` is the
part about others) and goes on (`Proceeds`); `StepFits` is the case analysis.
`OwnRequestsOnly` follows from `TouchesOnly`.

The argument, with hypotheses. `SerialInv` adds that a device has one request in
flight (`OneEach`) and `Knows`: all that a request has read, and will rely on at
its commit, is still true. That no favourite exists, which card was found, what
the next order is, which cards an alias renames, what a home payload shows so
far: each depends only on rows of one user (`KnownStays`), and `TouchesOnly` says
that nobody else writes them. So at its commit a request does what the whole call
would do if it ran at that moment (`CardCommits`, `UpdateCommits`,
`InsertItemCommits`, `InsertCardCommits`, `ItemCommits`, `AliasCommits`,
`HomeCommits`), and every other step shows nothing (`QuietStutters`). The mapping
hides a cached payload between a commit and its invalidation (`Writing`), as the
serial machine does both at once. The theorems about `Favorites` then hold of
this machine too: `Proved` is an instance of `FavoritesProofs` under the mapping.

The hypotheses. `OnePerUser`: with two calls of one device in flight `Knows` is
false, and the configurations of section 5 show each rule broken. `~CacheFaults`
and `~Crashes`: a failed or missing invalidation leaves a stale payload, until it
expires. `Registered = {}`: the serial machine starts with empty tables.
`requests_serial` satisfies all of them, so they can be met.

`ArrivalCacheProofs`, for any number of requests in flight, attempts and times
(positive, and `LastGoodTtl > Ttl`), whichever faults are switched on:

| theorem | statement |
|---|---|
| `TypeCorrect` | `Spec => []TypeOK` |
| `AnswersAreFresh` | `Spec => UnmarkedIsFresh` |
| `OutagesAreBridged` | `Spec => OutageIsBridged` |

The argument. The age of a payload on its way is bounded only together with the
time its attempt has left (`age + left <= Timeout`), and that of a cached one
together with its time to live (`age + left <= Ttl + Timeout`): `Tick` moves a
unit from one to the other, a write starts the next bound. `FreshInv` says so of
every request (`RequestOK`) and of the cache (`CacheFresh`). The bridge rests on
`BridgeInv`: the last good payload outlives every cached one, and every request
that holds an unmarked answer, by `Bridge`, except while some request is between
its two writes. Such a request is not waiting, so it finishes before time
passes; the invariant would not be inductive without that exception. With a
failing Redis the second write may be lost; then `lost` says so, and the
inductive statement is `lost \/ BridgeInv`. `StepFresh`, `TickFresh`,
`StepBridge` and `TickBridge` are the steps.

`StaticDataProofs`, for any editions, batch sizes, failures, numbers of versions and
apps, and one sync at a time (`OneSyncer`):

| theorem | statement |
|---|---|
| `CompleteSyncsAlwaysAgree` | `Spec => []CompleteSyncsAgree` |
| `CurrentAppsAlwaysAgree` | `Spec => []CurrentAppsAgree` |

The argument. `Progress` says for each statement of the sync what is in the tables
by then: the stops of the download, the routes but for what is left to insert, and
so on up to all of it when the version is written; the table of stops was read
with nobody else writing, so the upsert leaves nothing out. `RowsFit`: unless rows
are being replaced or were left half replaced (`Dirty`), they are those of the
checksum. `AppsFit`: what an app has read of a package in the version that is in
force is what the tables hold, because a version is new (`Last`) and the tables do
not change while it is in force. `OneSyncer` is needed: with two, `MCTwoSyncs`
shows mixed rows.

`ServingProofs`, about releases, for any numbers of revisions, editions, health
checks and faults, and any choice of the revisions that bring a table or a column or
drop one:

| theorem | statement |
|---|---|
| `SchemaAlwaysServes` | `ReleaseSpec => []SchemaServesCode` |
| `MigrationsAlwaysApply` | `ReleaseSpec => []MigrationsApply` |
| `CompletedIsAlwaysVerified` | `ReleaseSpec => CompletedIsVerified` |

`SchemaServesCode` has two halves. What the running code adds to the schema is
always there (`Made`). What a later revision drops is still there (`Kept`) whenever
no release is between its migration and its restart, nor failed there: it is from
the health check on. In the window it need not be (`MCDroppedColumn`).

The argument. Neither invariant is inductive: `create_all` might make a table
before its migration. `SchemaInv` says that the changes in the database are
exactly those up to the stamp (`Migrated`) and that the API runs no code with a
change beyond it (`Needs`), so `create_all` finds all its tables made. `Needs`
is kept by the release because `Progress` puts the migration of the same
checkout before the start of the API, and by the lighter path because of its
guard. `Covered` is the other direction: unless a release is under way or failed, the
code that serves is no older than the last change of the schema. `Loaded` adds that the table is at least the edition the release synced,
and the catalog of a container made after it too.

About searches and downloads, for any users, searches, times to live, editions,
runs of the generator, and any release beside them:

| theorem | statement |
|---|---|
| `NamesAreAlwaysOwn` | `SearchSpec => []NamesAreOwn` |
| `FoundIsAlwaysCurrent` | `SearchSpec => []FoundIsCurrent` |
| `DownloadsAreWhole` | `DatasetSpec => []DownloadIsWhole` |

The argument. `SearchInv`: what is cached has the official names only
(`OfficialNames`), and what was found in other rows than the table's was cached no
later than the last change (`settled + left <= SearchTtl`, `CatchesUp`).
`DatasetInv`: a version that the manifest names, or that an app has read from it,
stands for its archive as long as it is not generated again (`Stands`), which
happens only while it is still the table's edition, and the table never goes back
to an edition (`TableGrows`).

About answers, for any stops, services, batches, boards of LTA, contents of
`bus_routes`, times to live and lengths of the day:

| theorem | statement |
|---|---|
| `AnswersTypeCorrect` | `Spec => []TypeOK` |
| `ItemsAreAnswered` | `Spec => []EveryItemAnswered` |
| `MinutesAreRight` | `Spec => []MinutesAreNear` |
| `NightBusesAreRight` | `Spec => []NightBusesRun` |

The argument. `BatchInv` has four parts. `AskedInv` counts: the stops that are left
differ, an item at one of them has not been answered, and any other as often as it
was asked for. A stop's answers are added in one step (`AnswerStop`), so what is
picked from a batch (`Picked`) must have each element as often as the batch has it
at those positions; `Places` numbers the positions in their order, and the
enumeration that `SameNumber` counts by is a bijection. That all of them are
answered in the end needs that `Grouped` has every stop once (`GroupedOnce`).
`SaidInv`: each arrival of an unmarked answer was so (`Said`) at one moment since
the payload may have been made, which is `made` of the payload it came from; what
Redis holds is so at its own `made` (`RedisInv`). Time only widens the interval.
`MinutesAreRight` then is arithmetic of whole minutes (`WholeMinutes`), and
`NightBusesAreRight` of the clock: a window wrapped into one day holds a time
exactly if the window laid out in line, or that of the day before, reaches it
(`WindowHolds`, `OperatingIsRunning`).

This proof would not go through as `NightBusesRun` stood: a window of a whole day,
00:00 to 24:00, is wrapped to its first minute, after which the code has the
service not running. `MCBatchArrivals` has such a row now (`AllDay`), the property
speaks of windows shorter than a day (`ShortWindows`), and without that hypothesis
TLC refutes it.

`RetentionProofs`, for any devices, platforms, tasks in flight and times to live
that satisfy `SetTtl > 1` and `SetTtl + 1 < FirstSeenTtl`:

| theorem | statement |
|---|---|
| `TypeCorrect` | `Spec => []TypeOK` |
| `DevicesAreCountedOnce` | `Spec => []CountedOnce` |
| `CohortsWereActive` | `Spec => []CohortWasActive` |
| `NewUsersAreKept` | `Spec => []NewUsersAreCounted` |
| `RatesAreAtMostOne` | `Spec => RatesAreRates` |

The argument. A device is in one cohort because SET NX answers one task only, and
the key it sets outlasts the cohort: `SeenInv` says that the first-seen key of a
device in a fresh cohort lasts longer than it, and that at most one task will
still join for it (`Pending`). It was active because a task that comes to `join`
has gone through the active sets of its day (`ActiveInv`), which have not lapsed
by then (`EndsInv`): a task is at most a day late, which is where `SetTtl > 1` is
used. A new user is not lost (`KeptInv`): unless its connection was cut, a device
with a key has a task that will join, or is in a cohort that lasts `SetTtl` days
from the day the key was set, or had it set that long ago. A rate is at most one as a cohort does not grow once its day
is over and its tasks are done (`ReportInv`); finite sets and their cardinalities
come from `FiniteSetTheorems`.

About the engagement report, for any finite set of devices, any range of dates,
windows with `1 <= WeekDays <= MonthDays` and any activity:

| theorem | statement |
|---|---|
| `UsersAreCountedOnce` | `ReportSpec => []RowsCountDistinctUsers` |
| `DetailAlwaysAgrees` | `ReportSpec => []DetailAgreesWithColumns` |

The argument. Before a date, a counter that slides over `days` dates holds for each
device the number of dates in the window on which it was active, and only devices
with one (`Counts(counter, Window(cursor, days))`): a turn adds one date
(`CountDateMore`) and takes one away (`CountDateLess`), if it had been read; had it
not, nothing is subtracted (`CountNoneLess`). The preload is long enough for the
window of the first date of a range (`WindowIsWhole`). `DetailInv` says the same of
the pass over a cohort, whose window only grows (`DetailTurns`).

`DailyLogProofs`, for any sizes, days, lines and failures that satisfy
`BoundAssumption`:

| theorem | statement |
|---|---|
| `TypeCorrect` | `Spec => []TypeOK` |
| `OldFilesAreRemoved` | `Spec => []RemovedInTime` |
| `NewestLinesAreKept` | `Spec => []KeepsNewestLines` |
| `SummaryIsAlwaysOfToday` | `Spec => []SummaryIsOfToday` |

The argument. `LogInv` says of each file what it says of the bytes in memory while
it is rewritten (`Content`). `NewestKept`: without a failure a file is what was
written to it but for its first lines (`RestOf`), and has lost some only if it is
as long as a trim leaves it; a trim drops what it reads up to the first newline,
which ends a line. `Limited`: a file is above its limit only while a record is
written to it. `Removed`: each new day removes what is too old, but for the files
`left` because they could not be removed, and nothing else, before it goes on. The summary is the hardest: a cut line swallows the line after
it, as there is no newline between them. `OneCutEach` counts: the lines that begin
where another has not ended, together with the files that end within a line, are no
more than the failures, since a failure makes at most one such end, the next line
uses it up, and a trim makes none. The one induction, over the length of a file, is
made with the least counterexample (`WFMin` of `WellFoundedInduction`).

This proof found that `KeepsNewestLines` was an off-by-one too strict: a line that
begins exactly where the trim's read begins is dropped whole, so what is left may
be shorter by all of a line.

`FeedbackProofs`, for any finite number of requests, and any rows, days and faults:

| theorem | statement |
|---|---|
| `TypeCorrect` | `Spec => []TypeOK` |
| `StoredAlwaysBeforeMailed` | `Spec => []StoredBeforeMailed` |
| `StatusIsAlwaysSetOnce` | `Spec => StatusIsSetOnce` |
| `LimitsHold` | `Spec => []DailyLimits` |

The argument. `FeedbackInv` adds what a request knows: one that mails or writes
its status has a row, and one that was told its mail was sent is right
(`Stands`); rows are never deleted, so `OneRequest` carries both over the steps
of the others. `RowInv` adds whose a row is: no two requests have one (`OwnRows`), one
that is before its mail or its status is still "pending" and, before its mail, not
mailed, and a mail that was taken is accounted for (`Told`). That is what makes a
status final: whoever changes a row finds it pending. A limit may be exceeded, by no more than the other requests in
flight: `LimitInv` counts the posts of a day together with the requests heading
for it (`Heading`: those that have passed the count, and those that counted
before midnight). A request that passes finds less than the limit, so the sum is
at most the limit plus `Cardinality(Req) - 1`.

Model-checked only. Everything that rests on fairness (`EveryRequestEnds`,
`HomeBecomesFresh`, `TablesCatchUp`, `AppsCatchUp`, `StatusIsFinal`), which is
outside of what the provers support. Every invariant and every action property
that a passing run checks is a theorem.

## 5. Divergences found

In the list of runs:

1. A deletion of the last favourite takes one that was added meanwhile
   (`lost_favorite`).
2. `/v1/dataset/version` answers the checksum of the rows, which is never that of
   the archive that `/v1/dataset/download` serves (`dataset_checksum`).

`PROJECT.json` quotes the sentence each of them contradicts. With the other
configurations TLC finds as well that

3. `(current or -1) + 1` gives the second favourite of a card order 0 again
   (`MCItemOrder` with `MCFavorites`, `NewFavoritesComeLast`);
4. two creations of one favourite at once make it twice (`MCDuplicate` with
   `MCFavoriteRequests`, `NoDuplicateFavorite`);
5. an interrupted sync leaves changed rows under the old version (`MCPartialSync`
   with `MCStaticData`, `VersionNamesRows`);
6. a card named explicitly while empty gives a station a second card
   (`MCTwoCards` with `MCFavorites`, `OneCardPerStop`);
7. renaming one of a station's cards leaves its other card's title behind
   (`MCTitles` with `MCFavorites`, `TitlesStayConsistent`);
8. two creations that name one empty card mix stations (`MCMixedCard` with
   `MCFavoriteRequests`, `OneStopPerCard`);
9. two deletions of a card's last two favourites leave it empty (`MCEmptyCard`
   with `MCFavoriteRequests`, `CardsAreNeverEmptied`);
10. a home payload read before a write is cached after its invalidation, for up
    to 15 s (`MCStaleHome` with `MCFavoriteRequests`, `HomeFreshAtRest`);
11. two overlapping syncs leave rows that the version's checksum does not cover
    (`MCTwoSyncs` with `MCStaticData`, `VersionNamesRows`);
12. after the midnights around a weekend a bus of the day before is judged by
    the new day's windows (`MCWeekendNights` with `MCBatchArrivals`,
    `OperatingAlwaysTrue`).

The properties of the passing runs say what remains true in each of these
places: `CompleteSyncsAgree` beside 5, `NewFavoritesAreNotBefore` beside 3,
`NightBusesRun` beside 12, `DownloadIsWhole` beside 2.

## 6. Not modelled

* The scheduler: `build_scheduler` has no caller; cron runs the weekly sync.
* The load test script: a client for measurements, no state of the system.
* HTML of the operations pages and the free search over the logs: they change
  nothing; the summary they show is modelled.
* `restore_postgres.sh`, roll-back by hand and downgrades of migrations: no
  script of the release calls them.
* Pages within a table's download (one step), ranking, distances and the rounded
  key of nearby searches, tables of codes, SQL column lists, settings, wording.
* The version that the static data API makes up while no sync has completed.
* A traceback after a record of the log: it makes one record several lines, of which
  the page reads the first.
* Two runs of the dataset generator at once: nothing in `generate_sqlite_dataset.py`
  excludes them, but it has no schedule either; an operator runs it.
* `migrate.sh` alone, the migration-only path of `RELEASE_RUNBOOK.md:91`: `Migrate` is
  a step of a release. After such an update old code serves on, so a dropped column
  is missed until the API is updated too.
* A new user whose task is cut off between the pipelines of `track_activity` is in no
  cohort: that is what the code does, `cut` excepts such users, and
  `NewUsersAreCounted` says that nobody else is lost.

What could be proved next: which rules of section 5 survive when only some kinds of
calls of one device run at once (`MCAliasRace` suggests that alias calls keep the
foreign keys); and that the sum of a cohort's active days is that of its columns,
from `DetailAgreesWithColumns`, which is an induction over a finite set.
