------------------------------- MODULE Release -------------------------------
(***************************************************************************)
(* A release on the production host: scripts/release_prod.sh and the       *)
(* scripts it calls, the image they build from the checkout, the schema    *)
(* that Alembic and the API's create_all both change, the static data, and *)
(* the API container with the catalog of stops it loads when it starts.    *)
(*                                                                         *)
(* A revision of the code is a number, like the migration it brings: each  *)
(* creates a table, adds a column that code before it may leave out, drops *)
(* a column that only code before it uses, or leaves the schema alone.     *)
(***************************************************************************)
EXTENDS Integers

CONSTANTS
    LastRev,        \* bound: revisions of the code, 1 being in production
    TableRevs,      \* revisions whose migration creates a table
    ColumnRevs,     \* revisions whose migration adds a column
    DropRevs,       \* revisions whose migration drops a column
    LastEdition,    \* bound: editions of the static data
    Attempts,       \* health checks of a release: 12
    MaxFaults       \* bound: commands that fail and crashes of the API

Rev == 1..LastRev
Additions == TableRevs \cup ColumnRevs
Changes == Additions \cup DropRevs

ASSUME RevAssumption ==
    /\ LastRev \in Nat \ {0} /\ Changes \subseteq Rev
    /\ TableRevs \cap ColumnRevs = {} /\ DropRevs \cap Additions = {}
ASSUME BoundAssumption ==
    LastEdition \in Nat \ {0} /\ Attempts \in Nat \ {0} /\ MaxFaults \in Nat

VARIABLES
    tree,           \* the revision of the checkout
    built,          \* the revision of the image
    schema,         \* what alembic_version names, and the changes made to it
    table,          \* the edition in the table bus_stops
    api,            \* the API container: its revision and the catalog it loaded
    rel,            \* the release script
    faults

releaseVars == <<tree, built, schema, table, api, rel, faults>>

NoRelease == [at |-> "none", sync |-> FALSE, synced |-> 0, tries |-> 0, recreated |-> FALSE]
ScriptAt(label) == rel.at = label
Goto(label) == rel' = [rel EXCEPT !.at = label]
Over == rel.at \in {"none", "completed", "failed"}

\* `--build`: the image is that of the checkout.
Build == built' = tree

\* `compose up -d api` recreates the container if its image changed.
Up == api' = IF api.rev = tree THEN api ELSE [at |-> "starting", rev |-> tree, catalog |-> 0]

-----------------------------------------------------------------------------
(* The operator, who updates the checkout and then starts the script. *)

Checkout ==
    /\ Over
    /\ tree < LastRev
    /\ tree' = tree + 1
    /\ UNCHANGED <<built, schema, table, api, rel, faults>>

\* --skip-backup, --with-infra and --with-sync-static-data.
StartRelease ==
    /\ Over
    /\ \E backup, sync \in BOOLEAN :
        rel' = [NoRelease EXCEPT !.at = IF backup THEN "backup" ELSE "infra", !.sync = sync]
    /\ UNCHANGED <<tree, built, schema, table, api, faults>>

\* Mutant: only the last of the updates is looked at.
ApplicationOnlyThisOne == tree \notin Changes

\* DEPLOYMENT.md: up_api.sh alone, when the update changes application code only.
ApplicationOnly == \A r \in Rev : schema.stamp < r /\ r <= tree => r \notin Changes

LighterPath ==
    /\ Over
    /\ ApplicationOnly
    /\ Build
    /\ Up
    /\ UNCHANGED <<tree, schema, table, rel, faults>>

-----------------------------------------------------------------------------
(* release_prod.sh.  `set -e`: a command that fails ends it. *)

\* pg_dump, then the configuration files; and, if asked for, postgres and redis.
Backup == ScriptAt("backup") /\ Goto("infra") /\ UNCHANGED <<tree, built, schema, table, api, faults>>
Infra == ScriptAt("infra") /\ Goto("migrate") /\ UNCHANGED <<tree, built, schema, table, api, faults>>

Pending(target) == {r \in Changes : schema.stamp < r /\ r <= target}

\* Mutant: without --build, the migrations of the image there is.
HeadOfImage == built
HeadOfCheckout == tree

\* alembic upgrade head, in a transaction: a table that exists is an error.  The
\* API serves meanwhile, and until UpApi, with the code it has.
Migrate ==
    /\ ScriptAt("migrate")
    /\ Build
    /\ LET head == HeadOfCheckout IN
        IF Pending(head) \cap TableRevs \cap schema.has # {}
        THEN Goto("failed") /\ UNCHANGED schema
        ELSE /\ schema' = [stamp |-> head, has |-> schema.has \cup Pending(head)]
             /\ Goto(IF rel.sync THEN "sync" ELSE "up")
    /\ UNCHANGED <<tree, table, api, faults>>

\* A sync within a release; StaticData models its steps.
Sync ==
    /\ ScriptAt("sync")
    /\ Build
    /\ \E e \in table..LastEdition :
        /\ table' = e
        /\ rel' = [rel EXCEPT !.at = "up", !.synced = e]
    /\ UNCHANGED <<tree, schema, api, faults>>

UpApi ==
    /\ ScriptAt("up")
    /\ Build
    /\ Up
    /\ rel' = [rel EXCEPT !.at = "verify", !.recreated = api.rev # tree]
    /\ UNCHANGED <<tree, schema, table, faults>>

\* Mutant: a container that runs is enough.
HasContainer == TRUE

\* GET /health is answered once the application has started.
Healthy == api.at = "up"

\* verify_health.sh: curl every 5 s.
Verify ==
    /\ ScriptAt("verify")
    /\ rel' = IF Healthy THEN [rel EXCEPT !.at = "completed"]
              ELSE [rel EXCEPT !.tries = @ + 1,
                               !.at = IF rel.tries + 1 = Attempts THEN "failed" ELSE @]
    /\ UNCHANGED <<tree, built, schema, table, api, faults>>

CommandFails ==
    /\ ~Over
    /\ faults < MaxFaults
    /\ faults' = faults + 1
    /\ Goto("failed")
    /\ UNCHANGED <<tree, built, schema, table, api>>

Script == Backup \/ Infra \/ Migrate \/ Sync \/ UpApi \/ Verify \/ CommandFails

-----------------------------------------------------------------------------
(* The API container, restarted unless stopped, and the weekly sync. *)

\* lifespan: create_all makes the tables of the code that do not exist, then the
\* catalog is loaded.  Code that misses a column of bus_stops does not get so far:
\* its container restarts and remains "starting".
StartApi ==
    /\ api.at = "starting"
    /\ schema' = [schema EXCEPT !.has = @ \cup {r \in TableRevs : r <= api.rev}]
    /\ api' = [api EXCEPT !.at = "up", !.catalog = table]
    /\ UNCHANGED <<tree, built, table, rel, faults>>

CrashApi ==
    /\ api.at = "up"
    /\ faults < MaxFaults
    /\ faults' = faults + 1
    /\ api' = [api EXCEPT !.at = "starting", !.catalog = 0]
    /\ UNCHANGED <<tree, built, schema, table, rel>>

\* Code has the tables and columns that it names.
Made(rev) == {r \in Additions : r <= rev} \subseteq schema.has
Kept(rev) == {r \in DropRevs : r > rev} \cap schema.has = {}

\* cron: `compose run --rm --build api python -m app.tasks.sync_lta_data`.  The
\* code of a checkout that is ahead of the schema may fail.
WeeklySync ==
    /\ table < LastEdition
    /\ Build
    /\ table' \in {table + 1} \cup IF Made(tree) THEN {} ELSE {table}
    /\ UNCHANGED <<tree, schema, api, rel, faults>>

ReleaseInit ==
    /\ tree = 1 /\ built = 1
    /\ schema = [stamp |-> 1, has |-> {r \in Changes : r = 1}]
    /\ table = 1
    /\ api = [at |-> "up", rev |-> 1, catalog |-> 1]
    /\ rel = NoRelease
    /\ faults = 0

ReleaseStep ==
    Checkout \/ StartRelease \/ LighterPath \/ Script \/ StartApi \/ CrashApi \/ WeeklySync

ReleaseSpec == ReleaseInit /\ [][ReleaseStep]_releaseVars

-----------------------------------------------------------------------------
(* Properties. *)

\* The API serves only with code whose tables and added columns are there:
\* migrations of the same checkout come before it, crashes, failed releases and
\* lighter paths notwithstanding.  A column that a migration has dropped is
\* missed by the old code at most from the migration to the restart, and after
\* a release that failed until it is repeated: never from the health check on.
SchemaServesCode ==
    api.at = "up" =>
        /\ Made(api.rev)
        /\ rel.at \in {"none", "verify", "completed"} => Kept(api.rev)

\* What does not hold: migrate.sh runs while the old API serves, which then
\* misses the column that revision 0004 drops.
NoColumnIsMissed == api.at = "up" => Made(api.rev) /\ Kept(api.rev)

\* alembic upgrade never meets a table that create_all has made before it: a
\* release that failed can be repeated.
MigrationsApply == Pending(LastRev) \cap TableRevs \cap schema.has = {}

\* "Production release completed successfully." is said of an API that runs the
\* code of the checkout, with its migrations applied; a container the release
\* made has loaded the stops the release synced.
CompletedIsVerified ==
    [][ScriptAt("verify") /\ ScriptAt("completed")' =>
        /\ api.at = "up" /\ api.rev = tree /\ schema.stamp = tree
        /\ rel.recreated => api.catalog >= rel.synced]_releaseVars
=============================================================================
