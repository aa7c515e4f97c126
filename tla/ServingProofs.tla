----------------------------- MODULE ServingProofs -----------------------------
(***************************************************************************)
(* Theorems about Release, and about StopSearch and Dataset, each beside a *)
(* release: the API has the schema its code needs, the migrations apply, a *)
(* release that completed is what was released, nobody is shown the names  *)
(* of another, what is cached catches up with the table, and an archive is *)
(* answered whole.                                                         *)
(*                                                                         *)
(* The arguments: the changes that are in the database are always exactly  *)
(* those up to the revision in alembic_version, because the API only ever  *)
(* runs code with no change beyond it.  So create_all, which could make a  *)
(* table before its migration does, finds all of its tables made.  A cached*)
(* entry of other rows than the table's was cached no later than the last  *)
(* change of the table or start of the API, and its time to live has run   *)
(* since.  A version that the manifest names, or named when the app read   *)
(* it, is generated once more only while it is still the table's, and the  *)
(* table never returns to an edition.                                      *)
(*                                                                         *)
(* The last part is about BatchArrivals, what the API answers of arrivals. *)
(***************************************************************************)
EXTENDS StopSearch, Dataset, BatchArrivals, TLAPS, FiniteSetTheorems, SequenceTheorems

(***************************************************************************)
(* Releases.                                                               *)
(***************************************************************************)
Label == {"none", "backup", "infra", "migrate", "sync", "up", "verify", "completed", "failed"}

\* The shape of the records, without the ranges no argument needs.
ScriptOK ==
    /\ rel.at \in Label
    /\ rel.synced \in Int
    /\ DOMAIN rel = {"at", "sync", "synced", "tries", "recreated"}
    /\ rel = [field \in DOMAIN rel |-> rel[field]]
ApiOK ==
    /\ api.at \in {"starting", "up"}
    /\ api.rev \in Rev
    /\ api.catalog \in Int
    /\ api = [at |-> api.at, rev |-> api.rev, catalog |-> api.catalog]
SchemaOK == schema.stamp \in Rev /\ schema = [stamp |-> schema.stamp, has |-> schema.has]
ShapeOK == ScriptOK /\ ApiOK /\ SchemaOK /\ tree \in Rev /\ table \in Int

\* The changes up to a revision.
UpTo(rev) == {r \in Changes : r <= rev}

\* Migrations are applied in full, and only those of a checkout.
Migrated == schema.has = UpTo(schema.stamp) /\ schema.stamp <= tree

\* The code that runs needs no change beyond the last migration.
Needs == \A r \in Changes : r <= api.rev => r <= schema.stamp

\* Where the script is, the steps before it are done.
Progress ==
    /\ rel.at \in {"sync", "up", "verify"} => schema.stamp = tree
    /\ rel.at = "verify" => api.rev = tree

\* Where no migration is on its way, the code that runs is not older than a
\* column that was dropped.
Covered ==
    rel.at \in {"none", "verify", "completed"} =>
        \A r \in DropRevs : r <= schema.stamp => r <= api.rev

SchemaInv == ShapeOK /\ Migrated /\ Needs /\ Progress /\ Covered

\* What a release synced is in the table; a container the release made loads it.
Loaded ==
    /\ table >= 0 /\ rel.synced <= table
    /\ rel.at = "verify" /\ rel.recreated /\ api.at = "up" => api.catalog >= rel.synced

-----------------------------------------------------------------------------
LEMMA Revisions == Rev \subseteq Int /\ Changes \subseteq Rev /\ 1 \in Rev
                   /\ TableRevs \subseteq Changes /\ DropRevs \subseteq Changes
BY RevAssumption DEF Rev, Changes, Additions

\* A step of the script that only goes to another label.
LEMMA GoesTo ==
    ASSUME ScriptOK, NEW label \in Label, Goto(label)
    PROVE  /\ ScriptOK' /\ rel'.at = label
           /\ rel'.synced = rel.synced /\ rel'.recreated = rel.recreated
BY DEF ScriptOK, Goto

LEMMA InitSchema == ReleaseInit => SchemaInv
<1> SUFFICES ASSUME ReleaseInit PROVE SchemaInv
  OBVIOUS
<1>1. ShapeOK
  <2>1. ScriptOK
    BY DEF ReleaseInit, NoRelease, ScriptOK, Label
  <2>2. ApiOK /\ SchemaOK
    BY Revisions DEF ReleaseInit, ApiOK, SchemaOK
  <2> QED  BY <2>1, <2>2, Revisions DEF ReleaseInit, ShapeOK
<1>2. {r \in Changes : r = 1} = UpTo(1)
  <2>1. \A r \in Changes : r \in Rev
    BY Revisions
  <2>2. \A r \in Rev : r = 1 <=> r <= 1
    BY RevAssumption DEF Rev
  <2> QED  BY <2>1, <2>2 DEF UpTo
<1>3. Migrated /\ Needs
  BY <1>2 DEF ReleaseInit, Migrated, Needs
<1>4. Progress /\ Covered
  BY DEF ReleaseInit, NoRelease, Progress, Covered
<1> QED  BY <1>1, <1>3, <1>4 DEF SchemaInv

\* The migrations of a checkout that includes all applied ones.
LEMMA MigrateKeeps == ASSUME SchemaInv, Migrate PROVE SchemaInv'
<1> USE Revisions
<1>1. UNCHANGED <<tree, table, api>> /\ ScriptOK /\ tree \in Rev /\ rel.at = "migrate"
  BY DEF SchemaInv, ShapeOK, Migrate, ScriptAt
<1>2. CASE Goto("failed") /\ UNCHANGED schema
  <2>1. ScriptOK' /\ rel'.at = "failed"
    BY <1>1, <1>2, GoesTo DEF Label
  <2> QED
    BY <1>1, <1>2, <2>1 DEF SchemaInv, ShapeOK, ApiOK, SchemaOK, Migrated, Needs, Progress, Covered, UpTo
<1>3. CASE /\ schema' = [stamp |-> tree, has |-> schema.has \cup Pending(tree)]
           /\ Goto(IF rel.sync THEN "sync" ELSE "up")
  <2>1. ScriptOK' /\ rel'.at \in {"sync", "up"}
    <3>1. CASE rel.sync
      BY <1>1, <1>3, <3>1, GoesTo DEF Label
    <3>2. CASE ~rel.sync
      BY <1>1, <1>3, <3>2, GoesTo DEF Label
    <3> QED  BY <3>1, <3>2
  <2>2. SchemaOK' /\ schema'.stamp = tree /\ tree' = tree /\ tree \in Rev
    BY <1>1, <1>3 DEF SchemaOK
  <2>3. schema'.has = UpTo(tree)
    BY <1>1, <1>3 DEF SchemaInv, ShapeOK, SchemaOK, Migrated, UpTo, Pending, Rev
  <2>4. Migrated'
    BY <2>2, <2>3 DEF Migrated, UpTo, Rev
  <2>5. Needs'
    BY <1>1, <2>2 DEF SchemaInv, ShapeOK, SchemaOK, ApiOK, Migrated, Needs, Rev
  <2> QED
    BY <1>1, <2>1, <2>2, <2>4, <2>5 DEF SchemaInv, ShapeOK, ApiOK, Progress, Covered
<1> QED  BY <1>2, <1>3 DEF Migrate, HeadOfCheckout

\* Up brings the code of the checkout, whose changes are applied.
LEMMA UpKeeps ==
    ASSUME SchemaInv, Up, UNCHANGED schema, \A r \in Changes : r <= tree => r <= schema.stamp
    PROVE  ApiOK' /\ Needs' /\ api'.rev = tree
<1>1. CASE api.rev = tree
  BY <1>1 DEF Up, SchemaInv, ShapeOK, ApiOK, Needs
<1>2. CASE api.rev # tree
  <2>1. api' = [at |-> "starting", rev |-> tree, catalog |-> 0]
    BY <1>2 DEF Up
  <2> QED  BY <2>1 DEF SchemaInv, ShapeOK, ApiOK, Needs
<1> QED  BY <1>1, <1>2

\* create_all finds the tables of its code made.
LEMMA StartKeeps == ASSUME SchemaInv, StartApi PROVE SchemaInv'
<1>1. /\ UNCHANGED <<tree, table, rel>>
      /\ schema' = [schema EXCEPT !.has = @ \cup {r \in TableRevs : r <= api.rev}]
      /\ api' = [api EXCEPT !.at = "up", !.catalog = table]
  BY DEF StartApi
<1>2. {r \in TableRevs : r <= api.rev} \subseteq schema.has
  BY Revisions DEF SchemaInv, Migrated, Needs, UpTo
<1>3. schema' = schema
  BY <1>1, <1>2 DEF SchemaInv, ShapeOK, SchemaOK
<1>4. ApiOK' /\ api'.rev = api.rev
  BY <1>1 DEF SchemaInv, ShapeOK, ApiOK
<1> QED
  BY <1>1, <1>3, <1>4 DEF SchemaInv, ShapeOK, ScriptOK, SchemaOK, Migrated, Needs, Progress, Covered, UpTo

LEMMA StepSchema == SchemaInv /\ [ReleaseStep]_releaseVars => SchemaInv'
<1> SUFFICES ASSUME SchemaInv, [ReleaseStep]_releaseVars PROVE SchemaInv'
  OBVIOUS
<1> USE Revisions
<1>1. CASE Checkout
  <2>1. tree' \in Rev /\ tree <= tree' /\ UNCHANGED <<schema, table, api, rel>>
    BY <1>1, RevAssumption DEF Checkout, SchemaInv, ShapeOK, Rev
  <2>2. rel.at \notin {"sync", "up", "verify"}
    BY <1>1 DEF Checkout, Over
  <2>3. Migrated'
    BY <2>1 DEF SchemaInv, ShapeOK, SchemaOK, Migrated, UpTo, Rev
  <2> QED
    BY <2>1, <2>2, <2>3 DEF SchemaInv, ShapeOK, ScriptOK, ApiOK, SchemaOK, Needs, Progress, Covered
<1>2. CASE StartRelease
  <2>1. PICK backup \in BOOLEAN, sync \in BOOLEAN :
          rel' = [NoRelease EXCEPT !.at = IF backup THEN "backup" ELSE "infra", !.sync = sync]
    BY <1>2 DEF StartRelease
  <2>2. PICK first \in {"backup", "infra"} : rel' = [NoRelease EXCEPT !.at = first, !.sync = sync]
    BY <2>1
  <2>3. rel'.at \in {"backup", "infra"} /\ ScriptOK'
    <3>1. rel' = [at |-> first, sync |-> sync, synced |-> 0, tries |-> 0, recreated |-> FALSE]
      BY <2>2 DEF NoRelease
    <3> QED  BY <3>1 DEF ScriptOK, Label
  <2>4. UNCHANGED <<tree, schema, table, api>>
    BY <1>2 DEF StartRelease
  <2> QED
    BY <2>3, <2>4 DEF SchemaInv, ShapeOK, ApiOK, SchemaOK, Migrated, Needs, Progress, Covered, UpTo
<1>3. CASE LighterPath
  <2>1. Up /\ UNCHANGED <<tree, schema, table, rel>> /\ rel.at \notin {"sync", "up", "verify"}
    BY <1>3 DEF LighterPath, Over
  <2>2. \A r \in Changes : r <= tree => r <= schema.stamp
    BY <1>3 DEF LighterPath, ApplicationOnly, SchemaInv, ShapeOK, SchemaOK, Rev
  <2>3. ApiOK' /\ Needs' /\ api'.rev = tree
    BY <2>1, <2>2, UpKeeps
  <2>4. Covered'
    BY <2>1, <2>3 DEF SchemaInv, ShapeOK, SchemaOK, Migrated, Covered, Rev
  <2> QED
    BY <2>1, <2>3, <2>4 DEF SchemaInv, ShapeOK, ScriptOK, SchemaOK, Migrated, Progress, UpTo
<1>4. CASE Backup \/ Infra \/ CommandFails
  <2>1. PICK label \in {"infra", "migrate", "failed"} : Goto(label)
    BY <1>4 DEF Backup, Infra, CommandFails
  <2>2. ScriptOK' /\ rel'.at \in {"infra", "migrate", "failed"}
    BY <2>1, GoesTo DEF SchemaInv, ShapeOK, Label
  <2>3. UNCHANGED <<tree, schema, table, api>>
    BY <1>4 DEF Backup, Infra, CommandFails
  <2> QED
    BY <2>2, <2>3 DEF SchemaInv, ShapeOK, ApiOK, SchemaOK, Migrated, Needs, Progress, Covered, UpTo
<1>5. CASE Migrate
  BY <1>5, MigrateKeeps
<1>6. CASE Sync
  <2>1. PICK e \in table..LastEdition :
          table' = e /\ rel' = [rel EXCEPT !.at = "up", !.synced = e]
    BY <1>6 DEF Sync
  <2>2. ScriptOK' /\ rel'.at = "up" /\ rel.at = "sync"
    <3>1. ScriptOK /\ table \in Int /\ rel.at = "sync"
      BY <1>6 DEF Sync, ScriptAt, SchemaInv, ShapeOK
    <3>2. rel'.at = "up" /\ rel'.synced = e /\ rel' = [field \in DOMAIN rel |-> rel'[field]]
      BY <2>1, <3>1 DEF ScriptOK
    <3> QED  BY <2>1, <3>1, <3>2 DEF ScriptOK, Label
  <2>3. UNCHANGED <<tree, schema, api>>
    BY <1>6 DEF Sync
  <2>4. table' \in Int
    BY <2>1
  <2> QED
    BY <2>2, <2>3, <2>4 DEF SchemaInv, ShapeOK, ApiOK, SchemaOK, Migrated, Needs, Progress, Covered, UpTo
<1>7. CASE UpApi
  <2>1. Up /\ UNCHANGED <<tree, schema, table>> /\ rel.at = "up"
    BY <1>7 DEF UpApi, ScriptAt
  <2>2. schema.stamp = tree
    BY <2>1 DEF SchemaInv, Progress
  <2>3. ApiOK' /\ Needs' /\ api'.rev = tree
    BY <2>1, <2>2, UpKeeps
  <2>4. ScriptOK' /\ rel'.at = "verify"
    BY <1>7 DEF UpApi, SchemaInv, ShapeOK, ScriptOK, Label
  <2> QED
    BY <2>1, <2>2, <2>3, <2>4 DEF SchemaInv, ShapeOK, SchemaOK, Migrated, Progress, Covered, UpTo
<1>8. CASE Verify
  <2>1. ScriptOK'
    BY <1>8 DEF Verify, ScriptAt, SchemaInv, ShapeOK, ScriptOK, Label
  <2>2. UNCHANGED <<tree, schema, table, api>> /\ rel.at = "verify"
    BY <1>8 DEF Verify, ScriptAt
  <2> QED
    BY <2>1, <2>2 DEF SchemaInv, ShapeOK, ApiOK, SchemaOK, Migrated, Needs, Progress, Covered, UpTo
<1>9. CASE StartApi
  BY <1>9, StartKeeps
<1>10. CASE CrashApi
  <2>1. ApiOK' /\ api'.rev = api.rev
    <3>1. api' = [at |-> "starting", rev |-> api.rev, catalog |-> 0]
      BY <1>10 DEF CrashApi, SchemaInv, ShapeOK, ApiOK
    <3> QED  BY <3>1 DEF SchemaInv, ShapeOK, ApiOK
  <2>2. UNCHANGED <<tree, schema, table, rel>>
    BY <1>10 DEF CrashApi
  <2> QED
    BY <2>1, <2>2 DEF SchemaInv, ShapeOK, ScriptOK, SchemaOK, Migrated, Needs, Progress, Covered, UpTo
<1>11. CASE WeeklySync
  BY <1>11 DEF WeeklySync, SchemaInv, ShapeOK, ScriptOK, ApiOK, SchemaOK, Migrated, Needs,
               Progress, Covered, UpTo
<1>12. CASE UNCHANGED releaseVars
  BY <1>12 DEF releaseVars, SchemaInv, ShapeOK, ScriptOK, ApiOK, SchemaOK, Migrated, Needs,
               Progress, Covered, UpTo
<1> QED
  BY <1>1, <1>2, <1>3, <1>4, <1>5, <1>6, <1>7, <1>8, <1>9, <1>10, <1>11, <1>12
     DEF ReleaseStep, Script

LEMMA SchemaAlways == ReleaseSpec => []SchemaInv
BY InitSchema, StepSchema, PTL DEF ReleaseSpec

\* However checkouts, releases that fail, lighter paths, crashes and syncs
\* follow one another, the API serves only with the tables and added columns of
\* its code, and misses a dropped column only between a migration and the
\* restart that should follow it.
THEOREM SchemaAlwaysServes == ReleaseSpec => []SchemaServesCode
<1>1. SchemaInv => SchemaServesCode
  <2> SUFFICES ASSUME SchemaInv PROVE SchemaServesCode
    OBVIOUS
  <2>1. Made(api.rev)
    BY DEF SchemaInv, Migrated, Needs, UpTo, Made, Changes
  <2>2. ASSUME rel.at \in {"none", "verify", "completed"} PROVE Kept(api.rev)
    <3>1. \A r \in DropRevs : r \in schema.has => r <= api.rev
      BY <2>2 DEF SchemaInv, Migrated, Covered, UpTo
    <3>2. DropRevs \subseteq Int /\ api.rev \in Int
      BY Revisions DEF SchemaInv, ShapeOK, ApiOK
    <3>3. \A r \in DropRevs : r > api.rev => r \notin schema.has
      BY <3>1, <3>2
    <3> QED  BY <3>3 DEF Kept
  <2> QED  BY <2>1, <2>2 DEF SchemaServesCode
<1> QED  BY <1>1, SchemaAlways, PTL

\* create_all never makes a table whose migration is still to come.
THEOREM MigrationsAlwaysApply == ReleaseSpec => []MigrationsApply
<1>1. SchemaInv => MigrationsApply
  BY Revisions DEF SchemaInv, ShapeOK, SchemaOK, Migrated, MigrationsApply, Pending, UpTo, Rev
<1> QED  BY <1>1, SchemaAlways, PTL
-----------------------------------------------------------------------------
(* What a release says of itself. *)

LEMMA InitLoaded == ReleaseInit => Loaded
BY DEF ReleaseInit, NoRelease, Loaded

LEMMA StepLoaded == SchemaInv /\ Loaded /\ [ReleaseStep]_releaseVars => Loaded'
<1> SUFFICES ASSUME SchemaInv, Loaded, [ReleaseStep]_releaseVars PROVE Loaded'
  OBVIOUS
<1>0. ScriptOK /\ ApiOK /\ table \in Int
  BY DEF SchemaInv, ShapeOK
<1>1. CASE Checkout \/ LighterPath
  BY <1>0, <1>1 DEF Checkout, LighterPath, Over, Loaded, ScriptOK
<1>2. CASE StartRelease
  <2>1. PICK backup \in BOOLEAN, sync \in BOOLEAN :
          rel' = [NoRelease EXCEPT !.at = IF backup THEN "backup" ELSE "infra", !.sync = sync]
    BY <1>2 DEF StartRelease
  <2>2. PICK first \in {"backup", "infra"} : rel' = [NoRelease EXCEPT !.at = first, !.sync = sync]
    BY <2>1
  <2>3. rel' = [at |-> first, sync |-> sync, synced |-> 0, tries |-> 0, recreated |-> FALSE]
    BY <2>2 DEF NoRelease
  <2> QED  BY <1>0, <1>2, <2>3 DEF StartRelease, Loaded
<1>3. CASE Backup \/ Infra \/ CommandFails \/ Migrate
  <2>1. PICK label \in {"infra", "migrate", "failed", "sync", "up"} : Goto(label)
    BY <1>3 DEF Backup, Infra, CommandFails, Migrate
  <2>2. rel'.at = label /\ rel'.synced = rel.synced
    BY <1>0, <2>1, GoesTo DEF Label
  <2> QED  BY <1>0, <1>3, <2>2 DEF Backup, Infra, CommandFails, Migrate, Loaded, ScriptOK
<1>4. CASE Sync
  <2>1. PICK e \in table..LastEdition :
          table' = e /\ rel' = [rel EXCEPT !.at = "up", !.synced = e]
    BY <1>4 DEF Sync
  <2>2. rel'.at = "up" /\ rel'.synced = e
    BY <1>0, <2>1 DEF ScriptOK
  <2> QED  BY <1>0, <2>1, <2>2 DEF Loaded
<1>5. CASE UpApi
  <2>1. rel' = [rel EXCEPT !.at = "verify", !.recreated = api.rev # tree] /\ table' = table
    BY <1>5 DEF UpApi
  <2>2. rel'.at = "verify" /\ rel'.synced = rel.synced /\ rel'.recreated = (api.rev # tree)
    BY <1>0, <2>1 DEF ScriptOK
  <2>3. CASE api.rev = tree
    BY <2>1, <2>2, <2>3 DEF Loaded
  <2>4. CASE api.rev # tree
    <3>1. api'.at = "starting"
      BY <1>5, <2>4 DEF UpApi, Up
    <3> QED  BY <2>1, <2>2, <3>1 DEF Loaded
  <2> QED  BY <2>3, <2>4
<1>6. CASE Verify
  <2>1. /\ rel'.synced = rel.synced /\ rel'.recreated = rel.recreated
        /\ UNCHANGED <<table, api>> /\ rel.at = "verify"
    BY <1>0, <1>6 DEF Verify, ScriptAt, ScriptOK
  <2> QED  BY <2>1 DEF Loaded
<1>7. CASE StartApi
  <2>1. api'.catalog = table /\ UNCHANGED <<rel, table>>
    BY <1>0, <1>7 DEF StartApi, ApiOK
  <2> QED  BY <1>0, <2>1 DEF Loaded, ScriptOK
<1>8. CASE CrashApi
  <2>1. api'.at = "starting" /\ UNCHANGED <<rel, table>>
    BY <1>0, <1>8 DEF CrashApi, ApiOK
  <2> QED  BY <2>1 DEF Loaded
<1>9. CASE WeeklySync
  BY <1>0, <1>9 DEF WeeklySync, Loaded, ScriptOK
<1>10. CASE UNCHANGED releaseVars
  BY <1>10 DEF releaseVars, Loaded
<1> QED
  BY <1>1, <1>2, <1>3, <1>4, <1>5, <1>6, <1>7, <1>8, <1>9, <1>10 DEF ReleaseStep, Script

\* A release that says it completed left the API running the code of the
\* checkout on its schema, and, if it made a new container, with the stops it
\* synced.
THEOREM CompletedIsAlwaysVerified == ReleaseSpec => CompletedIsVerified
<1>1. SchemaInv /\ Loaded /\ [ReleaseStep]_releaseVars =>
        [ScriptAt("verify") /\ ScriptAt("completed")' =>
           /\ api.at = "up" /\ api.rev = tree /\ schema.stamp = tree
           /\ rel.recreated => api.catalog >= rel.synced]_releaseVars
  <2> SUFFICES ASSUME SchemaInv, Loaded, ReleaseStep, rel.at = "verify", rel'.at = "completed"
               PROVE  /\ api.at = "up" /\ api.rev = tree /\ schema.stamp = tree
                      /\ rel.recreated => api.catalog >= rel.synced
    BY DEF ScriptAt
  <2>1. api.rev = tree /\ schema.stamp = tree
    BY DEF SchemaInv, Progress
  <2>2. ScriptOK
    BY DEF SchemaInv, ShapeOK
  <2>3. CASE Verify
    <3>1. api.at = "up"
      <4>1. CASE api.at # "up"
        BY <2>2, <2>3, <4>1 DEF Verify, Healthy, ScriptOK
      <4> QED  BY <4>1
    <3> QED  BY <2>1, <3>1 DEF Loaded
  <2>4. CASE CommandFails
    BY <2>2, <2>4, GoesTo DEF CommandFails, Label
  <2>5. CASE ~Verify /\ ~CommandFails
    BY <2>5 DEF ReleaseStep, Script, Checkout, StartRelease, LighterPath, Over, Backup, Infra,
                Migrate, Sync, UpApi, StartApi, CrashApi, WeeklySync, ScriptAt
  <2> QED  BY <2>3, <2>4, <2>5
<1> QED  BY <1>1, InitLoaded, StepLoaded, SchemaAlways, PTL DEF ReleaseSpec, CompletedIsVerified

(***************************************************************************)
(* Searches.                                                               *)
(***************************************************************************)
\* The shape of a search, whatever edition it carries.
Fields == {"at", "user", "named", "hit", "edition", "names"}
Whole(t) == DOMAIN t = Fields /\ t = [field \in Fields |-> t[field]]

SearchShape == search = [q \in Search |-> search[q]] /\ \A q \in Search : Whole(search[q])

FoundShape ==
    found # NoEntry => /\ found = [edition |-> found.edition, left |-> found.left, names |-> found.names]
                       /\ found.left \in 1..SearchTtl

\* What is cached, and what a search carries, has the official names.
OfficialNames ==
    /\ found # NoEntry => found.names = Nobody
    /\ \A q \in Search : search[q].names = Nobody
                            \/ (search[q].at = "shown" /\ search[q].names = search[q].user)

\* Other rows than the table's were found before the last change.
CatchesUp ==
    api.at = "up" /\ api.catalog = table =>
        /\ found # NoEntry /\ found.edition # table => settled + found.left <= SearchTtl
        /\ \A q \in Search : search[q].at = "set" /\ search[q].edition # table => settled = 0

SearchInv == SearchShape /\ FoundShape /\ settled \in Nat /\ OfficialNames /\ CatchesUp

LEMMA InitSearch == SearchInit => SearchInv
<1> SUFFICES ASSUME SearchInit PROVE SearchInv
  OBVIOUS
<1>1. \A q \in Search : search[q] = NoSearch
  BY DEF SearchInit
<1>2. Whole(NoSearch) /\ NoSearch.at = "idle" /\ NoSearch.names = Nobody
  BY DEF NoSearch, Whole, Fields
<1>3. SearchShape
  BY <1>1, <1>2 DEF SearchInit, SearchShape
<1>4. FoundShape /\ settled \in Nat /\ OfficialNames /\ CatchesUp
  BY <1>1, <1>2 DEF SearchInit, FoundShape, OfficialNames, CatchesUp
<1> QED  BY <1>3, <1>4 DEF SearchInv

\* One search goes on.
LEMMA SearchGoesOn ==
    ASSUME SearchInv, NEW q \in Search, NEW t, Whole(t),
           search' = [search EXCEPT ![q] = t],
           t.names = Nobody \/ (t.at = "shown" /\ t.names = t.user),
           UNCHANGED <<found, settled, api, table>>,
           api.at = "up" /\ api.catalog = table /\ t.at = "set" /\ t.edition # table => settled = 0
    PROVE  SearchInv'
<1>1. search'[q] = t /\ \A p \in Search \ {q} : search'[p] = search[p]
  BY DEF SearchInv, SearchShape
<1>2. SearchShape'
  BY <1>1 DEF SearchInv, SearchShape
<1>3. OfficialNames'
  BY <1>1 DEF SearchInv, OfficialNames
<1>4. CatchesUp'
  BY <1>1 DEF SearchInv, CatchesUp
<1> QED  BY <1>2, <1>3, <1>4 DEF SearchInv, FoundShape

LEMMA StepSearch == SearchInv /\ [SearchNext]_<<releaseVars, searchVars>> => SearchInv'
<1> SUFFICES ASSUME SearchInv, [SearchNext]_<<releaseVars, searchVars>> PROVE SearchInv'
  OBVIOUS
<1>0. \A q \in Search : Whole(search[q])
  BY DEF SearchInv, SearchShape
<1>1. CASE SearchesUnder(ReleaseStep)
  <2>1. found' = found /\ settled' \in Nat /\ FoundShape'
    BY <1>1 DEF SearchesUnder, SearchInv, FoundShape
  <2>2. CASE api' = api
    <3>1. search' = search
      BY <1>1, <2>2 DEF SearchesUnder
    <3>2. CASE table' = table
      BY <1>1, <2>1, <2>2, <3>1, <3>2
         DEF SearchesUnder, SearchInv, SearchShape, OfficialNames, CatchesUp
    <3>3. CASE table' # table
      <4>1. settled' = 0
        BY <1>1, <3>3 DEF SearchesUnder
      <4>2. CatchesUp'
        BY <2>1, <4>1 DEF FoundShape, CatchesUp
      <4> QED  BY <2>1, <3>1, <4>1, <4>2 DEF SearchInv, SearchShape, OfficialNames
    <3> QED  BY <3>2, <3>3
  <2>3. CASE api' # api
    <3>1. search' = [q \in Search |-> NoSearch] /\ settled' = 0
      BY <1>1, <2>3 DEF SearchesUnder
    <3>2. CatchesUp'
      BY <2>1, <3>1 DEF FoundShape, CatchesUp
    <3>3. SearchShape' /\ OfficialNames'
      BY <2>1, <3>1 DEF SearchInv, SearchShape, OfficialNames, NoSearch, Whole, Fields
    <3> QED  BY <2>1, <3>2, <3>3 DEF SearchInv
  <2> QED  BY <2>2, <2>3
<1>2. CASE SearchTick /\ UNCHANGED releaseVars
  <2>1. /\ UNCHANGED <<search, api, table>> /\ \A q \in Search : search[q].at = "idle"
        /\ found' = LeftAfterTick(found) /\ settled \in Nat
        /\ settled' = IF settled > SearchTtl THEN settled ELSE settled + 1
    BY <1>2 DEF SearchTick, releaseVars, Doing, SearchInv
  <2>2. CASE found' = NoEntry
    BY <2>1, <2>2 DEF SearchInv, SearchShape, FoundShape, OfficialNames, CatchesUp
  <2>3. CASE found' # NoEntry
    <3>1. /\ found # NoEntry /\ found.left # 1 /\ found' = [found EXCEPT !.left = @ - 1]
          /\ found.left \in 1..SearchTtl /\ SearchTtl \in Nat
      BY <2>1, <2>3, SearchAssumption DEF LeftAfterTick, SearchInv, FoundShape
    <3>2. /\ found'.edition = found.edition /\ found'.names = found.names
          /\ found'.left = found.left - 1 /\ found'.left \in 1..SearchTtl
          /\ found' = [edition |-> found'.edition, left |-> found'.left, names |-> found'.names]
      BY <3>1 DEF SearchInv, FoundShape
    <3>3. CatchesUp'
      BY <2>1, <3>1, <3>2 DEF SearchInv, CatchesUp
    <3> QED
      BY <2>1, <3>1, <3>2, <3>3 DEF SearchInv, SearchShape, FoundShape, OfficialNames
  <2> QED  BY <2>2, <2>3
<1>3. ASSUME NEW q \in Search, SearchStep(q), UNCHANGED releaseVars PROVE SearchInv'
  <2>0. UNCHANGED <<api, table>> /\ Whole(search[q])
    BY <1>0, <1>3 DEF releaseVars
  <2>1. CASE BeginSearch(q)
    <3>1. PICK u \in User : search' = [search EXCEPT ![q] = [NoSearch EXCEPT !.at = "get", !.user = u]]
      BY <2>1 DEF BeginSearch
    <3> DEFINE t == [NoSearch EXCEPT !.at = "get", !.user = u]
    <3>2. Whole(t) /\ t.at = "get" /\ t.names = Nobody
      BY DEF NoSearch, Whole, Fields
    <3> HIDE DEF t
    <3>3. search' = [search EXCEPT ![q] = t] /\ UNCHANGED <<found, settled>>
      BY <2>1, <3>1 DEF BeginSearch, t
    <3> QED  BY <2>0, <3>2, <3>3, SearchGoesOn
  <2>2. CASE GetFound(q)
    <3> DEFINE t == IF found = NoEntry THEN [search[q] EXCEPT !.at = "aliases"]
                    ELSE [search[q] EXCEPT !.at = "aliases", !.hit = TRUE,
                                           !.edition = found.edition, !.names = found.names]
    <3>1. search[q].names = Nobody /\ (found # NoEntry => found.names = Nobody)
      BY <2>2 DEF GetFound, Doing, SearchInv, OfficialNames
    <3>2. Whole(t) /\ t.at = "aliases" /\ t.names = Nobody
      BY <2>0, <3>1 DEF Whole, Fields
    <3>3. search' = [search EXCEPT ![q] = t] /\ UNCHANGED <<found, settled>>
      BY <2>2 DEF GetFound
    <3> HIDE DEF t
    <3> QED  BY <2>0, <3>2, <3>3, SearchGoesOn
  <2>3. CASE ReadAliases(q)
    <3>1. PICK named \in BOOLEAN :
            search' = [search EXCEPT ![q].named = named,
                                     ![q].at = IF search[q].hit THEN "answer" ELSE "find"]
      BY <2>3 DEF ReadAliases
    <3>2. PICK label \in {"answer", "find"} :
            search' = [search EXCEPT ![q].named = named, ![q].at = label]
      BY <3>1
    <3> DEFINE t == [search[q] EXCEPT !.named = named, !.at = label]
    <3>3. Whole(t) /\ t.at = label /\ t.names = search[q].names
      BY <2>0 DEF Whole, Fields
    <3>4. search' = [search EXCEPT ![q] = t]
      BY <3>2 DEF SearchInv, SearchShape
    <3>5. search[q].names = Nobody /\ UNCHANGED <<found, settled>>
      BY <2>3 DEF ReadAliases, Doing, SearchInv, OfficialNames
    <3> HIDE DEF t
    <3> QED  BY <2>0, <3>3, <3>4, <3>5, SearchGoesOn
  <2>4. CASE Find(q)
    <3> DEFINE edition == IF InCatalog THEN api.catalog ELSE table
               t == [search[q] EXCEPT !.edition = edition, !.at = "set"]
    <3>1. Whole(t) /\ t.at = "set" /\ t.names = search[q].names /\ t.edition = edition
      BY <2>0 DEF Whole, Fields
    <3>2. search' = [search EXCEPT ![q] = t]
      BY <2>4 DEF Find, SearchInv, SearchShape
    <3>3. search[q].names = Nobody /\ UNCHANGED <<found, settled>>
      BY <2>4 DEF Find, Doing, SearchInv, OfficialNames
    <3>4. api.catalog = table => edition = table
      OBVIOUS
    <3> HIDE DEF t, edition
    <3> QED  BY <2>0, <3>1, <3>2, <3>3, <3>4, SearchGoesOn
  <2>5. CASE SetFound(q)
    <3> DEFINE t == [search[q] EXCEPT !.at = "answer"]
    <3>1. Whole(t) /\ t.at = "answer" /\ t.names = search[q].names
      BY <2>0 DEF Whole, Fields
    <3>2. search' = [search EXCEPT ![q] = t] /\ found' \in {Entry(q), found} /\ settled' = settled
      BY <2>5 DEF SetFound, SearchInv, SearchShape
    <3>3. search[q].names = Nobody /\ search[q].at = "set"
      BY <2>5 DEF SetFound, Doing, SearchInv, OfficialNames
    <3> HIDE DEF t
    <3>4. search'[q] = t /\ \A p \in Search \ {q} : search'[p] = search[p]
      BY <3>2 DEF SearchInv, SearchShape
    <3>5. SearchShape'
      BY <3>1, <3>2, <3>4 DEF SearchInv, SearchShape
    <3>6. /\ Entry(q).edition = search[q].edition /\ Entry(q).names = Nobody
          /\ Entry(q).left = SearchTtl /\ SearchTtl \in 1..SearchTtl /\ SearchTtl \in Nat
          /\ Entry(q) = [edition |-> Entry(q).edition, left |-> Entry(q).left, names |-> Entry(q).names]
      BY SearchAssumption DEF Entry
    <3>7. FoundShape' /\ OfficialNames'
      BY <3>1, <3>2, <3>3, <3>4, <3>6 DEF SearchInv, FoundShape, OfficialNames
    <3>8. CatchesUp'
      BY <2>0, <3>1, <3>2, <3>3, <3>4, <3>6 DEF SearchInv, CatchesUp
    <3> QED  BY <3>2, <3>5, <3>7, <3>8 DEF SearchInv
  <2>6. CASE AnswerSearch(q)
    <3> DEFINE t == [NoSearch EXCEPT !.at = "shown", !.user = search[q].user, !.names = NamesShown(q)]
    <3>1. search[q].names = Nobody
      BY <2>6 DEF AnswerSearch, Doing, SearchInv, OfficialNames
    <3>2. Whole(t) /\ t.at = "shown" /\ (t.names = t.user \/ t.names = Nobody)
      BY <3>1 DEF NoSearch, NamesShown, Whole, Fields
    <3>3. search' = [search EXCEPT ![q] = t] /\ UNCHANGED <<found, settled>>
      BY <2>6 DEF AnswerSearch
    <3> HIDE DEF t
    <3> QED  BY <2>0, <3>2, <3>3, SearchGoesOn
  <2>7. CASE EndSearch(q)
    <3>1. Whole(NoSearch) /\ NoSearch.at = "idle" /\ NoSearch.names = Nobody
      BY DEF NoSearch, Whole, Fields
    <3>2. search' = [search EXCEPT ![q] = NoSearch] /\ UNCHANGED <<found, settled>>
      BY <2>7 DEF EndSearch
    <3> QED  BY <2>0, <3>1, <3>2, SearchGoesOn
  <2> QED  BY <1>3, <2>1, <2>2, <2>3, <2>4, <2>5, <2>6, <2>7 DEF SearchStep
<1>4. CASE UNCHANGED <<releaseVars, searchVars>>
  BY <1>4 DEF releaseVars, searchVars, SearchInv, SearchShape, FoundShape, OfficialNames, CatchesUp
<1> QED  BY <1>1, <1>2, <1>3, <1>4 DEF SearchNext

LEMMA SearchAlways == SearchSpec => []SearchInv
BY InitSearch, StepSearch, PTL DEF SearchSpec

\* Whoever searches at once, and whatever the shared cache holds, no user is
\* shown the names of another.
THEOREM NamesAreAlwaysOwn == SearchSpec => []NamesAreOwn
<1>1. SearchInv => NamesAreOwn
  BY DEF SearchInv, OfficialNames, NamesAreOwn, Doing
<1> QED  BY <1>1, SearchAlways, PTL

\* A time to live after the last sync and start, nothing older is cached.
THEOREM FoundIsAlwaysCurrent == SearchSpec => []FoundIsCurrent
<1>1. SearchInv => FoundIsCurrent
  BY SearchAssumption DEF SearchInv, FoundShape, CatchesUp, FoundIsCurrent
<1> QED  BY <1>1, SearchAlways, PTL

(***************************************************************************)
(* Downloads.                                                              *)
(***************************************************************************)
\* What names an archive of an edition the table has had.
Names(m) == m \in Manifests /\ 1 <= m.version /\ m.version <= table

\* The archive stays what its name says.
Stands(m) ==
    m.version \notin again => /\ zip[m.version] = m.sha256
                              /\ ~Making("idle") => gen.version # m.version

TablesOK == table \in Edition /\ runs \in 0..MaxRuns /\ zip = [v \in Edition |-> zip[v]]

GenInv ==
    /\ gen = [at |-> gen.at, version |-> gen.version]
    /\ ~Making("idle") => gen.version \in Edition /\ gen.version <= table
    /\ Making("manifest") \/ Making("write_manifest") => zip[gen.version] = Archive(gen.version, runs)

ManifestInv ==
    manifest # NoFile /\ manifest # HalfManifest =>
        /\ Names(manifest) /\ Stands(manifest)
        /\ ~Making("idle") => manifest.version <= gen.version

AppFields == {"at", "version", "checksum", "named", "got"}
AppShape == DOMAIN app = AppFields /\ app = [field \in AppFields |-> app[field]]

AppInv ==
    app.at \in {"named", "send"} =>
        /\ Names(app.named) /\ Stands(app.named)
        /\ app.named.version \notin again =>
            \/ app.named.version < table
            \/ manifest # NoFile /\ manifest # HalfManifest /\ manifest.version = app.named.version

DatasetInv == TablesOK /\ GenInv /\ ManifestInv /\ AppShape /\ AppInv /\ DownloadIsWhole

\* The table never goes back to an edition.
LEMMA TableGrows ==
    ASSUME table \in Edition, ReleaseStep
    PROVE  table' \in Edition /\ table <= table'
<1>1. CASE Checkout \/ StartRelease \/ LighterPath \/ StartApi \/ CrashApi
  <2>1. table' = table
    BY <1>1 DEF Checkout, StartRelease, LighterPath, StartApi, CrashApi
  <2> QED  BY <2>1 DEF Edition
<1>2. CASE WeeklySync
  BY <1>2, BoundAssumption DEF WeeklySync, Edition
<1>3. CASE Sync
  BY <1>3, BoundAssumption DEF Sync, Edition
<1>4. CASE Backup \/ Infra \/ Migrate \/ UpApi \/ Verify \/ CommandFails
  <2>1. table' = table
    BY <1>4 DEF Backup, Infra, Migrate, UpApi, Verify, CommandFails
  <2> QED  BY <2>1 DEF Edition
<1> QED  BY <1>1, <1>2, <1>3, <1>4 DEF ReleaseStep, Script

LEMMA InitDataset == ReleaseInit /\ DatasetInit => DatasetInv
<1> SUFFICES ASSUME ReleaseInit, DatasetInit PROVE DatasetInv
  OBVIOUS
<1>1. TablesOK
  BY BoundAssumption, RunsAssumption DEF ReleaseInit, DatasetInit, TablesOK, Edition
<1>2. GenInv /\ ManifestInv
  BY DEF DatasetInit, GenInv, ManifestInv, NoGen, Making
<1>3. AppShape
  BY DEF DatasetInit, AppShape, AppFields, NewApp
<1>4. AppInv /\ DownloadIsWhole
  BY DEF DatasetInit, NewApp, AppInv, DownloadIsWhole
<1> QED  BY <1>1, <1>2, <1>3, <1>4 DEF DatasetInv

\* A release, and the syncs.
LEMMA StepRelease == DatasetInv /\ DownloadsUnder(ReleaseStep) => DatasetInv'
<1> SUFFICES ASSUME DatasetInv, DownloadsUnder(ReleaseStep) PROVE DatasetInv'
  OBVIOUS
<1>1. table \in Edition /\ table' \in Edition /\ table <= table' /\ table \in Int /\ table' \in Int
  BY TableGrows, BoundAssumption DEF DatasetInv, TablesOK, DownloadsUnder, Edition
<1>2. UNCHANGED <<zip, manifest, gen, runs, again>>
  BY DEF DownloadsUnder
<1>3. \A m : Names(m) => Names(m)' /\ m.version \in Int
  BY <1>1, BoundAssumption DEF Names, Manifests
<1>4. \A m : Stands(m) => Stands(m)'
  BY <1>2 DEF Stands, Making
<1>5. TablesOK' /\ GenInv'
  BY <1>1, <1>2 DEF DatasetInv, TablesOK, GenInv, Making, Edition
<1>6. ManifestInv'
  BY <1>2, <1>3, <1>4 DEF DatasetInv, ManifestInv, Making
<1>7. CASE app' = app
  <2>1. AppShape' /\ DownloadIsWhole'
    BY <1>2, <1>7 DEF DatasetInv, AppShape, DownloadIsWhole
  <2>2. AppInv'
    BY <1>1, <1>2, <1>3, <1>4, <1>7 DEF DatasetInv, AppInv
  <2> QED  BY <1>5, <1>6, <2>1, <2>2 DEF DatasetInv
<1>8. CASE app' = NewApp
  <2>1. AppShape'
    BY <1>8 DEF AppShape, AppFields, NewApp
  <2>2. AppInv' /\ DownloadIsWhole'
    BY <1>8 DEF NewApp, AppInv, DownloadIsWhole
  <2> QED  BY <1>5, <1>6, <2>1, <2>2 DEF DatasetInv
<1> QED  BY <1>7, <1>8 DEF DownloadsUnder

\* The archive the generator is at changes, and the rest does not.
LEMMA ArchiveChanges ==
    ASSUME DatasetInv, ~Making("idle"), ~Making("idle")', NEW a,
           zip' = [zip EXCEPT ![gen.version] = a],
           gen' = [gen EXCEPT !.at = gen'.at],
           gen'.at \in {"manifest", "write_manifest"} => a = Archive(gen.version, runs),
           UNCHANGED <<manifest, runs, again, app, table>>
    PROVE  DatasetInv'
<1>1. /\ gen'.version = gen.version /\ gen' = [at |-> gen'.at, version |-> gen'.version]
      /\ gen.version \in Edition
  BY DEF DatasetInv, GenInv
<1>2. /\ zip'[gen.version] = a /\ \A v \in Edition : v # gen.version => zip'[v] = zip[v]
      /\ zip' = [v \in Edition |-> zip'[v]]
  BY <1>1 DEF DatasetInv, TablesOK
<1>3. \A m : Names(m) => Names(m)' /\ m.version \in Edition
  BY BoundAssumption DEF Names, Manifests, Edition, DatasetInv, TablesOK
<1>4. \A m : Names(m) /\ Stands(m) => Stands(m)'
  BY <1>1, <1>2, <1>3 DEF Stands
<1>5. TablesOK'
  BY <1>2 DEF DatasetInv, TablesOK
<1>6. GenInv'
  BY <1>1, <1>2 DEF DatasetInv, GenInv, Making, Archive
<1>7. ManifestInv'
  BY <1>1, <1>3, <1>4 DEF DatasetInv, ManifestInv
<1>8. AppInv'
  BY <1>3, <1>4 DEF DatasetInv, AppInv
<1> QED  BY <1>5, <1>6, <1>7, <1>8 DEF DatasetInv, AppShape, DownloadIsWhole

LEMMA StepGenerate == DatasetInv /\ Generate /\ UNCHANGED releaseVars => DatasetInv'
<1> SUFFICES ASSUME DatasetInv, Generate, UNCHANGED releaseVars PROVE DatasetInv'
  OBVIOUS
<1>0. /\ UNCHANGED <<table, app>> /\ table \in Edition /\ LastEdition \in Nat \ {0}
      /\ \A v \in Edition : v \in Int /\ v # 0
  BY BoundAssumption DEF releaseVars, Generate, ReadPackage, WriteDatabase, Unlink, OpenZip, WriteZip,
         OpenManifest, WriteManifest, GenerationFails, DatasetInv, TablesOK, Edition
<1>a. \A m : Names(m) => Names(m)' /\ m.version \in Edition /\ m.version \in Int /\ m.version <= table
  BY <1>0 DEF Names, Manifests, Edition
<1>b. AppShape'
  BY <1>0 DEF DatasetInv, AppShape
<1>1. CASE ReadPackage
  <2>1. /\ gen' = [at |-> "database", version |-> table] /\ UNCHANGED <<zip, manifest>>
        /\ again \subseteq again' /\ runs' \in 0..MaxRuns /\ Making("idle")
        /\ manifest # NoFile /\ manifest.version = table => table \in again'
    BY <1>1, RunsAssumption DEF ReadPackage, DatasetInv, TablesOK
  <2>2. GenInv' /\ TablesOK'
    BY <1>0, <2>1 DEF GenInv, DatasetInv, TablesOK, Making
  <2>3. \A m : Stands(m) /\ m.version # table => Stands(m)'
    BY <2>1 DEF Stands
  <2>4. ManifestInv'
    BY <1>0, <1>a, <2>1, <2>3 DEF DatasetInv, ManifestInv, Making, Stands
  <2>5. AppInv'
    BY <1>0, <1>a, <2>1, <2>3 DEF DatasetInv, AppInv, Stands
  <2>6. DownloadIsWhole'
    BY <1>0, <2>1 DEF DatasetInv, DownloadIsWhole
  <2> QED  BY <1>b, <2>2, <2>4, <2>5, <2>6 DEF DatasetInv
<1>2. CASE WriteDatabase
  <2>1. gen' = [gen EXCEPT !.at = "unlink"] /\ UNCHANGED <<zip, manifest, runs, again>> /\ Making("database")
    BY <1>2 DEF WriteDatabase, GenGoto, AfterDatabase
  <2>2. gen'.at = "unlink" /\ gen'.version = gen.version /\ gen' = [at |-> gen'.at, version |-> gen'.version]
    BY <2>1 DEF DatasetInv, GenInv
  <2>3. \A m : Stands(m) => Stands(m)'
    BY <2>1, <2>2 DEF Stands, Making
  <2>4. TablesOK' /\ GenInv'
    BY <1>0, <2>1, <2>2 DEF DatasetInv, GenInv, TablesOK, Making
  <2>5. ManifestInv' /\ AppInv'
    BY <1>0, <1>a, <2>1, <2>2, <2>3 DEF DatasetInv, ManifestInv, AppInv, Making
  <2> QED  BY <1>0, <1>b, <2>1, <2>4, <2>5 DEF DatasetInv, DownloadIsWhole
<1>3. CASE Unlink
  <2>1. gen' = [gen EXCEPT !.at = "open_zip"] /\ gen'.at = "open_zip"
    BY <1>3 DEF Unlink, GenGoto, DatasetInv, GenInv
  <2> QED  BY <1>0, <1>3, <2>1, ArchiveChanges DEF Unlink, Making
<1>4. CASE OpenZip
  <2>1. gen' = [gen EXCEPT !.at = "write_zip"] /\ gen'.at = "write_zip"
    BY <1>4 DEF OpenZip, GenGoto, DatasetInv, GenInv
  <2> QED  BY <1>0, <1>4, <2>1, ArchiveChanges DEF OpenZip, Making
<1>5. CASE WriteZip
  <2>1. gen' = [gen EXCEPT !.at = "manifest"] /\ gen'.at = "manifest"
    BY <1>5 DEF WriteZip, GenGoto, DatasetInv, GenInv
  <2> QED  BY <1>0, <1>5, <2>1, ArchiveChanges DEF WriteZip, Making
<1>6. CASE OpenManifest
  <2>1. /\ gen' = [gen EXCEPT !.at = "write_manifest"] /\ UNCHANGED <<zip, runs, again>>
        /\ manifest' = HalfManifest /\ Making("manifest")
    BY <1>6 DEF OpenManifest, GenGoto
  <2>2. /\ gen'.at = "write_manifest" /\ gen'.version = gen.version
        /\ gen' = [at |-> gen'.at, version |-> gen'.version]
    BY <2>1 DEF DatasetInv, GenInv
  <2>3. \A m : Stands(m) => Stands(m)'
    BY <2>1, <2>2 DEF Stands, Making
  <2>4. TablesOK' /\ GenInv' /\ ManifestInv'
    BY <1>0, <2>1, <2>2 DEF DatasetInv, GenInv, TablesOK, Making, Archive, ManifestInv
  <2>5. AppInv'
    <3>1. gen.version \in Edition /\ gen.version <= table
      BY <2>1 DEF DatasetInv, GenInv, Making
    <3>2. ASSUME app.at \in {"named", "send"}, app.named.version \notin again
          PROVE  app.named.version < table
      <4>1. Names(app.named) /\ app.named.version # gen.version
        BY <2>1, <3>2 DEF DatasetInv, AppInv, Stands, Making
      <4>2. manifest # NoFile /\ manifest # HalfManifest => manifest.version <= gen.version
        BY <2>1 DEF DatasetInv, ManifestInv, Making
      <4> QED  BY <1>0, <1>a, <3>1, <3>2, <4>1, <4>2 DEF DatasetInv, AppInv
    <3> QED  BY <1>0, <1>a, <2>1, <2>3, <3>2 DEF DatasetInv, AppInv
  <2> QED  BY <1>0, <1>b, <2>1, <2>4, <2>5 DEF DatasetInv, DownloadIsWhole
<1>7. CASE WriteManifest
  <2> DEFINE m == [version |-> gen.version, sha256 |-> Archive(gen.version, runs)]
  <2>1. /\ gen' = NoGen /\ UNCHANGED <<zip, runs, again>> /\ manifest' = m /\ Making("write_manifest")
    BY <1>7 DEF WriteManifest, AfterManifest, AfterDatabase
  <2>2. gen.version \in Edition /\ gen.version <= table /\ zip[gen.version] = Archive(gen.version, runs)
    BY <2>1 DEF DatasetInv, GenInv, Making
  <2>3. \A x : Stands(x) => Stands(x)'
    BY <2>1 DEF Stands, Making, NoGen
  <2>4. TablesOK' /\ GenInv'
    BY <1>0, <2>1 DEF DatasetInv, GenInv, TablesOK, Making, NoGen
  <2>5. m \in Manifests /\ m.version = gen.version /\ m.sha256 = Archive(gen.version, runs)
    BY <1>0, <2>2 DEF Manifests, Archive, DatasetInv, TablesOK, Edition
  <2>6. Names(manifest)' /\ Stands(manifest)'
    BY <1>0, <2>1, <2>2, <2>5 DEF Names, Stands, Making, NoGen, Edition
  <2>7. ManifestInv'
    BY <2>1, <2>6 DEF ManifestInv, Making, NoGen
  <2>8. AppInv'
    <3>1. ASSUME app.at \in {"named", "send"}, app.named.version \notin again
          PROVE  app.named.version < table
      <4>1. Names(app.named) /\ app.named.version # gen.version
        BY <2>1, <3>1 DEF DatasetInv, AppInv, Stands, Making
      <4>2. manifest # NoFile /\ manifest # HalfManifest => manifest.version <= gen.version
        BY <2>1 DEF DatasetInv, ManifestInv, Making
      <4> QED  BY <1>0, <1>a, <2>2, <3>1, <4>1, <4>2 DEF DatasetInv, AppInv
    <3> QED  BY <1>0, <1>a, <2>1, <2>3, <3>1 DEF DatasetInv, AppInv
  <2> QED  BY <1>0, <1>b, <2>1, <2>4, <2>7, <2>8 DEF DatasetInv, DownloadIsWhole
<1>8. CASE GenerationFails
  <2>1. gen' = NoGen /\ UNCHANGED <<zip, manifest, runs, again>>
    BY <1>8 DEF GenerationFails
  <2>2. \A x : Stands(x) => Stands(x)'
    BY <2>1 DEF Stands, Making, NoGen
  <2>3. TablesOK' /\ GenInv'
    BY <1>0, <2>1 DEF DatasetInv, GenInv, TablesOK, Making, NoGen
  <2>4. ManifestInv' /\ AppInv'
    BY <1>0, <1>a, <2>1, <2>2 DEF DatasetInv, ManifestInv, AppInv, Making, NoGen
  <2> QED  BY <1>0, <1>b, <2>1, <2>3, <2>4 DEF DatasetInv, DownloadIsWhole
<1> QED  BY <1>1, <1>2, <1>3, <1>4, <1>5, <1>6, <1>7, <1>8 DEF Generate

LEMMA StepDownload == DatasetInv /\ Download /\ UNCHANGED releaseVars => DatasetInv'
<1> SUFFICES ASSUME DatasetInv, Download, UNCHANGED releaseVars PROVE DatasetInv'
  OBVIOUS
<1>1. UNCHANGED <<zip, manifest, gen, runs, again, table>>
  BY DEF releaseVars, Download, AskVersion, ReadManifest, FindZip, SendZip
<1>2. /\ \A m : Names(m) => Names(m)'
      /\ \A m : Stands(m) => Stands(m)'
  BY <1>1 DEF Names, Stands, Making
<1>3. TablesOK' /\ GenInv' /\ ManifestInv'
  BY <1>1, <1>2 DEF DatasetInv, TablesOK, GenInv, ManifestInv, Making
<1>4. AppShape
  BY DEF DatasetInv
<1>5. CASE AskVersion
  <2>1. AppShape'
    BY <1>5 DEF AskVersion, NewApp, AppShape, AppFields
  <2>2. app'.at = "asked"
    BY <1>5 DEF AskVersion, NewApp
  <2> QED  BY <1>3, <2>1, <2>2 DEF DatasetInv, AppInv, DownloadIsWhole
<1>6. CASE ReadManifest
  <2>1. CASE manifest = NoFile \/ manifest = HalfManifest
    <3>1. PICK label \in {"package", "error"} : app' = [app EXCEPT !.at = label]
      BY <1>6, <2>1 DEF ReadManifest
    <3>2. AppShape' /\ app'.at \in {"package", "error"}
      BY <1>4, <3>1 DEF AppShape, AppFields
    <3> QED  BY <1>3, <3>2 DEF DatasetInv, AppInv, DownloadIsWhole
  <2>2. CASE manifest # NoFile /\ manifest # HalfManifest
    <3>1. app' = [app EXCEPT !.at = "named", !.named = manifest]
      BY <1>6, <2>2 DEF ReadManifest
    <3>2. AppShape' /\ app'.at = "named" /\ app'.named = manifest
      BY <1>4, <3>1 DEF AppShape, AppFields
    <3>3. AppInv' /\ DownloadIsWhole'
      BY <1>1, <1>2, <2>2, <3>2 DEF DatasetInv, ManifestInv, AppInv, DownloadIsWhole
    <3> QED  BY <1>3, <3>2, <3>3 DEF DatasetInv
  <2> QED  BY <2>1, <2>2
<1>7. CASE FindZip
  <2>1. PICK label \in {"package", "send"} : app' = [app EXCEPT !.at = label]
    BY <1>7 DEF FindZip
  <2>2. AppShape' /\ app'.at = label /\ app'.named = app.named
    BY <1>4, <2>1 DEF AppShape, AppFields
  <2>3. AppInv' /\ DownloadIsWhole'
    BY <1>1, <1>2, <1>7, <2>2 DEF FindZip, DatasetInv, AppInv, DownloadIsWhole
  <2> QED  BY <1>3, <2>2, <2>3 DEF DatasetInv
<1>8. CASE SendZip
  <2>1. CASE app' = [app EXCEPT !.at = "error"]
    <3>1. AppShape' /\ app'.at = "error"
      BY <1>4, <2>1 DEF AppShape, AppFields
    <3> QED  BY <1>3, <3>1 DEF DatasetInv, AppInv, DownloadIsWhole
  <2>2. CASE app' = [app EXCEPT !.at = "zip", !.got = zip[app.named.version]]
    <3>1. AppShape' /\ app'.at = "zip" /\ app'.named = app.named /\ app'.got = zip[app.named.version]
      BY <1>4, <2>2 DEF AppShape, AppFields
    <3>2. AppInv' /\ DownloadIsWhole'
      BY <1>1, <1>8, <3>1 DEF SendZip, DatasetInv, AppInv, DownloadIsWhole, Stands
    <3> QED  BY <1>3, <3>1, <3>2 DEF DatasetInv
  <2> QED  BY <1>8, <2>1, <2>2 DEF SendZip
<1> QED  BY <1>5, <1>6, <1>7, <1>8 DEF Download

LEMMA StepDataset == DatasetInv /\ [DatasetNext]_<<releaseVars, datasetVars>> => DatasetInv'
<1>1. DatasetInv /\ UNCHANGED <<releaseVars, datasetVars>> => DatasetInv'
  BY DEF releaseVars, datasetVars, DatasetInv, TablesOK, GenInv, ManifestInv, AppShape, AppInv,
         DownloadIsWhole, Names, Stands, Making
<1> QED  BY <1>1, StepRelease, StepGenerate, StepDownload DEF DatasetNext

\* However the generator, the downloads and the releases interleave, and
\* wherever the generator is killed: an archive is answered whole, and under
\* its own ETag, unless its version was generated again.
THEOREM DownloadsAreWhole == DatasetSpec => []DownloadIsWhole
<1>1. DatasetInv => DownloadIsWhole
  BY DEF DatasetInv
<1> QED  BY <1>1, InitDataset, StepDataset, PTL DEF DatasetSpec

(***************************************************************************)
(* BatchArrivals.                                                          *)
(*                                                                         *)
(* The stops of a batch that are left differ, and the items of the others  *)
(* are answered, each as often as it was asked for: what is picked from a  *)
(* batch for a stop, and what the answers of a stop add up to, are counted *)
(* by numbering the positions picked.  Every arrival in an answer was so   *)
(* at one moment since the payload may have been made; the rest is about   *)
(* the clock: whole minutes between two moments, and a window wrapped into *)
(* one day against the same window laid out in line.                       *)
(***************************************************************************)
(* What is picked from a sequence. *)

Place(P, i) == Cardinality({j \in P : j <= i})
Nth(P, k) == CHOOSE i \in P : Place(P, i) = k

LEMMA SameNumber ==
    ASSUME NEW S, IsFiniteSet(S), NEW T, NEW f \in [S -> T],
           \A x, y \in S : f[x] = f[y] => x = y, \A y \in T : \E x \in S : f[x] = y
    PROVE  IsFiniteSet(T) /\ Cardinality(T) = Cardinality(S)
<1>1. f \in Bijection(S, T)
  BY DEF Bijection, Injection, Surjection, IsInjective
<1> QED  BY <1>1, FS_Bijection DEF ExistsBijection

\* The positions are numbered in their order.
LEMMA Places ==
    ASSUME NEW P, P \subseteq Int, IsFiniteSet(P)
    PROVE  /\ Cardinality(P) \in Nat
           /\ \A i \in P : Place(P, i) \in 1..Cardinality(P) /\ Nth(P, Place(P, i)) = i
           /\ \A k \in 1..Cardinality(P) : Nth(P, k) \in P /\ Place(P, Nth(P, k)) = k
<1> DEFINE Upto(i) == {j \in P : j <= i}  n == Cardinality(P)
<1>1. n \in Nat
  BY FS_CardinalityType
<1>2. ASSUME NEW i \in P PROVE IsFiniteSet(Upto(i)) /\ Place(P, i) \in 1..n
  <2>1. IsFiniteSet(Upto(i)) /\ Cardinality(Upto(i)) <= n /\ Cardinality(Upto(i)) \in Nat
    BY FS_Subset, FS_CardinalityType
  <2>2. i \in Upto(i)
    OBVIOUS
  <2>3. Cardinality(Upto(i)) # 0
    BY <2>1, <2>2, FS_EmptySet
  <2> QED  BY <1>1, <2>1, <2>3 DEF Place
<1>3. ASSUME NEW i \in P, NEW j \in P, i < j PROVE Place(P, i) # Place(P, j)
  <2>1. Upto(i) \subseteq Upto(j) /\ j \in Upto(j) /\ j \notin Upto(i)
    <3>1. i \in Int /\ j \in Int /\ \A x \in P : x \in Int
      OBVIOUS
    <3>2. j \in Upto(j) /\ j \notin Upto(i)
      BY <1>3, <3>1
    <3>3. \A x \in P : x <= i => x <= j
      BY <1>3, <3>1
    <3> QED  BY <3>2, <3>3
  <2>2. Cardinality(Upto(i)) # Cardinality(Upto(j))
    BY <1>2, <2>1, FS_Subset
  <2> QED  BY <2>2 DEF Place
<1>4. \A i, j \in P : Place(P, i) = Place(P, j) => i = j
  BY <1>3
<1>5. ASSUME NEW k \in 1..n PROVE \E i \in P : Place(P, i) = k
  <2> DEFINE T == {Place(P, i) : i \in P}  f == [i \in P |-> Place(P, i)]
  <2>1. f \in [P -> T] /\ (\A x, y \in P : f[x] = f[y] => x = y) /\ \A y \in T : \E x \in P : f[x] = y
    BY <1>4
  <2>2. Cardinality(T) = n
    <3> HIDE DEF f, T
    <3> QED  BY <2>1, SameNumber
  <2>3. IsFiniteSet(1..n) /\ Cardinality(1..n) = n
    <3> HIDE DEF n
    <3>1. 1 \in Int /\ n \in Int
      BY <1>1
    <3>2. IsFiniteSet(1..n) /\ Cardinality(1..n) = IF 1 > n THEN 0 ELSE n - 1 + 1
      BY <3>1, FS_Interval
    <3> QED  BY <1>1, <3>2
  <2>5. T \subseteq 1..n
    BY <1>2
  <2>4. T = 1..n
    <3> HIDE DEF T, n
    <3> QED  BY <2>2, <2>3, <2>5, FS_Subset
  <2> QED  BY <2>4
<1> QED  BY <1>1, <1>2, <1>4, <1>5 DEF Nth

LEMMA PickedIs ==
    ASSUME NEW seq, NEW P
    PROVE  Picked(seq, P) = [k \in 1..Cardinality(P) |-> seq[Nth(P, k)]]
BY DEF Picked, Nth, Place

LEMMA PickedIsSequence ==
    ASSUME NEW E, NEW seq, NEW P, P \subseteq Int, IsFiniteSet(P), \A i \in P : seq[i] \in E
    PROVE  /\ Picked(seq, P) \in Seq(E) /\ Len(Picked(seq, P)) = Cardinality(P)
           /\ DOMAIN Picked(seq, P) = 1..Cardinality(P)
           /\ Picked(seq, P) = <<>> <=> P = {}
<1>1. Cardinality(P) \in Nat /\ \A k \in 1..Cardinality(P) : Nth(P, k) \in P
  BY Places
<1>2. Picked(seq, P) \in Seq(E) /\ Len(Picked(seq, P)) = Cardinality(P)
  <2>1. Picked(seq, P) \in [1..Cardinality(P) -> E]
    BY <1>1, PickedIs
  <2>2. \A n \in Nat : \A s \in [1..n -> E] : s \in Seq(E) /\ Len(s) = n
    OBVIOUS
  <2> QED  BY <1>1, <2>1, <2>2
<1>3. Cardinality(P) = 0 <=> P = {}
  BY FS_EmptySet
<1> QED  BY <1>1, <1>2, <1>3, PickedIs

\* What is picked is there as often as it was.
LEMMA PickedAsOften ==
    ASSUME NEW P, P \subseteq Int, IsFiniteSet(P), NEW Q, Q \subseteq P
    PROVE  Cardinality({k \in 1..Cardinality(P) : Nth(P, k) \in Q}) = Cardinality(Q)
<1> DEFINE K == {k \in 1..Cardinality(P) : Nth(P, k) \in Q}  f == [k \in K |-> Nth(P, k)]
<1>1. /\ Cardinality(P) \in Nat
      /\ \A i \in P : Place(P, i) \in 1..Cardinality(P) /\ Nth(P, Place(P, i)) = i
      /\ \A k \in 1..Cardinality(P) : Nth(P, k) \in P /\ Place(P, Nth(P, k)) = k
  BY Places
<1>2. IsFiniteSet(K)
  <2>1. IsFiniteSet(1..Cardinality(P))
    BY <1>1, FS_Interval
  <2> QED  BY <2>1, FS_Subset
<1>3. f \in [K -> Q]
  OBVIOUS
<1>4. \A x, y \in K : f[x] = f[y] => x = y
  BY <1>1
<1>5. \A y \in Q : \E x \in K : f[x] = y
  BY <1>1
<1> HIDE DEF f, K
<1>6. Cardinality(Q) = Cardinality(K)
  BY <1>2, <1>3, <1>4, <1>5, SameNumber
<1> QED  BY <1>6 DEF K

\* Positions in two sequences of which one follows n elements of the other.
Joined(A, n, B) == A \cup {n + j : j \in B}

LEMMA CountsAdd ==
    ASSUME NEW n \in Nat, NEW m \in Nat, NEW A \in SUBSET (1..n), NEW B \in SUBSET (1..m)
    PROVE  Cardinality(Joined(A, n, B)) = Cardinality(A) + Cardinality(B)
<1> DEFINE C == {n + j : j \in B}  f == [j \in B |-> n + j]
<1>1. IsFiniteSet(A) /\ IsFiniteSet(B)
  <2>1. \A l \in Nat : IsFiniteSet(1..l)
    BY FS_Interval
  <2> QED  BY <2>1, FS_Subset
<1>2. f \in [B -> C] /\ (\A x, y \in B : f[x] = f[y] => x = y) /\ \A y \in C : \E x \in B : f[x] = y
  OBVIOUS
<1>3. IsFiniteSet(C) /\ Cardinality(C) = Cardinality(B)
  <2> HIDE DEF f, C
  <2> QED  BY <1>1, <1>2, SameNumber
<1>4. A \cap C = {}
  OBVIOUS
<1>5. Cardinality(A) \in Nat /\ Cardinality(B) \in Nat
  BY <1>1, FS_CardinalityType
<1>6. Cardinality(A \cup C) = Cardinality(A) + Cardinality(C) - Cardinality(A \cap C)
  BY <1>1, <1>3, FS_Union
<1>7. Cardinality(A \cap C) = 0
  BY <1>4, FS_EmptySet
<1>8. Joined(A, n, B) = A \cup C
  BY DEF C, Joined
<1> HIDE DEF C
<1> QED  BY <1>3, <1>5, <1>6, <1>7, <1>8

\* A non-empty set of natural numbers has a least one.
LEMMA LeastNumber ==
    ASSUME NEW T, T \subseteq Nat, T # {}
    PROVE  \E x \in T : \A y \in T : x <= y
<1> DEFINE R == OpToRel(<, Nat)
<1>1. IsWellFoundedOn(R, Nat)
  BY NatLessThanWellFounded
<1>2. \A x, y \in Nat : <<y, x>> \in R <=> y < x
  BY DEF OpToRel
<1> HIDE DEF R
<1>3. PICK x \in T : \A y \in T : ~(<<y, x>> \in R)
  BY <1>1, WFMin
<1>4. ASSUME NEW y \in T PROVE x <= y
  <2>1. x \in Nat /\ y \in Nat
    OBVIOUS
  <2>2. ~(y < x)
    BY <1>2, <1>3, <2>1
  <2> QED  BY <2>1, <2>2
<1> QED  BY <1>4

\* A batch is grouped by each of its stops, once.
LEMMA GroupedOnce ==
    ASSUME NEW items \in Seq(Stop \X Service), items # <<>>
    PROVE  LET stops == Grouped(items)
           IN  /\ stops \in Seq(Stop) /\ stops # <<>>
               /\ \A k, l \in DOMAIN stops : stops[k] = stops[l] => k = l
               /\ \A i \in DOMAIN items : \E k \in DOMAIN stops : stops[k] = items[i][1]
<1> DEFINE F == {i \in DOMAIN items : \A j \in 1..(i - 1) : items[j][1] # items[i][1]}
           n == Cardinality(F)  stops == Grouped(items)
<1>1. /\ Len(items) \in Nat /\ DOMAIN items = 1..Len(items) /\ Len(items) # 0
      /\ \A i \in DOMAIN items : items[i] \in Stop \X Service
  OBVIOUS
<1>2. F \subseteq Int /\ IsFiniteSet(F)
  <2>1. IsFiniteSet(1..Len(items))
    BY <1>1, FS_Interval
  <2> QED  BY <1>1, <2>1, FS_Subset
<1>3. stops = [k \in 1..n |-> Picked(items, F)[k][1]]
  BY DEF Grouped
<1> HIDE DEF stops
<1>4. /\ n \in Nat
      /\ \A i \in F : Place(F, i) \in 1..n /\ Nth(F, Place(F, i)) = i
      /\ \A k \in 1..n : Nth(F, k) \in F /\ Place(F, Nth(F, k)) = k
  <2> HIDE DEF F
  <2> QED  BY <1>2, Places
<1>5. DOMAIN stops = 1..n /\ \A k \in 1..n : stops[k] = items[Nth(F, k)][1]
  <2> HIDE DEF F
  <2> QED  BY <1>3, PickedIs
<1>6. stops \in Seq(Stop)
  <2>1. \A k \in 1..n : stops[k] \in Stop
    BY <1>1, <1>4, <1>5
  <2>2. \A m \in Nat : \A s \in [1..m -> Stop] : s \in Seq(Stop)
    OBVIOUS
  <2>3. stops \in [1..n -> Stop]
    <3> HIDE DEF n
    <3> QED  BY <1>3, <1>5, <2>1
  <2> HIDE DEF n
  <2> QED  BY <1>4, <2>2, <2>3
<1>7. ASSUME NEW k \in DOMAIN stops, NEW l \in DOMAIN stops, stops[k] = stops[l]
      PROVE  k = l
  <2>1. \A i, j \in F : items[i][1] = items[j][1] => i = j
    <3>1. ASSUME NEW i \in F, NEW j \in F, i < j PROVE items[i][1] # items[j][1]
      BY <1>1, <3>1
    <3> HIDE DEF F
    <3>2. \A i, j \in F : i < j \/ j < i \/ i = j
      BY <1>2
    <3> QED  BY <3>1, <3>2
  <2> HIDE DEF F
  <2>2. items[Nth(F, k)][1] = items[Nth(F, l)][1]
    BY <1>5, <1>7
  <2> QED  BY <1>4, <1>5, <2>1, <2>2
<1>8. ASSUME NEW i \in DOMAIN items PROVE \E k \in DOMAIN stops : stops[k] = items[i][1]
  <2> DEFINE S == {j \in DOMAIN items : items[j][1] = items[i][1]}
  <2>1. PICK f \in S : \A y \in S : f <= y
    <3>1. S \subseteq Nat /\ S # {}
      BY <1>1
    <3> HIDE DEF S
    <3> QED  BY <3>1, LeastNumber
  <2>2. f \in DOMAIN items /\ items[f][1] = items[i][1]
    OBVIOUS
  <2>3. ASSUME NEW j \in 1..(f - 1) PROVE items[j][1] # items[f][1]
    <3>1. j \in DOMAIN items /\ ~(f <= j)
      BY <1>1, <2>2
    <3> QED  BY <2>1, <2>2, <3>1
  <2>4. f \in F
    BY <2>2, <2>3
  <2> HIDE DEF F, S
  <2> QED  BY <1>4, <1>5, <2>2, <2>4
<1>9. stops # <<>>
  BY <1>1, <1>8
<1> QED  BY <1>6, <1>7, <1>8, <1>9 DEF stops

-----------------------------------------------------------------------------
(* The clock. *)

LEMMA Clock ==
    /\ HourTicks \in Nat /\ HourTicks > 0 /\ DayTicks \in Nat /\ DayTicks > 0
    /\ DayHours \in Nat /\ DayHours > 0 /\ DayTicks = DayHours * HourTicks
    /\ \A m \in Nat : m * MinuteTicks \in Nat /\ (m < HourMinutes => m * MinuteTicks < HourTicks)
<1>1. /\ HourMinutes \in Nat /\ HourMinutes > 0 /\ MinuteTicks \in Nat /\ MinuteTicks > 0
      /\ DayHours \in Nat /\ DayHours > 0
  BY ClockAssumption
<1>2. HourTicks \in Nat /\ HourTicks > 0
  BY <1>1 DEF HourTicks
<1>3. DayTicks \in Nat /\ DayTicks > 0 /\ DayTicks = DayHours * HourTicks
  <2> HIDE DEF HourTicks
  <2> QED  BY <1>1, <1>2 DEF DayTicks
<1>4. ASSUME NEW m \in Nat
      PROVE  m * MinuteTicks \in Nat /\ (m < HourMinutes => m * MinuteTicks < HourTicks)
  <2>1. m * MinuteTicks \in Nat
    BY <1>1
  <2>2. ASSUME m < HourMinutes PROVE m * MinuteTicks < HourTicks
    <3>1. \A a, b, c \in Nat : a < b /\ c > 0 => a * c < b * c
      OBVIOUS
    <3> QED  BY <1>1, <2>2, <3>1 DEF HourTicks
  <2> QED  BY <2>1, <2>2
<1> QED  BY <1>1, <1>2, <1>3, <1>4

\* An hour past midnight is wrapped into the day.
LEMMA WrappedTime ==
    ASSUME NEW h \in Nat, NEW m \in Nat, m < HourMinutes, AsTicks(<<h, m>>) < 2 * DayTicks
    PROVE  LET x == AsTicks(<<h, m>>)
           IN  /\ x \in Nat /\ (h < DayHours => x < DayTicks)
               /\ Parse(<<h, m>>) = <<IF x < DayTicks THEN x ELSE x - DayTicks>>
<1> DEFINE H == HourTicks  D == DayHours  low == m * MinuteTicks  x == AsTicks(<<h, m>>)
<1>1. /\ H \in Nat /\ H > 0 /\ D \in Nat /\ D > 0 /\ DayTicks = D * H /\ DayTicks \in Nat
      /\ low \in Nat /\ low < H
  BY Clock
<1>2. x = h * H + low
  BY DEF AsTicks
<1>3. Parse(<<h, m>>) = <<(h % D) * H + low>>
  <2>1. <<h, m>> # NoTime
    <3>1. <<h, m>> \in Seq(Nat)
      OBVIOUS
    <3> QED  BY <3>1, NoTimeAssumption
  <2>2. HourMinutes \in Nat
    BY ClockAssumption
  <2> QED  BY <2>1, <2>2 DEF Parse
<1> HIDE DEF H, D, low, x
<1>4. \A a, b, c \in Nat : a <= b => a * c <= b * c
  OBVIOUS
<1>5. h * H \in Nat /\ x \in Nat
  BY <1>1, <1>2
<1>6. CASE h < D
  <2>1. h % D = h
    BY <1>1, <1>6
  <2>2. (h + 1) * H <= D * H /\ (h + 1) * H = h * H + H
    <3>1. h + 1 \in Nat /\ h + 1 <= D
      BY <1>1, <1>6
    <3> QED  BY <1>1, <1>4, <3>1
  <2>3. x < DayTicks
    BY <1>1, <1>2, <1>5, <2>2
  <2> QED  BY <1>2, <1>3, <1>5, <2>1, <2>3 DEF x
<1>7. CASE ~(h < D)
  <2>1. h < 2 * D
    <3>1. CASE 2 * D <= h
      <4>1. 2 * D \in Nat /\ (2 * D) * H <= h * H
        BY <1>1, <1>4, <3>1
      <4>2. (2 * D) * H = 2 * DayTicks
        BY <1>1
      <4> QED  BY <1>1, <1>2, <1>5, <4>1, <4>2 DEF x
    <3> QED  BY <1>1, <3>1
  <2>2. h % D = h - D
    BY <1>1, <1>7, <2>1
  <2>3. (h - D) * H = h * H - DayTicks
    BY <1>1, <1>7
  <2>4. D * H <= h * H
    BY <1>1, <1>4, <1>7
  <2>5. ~(x < DayTicks) /\ (h - D) * H + low = x - DayTicks
    BY <1>1, <1>2, <1>5, <2>3, <2>4
  <2> QED  BY <1>1, <1>3, <1>5, <1>7, <2>2, <2>5 DEF x, D
<1> QED  BY <1>6, <1>7

Times == (Nat \X Nat) \cup {NoTime}

\* A window wrapped into a day holds the same times as one laid out in line.
LEMMA WindowHolds ==
    ASSUME NEW w \in Times \X Times, ShortWindow(w), NEW x \in 0..(DayTicks - 1)
    PROVE  LET first == AsTicks(w[1])
               last == AsTicks(w[2])
               reach == first..(IF last < first THEN last + DayTicks ELSE last)
           IN  (\/ NoTime \in {Parse(w[1]), Parse(w[2])}
                \/ InRange(x, Parse(w[1])[1], Parse(w[2])[1]))
               <=> (Unknowable(w) \/ x + 0 * DayTicks \in reach \/ x + 1 * DayTicks \in reach)
<1>1. HourMinutes \in Nat /\ DayTicks \in Nat /\ DayTicks > 0 /\ DayHours \in Nat
  BY Clock, ClockAssumption
<1>2. CASE Unknowable(w)
  <2>1. NoTime \in {Parse(w[1]), Parse(w[2])}
    BY <1>2 DEF Unknowable, Parse
  <2> QED  BY <1>2, <2>1
<1>3. CASE ~Unknowable(w)
  <2>1. PICK h \in Nat, m \in Nat, k \in Nat, n \in Nat : w = <<<<h, m>>, <<k, n>>>>
    BY <1>3 DEF Unknowable, Times
  <2>2. /\ w[1] = <<h, m>> /\ w[2] = <<k, n>> /\ w[1][1] = h /\ w[1][2] = m /\ w[2][2] = n
    BY <2>1
  <2>3. m < HourMinutes /\ n < HourMinutes
    BY <1>1, <1>3, <2>2 DEF Unknowable
  <2> DEFINE f == AsTicks(<<h, m>>)  l == AsTicks(<<k, n>>)
  <2>4. h < DayHours /\ l < f + DayTicks
    BY <1>3, <2>2 DEF ShortWindow
  <2>5. f \in Nat /\ l \in Nat
    <3>1. /\ h * HourTicks \in Nat /\ k * HourTicks \in Nat
          /\ m * MinuteTicks \in Nat /\ n * MinuteTicks \in Nat
      BY Clock
    <3>2. f = h * HourTicks + m * MinuteTicks /\ l = k * HourTicks + n * MinuteTicks
      BY DEF AsTicks
    <3> HIDE DEF f, l
    <3> QED  BY <3>1, <3>2
  <2>6. f < DayTicks
    <3>1. h * HourTicks + HourTicks <= DayTicks /\ h * HourTicks \in Nat
      <4>1. \A a, b, c \in Nat : a < b => a * c + c <= b * c
        <5> TAKE a, b, c \in Nat
        <5> HAVE a < b
        <5>1. \A p, q \in Nat : p <= q => p * c <= q * c
          OBVIOUS
        <5>2. (a + 1) * c <= b * c /\ (a + 1) * c = a * c + c
          BY <5>1
        <5> QED  BY <5>2
      <4> QED  BY <2>4, <4>1, Clock
    <3>2. m * MinuteTicks \in Nat /\ m * MinuteTicks < HourTicks
      BY <2>3, Clock
    <3>3. f = h * HourTicks + m * MinuteTicks
      BY DEF AsTicks
    <3> HIDE DEF f
    <3> QED  BY <1>1, <3>1, <3>2, <3>3, Clock
  <2>7. Parse(<<h, m>>) = <<f>>
    <3>1. f < 2 * DayTicks
      BY <1>1, <2>5, <2>6
    <3> QED  BY <2>3, <2>6, <3>1, WrappedTime
  <2>8. Parse(<<k, n>>) = <<IF l < DayTicks THEN l ELSE l - DayTicks>>
    <3>1. l < 2 * DayTicks
      BY <1>1, <2>4, <2>5, <2>6
    <3> QED  BY <2>3, <3>1, WrappedTime
  <2> DEFINE L == IF l < DayTicks THEN l ELSE l - DayTicks
             reach == f..(IF l < f THEN l + DayTicks ELSE l)
  <2> HIDE DEF f, l
  <2>9. InRange(x, f, L) <=> x + 0 * DayTicks \in reach \/ x + 1 * DayTicks \in reach
    BY <1>1, <2>4, <2>5, <2>6 DEF InRange
  <2>10. NoTime \notin {Parse(w[1]), Parse(w[2])}
    <3>1. <<f>> \in Seq(Nat) /\ <<L>> \in Seq(Nat)
      BY <1>1, <2>5
    <3> QED  BY <2>2, <2>7, <2>8, <3>1, NoTimeAssumption
  <2> QED  BY <1>3, <2>2, <2>7, <2>8, <2>9, <2>10 DEF f, l
<1> QED  BY <1>2, <1>3

Row == [wd : Times \X Times, sat : Times \X Times, sun : Times \X Times]

\* On days whose windows are the day before's, and short, the code is right.
LEMMA OperatingIsRunning ==
    ASSUME NEW rows \in SUBSET Row, NEW t \in Int, ShortWindows(rows), SameWindows(rows, t)
    PROVE  Operating(rows, t) <=> Runs(rows, t)
<1> DEFINE day == WeekdayOf(t)  x == TimeOf(t)
           Holds(w) == \/ NoTime \in {Parse(w[1]), Parse(w[2])}
                       \/ InRange(x, Parse(w[1])[1], Parse(w[2])[1])
           In(w, back) ==
             LET first == AsTicks(w[1])
                 last == AsTicks(w[2])
             IN  \/ Unknowable(w)
                 \/ x + back * DayTicks \in first..(IF last < first THEN last + DayTicks ELSE last)
<1>1. day \in 0..6 /\ x \in 0..(DayTicks - 1)
  <2>1. DayTicks \in Nat /\ DayTicks > 0
    BY Clock
  <2>2. t \div DayTicks \in Int /\ t % DayTicks \in 0..(DayTicks - 1)
    BY <2>1
  <2>3. \A n \in Int : n % 7 \in 0..6
    OBVIOUS
  <2> QED  BY <2>2, <2>3 DEF WeekdayOf, TimeOf
<1>2. (day + 7 - 0) % 7 = day /\ (day + 7 - 1) % 7 = (day + 6) % 7
  BY <1>1
<1> HIDE DEF day, x
<1>3. ASSUME NEW row \in rows
      PROVE  /\ Holds(Window(row, day)) <=> In(Window(row, day), 0) \/ In(Window(row, day), 1)
             /\ Window(row, (day + 7 - 0) % 7) = Window(row, day)
             /\ Window(row, (day + 7 - 1) % 7) = Window(row, day)
  <2>1. Window(row, day) \in {row.wd, row.sat, row.sun}
    BY DEF Window
  <2>2. Window(row, day) \in Times \X Times /\ ShortWindow(Window(row, day))
    BY <2>1 DEF Row, ShortWindows
  <2>3. Holds(Window(row, day)) <=> In(Window(row, day), 0) \/ In(Window(row, day), 1)
    <3> DEFINE w == Window(row, day)
    <3> HIDE DEF w
    <3>1. w \in Times \X Times /\ ShortWindow(w)
      BY <2>2 DEF w
    <3>2. Holds(w) <=> In(w, 0) \/ In(w, 1)
      BY <1>1, <3>1, WindowHolds
    <3> QED  BY <3>2 DEF w
  <2>4. Window(row, (day + 6) % 7) = Window(row, day)
    BY DEF SameWindows, day
  <2> QED  BY <1>2, <2>3, <2>4
<1>4. Operating(rows, t) <=> rows = {} \/ \E row \in rows : Holds(Window(row, day))
  BY DEF Operating, day, x
<1>5. Runs(rows, t) <=> \/ rows = {}
                        \/ \E row \in rows : \/ In(Window(row, (day + 7 - 0) % 7), 0)
                                            \/ In(Window(row, (day + 7 - 1) % 7), 1)
  <2>1. Runs(rows, t) <=> rows = {} \/ \E row \in rows, back \in {0, 1} :
                                         In(Window(row, (day + 7 - back) % 7), back)
    BY DEF Runs, day, x
  <2> HIDE DEF In
  <2> QED  BY <2>1
<1> HIDE DEF Holds, In
<1> QED  BY <1>3, <1>4, <1>5

-----------------------------------------------------------------------------
(* The invariant. *)

Arrival == [status : Statuses, minutes : Nat, eta : Int]
Answer == [stop : Stop, service : Service, status : {"OK", "NOT_FOUND", "ERROR"},
           arrivals : Seq(Arrival)]
Batch == [at : {"idle", "next", "asked", "done"}, items : Seq(Stop \X Service),
          stops : Seq(Stop), results : Seq(Answer), stale : BOOLEAN, begun : Int, asked : Int]

\* What is said is so at a moment: the minutes, or whether the service is running.
Said(rows, a, t) ==
    /\ a.status \in {"ARRIVING", "ESTIMATED"} => a.minutes = Minutes(a.eta, t)
    /\ a.status \in {"NO_ESTIMATE", "NOT_IN_OPERATION"} =>
        (a.status = "NO_ESTIMATE" <=> Operating(rows, t))

PayloadOK(held, stop, payload) ==
    /\ payload.made \in Int
    /\ \A s \in DOMAIN payload.services :
        /\ payload.services[s] \in Seq(Arrival) \ {<<>>}
        /\ \A j \in DOMAIN payload.services[s] :
              Said(held[<<stop, s>>], payload.services[s][j], payload.made)

EntriesOK(held, entries, t, ttl) ==
    /\ entries = [c \in Stop |-> entries[c]]
    /\ \A c \in Stop : entries[c] # NoPayload =>
        /\ PayloadOK(held, c, entries[c])
        /\ entries[c].made <= t /\ t < entries[c].made + ttl

RedisInv ==
    /\ routes \in Tables /\ now \in Nat
    /\ EntriesOK(routes, cache, now, Ttl)
    /\ EntriesOK(routes, lastGood, now, LastGoodTtl)
    /\ \A c \in Stop : cache[c] # NoPayload => lastGood[c] = cache[c]

\* An answer holds arrivals exactly if it is OK.
OKWithArrivals(results) ==
    \A i \in DOMAIN results : results[i].status = "OK" <=> results[i].arrivals # <<>>

BatchTyped ==
    /\ batch \in Batch /\ batch.begun <= now /\ OKWithArrivals(batch.results)
    /\ batch.stops = <<>> <=> batch.at \in {"idle", "done"}

\* The stops that are left differ; the items of the others are answered.
AskedInv ==
    /\ \A k, l \in DOMAIN batch.stops : batch.stops[k] = batch.stops[l] => k = l
    /\ \A stop \in Stop, s \in Service :
        TimesAnswered(stop, s) = IF \E k \in DOMAIN batch.stops : batch.stops[k] = stop
                                 THEN 0 ELSE TimesAsked(stop, s)

\* The payloads of an unmarked answer are no older than a time to live.
SaidSince(held, results, first, last) ==
    \A i \in DOMAIN results : \A j \in DOMAIN results[i].arrivals :
        \E t \in first..last :
            Said(held[<<results[i].stop, results[i].service>>], results[i].arrivals[j], t)

SaidInv == batch.stale \/ SaidSince(routes, batch.results, Since, now)

BatchInv == RedisInv /\ BatchTyped /\ AskedInv /\ SaidInv

LEMMA TimesOfLife == Ttl \in Nat /\ LastGoodTtl \in Nat /\ 0 < Ttl /\ Ttl < LastGoodTtl
BY TimesAssumption

\* Whole minutes, rounded down.
LEMMA WholeMinutes ==
    ASSUME NEW n \in Nat
    PROVE  /\ n \div MinuteTicks \in Nat
           /\ (n \div MinuteTicks) * MinuteTicks <= n
           /\ n < (n \div MinuteTicks + 1) * MinuteTicks
<1>1. MinuteTicks \in Nat /\ MinuteTicks > 0
  BY ClockAssumption
<1> QED  BY <1>1

LEMMA MinutesOf ==
    ASSUME NEW eta \in Int, NEW t \in Int
    PROVE  Minutes(eta, t) \in Nat
BY WholeMinutes DEF Minutes

\* What LTA answers makes a payload of the moment.
LEMMA PayloadIsMade ==
    ASSUME NEW stop, NEW board \in Boards, NEW t \in Int
    PROVE  PayloadOK(routes, stop, Payload(stop, board, t)) /\ Payload(stop, board, t).made = t
<1> DEFINE p == Payload(stop, board, t)
<1>1. /\ p.made = t /\ DOMAIN p.services = DOMAIN board
      /\ \A s \in DOMAIN board : p.services[s] = Arrivals(board[s], routes[<<stop, s>>], t)
  BY DEF Payload
<1>2. ASSUME NEW buses \in Seq(Int \cup {NoBus}), NEW held
      PROVE  /\ Arrivals(buses, held, t) \in Seq(Arrival) \ {<<>>}
             /\ \A j \in DOMAIN Arrivals(buses, held, t) : Said(held, Arrivals(buses, held, t)[j], t)
  <2> DEFINE P == {i \in DOMAIN buses : buses[i] # NoBus}  coming == Picked(buses, P)
             all == [i \in DOMAIN coming |-> Estimate(t + coming[i], t)]
  <2>1. P \subseteq Int /\ IsFiniteSet(P) /\ \A i \in P : buses[i] \in Int
    <3>1. DOMAIN buses = 1..Len(buses) /\ Len(buses) \in Nat
      OBVIOUS
    <3>2. IsFiniteSet(1..Len(buses))
      BY <3>1, FS_Interval
    <3> QED  BY <3>1, <3>2, FS_Subset
  <2>2. coming \in Seq(Int)
    <3> HIDE DEF P
    <3> QED  BY <2>1, PickedIsSequence
  <2> HIDE DEF P, coming
  <2>3. Arrivals(buses, held, t) = IF coming = <<>> THEN <<NoEstimate(held, t)>> ELSE all
    BY DEF Arrivals, coming, P
  <2>4. CASE coming = <<>>
    <3>1. NoEstimate(held, t) \in Arrival /\ Said(held, NoEstimate(held, t), t)
      BY DEF NoEstimate, Arrival, Said, Statuses
    <3> QED  BY <2>3, <2>4, <3>1
  <2>5. CASE coming # <<>>
    <3>1. ASSUME NEW eta \in Int PROVE Estimate(eta, t) \in Arrival /\ Said(held, Estimate(eta, t), t)
      BY MinutesOf DEF Estimate, Arrival, Said, Statuses
    <3>2. Len(coming) \in Nat /\ DOMAIN coming = 1..Len(coming) /\ Len(coming) # 0
      BY <2>2, <2>5
    <3>3. all \in [1..Len(coming) -> Arrival] /\ \A j \in 1..Len(coming) : Said(held, all[j], t)
      <4>1. ASSUME NEW j \in 1..Len(coming)
            PROVE  Estimate(t + coming[j], t) \in Arrival /\ Said(held, Estimate(t + coming[j], t), t)
        <5>1. coming[j] \in Int
          BY <2>2, <3>2
        <5>2. t + coming[j] \in Int
          BY <5>1
        <5> QED  BY <3>1, <5>2
      <4>2. all = [j \in 1..Len(coming) |-> Estimate(t + coming[j], t)]
        BY <3>2
      <4> HIDE DEF all
      <4> QED  BY <4>1, <4>2
    <3>4. all \in Seq(Arrival) /\ all # <<>>
      <4>1. \A m \in Nat : \A s \in [1..m -> Arrival] : s \in Seq(Arrival) /\ Len(s) = m
        OBVIOUS
      <4> HIDE DEF all
      <4> QED  BY <3>2, <3>3, <4>1
    <3> QED  BY <2>3, <2>5, <3>2, <3>3, <3>4
  <2> QED  BY <2>4, <2>5
<1>3. ASSUME NEW s \in DOMAIN board
      PROVE  /\ p.services[s] \in Seq(Arrival) \ {<<>>}
             /\ \A j \in DOMAIN p.services[s] :
                   Said(routes[<<stop, s>>], p.services[s][j], p.made)
  <2>1. board[s] \in Seq(Int \cup {NoBus})
    BY BoardAssumption
  <2> HIDE DEF p
  <2> QED  BY <1>1, <1>2, <2>1
<1> HIDE DEF p
<1>4. PayloadOK(routes, stop, p) /\ p.made = t
  BY <1>1, <1>3 DEF PayloadOK
<1> QED  BY <1>4 DEF p

-----------------------------------------------------------------------------
(* The answers of a stop. *)

\* One answer to each item of a stop.
Fits(results, stop) ==
    /\ results \in Seq(Answer) /\ OKWithArrivals(results)
    /\ DOMAIN results = DOMAIN ItemsAt(stop)
    /\ \A k \in DOMAIN results : /\ results[k].stop = stop
                                 /\ results[k].service = ItemsAt(stop)[k][2]

LEMMA ItemsOfStop ==
    ASSUME batch.items \in Seq(Stop \X Service), NEW stop
    PROVE  /\ Len(ItemsAt(stop)) \in Nat /\ DOMAIN ItemsAt(stop) = 1..Len(ItemsAt(stop))
           /\ \A k \in DOMAIN ItemsAt(stop) :
                /\ ItemsAt(stop)[k] \in Stop \X Service /\ ItemsAt(stop)[k][1] = stop
           /\ \A s : Cardinality({k \in DOMAIN ItemsAt(stop) : ItemsAt(stop)[k][2] = s})
                       = TimesAsked(stop, s)
<1> DEFINE items == batch.items  P == {i \in DOMAIN items : items[i][1] = stop}
           n == Cardinality(P)
<1>1. /\ Len(items) \in Nat /\ DOMAIN items = 1..Len(items)
      /\ \A i \in DOMAIN items : items[i] \in Stop \X Service
  OBVIOUS
<1>2. P \subseteq Int /\ IsFiniteSet(P)
  <2>1. IsFiniteSet(1..Len(items))
    BY <1>1, FS_Interval
  <2> QED  BY <1>1, <2>1, FS_Subset
<1>3. n \in Nat /\ \A k \in 1..n : Nth(P, k) \in P
  <2> HIDE DEF P
  <2> QED  BY <1>2, Places
<1>4. /\ DOMAIN ItemsAt(stop) = 1..n /\ Len(ItemsAt(stop)) = n
      /\ \A k \in 1..n : ItemsAt(stop)[k] = items[Nth(P, k)]
  <2>1. ItemsAt(stop) = Picked(items, P)
    BY DEF ItemsAt
  <2> DEFINE E == Stop \X Service
  <2>2. \A i \in P : items[i] \in E
    BY <1>1
  <2> HIDE DEF P, items, E
  <2>3. /\ DOMAIN Picked(items, P) = 1..n /\ Len(Picked(items, P)) = n
        /\ \A k \in 1..n : Picked(items, P)[k] = items[Nth(P, k)]
    <3>1. DOMAIN Picked(items, P) = 1..n /\ Len(Picked(items, P)) = n
      BY <1>2, <2>2, PickedIsSequence
    <3>2. \A k \in 1..n : Picked(items, P)[k] = items[Nth(P, k)]
      BY PickedIs
    <3> QED  BY <3>1, <3>2
  <2> QED  BY <2>1, <2>3
<1>5. ASSUME NEW s
      PROVE  Cardinality({k \in DOMAIN ItemsAt(stop) : ItemsAt(stop)[k][2] = s}) = TimesAsked(stop, s)
  <2> DEFINE Q == {i \in P : items[i][2] = s}
  <2>1. Cardinality({k \in 1..n : Nth(P, k) \in Q}) = Cardinality(Q)
    <3>1. Q \subseteq P
      OBVIOUS
    <3> HIDE DEF P, Q
    <3> QED  BY <1>2, <3>1, PickedAsOften
  <2>2. {k \in DOMAIN ItemsAt(stop) : ItemsAt(stop)[k][2] = s} = {k \in 1..n : Nth(P, k) \in Q}
    <3> HIDE DEF P, items, n
    <3> QED  BY <1>3, <1>4
  <2>3. Q = {i \in DOMAIN items : items[i] = <<stop, s>>}
    <3>1. \A i \in DOMAIN items : items[i] = <<items[i][1], items[i][2]>>
      BY <1>1
    <3> QED  BY <3>1
  <2> QED  BY <2>1, <2>2, <2>3 DEF TimesAsked
<1>6. \A k \in 1..n : ItemsAt(stop)[k] \in Stop \X Service /\ ItemsAt(stop)[k][1] = stop
  BY <1>1, <1>3, <1>4
<1> QED  BY <1>3, <1>4, <1>5, <1>6

LEMMA ErrorsFit ==
    ASSUME batch.items \in Seq(Stop \X Service), NEW stop \in Stop, NEW first, NEW last
    PROVE  Fits(ErrorItems(stop), stop) /\ SaidSince(routes, ErrorItems(stop), first, last)
<1> DEFINE items == ItemsAt(stop)  results == ErrorItems(stop)  n == Len(ItemsAt(stop))
<1>1. /\ n \in Nat /\ DOMAIN items = 1..n
      /\ \A k \in 1..n : items[k][2] \in Service /\ items[k][1] = stop
  BY ItemsOfStop
<1>2. /\ DOMAIN results = 1..n /\ results = [k \in 1..n |-> results[k]]
      /\ \A k \in 1..n : results[k] = [stop |-> stop, service |-> items[k][2],
                                       status |-> "ERROR", arrivals |-> <<>>]
  BY <1>1 DEF ErrorItems, Result
<1> HIDE DEF items, results, n
<1>3. ASSUME NEW k \in 1..n PROVE results[k] \in Answer
  <2>1. <<>> \in Seq(Arrival) /\ items[k][2] \in Service
    BY <1>1
  <2>2. results[k] = [stop |-> stop, service |-> items[k][2], status |-> "ERROR", arrivals |-> <<>>]
    BY <1>2
  <2> HIDE DEF Arrival
  <2> QED  BY <2>1, <2>2 DEF Answer
<1>4. results \in Seq(Answer)
  BY <1>1, <1>2, <1>3
<1> QED  BY <1>1, <1>2, <1>4 DEF Fits, SaidSince, OKWithArrivals, items, results

LEMMA FoundFit ==
    ASSUME batch.items \in Seq(Stop \X Service), NEW stop \in Stop, NEW payload,
           PayloadOK(routes, stop, payload), NEW first, NEW last
    PROVE  /\ Fits(FoundItems(stop, payload), stop)
           /\ payload.made \in first..last => SaidSince(routes, FoundItems(stop, payload), first, last)
<1> DEFINE items == ItemsAt(stop)  results == FoundItems(stop, payload)  n == Len(ItemsAt(stop))
           Known(k) == items[k][2] \in DOMAIN payload.services
<1>1. /\ n \in Nat /\ DOMAIN items = 1..n
      /\ \A k \in 1..n : items[k][2] \in Service /\ items[k][1] = stop
  BY ItemsOfStop
<1>2. /\ DOMAIN results = 1..n /\ results = [k \in 1..n |-> results[k]]
      /\ \A k \in 1..n :
            results[k] = IF Known(k)
                         THEN [stop |-> stop, service |-> items[k][2], status |-> "OK",
                               arrivals |-> payload.services[items[k][2]]]
                         ELSE [stop |-> stop, service |-> items[k][2],
                               status |-> "NOT_FOUND", arrivals |-> <<>>]
  BY <1>1 DEF FoundItems, Result
<1>3. \A k \in 1..n : Known(k) =>
        /\ payload.services[items[k][2]] \in Seq(Arrival) \ {<<>>}
        /\ \A j \in DOMAIN payload.services[items[k][2]] :
              Said(routes[<<stop, items[k][2]>>], payload.services[items[k][2]][j], payload.made)
  BY DEF PayloadOK
<1> HIDE DEF items, results, n
<1>4. \A k \in 1..n : /\ results[k] \in Answer /\ results[k].stop = stop
                      /\ results[k].service = items[k][2]
                      /\ results[k].status = "OK" <=> results[k].arrivals # <<>>
  <2> TAKE k \in 1..n
  <2>0. <<>> \in Seq(Arrival) /\ items[k][2] \in Service
    BY <1>1
  <2>1. CASE Known(k)
    <3>1. /\ results[k] = [stop |-> stop, service |-> items[k][2], status |-> "OK",
                           arrivals |-> payload.services[items[k][2]]]
          /\ payload.services[items[k][2]] \in Seq(Arrival)
          /\ payload.services[items[k][2]] # <<>>
      BY <1>2, <1>3, <2>1
    <3> QED  BY <2>0, <3>1 DEF Answer
  <2>2. CASE ~Known(k)
    <3>1. results[k] = [stop |-> stop, service |-> items[k][2], status |-> "NOT_FOUND",
                        arrivals |-> <<>>]
      BY <1>2, <2>2
    <3> QED  BY <2>0, <3>1 DEF Answer
  <2> QED  BY <2>1, <2>2
<1>5. results \in Seq(Answer)
  BY <1>1, <1>2, <1>4
<1>6. \A k \in 1..n : \A j \in DOMAIN results[k].arrivals :
        Said(routes[<<stop, items[k][2]>>], results[k].arrivals[j], payload.made)
  <2> TAKE k \in 1..n
  <2>1. CASE Known(k)
    <3>1. results[k].arrivals = payload.services[items[k][2]]
      BY <1>2, <2>1
    <3>2. \A j \in DOMAIN payload.services[items[k][2]] :
            Said(routes[<<stop, items[k][2]>>], payload.services[items[k][2]][j], payload.made)
      BY <1>3, <2>1
    <3> QED  BY <3>1, <3>2
  <2>2. CASE ~Known(k)
    BY <1>2, <2>2
  <2> QED  BY <2>1, <2>2
<1> QED  BY <1>1, <1>2, <1>4, <1>5, <1>6 DEF Fits, SaidSince, OKWithArrivals, items, results

\* The answers of the current stop are added.
LEMMA AnswerStop ==
    ASSUME BatchInv, batch.stops # <<>>, now' = now, routes' = routes, NEW new, NEW stale \in BOOLEAN,
           Fits(new, Current), Answered(new, stale),
           ~stale => ~batch.stale /\ SaidSince(routes, new, Since, now)
    PROVE  BatchTyped' /\ AskedInv' /\ SaidInv'
<1> DEFINE old == batch.results  stops == batch.stops  all == old \o new
           n == Len(old)  m == Len(new)
<1>1. /\ batch \in Batch /\ old \in Seq(Answer) /\ stops \in Seq(Stop) /\ Len(stops) \in Nat \ {0}
      /\ batch.items \in Seq(Stop \X Service) /\ batch.begun <= now /\ OKWithArrivals(old)
      /\ Current = stops[1] /\ Current \in Stop /\ DOMAIN stops = 1..Len(stops)
  BY DEF BatchInv, BatchTyped, Batch, Current
<1>2. /\ batch' \in Batch /\ batch'.results = all /\ batch'.stops = Tail(stops)
      /\ batch'.items = batch.items /\ batch'.begun = batch.begun /\ batch'.stale = stale
      /\ batch'.at = IF Len(stops) = 1 THEN "done" ELSE "next"
  <2>1. all \in Seq(Answer) /\ Tail(stops) \in Seq(Stop)
    BY <1>1 DEF Fits
  <2>2. batch' = [batch EXCEPT !.at = IF Len(stops) = 1 THEN "done" ELSE "next",
                               !.stops = Tail(stops), !.results = all, !.stale = stale]
    BY <1>1 DEF Answered, Batch
  <2> HIDE DEF all, stops
  <2> QED  BY <1>1, <2>1, <2>2 DEF Batch
<1>3. /\ n \in Nat /\ m \in Nat /\ DOMAIN old = 1..n /\ DOMAIN new = 1..m /\ DOMAIN all = 1..(n + m)
      /\ \A i \in 1..n : all[i] = old[i]
      /\ \A i \in 1..(n + m) : i \notin 1..n => i - n \in 1..m /\ all[i] = new[i - n]
      /\ \A j \in 1..m : n + j \in 1..(n + m) /\ n + j \notin 1..n /\ all[n + j] = new[j]
  BY <1>1 DEF Fits
<1>4. /\ DOMAIN Tail(stops) = 1..(Len(stops) - 1)
      /\ \A k \in 1..(Len(stops) - 1) : Tail(stops)[k] = stops[k + 1]
      /\ Tail(stops) = <<>> <=> Len(stops) = 1
  <2> DEFINE rest == Tail(stops)
  <2>1. /\ rest \in Seq(Stop) /\ Len(rest) = Len(stops) - 1
        /\ \A k \in 1..Len(rest) : rest[k] = stops[k + 1]
    BY <1>1, HeadTailProperties
  <2> HIDE DEF rest, stops
  <2>2. DOMAIN rest = 1..Len(rest) /\ (rest = <<>> <=> Len(rest) = 0)
    BY <2>1
  <2>3. DOMAIN rest = 1..(Len(stops) - 1) /\ (rest = <<>> <=> Len(stops) = 1)
    BY <1>1, <2>1, <2>2
  <2> QED  BY <2>1, <2>3 DEF rest
<1> HIDE DEF all
<1>5. BatchTyped'
  <2>1. OKWithArrivals(all)
    <3>1. OKWithArrivals(new)
      BY DEF Fits
    <3> HIDE DEF old, n, m
    <3>2. ASSUME NEW i \in 1..(n + m) PROVE all[i].status = "OK" <=> all[i].arrivals # <<>>
      <4>1. CASE i \in 1..n
        BY <1>1, <1>3, <4>1 DEF OKWithArrivals
      <4>2. CASE i \notin 1..n
        BY <1>3, <3>1, <4>2 DEF OKWithArrivals
      <4> QED  BY <4>1, <4>2
    <3> QED  BY <1>3, <3>2 DEF OKWithArrivals
  <2>2. OKWithArrivals(batch.results)'
    BY <1>2, <2>1 DEF OKWithArrivals
  <2> QED  BY <1>1, <1>2, <1>4, <2>2 DEF BatchTyped
<1>6. SaidInv'
  <2>1. CASE stale
    BY <1>2, <2>1 DEF SaidInv
  <2>2. CASE ~stale
    <3>1. SaidSince(routes, old, Since, now) /\ SaidSince(routes, new, Since, now)
      BY <2>2 DEF BatchInv, SaidInv
    <3>2. SaidSince(routes, all, Since, now)
      <4> DEFINE SaysSo(r) == \A j \in DOMAIN r.arrivals : \E t \in Since..now :
                                Said(routes[<<r.stop, r.service>>], r.arrivals[j], t)
      <4>1. \A s : SaidSince(routes, s, Since, now) <=> \A i \in DOMAIN s : SaysSo(s[i])
        BY DEF SaidSince
      <4> HIDE DEF n, m, old, SaysSo
      <4>2. ASSUME NEW i \in DOMAIN all PROVE SaysSo(all[i])
        <5>1. CASE i \in 1..n
          BY <1>3, <3>1, <4>1, <5>1
        <5>2. CASE i \notin 1..n
          BY <1>3, <3>1, <4>1, <5>2
        <5> QED  BY <5>1, <5>2
      <4> QED  BY <4>1, <4>2
    <3> QED  BY <1>2, <3>2 DEF SaidInv, Since
  <2> QED  BY <2>1, <2>2
<1>7. ASSUME NEW k \in DOMAIN Tail(stops), NEW l \in DOMAIN Tail(stops), Tail(stops)[k] = Tail(stops)[l]
      PROVE  k = l
  <2>1. k \in Nat /\ l \in Nat /\ k + 1 \in DOMAIN stops /\ l + 1 \in DOMAIN stops
        /\ stops[k + 1] = stops[l + 1]
    <3>1. k \in 1..(Len(stops) - 1) /\ l \in 1..(Len(stops) - 1)
      BY <1>4
    <3>2. Tail(stops)[k] = stops[k + 1] /\ Tail(stops)[l] = stops[l + 1]
      BY <1>4, <3>1
    <3>3. k \in Nat /\ l \in Nat /\ k + 1 \in 1..Len(stops) /\ l + 1 \in 1..Len(stops)
      BY <1>1, <3>1
    <3> HIDE DEF stops
    <3> QED  BY <1>1, <1>7, <3>2, <3>3
  <2>2. k + 1 = l + 1
    BY <2>1 DEF BatchInv, AskedInv
  <2> QED  BY <2>1, <2>2
<1> DEFINE Left(s) == \E k \in DOMAIN stops : stops[k] = s
           LeftNext(s) == \E k \in DOMAIN Tail(stops) : Tail(stops)[k] = s
<1>8. ASSUME NEW stop \in Stop
      PROVE  /\ stop = Current => Left(stop) /\ ~LeftNext(stop)
             /\ stop # Current => (Left(stop) <=> LeftNext(stop))
  <2>1. 1 \in DOMAIN stops /\ stops[1] = Current
    BY <1>1
  <2>2. ASSUME NEW k \in DOMAIN Tail(stops) PROVE k + 1 \in DOMAIN stops /\ Tail(stops)[k] = stops[k + 1]
                                                  /\ k + 1 # 1
    BY <1>1, <1>4
  <2>3. ASSUME NEW k \in DOMAIN stops, k # 1 PROVE k - 1 \in DOMAIN Tail(stops) /\ Tail(stops)[k - 1] = stops[k]
    <3>1. k \in 2..Len(stops) /\ k - 1 \in 1..(Len(stops) - 1) /\ k - 1 + 1 = k
      BY <1>1, <2>3
    <3> QED  BY <1>4, <3>1
  <2>4. \A k, l \in DOMAIN stops : stops[k] = stops[l] => k = l
    BY DEF BatchInv, AskedInv
  <2> DEFINE rest == Tail(stops)
  <2> HIDE DEF stops, rest
  <2>5. stop = Current => ~\E k \in DOMAIN rest : rest[k] = stop
    BY <2>1, <2>2, <2>4 DEF rest
  <2>6. stop # Current /\ (\E k \in DOMAIN stops : stops[k] = stop) => \E k \in DOMAIN rest : rest[k] = stop
    BY <2>1, <2>3 DEF rest
  <2>7. (\E k \in DOMAIN rest : rest[k] = stop) => \E k \in DOMAIN stops : stops[k] = stop
    BY <2>2 DEF rest
  <2> QED  BY <2>1, <2>5, <2>6, <2>7 DEF rest
<1>9. ASSUME NEW stop \in Stop, NEW s \in Service
      PROVE  TimesAnswered(stop, s)' = IF LeftNext(stop) THEN 0 ELSE TimesAsked(stop, s)
  <2> DEFINE Is(r) == r.stop = stop /\ r.service = s
             A == {i \in 1..n : Is(old[i])}  B == {j \in 1..m : Is(new[j])}
  <2>1. TimesAnswered(stop, s) = Cardinality(A)
    BY <1>3 DEF TimesAnswered
  <2>2. TimesAnswered(stop, s)' = Cardinality(A) + Cardinality(B)
    <3>1. {i \in 1..(n + m) : Is(all[i])} = A \cup {n + j : j \in B}
      <4> HIDE DEF n, m, old
      <4>1. ASSUME NEW i \in 1..(n + m), Is(all[i]) PROVE i \in A \/ \E j \in B : i = n + j
        <5>1. CASE i \in 1..n
          BY <1>3, <4>1, <5>1
        <5>2. CASE i \notin 1..n
          <6>1. i - n \in B
            BY <1>3, <4>1, <5>2
          <6>2. i = n + (i - n)
            BY <1>3
          <6> QED  BY <6>1, <6>2
        <5> QED  BY <5>1, <5>2
      <4>2. ASSUME NEW i \in A PROVE i \in 1..(n + m) /\ Is(all[i])
        BY <1>3
      <4>3. ASSUME NEW j \in B PROVE n + j \in 1..(n + m) /\ Is(all[n + j])
        BY <1>3
      <4> HIDE DEF A, B, Is
      <4> QED  BY <4>1, <4>2, <4>3
    <3>2. TimesAnswered(stop, s)' = Cardinality({i \in 1..(n + m) : Is(all[i])})
      BY <1>2, <1>3 DEF TimesAnswered
    <3> DEFINE D == {i \in 1..(n + m) : Is(all[i])}
    <3>3. Cardinality(D) = Cardinality(A) + Cardinality(B)
      <4>1. A \in SUBSET (1..n) /\ B \in SUBSET (1..m)
        OBVIOUS
      <4>2. n \in Nat /\ m \in Nat
        BY <1>3
      <4>3. D = Joined(A, n, B)
        BY <3>1 DEF Joined
      <4> HIDE DEF A, B, D, n, m
      <4>4. Cardinality(Joined(A, n, B)) = Cardinality(A) + Cardinality(B)
        BY <4>1, <4>2, CountsAdd, Zenon
      <4> QED  BY <4>3, <4>4
    <3> QED  BY <3>2, <3>3
  <2>3. Cardinality(B) = IF stop = Current THEN TimesAsked(stop, s) ELSE 0
    <3>1. CASE stop = Current
      <4>1. B = {k \in DOMAIN ItemsAt(stop) : ItemsAt(stop)[k][2] = s}
        BY <1>3, <3>1 DEF Fits
      <4>2. Cardinality({k \in DOMAIN ItemsAt(stop) : ItemsAt(stop)[k][2] = s}) = TimesAsked(stop, s)
        BY <1>1, ItemsOfStop
      <4> HIDE DEF B
      <4> QED  BY <3>1, <4>1, <4>2
    <3>2. CASE stop # Current
      <4>1. B = {}
        BY <1>3, <3>2 DEF Fits
      <4> HIDE DEF B
      <4>2. Cardinality(B) = 0
        BY <4>1, FS_EmptySet
      <4> QED  BY <3>2, <4>2
    <3> QED  BY <3>1, <3>2
  <2>4. TimesAnswered(stop, s) = IF Left(stop) THEN 0 ELSE TimesAsked(stop, s)
    BY DEF BatchInv, AskedInv
  <2>5. TimesAsked(stop, s) \in Nat
    <3>1. IsFiniteSet(DOMAIN batch.items)
      <4>1. Len(batch.items) \in Nat /\ DOMAIN batch.items = 1..Len(batch.items)
        BY <1>1
      <4> QED  BY <4>1, FS_Interval
    <3> QED  BY <3>1, FS_Subset, FS_CardinalityType DEF TimesAsked
  <2> HIDE DEF Left, LeftNext, A, B
  <2> QED  BY <1>8, <2>1, <2>2, <2>3, <2>4, <2>5
<1>10. AskedInv'
  <2>1. \A stop, s : TimesAsked(stop, s)' = TimesAsked(stop, s)
    BY <1>2 DEF TimesAsked
  <2> QED  BY <1>2, <1>7, <1>9, <2>1 DEF AskedInv
<1> QED  BY <1>5, <1>6, <1>10

\* No batch, and a batch that begins.
LEMMA NothingAnswered ==
    ASSUME now' \in Nat, batch'.results = <<>>, batch' \in Batch, batch'.begun <= now',
           batch'.stops = <<>> <=> batch'.at \in {"idle", "done"},
           \A k, l \in DOMAIN batch'.stops : batch'.stops[k] = batch'.stops[l] => k = l,
           \A i \in DOMAIN batch'.items :
              \E k \in DOMAIN batch'.stops : batch'.stops[k] = batch'.items[i][1]
    PROVE  BatchTyped' /\ AskedInv' /\ SaidInv'
<1>1. BatchTyped' /\ SaidInv'
  BY DEF BatchTyped, SaidInv, OKWithArrivals, SaidSince
<1>2. ASSUME NEW stop \in Stop, NEW s \in Service
      PROVE  TimesAnswered(stop, s)' = IF \E k \in DOMAIN batch'.stops : batch'.stops[k] = stop
                                       THEN 0 ELSE TimesAsked(stop, s)'
  <2>1. TimesAnswered(stop, s)' = 0
    <3>1. {i \in DOMAIN batch'.results : batch'.results[i].stop = stop /\ batch'.results[i].service = s} = {}
      OBVIOUS
    <3> QED  BY <3>1, FS_EmptySet DEF TimesAnswered
  <2>2. ASSUME ~\E k \in DOMAIN batch'.stops : batch'.stops[k] = stop
        PROVE  TimesAsked(stop, s)' = 0
    <3>1. {i \in DOMAIN batch'.items : batch'.items[i] = <<stop, s>>} = {}
      BY <2>2
    <3> QED  BY <3>1, FS_EmptySet DEF TimesAsked
  <2> QED  BY <2>1, <2>2
<1>3. AskedInv'
  BY <1>2 DEF AskedInv
<1> QED  BY <1>1, <1>3

LEMMA NoBatchIsIdle ==
    ASSUME now' \in Nat, batch' = NoBatch
    PROVE  BatchTyped' /\ AskedInv' /\ SaidInv'
BY NothingAnswered DEF NoBatch, Batch

\* A step that answers nothing.
LEMMA BatchStays ==
    ASSUME BatchInv, now' \in Nat, now <= now', routes' = routes, batch' \in Batch,
           /\ batch'.items = batch.items /\ batch'.stops = batch.stops
           /\ batch'.results = batch.results /\ batch'.stale = batch.stale
           /\ batch'.begun = batch.begun,
           batch'.at \in {"idle", "done"} <=> batch.at \in {"idle", "done"}
    PROVE  BatchTyped' /\ AskedInv' /\ SaidInv'
<1>1. now \in Nat /\ batch.begun \in Int /\ batch.begun <= now
  BY DEF BatchInv, RedisInv, BatchTyped, Batch
<1>2. BatchTyped'
  <2>1. OKWithArrivals(batch.results)'
    BY DEF BatchInv, BatchTyped, OKWithArrivals
  <2>2. batch'.begun <= now'
    BY <1>1
  <2>3. batch'.stops = <<>> <=> batch'.at \in {"idle", "done"}
    BY DEF BatchInv, BatchTyped
  <2> QED  BY <2>1, <2>2, <2>3 DEF BatchTyped
<1>3. AskedInv'
  <2>1. \A stop, s : TimesAnswered(stop, s)' = TimesAnswered(stop, s)
    BY DEF TimesAnswered
  <2>2. \A stop, s : TimesAsked(stop, s)' = TimesAsked(stop, s)
    BY DEF TimesAsked
  <2>3. AskedInv
    BY DEF BatchInv
  <2> QED  BY <2>1, <2>2, <2>3 DEF AskedInv
<1>4. SaidInv'
  <2>1. Since..now \subseteq Since..now'
    BY <1>1, TimesOfLife DEF Since
  <2>2. \A first, last :
          SaidSince(routes, batch'.results, first, last) <=> SaidSince(routes, batch.results, first, last)
    BY DEF SaidSince
  <2>3. SaidSince(routes, batch.results, Since, now) => SaidSince(routes, batch.results, Since, now')
    BY <2>1 DEF SaidSince
  <2>4. batch'.begun - Ttl = Since
    BY DEF Since
  <2>5. SaidInv' <=> batch'.stale \/ SaidSince(routes, batch'.results, batch'.begun - Ttl, now')
    BY DEF SaidInv, Since
  <2> HIDE DEF SaidSince
  <2> QED  BY <2>2, <2>3, <2>4, <2>5 DEF BatchInv, SaidInv
<1> QED  BY <1>2, <1>3, <1>4

LEMMA InitBatch == Init => BatchInv
<1> SUFFICES ASSUME Init PROVE BatchInv
  OBVIOUS
<1>1. now \in Nat /\ RedisInv
  BY StartAssumption DEF Init, RedisInv, EntriesOK
<1>2. BatchTyped /\ SaidInv
  BY <1>1 DEF Init, NoBatch, Batch, BatchTyped, SaidInv, OKWithArrivals, SaidSince
<1>3. AskedInv
  <2>1. ASSUME NEW stop \in Stop, NEW s \in Service
        PROVE  TimesAnswered(stop, s) = 0 /\ TimesAsked(stop, s) = 0
    <3>1. /\ {i \in DOMAIN batch.results : batch.results[i].stop = stop /\ batch.results[i].service = s} = {}
          /\ {i \in DOMAIN batch.items : batch.items[i] = <<stop, s>>} = {}
      BY DEF Init, NoBatch
    <3> QED  BY <3>1, FS_EmptySet DEF TimesAnswered, TimesAsked
  <2> QED  BY <2>1 DEF Init, NoBatch, AskedInv
<1> QED  BY <1>1, <1>2, <1>3 DEF BatchInv

\* A payload of the moment is stored in both places.
LEMMA StorePayload ==
    ASSUME RedisInv, now' = now, routes' = routes, NEW stop \in Stop, NEW board \in Boards,
           Store(stop, Payload(stop, board, now))
    PROVE  RedisInv'
<1> DEFINE p == Payload(stop, board, now)
<1>1. PayloadOK(routes, stop, p) /\ p.made = now /\ now \in Nat
  BY PayloadIsMade DEF RedisInv
<1> HIDE DEF p
<1>3. /\ cache' = [cache EXCEPT ![stop] = p] /\ lastGood' = [lastGood EXCEPT ![stop] = p]
  BY DEF Store, p
<1>4. ASSUME NEW old, NEW ttl \in Nat, 0 < ttl, EntriesOK(routes, old, now, ttl)
      PROVE  EntriesOK(routes, [old EXCEPT ![stop] = p], now, ttl)
  BY <1>1, <1>4 DEF EntriesOK
<1>5. EntriesOK(routes, cache', now, Ttl) /\ EntriesOK(routes, lastGood', now, LastGoodTtl)
  <2>1. /\ EntriesOK(routes, cache, now, Ttl) /\ EntriesOK(routes, lastGood, now, LastGoodTtl)
        /\ Ttl \in Nat /\ 0 < Ttl /\ LastGoodTtl \in Nat /\ 0 < LastGoodTtl
    BY TimesOfLife DEF RedisInv
  <2>2. EntriesOK(routes, [cache EXCEPT ![stop] = p], now, Ttl)
    BY <1>4, <2>1
  <2>3. EntriesOK(routes, [lastGood EXCEPT ![stop] = p], now, LastGoodTtl)
    BY <1>4, <2>1
  <2> QED  BY <1>3, <2>2, <2>3
<1>6. \A c \in Stop : cache'[c] # NoPayload => lastGood'[c] = cache'[c]
  BY <1>3 DEF RedisInv, EntriesOK
<1> QED  BY <1>1, <1>5, <1>6 DEF RedisInv

\* A stop is answered, whatever Redis holds then.
LEMMA StepAnswer ==
    ASSUME BatchInv, [Next]_vars, RedisInv', now' = now, routes' = routes, batch.at \in {"next", "asked"},
           NEW new, NEW stale \in BOOLEAN, Fits(new, Current), Answered(new, stale),
           ~stale => ~batch.stale /\ SaidSince(routes, new, Since, now)
    PROVE  BatchInv'
<1>1. batch.stops # <<>>
  BY DEF BatchInv, BatchTyped
<1> QED  BY <1>1, AnswerStop DEF BatchInv

LEMMA StepBatch == BatchInv /\ [Next]_vars => BatchInv'
<1> SUFFICES ASSUME BatchInv, [Next]_vars PROVE BatchInv'
  OBVIOUS
<1>1. /\ now \in Nat /\ batch \in Batch /\ batch.items \in Seq(Stop \X Service) /\ batch.stale \in BOOLEAN
      /\ batch.begun \in Int /\ batch.begun <= now
  BY DEF BatchInv, RedisInv, BatchTyped, Batch
<1>2. batch.at \in {"next", "asked"} => batch.stops # <<>> /\ Current \in Stop
  BY DEF BatchInv, BatchTyped, Batch, Current
<1>3. ASSUME UNCHANGED <<now, routes, cache, lastGood>> PROVE RedisInv'
  BY <1>3 DEF BatchInv, RedisInv
<1>4. ASSUME NEW p, PayloadOK(routes, Current, p), p.made <= now, now < p.made + Ttl
      PROVE  p.made \in Since..now
  BY <1>1, <1>4, TimesOfLife DEF Since, PayloadOK
<1>5. CASE \E items \in Batches : Post(items)
  <2>1. PICK items \in Batches : Post(items)
    BY <1>5
  <2>2. items \in Seq(Stop \X Service) /\ items # <<>>
    BY BatchAssumption
  <2> DEFINE stops == Grouped(items)
  <2>3. /\ stops \in Seq(Stop) /\ stops # <<>>
        /\ \A k, l \in DOMAIN stops : stops[k] = stops[l] => k = l
        /\ \A i \in DOMAIN items : \E k \in DOMAIN stops : stops[k] = items[i][1]
    BY <2>2, GroupedOnce
  <2> HIDE DEF stops
  <2>4. /\ batch' = [at |-> "next", items |-> items, stops |-> stops, results |-> <<>>,
                     stale |-> FALSE, begun |-> now, asked |-> 0]
        /\ UNCHANGED <<now, routes, cache, lastGood>>
    BY <2>1 DEF Post, NoBatch, stops
  <2>5. batch' \in Batch
    BY <1>1, <2>2, <2>3, <2>4 DEF Batch
  <2>6. BatchTyped' /\ AskedInv' /\ SaidInv'
    BY <1>1, <2>3, <2>4, <2>5, NothingAnswered
  <2> QED  BY <1>3, <2>4, <2>6 DEF BatchInv
<1>6. CASE RefuseCode
  <2>1. At("next") /\ Answered(ErrorItems(Current), batch.stale) /\ UNCHANGED <<now, routes, cache, lastGood>>
    BY <1>6 DEF RefuseCode
  <2>2. Fits(ErrorItems(Current), Current) /\ SaidSince(routes, ErrorItems(Current), Since, now)
    BY <1>1, <1>2, <2>1, ErrorsFit DEF At
  <2> QED  BY <1>1, <1>3, <2>1, <2>2, StepAnswer DEF At
<1>7. CASE ReadCache
  <2> DEFINE p == cache[Current]
  <2>1. At("next") /\ UNCHANGED <<now, routes, cache, lastGood>>
    BY <1>7 DEF ReadCache
  <2>2. CASE Live(p, Ttl)
    <3>1. Answered(FoundItems(Current, p), batch.stale)
      BY <1>1, <1>7, <2>2 DEF ReadCache, EverStale
    <3>2. PayloadOK(routes, Current, p) /\ p.made \in Since..now
      BY <1>2, <1>4, <2>1, <2>2 DEF BatchInv, RedisInv, EntriesOK, Live, At
    <3>3. Fits(FoundItems(Current, p), Current) /\ SaidSince(routes, FoundItems(Current, p), Since, now)
      BY <1>1, <1>2, <2>1, <3>2, FoundFit DEF At
    <3> QED  BY <1>1, <1>3, <2>1, <3>1, <3>3, StepAnswer DEF At
  <2>3. CASE ~Live(p, Ttl)
    <3>1. batch' = [batch EXCEPT !.at = "asked", !.asked = now]
      BY <1>7, <2>3 DEF ReadCache
    <3>2. /\ batch' \in Batch /\ batch'.results = batch.results /\ batch'.items = batch.items
          /\ batch'.stops = batch.stops /\ batch'.stale = batch.stale /\ batch'.begun = batch.begun
          /\ batch'.at = "asked"
      <4>1. /\ batch.items \in Seq(Stop \X Service) /\ batch.stops \in Seq(Stop)
            /\ batch.results \in Seq(Answer) /\ batch.stale \in BOOLEAN /\ batch.begun \in Int
        BY <1>1 DEF Batch
      <4>2. batch' = [at |-> "asked", items |-> batch.items, stops |-> batch.stops,
                      results |-> batch.results, stale |-> batch.stale, begun |-> batch.begun,
                      asked |-> now]
        BY <1>1, <3>1 DEF Batch
      <4>3. batch' \in Batch
        BY <1>1, <4>1, <4>2 DEF Batch
      <4> QED  BY <4>2, <4>3
    <3>3. BatchTyped' /\ AskedInv' /\ SaidInv'
      BY <1>1, <2>1, <3>2, BatchStays DEF At
    <3> QED  BY <1>3, <2>1, <3>3 DEF BatchInv
  <2> QED  BY <2>2, <2>3
<1>8. CASE FallBack
  <2> DEFINE p == lastGood[Current]
  <2>1. At("asked") /\ UNCHANGED <<now, routes, cache, lastGood>>
    BY <1>8 DEF FallBack
  <2>2. CASE Live(p, LastGoodTtl)
    <3>1. Answered(FoundItems(Current, p), TRUE)
      BY <1>8, <2>2 DEF FallBack, EverStale
    <3>2. PayloadOK(routes, Current, p)
      BY <1>2, <2>1, <2>2 DEF BatchInv, RedisInv, EntriesOK, Live, At
    <3>3. Fits(FoundItems(Current, p), Current)
      BY <1>1, <1>2, <2>1, <3>2, FoundFit DEF At
    <3> QED  BY <1>3, <2>1, <3>1, <3>3, StepAnswer DEF At
  <2>3. CASE ~Live(p, LastGoodTtl)
    <3>1. Answered(ErrorItems(Current), batch.stale)
      BY <1>8, <2>3 DEF FallBack
    <3>2. Fits(ErrorItems(Current), Current) /\ SaidSince(routes, ErrorItems(Current), Since, now)
      BY <1>1, <1>2, <2>1, ErrorsFit DEF At
    <3> QED  BY <1>1, <1>3, <2>1, <3>1, <3>2, StepAnswer DEF At
  <2> QED  BY <2>2, <2>3
<1>9. CASE Abort
  <2>1. batch' = NoBatch /\ UNCHANGED <<now, routes, cache, lastGood>>
    BY <1>9 DEF Abort
  <2> QED  BY <1>1, <1>3, <2>1, NoBatchIsIdle DEF BatchInv
<1>10. CASE \E board \in Boards : Fetch(board)
  <2>1. PICK board \in Boards : Fetch(board)
    BY <1>10
  <2> DEFINE p == Payload(Current, board, now)
  <2>2. /\ At("asked") /\ Store(Current, p) /\ Answered(FoundItems(Current, p), batch.stale)
        /\ UNCHANGED <<now, routes>>
    BY <1>1, <2>1 DEF Fetch, EverStale
  <2>3. PayloadOK(routes, Current, p) /\ p.made = now
    BY <1>1, PayloadIsMade
  <2>4. RedisInv'
    BY <1>2, <2>2, StorePayload DEF At, BatchInv
  <2> HIDE DEF p
  <2>5. p.made \in Since..now
    BY <1>1, <2>3, TimesOfLife DEF Since
  <2>6. Fits(FoundItems(Current, p), Current) /\ SaidSince(routes, FoundItems(Current, p), Since, now)
    BY <1>1, <1>2, <2>2, <2>3, <2>5, FoundFit DEF At
  <2> QED  BY <1>1, <2>2, <2>4, <2>6, StepAnswer DEF At
<1>11. CASE \E board \in Boards, stop \in Stop : FetchElsewhere(stop, board)
  <2>1. PICK board \in Boards, stop \in Stop : FetchElsewhere(stop, board)
    BY <1>11
  <2>2. Store(stop, Payload(stop, board, now)) /\ UNCHANGED <<now, routes, batch>>
    BY <2>1 DEF FetchElsewhere
  <2>3. RedisInv'
    BY <2>2, StorePayload DEF BatchInv
  <2>4. BatchTyped' /\ AskedInv' /\ SaidInv'
    BY <1>1, <2>2, BatchStays
  <2> QED  BY <2>3, <2>4 DEF BatchInv
<1>12. CASE Tick
  <2>1. /\ now' = now + 1 /\ routes' = routes /\ cache' = Pruned(cache, now + 1, Ttl)
        /\ lastGood' = Pruned(lastGood, now + 1, LastGoodTtl)
        /\ batch' = IF At("done") THEN NoBatch ELSE batch
    BY <1>12 DEF Tick
  <2>2. RedisInv'
    <3>2. ASSUME NEW old, NEW ttl \in Nat, EntriesOK(routes, old, now, ttl)
          PROVE  EntriesOK(routes, Pruned(old, now + 1, ttl), now + 1, ttl)
      BY <1>1, <3>2 DEF EntriesOK, Pruned, PayloadOK
    <3>3. EntriesOK(routes, cache', now + 1, Ttl) /\ EntriesOK(routes, lastGood', now + 1, LastGoodTtl)
      BY <2>1, <3>2, TimesOfLife DEF BatchInv, RedisInv
    <3>4. \A c \in Stop : cache'[c] # NoPayload => lastGood'[c] = cache'[c]
      <4> TAKE c \in Stop
      <4> HAVE cache'[c] # NoPayload
      <4>1. cache[c] # NoPayload /\ now + 1 < cache[c].made + Ttl /\ cache'[c] = cache[c]
        BY <2>1 DEF Pruned
      <4>2. cache[c].made \in Int /\ lastGood[c] = cache[c]
        BY <4>1 DEF BatchInv, RedisInv, EntriesOK, PayloadOK
      <4>3. now + 1 < lastGood[c].made + LastGoodTtl
        BY <1>1, <4>1, <4>2, TimesOfLife
      <4> QED  BY <2>1, <4>1, <4>2, <4>3 DEF Pruned
    <3>5. routes' \in Tables /\ now' \in Nat
      BY <1>1, <2>1 DEF BatchInv, RedisInv
    <3>6. EntriesOK(routes', cache', now', Ttl) /\ EntriesOK(routes', lastGood', now', LastGoodTtl)
      BY <2>1, <3>3
    <3> QED  BY <3>4, <3>5, <3>6 DEF RedisInv
  <2>3. CASE At("done")
    BY <1>1, <2>1, <2>2, <2>3, NoBatchIsIdle DEF BatchInv
  <2>4. CASE ~At("done")
    <3>1. batch' = batch
      BY <2>1, <2>4
    <3>2. BatchTyped' /\ AskedInv' /\ SaidInv'
      BY <1>1, <2>1, <3>1, BatchStays
    <3> QED  BY <2>2, <3>2 DEF BatchInv
  <2> QED  BY <2>3, <2>4
<1>13. CASE UNCHANGED vars
  <2>1. UNCHANGED <<now, routes, cache, lastGood, batch>>
    BY <1>13 DEF vars
  <2>2. BatchTyped' /\ AskedInv' /\ SaidInv'
    BY <1>1, <2>1, BatchStays
  <2> QED  BY <1>3, <2>1, <2>2 DEF BatchInv
<1> QED
  BY <1>5, <1>6, <1>7, <1>8, <1>9, <1>10, <1>11, <1>12, <1>13 DEF Next

LEMMA BatchAlways == Spec => []BatchInv
BY InitBatch, StepBatch, PTL DEF Spec

\* Redis holds no payload past its time, and an item that is OK has arrivals.
THEOREM AnswersTypeCorrect == Spec => []TypeOK
<1> DEFINE Posted == posted \in 0..MaxBatches
<1>1. Init => Posted
  BY StartAssumption DEF Init
<1>2. Posted /\ [Next]_vars => Posted'
  <2> SUFFICES ASSUME Posted, [Next]_vars PROVE Posted'
    OBVIOUS
  <2>1. posted' = posted \/ (posted < MaxBatches /\ posted' = posted + 1)
    <3>1. CASE \E items \in Batches : Post(items)
      BY <3>1 DEF Post
    <3>2. CASE RefuseCode \/ ReadCache \/ FallBack \/ Abort \/ Tick
      BY <3>2 DEF RefuseCode, ReadCache, FallBack, Abort, Tick
    <3>3. CASE \E board \in Boards :
                Fetch(board) \/ \E stop \in Stop : FetchElsewhere(stop, board)
      BY <3>3 DEF Fetch, FetchElsewhere
    <3>4. CASE UNCHANGED vars
      BY <3>4 DEF vars
    <3> QED  BY <3>1, <3>2, <3>3, <3>4 DEF Next
  <2> QED  BY <2>1, StartAssumption
<1>3. BatchInv /\ Posted => TypeOK
  <2> SUFFICES ASSUME BatchInv, Posted PROVE TypeOK
    OBVIOUS
  <2>1. ASSUME NEW c \in Stop
        PROVE  /\ cache[c] # NoPayload => cache[c].made \in (now - Ttl + 1)..now
               /\ lastGood[c] # NoPayload => lastGood[c].made \in (now - LastGoodTtl + 1)..now
               /\ cache[c] # NoPayload => lastGood[c] = cache[c]
    BY TimesOfLife DEF BatchInv, RedisInv, EntriesOK, PayloadOK
  <2>2. /\ batch.at \in {"idle", "next", "asked", "done"} /\ batch.stops \in Seq(Stop)
        /\ batch.stops = <<>> <=> batch.at \in {"idle", "done"}
    BY DEF BatchInv, BatchTyped, Batch
  <2>3. ASSUME NEW i \in DOMAIN batch.results
        PROVE  LET result == batch.results[i]
               IN  /\ result.status \in {"OK", "NOT_FOUND", "ERROR"}
                   /\ (result.status = "OK") <=> (result.arrivals # <<>>)
                   /\ \A j \in DOMAIN result.arrivals : result.arrivals[j].status \in Statuses
    <3>1. batch.results \in Seq(Answer) /\ OKWithArrivals(batch.results)
      BY DEF BatchInv, BatchTyped, Batch
    <3>2. batch.results[i] \in Answer
      BY <3>1
    <3>3. batch.results[i].arrivals \in Seq(Arrival)
      BY <3>2 DEF Answer
    <3>4. ASSUME NEW j \in DOMAIN batch.results[i].arrivals
          PROVE  batch.results[i].arrivals[j].status \in Statuses
      <4>1. batch.results[i].arrivals[j] \in Arrival
        BY <3>3
      <4> QED  BY <4>1 DEF Arrival
    <3> QED  BY <3>1, <3>2, <3>4 DEF Answer, OKWithArrivals
  <2> QED  BY <2>1, <2>2, <2>3 DEF TypeOK
<1> QED  BY <1>1, <1>2, <1>3, BatchAlways, PTL DEF Spec

\* Every item of a batch is answered as often as it was asked for, whichever of
\* its stops fail.
THEOREM ItemsAreAnswered == Spec => []EveryItemAnswered
<1>1. BatchInv => EveryItemAnswered
  <2> SUFFICES ASSUME BatchInv, At("done"), NEW stop \in Stop, NEW s \in Service
               PROVE  TimesAnswered(stop, s) = TimesAsked(stop, s)
    BY DEF EveryItemAnswered
  <2>1. DOMAIN batch.stops = {}
    BY DEF BatchInv, BatchTyped, At
  <2> QED  BY <2>1 DEF BatchInv, AskedInv
<1> QED  BY <1>1, BatchAlways, PTL

\* The minutes of an unmarked answer are at most a minute short, and too many by
\* no more than the payload may have been cached and the batch have taken.
THEOREM MinutesAreRight == Spec => []MinutesAreNear
<1>1. BatchInv => MinutesAreNear
  <2> SUFFICES ASSUME BatchInv, SaidNow, NEW i \in DOMAIN batch.results,
                      NEW j \in DOMAIN batch.results[i].arrivals,
                      batch.results[i].arrivals[j].status \in {"ARRIVING", "ESTIMATED"}
               PROVE  LET a == batch.results[i].arrivals[j]
                          left == IF a.eta <= now THEN 0 ELSE a.eta - now
                      IN  /\ left < (a.minutes + 1) * MinuteTicks
                          /\ a.minutes * MinuteTicks <= left + (now - Since)
    BY DEF MinutesAreNear, SaidArrivals
  <2> DEFINE a == batch.results[i].arrivals[j]
  <2>1. now \in Nat /\ Since \in Int
    BY TimesOfLife DEF BatchInv, RedisInv, BatchTyped, Batch, Since
  <2>2. a.eta \in Int
    <3>1. batch.results \in Seq(Answer)
      BY DEF BatchInv, BatchTyped, Batch
    <3>2. batch.results[i] \in Answer
      BY <3>1
    <3>3. batch.results[i].arrivals \in Seq(Arrival)
      BY <3>2 DEF Answer
    <3>4. a \in Arrival
      BY <3>3
    <3> QED  BY <3>4 DEF Arrival
  <2>3. PICK t \in Since..now : a.minutes = Minutes(a.eta, t)
    BY DEF BatchInv, SaidInv, SaidNow, SaidSince, Said
  <2> HIDE DEF a
  <2>4. MinuteTicks \in Nat /\ MinuteTicks > 0 /\ t \in Int /\ Since <= t /\ t <= now
    BY <2>1, ClockAssumption
  <2>5. CASE a.eta <= t
    <3>1. a.minutes = 0 /\ a.eta <= now
      BY <2>1, <2>2, <2>3, <2>4, <2>5 DEF Minutes
    <3> QED  BY <2>1, <2>4, <3>1 DEF a
  <2>6. CASE ~(a.eta <= t)
    <3> DEFINE n == a.eta - t  m == a.minutes
    <3>1. n \in Nat /\ m = n \div MinuteTicks
      BY <2>2, <2>3, <2>4, <2>6 DEF Minutes
    <3>2. m \in Nat /\ m * MinuteTicks <= n /\ n < (m + 1) * MinuteTicks
      BY <3>1, WholeMinutes
    <3>3. m * MinuteTicks \in Nat /\ (m + 1) * MinuteTicks \in Nat /\ (m + 1) * MinuteTicks > 0
      BY <2>4, <3>1, <3>2
    <3> DEFINE low == m * MinuteTicks  high == (m + 1) * MinuteTicks
    <3> HIDE DEF low, high
    <3>4. /\ low \in Nat /\ high \in Nat /\ high > 0
          /\ low <= a.eta - t /\ a.eta - t < high
      BY <3>2, <3>3 DEF low, high
    <3>5. LET left == IF a.eta <= now THEN 0 ELSE a.eta - now
          IN  left < high /\ low <= left + (now - Since)
      BY <2>1, <2>2, <2>4, <3>4
    <3> QED  BY <3>5 DEF a, low, high
  <2> QED  BY <2>5, <2>6
<1> QED  BY <1>1, BatchAlways, PTL

\* A service without a bus is said to be running, or not, as it was at a moment
\* since the payload may have been made, also past midnight.
THEOREM NightBusesAreRight == Spec => []NightBusesRun
<1>1. BatchInv => NightBusesRun
  <2> SUFFICES ASSUME BatchInv, SaidNow, NEW i \in DOMAIN batch.results,
                      NEW j \in DOMAIN batch.results[i].arrivals,
                      batch.results[i].arrivals[j].status \in {"NO_ESTIMATE", "NOT_IN_OPERATION"},
                      ShortWindows(routes[<<batch.results[i].stop, batch.results[i].service>>]),
                      \A t \in Since..now :
                        SameWindows(routes[<<batch.results[i].stop, batch.results[i].service>>], t)
               PROVE  OperatingIsTrue(routes[<<batch.results[i].stop, batch.results[i].service>>],
                                      batch.results[i].arrivals[j].status)
    BY DEF NightBusesRun, SaidArrivals
  <2> DEFINE a == batch.results[i].arrivals[j]
             rows == routes[<<batch.results[i].stop, batch.results[i].service>>]
  <2>1. now \in Nat /\ Since \in Int
    BY TimesOfLife DEF BatchInv, RedisInv, BatchTyped, Batch, Since
  <2>2. rows \in SUBSET Row
    <3>1. batch.results \in Seq(Answer) /\ routes \in Tables
      BY DEF BatchInv, RedisInv, BatchTyped, Batch
    <3>2. batch.results[i] \in Answer
      BY <3>1
    <3>3. <<batch.results[i].stop, batch.results[i].service>> \in Stop \X Service
      BY <3>2 DEF Answer
    <3>4. routes \in [Stop \X Service -> SUBSET Row]
      BY <3>1, TableAssumption DEF Row, Times
    <3> QED  BY <3>3, <3>4
  <2>3. PICK t \in Since..now : a.status = "NO_ESTIMATE" <=> Operating(rows, t)
    BY DEF BatchInv, SaidInv, SaidNow, SaidSince, Said
  <2>4. ShortWindows(rows) /\ SameWindows(rows, t)
    OBVIOUS
  <2> HIDE DEF rows, a
  <2>5. t \in Int
    BY <2>1
  <2>6. Operating(rows, t) <=> Runs(rows, t)
    BY <2>2, <2>4, <2>5, OperatingIsRunning
  <2>7. OperatingIsTrue(rows, a.status)
    BY <2>3, <2>6 DEF OperatingIsTrue
  <2> QED  BY <2>7 DEF rows, a
<1> QED  BY <1>1, BatchAlways, PTL
=============================================================================
