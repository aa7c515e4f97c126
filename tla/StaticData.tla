------------------------------ MODULE StaticData ------------------------------
(***************************************************************************)
(* The copy of LTA's static dataset (bus stops, routes and services) that  *)
(* the backend keeps in three tables: the sync task that replaces it, the  *)
(* version row it writes last, and the package that clients download when  *)
(* the version differs from the one they have.                             *)
(*                                                                         *)
(* A dataset is a record of three functions from the unique keys of the    *)
(* rows to their values.  The checksum of a dataset stands for the dataset *)
(* itself: SHA-256 tells any two apart.  A version is the time it was      *)
(* written; only the order of versions is kept.                            *)
(***************************************************************************)
EXTENDS Integers, FiniteSets, Functions

CONSTANTS
    Edition,      \* the editions LTA may publish, numbered
    Data,         \* Data[e]: the dataset of edition e
    StopOf,       \* StopOf[r]: the stop that a route row of key r refers to
    Syncer,       \* runs of the sync task that may overlap (cron, a release)
    Client,       \* apps
    Batch,        \* rows inserted per commit: 500 in the code
    Reverts,      \* TRUE: LTA may publish an earlier edition again
    MaxFailures,  \* bound on the syncs that are interrupted
    MaxVersions,  \* bound: LTA publishes no more once so many were written
    NoState       \* the version row does not exist

ASSUME EditionAssumption == Edition \subseteq Nat /\ Edition # {}
ASSUME DataAssumption ==
    \A e \in Edition : Data[e] = [stops |-> Restrict(Data[e].stops, DOMAIN Data[e].stops),
                                  routes |-> Restrict(Data[e].routes, DOMAIN Data[e].routes),
                                  services |-> Restrict(Data[e].services, DOMAIN Data[e].services)]
ASSUME BatchAssumption == Batch \in Nat \ {0}
ASSUME BoundAssumption == MaxFailures \in Nat /\ MaxVersions \in Nat
ASSUME RevertsAssumption == Reverts \in BOOLEAN

VARIABLES
    feed,         \* the edition LTA serves
    tables,       \* bus_stops, bus_routes and bus_services
    state,        \* the row of static_data_state: a version and a checksum
    clock,        \* the last time stamp taken
    sync,         \* sync[p]: where a sync is, what it downloaded and saw
    client,       \* client[c]: the package an app holds, and the one it reads
    failures,     \* syncs interrupted so far
    broken        \* history: a sync began to replace rows and did not end, and
                  \* none has replaced them since

vars == <<feed, tables, state, clock, sync, client, failures, broken>>

NoRows == [k \in {} |-> 0]
Empty == [stops |-> NoRows, routes |-> NoRows, services |-> NoRows]

\* The table `rows` once the rows `new` are written to it.
Written(rows, new) ==
    [k \in DOMAIN rows \cup DOMAIN new |-> IF k \in DOMAIN new THEN new[k] ELSE rows[k]]

Waiting == [at |-> "idle", got |-> Empty, seen |-> NoState, found |-> NoRows,
            left |-> {}, version |-> 0]
NewApp == [at |-> "idle", version |-> 0, data |-> Empty,
           newVersion |-> 0, newData |-> Empty]

At(p, label) == sync[p].at = label

\* It has committed rows, and not yet their version.
Replacing(p) == sync[p].at \in {"delete_routes", "insert_routes", "delete_services",
                                "insert_services", "stamp", "write_state"}

\* A sync that raises, or finds nothing to do, ends; what it committed stays.
Stop(p) == sync' = [sync EXCEPT ![p] = Waiting]

-----------------------------------------------------------------------------
(* LTA. *)

Publish ==
    /\ clock < MaxVersions
    /\ \E e \in Edition \ {feed} : (Reverts \/ e > feed) /\ feed' = e
    /\ UNCHANGED <<tables, state, clock, sync, client, failures, broken>>

-----------------------------------------------------------------------------
(* sync_all: download, compare, replace, then write the version. *)

Start(p) ==
    /\ At(p, "idle")
    /\ sync' = [sync EXCEPT ![p] = [Waiting EXCEPT !.at = "fetch_stops"]]
    /\ UNCHANGED <<feed, tables, state, clock, client, failures, broken>>

\* _consume_pages for one table.
Fetch(p, here, table, next) ==
    /\ At(p, here)
    /\ sync' = [sync EXCEPT ![p].got[table] = Data[feed][table], ![p].at = next]
    /\ UNCHANGED <<feed, tables, state, clock, client, failures, broken>>

Download(p) ==
    \/ Fetch(p, "fetch_stops", "stops", "fetch_routes")
    \/ Fetch(p, "fetch_routes", "routes", "fetch_services")
    \/ Fetch(p, "fetch_services", "services", "check")

Unchanged(p) == state # NoState /\ state.checksum = sync[p].got

Check(p) ==
    /\ At(p, "check")
    /\ IF Unchanged(p) THEN Stop(p)
       ELSE sync' = [sync EXCEPT ![p].seen = state, ![p].at = "find_stops"]
    /\ UNCHANGED <<feed, tables, state, clock, client, failures, broken>>

\* Each stop is looked up; those found are changed in the session.
FindStops(p) ==
    /\ At(p, "find_stops")
    /\ sync' = [sync EXCEPT ![p].found = tables.stops, ![p].at = "upsert_stops"]
    /\ UNCHANGED <<feed, tables, state, clock, client, failures, broken>>

\* The rows that differ from what was found are written in one transaction,
\* refused if another sync has inserted one meanwhile.  Stops that LTA no
\* longer lists are kept.
UpsertStops(p) ==
    LET got == sync[p].got.stops
        found == sync[p].found
        new == DOMAIN got \ DOMAIN found
        changed == {s \in DOMAIN got \cap DOMAIN found : got[s] # found[s]}
    IN  /\ At(p, "upsert_stops")
        /\ IF new \cap DOMAIN tables.stops # {} THEN Stop(p) /\ UNCHANGED tables
           ELSE /\ tables' = [tables EXCEPT !.stops = Written(@, Restrict(got, new \cup changed))]
                /\ sync' = [sync EXCEPT ![p].found = NoRows, ![p].at = "delete_routes"]
        /\ UNCHANGED <<feed, state, clock, client, failures, broken>>

DeleteRows(p, here, table, next) ==
    /\ At(p, here)
    /\ tables' = [tables EXCEPT ![table] = NoRows]
    /\ sync' = [sync EXCEPT ![p].left = DOMAIN sync[p].got[table], ![p].at = next]
    /\ UNCHANGED <<feed, state, clock, client, failures, broken>>

\* A batch is refused if one of its rows is there already (the other sync's),
\* or is a route of a stop that is not there.
Refused(rows, table) ==
    \/ rows \cap DOMAIN tables[table] # {}
    \/ table = "routes" /\ \E r \in rows : StopOf[r] \notin DOMAIN tables.stops

\* Mutant: the rows after the first batch are dropped.
InsertFirstBatch(p, here, table, next) ==
    /\ At(p, here)
    /\ \E rows \in SUBSET sync[p].left :
        /\ Cardinality(rows) <= Batch
        /\ Cardinality(rows) = Batch \/ rows = sync[p].left
        /\ ~Refused(rows, table)
        /\ tables' = [tables EXCEPT ![table] = Written(@, Restrict(sync[p].got[table], rows))]
        /\ sync' = [sync EXCEPT ![p].left = {}, ![p].at = next]
    /\ UNCHANGED <<feed, state, clock, client, failures, broken>>

\* One batch and its commit; the last, maybe empty, one leads on.
InsertBatch(p, here, table, next) ==
    /\ At(p, here)
    /\ \E rows \in SUBSET sync[p].left :
        /\ Cardinality(rows) <= Batch
        /\ Cardinality(rows) = Batch \/ rows = sync[p].left
        /\ IF Refused(rows, table) THEN Stop(p) /\ UNCHANGED tables
           ELSE /\ tables' = [tables EXCEPT ![table] =
                                Written(@, Restrict(sync[p].got[table], rows))]
                /\ sync' = [sync EXCEPT ![p].left = @ \ rows,
                                        ![p].at = IF rows = sync[p].left THEN next ELSE @]
        /\ broken' = (broken \/ Refused(rows, table))
    /\ UNCHANGED <<feed, state, clock, client, failures>>

Replace(p) ==
    \/ FindStops(p) \/ UpsertStops(p)
    \/ DeleteRows(p, "delete_routes", "routes", "insert_routes")
    \/ InsertBatch(p, "insert_routes", "routes", "delete_services")
    \/ DeleteRows(p, "delete_services", "services", "insert_services")
    \/ InsertBatch(p, "insert_services", "services", "stamp")

Stamp(p) ==
    /\ At(p, "stamp")
    /\ clock' = clock + 1
    /\ sync' = [sync EXCEPT ![p].version = clock + 1, ![p].at = "write_state"]
    /\ UNCHANGED <<feed, tables, state, client, failures, broken>>

\* Mutant: the version of an existing row is kept.
WriteChecksum(p) ==
    /\ At(p, "write_state")
    /\ state' = [checksum |-> sync[p].got,
                 version |-> IF state = NoState THEN sync[p].version ELSE state.version]
    /\ broken' = FALSE
    /\ Stop(p)
    /\ UNCHANGED <<feed, tables, clock, client, failures>>

\* A row that was not there when the sync looked is inserted, and refused if
\* another sync has inserted it since.
WriteState(p) ==
    /\ At(p, "write_state")
    /\ state' = IF sync[p].seen = NoState /\ state # NoState THEN state
                ELSE [version |-> sync[p].version, checksum |-> sync[p].got]
    /\ broken' = FALSE
    /\ Stop(p)
    /\ UNCHANGED <<feed, tables, clock, client, failures>>

\* The process is killed, or a download or a statement raises.
Interrupt(p) ==
    /\ ~At(p, "idle")
    /\ failures < MaxFailures
    /\ failures' = failures + 1
    /\ broken' = (broken \/ Replacing(p))
    /\ Stop(p)
    /\ UNCHANGED <<feed, tables, state, clock, client>>

SyncStep(p) ==
    Start(p) \/ Download(p) \/ Check(p) \/ Replace(p) \/ Stamp(p) \/ WriteState(p)

-----------------------------------------------------------------------------
(* GET /v1/static-data/version and /package.  Without a version row both    *)
(* answer with a version made up from the rows; apps are modelled from the  *)
(* first sync on, as deploy_full.sh starts the API after it.                *)

\* An app whose version differs asks for the package, whose version is read first.
OpenPackage(c) ==
    /\ client[c].at = "idle"
    /\ state # NoState
    /\ client[c].version # state.version
    /\ client' = [client EXCEPT ![c].newVersion = state.version, ![c].at = "stops"]
    /\ UNCHANGED <<feed, tables, state, clock, sync, failures, broken>>

ReadTable(c, table, next) ==
    /\ client[c].at = table
    /\ client' = [client EXCEPT ![c].newData[table] = tables[table], ![c].at = next]
    /\ UNCHANGED <<feed, tables, state, clock, sync, failures, broken>>

\* Mutant: the version is read after the rows.
InstallLatest(c) ==
    /\ client[c].at = "install"
    /\ client' = [client EXCEPT ![c] = [NewApp EXCEPT !.version = state.version,
                                                      !.data = client[c].newData]]
    /\ UNCHANGED <<feed, tables, state, clock, sync, failures, broken>>

Install(c) ==
    /\ client[c].at = "install"
    /\ client' = [client EXCEPT ![c] = [NewApp EXCEPT !.version = client[c].newVersion,
                                                      !.data = client[c].newData]]
    /\ UNCHANGED <<feed, tables, state, clock, sync, failures, broken>>

ClientStep(c) ==
    \/ OpenPackage(c)
    \/ ReadTable(c, "stops", "routes")
    \/ ReadTable(c, "routes", "services")
    \/ ReadTable(c, "services", "install")
    \/ Install(c)

-----------------------------------------------------------------------------
Init ==
    /\ feed \in Edition
    /\ tables = Empty
    /\ state = NoState
    /\ clock = 0
    /\ sync = [p \in Syncer |-> Waiting]
    /\ client = [c \in Client |-> NewApp]
    /\ failures = 0
    /\ broken = FALSE

Next ==
    \/ Publish
    \/ \E p \in Syncer : SyncStep(p) \/ Interrupt(p)
    \/ \E c \in Client : ClientStep(c)

\* cron starts the sync every week, and an app checks the version whenever it
\* is opened; neither LTA nor a failure is bound to anything.
Fairness ==
    /\ \A p \in Syncer : WF_vars(SyncStep(p))
    /\ \A c \in Client : WF_vars(ClientStep(c))

Spec == Init /\ [][Next]_vars /\ Fairness

-----------------------------------------------------------------------------
(* Properties. *)

\* A sync that does not run holds nothing, and no app holds a version that was
\* never written.
TypeOK ==
    /\ feed \in Edition
    /\ DOMAIN tables = DOMAIN Empty
    /\ state = NoState \/ state.version \in 1..clock
    /\ \A p \in Syncer : At(p, "idle") => sync[p] = Waiting
    /\ \A c \in Client : {client[c].version, client[c].newVersion} \subseteq 0..clock

\* The tables hold dataset d, and maybe stops of earlier ones.
TablesHold(d) ==
    /\ tables.routes = d.routes
    /\ tables.services = d.services
    /\ \A s \in DOMAIN d.stops : s \in DOMAIN tables.stops /\ tables.stops[s] = d.stops[s]

Resting == \A p \in Syncer : sync[p].at \in {"idle", "fetch_stops", "fetch_routes",
                                             "fetch_services", "check"}

\* While no sync is replacing rows, they are those the version was written for.
\* (An interrupted sync refutes it.)
VersionNamesRows == Resting /\ state # NoState => TablesHold(state.checksum)

\* That is all that refutes it: the version names the rows again as soon as a
\* sync has ended, whichever edition LTA published while it downloaded.
CompleteSyncsAgree == ~broken => VersionNamesRows

\* While no sync is replacing rows, an app that has the current version has the
\* current rows, although the sync commits them before the version and the
\* package is read by several statements.
CurrentAppsAgree ==
    Resting /\ state # NoState /\ ~broken =>
        \A c \in Client : client[c].version = state.version => client[c].data = tables

\* Rows are half replaced and LTA is back at the edition of the version: every
\* sync finds nothing to do.
Stuck(e) == broken /\ state # NoState /\ state.checksum = Data[e]

\* Once LTA's feed no longer changes the tables hold it, or the syncs are stuck.
TablesCatchUp ==
    \A e \in Edition : <>[](feed = e) => <>[](Stuck(e) \/ TablesHold(Data[e]))

\* Once the feed no longer changes, every app ends up with the rows of the
\* tables, or the syncs are stuck.
AppsCatchUp ==
    \A c \in Client, e \in Edition :
        <>[](feed = e) => <>[](Stuck(e) \/ client[c].data = tables)
=============================================================================
