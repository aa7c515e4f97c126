--------------------------- MODULE StaticDataProofs ---------------------------
(***************************************************************************)
(* Theorems about StaticData when one sync runs at a time: whatever LTA    *)
(* publishes while it is downloaded, and wherever a sync is interrupted,   *)
(* the version names the rows and the apps that have it hold them, unless  *)
(* rows are being replaced or were left half replaced.                     *)
(*                                                                         *)
(* The argument: a sync that has replaced a table has left in it what it   *)
(* downloaded, and the version it ends with is later than that of every    *)
(* app that has read a row meanwhile.                                      *)
(***************************************************************************)
EXTENDS StaticData, TLAPS

\* Two syncs that overlap mix their rows: MCTwoSyncs.cfg shows it.
OneSyncer == \A p, q \in Syncer : p = q

TableName == {"stops", "routes", "services"}
SyncFields == {"at", "got", "seen", "found", "left", "version"}
AppFields == {"at", "version", "data", "newVersion", "newData"}

WholeIn(record, fields) == DOMAIN record = fields /\ record = [f \in fields |-> record[f]]
IsRows(rows) == rows = [k \in DOMAIN rows |-> rows[k]]
IsDataset(d) == WholeIn(d, TableName) /\ \A t \in TableName : IsRows(d[t])

\* The rows are those of got, but for what is left to insert.
PartOf(rows, got, left) ==
    /\ IsRows(rows) /\ left \subseteq DOMAIN got /\ DOMAIN rows = DOMAIN got \ left
    /\ \A k \in DOMAIN rows : rows[k] = got[k]

StopsHold(stops, got) == \A s \in DOMAIN got : s \in DOMAIN stops /\ stops[s] = got[s]

Writing == {"delete_routes", "insert_routes", "delete_services", "insert_services",
            "stamp", "write_state"}
RoutesIn == {"delete_services", "insert_services", "stamp", "write_state"}
ServicesIn == {"stamp", "write_state"}

\* How far a sync has come, and what is then in the tables.
Progress(q, tabs, st, now) ==
    /\ WholeIn(q, SyncFields) /\ IsDataset(q.got)
    /\ q.at = "upsert_stops" => q.found = tabs.stops
    /\ q.at \in Writing \cup {"find_stops", "upsert_stops"} => q.seen = st
    /\ q.at \in Writing => StopsHold(tabs.stops, q.got.stops)
    /\ q.at = "insert_routes" => PartOf(tabs.routes, q.got.routes, q.left)
    /\ q.at \in RoutesIn => tabs.routes = q.got.routes
    /\ q.at = "insert_services" => PartOf(tabs.services, q.got.services, q.left)
    /\ q.at \in ServicesIn => tabs.services = q.got.services
    /\ q.at = "write_state" => q.version = now /\ 0 < now /\ (st # NoState => st.version < now)

\* The last version that an app can have.
Last == IF \E p \in Syncer : At(p, "write_state") THEN clock - 1 ELSE clock

\* What an app has, and has read, of the version that is in force.
AppFits(m, tabs, st, last, dirty) ==
    /\ WholeIn(m, AppFields) /\ IsDataset(m.newData)
    /\ m.version \in 0..last /\ m.newVersion \in 0..last
    /\ st # NoState /\ ~dirty /\ m.version = st.version => m.data = tabs
    /\ st # NoState /\ ~dirty /\ m.newVersion = st.version =>
        /\ m.at \in {"routes", "services", "install"} => m.newData.stops = tabs.stops
        /\ m.at \in {"services", "install"} => m.newData.routes = tabs.routes
        /\ m.at = "install" => m.newData.services = tabs.services

\* Rows are being replaced, or were left half replaced.
Dirty == broken \/ \E p \in Syncer : Replacing(p)

Basics ==
    /\ feed \in Edition /\ clock \in Nat /\ broken \in BOOLEAN /\ IsDataset(tables)
    /\ state # NoState => state.version \in 1..clock

SyncsFit ==
    /\ sync = [p \in Syncer |-> sync[p]]
    /\ \A p \in Syncer : Progress(sync[p], tables, state, clock)

RowsFit == state # NoState /\ ~Dirty => TablesHold(state.checksum)

AppsFit ==
    /\ client = [c \in Client |-> client[c]]
    /\ \A c \in Client : AppFits(client[c], tables, state, Last, Dirty)

StaticInv == Basics /\ SyncsFit /\ RowsFit /\ AppsFit

-----------------------------------------------------------------------------
LEMMA EmptyIsDataset == IsDataset(Empty)
BY DEF IsDataset, WholeIn, IsRows, Empty, NoRows, TableName

LEMMA EditionsAreDatasets == \A e \in Edition : IsDataset(Data[e])
<1> SUFFICES ASSUME NEW e \in Edition PROVE IsDataset(Data[e])
  OBVIOUS
<1>1. Data[e] = [stops |-> Restrict(Data[e].stops, DOMAIN Data[e].stops),
                 routes |-> Restrict(Data[e].routes, DOMAIN Data[e].routes),
                 services |-> Restrict(Data[e].services, DOMAIN Data[e].services)]
  BY DataAssumption
<1>2. WholeIn(Data[e], TableName)
  BY <1>1 DEF WholeIn, TableName
<1>3. \A t \in TableName : IsRows(Data[e][t])
  <2>1. \A rows : IsRows(Restrict(rows, DOMAIN rows))
    BY DEF IsRows, Restrict
  <2> QED  BY <1>1, <2>1 DEF TableName
<1> QED  BY <1>2, <1>3 DEF IsDataset

\* Every row of got, and nothing else, is got.
LEMMA AllOfIt ==
    ASSUME NEW rows, NEW got, IsRows(got), PartOf(rows, got, {})
    PROVE  rows = got
BY DEF IsRows, PartOf

\* A batch of what is left.
LEMMA BatchOfIt ==
    ASSUME NEW rows, NEW got, NEW left, NEW batch \in SUBSET left, PartOf(rows, got, left)
    PROVE  PartOf(Written(rows, Restrict(got, batch)), got, left \ batch)
BY DEF PartOf, IsRows, Written, Restrict

LEMMA WaitingProgress == \A tabs, st, now : Progress(Waiting, tabs, st, now)
<1>1. WholeIn(Waiting, SyncFields) /\ Waiting.at = "idle" /\ Waiting.got = Empty
  BY DEF Waiting, WholeIn, SyncFields
<1> QED  BY <1>1, EmptyIsDataset DEF Progress, Writing, RoutesIn, ServicesIn

LEMMA InitStatic == Init => StaticInv
<1> SUFFICES ASSUME Init PROVE StaticInv
  OBVIOUS
<1>1. Basics
  BY EmptyIsDataset DEF Init, Basics
<1>2. SyncsFit
  BY WaitingProgress DEF Init, SyncsFit
<1>3. RowsFit
  BY DEF Init, RowsFit
<1>4. AppsFit
  <2>1. WholeIn(NewApp, AppFields) /\ NewApp.version = 0 /\ NewApp.newVersion = 0 /\ NewApp.newData = Empty
    BY DEF NewApp, WholeIn, AppFields
  <2> QED  BY <2>1, EmptyIsDataset DEF Init, AppsFit, AppFits, Last, At, Waiting
<1> QED  BY <1>1, <1>2, <1>3, <1>4 DEF StaticInv

\* A step of the sync that does not write the version.
LEMMA SyncMoves ==
    ASSUME StaticInv, OneSyncer, NEW p \in Syncer,
           sync' = [sync EXCEPT ![p] = sync'[p]],
           Progress(sync'[p], tables', state, clock'),
           UNCHANGED <<feed, state, client>>, clock' \in {clock, clock + 1},
           broken' \in BOOLEAN, IsDataset(tables'),
           broken \/ Replacing(p) => broken' \/ Replacing(p)',
           tables' = tables \/ broken' \/ Replacing(p)',
           sync'[p].at = "write_state" => clock' = clock + 1
    PROVE  StaticInv'
<1>1. Dirty => Dirty'
  BY DEF Dirty, OneSyncer
<1>2. tables' = tables \/ Dirty'
  BY DEF Dirty
<1>3. Basics'
  BY DEF StaticInv, Basics
<1>4. SyncsFit'
  BY DEF StaticInv, SyncsFit, OneSyncer
<1>5. RowsFit'
  BY <1>1, <1>2 DEF StaticInv, RowsFit, TablesHold
<1>6. AppsFit'
  <2>1. \A c \in Client : AppFits(client[c], tables', state, Last', Dirty')
    <3>1. Last \in Int /\ Last' \in Int /\ Last <= Last'
      BY DEF Last, At, StaticInv, Basics, SyncsFit, OneSyncer
    <3>2. \A v \in 0..Last : v \in 0..Last'
      BY <3>1
    <3> QED  BY <1>1, <1>2, <3>2 DEF StaticInv, AppsFit, AppFits
  <2> QED  BY <2>1 DEF StaticInv, AppsFit
<1> QED  BY <1>3, <1>4, <1>5, <1>6 DEF StaticInv

\* A sync that ends without writing the version.
LEMMA SyncStops ==
    ASSUME StaticInv, OneSyncer, NEW p \in Syncer, Stop(p),
           UNCHANGED <<feed, tables, state, clock, client>>, broken' \in BOOLEAN,
           broken \/ Replacing(p) => broken'
    PROVE  StaticInv'
<1>1. sync'[p] = Waiting /\ sync' = [sync EXCEPT ![p] = sync'[p]]
  BY DEF Stop, StaticInv, SyncsFit
<1>2. Progress(sync'[p], tables', state, clock')
  BY <1>1, WaitingProgress
<1>3. sync'[p].at = "idle"
  BY <1>1 DEF Waiting
<1> QED  BY <1>1, <1>2, <1>3, SyncMoves DEF StaticInv, Basics

-----------------------------------------------------------------------------
\* What is downloaded is a dataset, maybe of several editions.
LEMMA FetchKeeps ==
    ASSUME StaticInv, OneSyncer, NEW p \in Syncer, NEW here, NEW table \in TableName,
           NEW next \in {"fetch_routes", "fetch_services", "check"},
           here \in {"fetch_stops", "fetch_routes", "fetch_services"},
           Fetch(p, here, table, next)
    PROVE  StaticInv'
<1>1. Progress(sync[p], tables, state, clock) /\ IsDataset(Data[feed]) /\ sync = [q \in Syncer |-> sync[q]]
  BY EditionsAreDatasets DEF StaticInv, Basics, SyncsFit
<1>2. /\ sync[p].at = here /\ UNCHANGED <<feed, tables, state, clock, client, broken>>
      /\ sync' = [sync EXCEPT ![p].got[table] = Data[feed][table], ![p].at = next]
  BY DEF Fetch, At
<1> DEFINE got == [sync[p].got EXCEPT ![table] = Data[feed][table]]
           q == [sync[p] EXCEPT !.got = got, !.at = next]
<1>3. IsDataset(got)
  BY <1>1 DEF Progress, IsDataset, WholeIn, TableName
<1>4. sync' = [sync EXCEPT ![p] = q]
  BY <1>1, <1>2 DEF Progress, WholeIn, SyncFields
<1> HIDE DEF got
<1>5. WholeIn(q, SyncFields) /\ q.got = got /\ q.at = next
  BY <1>1 DEF Progress, WholeIn, SyncFields
<1> HIDE DEF q
<1>6. sync'[p] = q /\ sync' = [sync EXCEPT ![p] = sync'[p]]
  BY <1>1, <1>4
<1>7. Progress(q, tables', state, clock')
  BY <1>3, <1>5 DEF Progress, Writing, RoutesIn, ServicesIn
<1>8. ~Replacing(p)
  BY <1>2 DEF Replacing
<1> QED  BY <1>2, <1>5, <1>6, <1>7, <1>8, SyncMoves DEF StaticInv, Basics

LEMMA CheckKeeps == ASSUME StaticInv, OneSyncer, NEW p \in Syncer, Check(p) PROVE StaticInv'
<1>1. Progress(sync[p], tables, state, clock) /\ sync = [q \in Syncer |-> sync[q]]
  BY DEF StaticInv, SyncsFit
<1>2. sync[p].at = "check" /\ UNCHANGED <<feed, tables, state, clock, client, broken>> /\ ~Replacing(p)
  BY DEF Check, At, Replacing
<1>3. CASE Stop(p)
  BY <1>2, <1>3, SyncStops DEF StaticInv, Basics
<1>4. CASE sync' = [sync EXCEPT ![p].seen = state, ![p].at = "find_stops"]
  <2> DEFINE q == [sync[p] EXCEPT !.seen = state, !.at = "find_stops"]
  <2>1. sync' = [sync EXCEPT ![p] = q]
    BY <1>1, <1>4 DEF Progress, WholeIn, SyncFields
  <2>2. WholeIn(q, SyncFields) /\ q.got = sync[p].got /\ q.seen = state /\ q.at = "find_stops"
    BY <1>1 DEF Progress, WholeIn, SyncFields
  <2> HIDE DEF q
  <2>3. sync'[p] = q /\ sync' = [sync EXCEPT ![p] = sync'[p]]
    BY <1>1, <2>1
  <2>4. Progress(q, tables', state, clock')
    BY <1>1, <2>2 DEF Progress, Writing, RoutesIn, ServicesIn
  <2> QED  BY <1>2, <2>2, <2>3, <2>4, SyncMoves DEF StaticInv, Basics
<1> QED  BY <1>3, <1>4 DEF Check

LEMMA FindKeeps == ASSUME StaticInv, OneSyncer, NEW p \in Syncer, FindStops(p) PROVE StaticInv'
<1>1. Progress(sync[p], tables, state, clock) /\ sync = [q \in Syncer |-> sync[q]]
  BY DEF StaticInv, SyncsFit
<1>2. /\ sync[p].at = "find_stops" /\ UNCHANGED <<feed, tables, state, clock, client, broken>> /\ ~Replacing(p)
      /\ sync' = [sync EXCEPT ![p].found = tables.stops, ![p].at = "upsert_stops"]
  BY DEF FindStops, At, Replacing
<1> DEFINE q == [sync[p] EXCEPT !.found = tables.stops, !.at = "upsert_stops"]
<1>3. sync' = [sync EXCEPT ![p] = q]
  BY <1>1, <1>2 DEF Progress, WholeIn, SyncFields
<1>4. /\ WholeIn(q, SyncFields) /\ q.got = sync[p].got /\ q.seen = sync[p].seen
      /\ q.at = "upsert_stops" /\ q.found = tables.stops
  BY <1>1 DEF Progress, WholeIn, SyncFields
<1> HIDE DEF q
<1>5. sync'[p] = q /\ sync' = [sync EXCEPT ![p] = sync'[p]]
  BY <1>1, <1>3
<1>6. Progress(q, tables', state, clock')
  BY <1>1, <1>2, <1>4 DEF Progress, Writing, RoutesIn, ServicesIn
<1> QED  BY <1>2, <1>4, <1>5, <1>6, SyncMoves DEF StaticInv, Basics

\* Found is what is in the table, so what differs from it is all there is to write.
LEMMA UpsertKeeps == ASSUME StaticInv, OneSyncer, NEW p \in Syncer, UpsertStops(p) PROVE StaticInv'
<1> DEFINE got == sync[p].got.stops
           found == sync[p].found
           changed == {s \in DOMAIN got \cap DOMAIN found : got[s] # found[s]}
           rows == Written(tables.stops, Restrict(got, (DOMAIN got \ DOMAIN found) \cup changed))
<1>1. Progress(sync[p], tables, state, clock) /\ sync = [q \in Syncer |-> sync[q]] /\ IsDataset(tables)
  BY DEF StaticInv, SyncsFit, Basics
<1>2. /\ sync[p].at = "upsert_stops" /\ UNCHANGED <<feed, state, clock, client, broken>> /\ ~Replacing(p)
  BY DEF UpsertStops, At, Replacing
<1>3. CASE Stop(p) /\ UNCHANGED tables
  BY <1>2, <1>3, SyncStops DEF StaticInv, Basics
<1>4. CASE /\ tables' = [tables EXCEPT !.stops = rows]
           /\ sync' = [sync EXCEPT ![p].found = NoRows, ![p].at = "delete_routes"]
  <2>1. found = tables.stops
    BY <1>1, <1>2 DEF Progress
  <2>2. IsRows(rows) /\ StopsHold(rows, got)
    BY <2>1 DEF IsRows, StopsHold, Written, Restrict
  <2> HIDE DEF rows
  <2>3. IsDataset(tables') /\ tables'.stops = rows
    BY <1>1, <1>4, <2>2 DEF IsDataset, WholeIn, TableName
  <2> DEFINE q == [sync[p] EXCEPT !.found = NoRows, !.at = "delete_routes"]
  <2>4. sync' = [sync EXCEPT ![p] = q]
    BY <1>1, <1>4 DEF Progress, WholeIn, SyncFields
  <2>5. /\ WholeIn(q, SyncFields) /\ q.got = sync[p].got /\ q.seen = sync[p].seen /\ q.at = "delete_routes"
    BY <1>1 DEF Progress, WholeIn, SyncFields
  <2> HIDE DEF q
  <2>6. sync'[p] = q /\ sync' = [sync EXCEPT ![p] = sync'[p]]
    BY <1>1, <2>4
  <2>7. Progress(q, tables', state, clock')
    BY <1>1, <1>2, <2>2, <2>3, <2>5 DEF Progress, Writing, RoutesIn, ServicesIn
  <2>8. Replacing(p)'
    BY <2>5, <2>6 DEF Replacing
  <2> QED  BY <1>2, <2>3, <2>5, <2>6, <2>7, <2>8, SyncMoves DEF StaticInv, Basics
<1> QED  BY <1>3, <1>4 DEF UpsertStops

LEMMA DeleteKeeps ==
    ASSUME StaticInv, OneSyncer, NEW p \in Syncer, NEW here, NEW table, NEW next,
           <<here, table, next>> \in {<<"delete_routes", "routes", "insert_routes">>,
                                      <<"delete_services", "services", "insert_services">>},
           DeleteRows(p, here, table, next)
    PROVE  StaticInv'
<1>1. Progress(sync[p], tables, state, clock) /\ sync = [q \in Syncer |-> sync[q]] /\ IsDataset(tables)
  BY DEF StaticInv, SyncsFit, Basics
<1>2. /\ sync[p].at = here /\ UNCHANGED <<feed, state, clock, client, broken>>
      /\ tables' = [tables EXCEPT ![table] = NoRows]
      /\ sync' = [sync EXCEPT ![p].left = DOMAIN sync[p].got[table], ![p].at = next]
  BY DEF DeleteRows, At
<1>3. table \in TableName
  BY DEF TableName
<1>4. IsDataset(tables') /\ tables'[table] = NoRows /\ \A t \in TableName \ {table} : tables'[t] = tables[t]
  BY <1>1, <1>2, <1>3 DEF IsDataset, WholeIn, IsRows, NoRows
<1>5. PartOf(NoRows, sync[p].got[table], DOMAIN sync[p].got[table])
  BY DEF PartOf, IsRows, NoRows
<1> DEFINE all == DOMAIN sync[p].got[table]
           q == [sync[p] EXCEPT !.left = all, !.at = next]
<1>6. sync' = [sync EXCEPT ![p] = q]
  BY <1>1, <1>2 DEF Progress, WholeIn, SyncFields
<1>7. /\ WholeIn(q, SyncFields) /\ q.got = sync[p].got /\ q.seen = sync[p].seen /\ q.at = next
      /\ q.left = all
  BY <1>1 DEF Progress, WholeIn, SyncFields
<1> HIDE DEF q
<1>8. sync'[p] = q /\ sync' = [sync EXCEPT ![p] = sync'[p]]
  BY <1>1, <1>6
<1>9. Progress(q, tables', state, clock')
  <2>1. CASE here = "delete_routes" /\ table = "routes" /\ next = "insert_routes"
    BY <1>1, <1>2, <1>4, <1>5, <1>7, <2>1 DEF Progress, Writing, RoutesIn, ServicesIn, TableName
  <2>2. CASE here = "delete_services" /\ table = "services" /\ next = "insert_services"
    BY <1>1, <1>2, <1>4, <1>5, <1>7, <2>2 DEF Progress, Writing, RoutesIn, ServicesIn, TableName
  <2> QED  BY <2>1, <2>2
<1>10. Replacing(p)'
  BY <1>7, <1>8 DEF Replacing
<1> QED  BY <1>2, <1>4, <1>7, <1>8, <1>9, <1>10, SyncMoves DEF StaticInv, Basics

LEMMA InsertKeeps ==
    ASSUME StaticInv, OneSyncer, NEW p \in Syncer, NEW here, NEW table, NEW next,
           <<here, table, next>> \in {<<"insert_routes", "routes", "delete_services">>,
                                      <<"insert_services", "services", "stamp">>},
           InsertBatch(p, here, table, next)
    PROVE  StaticInv'
<1>1. Progress(sync[p], tables, state, clock) /\ sync = [q \in Syncer |-> sync[q]] /\ IsDataset(tables)
  BY DEF StaticInv, SyncsFit, Basics
<1>2. PICK rows \in SUBSET sync[p].left :
        /\ IF Refused(rows, table) THEN Stop(p) /\ UNCHANGED tables
           ELSE /\ tables' = [tables EXCEPT ![table] = Written(@, Restrict(sync[p].got[table], rows))]
                /\ sync' = [sync EXCEPT ![p].left = @ \ rows,
                                        ![p].at = IF rows = sync[p].left THEN next ELSE @]
        /\ broken' = (broken \/ Refused(rows, table))
  BY DEF InsertBatch
<1>3. sync[p].at = here /\ UNCHANGED <<feed, state, clock, client>> /\ table \in TableName
  BY DEF InsertBatch, At, TableName
<1>4. broken \in BOOLEAN /\ broken' \in BOOLEAN /\ (broken => broken')
  BY <1>2 DEF StaticInv, Basics, Refused
<1>5. CASE Refused(rows, table)
  BY <1>2, <1>3, <1>4, <1>5, SyncStops
<1>6. CASE ~Refused(rows, table)
  <2> DEFINE got == sync[p].got[table]
             left == sync[p].left \ rows
             label == IF rows = sync[p].left THEN next ELSE here
             new == Written(tables[table], Restrict(got, rows))
             q == [sync[p] EXCEPT !.left = left, !.at = label]
  <2>1. tables' = [tables EXCEPT ![table] = new] /\ sync' = [sync EXCEPT ![p] = q]
    BY <1>1, <1>2, <1>3, <1>6 DEF Progress, WholeIn, SyncFields
  <2>2. PartOf(tables[table], got, sync[p].left) /\ IsRows(got)
    BY <1>1, <1>3 DEF Progress, IsDataset, TableName
  <2>3. PartOf(new, got, left) /\ (rows = sync[p].left => left = {})
    BY <2>2, BatchOfIt
  <2>4. rows = sync[p].left => new = got
    BY <2>2, <2>3, AllOfIt
  <2> HIDE DEF new, left, label
  <2>5. /\ IsDataset(tables') /\ tables'[table] = new
        /\ \A t \in TableName \ {table} : tables'[t] = tables[t]
    BY <1>1, <1>3, <2>1, <2>3 DEF IsDataset, WholeIn, PartOf
  <2>6. /\ WholeIn(q, SyncFields) /\ q.got = sync[p].got /\ q.seen = sync[p].seen /\ q.at = label
        /\ q.left = left
    BY <1>1 DEF Progress, WholeIn, SyncFields
  <2> HIDE DEF q
  <2>7. sync'[p] = q /\ sync' = [sync EXCEPT ![p] = sync'[p]]
    BY <1>1, <2>1
  <2>8. Progress(q, tables', state, clock')
    <3>1. CASE rows # sync[p].left
      <4>1. q.at = here
        BY <2>6, <3>1 DEF label
      <4>2. CASE here = "insert_routes" /\ table = "routes"
        BY <1>1, <1>3, <2>3, <2>5, <2>6, <4>1, <4>2
           DEF Progress, Writing, RoutesIn, ServicesIn, TableName
      <4>3. CASE here = "insert_services" /\ table = "services"
        BY <1>1, <1>3, <2>3, <2>5, <2>6, <4>1, <4>3
           DEF Progress, Writing, RoutesIn, ServicesIn, TableName
      <4> QED  BY <4>2, <4>3
    <3>2. CASE rows = sync[p].left
      <4>1. q.at = next
        BY <2>6, <3>2 DEF label
      <4>2. CASE here = "insert_routes" /\ table = "routes" /\ next = "delete_services"
        BY <1>1, <1>3, <2>4, <2>5, <2>6, <3>2, <4>1, <4>2
           DEF Progress, Writing, RoutesIn, ServicesIn, TableName
      <4>3. CASE here = "insert_services" /\ table = "services" /\ next = "stamp"
        BY <1>1, <1>3, <2>4, <2>5, <2>6, <3>2, <4>1, <4>3
           DEF Progress, Writing, RoutesIn, ServicesIn, TableName
      <4> QED  BY <4>2, <4>3
    <3> QED  BY <3>1, <3>2
  <2>9. Replacing(p)'
    BY <2>6, <2>7 DEF Replacing, label
  <2> QED  BY <1>3, <1>4, <2>5, <2>6, <2>7, <2>8, <2>9, SyncMoves DEF label
<1> QED  BY <1>5, <1>6

\* The version is later than all before it.
LEMMA StampKeeps == ASSUME StaticInv, OneSyncer, NEW p \in Syncer, Stamp(p) PROVE StaticInv'
<1>1. Progress(sync[p], tables, state, clock) /\ sync = [q \in Syncer |-> sync[q]]
  BY DEF StaticInv, SyncsFit
<1>2. /\ sync[p].at = "stamp" /\ UNCHANGED <<feed, tables, state, client, broken>> /\ clock' = clock + 1
      /\ sync' = [sync EXCEPT ![p].version = clock + 1, ![p].at = "write_state"]
  BY DEF Stamp, At
<1> DEFINE q == [sync[p] EXCEPT !.version = clock + 1, !.at = "write_state"]
<1>3. sync' = [sync EXCEPT ![p] = q]
  BY <1>1, <1>2 DEF Progress, WholeIn, SyncFields
<1>4. /\ WholeIn(q, SyncFields) /\ q.got = sync[p].got /\ q.seen = sync[p].seen
      /\ q.at = "write_state" /\ q.version = clock'
  BY <1>1, <1>2 DEF Progress, WholeIn, SyncFields
<1> HIDE DEF q
<1>5. sync'[p] = q /\ sync' = [sync EXCEPT ![p] = sync'[p]]
  BY <1>1, <1>3
<1>6. 0 < clock' /\ (state # NoState => state.version < clock')
  BY <1>2 DEF StaticInv, Basics
<1>7. Progress(q, tables', state, clock')
  BY <1>1, <1>2, <1>4, <1>6 DEF Progress, Writing, RoutesIn, ServicesIn
<1>8. Replacing(p)'
  BY <1>4, <1>5 DEF Replacing
<1> QED  BY <1>2, <1>5, <1>7, <1>8, SyncMoves DEF StaticInv, Basics

\* Rows and version agree again, and no app has the version yet.
LEMMA WriteKeeps == ASSUME StaticInv, OneSyncer, NEW p \in Syncer, WriteState(p) PROVE StaticInv'
<1>1. Progress(sync[p], tables, state, clock) /\ sync[p].at = "write_state"
  BY DEF StaticInv, SyncsFit, WriteState, At
<1>2. /\ state' = [version |-> clock, checksum |-> sync[p].got]
      /\ UNCHANGED <<feed, tables, clock, client>> /\ broken' = FALSE /\ Stop(p)
  BY <1>1 DEF WriteState, Progress, Writing
<1>3. /\ state'.version = clock /\ state'.checksum = sync[p].got /\ clock \in Nat /\ 0 < clock
      /\ (state # NoState => state.version < clock)
  BY <1>1, <1>2 DEF Progress, StaticInv, Basics
<1>4. Basics'
  <2>1. feed' \in Edition /\ clock' \in Nat /\ broken' \in BOOLEAN /\ IsDataset(tables')
    BY <1>2 DEF StaticInv, Basics
  <2>2. state'.version \in 1..clock'
    BY <1>2, <1>3
  <2> QED  BY <2>1, <2>2 DEF Basics
<1>5. SyncsFit'
  <2>1. \A q \in Syncer : sync'[q] = Waiting
    BY <1>2 DEF Stop, StaticInv, SyncsFit, OneSyncer
  <2> QED  BY <1>2, <2>1, WaitingProgress DEF SyncsFit, StaticInv, Stop
<1>6. RowsFit'
  <2>1. TablesHold(sync[p].got)
    BY <1>1 DEF Progress, Writing, RoutesIn, ServicesIn, StopsHold, TablesHold
  <2> QED  BY <1>2, <1>3, <2>1 DEF RowsFit, TablesHold
<1>7. AppsFit'
  <2>0. \A q \in Syncer : sync'[q].at = "idle"
    BY <1>2 DEF Stop, StaticInv, SyncsFit, OneSyncer, Waiting
  <2>1. ASSUME NEW c \in Client PROVE AppFits(client[c], tables', state', Last', Dirty')
    <3>1. /\ client[c].version \in 0..(clock - 1) /\ client[c].newVersion \in 0..(clock - 1)
          /\ WholeIn(client[c], AppFields) /\ IsDataset(client[c].newData)
      BY <1>1 DEF StaticInv, AppsFit, AppFits, Last, At
    <3>2. Last' = clock
      BY <1>2, <2>0 DEF Last, At
    <3>3. /\ client[c].version \in 0..clock /\ client[c].version # clock
          /\ client[c].newVersion \in 0..clock /\ client[c].newVersion # clock
      BY <1>3, <3>1
    <3> QED  BY <1>3, <3>1, <3>2, <3>3 DEF AppFits
  <2> QED  BY <1>2, <2>1 DEF StaticInv, AppsFit
<1> QED  BY <1>4, <1>5, <1>6, <1>7 DEF StaticInv
LEMMA PublishKeeps == ASSUME StaticInv, Publish PROVE StaticInv'
<1>1. feed' \in Edition /\ UNCHANGED <<tables, state, clock, sync, client, failures, broken>>
  BY DEF Publish
<1>2. Dirty' = Dirty /\ Last' = Last
  BY <1>1 DEF Dirty, Replacing, Last, At
<1> QED  BY <1>1, <1>2 DEF StaticInv, Basics, SyncsFit, RowsFit, TablesHold, AppsFit

LEMMA InterruptKeeps ==
    ASSUME StaticInv, OneSyncer, NEW p \in Syncer, Interrupt(p) PROVE StaticInv'
<1>1. Stop(p) /\ UNCHANGED <<feed, tables, state, clock, client>> /\ broken' = (broken \/ Replacing(p))
  BY DEF Interrupt
<1>2. broken \in BOOLEAN /\ Replacing(p) \in BOOLEAN
  BY DEF StaticInv, Basics, Replacing
<1> QED  BY <1>1, <1>2, SyncStops

LEMMA StartKeeps == ASSUME StaticInv, OneSyncer, NEW p \in Syncer, Start(p) PROVE StaticInv'
<1>1. /\ sync[p].at = "idle" /\ UNCHANGED <<feed, tables, state, clock, client, broken>> /\ ~Replacing(p)
      /\ sync' = [sync EXCEPT ![p] = [Waiting EXCEPT !.at = "fetch_stops"]]
      /\ sync = [q \in Syncer |-> sync[q]]
  BY DEF Start, At, Replacing, StaticInv, SyncsFit
<1> DEFINE q == [Waiting EXCEPT !.at = "fetch_stops"]
<1>2. WholeIn(q, SyncFields) /\ q.got = Empty /\ q.at = "fetch_stops"
  BY DEF Waiting, WholeIn, SyncFields
<1> HIDE DEF q
<1>3. sync'[p] = q /\ sync' = [sync EXCEPT ![p] = sync'[p]]
  BY <1>1 DEF q
<1>4. Progress(q, tables', state, clock')
  BY <1>2, EmptyIsDataset DEF Progress, Writing, RoutesIn, ServicesIn
<1> QED  BY <1>1, <1>2, <1>3, <1>4, SyncMoves DEF StaticInv, Basics

-----------------------------------------------------------------------------
\* A step of one app.
LEMMA AppMoves ==
    ASSUME StaticInv, NEW c \in Client, client' = [client EXCEPT ![c] = client'[c]],
           AppFits(client'[c], tables, state, Last, Dirty),
           UNCHANGED <<feed, tables, state, clock, sync, broken>>
    PROVE  StaticInv'
<1>1. Dirty' = Dirty /\ Last' = Last
  BY DEF Dirty, Replacing, Last, At
<1>2. AppsFit'
  BY <1>1 DEF StaticInv, AppsFit
<1> QED  BY <1>1, <1>2 DEF StaticInv, Basics, SyncsFit, RowsFit, TablesHold

LEMMA OpenKeeps == ASSUME StaticInv, NEW c \in Client, OpenPackage(c) PROVE StaticInv'
<1>1. AppFits(client[c], tables, state, Last, Dirty) /\ client = [x \in Client |-> client[x]]
  BY DEF StaticInv, AppsFit
<1>2. /\ UNCHANGED <<feed, tables, state, clock, sync, broken>> /\ state # NoState
      /\ client' = [client EXCEPT ![c].newVersion = state.version, ![c].at = "stops"]
  BY DEF OpenPackage
<1>3. state.version \in 0..Last
  BY <1>2 DEF StaticInv, Basics, SyncsFit, Progress, Last, At
<1> DEFINE m == [client[c] EXCEPT !.newVersion = state.version, !.at = "stops"]
<1>4. client' = [client EXCEPT ![c] = m]
  BY <1>1, <1>2 DEF AppFits, WholeIn, AppFields
<1>5. /\ WholeIn(m, AppFields) /\ m.at = "stops" /\ m.newVersion = state.version
      /\ m.version = client[c].version /\ m.data = client[c].data /\ m.newData = client[c].newData
  BY <1>1 DEF AppFits, WholeIn, AppFields
<1> HIDE DEF m
<1>6. client'[c] = m /\ client' = [client EXCEPT ![c] = client'[c]]
  BY <1>1, <1>4
<1>7. AppFits(m, tables, state, Last, Dirty)
  BY <1>1, <1>3, <1>5 DEF AppFits
<1> QED  BY <1>2, <1>6, <1>7, AppMoves

LEMMA ReadKeeps ==
    ASSUME StaticInv, NEW c \in Client, NEW table, NEW next,
           <<table, next>> \in {<<"stops", "routes">>, <<"routes", "services">>, <<"services", "install">>},
           ReadTable(c, table, next)
    PROVE  StaticInv'
<1>1. /\ AppFits(client[c], tables, state, Last, Dirty) /\ client = [x \in Client |-> client[x]]
      /\ IsDataset(tables)
  BY DEF StaticInv, AppsFit, Basics
<1>2. /\ UNCHANGED <<feed, tables, state, clock, sync, broken>> /\ client[c].at = table
      /\ client' = [client EXCEPT ![c].newData[table] = tables[table], ![c].at = next]
  BY DEF ReadTable
<1> DEFINE new == [client[c].newData EXCEPT ![table] = tables[table]]
           m == [client[c] EXCEPT !.newData = new, !.at = next]
<1>3. /\ IsDataset(new) /\ new[table] = tables[table]
      /\ \A t \in TableName \ {table} : new[t] = client[c].newData[t]
  BY <1>1 DEF AppFits, IsDataset, WholeIn, TableName
<1>4. client' = [client EXCEPT ![c] = m]
  BY <1>1, <1>2 DEF AppFits, WholeIn, AppFields
<1> HIDE DEF new
<1>5. /\ WholeIn(m, AppFields) /\ m.at = next /\ m.newData = new
      /\ m.version = client[c].version /\ m.data = client[c].data /\ m.newVersion = client[c].newVersion
  BY <1>1 DEF AppFits, WholeIn, AppFields
<1> HIDE DEF m
<1>6. client'[c] = m /\ client' = [client EXCEPT ![c] = client'[c]]
  BY <1>1, <1>4
<1>7. AppFits(m, tables, state, Last, Dirty)
  <2>1. /\ WholeIn(m, AppFields) /\ IsDataset(m.newData)
        /\ m.version \in 0..Last /\ m.newVersion \in 0..Last
        /\ state # NoState /\ ~Dirty /\ m.version = state.version => m.data = tables
    BY <1>1, <1>3, <1>5 DEF AppFits
  <2>2. ASSUME state # NoState, ~Dirty, m.newVersion = state.version
        PROVE  /\ m.at \in {"routes", "services", "install"} => m.newData.stops = tables.stops
               /\ m.at \in {"services", "install"} => m.newData.routes = tables.routes
               /\ m.at = "install" => m.newData.services = tables.services
    <3>1. CASE table = "stops" /\ next = "routes"
      BY <1>3, <1>5, <3>1
    <3>2. CASE table = "routes" /\ next = "services"
      BY <1>1, <1>2, <1>3, <1>5, <2>2, <3>2 DEF AppFits, TableName
    <3>3. CASE table = "services" /\ next = "install"
      BY <1>1, <1>2, <1>3, <1>5, <2>2, <3>3 DEF AppFits, TableName
    <3> QED  BY <3>1, <3>2, <3>3
  <2> QED  BY <2>1, <2>2 DEF AppFits
<1> QED  BY <1>2, <1>6, <1>7, AppMoves

LEMMA InstallKeeps == ASSUME StaticInv, NEW c \in Client, Install(c) PROVE StaticInv'
<1>1. /\ AppFits(client[c], tables, state, Last, Dirty) /\ client = [x \in Client |-> client[x]]
      /\ IsDataset(tables)
  BY DEF StaticInv, AppsFit, Basics
<1>2. UNCHANGED <<feed, tables, state, clock, sync, broken>> /\ client[c].at = "install"
  BY DEF Install
<1> DEFINE m == [NewApp EXCEPT !.version = client[c].newVersion, !.data = client[c].newData]
<1>3. client' = [client EXCEPT ![c] = m]
  BY DEF Install
<1>4. /\ WholeIn(m, AppFields) /\ m.at = "idle" /\ m.newData = Empty /\ m.newVersion = 0
      /\ m.version = client[c].newVersion /\ m.data = client[c].newData
  BY DEF NewApp, WholeIn, AppFields
<1> HIDE DEF m
<1>5. client'[c] = m /\ client' = [client EXCEPT ![c] = client'[c]]
  BY <1>1, <1>3
<1>6. ASSUME state # NoState, ~Dirty, m.version = state.version PROVE m.data = tables
  <2>1. \A t \in TableName : client[c].newData[t] = tables[t]
    BY <1>1, <1>2, <1>4, <1>6 DEF AppFits, TableName
  <2>2. WholeIn(client[c].newData, TableName) /\ WholeIn(tables, TableName)
    BY <1>1 DEF AppFits, IsDataset
  <2> QED  BY <1>4, <2>1, <2>2 DEF WholeIn
<1>7. 0 \in 0..Last
  BY <1>1 DEF AppFits, Last, StaticInv, Basics, SyncsFit, Progress, At
<1>8. state # NoState => state.version \in 1..clock
  BY DEF StaticInv, Basics
<1>9. AppFits(m, tables, state, Last, Dirty)
  BY <1>1, <1>4, <1>6, <1>7, <1>8, EmptyIsDataset DEF AppFits
<1> QED  BY <1>2, <1>5, <1>9, AppMoves

-----------------------------------------------------------------------------
LEMMA StepStatic == OneSyncer /\ StaticInv /\ [Next]_vars => StaticInv'
<1> SUFFICES ASSUME OneSyncer, StaticInv, [Next]_vars PROVE StaticInv'
  OBVIOUS
<1>1. CASE UNCHANGED vars
  <2>1. UNCHANGED <<feed, tables, state, clock, sync, client, failures, broken>>
    BY <1>1 DEF vars
  <2>2. Dirty' = Dirty /\ Last' = Last
    BY <2>1 DEF Dirty, Replacing, Last, At
  <2> QED  BY <2>1, <2>2 DEF StaticInv, Basics, SyncsFit, RowsFit, TablesHold, AppsFit
<1>2. ASSUME NEW p \in Syncer, SyncStep(p) PROVE StaticInv'
  <2>1. CASE Download(p)
    BY <2>1, FetchKeeps DEF Download, TableName
  <2>2. CASE Replace(p)
    <3>1. CASE FindStops(p) \/ UpsertStops(p)
      BY <3>1, FindKeeps, UpsertKeeps
    <3>2. CASE \/ DeleteRows(p, "delete_routes", "routes", "insert_routes")
               \/ DeleteRows(p, "delete_services", "services", "insert_services")
      BY <3>2, DeleteKeeps
    <3>3. CASE \/ InsertBatch(p, "insert_routes", "routes", "delete_services")
               \/ InsertBatch(p, "insert_services", "services", "stamp")
      BY <3>3, InsertKeeps
    <3> QED  BY <2>2, <3>1, <3>2, <3>3 DEF Replace
  <2> QED  BY <1>2, <2>1, <2>2, StartKeeps, CheckKeeps, StampKeeps, WriteKeeps DEF SyncStep
<1>3. ASSUME NEW c \in Client, ClientStep(c) PROVE StaticInv'
  <2>1. CASE \/ ReadTable(c, "stops", "routes")
             \/ ReadTable(c, "routes", "services")
             \/ ReadTable(c, "services", "install")
    BY <2>1, ReadKeeps
  <2> QED  BY <1>3, <2>1, OpenKeeps, InstallKeeps DEF ClientStep
<1> QED  BY <1>1, <1>2, <1>3, PublishKeeps, InterruptKeeps DEF Next

LEMMA StaticAlways == ASSUME OneSyncer PROVE Spec => []StaticInv
<1>1. StaticInv /\ [Next]_vars => StaticInv'
  BY StepStatic
<1> QED  BY <1>1, InitStatic, PTL DEF Spec

LEMMA RestingIsClean == Resting /\ ~broken => ~Dirty
BY DEF Resting, Dirty, Replacing

\* Unless rows were left half replaced, the version names the rows whenever no
\* sync is replacing them, whichever editions LTA published meanwhile.
THEOREM CompleteSyncsAlwaysAgree == ASSUME OneSyncer PROVE Spec => []CompleteSyncsAgree
<1>1. StaticInv => CompleteSyncsAgree
  BY RestingIsClean DEF StaticInv, RowsFit, CompleteSyncsAgree, VersionNamesRows
<1> QED  BY <1>1, StaticAlways, PTL

\* An app that has the version has the rows, however its statements fell
\* between the commits of a sync.
THEOREM CurrentAppsAlwaysAgree == ASSUME OneSyncer PROVE Spec => []CurrentAppsAgree
<1>1. StaticInv => CurrentAppsAgree
  BY RestingIsClean DEF StaticInv, AppsFit, AppFits, CurrentAppsAgree
<1> QED  BY <1>1, StaticAlways, PTL
=============================================================================
