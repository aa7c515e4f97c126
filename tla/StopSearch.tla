------------------------------ MODULE StopSearch ------------------------------
(***************************************************************************)
(* Search for bus stops, and for those nearby: a cached answer, else the   *)
(* catalog in the memory of the API process, else the table; the caller's  *)
(* own names for stops are put on at the end.                              *)
(*                                                                         *)
(* One query, and so one key of the cache, stands for all.  What a search  *)
(* finds is the edition of the rows it looked at.                          *)
(***************************************************************************)
EXTENDS Release

CONSTANTS
    Search,         \* searches that may run at once
    User,           \* devices
    Nobody,         \* the names are the official ones
    Matching,       \* editions in which the query finds stops
    SearchTtl,      \* default_search_cache_ttl_seconds
    NoEntry         \* no live key in Redis

ASSUME SearchAssumption == Nobody \notin User /\ SearchTtl \in Nat \ {0}

VARIABLES
    found,          \* the cached answer: an edition, whose names, and the time left
    search,         \* search[q]: a search under way
    settled         \* history: ticks since the API started or the table changed

searchVars == <<found, search, settled>>

NoSearch == [at |-> "idle", user |-> Nobody, named |-> FALSE, hit |-> FALSE,
             edition |-> 0, names |-> Nobody]

Doing(q, label) == search[q].at = label

-----------------------------------------------------------------------------
(* BusStopService.search; nearby differs in what it looks for and in its    *)
(* time to live.                                                            *)

BeginSearch(q) ==
    /\ Doing(q, "idle")
    /\ api.at = "up"
    /\ \E u \in User : search' = [search EXCEPT ![q] = [NoSearch EXCEPT !.at = "get", !.user = u]]
    /\ UNCHANGED <<found, settled>>

\* An empty list that was cached is an answer too.
GetFound(q) ==
    /\ Doing(q, "get")
    /\ search' = [search EXCEPT ![q] =
                    IF found = NoEntry THEN [@ EXCEPT !.at = "aliases"]
                    ELSE [@ EXCEPT !.at = "aliases", !.hit = TRUE,
                                   !.edition = found.edition, !.names = found.names]]
    /\ UNCHANGED <<found, settled>>

\* get_alias_map: the user may have a name of their own for what is found.
ReadAliases(q) ==
    /\ Doing(q, "aliases")
    /\ \E named \in BOOLEAN :
        search' = [search EXCEPT ![q].named = named,
                                 ![q].at = IF search[q].hit THEN "answer" ELSE "find"]
    /\ UNCHANGED <<found, settled>>

InCatalog == api.catalog \in Matching

\* _search_from_catalog; the table is asked when that finds nothing.
Find(q) ==
    /\ Doing(q, "find")
    /\ search' = [search EXCEPT ![q].edition = IF InCatalog THEN api.catalog ELSE table,
                                ![q].at = "set"]
    /\ UNCHANGED <<found, settled>>

\* Mutant: the names of the one who searches are cached.
EntryNamed(q) ==
    [edition |-> search[q].edition, left |-> SearchTtl,
     names |-> IF search[q].named THEN search[q].user ELSE Nobody]
Entry(q) == [edition |-> search[q].edition, left |-> SearchTtl, names |-> Nobody]

\* set_json; a failure of Redis is swallowed.
SetFound(q) ==
    /\ Doing(q, "set")
    /\ found' \in {Entry(q), found}
    /\ search' = [search EXCEPT ![q].at = "answer"]
    /\ UNCHANGED settled

\* _apply_alias.
NamesShown(q) == IF search[q].named THEN search[q].user ELSE search[q].names

AnswerSearch(q) ==
    /\ Doing(q, "answer")
    /\ search' = [search EXCEPT ![q] = [NoSearch EXCEPT !.at = "shown", !.user = search[q].user,
                                                        !.names = NamesShown(q)]]
    /\ UNCHANGED <<found, settled>>

EndSearch(q) ==
    /\ Doing(q, "shown")
    /\ search' = [search EXCEPT ![q] = NoSearch]
    /\ UNCHANGED <<found, settled>>

SearchStep(q) ==
    \/ BeginSearch(q) \/ GetFound(q) \/ ReadAliases(q) \/ Find(q)
    \/ SetFound(q) \/ AnswerSearch(q) \/ EndSearch(q)

-----------------------------------------------------------------------------
\* Mutant: an entry without a time to live.
LeftForEver(entry) == entry
LeftAfterTick(entry) ==
    IF entry = NoEntry \/ entry.left = 1 THEN NoEntry
    ELSE [entry EXCEPT !.left = @ - 1]

\* A search takes less than a tick.
SearchTick ==
    /\ \A q \in Search : Doing(q, "idle")
    /\ found' = LeftAfterTick(found)
    /\ settled' = IF settled > SearchTtl THEN settled ELSE settled + 1
    /\ UNCHANGED search

\* The searches of an API process end with it; Redis goes on.
SearchesUnder(step) ==
    /\ step
    /\ search' = IF api' = api THEN search ELSE [q \in Search |-> NoSearch]
    /\ settled' = IF api' = api /\ table' = table THEN settled ELSE 0
    /\ UNCHANGED found

SearchInit ==
    /\ found = NoEntry
    /\ search = [q \in Search |-> NoSearch]
    /\ settled = 0

SearchNext ==
    \/ SearchesUnder(ReleaseStep)
    \/ (SearchTick \/ \E q \in Search : SearchStep(q)) /\ UNCHANGED releaseVars

SearchSpec == ReleaseInit /\ SearchInit /\ [][SearchNext]_<<releaseVars, searchVars>>

-----------------------------------------------------------------------------
(* Properties. *)

\* The cache is shared: nobody is shown the names another user gave to stops.
NamesAreOwn == \A q \in Search : Doing(q, "shown") => search[q].names \in {Nobody, search[q].user}

\* README: "Static `bus_stops` data is preloaded into application memory on
\* startup."  Once the API has started after the last sync, what it loaded is
\* the table, and no later than the time to live after that the cache holds no
\* older rows, which outlive both the sync and the restart.
FoundIsCurrent ==
    settled > SearchTtl /\ api.at = "up" /\ api.catalog = table /\ found # NoEntry
        => found.edition = table
=============================================================================
