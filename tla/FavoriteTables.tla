--------------------------- MODULE FavoriteTables ---------------------------
(***************************************************************************)
(* The rows that the favourites part of the backend keeps in PostgreSQL,   *)
(* the cached home payloads it keeps in Redis, and the queries its         *)
(* services run on them.  Favorites (one atomic action per API call) and   *)
(* FavoriteRequests (one step per awaited statement) both extend it.       *)
(*                                                                         *)
(* A table is a function from the primary keys of its rows to the rows, so *)
(* primary keys are unique by construction; every other constraint is      *)
(* stated.  Emoji, timestamps and the arrival times embedded in a home     *)
(* payload are left out.                                                   *)
(***************************************************************************)
EXTENDS Integers, FiniteSets, Functions

CONSTANTS
    User,          \* devices; a user row is found by its unique device_id
    GroupId,       \* primary keys of favorite_groups (uuid4)
    ItemId,        \* primary keys of favorite_items (uuid4)
    Stop,          \* codes of the rows of bus_stops
    Service,       \* service numbers
    Name,          \* titles of cards, aliases and station names
    EmptyName,     \* the name "", which the code's `or` tests treat as missing
    Description,   \* Description[s] is the official name of station s
    Order,         \* the display orders considered: a bounded set of integers
    NoValue,       \* an optional payload field that is not given
    NoHome         \* no cached home payload

ASSUME DescriptionAssumption == Description \in [Stop -> Name]
ASSUME EmptyNameAssumption == EmptyName \in Name
ASSUME OrderAssumption == Order \subseteq Int /\ 0 \in Order
ASSUME NoValueAssumption ==
    NoValue \notin Name \cup Order \cup GroupId \cup Stop

VARIABLES
    users,     \* devices that have a row in users
    groups,    \* favorite_groups: the cards
    items,     \* favorite_items: the favourite services on the cards
    aliases,   \* bus_stop_aliases, by its unique (user, stop) pair
    home       \* home[u]: the cached payload of GET /v1/home, or NoHome

tables == <<groups, items, aliases>>

GroupRow == [user : User, name : Name, order : Order]
ItemRow == [group : GroupId, stop : Stop, service : Service, order : Order]

-----------------------------------------------------------------------------
(* Tables and their writes. *)

EmptyTable == [k \in {} |-> NoValue]

Put(table, key, row) ==
    [k \in DOMAIN table \cup {key} |-> IF k = key THEN row ELSE table[k]]

\* The entries of both, those of the first where both have one.
Merge(first, second) ==
    [k \in DOMAIN first \cup DOMAIN second |-> IF k \in DOMAIN first THEN first[k] ELSE second[k]]

Drop(table, keys) == Restrict(table, DOMAIN table \ keys)

Rename(cards, name) ==
    [g \in DOMAIN groups |->
        IF g \in cards THEN [groups[g] EXCEPT !.name = name] ELSE groups[g]]

\* Mutant: fields the client did not send are written too.
PatchWithNone(row, name, order) == [row EXCEPT !.name = name, !.order = order]

\* A card's row with the fields of a PATCH that are given.
Patch(row, name, order) ==
    [row EXCEPT !.name = IF name = NoValue THEN @ ELSE name,
                !.order = IF order = NoValue THEN @ ELSE order]

-----------------------------------------------------------------------------
(* Queries.  Where the SQL has ORDER BY ... LIMIT 1 and ties are possible,  *)
(* the operator is the set of the possible answers.                        *)

GroupsOf(u) == {g \in DOMAIN groups : groups[g].user = u}
ItemsIn(g) == {i \in DOMAIN items : items[i].group = g}
ItemsOf(u) == {i \in DOMAIN items : items[i].group \in GroupsOf(u)}

\* The user's cards that hold an item of station s.
CardsFor(u, s) == {g \in GroupsOf(u) : \E i \in ItemsIn(g) : items[i].stop = s}

\* The card an automatic favourite is added to: first by card order, then item.
FirstCards(u, s) ==
    LET found == {i \in ItemsOf(u) : items[i].stop = s}
        GroupOrder(i) == groups[items[i].group].order
        Before(i, j) ==
            \/ GroupOrder(i) < GroupOrder(j)
            \/ GroupOrder(i) = GroupOrder(j) /\ items[i].order <= items[j].order
    IN {items[i].group : i \in {j \in found : \A k \in found : Before(j, k)}}

\* The station a card belongs to: that of its first item by order.
FirstStops(g) ==
    LET first == {i \in ItemsIn(g) :
                    \A j \in ItemsIn(g) : items[i].order <= items[j].order}
    IN {items[i].stop : i \in first}

\* Mutant: the named card is used whatever station it belongs to.
ExactTarget(g, s) == {g}

\* _resolve_explicit_group_for_bus_stop: the card g the client named, if it is
\* empty or the station's; NoValue (the automatic rule applies) if it is
\* another station's or none was named.
ExplicitTargets(g, s) ==
    IF g = NoValue THEN {NoValue}
    ELSE IF ItemsIn(g) = {} THEN {g}
    ELSE {IF first = s THEN g ELSE NoValue : first \in FirstStops(g)}

\* Mutant: only the card an automatic favourite would be added to is searched.
FavoritesOnFirstCard(u, s, v) ==
    {i \in ItemsOf(u) : /\ items[i].group \in FirstCards(u, s)
                        /\ items[i].stop = s /\ items[i].service = v}

\* The user's favourites of one service at one station.
FavoritesAt(u, s, v) ==
    {i \in ItemsOf(u) : items[i].stop = s /\ items[i].service = v}

\* Mutant: what is left is counted while the favourite is still there.
CountedTooEarly(i) == ItemsIn(items[i].group) = {}

\* Item i is the last on its card.
LeavesCardEmpty(i) == ItemsIn(items[i].group) = {i}

\* The title of an automatic card and of the station's display name: the
\* user's alias unless it is missing or empty.
DisplayName(u, s) ==
    IF <<u, s>> \in DOMAIN aliases /\ aliases[<<u, s>>] # EmptyName
    THEN aliases[<<u, s>>] ELSE Description[s]

\* Mutant: the orders in use are counted.
IsCountOfOrders(n, used) == n = Cardinality(used)

\* n is what `(max or -1) + 1` gives over the orders in use: an empty table
\* and a maximum of 0 are both falsy in Python, so both give 0.
IsNextOrder(n, used) ==
    \/ used = {} /\ n = 0
    \/ \E top \in used : /\ \A m \in used : m <= top
                         /\ n = IF top = 0 THEN 0 ELSE top + 1

\* What GET /v1/home shows of the tables to one device.
HomeView(u) ==
    [groups |-> Restrict(groups, GroupsOf(u)),
     items |-> Restrict(items, ItemsOf(u)),
     names |-> [s \in {items[i].stop : i \in ItemsOf(u)} |-> DisplayName(u, s)]]

\* Mutant: a write leaves the cached payload.
InvalidateNothing(u) == home

\* _invalidate_home_cache: all cached payloads of the device are deleted.
Invalidate(u) == [home EXCEPT ![u] = NoHome]

-----------------------------------------------------------------------------
(* What the services are meant to keep true of the tables. *)

\* Every row refers to rows that exist: the foreign keys of the schema, across
\* the cascades and the two-table deletes of the services.
ForeignKeys ==
    /\ \A g \in DOMAIN groups : groups[g].user \in users
    /\ \A i \in DOMAIN items : items[i].group \in DOMAIN groups
    /\ \A k \in DOMAIN aliases : k[1] \in users

\* A user has at most one favourite of a service at a station, on whichever
\* card.  The unique constraint is per card only, so this rests on
\* create_favorite's search over all the user's cards.
NoDuplicateFavorite ==
    \A i, j \in DOMAIN items :
        /\ groups[items[i].group].user = groups[items[j].group].user
        /\ items[i].stop = items[j].stop
        /\ items[i].service = items[j].service
        => i = j

\* Different stations never share a card; nothing in the schema says so, it
\* rests on how create_favorite resolves its card.
OneStopPerCard ==
    \A i, j \in DOMAIN items :
        items[i].group = items[j].group => items[i].stop = items[j].stop

\* A user has at most one card for a station.
OneCardPerStop ==
    \A u \in users, s \in Stop :
        \A g, h \in CardsFor(u, s) : g = h

\* A cached home payload shows what the tables hold.
HomeCacheCoherent ==
    \A u \in User : home[u] # NoHome => home[u] = HomeView(u)
=============================================================================
