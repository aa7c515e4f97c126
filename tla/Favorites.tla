------------------------------ MODULE Favorites ------------------------------
(***************************************************************************)
(* The favourites API as a serial machine: every call of FavoriteService,  *)
(* BusStopAliasService and HomeService runs to its end before the next one *)
(* starts.  This is what the services promise to one client that waits for *)
(* each answer; FavoriteRequests interleaves the statements of the calls   *)
(* and is checked against this module.                                     *)
(***************************************************************************)
EXTENDS FavoriteTables

vars == <<users, groups, items, aliases, home>>

\* The row of the calling device exists once a call has looked it up.
GetOrCreateUser(u) == users' = users \cup {u}

\* Reads, calls answered 404 or 409, and create_favorite of a favourite the
\* user already has: nothing changes but the row of a new device.
Unchanging(u) ==
    /\ GetOrCreateUser(u)
    /\ UNCHANGED <<tables, home>>

CreateGroup(u, g, name, order) ==
    /\ g \notin DOMAIN groups
    /\ GetOrCreateUser(u)
    /\ groups' = Put(groups, g, [user |-> u, name |-> name, order |-> order])
    /\ home' = Invalidate(u)
    /\ UNCHANGED <<items, aliases>>

\* _sync_group_name_to_alias: the new title becomes the alias of the station
\* of an arbitrary item of the card, if the card has one.
SyncNameToAlias(u, g, name) ==
    IF name = NoValue \/ ItemsIn(g) = {}
    THEN UNCHANGED aliases
    ELSE \E i \in ItemsIn(g) :
            aliases' = Put(aliases, <<u, items[i].stop>>, name)

\* name and order may be NoValue; emoji says whether the patch sets an emoji.
UpdateGroup(u, g, name, order, emoji) ==
    /\ g \in GroupsOf(u)
    /\ GetOrCreateUser(u)
    /\ SyncNameToAlias(u, g, name)
    /\ groups' = [groups EXCEPT ![g] = Patch(@, name, order)]
    /\ home' = IF name = NoValue /\ order = NoValue /\ ~emoji
               THEN home ELSE Invalidate(u)
    /\ UNCHANGED items

\* The cards create_favorite may add to; {} when it makes a new card.
Targets(u, g, s) ==
    UNION {IF t = NoValue THEN FirstCards(u, s) ELSE {t} : t \in ExplicitTargets(g, s)}

AddItem(i, g, s, v, order) ==
    items' = Put(items, i, [group |-> g, stop |-> s, service |-> v, order |-> order])

CreateFavoriteOnCard(u, given, s, v, i) ==
    /\ given \in GroupsOf(u) \cup {NoValue}
    /\ FavoritesAt(u, s, v) = {}
    /\ i \notin DOMAIN items
    /\ \E g \in Targets(u, given, s), n \in Order :
        /\ IsNextOrder(n, {items[j].order : j \in ItemsIn(g)})
        /\ AddItem(i, g, s, v, n)
    /\ GetOrCreateUser(u)
    /\ home' = Invalidate(u)
    /\ UNCHANGED <<groups, aliases>>

CreateFavoriteOnNewCard(u, given, s, v, g, i) ==
    /\ given \in GroupsOf(u) \cup {NoValue}
    /\ FavoritesAt(u, s, v) = {}
    /\ NoValue \in ExplicitTargets(given, s)
    /\ CardsFor(u, s) = {}
    /\ g \notin DOMAIN groups
    /\ i \notin DOMAIN items
    /\ \E n \in Order :
        /\ IsNextOrder(n, {groups[h].order : h \in GroupsOf(u)})
        /\ groups' = Put(groups, g,
                         [user |-> u, name |-> DisplayName(u, s), order |-> n])
    /\ AddItem(i, g, s, v, 0)
    /\ GetOrCreateUser(u)
    /\ home' = Invalidate(u)
    /\ UNCHANGED aliases

\* newOrder maps the favourites of the payload to their new positions; all of
\* them must be the caller's, and an empty payload returns at once.
ReorderFavorites(u, newOrder) ==
    /\ DOMAIN newOrder # {}
    /\ DOMAIN newOrder \subseteq ItemsOf(u)
    /\ GetOrCreateUser(u)
    /\ items' = [i \in DOMAIN items |->
                    IF i \in DOMAIN newOrder
                    THEN [items[i] EXCEPT !.order = newOrder[i]] ELSE items[i]]
    /\ home' = Invalidate(u)
    /\ UNCHANGED <<groups, aliases>>

\* Mutant: the foreign key of the items does not cascade.
DeleteGroupOnly(u, g) ==
    /\ g \in GroupsOf(u)
    /\ GetOrCreateUser(u)
    /\ groups' = Drop(groups, {g})
    /\ home' = Invalidate(u)
    /\ UNCHANGED <<items, aliases>>

DeleteGroup(u, g) ==
    /\ g \in GroupsOf(u)
    /\ GetOrCreateUser(u)
    /\ groups' = Drop(groups, {g})
    /\ items' = Drop(items, ItemsIn(g))
    /\ home' = Invalidate(u)
    /\ UNCHANGED aliases

DeleteFavorite(u, i) ==
    /\ i \in ItemsOf(u)
    /\ GetOrCreateUser(u)
    /\ items' = Drop(items, {i})
    /\ groups' = IF LeavesCardEmpty(i)
                 THEN Drop(groups, {items[i].group}) ELSE groups
    /\ home' = Invalidate(u)
    /\ UNCHANGED aliases

UpsertAlias(u, s, name) ==
    /\ GetOrCreateUser(u)
    /\ aliases' = Put(aliases, <<u, s>>, name)
    /\ groups' = Rename(CardsFor(u, s), name)
    /\ home' = Invalidate(u)
    /\ UNCHANGED items

DeleteAlias(u, s) ==
    /\ GetOrCreateUser(u)
    /\ aliases' = Drop(aliases, {<<u, s>>})
    /\ groups' = Rename(CardsFor(u, s), Description[s])
    /\ home' = Invalidate(u)
    /\ UNCHANGED items

\* GET /v1/home on a cache miss; a hit changes nothing.
FillHome(u) ==
    /\ home[u] = NoHome
    /\ GetOrCreateUser(u)
    /\ home' = [home EXCEPT ![u] = HomeView(u)]
    /\ UNCHANGED tables

\* Redis drops the payload at the end of its time to live.
ExpireHome(u) ==
    /\ home[u] # NoHome
    /\ home' = [home EXCEPT ![u] = NoHome]
    /\ UNCHANGED <<users, tables>>

-----------------------------------------------------------------------------
Init ==
    /\ users = {}
    /\ groups = EmptyTable
    /\ items = EmptyTable
    /\ aliases = EmptyTable
    /\ home = [u \in User |-> NoHome]

CardCall(u) ==
    \/ \E g \in GroupId, name \in Name, order \in Order : CreateGroup(u, g, name, order)
    \/ \E g \in GroupId, name \in Name \cup {NoValue},
          order \in Order \cup {NoValue}, emoji \in BOOLEAN :
            UpdateGroup(u, g, name, order, emoji)
    \/ \E g \in GroupId : DeleteGroup(u, g)

ItemCall(u) ==
    \/ \E given \in GroupId \cup {NoValue}, s \in Stop, v \in Service, i \in ItemId :
        \/ CreateFavoriteOnCard(u, given, s, v, i)
        \/ \E g \in GroupId : CreateFavoriteOnNewCard(u, given, s, v, g, i)
    \/ \E S \in SUBSET ItemId : \E newOrder \in [S -> Order] :
        ReorderFavorites(u, newOrder)
    \/ \E i \in ItemId : DeleteFavorite(u, i)

AliasCall(u) ==
    \E s \in Stop :
        \/ \E name \in Name : UpsertAlias(u, s, name)
        \/ DeleteAlias(u, s)

HomeStep(u) == FillHome(u) \/ ExpireHome(u)

Next ==
    \E u \in User : Unchanging(u) \/ CardCall(u) \/ ItemCall(u) \/ AliasCall(u) \/ HomeStep(u)

Spec == Init /\ [][Next]_vars

-----------------------------------------------------------------------------
(* Properties. *)

\* Types of the tables and of the cache, whose payloads have their own invariant.
TypeOK ==
    /\ users \subseteq User
    /\ DOMAIN groups \subseteq GroupId /\ groups \in [DOMAIN groups -> GroupRow]
    /\ DOMAIN items \subseteq ItemId /\ items \in [DOMAIN items -> ItemRow]
    /\ DOMAIN aliases \subseteq User \X Stop /\ aliases \in [DOMAIN aliases -> Name]
    /\ home = [u \in User |-> home[u]]

\* Removing the last favourite of a card removes the card: no step leaves a
\* card empty that had favourites (delete_favorite counts what is left and
\* deletes the card; a cascade takes both).
CardsAreNeverEmptied ==
    [][\A g \in DOMAIN groups \cap DOMAIN groups' :
        ItemsIn(g) # {} => \E i \in DOMAIN items' : items'[i].group = g]_vars

\* The rows of one user, in all tables.
RowsOf(u) ==
    <<GroupsOf(u), ItemsOf(u), {k \in DOMAIN aliases : k[1] = u}, HomeView(u)>>

\* A call changes the rows of its own device only: a client that names another
\* user's card or favourite by id changes nothing (the *_for_user checks).
OneUserPerCall ==
    [][\E u \in User : \A v \in User \ {u} :
        /\ UNCHANGED <<RowsOf(v), home[v]>>
        /\ v \in users' <=> v \in users]_vars

\* A favourite's card is titled with the name its station is shown under.
Titled(i) ==
    LET card == groups[items[i].group]
    IN card.name = DisplayName(card.user, items[i].stop)

\* A card whose title is the name its station is shown under elsewhere keeps
\* that: a rename updates the alias and an alias updates the cards.
TitlesStayConsistent ==
    [][\A i \in DOMAIN items \cap DOMAIN items' : Titled(i) => Titled(i)']_vars

\* A new favourite takes the position after those of its card, the "next
\* display order" that create_favorite asks for.
NewFavoritesComeLast ==
    [][\A i \in DOMAIN items' \ DOMAIN items : \A j \in DOMAIN items :
        items[j].group = items'[i].group => items[j].order < items'[i].order]_vars

\* What is left of it when 0 is taken for no order: a new favourite may share
\* the last place of its card, and never comes before a favourite, whatever
\* orders the client has set and whichever favourites have gone.
NewFavoritesAreNotBefore ==
    [][\A i \in DOMAIN items' \ DOMAIN items : \A j \in DOMAIN items :
        items[j].group = items'[i].group => items[j].order <= items'[i].order]_vars
=============================================================================
