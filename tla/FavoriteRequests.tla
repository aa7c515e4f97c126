--------------------------- MODULE FavoriteRequests ---------------------------
(***************************************************************************)
(* The favourites API as it runs: each request is a coroutine with its own *)
(* database session, and other requests run between any two of its awaited *)
(* statements.  PostgreSQL runs each statement at READ COMMITTED, so a     *)
(* statement sees what others have committed; a row that a request has     *)
(* deleted or updated stays locked, and visible to others as it was, until *)
(* that request commits.                                                   *)
(*                                                                         *)
(* A step is one awaited statement.  Writes that the code sends with no    *)
(* read between them and the commit are one step with the commit.  Of the  *)
(* reads, those whose answer cannot matter are left out: the bus stop row  *)
(* (never deleted) and the reads after the last write of a call.           *)
(***************************************************************************)
EXTENDS FavoriteTables

CONSTANTS
    Req,          \* request slots of the server: requests in flight at once
    Kinds,        \* the kinds of request that arrive
    Registered,   \* devices that have called before
    OnePerUser,   \* TRUE: a device waits for an answer before its next call
    CacheFaults,  \* TRUE: a Redis command may fail, which CacheService swallows
    Crashes       \* TRUE: the server may be restarted

ASSUME RegisteredAssumption == Registered \subseteq User
ASSUME SwitchAssumption == {OnePerUser, CacheFaults, Crashes} \subseteq BOOLEAN

VARIABLE
    req           \* req[r]: the request in slot r, where it is, what it holds

vars == <<users, groups, items, aliases, home, req>>

\* The payload of a request, its local variables, and the locks of its session.
Idle ==
    [at |-> "idle", kind |-> NoValue, user |-> NoValue,
     group |-> NoValue, item |-> NoValue, stop |-> NoValue, service |-> NoValue,
     name |-> NoValue, order |-> NoValue, orders |-> NoValue, emoji |-> FALSE,
     alias |-> NoValue, cards |-> {}, view |-> NoValue, held |-> {}]

Calls ==
    [kind : {"create_group"}, name : Name, order : Order]
    \cup [kind : {"update_group"}, group : GroupId, name : Name \cup {NoValue},
          order : Order \cup {NoValue}, emoji : BOOLEAN]
    \cup [kind : {"delete_group"}, group : GroupId]
    \cup [kind : {"create_favorite"}, group : GroupId \cup {NoValue},
          stop : Stop, service : Service]
    \cup [kind : {"reorder_favorites"},
          orders : UNION {[S -> Order] : S \in (SUBSET ItemId) \ {{}}}]
    \cup [kind : {"delete_favorite"}, item : ItemId]
    \cup [kind : {"upsert_alias"}, stop : Stop, name : Name]
    \cup [kind : {"delete_alias"}, stop : Stop]
    \cup [kind : {"get_home"}]

-----------------------------------------------------------------------------
(* Control and locks. *)

At(r, label) == req[r].at = label
Goto(r, label) == req' = [req EXCEPT ![r].at = label]

\* Mutant: a failed request keeps its session, and so its locks.
FinishLeakingLocks(r) == req' = [req EXCEPT ![r] = [Idle EXCEPT !.held = req[r].held]]

\* The answer, or the error that closes the session and rolls it back.
Finish(r) == req' = [req EXCEPT ![r] = Idle]

\* The commit ends the locks; what is left of a write is the invalidation.
Committed(r) == req' = [req EXCEPT ![r].at = "invalidate", ![r].held = {}]

Reads(r, label) == At(r, label) /\ UNCHANGED <<users, tables, home>>

Free(r, rows) == \A q \in Req \ {r} : req[q].held \cap rows = {}

AliasKey(r) == <<req[r].user, req[r].stop>>

\* The row ids that a request holds.
Ids(q) ==
    {q.group, q.item} \cup q.cards
    \cup IF q.kind = "reorder_favorites" THEN DOMAIN q.orders ELSE {}

\* A uuid4 is new: no row, no cached payload and no request in flight has it.
Mentioned ==
    UNION {Ids(req[q]) : q \in Req}
    \cup UNION {DOMAIN home[u].groups \cup DOMAIN home[u].items :
                    u \in {v \in User : home[v] # NoHome}}
    \cup UNION {DOMAIN req[q].view.groups \cup DOMAIN req[q].view.items :
                    q \in {p \in Req : req[p].view # NoValue}}

NewGroupId == GroupId \ (DOMAIN groups \cup Mentioned)
NewItemId == ItemId \ (DOMAIN items \cup Mentioned)

-----------------------------------------------------------------------------
(* The beginning of every request. *)

\* Clients name rows that exist; a row may be gone when it is looked up.
Names(call) ==
    /\ "group" \in DOMAIN call => call.group \in DOMAIN groups \cup {NoValue}
    /\ "item" \in DOMAIN call => call.item \in DOMAIN items
    /\ "orders" \in DOMAIN call => DOMAIN call.orders \subseteq DOMAIN items

\* Bound: the pools have an id for every request in flight that may insert.
Spare(kinds, pool) ==
    Cardinality({q \in Req : req[q].kind \in kinds}) < Cardinality(pool)
IdsLeft(kind) ==
    /\ kind \in {"create_group", "create_favorite"} =>
        Spare({"create_group", "create_favorite"}, NewGroupId)
    /\ kind = "create_favorite" => Spare({"create_favorite"}, NewItemId)

Begin(r, u, call) ==
    /\ Reads(r, "idle")
    /\ call.kind \in Kinds
    /\ Names(call)
    /\ IdsLeft(call.kind)
    /\ OnePerUser => \A q \in Req : req[q].user # u
    /\ req' = [req EXCEPT ![r] =
                Merge(call, [Idle EXCEPT
                    !.user = u, !.at = IF call.kind = "get_home" THEN "get_home" ELSE "user"])]

\* The first statement of a kind of request once its user is known.
Entry(r) ==
    CASE req[r].kind = "create_group" -> "insert_group"
      [] req[r].kind = "update_group" -> "require_group"
      [] req[r].kind = "delete_group" -> "require_group"
      [] req[r].kind = "create_favorite" ->
            IF req[r].group = NoValue THEN "find_favorite" ELSE "require_group"
      [] req[r].kind = "reorder_favorites" -> "find_favorites"
      [] req[r].kind = "delete_favorite" -> "require_favorite"
      [] req[r].kind = "upsert_alias" -> "find_alias"
      [] req[r].kind = "delete_alias" -> "drop_alias"
      [] req[r].kind = "get_home" -> "list_groups"

FindUser(r) ==
    /\ Reads(r, "user")
    /\ Goto(r, IF req[r].user \in users THEN Entry(r) ELSE "new_user")

\* Two first requests of a device race here: the unique device_id refuses one.
InsertUser(r) ==
    /\ At(r, "new_user")
    /\ IF req[r].user \in users THEN Finish(r) ELSE Goto(r, Entry(r))
    /\ users' = users \cup {req[r].user}
    /\ UNCHANGED <<tables, home>>

-----------------------------------------------------------------------------
(* Calls on cards. *)

InsertGroup(r) ==
    /\ At(r, "insert_group")
    /\ \E g \in NewGroupId :
        groups' = Put(groups, g, [user |-> req[r].user, name |-> req[r].name,
                                  order |-> req[r].order])
    /\ Committed(r)
    /\ UNCHANGED <<users, items, aliases, home>>

\* An update_group with nothing to set ends here: it neither writes nor
\* invalidates.
RequireGroup(r) ==
    /\ Reads(r, "require_group")
    /\ LET q == req[r]
           empty == q.name = NoValue /\ q.order = NoValue /\ ~q.emoji
       IN IF q.group \notin GroupsOf(q.user) \/ (q.kind = "update_group" /\ empty)
          THEN Finish(r)
          ELSE Goto(r, CASE q.kind = "create_favorite" -> "first_stop"
                         [] q.kind = "delete_group" -> "lock_group"
                         [] q.kind = "update_group" ->
                                IF q.name = NoValue THEN "update_group" ELSE "card_stop")

\* _sync_group_name_to_alias: the station of the card, then its alias.
CardStop(r) ==
    /\ Reads(r, "card_stop")
    /\ IF ItemsIn(req[r].group) = {} THEN Goto(r, "update_group")
       ELSE \E i \in ItemsIn(req[r].group) :
            req' = [req EXCEPT ![r].stop = items[i].stop, ![r].at = "find_alias"]

FindAlias(r) ==
    /\ Reads(r, "find_alias")
    /\ req' = [req EXCEPT
                ![r].alias = IF AliasKey(r) \in DOMAIN aliases
                             THEN aliases[AliasKey(r)] ELSE NoValue,
                ![r].at = IF req[r].kind = "update_group" THEN "update_group" ELSE "write_alias"]

\* Mutant: an alias the user already has is not updated.
WritesNewAlias(r) == req[r].stop # NoValue /\ req[r].alias = NoValue

\* The session writes the alias only if the value it read differs: an update
\* of a row that has gone or an insert of one that has come fails.
WritesAlias(r) == req[r].stop # NoValue /\ req[r].alias # req[r].name
AliasWriteFails(r) ==
    WritesAlias(r) /\ (req[r].alias = NoValue <=> AliasKey(r) \in DOMAIN aliases)

\* A card deleted meanwhile is not updated, but the alias is written.
UpdateGroup(r) ==
    /\ At(r, "update_group")
    /\ Free(r, {req[r].group} \cup IF WritesAlias(r) THEN {AliasKey(r)} ELSE {})
    /\ LET q == req[r]
       IN IF AliasWriteFails(r) THEN Finish(r) /\ UNCHANGED tables
          ELSE /\ aliases' = IF WritesAlias(r) THEN Put(aliases, AliasKey(r), q.name)
                             ELSE aliases
               /\ groups' = [g \in DOMAIN groups |->
                                IF g = q.group THEN Patch(groups[g], q.name, q.order)
                                ELSE groups[g]]
               /\ Goto(r, "reread_group")
               /\ UNCHANGED items
    /\ UNCHANGED <<users, home>>

\* Only a card that is still there makes update_group invalidate the home cache.
RereadGroup(r) ==
    /\ Reads(r, "reread_group")
    /\ IF req[r].group \in DOMAIN groups THEN Committed(r) ELSE Finish(r)

\* DELETE of the card's row, which locks it; then the cascade to its items.
LockGroup(r) ==
    /\ Reads(r, "lock_group")
    /\ Free(r, {req[r].group})
    /\ req' = [req EXCEPT ![r].held = @ \cup ({req[r].group} \cap DOMAIN groups),
                          ![r].at = "delete_group"]

DeleteGroup(r) ==
    /\ At(r, "delete_group")
    /\ req[r].group \in req[r].held => Free(r, ItemsIn(req[r].group))
    /\ groups' = Drop(groups, req[r].held)
    /\ items' = Drop(items, UNION {ItemsIn(g) : g \in req[r].held})
    /\ Committed(r)
    /\ UNCHANGED <<users, aliases, home>>

-----------------------------------------------------------------------------
(* create_favorite. *)

FirstStop(r) ==
    /\ Reads(r, "first_stop")
    /\ \E g \in ExplicitTargets(req[r].group, req[r].stop) :
        req' = [req EXCEPT ![r].group = g, ![r].at = "find_favorite"]

\* One row found: the favourite is returned, or 409.  Several rows found:
\* scalar_one_or_none raises.  Each ends the request without a write.
FindFavorite(r) ==
    /\ Reads(r, "find_favorite")
    /\ IF FavoritesAt(req[r].user, req[r].stop, req[r].service) # {} THEN Finish(r)
       ELSE Goto(r, IF req[r].group = NoValue THEN "find_card" ELSE "check_card")

FindCard(r) ==
    /\ Reads(r, "find_card")
    /\ IF CardsFor(req[r].user, req[r].stop) = {} THEN Goto(r, "card_order")
       ELSE \E g \in FirstCards(req[r].user, req[r].stop) :
                req' = [req EXCEPT ![r].group = g, ![r].at = "check_card"]

OnCard(g, s, v) == {i \in ItemsIn(g) : items[i].stop = s /\ items[i].service = v}

\* _ensure_favorite_not_exists
CheckCard(r) ==
    /\ Reads(r, "check_card")
    /\ IF OnCard(req[r].group, req[r].stop, req[r].service) # {} THEN Finish(r)
       ELSE Goto(r, "item_order")

ItemOrder(r) ==
    /\ Reads(r, "item_order")
    /\ \E n \in Order :
        /\ IsNextOrder(n, {items[i].order : i \in ItemsIn(req[r].group)})
        /\ req' = [req EXCEPT ![r].order = n, ![r].at = "insert_item"]

InsertRow(r, i, g, order) ==
    items' = Put(items, i, [group |-> g, stop |-> req[r].stop,
                            service |-> req[r].service, order |-> order])

\* The foreign key waits for a card that is being deleted and fails once it
\* has gone; the unique (card, stop, service) waits for and meets a committed row.
InsertItem(r) ==
    /\ At(r, "insert_item")
    /\ LET g == req[r].group
           clash == OnCard(g, req[r].stop, req[r].service)
       IN /\ Free(r, {g} \cup clash)
          /\ IF g \notin DOMAIN groups \/ clash # {} THEN Finish(r) /\ UNCHANGED items
             ELSE /\ \E i \in NewItemId : InsertRow(r, i, g, req[r].order)
                  /\ Committed(r)
    /\ UNCHANGED <<users, groups, aliases, home>>

CardOrder(r) ==
    /\ Reads(r, "card_order")
    /\ \E n \in Order :
        /\ IsNextOrder(n, {groups[g].order : g \in GroupsOf(req[r].user)})
        /\ req' = [req EXCEPT ![r].order = n, ![r].at = "card_name"]

CardName(r) ==
    /\ Reads(r, "card_name")
    /\ req' = [req EXCEPT ![r].name = DisplayName(req[r].user, req[r].stop),
                          ![r].at = "insert_card"]

\* The card is flushed and the item added in one transaction.
InsertCard(r) ==
    /\ At(r, "insert_card")
    /\ \E g \in NewGroupId, i \in NewItemId :
        /\ groups' = Put(groups, g, [user |-> req[r].user, name |-> req[r].name,
                                     order |-> req[r].order])
        /\ InsertRow(r, i, g, 0)
    /\ Committed(r)
    /\ UNCHANGED <<users, aliases, home>>

-----------------------------------------------------------------------------
(* reorder_favorites and delete_favorite. *)

FindFavorites(r) ==
    /\ Reads(r, "find_favorites")
    /\ IF DOMAIN req[r].orders \subseteq ItemsOf(req[r].user) THEN Goto(r, "set_orders")
       ELSE Finish(r)

\* Items deleted since they were found are passed over.
SetOrders(r) ==
    /\ At(r, "set_orders")
    /\ Free(r, DOMAIN req[r].orders)
    /\ items' = [i \in DOMAIN items |->
                    IF i \in DOMAIN req[r].orders
                    THEN [items[i] EXCEPT !.order = req[r].orders[i]] ELSE items[i]]
    /\ Committed(r)
    /\ UNCHANGED <<users, groups, aliases, home>>

\* Mutant: the owner of the favourite's card is not compared with the caller.
RequireAnyFavorite(r) ==
    /\ Reads(r, "require_favorite")
    /\ IF req[r].item \in DOMAIN items
       THEN req' = [req EXCEPT ![r].group = items[req[r].item].group, ![r].at = "delete_item"]
       ELSE Finish(r)

RequireFavorite(r) ==
    /\ Reads(r, "require_favorite")
    /\ IF req[r].item \in ItemsOf(req[r].user)
       THEN req' = [req EXCEPT ![r].group = items[req[r].item].group, ![r].at = "delete_item"]
       ELSE Finish(r)

\* The deleted row is locked, and gone for this session only.
DeleteItem(r) ==
    /\ Reads(r, "delete_item")
    /\ Free(r, {req[r].item})
    /\ req' = [req EXCEPT ![r].held = {req[r].item} \cap DOMAIN items,
                          ![r].at = "count_left"]

CountLeft(r) ==
    /\ Reads(r, "count_left")
    /\ Goto(r, IF ItemsIn(req[r].group) \subseteq req[r].held
               THEN "delete_empty_card" ELSE "commit_item")

CommitItem(r) ==
    /\ At(r, "commit_item")
    /\ items' = Drop(items, req[r].held)
    /\ Committed(r)
    /\ UNCHANGED <<users, groups, aliases, home>>

DeleteEmptyCard(r) ==
    /\ At(r, "delete_empty_card")
    /\ Free(r, {req[r].group} \cup ItemsIn(req[r].group))
    /\ groups' = Drop(groups, {req[r].group})
    /\ items' = Drop(items, req[r].held \cup ItemsIn(req[r].group))
    /\ Committed(r)
    /\ UNCHANGED <<users, aliases, home>>

-----------------------------------------------------------------------------
(* Aliases.  The session sends the alias row before the next SELECT. *)

WriteAlias(r) ==
    /\ Reads(r, "write_alias")
    /\ WritesAlias(r) => Free(r, {AliasKey(r)})
    /\ IF AliasWriteFails(r) THEN Finish(r)
       ELSE req' = [req EXCEPT ![r].held = IF WritesAlias(r) THEN {AliasKey(r)} ELSE {},
                               ![r].at = "alias_cards"]

\* A DELETE waits for a row that another call has locked; it does not see one
\* whose insertion is not committed.
DropAlias(r) ==
    /\ Reads(r, "drop_alias")
    /\ Free(r, {AliasKey(r)} \cap DOMAIN aliases)
    /\ req' = [req EXCEPT ![r].held = {AliasKey(r)} \cap DOMAIN aliases,
                          ![r].name = Description[req[r].stop],
                          ![r].at = "alias_cards"]

AliasCards(r) ==
    /\ Reads(r, "alias_cards")
    /\ req' = [req EXCEPT ![r].cards = CardsFor(req[r].user, req[r].stop),
                          ![r].at = "commit_alias"]

CommitAlias(r) ==
    /\ At(r, "commit_alias")
    /\ Free(r, req[r].cards)
    /\ aliases' = IF req[r].held = {} THEN aliases
                  ELSE IF req[r].kind = "upsert_alias"
                       THEN Put(aliases, AliasKey(r), req[r].name)
                       ELSE Drop(aliases, {AliasKey(r)})
    /\ groups' = Rename(req[r].cards, req[r].name)
    /\ Committed(r)
    /\ UNCHANGED <<users, items, home>>

-----------------------------------------------------------------------------
(* The home cache. *)

InvalidateHome(r) ==
    /\ At(r, "invalidate")
    /\ \/ home' = Invalidate(req[r].user)
       \/ CacheFaults /\ home' = home
    /\ Finish(r)
    /\ UNCHANGED <<users, tables>>

GetHome(r) ==
    /\ Reads(r, "get_home")
    /\ \/ home[req[r].user] # NoHome /\ Finish(r)
       \/ (home[req[r].user] = NoHome \/ CacheFaults) /\ Goto(r, "user")

ListGroups(r) ==
    /\ Reads(r, "list_groups")
    /\ LET own == GroupsOf(req[r].user)
       IN req' = [req EXCEPT
                    ![r].view = [groups |-> Restrict(groups, own),
                                 items |-> EmptyTable, names |-> EmptyTable],
                    ![r].cards = own,
                    ![r].at = "list_items"]

\* One card: its items and the display names of their stations.
ListItems(r) ==
    /\ Reads(r, "list_items")
    /\ \E g \in req[r].cards :
        LET read == Restrict(items, ItemsIn(g))
            stops == {read[i].stop : i \in DOMAIN read}
        IN req' = [req EXCEPT
                    ![r].view.items = Merge(@, read),
                    ![r].view.names = Merge([s \in stops |-> DisplayName(req[r].user, s)], @),
                    ![r].cards = @ \ {g}]

\* The payload is cached once every card has been read.
SetHome(r) ==
    /\ At(r, "list_items")
    /\ req[r].cards = {}
    /\ home' = [home EXCEPT ![req[r].user] = req[r].view]
    /\ Finish(r)
    /\ UNCHANGED <<users, tables>>

\* Mutant: the payload is stored without a time to live.
NeverExpire(u) == FALSE

ExpireHome(u) ==
    /\ home[u] # NoHome
    /\ home' = [home EXCEPT ![u] = NoHome]
    /\ UNCHANGED <<users, tables, req>>

-----------------------------------------------------------------------------
(* What the database and the operator do to requests. *)

\* delete_group has the card and waits for an item; delete_favorite has the
\* item and waits for the card.  PostgreSQL's deadlock detector aborts one.
Deadlocked(r, q) ==
    /\ At(r, "delete_group")
    /\ At(q, "delete_empty_card")
    /\ req[q].group \in req[r].held
    /\ ~Free(r, ItemsIn(req[q].group))

AbortDeadlock(r) ==
    /\ \E q \in Req : Deadlocked(r, q) \/ Deadlocked(q, r)
    /\ Finish(r)
    /\ UNCHANGED <<users, tables, home>>

\* A restart of the server rolls every open transaction back.
Crash ==
    /\ Crashes
    /\ \E r \in Req : ~At(r, "idle")
    /\ req' = [r \in Req |-> Idle]
    /\ UNCHANGED <<users, tables, home>>

-----------------------------------------------------------------------------
Init ==
    /\ users = Registered
    /\ groups = EmptyTable
    /\ items = EmptyTable
    /\ aliases = EmptyTable
    /\ home = [u \in User |-> NoHome]
    /\ req = [r \in Req |-> Idle]

CardStep(r) ==
    InsertGroup(r) \/ RequireGroup(r) \/ CardStop(r) \/ UpdateGroup(r)
    \/ RereadGroup(r) \/ LockGroup(r) \/ DeleteGroup(r)

CreateStep(r) ==
    FirstStop(r) \/ FindFavorite(r) \/ FindCard(r) \/ CheckCard(r) \/ ItemOrder(r)
    \/ InsertItem(r) \/ CardOrder(r) \/ CardName(r) \/ InsertCard(r)

ItemStep(r) ==
    FindFavorites(r) \/ SetOrders(r) \/ RequireFavorite(r) \/ DeleteItem(r)
    \/ CountLeft(r) \/ CommitItem(r) \/ DeleteEmptyCard(r)

AliasStep(r) ==
    FindAlias(r) \/ WriteAlias(r) \/ DropAlias(r) \/ AliasCards(r) \/ CommitAlias(r)

HomeStep(r) ==
    InvalidateHome(r) \/ GetHome(r) \/ ListGroups(r) \/ ListItems(r) \/ SetHome(r)

\* A step of a request that has begun.
Step(r) ==
    FindUser(r) \/ InsertUser(r) \/ CardStep(r) \/ CreateStep(r) \/ ItemStep(r)
    \/ AliasStep(r) \/ HomeStep(r) \/ AbortDeadlock(r)

Next ==
    \/ \E r \in Req : Step(r)
    \/ \E r \in Req, u \in User, call \in Calls : Begin(r, u, call)
    \/ \E u \in User : ExpireHome(u)
    \/ Crash

\* The event loop runs every coroutine whose statement has been answered, and
\* Redis expires what is past its time.  A statement that waits for a lock
\* stands in PostgreSQL's queue for that lock, so it is served although others
\* take the lock again and again: strong fairness.  No request need ever come.
Fairness ==
    /\ \A r \in Req : SF_vars(Step(r))
    /\ \A u \in User : WF_vars(ExpireHome(u))

Spec == Init /\ [][Next]_vars /\ Fairness

-----------------------------------------------------------------------------
(* Properties. *)

TypeOK ==
    /\ users \subseteq User
    /\ groups \in [DOMAIN groups -> GroupRow] /\ DOMAIN groups \subseteq GroupId
    /\ items \in [DOMAIN items -> ItemRow] /\ DOMAIN items \subseteq ItemId
    /\ aliases \in [DOMAIN aliases -> Name] /\ DOMAIN aliases \subseteq User \X Stop
    /\ \A r \in Req : DOMAIN req[r] = DOMAIN Idle /\ (At(r, "idle") => req[r] = Idle)

\* Between the commit of a write and its invalidation the serial machine has
\* no cached payload for the user: it does both at once.
Writing(u) == \E r \in Req : req[r].user = u /\ req[r].at \in {"invalidate", "reread_group"}

Serial == INSTANCE Favorites WITH
            home <- [u \in User |-> IF Writing(u) THEN NoHome ELSE home[u]]

\* The API behaves as if calls ran one after the other.
ImplementsSerial == Serial!Spec

\* The rows of one user, in all tables, and what a request would show of them.
RowsOf(u) ==
    <<GroupsOf(u), ItemsOf(u), {k \in DOMAIN aliases : k[1] = u}, HomeView(u)>>

\* The rows of a device, and its cached payload but for its expiry, change only
\* in a step of one of its own requests, whichever ids other devices name.
OnlyOwnRequests ==
    [][\A u \in User :
        \/ UNCHANGED RowsOf(u) /\ home'[u] \in {home[u], NoHome}
        \/ \E r \in Req : req[r].user = u /\ req'[r] # req[r]]_vars

\* Every request is answered, locks and deadlocks notwithstanding.
EveryRequestEnds == \A r \in Req : ~At(r, "idle") ~> At(r, "idle")

\* Once the tables no longer change, what the cache serves is in the end what
\* the tables hold: a stale payload lives no longer than its time to live.
HomeBecomesFresh ==
    <>[][UNCHANGED <<users, tables>>]_vars
        => \A u \in User : <>[](home[u] # NoHome => home[u] = HomeView(u))

\* With no call of the user in flight, the cache serves what the tables hold.
HomeFreshAtRest ==
    \A u \in User :
        home[u] # NoHome /\ (\A r \in Req : req[r].user # u) => home[u] = HomeView(u)

\* delete_favorite removes the favourite it names and no other.
DeletesOnlyItsItem ==
    [][\A r \in Req : At(r, "delete_empty_card") /\ DeleteEmptyCard(r)
        => DOMAIN items \ DOMAIN items' \subseteq {req[r].item}]_vars

\* A card that had favourites and is still there has some.
CardsAreNeverEmptied ==
    [][\A g \in DOMAIN groups \cap DOMAIN groups' :
        ItemsIn(g) # {} => \E i \in DOMAIN items' : items'[i].group = g]_vars
=============================================================================
