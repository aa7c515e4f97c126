--------------------------- MODULE RequestsProofs ---------------------------
(***************************************************************************)
(* Theorems about FavoriteRequests, for any number of requests in flight   *)
(* whose statements interleave in any order: types, foreign keys, the      *)
(* isolation of devices, and the refinement of the serial machine.         *)
(***************************************************************************)
EXTENDS FavoriteRequests, TLAPS

Fields == {"at", "kind", "user", "group", "item", "stop", "service", "name", "order",
           "orders", "emoji", "alias", "cards", "view", "held"}

WholeIn(record, fields) == DOMAIN record = fields /\ record = [f \in fields |-> record[f]]

-----------------------------------------------------------------------------
(* The statements that each kind of request comes to, and what the request  *)
(* holds then.                                                              *)

Statement(q) ==
    /\ q.at = "insert_group" => q.kind = "create_group"
    /\ q.at \in {"card_stop", "update_group", "reread_group"} => q.kind = "update_group"
    /\ q.at \in {"lock_group", "delete_group"} => q.kind = "delete_group"
    /\ q.at = "require_group" => q.kind \in {"update_group", "delete_group", "create_favorite"}
    /\ q.at \in {"first_stop", "find_favorite", "find_card", "check_card", "item_order",
                 "insert_item", "card_order", "card_name", "insert_card"}
         => q.kind = "create_favorite"
    /\ q.at \in {"find_favorites", "set_orders"} => q.kind = "reorder_favorites"
    /\ q.at \in {"require_favorite", "delete_item", "count_left", "commit_item",
                 "delete_empty_card"} => q.kind = "delete_favorite"
    /\ q.at = "find_alias" => q.kind \in {"update_group", "upsert_alias"}
    /\ q.at = "write_alias" => q.kind = "upsert_alias"
    /\ q.at = "drop_alias" => q.kind = "delete_alias"
    /\ q.at \in {"alias_cards", "commit_alias"} => q.kind \in {"upsert_alias", "delete_alias"}
    /\ q.at \in {"get_home", "list_groups", "list_items"} => q.kind = "get_home"

Payload(q) ==
    /\ q.group \in GroupId \cup {NoValue} /\ q.stop \in Stop \cup {NoValue}
    /\ q.name \in Name \cup {NoValue} /\ q.order \in Order \cup {NoValue}
    /\ q.alias \in Name \cup {NoValue}
    /\ q.kind = "create_group" => q.name \in Name /\ q.order \in Order
    /\ q.kind = "update_group" => q.group \in GroupId /\ (q.stop # NoValue => q.name \in Name)
    /\ q.kind = "delete_group" => q.group \in GroupId
    /\ q.kind = "create_favorite" => q.stop \in Stop /\ q.service \in Service
    /\ q.kind = "reorder_favorites" =>
        /\ DOMAIN q.orders \in (SUBSET ItemId) \ {{}}
        /\ q.orders \in [DOMAIN q.orders -> Order]
    /\ q.kind = "delete_favorite" => q.item \in ItemId
    /\ q.kind \in {"upsert_alias", "delete_alias"} => q.stop \in Stop
    /\ q.kind = "upsert_alias" => q.name \in Name
    /\ q.kind \notin {"update_group", "delete_group", "create_favorite", "delete_favorite"}
         => q.group = NoValue
    /\ q.at = "card_stop" => q.name \in Name
    /\ q.at = "find_alias" => q.stop \in Stop
    /\ q.at \in {"check_card", "item_order", "insert_item"} => q.group \in GroupId
    /\ q.at \in {"insert_item", "card_name", "insert_card"} => q.order \in Order
    /\ q.at \in {"insert_card", "alias_cards", "commit_alias"} => q.name \in Name

KindOf == {"create_group", "update_group", "delete_group", "create_favorite",
           "reorder_favorites", "delete_favorite", "upsert_alias", "delete_alias", "get_home"}

Typed(q) ==
    /\ WholeIn(q, Fields)
    /\ q.at = "idle" => q = Idle
    /\ q.at # "idle" => q.user \in User /\ q.kind \in KindOf /\ Payload(q)
    /\ Statement(q)

RequestsTyped ==
    /\ req = [r \in Req |-> req[r]]
    /\ home = [u \in User |-> home[u]]
    /\ \A r \in Req : Typed(req[r])

-----------------------------------------------------------------------------
(* What a request has found to be its user's stays that user's, if it is    *)
(* there at all: rows change neither their card nor their user, and an id   *)
(* that a request holds is not given to a new row.                          *)

Mine(u, g) == g \in DOMAIN groups => groups[g].user = u
MyItem(u, i) == i \in DOMAIN items => items[i].group \in GroupsOf(u)

Unfound == {"idle", "user", "new_user", "get_home", "require_group", "require_favorite",
            "invalidate"}

Owns(q) ==
    /\ q.at \notin {"idle", "user", "new_user", "get_home"} => q.user \in users
    /\ q.at \notin Unfound => Mine(q.user, q.group)
    /\ q.at \in {"delete_item", "count_left", "commit_item", "delete_empty_card"} =>
        MyItem(q.user, q.item)
    /\ q.at = "set_orders" => \A i \in DOMAIN q.orders : MyItem(q.user, i)
    /\ q.at = "commit_alias" => \A g \in q.cards : Mine(q.user, g)
    /\ q.kind = "delete_group" => q.held \subseteq {q.group}
    /\ q.kind = "delete_favorite" => q.held \subseteq {q.item}

RequestsOwn == \A r \in Req : Owns(req[r])

RequestsInv == TypeOK /\ ForeignKeys /\ RequestsTyped /\ RequestsOwn

-----------------------------------------------------------------------------
(* What one step of a request may do to the tables.                         *)

\* Rows keep their card and their user; new rows have new ids.
KeepsOwners ==
    /\ users \subseteq users'
    /\ \A g \in DOMAIN groups' :
        IF g \in DOMAIN groups THEN groups'[g].user = groups[g].user ELSE g \in NewGroupId
    /\ \A i \in DOMAIN items' :
        IF i \in DOMAIN items THEN items'[i].group = items[i].group ELSE i \in NewItemId

\* Nothing of what another user has is touched.
TouchesOnly(u) ==
    /\ \A g \in DOMAIN groups : groups[g].user # u => g \in DOMAIN groups' /\ groups'[g] = groups[g]
    /\ \A g \in DOMAIN groups' : g \notin DOMAIN groups => groups'[g].user = u
    /\ \A i \in DOMAIN items :
        items[i].group \notin GroupsOf(u) => i \in DOMAIN items' /\ items'[i] = items[i]
    /\ \A i \in DOMAIN items' : i \notin DOMAIN items =>
        items'[i].group \in DOMAIN groups' /\ groups'[items'[i].group].user = u
    /\ \A v \in User \ {u}, s \in Stop :
        /\ <<v, s>> \in DOMAIN aliases' <=> <<v, s>> \in DOMAIN aliases
        /\ <<v, s>> \in DOMAIN aliases => aliases'[<<v, s>>] = aliases[<<v, s>>]
    /\ \A v \in User \ {u} : home'[v] = home[v] /\ (v \in users' <=> v \in users)

Others(r) == \A q \in Req \ {r} : req'[q] = req[q]

-----------------------------------------------------------------------------
(* The steps that write nothing.                                            *)

\* What no step changes of a request, and what few do.
SameCall(p, q) ==
    /\ WholeIn(p, Fields) /\ p.kind = q.kind /\ p.user = q.user /\ p.item = q.item
    /\ p.service = q.service /\ p.orders = q.orders /\ p.emoji = q.emoji

SameRows(p, q) ==
    p.group = q.group /\ p.stop = q.stop /\ p.name = q.name /\ p.order = q.order /\ p.alias = q.alias

SameSets(p, q) == p.cards = q.cards /\ p.held = q.held

\* The request goes on in a state that fits the tables.
Advances(r) ==
    /\ req' = [q \in Req |-> req'[q]] /\ Others(r)
    /\ Typed(req'[r]) /\ Owns(req'[r])

LEMMA DisplayNameType ==
    ASSUME TypeOK, NEW u \in User, NEW s \in Stop
    PROVE  DisplayName(u, s) \in Name
BY DescriptionAssumption DEF TypeOK, DisplayName

LEMMA NoValueIsNoCard == TypeOK => \A u : Mine(u, NoValue)
BY NoValueAssumption DEF TypeOK, Mine

LEMMA IdleFits == Typed(Idle) /\ Owns(Idle)
<1>1. WholeIn(Idle, Fields)
  BY DEF Idle, WholeIn, Fields
<1>2. Statement(Idle) /\ Owns(Idle) /\ Idle.at = "idle"
  BY DEF Idle, Statement, Owns, Unfound
<1> QED  BY <1>1, <1>2 DEF Typed

LEMMA Finishes ==
    ASSUME RequestsInv, NEW r \in Req, Finish(r)
    PROVE  Advances(r)
<1>1. req'[r] = Idle /\ req' = [x \in Req |-> req'[x]] /\ Others(r)
  BY DEF RequestsInv, RequestsTyped, Finish, Others
<1>2. Typed(req'[r]) /\ Owns(req'[r])
  BY <1>1, IdleFits
<1> QED  BY <1>1, <1>2 DEF Advances

LEMMA UserSteps ==
    ASSUME RequestsInv, NEW r \in Req, FindUser(r) \/ GetHome(r) \/ AbortDeadlock(r)
    PROVE  Advances(r)
<1> DEFINE q == req[r]
           p == req'[r]
<1>1. Typed(q) /\ Owns(q) /\ req = [x \in Req |-> req[x]] /\ \A u : Mine(u, NoValue)
  BY NoValueIsNoCard DEF RequestsInv, RequestsTyped, RequestsOwn
<1>2. CASE FindUser(r)
  <2>1. q.at = "user" /\ q.kind \in KindOf /\ q.user \in User
    BY <1>1, <1>2 DEF FindUser, Reads, At, Typed
  <2>2. PICK label : /\ req' = [req EXCEPT ![r] = [@ EXCEPT !.at = label]]
                     /\ label = IF q.user \in users THEN Entry(r) ELSE "new_user"
    BY <1>2 DEF FindUser, Goto
  <2>3. req' = [x \in Req |-> req'[x]] /\ Others(r)
    BY <1>1, <2>2 DEF Others
  <2>4. SameCall(p, q) /\ SameRows(p, q) /\ SameSets(p, q) /\ p.at = label
    BY <1>1, <2>2 DEF Typed, WholeIn, Fields, SameCall, SameRows, SameSets
  <2>5. label # "new_user" =>
          /\ q.user \in users
          /\ q.kind = "create_group" => label = "insert_group"
          /\ q.kind \in {"update_group", "delete_group"} => label = "require_group"
          /\ q.kind = "create_favorite" => label = IF q.group = NoValue THEN "find_favorite"
                                                    ELSE "require_group"
          /\ q.kind = "reorder_favorites" => label = "find_favorites"
          /\ q.kind = "delete_favorite" => label = "require_favorite"
          /\ q.kind = "upsert_alias" => label = "find_alias"
          /\ q.kind = "delete_alias" => label = "drop_alias"
          /\ q.kind = "get_home" => label = "list_groups"
    BY <2>2 DEF Entry
  <2>6. Statement(p)
    BY <2>1, <2>4, <2>5 DEF Statement, KindOf, SameCall
  <2>7. Payload(p)
    BY <1>1, <2>1, <2>4, <2>5 DEF Typed, Payload, KindOf, SameCall, SameRows
  <2>8. Owns(p)
    BY <1>1, <2>1, <2>4, <2>5 DEF Typed, Payload, KindOf, SameCall, SameRows, SameSets, Owns, Unfound
  <2>9. p.at # "idle"
    BY <2>1, <2>4, <2>5 DEF KindOf
  <2> QED  BY <2>1, <2>3, <2>4, <2>6, <2>7, <2>8, <2>9 DEF Advances, Typed, SameCall
<1>3. CASE GetHome(r)
  <2>1. q.at = "get_home" /\ q.kind = "get_home" /\ q.user \in User
    BY <1>1, <1>3 DEF GetHome, Reads, At, Typed, Statement
  <2>2. CASE Finish(r)
    BY <2>2, Finishes
  <2>3. CASE Goto(r, "user")
    <3>3. req' = [x \in Req |-> req'[x]] /\ Others(r)
      BY <1>1, <2>3 DEF Goto, Others
    <3>4. SameCall(p, q) /\ SameRows(p, q) /\ SameSets(p, q) /\ p.at = "user"
      BY <1>1, <2>3 DEF Goto, Typed, WholeIn, Fields, SameCall, SameRows, SameSets
    <3>5. Statement(p) /\ Payload(p) /\ Owns(p)
      BY <1>1, <2>1, <3>4 DEF Typed, Statement, Payload, SameCall, SameRows, SameSets, Owns, Unfound
    <3> QED  BY <2>1, <3>3, <3>4, <3>5 DEF Advances, Typed, SameCall, KindOf
  <2> QED  BY <1>3, <2>2, <2>3 DEF GetHome
<1>4. CASE AbortDeadlock(r)
  BY <1>4, Finishes DEF AbortDeadlock
<1> QED  BY <1>2, <1>3, <1>4

LEMMA CardSteps ==
    ASSUME RequestsInv, NEW r \in Req,
           RequireGroup(r) \/ CardStop(r) \/ RereadGroup(r) \/ LockGroup(r)
    PROVE  Advances(r)
<1> DEFINE q == req[r]
           p == req'[r]
<1>1. Typed(q) /\ Owns(q) /\ req = [x \in Req |-> req[x]] /\ \A u : Mine(u, NoValue)
  BY NoValueIsNoCard DEF RequestsInv, RequestsTyped, RequestsOwn
<1>2. CASE RequireGroup(r)
  <2>1. q.at = "require_group" /\ q.kind \in {"update_group", "delete_group", "create_favorite"}
        /\ q.user \in User
    BY <1>1, <1>2 DEF RequireGroup, Reads, At, Typed, Statement
  <2>2. CASE Finish(r)
    BY <2>2, Finishes
  <2>3. CASE ~Finish(r)
    <3>1. PICK label : /\ Goto(r, label) /\ q.group \in GroupsOf(q.user)
                       /\ q.kind = "create_favorite" => label = "first_stop"
                       /\ q.kind = "delete_group" => label = "lock_group"
                       /\ q.kind = "update_group" =>
                            label = IF q.name = NoValue THEN "update_group" ELSE "card_stop"
      BY <1>2, <2>1, <2>3 DEF RequireGroup
    <3>2. req' = [x \in Req |-> req'[x]] /\ Others(r)
      BY <1>1, <3>1 DEF Goto, Others
    <3>3. SameCall(p, q) /\ SameRows(p, q) /\ SameSets(p, q) /\ p.at = label
      BY <1>1, <3>1 DEF Goto, Typed, WholeIn, Fields, SameCall, SameRows, SameSets
    <3>4. Mine(q.user, q.group)
      BY <3>1 DEF GroupsOf, Mine
    <3>5. Statement(p) /\ p.at # "idle"
      BY <2>1, <3>1, <3>3 DEF Statement, SameCall
    <3>6. Payload(p)
      BY <1>1, <2>1, <3>1, <3>3 DEF Typed, Payload, SameCall, SameRows
    <3>7. Owns(p)
      BY <1>1, <2>1, <3>1, <3>3, <3>4 DEF SameCall, SameRows, SameSets, Owns, Unfound
    <3> QED  BY <1>1, <2>1, <3>2, <3>3, <3>5, <3>6, <3>7 DEF Advances, Typed, SameCall
  <2> QED  BY <2>2, <2>3
<1>3. CASE CardStop(r)
  <2>1. q.at = "card_stop" /\ q.kind = "update_group" /\ q.user \in User
    BY <1>1, <1>3 DEF CardStop, Reads, At, Typed, Statement
  <2>2. CASE Goto(r, "update_group")
    <3>2. req' = [x \in Req |-> req'[x]] /\ Others(r)
      BY <1>1, <2>2 DEF Goto, Others
    <3>3. SameCall(p, q) /\ SameRows(p, q) /\ SameSets(p, q) /\ p.at = "update_group"
      BY <1>1, <2>2 DEF Goto, Typed, WholeIn, Fields, SameCall, SameRows, SameSets
    <3>4. Statement(p) /\ Payload(p) /\ Owns(p)
      BY <1>1, <2>1, <3>3 DEF Typed, Statement, Payload, SameCall, SameRows, SameSets, Owns, Unfound
    <3> QED  BY <1>1, <2>1, <3>2, <3>3, <3>4 DEF Advances, Typed, SameCall
  <2>3. ASSUME NEW i \in ItemsIn(q.group),
               req' = [req EXCEPT ![r].stop = items[i].stop, ![r].at = "find_alias"]
        PROVE  Advances(r)
    <3>1. items[i].stop \in Stop
      BY DEF ItemsIn, RequestsInv, TypeOK, ItemRow
    <3>2. req' = [x \in Req |-> req'[x]] /\ Others(r)
      BY <1>1, <2>3 DEF Others
    <3>3. SameCall(p, q) /\ SameSets(p, q) /\ p.at = "find_alias" /\ p.stop = items[i].stop
          /\ p.group = q.group /\ p.name = q.name /\ p.order = q.order /\ p.alias = q.alias
      BY <1>1, <2>3 DEF Typed, WholeIn, Fields, SameCall, SameSets
    <3>4. Statement(p) /\ Payload(p) /\ Owns(p)
      BY <1>1, <2>1, <3>1, <3>3 DEF Typed, Statement, Payload, SameCall, SameSets, Owns, Unfound
    <3> QED  BY <1>1, <2>1, <3>2, <3>3, <3>4 DEF Advances, Typed, SameCall
  <2> QED  BY <1>3, <2>2, <2>3 DEF CardStop
<1>4. CASE RereadGroup(r)
  <2>1. q.at = "reread_group" /\ q.kind = "update_group" /\ q.user \in User
    BY <1>1, <1>4 DEF RereadGroup, Reads, At, Typed, Statement
  <2>2. CASE Committed(r)
    <3>2. req' = [x \in Req |-> req'[x]] /\ Others(r)
      BY <1>1, <2>2 DEF Committed, Others
    <3>3. SameCall(p, q) /\ SameRows(p, q) /\ p.at = "invalidate" /\ p.held = {}
      BY <1>1, <2>2 DEF Committed, Typed, WholeIn, Fields, SameCall, SameRows
    <3>4. Statement(p) /\ Payload(p) /\ Owns(p)
      BY <1>1, <2>1, <3>3 DEF Typed, Statement, Payload, SameCall, SameRows, Owns, Unfound
    <3> QED  BY <1>1, <2>1, <3>2, <3>3, <3>4 DEF Advances, Typed, SameCall
  <2> QED  BY <1>4, <2>2, Finishes DEF RereadGroup
<1>5. CASE LockGroup(r)
  <2>1. q.at = "lock_group" /\ q.kind = "delete_group" /\ q.user \in User
    BY <1>1, <1>5 DEF LockGroup, Reads, At, Typed, Statement
  <2>2. req' = [x \in Req |-> req'[x]] /\ Others(r)
    BY <1>1, <1>5 DEF LockGroup, Others
  <2>3. SameCall(p, q) /\ SameRows(p, q) /\ p.at = "delete_group"
        /\ p.held = q.held \cup ({q.group} \cap DOMAIN groups)
    BY <1>1, <1>5 DEF LockGroup, Typed, WholeIn, Fields, SameCall, SameRows
  <2>4. Statement(p) /\ Payload(p) /\ Owns(p)
    BY <1>1, <2>1, <2>3 DEF Typed, Statement, Payload, SameCall, SameRows, Owns, Unfound
  <2> QED  BY <1>1, <2>1, <2>2, <2>3, <2>4 DEF Advances, Typed, SameCall
<1> QED  BY <1>2, <1>3, <1>4, <1>5

LEMMA CreateSteps ==
    ASSUME RequestsInv, NEW r \in Req,
           FirstStop(r) \/ FindFavorite(r) \/ FindCard(r) \/ CheckCard(r) \/ ItemOrder(r)
           \/ CardOrder(r) \/ CardName(r)
    PROVE  Advances(r)
<1> DEFINE q == req[r]
           p == req'[r]
<1>1. Typed(q) /\ Owns(q) /\ req = [x \in Req |-> req[x]] /\ \A u : Mine(u, NoValue)
  BY NoValueIsNoCard DEF RequestsInv, RequestsTyped, RequestsOwn
<1>2. CASE FirstStop(r)
  <2>1. q.at = "first_stop" /\ q.kind = "create_favorite" /\ q.user \in User
    BY <1>1, <1>2 DEF FirstStop, Reads, At, Typed, Statement
  <2>2. PICK g \in ExplicitTargets(q.group, q.stop) :
            req' = [req EXCEPT ![r].group = g, ![r].at = "find_favorite"]
    BY <1>2 DEF FirstStop
  <2>3. Mine(q.user, g) /\ g \in GroupId \cup {NoValue}
    BY <1>1, <2>1 DEF Owns, Unfound, ExplicitTargets, Typed, Payload
  <2>4. Advances(r)
    <3>2. req' = [x \in Req |-> req'[x]] /\ Others(r)
      BY <1>1, <2>2 DEF Others
    <3>3. SameCall(p, q) /\ p.stop = q.stop /\ p.name = q.name /\ p.order = q.order
          /\ p.alias = q.alias /\ SameSets(p, q) /\ p.at = "find_favorite" /\ p.group = g
      BY <1>1, <2>2 DEF Others, Typed, WholeIn, Fields, SameCall, SameSets
    <3>5. Statement(p) /\ Payload(p) /\ Owns(p)
      BY <1>1, <2>1, <3>3, <2>3 DEF Typed, Statement, Payload, SameCall, SameSets, Owns, Unfound
    <3> QED  BY <1>1, <2>1, <3>2, <3>3, <2>3, <3>5 DEF Advances, Typed, SameCall
  <2> QED  BY <2>4
<1>3. CASE FindFavorite(r)
  <2>1. q.at = "find_favorite" /\ q.kind = "create_favorite" /\ q.user \in User
    BY <1>1, <1>3 DEF FindFavorite, Reads, At, Typed, Statement
  <2>2. CASE Finish(r)
    BY <2>2, Finishes
  <2>3. ASSUME NEW label, Goto(r, label),
               label = IF q.group = NoValue THEN "find_card" ELSE "check_card"
        PROVE  Advances(r)
    <3>2. req' = [x \in Req |-> req'[x]] /\ Others(r)
      BY <1>1, <2>3 DEF Goto, Others
    <3>3. SameCall(p, q) /\ SameRows(p, q) /\ SameSets(p, q) /\ p.at = label
      BY <1>1, <2>3 DEF Goto, Typed, WholeIn, Fields, SameCall, SameRows, SameSets
    <3>5. Statement(p) /\ Payload(p) /\ Owns(p)
      BY <1>1, <2>1, <3>3, <2>3 DEF Typed, Statement, Payload, SameCall, SameRows, SameSets, Owns, Unfound
    <3> QED  BY <1>1, <2>1, <3>2, <3>3, <2>3, <3>5 DEF Advances, Typed, SameCall
  <2> QED  BY <1>3, <2>2, <2>3 DEF FindFavorite
<1>4. CASE FindCard(r)
  <2>1. q.at = "find_card" /\ q.kind = "create_favorite" /\ q.user \in User
    BY <1>1, <1>4 DEF FindCard, Reads, At, Typed, Statement
  <2>2. ASSUME Goto(r, "card_order") PROVE Advances(r)
    <3>2. req' = [x \in Req |-> req'[x]] /\ Others(r)
      BY <1>1, <2>2 DEF Goto, Others
    <3>3. SameCall(p, q) /\ SameRows(p, q) /\ SameSets(p, q) /\ p.at = "card_order"
      BY <1>1, <2>2 DEF Goto, Typed, WholeIn, Fields, SameCall, SameRows, SameSets
    <3>5. Statement(p) /\ Payload(p) /\ Owns(p)
      BY <1>1, <2>1, <3>3 DEF Typed, Statement, Payload, SameCall, SameRows, SameSets, Owns, Unfound
    <3> QED  BY <1>1, <2>1, <3>2, <3>3, <3>5 DEF Advances, Typed, SameCall
  <2>3. ASSUME NEW g \in FirstCards(q.user, q.stop),
               req' = [req EXCEPT ![r].group = g, ![r].at = "check_card"]
        PROVE  Advances(r)
    <3>1. g \in GroupId /\ Mine(q.user, g)
      BY DEF FirstCards, ItemsOf, GroupsOf, Mine, RequestsInv, TypeOK, ItemRow
    <3>2. req' = [x \in Req |-> req'[x]] /\ Others(r)
      BY <1>1, <2>3 DEF Others
    <3>3. SameCall(p, q) /\ p.stop = q.stop /\ p.name = q.name /\ p.order = q.order
          /\ p.alias = q.alias /\ SameSets(p, q) /\ p.at = "check_card" /\ p.group = g
      BY <1>1, <2>3 DEF Others, Typed, WholeIn, Fields, SameCall, SameSets
    <3>5. Statement(p) /\ Payload(p) /\ Owns(p)
      BY <1>1, <2>1, <3>3, <3>1 DEF Typed, Statement, Payload, SameCall, SameSets, Owns, Unfound
    <3> QED  BY <1>1, <2>1, <3>2, <3>3, <3>1, <3>5 DEF Advances, Typed, SameCall
  <2> QED  BY <1>4, <2>2, <2>3 DEF FindCard
<1>5. CASE CheckCard(r)
  <2>1. q.at = "check_card" /\ q.kind = "create_favorite" /\ q.user \in User
    BY <1>1, <1>5 DEF CheckCard, Reads, At, Typed, Statement
  <2>2. ASSUME Goto(r, "item_order") PROVE Advances(r)
    <3>2. req' = [x \in Req |-> req'[x]] /\ Others(r)
      BY <1>1, <2>2 DEF Goto, Others
    <3>3. SameCall(p, q) /\ SameRows(p, q) /\ SameSets(p, q) /\ p.at = "item_order"
      BY <1>1, <2>2 DEF Goto, Typed, WholeIn, Fields, SameCall, SameRows, SameSets
    <3>5. Statement(p) /\ Payload(p) /\ Owns(p)
      BY <1>1, <2>1, <3>3 DEF Typed, Statement, Payload, SameCall, SameRows, SameSets, Owns, Unfound
    <3> QED  BY <1>1, <2>1, <3>2, <3>3, <3>5 DEF Advances, Typed, SameCall
  <2> QED  BY <1>5, <2>2, Finishes DEF CheckCard
<1>6. CASE ItemOrder(r)
  <2>1. q.at = "item_order" /\ q.kind = "create_favorite" /\ q.user \in User
    BY <1>1, <1>6 DEF ItemOrder, Reads, At, Typed, Statement
  <2>2. PICK m \in Order : req' = [req EXCEPT ![r].order = m, ![r].at = "insert_item"]
    BY <1>6 DEF ItemOrder
  <2>3. Advances(r)
    <3>2. req' = [x \in Req |-> req'[x]] /\ Others(r)
      BY <1>1, <2>2 DEF Others
    <3>3. SameCall(p, q) /\ p.group = q.group /\ p.stop = q.stop /\ p.name = q.name
          /\ p.alias = q.alias /\ SameSets(p, q) /\ p.at = "insert_item" /\ p.order = m
      BY <1>1, <2>2 DEF Others, Typed, WholeIn, Fields, SameCall, SameSets
    <3>5. Statement(p) /\ Payload(p) /\ Owns(p)
      BY <1>1, <2>1, <3>3 DEF Typed, Statement, Payload, SameCall, SameSets, Owns, Unfound
    <3> QED  BY <1>1, <2>1, <3>2, <3>3, <3>5 DEF Advances, Typed, SameCall
  <2> QED  BY <2>3
<1>7. CASE CardOrder(r)
  <2>1. q.at = "card_order" /\ q.kind = "create_favorite" /\ q.user \in User
    BY <1>1, <1>7 DEF CardOrder, Reads, At, Typed, Statement
  <2>2. PICK m \in Order : req' = [req EXCEPT ![r].order = m, ![r].at = "card_name"]
    BY <1>7 DEF CardOrder
  <2>3. Advances(r)
    <3>2. req' = [x \in Req |-> req'[x]] /\ Others(r)
      BY <1>1, <2>2 DEF Others
    <3>3. SameCall(p, q) /\ p.group = q.group /\ p.stop = q.stop /\ p.name = q.name
          /\ p.alias = q.alias /\ SameSets(p, q) /\ p.at = "card_name" /\ p.order = m
      BY <1>1, <2>2 DEF Others, Typed, WholeIn, Fields, SameCall, SameSets
    <3>5. Statement(p) /\ Payload(p) /\ Owns(p)
      BY <1>1, <2>1, <3>3 DEF Typed, Statement, Payload, SameCall, SameSets, Owns, Unfound
    <3> QED  BY <1>1, <2>1, <3>2, <3>3, <3>5 DEF Advances, Typed, SameCall
  <2> QED  BY <2>3
<1>8. CASE CardName(r)
  <2>1. q.at = "card_name" /\ q.kind = "create_favorite" /\ q.user \in User
    BY <1>1, <1>8 DEF CardName, Reads, At, Typed, Statement
  <2>2. DisplayName(q.user, q.stop) \in Name
    BY <1>1, <2>1, DisplayNameType DEF Typed, Payload, RequestsInv
  <2>3. Advances(r)
    <3>2. req' = [x \in Req |-> req'[x]] /\ Others(r)
      BY <1>1, <1>8 DEF CardName, Others
    <3>3. SameCall(p, q) /\ p.group = q.group /\ p.stop = q.stop /\ p.order = q.order
          /\ p.alias = q.alias /\ SameSets(p, q) /\ p.at = "insert_card"
          /\ p.name = DisplayName(q.user, q.stop)
      BY <1>1, <1>8 DEF CardName, Typed, WholeIn, Fields, SameCall, SameSets
    <3>5. Statement(p) /\ Payload(p) /\ Owns(p)
      BY <1>1, <2>1, <3>3, <2>2 DEF Typed, Statement, Payload, SameCall, SameSets, Owns, Unfound
    <3> QED  BY <1>1, <2>1, <3>2, <3>3, <2>2, <3>5 DEF Advances, Typed, SameCall
  <2> QED  BY <2>3
<1> QED  BY <1>2, <1>3, <1>4, <1>5, <1>6, <1>7, <1>8

LEMMA ItemSteps ==
    ASSUME RequestsInv, NEW r \in Req,
           FindFavorites(r) \/ RequireFavorite(r) \/ DeleteItem(r) \/ CountLeft(r)
    PROVE  Advances(r)
<1> DEFINE q == req[r]
           p == req'[r]
<1>1. Typed(q) /\ Owns(q) /\ req = [x \in Req |-> req[x]] /\ \A u : Mine(u, NoValue)
  BY NoValueIsNoCard DEF RequestsInv, RequestsTyped, RequestsOwn
<1>2. CASE FindFavorites(r)
  <2>1. q.at = "find_favorites" /\ q.kind = "reorder_favorites" /\ q.user \in User
    BY <1>1, <1>2 DEF FindFavorites, Reads, At, Typed, Statement
  <2>2. ASSUME Goto(r, "set_orders"), DOMAIN q.orders \subseteq ItemsOf(q.user) PROVE Advances(r)
    <3>1. \A i \in DOMAIN q.orders : MyItem(q.user, i)
      BY <2>2 DEF ItemsOf, MyItem
    <3>2. req' = [x \in Req |-> req'[x]] /\ Others(r)
      BY <1>1, <2>2 DEF Goto, Others
    <3>3. SameCall(p, q) /\ SameRows(p, q) /\ SameSets(p, q) /\ p.at = "set_orders"
      BY <1>1, <2>2 DEF Goto, Typed, WholeIn, Fields, SameCall, SameRows, SameSets
    <3>5. Statement(p) /\ Payload(p) /\ Owns(p)
      BY <1>1, <2>1, <3>3, <3>1 DEF Typed, Statement, Payload, SameCall, SameRows, SameSets, Owns, Unfound
    <3> QED  BY <1>1, <2>1, <3>2, <3>3, <3>1, <3>5 DEF Advances, Typed, SameCall
  <2> QED  BY <1>2, <2>2, Finishes DEF FindFavorites
<1>3. CASE RequireFavorite(r)
  <2>1. q.at = "require_favorite" /\ q.kind = "delete_favorite" /\ q.user \in User
    BY <1>1, <1>3 DEF RequireFavorite, Reads, At, Typed, Statement
  <2>2. ASSUME q.item \in ItemsOf(q.user),
               req' = [req EXCEPT ![r].group = items[q.item].group, ![r].at = "delete_item"]
        PROVE  Advances(r)
    <3>1. MyItem(q.user, q.item) /\ Mine(q.user, items[q.item].group) /\ items[q.item].group \in GroupId
      BY <2>2 DEF ItemsOf, MyItem, Mine, GroupsOf, RequestsInv, TypeOK, ItemRow
    <3>2. req' = [x \in Req |-> req'[x]] /\ Others(r)
      BY <1>1, <2>2 DEF Others
    <3>3. SameCall(p, q) /\ p.stop = q.stop /\ p.name = q.name /\ p.order = q.order
          /\ p.alias = q.alias /\ SameSets(p, q) /\ p.at = "delete_item"
          /\ p.group = items[q.item].group
      BY <1>1, <2>2 DEF Others, Typed, WholeIn, Fields, SameCall, SameSets
    <3>5. Statement(p) /\ Payload(p) /\ Owns(p)
      BY <1>1, <2>1, <3>3, <3>1 DEF Typed, Statement, Payload, SameCall, SameSets, Owns, Unfound
    <3> QED  BY <1>1, <2>1, <3>2, <3>3, <3>1, <3>5 DEF Advances, Typed, SameCall
  <2> QED  BY <1>3, <2>2, Finishes DEF RequireFavorite
<1>4. CASE DeleteItem(r)
  <2>1. q.at = "delete_item" /\ q.kind = "delete_favorite" /\ q.user \in User
    BY <1>1, <1>4 DEF DeleteItem, Reads, At, Typed, Statement
  <2>2. Advances(r)
    <3>2. req' = [x \in Req |-> req'[x]] /\ Others(r)
      BY <1>1, <1>4 DEF DeleteItem, Others
    <3>3. SameCall(p, q) /\ SameRows(p, q) /\ p.cards = q.cards /\ p.at = "count_left"
          /\ p.held = {q.item} \cap DOMAIN items
      BY <1>1, <1>4 DEF DeleteItem, Typed, WholeIn, Fields, SameCall, SameRows
    <3>5. Statement(p) /\ Payload(p) /\ Owns(p)
      BY <1>1, <2>1, <3>3 DEF Typed, Statement, Payload, SameCall, SameRows, Owns, Unfound
    <3> QED  BY <1>1, <2>1, <3>2, <3>3, <3>5 DEF Advances, Typed, SameCall
  <2> QED  BY <2>2
<1>5. CASE CountLeft(r)
  <2>1. q.at = "count_left" /\ q.kind = "delete_favorite" /\ q.user \in User
    BY <1>1, <1>5 DEF CountLeft, Reads, At, Typed, Statement
  <2>2. PICK label \in {"delete_empty_card", "commit_item"} : Goto(r, label)
    BY <1>5 DEF CountLeft
  <2>3. Advances(r)
    <3>2. req' = [x \in Req |-> req'[x]] /\ Others(r)
      BY <1>1, <2>2 DEF Goto, Others
    <3>3. SameCall(p, q) /\ SameRows(p, q) /\ SameSets(p, q) /\ p.at = label
      BY <1>1, <2>2 DEF Goto, Typed, WholeIn, Fields, SameCall, SameRows, SameSets
    <3>5. Statement(p) /\ Payload(p) /\ Owns(p)
      BY <1>1, <2>1, <3>3, <2>2 DEF Typed, Statement, Payload, SameCall, SameRows, SameSets, Owns, Unfound
    <3> QED  BY <1>1, <2>1, <3>2, <3>3, <2>2, <3>5 DEF Advances, Typed, SameCall
  <2> QED  BY <2>3
<1> QED  BY <1>2, <1>3, <1>4, <1>5

LEMMA AliasSteps ==
    ASSUME RequestsInv, NEW r \in Req,
           FindAlias(r) \/ WriteAlias(r) \/ DropAlias(r) \/ AliasCards(r)
    PROVE  Advances(r)
<1> DEFINE q == req[r]
           p == req'[r]
<1>1. Typed(q) /\ Owns(q) /\ req = [x \in Req |-> req[x]] /\ \A u : Mine(u, NoValue)
  BY NoValueIsNoCard DEF RequestsInv, RequestsTyped, RequestsOwn
<1>2. CASE FindAlias(r)
  <2>1. q.at = "find_alias" /\ q.kind \in {"update_group", "upsert_alias"} /\ q.user \in User
    BY <1>1, <1>2 DEF FindAlias, Reads, At, Typed, Statement
  <2>2. PICK old \in Name \cup {NoValue}, label \in {"update_group", "write_alias"} :
          /\ req' = [req EXCEPT ![r].alias = old, ![r].at = label]
          /\ label = IF q.kind = "update_group" THEN "update_group" ELSE "write_alias"
    BY <1>2 DEF FindAlias, RequestsInv, TypeOK
  <2>3. Advances(r)
    <3>2. req' = [x \in Req |-> req'[x]] /\ Others(r)
      BY <1>1, <2>2 DEF Others
    <3>3. SameCall(p, q) /\ p.group = q.group /\ p.stop = q.stop /\ p.name = q.name
          /\ p.order = q.order /\ SameSets(p, q) /\ p.at = label /\ p.alias = old
      BY <1>1, <2>2 DEF Others, Typed, WholeIn, Fields, SameCall, SameSets
    <3>5. Statement(p) /\ Payload(p) /\ Owns(p)
      BY <1>1, <2>1, <3>3, <2>2 DEF Typed, Statement, Payload, SameCall, SameSets, Owns, Unfound
    <3> QED  BY <1>1, <2>1, <3>2, <3>3, <2>2, <3>5 DEF Advances, Typed, SameCall
  <2> QED  BY <2>3
<1>3. CASE WriteAlias(r)
  <2>1. q.at = "write_alias" /\ q.kind = "upsert_alias" /\ q.user \in User
    BY <1>1, <1>3 DEF WriteAlias, Reads, At, Typed, Statement
  <2>2. ASSUME ~Finish(r) PROVE Advances(r)
    <3>1. PICK keys : req' = [req EXCEPT ![r].held = keys, ![r].at = "alias_cards"]
      BY <1>3, <2>2 DEF WriteAlias
    <3>2. req' = [x \in Req |-> req'[x]] /\ Others(r)
      BY <1>1, <3>1 DEF Others
    <3>3. SameCall(p, q) /\ SameRows(p, q) /\ p.cards = q.cards /\ p.at = "alias_cards"
      BY <1>1, <3>1 DEF Others, Typed, WholeIn, Fields, SameCall, SameRows
    <3>5. Statement(p) /\ Payload(p) /\ Owns(p)
      BY <1>1, <2>1, <3>3 DEF Typed, Statement, Payload, SameCall, SameRows, Owns, Unfound
    <3> QED  BY <1>1, <2>1, <3>2, <3>3, <3>5 DEF Advances, Typed, SameCall
  <2> QED  BY <2>2, Finishes
<1>4. CASE DropAlias(r)
  <2>1. q.at = "drop_alias" /\ q.kind = "delete_alias" /\ q.user \in User
    BY <1>1, <1>4 DEF DropAlias, Reads, At, Typed, Statement
  <2>2. PICK keys : req' = [req EXCEPT ![r].held = keys, ![r].name = Description[q.stop],
                                       ![r].at = "alias_cards"]
    BY <1>4 DEF DropAlias
  <2>3. Description[q.stop] \in Name
    BY <1>1, <2>1, DescriptionAssumption DEF Typed, Payload
  <2>4. Advances(r)
    <3>2. req' = [x \in Req |-> req'[x]] /\ Others(r)
      BY <1>1, <2>2 DEF Others
    <3>3. SameCall(p, q) /\ p.group = q.group /\ p.stop = q.stop /\ p.order = q.order
          /\ p.alias = q.alias /\ p.cards = q.cards /\ p.at = "alias_cards"
          /\ p.name = Description[q.stop]
      BY <1>1, <2>2 DEF Others, Typed, WholeIn, Fields, SameCall
    <3>5. Statement(p) /\ Payload(p) /\ Owns(p)
      BY <1>1, <2>1, <3>3, <2>3 DEF Typed, Statement, Payload, SameCall, Owns, Unfound
    <3> QED  BY <1>1, <2>1, <3>2, <3>3, <2>3, <3>5 DEF Advances, Typed, SameCall
  <2> QED  BY <2>4
<1>5. CASE AliasCards(r)
  <2>1. q.at = "alias_cards" /\ q.kind \in {"upsert_alias", "delete_alias"} /\ q.user \in User
    BY <1>1, <1>5 DEF AliasCards, Reads, At, Typed, Statement
  <2>2. \A g \in CardsFor(q.user, q.stop) : Mine(q.user, g)
    BY DEF CardsFor, GroupsOf, Mine
  <2>3. Advances(r)
    <3>2. req' = [x \in Req |-> req'[x]] /\ Others(r)
      BY <1>1, <1>5 DEF AliasCards, Others
    <3>3. SameCall(p, q) /\ SameRows(p, q) /\ p.held = q.held /\ p.at = "commit_alias"
          /\ p.cards = CardsFor(q.user, q.stop)
      BY <1>1, <1>5 DEF AliasCards, Typed, WholeIn, Fields, SameCall, SameRows
    <3>5. Statement(p) /\ Payload(p) /\ Owns(p)
      BY <1>1, <2>1, <3>3, <2>2 DEF Typed, Statement, Payload, SameCall, SameRows, Owns, Unfound
    <3> QED  BY <1>1, <2>1, <3>2, <3>3, <2>2, <3>5 DEF Advances, Typed, SameCall
  <2> QED  BY <2>3
<1> QED  BY <1>2, <1>3, <1>4, <1>5

LEMMA HomeSteps ==
    ASSUME RequestsInv, NEW r \in Req, ListGroups(r) \/ ListItems(r)
    PROVE  Advances(r)
<1> DEFINE q == req[r]
           p == req'[r]
<1>1. Typed(q) /\ Owns(q) /\ req = [x \in Req |-> req[x]] /\ \A u : Mine(u, NoValue)
  BY NoValueIsNoCard DEF RequestsInv, RequestsTyped, RequestsOwn
<1>2. CASE ListGroups(r)
  <2>1. q.at = "list_groups" /\ q.kind = "get_home" /\ q.user \in User
    BY <1>1, <1>2 DEF ListGroups, Reads, At, Typed, Statement
  <2>2. PICK v : req' = [req EXCEPT ![r].view = v, ![r].cards = GroupsOf(q.user), ![r].at = "list_items"]
    BY <1>2 DEF ListGroups
  <2>3. Advances(r)
    <3>2. req' = [x \in Req |-> req'[x]] /\ Others(r)
      BY <1>1, <2>2 DEF Others
    <3>3. SameCall(p, q) /\ SameRows(p, q) /\ p.held = q.held /\ p.at = "list_items"
      BY <1>1, <2>2 DEF Others, Typed, WholeIn, Fields, SameCall, SameRows
    <3>5. Statement(p) /\ Payload(p) /\ Owns(p)
      BY <1>1, <2>1, <3>3 DEF Typed, Statement, Payload, SameCall, SameRows, Owns, Unfound
    <3> QED  BY <1>1, <2>1, <3>2, <3>3, <3>5 DEF Advances, Typed, SameCall
  <2> QED  BY <2>3
<1>3. CASE ListItems(r)
  <2>1. q.at = "list_items" /\ q.kind = "get_home" /\ q.user \in User
    BY <1>1, <1>3 DEF ListItems, Reads, At, Typed, Statement
  <2>2. PICK g \in q.cards : \E read, names :
            req' = [req EXCEPT ![r].view.items = read, ![r].view.names = names, ![r].cards = @ \ {g}]
    BY <1>3 DEF ListItems
  <2>3. Advances(r)
    <3>1. PICK read, names :
            req' = [req EXCEPT ![r].view.items = read, ![r].view.names = names, ![r].cards = @ \ {g}]
      BY <2>2
    <3>2. req' = [x \in Req |-> req'[x]] /\ Others(r)
      BY <1>1, <3>1 DEF Others
    <3>3. SameCall(p, q) /\ SameRows(p, q) /\ p.held = q.held /\ p.at = q.at
      BY <1>1, <3>1 DEF Others, Typed, WholeIn, Fields, SameCall, SameRows
    <3>5. Statement(p) /\ Payload(p) /\ Owns(p)
      BY <1>1, <2>1, <3>3 DEF Typed, Statement, Payload, SameCall, SameRows, Owns, Unfound
    <3> QED  BY <1>1, <2>1, <3>2, <3>3, <3>5 DEF Advances, Typed, SameCall
  <2> QED  BY <2>3
<1> QED  BY <1>2, <1>3

-----------------------------------------------------------------------------
(* The steps that write.                                                    *)

TablesTyped ==
    /\ users \subseteq User
    /\ groups \in [DOMAIN groups -> GroupRow] /\ DOMAIN groups \subseteq GroupId
    /\ items \in [DOMAIN items -> ItemRow] /\ DOMAIN items \subseteq ItemId
    /\ aliases \in [DOMAIN aliases -> Name] /\ DOMAIN aliases \subseteq User \X Stop
    /\ home = [u \in User |-> home[u]]

\* What a step of r may do to the tables and the cache.
Writes(r) == TablesTyped' /\ ForeignKeys' /\ KeepsOwners /\ TouchesOnly(req[r].user)

\* The request goes on in a state that fits the tables as they are then.
Proceeds(r) ==
    /\ req' = [q \in Req |-> req'[q]] /\ Others(r)
    /\ Typed(req'[r]) /\ Owns(req[r])'

LEMMA PutType ==
    ASSUME NEW Key, NEW Row, NEW table, DOMAIN table \subseteq Key,
           table \in [DOMAIN table -> Row], NEW k \in Key, NEW row \in Row
    PROVE  /\ DOMAIN Put(table, k, row) \subseteq Key
           /\ Put(table, k, row) \in [DOMAIN Put(table, k, row) -> Row]
BY DEF Put

LEMMA DropType ==
    ASSUME NEW Key, NEW Row, NEW table, DOMAIN table \subseteq Key,
           table \in [DOMAIN table -> Row], NEW keys
    PROVE  /\ DOMAIN Drop(table, keys) \subseteq Key
           /\ Drop(table, keys) \in [DOMAIN Drop(table, keys) -> Row]
BY DEF Drop, Restrict

LEMMA PatchType ==
    ASSUME NEW row \in GroupRow,
           NEW name \in Name \cup {NoValue}, NEW order \in Order \cup {NoValue}
    PROVE  Patch(row, name, order) \in GroupRow /\ Patch(row, name, order).user = row.user
BY DEF Patch, GroupRow

LEMMA InvTypes ==
    RequestsInv => TablesTyped /\ ForeignKeys /\ \A r \in Req : Typed(req[r]) /\ Owns(req[r])
BY DEF RequestsInv, TypeOK, RequestsTyped, RequestsOwn, TablesTyped

\* A request that commits, or fails, knows no more than its user.
LEMMA CommitFits ==
    ASSUME RequestsInv, NEW r \in Req, req[r].user \in users', req[r].at # "idle", Committed(r)
    PROVE  Proceeds(r)
<1> DEFINE q == req[r]
           p == req'[r]
<1>1. Typed(q) /\ req = [x \in Req |-> req[x]]
  BY DEF RequestsInv, RequestsTyped
<1>2. req' = [x \in Req |-> req'[x]] /\ Others(r)
  BY <1>1 DEF Committed, Others
<1>3. SameCall(p, q) /\ SameRows(p, q) /\ p.at = "invalidate" /\ p.held = {}
  BY <1>1 DEF Committed, Typed, WholeIn, Fields, SameCall, SameRows
<1>4. Statement(p) /\ Payload(p)
  BY <1>1, <1>3 DEF Typed, Statement, Payload, SameCall, SameRows
<1>5. Owns(req[r])'
  BY <1>3 DEF Owns, Unfound, SameCall
<1> QED  BY <1>1, <1>2, <1>3, <1>4, <1>5 DEF Proceeds, Typed, SameCall

LEMMA FinishFits ==
    ASSUME RequestsInv, NEW r \in Req, Finish(r)
    PROVE  Proceeds(r)
<1>1. req'[r] = Idle /\ req' = [x \in Req |-> req'[x]] /\ Others(r)
  BY DEF RequestsInv, RequestsTyped, Finish, Others
<1>2. Typed(req'[r])
  BY <1>1, IdleFits
<1>3. Owns(req[r])'
  BY <1>1 DEF Idle, Owns, Unfound
<1> QED  BY <1>1, <1>2, <1>3 DEF Proceeds

\* A step that leaves the rows alone.
LEMMA RowsKept ==
    ASSUME RequestsInv, NEW r \in Req, UNCHANGED tables, users' \in {users, users \cup {req[r].user}},
           req[r].user \in User, home' = [u \in User |-> home'[u]],
           \A v \in User \ {req[r].user} : home'[v] = home[v]
    PROVE  Writes(r)
<1>1. TablesTyped /\ ForeignKeys
  BY InvTypes
<1>2. TablesTyped' /\ ForeignKeys'
  BY <1>1 DEF TablesTyped, ForeignKeys, tables
<1>3. KeepsOwners
  BY DEF KeepsOwners, tables
<1>4. TouchesOnly(req[r].user)
  BY DEF TouchesOnly, tables, GroupsOf
<1> QED  BY <1>2, <1>3, <1>4 DEF Writes

LEMMA InsertUserWrites ==
    ASSUME RequestsInv, NEW r \in Req, InsertUser(r)
    PROVE  Writes(r) /\ Proceeds(r)
<1> DEFINE q == req[r]
           p == req'[r]
<1>1. Typed(q) /\ Owns(q) /\ req = [x \in Req |-> req[x]] /\ \A u : Mine(u, NoValue)
  BY NoValueIsNoCard DEF RequestsInv, RequestsTyped, RequestsOwn
<1>2. q.at = "new_user" /\ q.kind \in KindOf /\ q.user \in User
  BY <1>1 DEF InsertUser, At, Typed
<1>3. Writes(r)
  BY <1>2, RowsKept, InvTypes DEF InsertUser, TablesTyped
<1>4. ASSUME Goto(r, Entry(r)) PROVE Proceeds(r)
  <2>2. PICK label : req' = [req EXCEPT ![r] = [@ EXCEPT !.at = label]] /\ label = Entry(r)
    BY <1>4 DEF Goto
  <2>3. req' = [x \in Req |-> req'[x]] /\ Others(r)
    BY <1>1, <2>2 DEF Others
  <2>4. SameCall(p, q) /\ SameRows(p, q) /\ SameSets(p, q) /\ p.at = label
    BY <1>1, <2>2 DEF Typed, WholeIn, Fields, SameCall, SameRows, SameSets
  <2>5. /\ q.kind = "create_group" => label = "insert_group"
        /\ q.kind \in {"update_group", "delete_group"} => label = "require_group"
        /\ q.kind = "create_favorite" => label = IF q.group = NoValue THEN "find_favorite"
                                                  ELSE "require_group"
        /\ q.kind = "reorder_favorites" => label = "find_favorites"
        /\ q.kind = "delete_favorite" => label = "require_favorite"
        /\ q.kind = "upsert_alias" => label = "find_alias"
        /\ q.kind = "delete_alias" => label = "drop_alias"
        /\ q.kind = "get_home" => label = "list_groups"
    BY <2>2 DEF Entry
  <2>6. Statement(p) /\ p.at # "idle"
    BY <1>2, <2>4, <2>5 DEF Statement, KindOf, SameCall
  <2>7. Payload(p)
    BY <1>1, <1>2, <2>4, <2>5 DEF Typed, Payload, KindOf, SameCall, SameRows
  <2>8. q.user \in users' /\ \A u : Mine(u, NoValue)'
    BY <1>1 DEF InsertUser, Mine, tables
  <2>9. Owns(req[r])'
    BY <1>1, <1>2, <2>4, <2>5, <2>8 DEF Typed, Payload, KindOf, SameCall, SameRows, SameSets, Owns, Unfound
  <2> QED  BY <1>2, <2>3, <2>4, <2>6, <2>7, <2>9 DEF Proceeds, Typed, SameCall
<1> QED  BY <1>3, <1>4, FinishFits DEF InsertUser

LEMMA HomeWrites ==
    ASSUME RequestsInv, NEW r \in Req, InvalidateHome(r) \/ SetHome(r)
    PROVE  Writes(r) /\ Proceeds(r)
<1>1. Typed(req[r]) /\ TablesTyped
  BY InvTypes
<1>2. req[r].user \in User
  BY <1>1 DEF InvalidateHome, SetHome, At, Typed
<1>3. home' = [u \in User |-> home'[u]] /\ \A v \in User \ {req[r].user} : home'[v] = home[v]
  BY <1>1, <1>2 DEF InvalidateHome, SetHome, Invalidate, TablesTyped
<1>4. UNCHANGED <<users, tables>>
  BY DEF InvalidateHome, SetHome
<1> QED  BY <1>2, <1>3, <1>4, RowsKept, FinishFits DEF InvalidateHome, SetHome

\* A request that has come to a statement is a registered device's, and what
\* it writes to is its own.
LEMMA AtStatement ==
    ASSUME RequestsInv, NEW r \in Req, req[r].at \notin Unfound
    PROVE  /\ TablesTyped /\ ForeignKeys /\ Typed(req[r]) /\ Owns(req[r])
           /\ Statement(req[r]) /\ Payload(req[r])
           /\ req[r].user \in User /\ req[r].user \in users /\ req[r].at # "idle"
           /\ Mine(req[r].user, req[r].group)
BY InvTypes DEF Typed, Owns, Unfound

\* Only this user's payload is dropped, or none.
LEMMA HomeKept ==
    ASSUME TablesTyped, UNCHANGED home
    PROVE  home' = [u \in User |-> home'[u]] /\ \A v \in User : home'[v] = home[v]
BY DEF TablesTyped

LEMMA InsertGroupWrites ==
    ASSUME RequestsInv, NEW r \in Req, InsertGroup(r)
    PROVE  Writes(r) /\ Proceeds(r)
<1> DEFINE q == req[r]
<1>1. q.at = "insert_group"
  BY DEF InsertGroup, At
<1>2. /\ TablesTyped /\ ForeignKeys /\ q.user \in User /\ q.user \in users /\ q.at # "idle"
      /\ q.name \in Name /\ q.order \in Order
  BY <1>1, AtStatement DEF Unfound, Statement, Payload
<1> DEFINE row == [user |-> q.user, name |-> q.name, order |-> q.order]
<1>3. PICK g \in NewGroupId : groups' = Put(groups, g, row)
  BY DEF InsertGroup
<1>4. row \in GroupRow /\ row.user = q.user
  BY <1>2 DEF GroupRow
<1>5. UNCHANGED <<users, items, aliases, home>>
  BY DEF InsertGroup
<1> HIDE DEF row
<1>6. TablesTyped'
  BY <1>2, <1>3, <1>4, <1>5, PutType DEF TablesTyped, NewGroupId
<1>7. /\ DOMAIN groups' = DOMAIN groups \cup {g} /\ g \notin DOMAIN groups
      /\ groups'[g].user = q.user /\ \A h \in DOMAIN groups : groups'[h] = groups[h]
  BY <1>3, <1>4 DEF Put, NewGroupId
<1>8. ForeignKeys' /\ KeepsOwners
  BY <1>2, <1>5, <1>7 DEF ForeignKeys, KeepsOwners
<1>9. TouchesOnly(q.user)
  BY <1>5, <1>7 DEF TouchesOnly
<1> QED  BY <1>2, <1>5, <1>6, <1>8, <1>9, CommitFits DEF Writes, InsertGroup

LEMMA UpdateGroupWrites ==
    ASSUME RequestsInv, NEW r \in Req, UpdateGroup(r)
    PROVE  Writes(r) /\ Proceeds(r)
<1> DEFINE q == req[r]
           p == req'[r]
<1>1. q.at = "update_group"
  BY DEF UpdateGroup, At
<1>2. /\ TablesTyped /\ ForeignKeys /\ q.user \in User /\ q.user \in users /\ q.at # "idle"
      /\ q.kind = "update_group" /\ q.group \in GroupId /\ q.name \in Name \cup {NoValue}
      /\ q.order \in Order \cup {NoValue} /\ (q.stop # NoValue => q.stop \in Stop /\ q.name \in Name)
      /\ Mine(q.user, q.group)
  BY <1>1, AtStatement DEF Unfound, Statement, Payload
<1>3. UNCHANGED <<users, home>>
  BY DEF UpdateGroup
<1>4. ASSUME Finish(r), UNCHANGED tables PROVE Writes(r) /\ Proceeds(r)
  BY <1>2, <1>3, <1>4, RowsKept, HomeKept, FinishFits
<1>5. ASSUME aliases' = IF WritesAlias(r) THEN Put(aliases, AliasKey(r), q.name) ELSE aliases,
             groups' = [g \in DOMAIN groups |->
                           IF g = q.group THEN Patch(groups[g], q.name, q.order) ELSE groups[g]],
             Goto(r, "reread_group"), UNCHANGED items
      PROVE  Writes(r) /\ Proceeds(r)
  <2>1. \A g \in DOMAIN groups : groups[g] \in GroupRow
    BY <1>2 DEF TablesTyped
  <2>2. /\ DOMAIN groups' = DOMAIN groups
        /\ \A g \in DOMAIN groups : /\ groups'[g] \in GroupRow /\ groups'[g].user = groups[g].user
                                    /\ g # q.group => groups'[g] = groups[g]
    BY <1>2, <1>5, <2>1, PatchType
  <2>3. DOMAIN groups' \subseteq GroupId /\ groups' \in [DOMAIN groups' -> GroupRow]
    BY <1>2, <1>5, <2>2 DEF TablesTyped
  <2>4. /\ aliases' \in [DOMAIN aliases' -> Name] /\ DOMAIN aliases' \subseteq User \X Stop
        /\ \A k \in DOMAIN aliases' : k \in DOMAIN aliases \/ k[1] = q.user
    <3>1. CASE WritesAlias(r)
      <4>1. AliasKey(r) \in User \X Stop /\ q.name \in Name /\ AliasKey(r)[1] = q.user
        BY <1>2, <3>1 DEF WritesAlias, AliasKey
      <4>2. aliases' = Put(aliases, AliasKey(r), q.name)
        BY <1>5, <3>1
      <4>3. \A k \in DOMAIN aliases' : k \in DOMAIN aliases \/ k = AliasKey(r)
        BY <4>2 DEF Put
      <4> QED  BY <1>2, <4>1, <4>2, <4>3, PutType DEF TablesTyped
    <3>2. CASE ~WritesAlias(r)
      BY <1>2, <1>5, <3>2 DEF TablesTyped
    <3> QED  BY <3>1, <3>2
  <2>5. TablesTyped'
    BY <1>2, <1>3, <1>5, <2>3, <2>4 DEF TablesTyped
  <2>6. ForeignKeys' /\ KeepsOwners
    BY <1>2, <1>3, <1>5, <2>2, <2>4 DEF ForeignKeys, KeepsOwners
  <2>7. \A v \in User \ {q.user}, s \in Stop :
          /\ <<v, s>> \in DOMAIN aliases' <=> <<v, s>> \in DOMAIN aliases
          /\ <<v, s>> \in DOMAIN aliases => aliases'[<<v, s>>] = aliases[<<v, s>>]
    BY <1>5 DEF Put, AliasKey
  <2>8. TouchesOnly(q.user)
    BY <1>2, <1>3, <1>5, <2>2, <2>7 DEF TouchesOnly, Mine, GroupsOf
  <2>9. req = [x \in Req |-> req[x]] /\ Typed(q)
    BY DEF RequestsInv, RequestsTyped
  <2>10. req' = [x \in Req |-> req'[x]] /\ Others(r)
    BY <1>5, <2>9 DEF Goto, Others
  <2>11. SameCall(p, q) /\ SameRows(p, q) /\ SameSets(p, q) /\ p.at = "reread_group"
    BY <1>5, <2>9 DEF Goto, Typed, WholeIn, Fields, SameCall, SameRows, SameSets
  <2>12. Statement(p) /\ Payload(p)
    BY <1>1, <1>2, <2>9, <2>11 DEF Typed, Statement, Payload, SameCall, SameRows
  <2>13. Owns(req[r])'
    BY <1>2, <1>3, <2>2, <2>11 DEF Owns, Unfound, Mine, SameCall, SameRows
  <2> QED  BY <1>2, <2>5, <2>6, <2>8, <2>9, <2>10, <2>11, <2>12, <2>13 DEF Writes, Proceeds, Typed, SameCall
<1> QED  BY <1>4, <1>5 DEF UpdateGroup

\* The rows of a card that is deleted, with the items on it, are the user's.
LEMMA DeletesOwn ==
    ASSUME RequestsInv, NEW u \in User, NEW cards, NEW gone,
           \A g \in cards : Mine(u, g), \A i \in gone : MyItem(u, i),
           groups' = Drop(groups, cards),
           items' = Drop(items, gone \cup UNION {ItemsIn(g) : g \in cards}),
           UNCHANGED <<users, aliases, home>>
    PROVE  TablesTyped' /\ ForeignKeys' /\ KeepsOwners /\ TouchesOnly(u)
<1>1. TablesTyped /\ ForeignKeys
  BY InvTypes
<1>2. TablesTyped'
  BY <1>1, DropType DEF TablesTyped
<1>3. /\ DOMAIN groups' = DOMAIN groups \ cards /\ \A g \in DOMAIN groups' : groups'[g] = groups[g]
      /\ DOMAIN items' \subseteq DOMAIN items /\ \A i \in DOMAIN items' : items'[i] = items[i]
  BY DEF Drop, Restrict
<1>4. \A i \in DOMAIN items' : items[i].group \notin cards
  BY DEF Drop, Restrict, ItemsIn
<1>5. ForeignKeys' /\ KeepsOwners
  BY <1>1, <1>3, <1>4 DEF ForeignKeys, KeepsOwners
<1>6. \A i \in DOMAIN items : items[i].group \notin GroupsOf(u) => i \in DOMAIN items'
  <2> SUFFICES ASSUME NEW i \in DOMAIN items, items[i].group \notin GroupsOf(u), i \notin DOMAIN items'
               PROVE  FALSE
    OBVIOUS
  <2>1. i \in gone \/ items[i].group \in cards
    BY DEF Drop, Restrict, ItemsIn
  <2> QED  BY <1>1, <2>1 DEF MyItem, Mine, ForeignKeys, GroupsOf
<1>7. TouchesOnly(u)
  BY <1>3, <1>6 DEF TouchesOnly, Mine
<1> QED  BY <1>2, <1>5, <1>7

LEMMA DeleteGroupWrites ==
    ASSUME RequestsInv, NEW r \in Req, DeleteGroup(r)
    PROVE  Writes(r) /\ Proceeds(r)
<1> DEFINE q == req[r]
<1>1. q.at = "delete_group"
  BY DEF DeleteGroup, At
<1>2. /\ q.user \in User /\ q.user \in users /\ q.at # "idle"
      /\ q.kind = "delete_group" /\ Mine(q.user, q.group) /\ q.held \subseteq {q.group}
  BY <1>1, AtStatement DEF Unfound, Statement, Owns
<1>3. PICK cards, gone :
        /\ \A g \in cards : Mine(q.user, g)
        /\ \A i \in gone : MyItem(q.user, i)
        /\ groups' = Drop(groups, cards)
        /\ items' = Drop(items, gone \cup UNION {ItemsIn(g) : g \in cards})
  <2>1. /\ groups' = Drop(groups, q.held)
        /\ items' = Drop(items, {} \cup UNION {ItemsIn(g) : g \in q.held})
    BY DEF DeleteGroup
  <2>2. (\A g \in q.held : Mine(q.user, g)) /\ \A i \in {} : MyItem(q.user, i)
    BY <1>2
  <2> HIDE DEF q
  <2> QED  BY <2>1, <2>2
<1>4. UNCHANGED <<users, aliases, home>> /\ Committed(r)
  BY DEF DeleteGroup
<1>5. TablesTyped' /\ ForeignKeys' /\ KeepsOwners /\ TouchesOnly(q.user)
  BY <1>2, <1>3, <1>4, DeletesOwn
<1> QED  BY <1>2, <1>4, <1>5, CommitFits DEF Writes

LEMMA DeleteItemWrites ==
    ASSUME RequestsInv, NEW r \in Req, CommitItem(r) \/ DeleteEmptyCard(r)
    PROVE  Writes(r) /\ Proceeds(r)
<1> DEFINE q == req[r]
<1>1. q.at \in {"commit_item", "delete_empty_card"}
  BY DEF CommitItem, DeleteEmptyCard, At
<1>2. /\ q.user \in User /\ q.user \in users /\ q.at # "idle" /\ Mine(q.user, q.group)
      /\ \A i \in q.held : MyItem(q.user, i)
  BY <1>1, AtStatement DEF Unfound, Statement, Owns
<1>3. PICK cards \in {{}, {q.group}} :
        /\ groups' = Drop(groups, cards)
        /\ items' = Drop(items, q.held \cup UNION {ItemsIn(g) : g \in cards})
        /\ UNCHANGED <<users, aliases, home>> /\ Committed(r)
  <2>1. CASE CommitItem(r)
    <3>1. groups = Drop(groups, {})
      BY InvTypes DEF Drop, Restrict, TablesTyped
    <3>2. q.held = q.held \cup UNION {ItemsIn(g) : g \in {}}
      OBVIOUS
    <3> QED  BY <2>1, <3>1, <3>2 DEF CommitItem
  <2>2. CASE DeleteEmptyCard(r)
    <3>1. ItemsIn(q.group) = UNION {ItemsIn(g) : g \in {q.group}}
      OBVIOUS
    <3> QED  BY <2>2, <3>1 DEF DeleteEmptyCard
  <2> QED  BY <2>1, <2>2
<1>4. TablesTyped' /\ ForeignKeys' /\ KeepsOwners /\ TouchesOnly(q.user)
  BY <1>2, <1>3, DeletesOwn
<1> QED  BY <1>2, <1>3, <1>4, CommitFits DEF Writes

LEMMA InsertItemWrites ==
    ASSUME RequestsInv, NEW r \in Req, InsertItem(r)
    PROVE  Writes(r) /\ Proceeds(r)
<1> DEFINE q == req[r]
<1>1. q.at = "insert_item"
  BY DEF InsertItem, At
<1>2. /\ TablesTyped /\ ForeignKeys /\ q.user \in User /\ q.user \in users /\ q.at # "idle"
      /\ q.group \in GroupId /\ q.stop \in Stop /\ q.service \in Service /\ q.order \in Order
      /\ Mine(q.user, q.group)
  BY <1>1, AtStatement DEF Unfound, Statement, Payload
<1>3. UNCHANGED <<users, groups, aliases, home>>
  BY DEF InsertItem
<1>4. ASSUME Finish(r), UNCHANGED items PROVE Writes(r) /\ Proceeds(r)
  BY <1>2, <1>3, <1>4, RowsKept, HomeKept, FinishFits DEF tables
<1> DEFINE row == [group |-> q.group, stop |-> q.stop, service |-> q.service, order |-> q.order]
<1>5. ASSUME q.group \in DOMAIN groups, NEW i \in NewItemId, items' = Put(items, i, row), Committed(r)
      PROVE  Writes(r) /\ Proceeds(r)
  <2>1. row \in ItemRow /\ row.group = q.group
    BY <1>2 DEF ItemRow
  <2> HIDE DEF row
  <2>2. TablesTyped'
    BY <1>2, <1>3, <1>5, <2>1, PutType DEF TablesTyped, NewItemId
  <2>3. /\ DOMAIN items' = DOMAIN items \cup {i} /\ i \notin DOMAIN items
        /\ items'[i].group = q.group /\ \A j \in DOMAIN items : items'[j] = items[j]
    BY <1>5, <2>1 DEF Put, NewItemId
  <2>4. ForeignKeys' /\ KeepsOwners
    BY <1>2, <1>3, <1>5, <2>3 DEF ForeignKeys, KeepsOwners
  <2>5. q.group \in DOMAIN groups' /\ groups'[q.group].user = q.user
    BY <1>2, <1>3, <1>5 DEF Mine
  <2>6. TouchesOnly(q.user)
    BY <1>3, <2>3, <2>5 DEF TouchesOnly
  <2> QED  BY <1>2, <1>3, <1>5, <2>2, <2>4, <2>6, CommitFits DEF Writes
<1> QED  BY <1>4, <1>5 DEF InsertItem, InsertRow

LEMMA InsertCardWrites ==
    ASSUME RequestsInv, NEW r \in Req, InsertCard(r)
    PROVE  Writes(r) /\ Proceeds(r)
<1> DEFINE q == req[r]
<1>1. q.at = "insert_card"
  BY DEF InsertCard, At
<1>2. /\ TablesTyped /\ ForeignKeys /\ q.user \in User /\ q.user \in users /\ q.at # "idle"
      /\ q.stop \in Stop /\ q.service \in Service /\ q.order \in Order /\ q.name \in Name
  BY <1>1, AtStatement DEF Unfound, Statement, Payload
<1>3. UNCHANGED <<users, aliases, home>>
  BY DEF InsertCard
<1>4. PICK g \in NewGroupId, i \in NewItemId :
        /\ groups' = Put(groups, g, [user |-> q.user, name |-> q.name, order |-> q.order])
        /\ items' = Put(items, i, [group |-> g, stop |-> q.stop, service |-> q.service, order |-> 0])
  BY DEF InsertCard, InsertRow
<1> DEFINE card == [user |-> q.user, name |-> q.name, order |-> q.order]
           row == [group |-> g, stop |-> q.stop, service |-> q.service, order |-> 0]
<1>5. card \in GroupRow /\ card.user = q.user /\ row \in ItemRow /\ row.group = g
  BY <1>2, OrderAssumption DEF GroupRow, ItemRow, NewGroupId
<1>6. groups' = Put(groups, g, card) /\ items' = Put(items, i, row)
  BY <1>4
<1> HIDE DEF card, row
<1>7. TablesTyped'
  BY ZenonT(40), <1>2, <1>3, <1>5, <1>6, PutType DEF TablesTyped, NewGroupId, NewItemId
<1>8. /\ DOMAIN groups' = DOMAIN groups \cup {g} /\ g \notin DOMAIN groups
      /\ groups'[g].user = q.user /\ \A h \in DOMAIN groups : groups'[h] = groups[h]
      /\ DOMAIN items' = DOMAIN items \cup {i} /\ i \notin DOMAIN items
      /\ items'[i].group = g /\ \A j \in DOMAIN items : items'[j] = items[j]
  BY <1>5, <1>6 DEF Put, NewGroupId, NewItemId
<1>9. ForeignKeys' /\ KeepsOwners
  BY <1>2, <1>3, <1>8 DEF ForeignKeys, KeepsOwners
<1>10. TouchesOnly(q.user)
  BY <1>3, <1>8 DEF TouchesOnly
<1> QED  BY <1>2, <1>3, <1>7, <1>9, <1>10, CommitFits DEF Writes, InsertCard

LEMMA SetOrdersWrites ==
    ASSUME RequestsInv, NEW r \in Req, SetOrders(r)
    PROVE  Writes(r) /\ Proceeds(r)
<1> DEFINE q == req[r]
<1>1. q.at = "set_orders"
  BY DEF SetOrders, At
<1>2. /\ TablesTyped /\ ForeignKeys /\ q.user \in User /\ q.user \in users /\ q.at # "idle"
      /\ q.orders \in [DOMAIN q.orders -> Order]
      /\ \A i \in DOMAIN q.orders : MyItem(q.user, i)
  BY <1>1, AtStatement DEF Unfound, Statement, Payload, Owns
<1>3. UNCHANGED <<users, groups, aliases, home>>
  BY DEF SetOrders
<1>4. items' = [i \in DOMAIN items |-> IF i \in DOMAIN q.orders
                                       THEN [items[i] EXCEPT !.order = q.orders[i]] ELSE items[i]]
  BY DEF SetOrders
<1>5. \A i \in DOMAIN items : items[i] \in ItemRow
  BY <1>2 DEF TablesTyped
<1>6. /\ DOMAIN items' = DOMAIN items
      /\ \A i \in DOMAIN items : /\ items'[i] \in ItemRow /\ items'[i].group = items[i].group
                                 /\ i \notin DOMAIN q.orders => items'[i] = items[i]
  BY <1>2, <1>4, <1>5 DEF ItemRow
<1>7. TablesTyped'
  BY <1>2, <1>3, <1>4, <1>6 DEF TablesTyped
<1>8. ForeignKeys' /\ KeepsOwners
  BY <1>2, <1>3, <1>6 DEF ForeignKeys, KeepsOwners
<1>9. TouchesOnly(q.user)
  BY <1>2, <1>3, <1>6 DEF TouchesOnly, MyItem
<1> QED  BY <1>2, <1>3, <1>7, <1>8, <1>9, CommitFits DEF Writes, SetOrders

LEMMA CommitAliasWrites ==
    ASSUME RequestsInv, NEW r \in Req, CommitAlias(r)
    PROVE  Writes(r) /\ Proceeds(r)
<1> DEFINE q == req[r]
<1>1. q.at = "commit_alias"
  BY DEF CommitAlias, At
<1>2. /\ TablesTyped /\ ForeignKeys /\ q.user \in User /\ q.user \in users /\ q.at # "idle"
      /\ q.stop \in Stop /\ q.name \in Name /\ \A g \in q.cards : Mine(q.user, g)
  BY <1>1, AtStatement DEF Unfound, Statement, Payload, Owns
<1>3. UNCHANGED <<users, items, home>>
  BY DEF CommitAlias
<1>4. AliasKey(r) \in User \X Stop /\ AliasKey(r)[1] = q.user
  BY <1>2 DEF AliasKey
<1>5. aliases' \in {aliases, Put(aliases, AliasKey(r), q.name), Drop(aliases, {AliasKey(r)})}
  BY DEF CommitAlias
<1>6. /\ aliases' \in [DOMAIN aliases' -> Name] /\ DOMAIN aliases' \subseteq User \X Stop
  <2>1. DOMAIN aliases \subseteq User \X Stop /\ aliases \in [DOMAIN aliases -> Name]
    BY <1>2 DEF TablesTyped
  <2>2. CASE aliases' = Put(aliases, AliasKey(r), q.name)
    BY <1>2, <1>4, <2>1, <2>2, PutType
  <2>3. CASE aliases' = Drop(aliases, {AliasKey(r)})
    BY <2>1, <2>3, DropType
  <2> QED  BY <1>5, <2>1, <2>2, <2>3
<1>7. \A k \in DOMAIN aliases' : k \in DOMAIN aliases \/ k[1] = q.user
  BY <1>4, <1>5 DEF Put, Drop, Restrict
<1>8. \A g \in DOMAIN groups : groups[g] \in GroupRow
  BY <1>2 DEF TablesTyped
<1>9. /\ DOMAIN groups' = DOMAIN groups
      /\ \A g \in DOMAIN groups : /\ groups'[g] \in GroupRow /\ groups'[g].user = groups[g].user
                                  /\ g \notin q.cards => groups'[g] = groups[g]
  BY <1>2, <1>8 DEF CommitAlias, Rename, GroupRow
<1>10. groups' = [g \in DOMAIN groups' |-> groups'[g]]
  BY DEF CommitAlias, Rename
<1>11. TablesTyped'
  BY <1>2, <1>3, <1>6, <1>9, <1>10 DEF TablesTyped
<1>12. ForeignKeys' /\ KeepsOwners
  BY <1>2, <1>3, <1>7, <1>9 DEF ForeignKeys, KeepsOwners
<1>13. \A v \in User \ {q.user}, s \in Stop :
         /\ <<v, s>> \in DOMAIN aliases' <=> <<v, s>> \in DOMAIN aliases
         /\ <<v, s>> \in DOMAIN aliases => aliases'[<<v, s>>] = aliases[<<v, s>>]
  <2>1. \A v \in User \ {q.user}, s \in Stop : <<v, s>> # AliasKey(r)
    BY DEF AliasKey
  <2> QED  BY <1>5, <2>1 DEF Put, Drop, Restrict
<1>14. TouchesOnly(q.user)
  BY <1>2, <1>3, <1>9, <1>13 DEF TouchesOnly, Mine, GroupsOf
<1> QED  BY <1>2, <1>3, <1>11, <1>12, <1>14, CommitFits DEF Writes, CommitAlias

-----------------------------------------------------------------------------
(* Every step keeps the invariant. *)

Reading == UNCHANGED <<users, tables, home>>

Fits(r) == (Reading /\ Advances(r)) \/ (Writes(r) /\ Proceeds(r))

LEMMA StepFits ==
    ASSUME RequestsInv, NEW r \in Req, Step(r)
    PROVE  Fits(r)
<1>1. CASE FindUser(r) \/ GetHome(r) \/ AbortDeadlock(r)
  BY <1>1, UserSteps DEF Fits, Reading, FindUser, GetHome, AbortDeadlock, Reads
<1>2. CASE InsertUser(r) \/ InvalidateHome(r) \/ SetHome(r)
  BY <1>2, InsertUserWrites, HomeWrites DEF Fits
<1>3. CASE CardStep(r)
  BY <1>3, CardSteps, InsertGroupWrites, UpdateGroupWrites, DeleteGroupWrites
     DEF CardStep, Fits, Reading, RequireGroup, CardStop, RereadGroup, LockGroup, Reads
<1>4. CASE CreateStep(r)
  BY <1>4, CreateSteps, InsertItemWrites, InsertCardWrites
     DEF CreateStep, Fits, Reading, FirstStop, FindFavorite, FindCard, CheckCard, ItemOrder,
         CardOrder, CardName, Reads
<1>5. CASE ItemStep(r)
  BY <1>5, ItemSteps, SetOrdersWrites, DeleteItemWrites
     DEF ItemStep, Fits, Reading, FindFavorites, RequireFavorite, DeleteItem, CountLeft, Reads
<1>6. CASE AliasStep(r)
  BY <1>6, AliasSteps, CommitAliasWrites
     DEF AliasStep, Fits, Reading, FindAlias, WriteAlias, DropAlias, AliasCards, Reads
<1>7. CASE ListGroups(r) \/ ListItems(r)
  BY <1>7, HomeSteps DEF Fits, Reading, ListGroups, ListItems, Reads
<1> QED  BY <1>1, <1>2, <1>3, <1>4, <1>5, <1>6, <1>7 DEF Step, HomeStep

\* The ids that a request holds are not given to new rows.
LEMMA HeldIds ==
    ASSUME NEW x \in Req, NEW i \in Ids(req[x])
    PROVE  i \notin NewGroupId /\ i \notin NewItemId
<1>1. Ids(req[x]) \in {Ids(req[q]) : q \in Req}
  OBVIOUS
<1>2. i \in Mentioned
  BY <1>1 DEF Mentioned
<1> QED  BY <1>2 DEF NewGroupId, NewItemId

\* What another request has found is still so after a write of r.
LEMMA OthersKeep ==
    ASSUME RequestsInv, NEW x \in Req, KeepsOwners, ForeignKeys', req'[x] = req[x]
    PROVE  Owns(req[x])'
<1> DEFINE q == req[x]
<1>1. Owns(q) /\ Typed(q)
  BY InvTypes
<1>2. \A g \in {q.group} \cup q.cards : Mine(q.user, g) => (g \in DOMAIN groups' => groups'[g].user = q.user)
  BY HeldIds DEF Mine, KeepsOwners, Ids
<1>3. \A i \in {q.item} \cup (IF q.kind = "reorder_favorites" THEN DOMAIN q.orders ELSE {}) :
         MyItem(q.user, i) => (i \in DOMAIN items' => /\ items'[i].group \in DOMAIN groups'
                                                       /\ groups'[items'[i].group].user = q.user)
  <2> SUFFICES ASSUME NEW i \in {q.item} \cup (IF q.kind = "reorder_favorites" THEN DOMAIN q.orders ELSE {}),
                      MyItem(q.user, i), i \in DOMAIN items'
               PROVE  /\ items'[i].group \in DOMAIN groups'
                      /\ groups'[items'[i].group].user = q.user
    OBVIOUS
  <2>1. i \notin NewItemId
    BY HeldIds DEF Ids
  <2>2. i \in DOMAIN items /\ items'[i].group = items[i].group /\ items[i].group \in GroupsOf(q.user)
    BY <2>1 DEF KeepsOwners, MyItem
  <2>3. items'[i].group \in DOMAIN groups'
    BY DEF ForeignKeys
  <2> QED  BY <2>2, <2>3 DEF GroupsOf, KeepsOwners
<1>4. q.user \in users => q.user \in users'
  BY DEF KeepsOwners
<1>5. q.at = "set_orders" => q.kind = "reorder_favorites"
  BY <1>1 DEF Typed, Statement
<1> QED  BY <1>1, <1>2, <1>3, <1>4, <1>5 DEF Owns, Mine, MyItem, GroupsOf

LEMMA WriteKeeps ==
    ASSUME RequestsInv, NEW r \in Req, Writes(r), Proceeds(r)
    PROVE  RequestsInv'
<1>1. \A x \in Req : Typed(req[x])' /\ Owns(req[x])'
  BY OthersKeep, InvTypes DEF Writes, Proceeds, Others, Typed, WholeIn
<1>2. TypeOK'
  BY <1>1 DEF Writes, TablesTyped, TypeOK, Typed, WholeIn, Idle, Fields, At
<1> QED  BY <1>1, <1>2 DEF Writes, TablesTyped, Proceeds, RequestsInv, RequestsTyped, RequestsOwn

LEMMA ReadKeeps ==
    ASSUME RequestsInv, NEW r \in Req, Reading, Advances(r)
    PROVE  RequestsInv'
<1>1. TablesTyped' /\ ForeignKeys' /\ KeepsOwners
  BY InvTypes DEF TablesTyped, ForeignKeys, KeepsOwners, Reading, tables
<1>2. Owns(req[r])'
  BY DEF Advances, Owns, Mine, MyItem, GroupsOf, Reading, tables
<1>3. \A x \in Req : Typed(req[x])' /\ Owns(req[x])'
  BY <1>1, <1>2, OthersKeep, InvTypes DEF Advances, Others, Typed, WholeIn
<1>4. TypeOK'
  BY <1>1, <1>3 DEF TablesTyped, TypeOK, Typed, WholeIn, Idle, Fields, At
<1> QED  BY <1>1, <1>3, <1>4 DEF TablesTyped, Advances, RequestsInv, RequestsTyped, RequestsOwn

\* A call that arrives is well formed and knows nothing yet.
LEMMA BeginFits ==
    ASSUME NEW u \in User, NEW call \in Calls, NEW label, label \in {"get_home", "user"},
           label = "get_home" => call.kind = "get_home",
           NEW p, p = Merge(call, [Idle EXCEPT !.user = u, !.at = label])
    PROVE  Typed(p) /\ Owns(p)
<1> DEFINE named == {"kind", "group", "item", "stop", "service", "name", "order", "orders", "emoji"}
           base == [Idle EXCEPT !.user = u, !.at = label]
<1>1. DOMAIN call \subseteq named /\ "kind" \in DOMAIN call /\ call.kind \in KindOf
  BY DEF Calls, KindOf
<1>2. DOMAIN base = Fields /\ DOMAIN p = Fields /\ named \subseteq Fields
  BY <1>1 DEF Merge, Idle, Fields
<1>3. \A f \in Fields : p[f] = IF f \in DOMAIN call THEN call[f] ELSE base[f]
  BY <1>1, <1>2 DEF Merge
<1>4. WholeIn(p, Fields)
  BY <1>1, <1>2 DEF WholeIn, Merge
<1>5. p.at = label /\ p.user = u /\ p.held = {} /\ p.alias = NoValue /\ p.kind = call.kind
  BY <1>1, <1>2, <1>3 DEF Idle, Fields
<1>6. Statement(p) /\ Owns(p)
  BY <1>5 DEF Statement, Owns, Unfound
<1>7. /\ p.group = IF "group" \in DOMAIN call THEN call.group ELSE NoValue
      /\ p.item = IF "item" \in DOMAIN call THEN call.item ELSE NoValue
      /\ p.stop = IF "stop" \in DOMAIN call THEN call.stop ELSE NoValue
      /\ p.service = IF "service" \in DOMAIN call THEN call.service ELSE NoValue
      /\ p.name = IF "name" \in DOMAIN call THEN call.name ELSE NoValue
      /\ p.order = IF "order" \in DOMAIN call THEN call.order ELSE NoValue
      /\ p.orders = IF "orders" \in DOMAIN call THEN call.orders ELSE NoValue
  BY <1>2, <1>3 DEF Idle, Fields
<1> HIDE DEF base
<1>8. Payload(p)
  <2>1. CASE call \in [kind : {"create_group"}, name : Name, order : Order]
    BY <1>5, <1>7, <2>1 DEF Payload
  <2>2. CASE call \in [kind : {"update_group"}, group : GroupId, name : Name \cup {NoValue},
                       order : Order \cup {NoValue}, emoji : BOOLEAN]
    BY <1>5, <1>7, <2>2 DEF Payload
  <2>3. CASE call \in [kind : {"delete_group"}, group : GroupId]
    BY <1>5, <1>7, <2>3 DEF Payload
  <2>4. CASE call \in [kind : {"create_favorite"}, group : GroupId \cup {NoValue},
                       stop : Stop, service : Service]
    BY <1>5, <1>7, <2>4 DEF Payload
  <2>5. CASE call \in [kind : {"reorder_favorites"},
                       orders : UNION {[S -> Order] : S \in (SUBSET ItemId) \ {{}}}]
    <3>1. PICK S \in (SUBSET ItemId) \ {{}} : call.orders \in [S -> Order]
      BY <2>5
    <3>2. DOMAIN call.orders = S /\ call.orders \in [DOMAIN call.orders -> Order]
      BY <3>1
    <3> QED  BY <1>5, <1>7, <2>5, <3>2 DEF Payload
  <2>6. CASE call \in [kind : {"delete_favorite"}, item : ItemId]
    BY <1>5, <1>7, <2>6 DEF Payload
  <2>7. CASE call \in [kind : {"upsert_alias"}, stop : Stop, name : Name]
    BY <1>5, <1>7, <2>7 DEF Payload
  <2>8. CASE call \in [kind : {"delete_alias"}, stop : Stop]
    BY <1>5, <1>7, <2>8 DEF Payload
  <2>9. CASE call \in [kind : {"get_home"}]
    BY <1>5, <1>7, <2>9 DEF Payload
  <2> QED  BY <2>1, <2>2, <2>3, <2>4, <2>5, <2>6, <2>7, <2>8, <2>9 DEF Calls
<1> QED  BY <1>1, <1>4, <1>5, <1>6, <1>8 DEF Typed

LEMMA BeginKeeps ==
    ASSUME RequestsInv, NEW r \in Req, NEW u \in User, NEW call \in Calls, Begin(r, u, call)
    PROVE  RequestsInv'
<1> DEFINE label == IF call.kind = "get_home" THEN "get_home" ELSE "user"
<1>1. req' = [req EXCEPT ![r] = Merge(call, [Idle EXCEPT !.user = u, !.at = label])] /\ Reading
  BY DEF Begin, Reads, Reading
<1>2. req = [x \in Req |-> req[x]]
  BY DEF RequestsInv, RequestsTyped
<1>3. req' = [x \in Req |-> req'[x]] /\ Others(r)
      /\ req'[r] = Merge(call, [Idle EXCEPT !.user = u, !.at = label])
  BY <1>1, <1>2 DEF Others
<1>4. label \in {"get_home", "user"} /\ (label = "get_home" => call.kind = "get_home")
  OBVIOUS
<1> HIDE DEF label
<1>5. Advances(r)
  BY <1>3, <1>4, BeginFits DEF Advances
<1> QED  BY <1>1, <1>5, ReadKeeps

\* The cache loses payloads and a restart loses requests: both keep the rest.
LEMMA EnvironmentKeeps ==
    ASSUME RequestsInv, Crash \/ (\E u \in User : ExpireHome(u)) \/ UNCHANGED vars
    PROVE  RequestsInv'
<1>1. UNCHANGED <<users, tables>> /\ home' = [u \in User |-> home'[u]]
  BY InvTypes DEF Crash, ExpireHome, vars, tables, TablesTyped
<1>2. TablesTyped' /\ ForeignKeys'
  BY <1>1, InvTypes DEF TablesTyped, ForeignKeys, tables
<1>3. req' = [r \in Req |-> req'[r]] /\ \A r \in Req : req'[r] \in {Idle, req[r]}
  BY DEF Crash, ExpireHome, vars, RequestsInv, RequestsTyped
<1>4. \A r \in Req : Typed(req'[r]) /\ Owns(req'[r])
  BY <1>3, InvTypes, IdleFits
<1>5. \A r \in Req : Owns(req[r])'
  BY <1>1, <1>4 DEF Owns, Mine, MyItem, GroupsOf, tables
<1>6. TypeOK'
  BY <1>2, <1>4 DEF TablesTyped, TypeOK, Typed, WholeIn, Idle, Fields, At
<1> QED  BY <1>2, <1>3, <1>4, <1>5, <1>6 DEF TablesTyped, RequestsInv, RequestsTyped, RequestsOwn

LEMMA InitFits == Init => RequestsInv
<1> SUFFICES ASSUME Init PROVE RequestsInv
  OBVIOUS
<1>1. TypeOK /\ ForeignKeys
  BY RegisteredAssumption DEF Init, TypeOK, ForeignKeys, EmptyTable, At
<1>2. RequestsTyped /\ RequestsOwn
  BY IdleFits DEF Init, RequestsTyped, RequestsOwn
<1> QED  BY <1>1, <1>2 DEF RequestsInv

LEMMA NextKeeps ==
    ASSUME RequestsInv, [Next]_vars
    PROVE  RequestsInv'
<1>1. ASSUME NEW r \in Req, Step(r) PROVE RequestsInv'
  BY <1>1, StepFits, ReadKeeps, WriteKeeps DEF Fits
<1> QED  BY <1>1, BeginKeeps, EnvironmentKeeps DEF Next

LEMMA InvariantHolds == Spec => []RequestsInv
BY NextKeeps, InitFits, PTL DEF Spec

-----------------------------------------------------------------------------
(* Theorems.                                                                *)

\* The tables, the cache and every request keep their types, whatever
\* requests arrive and however their statements interleave.
THEOREM TypeCorrect == Spec => []TypeOK
BY InvariantHolds, PTL DEF RequestsInv

\* The foreign keys hold however requests interleave: an item is never left
\* without its card by a delete that runs between the statements of another
\* request, nor a card or an alias without its user.
THEOREM RowsReferToRows == Spec => []ForeignKeys
BY InvariantHolds, PTL DEF RequestsInv

\* What user v has, and is shown, is as it was.
Untouched(v) ==
    /\ GroupsOf(v)' = GroupsOf(v)
    /\ \A g \in GroupsOf(v) : groups'[g] = groups[g]
    /\ ItemsOf(v)' = ItemsOf(v)
    /\ \A i \in ItemsOf(v) : items'[i] = items[i]
    /\ {k \in DOMAIN aliases : k[1] = v}' = {k \in DOMAIN aliases : k[1] = v}
    /\ \A s \in Stop : /\ <<v, s>> \in DOMAIN aliases' <=> <<v, s>> \in DOMAIN aliases
                       /\ <<v, s>> \in DOMAIN aliases => aliases'[<<v, s>>] = aliases[<<v, s>>]

LEMMA OthersUntouched ==
    ASSUME RequestsInv, NEW r \in Req, Writes(r), NEW v \in User, v # req[r].user
    PROVE  Untouched(v) /\ home'[v] = home[v]
<1>0. PICK u : u = req[r].user
  OBVIOUS
<1>1. TablesTyped /\ TablesTyped' /\ ForeignKeys /\ ForeignKeys' /\ KeepsOwners /\ TouchesOnly(u)
  BY <1>0, InvTypes DEF Writes
<1>2. GroupsOf(v)' = GroupsOf(v) /\ \A g \in GroupsOf(v) : groups'[g] = groups[g]
  BY <1>0, <1>1 DEF GroupsOf, TouchesOnly, KeepsOwners
<1>3. \A i \in ItemsOf(v) : i \in DOMAIN items' /\ items'[i] = items[i]
  BY <1>0, <1>1 DEF ItemsOf, GroupsOf, TouchesOnly
<1>4. \A i \in DOMAIN items' : items'[i].group \in GroupsOf(v)' => i \in ItemsOf(v)
  <2> SUFFICES ASSUME NEW i \in DOMAIN items', items'[i].group \in GroupsOf(v)'
               PROVE  i \in ItemsOf(v)
    OBVIOUS
  <2>1. items'[i].group \in DOMAIN groups' /\ groups'[items'[i].group].user = v
    BY DEF GroupsOf
  <2>2. i \in DOMAIN items
    BY <1>0, <1>1, <2>1 DEF TouchesOnly
  <2>3. items'[i].group = items[i].group
    BY <1>1, <2>2 DEF KeepsOwners
  <2> QED  BY <1>2, <2>2, <2>3 DEF ItemsOf
<1>5. ItemsOf(v)' = ItemsOf(v)
  BY <1>2, <1>3, <1>4 DEF ItemsOf
<1>6. \A s \in Stop : /\ <<v, s>> \in DOMAIN aliases' <=> <<v, s>> \in DOMAIN aliases
                      /\ <<v, s>> \in DOMAIN aliases => aliases'[<<v, s>>] = aliases[<<v, s>>]
  BY <1>0, <1>1 DEF TouchesOnly
<1>7. {k \in DOMAIN aliases : k[1] = v}' = {k \in DOMAIN aliases : k[1] = v}
  <2>1. ASSUME NEW k \in User \X Stop, k[1] = v
        PROVE  k \in DOMAIN aliases' <=> k \in DOMAIN aliases
    <3>1. PICK s \in Stop : k = <<v, s>>
      BY <2>1
    <3>2. <<v, s>> \in DOMAIN aliases' <=> <<v, s>> \in DOMAIN aliases
      BY <1>6
    <3> QED  BY <3>1, <3>2
  <2>2. DOMAIN aliases \subseteq User \X Stop /\ DOMAIN aliases' \subseteq User \X Stop
    BY <1>1 DEF TablesTyped
  <2> QED  BY <2>1, <2>2
<1>8. home'[v] = home[v]
  BY <1>0, <1>1 DEF TouchesOnly
<1> QED  BY <1>2, <1>3, <1>5, <1>6, <1>7, <1>8 DEF Untouched

LEMMA UntouchedRows ==
    ASSUME TablesTyped, NEW v, Untouched(v)
    PROVE  UNCHANGED RowsOf(v)
<1>1. Restrict(groups, GroupsOf(v))' = Restrict(groups, GroupsOf(v))
  BY DEF Untouched, Restrict
<1>2. Restrict(items, ItemsOf(v))' = Restrict(items, ItemsOf(v))
  BY DEF Untouched, Restrict
<1>3. {items[i].stop : i \in ItemsOf(v)}' = {items[i].stop : i \in ItemsOf(v)}
  BY DEF Untouched
<1>4. {items[i].stop : i \in ItemsOf(v)} \subseteq Stop
  BY DEF TablesTyped, ItemsOf, ItemRow
<1>5. \A s \in Stop : DisplayName(v, s)' = DisplayName(v, s)
  BY DEF Untouched, DisplayName
<1>6. HomeView(v)' = HomeView(v)
  BY <1>1, <1>2, <1>3, <1>4, <1>5 DEF HomeView
<1> QED  BY <1>6 DEF Untouched, RowsOf

\* Every write takes its request to another statement.
LEMMA WritesMove ==
    ASSUME RequestsInv, NEW r \in Req, Step(r), ~Reading
    PROVE  req'[r] # req[r]
<1> DEFINE q == req[r]
           p == req'[r]
<1>1. req = [x \in Req |-> req[x]] /\ WholeIn(q, Fields)
  BY InvTypes DEF RequestsInv, RequestsTyped, Typed
<1>2. Finish(r) => p.at = "idle"
  BY <1>1 DEF Finish, Idle
<1>3. ASSUME Committed(r) PROVE p.at = "invalidate"
  <2>1. p = [[q EXCEPT !.at = "invalidate"] EXCEPT !.held = {}]
    BY <1>1, <1>3 DEF Committed
  <2> QED  BY <1>1, <2>1 DEF WholeIn, Fields
<1>4. \A label : Goto(r, label) => p.at = label
  BY <1>1 DEF Goto, WholeIn, Fields
<1>5. ASSUME InsertUser(r) PROVE p # q
  <2>1. q.at = "new_user" /\ q.kind \in KindOf
    BY <1>5, InvTypes DEF InsertUser, At, Typed
  <2>2. Entry(r) # "new_user"
    BY <2>1 DEF Entry, KindOf
  <2> QED  BY <1>2, <1>4, <1>5, <2>1, <2>2 DEF InsertUser
<1>6. CASE InvalidateHome(r) \/ SetHome(r)
  BY <1>2, <1>6 DEF InvalidateHome, SetHome, At
<1>7. CASE InsertGroup(r) \/ UpdateGroup(r) \/ DeleteGroup(r)
  BY <1>2, <1>3, <1>4, <1>7 DEF InsertGroup, UpdateGroup, DeleteGroup, At
<1>8. CASE InsertItem(r) \/ InsertCard(r)
  BY <1>2, <1>3, <1>8 DEF InsertItem, InsertCard, At
<1>9. CASE SetOrders(r) \/ CommitItem(r) \/ DeleteEmptyCard(r) \/ CommitAlias(r)
  BY <1>3, <1>9 DEF SetOrders, CommitItem, DeleteEmptyCard, CommitAlias, At
<1> QED
  BY <1>5, <1>6, <1>7, <1>8, <1>9
  DEF Step, CardStep, CreateStep, ItemStep, AliasStep, HomeStep, Reading, Reads, FindUser, GetHome,
      AbortDeadlock, RequireGroup, CardStop, RereadGroup, LockGroup, FirstStop, FindFavorite, FindCard,
      CheckCard, ItemOrder, CardOrder, CardName, FindFavorites, RequireFavorite, DeleteItem, CountLeft,
      FindAlias, WriteAlias, DropAlias, AliasCards, ListGroups, ListItems

\* Whichever ids other devices name, and whatever they have in flight, the rows
\* of a device and its cached payload change only in a step of one of its own
\* requests (or, the payload, when it expires): what a request found to be its
\* user's some statements ago is not another user's when it is written.
THEOREM OwnRequestsOnly == Spec => OnlyOwnRequests
<1> DEFINE Kept(u) == UNCHANGED RowsOf(u) /\ home'[u] \in {home[u], NoHome}
           Own(u) == \E r \in Req : req[r].user = u /\ req'[r] # req[r]
<1>1. ASSUME RequestsInv, Next, NEW u \in User PROVE Kept(u) \/ Own(u)
  <2>1. ASSUME UNCHANGED <<users, tables>>, home'[u] \in {home[u], NoHome} PROVE Kept(u)
    BY <2>1 DEF RowsOf, HomeView, Restrict, GroupsOf, ItemsOf, DisplayName, tables
  <2>2. ASSUME Reading PROVE Kept(u)
    BY <2>1, <2>2 DEF Reading
  <2>3. ASSUME NEW v \in User, ExpireHome(v) PROVE Kept(u)
    <3>1. home'[u] \in {home[u], NoHome}
      BY <1>1, <2>3, InvTypes DEF ExpireHome, TablesTyped
    <3> QED  BY <2>1, <2>3, <3>1 DEF ExpireHome
  <2>4. ASSUME NEW r \in Req, Step(r), ~Reading PROVE Kept(u) \/ Own(u)
    <3>1. CASE u = req[r].user
      BY <1>1, <2>4, <3>1, WritesMove
    <3>2. CASE u # req[r].user
      BY <1>1, <2>4, <3>2, StepFits, InvTypes, OthersUntouched, UntouchedRows DEF Fits
    <3> QED  BY <3>1, <3>2
  <2> QED  BY <1>1, <2>2, <2>3, <2>4 DEF Next, Begin, Crash, Reads, Reading
<1>2. RequestsInv /\ [Next]_vars
        => [\A u \in User :
              \/ UNCHANGED RowsOf(u) /\ home'[u] \in {home[u], NoHome}
              \/ \E r \in Req : req[r].user = u /\ req'[r] # req[r]]_vars
  BY <1>1
<1> QED  BY <1>2, InvariantHolds, PTL DEF Spec, OnlyOwnRequests
-----------------------------------------------------------------------------
(* Devices that wait for their answers.  What a request has read of its     *)
(* user's rows then stays true until its next statement, since only the     *)
(* requests of a user touch them: each commit is the atomic call of the     *)
(* serial machine, as if all of the request had run at that moment.         *)

AliasNow(q) ==
    IF <<q.user, q.stop>> \in DOMAIN aliases THEN aliases[<<q.user, q.stop>>] ELSE NoValue

\* The card a favourite is added to: the one named, or the station's first.
Target(q) ==
    /\ q.group \in GroupsOf(q.user)
    /\ q.group \in ExplicitTargets(q.group, q.stop) \cup FirstCards(q.user, q.stop)

KnowsCard(q) ==
    /\ q.at \in {"user", "new_user", "require_group", "card_stop"} /\ q.kind = "update_group"
         => q.stop = NoValue
    /\ q.at = "card_stop" => q.name # NoValue
    /\ q.at \in {"card_stop", "update_group", "reread_group", "lock_group", "delete_group",
                 "first_stop"} => q.group \in GroupsOf(q.user)
    /\ q.at = "find_alias" /\ q.kind = "update_group" =>
        q.group \in GroupsOf(q.user) /\ \E i \in ItemsIn(q.group) : items[i].stop = q.stop
    /\ q.at = "update_group" =>
        IF q.name = NoValue THEN q.stop = NoValue
        ELSE IF q.stop = NoValue THEN ItemsIn(q.group) = {}
        ELSE q.alias = AliasNow(q) /\ \E i \in ItemsIn(q.group) : items[i].stop = q.stop
    /\ q.at \in {"user", "new_user", "require_group", "lock_group"} /\ q.kind = "delete_group"
         => q.held = {}
    /\ q.at = "delete_group" => q.held = {q.group}

KnowsTarget(q) ==
    /\ q.at = "find_favorite" => q.group = NoValue \/ Target(q)
    /\ q.at = "find_card" => q.group = NoValue
    /\ q.at \in {"check_card", "item_order", "insert_item"} => Target(q)
    /\ q.at \in {"find_card", "check_card", "item_order", "insert_item", "card_order",
                 "card_name", "insert_card"} => FavoritesAt(q.user, q.stop, q.service) = {}
    /\ q.at = "insert_item" => IsNextOrder(q.order, {items[i].order : i \in ItemsIn(q.group)})
    /\ q.at \in {"card_order", "card_name", "insert_card"} => CardsFor(q.user, q.stop) = {}
    /\ q.at \in {"card_name", "insert_card"} =>
        IsNextOrder(q.order, {groups[g].order : g \in GroupsOf(q.user)})
    /\ q.at = "insert_card" => q.name = DisplayName(q.user, q.stop)

KnowsItem(q) ==
    /\ q.at = "set_orders" => DOMAIN q.orders \subseteq ItemsOf(q.user)
    /\ q.at \in {"delete_item", "count_left", "commit_item", "delete_empty_card"} =>
        q.item \in ItemsOf(q.user) /\ q.group = items[q.item].group
    /\ q.at \in {"count_left", "commit_item", "delete_empty_card"} => q.held = {q.item}
    /\ q.at = "commit_item" => ItemsIn(q.group) # {q.item}
    /\ q.at = "delete_empty_card" => ItemsIn(q.group) = {q.item}

KnowsAlias(q) ==
    /\ q.at = "write_alias" => q.alias = AliasNow(q)
    /\ q.at \in {"alias_cards", "commit_alias"} =>
        /\ q.kind = "upsert_alias" /\ q.held = {} => AliasNow(q) = q.name
        /\ q.kind = "delete_alias" => q.name = Description[q.stop]
        /\ q.kind = "delete_alias" /\ q.held = {} => <<q.user, q.stop>> \notin DOMAIN aliases
    /\ q.at = "commit_alias" => q.cards = CardsFor(q.user, q.stop)

\* The items of the cards a home view has been read of.
ReadOf(q) == {i \in ItemsOf(q.user) : items[i].group \notin q.cards}

KnowsHome(q) ==
    /\ q.at \in {"user", "new_user", "list_groups", "list_items"} /\ q.kind = "get_home" =>
        home[q.user] = NoHome
    /\ q.at = "list_items" =>
        /\ q.cards \subseteq GroupsOf(q.user)
        /\ q.view = [groups |-> Restrict(groups, GroupsOf(q.user)),
                     items |-> Restrict(items, ReadOf(q)),
                     names |-> [s \in {items[i].stop : i \in ReadOf(q)} |->
                                    DisplayName(q.user, s)]]

Knows(q) == KnowsCard(q) /\ KnowsTarget(q) /\ KnowsItem(q) /\ KnowsAlias(q) /\ KnowsHome(q)

\* A device has one request in flight.
OneEach ==
    \A x, y \in Req : req[x].at # "idle" /\ req[y].at # "idle" /\ req[x].user = req[y].user => x = y

SerialInv == RequestsInv /\ OneEach /\ \A q \in {req[r] : r \in Req} : Knows(q)

\* Nobody has two calls in flight, and neither Redis nor the server fails.
Waiting == OnePerUser /\ ~CacheFaults /\ ~Crashes

\* The answers of the queries about an untouched user are what they were.
LEMMA SameCards ==
    ASSUME NEW u, Untouched(u), NEW g \in GroupsOf(u)
    PROVE  ItemsIn(g)' = ItemsIn(g) /\ ItemsIn(g) \subseteq ItemsOf(u)
<1>1. ItemsIn(g) = {i \in ItemsOf(u) : items[i].group = g}
  BY DEF ItemsIn, ItemsOf
<1>2. ItemsIn(g)' = {i \in ItemsOf(u)' : items'[i].group = g}
  BY DEF ItemsIn, ItemsOf, Untouched
<1> QED  BY <1>1, <1>2 DEF Untouched

LEMMA SameStations ==
    ASSUME NEW u, Untouched(u), NEW s
    PROVE  /\ CardsFor(u, s)' = CardsFor(u, s)
           /\ FirstCards(u, s)' = FirstCards(u, s)
           /\ \A v : FavoritesAt(u, s, v)' = FavoritesAt(u, s, v)
<1>1. CardsFor(u, s) = {g \in GroupsOf(u) : \E i \in ItemsOf(u) : items[i].group = g /\ items[i].stop = s}
  BY DEF CardsFor, ItemsIn, ItemsOf
<1>2. CardsFor(u, s)' = {g \in GroupsOf(u)' : \E i \in ItemsOf(u)' : items'[i].group = g /\ items'[i].stop = s}
  BY DEF CardsFor, ItemsIn, ItemsOf
<1>3. CardsFor(u, s)' = CardsFor(u, s)
  BY <1>1, <1>2 DEF Untouched
<1>4. \A v : FavoritesAt(u, s, v)' = FavoritesAt(u, s, v)
  BY DEF FavoritesAt, Untouched
<1>5. {i \in ItemsOf(u) : items[i].stop = s}' = {i \in ItemsOf(u) : items[i].stop = s}
  BY DEF Untouched
<1>6. \A i \in ItemsOf(u) : items'[i] = items[i] /\ groups'[items[i].group] = groups[items[i].group]
  BY DEF Untouched, ItemsOf
<1>7. FirstCards(u, s)' = FirstCards(u, s)
  BY <1>5, <1>6 DEF FirstCards
<1> QED  BY <1>3, <1>4, <1>7

LEMMA SameTargets ==
    ASSUME NEW u, Untouched(u), NEW g \in GroupsOf(u), NEW s
    PROVE  ExplicitTargets(g, s)' = ExplicitTargets(g, s)
<1>1. ItemsIn(g)' = ItemsIn(g) /\ ItemsIn(g) \subseteq ItemsOf(u)
  BY SameCards
<1>2. \A i \in ItemsIn(g) : items'[i] = items[i]
  BY <1>1 DEF Untouched
<1>3. FirstStops(g)' = FirstStops(g)
  BY <1>1, <1>2 DEF FirstStops
<1> QED  BY <1>1, <1>3 DEF ExplicitTargets

LEMMA SameNames ==
    ASSUME NEW u, Untouched(u), NEW s \in Stop
    PROVE  DisplayName(u, s)' = DisplayName(u, s)
BY DEF Untouched, DisplayName

LEMMA KnownStays ==
    ASSUME TablesTyped, NEW q, Typed(q), Untouched(q.user), home'[q.user] \in {home[q.user], NoHome},
           Knows(q)
    PROVE  Knows(q)'
<1>1. CASE q.at = "idle"
  BY <1>1 DEF Knows, KnowsCard, KnowsTarget, KnowsItem, KnowsAlias, KnowsHome
<1>2. CASE q.at # "idle"
  <2>1. Statement(q) /\ Payload(q) /\ GroupsOf(q.user)' = GroupsOf(q.user)
        /\ ItemsOf(q.user)' = ItemsOf(q.user)
    BY <1>2 DEF Typed, Untouched
  <2>2. q.stop \in Stop => AliasNow(q)' = AliasNow(q) /\ DisplayName(q.user, q.stop)' = DisplayName(q.user, q.stop)
    BY SameNames DEF AliasNow, Untouched
  <2>3. /\ CardsFor(q.user, q.stop)' = CardsFor(q.user, q.stop)
        /\ FirstCards(q.user, q.stop)' = FirstCards(q.user, q.stop)
        /\ FavoritesAt(q.user, q.stop, q.service)' = FavoritesAt(q.user, q.stop, q.service)
    BY SameStations
  <2>4. q.group \in GroupsOf(q.user) =>
          /\ ExplicitTargets(q.group, q.stop)' = ExplicitTargets(q.group, q.stop)
          /\ ItemsIn(q.group)' = ItemsIn(q.group)
          /\ \A i \in ItemsIn(q.group) : items'[i] = items[i]
    BY SameTargets, SameCards DEF Untouched
  <2>5. KnowsCard(q)'
    BY <2>1, <2>2, <2>4, NoValueAssumption DEF Knows, KnowsCard, Statement, Payload
  <2>6. KnowsTarget(q)'
    <3>1. Target(q) => Target(q)'
      BY <2>1, <2>3, <2>4 DEF Target
    <3>2. {groups[g].order : g \in GroupsOf(q.user)}' = {groups[g].order : g \in GroupsOf(q.user)}
      BY DEF Untouched
    <3>3. Target(q) => {items[i].order : i \in ItemsIn(q.group)}' = {items[i].order : i \in ItemsIn(q.group)}
      BY <2>4 DEF Target
    <3>4. \A n, used : IsNextOrder(n, used)' <=> IsNextOrder(n, used)
      BY DEF IsNextOrder
    <3> QED  BY <2>1, <2>2, <2>3, <3>1, <3>2, <3>3, <3>4 DEF Knows, KnowsTarget, Statement, Payload
  <2>7. KnowsItem(q)'
    <3>1. q.item \in ItemsOf(q.user) => items'[q.item] = items[q.item] /\ items[q.item].group \in GroupsOf(q.user)
      BY DEF Untouched, ItemsOf
    <3> QED  BY <2>1, <2>4, <3>1 DEF Knows, KnowsItem
  <2>8. KnowsAlias(q)'
    <3>1. q.stop \in Stop => (<<q.user, q.stop>> \in DOMAIN aliases' <=> <<q.user, q.stop>> \in DOMAIN aliases)
      BY DEF Untouched
    <3> QED  BY <2>1, <2>2, <2>3, <3>1 DEF Knows, KnowsAlias, Statement, Payload
  <2>9. KnowsHome(q)'
    <3>1. ReadOf(q)' = ReadOf(q) /\ ReadOf(q) \subseteq ItemsOf(q.user)
      BY DEF Untouched, ReadOf
    <3>2. Restrict(groups, GroupsOf(q.user))' = Restrict(groups, GroupsOf(q.user))
      BY DEF Untouched, Restrict
    <3>3. Restrict(items, ReadOf(q))' = Restrict(items, ReadOf(q))
      BY <3>1 DEF Untouched, Restrict
    <3>4. {items[i].stop : i \in ReadOf(q)}' = {items[i].stop : i \in ReadOf(q)}
          /\ {items[i].stop : i \in ReadOf(q)} \subseteq Stop
      BY <3>1 DEF Untouched, ItemsOf, TablesTyped, ItemRow
    <3>5. [s \in {items[i].stop : i \in ReadOf(q)} |-> DisplayName(q.user, s)]'
            = [s \in {items[i].stop : i \in ReadOf(q)} |-> DisplayName(q.user, s)]
      BY <3>4, SameNames
    <3> QED  BY <2>1, <3>2, <3>3, <3>5 DEF Knows, KnowsHome
  <2> QED  BY <2>5, <2>6, <2>7, <2>8, <2>9 DEF Knows
<1> QED  BY <1>1, <1>2

\* A request that has ended, or committed, has nothing left to know.
Ended(p) == p.at \in {"idle", "invalidate"}

LEMMA EndsNow ==
    ASSUME RequestsInv, NEW r \in Req, Finish(r) \/ Committed(r), NEW p, p = req'[r]
    PROVE  Ended(p)
<1>1. req = [x \in Req |-> req[x]] /\ WholeIn(req[r], Fields)
  BY InvTypes DEF RequestsInv, RequestsTyped, Typed
<1>2. CASE Finish(r)
  BY <1>1, <1>2 DEF Finish, Idle, Ended
<1>3. CASE Committed(r)
  <2>1. p = [[req[r] EXCEPT !.at = "invalidate"] EXCEPT !.held = {}]
    BY <1>1, <1>3 DEF Committed
  <2> QED  BY <1>1, <2>1 DEF WholeIn, Fields, Ended
<1> QED  BY <1>2, <1>3

LEMMA EndedKnows ==
    ASSUME NEW p, Ended(p)
    PROVE  Knows(p) /\ Knows(p)'
BY DEF Ended, Knows, KnowsCard, KnowsTarget, KnowsItem, KnowsAlias, KnowsHome

\* The first statement of a request needs what it began with.
LEMMA EntryKnows ==
    ASSUME RequestsInv, NEW r \in Req, NEW q, q = req[r], Knows(q), q.at \in {"user", "new_user"},
           NEW p, p = req'[r], Goto(r, IF q.user \in users THEN Entry(r) ELSE "new_user") \/ Goto(r, Entry(r))
    PROVE  Knows(p)
<1>1. Typed(q) /\ req = [x \in Req |-> req[x]] /\ WholeIn(q, Fields)
  BY InvTypes DEF RequestsInv, RequestsTyped, Typed
<1>2. PICK label :
        /\ req' = [req EXCEPT ![r].at = label]
        /\ label # "new_user" =>
             /\ q.kind = "create_group" => label = "insert_group"
             /\ q.kind \in {"update_group", "delete_group"} => label = "require_group"
             /\ q.kind = "create_favorite" =>
                  label = IF q.group = NoValue THEN "find_favorite" ELSE "require_group"
             /\ q.kind = "reorder_favorites" => label = "find_favorites"
             /\ q.kind = "delete_favorite" => label = "require_favorite"
             /\ q.kind = "upsert_alias" => label = "find_alias"
             /\ q.kind = "delete_alias" => label = "drop_alias"
             /\ q.kind = "get_home" => label = "list_groups"
  <2>1. CASE Goto(r, "new_user")
    BY <2>1 DEF Goto
  <2>2. CASE Goto(r, Entry(r))
    <3>1. PICK label : label = Entry(r)
      OBVIOUS
    <3> QED  BY <2>2, <3>1 DEF Goto, Entry
  <2> QED  BY <2>1, <2>2 DEF Goto
<1>3. SameCall(p, q) /\ SameRows(p, q) /\ SameSets(p, q) /\ p.at = label
  BY <1>1, <1>2 DEF WholeIn, Fields, SameCall, SameRows, SameSets
<1>4. q.kind \in KindOf
  BY <1>1 DEF Typed
<1>5. CASE label = "new_user"
  BY <1>3, <1>5 DEF SameCall, SameRows, SameSets, Knows, KnowsCard, KnowsTarget, KnowsItem, KnowsAlias, KnowsHome
<1>6. CASE label # "new_user"
  BY <1>2, <1>3, <1>4, <1>6 DEF KindOf, SameCall, SameRows, SameSets, Knows, KnowsCard, KnowsTarget, KnowsItem, KnowsAlias, KnowsHome
<1> QED  BY <1>5, <1>6

LEMMA CardKnows ==
    ASSUME RequestsInv, NEW r \in Req, NEW q, q = req[r], Knows(q), NEW p, p = req'[r],
           RequireGroup(r) \/ CardStop(r) \/ FindAlias(r) \/ LockGroup(r)
    PROVE  Knows(p)
<1>1. Typed(q) /\ req = [x \in Req |-> req[x]] /\ WholeIn(q, Fields)
  BY InvTypes DEF RequestsInv, RequestsTyped, Typed
<1>2. CASE RequireGroup(r)
  <2>1. q.at = "require_group" /\ q.kind \in {"update_group", "delete_group", "create_favorite"}
    BY <1>1, <1>2 DEF RequireGroup, Reads, At, Typed, Statement
  <2>2. CASE Finish(r)
    BY <2>2, EndsNow, EndedKnows
  <2>3. CASE ~Finish(r)
    <3>1. PICK label : /\ req' = [req EXCEPT ![r].at = label] /\ q.group \in GroupsOf(q.user)
                       /\ q.kind = "create_favorite" => label = "first_stop"
                       /\ q.kind = "delete_group" => label = "lock_group"
                       /\ q.kind = "update_group" =>
                            label = IF q.name = NoValue THEN "update_group" ELSE "card_stop"
      BY <1>2, <2>1, <2>3 DEF RequireGroup, Goto
    <3>2. SameCall(p, q) /\ SameRows(p, q) /\ SameSets(p, q) /\ p.at = label
      BY <1>1, <3>1 DEF WholeIn, Fields, SameCall, SameRows, SameSets
    <3> QED  BY <2>1, <3>1, <3>2 DEF SameCall, SameRows, SameSets, Knows, KnowsCard, KnowsTarget, KnowsItem, KnowsAlias, KnowsHome
  <2> QED  BY <2>2, <2>3
<1>3. CASE CardStop(r)
  <2>1. q.at = "card_stop" /\ q.kind = "update_group"
    BY <1>1, <1>3 DEF CardStop, Reads, At, Typed, Statement
  <2>2. CASE Goto(r, "update_group") /\ ItemsIn(q.group) = {}
    <3>1. SameCall(p, q) /\ SameRows(p, q) /\ SameSets(p, q) /\ p.at = "update_group"
      BY <1>1, <2>2 DEF Goto, WholeIn, Fields, SameCall, SameRows, SameSets
    <3> QED  BY <2>1, <2>2, <3>1 DEF SameCall, SameRows, SameSets, Knows, KnowsCard, KnowsTarget, KnowsItem, KnowsAlias, KnowsHome
  <2>3. ASSUME NEW i \in ItemsIn(q.group),
               req' = [req EXCEPT ![r].stop = items[i].stop, ![r].at = "find_alias"]
        PROVE  Knows(p)
    <3>1. p = [[q EXCEPT !.stop = items[i].stop] EXCEPT !.at = "find_alias"]
      BY <1>1, <2>3
    <3>2. SameCall(p, q) /\ SameSets(p, q) /\ p.group = q.group /\ p.stop = items[i].stop
          /\ p.at = "find_alias"
      BY <1>1, <3>1 DEF WholeIn, Fields, SameCall, SameSets
    <3> QED  BY <2>1, <2>3, <3>2 DEF SameCall, SameSets, Knows, KnowsCard, KnowsTarget, KnowsItem, KnowsAlias, KnowsHome
  <2> QED  BY <1>3, <2>2, <2>3 DEF CardStop
<1>4. CASE FindAlias(r)
  <2>1. q.at = "find_alias" /\ q.kind \in {"update_group", "upsert_alias"} /\ Payload(q)
    BY <1>1, <1>4 DEF FindAlias, Reads, At, Typed, Statement
  <2>2. PICK label : /\ req' = [req EXCEPT ![r].alias = AliasNow(q), ![r].at = label]
                     /\ label = IF q.kind = "update_group" THEN "update_group" ELSE "write_alias"
    BY <1>4 DEF FindAlias, AliasNow, AliasKey
  <2>3. p = [[q EXCEPT !.alias = AliasNow(q)] EXCEPT !.at = label]
    BY <1>1, <2>2
  <2>4. SameCall(p, q) /\ SameSets(p, q) /\ p.group = q.group /\ p.stop = q.stop /\ p.name = q.name
        /\ p.at = label /\ p.alias = AliasNow(q)
    BY <1>1, <2>3 DEF WholeIn, Fields, SameCall, SameSets
  <2>5. AliasNow(p) = AliasNow(q)
    BY <2>4 DEF AliasNow, SameCall
  <2>6. q.kind = "update_group" => q.name # NoValue /\ q.stop # NoValue
    BY <2>1, NoValueAssumption DEF Payload
  <2>7. CASE q.kind = "update_group"
    <3>1. q.group \in GroupsOf(q.user) /\ \E i \in ItemsIn(q.group) : items[i].stop = q.stop
      BY <2>1, <2>7 DEF Knows, KnowsCard
    <3>2. p.at = "update_group" /\ p.kind = "update_group" /\ p.name # NoValue /\ p.stop # NoValue
          /\ p.alias = AliasNow(p)
          /\ p.group \in GroupsOf(p.user) /\ \E i \in ItemsIn(p.group) : items[i].stop = p.stop
      BY <2>2, <2>4, <2>5, <2>6, <2>7, <3>1 DEF SameCall
    <3> QED  BY <3>2 DEF Knows, KnowsCard, KnowsTarget, KnowsItem, KnowsAlias, KnowsHome
  <2>8. CASE q.kind = "upsert_alias"
    <3>1. p.at = "write_alias" /\ p.alias = AliasNow(p)
      BY <2>2, <2>4, <2>5, <2>8
    <3> QED  BY <3>1 DEF Knows, KnowsCard, KnowsTarget, KnowsItem, KnowsAlias, KnowsHome
  <2> QED  BY <2>1, <2>7, <2>8
<1>5. CASE LockGroup(r)
  <2>1. q.at = "lock_group" /\ q.kind = "delete_group"
    BY <1>1, <1>5 DEF LockGroup, Reads, At, Typed, Statement
  <2>2. q.held \cup ({q.group} \cap DOMAIN groups) = {q.group}
    BY <2>1 DEF Knows, KnowsCard, GroupsOf
  <2>3. p = [[q EXCEPT !.held = {q.group}] EXCEPT !.at = "delete_group"]
    BY <1>1, <1>5, <2>2 DEF LockGroup
  <2>4. SameCall(p, q) /\ SameRows(p, q) /\ p.held = {q.group} /\ p.at = "delete_group"
    BY <1>1, <2>2, <2>3 DEF WholeIn, Fields, SameCall, SameRows
  <2> QED  BY <2>1, <2>4 DEF SameCall, SameRows, Knows, KnowsCard, KnowsTarget, KnowsItem, KnowsAlias, KnowsHome
<1> QED  BY <1>2, <1>3, <1>4, <1>5

LEMMA CreateKnows ==
    ASSUME RequestsInv, NEW r \in Req, NEW q, q = req[r], Knows(q), NEW p, p = req'[r],
           FirstStop(r) \/ FindFavorite(r) \/ FindCard(r) \/ CheckCard(r) \/ ItemOrder(r)
           \/ CardOrder(r) \/ CardName(r)
    PROVE  Knows(p)
<1>1. Typed(q) /\ req = [x \in Req |-> req[x]] /\ WholeIn(q, Fields)
  BY InvTypes DEF RequestsInv, RequestsTyped, Typed
<1>2. q.kind = "create_favorite"
  BY <1>1 DEF FirstStop, FindFavorite, FindCard, CheckCard, ItemOrder, CardOrder, CardName,
              Reads, At, Typed, Statement
<1>3. CASE FirstStop(r)
  <2>1. q.at = "first_stop" /\ q.group \in GroupsOf(q.user)
    BY <1>3 DEF FirstStop, Reads, At, Knows, KnowsCard
  <2>2. PICK g \in ExplicitTargets(q.group, q.stop) :
            req' = [req EXCEPT ![r].group = g, ![r].at = "find_favorite"]
    BY <1>3 DEF FirstStop
  <2>3. g = NoValue \/ g = q.group
    BY DEF ExplicitTargets
  <2>4. p = [[q EXCEPT !.group = g] EXCEPT !.at = "find_favorite"]
    BY <1>1, <2>2
  <2>5. SameCall(p, q) /\ p.group = g /\ p.stop = q.stop /\ p.at = "find_favorite"
    BY <1>1, <2>4 DEF WholeIn, Fields, SameCall
  <2>6. p.group = NoValue \/ Target(p)
    BY <2>1, <2>2, <2>3, <2>5 DEF Target, SameCall
  <2> QED  BY <1>2, <2>5, <2>6 DEF SameCall, Knows, KnowsCard, KnowsTarget, KnowsItem, KnowsAlias, KnowsHome
<1>4. CASE FindFavorite(r)
  <2>1. q.at = "find_favorite" /\ (q.group = NoValue \/ Target(q))
    BY <1>4 DEF FindFavorite, Reads, At, Knows, KnowsTarget
  <2>2. ASSUME NEW label, label = IF q.group = NoValue THEN "find_card" ELSE "check_card",
               req' = [req EXCEPT ![r].at = label], FavoritesAt(q.user, q.stop, q.service) = {}
        PROVE  Knows(p)
    <3>1. SameCall(p, q) /\ SameRows(p, q) /\ SameSets(p, q) /\ p.at = label
      BY <1>1, <2>2 DEF WholeIn, Fields, SameCall, SameRows, SameSets
    <3>2. Target(p) <=> Target(q)
      BY <3>1 DEF Target, SameCall, SameRows
    <3> QED  BY SMTT(30), <1>2, <2>1, <2>2, <3>1, <3>2 DEF SameCall, SameRows, SameSets, Knows, KnowsCard, KnowsTarget, KnowsItem, KnowsAlias, KnowsHome
  <2> QED  BY <1>4, <2>2, EndsNow, EndedKnows DEF FindFavorite, Goto
<1>5. CASE FindCard(r)
  <2>1. q.at = "find_card" /\ q.group = NoValue /\ FavoritesAt(q.user, q.stop, q.service) = {}
    BY <1>5 DEF FindCard, Reads, At, Knows, KnowsTarget
  <2>2. CASE Goto(r, "card_order") /\ CardsFor(q.user, q.stop) = {}
    <3>1. SameCall(p, q) /\ SameRows(p, q) /\ SameSets(p, q) /\ p.at = "card_order"
      BY <1>1, <2>2 DEF Goto, WholeIn, Fields, SameCall, SameRows, SameSets
    <3> QED  BY <1>2, <2>1, <2>2, <3>1 DEF SameCall, SameRows, SameSets, Knows, KnowsCard, KnowsTarget, KnowsItem, KnowsAlias, KnowsHome
  <2>3. ASSUME NEW g \in FirstCards(q.user, q.stop),
               req' = [req EXCEPT ![r].group = g, ![r].at = "check_card"]
        PROVE  Knows(p)
    <3>1. g \in GroupsOf(q.user)
      BY DEF FirstCards, ItemsOf
    <3>2. p = [[q EXCEPT !.group = g] EXCEPT !.at = "check_card"]
      BY <1>1, <2>3
    <3>3. SameCall(p, q) /\ p.group = g /\ p.stop = q.stop /\ p.at = "check_card"
      BY <1>1, <3>2 DEF WholeIn, Fields, SameCall
    <3>4. Target(p)
      BY <2>3, <3>1, <3>3 DEF Target, SameCall
    <3> QED  BY <1>2, <2>1, <3>3, <3>4 DEF SameCall, Knows, KnowsCard, KnowsTarget, KnowsItem, KnowsAlias, KnowsHome
  <2> QED  BY <1>5, <2>2, <2>3 DEF FindCard
<1>6. CASE CheckCard(r)
  <2>1. q.at = "check_card" /\ Target(q) /\ FavoritesAt(q.user, q.stop, q.service) = {}
    BY <1>6 DEF CheckCard, Reads, At, Knows, KnowsTarget
  <2>2. ASSUME Goto(r, "item_order") PROVE Knows(p)
    <3>1. SameCall(p, q) /\ SameRows(p, q) /\ SameSets(p, q) /\ p.at = "item_order"
      BY <1>1, <2>2 DEF Goto, WholeIn, Fields, SameCall, SameRows, SameSets
    <3>2. Target(p)
      BY <2>1, <3>1 DEF Target, SameCall, SameRows
    <3> QED  BY <1>2, <2>1, <3>1, <3>2 DEF SameCall, SameRows, SameSets, Knows, KnowsCard, KnowsTarget, KnowsItem, KnowsAlias, KnowsHome
  <2> QED  BY <1>6, <2>2, EndsNow, EndedKnows DEF CheckCard
<1>7. CASE ItemOrder(r)
  <2>1. q.at = "item_order" /\ Target(q) /\ FavoritesAt(q.user, q.stop, q.service) = {}
    BY <1>7 DEF ItemOrder, Reads, At, Knows, KnowsTarget
  <2>2. PICK n \in Order : /\ IsNextOrder(n, {items[i].order : i \in ItemsIn(q.group)})
                           /\ req' = [req EXCEPT ![r].order = n, ![r].at = "insert_item"]
    BY <1>7 DEF ItemOrder
  <2>3. p = [[q EXCEPT !.order = n] EXCEPT !.at = "insert_item"]
    BY <1>1, <2>2
  <2>4. SameCall(p, q) /\ p.group = q.group /\ p.stop = q.stop /\ p.order = n /\ p.at = "insert_item"
    BY <1>1, <2>3 DEF WholeIn, Fields, SameCall
  <2>5. Target(p) /\ IsNextOrder(p.order, {items[i].order : i \in ItemsIn(p.group)})
    BY <2>1, <2>2, <2>4 DEF Target, SameCall
  <2> QED  BY <1>2, <2>1, <2>4, <2>5 DEF SameCall, Knows, KnowsCard, KnowsTarget, KnowsItem, KnowsAlias, KnowsHome
<1>8. CASE CardOrder(r)
  <2>1. /\ q.at = "card_order" /\ FavoritesAt(q.user, q.stop, q.service) = {}
        /\ CardsFor(q.user, q.stop) = {}
    BY <1>8 DEF CardOrder, Reads, At, Knows, KnowsTarget
  <2>2. PICK n \in Order : /\ IsNextOrder(n, {groups[g].order : g \in GroupsOf(q.user)})
                           /\ req' = [req EXCEPT ![r].order = n, ![r].at = "card_name"]
    BY <1>8 DEF CardOrder
  <2>3. p = [[q EXCEPT !.order = n] EXCEPT !.at = "card_name"]
    BY <1>1, <2>2
  <2>4. SameCall(p, q) /\ p.stop = q.stop /\ p.order = n /\ p.at = "card_name"
    BY <1>1, <2>3 DEF WholeIn, Fields, SameCall
  <2>5. IsNextOrder(p.order, {groups[g].order : g \in GroupsOf(p.user)})
    BY <2>2, <2>4 DEF SameCall
  <2> QED  BY <1>2, <2>1, <2>4, <2>5 DEF SameCall, Knows, KnowsCard, KnowsTarget, KnowsItem, KnowsAlias, KnowsHome
<1>9. CASE CardName(r)
  <2>1. /\ q.at = "card_name" /\ FavoritesAt(q.user, q.stop, q.service) = {}
        /\ CardsFor(q.user, q.stop) = {}
        /\ IsNextOrder(q.order, {groups[g].order : g \in GroupsOf(q.user)})
    BY <1>9 DEF CardName, Reads, At, Knows, KnowsTarget
  <2>2. p = [[q EXCEPT !.name = DisplayName(q.user, q.stop)] EXCEPT !.at = "insert_card"]
    BY <1>1, <1>9 DEF CardName
  <2>3. /\ SameCall(p, q) /\ p.stop = q.stop /\ p.order = q.order /\ p.at = "insert_card"
        /\ p.name = DisplayName(q.user, q.stop)
    BY <1>1, <2>2 DEF WholeIn, Fields, SameCall
  <2>4. IsNextOrder(p.order, {groups[g].order : g \in GroupsOf(p.user)})
    BY <2>1, <2>3 DEF SameCall
  <2> QED  BY <1>2, <2>1, <2>3, <2>4 DEF SameCall, Knows, KnowsCard, KnowsTarget, KnowsItem, KnowsAlias, KnowsHome
<1> QED  BY <1>3, <1>4, <1>5, <1>6, <1>7, <1>8, <1>9

LEMMA ItemKnows ==
    ASSUME RequestsInv, NEW r \in Req, NEW q, q = req[r], Knows(q), NEW p, p = req'[r],
           FindFavorites(r) \/ RequireFavorite(r) \/ DeleteItem(r) \/ CountLeft(r)
    PROVE  Knows(p)
<1>1. Typed(q) /\ req = [x \in Req |-> req[x]] /\ WholeIn(q, Fields)
  BY InvTypes DEF RequestsInv, RequestsTyped, Typed
<1>2. CASE FindFavorites(r)
  <2>1. q.at = "find_favorites" /\ q.kind = "reorder_favorites"
    BY <1>1, <1>2 DEF FindFavorites, Reads, At, Typed, Statement
  <2>2. ASSUME Goto(r, "set_orders"), DOMAIN q.orders \subseteq ItemsOf(q.user) PROVE Knows(p)
    <3>1. SameCall(p, q) /\ SameRows(p, q) /\ SameSets(p, q) /\ p.at = "set_orders"
      BY <1>1, <2>2 DEF Goto, WholeIn, Fields, SameCall, SameRows, SameSets
    <3> QED  BY <2>1, <2>2, <3>1 DEF SameCall, SameRows, SameSets, Knows, KnowsCard, KnowsTarget, KnowsItem, KnowsAlias, KnowsHome
  <2> QED  BY <1>2, <2>2, EndsNow, EndedKnows DEF FindFavorites
<1>3. CASE RequireFavorite(r)
  <2>1. q.at = "require_favorite" /\ q.kind = "delete_favorite"
    BY <1>1, <1>3 DEF RequireFavorite, Reads, At, Typed, Statement
  <2>2. ASSUME req' = [req EXCEPT ![r].group = items[q.item].group, ![r].at = "delete_item"],
               q.item \in ItemsOf(q.user)
        PROVE  Knows(p)
    <3>1. p = [[q EXCEPT !.group = items[q.item].group] EXCEPT !.at = "delete_item"]
      BY <1>1, <2>2
    <3>2. SameCall(p, q) /\ p.group = items[q.item].group /\ p.at = "delete_item"
      BY <1>1, <3>1 DEF WholeIn, Fields, SameCall
    <3> QED  BY <2>1, <2>2, <3>2 DEF SameCall, Knows, KnowsCard, KnowsTarget, KnowsItem, KnowsAlias, KnowsHome
  <2> QED  BY <1>3, <2>2, EndsNow, EndedKnows DEF RequireFavorite
<1>4. CASE DeleteItem(r)
  <2>1. q.at = "delete_item" /\ q.kind = "delete_favorite"
    BY <1>1, <1>4 DEF DeleteItem, Reads, At, Typed, Statement
  <2>2. q.item \in ItemsOf(q.user) /\ q.group = items[q.item].group
    BY <2>1 DEF Knows, KnowsItem
  <2>3. {q.item} \cap DOMAIN items = {q.item}
    BY <2>2 DEF ItemsOf
  <2>4. p = [[q EXCEPT !.held = {q.item}] EXCEPT !.at = "count_left"]
    BY <1>1, <1>4, <2>3 DEF DeleteItem
  <2>5. SameCall(p, q) /\ SameRows(p, q) /\ p.held = {q.item} /\ p.at = "count_left"
    BY <1>1, <2>4 DEF WholeIn, Fields, SameCall, SameRows
  <2> QED  BY <2>1, <2>2, <2>5 DEF SameCall, SameRows, Knows, KnowsCard, KnowsTarget, KnowsItem, KnowsAlias, KnowsHome
<1>5. CASE CountLeft(r)
  <2>1. q.at = "count_left" /\ q.kind = "delete_favorite"
    BY <1>1, <1>5 DEF CountLeft, Reads, At, Typed, Statement
  <2>2. q.item \in ItemsOf(q.user) /\ q.group = items[q.item].group /\ q.held = {q.item}
    BY <2>1 DEF Knows, KnowsItem
  <2>3. q.item \in ItemsIn(q.group)
    BY <2>2 DEF ItemsIn, ItemsOf
  <2>4. PICK label : /\ req' = [req EXCEPT ![r].at = label]
                     /\ label = IF ItemsIn(q.group) = {q.item} THEN "delete_empty_card" ELSE "commit_item"
    <3>1. ItemsIn(q.group) \subseteq q.held <=> ItemsIn(q.group) = {q.item}
      BY <2>2, <2>3
    <3> QED  BY <1>5, <3>1 DEF CountLeft, Goto
  <2>5. SameCall(p, q) /\ SameRows(p, q) /\ SameSets(p, q) /\ p.at = label
    BY <1>1, <2>4 DEF WholeIn, Fields, SameCall, SameRows, SameSets
  <2>6. /\ p.kind = "delete_favorite" /\ p.item \in ItemsOf(p.user) /\ p.held = {p.item}
        /\ p.group = items[p.item].group
        /\ p.at = IF ItemsIn(p.group) = {p.item} THEN "delete_empty_card" ELSE "commit_item"
    BY <2>1, <2>2, <2>4, <2>5 DEF SameCall, SameRows, SameSets
  <2>7. p.at \in {"delete_empty_card", "commit_item"}
    BY <2>6
  <2>8. KnowsItem(p)
    BY <2>6 DEF KnowsItem
  <2> QED  BY <2>6, <2>7, <2>8 DEF Knows, KnowsCard, KnowsTarget, KnowsAlias, KnowsHome
<1> QED  BY <1>2, <1>3, <1>4, <1>5

LEMMA AliasKnows ==
    ASSUME RequestsInv, NEW r \in Req, NEW q, q = req[r], Knows(q), NEW p, p = req'[r],
           WriteAlias(r) \/ DropAlias(r) \/ AliasCards(r)
    PROVE  Knows(p)
<1>1. Typed(q) /\ req = [x \in Req |-> req[x]] /\ WholeIn(q, Fields)
  BY InvTypes DEF RequestsInv, RequestsTyped, Typed
<1>2. AliasKey(r) = <<q.user, q.stop>>
  BY DEF AliasKey
<1>3. CASE WriteAlias(r)
  <2>1. q.at = "write_alias" /\ q.kind = "upsert_alias" /\ Payload(q) /\ q.alias = AliasNow(q)
    BY <1>1, <1>3 DEF WriteAlias, Reads, At, Typed, Statement, Knows, KnowsAlias
  <2>2. q.stop # NoValue
    BY <2>1, NoValueAssumption DEF Payload
  <2>3. ASSUME NEW held, held = IF WritesAlias(r) THEN {AliasKey(r)} ELSE {},
               req' = [req EXCEPT ![r].held = held, ![r].at = "alias_cards"]
        PROVE  Knows(p)
    <3>1. p = [[q EXCEPT !.held = held] EXCEPT !.at = "alias_cards"]
      BY <1>1, <2>3
    <3>2. SameCall(p, q) /\ SameRows(p, q) /\ p.held = held /\ p.at = "alias_cards"
      BY <1>1, <3>1 DEF WholeIn, Fields, SameCall, SameRows
    <3>3. p.held = {} => AliasNow(p) = p.name
      <4>1. held = {} => ~WritesAlias(r)
        BY <2>3
      <4>2. ~WritesAlias(r) => q.alias = q.name
        BY <2>2 DEF WritesAlias
      <4>3. AliasNow(p) = AliasNow(q)
        BY <3>2 DEF AliasNow, SameCall, SameRows
      <4> QED  BY <2>1, <3>2, <4>1, <4>2, <4>3 DEF SameRows
    <3> QED  BY <2>1, <3>2, <3>3 DEF SameCall, SameRows, Knows, KnowsCard, KnowsTarget, KnowsItem, KnowsAlias, KnowsHome
  <2> QED  BY <1>3, <2>3, EndsNow, EndedKnows DEF WriteAlias
<1>4. CASE DropAlias(r)
  <2>1. q.at = "drop_alias" /\ q.kind = "delete_alias"
    BY <1>1, <1>4 DEF DropAlias, Reads, At, Typed, Statement
  <2>2. PICK held : /\ held = {<<q.user, q.stop>>} \cap DOMAIN aliases
                    /\ req' = [req EXCEPT ![r].held = held, ![r].name = Description[q.stop],
                                          ![r].at = "alias_cards"]
    BY <1>2, <1>4 DEF DropAlias
  <2>3. p = [[[q EXCEPT !.held = held] EXCEPT !.name = Description[q.stop]] EXCEPT !.at = "alias_cards"]
    BY <1>1, <2>2
  <2>4. /\ SameCall(p, q) /\ p.stop = q.stop /\ p.held = held /\ p.name = Description[q.stop]
        /\ p.at = "alias_cards"
    BY <1>1, <2>3 DEF WholeIn, Fields, SameCall
  <2>5. p.held = {} => <<p.user, p.stop>> \notin DOMAIN aliases
    BY <2>2, <2>4 DEF SameCall
  <2> QED  BY <2>1, <2>4, <2>5 DEF SameCall, Knows, KnowsCard, KnowsTarget, KnowsItem, KnowsAlias, KnowsHome
<1>5. CASE AliasCards(r)
  <2>1. q.at = "alias_cards" /\ q.kind \in {"upsert_alias", "delete_alias"}
    BY <1>1, <1>5 DEF AliasCards, Reads, At, Typed, Statement
  <2>2. p = [[q EXCEPT !.cards = CardsFor(q.user, q.stop)] EXCEPT !.at = "commit_alias"]
    BY <1>1, <1>5 DEF AliasCards
  <2>3. /\ SameCall(p, q) /\ SameRows(p, q) /\ p.held = q.held /\ p.at = "commit_alias"
        /\ p.cards = CardsFor(q.user, q.stop)
    BY <1>1, <2>2 DEF WholeIn, Fields, SameCall, SameRows
  <2>4. AliasNow(p) = AliasNow(q)
    BY <2>3 DEF AliasNow, SameCall, SameRows
  <2> QED  BY <2>1, <2>3, <2>4 DEF SameCall, SameRows, Knows, KnowsCard, KnowsTarget, KnowsItem, KnowsAlias, KnowsHome
<1> QED  BY <1>3, <1>4, <1>5

\* What is known stays known while nothing is written.
LEMMA ReadKnown ==
    ASSUME NEW p, UNCHANGED <<tables, home>>, Knows(p)
    PROVE  Knows(p)'
<1>1. KnowsCard(p)'
  BY DEF Knows, KnowsCard, tables, AliasNow, GroupsOf, ItemsIn
<1>2. KnowsTarget(p)'
  <2>1. GroupsOf(p.user)' = GroupsOf(p.user) /\ ItemsIn(p.group)' = ItemsIn(p.group)
        /\ ItemsOf(p.user)' = ItemsOf(p.user)
    BY DEF tables, GroupsOf, ItemsIn, ItemsOf
  <2>2. /\ ExplicitTargets(p.group, p.stop)' = ExplicitTargets(p.group, p.stop)
        /\ FirstCards(p.user, p.stop)' = FirstCards(p.user, p.stop)
        /\ CardsFor(p.user, p.stop)' = CardsFor(p.user, p.stop)
        /\ FavoritesAt(p.user, p.stop, p.service)' = FavoritesAt(p.user, p.stop, p.service)
        /\ DisplayName(p.user, p.stop)' = DisplayName(p.user, p.stop)
    BY DEF tables, ExplicitTargets, FirstStops, FirstCards, CardsFor, FavoritesAt,
           DisplayName, GroupsOf, ItemsIn, ItemsOf
  <2>3. Target(p)' <=> Target(p)
    BY <2>1, <2>2 DEF Target
  <2>4. /\ {items[i].order : i \in ItemsIn(p.group)}' = {items[i].order : i \in ItemsIn(p.group)}
        /\ {groups[g].order : g \in GroupsOf(p.user)}' = {groups[g].order : g \in GroupsOf(p.user)}
    BY <2>1 DEF tables
  <2>5. \A n, used : IsNextOrder(n, used)' <=> IsNextOrder(n, used)
    BY DEF IsNextOrder
  <2> QED  BY <2>1, <2>2, <2>3, <2>4, <2>5 DEF Knows, KnowsTarget
<1>3. KnowsItem(p)'
  BY DEF Knows, KnowsItem, tables, GroupsOf, ItemsIn, ItemsOf
<1>4. KnowsAlias(p)'
  BY DEF Knows, KnowsAlias, tables, AliasNow, CardsFor, GroupsOf, ItemsIn
<1>5. KnowsHome(p)'
  BY DEF Knows, KnowsHome, tables, ReadOf, DisplayName, GroupsOf, ItemsOf, Restrict
<1> QED  BY <1>1, <1>2, <1>3, <1>4, <1>5 DEF Knows

LEMMA HomeKnows ==
    ASSUME RequestsInv, ~CacheFaults, NEW r \in Req, NEW q, q = req[r], Knows(q), NEW p, p = req'[r],
           GetHome(r) \/ ListGroups(r) \/ ListItems(r)
    PROVE  Knows(p)
<1>1. Typed(q) /\ req = [x \in Req |-> req[x]] /\ WholeIn(q, Fields)
  BY InvTypes DEF RequestsInv, RequestsTyped, Typed
<1>2. CASE GetHome(r)
  <2>1. q.at = "get_home" /\ q.kind = "get_home"
    BY <1>1, <1>2 DEF GetHome, Reads, At, Typed, Statement
  <2>2. ASSUME Goto(r, "user"), home[q.user] = NoHome PROVE Knows(p)
    <3>1. SameCall(p, q) /\ SameRows(p, q) /\ SameSets(p, q) /\ p.at = "user"
      BY <1>1, <2>2 DEF Goto, WholeIn, Fields, SameCall, SameRows, SameSets
    <3> QED  BY <2>1, <2>2, <3>1 DEF SameCall, SameRows, SameSets, Knows, KnowsCard, KnowsTarget, KnowsItem, KnowsAlias, KnowsHome
  <2> QED  BY <1>2, <2>2, EndsNow, EndedKnows DEF GetHome
<1>3. CASE ListGroups(r)
  <2>1. q.at = "list_groups" /\ q.kind = "get_home"
    BY <1>1, <1>3 DEF ListGroups, Reads, At, Typed, Statement
  <2>2. PICK own : own = GroupsOf(q.user)
    OBVIOUS
  <2>3. PICK view : /\ view = [groups |-> Restrict(groups, own),
                               items |-> EmptyTable, names |-> EmptyTable]
                    /\ req' = [req EXCEPT ![r].view = view, ![r].cards = own, ![r].at = "list_items"]
    BY <1>3, <2>2 DEF ListGroups
  <2>4. p = [[[q EXCEPT !.view = view] EXCEPT !.cards = own] EXCEPT !.at = "list_items"]
    BY <1>1, <2>3
  <2>5. SameCall(p, q) /\ p.view = view /\ p.cards = own /\ p.at = "list_items"
    BY <1>1, <2>4 DEF WholeIn, Fields, SameCall
  <2>6. ReadOf(p) = {} /\ p.user = q.user /\ p.kind = "get_home"
    BY <2>1, <2>2, <2>5 DEF ReadOf, ItemsOf, SameCall
  <2>7. Restrict(items, {}) = EmptyTable /\ [s \in {} |-> DisplayName(p.user, s)] = EmptyTable
    BY DEF Restrict, EmptyTable
  <2>8. {items[i].stop : i \in ReadOf(p)} = {}
    BY <2>6
  <2>9. [s \in {items[i].stop : i \in ReadOf(p)} |-> DisplayName(p.user, s)] = EmptyTable
    BY <2>7, <2>8
  <2>10. p.view = [groups |-> Restrict(groups, GroupsOf(p.user)),
                   items |-> Restrict(items, ReadOf(p)),
                   names |-> [s \in {items[i].stop : i \in ReadOf(p)} |-> DisplayName(p.user, s)]]
    BY <2>2, <2>3, <2>5, <2>6, <2>7, <2>9, Zenon
  <2>11. home[p.user] = NoHome
    BY <2>1, <2>6 DEF Knows, KnowsHome
  <2>12. KnowsHome(p)
    BY <2>2, <2>5, <2>6, <2>10, <2>11 DEF KnowsHome
  <2> QED  BY <2>5, <2>12 DEF Knows, KnowsCard, KnowsTarget, KnowsItem, KnowsAlias
<1>4. CASE ListItems(r)
  <2>1. q.at = "list_items" /\ q.kind = "get_home"
    BY <1>1, <1>4 DEF ListItems, Reads, At, Typed, Statement
  <2>2. PICK u : u = q.user
    OBVIOUS
  <2>3. PICK seen : seen = ReadOf(q)
    OBVIOUS
  <2>4. PICK old : /\ old = q.view
                   /\ old = [groups |-> Restrict(groups, GroupsOf(u)), items |-> Restrict(items, seen),
                             names |-> [s \in {items[i].stop : i \in seen} |-> DisplayName(u, s)]]
    BY <2>1, <2>2, <2>3 DEF Knows, KnowsHome
  <2>5. PICK g, found, stops :
          /\ g \in q.cards
          /\ found = Restrict(items, ItemsIn(g))
          /\ stops = {found[i].stop : i \in DOMAIN found}
          /\ req' = [req EXCEPT
                      ![r].view.items = Merge(@, found),
                      ![r].view.names = Merge([s \in stops |-> DisplayName(req[r].user, s)], @),
                      ![r].cards = @ \ {g}]
    BY <1>4 DEF ListItems
  <2>6. PICK more : more = ItemsIn(g) /\ found = Restrict(items, more)
    BY <2>5
  <2>7. PICK read, shown :
          /\ read = Merge(old.items, found)
          /\ shown = Merge([s \in stops |-> DisplayName(u, s)], old.names)
    OBVIOUS
  <2>8. stops = {items[i].stop : i \in more}
    BY ZenonT(40), <2>5, <2>6 DEF Restrict
  <2>9. p = [[[q EXCEPT !.view.items = read] EXCEPT !.view.names = shown] EXCEPT !.cards = q.cards \ {g}]
    BY <1>1, <2>2, <2>4, <2>5, <2>7 DEF WholeIn, Fields
  <2>10. SameCall(p, q) /\ p.cards = q.cards \ {g} /\ p.at = "list_items"
    BY <1>1, <2>1, <2>9 DEF WholeIn, Fields, SameCall
  <2>11. p.view = [groups |-> Restrict(groups, GroupsOf(u)), items |-> read, names |-> shown]
    <3>1. p.view = [[old EXCEPT !.items = read] EXCEPT !.names = shown]
      BY <1>1, <2>4, <2>9 DEF WholeIn, Fields
    <3>2. DOMAIN old = {"groups", "items", "names"} /\ old.groups = Restrict(groups, GroupsOf(u))
      BY <2>4
    <3> QED  BY <3>1, <3>2
  <2>12. q.cards \subseteq GroupsOf(u)
    BY <2>1, <2>2 DEF Knows, KnowsHome
  <2>13. ReadOf(p) = seen \cup more
    BY <2>2, <2>3, <2>5, <2>6, <2>10, <2>12 DEF ReadOf, ItemsOf, ItemsIn, SameCall
  <2>14. read = Restrict(items, seen \cup more)
    BY <2>4, <2>6, <2>7 DEF Merge, Restrict
  <2>15. shown = [s \in {items[i].stop : i \in seen \cup more} |-> DisplayName(u, s)]
    BY <2>4, <2>7, <2>8 DEF Merge
  <2>16. p.kind = "get_home" /\ p.user = u /\ p.cards \subseteq GroupsOf(u)
    BY <2>1, <2>2, <2>10, <2>12 DEF SameCall
  <2>17. p.view = [groups |-> Restrict(groups, GroupsOf(p.user)),
                   items |-> Restrict(items, ReadOf(p)),
                   names |-> [s \in {items[i].stop : i \in ReadOf(p)} |-> DisplayName(p.user, s)]]
    BY <2>11, <2>13, <2>14, <2>15, <2>16, Zenon
  <2>18. home[p.user] = NoHome
    BY <2>1, <2>2, <2>16 DEF Knows, KnowsHome
  <2>19. KnowsHome(p)
    BY <2>10, <2>16, <2>17, <2>18 DEF KnowsHome
  <2> QED  BY <2>10, <2>19 DEF Knows, KnowsCard, KnowsTarget, KnowsItem, KnowsAlias
<1> QED  BY <1>2, <1>3, <1>4

\* A step that writes ends its request or brings it to its invalidation, but
\* for the two that go on.
LEMMA WriteKnows ==
    ASSUME RequestsInv, NEW r \in Req, NEW q, q = req[r], Knows(q), NEW p, p = req'[r],
           InsertUser(r) \/ UpdateGroup(r)
    PROVE  Knows(p)'
<1>1. Typed(q) /\ req = [x \in Req |-> req[x]] /\ WholeIn(q, Fields)
  BY InvTypes DEF RequestsInv, RequestsTyped, Typed
<1>2. Finish(r) => Knows(p)'
  BY EndsNow, EndedKnows
<1>3. CASE InsertUser(r) /\ ~Finish(r)
  <2>1. q.at = "new_user" /\ Goto(r, Entry(r)) /\ UNCHANGED <<tables, home>>
    BY <1>3 DEF InsertUser, At
  <2>2. Knows(p)
    BY <2>1, EntryKnows
  <2> QED  BY <2>1, <2>2, ReadKnown
<1>4. CASE UpdateGroup(r) /\ ~Finish(r)
  <2>1. q.at = "update_group" /\ q.group \in GroupsOf(q.user) /\ Goto(r, "reread_group")
    BY <1>4 DEF UpdateGroup, At, Knows, KnowsCard
  <2>2. groups' = [g \in DOMAIN groups |->
                     IF g = q.group THEN Patch(groups[g], q.name, q.order) ELSE groups[g]]
    BY <1>4 DEF UpdateGroup
  <2>3. q.name \in Name \cup {NoValue} /\ q.order \in Order \cup {NoValue}
        /\ q.group \in DOMAIN groups /\ groups[q.group] \in GroupRow /\ groups[q.group].user = q.user
    BY <1>1, <2>1, InvTypes DEF Typed, Payload, GroupsOf, TablesTyped
  <2>4. q.group \in GroupsOf(q.user)'
    BY SMTT(30), <2>2, <2>3, PatchType DEF GroupsOf
  <2>5. SameCall(p, q) /\ SameRows(p, q) /\ p.at = "reread_group"
    BY <1>1, <2>1 DEF Goto, WholeIn, Fields, SameCall, SameRows
  <2>6. p.group \in GroupsOf(p.user)'
    BY <2>4, <2>5 DEF SameCall, SameRows
  <2>7. KnowsCard(p)'
    BY <2>5, <2>6 DEF KnowsCard
  <2> QED  BY <2>5, <2>7 DEF Knows, KnowsTarget, KnowsItem, KnowsAlias, KnowsHome
<1> QED  BY <1>2, <1>3, <1>4

LEMMA StepKnows ==
    ASSUME RequestsInv, ~CacheFaults, NEW r \in Req, NEW q, q = req[r], Knows(q), NEW p, p = req'[r],
           Step(r)
    PROVE  Knows(p)'
<1>1. ASSUME Knows(p), Reading PROVE Knows(p)'
  BY <1>1, ReadKnown DEF Reading
<1>2. Finish(r) \/ Committed(r) => Knows(p)'
  BY EndsNow, EndedKnows
<1>3. CASE FindUser(r)
  <2>1. q.at = "user" /\ Goto(r, IF q.user \in users THEN Entry(r) ELSE "new_user")
    BY <1>3 DEF FindUser, Reads, At
  <2>2. Knows(p)
    BY <2>1, EntryKnows
  <2> QED  BY <1>1, <1>3, <2>2 DEF FindUser, Reads, Reading
<1>4. CASE InsertUser(r) \/ UpdateGroup(r)
  BY <1>4, WriteKnows
<1>5. CASE RereadGroup(r) \/ AbortDeadlock(r) \/ InvalidateHome(r) \/ SetHome(r)
  BY <1>2, <1>5 DEF RereadGroup, AbortDeadlock, InvalidateHome, SetHome
<1>6. CASE InsertGroup(r) \/ DeleteGroup(r) \/ InsertItem(r) \/ InsertCard(r)
  BY <1>2, <1>6 DEF InsertGroup, DeleteGroup, InsertItem, InsertCard
<1>7. CASE SetOrders(r) \/ CommitItem(r) \/ DeleteEmptyCard(r) \/ CommitAlias(r)
  BY <1>2, <1>7 DEF SetOrders, CommitItem, DeleteEmptyCard, CommitAlias
<1>8. CASE RequireGroup(r) \/ CardStop(r) \/ FindAlias(r) \/ LockGroup(r)
  <2>1. Knows(p)
    BY <1>8, CardKnows
  <2> QED  BY <1>1, <1>8, <2>1 DEF RequireGroup, CardStop, FindAlias, LockGroup, Reads, Reading
<1>9. CASE FirstStop(r) \/ FindFavorite(r) \/ FindCard(r) \/ CheckCard(r) \/ ItemOrder(r)
           \/ CardOrder(r) \/ CardName(r)
  <2>1. Knows(p)
    BY <1>9, CreateKnows
  <2> QED
    BY <1>1, <1>9, <2>1 DEF FirstStop, FindFavorite, FindCard, CheckCard, ItemOrder, CardOrder,
                            CardName, Reads, Reading
<1>10. CASE FindFavorites(r) \/ RequireFavorite(r) \/ DeleteItem(r) \/ CountLeft(r)
  <2>1. Knows(p)
    BY <1>10, ItemKnows
  <2> QED  BY <1>1, <1>10, <2>1 DEF FindFavorites, RequireFavorite, DeleteItem, CountLeft, Reads, Reading
<1>11. CASE WriteAlias(r) \/ DropAlias(r) \/ AliasCards(r)
  <2>1. Knows(p)
    BY <1>11, AliasKnows
  <2> QED  BY <1>1, <1>11, <2>1 DEF WriteAlias, DropAlias, AliasCards, Reads, Reading
<1>12. CASE GetHome(r) \/ ListGroups(r) \/ ListItems(r)
  <2>1. Knows(p)
    BY <1>12, HomeKnows
  <2> QED  BY <1>1, <1>12, <2>1 DEF GetHome, ListGroups, ListItems, Reads, Reading
<1> QED
  BY <1>3, <1>4, <1>5, <1>6, <1>7, <1>8, <1>9, <1>10, <1>11, <1>12
  DEF Step, CardStep, CreateStep, ItemStep, AliasStep, HomeStep

\* A call that arrives brings its payload and nothing else.
LEMMA BeginKnows ==
    ASSUME NEW u \in User, NEW call \in Calls, NEW label, label \in {"get_home", "user"},
           call.kind = "get_home" <=> label = "get_home",
           NEW p, p = Merge(call, [Idle EXCEPT !.user = u, !.at = label])
    PROVE  Knows(p) /\ p.user = u
<1> DEFINE base == [Idle EXCEPT !.user = u, !.at = label]
<1>1. DOMAIN call \subseteq Fields \ {"at", "user", "held"} /\ "kind" \in DOMAIN call
      /\ (call.kind = "update_group" => "stop" \notin DOMAIN call)
  BY DEF Calls, Fields
<1>2. DOMAIN base = Fields /\ base.at = label /\ base.user = u /\ base.held = {}
      /\ base.stop = NoValue
  BY DEF Idle, Fields
<1>3. p = Merge(call, base)
  OBVIOUS
<1> HIDE DEF base
<1>4. p.at = label /\ p.user = u /\ p.held = {} /\ p.kind = call.kind
      /\ (call.kind = "update_group" => p.stop = NoValue)
  BY <1>1, <1>2, <1>3 DEF Merge, Fields
<1> QED  BY <1>4 DEF Knows, KnowsCard, KnowsTarget, KnowsItem, KnowsAlias, KnowsHome

-----------------------------------------------------------------------------
(* The requests of one user follow each other.                              *)

\* A request keeps its user as long as it is in flight.
LEMMA StepUser ==
    ASSUME RequestsInv, NEW r \in Req, NEW q, q = req[r], NEW p, p = req'[r], Step(r)
    PROVE  q.at # "idle" /\ (p.at = "idle" \/ p.user = q.user)
<1>1. req = [x \in Req |-> req[x]] /\ WholeIn(q, Fields) /\ (q.at # "idle" => q.kind \in KindOf)
  BY InvTypes DEF RequestsInv, RequestsTyped, Typed
<1>2. q.at # "idle"
  BY DEF Step, CardStep, CreateStep, ItemStep, AliasStep, HomeStep, FindUser, InsertUser, GetHome,
      AbortDeadlock, Deadlocked, InvalidateHome, SetHome, InsertGroup, RequireGroup, UpdateGroup,
      RereadGroup, DeleteGroup, CardStop, FindAlias, LockGroup, FindFavorite, CheckCard, InsertItem,
      InsertCard, FirstStop, FindCard, ItemOrder, CardOrder, CardName, FindFavorites, SetOrders,
      CountLeft, CommitItem, DeleteEmptyCard, CommitAlias, RequireFavorite, DeleteItem, WriteAlias,
      DropAlias, AliasCards, ListGroups, ListItems, Reads, At
<1>3. Finish(r) => p.at = "idle"
  BY <1>1 DEF Finish, Idle
<1>4. ASSUME Committed(r) PROVE p.user = q.user
  <2>1. p = [[q EXCEPT !.at = "invalidate"] EXCEPT !.held = {}]
    BY <1>1, <1>4 DEF Committed
  <2> QED  BY <1>1, <2>1 DEF WholeIn, Fields
<1>5. \A label : Goto(r, label) => p.user = q.user
  BY <1>1 DEF Goto, WholeIn, Fields
<1>6. CASE FindUser(r) \/ InsertUser(r) \/ GetHome(r) \/ AbortDeadlock(r) \/ InvalidateHome(r) \/ SetHome(r)
  BY <1>2, <1>3, <1>5, <1>6 DEF FindUser, InsertUser, GetHome, AbortDeadlock, InvalidateHome, SetHome
<1>7. CASE InsertGroup(r) \/ RequireGroup(r) \/ UpdateGroup(r) \/ RereadGroup(r) \/ DeleteGroup(r)
  BY <1>2, <1>3, <1>4, <1>5, <1>7 DEF InsertGroup, RequireGroup, UpdateGroup, RereadGroup, DeleteGroup
<1>8. CASE CardStop(r) \/ FindAlias(r) \/ LockGroup(r)
  <2>1. CASE Goto(r, "update_group")
    BY <1>2, <1>5, <1>8, <2>1 DEF CardStop, FindAlias, LockGroup
  <2>2. CASE \E s : req' = [req EXCEPT ![r].stop = s, ![r].at = "find_alias"]
    <3>1. PICK s : req' = [req EXCEPT ![r].stop = s, ![r].at = "find_alias"]
      BY <2>2
    <3>2. p = [[q EXCEPT !.stop = s] EXCEPT !.at = "find_alias"]
      BY <1>1, <3>1
    <3> QED  BY <1>1, <1>2, <3>2 DEF WholeIn, Fields
  <2>3. CASE \E a, l : req' = [req EXCEPT ![r].alias = a, ![r].at = l]
    <3>1. PICK a, l : req' = [req EXCEPT ![r].alias = a, ![r].at = l]
      BY <2>3
    <3>2. p = [[q EXCEPT !.alias = a] EXCEPT !.at = l]
      BY <1>1, <3>1
    <3> QED  BY <1>1, <1>2, <3>2 DEF WholeIn, Fields
  <2>4. CASE \E h : req' = [req EXCEPT ![r].held = h, ![r].at = "delete_group"]
    <3>1. PICK h : req' = [req EXCEPT ![r].held = h, ![r].at = "delete_group"]
      BY <2>4
    <3>2. p = [[q EXCEPT !.held = h] EXCEPT !.at = "delete_group"]
      BY <1>1, <3>1
    <3> QED  BY <1>1, <1>2, <3>2 DEF WholeIn, Fields
  <2>5. CASE CardStop(r)
    BY <1>2, <2>1, <2>2, <2>5 DEF CardStop
  <2>6. CASE FindAlias(r)
    BY <1>2, <2>3, <2>6 DEF FindAlias
  <2>7. CASE LockGroup(r)
    BY <1>2, <2>4, <2>7 DEF LockGroup
  <2> QED  BY <1>8, <2>5, <2>6, <2>7
<1>9. CASE FindFavorite(r) \/ CheckCard(r) \/ InsertItem(r) \/ InsertCard(r)
  BY <1>2, <1>3, <1>4, <1>5, <1>9 DEF FindFavorite, CheckCard, InsertItem, InsertCard
<1>10. CASE FirstStop(r) \/ FindCard(r)
  <2>1. Goto(r, "card_order") \/ \E g, l : req' = [req EXCEPT ![r].group = g, ![r].at = l]
    BY <1>10 DEF FirstStop, FindCard
  <2>2. ASSUME NEW g, NEW l, req' = [req EXCEPT ![r].group = g, ![r].at = l]
        PROVE  p.user = q.user
    <3>1. p = [[q EXCEPT !.group = g] EXCEPT !.at = l]
      BY <1>1, <2>2
    <3> QED  BY <1>1, <3>1 DEF WholeIn, Fields
  <2> QED  BY <1>2, <1>5, <1>10, <2>1, <2>2 DEF FirstStop, FindCard
<1>11. CASE ItemOrder(r) \/ CardOrder(r) \/ CardName(r)
  <2>1. CASE \E n, l : req' = [req EXCEPT ![r].order = n, ![r].at = l]
    <3>1. PICK n, l : req' = [req EXCEPT ![r].order = n, ![r].at = l]
      BY <2>1
    <3>2. p = [[q EXCEPT !.order = n] EXCEPT !.at = l]
      BY <1>1, <3>1
    <3> QED  BY <1>1, <1>2, <3>2 DEF WholeIn, Fields
  <2>2. CASE \E n, l : req' = [req EXCEPT ![r].name = n, ![r].at = l]
    <3>1. PICK n, l : req' = [req EXCEPT ![r].name = n, ![r].at = l]
      BY <2>2
    <3>2. p = [[q EXCEPT !.name = n] EXCEPT !.at = l]
      BY <1>1, <3>1
    <3> QED  BY <1>1, <1>2, <3>2 DEF WholeIn, Fields
  <2> QED  BY <1>2, <1>11, <2>1, <2>2 DEF ItemOrder, CardOrder, CardName
<1>12. CASE FindFavorites(r) \/ SetOrders(r) \/ CountLeft(r) \/ CommitItem(r) \/ DeleteEmptyCard(r)
            \/ CommitAlias(r)
  BY <1>2, <1>3, <1>4, <1>5, <1>12 DEF FindFavorites, SetOrders, CountLeft, CommitItem, DeleteEmptyCard,
                                 CommitAlias
<1>13. CASE RequireFavorite(r) \/ DeleteItem(r)
  <2>1. CASE \E g, l : req' = [req EXCEPT ![r].group = g, ![r].at = l]
    <3>1. PICK g, l : req' = [req EXCEPT ![r].group = g, ![r].at = l]
      BY <2>1
    <3>2. p = [[q EXCEPT !.group = g] EXCEPT !.at = l]
      BY <1>1, <3>1
    <3> QED  BY <1>1, <1>2, <3>2 DEF WholeIn, Fields
  <2>2. CASE \E h, l : req' = [req EXCEPT ![r].held = h, ![r].at = l]
    <3>1. PICK h, l : req' = [req EXCEPT ![r].held = h, ![r].at = l]
      BY <2>2
    <3>2. p = [[q EXCEPT !.held = h] EXCEPT !.at = l]
      BY <1>1, <3>1
    <3> QED  BY <1>1, <1>2, <3>2 DEF WholeIn, Fields
  <2> QED  BY <1>2, <1>3, <1>13, <2>1, <2>2 DEF RequireFavorite, DeleteItem
<1>14. CASE WriteAlias(r) \/ DropAlias(r) \/ AliasCards(r)
  <2>1. CASE \E h : req' = [req EXCEPT ![r].held = h, ![r].at = "alias_cards"]
    <3>1. PICK h : req' = [req EXCEPT ![r].held = h, ![r].at = "alias_cards"]
      BY <2>1
    <3>2. p = [[q EXCEPT !.held = h] EXCEPT !.at = "alias_cards"]
      BY <1>1, <3>1
    <3> QED  BY <1>1, <1>2, <3>2 DEF WholeIn, Fields
  <2>2. CASE \E h, n : req' = [req EXCEPT ![r].held = h, ![r].name = n, ![r].at = "alias_cards"]
    <3>1. PICK h, n : req' = [req EXCEPT ![r].held = h, ![r].name = n, ![r].at = "alias_cards"]
      BY <2>2
    <3>2. p = [[[q EXCEPT !.held = h] EXCEPT !.name = n] EXCEPT !.at = "alias_cards"]
      BY <1>1, <3>1
    <3> QED  BY <1>1, <1>2, <3>2 DEF WholeIn, Fields
  <2>3. CASE \E c : req' = [req EXCEPT ![r].cards = c, ![r].at = "commit_alias"]
    <3>1. PICK c : req' = [req EXCEPT ![r].cards = c, ![r].at = "commit_alias"]
      BY <2>3
    <3>2. p = [[q EXCEPT !.cards = c] EXCEPT !.at = "commit_alias"]
      BY <1>1, <3>1
    <3> QED  BY <1>1, <1>2, <3>2 DEF WholeIn, Fields
  <2> QED  BY <1>2, <1>3, <1>14, <2>1, <2>2, <2>3 DEF WriteAlias, DropAlias, AliasCards
<1>15. CASE ListGroups(r) \/ ListItems(r)
  <2>1. \/ \E v, c, l : req' = [req EXCEPT ![r].view = v, ![r].cards = c, ![r].at = l]
        \/ \E i, n, c : req' = [req EXCEPT ![r].view.items = i, ![r].view.names = n, ![r].cards = c]
    BY <1>15 DEF ListGroups, ListItems
  <2>2. ASSUME NEW v, NEW c, NEW l, req' = [req EXCEPT ![r].view = v, ![r].cards = c, ![r].at = l]
        PROVE  p.user = q.user
    <3>1. p = [[[q EXCEPT !.view = v] EXCEPT !.cards = c] EXCEPT !.at = l]
      BY <1>1, <2>2
    <3> QED  BY <1>1, <3>1 DEF WholeIn, Fields
  <2>3. ASSUME NEW i, NEW n, NEW c, req' = [req EXCEPT ![r].view.items = i, ![r].view.names = n, ![r].cards = c]
        PROVE  p.user = q.user
    <3>1. p = [[[q EXCEPT !.view.items = i] EXCEPT !.view.names = n] EXCEPT !.cards = c]
      BY <1>1, <2>3
    <3> QED  BY <1>1, <3>1 DEF WholeIn, Fields
  <2> QED  BY <1>2, <2>1, <2>2, <2>3
<1> QED
  BY <1>6, <1>7, <1>8, <1>9, <1>10, <1>11, <1>12, <1>13, <1>14, <1>15
  DEF Step, CardStep, CreateStep, ItemStep, AliasStep, HomeStep

LEMMA OthersKnow ==
    ASSUME SerialInv, NEW r \in Req, NEW x \in Req, x # r, Step(r), NEW q, q = req[x]
    PROVE  Knows(q)'
<1>1. RequestsInv /\ OneEach /\ Typed(q) /\ Knows(q)
  BY InvTypes DEF SerialInv
<1>2. CASE q.at = "idle"
  BY <1>2, EndedKnows DEF Ended
<1>3. CASE q.at # "idle" /\ Writes(r)
  <2>1. q.user \in User /\ q.user # req[r].user
    BY <1>1, <1>3, StepUser DEF OneEach, Typed
  <2>2. Untouched(q.user) /\ home'[q.user] = home[q.user]
    BY <1>1, <1>3, <2>1, OthersUntouched
  <2> QED  BY <1>1, <2>2, KnownStays, InvTypes
<1>4. CASE Reading
  BY <1>1, <1>4, ReadKnown DEF Reading
<1> QED  BY <1>1, <1>2, <1>3, <1>4, StepFits DEF Fits

LEMMA SerialStep ==
    ASSUME SerialInv, Waiting, NEW r \in Req, Step(r)
    PROVE  SerialInv'
<1>1. RequestsInv /\ RequestsInv' /\ OneEach
  BY NextKeeps DEF SerialInv, Next
<1>2. req' = [x \in Req |-> req'[x]] /\ \A x \in Req : x # r => req'[x] = req[x]
  BY <1>1, StepFits DEF Fits, Advances, Proceeds, Others
<1>3. OneEach'
  <2>1. req[r].at # "idle" /\ (req'[r].at = "idle" \/ req'[r].user = req[r].user)
    BY <1>1, StepUser
  <2> QED  BY <1>1, <1>2, <2>1 DEF OneEach
<1>4. ASSUME NEW x \in Req, NEW p, p = req'[x] PROVE Knows(p)'
  <2>1. CASE x = r
    <3>1. PICK q : q = req[r] /\ Knows(q)
      BY DEF SerialInv
    <3> QED  BY <1>1, <1>4, <2>1, <3>1, StepKnows DEF Waiting
  <2>2. CASE x # r
    BY <1>2, <1>4, <2>2, OthersKnow
  <2> QED  BY <2>1, <2>2
<1>5. (\A q \in {req[x] : x \in Req} : Knows(q))'
  BY <1>4
<1> QED  BY <1>1, <1>3, <1>5 DEF SerialInv

LEMMA SerialBegin ==
    ASSUME SerialInv, Waiting, NEW r \in Req, NEW u \in User, NEW call \in Calls, Begin(r, u, call)
    PROVE  SerialInv'
<1>1. RequestsInv /\ RequestsInv' /\ OneEach
  BY NextKeeps DEF SerialInv, Next
<1>2. PICK label : label = IF call.kind = "get_home" THEN "get_home" ELSE "user"
  OBVIOUS
<1>3. req' = [req EXCEPT ![r] = Merge(call, [Idle EXCEPT !.user = u, !.at = label])]
      /\ Reading /\ \A x \in Req : req[x].user # u
  BY <1>2 DEF Begin, Reads, Reading, Waiting
<1>4. req = [x \in Req |-> req[x]]
  BY <1>1 DEF RequestsInv, RequestsTyped
<1>5. PICK p : p = Merge(call, [Idle EXCEPT !.user = u, !.at = label])
  OBVIOUS
<1>6. req'[r] = p /\ \A x \in Req : x # r => req'[x] = req[x]
  BY <1>3, <1>4, <1>5
<1>7. Knows(p) /\ p.user = u
  BY <1>2, <1>5, BeginKnows
<1>8. OneEach'
  BY <1>1, <1>3, <1>6, <1>7 DEF OneEach
<1>9. ASSUME NEW x \in Req, NEW q, q = req'[x] PROVE Knows(q)'
  <2>1. Knows(q)
    BY <1>6, <1>7, <1>9 DEF SerialInv
  <2> QED  BY <1>3, <2>1, ReadKnown DEF Reading
<1>10. (\A q \in {req[x] : x \in Req} : Knows(q))'
  BY <1>9
<1> QED  BY <1>1, <1>8, <1>10 DEF SerialInv

LEMMA SerialExpiry ==
    ASSUME SerialInv, (\E u \in User : ExpireHome(u)) \/ UNCHANGED vars
    PROVE  SerialInv'
<1>1. RequestsInv /\ RequestsInv' /\ OneEach /\ UNCHANGED <<users, tables, req>>
  BY NextKeeps DEF SerialInv, Next, ExpireHome, vars, tables
<1>2. OneEach'
  BY <1>1 DEF OneEach
<1>3. ASSUME NEW x \in Req, NEW q, q = req'[x] PROVE Knows(q)'
  <2>1. Typed(q) /\ Knows(q)
    BY <1>1, <1>3, InvTypes DEF SerialInv
  <2>2. CASE q.at = "idle"
    BY <2>2, EndedKnows DEF Ended
  <2>3. CASE q.at # "idle"
    <3>1. Untouched(q.user)
      BY <1>1 DEF Untouched, tables, GroupsOf, ItemsOf
    <3>2. home'[q.user] \in {home[q.user], NoHome}
      BY <1>1, <2>1, <2>3, InvTypes DEF ExpireHome, vars, Typed, TablesTyped
    <3> QED  BY <1>1, <2>1, <3>1, <3>2, KnownStays, InvTypes
  <2> QED  BY <2>2, <2>3
<1>4. (\A q \in {req[x] : x \in Req} : Knows(q))'
  BY <1>3
<1> QED  BY <1>1, <1>2, <1>4 DEF SerialInv

LEMMA SerialInit ==
    ASSUME Init
    PROVE  SerialInv
<1>1. RequestsInv
  BY InitFits
<1>2. \A x \in Req : req[x].at = "idle"
  BY DEF Init, Idle
<1>3. \A q \in {req[x] : x \in Req} : Knows(q)
  BY <1>2, EndedKnows DEF Ended
<1> QED  BY <1>1, <1>2, <1>3 DEF SerialInv, OneEach

LEMMA SerialInvariant ==
    ASSUME Waiting
    PROVE  Spec => []SerialInv
<1>1. ASSUME SerialInv, [Next]_vars PROVE SerialInv'
  BY <1>1, SerialStep, SerialBegin, SerialExpiry DEF Next, Waiting, Crash
<1> QED  BY <1>1, SerialInit, PTL DEF Spec

-----------------------------------------------------------------------------
(* The serial machine.  Its operators are those of this module: they differ *)
(* in nothing but the cache they read.                                      *)

SerialHome == [u \in User |-> IF Writing(u) THEN NoHome ELSE home[u]]

LEMMA SameQueries ==
    /\ \A u : Serial!GroupsOf(u) = GroupsOf(u) /\ Serial!ItemsOf(u) = ItemsOf(u)
    /\ \A g : Serial!ItemsIn(g) = ItemsIn(g) /\ Serial!FirstStops(g) = FirstStops(g)
    /\ \A u, s : /\ Serial!CardsFor(u, s) = CardsFor(u, s)
                 /\ Serial!FirstCards(u, s) = FirstCards(u, s)
                 /\ Serial!DisplayName(u, s) = DisplayName(u, s)
    /\ \A u, s, v : Serial!FavoritesAt(u, s, v) = FavoritesAt(u, s, v)
    /\ \A g, s : Serial!ExplicitTargets(g, s) = ExplicitTargets(g, s)
    /\ \A i : Serial!LeavesCardEmpty(i) <=> LeavesCardEmpty(i)
    /\ \A u : Serial!HomeView(u) = HomeView(u)
    /\ \A n, used : Serial!IsNextOrder(n, used) <=> IsNextOrder(n, used)
<1>1. \A u : Serial!GroupsOf(u) = GroupsOf(u) /\ Serial!ItemsOf(u) = ItemsOf(u)
  BY DEF Serial!GroupsOf, GroupsOf, Serial!ItemsOf, ItemsOf
<1>2. \A g : Serial!ItemsIn(g) = ItemsIn(g) /\ Serial!FirstStops(g) = FirstStops(g)
  BY DEF Serial!ItemsIn, ItemsIn, Serial!FirstStops, FirstStops
<1>3. \A u, s : /\ Serial!CardsFor(u, s) = CardsFor(u, s)
                /\ Serial!DisplayName(u, s) = DisplayName(u, s)
  BY <1>1, <1>2 DEF Serial!CardsFor, CardsFor, Serial!DisplayName, DisplayName
<1>4. \A u, s : Serial!FirstCards(u, s) = FirstCards(u, s)
  BY <1>1 DEF Serial!FirstCards, FirstCards
<1>5. \A u, s, v : Serial!FavoritesAt(u, s, v) = FavoritesAt(u, s, v)
  BY <1>1 DEF Serial!FavoritesAt, FavoritesAt
<1>6. \A g, s : Serial!ExplicitTargets(g, s) = ExplicitTargets(g, s)
  BY <1>2 DEF Serial!ExplicitTargets, ExplicitTargets
<1>7. \A i : Serial!LeavesCardEmpty(i) <=> LeavesCardEmpty(i)
  BY <1>2 DEF Serial!LeavesCardEmpty, LeavesCardEmpty
<1>8. ASSUME NEW u PROVE Serial!HomeView(u) = HomeView(u)
  <2>1. \A f, S : Serial!Restrict(f, S) = Restrict(f, S)
    BY DEF Serial!Restrict, Restrict
  <2>2. [s \in {items[i].stop : i \in Serial!ItemsOf(u)} |-> Serial!DisplayName(u, s)]
          = [s \in {items[i].stop : i \in ItemsOf(u)} |-> DisplayName(u, s)]
    BY <1>1, <1>3
  <2> QED  BY <1>1, <2>1, <2>2 DEF Serial!HomeView, HomeView
<1>9. \A n, used : Serial!IsNextOrder(n, used) <=> IsNextOrder(n, used)
  BY DEF Serial!IsNextOrder, IsNextOrder
<1> QED  BY <1>1, <1>2, <1>3, <1>4, <1>5, <1>6, <1>7, <1>8, <1>9

LEMMA SameWrites ==
    /\ \A table, key, row : Serial!Put(table, key, row) = Put(table, key, row)
    /\ \A table, keys : Serial!Drop(table, keys) = Drop(table, keys)
    /\ \A cards, name : Serial!Rename(cards, name) = Rename(cards, name)
    /\ \A row, name, order : Serial!Patch(row, name, order) = Patch(row, name, order)
<1>1. \A table, key, row : Serial!Put(table, key, row) = Put(table, key, row)
  BY DEF Serial!Put, Put
<1>2. \A table, keys : Serial!Drop(table, keys) = Drop(table, keys)
  BY DEF Serial!Drop, Drop, Restrict, Serial!Restrict
<1>3. \A cards, name : Serial!Rename(cards, name) = Rename(cards, name)
  BY DEF Serial!Rename, Rename
<1>4. \A row, name, order : Serial!Patch(row, name, order) = Patch(row, name, order)
  BY DEF Serial!Patch, Patch
<1> QED  BY <1>1, <1>2, <1>3, <1>4

AfterCommit == {"invalidate", "reread_group"}

\* A commit drops the cached payload, as the serial machine sees it.
LEMMA CommitHome ==
    ASSUME SerialInv, NEW r \in Req, NEW q, q = req[r], NEW p, p = req'[r], Others(r), UNCHANGED home,
           q.user \in User, q.at # "idle", p.user = q.user, p.at \in AfterCommit
    PROVE  SerialHome' = [SerialHome EXCEPT ![q.user] = NoHome]
<1>1. \A v \in User : v # q.user => (Writing(v)' <=> Writing(v))
  BY DEF Writing, Others
<1>2. Writing(q.user)'
  BY DEF Writing, AfterCommit
<1> QED  BY <1>1, <1>2 DEF SerialHome

\* The serial machine sees no difference.
LEMMA SameHome ==
    ASSUME NEW r \in Req, NEW q, q = req[r], NEW p, p = req'[r], Others(r), UNCHANGED home,
           q.at \in AfterCommit <=> p.at \in AfterCommit,
           p.at \in AfterCommit => p.user = q.user
    PROVE  SerialHome' = SerialHome
<1>1. \A v \in User : Writing(v)' <=> Writing(v)
  BY DEF Writing, Others, AfterCommit
<1> QED  BY <1>1 DEF SerialHome

LEMMA InvalidatedHome ==
    ASSUME NEW r \in Req, NEW q, q = req[r], NEW p, p = req'[r], Others(r),
           home' = [home EXCEPT ![q.user] = NoHome], home = [u \in User |-> home[u]],
           q.user \in User, q.at = "invalidate", p.at = "idle"
    PROVE  SerialHome' = SerialHome
<1>1. \A v \in User : v # q.user => (Writing(v)' <=> Writing(v)) /\ home'[v] = home[v]
  BY DEF Writing, Others
<1>2. Writing(q.user) /\ home'[q.user] = NoHome
  BY DEF Writing
<1>3. \A v \in User : SerialHome'[v] = SerialHome[v]
  BY <1>1, <1>2 DEF SerialHome
<1>4. SerialHome' = [v \in User |-> SerialHome'[v]] /\ SerialHome = [v \in User |-> SerialHome[v]]
  BY DEF SerialHome
<1> QED  BY <1>3, <1>4

\* The steps at which nothing commits.
Quiet(r) ==
    \/ FindUser(r) \/ RequireGroup(r) \/ CardStop(r) \/ FindAlias(r) \/ LockGroup(r)
    \/ FirstStop(r) \/ FindFavorite(r) \/ FindCard(r) \/ CheckCard(r) \/ ItemOrder(r)
    \/ CardOrder(r) \/ CardName(r) \/ FindFavorites(r) \/ RequireFavorite(r) \/ DeleteItem(r)
    \/ CountLeft(r) \/ WriteAlias(r) \/ DropAlias(r) \/ AliasCards(r)
    \/ GetHome(r) \/ ListGroups(r) \/ ListItems(r) \/ AbortDeadlock(r)

LEMMA QuietGoesOn ==
    ASSUME RequestsInv, NEW r \in Req, NEW q, q = req[r], NEW p, p = req'[r], Quiet(r)
    PROVE  q.at \notin AfterCommit /\ p.at \notin AfterCommit
<1>1. req = [x \in Req |-> req[x]] /\ WholeIn(q, Fields) /\ (q.at # "idle" => q.kind \in KindOf)
  BY InvTypes DEF RequestsInv, RequestsTyped, Typed
<1>2. q.at \notin AfterCommit
  BY DEF Quiet, AfterCommit, FindUser, GetHome, AbortDeadlock, Deadlocked, RequireGroup, CardStop,
         FindAlias, LockGroup, FindFavorite, CheckCard, FirstStop, FindCard, ItemOrder, CardOrder,
         CardName, FindFavorites, CountLeft, RequireFavorite, DeleteItem, WriteAlias, DropAlias,
         AliasCards, ListGroups, ListItems, Reads, At
<1>3. Finish(r) => p.at \notin AfterCommit
  BY <1>1 DEF Finish, Idle, AfterCommit
<1>4. \A l : Goto(r, l) => p.at = l
  BY <1>1 DEF Goto, WholeIn, Fields
<1>5. ASSUME NEW a, NEW l, req' = [req EXCEPT ![r].stop = a, ![r].at = l] PROVE p.at = l
  BY <1>1, <1>5 DEF WholeIn, Fields
<1>6. ASSUME NEW a, NEW l, req' = [req EXCEPT ![r].alias = a, ![r].at = l] PROVE p.at = l
  BY <1>1, <1>6 DEF WholeIn, Fields
<1>7. ASSUME NEW a, NEW l, req' = [req EXCEPT ![r].held = a, ![r].at = l] PROVE p.at = l
  BY <1>1, <1>7 DEF WholeIn, Fields
<1>8. ASSUME NEW a, NEW l, req' = [req EXCEPT ![r].group = a, ![r].at = l] PROVE p.at = l
  BY <1>1, <1>8 DEF WholeIn, Fields
<1>9. ASSUME NEW a, NEW l, req' = [req EXCEPT ![r].order = a, ![r].at = l] PROVE p.at = l
  BY <1>1, <1>9 DEF WholeIn, Fields
<1>10. ASSUME NEW a, NEW l, req' = [req EXCEPT ![r].name = a, ![r].at = l] PROVE p.at = l
  BY <1>1, <1>10 DEF WholeIn, Fields
<1>11. ASSUME NEW a, NEW l, req' = [req EXCEPT ![r].cards = a, ![r].at = l] PROVE p.at = l
  BY <1>1, <1>11 DEF WholeIn, Fields
<1>12. CASE FindUser(r) \/ GetHome(r) \/ AbortDeadlock(r)
  <2>1. q.at = "user" => Entry(r) \notin AfterCommit
    BY <1>1 DEF Entry, KindOf, AfterCommit
  <2> QED  BY <1>2, <1>3, <1>4, <1>12, <2>1 DEF FindUser, GetHome, AbortDeadlock, AfterCommit, Reads, At
<1>13. CASE RequireGroup(r)
  <2>1. q.kind \in {"create_favorite", "delete_group", "update_group"}
    BY <1>13, InvTypes DEF RequireGroup, Reads, At, Typed, Statement
  <2>2. Finish(r) \/ \E l \in {"first_stop", "lock_group", "update_group", "card_stop"} : Goto(r, l)
    BY <1>13, <2>1 DEF RequireGroup
  <2> QED  BY <1>2, <1>3, <1>4, <2>2 DEF AfterCommit
<1>14. CASE CardStop(r) \/ FindAlias(r)
  <2>1. CASE CardStop(r)
    <3>1. CASE Goto(r, "update_group")
      BY <1>2, <1>4, <3>1 DEF AfterCommit
    <3>2. CASE ~Goto(r, "update_group")
      <4>1. PICK a : req' = [req EXCEPT ![r].stop = a, ![r].at = "find_alias"]
        BY <2>1, <3>2 DEF CardStop
      <4> QED  BY <1>2, <1>5, <4>1 DEF AfterCommit
    <3> QED  BY <3>1, <3>2
  <2>2. CASE FindAlias(r)
    <3>1. PICK a, l : req' = [req EXCEPT ![r].alias = a, ![r].at = l] /\ l \in {"update_group", "write_alias"}
      BY <2>2 DEF FindAlias
    <3> QED  BY <1>2, <1>6, <3>1 DEF AfterCommit
  <2> QED  BY <1>14, <2>1, <2>2
<1>15. CASE LockGroup(r) \/ DeleteItem(r) \/ WriteAlias(r)
  <2> DEFINE Locks == \E a, l : /\ req' = [req EXCEPT ![r].held = a, ![r].at = l]
                                /\ l \in {"delete_group", "count_left", "alias_cards"}
  <2>1. Finish(r) \/ Locks
    BY <1>15 DEF LockGroup, DeleteItem, WriteAlias
  <2>2. Locks => p.at \notin AfterCommit
    <3> SUFFICES ASSUME NEW a, NEW l, req' = [req EXCEPT ![r].held = a, ![r].at = l],
                        l \in {"delete_group", "count_left", "alias_cards"}
                 PROVE  p.at \notin AfterCommit
      OBVIOUS
    <3>1. p.at = l
      BY <1>7
    <3> QED  BY <3>1 DEF AfterCommit
  <2> HIDE DEF Locks
  <2> QED  BY <1>2, <1>3, <2>1, <2>2
<1>16. CASE FirstStop(r) \/ FindCard(r) \/ RequireFavorite(r)
  <2> DEFINE Found == \E a, l : /\ req' = [req EXCEPT ![r].group = a, ![r].at = l]
                                /\ l \in {"find_favorite", "check_card", "delete_item"}
  <2>1. Finish(r) \/ Goto(r, "card_order") \/ Found
    BY <1>16 DEF FirstStop, FindCard, RequireFavorite
  <2>2. Found => p.at \notin AfterCommit
    <3> SUFFICES ASSUME NEW a, NEW l, req' = [req EXCEPT ![r].group = a, ![r].at = l],
                        l \in {"find_favorite", "check_card", "delete_item"}
                 PROVE  p.at \notin AfterCommit
      OBVIOUS
    <3>1. p.at = l
      BY <1>8
    <3> QED  BY <3>1 DEF AfterCommit
  <2>3. Goto(r, "card_order") => p.at \notin AfterCommit
    BY <1>4 DEF AfterCommit
  <2> HIDE DEF Found
  <2> QED  BY <1>2, <1>3, <2>1, <2>2, <2>3
<1>17. CASE FindFavorite(r) \/ CheckCard(r) \/ FindFavorites(r) \/ CountLeft(r)
  BY <1>2, <1>3, <1>4, <1>17 DEF FindFavorite, CheckCard, FindFavorites, CountLeft, AfterCommit
<1>18. CASE ItemOrder(r) \/ CardOrder(r) \/ CardName(r)
  <2>1. CASE ItemOrder(r) \/ CardOrder(r)
    <3>1. PICK a, l : req' = [req EXCEPT ![r].order = a, ![r].at = l] /\ l \in {"insert_item", "card_name"}
      BY <2>1 DEF ItemOrder, CardOrder
    <3> QED  BY <1>2, <1>9, <3>1 DEF AfterCommit
  <2>2. CASE CardName(r)
    <3>1. PICK a : req' = [req EXCEPT ![r].name = a, ![r].at = "insert_card"]
      BY <2>2 DEF CardName
    <3> QED  BY <1>2, <1>10, <3>1 DEF AfterCommit
  <2> QED  BY <1>18, <2>1, <2>2
<1>19. CASE DropAlias(r) \/ AliasCards(r)
  <2>1. CASE DropAlias(r)
    <3>1. PICK a, n : req' = [req EXCEPT ![r].held = a, ![r].name = n, ![r].at = "alias_cards"]
      BY <2>1 DEF DropAlias
    <3>2. p.at = "alias_cards"
      BY <1>1, <3>1 DEF WholeIn, Fields
    <3> QED  BY <1>2, <3>2 DEF AfterCommit
  <2>2. CASE AliasCards(r)
    <3>1. PICK a : req' = [req EXCEPT ![r].cards = a, ![r].at = "commit_alias"]
      BY <2>2 DEF AliasCards
    <3> QED  BY <1>2, <1>11, <3>1 DEF AfterCommit
  <2> QED  BY <1>19, <2>1, <2>2
<1>20. CASE ListGroups(r)
  <2>1. PICK v, c : req' = [req EXCEPT ![r].view = v, ![r].cards = c, ![r].at = "list_items"]
    BY <1>20 DEF ListGroups
  <2>2. p.at = "list_items"
    BY <1>1, <2>1 DEF WholeIn, Fields
  <2> QED  BY <1>2, <2>2 DEF AfterCommit
<1>21. CASE ListItems(r)
  <2>1. PICK i, n, c : req' = [req EXCEPT ![r].view.items = i, ![r].view.names = n, ![r].cards = c]
    BY <1>21 DEF ListItems
  <2>2. p = [[[q EXCEPT !.view.items = i] EXCEPT !.view.names = n] EXCEPT !.cards = c]
    BY <1>1, <2>1
  <2>3. p.at = q.at
    BY <1>1, <2>2 DEF WholeIn, Fields
  <2> QED  BY <1>2, <2>3
<1> QED
  BY <1>12, <1>13, <1>14, <1>15, <1>16, <1>17, <1>18, <1>19, <1>20, <1>21 DEF Quiet

\* Nothing commits, or a commit is over: the serial machine stands still.
LEMMA QuietStutters ==
    ASSUME SerialInv, Waiting, NEW r \in Req, Quiet(r) \/ RereadGroup(r) \/ InvalidateHome(r)
    PROVE  UNCHANGED <<users, tables>> /\ SerialHome' = SerialHome
<1>1. PICK q, p : q = req[r] /\ p = req'[r]
  OBVIOUS
<1>2. RequestsInv /\ Typed(q) /\ Knows(q) /\ req = [x \in Req |-> req[x]] /\ Step(r)
  BY <1>1, InvTypes DEF SerialInv, RequestsInv, RequestsTyped, Quiet, Step, CardStep, CreateStep, ItemStep,
                        AliasStep, HomeStep
<1>3. Others(r)
  BY <1>2, StepFits DEF Fits, Advances, Proceeds
<1>4. CASE Quiet(r)
  <2>1. UNCHANGED <<users, tables, home>>
    BY <1>4 DEF Quiet, FindUser, GetHome, AbortDeadlock, RequireGroup, CardStop,
         FindAlias, LockGroup, FindFavorite, CheckCard, FirstStop, FindCard, ItemOrder, CardOrder,
         CardName, FindFavorites, CountLeft, RequireFavorite, DeleteItem, WriteAlias, DropAlias,
         AliasCards, ListGroups, ListItems, Reads
  <2> QED  BY <1>1, <1>2, <1>3, <1>4, <2>1, QuietGoesOn, SameHome
<1>5. CASE RereadGroup(r)
  <2>1. q.at = "reread_group" /\ q.group \in GroupsOf(q.user) /\ UNCHANGED <<users, tables, home>>
    BY <1>1, <1>2, <1>5 DEF RereadGroup, Reads, At, Knows, KnowsCard
  <2>2. Committed(r)
    BY <1>1, <1>5, <2>1 DEF RereadGroup, GroupsOf
  <2>3. p = [[q EXCEPT !.at = "invalidate"] EXCEPT !.held = {}]
    BY <1>1, <1>2, <2>2 DEF Committed
  <2>4. p.at = "invalidate" /\ p.user = q.user
    BY <1>2, <2>3 DEF Typed, WholeIn, Fields
  <2> QED  BY <1>1, <1>3, <2>1, <2>4, SameHome DEF AfterCommit
<1>6. CASE InvalidateHome(r)
  <2>1. q.at = "invalidate" /\ home' = [home EXCEPT ![q.user] = NoHome] /\ UNCHANGED <<users, tables>>
        /\ Finish(r)
    BY <1>1, <1>6 DEF InvalidateHome, At, Invalidate, Waiting
  <2>2. p.at = "idle" /\ q.user \in User
    BY <1>1, <1>2, <2>1 DEF Finish, Idle, Typed
  <2> QED  BY <1>1, <1>2, <1>3, <2>1, <2>2, InvalidatedHome DEF RequestsInv, RequestsTyped
<1> QED  BY <1>4, <1>5, <1>6

\* What every commit has in common.
LEMMA CommitEffect ==
    ASSUME SerialInv, NEW r \in Req, NEW q, q = req[r], Committed(r), Others(r), UNCHANGED <<users, home>>,
           q.at \notin Unfound
    PROVE  Serial!GetOrCreateUser(q.user) /\ SerialHome' = Serial!Invalidate(q.user) /\ q.user \in User
<1>1. RequestsInv /\ Typed(q) /\ q.user \in User /\ q.user \in users /\ q.at # "idle"
      /\ req = [x \in Req |-> req[x]]
  BY AtStatement DEF SerialInv, RequestsInv, RequestsTyped
<1>2. PICK p : p = req'[r] /\ p = [[q EXCEPT !.at = "invalidate"] EXCEPT !.held = {}]
  BY <1>1 DEF Committed
<1>3. p.at = "invalidate" /\ p.user = q.user
  BY <1>1, <1>2 DEF Typed, WholeIn, Fields
<1>4. SerialHome' = [SerialHome EXCEPT ![q.user] = NoHome]
  BY <1>1, <1>2, <1>3, CommitHome DEF AfterCommit
<1>5. SerialHome' = Serial!Invalidate(q.user)
  BY <1>4 DEF SerialHome, Serial!Invalidate
<1>6. Serial!GetOrCreateUser(q.user)
  BY <1>1 DEF Serial!GetOrCreateUser
<1> QED  BY <1>1, <1>5, <1>6

LEMMA CommitOthers ==
    ASSUME SerialInv, NEW r \in Req, Committed(r) \/ Finish(r)
    PROVE  Others(r)
BY DEF SerialInv, RequestsInv, RequestsTyped, Committed, Finish, Others

\* Each commit is one call of the serial machine.
LEMMA CardCommits ==
    ASSUME SerialInv, NEW r \in Req, NEW q, q = req[r], InsertGroup(r) \/ DeleteGroup(r)
    PROVE  q.user \in User /\ Serial!CardCall(q.user)
<1>1. RequestsInv /\ Knows(q) /\ Committed(r) /\ UNCHANGED <<users, home, aliases>>
      /\ q.at \in {"insert_group", "delete_group"}
  BY DEF SerialInv, InsertGroup, DeleteGroup, At
<1>2. Payload(q) /\ Statement(q)
  BY <1>1, AtStatement DEF Unfound
<1>3. PICK u : u = q.user /\ u \in User /\ Serial!GetOrCreateUser(u) /\ SerialHome' = Serial!Invalidate(u)
  BY <1>1, CommitEffect, CommitOthers DEF Unfound
<1>4. CASE InsertGroup(r)
  <2>1. PICK g \in NewGroupId : groups' = Put(groups, g, [user |-> u, name |-> q.name, order |-> q.order])
    BY <1>3, <1>4 DEF InsertGroup
  <2>2. Serial!CreateGroup(u, g, q.name, q.order)
    BY <1>1, <1>3, <1>4, <2>1, SameWrites DEF Serial!CreateGroup, SerialHome, InsertGroup, NewGroupId
  <2>3. q.name \in Name /\ q.order \in Order /\ g \in GroupId
    BY <1>2, <1>4 DEF InsertGroup, At, Statement, Payload, NewGroupId
  <2> QED  BY <1>3, <2>2, <2>3 DEF Serial!CardCall
<1>5. CASE DeleteGroup(r)
  <2>1. PICK g : g = q.group /\ q.held = {g} /\ g \in GroupsOf(u) /\ g \in GroupId
    BY <1>1, <1>2, <1>3, <1>5 DEF DeleteGroup, At, Knows, KnowsCard, Statement, Payload
  <2>2. UNION {ItemsIn(h) : h \in {g}} = ItemsIn(g)
    OBVIOUS
  <2>3. groups' = Drop(groups, {g}) /\ items' = Drop(items, ItemsIn(g))
    BY <1>5, <2>1, <2>2 DEF DeleteGroup
  <2>4. Serial!DeleteGroup(u, g)
    BY <1>1, <1>3, <2>1, <2>3, SameWrites, SameQueries DEF Serial!DeleteGroup, SerialHome
  <2> QED  BY <1>3, <2>1, <2>4 DEF Serial!CardCall
<1> QED  BY <1>4, <1>5

\* An alias that is there already is as good as written.
LEMMA PutAgain ==
    ASSUME NEW table, table = [k \in DOMAIN table |-> table[k]], NEW key \in DOMAIN table
    PROVE  Put(table, key, table[key]) = table
BY DEF Put

LEMMA UpdateCommits ==
    ASSUME SerialInv, NEW r \in Req, NEW q, q = req[r], UpdateGroup(r)
    PROVE  \/ q.user \in User /\ Serial!CardCall(q.user)
           \/ UNCHANGED <<users, tables>> /\ SerialHome' = SerialHome
<1>1. RequestsInv /\ TablesTyped /\ Typed(q) /\ Knows(q) /\ q.at = "update_group" /\ UNCHANGED <<users, home>>
      /\ req = [x \in Req |-> req[x]]
  BY InvTypes DEF SerialInv, RequestsInv, RequestsTyped, UpdateGroup, At
<1>2. Payload(q) /\ q.kind = "update_group" /\ q.user \in User /\ q.user \in users
  BY <1>1, AtStatement DEF Unfound, Statement
<1>3. CASE AliasWriteFails(r)
  <2>1. Finish(r) /\ UNCHANGED tables
    BY <1>3 DEF UpdateGroup
  <2>2. PICK p : p = req'[r] /\ p.at = "idle"
    BY <1>1, <2>1 DEF Finish, Idle
  <2>3. SerialHome' = SerialHome
    BY <1>1, <2>1, <2>2, SameHome, CommitOthers DEF AfterCommit
  <2> QED  BY <1>1, <2>1, <2>3
<1>4. CASE ~AliasWriteFails(r)
  <2>1. PICK u, g, name, key :
          /\ u = q.user /\ g = q.group /\ name = q.name /\ key = <<u, q.stop>>
          /\ g \in GroupsOf(u) /\ g \in GroupId /\ name \in Name \cup {NoValue}
    BY <1>1, <1>2 DEF Knows, KnowsCard, Payload
  <2>2. /\ aliases' = IF WritesAlias(r) THEN Put(aliases, key, name) ELSE aliases
        /\ groups' = [h \in DOMAIN groups |-> IF h = g THEN Patch(groups[h], name, q.order) ELSE groups[h]]
        /\ Goto(r, "reread_group") /\ UNCHANGED items
    BY <1>4, <2>1 DEF UpdateGroup, AliasKey
  <2>3. WritesAlias(r) <=> q.stop # NoValue /\ q.alias # name
    BY <2>1 DEF WritesAlias
  <2>4. SerialHome' = Serial!Invalidate(u)
    <3>1. PICK p : p = req'[r] /\ p = [q EXCEPT !.at = "reread_group"] /\ Others(r)
      BY <1>1, <2>2 DEF Goto, Others
    <3>2. p.at = "reread_group" /\ p.user = q.user
      BY <1>1, <3>1 DEF Typed, WholeIn, Fields
    <3>3. p.at \in AfterCommit /\ q.at # "idle"
      BY <1>1, <3>2 DEF AfterCommit
    <3>4. SerialHome' = [SerialHome EXCEPT ![q.user] = NoHome]
      BY <1>1, <1>2, <3>1, <3>2, <3>3, CommitHome
    <3> QED  BY <2>1, <3>4 DEF SerialHome, Serial!Invalidate
  <2>5. Serial!SyncNameToAlias(u, g, name)
    <3>1. CASE name = NoValue \/ q.stop = NoValue
      <4>1. name = NoValue \/ ItemsIn(g) = {}
        BY <1>1, <2>1, <3>1 DEF Knows, KnowsCard
      <4>2. q.stop = NoValue
        BY <1>1, <2>1, <3>1 DEF Knows, KnowsCard
      <4>3. UNCHANGED aliases
        BY <2>2, <2>3, <4>2
      <4> QED  BY <4>1, <4>3, SameQueries DEF Serial!SyncNameToAlias
    <3>2. CASE name # NoValue /\ q.stop # NoValue
      <4>1. q.alias = AliasNow(q) /\ \E i \in ItemsIn(g) : items[i].stop = q.stop
        BY <1>1, <2>1, <3>2 DEF Knows, KnowsCard
      <4>2. PICK i \in ItemsIn(g) : key = <<u, items[i].stop>>
        BY <2>1, <4>1
      <4>3. ~WritesAlias(r) => key \in DOMAIN aliases /\ aliases[key] = name
        BY <2>1, <2>3, <3>2, <4>1 DEF AliasNow
      <4>4. ~WritesAlias(r) => Put(aliases, key, name) = aliases
        BY <1>1, <4>3, PutAgain DEF TablesTyped
      <4>5. aliases' = Put(aliases, key, name)
        BY <2>2, <4>4
      <4> QED  BY <3>2, <4>2, <4>5, SameQueries, SameWrites DEF Serial!SyncNameToAlias
    <3> QED  BY <3>1, <3>2
  <2>6. groups' = [groups EXCEPT ![g] = Patch(@, name, q.order)]
    BY <1>1, <2>2 DEF TablesTyped
  <2>7. Serial!UpdateGroup(u, g, name, q.order, TRUE)
    <3>1. Serial!GetOrCreateUser(u)
      BY <1>1, <1>2, <2>1 DEF Serial!GetOrCreateUser
    <3> QED
      BY <2>1, <2>2, <2>4, <2>5, <2>6, <3>1, SameQueries, SameWrites DEF Serial!UpdateGroup, SerialHome
  <2>8. q.order \in Order \cup {NoValue}
    BY <1>2 DEF Payload
  <2> QED  BY <1>2, <2>1, <2>7, <2>8 DEF Serial!CardCall
<1> QED  BY <1>3, <1>4

\* The card that create_favorite has settled on is one it may be given.
LEMMA TargetGiven ==
    ASSUME NEW q, Target(q), NoValue \notin GroupsOf(q.user)
    PROVE  \E given \in GroupsOf(q.user) \cup {NoValue} : q.group \in Serial!Targets(q.user, given, q.stop)
<1>1. ExplicitTargets(NoValue, q.stop) = {NoValue}
  BY DEF ExplicitTargets
<1>2. CASE q.group \in ExplicitTargets(q.group, q.stop)
  <2>1. q.group \in {q.group} /\ q.group # NoValue
    BY DEF Target
  <2>2. q.group \in Serial!Targets(q.user, q.group, q.stop)
    BY <1>2, <2>1, SameQueries DEF Serial!Targets
  <2> QED  BY <2>2 DEF Target
<1>3. CASE q.group \in FirstCards(q.user, q.stop)
  <2>1. q.group \in Serial!Targets(q.user, NoValue, q.stop)
    BY <1>1, <1>3, SameQueries DEF Serial!Targets
  <2> QED  BY <2>1
<1> QED  BY <1>2, <1>3 DEF Target

LEMMA InsertItemCommits ==
    ASSUME SerialInv, NEW r \in Req, NEW q, q = req[r], InsertItem(r)
    PROVE  \/ q.user \in User /\ Serial!ItemCall(q.user)
           \/ UNCHANGED <<users, tables>> /\ SerialHome' = SerialHome
<1>1. RequestsInv /\ TablesTyped /\ Typed(q) /\ Knows(q) /\ q.at = "insert_item"
      /\ UNCHANGED <<users, groups, aliases, home>> /\ req = [x \in Req |-> req[x]]
  BY InvTypes DEF SerialInv, RequestsInv, RequestsTyped, InsertItem, At
<1>2. Payload(q) /\ Statement(q)
  BY <1>1, AtStatement DEF Unfound
<1>3. ASSUME Finish(r), UNCHANGED items
      PROVE  UNCHANGED <<users, tables>> /\ SerialHome' = SerialHome
  <2>1. PICK p : p = req'[r] /\ p.at = "idle"
    BY <1>1, <1>3 DEF Finish, Idle
  <2>2. SerialHome' = SerialHome
    BY <1>1, <1>3, <2>1, SameHome, CommitOthers DEF AfterCommit
  <2> QED  BY <1>1, <1>3, <2>2 DEF tables
<1>4. ASSUME NEW i \in NewItemId, InsertRow(r, i, q.group, q.order), Committed(r)
      PROVE  q.user \in User /\ Serial!ItemCall(q.user)
  <2>1. PICK u, s, v, g :
          /\ u = q.user /\ s = q.stop /\ v = q.service /\ g = q.group
          /\ u \in User /\ Serial!GetOrCreateUser(u) /\ SerialHome' = Serial!Invalidate(u)
    BY <1>1, <1>4, CommitEffect, CommitOthers DEF Unfound
  <2>2. Target(q) /\ FavoritesAt(u, s, v) = {} /\ IsNextOrder(q.order, {items[j].order : j \in ItemsIn(g)})
    BY <1>1, <2>1 DEF Knows, KnowsTarget
  <2>3. NoValue \notin GroupsOf(u) /\ GroupsOf(u) \subseteq GroupId
    BY <1>1, NoValueAssumption DEF GroupsOf, TablesTyped
  <2>4. PICK given \in GroupsOf(u) \cup {NoValue} : g \in Serial!Targets(u, given, s)
    BY <2>1, <2>2, <2>3, TargetGiven
  <2>5. items' = Put(items, i, [group |-> g, stop |-> s, service |-> v, order |-> q.order])
    BY <1>4, <2>1 DEF InsertRow
  <2>6. Serial!AddItem(i, g, s, v, q.order)
    BY <2>5, SameWrites DEF Serial!AddItem
  <2>7. q.order \in Order /\ s \in Stop /\ v \in Service /\ i \in ItemId /\ i \notin DOMAIN items
    BY <1>1, <1>2, <2>1 DEF Payload, Statement, NewItemId
  <2>8. Serial!CreateFavoriteOnCard(u, given, s, v, i)
    BY <1>1, <2>1, <2>2, <2>4, <2>6, <2>7, SameQueries DEF Serial!CreateFavoriteOnCard, SerialHome
  <2> QED  BY <2>1, <2>3, <2>7, <2>8 DEF Serial!ItemCall
<1> QED  BY <1>1, <1>3, <1>4 DEF InsertItem

LEMMA InsertCardCommits ==
    ASSUME SerialInv, NEW r \in Req, NEW q, q = req[r], InsertCard(r)
    PROVE  q.user \in User /\ Serial!ItemCall(q.user)
<1>1. RequestsInv /\ Knows(q) /\ q.at = "insert_card" /\ UNCHANGED <<users, aliases, home>> /\ Committed(r)
  BY DEF SerialInv, InsertCard, At
<1>2. Payload(q) /\ Statement(q)
  BY <1>1, AtStatement DEF Unfound
<1>3. PICK u, s, v :
        /\ u = q.user /\ s = q.stop /\ v = q.service
        /\ u \in User /\ Serial!GetOrCreateUser(u) /\ SerialHome' = Serial!Invalidate(u)
  BY <1>1, CommitEffect, CommitOthers DEF Unfound
<1>4. PICK g \in NewGroupId, i \in NewItemId :
        /\ groups' = Put(groups, g, [user |-> u, name |-> q.name, order |-> q.order])
        /\ items' = Put(items, i, [group |-> g, stop |-> s, service |-> v, order |-> 0])
  BY <1>3 DEF InsertCard, InsertRow
<1>5. FavoritesAt(u, s, v) = {} /\ CardsFor(u, s) = {} /\ q.name = DisplayName(u, s)
      /\ IsNextOrder(q.order, {groups[h].order : h \in GroupsOf(u)})
  BY <1>1, <1>3 DEF Knows, KnowsTarget
<1>6. q.order \in Order /\ s \in Stop /\ v \in Service /\ i \in ItemId /\ i \notin DOMAIN items
      /\ g \in GroupId /\ g \notin DOMAIN groups
  BY <1>1, <1>2, <1>3 DEF Payload, Statement, NewItemId, NewGroupId
<1>7. Serial!AddItem(i, g, s, v, 0)
  BY <1>4, SameWrites DEF Serial!AddItem
<1>8. NoValue \in Serial!ExplicitTargets(NoValue, s)
  BY DEF Serial!ExplicitTargets
<1>9. groups' = Serial!Put(groups, g, [user |-> u, name |-> Serial!DisplayName(u, s), order |-> q.order])
  BY <1>4, <1>5, SameWrites, SameQueries
<1>10. Serial!CreateFavoriteOnNewCard(u, NoValue, s, v, g, i)
  BY <1>1, <1>3, <1>5, <1>6, <1>7, <1>8, <1>9, SameQueries DEF Serial!CreateFavoriteOnNewCard, SerialHome
<1> QED  BY <1>3, <1>6, <1>10 DEF Serial!ItemCall

LEMMA ItemCommits ==
    ASSUME SerialInv, NEW r \in Req, NEW q, q = req[r],
           SetOrders(r) \/ CommitItem(r) \/ DeleteEmptyCard(r)
    PROVE  q.user \in User /\ Serial!ItemCall(q.user)
<1>1. RequestsInv /\ TablesTyped /\ Knows(q) /\ UNCHANGED <<users, aliases, home>> /\ Committed(r)
      /\ q.at \in {"set_orders", "commit_item", "delete_empty_card"}
  BY InvTypes DEF SerialInv, SetOrders, CommitItem, DeleteEmptyCard, At
<1>2. Payload(q) /\ Statement(q)
  BY <1>1, AtStatement DEF Unfound
<1>3. PICK u : u = q.user /\ u \in User /\ Serial!GetOrCreateUser(u) /\ SerialHome' = Serial!Invalidate(u)
  BY <1>1, CommitEffect, CommitOthers DEF Unfound
<1>4. CASE SetOrders(r)
  <2>1. PICK orders : /\ orders = q.orders /\ DOMAIN orders \subseteq ItemsOf(u)
                      /\ DOMAIN orders \in (SUBSET ItemId) \ {{}} /\ orders \in [DOMAIN orders -> Order]
    BY <1>1, <1>2, <1>3, <1>4 DEF SetOrders, At, Knows, KnowsItem, Statement, Payload
  <2>2. Serial!ReorderFavorites(u, orders)
    BY <1>1, <1>3, <1>4, <2>1, SameQueries DEF SetOrders, Serial!ReorderFavorites, SerialHome
  <2> QED  BY <1>3, <2>1, <2>2 DEF Serial!ItemCall
<1>5. CASE CommitItem(r) \/ DeleteEmptyCard(r)
  <2>1. PICK i : /\ i = q.item /\ i \in ItemsOf(u) /\ q.group = items[i].group /\ q.held = {i}
                 /\ q.at = "commit_item" => ItemsIn(items[i].group) # {i}
                 /\ q.at = "delete_empty_card" => ItemsIn(items[i].group) = {i}
    BY <1>1, <1>3, <1>5 DEF CommitItem, DeleteEmptyCard, At, Knows, KnowsItem
  <2>2. items' = Drop(items, {i})
    BY <1>5, <2>1 DEF CommitItem, DeleteEmptyCard, At
  <2>3. groups' = IF LeavesCardEmpty(i) THEN Drop(groups, {items[i].group}) ELSE groups
    BY <1>5, <2>1 DEF CommitItem, DeleteEmptyCard, At, LeavesCardEmpty
  <2>4. Serial!DeleteFavorite(u, i)
    BY <1>1, <1>3, <2>1, <2>2, <2>3, SameQueries, SameWrites DEF Serial!DeleteFavorite, SerialHome
  <2>5. i \in ItemId
    BY <1>1, <2>1 DEF ItemsOf, TablesTyped
  <2> QED  BY <1>3, <2>4, <2>5 DEF Serial!ItemCall
<1> QED  BY <1>4, <1>5

LEMMA AliasCommits ==
    ASSUME SerialInv, NEW r \in Req, NEW q, q = req[r], CommitAlias(r)
    PROVE  q.user \in User /\ Serial!AliasCall(q.user)
<1>1. RequestsInv /\ TablesTyped /\ Knows(q) /\ q.at = "commit_alias" /\ UNCHANGED <<users, items, home>>
      /\ Committed(r)
  BY InvTypes DEF SerialInv, CommitAlias, At
<1>2. Payload(q) /\ q.kind \in {"upsert_alias", "delete_alias"}
  BY <1>1, AtStatement DEF Unfound, Statement
<1>3. PICK u, s, key, name :
        /\ u = q.user /\ s = q.stop /\ key = <<u, s>> /\ name = q.name
        /\ u \in User /\ s \in Stop
        /\ Serial!GetOrCreateUser(u) /\ SerialHome' = Serial!Invalidate(u)
  BY <1>1, <1>2, CommitEffect, CommitOthers DEF Unfound, Payload
<1>4. groups' = Rename(CardsFor(u, s), name)
  BY <1>1, <1>3 DEF CommitAlias, Knows, KnowsAlias
<1>5. CASE q.kind = "upsert_alias"
  <2>1. aliases' = IF q.held = {} THEN aliases ELSE Put(aliases, key, name)
    BY <1>3, <1>5 DEF CommitAlias, AliasKey
  <2>2. name \in Name
    BY <1>2, <1>3, <1>5 DEF Payload
  <2>3. q.held = {} => key \in DOMAIN aliases /\ aliases[key] = name
    BY <1>1, <1>3, <1>5, <2>2, NoValueAssumption DEF Knows, KnowsAlias, AliasNow
  <2>4. aliases' = Put(aliases, key, name)
    BY <1>1, <2>1, <2>3, PutAgain DEF TablesTyped
  <2>5. Serial!UpsertAlias(u, s, name)
    BY <1>1, <1>3, <1>4, <2>4, SameWrites, SameQueries DEF Serial!UpsertAlias, SerialHome
  <2> QED  BY <1>3, <2>2, <2>5 DEF Serial!AliasCall
<1>6. CASE q.kind = "delete_alias"
  <2>1. aliases' = IF q.held = {} THEN aliases ELSE Drop(aliases, {key})
    BY <1>3, <1>6 DEF CommitAlias, AliasKey
  <2>2. q.held = {} => key \notin DOMAIN aliases
    BY <1>1, <1>3, <1>6 DEF Knows, KnowsAlias
  <2>3. key \notin DOMAIN aliases => Drop(aliases, {key}) = aliases
    BY <1>1 DEF TablesTyped, Drop, Restrict
  <2>4. aliases' = Drop(aliases, {key}) /\ name = Description[s]
    BY <1>1, <1>3, <1>6, <2>1, <2>2, <2>3 DEF Knows, KnowsAlias
  <2>5. Serial!DeleteAlias(u, s)
    BY <1>1, <1>3, <1>4, <2>4, SameWrites, SameQueries DEF Serial!DeleteAlias, SerialHome
  <2> QED  BY <1>3, <2>5 DEF Serial!AliasCall
<1> QED  BY <1>2, <1>5, <1>6

\* The row of a new device, and the payload that get_home caches.
LEMMA NewUserCommits ==
    ASSUME SerialInv, NEW r \in Req, NEW q, q = req[r], InsertUser(r)
    PROVE  q.user \in User /\ Serial!Unchanging(q.user)
<1>1. RequestsInv /\ Typed(q) /\ q.at = "new_user" /\ q.kind \in KindOf /\ q.user \in User
      /\ users' = users \cup {q.user} /\ UNCHANGED <<tables, home>>
      /\ req = [x \in Req |-> req[x]]
  BY InvTypes DEF SerialInv, RequestsInv, RequestsTyped, Typed, InsertUser, At
<1>2. PICK p : p = req'[r]
  OBVIOUS
<1>3. p.at \notin AfterCommit
  <2>1. Entry(r) \notin AfterCommit
    BY <1>1 DEF Entry, KindOf, AfterCommit
  <2>2. CASE Finish(r)
    BY <1>1, <1>2, <2>2 DEF Finish, Idle, AfterCommit
  <2>3. CASE Goto(r, Entry(r))
    BY <1>1, <1>2, <2>1, <2>3 DEF Goto, Typed, WholeIn, Fields
  <2> QED  BY <2>2, <2>3 DEF InsertUser
<1>4. Others(r)
  BY <1>1 DEF InsertUser, Finish, Goto, Others
<1>5. SerialHome' = SerialHome
  BY <1>1, <1>2, <1>3, <1>4, SameHome DEF AfterCommit
<1> QED  BY <1>1, <1>5 DEF Serial!Unchanging, Serial!GetOrCreateUser, SerialHome, Serial!tables, tables

LEMMA HomeCommits ==
    ASSUME SerialInv, NEW r \in Req, NEW q, q = req[r], SetHome(r)
    PROVE  q.user \in User /\ Serial!HomeStep(q.user)
<1>1. RequestsInv /\ OneEach /\ Knows(q) /\ q.at = "list_items" /\ q.cards = {}
      /\ home' = [home EXCEPT ![q.user] = q.view] /\ Finish(r) /\ UNCHANGED <<users, tables>>
      /\ req = [x \in Req |-> req[x]]
  BY DEF SerialInv, RequestsInv, RequestsTyped, SetHome, At
<1>2. TablesTyped /\ q.kind = "get_home"
  BY <1>1, AtStatement DEF Unfound, Statement
<1>3. PICK u : u = q.user /\ u \in User /\ u \in users
  BY <1>1, AtStatement DEF Unfound
<1>4. q.view = HomeView(u)
  <2>1. ReadOf(q) = ItemsOf(u)
    BY <1>1, <1>3 DEF ReadOf
  <2> QED  BY <1>1, <1>3, <2>1 DEF Knows, KnowsHome, HomeView
<1>5. home[u] = NoHome
  BY <1>1, <1>2, <1>3 DEF Knows, KnowsHome
<1>6. Others(r) /\ req'[r].at = "idle"
  BY <1>1 DEF Finish, Others, Idle
<1>7. \A v \in User : Writing(v)' <=> Writing(v)
  BY <1>1, <1>6 DEF Writing, Others
<1>8. ~Writing(u)
  BY <1>1, <1>3 DEF Writing, OneEach
<1>9. home' = [home EXCEPT ![u] = HomeView(u)] /\ home = [v \in User |-> home[v]]
  BY <1>1, <1>2, <1>3, <1>4 DEF TablesTyped
<1>10. SerialHome' = [SerialHome EXCEPT ![u] = HomeView(u)]
  <2>1. \A v \in User : SerialHome'[v] = IF v = u THEN HomeView(u) ELSE SerialHome[v]
    BY <1>3, <1>7, <1>8, <1>9 DEF SerialHome
  <2>2. SerialHome' = [v \in User |-> SerialHome'[v]] /\ SerialHome = [v \in User |-> SerialHome[v]]
    BY DEF SerialHome
  <2> HIDE DEF SerialHome
  <2> QED  BY <1>3, <2>1, <2>2
<1>11. SerialHome[u] = NoHome
  BY <1>3, <1>5 DEF SerialHome
<1>12. Serial!FillHome(u)
  BY <1>1, <1>3, <1>10, <1>11, SameQueries
  DEF Serial!FillHome, Serial!GetOrCreateUser, SerialHome, Serial!tables, tables
<1> QED  BY <1>3, <1>12 DEF Serial!HomeStep

LEMMA ExpiryCommits ==
    ASSUME SerialInv, NEW u \in User, ExpireHome(u)
    PROVE  \/ Serial!HomeStep(u)
           \/ UNCHANGED <<users, tables>> /\ SerialHome' = SerialHome
<1>1. TablesTyped /\ home[u] # NoHome /\ home' = [home EXCEPT ![u] = NoHome]
      /\ UNCHANGED <<users, tables, req>>
  BY InvTypes DEF SerialInv, ExpireHome
<1>2. \A v : Writing(v)' <=> Writing(v)
  BY <1>1 DEF Writing
<1>3. home = [v \in User |-> home[v]]
  BY <1>1 DEF TablesTyped
<1>4. \A v \in User : SerialHome'[v] = IF v = u THEN NoHome ELSE SerialHome[v]
  BY <1>1, <1>2, <1>3 DEF SerialHome
<1>5. SerialHome' = [v \in User |-> SerialHome'[v]] /\ SerialHome = [v \in User |-> SerialHome[v]]
  BY DEF SerialHome
<1>6. SerialHome' = [SerialHome EXCEPT ![u] = NoHome]
  <2> HIDE DEF SerialHome
  <2> QED  BY <1>4, <1>5
<1>7. CASE Writing(u)
  <2>1. SerialHome[u] = NoHome
    BY <1>7 DEF SerialHome
  <2>2. SerialHome' = SerialHome
    <3> HIDE DEF SerialHome
    <3> QED  BY <1>4, <1>5, <2>1
  <2> QED  BY <1>1, <2>2
<1>8. CASE ~Writing(u)
  <2>1. SerialHome[u] # NoHome
    BY <1>1, <1>8 DEF SerialHome
  <2>2. Serial!ExpireHome(u)
    BY <1>1, <1>6, <2>1 DEF Serial!ExpireHome, SerialHome, Serial!tables, tables
  <2> QED  BY <2>2 DEF Serial!HomeStep
<1> QED  BY <1>7, <1>8

\* What the serial machine does at a step of the server.
SerialStutter == UNCHANGED <<users, tables>> /\ SerialHome' = SerialHome
SerialMove ==
    \/ \E u \in User : \/ Serial!Unchanging(u) \/ Serial!CardCall(u) \/ Serial!ItemCall(u)
                       \/ Serial!AliasCall(u) \/ Serial!HomeStep(u)
    \/ SerialStutter

LEMMA BeginStutters ==
    ASSUME SerialInv, NEW r \in Req, NEW u \in User, NEW call \in Calls, Begin(r, u, call)
    PROVE  SerialStutter
<1>1. PICK label : label = IF call.kind = "get_home" THEN "get_home" ELSE "user"
  OBVIOUS
<1>2. PICK q, p : q = req[r] /\ p = Merge(call, [Idle EXCEPT !.user = u, !.at = label])
  OBVIOUS
<1>3. /\ req' = [req EXCEPT ![r] = Merge(call, [Idle EXCEPT !.user = u, !.at = label])]
      /\ q.at = "idle" /\ UNCHANGED <<users, tables, home>>
  BY <1>1, <1>2 DEF Begin, Reads, At
<1>4. req = [x \in Req |-> req[x]]
  BY DEF SerialInv, RequestsInv, RequestsTyped
<1>5. p = req'[r] /\ Others(r)
  BY <1>2, <1>3, <1>4 DEF Others
<1>6. p.at = label
  <2> DEFINE idle == [Idle EXCEPT !.user = u, !.at = label]
  <2>1. "at" \notin DOMAIN call /\ "at" \in DOMAIN idle /\ idle.at = label
    BY DEF Calls, Idle
  <2> QED  BY <1>2, <2>1 DEF Merge
<1>7. q.at \notin AfterCommit /\ p.at \notin AfterCommit
  BY <1>1, <1>3, <1>6 DEF AfterCommit
<1>8. SerialHome' = SerialHome
  BY <1>2, <1>3, <1>5, <1>7, SameHome
<1> QED  BY <1>3, <1>8 DEF SerialStutter

LEMMA StepMoves ==
    ASSUME SerialInv, Waiting, NEW r \in Req, Step(r)
    PROVE  SerialMove
<1>1. PICK q : q = req[r]
  OBVIOUS
<1>2. CASE Quiet(r) \/ RereadGroup(r) \/ InvalidateHome(r)
  BY <1>2, QuietStutters DEF SerialMove, SerialStutter
<1>3. CASE InsertGroup(r) \/ DeleteGroup(r) \/ UpdateGroup(r)
  BY <1>1, <1>3, CardCommits, UpdateCommits DEF SerialMove, SerialStutter
<1>4. CASE InsertItem(r) \/ InsertCard(r) \/ SetOrders(r) \/ CommitItem(r) \/ DeleteEmptyCard(r)
  BY <1>1, <1>4, InsertItemCommits, InsertCardCommits, ItemCommits DEF SerialMove, SerialStutter
<1>5. CASE CommitAlias(r) \/ InsertUser(r) \/ SetHome(r)
  BY <1>1, <1>5, AliasCommits, NewUserCommits, HomeCommits DEF SerialMove
<1> QED
  BY <1>2, <1>3, <1>4, <1>5
  DEF Step, CardStep, CreateStep, ItemStep, AliasStep, HomeStep, Quiet

LEMMA NextMoves ==
    ASSUME SerialInv, Waiting, [Next]_vars
    PROVE  [Serial!Next]_(Serial!vars)
<1>1. ASSUME NEW r \in Req, NEW u \in User, NEW call \in Calls, Begin(r, u, call) PROVE SerialMove
  BY <1>1, BeginStutters DEF SerialMove
<1>2. ASSUME NEW u \in User, ExpireHome(u) PROVE SerialMove
  BY <1>2, ExpiryCommits DEF SerialMove, SerialStutter
<1>3. ASSUME UNCHANGED vars PROVE SerialStutter
  <2>1. UNCHANGED <<users, tables, home, req>>
    BY <1>3 DEF vars, tables
  <2>2. \A v : Writing(v)' <=> Writing(v)
    BY <2>1 DEF Writing
  <2>3. SerialHome' = SerialHome
    BY <2>1, <2>2 DEF SerialHome
  <2> QED  BY <2>1, <2>3 DEF SerialStutter
<1>4. UNCHANGED vars => SerialMove
  BY <1>3 DEF SerialMove
<1>5. SerialMove
  <2> HIDE DEF SerialMove
  <2> QED  BY <1>1, <1>2, <1>4, StepMoves DEF Next, Waiting, Crash
<1>6. SerialStutter => UNCHANGED Serial!vars
  BY DEF SerialStutter, tables, Serial!vars, SerialHome
<1>7. CASE SerialStutter
  BY <1>6, <1>7
<1>8. CASE ~SerialStutter
  <2>1. Serial!Next
    BY <1>5, <1>8 DEF SerialMove, Serial!Next
  <2> QED  BY <2>1
<1> QED  BY <1>7, <1>8

LEMMA InitMaps ==
    ASSUME Init, Registered = {}
    PROVE  Serial!Init
<1>1. \A u \in User : ~Writing(u)
  BY DEF Init, Writing, Idle
<1> QED  BY <1>1 DEF Init, Serial!Init, EmptyTable, Serial!EmptyTable

\* Interleaved statement by statement, the favourites API does what its calls do
\* one after the other: each commit is one call, everything else shows nothing.
\* This holds of every number of devices and requests, as long as a device waits
\* for its answers (any two devices may interleave), Redis answers and the
\* server is not restarted between a commit and its invalidation; the tables
\* start empty because those of the serial machine do.  The configurations
\* MCDuplicate, MCStaleHome, MCLostFavorite, MCMixedCard and MCEmptyCard show what
\* happens to a device that does not wait.
THEOREM RequestsRefineCalls ==
    ASSUME OnePerUser, ~CacheFaults, ~Crashes, Registered = {}
    PROVE  Spec => ImplementsSerial
<1>1. Waiting
  BY DEF Waiting
<1>2. Init => Serial!Init
  BY InitMaps
<1>3. SerialInv /\ [Next]_vars => [Serial!Next]_(Serial!vars)
  BY <1>1, NextMoves
<1>4. Spec => []SerialInv
  BY <1>1, SerialInvariant
<1> QED  BY <1>2, <1>3, <1>4, PTL DEF Spec, ImplementsSerial, Serial!Spec

-----------------------------------------------------------------------------
(* What is proved of the serial machine holds of the interleaved one.       *)

Proved == INSTANCE FavoritesProofs WITH
            home <- [u \in User |-> IF Writing(u) THEN NoHome ELSE home[u]]

LEMMA SameNext == Serial!Next => Proved!Next
BY DEF Serial!EmptyTable, Proved!EmptyTable, Serial!Put, Proved!Put, Serial!Drop,
      Proved!Drop, Serial!Rename, Proved!Rename, Serial!Patch, Proved!Patch, Serial!GroupsOf,
      Proved!GroupsOf, Serial!ItemsIn, Proved!ItemsIn, Serial!ItemsOf, Proved!ItemsOf,
      Serial!CardsFor, Proved!CardsFor, Serial!FirstCards, Proved!FirstCards, Serial!FirstStops,
      Proved!FirstStops, Serial!ExplicitTargets, Proved!ExplicitTargets, Serial!FavoritesAt,
      Proved!FavoritesAt, Serial!LeavesCardEmpty, Proved!LeavesCardEmpty, Serial!DisplayName,
      Proved!DisplayName, Serial!IsNextOrder, Proved!IsNextOrder, Serial!HomeView,
      Proved!HomeView, Serial!Invalidate, Proved!Invalidate, Serial!Restrict, Proved!Restrict,
      Serial!GetOrCreateUser, Proved!GetOrCreateUser, Serial!Unchanging, Proved!Unchanging,
      Serial!CreateGroup, Proved!CreateGroup, Serial!SyncNameToAlias, Proved!SyncNameToAlias,
      Serial!UpdateGroup, Proved!UpdateGroup, Serial!Targets, Proved!Targets, Serial!AddItem,
      Proved!AddItem, Serial!CreateFavoriteOnCard, Proved!CreateFavoriteOnCard,
      Serial!CreateFavoriteOnNewCard, Proved!CreateFavoriteOnNewCard, Serial!ReorderFavorites,
      Proved!ReorderFavorites, Serial!DeleteGroup, Proved!DeleteGroup, Serial!DeleteFavorite,
      Proved!DeleteFavorite, Serial!UpsertAlias, Proved!UpsertAlias, Serial!DeleteAlias,
      Proved!DeleteAlias, Serial!FillHome, Proved!FillHome, Serial!ExpireHome, Proved!ExpireHome,
      Serial!CardCall, Proved!CardCall, Serial!ItemCall, Proved!ItemCall, Serial!AliasCall,
      Proved!AliasCall, Serial!HomeStep, Proved!HomeStep, Serial!Next, Proved!Next, Serial!tables,
      Proved!tables

LEMMA SameMachine == ImplementsSerial => Proved!Spec
<1>1. Serial!Init => Proved!Init
  BY DEF Serial!Init, Proved!Init, Serial!EmptyTable, Proved!EmptyTable
<1>2. [Serial!Next]_(Serial!vars) => [Proved!Next]_(Proved!vars)
  BY SameNext DEF Serial!vars, Proved!vars
<1> QED  BY <1>1, <1>2, PTL DEF ImplementsSerial, Serial!Spec, Proved!Spec

\* As long as no device has two calls in flight, no interleaving with other
\* devices makes a favourite twice or puts two stations on a card: the reads of
\* create_favorite are still true when it inserts, without a lock.
THEOREM RulesSurviveInterleaving ==
    ASSUME OnePerUser, ~CacheFaults, ~Crashes, Registered = {}
    PROVE  Spec => [](NoDuplicateFavorite /\ OneStopPerCard)
<1>1. Spec => Proved!Spec
  BY RequestsRefineCalls, SameMachine
<1>2. Proved!Spec => [](Proved!ForeignKeys /\ Proved!NoDuplicateFavorite /\ Proved!OneStopPerCard)
  BY Proved!FavoritesSafe, DescriptionAssumption, EmptyNameAssumption, OrderAssumption,
     NoValueAssumption, PTL
<1>3. Proved!NoDuplicateFavorite /\ Proved!OneStopPerCard => NoDuplicateFavorite /\ OneStopPerCard
  BY DEF Proved!NoDuplicateFavorite, Proved!OneStopPerCard, NoDuplicateFavorite, OneStopPerCard
<1> QED  BY <1>1, <1>2, <1>3, PTL

\* A card that had favourites and is there still has some: the count of
\* delete_favorite is still true when it commits.
THEOREM CardsStayFilled ==
    ASSUME OnePerUser, ~CacheFaults, ~Crashes, Registered = {}
    PROVE  Spec => CardsAreNeverEmptied
<1>1. Spec => Proved!Spec
  BY RequestsRefineCalls, SameMachine
<1>2. Proved!Spec => Proved!CardsAreNeverEmptied
  BY Proved!NeverEmptied, DescriptionAssumption, EmptyNameAssumption, OrderAssumption,
     NoValueAssumption, PTL
<1>3. ASSUME [\A g \in DOMAIN groups \cap DOMAIN groups' :
                Proved!ItemsIn(g) # {} => \E i \in DOMAIN items' : items'[i].group = g]_(Proved!vars)
      PROVE  [\A g \in DOMAIN groups \cap DOMAIN groups' :
                ItemsIn(g) # {} => \E i \in DOMAIN items' : items'[i].group = g]_vars
  BY <1>3 DEF Proved!ItemsIn, Proved!vars, ItemsIn
<1> QED  BY <1>1, <1>2, <1>3, PTL DEF Proved!CardsAreNeverEmptied, CardsAreNeverEmptied

\* With no call of a device in flight, its cached payload shows its rows,
\* whatever other devices do meanwhile.
THEOREM HomeIsFreshAtRest ==
    ASSUME OnePerUser, ~CacheFaults, ~Crashes, Registered = {}
    PROVE  Spec => []HomeFreshAtRest
<1>1. Spec => Proved!Spec
  BY RequestsRefineCalls, SameMachine
<1>2. Proved!Spec => []Proved!HomeCacheCoherent
  BY Proved!HomeCoherent, DescriptionAssumption, EmptyNameAssumption, OrderAssumption,
     NoValueAssumption, PTL
<1>3. ASSUME Proved!HomeCacheCoherent PROVE HomeFreshAtRest
  <2>1. SUFFICES ASSUME NEW u \in User, home[u] # NoHome, \A r \in Req : req[r].user # u
                 PROVE  home[u] = HomeView(u)
    BY DEF HomeFreshAtRest
  <2>2. SerialHome[u] = home[u]
    BY <2>1 DEF SerialHome, Writing
  <2>3. Proved!HomeView(u) = HomeView(u)
    BY DEF Proved!HomeView, Proved!GroupsOf, Proved!ItemsOf, Proved!DisplayName, Proved!Restrict,
           HomeView, GroupsOf, ItemsOf, DisplayName, Restrict
  <2> QED  BY <1>3, <2>1, <2>2, <2>3 DEF Proved!HomeCacheCoherent, SerialHome
<1> QED  BY <1>1, <1>2, <1>3, PTL

\* delete_favorite of a card's last favourite takes no other with it: none has
\* been added since the count.  The run lost_favorite shows that a device with
\* two calls in flight may lose one.
THEOREM OnlyTheNamedFavoriteGoes ==
    ASSUME OnePerUser, ~CacheFaults, ~Crashes
    PROVE  Spec => DeletesOnlyItsItem
<1>1. ASSUME SerialInv, NEW r \in Req, At(r, "delete_empty_card"), DeleteEmptyCard(r)
      PROVE  DOMAIN items \ DOMAIN items' \subseteq {req[r].item}
  <2>1. PICK q : q = req[r] /\ Knows(q)
    BY <1>1 DEF SerialInv
  <2>2. req[r].held \cup ItemsIn(req[r].group) = {req[r].item}
    BY <1>1, <2>1 DEF Knows, KnowsItem, At
  <2>3. items' = Drop(items, {req[r].item})
    BY <1>1, <2>2 DEF DeleteEmptyCard
  <2> QED  BY <2>3 DEF Drop, Restrict
<1>2. Spec => []SerialInv
  BY SerialInvariant DEF Waiting
<1>3. SerialInv => [\A r \in Req : At(r, "delete_empty_card") /\ DeleteEmptyCard(r)
                      => DOMAIN items \ DOMAIN items' \subseteq {req[r].item}]_vars
  BY <1>1
<1> QED  BY <1>2, <1>3, PTL DEF DeletesOnlyItsItem
=============================================================================
