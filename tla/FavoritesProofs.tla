-------------------------- MODULE FavoritesProofs --------------------------
(***************************************************************************)
(* Proofs about Favorites, for every set of users, ids, stations, services *)
(* and names.                                                              *)
(***************************************************************************)
EXTENDS Favorites, TLAPS

USE DescriptionAssumption, EmptyNameAssumption, OrderAssumption, NoValueAssumption

\* A write of a well-typed row under a well-typed key leaves a table well typed.
LEMMA PutType ==
    ASSUME NEW Key, NEW Row, NEW table, DOMAIN table \subseteq Key,
           table \in [DOMAIN table -> Row], NEW k \in Key, NEW row \in Row
    PROVE  /\ DOMAIN Put(table, k, row) \subseteq Key
           /\ Put(table, k, row) \in [DOMAIN Put(table, k, row) -> Row]
BY DEF Put

\* Dropping rows leaves a table well typed.
LEMMA DropType ==
    ASSUME NEW Key, NEW Row, NEW table, DOMAIN table \subseteq Key,
           table \in [DOMAIN table -> Row], NEW keys
    PROVE  /\ DOMAIN Drop(table, keys) \subseteq Key
           /\ Drop(table, keys) \in [DOMAIN Drop(table, keys) -> Row]
BY DEF Drop, Restrict

\* A display name is a name.
LEMMA DisplayNameType ==
    ASSUME TypeOK, NEW u \in User, NEW s \in Stop
    PROVE  DisplayName(u, s) \in Name
BY DEF TypeOK, DisplayName

\* Renaming cards keeps the cards and their types.
LEMMA RenameType ==
    ASSUME TypeOK, NEW cards, NEW name \in Name
    PROVE  /\ DOMAIN Rename(cards, name) = DOMAIN groups
           /\ Rename(cards, name) \in [DOMAIN groups -> GroupRow]
BY DEF TypeOK, Rename, GroupRow

\* A patch keeps a row's type and owner.
LEMMA PatchType ==
    ASSUME NEW row \in GroupRow,
           NEW name \in Name \cup {NoValue}, NEW order \in Order \cup {NoValue}
    PROVE  Patch(row, name, order) \in GroupRow /\ Patch(row, name, order).user = row.user
BY DEF Patch, GroupRow

\* Every variable keeps its type: ids stay within their pools, rows are
\* complete, and the cache has one entry per device.
THEOREM TypeCorrect == Spec => []TypeOK
<1>1. Init => TypeOK
  BY DEF Init, TypeOK, EmptyTable, GroupRow, ItemRow
<1>2. TypeOK /\ [Next]_vars => TypeOK'
  <2> SUFFICES ASSUME TypeOK, [Next]_vars PROVE TypeOK'
    OBVIOUS
  <2>0. \A u \in User : Invalidate(u) = [v \in User |-> Invalidate(u)[v]]
    BY DEF TypeOK, Invalidate
  <2>1. CASE UNCHANGED vars
    BY <2>1 DEF vars, TypeOK
  <2>2. ASSUME NEW u \in User, Unchanging(u) PROVE TypeOK'
    BY <2>2 DEF Unchanging, GetOrCreateUser, tables, TypeOK
  <2>3. ASSUME NEW u \in User, CardCall(u) PROVE TypeOK'
    <3>1. ASSUME NEW g \in GroupId, NEW name \in Name, NEW order \in Order,
                 CreateGroup(u, g, name, order)
          PROVE  TypeOK'
      <4>1. PICK row \in GroupRow : groups' = Put(groups, g, row)
        <5>1. [user |-> u, name |-> name, order |-> order] \in GroupRow
          BY DEF GroupRow
        <5> QED BY <3>1, <5>1 DEF CreateGroup
      <4>2. DOMAIN groups' \subseteq GroupId /\ groups' \in [DOMAIN groups' -> GroupRow]
        BY <4>1, PutType DEF TypeOK
      <4> QED BY <2>0, <3>1, <4>2 DEF CreateGroup, GetOrCreateUser, TypeOK
    <3>2. ASSUME NEW g \in GroupId, NEW name \in Name \cup {NoValue},
                 NEW order \in Order \cup {NoValue}, NEW emoji \in BOOLEAN,
                 UpdateGroup(u, g, name, order, emoji)
          PROVE  TypeOK'
      <4>1. groups' \in [DOMAIN groups -> GroupRow] /\ DOMAIN groups' = DOMAIN groups
        BY <3>2, PatchType DEF UpdateGroup, GroupsOf, TypeOK
      <4>2. DOMAIN aliases' \subseteq User \X Stop /\ aliases' \in [DOMAIN aliases' -> Name]
        <5>1. CASE UNCHANGED aliases
          BY <5>1 DEF TypeOK
        <5>2. ASSUME name # NoValue, NEW i \in ItemsIn(g),
                     aliases' = Put(aliases, <<u, items[i].stop>>, name)
              PROVE  DOMAIN aliases' \subseteq User \X Stop /\ aliases' \in [DOMAIN aliases' -> Name]
          <6>1. <<u, items[i].stop>> \in User \X Stop
            BY DEF ItemsIn, TypeOK, ItemRow
          <6> QED BY <5>2, <6>1, PutType DEF TypeOK
        <5> QED BY <3>2, <5>1, <5>2 DEF UpdateGroup, SyncNameToAlias
      <4> QED BY <2>0, <3>2, <4>1, <4>2 DEF UpdateGroup, GetOrCreateUser, TypeOK
    <3>3. ASSUME NEW g \in GroupId, DeleteGroup(u, g) PROVE TypeOK'
      BY <2>0, <3>3, DropType DEF DeleteGroup, GetOrCreateUser, TypeOK
    <3> QED BY <2>3, <3>1, <3>2, <3>3 DEF CardCall
  <2>4. ASSUME NEW u \in User, ItemCall(u) PROVE TypeOK'
    <3>1. ASSUME NEW given \in GroupId \cup {NoValue}, NEW s \in Stop, NEW v \in Service,
                 NEW i \in ItemId, CreateFavoriteOnCard(u, given, s, v, i)
          PROVE  TypeOK'
      <4>1. Targets(u, given, s) \subseteq GroupId
        BY <3>1 DEF CreateFavoriteOnCard, Targets, ExplicitTargets, FirstCards, ItemsOf,
              GroupsOf, TypeOK, ItemRow
      <4>2. PICK g \in GroupId, n \in Order : AddItem(i, g, s, v, n)
        BY <3>1, <4>1 DEF CreateFavoriteOnCard
      <4>3. PICK row \in ItemRow : items' = Put(items, i, row)
        <5>1. [group |-> g, stop |-> s, service |-> v, order |-> n] \in ItemRow
          BY DEF ItemRow
        <5> QED BY <4>2, <5>1 DEF AddItem
      <4>4. DOMAIN items' \subseteq ItemId /\ items' \in [DOMAIN items' -> ItemRow]
        BY <4>3, PutType DEF TypeOK
      <4> QED BY <2>0, <3>1, <4>4 DEF CreateFavoriteOnCard, GetOrCreateUser, TypeOK
    <3>2. ASSUME NEW given \in GroupId \cup {NoValue}, NEW s \in Stop, NEW v \in Service,
                 NEW i \in ItemId, NEW g \in GroupId,
                 CreateFavoriteOnNewCard(u, given, s, v, g, i)
          PROVE  TypeOK'
      <4>1. PICK card \in GroupRow : groups' = Put(groups, g, card)
        <5>1. PICK n \in Order : groups' = Put(groups, g,
                  [user |-> u, name |-> DisplayName(u, s), order |-> n])
          BY <3>2 DEF CreateFavoriteOnNewCard
        <5>2. [user |-> u, name |-> DisplayName(u, s), order |-> n] \in GroupRow
          BY DisplayNameType DEF GroupRow
        <5> QED BY <5>1, <5>2
      <4>3. PICK row \in ItemRow : items' = Put(items, i, row)
        <5>1. [group |-> g, stop |-> s, service |-> v, order |-> 0] \in ItemRow
          BY DEF ItemRow
        <5> QED BY <3>2, <5>1 DEF CreateFavoriteOnNewCard, AddItem
      <4>4. DOMAIN groups' \subseteq GroupId /\ groups' \in [DOMAIN groups' -> GroupRow]
        BY <4>1, PutType DEF TypeOK
      <4>5. DOMAIN items' \subseteq ItemId /\ items' \in [DOMAIN items' -> ItemRow]
        BY <4>3, PutType DEF TypeOK
      <4> QED BY <2>0, <3>2, <4>4, <4>5 DEF CreateFavoriteOnNewCard, GetOrCreateUser, TypeOK
    <3>3. ASSUME NEW S \in SUBSET ItemId, NEW newOrder \in [S -> Order],
                 ReorderFavorites(u, newOrder)
          PROVE  TypeOK'
      BY <2>0, <3>3 DEF ReorderFavorites, GetOrCreateUser, TypeOK, ItemRow
    <3>4. ASSUME NEW i \in ItemId, DeleteFavorite(u, i) PROVE TypeOK'
      BY <2>0, <3>4, DropType DEF DeleteFavorite, GetOrCreateUser, TypeOK
    <3> QED BY <2>4, <3>1, <3>2, <3>3, <3>4 DEF ItemCall
  <2>5. ASSUME NEW u \in User, AliasCall(u) PROVE TypeOK'
    <3>1. ASSUME NEW s \in Stop, NEW name \in Name, UpsertAlias(u, s, name) PROVE TypeOK'
      <4>1. DOMAIN aliases' \subseteq User \X Stop /\ aliases' \in [DOMAIN aliases' -> Name]
        <5>1. <<u, s>> \in User \X Stop
          OBVIOUS
        <5> QED BY <3>1, <5>1, PutType DEF UpsertAlias, TypeOK
      <4>2. DOMAIN groups' \subseteq GroupId /\ groups' \in [DOMAIN groups' -> GroupRow]
        BY <3>1, RenameType DEF UpsertAlias, TypeOK
      <4> QED BY <2>0, <3>1, <4>1, <4>2 DEF UpsertAlias, GetOrCreateUser, TypeOK
    <3>2. ASSUME NEW s \in Stop, DeleteAlias(u, s) PROVE TypeOK'
      <4>1. DOMAIN aliases' \subseteq User \X Stop /\ aliases' \in [DOMAIN aliases' -> Name]
        BY <3>2, DropType DEF DeleteAlias, TypeOK
      <4>2. DOMAIN groups' \subseteq GroupId /\ groups' \in [DOMAIN groups' -> GroupRow]
        <5>1. Description[s] \in Name
          BY DescriptionAssumption
        <5> QED BY <3>2, <5>1, RenameType DEF DeleteAlias, TypeOK
      <4> QED BY <2>0, <3>2, <4>1, <4>2 DEF DeleteAlias, GetOrCreateUser, TypeOK
    <3> QED BY <2>5, <3>1, <3>2 DEF AliasCall
  <2>6. ASSUME NEW u \in User, HomeStep(u) PROVE TypeOK'
    <3>1. home' = [v \in User |-> home'[v]]
      BY <2>6 DEF HomeStep, FillHome, ExpireHome, TypeOK
    <3> QED BY <2>6, <3>1 DEF HomeStep, FillHome, ExpireHome, GetOrCreateUser, tables, TypeOK
  <2> QED BY <2>1, <2>2, <2>3, <2>4, <2>5, <2>6 DEF Next
<1> QED BY <1>1, <1>2, PTL DEF Spec

-----------------------------------------------------------------------------
(* The favourites invariant.  NoDuplicateFavorite compares the owners of    *)
(* cards and so needs ForeignKeys; OneStopPerCard is what makes the first   *)
(* item of a card (FirstStops, FirstCards) speak for all of its items, and  *)
(* so is needed for itself.                                                *)

FavoritesInv == TypeOK /\ ForeignKeys /\ NoDuplicateFavorite /\ OneStopPerCard

\* Items that are deleted, or keep their card, station and service, on cards
\* that keep their owners, cannot break the two uniqueness rules.
LEMMA KeptItems ==
    ASSUME NoDuplicateFavorite, OneStopPerCard,
           DOMAIN items' \subseteq DOMAIN items,
           \A i \in DOMAIN items' : /\ items'[i].group = items[i].group
                                    /\ items'[i].stop = items[i].stop
                                    /\ items'[i].service = items[i].service
                                    /\ groups'[items[i].group].user = groups[items[i].group].user
    PROVE  NoDuplicateFavorite' /\ OneStopPerCard'
BY DEF NoDuplicateFavorite, OneStopPerCard

\* A new favourite the user does not have yet, on a card of that user that is
\* empty or the station's, keeps the rules.
LEMMA NewItem ==
    ASSUME TypeOK, ForeignKeys, NoDuplicateFavorite, OneStopPerCard,
           NEW u, NEW s, NEW v, NEW g, NEW i, NEW n,
           i \notin DOMAIN items,
           AddItem(i, g, s, v, n),
           FavoritesAt(u, s, v) = {},
           \A j \in ItemsIn(g) : items[j].stop = s,
           \A h \in DOMAIN groups : h \in DOMAIN groups' /\ groups'[h].user = groups[h].user,
           g \in DOMAIN groups', groups'[g].user = u
    PROVE  /\ NoDuplicateFavorite'
           /\ OneStopPerCard'
           /\ \A j \in DOMAIN items' : items'[j].group \in DOMAIN groups'
<1> DEFINE row == [group |-> g, stop |-> s, service |-> v, order |-> n]
<1>1. /\ DOMAIN items' = DOMAIN items \cup {i}
      /\ \A j \in DOMAIN items : items'[j] = items[j]
      /\ items'[i] = row
  BY DEF AddItem, Put
<1>2. /\ items'[i].group = g
      /\ items'[i].stop = s
      /\ items'[i].service = v
  BY <1>1
<1>3. \A j \in DOMAIN items : items[j].group \in DOMAIN groups
  BY DEF ForeignKeys
<1>4. \A j \in DOMAIN items :
        ~ (groups[items[j].group].user = u /\ items[j].stop = s /\ items[j].service = v)
  BY <1>3 DEF FavoritesAt, ItemsOf, GroupsOf
<1>5. \A j \in DOMAIN items : items[j].group = g => items[j].stop = s
  BY DEF ItemsIn
<1> HIDE DEF row
<1>6. OneStopPerCard'
  BY <1>1, <1>2, <1>5 DEF OneStopPerCard
<1>7. NoDuplicateFavorite'
  <2> SUFFICES ASSUME NEW j \in DOMAIN items', NEW k \in DOMAIN items',
                      groups'[items'[j].group].user = groups'[items'[k].group].user,
                      items'[j].stop = items'[k].stop,
                      items'[j].service = items'[k].service
               PROVE  j = k
    BY DEF NoDuplicateFavorite
  <2>1. CASE j # i /\ k # i
    BY <2>1, <1>1, <1>3 DEF NoDuplicateFavorite
  <2>2. CASE j = i /\ k # i
    BY <2>2, <1>1, <1>2, <1>3, <1>4
  <2>3. CASE j # i /\ k = i
    BY <2>3, <1>1, <1>2, <1>3, <1>4
  <2> QED BY <2>1, <2>2, <2>3
<1>8. \A j \in DOMAIN items' : items'[j].group \in DOMAIN groups'
  BY <1>1, <1>2, <1>3
<1> QED BY <1>6, <1>7, <1>8

\* A card create_favorite may add to is the user's and holds no other station.
LEMMA TargetsFit ==
    ASSUME TypeOK, ForeignKeys, OneStopPerCard,
           NEW u \in User, NEW s \in Stop, NEW given \in GroupsOf(u) \cup {NoValue},
           NEW g \in Targets(u, given, s)
    PROVE  /\ g \in GroupsOf(u)
           /\ \A j \in ItemsIn(g) : items[j].stop = s
<1>1. NoValue \notin GroupsOf(u)
  BY DEF GroupsOf, TypeOK
<1>2. PICK t \in ExplicitTargets(given, s) :
        g \in (IF t = NoValue THEN FirstCards(u, s) ELSE {t})
  BY DEF Targets
<1>3. CASE t = NoValue
  <2>1. PICK k \in ItemsOf(u) : items[k].stop = s /\ items[k].group = g
    BY <1>2, <1>3 DEF FirstCards
  <2> QED BY <2>1 DEF ItemsOf, ItemsIn, OneStopPerCard
<1>4. CASE t # NoValue
  <2>1. g = t /\ g = given /\ given # NoValue
    BY <1>2, <1>4 DEF ExplicitTargets
  <2>2. ItemsIn(g) = {} \/ \E k \in ItemsIn(g) : items[k].stop = s
    BY <1>2, <1>4, <2>1 DEF ExplicitTargets, FirstStops
  <2> QED BY <2>1, <2>2 DEF ItemsIn, OneStopPerCard
<1> QED BY <1>3, <1>4

\* The tables never hold an item without its card or a row of a device that
\* was never registered, a favourite twice, or a card of two stations.
THEOREM FavoritesSafe == Spec => [](ForeignKeys /\ NoDuplicateFavorite /\ OneStopPerCard)
<1>1. Init => FavoritesInv
  BY DEF Init, FavoritesInv, TypeOK, ForeignKeys, NoDuplicateFavorite, OneStopPerCard,
         EmptyTable, GroupRow, ItemRow
<1>2. FavoritesInv /\ TypeOK' /\ [Next]_vars => FavoritesInv'
  <2> SUFFICES ASSUME TypeOK, ForeignKeys, NoDuplicateFavorite, OneStopPerCard,
                      TypeOK', [Next]_vars
               PROVE  ForeignKeys' /\ NoDuplicateFavorite' /\ OneStopPerCard'
    BY DEF FavoritesInv
  <2> DEFINE Goal == ForeignKeys' /\ NoDuplicateFavorite' /\ OneStopPerCard'
  <2>1. ASSUME UNCHANGED tables, users \subseteq users' PROVE Goal
    BY <2>1 DEF tables, ForeignKeys, NoDuplicateFavorite, OneStopPerCard
  <2>2. ASSUME NEW u \in User, CardCall(u) PROVE Goal
    <3>1. ASSUME NEW g \in GroupId, NEW name \in Name, NEW order \in Order,
                 CreateGroup(u, g, name, order)
          PROVE  Goal
      <4>1. /\ DOMAIN groups' = DOMAIN groups \cup {g}
            /\ \A h \in DOMAIN groups : groups'[h] = groups[h]
            /\ groups'[g].user = u
        BY <3>1 DEF CreateGroup, Put
      <4>2. ForeignKeys'
        BY <3>1, <4>1 DEF CreateGroup, GetOrCreateUser, ForeignKeys
      <4>3. NoDuplicateFavorite' /\ OneStopPerCard'
        BY <3>1, <4>1, KeptItems DEF CreateGroup, ForeignKeys
      <4> QED BY <4>2, <4>3
    <3>2. ASSUME NEW g \in GroupId, NEW name \in Name \cup {NoValue},
                 NEW order \in Order \cup {NoValue}, NEW emoji \in BOOLEAN,
                 UpdateGroup(u, g, name, order, emoji)
          PROVE  Goal
      <4>1. /\ DOMAIN groups' = DOMAIN groups
            /\ \A h \in DOMAIN groups : groups'[h].user = groups[h].user
        <5>1. /\ groups' = [groups EXCEPT ![g] = Patch(@, name, order)]
              /\ g \in DOMAIN groups /\ groups[g] \in GroupRow
          BY <3>2 DEF UpdateGroup, GroupsOf, TypeOK
        <5>2. Patch(groups[g], name, order).user = groups[g].user
          BY <5>1, PatchType
        <5> QED BY <5>1, <5>2 DEF TypeOK
      <4>2. \A k \in DOMAIN aliases' : k \in DOMAIN aliases \/ k[1] = u
        <5>1. ASSUME NEW i, aliases' = Put(aliases, <<u, items[i].stop>>, name)
              PROVE  \A k \in DOMAIN aliases' : k \in DOMAIN aliases \/ k[1] = u
          BY <5>1 DEF Put
        <5> QED BY <3>2, <5>1 DEF UpdateGroup, SyncNameToAlias
      <4>3. ForeignKeys'
        BY <3>2, <4>1, <4>2 DEF UpdateGroup, GetOrCreateUser, ForeignKeys
      <4>4. NoDuplicateFavorite' /\ OneStopPerCard'
        BY <3>2, <4>1, KeptItems DEF UpdateGroup, ForeignKeys
      <4> QED BY <4>3, <4>4
    <3>3. ASSUME NEW g \in GroupId, DeleteGroup(u, g) PROVE Goal
      <4>1. /\ DOMAIN groups' = DOMAIN groups \ {g}
            /\ \A h \in DOMAIN groups' : groups'[h] = groups[h]
            /\ DOMAIN items' = DOMAIN items \ ItemsIn(g)
            /\ \A i \in DOMAIN items' : items'[i] = items[i] /\ items[i].group # g
        BY <3>3 DEF DeleteGroup, Drop, Restrict, ItemsIn
      <4>2. ForeignKeys'
        BY <3>3, <4>1 DEF DeleteGroup, GetOrCreateUser, ForeignKeys
      <4>3. NoDuplicateFavorite' /\ OneStopPerCard'
        BY <4>1, KeptItems DEF ForeignKeys
      <4> QED BY <4>2, <4>3
    <3> QED BY <2>2, <3>1, <3>2, <3>3 DEF CardCall
  <2>3. ASSUME NEW u \in User, ItemCall(u) PROVE Goal
    <3>1. ASSUME NEW given \in GroupId \cup {NoValue}, NEW s \in Stop, NEW v \in Service,
                 NEW i \in ItemId, CreateFavoriteOnCard(u, given, s, v, i)
          PROVE  Goal
      <4>1. PICK g \in Targets(u, given, s), n \in Order : AddItem(i, g, s, v, n)
        BY <3>1 DEF CreateFavoriteOnCard
      <4>2. g \in GroupsOf(u) /\ \A j \in ItemsIn(g) : items[j].stop = s
        BY <3>1, TargetsFit DEF CreateFavoriteOnCard
      <4>3. /\ NoDuplicateFavorite'
            /\ OneStopPerCard'
            /\ \A j \in DOMAIN items' : items'[j].group \in DOMAIN groups'
        BY <3>1, <4>1, <4>2, NewItem DEF CreateFavoriteOnCard, GroupsOf
      <4>4. ForeignKeys'
        BY <3>1, <4>3 DEF CreateFavoriteOnCard, GetOrCreateUser, ForeignKeys
      <4> QED BY <4>3, <4>4
    <3>2. ASSUME NEW given \in GroupId \cup {NoValue}, NEW s \in Stop, NEW v \in Service,
                 NEW i \in ItemId, NEW g \in GroupId,
                 CreateFavoriteOnNewCard(u, given, s, v, g, i)
          PROVE  Goal
      <4>1. /\ DOMAIN groups' = DOMAIN groups \cup {g}
            /\ \A h \in DOMAIN groups : groups'[h] = groups[h]
            /\ groups'[g].user = u
        BY <3>2 DEF CreateFavoriteOnNewCard, Put
      <4>2. ItemsIn(g) = {}
        BY <3>2 DEF CreateFavoriteOnNewCard, ItemsIn, ForeignKeys
      <4>3. /\ NoDuplicateFavorite'
            /\ OneStopPerCard'
            /\ \A j \in DOMAIN items' : items'[j].group \in DOMAIN groups'
        BY <3>2, <4>1, <4>2, NewItem DEF CreateFavoriteOnNewCard
      <4>4. ForeignKeys'
        BY <3>2, <4>1, <4>3 DEF CreateFavoriteOnNewCard, GetOrCreateUser, ForeignKeys
      <4> QED BY <4>3, <4>4
    <3>3. ASSUME NEW S \in SUBSET ItemId, NEW newOrder \in [S -> Order],
                 ReorderFavorites(u, newOrder)
          PROVE  Goal
      <4>1. /\ DOMAIN items' = DOMAIN items
            /\ \A i \in DOMAIN items : /\ items'[i].group = items[i].group
                                       /\ items'[i].stop = items[i].stop
                                       /\ items'[i].service = items[i].service
        BY <3>3 DEF ReorderFavorites, TypeOK, ItemRow
      <4>2. ForeignKeys'
        BY <3>3, <4>1 DEF ReorderFavorites, GetOrCreateUser, ForeignKeys
      <4>3. NoDuplicateFavorite' /\ OneStopPerCard'
        BY <3>3, <4>1, KeptItems DEF ReorderFavorites
      <4> QED BY <4>2, <4>3
    <3>4. ASSUME NEW i \in ItemId, DeleteFavorite(u, i) PROVE Goal
      <4>1. /\ DOMAIN items' = DOMAIN items \ {i}
            /\ \A j \in DOMAIN items' : items'[j] = items[j]
        BY <3>4 DEF DeleteFavorite, Drop, Restrict
      <4>2. /\ DOMAIN groups' \subseteq DOMAIN groups
            /\ \A g \in DOMAIN groups' : groups'[g] = groups[g]
        BY <3>4 DEF DeleteFavorite, Drop, Restrict
      <4>3. \A j \in DOMAIN items' : items[j].group \in DOMAIN groups'
        <5> SUFFICES ASSUME NEW j \in DOMAIN items' PROVE items[j].group \in DOMAIN groups'
          OBVIOUS
        <5>1. items[j].group \in DOMAIN groups /\ j # i /\ j \in DOMAIN items
          BY <4>1 DEF ForeignKeys
        <5>2. CASE LeavesCardEmpty(i)
          BY <3>4, <5>1, <5>2 DEF DeleteFavorite, LeavesCardEmpty, Drop, Restrict, ItemsIn
        <5>3. CASE ~LeavesCardEmpty(i)
          BY <3>4, <5>1, <5>3 DEF DeleteFavorite
        <5> QED BY <5>2, <5>3
      <4>4. ForeignKeys'
        BY <3>4, <4>1, <4>2, <4>3 DEF DeleteFavorite, GetOrCreateUser, ForeignKeys
      <4>5. NoDuplicateFavorite' /\ OneStopPerCard'
        BY <4>1, <4>2, <4>3, KeptItems
      <4> QED BY <4>4, <4>5
    <3> QED BY <2>3, <3>1, <3>2, <3>3, <3>4 DEF ItemCall
  <2>4. ASSUME NEW u \in User, AliasCall(u) PROVE Goal
    <3>1. /\ DOMAIN groups' = DOMAIN groups
          /\ \A g \in DOMAIN groups : groups'[g].user = groups[g].user
          /\ items' = items
      BY <2>4 DEF AliasCall, UpsertAlias, DeleteAlias, Rename, TypeOK, GroupRow
    <3>2. /\ users' = users \cup {u}
          /\ \A k \in DOMAIN aliases' : k \in DOMAIN aliases \/ k[1] = u
      BY <2>4 DEF AliasCall, UpsertAlias, DeleteAlias, GetOrCreateUser, Put, Drop, Restrict
    <3>3. ForeignKeys'
      BY <3>1, <3>2 DEF ForeignKeys
    <3>4. NoDuplicateFavorite' /\ OneStopPerCard'
      BY <3>1, KeptItems DEF ForeignKeys
    <3> QED BY <3>3, <3>4
  <2>5. ASSUME NEW u \in User, Unchanging(u) \/ HomeStep(u) PROVE Goal
    BY <2>1, <2>5 DEF Unchanging, HomeStep, FillHome, ExpireHome, GetOrCreateUser
  <2>6. CASE UNCHANGED vars
    BY <2>1, <2>6 DEF vars, tables
  <2> QED BY <2>2, <2>3, <2>4, <2>5, <2>6 DEF Next
<1>3. FavoritesInv => ForeignKeys /\ NoDuplicateFavorite /\ OneStopPerCard
  BY DEF FavoritesInv
<1> QED BY <1>1, <1>2, <1>3, TypeCorrect, PTL DEF Spec

-----------------------------------------------------------------------------
(* Isolation of users, and from it the coherence of the home cache: what a  *)
(* payload shows to one user depends on that user's rows only, and every    *)
(* call that changes them drops that user's payload.                        *)

\* A step leaves the rows of user v, and what is cached for v, as they are.
Untouched(v) ==
    /\ v \in users' <=> v \in users
    /\ home'[v] = home[v]
    /\ GroupsOf(v)' = GroupsOf(v)
    /\ \A g \in GroupsOf(v) : groups'[g] = groups[g]
    /\ ItemsOf(v)' = ItemsOf(v)
    /\ \A i \in ItemsOf(v) : items'[i] = items[i]
    /\ \A s : <<v, s>> \in DOMAIN aliases' <=> <<v, s>> \in DOMAIN aliases
    /\ \A s : <<v, s>> \in DOMAIN aliases => aliases'[<<v, s>>] = aliases[<<v, s>>]

\* A device is registered and a payload dropped for the caller only.
LEMMA CallerOnly ==
    ASSUME TypeOK, NEW u, NEW v \in User, v # u,
           GetOrCreateUser(u), home' \in {home, Invalidate(u)}
    PROVE  (v \in users' <=> v \in users) /\ home'[v] = home[v]
BY DEF TypeOK, GetOrCreateUser, Invalidate

\* Writing the alias of another user is not seen.
LEMMA AliasesOfOthers ==
    ASSUME NEW u, NEW v, v # u, NEW t, NEW name,
           aliases' \in {aliases, Put(aliases, <<u, t>>, name), Drop(aliases, {<<u, t>>})}
    PROVE  /\ \A s : <<v, s>> \in DOMAIN aliases' <=> <<v, s>> \in DOMAIN aliases
           /\ \A s : <<v, s>> \in DOMAIN aliases => aliases'[<<v, s>>] = aliases[<<v, s>>]
<1>1. \A s : <<v, s>> # <<u, t>>
  OBVIOUS
<1> QED BY <1>1 DEF Put, Drop, Restrict

\* Each call touches the rows of its caller only.
LEMMA CallsTouchTheirUser ==
    ASSUME TypeOK, ForeignKeys, OneStopPerCard, NEW u \in User, NEW v \in User, v # u,
           Unchanging(u) \/ CardCall(u) \/ ItemCall(u) \/ AliasCall(u) \/ HomeStep(u)
    PROVE  Untouched(v)
<1>1. CASE Unchanging(u)
  BY <1>1, CallerOnly DEF Unchanging, tables, Untouched, GroupsOf, ItemsOf
<1>2. CASE HomeStep(u)
  BY <1>2 DEF HomeStep, FillHome, ExpireHome, GetOrCreateUser, TypeOK, tables, Untouched,
              GroupsOf, ItemsOf
<1>3. CASE CardCall(u)
  <2>1. ASSUME NEW g \in GroupId, NEW name \in Name, NEW order \in Order,
               CreateGroup(u, g, name, order)
        PROVE  Untouched(v)
    <3>1. /\ DOMAIN groups' = DOMAIN groups \cup {g}
          /\ \A h \in DOMAIN groups : groups'[h] = groups[h]
          /\ groups'[g].user = u
          /\ g \notin DOMAIN groups
      BY <2>1 DEF CreateGroup, Put
    <3>2. GroupsOf(v)' = GroupsOf(v)
      BY <3>1 DEF GroupsOf
    <3> QED BY <2>1, <3>1, <3>2, CallerOnly DEF CreateGroup, Untouched, ItemsOf, GroupsOf
  <2>2. ASSUME NEW g \in GroupId, NEW name \in Name \cup {NoValue},
               NEW order \in Order \cup {NoValue}, NEW emoji \in BOOLEAN,
               UpdateGroup(u, g, name, order, emoji)
        PROVE  Untouched(v)
    <3>1. /\ groups' = [groups EXCEPT ![g] = Patch(@, name, order)]
          /\ g \in DOMAIN groups /\ groups[g] \in GroupRow /\ groups[g].user = u
      BY <2>2 DEF UpdateGroup, GroupsOf, TypeOK
    <3>2. Patch(groups[g], name, order).user = u
      BY <3>1, PatchType
    <3>3. /\ GroupsOf(v)' = GroupsOf(v)
          /\ \A h \in GroupsOf(v) : groups'[h] = groups[h]
      BY <3>1, <3>2 DEF GroupsOf, TypeOK
    <3>4. /\ \A s : <<v, s>> \in DOMAIN aliases' <=> <<v, s>> \in DOMAIN aliases
          /\ \A s : <<v, s>> \in DOMAIN aliases => aliases'[<<v, s>>] = aliases[<<v, s>>]
      <4>1. PICK t : aliases' \in {aliases, Put(aliases, <<u, t>>, name)}
        BY <2>2 DEF UpdateGroup, SyncNameToAlias
      <4>2. aliases' \in {aliases, Put(aliases, <<u, t>>, name), Drop(aliases, {<<u, t>>})}
        BY <4>1
      <4> QED BY <4>2, AliasesOfOthers
    <3> QED BY <2>2, <3>3, <3>4, CallerOnly DEF UpdateGroup, Untouched, ItemsOf
  <2>3. ASSUME NEW g \in GroupId, DeleteGroup(u, g) PROVE Untouched(v)
    <3>1. /\ DOMAIN groups' = DOMAIN groups \ {g}
          /\ \A h \in DOMAIN groups' : groups'[h] = groups[h]
          /\ DOMAIN items' = DOMAIN items \ ItemsIn(g)
          /\ \A i \in DOMAIN items' : items'[i] = items[i]
          /\ g \in GroupsOf(u)
      BY <2>3 DEF DeleteGroup, Drop, Restrict
    <3>2. /\ GroupsOf(v)' = GroupsOf(v)
          /\ \A h \in GroupsOf(v) : groups'[h] = groups[h]
          /\ g \notin GroupsOf(v)
      BY <3>1 DEF GroupsOf
    <3>3. ItemsOf(v)' = ItemsOf(v) /\ \A i \in ItemsOf(v) : items'[i] = items[i]
      BY <3>1, <3>2 DEF ItemsOf, ItemsIn
    <3> QED BY <2>3, <3>2, <3>3, CallerOnly DEF DeleteGroup, Untouched
  <2> QED BY <1>3, <2>1, <2>2, <2>3 DEF CardCall
<1>4. CASE ItemCall(u)
  <2>1. ASSUME NEW given \in GroupId \cup {NoValue}, NEW s \in Stop, NEW w \in Service,
               NEW i \in ItemId, CreateFavoriteOnCard(u, given, s, w, i)
        PROVE  Untouched(v)
    <3>1. PICK g \in Targets(u, given, s), n \in Order : AddItem(i, g, s, w, n)
      BY <2>1 DEF CreateFavoriteOnCard
    <3>2. g \in GroupsOf(u)
      BY <2>1, TargetsFit DEF CreateFavoriteOnCard
    <3>3. /\ DOMAIN items' = DOMAIN items \cup {i}
          /\ \A j \in DOMAIN items : items'[j] = items[j]
          /\ items'[i].group = g
          /\ i \notin DOMAIN items
      BY <2>1, <3>1 DEF CreateFavoriteOnCard, AddItem, Put
    <3>4. groups' = groups /\ GroupsOf(v)' = GroupsOf(v) /\ g \notin GroupsOf(v)
      BY <2>1, <3>2 DEF CreateFavoriteOnCard, GroupsOf
    <3>5. ItemsOf(v)' = ItemsOf(v) /\ \A j \in ItemsOf(v) : items'[j] = items[j]
      BY <3>3, <3>4 DEF ItemsOf
    <3> QED BY <2>1, <3>4, <3>5, CallerOnly DEF CreateFavoriteOnCard, Untouched
  <2>2. ASSUME NEW given \in GroupId \cup {NoValue}, NEW s \in Stop, NEW w \in Service,
               NEW i \in ItemId, NEW g \in GroupId,
               CreateFavoriteOnNewCard(u, given, s, w, g, i)
        PROVE  Untouched(v)
    <3>1. /\ DOMAIN groups' = DOMAIN groups \cup {g}
          /\ \A h \in DOMAIN groups : groups'[h] = groups[h]
          /\ groups'[g].user = u
          /\ g \notin DOMAIN groups
      BY <2>2 DEF CreateFavoriteOnNewCard, Put
    <3>2. /\ DOMAIN items' = DOMAIN items \cup {i}
          /\ \A j \in DOMAIN items : items'[j] = items[j]
          /\ items'[i].group = g
          /\ i \notin DOMAIN items
      BY <2>2 DEF CreateFavoriteOnNewCard, AddItem, Put
    <3>3. /\ GroupsOf(v)' = GroupsOf(v)
          /\ \A h \in GroupsOf(v) : groups'[h] = groups[h]
          /\ g \notin GroupsOf(v)
      BY <3>1 DEF GroupsOf
    <3>4. ItemsOf(v)' = ItemsOf(v) /\ \A j \in ItemsOf(v) : items'[j] = items[j]
      BY <3>2, <3>3 DEF ItemsOf
    <3> QED BY <2>2, <3>3, <3>4, CallerOnly DEF CreateFavoriteOnNewCard, Untouched
  <2>3. ASSUME NEW S \in SUBSET ItemId, NEW newOrder \in [S -> Order],
               ReorderFavorites(u, newOrder)
        PROVE  Untouched(v)
    <3>1. /\ DOMAIN items' = DOMAIN items
          /\ \A i \in DOMAIN items : items'[i].group = items[i].group
          /\ \A i \in DOMAIN items : i \in ItemsOf(u) \/ items'[i] = items[i]
          /\ groups' = groups
      BY <2>3 DEF ReorderFavorites, TypeOK, ItemRow
    <3>2. GroupsOf(v)' = GroupsOf(v) /\ GroupsOf(v) \cap GroupsOf(u) = {}
      BY <3>1 DEF GroupsOf
    <3>3. ItemsOf(v)' = ItemsOf(v) /\ \A i \in ItemsOf(v) : items'[i] = items[i]
      BY <3>1, <3>2 DEF ItemsOf
    <3> QED BY <2>3, <3>1, <3>2, <3>3, CallerOnly DEF ReorderFavorites, Untouched
  <2>4. ASSUME NEW i \in ItemId, DeleteFavorite(u, i) PROVE Untouched(v)
    <3>1. /\ DOMAIN items' = DOMAIN items \ {i}
          /\ \A j \in DOMAIN items' : items'[j] = items[j]
          /\ items[i].group \in GroupsOf(u)
      BY <2>4 DEF DeleteFavorite, Drop, Restrict, ItemsOf
    <3>2. /\ DOMAIN groups \ {items[i].group} \subseteq DOMAIN groups'
          /\ DOMAIN groups' \subseteq DOMAIN groups
          /\ \A g \in DOMAIN groups' : groups'[g] = groups[g]
      BY <2>4 DEF DeleteFavorite, Drop, Restrict
    <3>3. /\ GroupsOf(v)' = GroupsOf(v)
          /\ \A g \in GroupsOf(v) : groups'[g] = groups[g]
          /\ items[i].group \notin GroupsOf(v)
      BY <3>1, <3>2 DEF GroupsOf
    <3>4. ItemsOf(v)' = ItemsOf(v) /\ \A j \in ItemsOf(v) : items'[j] = items[j]
      BY <3>1, <3>3 DEF ItemsOf
    <3> QED BY <2>4, <3>3, <3>4, CallerOnly DEF DeleteFavorite, Untouched
  <2> QED BY <1>4, <2>1, <2>2, <2>3, <2>4 DEF ItemCall
<1>5. CASE AliasCall(u)
  <2>1. PICK s \in Stop :
          /\ \E name \in Name :
                /\ groups' = Rename(CardsFor(u, s), name)
                /\ aliases' \in {Put(aliases, <<u, s>>, name), Drop(aliases, {<<u, s>>})}
          /\ items' = items /\ GetOrCreateUser(u) /\ home' = Invalidate(u)
    BY <1>5 DEF AliasCall, UpsertAlias, DeleteAlias
  <2>2. /\ DOMAIN groups' = DOMAIN groups
        /\ \A g \in DOMAIN groups : groups'[g].user = groups[g].user
        /\ \A g \in DOMAIN groups : groups[g].user # u => groups'[g] = groups[g]
    BY <2>1 DEF Rename, CardsFor, GroupsOf, TypeOK, GroupRow
  <2>3. /\ GroupsOf(v)' = GroupsOf(v)
        /\ \A g \in GroupsOf(v) : groups'[g] = groups[g]
    BY <2>2 DEF GroupsOf
  <2>4. /\ \A t : <<v, t>> \in DOMAIN aliases' <=> <<v, t>> \in DOMAIN aliases
        /\ \A t : <<v, t>> \in DOMAIN aliases => aliases'[<<v, t>>] = aliases[<<v, t>>]
    <3>1. PICK name \in Name :
            aliases' \in {Put(aliases, <<u, s>>, name), Drop(aliases, {<<u, s>>})}
      BY <2>1
    <3> QED BY <3>1, AliasesOfOthers
  <2> QED BY <2>1, <2>3, <2>4, CallerOnly DEF Untouched, ItemsOf
<1> QED BY <1>1, <1>2, <1>3, <1>4, <1>5

\* What GET /v1/home shows of an untouched user's rows stays the same.
LEMMA UntouchedView ==
    ASSUME NEW v, Untouched(v)
    PROVE  HomeView(v)' = HomeView(v)
<1>1. Restrict(groups, GroupsOf(v))' = Restrict(groups, GroupsOf(v))
  BY DEF Untouched, Restrict
<1>2. Restrict(items, ItemsOf(v))' = Restrict(items, ItemsOf(v))
  BY DEF Untouched, Restrict
<1>3. {items[i].stop : i \in ItemsOf(v)}' = {items[i].stop : i \in ItemsOf(v)}
  BY DEF Untouched
<1>4. \A s : DisplayName(v, s)' = DisplayName(v, s)
  BY DEF Untouched, DisplayName
<1> QED BY <1>1, <1>2, <1>3, <1>4 DEF HomeView

\* A cached home payload shows what the tables hold: every call that changes
\* what it shows to a user drops that user's payload.
THEOREM HomeCoherent == Spec => []HomeCacheCoherent
<1>1. Init => HomeCacheCoherent
  BY DEF Init, HomeCacheCoherent
<1>2. TypeOK /\ ForeignKeys /\ OneStopPerCard /\ HomeCacheCoherent /\ [Next]_vars
        => HomeCacheCoherent'
  <2> SUFFICES ASSUME TypeOK, ForeignKeys, OneStopPerCard, HomeCacheCoherent, [Next]_vars,
                      NEW v \in User, home'[v] # NoHome
               PROVE  home'[v] = HomeView(v)'
    BY DEF HomeCacheCoherent
  <2>1. ASSUME UNCHANGED tables, home'[v] = home[v] PROVE home'[v] = HomeView(v)'
    BY <2>1 DEF tables, HomeCacheCoherent, HomeView, Restrict, GroupsOf, ItemsOf, DisplayName
  <2>2. CASE UNCHANGED vars
    BY <2>1, <2>2 DEF vars, tables
  <2>3. ASSUME NEW u \in User,
               Unchanging(u) \/ CardCall(u) \/ ItemCall(u) \/ AliasCall(u) \/ HomeStep(u)
        PROVE  home'[v] = HomeView(v)'
    <3>1. CASE v # u
      <4>1. Untouched(v)
        BY <2>3, <3>1, CallsTouchTheirUser
      <4>2. home'[v] = home[v] /\ HomeView(v)' = HomeView(v)
        BY <4>1, UntouchedView DEF Untouched
      <4> QED BY <4>2 DEF HomeCacheCoherent
    <3>2. CASE v = u
      <4>1. Invalidate(u)[v] = NoHome
        BY <3>2 DEF Invalidate, TypeOK
      <4>2. CASE home' = Invalidate(u)
        BY <4>1, <4>2
      <4>3. CASE Unchanging(u)
        BY <2>1, <4>3 DEF Unchanging
      <4>4. ASSUME NEW g \in GroupId, UpdateGroup(u, g, NoValue, NoValue, FALSE)
            PROVE  home'[v] = HomeView(v)'
        <5>1. groups[g] \in GroupRow
          BY <4>4 DEF UpdateGroup, GroupsOf, TypeOK
        <5>2. Patch(groups[g], NoValue, NoValue) = groups[g]
          BY <5>1 DEF Patch, GroupRow
        <5>3. groups' = groups
          BY <4>4, <5>2 DEF UpdateGroup, TypeOK
        <5> QED BY <2>1, <4>4, <5>3 DEF UpdateGroup, SyncNameToAlias, tables
      <4>5. CASE FillHome(u)
        <5>1. home'[v] = HomeView(v)
          BY <3>2, <4>5 DEF FillHome, TypeOK
        <5> QED BY <4>5, <5>1 DEF FillHome, tables, HomeView, Restrict, GroupsOf, ItemsOf,
                   DisplayName
      <4>6. CASE ExpireHome(u)
        BY <3>2, <4>6 DEF ExpireHome, TypeOK
      <4>7. CASE CardCall(u)
        BY <4>2, <4>4, <4>7 DEF CardCall, CreateGroup, UpdateGroup, DeleteGroup
      <4>8. CASE ItemCall(u)
        BY <4>2, <4>8 DEF ItemCall, CreateFavoriteOnCard, CreateFavoriteOnNewCard,
                          ReorderFavorites, DeleteFavorite
      <4>9. CASE AliasCall(u)
        BY <4>2, <4>9 DEF AliasCall, UpsertAlias, DeleteAlias
      <4> QED BY <2>3, <4>3, <4>5, <4>6, <4>7, <4>8, <4>9 DEF HomeStep
    <3> QED BY <3>1, <3>2
  <2> QED BY <2>2, <2>3 DEF Next
<1> QED BY <1>1, <1>2, TypeCorrect, FavoritesSafe, PTL DEF Spec

\* No call changes the rows, or the cached payload, of more than one user.
THEOREM Isolation == Spec => OneUserPerCall
<1> DEFINE Isolated == \E u \in User : \A v \in User \ {u} :
                          /\ UNCHANGED <<RowsOf(v), home[v]>>
                          /\ v \in users' <=> v \in users
<1>1. TypeOK /\ TypeOK' /\ ForeignKeys /\ OneStopPerCard /\ [Next]_vars => [Isolated]_vars
  <2> SUFFICES ASSUME TypeOK, TypeOK', ForeignKeys, OneStopPerCard, Next PROVE Isolated
    OBVIOUS
  <2>1. PICK u \in User :
          Unchanging(u) \/ CardCall(u) \/ ItemCall(u) \/ AliasCall(u) \/ HomeStep(u)
    BY DEF Next
  <2>2. ASSUME NEW v \in User \ {u}
        PROVE  UNCHANGED <<RowsOf(v), home[v]>> /\ (v \in users' <=> v \in users)
    <3>1. Untouched(v)
      BY <2>1, CallsTouchTheirUser
    <3>2. {k \in DOMAIN aliases : k[1] = v}' = {k \in DOMAIN aliases : k[1] = v}
      BY <3>1 DEF Untouched, TypeOK
    <3>3. HomeView(v)' = HomeView(v)
      BY <3>1, UntouchedView
    <3> QED BY <3>1, <3>2, <3>3 DEF Untouched, RowsOf
  <2> QED BY <2>2
<1> QED BY <1>1, TypeCorrect, FavoritesSafe, PTL DEF Spec, OneUserPerCall

-----------------------------------------------------------------------------
\* No call leaves a card without favourites that had some.
THEOREM NeverEmptied == Spec => CardsAreNeverEmptied
<1> DEFINE Kept == \A g \in DOMAIN groups \cap DOMAIN groups' :
                      ItemsIn(g) # {} => \E i \in DOMAIN items' : items'[i].group = g
<1>1. TypeOK /\ [Next]_vars => [Kept]_vars
  <2> SUFFICES ASSUME TypeOK, Next PROVE Kept
    OBVIOUS
  <2>1. ASSUME \A i \in DOMAIN items : i \in DOMAIN items' /\ items'[i].group = items[i].group
        PROVE  Kept
    BY <2>1 DEF ItemsIn
  <2>2. ASSUME NEW u \in User, NEW g \in GroupId, DeleteGroup(u, g) PROVE Kept
    BY <2>2 DEF DeleteGroup, Drop, Restrict, ItemsIn
  <2>3. ASSUME NEW u \in User, NEW i \in ItemId, DeleteFavorite(u, i) PROVE Kept
    <3>1. /\ \A j \in DOMAIN items \ {i} : j \in DOMAIN items' /\ items'[j] = items[j]
          /\ LeavesCardEmpty(i) => items[i].group \notin DOMAIN groups'
          /\ i \in ItemsIn(items[i].group)
      BY <2>3 DEF DeleteFavorite, Drop, Restrict, ItemsOf, ItemsIn
    <3> QED BY <3>1 DEF LeavesCardEmpty, ItemsIn
  <2>4. ASSUME NEW u \in User, NEW S, NEW newOrder \in [S -> Order],
               ReorderFavorites(u, newOrder)
        PROVE  Kept
    BY <2>1, <2>4 DEF ReorderFavorites, TypeOK, ItemRow
  <2>5. ASSUME NEW i, NEW g, NEW s, NEW v, NEW n, i \notin DOMAIN items, AddItem(i, g, s, v, n)
        PROVE  Kept
    BY <2>1, <2>5 DEF AddItem, Put
  <2>6. CASE items' = items
    BY <2>1, <2>6
  <2>7. ASSUME NEW u \in User, CardCall(u) PROVE Kept
    BY <2>2, <2>6, <2>7 DEF CardCall, CreateGroup, UpdateGroup
  <2>8. ASSUME NEW u \in User, ItemCall(u) PROVE Kept
    <3>1. ASSUME NEW given, NEW s, NEW v, NEW i, CreateFavoriteOnCard(u, given, s, v, i)
          PROVE  Kept
      <4>1. PICK g \in Targets(u, given, s), n \in Order : AddItem(i, g, s, v, n)
        BY <3>1 DEF CreateFavoriteOnCard
      <4> QED BY <2>5, <3>1, <4>1 DEF CreateFavoriteOnCard
    <3>2. ASSUME NEW given, NEW s, NEW v, NEW i, NEW g,
                 CreateFavoriteOnNewCard(u, given, s, v, g, i)
          PROVE  Kept
      BY <2>5, <3>2 DEF CreateFavoriteOnNewCard
    <3> QED BY <2>3, <2>4, <2>8, <3>1, <3>2 DEF ItemCall
  <2>9. ASSUME NEW u \in User, Unchanging(u) \/ AliasCall(u) \/ HomeStep(u) PROVE Kept
    BY <2>6, <2>9 DEF Unchanging, AliasCall, UpsertAlias, DeleteAlias, HomeStep, FillHome,
                      ExpireHome, tables
  <2> QED BY <2>7, <2>8, <2>9 DEF Next
<1> QED BY <1>1, TypeCorrect, PTL DEF Spec, CardsAreNeverEmptied
-----------------------------------------------------------------------------
\* The foreign keys hold after every call, the deletes of two tables included.
THEOREM RowsReferToRows == Spec => []ForeignKeys
BY FavoritesSafe, PTL

\* However a client names its cards, none of them ever holds two stations.
THEOREM StationsNeverShareACard == Spec => []OneStopPerCard
BY FavoritesSafe, PTL

\* A new favourite never comes before one that is on its card.  Of the order
\* that create_favorite takes from the card's orders only this is left when
\* the highest is 0; ForeignKeys keeps a new card from having favourites.
THEOREM NeverPutBefore == Spec => NewFavoritesAreNotBefore
<1> DEFINE NotBefore == \A i \in DOMAIN items' \ DOMAIN items : \A j \in DOMAIN items :
                           items[j].group = items'[i].group => items[j].order <= items'[i].order
<1>1. TypeOK /\ ForeignKeys /\ [Next]_vars => [NotBefore]_vars
  <2> SUFFICES ASSUME TypeOK, ForeignKeys, Next PROVE NotBefore
    OBVIOUS
  <2>1. ASSUME DOMAIN items' \subseteq DOMAIN items PROVE NotBefore
    BY <2>1
  <2>2. ASSUME NEW i, NEW g, NEW s, NEW v, NEW n, AddItem(i, g, s, v, n),
               \A j \in ItemsIn(g) : items[j].order <= n
        PROVE  NotBefore
    BY <2>2 DEF AddItem, Put, ItemsIn
  <2>3. ASSUME NEW g, NEW n, IsNextOrder(n, {items[j].order : j \in ItemsIn(g)})
        PROVE  \A j \in ItemsIn(g) : items[j].order <= n
    <3> DEFINE used == {items[j].order : j \in ItemsIn(g)}
    <3>1. used \subseteq Int
      BY DEF ItemsIn, TypeOK, ItemRow
    <3>2. CASE used = {}
      BY <3>2
    <3>3. CASE used # {}
      <4>1. PICK top \in used : (\A m \in used : m <= top) /\ n = IF top = 0 THEN 0 ELSE top + 1
        BY <2>3, <3>3 DEF IsNextOrder
      <4> HIDE DEF used
      <4>2. \A m \in used : m \in Int /\ m <= n
        BY <3>1, <4>1
      <4> QED  BY <4>2 DEF used
    <3> QED  BY <3>2, <3>3
  <2>4. ASSUME NEW u \in User, NEW given, NEW s, NEW v, NEW i,
               CreateFavoriteOnCard(u, given, s, v, i)
        PROVE  NotBefore
    <3>1. PICK g \in Targets(u, given, s), n \in Order :
            IsNextOrder(n, {items[j].order : j \in ItemsIn(g)}) /\ AddItem(i, g, s, v, n)
      BY <2>4 DEF CreateFavoriteOnCard
    <3> QED  BY <2>2, <2>3, <3>1
  <2>5. ASSUME NEW u \in User, NEW given, NEW s, NEW v, NEW i, NEW g,
               CreateFavoriteOnNewCard(u, given, s, v, g, i)
        PROVE  NotBefore
    <3>1. ItemsIn(g) = {} /\ AddItem(i, g, s, v, 0)
      BY <2>5 DEF CreateFavoriteOnNewCard, ItemsIn, ForeignKeys
    <3> QED  BY <2>2, <3>1
  <2>6. ASSUME NEW u \in User, ItemCall(u) PROVE NotBefore
    BY <2>1, <2>4, <2>5, <2>6 DEF ItemCall, ReorderFavorites, DeleteFavorite, Drop, Restrict
  <2>7. ASSUME NEW u \in User, CardCall(u) PROVE NotBefore
    BY <2>1, <2>7 DEF CardCall, CreateGroup, UpdateGroup, DeleteGroup, Drop, Restrict
  <2>8. ASSUME NEW u \in User, Unchanging(u) \/ AliasCall(u) \/ HomeStep(u) PROVE NotBefore
    BY <2>1, <2>8 DEF Unchanging, AliasCall, UpsertAlias, DeleteAlias, HomeStep, FillHome,
                      ExpireHome, tables
  <2> QED  BY <2>6, <2>7, <2>8 DEF Next
<1> QED  BY <1>1, TypeCorrect, FavoritesSafe, PTL DEF Spec, NewFavoritesAreNotBefore
=============================================================================
