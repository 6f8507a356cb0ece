---------------------------- MODULE StandardReads ----------------------------
(***************************************************************************)
(* The GET endpoints over standard collections and items                   *)
(* (Collection.router.ts, Item.router.ts) with the merges of the rows with *)
(* their remote counterparts (Bridge.ts), read against the tables and the  *)
(* chain of StandardCollections.                                           *)
(*                                                                         *)
(* An endpoint is an operator: its parameters are who asks, the request    *)
(* and the contracts the committee has approved on chain, its value is the *)
(* answer.  A read does its queries in one step.  The graph knows a        *)
(* contract by its address, and so a collection by the data it is stored   *)
(* with.  A remote item is the item the contract was made with at a place. *)
(* The branches for third parties are in ThirdPartyReads; pages, search    *)
(* terms, names and prices are left out.                                   *)
(***************************************************************************)
EXTENDS StandardCollections, Access

-----------------------------------------------------------------------------
(* Queries and merges of collections.                                      *)

\* What the graph has of the contracts of stored collections.
remotes == {c \in stored : isIndexed(c, collections[c].data)}

\* creator, manager and minter of the query are told apart by the callers.
fetchCollectionsByAuthorizedUser(user) ==
    {c \in remotes : collections[c].owner = user \/ user \in Managers}

rolesOf(user, c) ==
    (IF collections[c].owner = user THEN {"owner"} ELSE {})
    \cup (IF user \in Managers THEN {"manager"} ELSE {})

\* is_published is a column too: clients send false, and another body is left out.
collectionRow(c) ==
    [id |-> c, tp |-> FALSE, is_published |-> FALSE, is_approved |-> FALSE]

mergeCollection(c, approved) ==
    [collectionRow(c) EXCEPT !.is_published = TRUE, !.is_approved = c \in approved]

mergedFrom(c, found, approved) ==
    IF c \in found THEN mergeCollection(c, approved) ELSE collectionRow(c)

consolidateAllCollections(wanted, found, approved) ==
    {mergedFrom(c, found, approved) : c \in wanted}

getDCLCollection(c, approved) == mergedFrom(c, remotes, approved)

\* The rows of the join with items that getPublishedJoinStatement keeps.
isInPublishedJoin(c, isPublished) ==
    IF isPublished THEN \E i \in itemsIn(c) : items[i].chainId # None
    ELSE itemsIn(c) = {} \/ \E i \in itemsIn(c) : items[i].chainId = None

findAllPublished(isPublished) == {c \in stored : isInPublishedJoin(c, isPublished)}

\* The remote ids a status filter is about: toRemoteWhereCondition.
remoteIds(status, approved) ==
    {c \in remotes : c \in approved <=> status = "approved"}

\* The latest curation of the collection, if any, has a status and an assignee.
hasStatus(c, status, approved, curation) ==
    LET isInRemoteIds == c \in remoteIds(status, approved)
        unassigned == \A cur \in curation : ~cur.assigned
        same == isInRemoteIds /\ \E cur \in curation : cur.status = status
    IN  CASE status \in {"pending", "approved"} -> same \/ (curation = {} /\ isInRemoteIds)
          [] status = "rejected" -> same
          [] status = "to_review" -> unassigned /\ isInRemoteIds
          [] status = "under_review" ->
                 \E cur \in curation : cur.assigned /\ cur.status = "pending"

-----------------------------------------------------------------------------
(* Merges of items.                                                        *)

toFullItem(i) ==
    [id |-> i, is_published |-> FALSE, is_approved |-> FALSE, token |-> None,
     blockchain_item_id |-> items[i].chainId, rarity |-> items[i].rarity]

\* The item at a place of the contract, if there is one.
remoteItem(c, chainId) ==
    IF chainId # None /\ chainId + 1 \in DOMAIN tx[c].items
    THEN {tx[c].items[chainId + 1]} ELSE {}

mergeItem(i, token, approved) ==
    LET c == items[i].place
        rarity == tx[c].rarity[token]
    IN  [toFullItem(i) EXCEPT
            !.is_published = TRUE, !.is_approved = c \in approved, !.token = token,
            !.rarity = IF rarity # None THEN rarity ELSE items[i].rarity]

\* An item with an id, whose collection is among those the graph answered for.
mergedItem(i, found, approved) ==
    LET c == items[i].place
        token == IF c \in found THEN remoteItem(c, items[i].chainId) ELSE {}
    IN  IF token = {} THEN toFullItem(i)
        ELSE mergeItem(i, CHOOSE j \in token : TRUE, approved)

consolidateItems(wanted, found, approved) ==
    {mergedItem(i, found, approved) : i \in wanted}

\* Item.findByBlockchainIdsAndContractAddresses
findByToken(c, chainId) == {i \in itemsIn(c) : c \in stored /\ items[i].chainId = chainId}

-----------------------------------------------------------------------------
(* Endpoints of collections.                                               *)

detail(roles, collection) ==
    [collection |-> collection, full |-> canSeeCollection(roles, collection)]

\* GET /collections/:id
getCollection(roles, c, approved) ==
    IF c \notin stored THEN failed("notFound")
    ELSE IF ~hasPublicAccess(roles, getDCLCollection(c, approved))
    THEN failed("unauthorized")
    ELSE ok(detail(roles, getDCLCollection(c, approved)))

\* GET /collections
getCollections(roles, isPublished, searches, approved) ==
    IF "committee" \notin roles /\ ~(searches /\ isPublished)
    THEN failed("unauthorized")
    ELSE ok(consolidateAllCollections(findAllPublished(isPublished), remotes, approved))

\* With a status the graph is asked for the remote collections it is about.
getCollectionsByStatus(roles, status, approved, curationOf) ==
    IF "committee" \notin roles THEN failed("unauthorized")
    ELSE ok(consolidateAllCollections(
                {c \in stored : hasStatus(c, status, approved, curationOf[c])},
                remoteIds(status, approved), approved))

\* Mutant: the collections of an address are those it has stored.
owned(user) == {c \in stored : collections[c].owner = user}

\* CollectionService.getCollections: what is on chain is also its creator's there.
ownedOrRemote(user) ==
    {c \in stored :
        /\ collections[c].owner = user \/ c \in fetchCollectionsByAuthorizedUser(user)
        /\ c \in remotes => rolesOf(user, c) # {}}

\* GET /:address/collections
getAddressCollections(user, approved) ==
    ok(consolidateAllCollections(ownedOrRemote(user),
                                 fetchCollectionsByAuthorizedUser(user), approved))

\* GET /addresses: contracts, to anybody.
getAddressesCollections(isPublished) == ok(findAllPublished(isPublished))

-----------------------------------------------------------------------------
(* Endpoints of items.                                                     *)

\* GET /items
getItems(roles, approved) ==
    IF "committee" \notin roles THEN failed("unauthorized")
    ELSE ok(consolidateItems({i \in Items : items[i] # None}, remotes, approved))

\* GET /:address/items
getAddressItems(user, approved) ==
    ok(consolidateItems({i \in Items : items[i] # None /\ items[i].owner = user},
                        fetchCollectionsByAuthorizedUser(user), approved))

\* The collection is read only for an item with an id.
getDCLItem(i, approved) ==
    LET c == items[i].place
    IN  IF c = None \/ items[i].chainId = None
        THEN [item |-> toFullItem(i), found |-> {}]
        ELSE [item |-> mergedItem(i, remotes, approved),
              found |-> IF c \in remotes THEN {mergeCollection(c, approved)} ELSE {}]

isInconsistent(i) == items[i].place \notin stored \cup {None} /\ items[i].chainId # None

\* GET /items/:id
getItem(roles, i, approved) ==
    LET read == getDCLItem(i, approved)
    IN  IF items[i] = None \/ isInconsistent(i) THEN failed("error")
        ELSE IF ~hasPublicItemAccess(roles, read.item, read.found)
        THEN failed("unauthorized")
        ELSE ok([item |-> read.item, full |-> canSeeItem(roles, read.found)])

\* GET /collections/:id/items: the public is given the items with an id.
getCollectionItems(roles, c, approved) ==
    LET collection == getDCLCollection(c, approved)
        numbered == {i \in itemsIn(c) : items[i].chainId # None}
        wanted == IF canSeeCollection(roles, collection) THEN itemsIn(c) ELSE numbered
    IN  IF c \notin stored THEN failed("notFound")
        ELSE IF "admin" \notin roles /\ ~hasPublicAccess(roles, collection)
        THEN failed("unauthorized")
        ELSE ok(consolidateItems(wanted, remotes, approved))

\* The row the token routes read: the first that is found.
itemByToken(c, chainId) == CHOOSE i \in findByToken(c, chainId) : TRUE

\* GET /items/:contractAddress/:tokenId/utility
getItemUtility(c, chainId) ==
    IF findByToken(c, chainId) = {} THEN failed("notFound") ELSE ok(itemByToken(c, chainId))

\* GET /items/:collectionAddress/:itemId/contents: an item that is missing is not
\* among the errors the handler knows.
getItemContents(c, chainId, approved) ==
    IF findByToken(c, chainId) = {} THEN failed("error")
    ELSE ok(getDCLItem(itemByToken(c, chainId), approved).item)

-----------------------------------------------------------------------------
(* Properties.                                                             *)

visitor == {}
reviewer == {"committee"}

idsIn(got) == {body.id : body \in got.body}

\* However an item is read (in its collection, in all items, in those of its
\* owner, alone, by its token) the answers agree, and a published item is shown
\* with the remote data of itself and never with that of another item of the
\* contract: the server stores a place in the contract and merges by it.
ItemViewsAgree ==
    never({"straddle", "late"}) =>
        \A c \in stored : \A approved \in {{}, {c}} :
            LET listed == getCollectionItems({"owner"}, c, approved).body
                public == getCollectionItems(visitor, c, approved)
            IN  /\ isOk(public) => public.body = {item \in listed : item.is_published}
                /\ listed \subseteq getItems(reviewer, approved).body
                /\ listed \subseteq getAddressItems(collections[c].owner, approved).body
                /\ \A item \in listed :
                       /\ getItem(reviewer, item.id, approved).body.item = item
                       /\ item.is_published =>
                              /\ item.token = item.id
                              /\ getItemUtility(c, item.blockchain_item_id) = ok(item.id)
                              /\ getItemContents(c, item.blockchain_item_id, approved) = ok(item)
                       /\ ~item.is_published => item.blockchain_item_id = None

\* The listings, which go by the ids of the items, and the collections as they
\* are read alone, which go by the graph, agree on what is published; a
\* collection is in one listing or the other once nothing is being served; it is
\* listed for those who may see it; and the committee finds what is published
\* under some status, but for an approved collection that waits for nobody.
CollectionViewsAgree ==
    ~MayFail /\ never({"straddle", "late"}) =>
        \A c \in stored : \A approved \in {{}, {c}} :
            LET listed(isPublished) == idsIn(getCollections(reviewer, isPublished, FALSE, approved))
                found(curation) ==
                    {status \in {"pending", "approved", "rejected", "to_review"} :
                        c \in idsIn(getCollectionsByStatus(reviewer, status, approved,
                                        [x \in Collections |-> curation]))}
            IN  /\ c \in listed(TRUE) => isOk(getCollection(visitor, c, approved))
                /\ inFlight = {} => (c \in listed(TRUE) <=> c \notin listed(FALSE))
                /\ \A user \in Users :
                       c \in idsIn(getAddressCollections(user, approved)) <=>
                           canSeeCollection(rolesOf(user, c), getDCLCollection(c, approved))
                /\ isOk(getCollection(visitor, c, approved)) /\ approved = {} => found({}) # {}

=============================================================================
