--------------------------- MODULE ThirdPartyReads --------------------------
(***************************************************************************)
(* The GET endpoints over third party collections and items                *)
(* (Collection.router.ts, Item.router.ts, Curation.router.ts), read        *)
(* against the tables that the requests of the workflow are writing.       *)
(*                                                                         *)
(* An endpoint is an operator: its parameters are the roles of the caller, *)
(* the request and what the content server has, its value is the answer.   *)
(* A read does its queries in one step.  Standard collections take other   *)
(* branches of the same handlers, in StandardReads.  Pages and search      *)
(* terms are left out.                                                     *)
(***************************************************************************)
EXTENDS ThirdPartyWorkflow, ThirdPartyViews

-----------------------------------------------------------------------------
(* Collections.                                                            *)

\* A body for those who may see the collection, or the public part of it.
detail(roles, collection) ==
    [collection |-> collection, full |-> canSeeCollection(roles, collection)]

getTPCollection(c) == mergedWith(c, findLastByCollectionId(c))

\* GET /collections/:id
getCollection(roles, c) ==
    IF c \notin collections THEN failed("notFound")
    ELSE IF ~hasPublicAccess(roles, getTPCollection(c)) THEN failed("unauthorized")
    ELSE ok(detail(roles, getTPCollection(c)))

\* GET /collections: without a status the caller may ask for the published
\* ones, for the others or for both.
getCollections(roles, isPublished, searches) ==
    IF "committee" \notin roles /\ ~(searches /\ isPublished)
    THEN failed("unauthorized")
    ELSE ok({consolidateTPCollection(c) : c \in findAllPublished(isPublished)})

getCollectionsByStatus(roles, status, assigned) ==
    IF "committee" \notin roles THEN failed("unauthorized")
    ELSE ok({consolidateTPCollection(c) : c \in findAllByStatus(status, assigned)})

\* GET /:address/collections, of the third parties the address manages.
getAddressCollections(roles, isPublished) ==
    ok({consolidateTPCollection(c) :
           c \in IF "manager" \in roles THEN findAllPublished(isPublished) ELSE {}})

-----------------------------------------------------------------------------
(* Items.                                                                  *)

\* GET /items, for the committee: the curations are read in no order.
getItems(roles, deployed) ==
    IF "committee" \notin roles THEN failed("unauthorized")
    ELSE consolidateTPItems(items, itemCurations, collections, deployed)

\* GET /:address/items
getAddressItems(roles, deployed) ==
    consolidateTPItems(findItemsByAddress(IF "manager" \in roles THEN Collections ELSE {}),
                       itemCurations, collections, deployed)

\* The collection, if it is still there, and its last curation: of whichever
\* item, it is taken for that of the item asked for.
getTPItem(i, deployed) ==
    LET c == CollectionOf[i]
        lastItemCuration == findLastByCollectionId(c)
    IN  IF c \notin collections THEN [item |-> toFullItem(i), found |-> {}]
        ELSE [item |-> mergeTPItem(i, deployed, lastItemCuration),
              found |-> {mergedWith(c, lastItemCuration)}]

\* GET /items/:id
getItem(roles, i, deployed) ==
    LET read == getTPItem(i, deployed)
    IN  IF i \notin items THEN failed("error")
        ELSE IF ~hasPublicItemAccess(roles, read.item, read.found)
        THEN failed("unauthorized")
        ELSE ok([item |-> read.item, full |-> canSeeItem(roles, read.found)])

\* Any status in the query of a third party collection asks for the pending.
statusOf(status) == IF status = "any" THEN "any" ELSE "pending"

getTPCollectionItems(c, wanted, deployed) ==
    [collection |-> mergedWith(c, findLastByCollectionId(c)),
     items |-> consolidateTPItems(wanted, findByCollectionId(c), {c}, deployed).body]

itemsOfCollection(c, status, sync, onlyPublished, deployed) ==
    getTPCollectionItems(c, selectByCollectionIds({c}, statusOf(status), sync, onlyPublished),
                         deployed)

\* GET /collections/:id/items: who may not see the collection is given the
\* published items of it, read again.
getCollectionItems(roles, c, status, sync, deployed) ==
    LET read == itemsOfCollection(c, status, sync, FALSE, deployed)
    IN  IF c \notin collections THEN failed("notFound")
        ELSE IF "admin" \notin roles /\ ~hasPublicAccess(roles, read.collection)
        THEN failed("unauthorized")
        ELSE IF canSeeCollection(roles, read.collection) THEN ok(read)
        ELSE ok(itemsOfCollection(c, status, sync, TRUE, deployed))

-----------------------------------------------------------------------------
(* Curations.                                                              *)

\* CurationService.hasAccess, with the access to the collection or to the item
\* once the collection is found and merged with its last curation.
validateAccessToCuration(c, mayAccess) ==
    CASE c \notin collections -> "notFound"
      [] c \in collections /\ findLastByCollectionId(c) = {} -> "conflict"
      [] OTHER -> IF mayAccess THEN "ok" ELSE "unauthorized"

validateCollection(roles, c) ==
    validateAccessToCuration(c, hasAccess(roles, getTPCollection(c)))

answered(code, curations) == IF code = "ok" THEN ok(curations) ELSE failed(code)

getDbTPCollectionsByManager(roles) == IF "manager" \in roles THEN collections ELSE {}

\* GET /collectionCurations
getCollectionCurations(roles) ==
    IF "committee" \in roles THEN getLatest
    ELSE getLatestByIds(getDbTPCollectionsByManager(roles))

\* GET /collections/:id/curation
getCollectionCuration(roles, c) ==
    answered(validateCollection(roles, c), latestCollectionCurations(c))

\* GET /collections/:id/itemCurations, of the items asked for or of them all.
getCollectionItemCurations(roles, c, ids) ==
    answered(validateCollection(roles, c),
             IF ids = {} THEN findByCollectionId(c) ELSE findByCollectionAndItemIds(c, ids))

\* GET /items/:id/curation
getItemCuration(roles, i) ==
    IF i \notin items THEN failed("notFound")
    ELSE answered(validateAccessToCuration(CollectionOf[i],
                      hasItemAccess(roles, {getTPCollection(CollectionOf[i])})),
                  latestItemCurations(i))

-----------------------------------------------------------------------------
(* Approval data.                                                          *)

\* SlotUsageCheque.findLastByCollectionId, by the created_at of its publication.
findLastChequeByCollectionId(c) ==
    {cheque \in cheques :
        /\ cheque.collection = c
        /\ \A other \in cheques :
               other.collection = c => pubCreated[other.by] <= pubCreated[cheque.by]}

approvedItems(c) == {i \in itemsOf(c) : existsByItemId(i)}

\* GET /collections/:id/approvalData, up to the hashes.
approvalDataAccess(roles, c) ==
    CASE "committee" \notin roles -> "unauthorized"
      [] "committee" \in roles /\ c \notin collections -> "notFound"
      [] OTHER -> IF approvedItems(c) = {} \/ findLastChequeByCollectionId(c) = {}
                  THEN "unpublished" ELSE "ok"

-----------------------------------------------------------------------------
(* Properties.  "visitor" has no role, "reviewer" that of the committee.   *)

visitor == {}
reviewer == {"committee"}

idsIn(answer) == {body.id : body \in answer.body}

\* With no request being served and none that died or was left half rolled
\* back, every endpoint tells the same collections published: the cheque behind
\* the approval data, the item curations behind the public detail and the
\* listings, and the collection curation behind the review and the filters by
\* status are rows of three tables that publications write, roll back and lose
\* to deletes one by one.
PublishedEverywhere ==
    Quiescent /\ NoCrash =>
        \A c \in collections :
            LET published == isOk(getCollection(visitor, c))
                listed(isPublished) ==
                    idsIn(getCollections(reviewer, isPublished, FALSE))
                found(status) == idsIn(getCollectionsByStatus(reviewer, status, {}))
            IN  /\ published <=> approvalDataAccess(reviewer, c) = "ok"
                /\ published <=> c \in idsIn(getCollections(visitor, TRUE, TRUE))
                /\ ~published => c \in listed(FALSE) \ listed(TRUE)
                /\ published =>
                       /\ getCollectionCuration(reviewer, c).body # {}
                       /\ \E cur \in getCollectionCurations(reviewer) : cur.collection = c
                       /\ \E status \in CurationStatus : c \in found(status)

\* However an item of a collection with curations is read, the answers agree: in
\* the listing of its collection, in that of the committee, in that of its third
\* party and, once it is published, alone and to the public, while the requests
\* of others are half way and one item is deployed.  (An item that is not
\* published, in a collection that is, reads as published when it is read alone.)
ReadsAgree ==
    \A c \in {c \in collections : existsByCollectionId(c)} :
    \A deployed \in {{i} : i \in CuratedItems} :
        LET list == getCollectionItems(reviewer, c, "any", "any", deployed).body
            public == getCollectionItems(visitor, c, "any", "any", deployed)
            committee == getItems(reviewer, deployed)
        IN  /\ list.collection = getCollection(reviewer, c).body.collection
            /\ isOk(public) <=> isOk(getCollection(visitor, c))
            /\ isOk(public) =>
                   public.body.items = {item \in list.items : item.is_published}
            /\ isOk(committee) => list.items \subseteq committee.body
            /\ list.items \subseteq getAddressItems({"manager"}, deployed).body
            /\ \A item \in list.items :
                   item.is_published => getItem(visitor, item.id, deployed).body.item = item

\* The committee can list all items (GET /items) as long as no delete was cut
\* short: the listing fails as a whole when one item is left without its
\* collection, which takes two statements to delete and which edits of its items
\* do not lock.
CommitteeCanListItems ==
    Quiescent /\ NoCrash => isOk(getItems(reviewer, {}))

=============================================================================
