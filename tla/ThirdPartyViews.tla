--------------------------- MODULE ThirdPartyViews --------------------------
(***************************************************************************)
(* How the rows of the third party workflow are read: the queries of the   *)
(* listings (Collection.model.ts, Item.model.ts, ItemCuration.model.ts)    *)
(* and the merges of their rows with the curations and with the content    *)
(* server (Bridge.ts, Item.service.ts, Collection.service.ts).             *)
(*                                                                         *)
(* A row "if any" is a set of at most one.  The content server is          *)
(* external: "deployed" are the items it has, which are uploaded from the  *)
(* curations of the builder.  URNs stand for their items, and the dates a  *)
(* merge takes from a curation are told apart by the curation.  Names,     *)
(* tags, mappings and the order of a listing are left out.                 *)
(***************************************************************************)
EXTENDS CurationTables, Access

CONSTANT idRank     \* the order of the ids of items, which are random

ASSUME IdRankAssumption ==
    /\ idRank \in [Items -> Nat]
    /\ \A i, j \in Items : idRank[i] = idRank[j] => i = j

itemsOf(c) == {i \in items : CollectionOf[i] = c}

-----------------------------------------------------------------------------
(* Curations.                                                              *)

\* SELECT DISTINCT ON (item.id) ... ORDER BY item.id, created_at DESC
findByCollectionId(c) == UNION {latestItemCurations(i) : i \in itemsOf(c)}

findByCollectionAndItemIds(c, ids) ==
    UNION {latestItemCurations(i) : i \in itemsOf(c) \cap ids}

\* The first row of the above: the curation of the item with the smallest id.
findLastByCollectionId(c) ==
    LET curations == findByCollectionId(c)
    IN  {cur \in curations :
            \A other \in curations : idRank[cur.item] <= idRank[other.item]}

\* WHERE created_at = (SELECT MAX(created_at) ...), of collection_curations.
getLatestByIds(ids) ==
    {cur \in collectionCurations :
        /\ cur.collection \in ids
        /\ ~\E other \in collectionCurations :
               other.collection = cur.collection /\ other.created > cur.created}

getLatest == getLatestByIds(Collections)

-----------------------------------------------------------------------------
(* Merges.                                                                 *)

\* The column is what the body of the last PUT said.  Clients send false, as the rows of
\* spec/mocks/collections.ts have it; a body that says true of a draft is left out.
collectionRow(c) == [id |-> c, tp |-> TRUE, is_published |-> FALSE, curation |-> {}]

mergeTPCollection(c, cur) ==
    [collectionRow(c) EXCEPT !.is_published = TRUE, !.curation = {cur}]

\* Merged with the curation given, or as it is without one.
mergedWith(c, curations) ==
    IF curations = {} THEN collectionRow(c)
    ELSE mergeTPCollection(c, CHOOSE cur \in curations : TRUE)

consolidateTPCollection(c) == mergedWith(c, findLastByCollectionId(c))

toFullItem(i) == [id |-> i, is_published |-> FALSE, is_approved |-> FALSE]

\* Mutant: an item is published when the content server has it.
mergeDeployedItem(i, deployed, curations) ==
    [toFullItem(i) EXCEPT !.is_published = i \in deployed,
                          !.is_approved = i \in deployed]

\* The item with its curation, whichever of them the index of curations kept.
mergeTPItem(i, deployed, curations) ==
    [toFullItem(i) EXCEPT !.is_published = i \in deployed \/ curations # {},
                          !.is_approved = i \in deployed]

\* indexBy(itemCurations, "item_id")
indexed(curations, i) == {cur \in curations : cur.item = i}

\* One item without its collection fails them all.
consolidateTPItems(wanted, curations, found, deployed) ==
    IF \E i \in wanted : CollectionOf[i] \notin found THEN failed("error")
    ELSE ok({mergeTPItem(i, deployed, indexed(curations, i)) : i \in wanted})

-----------------------------------------------------------------------------
(* Listings.                                                               *)

AnyStatus == CurationStatus \cup {"any"}
Synced == {"any", "yes", "no"}

\* The latest curation joined to an item by selectByCollectionIds.
joinedCurations(i, synced) ==
    {cur \in latestItemCurations(i) :
        /\ synced # "any" => cur.status = "approved"
        /\ synced = "yes" => cur.hash = contentHash[i]
        /\ synced = "no" => cur.hash # contentHash[i]}

isSelected(i, status, synced, onlyPublished) ==
    /\ synced # "any" => joinedCurations(i, synced) # {}
    /\ status # "any" => \E cur \in joinedCurations(i, synced) : cur.status = status
    /\ onlyPublished => existsByItemId(i)

selectByCollectionIds(ids, status, synced, onlyPublished) ==
    {i \in items : CollectionOf[i] \in ids /\ isSelected(i, status, synced, onlyPublished)}

\* An item whose collection is gone is joined to none.
findItemsByAddress(managed) ==
    {i \in items : CollectionOf[i] \in managed \cap collections}

StatusFilter == CurationStatus \cup {"to_review", "under_review"}

\* The rows of the join with items and curations that getPublishedJoinStatement
\* keeps: without a curation, for an empty collection too, or with one.
isInPublishedJoin(c, isPublished) ==
    IF isPublished THEN \E i \in itemsOf(c) : existsByItemId(i)
    ELSE itemsOf(c) = {} \/ \E i \in itemsOf(c) : ~existsByItemId(i)

\* A collection is assigned when its latest curation has an assignee.
hasStatus(c, status, assigned) ==
    LET latest == latestCollectionCurations(c)
    IN  CASE status = "to_review" -> c \notin assigned
          [] status = "under_review" ->
                 c \in assigned /\ \E cur \in latest : cur.status = "pending"
          [] OTHER -> \E cur \in latest : cur.status = status

findAllPublished(isPublished) == {c \in collections : isInPublishedJoin(c, isPublished)}
findAllByStatus(status, assigned) == {c \in collections : hasStatus(c, status, assigned)}

=============================================================================
