--------------------------- MODULE CurationTables ---------------------------
(***************************************************************************)
(* The PostgreSQL tables behind the third party workflow and the queries   *)
(* the models run on them (Item.model.ts, ItemCuration.model.ts,           *)
(* CollectionCuration.model.ts, SlotUsageCheque.model.ts, migrations/).    *)
(*                                                                         *)
(* One third party is modelled: slots are counted per third party and two  *)
(* third parties share no row.  Rows are identified by the request that    *)
(* created them, which stands for the uuid() the request draws.            *)
(*                                                                         *)
(* Every statement is atomic and no two of them form a transaction: the    *)
(* code opens none.  Whatever happens between two statements of a request  *)
(* is a step of another request, in the modules that extend this one.      *)
(***************************************************************************)
EXTENDS Integers, FiniteSets

CONSTANTS
    Collections,    \* third party collections
    Items,          \* third party items
    CollectionOf,   \* items.collection_id: a third party item never moves
    Hashes,         \* values of items.local_content_hash
    NoHash,         \* "no such row" in what a request has read
    Requests,       \* requests that may create rows
    NoTopic         \* collections.forum_id is null

ASSUME NonEmptyAssumption == {} \notin {Collections, Items, Hashes, Requests}
ASSUME FiniteAssumption == IsFiniteSet(Items)
ASSUME CollectionOfAssumption == CollectionOf \in [Items -> Collections]
ASSUME TargetsAssumption == Items \cap Collections = {}
ASSUME NoHashAssumption == NoHash \notin Hashes
ASSUME NoTopicAssumption == NoTopic \notin Requests

VARIABLES
    collections,            \* ids of the rows of collections
    items,                  \* ids of the rows of items
    contentHash,            \* items.local_content_hash, meaningful on items
    forumId,                \* collections.forum_id
    itemCurations,          \* rows of item_curations
    collectionCurations,    \* rows of collection_curations
    cheques,                \* rows of slot_usage_cheques
    clock                   \* new Date(): each reading is later than the last

tables == <<collections, items, contentHash, forumId, itemCurations,
            collectionCurations, cheques>>

CurationStatus == {"pending", "approved", "rejected"}

ItemCuration == [by: Requests, item: Items, status: CurationStatus,
                 hash: Hashes, created: Nat]
CollectionCuration == [by: Requests, collection: Collections,
                       status: CurationStatus, created: Nat]
Cheque == [by: Requests, collection: Collections, qty: Nat]

TablesTypeOK ==
    /\ collections \subseteq Collections
    /\ items \subseteq Items
    /\ contentHash \in [Items -> Hashes]
    /\ forumId \in [Collections -> Requests \cup {NoTopic}]
    /\ itemCurations \subseteq ItemCuration
    /\ collectionCurations \subseteq CollectionCuration
    /\ cheques \subseteq Cheque
    /\ clock \in Nat

(***************************************************************************)
(* Every collection exists and none was curated; items may be missing, so  *)
(* that inserting one is a step of its own.  Hashes are compared item by   *)
(* item only, so all items may start with the same.                        *)
(***************************************************************************)
someCollection == CHOOSE c \in Collections : TRUE
someItem == CHOOSE i \in Items : TRUE
someHash == CHOOSE h \in Hashes : TRUE
someRequest == CHOOSE r \in Requests : TRUE

TablesInit ==
    /\ collections = Collections
    /\ items \in SUBSET Items
    /\ contentHash = [i \in Items |-> someHash]
    /\ forumId = [c \in Collections |-> NoTopic]
    /\ itemCurations = {}
    /\ collectionCurations = {}
    /\ cheques = {}
    /\ clock = 0

-----------------------------------------------------------------------------
(* Queries.                                                                *)

CuratedItems == {cur.item : cur \in itemCurations}

\* Mutant: items whose review is open are not counted as published.
existsApprovedByItemId(i) ==
    \E cur \in itemCurations : cur.item = i /\ cur.status = "approved"

existsByItemId(i) == i \in CuratedItems

existsByCollectionId(c) ==
    \E cur \in itemCurations : CollectionOf[cur.item] = c

\* Mutant: only a collection with all of its items under review is refused.
allPendingByCollectionId(c) ==
    \A i \in {j \in Items : CollectionOf[j] = c} :
        \E cur \in itemCurations : cur.item = i /\ cur.status = "pending"

hasPendingByCollectionId(c) ==
    \E cur \in itemCurations :
        CollectionOf[cur.item] = c /\ cur.status = "pending"

\* Mutant: items are not counted any more once they are approved.
countPendingByThirdPartyId ==
    Cardinality({i \in items : \E cur \in itemCurations :
                    cur.item = i /\ cur.status = "pending"})

\* COUNT(DISTINCT items.id) over item_curations JOIN items JOIN collections
countByThirdPartyId ==
    Cardinality({i \in CuratedItems \cap items :
                    CollectionOf[i] \in collections})

\* Mutant: ORDER BY created_at ASC.
firstItemCurations(i) ==
    {cur \in itemCurations :
        /\ cur.item = i
        /\ \A other \in itemCurations :
               other.item = i => cur.created <= other.created}

\* ORDER BY created_at DESC LIMIT 1: the rows that may come first
latestItemCurations(i) ==
    {cur \in itemCurations :
        /\ cur.item = i
        /\ \A other \in itemCurations :
               other.item = i => other.created <= cur.created}

latestCollectionCurations(c) ==
    {cur \in collectionCurations :
        /\ cur.collection = c
        /\ \A other \in collectionCurations :
               other.collection = c => other.created <= cur.created}

-----------------------------------------------------------------------------
(* Deletes, with the ON DELETE CASCADE of the foreign keys.                *)

deleteItems(gone) ==
    /\ items' = items \ gone
    /\ itemCurations' = {cur \in itemCurations : cur.item \notin gone}

deleteCollection(c) ==
    /\ collections' = collections \ {c}
    /\ collectionCurations' =
           {cur \in collectionCurations : cur.collection # c}

=============================================================================
