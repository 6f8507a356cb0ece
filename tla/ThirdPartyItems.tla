--------------------------- MODULE ThirdPartyItems --------------------------
(***************************************************************************)
(* The requests that change the rows a publication is about:               *)
(*   - editors:  PUT /items/:id for a third party item                     *)
(*               (ItemService.upsertItem, upsertThirdPartyItem);           *)
(*   - removers: DELETE /items/:id and DELETE /collections/:id             *)
(*               (ItemService.deleteThirdPartyItem,                        *)
(*               CollectionService.deleteCollection).                      *)
(*                                                                         *)
(* The reads a handler does before its first write are one step: another   *)
(* request in between would only make it see an older row, as it does when *)
(* that request comes right after.  A third party collection is never      *)
(* locked: lockCollection updates WHERE eth_address = the caller and       *)
(* toDBCollection stores an empty eth_address for it.  Edits keep the URN. *)
(***************************************************************************)
EXTENDS CurationTables

CONSTANTS Editors, Removers

VARIABLES
    edPc,       \* stage of each editor
    edCall,     \* item, the hash of its new content, and whether the row was
                \* there when it was read (dbItem)
    rmPc,       \* stage of each remover
    rmTarget    \* item or collection to delete

edVars == <<edPc, edCall>>
rmVars == <<rmPc, rmTarget>>

EdCall == [item: Items, hash: Hashes, existed: BOOLEAN]
EdStages == {"idle", "upsert", "sync", "done", "crashed"}
RmStages == {"idle", "item", "collection", "items", "done", "crashed"}

ItemsTypeOK ==
    /\ edPc \in [Editors -> EdStages]
    /\ edCall \in [Editors -> EdCall]
    /\ rmPc \in [Removers -> RmStages]
    /\ rmTarget \in [Removers -> Items \cup Collections]

noEdit == [item |-> someItem, hash |-> someHash, existed |-> FALSE]

ItemsInit ==
    /\ edPc = [e \in Editors |-> "idle"]
    /\ edCall = [e \in Editors |-> noEdit]
    /\ rmPc = [d \in Removers |-> "idle"]
    /\ rmTarget = [d \in Removers |-> someItem]

-----------------------------------------------------------------------------
(* Editors.                                                                *)

edEnd(e, stage) ==
    /\ edPc' = [edPc EXCEPT ![e] = stage]
    /\ edCall' = [edCall EXCEPT ![e] = noEdit]

\* Mutant: the collection of the item is not looked up.
isPlacedAnywhere(i) == TRUE

isPlaced(i) == CollectionOf[i] \in collections

\* findOne, getCollection of the item's collection, isManager.
StartUpsert(e) ==
    /\ edPc[e] = "idle"
    /\ \E i \in Items, h \in Hashes :
           /\ isPlaced(i)
           /\ edCall' = [edCall EXCEPT ![e] =
                  [item |-> i, hash |-> h, existed |-> i \in items]]
    /\ edPc' = [edPc EXCEPT ![e] = "upsert"]
    /\ UNCHANGED <<tables, clock>>

\* Item.upsert writes the whole row, back again if it was deleted meanwhile.
UpsertItem(e) ==
    LET call == edCall[e]
    IN  /\ edPc[e] = "upsert"
        /\ items' = items \cup {call.item}
        /\ contentHash' = [contentHash EXCEPT ![call.item] = call.hash]
        /\ \/ /\ call.existed
              /\ edPc' = [edPc EXCEPT ![e] = "sync"]
              /\ UNCHANGED edCall
           \/ /\ ~call.existed
              /\ edEnd(e, "done")
        /\ UNCHANGED <<collections, forumId, itemCurations, collectionCurations,
                       cheques, clock>>

\* Mutant: the curations decided on are updated instead of the open ones.
syncedDecided(e, cur) ==
    IF cur.item = edCall[e].item /\ cur.status # "pending"
    THEN [cur EXCEPT !.hash = edCall[e].hash] ELSE cur

synced(e, cur) ==
    IF cur.item = edCall[e].item /\ cur.status = "pending"
    THEN [cur EXCEPT !.hash = edCall[e].hash] ELSE cur

\* ItemCuration.update({content_hash}, {item_id, status: pending})
SyncPendingCurations(e) ==
    /\ edPc[e] = "sync"
    /\ itemCurations' = {synced(e, cur) : cur \in itemCurations}
    /\ edEnd(e, "done")
    /\ UNCHANGED <<collections, items, contentHash, forumId,
                   collectionCurations, cheques, clock>>

\* The statement fails, or the process dies, before it: what was written stays.
AbortUpsert(e) ==
    /\ edPc[e] \in {"upsert", "sync"}
    /\ edEnd(e, "crashed")
    /\ UNCHANGED <<tables, clock>>

EditStep(e) == UpsertItem(e) \/ SyncPendingCurations(e)

-----------------------------------------------------------------------------
(* Removers.                                                               *)

\* findOne, getDBCollection, existsByItemId
StartDeleteItem(d) ==
    /\ rmPc[d] = "idle"
    /\ \E i \in items :
           /\ CollectionOf[i] \in collections
           /\ ~existsByItemId(i)
           /\ rmTarget' = [rmTarget EXCEPT ![d] = i]
    /\ rmPc' = [rmPc EXCEPT ![d] = "item"]
    /\ UNCHANGED <<tables, clock>>

DeleteItem(d) ==
    /\ rmPc[d] = "item"
    /\ deleteItems({rmTarget[d]})
    /\ rmPc' = [rmPc EXCEPT ![d] = "done"]
    /\ UNCHANGED <<collections, contentHash, forumId, collectionCurations,
                   cheques, clock, rmTarget>>

\* getDBCollection, checkIfThirdPartyCollectionHasPublishedItems
StartDeleteCollection(d) ==
    /\ rmPc[d] = "idle"
    /\ \E c \in collections :
           /\ ~existsByCollectionId(c)
           /\ rmTarget' = [rmTarget EXCEPT ![d] = c]
    /\ rmPc' = [rmPc EXCEPT ![d] = "collection"]
    /\ UNCHANGED <<tables, clock>>

DeleteCollection(d) ==
    /\ rmPc[d] = "collection"
    /\ deleteCollection(rmTarget[d])
    /\ rmPc' = [rmPc EXCEPT ![d] = "items"]
    /\ UNCHANGED <<items, contentHash, forumId, itemCurations, cheques, clock,
                   rmTarget>>

DeleteItemsOfCollection(d) ==
    /\ rmPc[d] = "items"
    /\ deleteItems({i \in items : CollectionOf[i] = rmTarget[d]})
    /\ rmPc' = [rmPc EXCEPT ![d] = "done"]
    /\ UNCHANGED <<collections, contentHash, forumId, collectionCurations,
                   cheques, clock, rmTarget>>

AbortDelete(d) ==
    /\ rmPc[d] \in {"item", "collection", "items"}
    /\ rmPc' = [rmPc EXCEPT ![d] = "crashed"]
    /\ UNCHANGED <<tables, clock, rmTarget>>

RemoveStep(d) ==
    DeleteItem(d) \/ DeleteCollection(d) \/ DeleteItemsOfCollection(d)

=============================================================================
