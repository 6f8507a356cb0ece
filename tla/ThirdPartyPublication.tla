------------------------ MODULE ThirdPartyPublication -----------------------
(***************************************************************************)
(* POST /collections/:id/publish for a third party collection:             *)
(* CollectionRouter.publishCollection, CollectionService.                  *)
(* publishTPCollection and ForumService.                                   *)
(*                                                                         *)
(* A publisher is one such request.  Each of its stages is one await: the  *)
(* next statement it sends to the database, or its call to the forum.      *)
(* The statements of one Promise.all reach the connection in the order     *)
(* they are issued and all of them run before a statement issued later,    *)
(* even when an earlier one fails.                                         *)
(***************************************************************************)
EXTENDS CurationTables

CONSTANTS
    Publishers,     \* publish requests
    MaxItems,       \* slots the third party bought (maxItems in the graph)
    Faults          \* what may fail: a statement ("database"), a statement of
                    \* a rollback ("rollback"), a call to the forum or to the
                    \* content server ("forum"), the process ("crash")

ASSUME PublishersAssumption == Publishers \subseteq Requests
ASSUME MaxItemsAssumption == MaxItems \in Nat
ASSUME FaultsAssumption == Faults \subseteq {"database", "rollback", "forum", "crash"}

VARIABLES
    pubPc,          \* stage of each publisher
    pubCall,        \* collection, itemIds, cheque quantity and the forum_id
                    \* of the collection row read first
    pubItems,       \* dbItems: hash read for each item, NoHash if not found
    pubTodo,        \* creates of item curations not executed yet
    pubError,       \* did a create of the batch fail?
    pubCreated,     \* now
    topics          \* publishers whose forum topic was created

pubLocals == <<pubCall, pubItems, pubTodo, pubError, pubCreated>>
pubVars == <<pubPc, pubLocals, topics>>

\* rejected: 400, the publication is rolled back; unposted: 500, it is stored
\* but not posted; dirty: the rollback was left unfinished.
PubFinal == {"done", "rejected", "unposted", "dirty", "crashed"}
PubStages == {"idle", "slots", "items", "pending", "cheque", "curations",
              "collection", "undoCheque", "undoCurations", "undoRest", "forum",
              "link"}
             \cup PubFinal

PubCall == [collection: Collections, ids: SUBSET Items, qty: Nat,
            forum: Requests \cup {NoTopic}]

dbItems(p) == {i \in Items : pubItems[p][i] # NoHash}

PubTypeOK ==
    /\ pubPc \in [Publishers -> PubStages]
    /\ pubCall \in [Publishers -> PubCall]
    /\ pubItems \in [Publishers -> [Items -> Hashes \cup {NoHash}]]
    /\ pubTodo \in [Publishers -> SUBSET Items]
    /\ pubError \in [Publishers -> BOOLEAN]
    /\ pubCreated \in [Publishers -> Nat]
    /\ topics \subseteq Publishers

noCall == [collection |-> someCollection, ids |-> {}, qty |-> 0, forum |-> NoTopic]
noItems == [i \in Items |-> NoHash]

PubInit ==
    /\ pubPc = [p \in Publishers |-> "idle"]
    /\ pubCall = [p \in Publishers |-> noCall]
    /\ pubItems = [p \in Publishers |-> noItems]
    /\ pubTodo = [p \in Publishers |-> {}]
    /\ pubError = [p \in Publishers |-> FALSE]
    /\ pubCreated = [p \in Publishers |-> 0]
    /\ topics = {}


pubGoto(p, stage) == pubPc' = [pubPc EXCEPT ![p] = stage]
pubAt(p, stage) == pubPc[p] = stage

\* The request is answered with an error; what it had read is forgotten.
pubFail(p, stage) ==
    /\ pubGoto(p, stage)
    /\ pubCall' = [pubCall EXCEPT ![p] = noCall]
    /\ pubItems' = [pubItems EXCEPT ![p] = noItems]
    /\ pubTodo' = [pubTodo EXCEPT ![p] = {}]
    /\ pubError' = [pubError EXCEPT ![p] = FALSE]
    /\ pubCreated' = [pubCreated EXCEPT ![p] = 0]
pubReject(p) == pubFail(p, "rejected")

mayFail(what) == what \in Faults

-----------------------------------------------------------------------------
(* Checks.  None of them writes: a request refused here leaves no trace.   *)

\* getDBCollection, then isManager; publishers are managers.
StartPublish(p) ==
    /\ pubAt(p, "idle")
    /\ \E c \in collections, ids \in SUBSET Items, qty \in 1..Cardinality(Items) :
           pubCall' = [pubCall EXCEPT ![p] =
               [collection |-> c, ids |-> ids, qty |-> qty,
                forum |-> forumId[c]]]
    /\ pubGoto(p, "slots")
    /\ UNCHANGED <<tables, clock, pubItems, pubTodo, pubError, pubCreated, topics>>

CheckSlots(p) ==
    /\ pubAt(p, "slots")
    /\ \/ /\ Cardinality(pubCall[p].ids) <= MaxItems - countByThirdPartyId
          /\ pubGoto(p, "items")
          /\ UNCHANGED pubLocals
       \/ /\ Cardinality(pubCall[p].ids) > MaxItems - countByThirdPartyId
          /\ pubReject(p)
    /\ UNCHANGED <<tables, clock, topics>>

\* Mutant: any quantity is accepted.
anyQuantity(p, found) == pubCall[p].qty > 0

hasQuantityOf(p, found) == pubCall[p].qty = Cardinality(found)

\* Item.findByIds and the checks on what it returned.  The signature is
\* taken to be that of the signer.
FindItems(p) ==
    LET found == pubCall[p].ids \cap items
        accepted == /\ found # {}
                    /\ hasQuantityOf(p, found)
                    /\ \A i \in found : CollectionOf[i] = pubCall[p].collection
    IN  /\ pubAt(p, "items")
        /\ \/ /\ accepted
              /\ pubItems' = [pubItems EXCEPT ![p] =
                     [i \in Items |-> IF i \in found THEN contentHash[i] ELSE NoHash]]
              /\ pubGoto(p, "pending")
              /\ UNCHANGED <<pubCall, pubTodo, pubError, pubCreated>>
           \/ /\ ~accepted
              /\ pubReject(p)
        /\ UNCHANGED <<tables, clock, topics>>

CheckPending(p) ==
    /\ pubAt(p, "pending")
    /\ \/ /\ hasPendingByCollectionId(pubCall[p].collection)
          /\ pubReject(p)
          /\ UNCHANGED clock
       \/ /\ ~hasPendingByCollectionId(pubCall[p].collection)
          /\ pubCreated' = [pubCreated EXCEPT ![p] = clock]
          /\ clock' = clock + 1
          /\ pubGoto(p, "cheque")
          /\ UNCHANGED <<pubCall, pubItems, pubTodo, pubError>>
    /\ UNCHANGED <<tables, topics>>

-----------------------------------------------------------------------------
(* Writes.                                                                 *)

\* When the insert fails newSlotUsageCheque is undefined and no id of an item
\* curation was drawn: the rollback has only an empty deleteByIds to run.
CreateCheque(p) ==
    /\ pubAt(p, "cheque")
    /\ \/ /\ cheques' = cheques \cup
                 {[by |-> p, collection |-> pubCall[p].collection, qty |-> pubCall[p].qty]}
          /\ pubTodo' = [pubTodo EXCEPT ![p] = dbItems(p)]
          /\ pubGoto(p, "curations")
       \/ /\ mayFail("database")
          /\ pubGoto(p, "undoCurations")
          /\ UNCHANGED <<cheques, pubTodo>>
    /\ UNCHANGED <<collections, items, contentHash, forumId, itemCurations,
                   collectionCurations, clock, pubCall, pubItems, pubError,
                   pubCreated, topics>>

\* One create of the batch; the foreign key refuses an item deleted meanwhile.
CreateItemCuration(p) ==
    /\ pubAt(p, "curations")
    /\ \E i \in pubTodo[p] :
           /\ pubTodo' = [pubTodo EXCEPT ![p] = @ \ {i}]
           /\ \/ /\ i \in items
                 /\ itemCurations' = itemCurations \cup
                        {[by |-> p, item |-> i, status |-> "pending",
                          hash |-> pubItems[p][i], created |-> pubCreated[p]]}
                 /\ UNCHANGED pubError
              \/ /\ i \notin items \/ mayFail("database")
                 /\ pubError' = [pubError EXCEPT ![p] = TRUE]
                 /\ UNCHANGED itemCurations
    /\ UNCHANGED <<collections, items, contentHash, forumId, collectionCurations,
                   cheques, clock, pubPc, pubCall, pubItems, pubCreated, topics>>

\* Mutant: Promise.allSettled instead of Promise.all.
ignoreFailures(p) == FALSE

hasFailed(p) == pubError[p]

FinishItemCurations(p) ==
    /\ pubAt(p, "curations")
    /\ pubTodo[p] = {}
    /\ \/ hasFailed(p) /\ pubGoto(p, "undoCheque")
       \/ ~hasFailed(p) /\ pubGoto(p, "collection")
    /\ UNCHANGED <<tables, clock, pubLocals, topics>>

\* CollectionCuration.findOne(collectionId) looks the collection's id up as
\* the id of a curation, a fresh uuid: it never finds one, so the branch that
\* refreshes an existing virtual curation is dead and a row is always created.
CreateCollectionCuration(p) ==
    LET c == pubCall[p].collection
    IN  /\ pubAt(p, "collection")
        /\ \/ /\ c \in collections
              /\ collectionCurations' = collectionCurations \cup
                     {[by |-> p, collection |-> c, status |-> "pending",
                       created |-> pubCreated[p]]}
              /\ pubGoto(p, "forum")
           \/ /\ c \notin collections \/ mayFail("database")
              /\ pubGoto(p, "undoCheque")
              /\ UNCHANGED collectionCurations
        /\ UNCHANGED <<collections, items, contentHash, forumId, itemCurations,
                       cheques, clock, pubLocals, topics>>

\* Mutant: the ids are collected from the results, so none when one failed.
curationsOfResults(p) == {cur \in itemCurations : cur.by = p /\ ~pubError[p]}

\* The rows with the ids drawn before each create was sent.
curationsOfIds(p) == {cur \in itemCurations : cur.by = p}

\* The catch: one Promise.all deletes the cheque, then the item curations, even
\* when the first delete fails.
DeleteCheque(p) ==
    /\ pubAt(p, "undoCheque")
    /\ \/ /\ cheques' = {cheque \in cheques : cheque.by # p}
          /\ pubGoto(p, "undoCurations")
       \/ /\ mayFail("rollback")
          /\ pubGoto(p, "undoRest")
          /\ UNCHANGED cheques
    /\ UNCHANGED <<collections, items, contentHash, forumId, itemCurations,
                   collectionCurations, clock, pubLocals, topics>>

DeleteItemCurations(p) ==
    /\ pubPc[p] \in {"undoCurations", "undoRest"}
    /\ \/ /\ itemCurations' = itemCurations \ curationsOfIds(p)
          /\ pubFail(p, IF pubAt(p, "undoRest") THEN "dirty" ELSE "rejected")
       \/ /\ mayFail("rollback")
          /\ pubFail(p, "dirty")
          /\ UNCHANGED itemCurations
    /\ UNCHANGED <<collections, items, contentHash, forumId,
                   collectionCurations, cheques, clock, topics>>

-----------------------------------------------------------------------------
(* ForumService.upsertThirdPartyCollectionForumPost, which runs after the  *)
(* publication is stored and on the collection row read before it.  The    *)
(* forum is an external service: it may fail, and then the request fails.  *)
(* So does Bridge.consolidateTPItems, which asks the content server first. *)

CreatePost(p) ==
    /\ pubAt(p, "forum")
    /\ pubCall[p].forum = NoTopic
    /\ \/ topics' = topics \cup {p} /\ pubGoto(p, "link")
       \/ mayFail("forum") /\ pubGoto(p, "unposted") /\ UNCHANGED topics
    /\ UNCHANGED <<tables, clock, pubLocals>>

UpdatePost(p) ==
    /\ pubAt(p, "forum")
    /\ pubCall[p].forum # NoTopic
    /\ \/ pubGoto(p, "done")
       \/ mayFail("forum") /\ pubGoto(p, "unposted")
    /\ UNCHANGED <<tables, clock, pubLocals, topics>>

\* Mutant: the topic is not stored on a collection that exists.
keptTopic(p, c) == forumId[c]

storedTopic(p, c) == IF c \in collections THEN p ELSE forumId[c]

LinkPost(p) ==
    LET c == pubCall[p].collection
    IN  /\ pubAt(p, "link")
        /\ \/ /\ forumId' = [forumId EXCEPT ![c] = storedTopic(p, c)]
              /\ pubGoto(p, "done")
           \/ /\ mayFail("database")
              /\ pubGoto(p, "unposted")
              /\ UNCHANGED forumId
        /\ UNCHANGED <<collections, items, contentHash, itemCurations,
                       collectionCurations, cheques, clock, pubLocals, topics>>

\* The process serving the request dies between two statements.
CrashPublish(p) ==
    /\ mayFail("crash")
    /\ pubPc[p] \notin PubFinal \cup {"idle"}
    /\ pubGoto(p, IF pubAt(p, "undoCurations") THEN "dirty" ELSE "crashed")
    /\ UNCHANGED <<tables, clock, pubLocals, topics>>

PublishStep(p) ==
    \/ CheckSlots(p) \/ FindItems(p) \/ CheckPending(p)
    \/ CreateCheque(p) \/ CreateItemCuration(p) \/ FinishItemCurations(p)
    \/ CreateCollectionCuration(p)
    \/ DeleteCheque(p) \/ DeleteItemCurations(p)
    \/ CreatePost(p) \/ UpdatePost(p) \/ LinkPost(p)

Publish(p) == StartPublish(p) \/ PublishStep(p) \/ CrashPublish(p)

=============================================================================
