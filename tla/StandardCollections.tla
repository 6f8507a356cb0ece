------------------------- MODULE StandardCollections -------------------------
(***************************************************************************)
(* Standard (DCL) collections and their items, from the draft to the       *)
(* contract (Collection.service.ts, Item.service.ts, Collection.router.ts):*)
(*   - "save":    PUT /collections/:id, upsertDCLCollection;               *)
(*   - "drop":    DELETE /collections/:id, deleteCollection;               *)
(*   - "put":     PUT /items/:id, upsertItem and upsertDCLItem;            *)
(*   - "remove":  DELETE /items/:id, deleteItem and deleteDCLItem;         *)
(*   - "publish": POST /collections/:id/publish, publishDCLCollection;     *)
(*   - "post":    POST /collections/:id/post, ForumRouter.post;            *)
(*   - Lock:      POST /collections/:id/lock.                              *)
(*                                                                         *)
(* The client locks a collection, sends the transaction that deploys its   *)
(* contract with the items in the order it knows, and asks for the         *)
(* publication once it is mined.  Chain and graph are external, and so is  *)
(* the time that makes a lock run out.                                     *)
(*                                                                         *)
(* A contract is told apart by its collection and the data it was saved    *)
(* with: getContractAddress is a hash of the salt, made of the id, and of  *)
(* the data.  Names, files and metadata of items are left out.             *)
(*                                                                         *)
(* The ownership checks of the routes are merged with the first read of    *)
(* the handler (the owner of a stored collection is never changed);        *)
(* created_at is distinct for every insert; the three questions of         *)
(* isDCLPublished are asked in one step.                                   *)
(***************************************************************************)
EXTENDS Integers, FiniteSets, Sequences, SequencesExt

CONSTANTS
    Collections, Items, Users,
    Managers,           \* users who manage the contracts, in the graph
    RowManagers,        \* users the owners' saves name in the managers column
    Data,               \* data a collection may be saved with
    Rarities,
    BodyRarities,       \* rarities a PUT may bring, null among them
    None,               \* null
    Deployable,         \* collections whose owners mean to publish them
    StoredCollections,  \* rows of the initial state
    StoredItems,
    Requests,
    Kinds,              \* of requests the clients send
    MayFail,            \* whether a statement of a Promise.all may fail
    MaxInserts,         \* bound on the items created
    MaxMishaps          \* bound on the kinds of mishaps of a behaviour

CollectionRows == [owner : Users, lock : {"none", "active", "expired"}, data : Data]

ASSUME StandardAssumption ==
    /\ StoredCollections \in [Collections -> CollectionRows \cup {None}]
    /\ None \notin Nat \cup Collections \cup Items \cup Users \cup Data \cup Rarities
    /\ Managers \cup RowManagers \subseteq Users
    /\ BodyRarities \subseteq Rarities \cup {None}
    /\ Deployable \subseteq Collections
    /\ Data # {} /\ MayFail \in BOOLEAN
    /\ {MaxInserts, MaxMishaps} \subseteq Nat

VARIABLES
    collections,    \* row of each collection, or None
    links,          \* collections with a forum_link, a column told apart from the row
    items,          \* row of each item, or None
    clock,          \* created_at of the youngest item
    tx,             \* transaction of each collection, or None
    topics,         \* collections the forum has a topic for, or several
    req,            \* locals of each request
    mishaps         \* what has happened that the handlers do not guard against (ghost)

vars == <<collections, links, items, clock, tx, topics, req, mishaps>>

ItemRows == [owner : Users, place : Collections \cup {None}, chainId : Nat \cup {None},
             rarity : Rarities \cup {None}, created : Nat]
Transactions == [status : {"pending", "mined", "indexed"}, data : Data, items : Seq(Items),
                 rarity : [Items -> Rarities \cup {None}]]

\* The rows of the initial state are drafts, each in a collection of its owner.
ASSUME StoredAssumption ==
    /\ IsFiniteSet(Items) /\ IsFiniteSet(Requests)
    /\ None \notin CollectionRows \cup ItemRows \cup Transactions
    /\ StoredItems \in [Items -> ItemRows \cup {None}]
    /\ LET drafts == {i \in Items : StoredItems[i] # None}
       IN  \A i \in drafts :
             /\ StoredItems[i].chainId = None
             /\ StoredItems[i].created <= Cardinality(drafts)
             /\ \A j \in drafts : StoredItems[i].created = StoredItems[j].created => i = j
             /\ StoredItems[i].place # None =>
                   /\ StoredCollections[StoredItems[i].place] # None
                   /\ StoredCollections[StoredItems[i].place].owner = StoredItems[i].owner

Idle == [kind |-> None, pc |-> "idle", user |-> None, item |-> None, place |-> None,
         rarity |-> None, data |-> None, was |-> None, home |-> None, row |-> None,
         dest |-> None, link |-> FALSE, manages |-> FALSE, order |-> <<>>, todo |-> {}]

\* Every column and every local keeps its type, whatever interleaves.
TypeOK ==
    /\ collections \in [Collections -> CollectionRows \cup {None}]
    /\ items \in [Items -> ItemRows \cup {None}]
    /\ clock \in Nat
    /\ \A c \in Collections : tx[c] = None \/ tx[c] \in Transactions
    /\ \A r \in Requests :
          /\ req[r].was \in ItemRows \cup {None}
          /\ {req[r].row, req[r].dest} \subseteq CollectionRows \cup {None}
          /\ req[r].todo \subseteq Items \X Nat \/ req[r].kind = "drop"
    /\ topics \subseteq Collections /\ links \subseteq Collections
    /\ mishaps \subseteq {"straddle", "late", "unlinked"}

Init ==
    /\ collections = StoredCollections
    /\ items = StoredItems
    /\ clock = Cardinality({i \in Items : StoredItems[i] # None})
    /\ tx = [c \in Collections |-> None]
    /\ topics = {} /\ links = {}
    /\ req = [r \in Requests |-> Idle]
    /\ mishaps = {}

-----------------------------------------------------------------------------
(* Queries.                                                                *)

stored == {c \in Collections : collections[c] # None}
itemsIn(c) == {i \in Items : items[i] # None /\ items[i].place = c}

\* ORDER BY created_at.  (SortSeq has no definition a proof can expand.)
inOrder(S, created) ==
    CHOOSE order \in [1..Cardinality(S) -> S] :
        \A j, k \in DOMAIN order : j < k => created[order[j]] < created[order[k]]

\* Item.findOrderedByCollectionId
findOrderedByCollectionId(c) == inOrder(itemsIn(c), [i \in itemsIn(c) |-> items[i].created])

\* Item.hasPublishedItems, by the contract of the collection.
hasPublishedItems(c, data) ==
    /\ collections[c] # None /\ collections[c].data = data
    /\ \E i \in itemsIn(c) : items[i].chainId # None

isDeployed(c, data) == tx[c] # None /\ tx[c].data = data /\ tx[c].status # "pending"
isIndexed(c, data) == isDeployed(c, data) /\ tx[c].status = "indexed"

\* Mutant: the graph alone is asked whether a collection is published.
isIndexedPublished(c, data) == isIndexed(c, data)

\* The items first, then the chain, then the graph, which is behind the chain.
isDCLPublished(c, data) == hasPublishedItems(c, data) \/ isDeployed(c, data)

\* The managers of a merged collection are those of its remote counterpart; before
\* the graph has one, those of the row.
isManaged(c, user) ==
    /\ collections[c] # None
    /\ user \in IF isIndexed(c, collections[c].data) THEN Managers ELSE RowManagers

isCollectionOwnedOrManagedBy(c, user) ==
    collections[c] # None /\ (collections[c].owner = user \/ isManaged(c, user))

isItemOwnedOrManagedBy(i, user) ==
    IF items[i].place # None THEN isCollectionOwnedOrManagedBy(items[i].place, user)
    ELSE items[i].owner = user

isUnlocked(row) == row.lock # "active"

-----------------------------------------------------------------------------
(* Requests.                                                               *)

inFlight == {r \in Requests : req[r].pc # "idle"}
rows == <<collections, items, clock>>
outside == <<tx, topics, links>>

\* A mishap is noted once; the properties say which of them they allow for.
note(what, happens) ==
    /\ mishaps' = IF happens THEN mishaps \cup {what} ELSE mishaps
    /\ Cardinality(mishaps') <= MaxMishaps

answer(r) == req' = [req EXCEPT ![r] = Idle]

\* On past a check, with the locals that are still used.
goOnIf(r, condition, locals) ==
    IF condition THEN req' = [req EXCEPT ![r] = [locals EXCEPT !.pc = "write"]]
    ELSE answer(r)

ask(kind, pc) == [Idle EXCEPT !.kind = kind, !.pc = pc]

start(r, locals) ==
    /\ req[r].pc = "idle"
    /\ locals.kind \in Kinds
    /\ req' = [req EXCEPT ![r] = locals]
    /\ UNCHANGED <<rows, outside, mishaps>>

at(r, kind, pc) == req[r].kind = kind /\ req[r].pc = pc

-----------------------------------------------------------------------------
(* upsertDCLCollection.                                                    *)

\* The link to the topic as the client has it: it may not have seen it yet.
linksOf(c) == IF c \in links THEN BOOLEAN ELSE {FALSE}

\* The handler of PUT /collections/:id, up to Ownable.canUpsert and the first read.
StartSave(r, user, c, data) ==
    /\ collections[c] # None => collections[c].owner = user
    /\ \E link \in linksOf(c) :
           start(r, [ask("save", "row") EXCEPT !.user = user, !.home = c, !.data = data,
                                               !.link = link])

\* Collection.findOne; a new collection is not checked.
ReadSaved(r) ==
    /\ at(r, "save", "row")
    /\ LET row == collections[req[r].home]
       IN req' = [req EXCEPT ![r].row = row, ![r].pc = IF row = None THEN "write" ELSE "check"]
    /\ UNCHANGED <<rows, outside, mishaps>>

CheckSaved(r) ==
    /\ at(r, "save", "check")
    /\ goOnIf(r, ~isDCLPublished(req[r].home, req[r].row.data) /\ isUnlocked(req[r].row),
              [req[r] EXCEPT !.row = None])
    /\ UNCHANGED <<rows, outside, mishaps>>

\* Mutant: the row is written with the lock of a new collection.
resetLock(c) == "none"

\* toDBCollection leaves the lock out of the columns that are written.
keptLock(c) == IF collections[c] = None THEN "none" ELSE collections[c].lock

\* Mutant: the link is not among the columns that are written.
leftOut(set, c, linked) == set

written(set, c, linked) == IF linked THEN set \cup {c} ELSE set \ {c}

\* The link is written as the client sent it.
WriteCollection(r) ==
    LET c == req[r].home
    IN  /\ at(r, "save", "write")
        /\ collections' = [collections EXCEPT ![c] =
                              [owner |-> req[r].user, lock |-> keptLock(c),
                               data |-> req[r].data]]
        /\ links' = written(links, c, req[r].link)
        /\ answer(r)
        /\ note("unlinked", /\ c \in topics
                            /\ collections[c] = None \/ (c \in links) # req[r].link)
        /\ UNCHANGED <<items, clock, tx, topics>>

\* lockCollection: UPDATE ... WHERE id AND eth_address.
Lock(c) ==
    /\ collections[c] # None
    /\ collections[c].lock # "active"
    /\ collections' = [collections EXCEPT ![c].lock = "active"]
    /\ note("straddle", inFlight # {})
    /\ UNCHANGED <<items, clock, outside, req>>

-----------------------------------------------------------------------------
(* deleteCollection and deleteItem, behind withModelAuthorization.         *)

\* The handler of DELETE /collections/:id.
StartDrop(r, user, c) ==
    /\ isCollectionOwnedOrManagedBy(c, user)
    /\ start(r, [ask("drop", "check") EXCEPT !.home = c, !.row = collections[c]])

mayDelete(c, row) == ~isDCLPublished(c, row.data) /\ isUnlocked(row)

CheckDrop(r) ==
    /\ at(r, "drop", "check")
    /\ \/ /\ mayDelete(req[r].home, req[r].row)
          /\ req' = [req EXCEPT ![r].pc = "delete", ![r].todo = {"collection", "items"}]
       \/ ~mayDelete(req[r].home, req[r].row) /\ answer(r)
    /\ UNCHANGED <<rows, outside, mishaps>>

\* The deletes of the Promise.all, in either order; each may fail alone.
Drop(r) ==
    /\ at(r, "drop", "delete")
    /\ \E what \in req[r].todo :
          /\ IF req[r].todo = {what} THEN answer(r)
             ELSE req' = [req EXCEPT ![r].todo = @ \ {what}]
          /\ \/ /\ what = "collection"
                /\ collections' = [collections EXCEPT ![req[r].home] = None]
                /\ links' = links \ {req[r].home}
                /\ UNCHANGED items
             \/ /\ what = "items"
                /\ items' = [i \in Items |-> IF i \in itemsIn(req[r].home) THEN None
                                             ELSE items[i]]
                /\ UNCHANGED <<collections, links>>
             \/ MayFail /\ UNCHANGED <<collections, links, items>>
    /\ UNCHANGED <<clock, tx, topics, mishaps>>

\* The handler of DELETE /items/:id.
StartRemove(r, user, i) ==
    /\ items[i] # None
    /\ isItemOwnedOrManagedBy(i, user)
    /\ start(r, [ask("remove", IF items[i].place = None THEN "write" ELSE "row")
                     EXCEPT !.item = i, !.home = items[i].place])

\* getDBCollection refuses an item whose collection is missing.
ReadRemoved(r) ==
    /\ at(r, "remove", "row")
    /\ \/ /\ collections[req[r].home] # None
          /\ req' = [req EXCEPT ![r].row = collections[req[r].home], ![r].pc = "check"]
       \/ collections[req[r].home] = None /\ answer(r)
    /\ UNCHANGED <<rows, outside, mishaps>>

CheckRemoved(r) ==
    /\ at(r, "remove", "check")
    /\ goOnIf(r, mayDelete(req[r].home, req[r].row),
              [req[r] EXCEPT !.home = None, !.row = None])
    /\ UNCHANGED <<rows, outside, mishaps>>

RemoveItem(r) ==
    /\ at(r, "remove", "write")
    /\ items' = [items EXCEPT ![req[r].item] = None]
    /\ answer(r)
    /\ UNCHANGED <<collections, clock, outside, mishaps>>

-----------------------------------------------------------------------------
(* upsertItem and upsertDCLItem.                                           *)

\* The handler of PUT /items/:id: Item.findOne, and where the item is put.
StartPut(r, user, i, place, rarity) ==
    /\ items[i] # None \/ clock < MaxInserts
    /\ start(r, [ask("put", "rows") EXCEPT
                     !.user = user, !.item = i, !.place = place, !.rarity = rarity,
                     !.was = items[i],
                     !.home = IF items[i] # None /\ items[i].place # None THEN items[i].place
                              ELSE place])

isInsert(r) == req[r].was = None
isOrphan(r) == ~isInsert(r) /\ req[r].was.place = None
isMovingItemBetweenCollections(r) ==
    /\ ~isInsert(r) /\ ~isOrphan(r)
    /\ req[r].place \notin {None, req[r].was.place}
isMovingOrphanItemIntoACollection(r) == isOrphan(r) /\ req[r].place # None
hasDest(r) == isMovingItemBetweenCollections(r) \/ isMovingOrphanItemIntoACollection(r)

\* getCollection of both collections, the managers with them; a missing one
\* refuses the request.
ReadCollections(r) ==
    LET wanted == {req[r].home} \cup IF hasDest(r) THEN {req[r].place} ELSE {}
        found == {c \in wanted : c = None \/ collections[c] # None}
        rowOf(c) == IF c = None THEN None ELSE collections[c]
    IN  /\ at(r, "put", "rows")
        /\ \/ wanted # found /\ answer(r)
           \/ /\ wanted = found
              /\ req' = [req EXCEPT ![r].pc = "check",
                            ![r].row = rowOf(req[r].home),
                            ![r].dest = IF hasDest(r) THEN rowOf(req[r].place) ELSE None,
                            ![r].manages = /\ req[r].home # None
                                           /\ isManaged(req[r].home, req[r].user)]
        /\ UNCHANGED <<rows, outside, mishaps>>

isRarityBeingChanged(r) ==
    /\ req[r].rarity # None /\ req[r].was.rarity # None
    /\ req[r].rarity # req[r].was.rarity

\* Mutant: the item of a published collection may be taken out of it.
mayTakeOut(r) ==
    /\ ~isInsert(r) /\ ~isOrphan(r)
    /\ ~isMovingItemBetweenCollections(r)
    /\ ~isRarityBeingChanged(r)

\* What is still allowed in a published collection.
mayChangePublished(r) ==
    /\ ~isInsert(r) /\ ~isOrphan(r)
    /\ ~isMovingItemBetweenCollections(r)
    /\ req[r].place # None
    /\ ~isRarityBeingChanged(r)

mayPut(r) ==
    LET here == req[r]
        isDbItemCollectionPublished ==
            here.row # None /\ isDCLPublished(here.home, here.row.data)
        isItemCollectionPublished ==
            isMovingItemBetweenCollections(r) /\ isDCLPublished(here.place, here.dest.data)
    IN  /\ isInsert(r) \/ isOrphan(r) =>
               items[here.item] = None \/ items[here.item].owner = here.user
        /\ here.row # None =>
               /\ \/ here.row.owner = here.user
                  \/ isDbItemCollectionPublished /\ here.manages
               /\ IF isDbItemCollectionPublished THEN mayChangePublished(r)
                  ELSE isUnlocked(here.row)
        /\ here.dest # None =>
               /\ here.dest.owner = here.user
               /\ ~isItemCollectionPublished
               /\ isUnlocked(here.dest)

CheckPut(r) ==
    /\ at(r, "put", "check")
    /\ goOnIf(r, mayPut(r), [req[r] EXCEPT !.home = None, !.row = None, !.dest = None,
                                            !.manages = FALSE])
    /\ UNCHANGED <<rows, outside, mishaps>>

\* Mutant: every edit makes the item the youngest of its collection.
stampedAnew(r) == clock + 1

createdAt(r) == IF isInsert(r) THEN clock + 1 ELSE req[r].was.created

blockchainItemId(r) == IF isInsert(r) THEN None ELSE req[r].was.chainId

\* Mutant: an item is of whoever edited it last.
editorOf(r) == req[r].user

ownerOf(r) == IF isInsert(r) THEN req[r].user ELSE req[r].was.owner

\* Item.upsert writes the whole row, with what was read of it before.
WriteItem(r) ==
    /\ at(r, "put", "write")
    /\ clock' = IF createdAt(r) > clock THEN createdAt(r) ELSE clock
    /\ items' = [items EXCEPT ![req[r].item] =
                    [owner |-> ownerOf(r),
                     place |-> req[r].place, rarity |-> req[r].rarity,
                     chainId |-> blockchainItemId(r), created |-> createdAt(r)]]
    /\ answer(r)
    /\ UNCHANGED <<collections, outside, mishaps>>

-----------------------------------------------------------------------------
(* publishDCLCollection.                                                   *)

StartPublish(r, user, c) ==
    /\ isCollectionOwnedOrManagedBy(c, user)
    /\ start(r, [ask("publish", "items") EXCEPT !.home = c, !.data = collections[c].data])

FindItems(r) ==
    LET order == findOrderedByCollectionId(req[r].home)
    IN  /\ at(r, "publish", "items")
        /\ req' = [req EXCEPT ![r].pc = "graph",
                      ![r].order = [k \in 1..Len(order) |->
                                       <<order[k], items[order[k]].chainId # None>>]]
        /\ UNCHANGED <<rows, outside, mishaps>>

\* Mutant: only the items that have no id yet are numbered.
numberedFromZero(order, remote) ==
    LET missing == SelectSeq(order, LAMBDA entry : ~entry[2])
    IN {<<missing[k][1], k - 1>> : k \in 1..Len(missing)}

\* The loop of the updates ends at the first item the contract does not have.
updatesOf(order, remote) ==
    {<<order[k][1], k - 1>> : k \in {k \in 1..Len(order) : k <= Len(remote)}}

\* UnpublishedCollectionError without a remote collection; otherwise, if an id
\* is missing, every item is given the id of its place in the collection.
AskGraph(r) ==
    LET here == req[r]
        isMissingBlockchainItemIds == \E k \in DOMAIN here.order : ~here.order[k][2]
        todo == updatesOf(here.order, tx[here.home].items)
    IN  /\ at(r, "publish", "graph")
        /\ \/ /\ isIndexed(here.home, here.data)
              /\ isMissingBlockchainItemIds /\ todo # {}
              /\ req' = [req EXCEPT ![r].pc = "updates", ![r].todo = todo,
                            ![r].order = <<>>, ![r].data = None]
           \/ /\ isIndexed(here.home, here.data)
              /\ ~isMissingBlockchainItemIds \/ todo = {}
              /\ answer(r)
           \/ ~isIndexed(here.home, here.data) /\ answer(r)
        /\ UNCHANGED <<rows, outside, mishaps>>

\* An update of the Promise.all: of the id alone, by the id of the item.
UpdateItem(r) ==
    /\ at(r, "publish", "updates")
    /\ \E update \in req[r].todo :
          /\ IF req[r].todo = {update} THEN answer(r)
             ELSE req' = [req EXCEPT ![r].todo = @ \ {update}]
          /\ \/ /\ items[update[1]] # None
                /\ items' = [items EXCEPT ![update[1]].chainId = update[2]]
             \/ (items[update[1]] = None \/ MayFail) /\ UNCHANGED items
    /\ UNCHANGED <<collections, clock, outside, mishaps>>

-----------------------------------------------------------------------------
(* ForumRouter.post.                                                       *)

\* The handler of POST /collections/:id/post, up to the check of the link.
StartPost(r, user, c) ==
    /\ isCollectionOwnedOrManagedBy(c, user)
    /\ c \notin links
    /\ start(r, [ask("post", "create") EXCEPT !.home = c])

\* createPost: the forum answers with the new topic, or with errors.
CreatePost(r) ==
    LET c == req[r].home
    IN  /\ at(r, "post", "create")
        /\ \/ /\ topics' = topics \cup {c}
              /\ req' = [req EXCEPT ![r].pc = "link", ![r].link = TRUE]
           \/ MayFail /\ answer(r) /\ UNCHANGED topics
        /\ UNCHANGED <<rows, tx, links, mishaps>>

\* Collection.update of the two columns of the link, if the row is still there.
LinkPost(r) ==
    LET c == req[r].home
    IN  /\ at(r, "post", "link")
        /\ \/ /\ links' = IF collections[c] = None THEN links
                          ELSE written(links, c, req[r].link)
              /\ UNCHANGED mishaps
           \/ MayFail /\ note("unlinked", TRUE) /\ UNCHANGED links
        /\ answer(r)
        /\ UNCHANGED <<rows, tx, topics>>

-----------------------------------------------------------------------------
(* The client, the chain, the graph and the time.                          *)

\* The client that locked the collection sends its transaction, once.
SendTransaction(c) ==
    /\ collections[c] # None /\ collections[c].lock = "active"
    /\ tx[c] = None
    /\ itemsIn(c) # {}
    /\ tx' = [tx EXCEPT ![c] = [status |-> "pending", data |-> collections[c].data,
                               items |-> findOrderedByCollectionId(c),
                               rarity |-> [i \in Items |-> IF i \in itemsIn(c)
                                                           THEN items[i].rarity ELSE None]]]
    /\ UNCHANGED <<rows, topics, links, req, mishaps>>

isUnguarded(c) == collections[c] # None => isUnlocked(collections[c])

Mine(c) ==
    /\ tx[c] # None /\ tx[c].status = "pending"
    /\ tx' = [tx EXCEPT ![c].status = "mined"]
    /\ note("straddle", inFlight # {} /\ isUnguarded(c))
    /\ UNCHANGED <<rows, topics, links, req>>

Index(c) ==
    /\ tx[c] # None /\ tx[c].status = "mined"
    /\ tx' = [tx EXCEPT ![c].status = "indexed"]
    /\ UNCHANGED <<rows, topics, links, req, mishaps>>

\* isLockActive: a day has passed since the lock was set.
Expire(c) ==
    /\ collections[c] # None /\ collections[c].lock = "active"
    /\ collections' = [collections EXCEPT ![c].lock = "expired"]
    /\ note("late", tx[c] # None /\ tx[c].status = "pending")
    /\ UNCHANGED <<items, clock, outside, req>>

\* The data is only told apart where it makes a contract.
dataFor(c) == IF c \in Deployable THEN Data ELSE {CHOOSE data \in Data : TRUE}

Start(r) ==
    \E user \in Users :
        \/ \E c \in Collections : \E data \in dataFor(c) : StartSave(r, user, c, data)
        \/ \E c \in Collections : StartDrop(r, user, c) \/ StartPublish(r, user, c)
                                  \/ StartPost(r, user, c)
        \/ \E i \in Items : StartRemove(r, user, i)
        \/ \E i \in Items, place \in Collections \cup {None},
              rarity \in BodyRarities : StartPut(r, user, i, place, rarity)

Step(r) ==
    \/ ReadSaved(r) \/ CheckSaved(r) \/ WriteCollection(r)
    \/ CheckDrop(r) \/ Drop(r)
    \/ ReadRemoved(r) \/ CheckRemoved(r) \/ RemoveItem(r)
    \/ ReadCollections(r) \/ CheckPut(r) \/ WriteItem(r)
    \/ FindItems(r) \/ AskGraph(r) \/ UpdateItem(r)
    \/ CreatePost(r) \/ LinkPost(r)

External(c) == Lock(c) \/ SendTransaction(c) \/ Mine(c) \/ Index(c) \/ Expire(c)

Next ==
    \/ \E r \in Requests : Start(r) \/ Step(r)
    \/ \E c \in Deployable : External(c)

Spec == Init /\ [][Next]_vars

-----------------------------------------------------------------------------
(* Properties.  Each says which mishaps it cannot stand:                   *)
(*   - "straddle": a request was in flight when the lock was set, or when  *)
(*                 the contract was mined without one;                     *)
(*   - "late":     a lock expired before its transaction was mined;        *)
(*   - "unlinked": a topic was not linked, or a save wrote another link to *)
(*                 it than the stored one.                                 *)

never(what) == mishaps \cap what = {}

indexIn(c, i) == {k \in DOMAIN tx[c].items : tx[c].items[k] = i}

\* The id an item is given is its place in the contract: the server counts the
\* items by created_at long after the client has sent them in that order, and
\* after edits and publications that were cut short.
IdsMatchChain ==
    never({"straddle", "late"}) =>
        \A c \in Collections : \A i \in itemsIn(c) :
            items[i].chainId # None =>
                tx[c] # None /\ items[i].chainId + 1 \in indexIn(c, i)

\* What a contract was made of is still stored once it is deployed: the lock
\* covers the time until then and isDCLPublished the time after, when the
\* items have no id yet or the graph has not seen the contract.
OnChainIsStored ==
    never({"straddle", "late"}) =>
        \A c \in Collections :
            tx[c] # None =>
                /\ collections[c] # None /\ collections[c].data = tx[c].data
                /\ itemsIn(c) = ToSet(tx[c].items)

\* An item with an id is in a collection that is deployed as it is stored, even
\* one deployed late (unless requests may overlap besides): it is not moved, taken
\* out or left behind by its collection.
PublishedStaysInPlace ==
    never({"straddle"}) /\ ("late" \in mishaps => Cardinality(Requests) = 1) =>
        \A i \in Items :
            items[i] # None /\ items[i].chainId # None =>
                \E c \in Collections :
                    /\ items[i].place = c /\ collections[c] # None
                    /\ isDeployed(c, collections[c].data)

\* The items of a collection are its owner's, whoever manages and edits them, and
\* none is left in a collection that is gone, as long as no requests overlap and
\* no statement fails.
ItemsAreTheirCollectionsOwners ==
    Cardinality(Requests) = 1 /\ ~MayFail =>
        \A c \in Collections : \A i \in itemsIn(c) :
            /\ inFlight = {} => collections[c] # None
            /\ collections[c] # None => items[i].owner = collections[c].owner

\* However requests overlap, a lock ends with its time or with its collection:
\* a save that was checked before the lock does not lift it.
LockIsNotLifted ==
    [][\A c \in Collections :
          collections[c] # None /\ collections[c].lock = "active"
          /\ collections'[c] # None => collections'[c].lock # "none"]_vars

\* Once the posts are answered a topic of the collection is linked, whichever of
\* two that raced it is: the router reads the link before the forum is asked and
\* stores it after, while saves write the link their clients know.
TopicIsLinked ==
    never({"unlinked"}) =>
        \A c \in stored :
            c \in topics /\ (\A r \in inFlight : req[r].kind # "post") => c \in links

\* Once its contract is deployed no save may lose the link of a collection to
\* its topic, neither one that overlaps with the post nor one in the time the
\* graph is behind the chain.
PostStaysLinked ==
    [][\A c \in stored :
          /\ c \in links /\ isDeployed(c, collections[c].data)
          /\ never({"straddle", "late"}) /\ collections'[c] # None
          => c \in links']_vars

\* "Prohibits changing the rarity of a published item": it stays the one the
\* contract has, as long as there is one.
RarityIsFixed ==
    never({"straddle", "late"}) =>
        \A c \in Collections : \A i \in itemsIn(c) :
            tx[c] # None /\ None \notin {items[i].rarity, tx[c].rarity[i]} =>
                items[i].rarity = tx[c].rarity[i]

=============================================================================
