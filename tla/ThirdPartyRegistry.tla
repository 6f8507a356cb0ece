------------------------- MODULE ThirdPartyRegistry -------------------------
(***************************************************************************)
(* Third parties and the URNs of their collections and items               *)
(* (Collection.service.ts, Item.service.ts, ThirdParty.service.ts):        *)
(*   - "save":    PUT /collections/:id, upsertTPCollection;                *)
(*   - "drop":    DELETE /collections/:id, deleteCollection;               *)
(*   - "put":     PUT /items/:id, upsertThirdPartyItem;                    *)
(*   - "remove":  DELETE /items/:id, deleteThirdPartyItem;                 *)
(*   - "publish": POST /collections/:id/publish, of which only the insert  *)
(*                of an item curation matters here;                        *)
(*   - "forget":  DELETE /thirdParties/:id, removeVirtualThirdParty.       *)
(*                                                                         *)
(* A third party is registered in the graph, or virtual: a row that the    *)
(* first collection under a new id creates, that a trigger deletes with    *)
(* the last one, and that its manager may delete once the graph has it.    *)
(* A URN is the id of the third party, the suffix of the collection and    *)
(* the suffix of the item.  Unique constraints cover (third_party_id,      *)
(* urn_suffix) of collections and (collection_id, urn_suffix) of items.    *)
(*                                                                         *)
(* The reads before a write are one step: reads further apart matter only  *)
(* to requests that overlap, and those see old values here as well.  Third *)
(* party collections are never locked.  A third party has one manager; the *)
(* isProgrammatic flag (PATCH /thirdParties/:id), names and files are left *)
(* out, and so are PUTs by URN, which keep the suffix of the row they find.*)
(***************************************************************************)
EXTENDS Integers, FiniteSets

CONSTANTS
    Users, ThirdParties, Collections, Items,
    Clients,        \* users who send requests; the others may be managers in the graph
    Suffixes,       \* urn_suffix of collections
    ItemSuffixes,   \* urn_suffix of items
    Requests,
    None,           \* null
    MaxRegistered,  \* bound on the third parties that the graph comes to have
    MaxFaults       \* bound on the statements and queries that fail

CollectionRows == [party : ThirdParties, suffix : Suffixes]
ItemRows == [home : Collections, suffix : ItemSuffixes]

ASSUME RegistryAssumption ==
    /\ None \notin Users \cup ThirdParties \cup CollectionRows \cup ItemRows
    /\ Clients \subseteq Users
    /\ MaxRegistered \in Nat /\ MaxFaults \in Nat

VARIABLES
    collections,    \* row of each collection, or None
    items,          \* row of each item, or None
    curated,        \* items with a row in item_curations
    virtual,        \* manager in virtual_third_parties, or None
    graph,          \* manager in the third party graph, or None
    req,            \* locals of each request
    faults          \* failures so far

tables == <<collections, items, curated, virtual>>
vars == <<collections, items, curated, virtual, graph, req, faults>>

Idle == [kind |-> "none", pc |-> "idle", lone |-> FALSE, user |-> None, id |-> None,
         row |-> None, todo |-> {}]

Locals ==
    [kind : {"none", "save", "drop", "put", "remove", "publish", "forget"},
     pc : {"idle", "create", "urn", "delete", "write"},
     lone : BOOLEAN,
     user : Users \cup {None},
     id : Collections \cup Items \cup ThirdParties \cup {None},
     row : CollectionRows \cup ItemRows \cup {None},
     todo : SUBSET {"collection", "items"}]

\* Every column and every local keeps its type, and a curation always has its
\* item (item_curations.item_id references items), whatever interleaves.
TypeOK ==
    /\ collections \in [Collections -> CollectionRows \cup {None}]
    /\ items \in [Items -> ItemRows \cup {None}]
    /\ curated \subseteq {i \in Items : items[i] # None}
    /\ virtual \in [ThirdParties -> Users \cup {None}]
    /\ graph \in [ThirdParties -> Users \cup {None}]
    /\ req \in [Requests -> Locals]
    /\ \A r \in Requests :
          /\ req[r].kind = "save" => req[r].row \in CollectionRows
          /\ req[r].pc = "create" => req[r].user \in Users
          /\ req[r].kind = "drop" => req[r].id \in Collections
          /\ req[r].kind = "put" => req[r].row \in ItemRows
          /\ req[r].kind = "publish" => req[r].id \in Items
    /\ faults \in 0..MaxFaults

Init ==
    /\ collections = [c \in Collections |-> None]
    /\ items = [i \in Items |-> None]
    /\ curated = {}
    /\ virtual = [t \in ThirdParties |-> None]
    /\ graph = [t \in ThirdParties |-> None]
    /\ req = [r \in Requests |-> Idle]
    /\ faults = 0

-----------------------------------------------------------------------------
(* Queries.                                                                *)

\* The graph is asked first; the virtual third party is what it falls back on.
managerOf(t) == IF graph[t] # None THEN graph[t] ELSE virtual[t]

isManager(t, user) == managerOf(t) = user

fetchThirdPartiesByManager(user) == {t \in ThirdParties : graph[t] = user}

getVirtualThirdPartiesByManager(user) == {t \in ThirdParties : virtual[t] = user}

\* A virtual third party stays listed when the graph has it under another manager.
getThirdParties(user) ==
    fetchThirdPartiesByManager(user) \cup getVirtualThirdPartiesByManager(user)

partyOf(c) == IF collections[c] = None THEN None ELSE collections[c].party
itemsIn(c) == {i \in Items : items[i] # None /\ items[i].home = c}

\* isOwnedOrManagedBy of the collection, by the third party it is in.
managesCollection(c, user) == collections[c] # None /\ isManager(partyOf(c), user)

\* What the user is shown as his own.
getDbTPCollectionsByManager(user) ==
    {c \in Collections : collections[c] # None /\ partyOf(c) \in getThirdParties(user)}

\* Collection.isURNRepeated
isURNRepeated(c, row) == \E d \in Collections \ {c} : collections[d] = row

\* Item.isURNRepeated: over all collections of the third party, not this one only.
isItemURNRepeated(i, t, suffix) ==
    \E j \in Items \ {i} :
        /\ items[j] # None /\ items[j].suffix = suffix
        /\ partyOf(items[j].home) = t

hasPublishedItems(c) == itemsIn(c) \cap curated # {}

\* Mutant: there are no unique constraints.
anyRow(table, id, row) == TRUE

\* The unique constraints: a second row of the same third party, or collection,
\* with the same suffix is an error, and an upsert of the row itself is not.
fits(table, id, row) == \A other \in DOMAIN table \ {id} : table[other] # row

-----------------------------------------------------------------------------
(* Requests.                                                               *)

inFlight == {r \in Requests : req[r].pc # "idle"}

goto(r, pc) == req' = [req EXCEPT ![r].pc = pc]
answer(r) == req' = [req EXCEPT ![r] = Idle]
at(r, kind, pc) == req[r].kind = kind /\ req[r].pc = pc

\* A request that is not refused at once goes on to its writes.
\* lone (ghost): nobody else is served from its first read to its answer.
start(r, locals) ==
    /\ req[r].pc = "idle"
    /\ req' = [q \in Requests |->
                  IF q = r THEN [locals EXCEPT !.lone = inFlight = {}]
                  ELSE [req[q] EXCEPT !.lone = FALSE]]
    /\ UNCHANGED <<tables, graph>>

ask(kind, pc, id) == [Idle EXCEPT !.kind = kind, !.pc = pc, !.id = id]

fault == faults < MaxFaults /\ faults' = faults + 1

-----------------------------------------------------------------------------
(* upsertTPCollection.                                                     *)

\* Mutant: the publications are not looked at.
mayRename(user, c, row) ==
    /\ collections[c].party = row.party
    /\ isManager(row.party, user)
    /\ collections[c] # row => ~isURNRepeated(c, row)

\* The third party stays; the suffix does if an item of the collection is published.
mayUpdate(user, c, row) ==
    /\ collections[c].party = row.party
    /\ isManager(row.party, user)
    /\ collections[c] # row => ~hasPublishedItems(c) /\ ~isURNRepeated(c, row)

StartUpdate(r, user, c, row) ==
    /\ collections[c] # None /\ mayUpdate(user, c, row)
    /\ start(r, [ask("save", "write", c) EXCEPT !.row = row])
    /\ UNCHANGED faults

\* getThirdParty; an error of the graph is caught and taken for "there is none".
StartInsert(r, user, c, row) ==
    /\ collections[c] = None
    /\ \/ /\ isManager(row.party, user) /\ UNCHANGED faults
          /\ start(r, [ask("save", "urn", c) EXCEPT !.row = row])
       \/ /\ \/ managerOf(row.party) = None /\ UNCHANGED faults
             \/ managerOf(row.party) # None /\ fault
          /\ start(r, [ask("save", "create", c) EXCEPT !.row = row, !.user = user])

\* VirtualThirdParty.create: an error if there is one by now.
CreateVirtualThirdParty(r) ==
    LET t == req[r].row.party
    IN  /\ at(r, "save", "create")
        /\ \/ virtual[t] # None /\ answer(r) /\ UNCHANGED virtual
           \/ /\ virtual[t] = None
              /\ virtual' = [virtual EXCEPT ![t] = req[r].user]
              /\ req' = [req EXCEPT ![r].pc = "urn", ![r].user = None]
        /\ UNCHANGED <<collections, items, curated, graph, faults>>

CheckNewURN(r) ==
    /\ at(r, "save", "urn")
    /\ IF isURNRepeated(req[r].id, req[r].row) THEN answer(r) ELSE goto(r, "write")
    /\ UNCHANGED <<tables, graph, faults>>

\* Collection.upsertWithItemCount: inserts, or replaces the row there is by then.
WriteCollection(r) ==
    /\ at(r, "save", "write")
    /\ collections' = IF fits(collections, req[r].id, req[r].row)
                      THEN [collections EXCEPT ![req[r].id] = req[r].row] ELSE collections
    /\ answer(r)
    /\ UNCHANGED <<items, curated, virtual, graph, faults>>

-----------------------------------------------------------------------------
(* deleteCollection.                                                       *)

StartDrop(r, user, c) ==
    /\ managesCollection(c, user) /\ ~hasPublishedItems(c)
    /\ start(r, [ask("drop", "delete", c) EXCEPT !.todo = {"collection", "items"}])
    /\ UNCHANGED faults

\* Mutant: the trigger deletes the virtual third party with any collection of it.
triggerAlways(c) == [virtual EXCEPT ![partyOf(c)] = None]

\* delete_virtual_third_party_trigger, after the row of c is deleted.
trigger(c) ==
    IF \E d \in Collections \ {c} : partyOf(d) = partyOf(c) THEN virtual
    ELSE [virtual EXCEPT ![partyOf(c)] = None]

DeleteCollection(c) ==
    /\ collections' = [collections EXCEPT ![c] = None]
    /\ virtual' = IF collections[c] = None THEN virtual ELSE trigger(c)
    /\ UNCHANGED <<items, curated>>

\* The curations go with their item: ON DELETE CASCADE.
DeleteItems(gone) ==
    /\ items' = [i \in Items |-> IF i \in gone THEN None ELSE items[i]]
    /\ curated' = curated \ gone
    /\ UNCHANGED <<collections, virtual>>

\* The deletes of the Promise.all, in either order; each may fail alone.
Drop(r) ==
    /\ at(r, "drop", "delete")
    /\ \E what \in req[r].todo :
          /\ IF req[r].todo = {what} THEN answer(r)
             ELSE req' = [req EXCEPT ![r].todo = @ \ {what}]
          /\ \/ what = "collection" /\ DeleteCollection(req[r].id) /\ UNCHANGED faults
             \/ what = "items" /\ DeleteItems(itemsIn(req[r].id)) /\ UNCHANGED faults
             \/ UNCHANGED tables /\ fault
    /\ UNCHANGED graph

-----------------------------------------------------------------------------
(* upsertItem and upsertThirdPartyItem, by id.                             *)

\* An item does not move, and a published one keeps its suffix.
mayReplace(i, row) ==
    /\ items[i].home = row.home
    /\ items[i] # row => i \notin curated

\* Mutant: a new suffix is looked for in the collection of the item only.
isNewInCollection(i, row) ==
    \A j \in itemsIn(row.home) \ {i} : items[j].suffix # row.suffix

isNew(i, row) == ~isItemURNRepeated(i, partyOf(row.home), row.suffix)

\* getCollection refuses an item whose collection is gone.  The catalyst may know
\* the URN besides: any item with a new suffix may be refused.
StartPut(r, user, i, row) ==
    /\ managesCollection(row.home, user)
    /\ items[i] # None => mayReplace(i, row)
    /\ items[i] # row => isNew(i, row)
    /\ start(r, [ask("put", "write", i) EXCEPT !.row = row])
    /\ UNCHANGED faults

\* Item.upsert: a row that was deleted meanwhile is back.
WriteItem(r) ==
    /\ at(r, "put", "write")
    /\ items' = IF fits(items, req[r].id, req[r].row)
                THEN [items EXCEPT ![req[r].id] = req[r].row] ELSE items
    /\ answer(r)
    /\ UNCHANGED <<collections, curated, virtual, graph, faults>>

-----------------------------------------------------------------------------
(* deleteThirdPartyItem.                                                   *)

StartRemove(r, user, i) ==
    /\ items[i] # None /\ managesCollection(items[i].home, user)
    /\ i \notin curated
    /\ start(r, ask("remove", "write", i))
    /\ UNCHANGED faults

RemoveItem(r) ==
    /\ at(r, "remove", "write")
    /\ DeleteItems({req[r].id})
    /\ answer(r)
    /\ UNCHANGED <<graph, faults>>

-----------------------------------------------------------------------------
(* publishTPCollection, for one item.                                      *)

StartPublish(r, user, i) ==
    /\ items[i] # None /\ managesCollection(items[i].home, user)
    /\ start(r, ask("publish", "write", i))
    /\ UNCHANGED faults

\* ItemCuration.create: an error if the item is gone.
CreateItemCuration(r) ==
    /\ at(r, "publish", "write")
    /\ curated' = IF items[req[r].id] = None THEN curated ELSE curated \cup {req[r].id}
    /\ answer(r)
    /\ UNCHANGED <<collections, items, virtual, graph, faults>>

-----------------------------------------------------------------------------
(* removeVirtualThirdParty.                                                *)

\* "Remove a virtual third party that has already been added to the graph"
mayForget(t, user) == virtual[t] = user /\ graph[t] # None

StartForget(r, user, t) ==
    /\ mayForget(t, user)
    /\ start(r, ask("forget", "write", t))
    /\ UNCHANGED faults

RemoveVirtualThirdParty(r) ==
    /\ at(r, "forget", "write")
    /\ virtual' = [virtual EXCEPT ![req[r].id] = None]
    /\ answer(r)
    /\ UNCHANGED <<collections, items, curated, graph, faults>>

-----------------------------------------------------------------------------

\* The next statement of a request fails, and the request with it: there is no
\* transaction, so what it has written stays.
FailStatement(r) ==
    /\ req[r].pc \notin {"idle", "delete"}
    /\ answer(r)
    /\ fault
    /\ UNCHANGED <<tables, graph>>

-----------------------------------------------------------------------------
(* The registry contract, as the graph shows it: external.                 *)

Register(t, user) ==
    /\ Cardinality({s \in ThirdParties : graph[s] # None}) < MaxRegistered
    /\ graph[t] = None
    /\ graph' = [graph EXCEPT ![t] = user]
    /\ UNCHANGED <<tables, req, faults>>

-----------------------------------------------------------------------------

Start(r) ==
    \E user \in Clients :
        \/ \E c \in Collections, row \in CollectionRows :
              StartUpdate(r, user, c, row) \/ StartInsert(r, user, c, row)
        \/ \E c \in Collections : StartDrop(r, user, c)
        \/ \E i \in Items, row \in ItemRows : StartPut(r, user, i, row)
        \/ \E i \in Items : StartRemove(r, user, i) \/ StartPublish(r, user, i)
        \/ \E t \in ThirdParties : StartForget(r, user, t)

Step(r) ==
    \/ CreateVirtualThirdParty(r) \/ CheckNewURN(r) \/ WriteCollection(r)
    \/ Drop(r)
    \/ WriteItem(r) \/ RemoveItem(r)
    \/ CreateItemCuration(r)
    \/ RemoveVirtualThirdParty(r)
    \/ FailStatement(r)

Next ==
    \/ \E r \in Requests : Start(r) \/ Step(r)
    \/ \E t \in ThirdParties, user \in Users : Register(t, user)

Spec == Init /\ [][Next]_vars

-----------------------------------------------------------------------------
(* Properties.                                                             *)

urnOf(i) ==
    IF items[i] = None \/ collections[items[i].home] = None THEN None
    ELSE <<collections[items[i].home], items[i].suffix>>

\* No two items are ever known by one URN, and no two collections, though every
\* request looks for the URN in one statement and writes it in another.
UrnsAreUnique ==
    /\ \A c, d \in Collections :
          c # d /\ collections[c] # None => collections[c] # collections[d]
    /\ \A i, j \in Items : i # j /\ urnOf(i) # None => urnOf(i) # urnOf(j)

loneStep(r) == req[r].lone /\ req'[r] # req[r]

\* A published item keeps its URN, which the catalyst and the contract know it
\* by: unless another request is served meanwhile, none renames or deletes it,
\* its collection or its third party, whatever earlier requests that overlapped
\* or failed have left in the tables.
PublishedKeepURN ==
    [][\A r \in Requests : loneStep(r) =>
          \A i \in curated : urnOf(i) # None => i \in curated' /\ urnOf(i)' = urnOf(i)]_vars

ambiguous ==
    {i \in Items : urnOf(i) # None /\ isItemURNRepeated(i, partyOf(items[i].home),
                                                         items[i].suffix)}

\* findByURNSuffix looks an item up by third party and suffix, without the
\* collection: an upsert that is not disturbed never makes that ambiguous.
SuffixesStayApart ==
    [][\A r \in Requests :
          loneStep(r) /\ req[r].kind = "put" => ambiguous' \subseteq ambiguous]_vars

stranded ==
    {c \in Collections :
        /\ collections[c] # None
        /\ ~\E user \in Users : /\ managesCollection(c, user)
                                /\ c \in getDbTPCollectionsByManager(user)}

\* A collection always has somebody who may manage it, and who finds it among
\* his own: the virtual third party goes with its last collection or once the
\* graph has it, never before, and the two are merged by whoever manages which.
CollectionsKeepManagers ==
    [][\A r \in Requests : loneStep(r) => stranded' \subseteq stranded]_vars

=============================================================================
