# Verification of the builder server

TLA+ models, model-checking runs and machine-checked proofs about the Decentraland
builder server (`src/`, TypeScript, Express, PostgreSQL, S3). The server keeps scene
projects, wearable and emote collections, third party collections, asset packs and the
curations in which a committee reviews what is published.

## 1. The system

One Node.js process (or several of them behind a balancer) serves HTTP requests. A
handler runs to its next `await` without interruption; between two awaits any other
request may run. The only shared state is the database, S3, a few variables of the
process (caches) and the remote services. Handlers use no transactions and no locks: a
handler that reads, decides and writes is three steps, and the hazards of this code are
almost all of that kind. No request is queued or retried; nothing resumes after a crash.

| component | state it keeps | operations | what makes it hard |
|---|---|---|---|
| Third party publication (`Collection.service.ts:156`, `ThirdParty.service.ts`, `SlotUsageCheque/`) | cheques, item curations, virtual collection curations | publish: count slots, check, cheque, curations, rollback | a saga of six awaits undone by hand; concurrent publications |
| Third parties (`ThirdParty.service.ts`, `Collection.service.ts:385`, a trigger) | virtual third parties, URN suffixes | create with a collection, forget, rename | two sources of managers; a URN is searched and then written |
| Third party items (`Item.service.ts:723`, `:510`, `Collection.service.ts:75`) | items, content hashes | upsert, delete item, delete collection | check-then-act against publications; whole-row upserts |
| Curations (`Curation.router.ts`, `Curation.service.ts`) | item and collection curations | PATCH, POST; the newest row is the active one | read-decide-write over two requests; the hash of an item is copied |
| Forum (`Forum.service.ts`, `Forum.router.ts`) | topics of a remote forum, `forum_link` | create, update | remote effect and local link are two steps |
| Standard collections and items (`Collection.service.ts:103`, `:327`, `Item.service.ts:555`) | collections, items, the lock, blockchain ids | upsert, lock, publish, delete | checks against a chain that moves on its own |
| Asset packs and assets (`AssetPack.router.ts`, `Asset.model.ts`) | packs, assets, a cache of the default packs | upsert, delete, read | limits and ownership checked before writes; a cache with its own lock |
| Pools and likes (`Pool.router.ts`, `PoolLike.router.ts`) | pools, likes, the counter `likes` | like, dislike, publish a pool | a counter computed from a read |
| Committee (`Committee/utils.ts`) | a cache with a timer | isCommitteeMember | refresh by several requests |
| Projects, manifests, deployments, shares (`Project/`, `Manifest/`, `Deployment/`, `Share/`) | rows and S3 objects | upsert, delete | a row and an object written together |
| Uploads (`S3/uploads.ts`, `S3/s3.ts`) | S3 objects | store under a random name, copy, delete | uploads of one key that cross, fail or are cut short |
| Thegraph and catalyst clients (`ethereum/api/`) | none | fetch and merge remote with stored entities | the merge decides what is published |
| Proxies: tiers, LAND, NFT, rarity, newsletter, analytics, metrics | none | forward and reshape | - |
| Middleware: authentication, schemas, model checks | none | refuse or pass a request | checks made before the handler reads again |

Interaction: `Collection.router` calls `CollectionService`, which calls the models, the
third party service and, after a publication, the forum; `Item.service` updates the
curations `Curation.router` decides on; `Bridge` joins rows, curations and the remote
entities that the reads and the reviews show.

## 2. Plan

Order of the modules, the most important behaviour first. What is done:

1. `CurationTables`, `ThirdPartyPublication`, `ThirdPartyItems`, `CurationReview`,
   composed by `ThirdPartyWorkflow`: publication, edits, deletes and reviews of third
   party collections over shared tables. The type invariant, two safety invariants of any
   interleaving and five properties of requests served one at a time are proved.
2. `Publication`, the abstract publication, and `ThirdPartyRefinement`, which shows that
   the workflow implements it; the refinement is proved.
3. `Access`, `ThirdPartyViews`, `ThirdPartyReads`, `ThirdPartyApprovals`: who may read what
   and what the endpoints answer, read in every state the workflow reaches. That the answers
   agree, and that the approval data is what the other answers show, is proved.
4. `AssetPacks`: uploads, removals and reads of packs. The type invariant, the ownership
   of packs, their limit and the claims on packs and assets are proved.
5. `DefaultPacksCache` and `CommitteeCache`: the two caches of the process. The safety of
   both is proved, their refresh is checked under fairness.
6. `ThirdPartyRegistry`: virtual third parties, their managers, the URNs of their
   collections and items. The type invariant and all four properties are proved.
7. `StandardCollections`: standard collections and items from the draft to the contract,
   and their forum post; `StandardReads`: what the endpoints answer about them. The types, the
   seven properties of the tables and the two of the reads are proved.
8. `PoolLikes`, composed with `Projects`: projects, manifests, the pools they are published as
   and their likes. The type invariant and all properties are proved, the composition too.
9. `Uploads`, shown to implement `FileStore`: the files that clients send. The refinement and
   the property of the contents are proved.

What is left, the most useful first:

* `updateDCLItemsContent` (`Item.service.ts:884`): un-awaited upserts of whole rows, next to
  the edits of `StandardCollections`;
* the pagination of the graph in `CommitteeCache` (several queries for one answer), and
  `Deployments` (a row per project behind the checks of its owner).

## 3. The third party workflow

### Modules

* **`CurationTables`** - the tables (`items`, `collections`, `contentHash`, `forumId`,
  `cheques`, `itemCurations`, `collectionCurations`) and the queries the handlers send, with
  the cascade of the foreign keys. A row carries the request that wrote it, which is the
  identity the uuid gives it in the database. `clock` counts the readings of `new Date()`,
  each later than the last.
* **`ThirdPartyPublication`** - `CollectionService.publishTPCollection` and the forum
  call of its router, one action for each statement between two awaits: `StartPublish`,
  `CheckSlots`, `FindItems`, `CheckPending`, `CreateCheque`, `CreateItemCuration` (the
  members of the `Promise.allSettled` in any order, each may fail),
  `FinishItemCurations`, `CreateCollectionCuration`, `DeleteCheque` and
  `DeleteItemCurations` (the `catch`), `CreatePost`, `UpdatePost`, `LinkPost`.
  `CrashPublish` ends the process between any two of them.
* **`ThirdPartyItems`** - `upsertThirdPartyItem` (check, whole-row upsert, update of the
  pending curations), `deleteThirdPartyItem`, `deleteCollection` for a third party
  collection: the check for curations, then the deletes.
* **`CurationReview`** - `updateCuration` (PATCH, by committee members and by owners, with
  or without a status) and `insertCuration` (POST) for items and collections.
* **`ThirdPartyWorkflow`** - all of them at once. `MaxInFlight` bounds how many requests
  are served at a time; `Faults` says what may fail (`database`, `rollback`, `forum`,
  `crash`).
* **`Publication`** - what publishing promises, whatever the server has to do for it:
  a publication is `open` until it is `stored`, `refused` or `broken`. While it is open it may
  `Choose` what it is for, `Pay`, `Curate` what it has paid for, `Refund`; `Commit` asks that it
  has paid for all it wanted and has curated all of it that was not deleted meanwhile; `Refuse`
  leaves nothing. `Break` is a crash or a failed rollback. `Delete` stands for everybody else:
  it is the only thing that may touch what a publication stored.
* **`ThirdPartyRefinement`** - the mapping. `statusOfStage` is the status of each stage of
  the request; what is wanted, curated, paid and reviewable is read off the tables, the rows
  that carry the request. `PublicationIsKept` is `Publication`'s specification under it.
* **`Access`** - `Collection/access.ts` and `Item/access.ts`, over the roles a caller has.
* **`ThirdPartyViews`** - the queries of the listings and the merges of rows with curations
  and with the content server (`Bridge.ts`). `deployed` are the items the content server has.
  `idRank` is the order of the random ids, since `findByCollectionId` is sorted by item and
  its first row counts as the curation of the collection.
* **`ThirdPartyReads`** - one operator for each GET endpoint of collections, items and
  curations; its value is the answer. `PublishedEverywhere` and `ReadsAgree` compare the
  answers in the states the workflow reaches.
* **`ThirdPartyApprovals`** - the approval data, which goes by `updated_at` where every other
  read goes by `created_at`. The workflow is extended with the order of `updated_at` of the
  curations of each item (`updatedBefore`, in `TrackedSpec`); as the date is read one step before
  it is written, the order of the writes is that of the dates for `MaxInFlight = 1` only, which is
  what is checked and proved of it.
* **`MCThirdParty`**, **`MCThirdPartyReads`**, **`MCThirdPartyApprovals`** - the instances.

### What is checked

| run | question |
|---|---|
| `tp_publish_concurrent` | two publications, an edit and a delete interleaved, statements failing, and every endpoint read in every state: does a refused publication leave no trace (`RefusedLeavesNoTrace`), do the endpoints agree on each item at any time (`ReadsAgree`) and on what is published once nothing is being served (`PublishedEverywhere`); and the uploads of section 9 |
| `tp_faults` | one publication, an edit, a delete, a reviewer and a review request, two at a time, with failing statements, a failing rollback, a failing forum, a crash at any point: is what is under review paid (`CurationsArePaid`), does the publication implement `Publication` (`PublicationIsKept`), and, under fairness, does no item stay under a review nobody can close (`CuratedBecomesReviewable`) |
| `tp_sequential` | one request at a time, three items in two collections: slots, one open review, approval data of the newest curation, published items kept, one topic, listings that do not fail, decisions on the newest curation only |
| `tp_approved_hash` | violation: assigning a curator to an approved curation replaces its hash |

The properties of the first two runs hold under interleaving. Those of `tp_sequential` hold when
requests are served one at a time, which is what the checks in the handlers were written for.
Each of these is a check followed by a write some awaits later, so two requests served together
can break it: two publications both find the slots free or no pending curation, an edit lands
between the read of the hash and the curation, a delete passes its check before the publication
inserts. The hazards of `PROJECT.json` name each such window in a note and say what
the property beside it does not cover: the code leaves them open, nothing in the repository claims
that they are closed, and a property of requests served one at a time says nothing of them.

`PublicationIsKept` says more than its parts: a publication that is stored wanted no more than
it paid for, and nothing that an edit, a review or another publication does takes a curation
away from it. `PublishedEverywhere` relates three tables that publications write, roll back and
lose to deletes one by one: the cheque is what the approval data asks for, the item curations
what the public reads, the collection curation what the committee reviews.

### Bounds

Two items are enough for a batch of which one create fails and the other does not, and
for an item of a collection that a request does not publish; `tp_sequential` has three
items in two collections, so that slots are shared across collections. One or two
publishers, one editor, one remover, one or two reviewers and a review request cover every
pair of handlers. `tp_faults` has one publication,
because a fault is about one saga and what it leaves to the others. Two hashes
tell the content at publication from the edited one; `tp_faults` and `tp_publish_concurrent`
have one, since neither their properties nor any guard of the handlers read a hash. `MaxItems` is the number of slots
bought: two, so that either collection fits and both do not. `clock`
is bounded because each request is sent once. `tp_sequential` sends any four of its seven
requests, in any order (`MaxRequests`): a publication, a decision, a new review request and a
decision on it are four. The reads take one item as deployed at a time
in `ReadsAgree`, none in `CommitteeCanListItems`; each role asks for itself.

`CuratedBecomesReviewable` is claimed with at most two requests served together. With three, an
item that an edit writes back while its collection is being deleted may get a curation from a
review request, and PATCH refuses that curation for ever, since it looks for a collection that
is gone.

### Fairness

`FairSpec` adds weak fairness of the steps of the server as a whole: as long as a request is
being served some promise settles, with a result or with an error, and its handler goes on. Each
request is sent once and has an end, so each comes to its turn. The node event loop guarantees it
while the process lives, so `CuratedBecomesReviewable` is claimed of behaviours without a crash.
Requests are not assumed to arrive.

### What is proved

`ThirdPartyWorkflow_proofs` holds for every finite set of items, any collections, any
number of requests of every kind and any set of faults.

* `TypeCorrect` - `Spec => []TypeOK`. `TypeOK` is not inductive alone: a create waiting
  in the batch of a publication must be for an item that was found (`TodoWasFound`), or
  the curation it inserts could have a hash that is no hash. `TypeInvariant` is the
  conjunction. No run checks `TypeOK`, since it is proved.
* `RefusalIsClean` - `Spec => []RefusedLeavesNoTrace`. The invariant `TraceByStage` says,
  for each stage of a publication, in which tables there is no row of it. Every other
  request only removes rows or writes rows of its own, which is one lemma per handler.
* `PaidCurations` - `Spec => []CurationsArePaid`. The invariant `LedgerByStage` relates
  what a publication found, the quantity of its cheque and the curations it inserted; the
  cardinality facts come from `FiniteSetTheorems`, and `FiniteAssumption` gives finite
  sets of items.

The second half of the module is about requests served one at a time. The theorems assume
`MaxInFlight = 1` and nothing else of the constants, so faults, failed rollbacks and crashes
included (`OneTopic` also assumes that no request is cut short). `Exclusive` says that whoever
is served is alone (`MovesAlone`: a step is of the one request in flight or starts the first);
so what it has read still holds when it writes, which `SerialInv` states stage by stage and
request by request:

* for the tables (`TablesHold`): curations are of stored items, no two of an item share their
  date, and only the latest may be open;
* for a publication (`PublisherHolds`): the slots it was granted are enough for all it may put
  under review, its items are of its collection, no open review is in its way, and `now` is later
  than every curation it will follow; after its batch each item has its curation
  (`StoredWhole`);
* for a delete (`RemoverHolds`): nothing it deletes is under review; for a decision
  (`ReviewerHolds`) and a review request (`SubmitterHolds`): what is said of the latest curation
  is still so.

`SerialInvariant` is `Spec => []SerialInv`, with one lemma per handler. It gives `SlotsKept`,
`OneOpenReview`, `PublishedKept` and, as an action property, `LatestDecided`. `OneTopic` adds
`TopicsLinked`: a topic that is linked is known to the next publication of the collection.

`ThirdPartyRefinement_proofs` adds, for the same constants and also for behaviours with
crashes and failed rollbacks:

* `PublicationRefined` - `Spec => PublicationIsKept`: the initial states of the workflow map to
  those of `Publication`, and every step to one of its steps or to a stutter. A lemma for each
  action says which: `FindItems` is `Choose`, `CreateCheque` is `Pay`, `CreateItemCuration` is
  `Curate` when it succeeds, the statements of the `catch` are refunds and stutters; edits and
  reviews are stutters, because they neither add nor remove a curation that a publication wrote;
  what deletes take away is `Delete`.
* `RefinementInvariant` - the invariant behind it: the types, `TraceByStage` and `LedgerByStage`
  as above, what a delete has looked up at each stage (`TargetsByStage`), the foreign key of the
  curations (`CuratedItemsExist`), and what is left of a batch (`BatchByStage`). The foreign
  key is why deleting the items of a collection takes all their curations, as `Delete` asks.

The second half of that module is about the reads:

* `ReadersAgree` (`ReadsAgree`), for any requests, faults and crashes. A listing goes by the
  latest curation of each item, a detail by the first row of an index, a filter by the items
  that have one; that they tell the same follows from `ReadsInv` (`ReadsInvariant`): no row is
  dated later than the clock, each is of a request that writes such rows, and the
  curations of a collection that is stored are followed by its review from the stage
  on at which `PublicationRefined` calls it reviewable.
* `PublishedIsTold` (`PublishedEverywhere`), for any requests but review requests
  (`Submitters = {}`), and for those too when requests are served one at a time: a curation that
  is sent while the publication of its item is being rolled back may outlive it, and then an item
  is published of a collection without a cheque. One that is sent after it is over stands beside
  the curation of a publication (`PublishedFirst`). Once nothing is
  served `CurationsArePaid` gives each curation of a publication its cheque, and the
  invariant gives it its review.
* `ItemsAreListed` (`CommitteeCanListItems`), for requests served one at a time: no item is
  stored without its collection, but while its delete is on its way (`ItemsListed`).

That a set of rows has a first and a last one by date (`LeastNatural`, `GreatestNatural`) comes
from the well-founded order of the naturals.

The last part is about the approval data, of requests served one at a time (`TrackedSpec`):

* `ApprovalsAreLatest`, in every state and whatever fails: the row the approval data takes of an
  item, by `updated_at`, is the one every other read takes, by `created_at`. It needs that the
  curations of an item are updated in the order they are created in (`UpdatedAsCreated`,
  `UpdatesInvariant`). A step keeps that because a row that stays keeps its date and a row that is
  inserted or decided on is the latest of its item (`RowsTracked`): an insert because it is open
  and only the latest may be (`LatestIsOpen`), a decision because of what its request looked up
  (`ReviewerHolds`).
* `ApprovalsAreNewest` (`ApprovalDataIsNewest`), when no request is cut short (`"crash"` is no
  fault) either. `ApprovalsInv` (`ApprovalsInvariant`) adds that an open review is of the content
  of its item, unless the edit that wrote it has still to carry it over (`OpenIsCurrent`), and
  what each request has read of that content (`HashesAreCurrent`). The hypothesis is needed: an
  edit cut short between its two statements leaves an open review with the hash of the content
  before it, and TLC finds that state when `tp_sequential` is given this fault.

Every invariant and action property of the runs of this part is stated by a theorem. Liveness
(`CuratedBecomesReviewable`) is model-checked only, being out of the prover's reach.

### Left out

The wrapper `updateDCLItemsContent` (section 11), the branch of `POST /collections/:id/post`
for third parties (the same service call as after a publication), third parties and URNs
(section 4), pages, sorts and search terms of the listings, mappings. Who is assigned to a
curation is a parameter of the filters by status and no part of the state. The signature of the
cheque is opaque: any cheque that reaches the handler is valid. The schema would let a body set
the column `is_published` of a row; clients send what the server has told them, which is false of
a row (`spec/mocks/collections.ts`), and the views take it for that.

## 4. Third parties and URNs

A URN of an item is the id of its third party, the suffix of its collection and its own
suffix. **`ThirdPartyRegistry`** models who may write which of them: `save` and `drop` of a
collection, `put` and `remove` of an item, `publish` (only the curation, which makes the URN
of an item final) and `forget` (`DELETE /thirdParties/:id`). State: the rows of
`collections` and `items`, the items with a curation, `virtual` (the manager in
`virtual_third_parties`), `graph` (the manager the graph knows). `getThirdParty` asks the
graph and falls back on the table, which is `managerOf`. The first collection under an id
nobody knows creates a virtual third party (`CreateVirtualThirdParty`); a trigger deletes it
with its last collection (`trigger`); `Register` is the contract taking it over.

The reads of a handler that precede its first write are one step (`Start...`), then each
write is one. A request that overlaps it writes between the two, which is what reads further
apart would give as well: what was read is old in both. `StartInsert` keeps `CheckNewURN`
apart, because a write (the virtual third party) comes before it.

Any statement may fail (`FailStatement`): the request ends and what it has written stays.

`tpr_registry` has two of everything, two requests at a time and one failure. The graph comes to
have one of the third parties (`MaxRegistered`), before, between or after any request, so that a
registered one meets a virtual one; two registered ones share neither rows nor managers' rights.
Two users, one of whom sends requests: the third parties of the other are those it may not touch.
What it shows:

* `UrnsAreUnique` under any interleaving. The handlers look for a URN and write it later;
  what holds is the pair of unique constraints.
* `PublishedKeepURN`, `SuffixesStayApart` and `CollectionsKeepManagers` for a request that
  is served alone (`lone`, a ghost), from every state that overlapping and failing requests
  can leave behind. The last one is about the trigger and `forget`: neither takes the manager
  away from a collection that stays, and one who may manage it also finds it when he lists his
  own (`getDbTPCollectionsByManager`, over `getThirdParties`, which merges the third parties of
  the graph with the virtual ones).

Some states it reaches are worth knowing. An error of the graph is caught at
`Collection.service.ts:451` and read as "no such third party", so that an outage creates a
virtual third party beside the registered one; the graph is asked first, so this changes
nobody's rights, but the virtual row stays, and he who made it goes on listing collections
that he may not manage if the graph names another manager. And a collection whose delete failed for
its items, created again under the same id, finds them again; a suffix may then be found
twice in one third party, which `SuffixesStayApart` does not blame on the upsert of an item.

`ThirdPartyRegistry_proofs`, for any number of users, third parties, collections, items,
requests and failures:

* `RegistryTypeCorrect` - `Spec => []TypeOK`, with curations that always have their item.
* `RowsInvariant` - rows of collections and of items are unique (`RowsAreUnique`). It is
  inductive alone: an upsert writes only a row that fits, whatever was read before.
* `URNsIdentify` - `Spec => []UrnsAreUnique`. Equal URNs have one collection row, hence one
  collection, hence one item row, hence one item.

* `URNsAreKept`, `SuffixesAreKeptApart`, `ManagersAreKept` - the three properties of requests
  served alone, `PublishedKeepURN`, `SuffixesStayApart` and `CollectionsKeepManagers`. The
  invariant (`ChecksStayTrue`) says of a request that is served alone that nobody else is, and
  that what it checked before its first write still holds (`LoneHolds`). It asks nothing of the
  tables but their types: they may hold whatever earlier requests left.

All of this component is proved. Left out: the flag
`isProgrammatic` (`PATCH /thirdParties/:id`), PUT of an item by URN (it keeps the suffix of
the row it finds), the catalyst (it may refuse a new suffix: any put may be refused).

## 5. Asset packs

**`AssetPacks`** models `PUT` and `DELETE /assetPacks/:id` and the reads. An upload is
`StartUpload`, then one action for each statement: the owner, the ids of the body against other
packs, the pack, its assets (cut at the limit), the deletes, the row of the pack, the upserts of
the assets in any order. Rows: `owner`, `deleted`, `packOf`; `writer` is the user whose request
wrote the content of an asset. `MayFail` lets any statement fail and leaves what was written
before. An answered request makes room for another, so behaviours do not end.

A read is an operator, and its value the set of the answers it may give: a query with a limit and
no order returns any `MaxAssets` of the assets (`findByAssetPackId`) or any `MaxPacks` of the
packs (`findByEthAddressWithAssets`). `getAssetPacks` adds the default packs, which come from a
cache and so may be any subset of those that are stored (section 6).

`ap_concurrent` has two uploads and a removal over two packs and two assets, one stored;
`MaxAssets` is 1 so that two assets exceed it, `MaxPacks` is 1 so that two packs do. One user is
the default user, and one pack is from before the split date, when nothing was limited.
`StoredPacksAreTheirOwners` holds under any
interleaving: once a pack has an owner, the check on the first read covers all the later
writes. The other three are claimed while requests were served one at a time (`overlapped`,
a ghost, is false): two first uploads of a pack or of an asset find it unclaimed and the
later one takes it; two uploads together exceed the limit. `UploadIsServed` is about what comes
back: after an upload that was answered with success its owner reads exactly what he sent, with
the pack and in his list, also after uploads that failed half way, and nobody else reads it
unless it is a default pack. It does not cover recent packs of the default user. He is not
limited, but the query of one pack cuts them as it does those of others: a read shows, and the
next upload deletes, `MaxAssets` of them. Uploading a deleted pack is answered with success and
the pack stays deleted.

An upload counts the assets it keeps twice (`finalAssetsCount` adds the stored assets and
the body, and takes off only the ones to delete), so it may refuse a body within the limit;
the model computes the same number.

`AssetPacks_proofs` proves, for any number of packs, assets, users and requests,
`PacksTypeCorrect` and `OwnersKeepPacks` (`Spec => []StoredPacksAreTheirOwners`). The
invariant (`UploadInvariant`) adds that an upload in flight on a pack that had an owner from
the start is of that owner: the first read let no one else pass, and the owner cannot have
changed since, so the writes that come after it need no check of their own.

`PacksWithinLimit` and `ClaimsKept` (`PackWithinLimit`, `ClaimsAreKept`) rest on `LoneInvariant`:
as long as requests were served one at a time, an upload in flight is alone, and at each stage
what it has checked holds (`UploadHolds`): it may write the pack, no asset of the body is in
another one, and, where the limit applies, what will be stored in the pack is within the body.
An upload that fails half way leaves fewer assets than it was allowed to. `StoredAssumption` asks
the same of the rows the server starts with: a pack that is not stored has no assets, and a recent
pack of an ordinary user is within the limit. `UploadIsServed` is model-checked only. Left
out: the column of the thumbnail of a pack; files are in section 9.

## 6. The cache of the default asset packs

**`DefaultPacksCache`** models `getDefaultAssetPacks` (`AssetPack.router.ts:391`): the
response, the time it was fetched, the flag `isUpdatingDefaultAssetPacksCache`, the promise
others wait for. A handler runs to its next await at once: `Ask` is everything up to the
wait or the fetch, `FetchSucceeds` and `FetchFails` the continuation of the one that fetches,
`Resume` that of one that waited. Continuations run before other events. `Change` is a new
version of the default packs, `Expire` the passing of the time the cache is valid.

`dp_cache` has three requests, three versions (one without any default pack) and two
failures. Nobody is answered the `null` the module starts with; two requests never load the
packs at the same time, also those that waited and still hold "not cached"; and what is in
the database is served some day, unless a fetch fails. A failing fetch leaves the flag
raised for good, since nothing lowers it outside the success path: after it nobody fetches
again, and the cache serves what it had, or the rejected promise, until the process is
restarted.

Fairness: queries settle and woken continuations run (weak); clients go on asking and the
time of the cache goes on passing (strong, since both are disabled now and then). The flag
is raised and lowered in between, which is why weak fairness of asking is not enough.

`DefaultPacksCache_proofs`, for any number of requests, versions and failures:
`AnswersAreNeverEmpty` and `FetchesAreExclusive`, from `CacheInvariant` (whoever fetches has
raised the flag and is alone; a woken request finds a response). The refresh is liveness, model-checked only.

## 7. The cache of the committee

**`CommitteeCache`** models `isCommitteeMember` (`Committee/utils.ts`): `Ask` (fetch if
there is no committee or a refresh is asked for), `Query` (the graph reads its committee),
`Receive` (store, lower the flag, start a timer), `Fail`, `Tick` (a timer raises the flag).
Requests may fetch together; each answer starts a timer of its own, `MaxTimers` bounds them.

`cc_refresh`, three requests, three versions and three timers: a known committee always has
a timer running or its refresh asked for (`RefreshIsPending`), and once the committee stops
changing it is the one the server has (`CommitteeSettles`), although answers overtake each
other. Fairness: timers fire (weak); somebody goes on asking, and the graph answers again
and again (strong). Both are assumptions about the environment that the code has no means
to replace: without a request nothing is refreshed, and a graph that fails always leaves the
old committee in place. `RefreshNeverLost` proves `RefreshIsPending` for any number of
requests and timers; it is inductive with the types.

## 8. Projects, pools and likes

**`PoolLikes`** models `likePool`, `dislikePool` and the part of a publication
(`Pool.router.ts`) that touches the likes, one action for each statement: count the likes of the
user and those of the pool, create or delete, write the counter. `rows` are the rows of
`pool_likes`; those of a user are told apart by a number, since no key forbids two. With `MayFail`
any statement may fail (`FailClick`, `FailPool`); nothing is rolled back, so a click that fails
at its last statement leaves its row without the counter, which the ghost `behind` notes.

**`Projects`** composes it with a project, its manifest in S3 and its pool. A request of the owner
is of a kind: `save` (the row and `manifest.json` in one `Promise.all`), `edit`, `delete`,
`unsave` (the manifest goes) and `publish` (the rows and the manifest are read together, then the
pool's row and `pool.json` written together). The row of a project keeps the `statistics` of its
scene. A save takes all of them from the scene; an edit writes the `layout` alone (`cols` and
`rows`, which its schema requires) and keeps the `counts`, so that a row may have the statistics of
two scenes. With `MayFail` a statement fails and the others of its `Promise.all` go on; a crash is
the case where all that are left fail. A read of the manifest that fails is taken for a file that
is not there (`S3Model.readFile` swallows the error), which publishes the pool without its file.

`pl_projects` serves any two requests at a time, of the owner (two, with two scenes) and of two
users who click, any statement failing:

* `DeletedStaysDeleted` - a project that is deleted stays so, and neither it nor its manifest is
  served again: the routes of the saves do not ask whether it is, an upsert leaves the flag alone.
* `LoneRequestsRepair` - saves, edits and publications that cross or fail halfway leave a row next
  to the file of another scene; the next save makes the project its owner reads whole, a
  publication after it the pool that everybody reads.
* `LikesAreCounted` - the counter never falls below zero (`Math.max`), whatever overlaps or
  fails. While requests come one at a time each user has one like, and once none is being served
  the counter is their number, unless the last click that wrote its row failed before the
  counter: row and counter are two statements without a transaction, so this needs no overlap.
  Of requests that are served together, the later counter may be the older count, a publication
  writes back the likes it read, and one user may get two rows: `docs/database-schemas.md:347` says
  a primary key enforces one like per user; a migration dropped it.
* `LoneLikeRepairs` - the next like that nobody disturbs and that does not fail leaves the counter
  right, since it counts rows, also those of clicks that failed.

Two requests at a time are what one statement of another request between two statements of a
request needs. A second user is what the count of one must not miss, two clicks at a time leave one
user two rows. A click reads nothing of a project but that it has a pool, and nothing but a
publication writes what it reads; so clicks are let in where the project is stored and
published whole, and served with each other and with publications
(the constraint `ClicksAreOnWholePools`).

`Projects_proofs`, for any number of users, requests, scenes and clicks: `TypesKept`
(`Spec => []TypeOK`), `DeletionStays` and `LoneRequestsRepairs` (`DeletedStaysDeleted`,
`LoneRequestsRepair`). The last one rests on `LoneRequestsProgress`: a request that nobody
disturbs has, at each stage, stored the part of the scene that is not left to do
(`LoneProgress`), whatever row and file it found.

`LikesStayCounted` (`LikesAreCounted`) and `LoneLikesRepair` (`LoneLikeRepairs`) are proved of
`LikesSpec`, the likes by themselves, and hold of a pool with its project by `PoolsKeepLikes`
(`Spec => LikesSpec`); any click may fail at any statement. They
rest on `LikesInv`, which says what a click knows of the rows: `AloneCounts` of one that nobody
disturbs, `SerialCounts` of all of them as long as none overlapped, publications included. The
number of rows after a create or a delete is a lemma each (`CreateCounts`, `DeleteCounts`).
`LikesAssumption` asks only that a click is no publication and that there is a user.

Left out: the columns a client writes (titles, the thumbnail), coordinates, pages that format a
shared project. The files of a project are in section 9.

## 9. Uploads

Every file a client sends goes through multer and the storage of `S3/uploads.ts`. The key of a file
is a name from the URL and the form (`named`: media and crdt of a project, the thumbnail of a
pack) or the hash of what is in it (`contents`: the files of items and assets, the storage). The
hash is known once the stream has been read, so a file is stored under a random name, copied to
its key, then deleted.

**`Uploads`** has one action for each of these steps of each part of a post (`UploadFile`,
`CopyFile`, `DeleteFile`), each of which may fail (`FailPart`); multer waits for all parts, and
the handler then answers, or fails itself (`AnswerPost`). Keys are shared: two posts may send
different files of one name, or the same file under two. Nobody knows the random name of a post
that has ended, so an object it left there is forgotten. A crash is a post all of whose remaining
steps fail.

**`FileStore`** is what uploads promise: the files of a post get under their keys one by one, each
whole and at once, from those that were sent with it, while the post is being served; it is accepted
when all of them are there. In the mapping what is under the keys is the store, and a part waits
until its copy.

`tp_publish_concurrent` has two posts of either kind, with two fields and two files. Rows and files
share nothing, so in `MCThirdPartyReads` a behaviour keeps to the publications or to the uploads:

* `UploadsAreAtomic` - the uploads implement `FileStore`, whatever crosses or is cut short. It rests
  on the random name being of one part of one post, and on the answer waiting for the move.

`ContentIsKept` is what this says of a hash: what was served once under it is served for ever, so that
the answer may be cached for good, as `addInmutableCacheControlHeader` says. It has a theorem and no
run, since `FileStore` has no other file for the key.

Two posts are what a crossing needs, and one after the other what a second upload of a key needs; a
post is sent once. Two fields are what it takes for one part to fail and the other not, two files to
tell what is under a key.

`Projects_proofs` ends with the theorems of the uploads, for any posts, fields and files:
`UploadsKeepTheirOwn`, the invariant (`UploadTypeOK`, and `ObjectsAreOwn`: a part that is stored
has its own file under its random name, nothing but what was hashed is under a hash),
`UploadsImplementStore` (`UploadsAreAtomic`) and `ContentsAreKept` (`ContentIsKept`).

Left out: the guards of the routes, two files of one name in a body, and the column of the
thumbnail. A file over the size limit is stored as far as it was read and its post fails; `Bytes`
has such a beginning as a file of its own.

## 10. Standard collections

**`StandardCollections`** models the draft, the lock, the contract and the ids of standard
collections and items: `save`, `drop`, `put`, `remove`, `publish` and `post` requests, one action
for each await, and `Lock`. `CheckPut` is the decision of `upsertDCLItem`: who may edit an
item that is new, an orphan, in a draft, in a published collection, moved to another one.
Managers are those of the contract once the graph has it, and before that those of the row
(`isManaged`); who those are is a constant (`RowManagers`), since a save checks nothing of them.
`AskGraph` and `UpdateItem` give the ids of the contract to the items, one update each.
`StartPost`, `CreatePost` and `LinkPost` are `POST /collections/:id/post` (`Forum.router.ts`):
the link is read, the forum is asked, the link is stored.
Outside the server: the client sends its transaction while its lock is active
(`SendTransaction`, with the items in the order it sees), the chain mines it, the graph
indexes it later, a lock expires after a day. `isDCLPublished` asks the items, the chain and
the graph, as the code does.

The ghost `mishaps` notes what the handlers do not guard against: `straddle` (a request in
flight when the lock was set, or when the contract was mined without one), `late` (the lock
expired before the transaction was mined), `unlinked` (a topic that was not linked, or a save
that wrote another link than the stored one). Each property says which it cannot stand, and
TLC shows that it stands the others.

**`StandardReads`** - the GET endpoints over these tables, the chain and the graph, with the
merges of `Bridge.ts`: an item of a collection the graph knows is merged with the remote item at
the place the row stores. `approved` are the contracts the committee has approved on chain.

| run | question |
|---|---|
| `dcl_lifecycle` | one request of every kind at a time, two collections, two items, two users (one a manager): what is on the chain is stored (`OnChainIsStored`), published items stay in place and with the owner of their collection, and in every state the endpoints agree on each item (`ItemViewsAgree`: never the remote data of another one) and on each collection (`CollectionViewsAgree`) |
| `dcl_concurrent` | two requests to save, edit, publish or post one new collection, interleaved at every await, updates and the forum failing: are the ids those of the contract, does no request lift the lock, is a topic linked and does it stay so |
| `dcl_rarity` | violation: an edit with a null rarity and then another change the rarity of a published item, which a comment says is prohibited |

What they show: the lock and the three sources of `isDCLPublished` leave no gap between the
transaction and the graph, as long as the lock outlives the transaction and no request began
before it (`docs/database-schemas.md:389` says a locked collection cannot be modified until
it is published; the code lets the lock run out after a day). Ids are places by `created_at`
on the server, and they stay the places of the contract through edits, failed updates and
retries. Two posts that race create two topics of which one is linked; a save that was sent
before the post takes the link away again, unless the collection is published. A collection that
is deleted half-way (one delete fails) leaves items nobody may
delete any more. Bounds: two collections for moves and for two contracts' places, two items
for an order, two values of the data of a collection so that a save changes the contract
address (told apart only for collections that can be deployed, `dataFor`), `MaxInserts` for items
created, and `MaxMishaps`: a behaviour has mishaps of one kind at most, as often as they occur,
because each property names the kinds it cannot stand one by one. `dcl_lifecycle` does not let statements fail: `drop`
failing halfway is the case named above, and `dcl_concurrent` covers publish.

`StandardCollections_proofs`, for any number of collections, users, kinds of mishaps and failing
updates, and any finite number of items and overlapping requests (`StandardAssumption`;
`StoredAssumption` says that the rows the behaviour starts from are drafts in collections of their
owners, with distinct stamps):

* `LocksAreNotLifted` (`LockIsNotLifted`), from `CollectionsStayFit`: `toDBCollection` leaves the
  lock out, so that a save writes the lock that is stored and not the one it has read.
* `TypesHold` - `Spec => []TypeInv`: types of rows, locals and transactions, and `StampsHold`:
  no two items share a `created_at`, which is what makes the order of the items of a collection
  one (`inOrder`).
* `FenceIsKept` - `Spec => []FenceInv`. A collection is `Fenced` while it is locked and from
  then on deployed as it is stored. `FenceHolds` says, handler by handler (`Holds`), what the
  requests in flight can still do to a fenced collection: the next check refuses them, or what
  they write leaves it alone. It is inductive because a lock set while somebody is in flight, or
  a contract mined without one, is a `straddle`. `ChainHolds` follows: a transaction has
  the items of the collection in the order the server keeps. This gives `ContractsStayStored`
  (`OnChainIsStored`).
* `NumberedItemsAreSettled` - ids are given only in a collection that is deployed as it is
  stored, and a publication or an edit that has read an id is of such a one
  (`NumberedAreSettled`). This gives `PublishedItemsStayInPlace` (`PublishedStaysInPlace`).
* `IdsAreOfTheChain` (`IdsMatchChain`), from `IdsAreIndexes`: the order a publication has found
  is that of the contract, and an edit writes back the id it has read.
* `TopicsAreLinked` (`TopicIsLinked`), from `TopicsHold`: a topic without a link has a post in
  flight that is about to link it. `LinksOfContractsStay` (`PostStaysLinked`), from the fence.
* `ItemsAreOwners` (`ItemsAreTheirCollectionsOwners`), from `OwnersHold`: what a request that is
  alone has read of owners is still so, and a `drop` half-way has the collection or its items
  still to delete.

* `ItemsAreTold` (`ItemViewsAgree`), with one request and no failing statement, as in
  `ItemsAreOwners`: the listing by owner misses an item that is not its collection's owner's. The
  rest needs only `IdsAreIndexes`: an item with an id is the one the contract has at that
  place (`NumberedIsToken`), the only one with that id (`TokenIsOfOne`), and the graph has
  the contract by the time an id is stored, so that every merge shows it (`MergedByNumber`).
* `CollectionsAreTold` (`CollectionViewsAgree`), with one request: the listings look for an item
  with an id, or for one without. `ItemsAreNumberedAsOne` is the invariant behind it: but for a
  publication that is giving them and still has an update for each item that lacks one
  (`CoversItems`), all items of a collection have an id or none has. An edit that overlaps with a
  publication can write back that an item has none, hence the one request.

Left out: names (`isValidName`, unique names), `urn_suffix`, mappings and metadata, the minters
(`isMinter` goes by the column alone, and no state has it), the terms of service, the curation
created by publishing, which the client posts by itself. The files of items are in section 9.

## 11. Not modelled

* `updateDCLItemsContent` (`Item.service.ts:884`): when a standard collection is approved, its
  smart wearables are upserted as whole rows with a new path, without waiting for it. It is next
  in the plan.
* Deployments: one row per project, behind the same checks of the owner, read by nothing else.
* `removeCoordsFromProjects`, `isProgrammatic`, the thumbnails of packs: each writes one column
  that no modelled check reads.
* `Bridge.consolidateCollections`, which nothing calls.
* The proxies (tiers, LAND, NFT, rarities, newsletter, analytics, metrics) keep no state.
* Pages, search terms and sorting of listings; names and prices of what they show.
* Authentication is what guards of the `Start` actions assume: the user of a request is who
  signed it; schemas are the sets the inputs are taken from. Migrations, the data warehouse and
  logging have no behaviour to check.

## 12. Code and documents

Two violation runs show where the code does not do what the repository says of it:
`tp_approved_hash` and `dcl_rarity` (see `findings` in `PROJECT.json`). Smaller divergences met
while modelling; the models do what the code does:

* `Collection.model.ts:235` says a listing has only the published collections or only the
  unpublished ones; `getPublishedJoinStatement` puts a third party collection with one curated and one uncurated
  item in both.
* `Bridge.ts:64` speaks of the last curation of a collection; the query is sorted by item, so it
  is the newest curation of the item with the smallest id. `getTPItem` takes it for that of the
  item asked for, which shows an uncurated item of a curated collection as published.
* `GET /items` reads all curations, in no order, where other reads take the newest of each item.
* The filter `to_review` lists third party drafts too; a standard collection that is approved on
  chain and has a pending curation nobody is assigned to is under no status.
* A manager of a published standard collection may list its items, but not read one of them that
  is not published by its id.
* A deleted project is still shown by `GET /share`, and `GET /pools/:id/manifest` still serves its
  pool.
* `getItemContents` answers 500 for an item that is missing.
* `uploadFiles` looks for a file whose `fieldname` is `thumbnail`; `S3/uploads.ts:79` has put the
  key of the object there, so the column of the thumbnail is never written by it.
* `insertItemCuration` and `insertCollectionCuration` return a promise without awaiting it, so
  their `catch` never maps its error.

Recursive operators,
enabledness and liveness are outside what the prover handles; all modules are written
without `RECURSIVE`, so that theorems about any of them can be added.
